---------------------------- MODULE MprisPlayers ----------------------------
(***************************************************************************)
(* Which players the mpris plugin knows (plugins/mpris):                   *)
(* bus-watch-namespace.c watches the session bus for names in a namespace, *)
(* by the signals of changes of owners and by asking for the names that    *)
(* exist and for the owner of each; csd_mpris-manager.c keeps the players  *)
(* in a queue, the one that was run last at its head.  Signals and answers *)
(* of the bus arrive in the order in which it sent them.                   *)
(***************************************************************************)
EXTENDS SequencesExt, Integers

CONSTANTS
  Player,    \* names in the namespace
  NoPlayer,
  MaxStarts, \* bound on the starts of the plugin, hence on the watchers
  MaxMoves   \* bound on the changes of names' owners

VARIABLES
  on, begun, \* activated; starts so far
  owned,     \* names that have an owner
  moves,     \* number of changes so far
  asks,      \* calls the bus has yet to answer: [id, for: a name, or NoPlayer for all names]
  inbox,     \* its answers and signals
  nextid,    \* namespace_watcher_next_id
  watcherid, \* namespace_watcher_id of the manager
  watcher,   \* of each id: "none", "connecting", "watching" or "stopped"
  knows,     \* names of each watcher
  playerq,   \* media_player_queue
  latest     \* history: the player that was run last, while nothing else was under way

watchvars == <<asks, inbox, nextid, watcher, knows>>
vars == <<on, begun, owned, moves, watchvars, watcherid, playerq, latest>>

Id == 0..(MaxStarts - 1)

Init ==
  /\ on = FALSE /\ begun = 0
  /\ owned \in SUBSET Player
  /\ moves = 0
  /\ asks = {} /\ inbox = <<>>
  /\ nextid = 0 /\ watcherid = 0
  /\ watcher = [i \in Id |-> "none"] /\ knows = [i \in Id |-> {}]
  /\ playerq = <<>>
  /\ latest = NoPlayer

Watching == {i \in Id : watcher[i] = "watching"}

(* Nothing is under way, and the watcher of the plugin watches.            *)
Settled == on /\ asks = {} /\ inbox = <<>> /\ watcher[nextid - 1] = "watching"

-----------------------------------------------------------------------------
(* The bus: a name gets an owner, loses it, or passes to another.          *)
OwnerChanges(n, lost, gained) ==
  /\ moves < MaxMoves
  /\ moves' = moves + 1
  /\ lost = (n \in owned) /\ (lost \/ gained)
  /\ owned' = IF gained THEN owned \cup {n} ELSE owned \ {n}
  /\ inbox' = IF Watching = {} THEN inbox
              ELSE Append(inbox, [to |-> Watching, name |-> n, lost |-> lost, gained |-> gained, names |-> {}])
  /\ latest' = IF gained THEN (IF Settled THEN n ELSE NoPlayer)
               ELSE IF latest = n THEN NoPlayer ELSE latest
  /\ UNCHANGED <<on, begun, asks, nextid, watcher, knows, watcherid, playerq>>

(* It answers ListNames, or GetNameOwner.                                  *)
BusAnswers(ask) ==
  /\ ask \in asks
  /\ asks' = asks \ {ask}
  /\ inbox' = Append(inbox, [to |-> {ask.id}, name |-> ask.for, lost |-> FALSE,
                             gained |-> ask.for \in owned,
                             names |-> IF ask.for = NoPlayer THEN owned ELSE {}])
  /\ UNCHANGED <<on, begun, owned, moves, nextid, watcher, knows, watcherid, playerq, latest>>

-----------------------------------------------------------------------------
(* csd_mpris_manager_start, bus_watch_namespace                            *)
Start ==
  /\ ~on /\ begun < MaxStarts
  /\ on' = TRUE
  /\ begun' = begun + 1
  /\ playerq' = <<>>
  /\ watcher' = [watcher EXCEPT ![nextid] = "connecting"]
  /\ watcherid' = nextid
  /\ nextid' = nextid + 1
  /\ latest' = NoPlayer
  /\ UNCHANGED <<owned, moves, asks, inbox, knows>>

(* got_bus: a watcher that gets no connection is stopped.                  *)
GotBus(i) ==
  /\ watcher[i] = "connecting"
  /\ \/ /\ watcher' = [watcher EXCEPT ![i] = "watching"]
        /\ asks' = asks \cup {[id |-> i, for |-> NoPlayer]}
     \/ watcher' = [watcher EXCEPT ![i] = "stopped"] /\ UNCHANGED asks
  /\ latest' = NoPlayer
  /\ UNCHANGED <<on, begun, owned, moves, inbox, nextid, knows, watcherid, playerq>>

(* names_listed: the answer to a watcher that was stopped is cancelled.    *)
NamesListed ==
  /\ inbox # <<>> /\ Head(inbox).name = NoPlayer
  /\ asks' = asks \cup [id : Head(inbox).to \cap Watching, for : Head(inbox).names]
  /\ inbox' = Tail(inbox)
  /\ UNCHANGED <<on, begun, owned, moves, nextid, watcher, knows, watcherid, playerq, latest>>

(* mp_name_appeared, and mp_name_vanished: g_queue_find_custom and         *)
(* g_queue_remove take the first, if there is one.                         *)
Appeared(q, n) == <<n>> \o q
Vanished(q, n) == IF Contains(q, n) THEN RemoveFirst(q, n) ELSE q

(* Mutant: a name is added to the queue as often as it is heard of.        *)
TellAgain(q, known, m) ==
  LET lost == IF m.lost /\ m.name \in known THEN Vanished(q, m.name) ELSE q
  IN IF m.gained THEN Appeared(lost, m.name) ELSE lost

(* What a watcher knows then.                                              *)
Known(known, m) ==
  (IF m.lost THEN known \ {m.name} ELSE known) \cup (IF m.gained THEN {m.name} ELSE {})

(* namespace_watcher_name_vanished, then _appeared, each of which tells    *)
(* the plugin only what the watcher did not know.                          *)
Tell(q, known, m) ==
  LET lost == IF m.lost /\ m.name \in known THEN Vanished(q, m.name) ELSE q
  IN IF m.gained /\ (m.lost \/ m.name \notin known) THEN Appeared(lost, m.name) ELSE lost

(* name_owner_changed, got_name_owner, for each watcher that gets it, in   *)
(* the order in which they came: but for the first only that of the plugin *)
(* can be there (LetGo).                                                   *)
NameOwnerKnown ==
  /\ inbox # <<>> /\ Head(inbox).name # NoPlayer
  /\ LET m  == Head(inbox)
         to == m.to \cap Watching
         told == IF 0 \in to THEN Tell(playerq, knows[0], m) ELSE playerq
     IN /\ playerq' = IF watcherid \in to \ {0} THEN Tell(told, knows[watcherid], m) ELSE told
        /\ knows' = [i \in Id |-> IF i \in to THEN Known(knows[i], m) ELSE knows[i]]
  /\ inbox' = Tail(inbox)
  /\ UNCHANGED <<on, begun, owned, moves, asks, nextid, watcher, watcherid, latest>>

(* Mutant: whichever watcher there is is not stopped.                      *)
UnwatchNone ==
  UNCHANGED <<watcher, knows, asks>>

(* bus_unwatch_namespace, namespace_watcher_stop: nothing is said to       *)
(* vanish, and answers are cancelled.  Id 0 stands for no watcher.         *)
Unwatch ==
  IF watcherid # 0
    THEN /\ watcher' = [watcher EXCEPT ![watcherid] = "stopped"]
         /\ knows' = [knows EXCEPT ![watcherid] = {}]
         /\ asks' = {k \in asks : k.id # watcherid}
    ELSE UNCHANGED <<watcher, knows, asks>>

(* csd_mpris_manager_stop: the queue stays.                                *)
Stop ==
  /\ on
  /\ on' = FALSE
  /\ Unwatch
  /\ watcherid' = 0
  /\ latest' = NoPlayer
  /\ UNCHANGED <<begun, owned, moves, inbox, nextid, playerq>>

Next ==
  \/ Start \/ Stop \/ NamesListed \/ NameOwnerKnown
  \/ \E i \in Id : GotBus(i)
  \/ \E i \in Id, n \in Player \cup {NoPlayer} : BusAnswers([id |-> i, for |-> n])
  \/ \E n \in Player, lost, gained \in BOOLEAN : OwnerChanges(n, lost, gained)

Spec == Init /\ [][Next]_vars

-----------------------------------------------------------------------------
(* What the plugin holds: but for the first watcher.                       *)
Held == IF \E i \in Id \ {0} : watcher[i] \in {"connecting", "watching"} THEN {"watcher"} ELSE {}

(* A watcher but the first is connecting or watching only while the plugin *)
(* is activated, and it is the one that the plugin knows.                  *)
LetGo ==
  /\ DOMAIN watcher = Id
  /\ watcherid \in Nat /\ nextid \in Nat
  /\ \A i \in Id \ {0} : watcher[i] \in {"connecting", "watching"} => on /\ i = watcherid

(* Once all is quiet the queue has the players that run, each once unless  *)
(* the first watcher survived its stop, whatever came between the signals  *)
(* and the answers; and the one that was run last is at its head.          *)
PlayersAreQueued ==
  Settled => /\ ToSet(playerq) = owned
             /\ Cardinality(Watching) = 1 => Len(playerq) = Cardinality(owned)
             /\ latest # NoPlayer => Head(playerq) = latest

Message == [to : SUBSET Id, name : Player \cup {NoPlayer}, lost : BOOLEAN, gained : BOOLEAN,
            names : SUBSET Player]

(* Watchers are numbered in the order of the starts.                       *)
PlayerTypes ==
  /\ owned \in SUBSET Player
  /\ asks \in SUBSET [id : Watching, for : Player \cup {NoPlayer}]
  /\ inbox \in Seq(Message)
  /\ nextid = begun /\ begun \in 0..MaxStarts
  /\ watcher \in [Id -> {"none", "connecting", "watching", "stopped"}]
  /\ \A i \in Id : i >= nextid => watcher[i] = "none"
  /\ knows \in [Id -> SUBSET Player]
  /\ IF on THEN nextid > 0 /\ watcherid = nextid - 1 ELSE watcherid = 0
  /\ playerq \in Seq(Player)

(* The watchers that can still come to watch have heard of nothing.        *)
NewAreUntold ==
  \A i \in Id \ Watching : i \in {0, watcherid} \/ i >= nextid =>
    /\ knows[i] = {}
    /\ \A j \in DOMAIN inbox : i \notin inbox[j].to

(* A name that is lost is signalled to whoever watches: a watcher that is  *)
(* not told came later, and hears of nothing before.                       *)
LostComeFirst ==
  \A i \in {0, watcherid}, j \in DOMAIN inbox : inbox[j].lost /\ i \notin inbox[j].to =>
    /\ i \in Id => knows[i] = {}
    /\ \A k \in 1..j : i \notin inbox[k].to

(* The message tells the watcher of the name's owner.                      *)
Says(j, i, n) == i \in inbox[j].to /\ inbox[j].name = n /\ (inbox[j].lost \/ inbox[j].gained)

(* The watcher is yet to be told of the name by an answer.                 *)
Asked(i, n) ==
  \/ \E for \in {n, NoPlayer} : [id |-> i, for |-> for] \in asks
  \/ \E j \in DOMAIN inbox : i \in inbox[j].to /\ inbox[j].name = NoPlayer /\ n \in inbox[j].names

(* The last message about a name is true; and where there is none, what    *)
(* the watcher knows is, or it is yet to be told.                          *)
LastIsTrue(i, n) ==
  \A j \in DOMAIN inbox :
    Says(j, i, n) /\ (\A k \in DOMAIN inbox : k > j => ~Says(k, i, n)) => (inbox[j].gained <=> n \in owned)

KnownIsTrue(i, n) ==
  (\A j \in DOMAIN inbox : ~Says(j, i, n)) =>
    /\ n \in knows[i] => n \in owned
    /\ n \in owned \ knows[i] => Asked(i, n)

NamesAreHeard == \A i \in Watching, n \in Player : LastIsTrue(i, n) /\ KnownIsTrue(i, n)

(* A queue has the names that two watchers know, each at most as often as  *)
(* it is known.                                                            *)
Queued(q, known, others) ==
  \A p \in DOMAIN q :
    /\ q[p] \in known \cup others
    /\ \A r \in DOMAIN q : p # r /\ q[p] = q[r] =>
         /\ q[p] \in known \cap others
         /\ \A s \in DOMAIN q : q[p] = q[s] => s \in {p, r}

(* What the first watcher knows, if it is not that of the plugin.          *)
Others == IF watcherid = 0 THEN {} ELSE knows[0]

(* The queue is what the watchers know, all that the plugin's knows.       *)
QueueIsKnown ==
  on => /\ Queued(playerq, knows[watcherid], Others)
        /\ knows[watcherid] \subseteq ToSet(playerq)

(* The player that was run last is at the head, or about to get there; all *)
(* that is under way otherwise are names that are lost.                    *)
LatestIsAhead ==
  latest # NoPlayer =>
    /\ on /\ watcherid \in Watching /\ asks = {}
    /\ \A j \in DOMAIN inbox : j > 1 => ~inbox[j].gained /\ inbox[j].name \notin {latest, NoPlayer}
    /\ \/ /\ inbox # <<>> /\ inbox[1].gained /\ inbox[1].name = latest /\ Watching \subseteq inbox[1].to
          /\ \A i \in Watching : latest \in knows[i] => inbox[1].lost
       \/ /\ playerq # <<>> /\ playerq[1] = latest
          /\ inbox # <<>> => ~inbox[1].gained /\ inbox[1].name \notin {latest, NoPlayer}

=============================================================================
