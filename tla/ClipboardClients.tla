-------------------------- MODULE ClipboardClients --------------------------
(***************************************************************************)
(* What the clipboard manager (plugins/clipboard) lives among: the X       *)
(* server's CLIPBOARD selection, the clients that own it, save it with the *)
(* manager or ask for it, and the properties through which data passes.    *)
(* None of it is in the repository; it follows the selection protocol that *)
(* the manager's requests presuppose.                                      *)
(*                                                                         *)
(* What a client has copied is known by the time at which it took the      *)
(* selection; large data passes in parts (INCR).                           *)
(***************************************************************************)
EXTENDS Integers, Sequences

CONSTANTS
  Client,
  Manager,  \* the manager's window
  NoWindow, \* None
  Target,
  Large,    \* targets whose data exceeds SELECTION_MAX_SIZE
  Parts,    \* number of parts of such data
  MaxTime   \* bound: acquisitions

ASSUME ClientsAssumption ==
  /\ Manager \notin Client /\ NoWindow \notin Client /\ Manager # NoWindow
  /\ Large \subseteq Target
  /\ Parts \in Nat \ {0} /\ MaxTime \in Nat

Time  == 0..MaxTime
Part  == [of : Time, n : 1..Parts]

(* A target's data as it was copied at a time.                             *)
Whole(t, time) == [n \in 1..(IF t \in Large THEN Parts ELSE 1) |-> [of |-> time, n |-> n]]

(* A property on the manager's window.                                     *)
Absent   == [type |-> "absent", part |-> <<>>]
Incr     == [type |-> "incr", part |-> <<>>]
Data(p)  == [type |-> "data", part |-> p]
Property == [type : {"absent", "incr"}, part : {<<>>}]
              \cup [type : {"data"}, part : {<<>>} \cup {<<p>> : p \in Part}]

VARIABLES
  owner,   \* of CLIPBOARD
  since,   \* when it was taken
  now,
  alive,
  copied,  \* when each client last took it
  asks,    \* conversions that clients have yet to answer
  sending, \* data that clients send in parts
  props,   \* the properties on the manager's window
  given,   \* properties on clients' windows, yet to be read
  events,  \* that the manager has yet to handle
  watched, \* its event filters on clients' windows, and those on all windows
  listening, \* windows of which it is told when properties are deleted
  managing,\* the manager has the CLIPBOARD_MANAGER selection
  status,  \* history: how each client's saving went
  offered  \* history: the targets that each copy was converted to

cvars == <<owner, since, now, alive, copied, asks, sending, props, given, events,
           watched, listening, managing, status, offered>>

(* An event: of a client, about targets, with a timestamp.                 *)
Event(type, from, targets, time) ==
  [type |-> type, from |-> from, targets |-> targets, time |-> time]

(* A conversion, an event and data in parts.                               *)
Ask == [to : Client, what : {"TARGETS", "MULTIPLE"}, targets : SUBSET Target, time : Time]

Notice ==
  [type : {"Clear", "SaveTargets", "Destroyed", "Failed", "Targets", "Multiple", "NewValue",
           "ManagerClear", "Request", "Deleted"},
   from : Client \cup {Manager, NoWindow}, targets : SUBSET Target, time : Time]

Sending == [from : Client, target : Large, of : Time, next : 1..(Parts + 1), ready : BOOLEAN]

Notices(c) == watched[c] + watched[NoWindow] > 0

-----------------------------------------------------------------------------
(* A client copies, again perhaps.  The manager learns if it was the owner. *)
Acquire(c) ==
  /\ c \in alive
  /\ now < MaxTime
  /\ now' = now + 1
  /\ owner' = c
  /\ since' = now'
  /\ copied' = [copied EXCEPT ![c] = now']
  /\ events' = IF owner = Manager THEN Append(events, Event("Clear", NoWindow, {}, now'))
                                  ELSE events
  /\ UNCHANGED <<alive, asks, sending, props, given, watched, listening, managing, status,
                 offered>>

(* The owner asks, once for each copy, that it be saved: the targets that  *)
(* it names, or all (here {}).                                             *)
Save(c, targets) ==
  /\ managing
  /\ owner = c
  /\ status[c].time < since
  /\ status' = [status EXCEPT ![c] = [is |-> "waiting", time |-> since]]
  /\ events' = Append(events, Event("SaveTargets", c, targets, since))
  /\ UNCHANGED <<owner, since, now, alive, copied, asks, sending, props, given, watched,
                 listening, managing, offered>>

(* A client ends.                                                          *)
Exit(c) ==
  /\ c \in alive
  /\ alive' = alive \ {c}
  /\ owner' = IF owner = c THEN NoWindow ELSE owner
  /\ asks' = {a \in asks : a.to # c}
  /\ sending' = {s \in sending : s.from # c}
  /\ given' = {g \in given : g.to # c}
  /\ events' = IF Notices(c) THEN Append(events, Event("Destroyed", c, {}, now))
                                ELSE events
  /\ UNCHANGED <<since, now, copied, props, watched, listening, managing, status,
                 offered>>

(* A client answers a conversion.  It refuses one from before its copy.    *)
Refuse(a) ==
  /\ a \in asks
  /\ a.time < copied[a.to] \/ owner # a.to
  /\ asks' = asks \ {a}
  /\ events' = Append(events, Event("Failed", NoWindow, {}, a.time))
  /\ UNCHANGED <<owner, since, now, alive, copied, sending, props, given, watched,
                 listening, managing, status, offered>>

AnswerTargets(a, targets) ==
  /\ a \in asks
  /\ a.what = "TARGETS"
  /\ a.time >= copied[a.to]
  /\ asks' = asks \ {a}
  /\ events' = Append(events, Event("Targets", NoWindow, targets, a.time))
  /\ UNCHANGED <<owner, since, now, alive, copied, sending, props, given, watched,
                 listening, managing, status, offered>>

(* It converts some of the targets, the large ones in parts.               *)
AnswerMultiple(a, targets) ==
  /\ a \in asks
  /\ a.what = "MULTIPLE"
  /\ a.time >= copied[a.to]
  /\ targets \subseteq a.targets
  /\ asks' = asks \ {a}
  /\ props' = [t \in Target |->
                 IF t \notin targets THEN props[t]
                 ELSE IF t \in Large THEN Incr ELSE Data(Whole(t, copied[a.to]))]
  /\ sending' = sending \cup
       {[from |-> a.to, target |-> t, of |-> copied[a.to], next |-> 1, ready |-> FALSE] :
          t \in targets \cap Large}
  /\ offered' = [offered EXCEPT ![copied[a.to]] = targets]
  /\ events' = Append(events, Event("Multiple", NoWindow, targets, a.time))
  /\ UNCHANGED <<owner, since, now, alive, copied, given, watched, listening, managing,
                 status>>

(* A part, or the empty one that ends the data, once the last is read.     *)
SendPart(s) ==
  /\ s \in sending
  /\ s.ready
  /\ IF s.next <= Parts
       THEN /\ props' = [props EXCEPT ![s.target] = Data(<<[of |-> s.of, n |-> s.next]>>)]
            /\ sending' = (sending \ {s}) \cup {[s EXCEPT !.next = @ + 1, !.ready = FALSE]}
       ELSE /\ props' = [props EXCEPT ![s.target] = Data(<<>>)]
            /\ sending' = sending \ {s}
  /\ events' = Append(events, Event("NewValue", NoWindow, {s.target}, s.of))
  /\ UNCHANGED <<owner, since, now, alive, copied, asks, given, watched, listening,
                 managing, status, offered>>

(* Another clipboard manager takes over.                                   *)
LoseManager ==
  /\ managing
  /\ managing' = FALSE
  /\ events' = Append(events, Event("ManagerClear", NoWindow, {}, now))
  /\ UNCHANGED <<owner, since, now, alive, copied, asks, sending, props, given, watched,
                 listening, status, offered>>

(* A client asks the manager, as the owner, for the data of targets, unless *)
(* it is waiting for some.                                                 *)
Request(c, targets) ==
  /\ c \in alive
  /\ owner = Manager
  /\ \A i \in DOMAIN events : events[i].type = "Request" => events[i].from # c
  /\ events' = Append(events, Event("Request", c, targets, since))
  /\ UNCHANGED <<owner, since, now, alive, copied, asks, sending, props, given, watched,
                 listening, managing, status, offered>>

(* It reads and deletes a property that it was given.                      *)
Read(g) ==
  /\ g \in given
  /\ given' = given \ {g}
  /\ events' = IF Notices(g.to) /\ g.to \in listening
                 THEN Append(events, Event("Deleted", g.to, {g.target}, now)) ELSE events
  /\ UNCHANGED <<owner, since, now, alive, copied, asks, sending, props, watched,
                 listening, managing, status, offered>>

-----------------------------------------------------------------------------
(* What the manager's requests do.                                         *)

(* The conversion is the owner's to answer, or fails.  (The manager asks   *)
(* itself only when it took an answer for that to a later conversion: it   *)
(* then has nothing to list, or a request to handle.)                      *)
Convert(what, targets, time, rest) ==
  /\ asks' = asks \cup {[to |-> c, what |-> what, targets |-> targets, time |-> time] :
                         c \in {owner} \cap Client}
  /\ events' =
       IF owner \in Client THEN rest
       ELSE Append(rest, IF owner = NoWindow  THEN Event("Failed", NoWindow, {}, time)
                         ELSE IF what = "TARGETS" THEN Event("Targets", NoWindow, {}, time)
                         ELSE Event("Request", Manager, targets, time))

(* The manager reads and deletes properties; who sends in parts goes on.   *)
Delete(targets) ==
  /\ props' = [t \in Target |-> IF t \in targets THEN Absent ELSE props[t]]
  /\ sending' = {[s EXCEPT !.ready = @ \/ (s.target \in targets /\ props[s.target] # Absent)] :
                   s \in sending}

(* The server ignores a timestamp before that of the last change.          *)
SetOwner(window, time) ==
  IF time >= since THEN owner' = window /\ since' = time ELSE UNCHANGED <<owner, since>>

(* A client learns how the saving that it asked for at a time went.        *)
Notify(c, time, result) ==
  status' = [d \in Client |-> IF d = c /\ status[d].time = time
                                THEN [status[d] EXCEPT !.is = result] ELSE status[d]]

=============================================================================
