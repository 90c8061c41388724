-------------------------- MODULE ClipboardManager --------------------------
(***************************************************************************)
(* The clipboard manager (plugins/clipboard/csd_clipboard-manager.c).      *)
(*                                                                         *)
(* A client that owns the clipboard and is about to end asks the manager   *)
(* to save it.  The manager converts it to every target, perhaps in parts, *)
(* takes the selection over and serves what it has saved.  Each event of   *)
(* the X server is handled whole; clients act between any two.             *)
(***************************************************************************)
EXTENDS ClipboardClients

VARIABLES
  contents,    \* what is saved of each target
  requestor,   \* whose clipboard is being saved
  time,        \* of that, or of the last that was saved
  conversions, \* data that is being sent in parts
  fault,       \* a length was divided by the size of a format 0
  errors,      \* an X error is "fatal" or "trapped", or has "killed" the daemon
  spoiled,     \* history: targets whose reception was broken off
  upset,       \* history: a conversion failed, or was overtaken by a copy
  mistaken,    \* history: ... or one failed and another was given up for it
  delivered    \* history: what a client has got in full in the last step

mvars == <<contents, requestor, time, conversions, fault, errors, spoiled, upset, mistaken>>

vars == <<cvars, mvars, delivered>>

(* A TargetData, or its absence from the list.                             *)
None    == [type |-> "none", data |-> <<>>]
Pending == [type |-> "pending", data |-> <<>>]
Entry   == [type : {"none", "pending", "incr", "done"}, data : Seq(Part)]

(* What is sent to a client, and how many parts of it have been.           *)
Served     == [target : Target, data : Seq(Part), time : Time]
Conversion == [to : Client \cup {Manager, NoWindow}, sent : Nat, what : Served]

Saved == {t \in Target : contents[t] # None}

Nothing == [t \in Target |-> None]

Incoming(c) == \E t \in Target : c[t].type = "incr"

Init ==
  /\ owner = NoWindow
  /\ since = 0
  /\ now = 0
  /\ alive = Client
  /\ copied = [c \in Client |-> 0]
  /\ asks = {}
  /\ sending = {}
  /\ props = [t \in Target |-> Absent]
  /\ given = {}
  /\ events = <<>>
  /\ watched = [w \in Client \cup {NoWindow} |-> 0]
  /\ listening = {}
  /\ managing = TRUE
  /\ status = [c \in Client |-> [is |-> "none", time |-> 0]]
  /\ offered = [n \in Time |-> {}]
  /\ contents = Nothing
  /\ requestor = NoWindow
  /\ time = 0
  /\ conversions = {}
  /\ fault = FALSE
  /\ errors = "fatal"
  /\ spoiled = {}
  /\ upset = FALSE
  /\ mistaken = FALSE
  /\ delivered = {}

-----------------------------------------------------------------------------
(* The manager handles the first event, as long as the daemon is there.    *)
Handles(type) == ~fault /\ errors # "killed" /\ events # <<>> /\ Head(events).type = type

(* A request about a window outside any trap: BadWindow for one that has   *)
(* ended, which ends the daemon unless a trap was left open.               *)
Touch(w) ==
  errors' = IF w \notin alive \cup {Manager} /\ errors = "fatal" THEN "killed" ELSE errors

(* The list of what is saved is freed, what is being received too.         *)
FreeContents ==
  /\ contents' = Nothing
  /\ spoiled' = spoiled \cup {t \in Target : contents[t].type = "incr"}

(* Mutant: the filter is taken off whether there is one or not.            *)
StopWatchingUnchecked(w) ==
  watched' = [c \in DOMAIN watched |-> IF c = w THEN watched[w] - 1 ELSE watched[c]]

(* clipboard_manager_watch_cb: one filter more, which is on all windows if *)
(* there is no such window any more; one less, if there is any.            *)
Watch(w) ==
  watched' = [watched EXCEPT ![IF w \in alive THEN w ELSE NoWindow] = @ + 1]

StopWatching(w) ==
  watched' = [c \in DOMAIN watched |->
                IF c = w /\ w \in Client /\ watched[w] > 0 THEN watched[w] - 1 ELSE watched[c]]

(* save_targets: of the targets, those that stand for data                 *)
SaveTargetsOf(targets, when) ==
  /\ contents' = [t \in Target |-> IF t \in targets THEN Pending ELSE contents[t]]
  /\ Convert("MULTIPLE", targets, when, Tail(events))

(* convert_clipboard_manager, for SAVE_TARGETS: a request is refused while *)
(* another is being served and as long as anything is saved; that of a     *)
(* client that has ended is dropped.                                       *)
RefuseToSave(e) ==
  /\ requestor # NoWindow \/ Saved # {}
  /\ Notify(e.from, e.time, "failed")
  /\ events' = Tail(events)
  /\ UNCHANGED <<watched, listening, asks, contents, requestor, time, errors>>

DropRequest(e) ==
  /\ requestor = NoWindow /\ Saved = {}
  /\ e.from \notin alive
  /\ events' = Tail(events)
  /\ Watch(e.from)
  /\ UNCHANGED <<listening, asks, status, contents, requestor, time, errors>>

(* A request without a property leaves the second trap open for good.      *)
AcceptRequest(e) ==
  /\ requestor = NoWindow /\ Saved = {}
  /\ e.from \in alive
  /\ Watch(e.from)
  /\ listening' = listening \ {e.from}
  /\ requestor' = e.from
  /\ time' = e.time
  /\ IF e.targets = {}
       THEN Convert("TARGETS", {}, e.time, Tail(events)) /\ UNCHANGED contents
       ELSE SaveTargetsOf(e.targets, e.time)
  /\ errors' \in IF e.targets = {} THEN {errors, "trapped"} ELSE {errors}
  /\ UNCHANGED status

ConvertClipboardManager ==
  /\ Handles("SaveTargets")
  /\ LET e == Head(events) IN RefuseToSave(e) \/ DropRequest(e) \/ AcceptRequest(e)
  /\ UNCHANGED <<owner, since, now, alive, copied, sending, props, given, managing,
                 offered, conversions, fault, spoiled, upset, mistaken>>
  /\ delivered' = {}

(* The owner has told which targets it has.                                *)
TargetsReceived ==
  /\ Handles("Targets")
  /\ SaveTargetsOf(Head(events).targets, time)
  /\ UNCHANGED <<owner, since, now, alive, copied, sending, props, given, watched,
                 listening, managing, status, offered, requestor, time, conversions,
                 fault, errors, spoiled, upset, mistaken>>
  /\ delivered' = {}

(* The saving is done: the requestor is told and forgotten.                *)
Finish(when) ==
  /\ Notify(requestor, when, "saved")
  /\ requestor' = NoWindow

(* Mutant: a target that the owner did not convert stays in the list.      *)
GetPropertyOrStub(t) ==
  IF contents[t] = None THEN None
  ELSE CASE props[t].type = "absent" -> contents[t]
         [] props[t].type = "incr"   -> [type |-> "incr", data |-> <<>>]
         [] props[t].type = "data"   -> [type |-> "done", data |-> props[t].part]

(* get_property: what the owner made of a target                           *)
GetProperty(t) ==
  IF contents[t] = None THEN None
  ELSE CASE props[t].type = "absent" -> None
         [] props[t].type = "incr"   -> [type |-> "incr", data |-> <<>>]
         [] props[t].type = "data"   -> [type |-> "done", data |-> props[t].part]

(* The owner has converted the targets: the manager takes the selection    *)
(* over, writes to the requestor's window, and is done unless some of them *)
(* come in parts.                                                          *)
MultipleReceived ==
  /\ Handles("Multiple")
  /\ contents' = [t \in Target |-> GetProperty(t)]
  /\ Delete(Saved)
  /\ time' = Head(events).time
  /\ SetOwner(Manager, Head(events).time)
  /\ upset' = (upset \/ owner' # Manager)
  /\ Touch(requestor)
  /\ IF Incoming(contents')
       THEN UNCHANGED <<requestor, status, watched>>
       ELSE Finish(time') /\ StopWatching(requestor)
  /\ events' = Tail(events)
  /\ UNCHANGED <<now, alive, copied, asks, given, listening, managing, offered,
                 conversions, fault, spoiled, mistaken>>
  /\ delivered' = {}

(* The owner, or the server, has refused a conversion.                     *)
ConversionFailed ==
  /\ Handles("Failed")
  /\ Notify(requestor, time, "failed")
  /\ StopWatching(requestor)
  /\ requestor' = NoWindow
  /\ mistaken' = (mistaken \/ Head(events).time # time)
  /\ upset' = (upset \/ Saved # {} \/ mistaken')
  /\ events' = Tail(events)
  /\ UNCHANGED <<owner, since, now, alive, copied, asks, sending, props, given, listening,
                 managing, offered, contents, time, conversions, fault, errors, spoiled>>
  /\ delivered' = {}

(* Mutant: the end of the data is noted and the requestor not told.        *)
EndOfDataUntold(t) ==
  /\ props[t] \in {Absent, Data(<<>>)}
  /\ contents' = [contents EXCEPT ![t].type = IF props[t] = Absent THEN "pending" ELSE "done"]
  /\ UNCHANGED <<requestor, status>>

(* receive_incrementally: an empty property ends the data, and so does one *)
(* that is not there, without a type.                                      *)
EndOfData(t) ==
  /\ props[t] \in {Absent, Data(<<>>)}
  /\ contents' = [contents EXCEPT ![t].type = IF props[t] = Absent THEN "pending" ELSE "done"]
  /\ IF Incoming(contents') THEN UNCHANGED <<requestor, status>> ELSE Finish(time)

(* Mutant: a part takes the place of those before it.                      *)
MoreDataReplacing(t) ==
  /\ props[t] \notin {Absent, Data(<<>>)}
  /\ contents' = [contents EXCEPT ![t].data =
                    IF props[t] = Incr THEN <<[of |-> 0, n |-> 1]>> ELSE props[t].part]
  /\ UNCHANGED <<requestor, status>>

MoreData(t) ==
  /\ props[t] \notin {Absent, Data(<<>>)}
  /\ contents' = [contents EXCEPT ![t].data =
                    @ \o (IF props[t] = Incr THEN <<[of |-> 0, n |-> 1]>> ELSE props[t].part)]
  /\ UNCHANGED <<requestor, status>>

ReceiveIncrementally ==
  /\ Handles("NewValue")
  /\ \E t \in Head(events).targets :
       IF contents[t].type = "incr"
         THEN Delete({t}) /\ (EndOfData(t) \/ MoreData(t))
         ELSE UNCHANGED <<props, sending, contents, requestor, status>>
  /\ events' = Tail(events)
  /\ UNCHANGED <<owner, since, now, alive, copied, asks, given, watched, listening,
                 managing, offered, time, conversions, fault, errors, spoiled, upset, mistaken>>
  /\ delivered' = {}

(* The client whose clipboard is being saved has ended.                    *)
RequestorDestroyed ==
  /\ Handles("Destroyed")
  /\ IF Head(events).from = requestor
       THEN FreeContents /\ StopWatching(requestor) /\ requestor' = NoWindow
       ELSE UNCHANGED <<contents, spoiled, watched, requestor>>
  /\ events' = Tail(events)
  /\ UNCHANGED <<owner, since, now, alive, copied, asks, sending, props, given, listening,
                 managing, status, offered, time, conversions, fault, errors, upset,
                 mistaken>>
  /\ delivered' = {}

(* Mutant: what was saved is kept when the clipboard is lost.              *)
ClipboardLostKeepingContents ==
  /\ Handles("Clear")
  /\ UNCHANGED <<contents, spoiled>>
  /\ StopWatching(requestor)
  /\ requestor' = NoWindow
  /\ events' = Tail(events)
  /\ UNCHANGED <<owner, since, now, alive, copied, asks, sending, props, given, listening,
                 managing, status, offered, time, conversions, fault, errors, upset,
                 mistaken>>
  /\ delivered' = {}

(* The clipboard is lost to a client: so is what is being saved.           *)
ClipboardLost ==
  /\ Handles("Clear")
  /\ FreeContents
  /\ StopWatching(requestor)
  /\ requestor' = NoWindow
  /\ events' = Tail(events)
  /\ UNCHANGED <<owner, since, now, alive, copied, asks, sending, props, given, listening,
                 managing, status, offered, time, conversions, fault, errors, upset,
                 mistaken>>
  /\ delivered' = {}

(* The manager's selection is lost: a requestor keeps waiting.  What is    *)
(* saved is lost, and so is the clipboard, the manager's or the one that   *)
(* it was saving.                                                          *)
ManagerLost ==
  /\ Handles("ManagerClear")
  /\ FreeContents
  /\ IF Saved # {} THEN SetOwner(NoWindow, time) ELSE UNCHANGED <<owner, since>>
  /\ events' = Tail(events) \o
       (IF owner = Manager /\ owner' # Manager THEN <<Event("Clear", NoWindow, {}, time)>> ELSE <<>>)
  /\ UNCHANGED <<now, alive, copied, asks, sending, props, given, watched, listening,
                 managing, status, offered, requestor, time, conversions, fault, errors, upset,
                 mistaken>>
  /\ delivered' = {}

(* Mutant: what has been received so far is served.                        *)
ReceivedInPart(t) == contents[t].type \in {"incr", "done"}

(* convert_clipboard_target: only what has been received in full is served *)
Received(t) == contents[t].type = "done"

(* A request of the manager to itself is answered, unless it asks nothing. *)
OwnAnswer(e) ==
  IF e.from # Manager \/ e.targets = {} THEN <<>>
  ELSE IF \E t \in Target : e.targets = {t} /\ contents[t].type = "incr"
    THEN <<Event("Failed", NoWindow, {}, e.time)>>
    ELSE <<Event("Multiple", NoWindow, e.targets, e.time)>>

(* convert_clipboard: small data is given at once and large data in parts; *)
(* what is not saved, or not yet, is not given.  The requestor's window is *)
(* touched for small data, for MULTIPLE, and for TARGETS (here {}).        *)
ConvertClipboard ==
  /\ Handles("Request")
  /\ LET e    == Head(events)
         done == {t \in e.targets : Received(t)}
         long == {t \in done : Len(contents[t].data) > 1}
         Copy(t) == [target |-> t, data |-> contents[t].data, time |-> time]
     IN /\ delivered' = {Copy(t) : t \in done \ long}
        /\ conversions' = conversions \cup
             {[to |-> e.from, sent |-> 0, what |-> Copy(t)] : t \in long}
        /\ given' = given \cup
             {[to |-> e.from, target |-> t] : t \in {u \in long : e.from \in alive}}
        /\ listening' = IF long # {} /\ e.from \in alive THEN listening \cup {e.from} ELSE listening
        /\ fault' = \E t \in e.targets : contents[t].type = "pending"
        /\ \/ Touch(e.from)
           \/ \E t \in e.targets \ (done \ long) : e.targets = {t} /\ UNCHANGED errors
        /\ props' = IF e.from = Manager
                     THEN [t \in Target |-> IF t \in done \ long THEN Data(contents[t].data)
                                           ELSE props[t]]
                     ELSE props
        /\ events' = Tail(events) \o OwnAnswer(e)
  /\ UNCHANGED <<owner, since, now, alive, copied, asks, sending, watched, managing, status,
                 offered, contents, requestor, time, spoiled, upset, mistaken>>

(* send_incrementally: once a client has deleted what it was given, it gets *)
(* the next part, at last an empty one.                                    *)
SendNext(c) ==
  /\ Touch(c.to)
  /\ given' = given \cup
       {[to |-> to, target |-> c.what.target] : to \in {c.to} \cap alive}
  /\ IF c.sent < Len(c.what.data)
       THEN /\ conversions' = (conversions \ {c}) \cup {[c EXCEPT !.sent = @ + 1]}
            /\ delivered' = {}
       ELSE /\ conversions' = conversions \ {c}
            /\ delivered' = {c.what}

SendIncrementally ==
  /\ Handles("Deleted")
  /\ LET e == Head(events)
         due == {c \in conversions : c.to = e.from /\ c.what.target \in e.targets}
     IN IF due = {} THEN UNCHANGED <<given, conversions, errors>> /\ delivered' = {}
                    ELSE \E c \in due : SendNext(c)
  /\ events' = Tail(events)
  /\ UNCHANGED <<owner, since, now, alive, copied, asks, sending, props, watched,
                 listening, managing, status, offered, contents, requestor, time, fault,
                 spoiled, upset, mistaken>>

-----------------------------------------------------------------------------
Clients ==
  \/ \E c \in Client : Acquire(c) \/ Exit(c)
  \/ \E c \in Client, targets \in SUBSET Target : Save(c, targets)
  \/ \E c \in Client, targets \in SUBSET Target :
       (\A v \in conversions : v.to # c) /\ Request(c, targets)
  \/ \E g \in given : Read(g)
  \/ LoseManager

(* What clients do for the manager.                                        *)
Answers ==
  \/ \E a \in asks : Refuse(a)
  \/ \E a \in asks, targets \in SUBSET Target :
       AnswerTargets(a, targets) \/ AnswerMultiple(a, targets)

Sends == \E s \in sending : SendPart(s)

(* clipboard_manager_process_event                                         *)
ProcessEvent ==
  \/ ConvertClipboardManager
  \/ TargetsReceived \/ MultipleReceived \/ ConversionFailed
  \/ ReceiveIncrementally
  \/ RequestorDestroyed \/ ClipboardLost \/ ManagerLost
  \/ ConvertClipboard \/ SendIncrementally

Next ==
  \/ (Clients \/ Answers \/ Sends) /\ UNCHANGED mvars /\ delivered' = {}
  \/ ProcessEvent

Spec == Init /\ [][Next]_vars

(* The main loop comes to the events; clients answer and send on.          *)
Fairness ==
  /\ WF_vars(ProcessEvent)
  /\ WF_vars(Answers /\ UNCHANGED mvars /\ delivered' = {})
  /\ WF_vars(Sends /\ UNCHANGED mvars /\ delivered' = {})

-----------------------------------------------------------------------------
(* The owner and the times are those of the display; a conversion is asked *)
(* of clients, and filters are counted, never taken off twice.             *)
TypeOK ==
  /\ owner \in Client \cup {Manager, NoWindow}
  /\ since \in Time /\ now \in Time /\ time \in Time
  /\ alive \in SUBSET Client
  /\ copied \in [Client -> Time]
  /\ asks \in SUBSET Ask
  /\ sending \in SUBSET Sending
  /\ props \in [Target -> Property]
  /\ given \in SUBSET [to : Client, target : Target]
  /\ events \in Seq(Notice)
  /\ watched \in [Client \cup {NoWindow} -> Nat]
  /\ listening \in SUBSET Client
  /\ managing \in BOOLEAN
  /\ status \in [Client -> [is : {"none", "waiting", "saved", "failed"}, time : Time]]
  /\ offered \in [Time -> SUBSET Target]
  /\ requestor \in Client \cup {NoWindow}
  /\ contents \in [Target -> Entry]
  /\ conversions \in SUBSET Conversion
  /\ spoiled \in SUBSET Target
  /\ errors \in {"fatal", "trapped", "killed"}

(* A client that was told that its clipboard is saved has it kept: as long *)
(* as nobody takes the clipboard, the manager has every target that the    *)
(* client could convert, whole and unmixed, although it came in parts      *)
(* between other events.                                                   *)
SavedIsKept ==
  \A c \in Client :
    owner = Manager /\ managing /\ ~mistaken /\ status[c] = [is |-> "saved", time |-> since] =>
      \A t \in offered[since] \ spoiled :
        contents[t] = [type |-> "done", data |-> Whole(t, since)]

(* What a client gets, at once or in parts, is one copy, whole, although   *)
(* the clipboard may have been lost and saved anew since it asked.         *)
ServedIsSaved ==
  \A d \in delivered : d.target \in spoiled \/ mistaken \/ d.data = Whole(d.target, d.time)

(* Data without a type is never served, unless a reception was broken off. *)
TypeIsKnown == fault => spoiled # {} \/ mistaken

(* Nothing stays in the list that is neither being saved nor served, which *)
(* would keep all later clipboards from being saved, unless a conversion   *)
(* failed or came too late; the manager is perhaps to learn of its loss.   *)
NothingLeftOver ==
  requestor = NoWindow /\ ~upset /\ Saved # {} =>
    owner = Manager \/ \E i \in DOMAIN events : events[i].type = "Clear"

(* "We're in the middle of a conversion request, or own the CLIPBOARD      *)
(* already": only then is a request to save refused.                       *)
RefusedOnlyWhenBusy ==
  [][Handles("SaveTargets") /\ RefuseToSave(Head(events)) =>
       requestor # NoWindow \/ owner = Manager]_vars

(* A client that asks for its clipboard to be saved is answered, unless it *)
(* ends, something is copied since, or the manager is replaced or ends: by *)
(* a division, or by an X error when it writes to a window that has ended. *)
EverySaveAnswered ==
  \A c \in Client :
    status[c].is = "waiting" ~>
      \/ status[c].is # "waiting" \/ c \notin alive \/ since # status[c].time
      \/ ~managing \/ fault \/ errors = "killed"

=============================================================================
