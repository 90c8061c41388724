------------------------------- MODULE Rfkill -------------------------------
(***************************************************************************)
(* CcRfkillGlib (plugins/rfkill/rfkill-glib.c): the requests to block or   *)
(* unblock all switches of a kind through /dev/rfkill.                     *)
(*                                                                         *)
(* A request writes a CHANGE_ALL event to the device.  Unblocking          *)
(* Bluetooth takes two: when the first write is done a timer of            *)
(* CHANGE_ALL_TIMEOUT starts, the switch's CHANGE event makes the object   *)
(* write again, and the timer's end fails the request.  The object has one *)
(* "event", one "task" and one timer, whatever number of requests it is    *)
(* given, and its output stream takes one write at a time: a second one is *)
(* refused with G_IO_ERROR_PENDING.  Every callback comes later, from the  *)
(* main loop, in any order.                                                *)
(*                                                                         *)
(* A write reaches the kernel when it is issued, for the device never      *)
(* makes a writer wait; a task's answer is its caller's callback, run at   *)
(* once.  Memory is modelled as far as the code's handlers depend on it:   *)
(* "fault" tells which of them went wrong, and nothing runs after that.    *)
(***************************************************************************)
EXTENDS Integers, FiniteSets

CONSTANTS
  Task,    \* the requests' GTasks
  NoTask   \* NULL

ASSUME RfkillAssumption == NoTask \notin Task

Bluetooth == "RFKILL_TYPE_BLUETOOTH"
AllTypes  == "RFKILL_TYPE_ALL"

(* A CHANGE_ALL event, as requested by the manager.                        *)
Event   == [type : {Bluetooth, AllTypes}, soft : BOOLEAN]
NoEvent == [type |-> "none", soft |-> FALSE]

(* The write that the stream has in progress: the callback it will run and *)
(* whether the kernel took it.                                             *)
Write == [cb : {"done", "again"}, taken : BOOLEAN]
Idle  == [cb |-> "none", taken |-> FALSE]

Final == {"ok", "failed", "timed out"}

VARIABLES
  owned,    \* the manager holds its reference to the object
  stream,   \* the write in progress
  refused,  \* how many refused writes have their callback still to come
  event,    \* priv->event
  task,     \* priv->task
  timer,    \* priv->change_all_timeout_id > 0
  request,  \* history: the event that each task asked for
  answer,   \* history: what each task was returned
  sent,     \* history: how many of each task's writes the kernel took
  leaked,   \* tasks whose reference in priv->task was overwritten
  overlap,  \* history: a request came while a write was in progress
  fault     \* "assert", "null", "freed" or "none"

rvars == <<owned, stream, refused, event, task, timer, request, answer, sent,
           leaked, overlap, fault>>

history == <<request, sent, overlap>>

RfkillInit ==
  /\ owned = TRUE
  /\ stream = Idle
  /\ refused = 0
  /\ event = NoEvent
  /\ task = NoTask
  /\ timer = FALSE
  /\ request = [t \in Task |-> NoEvent]
  /\ answer = [t \in Task |-> "none"]
  /\ sent = [t \in Task |-> 0]
  /\ leaked = {}
  /\ overlap = FALSE
  /\ fault = "none"

(* A task holds a reference to its source object; so does a leaked one,    *)
(* for good.                                                               *)
Alive == owned \/ task # NoTask \/ leaked # {}

(* The answer of priv->task; returning no task is only a warning.          *)
Returned(result) ==
  IF task = NoTask THEN answer ELSE [answer EXCEPT ![task] = result]

(* Mutant: the task is answered and kept.                                  *)
ReturnKeepingTask(result) ==
  /\ answer' = Returned(result)
  /\ event' = NoEvent
  /\ fault' = IF Alive THEN "none" ELSE "freed"
  /\ UNCHANGED task

(* What the handlers do last: clear the task, then the event.  If the task *)
(* held the last reference, the event is looked for in freed memory.       *)
ReturnAndClear(result) ==
  /\ answer' = Returned(result)
  /\ task' = NoTask
  /\ event' = NoEvent
  /\ fault' = IF owned \/ leaked # {} THEN "none" ELSE "freed"

-----------------------------------------------------------------------------
(* cc_rfkill_glib_send_change_all_event: a timer that runs is cut short,   *)
(* and its request answered.                                               *)
SendChangeAll(t, type, enable) ==
  /\ fault = "none"
  /\ owned
  /\ request[t] = NoEvent
  /\ IF timer /\ event = NoEvent
       THEN /\ fault' = "assert"
            /\ UNCHANGED <<owned, stream, refused, event, task, timer, answer,
                           leaked, history>>
       ELSE /\ answer' = IF timer THEN Returned("timed out") ELSE answer
            /\ leaked' = leaked \cup (IF timer THEN {} ELSE {task} \ {NoTask})
            /\ timer' = FALSE
            /\ event' = [type |-> type, soft |-> enable]
            /\ task' = t
            /\ request' = [request EXCEPT ![t] = event']
            /\ \/ /\ stream = Idle
                  /\ \E taken \in BOOLEAN :
                       /\ stream' = [cb |-> "done", taken |-> taken]
                       /\ sent' = [sent EXCEPT ![t] = IF taken THEN 1 ELSE 0]
                  /\ UNCHANGED <<refused, overlap>>
               \/ /\ stream # Idle
                  /\ refused' = refused + 1
                  /\ overlap' = TRUE
                  /\ UNCHANGED <<stream, sent>>
            /\ UNCHANGED <<owned, fault>>

(* The write finished without an error; stopping the manager cancels it.   *)
Succeeded == stream.taken /\ owned

(* Mutant: one write is enough for every request.                          *)
WriteDoneAtOnce ==
  /\ fault = "none"
  /\ stream.cb = "done"
  /\ stream' = Idle
  /\ ReturnAndClear(IF Succeeded THEN "ok" ELSE "failed")
  /\ UNCHANGED <<owned, refused, timer, leaked, history>>

(* write_change_all_done_cb for the write in progress.                     *)
WriteChangeAllDone ==
  /\ fault = "none"
  /\ stream.cb = "done"
  /\ stream' = Idle
  /\ IF ~Succeeded THEN ReturnAndClear("failed") /\ UNCHANGED timer
     ELSE IF event = NoEvent
       THEN fault' = "null" /\ UNCHANGED <<event, task, timer, answer>>
     ELSE IF event.soft \/ event.type # Bluetooth
       THEN ReturnAndClear("ok") /\ UNCHANGED timer
     ELSE timer' = TRUE /\ UNCHANGED <<event, task, answer, fault>>
  /\ UNCHANGED <<owned, refused, leaked, history>>

(* The same callback for a write that was refused.                         *)
WriteRefused ==
  /\ fault = "none"
  /\ refused > 0
  /\ refused' = refused - 1
  /\ ReturnAndClear("failed")
  /\ UNCHANGED <<owned, stream, timer, leaked, history>>

(* write_change_all_again_done_cb                                          *)
WriteChangeAllAgainDone ==
  /\ fault = "none"
  /\ stream.cb = "again"
  /\ stream' = Idle
  /\ ReturnAndClear(IF Succeeded THEN "ok" ELSE "failed")
  /\ UNCHANGED <<owned, refused, timer, leaked, history>>

(* write_change_all_timeout_cb, run by the main loop.                      *)
WriteChangeAllTimeout ==
  /\ fault = "none"
  /\ timer
  /\ timer' = FALSE
  /\ IF event = NoEvent
       THEN fault' = "assert" /\ UNCHANGED <<event, task, answer>>
       ELSE ReturnAndClear("timed out")
  /\ UNCHANGED <<owned, stream, refused, leaked, history>>

(* Mutants: the timer is left running when the object writes again; it is  *)
(* removed but nothing is written.                                         *)
EventCbKeepingTimer(change) ==
  /\ fault = "none"
  /\ Alive
  /\ IF timer /\ change /\ event # NoEvent /\ owned
       THEN /\ stream' = [cb |-> "again", taken |-> TRUE]
            /\ sent' = [sent EXCEPT ![task] = @ + 1]
       ELSE UNCHANGED <<stream, sent>>
  /\ UNCHANGED <<owned, refused, event, task, timer, request, answer, leaked,
                 overlap, fault>>

EventCbWithoutWrite(change) ==
  /\ fault = "none"
  /\ Alive
  /\ timer' = (timer /\ ~change)
  /\ UNCHANGED <<owned, stream, refused, event, task, answer, leaked, history,
                 fault>>

(* event_cb and emit_changed_signal_and_free: "change" tells whether one   *)
(* of the events is a CHANGE.  A write whose event is NULL is not issued,  *)
(* a cancelled one fails before it reaches the kernel; the stream is idle  *)
(* while the timer runs, so that this write is never refused.              *)
EventCb(change) ==
  /\ fault = "none"
  /\ Alive
  /\ IF timer /\ change
       THEN /\ timer' = FALSE
            /\ \E taken \in BOOLEAN :
                 /\ taken => event # NoEvent /\ owned
                 /\ stream' = IF event = NoEvent THEN stream
                              ELSE [cb |-> "again", taken |-> taken]
                 /\ sent' = IF taken THEN [sent EXCEPT ![task] = @ + 1] ELSE sent
       ELSE UNCHANGED <<timer, stream, sent>>
  /\ UNCHANGED <<owned, refused, event, task, request, answer, leaked, overlap,
                 fault>>

(* The manager is stopped: it drops its reference, cancels what it asked.  *)
DropObject ==
  /\ fault = "none"
  /\ owned
  /\ owned' = FALSE
  /\ UNCHANGED <<stream, refused, event, task, timer, answer, leaked, history,
                 fault>>

RfkillNext ==
  \/ \E t \in Task, type \in {Bluetooth, AllTypes}, enable \in BOOLEAN :
       SendChangeAll(t, type, enable)
  \/ WriteChangeAllDone \/ WriteRefused \/ WriteChangeAllAgainDone
  \/ WriteChangeAllTimeout
  \/ \E change \in BOOLEAN : EventCb(change)
  \/ DropObject

RfkillSpec == RfkillInit /\ [][RfkillNext]_rvars

-----------------------------------------------------------------------------
(* The object has one write, one event and one task at most, and no task   *)
(* is written for more than twice.                                         *)
RfkillTypeOK ==
  /\ owned \in BOOLEAN
  /\ stream \in Write \cup {Idle}
  /\ refused \in Nat
  /\ event \in Event \cup {NoEvent}
  /\ task \in Task \cup {NoTask}
  /\ timer \in BOOLEAN
  /\ request \in [Task -> Event \cup {NoEvent}]
  /\ answer \in [Task -> Final \cup {"none"}]
  /\ sent \in [Task -> 0..2]
  /\ leaked \in SUBSET Task
  /\ overlap \in BOOLEAN
  /\ fault \in {"none", "assert", "null", "freed"}

(* The assertion of write_change_all_timeout_cb, and the event that        *)
(* write_change_all_done_cb reads, can fail only after two requests        *)
(* overlapped; the handlers use freed memory only when the manager was     *)
(* stopped with a request under way.  In all other runs, however writes,   *)
(* events and the timer's end interleave, no handler goes wrong.           *)
FaultsHaveCauses ==
  /\ fault \in {"assert", "null"} => overlap
  /\ fault = "freed" => ~owned /\ ~overlap

(* "g_assert (rfkill->priv->event)" holds whenever the timer ends.         *)
AssertionHolds == fault # "assert"

(* A callback of a write or of the timer never comes to an object that was *)
(* finalized before it.                                                    *)
CallbacksFindTheObject ==
  fault = "none" /\ (stream # Idle \/ refused > 0 \/ timer) => Alive

(* Unless requests overlapped, a request that is answered with success was *)
(* taken by the kernel: twice, where unblocking Bluetooth needs it.        *)
SuccessMeansWritten ==
  \A t \in Task :
    ~overlap /\ answer[t] = "ok" =>
      sent[t] = IF request[t] = [type |-> Bluetooth, soft |-> FALSE] THEN 2 ELSE 1

(* No request is answered twice, overlap or not.                           *)
AnsweredOnce ==
  [][\A t \in Task : answer[t] # "none" => answer'[t] = answer[t]]_rvars

(* Unless requests overlap, every one is answered in the end.              *)
EveryRequestAnswered ==
  []~overlap =>
    \A t \in Task : request[t] # NoEvent ~> answer[t] # "none"

=============================================================================
