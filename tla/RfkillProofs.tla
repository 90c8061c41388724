---------------------------- MODULE RfkillProofs ----------------------------
(***************************************************************************)
(* Proofs about the rfkill plugin, for any number of requests and of       *)
(* switches: first of the requests, of CcRfkillGlib alone (module Rfkill), *)
(* then of the manager, whose steps are steps of CcRfkillGlib or leave it  *)
(* alone; then of the manager's table of the switches, which the kernel's  *)
(* events keep up to date, and of what it announces.                       *)
(***************************************************************************)
EXTENDS RfkillManager, FiniteSetTheorems, TLAPS

(* The object has one place each for an event, a task and a timer.  The    *)
(* task and the event come and go together, and the timer runs only when   *)
(* no write is in progress.                                                *)
Slots ==
  /\ task = NoTask <=> event = NoEvent
  /\ timer => stream = Idle

(* Without overlap a task is there exactly while its write is in progress  *)
(* or the timer runs; the first overlap leaks one, which is never freed.   *)
Overlaps ==
  /\ refused > 0 => overlap
  /\ overlap <=> leaked # {}
  /\ ~overlap => (task # NoTask <=> timer \/ stream # Idle)

(* What the histories say of the task that is served.                      *)
Served ==
  /\ \A t \in Task : request[t] = NoEvent => answer[t] = "none" /\ sent[t] = 0
  /\ task # NoTask => request[task] = event /\ answer[task] = "none"
  /\ task # NoTask /\ stream.cb # "again" => sent[task] <= 1

UnblocksBluetooth(e) == e = [type |-> Bluetooth, soft |-> FALSE]

(* Without overlap the writes in progress and the timer are the task's.    *)
Writes ==
  ~overlap =>
    /\ stream.cb = "done" /\ stream.taken => sent[task] = 1
    /\ timer => sent[task] = 1 /\ UnblocksBluetooth(event)
    /\ stream.cb = "again" => UnblocksBluetooth(event)
    /\ stream.cb = "again" /\ stream.taken => sent[task] = 2

RInv ==
  /\ RfkillTypeOK
  /\ Slots
  /\ Overlaps
  /\ Served
  /\ Writes
  /\ FaultsHaveCauses
  /\ SuccessMeansWritten

(* The records by what the proofs use of them.                             *)
LEMMA Records ==
  /\ NoEvent \notin Event
  /\ \A type \in {Bluetooth, AllTypes}, enable \in BOOLEAN :
       [type |-> type, soft |-> enable] \in Event
  /\ \A e \in Event : e.soft \/ e.type # Bluetooth \/ UnblocksBluetooth(e)
  /\ Idle \notin Write /\ Idle.cb = "none" /\ Idle.taken = FALSE
  /\ \A cb \in {"done", "again"}, taken \in BOOLEAN :
       /\ [cb |-> cb, taken |-> taken] \in Write
       /\ [cb |-> cb, taken |-> taken].cb = cb
       /\ [cb |-> cb, taken |-> taken].taken = taken
  /\ \A w \in Write : w.cb \in {"done", "again"} /\ w.taken \in BOOLEAN
BY DEF Event, NoEvent, Write, Idle, UnblocksBluetooth, Bluetooth, AllTypes

LEMMA RfkillInitInv == RfkillInit => RInv
<1> SUFFICES ASSUME RfkillInit PROVE RInv
  OBVIOUS
<1> USE RfkillAssumption, Records DEF RfkillInit
<1>1. RfkillTypeOK
  <2>1. /\ request \in [Task -> Event \cup {NoEvent}]
        /\ sent \in [Task -> 0..2]
    OBVIOUS
  <2>2. answer \in [Task -> Final \cup {"none"}]
    OBVIOUS
  <2> QED
    BY <2>1, <2>2 DEF RfkillTypeOK
<1>2. Slots /\ Overlaps /\ Served /\ Writes
  BY DEF Slots, Overlaps, Served, Writes
<1>3. FaultsHaveCauses /\ SuccessMeansWritten
  BY DEF FaultsHaveCauses, SuccessMeansWritten
<1> QED
  BY <1>1, <1>2, <1>3 DEF RInv

LEMMA SendChangeAllInv ==
  ASSUME RInv, NEW t \in Task, NEW type \in {Bluetooth, AllTypes},
         NEW enable \in BOOLEAN, SendChangeAll(t, type, enable)
  PROVE  RInv'
<1> USE RfkillAssumption
<1>1. CASE timer /\ event = NoEvent
  <2>1. /\ fault' = "assert"
        /\ UNCHANGED <<owned, stream, refused, event, task, timer, answer, leaked,
                       request, sent, overlap>>
    BY <1>1 DEF SendChangeAll, history
  <2>2. overlap
    BY <1>1 DEF RInv, Slots, Overlaps
  <2> QED
    BY <2>1, <2>2 DEF RInv, RfkillTypeOK, Slots, Overlaps, Served, Writes,
                      FaultsHaveCauses, SuccessMeansWritten
<1>2. CASE ~(timer /\ event = NoEvent)
  <2> DEFINE e == [type |-> type, soft |-> enable]
  <2>1. /\ leaked' = leaked \cup (IF timer THEN {} ELSE {task} \ {NoTask})
        /\ timer' = FALSE /\ event' = e /\ task' = t
        /\ request' = [request EXCEPT ![t] = e]
        /\ owned' = owned /\ fault' = fault /\ fault = "none"
    BY <1>2 DEF SendChangeAll
  <2>2. e \in Event /\ e # NoEvent /\ task # t /\ sent[t] = 0 /\ answer[t] = "none"
        /\ request[t] = NoEvent
    <3>1. e \in Event /\ e # NoEvent
      BY Records DEF e
    <3>2. request[t] = NoEvent
      BY DEF SendChangeAll
    <3> QED
      BY <3>1, <3>2 DEF RInv, Slots, Served
  <2>3. \/ answer' = answer
        \/ timer /\ task \in Task /\ answer' = [answer EXCEPT ![task] = "timed out"]
    BY <1>2 DEF SendChangeAll, Returned, RInv, RfkillTypeOK, Slots
  <2>4. \/ /\ stream = Idle
           /\ \E taken \in BOOLEAN :
                /\ stream' = [cb |-> "done", taken |-> taken]
                /\ sent' = [sent EXCEPT ![t] = IF taken THEN 1 ELSE 0]
           /\ refused' = refused /\ overlap' = overlap
        \/ /\ stream # Idle /\ stream' = stream
           /\ refused' = refused + 1 /\ overlap' = TRUE /\ sent' = sent
    BY <1>2 DEF SendChangeAll
  <2> HIDE DEF e
  <2>5. RfkillTypeOK'
    <3>1. stream' \in Write \cup {Idle} /\ refused' \in Nat /\ overlap' \in BOOLEAN
          /\ sent' \in [Task -> 0..2]
      <4>0. \/ refused' = refused /\ overlap' = overlap
            \/ refused' = refused + 1 /\ overlap' = TRUE
        BY <2>4
      <4> refused \in Nat /\ overlap \in BOOLEAN
        BY DEF RInv, RfkillTypeOK
      <4>1. refused' \in Nat
        BY <4>0
      <4>6. overlap' \in BOOLEAN
        BY <4>0
      <4>2. \A taken \in BOOLEAN : [cb |-> "done", taken |-> taken] \in Write
        BY Records
      <4>3. stream' \in Write \cup {Idle}
        BY <2>4, <4>2 DEF RInv, RfkillTypeOK
      <4>4. sent \in [Task -> 0..2]
        BY DEF RInv, RfkillTypeOK
      <4>5. sent' \in [Task -> 0..2]
        BY <2>4, <4>4
      <4> QED
        BY <4>1, <4>3, <4>5, <4>6
    <3>2. request' \in [Task -> Event \cup {NoEvent}] /\ leaked' \in SUBSET Task
      BY <2>1, <2>2 DEF RInv, RfkillTypeOK
    <3>3. answer' \in [Task -> Final \cup {"none"}]
      BY <2>3 DEF RInv, RfkillTypeOK, Final
    <3> QED
      BY <2>1, <2>2, <3>1, <3>2, <3>3 DEF RInv, RfkillTypeOK
  <2>6. (Slots /\ Overlaps)'
    BY <2>1, <2>2, <2>4, Records DEF RInv, RfkillTypeOK, Slots, Overlaps
  <2>7. Served'
    <3>1. sent' = sent \/ \E n \in 0..1 : sent' = [sent EXCEPT ![t] = n]
      BY <2>4
    <3>2. \A u \in Task : u # task => answer'[u] = answer[u]
      BY <2>3 DEF RInv, RfkillTypeOK
    <3>3. task # NoTask => request[task] # NoEvent
      BY DEF RInv, Served, Slots
    <3> QED
      BY <2>1, <2>2, <3>1, <3>2, <3>3 DEF RInv, RfkillTypeOK, Served
  <2>8. Writes'
    BY <2>1, <2>2, <2>4, Records DEF RInv, RfkillTypeOK, Overlaps, Writes
  <2>9. FaultsHaveCauses'
    BY <2>1 DEF FaultsHaveCauses
  <2>10. SuccessMeansWritten'
    <3>1. \A u \in Task : answer'[u] = "ok" => u # t /\ answer[u] = "ok"
      BY <2>2, <2>3 DEF RInv, RfkillTypeOK
    <3>2. \A u \in Task \ {t} : sent'[u] = sent[u] /\ request'[u] = request[u]
      BY <2>1, <2>4 DEF RInv, RfkillTypeOK
    <3>3. ~overlap' => ~overlap
      BY <2>4 DEF RInv, RfkillTypeOK
    <3> QED
      BY <3>1, <3>2, <3>3 DEF RInv, SuccessMeansWritten
  <2> QED
    BY <2>5, <2>6, <2>7, <2>8, <2>9, <2>10 DEF RInv
<1> QED
  BY <1>1, <1>2

(* What every handler that answers the task preserves.                     *)
LEMMA ReturnAndClearInv ==
  ASSUME RInv, NEW result \in Final, ReturnAndClear(result),
         UNCHANGED <<owned, leaked, request, sent, overlap>>,
         refused' \in 0..refused,
         stream' \in {stream, Idle},
         timer' \in BOOLEAN, timer' => timer,
         timer' => stream' = Idle,
         ~overlap => ~timer' /\ stream' = Idle,
         result = "ok" /\ ~overlap =>
           sent[task] = IF UnblocksBluetooth(request[task]) THEN 2 ELSE 1
  PROVE  RInv'
<1>1. /\ task' = NoTask /\ event' = NoEvent
      /\ fault' = IF owned \/ leaked # {} THEN "none" ELSE "freed"
  BY DEF ReturnAndClear
<1>2. \/ answer' = answer
      \/ task \in Task /\ answer' = [answer EXCEPT ![task] = result]
  BY DEF ReturnAndClear, Returned, RInv, RfkillTypeOK
<1>3. RfkillTypeOK'
  <2>1. answer' \in [Task -> Final \cup {"none"}]
    BY <1>2 DEF RInv, RfkillTypeOK
  <2>2. refused' \in Nat /\ stream' \in Write \cup {Idle}
    BY DEF RInv, RfkillTypeOK
  <2>3. fault' \in {"none", "assert", "null", "freed"}
    BY <1>1
  <2> QED
    BY <1>1, <2>1, <2>2, <2>3 DEF RInv, RfkillTypeOK
<1>4. Slots'
  BY <1>1 DEF Slots
<1>5. Overlaps'
  <2>1. refused' > 0 => refused > 0
    BY DEF RInv, RfkillTypeOK
  <2> QED
    BY <1>1, <2>1 DEF RInv, Overlaps
<1>6. Served'
  <2>1. \A t \in Task : request[t] = NoEvent => t # task
    BY RfkillAssumption DEF RInv, Served, Slots
  <2>2. \A t \in Task : t # task => answer'[t] = answer[t]
    BY <1>2 DEF RInv, RfkillTypeOK
  <2>3. task' = NoTask /\ request' = request /\ sent' = sent
    BY <1>1
  <2>4. \A t \in Task : request[t] = NoEvent => answer[t] = "none" /\ sent[t] = 0
    BY DEF RInv, Served
  <2> QED
    BY <2>1, <2>2, <2>3, <2>4 DEF Served
<1>7. Writes'
  BY Records DEF Writes
<1>8. FaultsHaveCauses'
  <2>1. fault' = "none" \/ (fault' = "freed" /\ ~owned /\ leaked = {})
    BY <1>1
  <2>2. leaked = {} => ~overlap
    BY DEF RInv, Overlaps
  <2>3. owned' = owned /\ overlap' = overlap
    OBVIOUS
  <2> QED
    BY <2>1, <2>2, <2>3 DEF FaultsHaveCauses
<1>9. SuccessMeansWritten'
  <2>1. \A t \in Task : answer'[t] = "ok" => answer[t] = "ok" \/ (t = task /\ result = "ok")
    BY <1>2 DEF RInv, RfkillTypeOK
  <2>2. \A t \in Task :
          ~overlap /\ answer'[t] = "ok" =>
            sent[t] = IF UnblocksBluetooth(request[t]) THEN 2 ELSE 1
    <3>1. \A t \in Task :
            ~overlap /\ answer[t] = "ok" =>
              sent[t] = IF UnblocksBluetooth(request[t]) THEN 2 ELSE 1
      BY DEF RInv, SuccessMeansWritten, UnblocksBluetooth
    <3> QED
      BY <2>1, <3>1
  <2> QED
    BY <2>2 DEF SuccessMeansWritten, UnblocksBluetooth
<1> QED
  BY <1>3, <1>4, <1>5, <1>6, <1>7, <1>8, <1>9 DEF RInv


LEMMA WriteChangeAllDoneInv ==
  ASSUME RInv, WriteChangeAllDone
  PROVE  RInv'
<1>1. /\ stream.cb = "done" /\ stream # Idle /\ stream' = Idle
      /\ refused' \in 0..refused
      /\ UNCHANGED <<owned, leaked, request, sent, overlap>>
      /\ timer = FALSE
  BY Records DEF WriteChangeAllDone, history, RInv, RfkillTypeOK, Slots
<1>2. CASE ~Succeeded
  <2>1. ReturnAndClear("failed") /\ timer' = timer
    BY <1>2 DEF WriteChangeAllDone
  <2> QED
    BY <1>1, <2>1, ReturnAndClearInv DEF Final
<1>3. CASE Succeeded /\ event = NoEvent
  <2>1. /\ fault' = "null"
        /\ UNCHANGED <<event, task, timer, answer>>
    BY <1>3 DEF WriteChangeAllDone
  <2>2. overlap
    BY <1>1, <1>3 DEF RInv, Slots, Overlaps
  <2> QED
    BY <1>1, <2>1, <2>2, Records
    DEF WriteChangeAllDone, RInv, RfkillTypeOK, Slots, Overlaps, Served, Writes,
        FaultsHaveCauses, SuccessMeansWritten
<1>4. CASE Succeeded /\ event # NoEvent /\ (event.soft \/ event.type # Bluetooth)
  <2>1. ReturnAndClear("ok") /\ timer' = timer
    BY <1>4 DEF WriteChangeAllDone
  <2>2. ~overlap => sent[task] = 1
    BY <1>1, <1>4 DEF Succeeded, RInv, Writes
  <2>3. task # NoTask /\ request[task] = event
    BY <1>4 DEF RInv, Slots, Served
  <2>4. ~UnblocksBluetooth(event)
    BY <1>4 DEF UnblocksBluetooth
  <2>5. ~overlap =>
          sent[task] = IF UnblocksBluetooth(request[task]) THEN 2 ELSE 1
    BY <2>2, <2>3, <2>4
  <2> QED
    BY <1>1, <2>1, <2>5, ReturnAndClearInv DEF Final
<1>5. CASE Succeeded /\ event # NoEvent /\ ~(event.soft \/ event.type # Bluetooth)
  <2>1. timer' = TRUE /\ UNCHANGED <<event, task, answer, fault>>
    BY <1>5 DEF WriteChangeAllDone
  <2>2. UnblocksBluetooth(event) /\ task # NoTask
    BY <1>5, Records DEF RInv, RfkillTypeOK, Slots
  <2>3. stream.taken
    BY <1>5 DEF Succeeded
  <2>4. RfkillTypeOK'
    BY <1>1, <2>1 DEF WriteChangeAllDone, RInv, RfkillTypeOK
  <2>5. (Slots /\ Overlaps)'
    BY <1>1, <2>1, <2>2 DEF WriteChangeAllDone, RInv, Slots, Overlaps
  <2>6. Served'
    BY <1>1, <2>1 DEF RInv, Served
  <2>7. Writes'
    BY <1>1, <2>1, <2>2, <2>3, Records DEF RInv, Writes, UnblocksBluetooth
  <2>8. (FaultsHaveCauses /\ SuccessMeansWritten)'
    BY <1>1, <2>1 DEF RInv, FaultsHaveCauses, SuccessMeansWritten
  <2> QED
    BY <2>4, <2>5, <2>6, <2>7, <2>8 DEF RInv
<1> QED
  BY <1>2, <1>3, <1>4, <1>5

LEMMA WriteRefusedInv ==
  ASSUME RInv, WriteRefused
  PROVE  RInv'
<1>1. /\ refused' \in 0..refused
      /\ UNCHANGED <<owned, leaked, request, sent, overlap, stream, timer>>
      /\ ReturnAndClear("failed")
      /\ overlap
  BY DEF WriteRefused, history, RInv, RfkillTypeOK, Overlaps
<1>2. timer \in BOOLEAN /\ (timer => stream = Idle)
  BY DEF RInv, RfkillTypeOK, Slots
<1> QED
  BY <1>1, <1>2, ReturnAndClearInv DEF Final

LEMMA WriteChangeAllAgainDoneInv ==
  ASSUME RInv, WriteChangeAllAgainDone
  PROVE  RInv'
<1>1. /\ stream.cb = "again" /\ stream # Idle /\ stream' = Idle
      /\ refused' \in 0..refused
      /\ UNCHANGED <<owned, leaked, request, sent, overlap, timer>>
      /\ timer = FALSE
      /\ ReturnAndClear(IF Succeeded THEN "ok" ELSE "failed")
  BY Records DEF WriteChangeAllAgainDone, history, RInv, RfkillTypeOK, Slots
<1>2. CASE ~Succeeded
  BY <1>1, <1>2, ReturnAndClearInv DEF Final
<1>3. CASE Succeeded
  <2>1. ~overlap => sent[task] = 2 /\ UnblocksBluetooth(event) /\ task # NoTask
    BY <1>1, <1>3 DEF Succeeded, RInv, Writes, Overlaps
  <2>2. ~overlap =>
          sent[task] = IF UnblocksBluetooth(request[task]) THEN 2 ELSE 1
    BY <2>1 DEF RInv, Served
  <2> QED
    BY <1>1, <1>3, <2>2, ReturnAndClearInv DEF Final
<1> QED
  BY <1>2, <1>3

LEMMA WriteChangeAllTimeoutInv ==
  ASSUME RInv, WriteChangeAllTimeout
  PROVE  RInv'
<1>1. /\ timer /\ timer' = FALSE /\ stream' = stream /\ stream = Idle
      /\ refused' \in 0..refused
      /\ UNCHANGED <<owned, leaked, request, sent, overlap>>
  <2>1. /\ timer /\ timer' = FALSE /\ stream' = stream /\ refused' = refused
        /\ UNCHANGED <<owned, leaked, request, sent, overlap>>
    BY DEF WriteChangeAllTimeout, history
  <2>2. refused \in Nat /\ (timer => stream = Idle)
    BY DEF RInv, RfkillTypeOK, Slots
  <2>3. refused' \in 0..refused
    BY <2>1, <2>2
  <2> QED
    BY <2>1, <2>2, <2>3
<1>2. CASE event = NoEvent
  <2>1. /\ fault' = "assert"
        /\ UNCHANGED <<event, task, answer, refused>>
    BY <1>2 DEF WriteChangeAllTimeout
  <2>2. overlap
    BY <1>1, <1>2 DEF RInv, Slots, Overlaps
  <2> QED
    BY <1>1, <2>1, <2>2
    DEF RInv, RfkillTypeOK, Slots, Overlaps, Served, Writes, FaultsHaveCauses,
        SuccessMeansWritten
<1>3. CASE event # NoEvent
  <2>1. ReturnAndClear("timed out")
    BY <1>3 DEF WriteChangeAllTimeout
  <2> QED
    BY <1>1, <2>1, ReturnAndClearInv DEF Final
<1> QED
  BY <1>2, <1>3

LEMMA EventCbInv ==
  ASSUME RInv, NEW change \in BOOLEAN, EventCb(change)
  PROVE  RInv'
<1>1. /\ UNCHANGED <<owned, refused, event, task, request, answer, leaked,
                     overlap, fault>>
      /\ fault = "none"
  BY DEF EventCb
<1>2. CASE ~(timer /\ change)
  <2>1. UNCHANGED <<timer, stream, sent>>
    BY <1>2 DEF EventCb
  <2>2. (RfkillTypeOK /\ Slots /\ Overlaps)'
    BY <1>1, <2>1 DEF RInv, RfkillTypeOK, Slots, Overlaps
  <2>3. (Served /\ Writes /\ FaultsHaveCauses /\ SuccessMeansWritten)'
    BY <1>1, <2>1 DEF RInv, Served, Writes, FaultsHaveCauses, SuccessMeansWritten
  <2> QED
    BY <2>2, <2>3 DEF RInv
<1>3. CASE timer /\ change
  <2>1. PICK taken \in BOOLEAN :
          /\ taken => event # NoEvent /\ owned
          /\ stream' = IF event = NoEvent THEN stream
                       ELSE [cb |-> "again", taken |-> taken]
          /\ sent' = IF taken THEN [sent EXCEPT ![task] = @ + 1] ELSE sent
    BY <1>3 DEF EventCb
  <2>2. timer' = FALSE /\ stream = Idle
    BY <1>3 DEF EventCb, RInv, Slots
  <2>3. /\ event # NoEvent => task \in Task /\ sent[task] <= 1 /\ answer[task] = "none"
        /\ ~overlap => event # NoEvent /\ sent[task] = 1 /\ UnblocksBluetooth(event)
    BY <1>3, <2>2, Records DEF RInv, RfkillTypeOK, Slots, Overlaps, Served, Writes
  <2>4. /\ event # NoEvent => stream' \in Write /\ stream' # Idle
                              /\ stream'.cb = "again" /\ stream'.taken = taken
        /\ event = NoEvent => stream' = Idle
    BY <2>1, <2>2, Records
  <2>5. \/ sent' = sent
        \/ taken /\ event # NoEvent /\ sent' = [sent EXCEPT ![task] = sent[task] + 1]
    BY <2>1
  <2>6. RfkillTypeOK'
    <3>1. sent' \in [Task -> 0..2]
      <4> sent \in [Task -> 0..2]
        BY DEF RInv, RfkillTypeOK
      <4> QED
        BY <2>3, <2>5
    <3> QED
      BY <1>1, <2>2, <2>4, <3>1 DEF RInv, RfkillTypeOK
  <2>7. (Slots /\ Overlaps)'
    BY <1>1, <1>3, <2>2, <2>3, <2>4 DEF RInv, Slots, Overlaps
  <2>8. Served'
    <3>1. \A t \in Task : request[t] = NoEvent => sent'[t] = sent[t]
      BY <2>5, RfkillAssumption DEF RInv, RfkillTypeOK, Slots, Served
    <3>2. task # NoTask => stream'.cb = "again"
      BY <2>4 DEF RInv, Slots
    <3> QED
      BY <1>1, <3>1, <3>2 DEF RInv, Served
  <2>9. Writes'
    <3>1. ~overlap /\ taken => sent'[task] = 2
      <4> sent \in [Task -> 0..2]
        BY DEF RInv, RfkillTypeOK
      <4> QED
        BY <2>1, <2>3
    <3> QED
      BY <1>1, <2>2, <2>3, <2>4, <3>1, Records DEF Writes
  <2>10. (FaultsHaveCauses /\ SuccessMeansWritten)'
    <3>1. \A t \in Task : answer[t] = "ok" => sent'[t] = sent[t]
      BY <2>3, <2>5 DEF RInv, RfkillTypeOK
    <3> QED
      BY <1>1, <3>1 DEF RInv, FaultsHaveCauses, SuccessMeansWritten
  <2> QED
    BY <2>6, <2>7, <2>8, <2>9, <2>10 DEF RInv
<1> QED
  BY <1>2, <1>3

LEMMA DropObjectInv ==
  ASSUME RInv, DropObject
  PROVE  RInv'
BY DEF DropObject, history, RInv, RfkillTypeOK, Slots, Overlaps, Served, Writes,
       FaultsHaveCauses, SuccessMeansWritten

LEMMA RfkillNextInv == RInv /\ [RfkillNext]_rvars => RInv'
<1> SUFFICES ASSUME RInv, [RfkillNext]_rvars PROVE RInv'
  OBVIOUS
<1>1. ASSUME NEW t \in Task, NEW type \in {Bluetooth, AllTypes},
             NEW enable \in BOOLEAN, SendChangeAll(t, type, enable)
      PROVE  RInv'
  BY <1>1, SendChangeAllInv
<1>2. CASE WriteChangeAllDone
  BY <1>2, WriteChangeAllDoneInv
<1>3. CASE WriteRefused
  BY <1>3, WriteRefusedInv
<1>4. CASE WriteChangeAllAgainDone
  BY <1>4, WriteChangeAllAgainDoneInv
<1>5. CASE WriteChangeAllTimeout
  BY <1>5, WriteChangeAllTimeoutInv
<1>6. ASSUME NEW change \in BOOLEAN, EventCb(change)
      PROVE  RInv'
  BY <1>6, EventCbInv
<1>7. CASE DropObject
  BY <1>7, DropObjectInv
<1>8. CASE UNCHANGED rvars
  BY <1>8 DEF rvars, RInv, RfkillTypeOK, Slots, Overlaps, Served, Writes,
              FaultsHaveCauses, SuccessMeansWritten
<1> QED
  BY <1>1, <1>2, <1>3, <1>4, <1>5, <1>6, <1>7, <1>8 DEF RfkillNext

-----------------------------------------------------------------------------
(* The manager.                                                            *)

(* Every step of the manager is a step of its object, or leaves it alone.  *)
LEMMA ManagerStep == [Next]_vars => [RfkillNext]_rvars
<1> SUFFICES ASSUME [Next]_vars PROVE [RfkillNext]_rvars
  OBVIOUS
<1>1. CASE EventsRead
  <2> DEFINE change == \E i \in DOMAIN queue : queue[i].op = "CHANGE"
  <2>1. change \in BOOLEAN /\ EventCb(change)
    BY <1>1 DEF EventsRead
  <2> QED
    BY <2>1 DEF RfkillNext
<1>2. ASSUME NEW t \in Task, NEW type \in {Bluetooth, AllTypes},
             NEW enable \in BOOLEAN, SetAirplaneMode(t, type, enable)
      PROVE  [RfkillNext]_rvars
  BY <1>2 DEF SetAirplaneMode, RfkillNext
<1>3. CASE ObjectCallback
  BY <1>3 DEF ObjectCallback, RfkillNext
<1>4. CASE Stop
  BY <1>4 DEF Stop, RfkillNext
<1>5. ASSUME NEW s \in Switch, NEW state \in SwitchState, KernelChanges(s, state)
      PROVE  rvars' = rvars
  BY <1>5 DEF KernelChanges
<1>6. CASE Start \/ StartWithoutDevice \/ OpenRead \/ OpenDone
  BY <1>6 DEF Start, StartWithoutDevice, OpenRead, OpenDone
<1>7. CASE OnBusGotten \/ OnNmProxyGotten \/ NmSignal \/ OnMmProxyGotten \/ ModemsChange
  BY <1>7 DEF OnBusGotten, OnNmProxyGotten, NmSignal, OnMmProxyGotten, ModemsChange
<1>8. CASE UNCHANGED vars
  BY <1>8 DEF vars
<1> QED
  BY <1>1, <1>2, <1>3, <1>4, <1>5, <1>6, <1>7, <1>8 DEF Next

(* The invariant of the requests holds whatever the manager does besides.  *)
THEOREM RInvAlways == Spec => []RInv
<1>1. Init => RInv
  BY RfkillInitInv DEF Init
<1>2. RInv /\ [Next]_vars => RInv'
  BY RfkillNextInv, ManagerStep
<1> QED
  BY <1>1, <1>2, PTL DEF Spec

(* The assertion of the timer's handler and the event that the write's     *)
(* handler reads can fail only after two requests overlapped, and freed    *)
(* memory is used only after a stop with a request under way.              *)
THEOREM FaultsHaveCausesAlways == Spec => []FaultsHaveCauses
BY RInvAlways, PTL DEF RInv

(* Unless requests overlapped, success tells that the kernel took as many  *)
(* writes as the request needs.                                            *)
THEOREM SuccessMeansWrittenAlways == Spec => []SuccessMeansWritten
BY RInvAlways, PTL DEF RInv

(* A callback of a write or of the timer finds the object that asked for   *)
(* it: its task holds it, and a task that was overwritten does so for good.*)
THEOREM CallbacksFindTheObjectAlways == Spec => []CallbacksFindTheObject
<1>1. RInv => CallbacksFindTheObject
  BY DEF RInv, Overlaps, CallbacksFindTheObject, Alive
<1> QED
  BY RInvAlways, <1>1, PTL

(* No request is answered twice, whether requests overlap or not: only the *)
(* task in the object's place is answered, and it was not before.          *)
THEOREM AnsweredOnceAlways == Spec => AnsweredOnce
<1>1. ASSUME RInv, [RfkillNext]_rvars, NEW u \in Task, answer[u] # "none"
      PROVE  answer'[u] = answer[u]
  <2>1. answer \in [Task -> Final \cup {"none"}]
    BY <1>1 DEF RInv, RfkillTypeOK
  <2>2. u # task
    BY <1>1, RfkillAssumption DEF RInv, Served
  <2>3. \A result \in Final : Returned(result)[u] = answer[u]
    BY <2>1, <2>2 DEF Returned
  <2>4. \A result \in Final : ReturnAndClear(result) => answer'[u] = answer[u]
    BY <2>3 DEF ReturnAndClear
  <2>5. ASSUME NEW t \in Task, NEW type \in {Bluetooth, AllTypes},
               NEW enable \in BOOLEAN, SendChangeAll(t, type, enable)
        PROVE  answer'[u] = answer[u]
    <3>1. answer' = answer \/ answer' = Returned("timed out")
      BY <2>5 DEF SendChangeAll
    <3> QED
      BY <2>3, <3>1 DEF Final
  <2>6. CASE WriteChangeAllDone
    <3>1. answer' = answer \/ ReturnAndClear("ok") \/ ReturnAndClear("failed")
      BY <2>6 DEF WriteChangeAllDone
    <3> QED
      BY <2>4, <3>1 DEF Final
  <2>7. CASE WriteRefused
    BY <2>4, <2>7 DEF WriteRefused, Final
  <2>8. CASE WriteChangeAllAgainDone
    <3>1. ReturnAndClear("ok") \/ ReturnAndClear("failed")
      BY <2>8 DEF WriteChangeAllAgainDone
    <3> QED
      BY <2>4, <3>1 DEF Final
  <2>9. CASE WriteChangeAllTimeout
    <3>1. answer' = answer \/ ReturnAndClear("timed out")
      BY <2>9 DEF WriteChangeAllTimeout
    <3> QED
      BY <2>4, <3>1 DEF Final
  <2>10. ASSUME NEW change \in BOOLEAN, EventCb(change)
        PROVE  answer' = answer
    BY <2>10 DEF EventCb
  <2>11. DropObject => answer' = answer
    BY DEF DropObject
  <2>12. UNCHANGED rvars => answer' = answer
    BY DEF rvars
  <2> QED
    BY <1>1, <2>5, <2>6, <2>7, <2>8, <2>9, <2>10, <2>11, <2>12 DEF RfkillNext
<1>2. RInv /\ [Next]_vars =>
        [\A t \in Task : answer[t] # "none" => answer'[t] = answer[t]]_rvars
  BY <1>1, ManagerStep
<1> QED
  BY RInvAlways, <1>2, PTL DEF Spec, AnsweredOnce

-----------------------------------------------------------------------------
(* Lists of events, and the switches that they tell of.                    *)

(* Any set of natural numbers has a least member.                          *)
LEMMA Least ==
  ASSUME NEW T \in SUBSET Nat, T # {}
  PROVE  \E x \in T : \A y \in T : x <= y
<1>1. PICK x \in T : \A y \in T : ~ (<<y, x>> \in OpToRel(<, Nat))
  BY NatLessThanWellFounded, WFMin
<1>2. \A n, m \in Nat : <<n, m>> \in OpToRel(<, Nat) <=> n < m
  BY DEF OpToRel
<1>3. \A y \in T : ~(y < x)
  BY <1>1, <1>2
<1>4. \A n, m \in Nat : ~(n < m) => m <= n
  OBVIOUS
<1>5. \A y \in T : x <= y
  BY <1>3, <1>4
<1> QED
  BY <1>5

(* What the loop of rfkill_changed makes of a switch.                      *)
LEMMA FiledBySwitch ==
  ASSUME NEW events \in Seq(RfkillEvent), NEW table, NEW s \in Switch
  PROVE  /\ ~TellsOf(events, s) => Filed(table, events)[s] = table[s]
         /\ TellsOf(events, s) =>
              \E i \in DOMAIN events :
                IsLast(events, s, i) /\ Filed(table, events)[s] = Value(events[i])
<1>1. ASSUME TellsOf(events, s)
      PROVE  \E i \in DOMAIN events : IsLast(events, s, i)
  <2> DEFINE n == Len(events)
             T == {k \in 0..n : n - k \in 1..n /\ events[n - k].idx = s}
  <2>1. n \in Nat /\ DOMAIN events = 1..n
    OBVIOUS
  <2> HIDE DEF n
  <2>2. PICK j \in 1..n : events[j].idx = s
    BY <1>1, <2>1 DEF TellsOf
  <2>3. n - j \in 0..n /\ n - (n - j) = j
    BY <2>1
  <2>4. T \in SUBSET Nat /\ T # {}
    <3>1. n - j \in T
      BY <2>2, <2>3
    <3>2. \A k \in T : k \in Nat
      BY <2>1
    <3> QED
      BY <3>1, <3>2
  <2>5. PICK k \in T : \A l \in T : k <= l
    BY <2>4, Least
  <2>6. n - k \in 1..n /\ events[n - k].idx = s /\ k \in 0..n
    OBVIOUS
  <2>7. ASSUME NEW i \in 1..n, i > n - k, events[i].idx = s PROVE FALSE
    <3>1. n - i \in 0..n /\ n - (n - i) = i
      BY <2>1
    <3>2. n - i \in T
      BY <2>7, <3>1
    <3>3. k <= n - i
      BY <2>5, <3>2
    <3>4. i \in Int /\ n \in Int /\ k \in Int /\ i > n - k
      BY <2>1, <2>6, <2>7
    <3> QED
      BY <3>3, <3>4
  <2> QED
    BY <2>1, <2>6, <2>7 DEF IsLast
<1>2. Filed(table, events)[s] =
        IF TellsOf(events, s)
          THEN Value(events[CHOOSE i \in DOMAIN events : IsLast(events, s, i)])
          ELSE table[s]
  BY DEF Filed
<1> QED
  BY <1>1, <1>2

(* A list of the members of a set of switches has each of them.            *)
LEMMA Listed ==
  ASSUME NEW S \in SUBSET Switch
  PROVE  /\ Cardinality(S) \in Nat
         /\ SetToSeq(S) \in [1..Cardinality(S) -> S]
         /\ \A s \in S : \E i \in 1..Cardinality(S) : SetToSeq(S)[i] = s
<1> DEFINE n == Cardinality(S)
<1>1. IsFiniteSet(S)
  BY FS_Subset, RfkillManagerAssumption
<1>2. n \in Nat /\ ExistsBijection(1..n, S)
  BY <1>1, FS_CardinalityType
<1>3. \E f \in [1..n -> S] : IsInjective(f)
  BY <1>2 DEF ExistsBijection, Bijection, Injection
<1>4. SetToSeq(S) \in [1..n -> S] /\ IsInjective(SetToSeq(S))
  BY <1>3 DEF SetToSeq
<1>5. SetToSeq(S) \in Injection(1..n, S)
  BY <1>4 DEF Injection
<1>6. Cardinality(1..n) = n
  BY <1>2, FS_Interval
<1>7. SetToSeq(S) \in Surjection(1..n, S)
  BY <1>1, <1>5, <1>6, FS_Injection
<1> QED
  BY <1>2, <1>4, <1>7 DEF Surjection

(* What an event should tell of a switch in this state.                    *)
StateValue(state) ==
  IF ~state.present THEN Absent
  ELSE IF state.hard THEN HardBlocked
  ELSE IF state.soft THEN SoftBlocked ELSE Unblocked

LastTells(events, s, state) ==
  \A i \in DOMAIN events : IsLast(events, s, i) => Value(events[i]) = StateValue(state)

LEMMA EventValue ==
  ASSUME NEW s \in Switch, NEW state \in SwitchState, NEW op \in {"ADD", "DEL", "CHANGE"},
         op = "DEL" <=> ~state.present
  PROVE  /\ EventOf(op, s, state) \in RfkillEvent
         /\ EventOf(op, s, state).idx = s
         /\ EventOf(op, s, state).op = op
         /\ Value(EventOf(op, s, state)) = StateValue(state)
<1>1. state.soft \in BOOLEAN /\ state.hard \in BOOLEAN /\ state.present \in BOOLEAN
  <2>1. CASE state = Gone
    BY <2>1 DEF Gone
  <2>2. CASE state \in [present : {TRUE}, soft : BOOLEAN, hard : BOOLEAN]
    BY <2>2
  <2> QED
    BY <2>1, <2>2 DEF SwitchState
<1> DEFINE e == EventOf(op, s, state)
<1>2. e.op = op /\ e.idx = s /\ e.soft = state.soft /\ e.hard = state.hard
  BY DEF EventOf
<1>3. e \in RfkillEvent
  BY <1>1 DEF EventOf, RfkillEvent
<1>4. Value(e) = StateValue(state)
  BY <1>1, <1>2 DEF Value, StateValue
<1> QED
  BY <1>2, <1>3, <1>4

LEMMA AppendTells ==
  ASSUME NEW q \in Seq(RfkillEvent), NEW e \in RfkillEvent, NEW s \in Switch,
         NEW state
  PROVE  /\ TellsOf(Append(q, e), s) <=> TellsOf(q, s) \/ e.idx = s
         /\ e.idx = s /\ Value(e) = StateValue(state) => LastTells(Append(q, e), s, state)
         /\ e.idx # s /\ LastTells(q, s, state) => LastTells(Append(q, e), s, state)
<1> DEFINE r == Append(q, e)  n == Len(q)
<1>1. /\ n \in Nat /\ DOMAIN q = 1..n /\ DOMAIN r = 1..(n + 1)
      /\ \A i \in 1..n : r[i] = q[i]
      /\ r[n + 1] = e
  OBVIOUS
<1> HIDE DEF r, n
<1>2. 1..(n + 1) = (1..n) \cup {n + 1}
  BY <1>1
<1>3. TellsOf(r, s) <=> TellsOf(q, s) \/ e.idx = s
  <2>1. TellsOf(r, s) <=> \E i \in 1..(n + 1) : r[i].idx = s
    BY <1>1 DEF TellsOf
  <2>2. TellsOf(q, s) <=> \E i \in 1..n : q[i].idx = s
    BY <1>1 DEF TellsOf
  <2> QED
    BY <1>1, <1>2, <2>1, <2>2
<1>4. e.idx = s /\ Value(e) = StateValue(state) => LastTells(r, s, state)
  <2>1. \A i \in 1..(n + 1) : i # n + 1 => n + 1 > i
    BY <1>1
  <2>2. n + 1 \in 1..(n + 1)
    BY <1>1
  <2>3. \A i \in DOMAIN r : e.idx = s /\ IsLast(r, s, i) => i = n + 1
    BY <1>1, <2>1, <2>2 DEF IsLast
  <2> QED
    BY <1>1, <2>3 DEF LastTells
<1>5. e.idx # s /\ LastTells(q, s, state) => LastTells(r, s, state)
  <2>1. \A i \in DOMAIN r : e.idx # s /\ IsLast(r, s, i) => IsLast(q, s, i)
    BY <1>1, <1>2 DEF IsLast
  <2>2. \A i \in DOMAIN r : IsLast(q, s, i) => i \in 1..n /\ r[i] = q[i]
    BY <1>1 DEF IsLast
  <2> QED
    BY <1>1, <2>1, <2>2 DEF LastTells
<1> QED
  BY <1>3, <1>4, <1>5 DEF r

LEMMA ConcatTells ==
  ASSUME NEW q \in Seq(RfkillEvent), NEW more \in Seq(RfkillEvent), NEW s \in Switch,
         NEW state
  PROVE  /\ TellsOf(q \o more, s) <=> TellsOf(q, s) \/ TellsOf(more, s)
         /\ /\ TellsOf(more, s)
            /\ \A i \in DOMAIN more : more[i].idx = s => Value(more[i]) = StateValue(state)
            => LastTells(q \o more, s, state)
         /\ ~TellsOf(more, s) /\ LastTells(q, s, state) => LastTells(q \o more, s, state)
<1> DEFINE r == q \o more  n == Len(q)  m == Len(more)
<1>1. /\ n \in Nat /\ m \in Nat
      /\ DOMAIN q = 1..n /\ DOMAIN more = 1..m /\ DOMAIN r = 1..(n + m)
      /\ \A i \in 1..n : r[i] = q[i]
      /\ \A i \in 1..m : r[n + i] = more[i]
  OBVIOUS
<1> HIDE DEF r, n, m
<1>2. /\ \A i \in 1..(n + m) : i \in 1..n \/ (i - n \in 1..m /\ n + (i - n) = i)
      /\ \A i \in 1..n : i \in 1..(n + m)
      /\ \A i \in 1..m : n + i \in 1..(n + m)
      /\ \A i \in 1..n, j \in 1..m : n + j > i
  BY <1>1
<1>3. \A i \in 1..(n + m) : i \in 1..n \/ \E j \in 1..m : i = n + j
  BY <1>2
<1>0. /\ TellsOf(r, s) <=> \E i \in 1..(n + m) : r[i].idx = s
      /\ TellsOf(q, s) <=> \E i \in 1..n : q[i].idx = s
      /\ TellsOf(more, s) <=> \E i \in 1..m : more[i].idx = s
  BY <1>1 DEF TellsOf
<1>4. TellsOf(r, s) <=> TellsOf(q, s) \/ TellsOf(more, s)
  <2>1. TellsOf(r, s) => TellsOf(q, s) \/ TellsOf(more, s)
    BY <1>0, <1>1, <1>3
  <2>2. TellsOf(q, s) => TellsOf(r, s)
    BY <1>0, <1>1, <1>2
  <2>3. TellsOf(more, s) => TellsOf(r, s)
    BY <1>0, <1>1, <1>2
  <2> QED
    BY <2>1, <2>2, <2>3
<1>5. ASSUME TellsOf(more, s),
             \A i \in DOMAIN more : more[i].idx = s => Value(more[i]) = StateValue(state)
      PROVE  LastTells(r, s, state)
  <2>1. ASSUME NEW i \in DOMAIN r, IsLast(r, s, i)
        PROVE  Value(r[i]) = StateValue(state)
    <3>1. PICK j \in 1..m : more[j].idx = s
      BY <1>0, <1>5
    <3>2. i \notin 1..n
      BY <1>1, <1>2, <2>1, <3>1 DEF IsLast
    <3>3. PICK k \in 1..m : i = n + k
      BY <1>1, <1>3, <3>2
    <3>4. r[i] = more[k] /\ more[k].idx = s
      BY <1>1, <2>1, <3>3 DEF IsLast
    <3> QED
      BY <1>1, <1>5, <3>4
  <2> QED
    BY <2>1 DEF LastTells
<1>6. ASSUME ~TellsOf(more, s), LastTells(q, s, state)
      PROVE  LastTells(r, s, state)
  <2>1. ASSUME NEW i \in DOMAIN r, IsLast(r, s, i)
        PROVE  Value(r[i]) = StateValue(state)
    <3>1. i \in 1..n
      <4>1. i \in 1..(n + m) /\ r[i].idx = s
        BY <1>1, <2>1 DEF IsLast
      <4> QED
        BY <1>0, <1>1, <1>3, <1>6, <4>1
    <3>2. IsLast(q, s, i)
      BY <1>1, <1>2, <2>1, <3>1 DEF IsLast
    <3> QED
      BY <1>1, <1>6, <3>1, <3>2 DEF LastTells
  <2> QED
    BY <2>1 DEF LastTells
<1> QED
  BY <1>4, <1>5, <1>6 DEF r

LEMMA TailTells ==
  ASSUME NEW q \in Seq(RfkillEvent), q # <<>>, NEW s \in Switch, NEW state
  PROVE  /\ Head(q) \in RfkillEvent /\ Tail(q) \in Seq(RfkillEvent)
         /\ TellsOf(q, s) <=> Head(q).idx = s \/ TellsOf(Tail(q), s)
         /\ LastTells(q, s, state) => LastTells(Tail(q), s, state)
         /\ /\ LastTells(q, s, state)
            /\ Head(q).idx = s
            /\ ~TellsOf(Tail(q), s)
            => Value(Head(q)) = StateValue(state)
<1> DEFINE r == Tail(q)  n == Len(q)
<1>1. /\ n \in Nat \ {0} /\ DOMAIN q = 1..n /\ DOMAIN r = 1..(n - 1)
      /\ \A i \in 1..(n - 1) : r[i] = q[i + 1]
      /\ Head(q) = q[1] /\ Head(q) \in RfkillEvent /\ r \in Seq(RfkillEvent)
  OBVIOUS
<1> HIDE DEF r, n
<1>2. /\ \A i \in 1..n : i = 1 \/ (i - 1 \in 1..(n - 1) /\ (i - 1) + 1 = i)
      /\ \A i \in 1..(n - 1) : i + 1 \in 1..n /\ i + 1 > 1
      /\ \A i, j \in 1..(n - 1) : j + 1 > i + 1 <=> j > i
      /\ 1 \in 1..n
  BY <1>1
<1>3. \A i \in 1..n : i = 1 \/ \E j \in 1..(n - 1) : i = j + 1
  BY <1>2
<1>0. /\ TellsOf(q, s) <=> \E i \in 1..n : q[i].idx = s
      /\ TellsOf(r, s) <=> \E i \in 1..(n - 1) : r[i].idx = s
  BY <1>1 DEF TellsOf
<1>4. TellsOf(q, s) <=> q[1].idx = s \/ TellsOf(r, s)
  <2>1. TellsOf(q, s) => q[1].idx = s \/ TellsOf(r, s)
    BY <1>0, <1>1, <1>3
  <2>2. q[1].idx = s \/ TellsOf(r, s) => TellsOf(q, s)
    BY <1>0, <1>1, <1>2
  <2> QED
    BY <2>1, <2>2
<1>5. ASSUME LastTells(q, s, state) PROVE LastTells(r, s, state)
  <2>1. ASSUME NEW i \in DOMAIN r, IsLast(r, s, i)
        PROVE  Value(r[i]) = StateValue(state)
    <3>1. i + 1 \in 1..n /\ q[i + 1] = r[i] /\ q[i + 1].idx = s
      BY <1>1, <1>2, <2>1 DEF IsLast
    <3>2. ASSUME NEW j \in 1..n, j > i + 1 PROVE q[j].idx # s
      <4>1. j # 1
        BY <1>1, <1>2, <2>1, <3>2
      <4>2. PICK k \in 1..(n - 1) : j = k + 1
        BY <1>3, <4>1
      <4>3. k > i
        BY <1>1, <1>2, <2>1, <3>2, <4>2
      <4> QED
        BY <1>1, <2>1, <4>2, <4>3 DEF IsLast
    <3>3. IsLast(q, s, i + 1)
      BY <1>1, <3>1, <3>2 DEF IsLast
    <3> QED
      BY <1>1, <1>5, <3>1, <3>3 DEF LastTells
  <2> QED
    BY <2>1 DEF LastTells
<1>6. ASSUME LastTells(q, s, state), q[1].idx = s, ~TellsOf(r, s)
      PROVE  Value(q[1]) = StateValue(state)
  <2>1. \A j \in 1..n : j > 1 => q[j].idx # s
    <3>1. \A j \in 1..n : j > 1 => \E k \in 1..(n - 1) : j = k + 1
      <4>1. \A j \in 1..n : j > 1 => j # 1
        BY <1>1
      <4> QED
        BY <1>3, <4>1
    <3> QED
      BY <1>0, <1>1, <1>6, <3>1
  <2>2. IsLast(q, s, 1)
    BY <1>1, <1>2, <1>6, <2>1 DEF IsLast
  <2> QED
    BY <1>1, <1>2, <1>6, <2>2 DEF LastTells
<1> QED
  BY <1>1, <1>4, <1>5, <1>6 DEF r
-----------------------------------------------------------------------------
(* The manager's table and announcements.                                  *)

LEMMA PresentState ==
  ASSUME NEW state \in SwitchState, state.present, NEW soft \in BOOLEAN
  PROVE  /\ [state EXCEPT !.soft = soft] \in SwitchState
         /\ [state EXCEPT !.soft = soft].present
<1>1. state # Gone
  BY DEF Gone
<1>2. state \in [present : {TRUE}, soft : BOOLEAN, hard : BOOLEAN]
  BY <1>1 DEF SwitchState
<1>3. [state EXCEPT !.soft = soft] \in [present : {TRUE}, soft : BOOLEAN, hard : BOOLEAN]
  BY <1>2
<1> QED
  BY <1>2, <1>3 DEF SwitchState

(* The kernel tells each open file of every switch that a request changed. *)
LEMMA ObeysEffect ==
  ASSUME kernel \in [Switch -> SwitchState], NEW unread \in Seq(RfkillEvent),
         NEW e, e.soft \in BOOLEAN, Obeys(e, unread)
  PROVE  /\ kernel' \in [Switch -> SwitchState]
         /\ queue' \in Seq(RfkillEvent)
         /\ \A s \in Switch :
              /\ LastTells(unread, s, kernel[s]) => LastTells(queue', s, kernel'[s])
              /\ TellsOf(unread, s) => TellsOf(queue', s)
              /\ ~TellsOf(queue', s) => kernel'[s] = kernel[s]
<1> DEFINE changed == {s \in IF e.type = Bluetooth THEN BtSwitch ELSE Switch :
                         kernel[s].present /\ kernel[s].soft # e.soft}
           more == [i \in 1..Cardinality(changed) |->
                      EventOf("CHANGE", SetToSeq(changed)[i],
                              kernel'[SetToSeq(changed)[i]])]
<1>1. /\ kernel' = [s \in Switch |->
                      IF s \in changed THEN [kernel[s] EXCEPT !.soft = e.soft]
                      ELSE kernel[s]]
      /\ queue' = unread \o more
  BY DEF Obeys
<1>2. changed \in SUBSET Switch /\ \A s \in changed : kernel[s].present
  BY RfkillManagerAssumption
<1> HIDE DEF changed
<1>3. \A s \in changed : kernel'[s] \in SwitchState /\ kernel'[s].present
  BY <1>1, <1>2, PresentState
<1>4. /\ kernel' \in [Switch -> SwitchState]
      /\ \A s \in Switch \ changed : kernel'[s] = kernel[s]
  BY <1>1, <1>2, <1>3
<1>5. /\ Cardinality(changed) \in Nat
      /\ SetToSeq(changed) \in [1..Cardinality(changed) -> changed]
      /\ \A s \in changed : \E i \in 1..Cardinality(changed) : SetToSeq(changed)[i] = s
  BY <1>2, Listed
<1>6. \A s \in changed :
        LET c == EventOf("CHANGE", s, kernel'[s])
        IN c \in RfkillEvent /\ c.idx = s /\ Value(c) = StateValue(kernel'[s])
  BY <1>2, <1>3, EventValue
<1>7. /\ more \in Seq(RfkillEvent)
      /\ DOMAIN more = 1..Cardinality(changed)
      /\ \A i \in DOMAIN more :
           /\ more[i].idx = SetToSeq(changed)[i]
           /\ Value(more[i]) = StateValue(kernel'[more[i].idx])
  BY <1>5, <1>6
<1> HIDE DEF more
<1>8. \A s \in Switch : TellsOf(more, s) <=> s \in changed
  BY <1>5, <1>7 DEF TellsOf
<1>9. queue' \in Seq(RfkillEvent)
  BY <1>1, <1>7
<1>10. ASSUME NEW s \in Switch
       PROVE  /\ LastTells(unread, s, kernel[s]) => LastTells(queue', s, kernel'[s])
              /\ TellsOf(unread, s) => TellsOf(queue', s)
              /\ ~TellsOf(queue', s) => kernel'[s] = kernel[s]
  <2>1. TellsOf(queue', s) <=> TellsOf(unread, s) \/ s \in changed
    BY <1>1, <1>7, <1>8, ConcatTells
  <2>2. CASE s \in changed
    <3>1. \A i \in DOMAIN more : more[i].idx = s => Value(more[i]) = StateValue(kernel'[s])
      BY <1>7
    <3>2. LastTells(queue', s, kernel'[s])
      BY <1>1, <1>7, <1>8, <2>2, <3>1, ConcatTells
    <3> QED
      BY <2>1, <2>2, <3>2
  <2>3. CASE s \notin changed
    <3>1. kernel'[s] = kernel[s]
      BY <1>4, <2>3
    <3>2. LastTells(unread, s, kernel[s]) => LastTells(queue', s, kernel[s])
      BY <1>1, <1>7, <1>8, <2>3, ConcatTells
    <3> QED
      BY <2>1, <3>1, <3>2
  <2> QED
    BY <2>2, <2>3
<1> QED
  BY <1>4, <1>9, <1>10

LEMMA KernelTakesEffect ==
  ASSUME kernel \in [Switch -> SwitchState], NEW unread \in Seq(RfkillEvent),
         NEW e \in Event \cup {NoEvent}, KernelTakes(e, unread)
  PROVE  /\ kernel' \in [Switch -> SwitchState]
         /\ queue' \in Seq(RfkillEvent)
         /\ \A s \in Switch :
              /\ LastTells(unread, s, kernel[s]) => LastTells(queue', s, kernel'[s])
              /\ TellsOf(unread, s) => TellsOf(queue', s)
              /\ ~TellsOf(queue', s) => kernel'[s] = kernel[s]
<1>1. e.soft \in BOOLEAN
  <2>1. CASE e \in Event
    BY <2>1 DEF Event
  <2>2. CASE e = NoEvent
    BY <2>2 DEF NoEvent
  <2> QED
    BY <2>1, <2>2
<1>2. CASE Obeys(e, unread)
  BY <1>1, <1>2, ObeysEffect
<1>3. CASE kernel' = kernel /\ queue' = unread
  BY <1>3
<1> QED
  BY <1>2, <1>3 DEF KernelTakes

(* Opening the device: an event for each switch that is present.           *)
LEMMA StartEffect ==
  ASSUME kernel \in [Switch -> SwitchState], Start
  PROVE  /\ queue' \in Seq(RfkillEvent)
         /\ \A s \in Switch :
              /\ LastTells(queue', s, kernel[s])
              /\ ~TellsOf(queue', s) => ~kernel[s].present
<1> DEFINE present == {s \in Switch : kernel[s].present}
<1>1. queue' = [i \in 1..Cardinality(present) |->
                  EventOf("ADD", SetToSeq(present)[i], kernel[SetToSeq(present)[i]])]
  BY DEF Start
<1>2. present \in SUBSET Switch /\ \A s \in Switch : s \in present <=> kernel[s].present
  OBVIOUS
<1> HIDE DEF present
<1>3. /\ Cardinality(present) \in Nat
      /\ SetToSeq(present) \in [1..Cardinality(present) -> present]
      /\ \A s \in present : \E i \in 1..Cardinality(present) : SetToSeq(present)[i] = s
  BY <1>2, Listed
<1>4. \A s \in present :
        LET c == EventOf("ADD", s, kernel[s])
        IN c \in RfkillEvent /\ c.idx = s /\ Value(c) = StateValue(kernel[s])
  BY <1>2, EventValue
<1>5. /\ queue' \in Seq(RfkillEvent)
      /\ DOMAIN queue' = 1..Cardinality(present)
      /\ \A i \in DOMAIN queue' :
           /\ queue'[i].idx = SetToSeq(present)[i]
           /\ Value(queue'[i]) = StateValue(kernel[queue'[i].idx])
  BY <1>1, <1>3, <1>4
<1>6. \A s \in Switch : LastTells(queue', s, kernel[s])
  BY <1>5 DEF LastTells, IsLast
<1>7. \A s \in Switch : TellsOf(queue', s) <=> s \in present
  BY <1>3, <1>5 DEF TellsOf
<1> QED
  BY <1>2, <1>5, <1>6, <1>7

SwitchValue == {Unblocked, SoftBlocked, HardBlocked, Absent}

LEMMA FiledType ==
  ASSUME NEW events \in Seq(RfkillEvent), NEW table \in [Switch -> SwitchValue]
  PROVE  Filed(table, events) \in [Switch -> SwitchValue]
<1>1. \A e : Value(e) \in SwitchValue
  BY DEF Value, SwitchValue
<1>2. \A s \in Switch : Filed(table, events)[s] \in SwitchValue
  BY <1>1, FiledBySwitch
<1>3. Filed(table, events) = [s \in Switch |-> Filed(table, events)[s]]
  BY DEF Filed
<1> QED
  BY <1>2, <1>3

LEMMA RfkillChangedEffect ==
  ASSUME killswitches \in [Switch -> SwitchValue], NEW events \in Seq(RfkillEvent),
         RfkillChanged(events)
  PROVE  /\ killswitches' \in [Switch -> SwitchValue]
         /\ UNCHANGED <<wwan_enabled, wwan_interesting>>
         /\ manager # "stopped" => killswitches' = Filed(killswitches, events)
<1>1. Filed(killswitches, events) \in [Switch -> SwitchValue]
  BY FiledType
<1> QED
  BY <1>1 DEF RfkillChanged

Tables ==
  /\ kernel \in [Switch -> SwitchState]
  /\ queue \in Seq(RfkillEvent)
  /\ manager \in {"off", "opening", "on", "no device", "stopped"}
  /\ initial \in Seq(RfkillEvent)
  /\ missed \in SUBSET Switch
  /\ killswitches \in [Switch -> SwitchValue]

Flags ==
  /\ connection \in BOOLEAN
  /\ nm_client \in BOOLEAN /\ mm_client \in BOOLEAN
  /\ wwan_enabled \in BOOLEAN /\ wwan_interesting \in BOOLEAN
  /\ modems \in BOOLEAN

Counted == changes \in 0..MaxChanges

TInv == RInv /\ Tables /\ Flags /\ Counted

LEMMA TypeParts == TInv => TypeOK
BY DEF TInv, RInv, Tables, Flags, Counted, TypeOK, SwitchValue

LEMMA InitTypes == Init => TInv
<1> SUFFICES ASSUME Init PROVE TInv
  OBVIOUS
<1>1. RInv
  BY RfkillInitInv DEF Init
<1>2. ManagerInit
  BY DEF Init
<1>3. kernel \in [Switch -> SwitchState]
  <2>1. {Gone, [present |-> TRUE, soft |-> FALSE, hard |-> FALSE],
         [present |-> TRUE, soft |-> TRUE, hard |-> FALSE]} \subseteq SwitchState
    BY DEF SwitchState
  <2> QED
    BY <1>2, <2>1 DEF ManagerInit
<1>4. killswitches \in [Switch -> SwitchValue]
  BY <1>2 DEF ManagerInit, SwitchValue
<1>5. Counted
  BY <1>2, RfkillManagerAssumption DEF ManagerInit, Counted
<1>6. Tables
  BY <1>2, <1>3, <1>4 DEF ManagerInit, Tables
<1>7. Flags
  BY <1>2 DEF ManagerInit, Flags
<1> QED
  BY <1>1, <1>5, <1>6, <1>7 DEF TInv

(* The environment makes no more changes than the bound.                   *)
LEMMA CountStep ==
  ASSUME TInv, changes < MaxChanges, changes' = changes + 1
  PROVE  Counted'
BY RfkillManagerAssumption DEF TInv, Counted

LEMMA TypeStep ==
  ASSUME TInv, [Next]_vars
  PROVE  TInv'
<1>0. RInv'
  BY RfkillNextInv, ManagerStep DEF TInv
<1>t. event' \in Event \cup {NoEvent} /\ event \in Event \cup {NoEvent}
  BY <1>0 DEF RInv, RfkillTypeOK, TInv
<1>1. ASSUME NEW s \in Switch, NEW state \in SwitchState, KernelChanges(s, state)
      PROVE  Tables' /\ Flags' /\ Counted'
  <2>1. /\ kernel' = [kernel EXCEPT ![s] = state]
        /\ UNCHANGED <<manager, initial, missed, killswitches>>
    BY <1>1 DEF KernelChanges
  <2>2. queue' \in Seq(RfkillEvent)
    <3>1. \A op \in {"ADD", "DEL", "CHANGE"} :
            (op = "DEL" <=> ~state.present) => EventOf(op, s, state) \in RfkillEvent
      BY EventValue
    <3>2. \/ queue' = queue
          \/ \E op \in {"ADD", "DEL", "CHANGE"} :
               (op = "DEL" <=> ~state.present) /\ queue' = Append(queue, EventOf(op, s, state))
      BY <1>1 DEF KernelChanges
    <3>3. queue \in Seq(RfkillEvent)
      BY DEF TInv, Tables
    <3> QED
      BY <3>1, <3>2, <3>3
  <2>3. Tables'
    BY <2>1, <2>2 DEF TInv, Tables
  <2>4. Flags'
    BY <1>1 DEF KernelChanges, TInv, Flags
  <2>5. Counted'
    BY <1>1, CountStep DEF KernelChanges
  <2> QED
    BY <2>3, <2>4, <2>5
<1>2. ASSUME Start PROVE Tables' /\ Flags' /\ Counted'
  <2>1. queue' \in Seq(RfkillEvent)
    BY <1>2, StartEffect DEF TInv, Tables
  <2>2. Tables'
    BY <1>2, <2>1 DEF Start, TInv, Tables
  <2> QED
    BY <1>2, <2>2 DEF Start, TInv, Flags, Counted
<1>3. ASSUME StartWithoutDevice PROVE Tables' /\ Flags' /\ Counted'
  <2>1. Tables'
    BY <1>3 DEF StartWithoutDevice, TInv, Tables
  <2> QED
    BY <1>3, <2>1 DEF StartWithoutDevice, TInv, Flags, Counted
<1>4. ASSUME OpenRead PROVE Tables' /\ Flags' /\ Counted'
  <2>1. queue \in Seq(RfkillEvent) /\ initial \in Seq(RfkillEvent) /\ missed \in SUBSET Switch
        /\ queue # <<>>
    BY <1>4 DEF OpenRead, TInv, Tables
  <2>2. Head(queue) \in RfkillEvent /\ queue' \in Seq(RfkillEvent)
    BY <1>4, <2>1 DEF OpenRead
  <2>3. Head(queue).idx \in Switch
    BY <2>2 DEF RfkillEvent
  <2>4. initial' \in Seq(RfkillEvent) /\ missed' \in SUBSET Switch
    BY <1>4, <2>1, <2>2, <2>3 DEF OpenRead
  <2>5. Tables'
    BY <1>4, <2>2, <2>4 DEF OpenRead, TInv, Tables
  <2> QED
    BY <1>4, <2>5 DEF OpenRead, TInv, Flags, Counted
<1>5. ASSUME OpenDone PROVE Tables' /\ Flags' /\ Counted'
  <2>1. killswitches' \in [Switch -> SwitchValue]
        /\ UNCHANGED <<wwan_enabled, wwan_interesting>>
    BY <1>5, RfkillChangedEffect DEF OpenDone, TInv, Tables
  <2>2. Tables'
    BY <1>5, <2>1 DEF OpenDone, TInv, Tables
  <2> QED
    BY <1>5, <2>1, <2>2 DEF OpenDone, TInv, Flags, Counted
<1>6. ASSUME EventsRead PROVE Tables' /\ Flags' /\ Counted'
  <2>1. killswitches' \in [Switch -> SwitchValue]
        /\ UNCHANGED <<wwan_enabled, wwan_interesting>>
    BY <1>6, RfkillChangedEffect DEF EventsRead, TInv, Tables
  <2>2. kernel' \in [Switch -> SwitchState] /\ queue' \in Seq(RfkillEvent)
    <3>1. <<>> \in Seq(RfkillEvent) /\ KernelTakes(event, <<>>)
      BY <1>6 DEF EventsRead
    <3> QED
      BY <1>t, <3>1, KernelTakesEffect DEF TInv, Tables
  <2>3. Tables'
    BY <1>6, <2>1, <2>2 DEF EventsRead, TInv, Tables
  <2> QED
    BY <1>6, <2>1, <2>3 DEF EventsRead, TInv, Flags, Counted
<1>7. ASSUME NEW t \in Task, NEW type \in {Bluetooth, AllTypes},
             NEW enable \in BOOLEAN, SetAirplaneMode(t, type, enable)
      PROVE  Tables' /\ Flags' /\ Counted'
  <2>1. kernel' \in [Switch -> SwitchState] /\ queue' \in Seq(RfkillEvent)
    BY <1>7, <1>t, KernelTakesEffect DEF SetAirplaneMode, TInv, Tables
  <2>2. Tables'
    BY <1>7, <2>1 DEF SetAirplaneMode, TInv, Tables
  <2> QED
    BY <1>7, <2>2 DEF SetAirplaneMode, TInv, Flags, Counted
<1>8. ASSUME ObjectCallback PROVE Tables' /\ Flags' /\ Counted'
  <2>1. Tables'
    BY <1>8 DEF ObjectCallback, mvars, TInv, Tables
  <2> QED
    BY <1>8, <2>1 DEF ObjectCallback, mvars, TInv, Flags, Counted
<1>9. ASSUME OnBusGotten PROVE Tables' /\ Flags' /\ Counted'
  <2>1. Tables'
    BY <1>9 DEF OnBusGotten, TInv, Tables
  <2> QED
    BY <1>9, <2>1 DEF OnBusGotten, TInv, Flags, Counted
<1>10. ASSUME OnNmProxyGotten PROVE Tables' /\ Flags' /\ Counted'
  <2>1. Tables'
    BY <1>10 DEF OnNmProxyGotten, SyncWwanEnabled, TInv, Tables
  <2> QED
    BY <1>10, <2>1 DEF OnNmProxyGotten, SyncWwanEnabled, TInv, Flags, Counted
<1>11. ASSUME NmSignal PROVE Tables' /\ Flags' /\ Counted'
  <2>1. Tables'
    BY <1>11 DEF NmSignal, SyncWwanEnabled, TInv, Tables
  <2>2. Flags'
    BY <1>11 DEF NmSignal, SyncWwanEnabled, TInv, Flags
  <2> QED
    BY <1>11, <2>1, <2>2, CountStep DEF NmSignal
<1>12. ASSUME OnMmProxyGotten PROVE Tables' /\ Flags' /\ Counted'
  <2>1. Tables'
    BY <1>12 DEF OnMmProxyGotten, SyncWwanInteresting, TInv, Tables
  <2> QED
    BY <1>12, <2>1 DEF OnMmProxyGotten, SyncWwanInteresting, TInv, Flags, Counted
<1>13. ASSUME ModemsChange PROVE Tables' /\ Flags' /\ Counted'
  <2>1. Tables'
    BY <1>13 DEF ModemsChange, SyncWwanInteresting, TInv, Tables
  <2>2. Flags'
    BY <1>13 DEF ModemsChange, SyncWwanInteresting, TInv, Flags
  <2> QED
    BY <1>13, <2>1, <2>2, CountStep DEF ModemsChange
<1>14. ASSUME Stop PROVE Tables' /\ Flags' /\ Counted'
  <2>1. queue' \in Seq(RfkillEvent)
    <3>0. queue' = IF Alive' THEN queue ELSE <<>>
      BY <1>14 DEF Stop
    <3>1. queue' = queue \/ queue' = <<>>
      BY <3>0
    <3>2. queue \in Seq(RfkillEvent)
      BY DEF TInv, Tables
    <3>3. <<>> \in Seq(RfkillEvent)
      OBVIOUS
    <3> QED
      BY <3>1, <3>2, <3>3
  <2>3. killswitches' \in [Switch -> SwitchValue]
    BY <1>14 DEF Stop, SwitchValue
  <2>2. Tables'
    BY <1>14, <2>1, <2>3 DEF Stop, TInv, Tables
  <2> QED
    BY <1>14, <2>2 DEF Stop, TInv, Flags, Counted
<1>15. ASSUME UNCHANGED vars PROVE Tables' /\ Flags' /\ Counted'
  <2>1. Tables'
    BY <1>15 DEF vars, mvars, TInv, Tables
  <2> QED
    BY <1>15, <2>1 DEF vars, mvars, TInv, Flags, Counted
<1>16. Tables' /\ Flags' /\ Counted'
  BY <1>1, <1>2, <1>3, <1>4, <1>5, <1>6, <1>7, <1>8, <1>9, <1>10, <1>11, <1>12, <1>13,
     <1>14, <1>15 DEF Next
<1> QED
  BY <1>0, <1>16 DEF TInv

LEMMA TInvAlways == Spec => []TInv
BY InitTypes, TypeStep, PTL DEF Spec

(* The variables of the object and of the manager keep their types.        *)
THEOREM TypeOKAlways == Spec => []TypeOK
BY TInvAlways, TypeParts, PTL

(* Why the table tells the state of the switches: the last event of the    *)
(* queue that tells of a switch tells its state; if there is none then the *)
(* table does, or while the device is opened the last event kept, unless   *)
(* the last event was thrown away.                                         *)
Unopened ==
  /\ manager = "off" => missed = {} /\ initial = <<>>
  /\ manager \in {"off", "opening"} => \A s \in Switch : killswitches[s] = Absent

QueueTells ==
  manager \in {"opening", "on"} => \A s \in Switch : LastTells(queue, s, kernel[s])

InitialTells ==
  manager = "opening" =>
    \A s \in Switch \ missed :
      ~TellsOf(queue, s) =>
        /\ LastTells(initial, s, kernel[s])
        /\ ~TellsOf(initial, s) => ~kernel[s].present

TableTells ==
  manager = "on" =>
    \A s \in Switch \ missed :
      ~TellsOf(queue, s) => killswitches[s] = StateValue(kernel[s])

TableInv == Unopened /\ QueueTells /\ InitialTells /\ TableTells

LEMMA NoEvents ==
  ASSUME NEW s, NEW state
  PROVE  ~TellsOf(<<>>, s) /\ LastTells(<<>>, s, state)
BY DEF TellsOf, LastTells, IsLast

LEMMA InitTable == Init => TableInv
BY DEF Init, ManagerInit, TableInv, Unopened, QueueTells, InitialTells, TableTells

LEMMA KernelChangesTable ==
  ASSUME TInv, TableInv, NEW t \in Switch, NEW state \in SwitchState,
         KernelChanges(t, state)
  PROVE  TableInv'
<1>1. /\ kernel' = [kernel EXCEPT ![t] = state]
      /\ kernel \in [Switch -> SwitchState] /\ queue \in Seq(RfkillEvent)
      /\ UNCHANGED <<manager, initial, missed, killswitches>>
  BY DEF KernelChanges, TInv, Tables
<1>2. /\ kernel'[t] = state
      /\ \A s \in Switch : s # t => kernel'[s] = kernel[s]
  BY <1>1
<1>3. CASE manager \in {"opening", "on"}
  <2> DEFINE op == IF ~state.present THEN "DEL"
                   ELSE IF kernel[t].present THEN "CHANGE" ELSE "ADD"
             e == EventOf(op, t, state)
  <2>1. queue' = Append(queue, e)
    BY <1>3 DEF KernelChanges, Opened
  <2>2. e \in RfkillEvent /\ e.idx = t /\ Value(e) = StateValue(state)
    <3>1. op \in {"ADD", "DEL", "CHANGE"} /\ (op = "DEL" <=> ~state.present)
      OBVIOUS
    <3> QED
      BY <3>1, EventValue
  <2> HIDE DEF e
  <2>3. ASSUME NEW s \in Switch, s # t
        PROVE  /\ TellsOf(queue', s) <=> TellsOf(queue, s)
               /\ LastTells(queue, s, kernel[s]) => LastTells(queue', s, kernel'[s])
    BY <1>1, <1>2, <2>1, <2>2, <2>3, AppendTells
  <2>4. TellsOf(queue', t) /\ LastTells(queue', t, kernel'[t])
    BY <1>1, <1>2, <2>1, <2>2, AppendTells
  <2>5. Unopened'
    BY <1>1 DEF TableInv, Unopened
  <2>6. QueueTells'
    BY <1>1, <1>3, <2>3, <2>4 DEF TableInv, QueueTells
  <2>7. InitialTells'
    BY <1>1, <1>2, <2>3, <2>4 DEF TableInv, InitialTells
  <2>8. TableTells'
    BY <1>1, <1>2, <2>3, <2>4 DEF TableInv, TableTells
  <2> QED
    BY <2>5, <2>6, <2>7, <2>8 DEF TableInv
<1>4. CASE manager \notin {"opening", "on"}
  BY <1>1, <1>4 DEF TableInv, Unopened, QueueTells, InitialTells, TableTells
<1> QED
  BY <1>3, <1>4

LEMMA StartTable ==
  ASSUME TInv, TableInv, Start
  PROVE  TableInv'
<1>1. /\ manager' = "opening" /\ kernel' = kernel /\ initial' = <<>>
      /\ \A s \in Switch : killswitches'[s] = Absent
  BY DEF Start, TableInv, Unopened
<1>2. \A s \in Switch :
        /\ LastTells(queue', s, kernel[s])
        /\ ~TellsOf(queue', s) => ~kernel[s].present
  BY StartEffect DEF TInv, Tables
<1> QED
  BY <1>1, <1>2, NoEvents DEF TableInv, Unopened, QueueTells, InitialTells, TableTells

LEMMA OpenReadTable ==
  ASSUME TInv, TableInv, OpenRead
  PROVE  TableInv'
<1> DEFINE e == Head(queue)
<1>1. /\ manager = "opening" /\ queue # <<>> /\ queue' = Tail(queue)
      /\ queue \in Seq(RfkillEvent) /\ initial \in Seq(RfkillEvent)
      /\ UNCHANGED <<kernel, manager, killswitches>>
      /\ initial' = IF e.op = "ADD" THEN Append(initial, e) ELSE initial
      /\ missed' = IF e.op = "ADD" THEN missed \ {e.idx} ELSE missed \cup {e.idx}
  BY DEF OpenRead, TInv, Tables
<1> HIDE DEF e
<1>2. /\ e \in RfkillEvent
      /\ \A s \in Switch :
           /\ TellsOf(queue, s) <=> e.idx = s \/ TellsOf(queue', s)
           /\ LastTells(queue, s, kernel[s]) => LastTells(queue', s, kernel[s])
           /\ LastTells(queue, s, kernel[s]) /\ e.idx = s /\ ~TellsOf(queue', s)
                => Value(e) = StateValue(kernel[s])
  <2>1. e \in RfkillEvent
    BY <1>1 DEF e
  <2> QED
    BY <1>1, <2>1, TailTells DEF e
<1>3. Unopened' /\ TableTells'
  BY <1>1 DEF TableInv, Unopened, TableTells
<1>4. QueueTells'
  BY <1>1, <1>2 DEF TableInv, QueueTells
<1>5. InitialTells'
  <2>1. ASSUME NEW s \in Switch, s \notin missed', ~TellsOf(queue', s)
        PROVE  /\ LastTells(initial', s, kernel[s])
               /\ ~TellsOf(initial', s) => ~kernel[s].present
    <3>1. CASE e.idx = s
      <4>1. e.op = "ADD" /\ initial' = Append(initial, e)
        BY <1>1, <2>1, <3>1
      <4>2. Value(e) = StateValue(kernel[s])
        BY <1>1, <1>2, <2>1, <3>1 DEF TableInv, QueueTells
      <4> QED
        BY <1>1, <1>2, <3>1, <4>1, <4>2, AppendTells
    <3>2. CASE e.idx # s
      <4>1. s \notin missed /\ ~TellsOf(queue, s)
        BY <1>1, <1>2, <2>1, <3>2
      <4>2. /\ LastTells(initial, s, kernel[s])
            /\ ~TellsOf(initial, s) => ~kernel[s].present
        BY <1>1, <4>1 DEF TableInv, InitialTells
      <4>3. CASE e.op = "ADD"
        BY <1>1, <1>2, <3>2, <4>2, <4>3, AppendTells
      <4>4. CASE e.op # "ADD"
        BY <1>1, <4>2, <4>4
      <4> QED
        BY <4>3, <4>4
    <3> QED
      BY <3>1, <3>2
  <2> QED
    BY <1>1, <2>1 DEF InitialTells
<1> QED
  BY <1>3, <1>4, <1>5 DEF TableInv

LEMMA OpenDoneTable ==
  ASSUME TInv, TableInv, OpenDone
  PROVE  TableInv'
<1>1. /\ manager = "opening" /\ manager' = "on" /\ queue = <<>>
      /\ UNCHANGED <<kernel, queue, missed>>
      /\ initial \in Seq(RfkillEvent) /\ killswitches \in [Switch -> SwitchValue]
  BY DEF OpenDone, TInv, Tables
<1>2. killswitches' = Filed(killswitches, initial)
  BY <1>1, RfkillChangedEffect DEF OpenDone
<1>3. ASSUME NEW s \in Switch, s \notin missed
      PROVE  killswitches'[s] = StateValue(kernel[s])
  <2>1. /\ LastTells(initial, s, kernel[s])
        /\ ~TellsOf(initial, s) => ~kernel[s].present
    BY <1>1, <1>3, NoEvents DEF TableInv, InitialTells
  <2>2. CASE TellsOf(initial, s)
    BY <1>1, <1>2, <2>1, <2>2, FiledBySwitch DEF LastTells
  <2>3. CASE ~TellsOf(initial, s)
    <3>1. killswitches'[s] = killswitches[s] /\ killswitches[s] = Absent
      BY <1>1, <1>2, <2>3, FiledBySwitch DEF TableInv, Unopened
    <3> QED
      BY <2>1, <2>3, <3>1 DEF StateValue
  <2> QED
    BY <2>2, <2>3
<1> QED
  BY <1>1, <1>3, NoEvents DEF TableInv, Unopened, QueueTells, InitialTells, TableTells

LEMMA EventsReadTable ==
  ASSUME TInv, TableInv, EventsRead
  PROVE  TableInv'
<1>1. /\ manager \in {"on", "stopped"} /\ manager' = manager
      /\ queue \in Seq(RfkillEvent) /\ killswitches \in [Switch -> SwitchValue]
      /\ missed' = missed \ {queue[i].idx : i \in DOMAIN queue}
  BY DEF EventsRead, Opened, TInv, Tables
<1>2. CASE manager = "stopped"
  BY <1>1, <1>2 DEF TableInv, Unopened, QueueTells, InitialTells, TableTells
<1>3. CASE manager = "on"
  <2>1. killswitches' = Filed(killswitches, queue)
    BY <1>1, <1>3, RfkillChangedEffect DEF EventsRead
  <2>2. \A s \in Switch :
          /\ LastTells(queue', s, kernel'[s])
          /\ ~TellsOf(queue', s) => kernel'[s] = kernel[s]
    <3>1. <<>> \in Seq(RfkillEvent) /\ KernelTakes(event, <<>>)
      BY DEF EventsRead
    <3>2. event \in Event \cup {NoEvent}
      BY DEF TInv, RInv, RfkillTypeOK
    <3>3. kernel \in [Switch -> SwitchState]
      BY DEF TInv, Tables
    <3> QED
      BY <3>1, <3>2, <3>3, KernelTakesEffect, NoEvents
  <2>3. ASSUME NEW s \in Switch, s \notin missed'
        PROVE  killswitches'[s] = StateValue(kernel[s])
    <3>1. CASE TellsOf(queue, s)
      <4>1. LastTells(queue, s, kernel[s])
        BY <1>3 DEF TableInv, QueueTells
      <4> QED
        BY <1>1, <2>1, <3>1, <4>1, FiledBySwitch DEF LastTells
    <3>2. CASE ~TellsOf(queue, s)
      <4>1. s \notin missed
        BY <1>1, <2>3, <3>2 DEF TellsOf
      <4>2. killswitches[s] = StateValue(kernel[s])
        BY <1>3, <3>2, <4>1 DEF TableInv, TableTells
      <4> QED
        BY <1>1, <2>1, <3>2, <4>2, FiledBySwitch
    <3> QED
      BY <3>1, <3>2
  <2>4. \A s \in Switch \ missed' :
          ~TellsOf(queue', s) => killswitches'[s] = StateValue(kernel'[s])
    BY <2>2, <2>3
  <2> QED
    BY <1>1, <1>3, <2>2, <2>4 DEF TableInv, Unopened, QueueTells, InitialTells, TableTells
<1> QED
  BY <1>1, <1>2, <1>3

LEMMA SetAirplaneModeTable ==
  ASSUME TInv, TInv', TableInv, NEW t \in Task, NEW type \in {Bluetooth, AllTypes},
         NEW enable \in BOOLEAN, SetAirplaneMode(t, type, enable)
  PROVE  TableInv'
<1>1. /\ manager = "on" /\ KernelTakes(event', queue)
      /\ UNCHANGED <<manager, missed, killswitches>>
  BY DEF SetAirplaneMode
<1>2. /\ event' \in Event \cup {NoEvent}
      /\ kernel \in [Switch -> SwitchState] /\ queue \in Seq(RfkillEvent)
  BY DEF TInv, RInv, RfkillTypeOK, Tables
<1>3. \A s \in Switch :
        /\ LastTells(queue, s, kernel[s]) => LastTells(queue', s, kernel'[s])
        /\ TellsOf(queue, s) => TellsOf(queue', s)
        /\ ~TellsOf(queue', s) => kernel'[s] = kernel[s]
  BY <1>1, <1>2, KernelTakesEffect
<1>4. Unopened' /\ InitialTells'
  BY <1>1 DEF Unopened, InitialTells
<1>5. QueueTells'
  BY <1>1, <1>3 DEF TableInv, QueueTells
<1>6. TableTells'
  BY <1>1, <1>3 DEF TableInv, TableTells
<1> QED
  BY <1>4, <1>5, <1>6 DEF TableInv

LEMMA TableStep ==
  ASSUME TInv, TableInv, [Next]_vars
  PROVE  TableInv'
<1>1. ASSUME NEW s \in Switch, NEW state \in SwitchState, KernelChanges(s, state)
      PROVE  TableInv'
  BY <1>1, KernelChangesTable
<1>2. CASE Start
  BY <1>2, StartTable
<1>3. CASE OpenRead
  BY <1>3, OpenReadTable
<1>4. CASE OpenDone
  BY <1>4, OpenDoneTable
<1>5. CASE EventsRead
  BY <1>5, EventsReadTable
<1>6. ASSUME NEW t \in Task, NEW type \in {Bluetooth, AllTypes},
             NEW enable \in BOOLEAN, SetAirplaneMode(t, type, enable)
      PROVE  TableInv'
  BY <1>6, SetAirplaneModeTable, TypeStep
<1>7. CASE StartWithoutDevice \/ Stop
  <2>1. manager' \in {"no device", "stopped"}
    BY <1>7 DEF StartWithoutDevice, Stop
  <2> QED
    BY <2>1 DEF TableInv, Unopened, QueueTells, InitialTells, TableTells
<1>8. ASSUME UNCHANGED <<kernel, queue, manager, initial, missed, killswitches>>
      PROVE  TableInv'
  BY <1>8 DEF TableInv, Unopened, QueueTells, InitialTells, TableTells
<1>9. CASE ObjectCallback
  BY <1>8, <1>9 DEF ObjectCallback, mvars
<1>10. CASE OnBusGotten
  BY <1>8, <1>10 DEF OnBusGotten
<1>11. CASE OnNmProxyGotten
  BY <1>8, <1>11 DEF OnNmProxyGotten, SyncWwanEnabled
<1>12. CASE NmSignal
  BY <1>8, <1>12 DEF NmSignal, SyncWwanEnabled
<1>13. CASE OnMmProxyGotten
  BY <1>8, <1>13 DEF OnMmProxyGotten, SyncWwanInteresting
<1>14. CASE ModemsChange
  BY <1>8, <1>14 DEF ModemsChange, SyncWwanInteresting
<1>15. CASE UNCHANGED vars
  BY <1>8, <1>15 DEF vars, mvars
<1> QED
  BY <1>1, <1>2, <1>3, <1>4, <1>5, <1>6, <1>7, <1>9, <1>10, <1>11, <1>12, <1>13,
     <1>14, <1>15 DEF Next

(* When all events are read the table tells the state of every switch,     *)
(* except of those whose event cc_rfkill_glib_open threw away, for any     *)
(* number of switches and of changes.                                      *)
THEOREM TableMatchesKernelAlways == Spec => []TableMatchesKernel
<1>1. TInv /\ TableInv => TableMatchesKernel
  <2> SUFFICES ASSUME TInv, TableInv, manager = "on", queue = <<>>,
                      NEW s \in Switch, s \notin missed
               PROVE  killswitches[s] =
                        Value(EventOf(IF kernel[s].present THEN "ADD" ELSE "DEL", s, kernel[s]))
    BY DEF TableMatchesKernel
  <2>1. killswitches[s] = StateValue(kernel[s])
    BY NoEvents DEF TableInv, TableTells
  <2>2. kernel[s] \in SwitchState
    BY DEF TInv, Tables
  <2>3. \A op \in {"ADD", "DEL", "CHANGE"} :
          (op = "DEL" <=> ~kernel[s].present) =>
            Value(EventOf(op, s, kernel[s])) = StateValue(kernel[s])
    BY <2>2, EventValue
  <2> QED
    BY <2>1, <2>3
<1>2. TInv /\ TableInv /\ [Next]_vars => TableInv'
  BY TableStep
<1> QED
  BY InitTable, TInvAlways, <1>1, <1>2, PTL DEF Spec

(* What was announced last, if anything was, is what the tables amount to. *)
(* ModemManager is watched only while the manager is started.              *)
AnnouncedInv ==
  /\ mm_client => Started
  /\ manager \in {"off", "opening"} => ~connection /\ announced = NotAnnounced
  /\ Started /\ announced # NotAnnounced =>
       /\ connection
       /\ announced = Properties(killswitches, wwan_enabled, wwan_interesting)

LEMMA AnnouncedStep ==
  ASSUME AnnouncedInv, [Next]_vars
  PROVE  AnnouncedInv'
<1>1. ASSUME PropertiesChanged, connection' = connection,
             manager' \in {"on", "no device", "stopped"},
             Started \/ manager \in {"opening", "stopped"},
             Started' => manager # "stopped",
             mm_client' => Started'
      PROVE  AnnouncedInv'
  <2>1. CASE connection
    BY <1>1, <2>1 DEF PropertiesChanged, AnnouncedInv
  <2>2. CASE ~connection
    <3>1. announced' = announced
      BY <1>1, <2>2 DEF PropertiesChanged
    <3>2. Started' => announced = NotAnnounced
      BY <1>1, <2>2 DEF AnnouncedInv, Started
    <3> QED
      BY <1>1, <3>1, <3>2 DEF AnnouncedInv
  <2> QED
    BY <2>1, <2>2
<1>2. ASSUME UNCHANGED <<manager, connection, announced, killswitches, wwan_enabled,
                         wwan_interesting, mm_client>>
      PROVE  AnnouncedInv'
  BY <1>2 DEF AnnouncedInv, Started
<1>3. ASSUME NEW s \in Switch, NEW state \in SwitchState, KernelChanges(s, state)
      PROVE  AnnouncedInv'
  BY <1>2, <1>3 DEF KernelChanges
<1>4. CASE Start
  BY <1>4 DEF Start, AnnouncedInv, Started
<1>0. CASE StartWithoutDevice
  BY <1>0 DEF StartWithoutDevice, AnnouncedInv, Started
<1>5. CASE OpenRead
  BY <1>2, <1>5 DEF OpenRead
<1>6. CASE OpenDone
  BY <1>1, <1>6 DEF OpenDone, RfkillChanged, AnnouncedInv, Started
<1>7. CASE EventsRead
  BY <1>1, <1>7 DEF EventsRead, RfkillChanged, Opened, AnnouncedInv, Started
<1>8. ASSUME NEW t \in Task, NEW type \in {Bluetooth, AllTypes},
             NEW enable \in BOOLEAN, SetAirplaneMode(t, type, enable)
      PROVE  AnnouncedInv'
  BY <1>2, <1>8 DEF SetAirplaneMode
<1>9. CASE ObjectCallback
  BY <1>2, <1>9 DEF ObjectCallback, mvars
<1>10. CASE OnBusGotten
  BY <1>10 DEF OnBusGotten, AnnouncedInv, Started
<1>11. CASE OnNmProxyGotten
  BY <1>1, <1>2, <1>11 DEF OnNmProxyGotten, SyncWwanEnabled, AnnouncedInv, Started
<1>12. CASE NmSignal
  BY <1>1, <1>12 DEF NmSignal, SyncWwanEnabled, AnnouncedInv, Started
<1>13. CASE OnMmProxyGotten
  BY <1>1, <1>13 DEF OnMmProxyGotten, SyncWwanInteresting, AnnouncedInv, Started
<1>14. CASE ModemsChange
  BY <1>1, <1>2, <1>14 DEF ModemsChange, SyncWwanInteresting, AnnouncedInv, Started
<1>15. CASE Stop
  BY <1>15 DEF Stop, AnnouncedInv, Started
<1>16. CASE UNCHANGED vars
  BY <1>2, <1>16 DEF vars, mvars
<1> QED
  BY <1>0, <1>3, <1>4, <1>5, <1>6, <1>7, <1>8, <1>9, <1>10, <1>11, <1>12, <1>13, <1>14,
     <1>15, <1>16 DEF Next

(* No handler changes what the announced properties depend on without      *)
(* announcing it.                                                          *)
THEOREM AnnouncedIsCurrentAlways == Spec => []AnnouncedIsCurrent
<1>1. Init => AnnouncedInv
  BY DEF Init, ManagerInit, AnnouncedInv, Started
<1>2. AnnouncedInv => AnnouncedIsCurrent
  BY DEF AnnouncedInv, AnnouncedIsCurrent
<1>3. AnnouncedInv /\ [Next]_vars => AnnouncedInv'
  BY AnnouncedStep
<1> QED
  BY <1>1, <1>2, <1>3, PTL DEF Spec
=============================================================================
