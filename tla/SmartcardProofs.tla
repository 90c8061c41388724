--------------------------- MODULE SmartcardProofs ---------------------------
(***************************************************************************)
(* Proofs about the smartcard worker's messages and the table that the     *)
(* manager makes of them, for any slots, cards and numbers of insertions   *)
(* and activations.                                                        *)
(***************************************************************************)
EXTENDS SmartcardManager, TLAPS

(* A slot's token name is that of its card, and is there once the worker   *)
(* tracks a card or has seen one.                                          *)
Names ==
  /\ \A s \in Slot : slots[s].card # NoCard => slots[s].name = slots[s].card
  /\ \A s \in Slot : tracked[s].name # NoCard => slots[s].name # NoCard
  /\ pc \in {"inserting", "catching up"} => slots[slot].name # NoCard

SeriesRead == pc \in {"looking", "inserting", "catching up"}

(* Series only grow: what was read is not ahead of the slot, and a tracked *)
(* card with the slot's series is the slot's last card.                    *)
SeriesGrow ==
  /\ SeriesRead => series <= slots[slot].series
  /\ \A s \in Slot : tracked[s].name # NoCard =>
       /\ tracked[s].series <= slots[s].series
       /\ tracked[s].series = slots[s].series => slots[s].name = tracked[s].name

(* The messages written so far leave in each slot the card that the worker *)
(* tracks, except in the slot that it is writing about.                    *)
Told ==
  /\ \A s \in Slot : (s # slot \/ pc \notin {"inserting", "catching up"}) /\ ~fault =>
       told[s] = tracked[s].name
  /\ pc = "inserting" /\ told[slot] # NoCard =>
       told[slot] = tracked[slot].name /\ tracked[slot].series = series
  /\ pc = "catching up" => told[slot] = NoCard
  /\ pc = "removing" => tracked[slot].name # NoCard
  /\ pc = "none" => \A s \in Slot : tracked[s] = Untracked /\ told[s] = NoCard
  /\ fault => pc = "ended"

IInv == TypeOK /\ Names /\ SeriesGrow /\ Told

-----------------------------------------------------------------------------
LEMMA InitInv == Init => IInv
<1> SUFFICES ASSUME Init PROVE IInv
  OBVIOUS
<1>1. PICK cards \in [Slot -> Card \cup {NoCard}] :
        slots = [s \in Slot |-> [card |-> cards[s], series |-> 1, name |-> cards[s]]]
  BY DEF Init
<1>2. TypeOK
  <2>1. 1 \in 1..MaxSeries /\ 0 \in 0..MaxActivations
    BY SmartcardAssumption, LoginCardAssumption
  <2>2. slots \in [Slot -> SlotState]
    BY <1>1, <2>1 DEF SlotState
  <2>3. pipe \in Seq(Message)
    BY DEF Init
  <2>4. tracked \in [Slot -> Tracked \cup {Untracked}]
    BY DEF Init
  <2> QED
    BY <2>1, <2>2, <2>3, <2>4 DEF Init, TypeOK, WorkerTypeOK
<1>3. Names
  BY <1>1 DEF Init, Names, Untracked
<1>4. SeriesGrow
  BY DEF Init, SeriesGrow, SeriesRead, Untracked
<1>5. Told
  BY DEF Init, Told, Untracked
<1> QED
  BY <1>2, <1>3, <1>4, <1>5 DEF IInv

(* What the emit functions write keeps the pipe well typed and is what     *)
(* PairedUnless looks at.                                                  *)
LEMMA Emitted ==
  ASSUME WorkerTypeOK, NEW c \in Card, NEW excused
  PROVE  /\ EmitInserted(c) =>
              /\ pipe' \in Seq(Message)
              /\ told' = [told EXCEPT ![slot] = c]
              /\ told[slot] \in {NoCard, c} \cup excused => PairedUnless(excused)
         /\ EmitRemoved(c) =>
              /\ pipe' \in Seq(Message)
              /\ told' = [told EXCEPT ![slot] = NoCard]
              /\ told[slot] = c => PairedUnless(excused)
<1>1. pipe \in Seq(Message)
  BY DEF WorkerTypeOK
<1>2. \A m \in Message : /\ Append(pipe, m) \in Seq(Message)
                   /\ Append(pipe, m)[Len(Append(pipe, m))] = m
  BY <1>1
<1>3. \A op \in {"I", "R"} : [op |-> op, name |-> c] \in Message
  BY DEF Message
<1>4. \A op \in {"I", "R"} : [op |-> op, name |-> c].op = op /\ [op |-> op, name |-> c].name = c
  OBVIOUS
<1>5. ASSUME EmitInserted(c)
      PROVE  /\ pipe' \in Seq(Message)
             /\ told' = [told EXCEPT ![slot] = c]
             /\ told[slot] \in {NoCard, c} \cup excused => PairedUnless(excused)
  <2>1. pipe' = Append(pipe, [op |-> "I", name |-> c])
    BY <1>5 DEF EmitInserted
  <2>2. pipe' \in Seq(Message) /\ pipe'[Len(pipe')].op = "I" /\ pipe'[Len(pipe')].name = c
    BY <1>2, <1>3, <1>4, <2>1
  <2> QED
    BY <1>5, <2>2 DEF EmitInserted, PairedUnless
<1>6. ASSUME EmitRemoved(c)
      PROVE  /\ pipe' \in Seq(Message)
             /\ told' = [told EXCEPT ![slot] = NoCard]
             /\ told[slot] = c => PairedUnless(excused)
  <2>1. pipe' = Append(pipe, [op |-> "R", name |-> c])
    BY <1>6 DEF EmitRemoved
  <2>2. pipe' \in Seq(Message) /\ pipe'[Len(pipe')].op = "R" /\ pipe'[Len(pipe')].name = c
    BY <1>2, <1>3, <1>4, <2>1
  <2> QED
    BY <1>6, <2>2 DEF EmitRemoved, PairedUnless
<1> QED
  BY <1>5, <1>6

LEMMA Unpiped == ASSUME pipe' = pipe PROVE PairedUnless(overtaken')
BY DEF PairedUnless

(* What the proofs use of the tracked cards and of the slots.              *)
LEMMA Fields ==
  ASSUME WorkerTypeOK
  PROVE  /\ \A s \in Slot : /\ slots[s].card \in Card \cup {NoCard}
                            /\ slots[s].name \in Card \cup {NoCard}
                            /\ slots[s].series \in 1..MaxSeries
         /\ \A s \in Slot : tracked[s].name # NoCard =>
              tracked[s].name \in Card /\ tracked[s].series \in 1..MaxSeries
         /\ \A s \in Slot : tracked[s].name = NoCard => tracked[s] = Untracked
         /\ Untracked.name = NoCard
         /\ series \in 1..MaxSeries
         /\ \A n \in 1..MaxSeries : n \in Nat
<1>1. \A s \in Slot : slots[s] \in SlotState /\ tracked[s] \in Tracked \cup {Untracked}
  BY DEF WorkerTypeOK
<1>2. \A x \in SlotState : /\ x.card \in Card \cup {NoCard}
                           /\ x.name \in Card \cup {NoCard}
                           /\ x.series \in 1..MaxSeries
  BY DEF SlotState
<1>3. \A x \in Tracked : x.name \in Card /\ x.series \in 1..MaxSeries
  BY DEF Tracked
<1>4. Untracked.name = NoCard
  BY DEF Untracked
<1>5. series \in 1..MaxSeries
  BY DEF WorkerTypeOK
<1>6. \A n \in 1..MaxSeries : n \in Nat
  BY SmartcardAssumption
<1> QED
  BY <1>1, <1>2, <1>3, <1>4, <1>5, <1>6, SmartcardAssumption

-----------------------------------------------------------------------------
(* The invariant of the worker, kept by its steps and by the readers'.     *)
WInv == WorkerTypeOK /\ Names /\ SeriesGrow /\ Told

LEMMA InsertInv ==
  ASSUME WInv, NEW s \in Slot, NEW c \in Card, Insert(s, c)
  PROVE  WInv' /\ pc' = pc /\ pipe' = pipe
<1>1. /\ slots' = [slots EXCEPT ![s] = [card |-> c, series |-> slots[s].series + 1, name |-> c]]
      /\ UNCHANGED <<pc, slot, series, tracked, pipe, fault, told>>
      /\ changed' = changed \cup {s} /\ overtaken' \in {overtaken, overtaken \cup {c}}
      /\ slots[s].series < MaxSeries
  BY DEF Insert, local
<1>2. /\ \A r \in Slot : r # s => slots'[r] = slots[r]
      /\ slots'[s].card = c /\ slots'[s].name = c
      /\ slots'[s].series = slots[s].series + 1
      /\ c # NoCard /\ slots[s].series \in 1..MaxSeries
  BY <1>1, Fields, SmartcardAssumption DEF WInv, WorkerTypeOK
<1>3. WorkerTypeOK'
  <2>1. slots[s].series + 1 \in 1..MaxSeries
    BY <1>1, <1>2, SmartcardAssumption
  <2>2. slots' \in [Slot -> SlotState]
    BY <1>1, <2>1 DEF WInv, WorkerTypeOK, SlotState
  <2> QED
    BY <1>1, <2>2 DEF WInv, WorkerTypeOK
<1>4. Names'
  BY <1>1, <1>2 DEF WInv, WorkerTypeOK, Names
<1>5. SeriesGrow'
  <2>1. \A r \in Slot : /\ slots[r].series \in Nat
                        /\ tracked[r].name # NoCard => tracked[r].series \in Nat
    BY Fields DEF WInv
  <2>2. ASSUME SeriesRead PROVE series <= slots'[slot].series
    <3>1. series <= slots[slot].series
      BY <2>2 DEF WInv, SeriesGrow
    <3>2. series \in Nat /\ slot \in Slot /\ slots[slot].series \in Nat
      BY Fields, <2>1 DEF WInv, WorkerTypeOK
    <3>3. \/ slots'[slot].series = slots[slot].series
          \/ slots'[slot].series = slots[slot].series + 1
      BY <1>2, <3>2
    <3> QED
      BY <3>1, <3>2, <3>3
  <2>3. ASSUME NEW r \in Slot, tracked[r].name # NoCard
        PROVE  /\ tracked[r].series <= slots'[r].series
               /\ tracked[r].series = slots'[r].series => slots'[r].name = tracked[r].name
    <3>1. tracked[r].series \in Nat /\ slots[r].series \in Nat
      BY <2>1, <2>3
    <3>2. /\ tracked[r].series <= slots[r].series
          /\ tracked[r].series = slots[r].series => slots[r].name = tracked[r].name
      BY <2>3 DEF WInv, SeriesGrow
    <3>3. CASE r = s
      <4>1. slots'[r].series = slots[r].series + 1
        BY <1>2, <3>3
      <4> QED
        BY <3>1, <3>2, <4>1
    <3>4. CASE r # s
      BY <1>2, <3>2, <3>4
    <3> QED
      BY <3>3, <3>4
  <2> QED
    BY <1>1, <2>2, <2>3 DEF SeriesGrow, SeriesRead
<1>6. Told'
  BY <1>1 DEF WInv, Told
<1> QED
  BY <1>1, <1>3, <1>4, <1>5, <1>6 DEF WInv

LEMMA RemoveInv ==
  ASSUME WInv, NEW s \in Slot, Remove(s)
  PROVE  WInv' /\ pc' = pc /\ pipe' = pipe
<1>1. /\ slots' = [slots EXCEPT ![s].card = NoCard]
      /\ UNCHANGED <<pc, slot, series, tracked, pipe, fault, told>>
      /\ changed' = changed \cup {s}
      /\ overtaken' \in {overtaken, overtaken \cup {slots[s].card}}
      /\ slots[s].card # NoCard
  BY DEF Remove, local
<1>2. \A r \in Slot : /\ slots'[r].name = slots[r].name
                      /\ slots'[r].series = slots[r].series
                      /\ slots'[r].card \in {slots[r].card, NoCard}
  BY <1>1 DEF WInv, WorkerTypeOK, SlotState
<1>3. WorkerTypeOK'
  <2>1. slots' \in [Slot -> SlotState]
    BY <1>1 DEF WInv, WorkerTypeOK, SlotState
  <2>2. slots[s].card \in Card
    BY <1>1, Fields DEF WInv
  <2> QED
    BY <1>1, <2>1, <2>2 DEF WInv, WorkerTypeOK
<1>4. Names' /\ SeriesGrow'
  BY <1>1, <1>2 DEF WInv, WorkerTypeOK, Names, SeriesGrow, SeriesRead
<1>5. Told'
  BY <1>1 DEF WInv, Told
<1> QED
  BY <1>1, <1>3, <1>4, <1>5 DEF WInv

(* What a step of the worker promises.                                     *)
Kept == WInv' /\ PairedUnless(overtaken') /\ pc # "none" /\ pc' # "none"

LEMMA QuietStepInv ==
  ASSUME WInv,
         \/ \E s \in Slot : WaitForEvent(s)
         \/ WaitFails \/ GetSlotSeries \/ NotPresentNorTracked
  PROVE  Kept
<1>1. /\ UNCHANGED <<slots, tracked, pipe, fault, told, overtaken>>
      /\ pc # "none" /\ pc' # "none" /\ pc' \notin {"inserting", "catching up", "removing"}
      /\ pc \notin {"inserting", "catching up", "removing", "ended"}
      /\ slot' \in Slot /\ changed' \in SUBSET Slot
      /\ pc' \in {"waiting", "woken", "looking", "ended"}
  BY DEF WInv, WorkerTypeOK, WaitForEvent, WaitFails, GetSlotSeries,
         NotPresentNorTracked, local
<1>2. /\ series' \in 1..MaxSeries
      /\ SeriesRead' => series' = slots'[slot'].series
  <2>1. CASE GetSlotSeries
    BY <2>1, Fields DEF GetSlotSeries, WInv, WorkerTypeOK
  <2>2. CASE ~GetSlotSeries
    BY <2>2, Fields DEF WaitForEvent, WaitFails, NotPresentNorTracked, SeriesRead, local,
                        WInv
  <2> QED
    BY <2>1, <2>2
<1>3. WorkerTypeOK'
  BY <1>1, <1>2 DEF WInv, WorkerTypeOK
<1>4. Names'
  BY <1>1 DEF WInv, Names
<1>5. SeriesGrow'
  <2>1. SeriesRead' => series' <= slots'[slot'].series
    <3>1. series' \in Nat
      BY <1>2, Fields DEF WInv
    <3> QED
      BY <1>2, <3>1
  <2> QED
    BY <1>1, <2>1 DEF WInv, SeriesGrow
<1>6. Told'
  BY <1>1 DEF WInv, Told
<1> QED
  BY <1>1, <1>3, <1>4, <1>5, <1>6, Unpiped DEF WInv, Kept

LEMMA IsPresentInv ==
  ASSUME WInv, IsPresent
  PROVE  Kept
<1>1. /\ UNCHANGED <<slots, changed, slot, series, tracked, fault, overtaken>>
      /\ pc = "looking" /\ pc' = "inserting" /\ slots[slot].card # NoCard
      /\ slot \in Slot
  BY DEF IsPresent, local, WInv, WorkerTypeOK
<1>2. /\ told[slot] = tracked[slot].name /\ ~fault
      /\ tracked[slot].name # NoCard => tracked[slot].name \in Card
  BY <1>1, Fields DEF WInv, Told
<1>3. /\ pipe' \in Seq(Message) /\ PairedUnless(overtaken')
      /\ \/ told' = [told EXCEPT ![slot] = NoCard]
         \/ told' = told /\ (told[slot] # NoCard => tracked[slot].series = series)
  <2>1. CASE tracked[slot].name # NoCard /\ tracked[slot].series # series
    <3>1. EmitRemoved(tracked[slot].name)
      BY <2>1 DEF IsPresent
    <3> QED
      BY <1>2, <2>1, <3>1, Emitted DEF WInv
  <2>2. CASE ~(tracked[slot].name # NoCard /\ tracked[slot].series # series)
    <3>1. pipe' = pipe /\ told' = told
      BY <2>2 DEF IsPresent
    <3> QED
      BY <1>2, <2>2, <3>1, Unpiped DEF WInv, WorkerTypeOK
  <2> QED
    BY <2>1, <2>2
<1>4. /\ told' \in [Slot -> Card \cup {NoCard}]
      /\ \A s \in Slot : s # slot => told'[s] = told[s]
      /\ told'[slot] # NoCard => told'[slot] = tracked[slot].name /\ tracked[slot].series = series
  BY <1>1, <1>2, <1>3 DEF WInv, WorkerTypeOK
<1>5. WorkerTypeOK'
  BY <1>1, <1>3, <1>4 DEF WInv, WorkerTypeOK
<1>6. Names'
  BY <1>1 DEF WInv, Names
<1>7. SeriesGrow'
  BY <1>1 DEF WInv, SeriesGrow, SeriesRead
<1>8. Told'
  <2>1. \A s \in Slot : s # slot => told[s] = tracked[s].name
    BY <1>1, <1>2 DEF WInv, Told
  <2>2. pc' = "inserting" /\ slot' = slot /\ tracked' = tracked /\ series' = series
        /\ fault' = FALSE
    BY <1>1, <1>2 DEF WInv, WorkerTypeOK
  <2>3. \A s \in Slot : s # slot => told'[s] = tracked'[s].name
    BY <1>4, <2>1, <2>2
  <2>4. told'[slot'] # NoCard => told'[slot'] = tracked'[slot'].name /\ tracked'[slot'].series = series'
    BY <1>4, <2>2
  <2> QED
    BY <2>2, <2>3, <2>4 DEF Told
<1> QED
  BY <1>1, <1>3, <1>5, <1>6, <1>7, <1>8 DEF WInv, Kept

(* A card that comes to be tracked is paired: the one before is removed,   *)
(* is the same, or is overtaken.                                           *)
LEMMA TrackNewCardInv ==
  ASSUME WInv, TrackNewCard, UNCHANGED <<slots, changed, slot, series, fault>>,
         \/ pc = "inserting" /\ pc' = "waiting"
         \/ pc = "catching up" /\ pc' = "removing"
  PROVE  Kept
<1>1. /\ slots[slot].name \in Card /\ slot \in Slot /\ slots[slot].name # NoCard
      /\ series \in 1..MaxSeries
  BY Fields, SmartcardAssumption DEF WInv, WorkerTypeOK, Names
<1>2. /\ series <= slots[slot].series
      /\ tracked[slot].name # NoCard /\ tracked[slot].series = slots[slot].series =>
           slots[slot].name = tracked[slot].name
  BY <1>1 DEF WInv, SeriesGrow, SeriesRead
<1>3. /\ ~fault
      /\ \A s \in Slot : s # slot => told[s] = tracked[s].name
  BY <1>1 DEF WInv, Told
<1>4. told[slot] \in {NoCard, slots[slot].name} \cup overtaken'
  <2>1. CASE told[slot] = NoCard
    BY <2>1
  <2>2. CASE told[slot] # NoCard
    <3>1. told[slot] = tracked[slot].name /\ tracked[slot].series = series
      BY <2>2 DEF WInv, Told
    <3>2. CASE slots[slot].series = series
      BY <1>2, <2>2, <3>1, <3>2
    <3>3. CASE slots[slot].series # series
      BY <2>2, <3>1, <3>3 DEF TrackNewCard
    <3> QED
      BY <3>2, <3>3
  <2> QED
    BY <2>1, <2>2
<1>5. /\ pipe' \in Seq(Message)
      /\ told' = [told EXCEPT ![slot] = slots[slot].name]
      /\ PairedUnless(overtaken')
  <2>1. EmitInserted(slots[slot].name)
    BY DEF TrackNewCard, NameIn
  <2> QED
    BY <1>1, <1>4, <2>1, Emitted DEF WInv
<1>6. tracked' = [tracked EXCEPT ![slot] = [name |-> slots[slot].name, series |-> series]]
  BY DEF TrackNewCard, NameIn
<1>7. /\ told'[slot] = slots[slot].name
      /\ tracked'[slot].name = slots[slot].name
      /\ tracked'[slot].series = series
      /\ \A s \in Slot : s # slot => told'[s] = told[s] /\ tracked'[s] = tracked[s]
  BY <1>1, <1>5, <1>6 DEF WInv, WorkerTypeOK
<1>8. WorkerTypeOK'
  <2>1. tracked' \in [Slot -> Tracked \cup {Untracked}]
    BY <1>1, <1>6 DEF WInv, WorkerTypeOK, Tracked
  <2>2. told' \in [Slot -> Card \cup {NoCard}]
    BY <1>1, <1>5 DEF WInv, WorkerTypeOK
  <2>3. overtaken' \in SUBSET Card
    <3>1. tracked[slot].name # NoCard => tracked[slot].name \in Card
      BY <1>1, Fields DEF WInv
    <3> QED
      BY <3>1 DEF TrackNewCard, WInv, WorkerTypeOK
  <2> QED
    BY <1>5, <2>1, <2>2, <2>3 DEF WInv, WorkerTypeOK
<1>9. Names'
  BY <1>1, <1>7 DEF WInv, Names
<1>10. SeriesGrow'
  <2>1. ASSUME NEW s \in Slot, tracked'[s].name # NoCard
        PROVE  /\ tracked'[s].series <= slots[s].series
               /\ tracked'[s].series = slots[s].series => slots[s].name = tracked'[s].name
    <3>1. CASE s = slot
      BY <1>2, <1>7, <3>1
    <3>2. CASE s # slot
      BY <1>7, <2>1, <3>2 DEF WInv, SeriesGrow
    <3> QED
      BY <3>1, <3>2
  <2> QED
    BY <2>1 DEF SeriesGrow, SeriesRead
<1>11. Told'
  <2>1. \A s \in Slot : told'[s] = tracked'[s].name
    BY <1>3, <1>7
  <2>2. tracked'[slot'].name # NoCard
    BY <1>1, <1>7
  <2>3. fault' = FALSE /\ pc' \notin {"inserting", "catching up", "none"}
    BY <1>3 DEF WInv, WorkerTypeOK
  <2> QED
    BY <1>3, <2>1, <2>2, <2>3 DEF Told
<1> QED
  BY <1>5, <1>8, <1>9, <1>10, <1>11 DEF WInv, Kept

LEMMA RemovedInv ==
  ASSUME WInv, CardRemoved \/ SkippedCardRemoved \/ LastCardRemoved
  PROVE  Kept
<1>1. /\ UNCHANGED <<slots, changed, slot, series, overtaken>>
      /\ pc \in {"looking", "removing"} /\ slot \in Slot
      /\ pc' \in {"waiting", "catching up", "ended"}
      /\ EmitRemoved(tracked[slot].name)
  BY DEF CardRemoved, SkippedCardRemoved, LastCardRemoved, local, WInv, WorkerTypeOK
<1>2. tracked[slot].name # NoCard /\ tracked[slot].name \in Card
  <2>1. tracked[slot].name # NoCard
    BY DEF CardRemoved, SkippedCardRemoved, LastCardRemoved, WInv, Told
  <2> QED
    BY <1>1, <2>1, Fields DEF WInv
<1>3. /\ ~fault
      /\ \A s \in Slot : told[s] = tracked[s].name
  BY <1>1 DEF WInv, Told
<1>4. /\ pipe' \in Seq(Message)
      /\ told' = [told EXCEPT ![slot] = NoCard]
      /\ PairedUnless(overtaken')
  BY <1>1, <1>2, <1>3, Emitted DEF WInv
<1>5. \/ /\ pc' = "waiting" /\ fault' = fault
         /\ tracked' = [tracked EXCEPT ![slot] = Untracked]
      \/ pc = "looking" /\ pc' = "catching up" /\ fault' = fault /\ tracked' = tracked
      \/ pc' = "ended" /\ fault' = TRUE /\ tracked' = tracked
  BY DEF CardRemoved, SkippedCardRemoved, LastCardRemoved
<1>6. /\ told'[slot] = NoCard
      /\ \A s \in Slot : s # slot => told'[s] = told[s] /\ tracked'[s] = tracked[s]
      /\ tracked'[slot] \in {tracked[slot], Untracked}
      /\ pc' = "waiting" => tracked'[slot] = Untracked
  BY <1>1, <1>4, <1>5 DEF WInv, WorkerTypeOK
<1>7. Untracked.name = NoCard
  BY DEF Untracked
<1>8. WorkerTypeOK'
  BY <1>1, <1>4, <1>5 DEF WInv, WorkerTypeOK
<1>9. Names'
  <2>1. slots[slot].name # NoCard
    BY <1>1, <1>2 DEF WInv, Names
  <2>2. \A s \in Slot : tracked'[s].name # NoCard => tracked[s].name # NoCard
    BY <1>6, <1>7
  <2> QED
    BY <1>1, <2>1, <2>2 DEF WInv, Names
<1>10. SeriesGrow'
  <2>1. \A s \in Slot : tracked'[s].name # NoCard => tracked'[s] = tracked[s]
    BY <1>6, <1>7
  <2>2. SeriesRead' => SeriesRead
    BY <1>1, <1>5 DEF SeriesRead
  <2> QED
    BY <1>1, <2>1, <2>2 DEF WInv, SeriesGrow
<1>11. Told'
  <2>1. \A s \in Slot : s # slot => told'[s] = tracked'[s].name
    BY <1>3, <1>6
  <2>2. pc' = "waiting" => told'[slot] = tracked'[slot].name
    BY <1>6, <1>7
  <2>3. \/ pc' = "waiting" /\ fault' = FALSE
        \/ pc' = "catching up" /\ fault' = FALSE
        \/ pc' = "ended" /\ fault' = TRUE
    BY <1>3, <1>5 DEF WInv, WorkerTypeOK
  <2> QED
    BY <1>1, <1>6, <2>1, <2>2, <2>3 DEF Told
<1> QED
  BY <1>4, <1>8, <1>9, <1>10, <1>11, <1>1 DEF WInv, Kept

(* Every step of the worker.                                               *)
LEMMA WorkerInv ==
  ASSUME WInv, Worker
  PROVE  Kept
<1>1. CASE (\E s \in Slot : WaitForEvent(s)) \/ GetSlotSeries \/ NotPresentNorTracked
  BY <1>1, QuietStepInv
<1>2. CASE IsPresent
  BY <1>2, IsPresentInv
<1>3. CASE CardInserted
  BY <1>3, TrackNewCardInv DEF CardInserted, local
<1>4. CASE LastCardInserted
  BY <1>4, TrackNewCardInv DEF LastCardInserted, local
<1>5. CASE CardRemoved \/ SkippedCardRemoved \/ LastCardRemoved
  BY <1>5, RemovedInv
<1> QED
  BY <1>1, <1>2, <1>3, <1>4, <1>5 DEF Worker

-----------------------------------------------------------------------------
(* What the manager adds: its own variables are well typed.                *)
MTypeOK ==
  /\ state \in {"STOPPED", "STARTING", "STARTED"}
  /\ smartcards \in SUBSET Card
  /\ is_active \in BOOLEAN
  /\ left \in SUBSET Card
  /\ noticed \in BOOLEAN
  /\ activations \in 0..MaxActivations
  /\ pc = "none" <=> state = "STOPPED"

LEMMA Split == (IInv <=> WInv /\ MTypeOK) /\ (IInv' <=> WInv' /\ MTypeOK')
BY DEF IInv, WInv, TypeOK, MTypeOK

(* What a step promises to the rest of the proof.                          *)
Step == IInv' /\ PairedUnless(overtaken')

LEMMA ReadersStep ==
  ASSUME IInv, ReadersChange
  PROVE  Step
<1>1. WInv' /\ pc' = pc /\ pipe' = pipe
  BY Split, InsertInv, RemoveInv DEF ReadersChange, Readers
<1>2. MTypeOK'
  BY <1>1, Split DEF ReadersChange, MTypeOK
<1> QED
  BY <1>1, <1>2, Split, Unpiped DEF Step

LEMMA WorkerStep ==
  ASSUME IInv, WorkerRuns \/ WorkerFails
  PROVE  Step
<1>1. Kept
  BY Split, WorkerInv, QuietStepInv DEF WorkerRuns, WorkerFails
<1>2. MTypeOK'
  BY <1>1, Split DEF WorkerRuns, WorkerFails, mvars, MTypeOK, Kept
<1> QED
  BY <1>1, <1>2, Split DEF Step, Kept

(* The worker starts with an empty table and nothing told.                 *)
LEMMA StartWorkerStep ==
  ASSUME IInv, StartWorker
  PROVE  Step
<1>1. /\ UNCHANGED <<slot, series, tracked, pipe, fault, told, overtaken, smartcards,
                     is_active, left, noticed>>
      /\ pc = "none" /\ pc' = "waiting" /\ state' = "STARTING"
      /\ slots' = [s \in Slot |-> [slots[s] EXCEPT !.name = slots[s].card]]
      /\ changed' \in SUBSET Slot
      /\ \A s \in Slot : tracked[s] = Untracked /\ told[s] = NoCard
  BY Split DEF StartWorker, MTypeOK, WInv, Told, local
<1>2. Untracked.name = NoCard
  BY DEF Untracked
<1>3. \A s \in Slot : /\ slots'[s] \in SlotState
                      /\ slots'[s].name = slots'[s].card
  BY <1>1, Split DEF WInv, WorkerTypeOK, SlotState
<1>4. slots' \in [Slot -> SlotState]
  BY <1>1, <1>3
<1>5. WorkerTypeOK'
  BY <1>1, <1>4, Split DEF WInv, WorkerTypeOK
<1>6. Names' /\ SeriesGrow' /\ Told'
  BY <1>1, <1>2, <1>3, Split DEF WInv, Names, SeriesGrow, SeriesRead, Told
<1>7. MTypeOK'
  <2>1. activations' \in 0..MaxActivations
    BY Split, LoginCardAssumption DEF StartWorker, MTypeOK
  <2> QED
    BY <1>1, <2>1, Split DEF MTypeOK
<1> QED
  BY <1>1, <1>5, <1>6, <1>7, Split, Unpiped DEF WInv, Step

(* The steps that leave the worker alone.                                  *)
LEMMA Untouched ==
  ASSUME WInv, UNCHANGED wvars
  PROVE  WInv' /\ pc' = pc /\ pipe' = pipe
BY DEF wvars, local, WInv, WorkerTypeOK, Names, SeriesGrow, SeriesRead, Told

LEMMA ActivationStep ==
  ASSUME IInv, GetAllCards \/ StartFails
  PROVE  Step
<1>1. WInv' /\ pc' = pc /\ pipe' = pipe
  BY Split, Untouched DEF GetAllCards, StartFails
<1>2. \A s \in Slot : NameIn(s) \in Card \cup {NoCard}
  BY Split, Fields DEF NameIn, WInv
<1>3. MTypeOK'
  <2>1. CASE GetAllCards
    BY <1>1, <1>2, <2>1, Split DEF GetAllCards, FinishActivation, MTypeOK
  <2>2. CASE StartFails
    <3>1. activations' \in 0..MaxActivations
      BY <2>2, Split, LoginCardAssumption DEF StartFails, MTypeOK
    <3> QED
      BY <1>1, <2>2, <3>1, Split DEF StartFails, FinishActivation, MTypeOK
  <2> QED
    BY <2>1, <2>2
<1> QED
  BY <1>1, <1>3, Split, Unpiped DEF Step

LEMMA ProcessEventStep ==
  ASSUME IInv, ProcessEvent
  PROVE  Step
<1>1. /\ UNCHANGED <<slots, changed, pc, slot, series, tracked, fault, told, overtaken,
                     state, is_active, left, activations>>
      /\ pipe # <<>> /\ pipe' = Tail(pipe) /\ pipe \in Seq(Message)
  BY Split DEF ProcessEvent, local, WInv, WorkerTypeOK
<1>2. /\ pipe' \in Seq(Message) /\ ~(Len(pipe') > Len(pipe))
      /\ Head(pipe) \in Message
  BY <1>1
<1>3. WInv'
  BY <1>1, <1>2, Split DEF WInv, WorkerTypeOK, Names, SeriesGrow, SeriesRead, Told
<1>4. MTypeOK'
  <2>1. \A m \in Message : m.name \in Card
    BY DEF Message
  <2>2. ProcessInserted(Head(pipe).name) \/ ProcessRemoved(Head(pipe).name)
    BY DEF ProcessEvent
  <2> QED
    BY <1>1, <1>2, <2>1, <2>2, Split DEF ProcessInserted, ProcessRemoved, MTypeOK
<1> QED
  BY <1>2, <1>3, <1>4, Split DEF PairedUnless, Step

LEMMA DeactivateStep ==
  ASSUME IInv, Deactivate
  PROVE  Step
<1>1. /\ UNCHANGED <<slots, changed, slot, series, fault, overtaken, smartcards, left,
                     noticed, activations>>
      /\ pc' = "none" /\ pipe' = <<>> /\ fault = FALSE
      /\ tracked' = [s \in Slot |-> Untracked]
      /\ told' = [s \in Slot |-> NoCard]
      /\ state' = "STOPPED" /\ is_active' = FALSE
  BY Split DEF Deactivate, StopNow, NoWorker, local, WInv, WorkerTypeOK
<1>2. /\ pipe' \in Seq(Message)
      /\ tracked' \in [Slot -> Tracked \cup {Untracked}]
      /\ told' \in [Slot -> Card \cup {NoCard}]
      /\ Untracked.name = NoCard
      /\ \A s \in Slot : tracked'[s].name = NoCard
  BY <1>1 DEF Untracked
<1>3. WorkerTypeOK'
  BY <1>1, <1>2, Split DEF WInv, WorkerTypeOK
<1>4. Names' /\ SeriesGrow' /\ Told'
  BY <1>1, <1>2, Split DEF WInv, Names, SeriesGrow, SeriesRead, Told
<1>5. MTypeOK'
  BY <1>1, Split DEF MTypeOK
<1>6. PairedUnless(overtaken')
  <2>1. pipe \in Seq(Message)
    BY Split DEF WInv, WorkerTypeOK
  <2>2. ~(Len(pipe') > Len(pipe))
    BY <1>1, <2>1
  <2> QED
    BY <2>2 DEF PairedUnless
<1> QED
  BY <1>3, <1>4, <1>5, <1>6, Split DEF WInv, Step

LEMMA NextStep ==
  ASSUME IInv, [Next]_vars
  PROVE  IInv' /\ [PairedUnless(overtaken')]_vars
<1>1. CASE UNCHANGED vars
  <2>1. UNCHANGED wvars /\ UNCHANGED mvars
    BY <1>1 DEF vars
  <2>2. MTypeOK'
    BY <2>1, Split, Untouched DEF mvars, MTypeOK
  <2> QED
    BY <1>1, <2>1, <2>2, Split, Untouched
<1>2. CASE Next
  BY <1>2, ReadersStep, WorkerStep, StartWorkerStep, ActivationStep, ProcessEventStep,
     DeactivateStep DEF Next, Step
<1> QED
  BY <1>1, <1>2

-----------------------------------------------------------------------------
(* The variables keep their types, and there is a worker as long as the    *)
(* manager is not stopped (csd_smartcard_manager_start and stop_now).      *)
THEOREM TypeOKAlways == Spec => []TypeOK
<1>1. IInv /\ [Next]_vars => IInv'
  BY NextStep
<1>2. IInv => TypeOK
  BY DEF IInv
<1> QED
  BY InitInv, <1>1, <1>2, PTL DEF Spec

(* The worker's messages about a slot are paired, however the cards are    *)
(* moved while it looks, as long as no card is overtaken                   *)
(* (csd_smartcard_manager_worker_watch_for_and_process_event).             *)
THEOREM PairedEventsAlways == Spec => PairedEvents
<1>1. IInv /\ [Next]_vars => IInv' /\ [PairedUnless(overtaken')]_vars
  BY NextStep
<1> QED
  BY InitInv, <1>1, PTL DEF Spec, PairedEvents


-----------------------------------------------------------------------------
(* The messages in the pipe, and the last of them about a card.            *)
LastAbout(p, c, i) ==
  /\ i \in DOMAIN p /\ p[i].name = c
  /\ \A j \in DOMAIN p : j > i => p[j].name # c

Named(p, c) == \E i \in DOMAIN p : p[i].name = c

LastIs(p, c, op) == \A i \in DOMAIN p : LastAbout(p, c, i) => p[i].op = op

LEMMA EmptyPipe == \A c, op : ~Named(<<>>, c) /\ LastIs(<<>>, c, op)
BY DEF Named, LastIs

LEMMA AppendPipe ==
  ASSUME NEW p \in Seq(Message), NEW m \in Message, NEW c \in Card, NEW op
  PROVE  /\ Named(Append(p, m), c) <=> Named(p, c) \/ m.name = c
         /\ m.name = c => LastIs(Append(p, m), c, m.op)
         /\ m.name # c /\ LastIs(p, c, op) => LastIs(Append(p, m), c, op)
<1> DEFINE r == Append(p, m)  n == Len(p)
<1>1. /\ n \in Nat /\ DOMAIN p = 1..n /\ DOMAIN r = 1..(n + 1)
      /\ \A i \in 1..n : r[i] = p[i]
      /\ r[n + 1] = m
  OBVIOUS
<1> HIDE DEF r, n
<1>2. 1..(n + 1) = (1..n) \cup {n + 1}
  BY <1>1
<1>3. Named(r, c) <=> Named(p, c) \/ m.name = c
  <2>1. Named(r, c) <=> \E i \in 1..(n + 1) : r[i].name = c
    BY <1>1 DEF Named
  <2>2. Named(p, c) <=> \E i \in 1..n : p[i].name = c
    BY <1>1 DEF Named
  <2> QED
    BY <1>1, <1>2, <2>1, <2>2
<1>4. m.name = c => LastIs(r, c, m.op)
  <2>1. \A i \in 1..(n + 1) : i # n + 1 => n + 1 > i
    BY <1>1
  <2>2. n + 1 \in 1..(n + 1)
    BY <1>1
  <2>3. \A i \in DOMAIN r : m.name = c /\ LastAbout(r, c, i) => i = n + 1
    BY <1>1, <2>1, <2>2 DEF LastAbout
  <2> QED
    BY <1>1, <2>3 DEF LastIs
<1>5. m.name # c /\ LastIs(p, c, op) => LastIs(r, c, op)
  <2>1. \A i \in DOMAIN r : m.name # c /\ LastAbout(r, c, i) => LastAbout(p, c, i)
    BY <1>1, <1>2 DEF LastAbout
  <2>2. \A i \in DOMAIN r : LastAbout(p, c, i) => i \in 1..n /\ r[i] = p[i]
    BY <1>1 DEF LastAbout
  <2> QED
    BY <1>1, <2>1, <2>2 DEF LastIs
<1> QED
  BY <1>3, <1>4, <1>5 DEF r

LEMMA TailPipe ==
  ASSUME NEW p \in Seq(Message), p # <<>>, NEW c \in Card, NEW op
  PROVE  /\ Head(p) \in Message /\ Tail(p) \in Seq(Message)
         /\ Named(p, c) <=> Head(p).name = c \/ Named(Tail(p), c)
         /\ LastIs(p, c, op) => LastIs(Tail(p), c, op)
         /\ LastIs(p, c, op) /\ Head(p).name = c /\ ~Named(Tail(p), c) => Head(p).op = op
<1> DEFINE r == Tail(p)  n == Len(p)
<1>1. /\ n \in Nat \ {0} /\ DOMAIN p = 1..n /\ DOMAIN r = 1..(n - 1)
      /\ \A i \in 1..(n - 1) : r[i] = p[i + 1]
      /\ Head(p) = p[1] /\ Head(p) \in Message /\ r \in Seq(Message)
  OBVIOUS
<1> HIDE DEF r, n
<1>2. /\ \A i \in 1..n : i = 1 \/ (i - 1 \in 1..(n - 1) /\ (i - 1) + 1 = i)
      /\ \A i \in 1..(n - 1) : i + 1 \in 1..n /\ i + 1 > 1
      /\ \A i, j \in 1..(n - 1) : j + 1 > i + 1 <=> j > i
      /\ 1 \in 1..n
  BY <1>1
<1>3. \A i \in 1..n : i = 1 \/ \E j \in 1..(n - 1) : i = j + 1
  BY <1>2
<1>4. /\ Named(p, c) <=> \E i \in 1..n : p[i].name = c
      /\ Named(r, c) <=> \E i \in 1..(n - 1) : r[i].name = c
  BY <1>1 DEF Named
<1>5. Named(p, c) <=> p[1].name = c \/ Named(r, c)
  <2>1. Named(p, c) => p[1].name = c \/ Named(r, c)
    BY <1>1, <1>3, <1>4
  <2>2. p[1].name = c \/ Named(r, c) => Named(p, c)
    BY <1>1, <1>2, <1>4
  <2> QED
    BY <2>1, <2>2
<1>6. ASSUME LastIs(p, c, op) PROVE LastIs(r, c, op)
  <2>1. ASSUME NEW i \in DOMAIN r, LastAbout(r, c, i)
        PROVE  r[i].op = op
    <3>1. i + 1 \in 1..n /\ p[i + 1] = r[i] /\ p[i + 1].name = c
      BY <1>1, <1>2, <2>1 DEF LastAbout
    <3>2. ASSUME NEW j \in 1..n, j > i + 1 PROVE p[j].name # c
      <4>1. j # 1
        BY <1>1, <1>2, <2>1, <3>2
      <4>2. PICK k \in 1..(n - 1) : j = k + 1
        BY <1>3, <4>1
      <4>3. k > i
        BY <1>1, <1>2, <2>1, <3>2, <4>2
      <4> QED
        BY <1>1, <2>1, <4>2, <4>3 DEF LastAbout
    <3>3. LastAbout(p, c, i + 1)
      BY <1>1, <3>1, <3>2 DEF LastAbout
    <3> QED
      BY <1>1, <1>6, <3>1, <3>3 DEF LastIs
  <2> QED
    BY <2>1 DEF LastIs
<1>7. ASSUME LastIs(p, c, op), p[1].name = c, ~Named(r, c)
      PROVE  p[1].op = op
  <2>1. \A j \in 1..n : j > 1 => p[j].name # c
    <3>1. \A j \in 1..n : j > 1 => j # 1
      BY <1>1
    <3>2. \A j \in 1..n : j > 1 => \E k \in 1..(n - 1) : j = k + 1
      BY <1>3, <3>1
    <3> QED
      BY <1>1, <1>4, <1>7, <3>2
  <2>2. LastAbout(p, c, 1)
    BY <1>1, <1>2, <1>7, <2>1 DEF LastAbout
  <2> QED
    BY <1>1, <1>2, <1>7, <2>2 DEF LastIs
<1> QED
  BY <1>1, <1>5, <1>6, <1>7 DEF r

-----------------------------------------------------------------------------
(* Why the table has the cards that are in the slots.                      *)

(* The worker is at work, and has not met a card that it skipped.          *)
Live == pc \in {"waiting", "woken", "looking", "inserting"}

Tells(c) == \E s \in Slot : told[s] = c

OneSlot ==
  \A r, s \in Slot : slots[r].card = slots[s].card => r = s \/ slots[r].card = NoCard

(* A slot that no wake-up is due for was told of as it is, unless the      *)
(* worker is about to.                                                     *)
SlotsTold ==
  Live =>
    /\ \A s \in Slot \ changed : (s = slot => pc = "waiting") => told[s] = slots[s].card
    /\ pc = "inserting" /\ slot \notin changed => slots[slot].card # NoCard

(* A card that is not overtaken is told of in one slot only, the one that  *)
(* it is in if it is in any.                                               *)
ToldOnce ==
  Live =>
    \A c \in Card \ overtaken :
      /\ \A r, s \in Slot : told[r] = c /\ told[s] = c => r = s
      /\ \A r, s \in Slot : slots[s].card = c /\ told[r] = c => r = s

(* The same of the card that the worker is about to tell of.               *)
InsertedOnce ==
  pc = "inserting" /\ slots[slot].name \notin overtaken =>
    /\ slots[slot].card = slots[slot].name \/ told[slot] = slots[slot].name
    /\ \A r \in Slot : told[r] = slots[slot].name => r = slot

(* The last message about a card, or else the table, tells whether the     *)
(* worker told of its insertion; the manager's first look at the slots may *)
(* be ahead of the worker.                                                 *)
PipeTells ==
  Live =>
    \A c \in Card \ overtaken :
      /\ LastIs(pipe, c, IF Tells(c) THEN "I" ELSE "R")
      /\ ~Named(pipe, c) /\ Tells(c) => state = "STARTED" /\ c \in smartcards
      /\ ~Named(pipe, c) /\ state = "STARTED" /\ c \in smartcards \ left => Tells(c) \/ In(c)

NoPipe == pc = "none" => pipe = <<>>

TableInv == OneSlot /\ SlotsTold /\ ToldOnce /\ InsertedOnce /\ PipeTells /\ NoPipe

LEMMA InitTable == Init => TableInv
<1> SUFFICES ASSUME Init PROVE TableInv
  OBVIOUS
<1>1. OneSlot
  BY DEF Init, OneSlot
<1> QED
  BY <1>1 DEF Init, TableInv, Live, SlotsTold, ToldOnce, InsertedOnce, PipeTells, NoPipe

(* What the manager's part of the invariant reads besides the worker's.    *)
known == <<state, smartcards, left>>

LEMMA InsertTable ==
  ASSUME IInv, TableInv, NEW s \in Slot, NEW c \in Card, Insert(s, c), UNCHANGED known
  PROVE  TableInv'
<1>1. /\ slots' = [slots EXCEPT ![s] = [card |-> c, series |-> slots[s].series + 1, name |-> c]]
      /\ UNCHANGED <<pc, slot, series, tracked, pipe, fault, told, state, smartcards, left>>
      /\ changed' = changed \cup {s}
      /\ \A r \in Slot : slots[r].card # c
      /\ overtaken \subseteq overtaken'
      /\ \A r \in Slot : r # s /\ told[r] = c => c \in overtaken'
  BY DEF Insert, local, known
<1>2. /\ \A r \in Slot : r # s => slots'[r] = slots[r]
      /\ slots'[s].card = c /\ slots'[s].name = c /\ c # NoCard /\ slot \in Slot
  BY <1>1, SmartcardAssumption, Split DEF WInv, WorkerTypeOK
<1>3. OneSlot'
  BY <1>1, <1>2 DEF TableInv, OneSlot
<1>4. SlotsTold'
  BY <1>1, <1>2 DEF TableInv, SlotsTold, Live
<1>5. ToldOnce'
  BY <1>1, <1>2 DEF TableInv, ToldOnce, Live
<1>6. InsertedOnce'
  <2>1. CASE slot = s
    BY <1>1, <1>2, <2>1 DEF InsertedOnce
  <2>2. CASE slot # s
    BY <1>1, <1>2, <2>2 DEF TableInv, InsertedOnce
  <2> QED
    BY <2>1, <2>2
<1>7. PipeTells'
  <2>1. \A d : Tells(d)' <=> Tells(d)
    BY <1>1 DEF Tells
  <2>2. ASSUME NEW d \in Card, In(d) PROVE In(d)'
    <3>1. PICK r \in Slot : slots[r].card = d
      BY <2>2 DEF In
    <3>2. slots[s].card = NoCard /\ d # NoCard
      BY SmartcardAssumption DEF Insert
    <3>3. slots'[r] = slots[r]
      BY <1>2, <3>1, <3>2
    <3> QED
      BY <3>1, <3>3 DEF In
  <2> QED
    BY <1>1, <2>1, <2>2 DEF TableInv, PipeTells, Live
<1>8. NoPipe'
  BY <1>1 DEF TableInv, NoPipe
<1> QED
  BY <1>3, <1>4, <1>5, <1>6, <1>7, <1>8 DEF TableInv

LEMMA RemoveTable ==
  ASSUME IInv, TableInv, NEW s \in Slot, Remove(s), UNCHANGED known
  PROVE  TableInv'
<1>1. /\ slots' = [slots EXCEPT ![s].card = NoCard]
      /\ UNCHANGED <<pc, slot, series, tracked, pipe, fault, told, state, smartcards, left>>
      /\ changed' = changed \cup {s}
      /\ overtaken \subseteq overtaken'
      /\ Live /\ told[s] # slots[s].card => slots[s].card \in overtaken'
  BY DEF Remove, local, known, Live
<1>2. /\ \A r \in Slot : r # s => slots'[r] = slots[r]
      /\ \A r \in Slot : slots'[r].name = slots[r].name
      /\ slots'[s].card = NoCard /\ slot \in Slot
  BY <1>1, Split DEF WInv, WorkerTypeOK, SlotState
<1>3. OneSlot'
  BY <1>1, <1>2 DEF TableInv, OneSlot
<1>4. SlotsTold'
  BY <1>1, <1>2 DEF TableInv, SlotsTold, Live
<1>5. ToldOnce'
  <2>1. \A c \in Card : c # NoCard
    BY SmartcardAssumption
  <2> QED
    BY <1>1, <1>2, <2>1 DEF TableInv, ToldOnce, Live
<1>6. InsertedOnce'
  <2>1. CASE slot = s
    BY <1>1, <1>2, <2>1 DEF TableInv, InsertedOnce, Live
  <2>2. CASE slot # s
    BY <1>1, <1>2, <2>2 DEF TableInv, InsertedOnce
  <2> QED
    BY <2>1, <2>2
<1>7. PipeTells'
  <2>1. \A d : Tells(d)' <=> Tells(d)
    BY <1>1 DEF Tells
  <2>2. ASSUME Live, NEW d \in Card, d \notin overtaken', In(d) PROVE In(d)' \/ Tells(d)
    <3>1. PICK r \in Slot : slots[r].card = d
      BY <2>2 DEF In
    <3>2. CASE r = s
      BY <1>1, <2>2, <3>1, <3>2 DEF Tells
    <3>3. CASE r # s
      BY <1>2, <3>1, <3>3 DEF In
    <3> QED
      BY <3>2, <3>3
  <2> QED
    BY <1>1, <2>1, <2>2 DEF TableInv, PipeTells, Live
<1>8. NoPipe'
  BY <1>1 DEF TableInv, NoPipe
<1> QED
  BY <1>3, <1>4, <1>5, <1>6, <1>7, <1>8 DEF TableInv

(* A message that a card was removed, which was told of in this slot.      *)
LEMMA EmitRemovedTable ==
  ASSUME IInv, TableInv, Live, NEW c \in Card, EmitRemoved(c), told[slot] = c,
         UNCHANGED <<slots, overtaken, known>>
  PROVE  ToldOnce' /\ PipeTells' /\ \A s \in Slot : told'[s] \in {told[s], NoCard}
<1> DEFINE m == [op |-> "R", name |-> c]
<1>1. /\ pipe' = Append(pipe, m) /\ pipe \in Seq(Message) /\ slot \in Slot
      /\ told' = [told EXCEPT ![slot] = NoCard]
      /\ UNCHANGED <<slots, overtaken, state, smartcards, left>>
  BY Split DEF EmitRemoved, WInv, WorkerTypeOK, known
<1>2. m \in Message /\ m.op = "R" /\ m.name = c
  BY DEF Message
<1> HIDE DEF m
<1>3. /\ \A s \in Slot : s # slot => told'[s] = told[s]
      /\ told'[slot] = NoCard
      /\ \A d \in Card : d # NoCard
  BY <1>1, SmartcardAssumption, Split DEF WInv, WorkerTypeOK
<1>4. ToldOnce'
  BY <1>1, <1>3 DEF TableInv, ToldOnce
<1>5. PipeTells'
  <2>1. ASSUME NEW d \in Card, d \notin overtaken
        PROVE  /\ LastIs(pipe', d, IF Tells(d)' THEN "I" ELSE "R")
               /\ ~Named(pipe', d) /\ Tells(d)' => state' = "STARTED" /\ d \in smartcards'
               /\ ~Named(pipe', d) /\ state' = "STARTED" /\ d \in smartcards' \ left' =>
                    Tells(d)' \/ In(d)'
    <3>1. CASE d = c
      <4>1. ~Tells(c)'
        BY <1>1, <1>3, <2>1, <3>1 DEF TableInv, ToldOnce, Tells
      <4>2. Named(pipe', d) /\ LastIs(pipe', d, "R")
        BY <1>1, <1>2, <3>1, AppendPipe
      <4> QED
        BY <3>1, <4>1, <4>2
    <3>2. CASE d # c
      <4>1. Tells(d)' <=> Tells(d)
        BY <1>1, <1>3, <3>2 DEF Tells
      <4>2. /\ Named(pipe', d) <=> Named(pipe, d)
            /\ \A op \in {"I", "R"} : LastIs(pipe, d, op) => LastIs(pipe', d, op)
        BY <1>1, <1>2, <3>2, AppendPipe
      <4>3. In(d)' <=> In(d)
        BY <1>1 DEF In
      <4>4. /\ LastIs(pipe, d, IF Tells(d) THEN "I" ELSE "R")
            /\ ~Named(pipe, d) /\ Tells(d) => state = "STARTED" /\ d \in smartcards
            /\ ~Named(pipe, d) /\ state = "STARTED" /\ d \in smartcards \ left =>
                 Tells(d) \/ In(d)
        BY <2>1 DEF TableInv, PipeTells
      <4> QED
        BY <1>1, <4>1, <4>2, <4>3, <4>4
    <3> QED
      BY <3>1, <3>2
  <2> QED
    BY <1>1, <2>1 DEF PipeTells
<1> QED
  BY <1>3, <1>4, <1>5

LEMMA EmitInsertedTable ==
  ASSUME IInv, TableInv, Live, NEW c \in Card, EmitInserted(c),
         told[slot] \in {NoCard, c} \cup overtaken',
         c \notin overtaken' => \A r \in Slot : told[r] = c \/ slots[r].card = c => r = slot,
         overtaken \subseteq overtaken',
         UNCHANGED <<slots, known>>
  PROVE  ToldOnce' /\ PipeTells'
<1> DEFINE m == [op |-> "I", name |-> c]
<1>1. /\ pipe' = Append(pipe, m) /\ pipe \in Seq(Message) /\ slot \in Slot
      /\ told' = [told EXCEPT ![slot] = c]
      /\ UNCHANGED <<slots, state, smartcards, left>>
  BY Split DEF EmitInserted, WInv, WorkerTypeOK, known
<1>2. m \in Message /\ m.op = "I" /\ m.name = c
  BY DEF Message
<1> HIDE DEF m
<1>3. /\ \A s \in Slot : s # slot => told'[s] = told[s]
      /\ told'[slot] = c
      /\ \A d \in Card : d # NoCard
  BY <1>1, SmartcardAssumption, Split DEF WInv, WorkerTypeOK
<1>4. ToldOnce'
  BY <1>1, <1>3 DEF TableInv, ToldOnce
<1>5. PipeTells'
  <2>1. ASSUME NEW d \in Card, d \notin overtaken'
        PROVE  /\ LastIs(pipe', d, IF Tells(d)' THEN "I" ELSE "R")
               /\ ~Named(pipe', d) /\ Tells(d)' => state' = "STARTED" /\ d \in smartcards'
               /\ ~Named(pipe', d) /\ state' = "STARTED" /\ d \in smartcards' \ left' =>
                    Tells(d)' \/ In(d)'
    <3>1. CASE d = c
      <4>1. Tells(c)'
        BY <1>1, <1>3 DEF Tells
      <4>2. Named(pipe', d) /\ LastIs(pipe', d, "I")
        BY <1>1, <1>2, <3>1, AppendPipe
      <4> QED
        BY <3>1, <4>1, <4>2
    <3>2. CASE d # c
      <4>0. told[slot] # d
        BY <1>3, <2>1, <3>2
      <4>1. Tells(d)' <=> Tells(d)
        BY <1>1, <1>3, <3>2, <4>0 DEF Tells
      <4>2. /\ Named(pipe', d) <=> Named(pipe, d)
            /\ \A op \in {"I", "R"} : LastIs(pipe, d, op) => LastIs(pipe', d, op)
        BY <1>1, <1>2, <3>2, AppendPipe
      <4>3. In(d)' <=> In(d)
        BY <1>1 DEF In
      <4>4. /\ LastIs(pipe, d, IF Tells(d) THEN "I" ELSE "R")
            /\ ~Named(pipe, d) /\ Tells(d) => state = "STARTED" /\ d \in smartcards
            /\ ~Named(pipe, d) /\ state = "STARTED" /\ d \in smartcards \ left =>
                 Tells(d) \/ In(d)
        BY <2>1 DEF TableInv, PipeTells
      <4> QED
        BY <1>1, <4>1, <4>2, <4>3, <4>4
    <3> QED
      BY <3>1, <3>2
  <2> QED
    BY <1>1, <2>1 DEF PipeTells
<1> QED
  BY <1>4, <1>5

(* A worker that has ended, or that met a card it skipped, tells nothing   *)
(* more that is relied on.                                                 *)
LEMMA NotLive ==
  ASSUME OneSlot', pc' \in {"catching up", "removing", "ended"}
  PROVE  TableInv'
BY DEF TableInv, Live, SlotsTold, ToldOnce, InsertedOnce, PipeTells, NoPipe

LEMMA SlotsStay ==
  ASSUME TableInv, slots' = slots
  PROVE  OneSlot' /\ \A c : In(c)' <=> In(c)
BY DEF TableInv, OneSlot, In

LEMMA WorkerTable ==
  ASSUME IInv, TableInv, Worker, ~fault, UNCHANGED known
  PROVE  TableInv'
<1>0. /\ \A s \in Slot : told[s] \in Card \cup {NoCard}
      /\ slot \in Slot /\ pipe \in Seq(Message)
  BY Split DEF WInv, WorkerTypeOK
<1>1. ASSUME NEW s \in Slot, WaitForEvent(s)
      PROVE  TableInv'
  <2>1. /\ UNCHANGED <<slots, told, pipe, overtaken, state, smartcards, left>>
        /\ changed' = changed \ {s} /\ slot' = s
        /\ pc = "waiting" /\ pc' = "woken"
    BY <1>1 DEF WaitForEvent, known
  <2>2. SlotsTold'
    BY <2>1 DEF TableInv, SlotsTold, Live
  <2>3. ToldOnce' /\ InsertedOnce' /\ NoPipe'
    BY <2>1 DEF TableInv, ToldOnce, InsertedOnce, NoPipe, Live
  <2>4. PipeTells'
    BY <2>1 DEF TableInv, PipeTells, Live, Tells, In
  <2> QED
    BY <2>1, <2>2, <2>3, <2>4, SlotsStay DEF TableInv
<1>2. CASE GetSlotSeries
  <2>1. /\ UNCHANGED <<slots, slot, changed, told, pipe, overtaken, state, smartcards, left>>
        /\ pc = "woken" /\ pc' = "looking"
    BY <1>2 DEF GetSlotSeries, known
  <2>2. SlotsTold' /\ ToldOnce' /\ InsertedOnce' /\ NoPipe'
    BY <2>1 DEF TableInv, SlotsTold, ToldOnce, InsertedOnce, NoPipe, Live
  <2>3. PipeTells'
    BY <2>1 DEF TableInv, PipeTells, Live, Tells, In
  <2> QED
    BY <2>1, <2>2, <2>3, SlotsStay DEF TableInv
<1>3. CASE NotPresentNorTracked
  <2>1. /\ UNCHANGED <<slots, slot, changed, told, pipe, overtaken, state, smartcards, left>>
        /\ pc = "looking" /\ pc' = "waiting"
        /\ slots[slot].card = NoCard /\ tracked[slot].name = NoCard
    BY <1>3 DEF NotPresentNorTracked, local, known
  <2>2. told[slot] = NoCard
    BY <1>0, <2>1, Split DEF WInv, Told
  <2>3. SlotsTold'
    BY <2>1, <2>2 DEF TableInv, SlotsTold, Live
  <2>4. ToldOnce' /\ InsertedOnce' /\ NoPipe'
    BY <2>1 DEF TableInv, ToldOnce, InsertedOnce, NoPipe, Live
  <2>5. PipeTells'
    BY <2>1 DEF TableInv, PipeTells, Live, Tells, In
  <2> QED
    BY <2>1, <2>3, <2>4, <2>5, SlotsStay DEF TableInv
<1>4. CASE IsPresent
  <2>1. /\ UNCHANGED <<slots, slot, changed, tracked, overtaken, state, smartcards, left>>
        /\ pc = "looking" /\ pc' = "inserting"
        /\ slots[slot].card # NoCard
    BY <1>4 DEF IsPresent, local, known
  <2>2. told[slot] = tracked[slot].name
    BY <1>0, <2>1, Split DEF WInv, Told
  <2>3. slots[slot].name = slots[slot].card /\ slots[slot].card \in Card
    BY <1>0, <2>1, Fields, Split DEF WInv, Names
  <2>4. ToldOnce' /\ PipeTells' /\ \A s \in Slot : told'[s] \in {told[s], NoCard}
    <3>1. CASE tracked[slot].name # NoCard /\ tracked[slot].series # series
      <4>1. EmitRemoved(tracked[slot].name) /\ tracked[slot].name \in Card
        BY <1>0, <1>4, <2>2, <3>1 DEF IsPresent
      <4> QED
        BY <2>1, <2>2, <4>1, EmitRemovedTable DEF Live, known
    <3>2. CASE ~(tracked[slot].name # NoCard /\ tracked[slot].series # series)
      <4>1. pipe' = pipe /\ told' = told
        BY <1>4, <3>2 DEF IsPresent
      <4>2. ToldOnce'
        BY <2>1, <4>1 DEF TableInv, ToldOnce, Live
      <4>3. PipeTells'
        BY <2>1, <4>1 DEF TableInv, PipeTells, Live, Tells, In
      <4> QED
        BY <4>1, <4>2, <4>3
    <3> QED
      BY <3>1, <3>2
  <2>5. \A s \in Slot : s # slot => told'[s] = told[s]
    BY <1>0, <1>4, Split DEF IsPresent, EmitRemoved, WInv, WorkerTypeOK
  <2>6. SlotsTold'
    BY <2>1, <2>5 DEF TableInv, SlotsTold, Live
  <2>7. InsertedOnce'
    <3>1. \A c \in Card : c # NoCard
      BY SmartcardAssumption
    <3>2. \A r \in Slot : slots[slot].name \notin overtaken /\ told[r] = slots[slot].name => r = slot
      BY <1>0, <2>1, <2>3 DEF TableInv, ToldOnce, Live
    <3> QED
      BY <2>1, <2>3, <2>4, <3>1, <3>2 DEF InsertedOnce
  <2>8. NoPipe'
    BY <2>1 DEF NoPipe
  <2> QED
    BY <2>1, <2>4, <2>6, <2>7, <2>8, SlotsStay DEF TableInv
<1>5. CASE CardInserted
  <2> DEFINE n == slots[slot].name
  <2>1. /\ UNCHANGED <<slots, slot, changed, state, smartcards, left>>
        /\ pc = "inserting" /\ pc' = "waiting" /\ overtaken \subseteq overtaken'
        /\ EmitInserted(n)
    BY <1>5 DEF CardInserted, TrackNewCard, NameIn, local, known
  <2>2. n \in Card
    BY <1>0, <2>1, Fields, Split DEF WInv, Names
  <2>3. told[slot] \in {NoCard, n} \cup overtaken'
    <3>1. /\ series <= slots[slot].series
          /\ tracked[slot].name # NoCard /\ tracked[slot].series = slots[slot].series =>
               slots[slot].name = tracked[slot].name
      BY <1>0, <2>1, Split DEF WInv, SeriesGrow, SeriesRead
    <3>2. told[slot] # NoCard => told[slot] = tracked[slot].name /\ tracked[slot].series = series
      BY <2>1, Split DEF WInv, Told
    <3>3. slots[slot].series # series => {tracked[slot].name} \ {NoCard} \subseteq overtaken'
      BY <1>5 DEF CardInserted, TrackNewCard
    <3> QED
      BY <3>1, <3>2, <3>3
  <2>4. ASSUME n \notin overtaken', NEW r \in Slot, told[r] = n \/ slots[r].card = n
        PROVE  r = slot
    <3>1. /\ slots[slot].card = n \/ told[slot] = n
          /\ told[r] = n => r = slot
      BY <2>1, <2>4 DEF TableInv, InsertedOnce
    <3>2. CASE slots[r].card = n
      <4>1. n \in Card \ overtaken /\ n # NoCard
        BY <2>1, <2>2, <2>4, SmartcardAssumption
      <4>2. CASE slots[slot].card = n
        BY <1>0, <3>2, <4>1, <4>2 DEF TableInv, OneSlot
      <4>3. CASE told[slot] = n
        BY <1>0, <2>1, <3>2, <4>1, <4>3 DEF TableInv, ToldOnce, Live
      <4> QED
        BY <3>1, <4>2, <4>3
    <3> QED
      BY <2>4, <3>1, <3>2
  <2>5. ToldOnce' /\ PipeTells'
    <3>1. UNCHANGED <<slots, known>> /\ Live
      BY <2>1 DEF Live
    <3> HIDE DEF n
    <3> QED
      BY <2>1, <2>2, <2>3, <2>4, <3>1, EmitInsertedTable
  <2>6. SlotsTold'
    <3>1. slot \notin changed => n = slots[slot].card
      BY <1>0, <2>1, Split DEF TableInv, SlotsTold, Live, WInv, Names
    <3>2. told' = [told EXCEPT ![slot] = n] /\ told \in [Slot -> Card \cup {NoCard}]
      BY <2>1, Split DEF EmitInserted, WInv, WorkerTypeOK
    <3>3. told'[slot] = n /\ \A s \in Slot : s # slot => told'[s] = told[s]
      BY <1>0, <3>2
    <3> QED
      BY <2>1, <3>1, <3>3 DEF TableInv, SlotsTold, Live
  <2>7. InsertedOnce' /\ NoPipe'
    BY <2>1 DEF InsertedOnce, NoPipe
  <2> QED
    BY <2>1, <2>5, <2>6, <2>7, SlotsStay DEF TableInv
<1>6. CASE CardRemoved
  <2>1. /\ UNCHANGED <<slots, slot, changed, overtaken, state, smartcards, left>>
        /\ pc = "looking" /\ pc' = "waiting"
        /\ slots[slot].card = NoCard /\ tracked[slot].name # NoCard
        /\ EmitRemoved(tracked[slot].name)
    BY <1>6 DEF CardRemoved, local, known
  <2>2. told[slot] = tracked[slot].name
    BY <1>0, <2>1, Split DEF WInv, Told
  <2>3. ToldOnce' /\ PipeTells'
    <3>1. tracked[slot].name \in Card
      BY <1>0, <2>1, <2>2
    <3>2. UNCHANGED <<slots, overtaken, known>> /\ Live
      BY <2>1 DEF Live, known
    <3> QED
      BY <2>1, <2>2, <3>1, <3>2, EmitRemovedTable
  <2>4. SlotsTold'
    <3>1. told' = [told EXCEPT ![slot] = NoCard] /\ told \in [Slot -> Card \cup {NoCard}]
      BY <2>1, Split DEF EmitRemoved, WInv, WorkerTypeOK
    <3>2. told'[slot] = NoCard /\ \A s \in Slot : s # slot => told'[s] = told[s]
      BY <1>0, <3>1
    <3> QED
      BY <2>1, <3>2 DEF TableInv, SlotsTold, Live
  <2>5. InsertedOnce' /\ NoPipe'
    BY <2>1 DEF InsertedOnce, NoPipe
  <2> QED
    BY <2>1, <2>3, <2>4, <2>5, SlotsStay DEF TableInv
<1>7. CASE SkippedCardRemoved \/ LastCardInserted \/ LastCardRemoved
  <2>1. slots' = slots /\ pc' \in {"catching up", "removing", "ended"}
    BY <1>7 DEF SkippedCardRemoved, LastCardInserted, LastCardRemoved
  <2> QED
    BY <2>1, SlotsStay, NotLive
<1> QED
  BY <1>1, <1>2, <1>3, <1>4, <1>5, <1>6, <1>7 DEF Worker

(* The worker starts with nothing told, and every card is due.             *)
LEMMA StartWorkerTable ==
  ASSUME IInv, TableInv, StartWorker
  PROVE  TableInv'
<1>1. /\ UNCHANGED <<pipe, told>> /\ pc = "none" /\ pc' = "waiting"
      /\ state' = "STARTING" /\ pipe = <<>>
      /\ slots' = [s \in Slot |-> [slots[s] EXCEPT !.name = slots[s].card]]
      /\ changed' = {s \in Slot : slots[s].card # NoCard}
  BY Split DEF StartWorker, MTypeOK, TableInv, NoPipe
<1>2. \A s \in Slot : slots'[s].card = slots[s].card /\ told[s] = NoCard
  BY <1>1, Split DEF WInv, WorkerTypeOK, SlotState, Told
<1>3. \A c \in Card : ~Tells(c)' /\ c # NoCard
  BY <1>1, <1>2, SmartcardAssumption DEF Tells
<1>4. OneSlot'
  BY <1>2 DEF TableInv, OneSlot
<1>5. SlotsTold'
  BY <1>1, <1>2 DEF SlotsTold
<1>6. ToldOnce'
  BY <1>1, <1>2, <1>3 DEF ToldOnce
<1>7. InsertedOnce' /\ NoPipe'
  BY <1>1 DEF InsertedOnce, NoPipe
<1>8. PipeTells'
  BY <1>1, <1>3, EmptyPipe DEF PipeTells
<1> QED
  BY <1>4, <1>5, <1>6, <1>7, <1>8 DEF TableInv

(* The first look at the slots.                                            *)
LEMMA GetAllCardsTable ==
  ASSUME IInv, TableInv, GetAllCards
  PROVE  TableInv'
<1>1. /\ UNCHANGED <<slots, changed, pc, slot, pipe, told, overtaken>>
      /\ state = "STARTING" /\ state' = "STARTED"
      /\ left' = left \cup {c \in smartcards' : ~In(c)}
  BY DEF GetAllCards, wvars, local
<1>2. SlotsTold' /\ ToldOnce' /\ InsertedOnce' /\ NoPipe'
  BY <1>1 DEF TableInv, SlotsTold, ToldOnce, InsertedOnce, NoPipe, Live
<1>3. PipeTells'
  <2>1. ASSUME Live, NEW c \in Card, c \notin overtaken
        PROVE  /\ LastIs(pipe', c, IF Tells(c)' THEN "I" ELSE "R")
               /\ ~Named(pipe', c) => ~Tells(c)'
               /\ c \in smartcards' \ left' => In(c)'
    <3>1. Tells(c)' <=> Tells(c)
      BY <1>1 DEF Tells
    <3>2. /\ LastIs(pipe, c, IF Tells(c) THEN "I" ELSE "R")
          /\ ~Named(pipe, c) => ~Tells(c)
      BY <1>1, <2>1 DEF TableInv, PipeTells
    <3>3. c \in smartcards' \ left' => In(c)
      BY <1>1
    <3>4. In(c)' <=> In(c)
      BY <1>1, SlotsStay
    <3> QED
      BY <1>1, <3>1, <3>2, <3>3, <3>4
  <2> QED
    BY <1>1, <2>1 DEF PipeTells, Live
<1> QED
  BY <1>1, <1>2, <1>3, SlotsStay DEF TableInv

LEMMA ProcessEventTable ==
  ASSUME IInv, TableInv, ProcessEvent
  PROVE  TableInv'
<1> DEFINE m == Head(pipe)
<1>1. /\ UNCHANGED <<slots, changed, pc, slot, told, overtaken, state, left>>
      /\ state = "STARTED" /\ pipe # <<>> /\ pipe' = Tail(pipe) /\ pipe \in Seq(Message)
      /\ m \in Message
      /\ smartcards' = IF m.op = "I" THEN smartcards \cup {m.name} ELSE smartcards \ {m.name}
  <2>1. pipe # <<>> /\ pipe \in Seq(Message)
    BY Split DEF ProcessEvent, WInv, WorkerTypeOK
  <2> QED
    BY <2>1 DEF ProcessEvent, ProcessInserted, ProcessRemoved, local
<1>2. m.op \in {"I", "R"} /\ m.name \in Card
  BY <1>1 DEF Message
<1> HIDE DEF m
<1>3. SlotsTold' /\ ToldOnce' /\ InsertedOnce'
  BY <1>1 DEF TableInv, SlotsTold, ToldOnce, InsertedOnce, Live
<1>4. NoPipe'
  BY <1>1, Split DEF MTypeOK, NoPipe
<1>5. PipeTells'
  <2>1. ASSUME Live, NEW c \in Card, c \notin overtaken
        PROVE  /\ LastIs(pipe', c, IF Tells(c) THEN "I" ELSE "R")
               /\ ~Named(pipe', c) /\ Tells(c) => c \in smartcards'
               /\ ~Named(pipe', c) /\ c \in smartcards' \ left => Tells(c) \/ In(c)
    <3> DEFINE op == IF Tells(c) THEN "I" ELSE "R"
    <3>1. /\ LastIs(pipe, c, op)
          /\ ~Named(pipe, c) /\ Tells(c) => c \in smartcards
          /\ ~Named(pipe, c) /\ c \in smartcards \ left => Tells(c) \/ In(c)
      BY <1>1, <2>1 DEF TableInv, PipeTells
    <3>2. /\ Named(pipe, c) <=> m.name = c \/ Named(pipe', c)
          /\ LastIs(pipe', c, op)
          /\ m.name = c /\ ~Named(pipe', c) => m.op = op
      BY <1>1, <3>1, TailPipe DEF m
    <3>3. CASE m.name = c
      BY <1>1, <3>2, <3>3
    <3>4. CASE m.name # c
      BY <1>1, <3>1, <3>2, <3>4
    <3> QED
      BY <3>3, <3>4
  <2>2. \A c : (Tells(c)' <=> Tells(c)) /\ (In(c)' <=> In(c))
    BY <1>1, SlotsStay DEF Tells
  <2> QED
    BY <1>1, <2>1, <2>2 DEF PipeTells, Live
<1> QED
  BY <1>1, <1>3, <1>4, <1>5, SlotsStay DEF TableInv

LEMMA TableStep ==
  ASSUME IInv, TableInv, [Next]_vars
  PROVE  TableInv'
<1>1. CASE ReadersChange
  BY <1>1, InsertTable, RemoveTable DEF ReadersChange, Readers, known
<1>2. CASE WorkerRuns
  BY <1>2, WorkerTable DEF WorkerRuns, mvars, known
<1>3. CASE WorkerFails
  <2>1. slots' = slots /\ pc' = "ended"
    BY <1>3 DEF WorkerFails, WaitFails
  <2> QED
    BY <2>1, SlotsStay, NotLive
<1>4. CASE StartWorker
  BY <1>4, StartWorkerTable
<1>5. CASE GetAllCards
  BY <1>5, GetAllCardsTable
<1>6. CASE StartFails
  <2>1. UNCHANGED wvars /\ pc = "none"
    BY <1>6, Split DEF StartFails, MTypeOK
  <2>2. slots' = slots /\ pc' = "none" /\ pipe' = pipe
    BY <2>1 DEF wvars
  <2> QED
    BY <2>1, <2>2, SlotsStay
    DEF TableInv, Live, SlotsTold, ToldOnce, InsertedOnce, PipeTells, NoPipe
<1>7. CASE ProcessEvent
  BY <1>7, ProcessEventTable
<1>8. CASE Deactivate
  <2>1. slots' = slots /\ pc' = "none" /\ pipe' = <<>>
    BY <1>8 DEF Deactivate, StopNow, NoWorker
  <2> QED
    BY <2>1, SlotsStay
    DEF TableInv, Live, SlotsTold, ToldOnce, InsertedOnce, PipeTells, NoPipe
<1>9. CASE UNCHANGED vars
  <2>1. UNCHANGED <<slots, changed, pc, slot, pipe, told, overtaken, state, smartcards, left>>
    BY <1>9 DEF vars, wvars, mvars, local
  <2>2. SlotsTold' /\ ToldOnce' /\ InsertedOnce' /\ NoPipe'
    BY <2>1 DEF TableInv, SlotsTold, ToldOnce, InsertedOnce, NoPipe, Live
  <2>3. PipeTells'
    BY <2>1 DEF TableInv, PipeTells, Live, Tells, In
  <2> QED
    BY <2>1, <2>2, <2>3, SlotsStay DEF TableInv
<1> QED
  BY <1>1, <1>2, <1>3, <1>4, <1>5, <1>6, <1>7, <1>8, <1>9 DEF Next

(* When all events are processed the table has the cards that are in the   *)
(* slots, for any slots and cards and whatever the readers, both threads   *)
(* and restarts do, except for the cards that the code does not account    *)
(* for (csd_smartcard_manager_get_all_cards and                            *)
(* csd_smartcard_manager_check_for_and_process_events).                    *)
THEOREM TableMatchesSlotsAlways == Spec => []TableMatchesSlots
<1>1. IInv /\ TableInv => TableMatchesSlots
  <2> SUFFICES ASSUME IInv, TableInv, state = "STARTED", pc = "waiting", changed = {},
                      pipe = <<>>, NEW c \in Card, c \notin overtaken, c \notin left
               PROVE  c \in smartcards <=> In(c)
    BY DEF TableMatchesSlots, Quiet, Unsure
  <2>1. \A s \in Slot : told[s] = slots[s].card
    BY DEF TableInv, SlotsTold, Live
  <2>2. Tells(c) <=> In(c)
    BY <2>1 DEF Tells, In
  <2>3. /\ Tells(c) => c \in smartcards
        /\ c \in smartcards => Tells(c) \/ In(c)
    BY EmptyPipe DEF TableInv, PipeTells, Live
  <2> QED
    BY <2>2, <2>3
<1>2. IInv /\ TableInv /\ [Next]_vars => (IInv /\ TableInv)'
  BY NextStep, TableStep
<1> QED
  BY InitInv, InitTable, <1>1, <1>2, PTL DEF Spec

=============================================================================
