--------------------------- MODULE SmartcardWorker ---------------------------
(***************************************************************************)
(* The worker thread of the smartcard manager                              *)
(* (plugins/smartcard/csd_smartcard-manager.c) and the readers it watches. *)
(*                                                                         *)
(* NSS wakes the worker for a slot that changed, without saying how.  The  *)
(* worker reads the slot's series (a number that tells the cards of a slot *)
(* apart), then whether a card is present, and writes what it makes of the *)
(* two into a pipe, as an "I" or an "R" with a card's name.  Cards come    *)
(* and go between any two of these steps.                                  *)
(*                                                                         *)
(* A card stands for its name; names are assumed to differ.                *)
(***************************************************************************)
EXTENDS Integers, Sequences

CONSTANTS
  Slot,
  Card,
  NoCard,    \* NULL
  MaxSeries  \* bound: insertions into each slot

ASSUME SmartcardAssumption == NoCard \notin Card /\ MaxSeries \in Nat \ {0}

(* A card that the worker tracks, by the slot's id; card_slot_series is -1 *)
(* for none.                                                               *)
Tracked   == [name : Card, series : 1..MaxSeries]
Untracked == [name |-> NoCard, series |-> -1]

SlotState == [card : Card \cup {NoCard}, series : 1..MaxSeries,
              name : Card \cup {NoCard}]
Message   == [op : {"I", "R"}, name : Card]

VARIABLES
  slots,     \* each slot's card, its series, and the name of its last card
  changed,   \* slots that NSS has yet to wake the worker for
  pc,        \* where the worker is
  slot,      \* the slot it was woken for
  series,    \* the slot_series that it read
  tracked,   \* worker->smartcards
  pipe,      \* messages written and not yet read
  fault,     \* a NULL key was looked up
  told,      \* history: the card that the messages leave in each slot
  overtaken  \* history: cards that were gone before the worker had dealt with them

wvars == <<slots, changed, pc, slot, series, tracked, pipe, fault, told,
           overtaken>>

local == <<slot, series>>

NameIn(s) == slots[s].name

-----------------------------------------------------------------------------
(* The readers.                                                            *)

(* A card that is put into another slot before the worker told of its      *)
(* removal from the first is overtaken.                                    *)
Insert(s, c) ==
  /\ slots[s].card = NoCard
  /\ \A r \in Slot : slots[r].card # c
  /\ slots[s].series < MaxSeries
  /\ slots' = [slots EXCEPT ![s] = [card |-> c, series |-> @.series + 1, name |-> c]]
  /\ changed' = changed \cup {s}
  /\ overtaken' = IF \E r \in Slot : r # s /\ told[r] = c
                    THEN overtaken \cup {c} ELSE overtaken
  /\ UNCHANGED <<pc, local, tracked, pipe, fault, told>>

(* So is a card that goes before the worker told of its insertion.         *)
Remove(s) ==
  /\ slots[s].card # NoCard
  /\ slots' = [slots EXCEPT ![s].card = NoCard]
  /\ changed' = changed \cup {s}
  /\ overtaken' = IF pc \notin {"none", "ended"} /\ told[s] # slots[s].card
                    THEN overtaken \cup {slots[s].card} ELSE overtaken
  /\ UNCHANGED <<pc, local, tracked, pipe, fault, told>>

-----------------------------------------------------------------------------
(* csd_smartcard_manager_worker_watch_for_and_process_event                *)

(* What the two emit functions write, and what it tells.                   *)
EmitInserted(c) ==
  /\ pipe' = Append(pipe, [op |-> "I", name |-> c])
  /\ told' = [told EXCEPT ![slot] = c]

EmitRemoved(c) ==
  /\ pipe' = Append(pipe, [op |-> "R", name |-> c])
  /\ told' = [told EXCEPT ![slot] = NoCard]

(* SECMOD_WaitForAnyTokenEvent returns a slot.                             *)
WaitForEvent(s) ==
  /\ pc = "waiting"
  /\ s \in changed
  /\ changed' = changed \ {s}
  /\ slot' = s
  /\ pc' = "woken"
  /\ UNCHANGED <<slots, series, tracked, pipe, fault, told, overtaken>>

(* It reports an error: the thread ends, its end of the pipe stays open.   *)
WaitFails ==
  /\ pc = "waiting"
  /\ pc' = "ended"
  /\ UNCHANGED <<slots, changed, local, tracked, pipe, fault, told, overtaken>>

(* PK11_GetSlotSeries                                                      *)
GetSlotSeries ==
  /\ pc = "woken"
  /\ series' = slots[slot].series
  /\ pc' = "looking"
  /\ UNCHANGED <<slots, changed, slot, tracked, pipe, fault, told, overtaken>>

(* Mutant: the card in the slot is taken for the one that was there.       *)
IsPresentIgnoringSeries ==
  /\ pc = "looking"
  /\ slots[slot].card # NoCard
  /\ pc' = "inserting"
  /\ UNCHANGED <<slots, changed, local, tracked, pipe, fault, told, overtaken>>

(* PK11_IsPresent finds a card: the one it replaces is removed first.      *)
IsPresent ==
  /\ pc = "looking"
  /\ slots[slot].card # NoCard
  /\ pc' = "inserting"
  /\ IF tracked[slot].name # NoCard /\ tracked[slot].series # series
       THEN EmitRemoved(tracked[slot].name)
       ELSE UNCHANGED <<pipe, told>>
  /\ UNCHANGED <<slots, changed, local, tracked, fault, overtaken>>

(* The new card takes the name that its slot has by now.  If the slot      *)
(* changed since its series was read, the card tracked before is           *)
(* overtaken.                                                              *)
TrackNewCard ==
  /\ tracked' = [tracked EXCEPT ![slot] = [name |-> NameIn(slot), series |-> series]]
  /\ EmitInserted(NameIn(slot))
  /\ overtaken' = IF slots[slot].series # series
                    THEN overtaken \cup ({tracked[slot].name} \ {NoCard})
                    ELSE overtaken

CardInserted ==
  /\ pc = "inserting"
  /\ pc' = "waiting"
  /\ TrackNewCard
  /\ UNCHANGED <<slots, changed, local, fault>>

(* No card is present and none is tracked: the event is discarded.         *)
NotPresentNorTracked ==
  /\ pc = "looking"
  /\ slots[slot].card = NoCard
  /\ tracked[slot].name = NoCard
  /\ pc' = "waiting"
  /\ UNCHANGED <<slots, changed, local, tracked, pipe, fault, told, overtaken>>

(* The tracked card is gone, and perhaps others that came after it.        *)
CardsSkipped == series - tracked[slot].series > 1

CardRemoved ==
  /\ pc = "looking"
  /\ slots[slot].card = NoCard
  /\ tracked[slot].name # NoCard
  /\ ~CardsSkipped
  /\ pc' = "waiting"
  /\ EmitRemoved(tracked[slot].name)
  /\ tracked' = [tracked EXCEPT ![slot] = Untracked]
  /\ UNCHANGED <<slots, changed, local, fault, overtaken>>

(* If there were others: the tracked one is removed, the last one inserted *)
(* and removed; but its key now belongs to the table, and NULL is looked   *)
(* up.                                                                     *)
SkippedCardRemoved ==
  /\ pc = "looking"
  /\ slots[slot].card = NoCard
  /\ tracked[slot].name # NoCard
  /\ CardsSkipped
  /\ pc' = "catching up"
  /\ EmitRemoved(tracked[slot].name)
  /\ UNCHANGED <<slots, changed, local, tracked, fault, overtaken>>

LastCardInserted ==
  /\ pc = "catching up"
  /\ pc' = "removing"
  /\ TrackNewCard
  /\ UNCHANGED <<slots, changed, local, fault>>

LastCardRemoved ==
  /\ pc = "removing"
  /\ pc' = "ended"
  /\ EmitRemoved(tracked[slot].name)
  /\ fault' = TRUE
  /\ UNCHANGED <<slots, changed, local, tracked, overtaken>>

Readers ==
  \/ \E s \in Slot, c \in Card : Insert(s, c)
  \/ \E s \in Slot : Remove(s)

Worker ==
  \/ \E s \in Slot : WaitForEvent(s)
  \/ GetSlotSeries
  \/ IsPresent \/ CardInserted
  \/ NotPresentNorTracked \/ CardRemoved
  \/ SkippedCardRemoved \/ LastCardInserted \/ LastCardRemoved

-----------------------------------------------------------------------------
(* The worker and the readers keep their types; messages are about cards,   *)
(* never about NULL.                                                        *)
WorkerTypeOK ==
  /\ slots \in [Slot -> SlotState]
  /\ changed \in SUBSET Slot
  /\ pc \in {"none", "waiting", "woken", "looking", "inserting", "catching up",
             "removing", "ended"}
  /\ slot \in Slot
  /\ series \in 1..MaxSeries
  /\ tracked \in [Slot -> Tracked \cup {Untracked}]
  /\ pipe \in Seq(Message)
  /\ fault \in BOOLEAN
  /\ told \in [Slot -> Card \cup {NoCard}]
  /\ overtaken \in SUBSET Card

(* The messages about a slot are paired: a removal names the card that was *)
(* inserted last, and nothing is inserted in its place before that; what   *)
(* "excused" holds may be replaced without.                                *)
PairedUnless(excused) ==
  Len(pipe') > Len(pipe) =>
    LET m == pipe'[Len(pipe')] IN
      IF m.op = "R" THEN told[slot] = m.name
      ELSE told[slot] \in {NoCard, m.name} \cup excused

=============================================================================
