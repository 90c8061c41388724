-------------------------- MODULE SmartcardManager --------------------------
(***************************************************************************)
(* The smartcard manager and its plugin (plugins/smartcard/                *)
(* csd_smartcard-manager.c and csd_smartcard-plugin.c) with the worker of  *)
(* module SmartcardWorker.                                                 *)
(*                                                                         *)
(* The main thread reads the worker's messages, keeps the names of the     *)
(* cards that are inserted, and runs the removal action (lock the screen,  *)
(* end the session) when the card that the user logged in with goes, or is *)
(* not there when the plugin is activated.  Activating starts the worker   *)
(* before it looks at the slots; deactivating leaves the worker behind, to *)
(* write into a pipe that nobody reads, and keeps the names.               *)
(***************************************************************************)
EXTENDS SmartcardWorker

CONSTANTS
  LoginCard,     \* PKCS11_LOGIN_TOKEN_NAME
  MaxActivations \* bound

ASSUME LoginCardAssumption == LoginCard \in Card /\ MaxActivations \in Nat

VARIABLES
  state,       \* priv->state of the manager
  smartcards,  \* the names in priv->smartcards
  is_active,   \* the plugin's
  left,        \* history: names in the table without a card when it was filled
  noticed,     \* history: the removal action ran since LoginCard was last inserted
  activations

mvars == <<state, smartcards, is_active, left, noticed, activations>>

vars == <<wvars, mvars>>

In(c) == \E s \in Slot : slots[s].card = c

(* The worker of this life, with its table and its pipe.                   *)
NoWorker ==
  /\ pc' = "none"
  /\ pipe' = <<>>
  /\ tracked' = [s \in Slot |-> Untracked]
  /\ told' = [s \in Slot |-> NoCard]

Init ==
  /\ \E cards \in [Slot -> Card \cup {NoCard}] :
       /\ \A r, s \in Slot : cards[r] = cards[s] => r = s \/ cards[r] = NoCard
       /\ slots = [s \in Slot |-> [card |-> cards[s], series |-> 1, name |-> cards[s]]]
  /\ changed = {}
  /\ pc = "none"
  /\ slot \in Slot
  /\ series = 1
  /\ tracked = [s \in Slot |-> Untracked]
  /\ pipe = <<>>
  /\ fault = FALSE
  /\ told = [s \in Slot |-> NoCard]
  /\ overtaken = {}
  /\ state = "STOPPED"
  /\ smartcards = {}
  /\ is_active = FALSE
  /\ left = {}
  /\ noticed = FALSE
  /\ activations = 0

(* A card comes or goes; the login card's removal is new when it comes.    *)
ReadersChange ==
  /\ Readers
  /\ noticed' = (noticed /\ \A s \in Slot : slots'[s].card = LoginCard => slots[s].card = LoginCard)
  /\ UNCHANGED <<state, smartcards, is_active, left, activations>>

WorkerRuns  == ~fault /\ Worker /\ UNCHANGED mvars
WorkerFails == WaitFails /\ UNCHANGED mvars

-----------------------------------------------------------------------------
(* impl_activate: csd_smartcard_manager_start makes NSS look at the slots  *)
(* anew and starts the worker.                                             *)
StartWorker ==
  /\ ~fault
  /\ ~is_active
  /\ state = "STOPPED"
  /\ activations < MaxActivations
  /\ activations' = activations + 1
  /\ state' = "STARTING"
  /\ slots' = [s \in Slot |-> [slots[s] EXCEPT !.name = slots[s].card]]
  /\ changed' = {s \in Slot : slots[s].card # NoCard}
  /\ pc' = "waiting"
  /\ UNCHANGED <<local, tracked, pipe, fault, told, overtaken, smartcards,
                 is_active, left, noticed>>

(* Mutant: the plugin waits for the removal of a card that is not there.   *)
FinishActivationWithoutCheck(names) ==
  /\ smartcards' = names
  /\ is_active' = TRUE
  /\ UNCHANGED noticed

(* The rest of impl_activate, with the manager started or not.             *)
FinishActivation(names) ==
  /\ smartcards' = names
  /\ is_active' = TRUE
  /\ noticed' = (noticed \/ LoginCard \notin names)

(* csd_smartcard_manager_get_all_cards: a card for every slot, whether one *)
(* is present or not, by the token's name.                                 *)
GetAllCards ==
  /\ ~fault
  /\ state = "STARTING"
  /\ state' = "STARTED"
  /\ FinishActivation(smartcards \cup ({NameIn(s) : s \in Slot} \ {NoCard}))
  /\ left' = left \cup {c \in smartcards' : ~In(c)}
  /\ UNCHANGED <<wvars, activations>>

(* NSS or the driver cannot be loaded: the plugin is active all the same.  *)
StartFails ==
  /\ ~fault
  /\ ~is_active
  /\ state = "STOPPED"
  /\ activations < MaxActivations
  /\ activations' = activations + 1
  /\ FinishActivation(smartcards)
  /\ UNCHANGED <<wvars, state, left>>

(* Mutant: the name of a removed card is kept.                             *)
ProcessRemovedKeepingName(c) ==
  /\ noticed' = (noticed \/ c = LoginCard)
  /\ UNCHANGED smartcards

(* The 'R' of csd_smartcard_manager_check_for_and_process_events, with the *)
(* plugin's smartcard_removed_cb                                           *)
ProcessRemoved(c) ==
  /\ noticed' = (noticed \/ c = LoginCard)
  /\ smartcards' = smartcards \ {c}

(* The 'I': the plugin's callback only tells the screensaver.              *)
ProcessInserted(c) ==
  /\ smartcards' = smartcards \cup {c}
  /\ UNCHANGED noticed

ProcessEvent ==
  /\ ~fault
  /\ state = "STARTED"
  /\ pipe # <<>>
  /\ LET m == Head(pipe) IN
       IF m.op = "I" THEN ProcessInserted(m.name) ELSE ProcessRemoved(m.name)
  /\ pipe' = Tail(pipe)
  /\ UNCHANGED <<slots, changed, pc, local, tracked, fault, told, overtaken, state,
                 is_active, left, activations>>

(* Mutant: the source that reads the pipe is not destroyed.                *)
StopNowKeepingSource ==
  /\ state' = "STOPPED"
  /\ UNCHANGED <<pc, pipe, tracked, told>>

(* csd_smartcard_manager_stop_now                                          *)
StopNow ==
  /\ state' = "STOPPED"
  /\ NoWorker

(* impl_deactivate                                                         *)
Deactivate ==
  /\ ~fault
  /\ is_active
  /\ is_active' = FALSE
  /\ StopNow
  /\ UNCHANGED <<slots, changed, local, fault, overtaken, smartcards, left, noticed,
                 activations>>

Next ==
  \/ ReadersChange
  \/ WorkerRuns
  \/ WorkerFails
  \/ StartWorker \/ GetAllCards \/ StartFails
  \/ ProcessEvent
  \/ Deactivate

Spec == Init /\ [][Next]_vars

(* Both threads run on, and the main loop comes to the pipe.               *)
Fairness ==
  WF_vars(WorkerRuns) /\ WF_vars(GetAllCards) /\ WF_vars(ProcessEvent)

-----------------------------------------------------------------------------
(* The variables keep their types, and there is a worker as long as the    *)
(* manager is not stopped.                                                 *)
TypeOK ==
  /\ WorkerTypeOK
  /\ state \in {"STOPPED", "STARTING", "STARTED"}
  /\ smartcards \in SUBSET Card
  /\ is_active \in BOOLEAN
  /\ left \in SUBSET Card
  /\ noticed \in BOOLEAN
  /\ activations \in 0..MaxActivations
  /\ pc = "none" <=> state = "STOPPED"

(* "we don't want unpaired insertion events", "unpaired remove events":    *)
(* the removals and insertions that the worker writes about a slot are     *)
(* paired, but for cards that were overtaken by another one between the    *)
(* reading of the slot's series and of its name.                           *)
PairedEvents == [][PairedUnless(overtaken')]_vars

(* The same without exception.                                             *)
AlwaysPaired == [][PairedUnless({})]_vars

(* Cards that the code does not promise to account for: those overtaken,   *)
(* and those whose name came into the table, or stayed there, without a    *)
(* card when the slots were looked at.                                     *)
Unsure == overtaken \cup left

Quiet == pc = "waiting" /\ changed = {} /\ pipe = <<>>

(* When all events are processed, the table has the cards that are in the  *)
(* slots, through any interleaving of the readers, both threads and        *)
(* restarts.                                                               *)
TableMatchesSlots ==
  state = "STARTED" /\ Quiet => \A c \in Card \ Unsure : c \in smartcards <=> In(c)

Watching == state = "STARTED" /\ pc # "ended"

(* As long as the manager watches, the removal action runs when the login  *)
(* card is out, unless it comes back.                                      *)
EveryRemovalNoticed ==
  is_active /\ Watching /\ ~In(LoginCard) ~>
    noticed \/ In(LoginCard) \/ ~Watching \/ LoginCard \in Unsure

=============================================================================
