------------------------- MODULE ConfirmationProofs -------------------------
(***************************************************************************)
(* Theorems about the confirmation of a monitor configuration, for any     *)
(* configurations and any number of tries.                                 *)
(***************************************************************************)
EXTENDS Confirmation, SequenceTheorems, TLAPS

(* The inductive invariant.  An undisturbed change is in one place only:   *)
(* saved, queued or in the only dialog; otherwise the end of one dialog    *)
(* would leave another pending without a backup, and a countdown could end *)
(* a dialog that has no response.  If it came from the menu, what the      *)
(* files go back to is what was shown.                                     *)
OnePending ==
  ~disturbed =>
    /\ queued + Len(dialogs) <= 1
    /\ saved => queued = 0 /\ dialogs = <<>>

BeforeIsKept == ~disturbed /\ Pending /\ before # NoFile => kept = before

FilesInv == UnconfirmedIsTakenBack /\ NoStaleBackup /\ BeforeIsKept

IInv == TypeOK /\ FilesInv /\ OnePending /\ ResponseIsKnown

-----------------------------------------------------------------------------
(* The length tells an open dialog from none.                              *)
LEMMA DialogsLength ==
  ASSUME NEW ds \in Seq(Dialog)
  PROVE  /\ Len(ds) \in Nat
         /\ ds = <<>> <=> Len(ds) = 0
         /\ ds # <<>> => Len(ds) \in 1 .. Len(ds) /\ ds[Len(ds)] \in Dialog
  OBVIOUS

(* ctk_main_quit changes no dialog but the innermost, and of that one not  *)
(* the response.                                                           *)
LEMMA QuitType ==
  ASSUME NEW ds \in Seq(Dialog), ds # <<>>
  PROVE  /\ Quit(ds) \in Seq(Dialog)
         /\ Len(Quit(ds)) = Len(ds)
         /\ Quit(ds) # <<>>
         /\ Quit(ds)[Len(ds)].response = ds[Len(ds)].response
<1> DEFINE d == [ds[Len(ds)] EXCEPT !.quit = TRUE]
<1>1. Len(ds) \in 1 .. Len(ds) /\ ds[Len(ds)] \in Dialog
  BY DialogsLength
<1>2. d \in Dialog /\ d.response = ds[Len(ds)].response
  BY <1>1 DEF Dialog
<1>3. Quit(ds) = [ds EXCEPT ![Len(ds)] = d]
  BY DEF Quit
<1> HIDE DEF d
<1>4. /\ Quit(ds) \in Seq(Dialog) /\ Len(Quit(ds)) = Len(ds)
      /\ Quit(ds)[Len(ds)] = d
  BY <1>1, <1>2, <1>3, ExceptSeq
<1>5. QED
  BY <1>1, <1>2, <1>4, DialogsLength

(* A dialog that is answered, by the user or its countdown.                *)
LEMMA AnswerType ==
  ASSUME NEW ds \in Seq(Dialog), NEW i \in 1 .. Len(ds), NEW d \in Dialog
  PROVE  /\ Quit([ds EXCEPT ![i] = d]) \in Seq(Dialog)
         /\ Len(Quit([ds EXCEPT ![i] = d])) = Len(ds)
         /\ i = Len(ds) => Quit([ds EXCEPT ![i] = d])[Len(ds)].response = d.response
<1>1. /\ [ds EXCEPT ![i] = d] \in Seq(Dialog)
      /\ Len([ds EXCEPT ![i] = d]) = Len(ds)
      /\ [ds EXCEPT ![i] = d][i] = d
  BY ExceptSeq
<1>2. [ds EXCEPT ![i] = d] # <<>>
  BY <1>1, DialogsLength
<1>3. QED
  BY <1>1, <1>2, QuitType

(* The innermost dialog is destroyed.                                      *)
LEMMA FrontType ==
  ASSUME NEW ds \in Seq(Dialog), ds # <<>>
  PROVE  /\ SubSeq(ds, 1, Len(ds) - 1) \in Seq(Dialog)
         /\ Len(SubSeq(ds, 1, Len(ds) - 1)) = Len(ds) - 1
<1>1. Len(ds) \in Nat \ {0}
  BY DialogsLength
<1>2. PICK n \in Nat : n = Len(ds) - 1
  BY <1>1
<1>3. n <= Len(ds) /\ \A i \in 1 .. n : ds[i] \in Dialog
  BY <1>1, <1>2
<1>4. SubSeq(ds, 1, n) \in Seq(Dialog)
  BY <1>3
<1>5. Len(SubSeq(ds, 1, n)) = n
  BY <1>3
<1>6. QED
  BY <1>2, <1>4, <1>5, Zenon

-----------------------------------------------------------------------------
LEMMA InitInv == Init => IInv
<1>1. SUFFICES ASSUME Init PROVE IInv
  OBVIOUS
<1>2. Len(dialogs) = 0 /\ dialogs \in Seq(Dialog)
  BY <1>1 DEF Init
<1>3. TypeOK
  BY <1>1, <1>2, ConfirmationAssumption DEF Init, TypeOK, Maybe
<1>4. FilesInv
  BY <1>1 DEF Init, FilesInv, UnconfirmedIsTakenBack, NoStaleBackup, BeforeIsKept, Pending
<1>5. OnePending /\ ResponseIsKnown
  BY <1>1, <1>2 DEF Init, OnePending, ResponseIsKnown
<1>6. QED
  BY <1>3, <1>4, <1>5 DEF IInv

(* A change is undisturbed only if nothing was pending before it.          *)
LEMMA GoBackToUndisturbed ==
  ASSUME TypeOK, NEW file, GoBackTo(file)
  PROVE  /\ disturbed' \in BOOLEAN
         /\ ~disturbed' => ~disturbed /\ ~saved /\ queued = 0 /\ dialogs = <<>>
<1>1. ~(queued > 0) => queued = 0
  BY DEF TypeOK
<1>2. disturbed' = (disturbed \/ Pending \/ backup # NoFile)
  BY Zenon DEF GoBackTo
<1>3. disturbed' \in BOOLEAN
  BY <1>2, Zenon DEF Pending, TypeOK
<1>4. ~disturbed' => ~disturbed /\ ~Pending
  BY <1>2, Zenon
<1>5. QED
  BY <1>1, <1>3, <1>4, Zenon DEF Pending

(* Trying to apply, of a save that made the file and its backup so, when   *)
(* nothing else was pending.                                               *)
LEMMA TryToApplyInv ==
  ASSUME IInv, NEW new \in Maybe, NEW old \in Maybe, TryToApply(new, old),
         dialogs' = dialogs, kept' \in Maybe,
         UNCHANGED running, disturbed' \in BOOLEAN,
         ~disturbed' => ~saved' /\ queued = 0 /\ dialogs = <<>>,
         ~disturbed' /\ kept' # NoFile => old = kept',
         ~disturbed' /\ before' # NoFile => kept' = before'
  PROVE  /\ intended' \in Maybe /\ backup' \in Maybe
         /\ screen' \in Config
         /\ queued' \in Nat
         /\ FilesInv' /\ OnePending' /\ ResponseIsKnown'
<1>1. TypeOK /\ NoFile \notin Config
  BY ConfirmationAssumption DEF IInv
<1>2. /\ intended' \in Maybe /\ backup' \in Maybe
      /\ screen' \in Config
      /\ queued' \in Nat
  BY <1>1 DEF TryToApply, TypeOK, Maybe, Shown, Applies
<1>3. Len(<<>>) = 0
  OBVIOUS
<1>4. OnePending'
  BY <1>1, <1>3 DEF OnePending, TryToApply, TypeOK
<1>5. FilesInv'
  BY <1>1 DEF FilesInv, UnconfirmedIsTakenBack, NoStaleBackup, BeforeIsKept, Pending,
              TryToApply, TypeOK
<1>6. ResponseIsKnown'
  BY DEF ResponseIsKnown
<1>7. QED
  BY <1>2, <1>4, <1>5, <1>6

LEMMA MonitorActivateInv ==
  ASSUME IInv, NEW c \in Config, MonitorActivate(c)
  PROVE  IInv'
<1>1. TypeOK /\ screen \in Maybe /\ c \in Maybe
  BY DEF IInv, TypeOK, Maybe
<1>2. /\ TryToApply(c, screen) /\ GoBackTo(screen)
      /\ dialogs' = dialogs /\ UNCHANGED <<running, saved, fits>>
      /\ kept' = screen /\ before' = screen
      /\ tries' = tries + 1
  BY DEF MonitorActivate, GoBackTo
<1>3. /\ disturbed' \in BOOLEAN
      /\ ~disturbed' => ~saved' /\ queued = 0 /\ dialogs = <<>>
  BY <1>1, <1>2, GoBackToUndisturbed, Zenon
<1>4. /\ FilesInv' /\ OnePending' /\ ResponseIsKnown'
      /\ intended' \in Maybe /\ backup' \in Maybe /\ screen' \in Config /\ queued' \in Nat
  BY <1>1, <1>2, <1>3, TryToApplyInv
<1>5. TypeOK'
  BY <1>1, <1>2, <1>3, <1>4 DEF TypeOK
<1>6. QED
  BY <1>4, <1>5 DEF IInv

LEMMA MirrorOutputsInv ==
  ASSUME IInv, NEW c \in Config, MirrorOutputs(c)
  PROVE  IInv'
<1>1. TypeOK /\ BackupOfSave \in Maybe /\ c \in Maybe
  BY DEF IInv, TypeOK, Maybe, BackupOfSave
<1>2. /\ TryToApply(c, BackupOfSave) /\ GoBackTo(intended)
      /\ dialogs' = dialogs /\ UNCHANGED <<running, saved, fits>>
      /\ kept' = intended /\ before' = NoFile
      /\ tries' = tries + 1
  BY DEF MirrorOutputs, GoBackTo
<1>3. /\ disturbed' \in BOOLEAN
      /\ ~disturbed' => ~saved' /\ queued = 0 /\ dialogs = <<>>
  BY <1>1, <1>2, GoBackToUndisturbed, Zenon
<1>4. kept' \in Maybe /\ before' \in Maybe /\ (kept' # NoFile => BackupOfSave = kept')
  BY <1>1, <1>2 DEF BackupOfSave, TypeOK, Maybe
<1>5. /\ FilesInv' /\ OnePending' /\ ResponseIsKnown'
      /\ intended' \in Maybe /\ backup' \in Maybe /\ screen' \in Config /\ queued' \in Nat
  BY <1>1, <1>2, <1>3, <1>4, TryToApplyInv
<1>6. TypeOK'
  BY <1>1, <1>2, <1>3, <1>4, <1>5 DEF TypeOK
<1>7. QED
  BY <1>5, <1>6 DEF IInv

LEMMA MirrorOutputsFailsInv ==
  ASSUME IInv, MirrorOutputsFails
  PROVE  IInv'
<1>1. TypeOK /\ BackupOfSave \in Maybe /\ NoFile \in Maybe
  BY DEF IInv, TypeOK, Maybe, BackupOfSave
<1>2. /\ dialogs' = dialogs /\ UNCHANGED <<running, saved, fits, kept, before>>
      /\ tries' = tries + 1
      /\ disturbed' = TRUE
  BY DEF MirrorOutputsFails
<1>3. /\ FilesInv' /\ OnePending' /\ ResponseIsKnown'
      /\ intended' \in Maybe /\ backup' \in Maybe /\ screen' \in Config /\ queued' \in Nat
  <2>1. kept' \in Maybe /\ intended \in Maybe /\ backup \in Maybe
    BY <1>1, <1>2 DEF TypeOK
  <2>2. CASE TryToApply(intended, backup)
    BY <1>1, <1>2, <2>1, <2>2, TryToApplyInv
  <2>3. CASE TryToApply(BackupOfSave, NoFile)
    BY <1>1, <1>2, <2>1, <2>3, TryToApplyInv
  <2>4. QED
    BY <2>2, <2>3 DEF MirrorOutputsFails
<1>4. TypeOK'
  BY <1>1, <1>2, <1>3 DEF TypeOK
<1>5. QED
  BY <1>3, <1>4 DEF IInv

(* A call of ApplyConfiguration: what is pending is the save before it.    *)
LEMMA ApplyConfigurationInv ==
  ASSUME IInv, ApplyConfiguration
  PROVE  IInv'
<1>1. TypeOK /\ intended \in Maybe /\ backup \in Maybe /\ kept \in Maybe
  BY DEF IInv, TypeOK
<1>2. /\ saved /\ saved' = FALSE /\ TryToApply(intended, backup)
      /\ dialogs' = dialogs /\ UNCHANGED <<fits, running, tries, kept, before, disturbed>>
  BY DEF ApplyConfiguration, history
<1>3. Pending
  BY <1>2, Zenon DEF Pending
<1>4. ~disturbed => queued = 0 /\ dialogs = <<>>
  BY <1>2, Zenon DEF IInv, OnePending
<1>5. ~disturbed /\ kept # NoFile => backup = kept
  BY <1>3, Zenon DEF IInv, FilesInv, UnconfirmedIsTakenBack
<1>6. ~disturbed /\ before # NoFile => kept = before
  BY <1>3, Zenon DEF IInv, FilesInv, BeforeIsKept
<1>7. disturbed' \in BOOLEAN
  BY <1>1, <1>2 DEF TypeOK
<1>8. /\ FilesInv' /\ OnePending' /\ ResponseIsKnown'
      /\ intended' \in Maybe /\ backup' \in Maybe /\ screen' \in Config /\ queued' \in Nat
  BY <1>1, <1>2, <1>4, <1>5, <1>6, <1>7, TryToApplyInv
<1>9. TypeOK'
  BY <1>1, <1>2, <1>8 DEF TypeOK
<1>10. QED
  BY <1>8, <1>9 DEF IInv
-----------------------------------------------------------------------------
LEMMA ProgramSavesInv ==
  ASSUME IInv, NEW c \in Config, ProgramSaves(c)
  PROVE  IInv'
<1>1. TypeOK /\ NoFile \notin Config
  BY ConfirmationAssumption DEF IInv
<1>2. GoBackTo(intended) /\ kept' = intended
  BY DEF ProgramSaves, GoBackTo
<1>3. /\ disturbed' \in BOOLEAN
      /\ ~disturbed' => queued = 0 /\ dialogs = <<>>
  BY <1>1, <1>2, GoBackToUndisturbed, Zenon
<1>4. TypeOK'
  BY <1>1, <1>2, <1>3 DEF ProgramSaves, TypeOK, Maybe, BackupOfSave
<1>5. Pending'
  BY DEF ProgramSaves, Pending
<1>6. FilesInv'
  BY <1>1, <1>2, <1>5
  DEF FilesInv, UnconfirmedIsTakenBack, NoStaleBackup, BeforeIsKept, ProgramSaves, BackupOfSave
<1>7. OnePending' /\ ResponseIsKnown'
  <2>1. UNCHANGED <<queued, dialogs>>
    BY DEF ProgramSaves
  <2>2. Len(<<>>) = 0
    OBVIOUS
  <2>3. QED
    BY <1>3, <2>1, <2>2 DEF OnePending, ResponseIsKnown
<1>8. QED
  BY <1>4, <1>6, <1>7 DEF IInv

LEMMA MonitorActivateFailsInv ==
  ASSUME IInv, MonitorActivateFails
  PROVE  IInv'
<1>1. TypeOK /\ BackupOfSave \in Maybe
  BY DEF IInv, TypeOK, Maybe, BackupOfSave
<1>2. PICK file \in {screen, BackupOfSave} : intended' = file /\ GoBackTo(file)
  BY DEF MonitorActivateFails
<1>3. /\ UNCHANGED <<screen, fits, running, saved, queued, dialogs>>
      /\ backup' = NoFile /\ before' = NoFile /\ tries' = tries + 1
  BY DEF MonitorActivateFails
<1>4. /\ disturbed' \in BOOLEAN
      /\ ~disturbed' => ~saved /\ queued = 0 /\ dialogs = <<>>
  BY <1>1, <1>2, GoBackToUndisturbed, Zenon
<1>5. file \in Maybe /\ kept' = file
  BY <1>1, <1>2 DEF GoBackTo, TypeOK, Maybe
<1>6. TypeOK'
  BY <1>1, <1>2, <1>3, <1>4, <1>5 DEF TypeOK, Maybe
<1>7. ~disturbed' => ~Pending'
  BY <1>3, <1>4 DEF Pending
<1>8. FilesInv'
  BY <1>2, <1>3, <1>5, <1>7
  DEF FilesInv, UnconfirmedIsTakenBack, NoStaleBackup, BeforeIsKept
<1>9. OnePending' /\ ResponseIsKnown'
  <2>1. Len(<<>>) = 0
    OBVIOUS
  <2>2. QED
    BY <1>3, <1>4, <2>1 DEF OnePending, ResponseIsKnown
<1>10. QED
  BY <1>6, <1>8, <1>9 DEF IInv

(* What touches neither the files nor what is pending.                     *)
LEMMA FilesUntouched ==
  ASSUME FilesInv, UNCHANGED <<intended, backup, kept, before>>,
         Pending' <=> Pending, disturbed => disturbed', running' => running
  PROVE  FilesInv'
BY Zenon DEF FilesInv, UnconfirmedIsTakenBack, NoStaleBackup, BeforeIsKept

LEMMA AskUserInv ==
  ASSUME IInv, AskUser
  PROVE  IInv'
<1> DEFINE d == [response |-> "none", counting |-> TRUE, quit |-> FALSE]
<1>1. TypeOK /\ d \in Dialog
  BY DEF IInv, Dialog
<1>2. /\ queued > 0 /\ queued' = queued - 1 /\ dialogs' = Append(dialogs, d)
      /\ UNCHANGED <<intended, backup, screen, fits, running, saved, tries, kept, before,
                     disturbed>>
  BY DEF AskUser, files, history
<1> HIDE DEF d
<1>3. /\ dialogs' \in Seq(Dialog) /\ Len(dialogs') = Len(dialogs) + 1
      /\ dialogs'[Len(dialogs')] = d
      /\ dialogs' # <<>> /\ Len(dialogs) \in Nat
  BY <1>1, <1>2 DEF TypeOK
<1>4. queued \in Nat /\ queued' \in Nat
  BY <1>1, <1>2 DEF TypeOK
<1>5. TypeOK'
  BY <1>1, <1>2, <1>3, <1>4 DEF TypeOK
<1>6. FilesInv'
  BY <1>2, <1>3, FilesUntouched DEF Pending, IInv
<1>7. OnePending'
  <2>1. queued' + Len(dialogs') = queued + Len(dialogs)
    BY <1>2, <1>3, <1>4
  <2>2. ~(queued = 0)
    BY <1>2, <1>4
  <2>3. QED
    BY <1>2, <2>1, <2>2, Zenon DEF IInv, OnePending
<1>8. ResponseIsKnown'
  BY <1>3 DEF ResponseIsKnown, Top, d
<1>9. QED
  BY <1>5, <1>6, <1>7, <1>8 DEF IInv

(* What changes only open dialogs, and leaves an undisturbed one with a    *)
(* response.                                                               *)
LEMMA AnsweredInv ==
  ASSUME IInv, NEW ds \in Seq(Dialog), Len(ds) = Len(dialogs),
         dialogs # <<>>, dialogs' = ds, disturbed' \in {disturbed, TRUE},
         ~disturbed' => ds[Len(ds)].response # "none",
         UNCHANGED <<intended, backup, screen, fits, running, saved, queued, tries, kept, before>>
  PROVE  IInv'
<1>1. TypeOK
  BY DEF IInv
<1>2. TypeOK'
  BY <1>1 DEF TypeOK
<1>3. dialogs' # <<>>
  BY <1>1, DialogsLength DEF TypeOK
<1>4. disturbed => disturbed'
  OBVIOUS
<1>5. FilesInv'
  BY <1>3, <1>4, FilesUntouched DEF Pending, IInv
<1>6. OnePending'
  <2>1. Len(dialogs') = Len(dialogs)
    OBVIOUS
  <2>2. QED
    BY <1>4, <2>1, Zenon DEF IInv, OnePending
<1>7. ResponseIsKnown'
  BY Zenon DEF ResponseIsKnown, Top
<1>8. QED
  BY <1>2, <1>5, <1>6, <1>7 DEF IInv

(* An undisturbed countdown is that of the only dialog.                    *)
LEMMA CountdownEndsInv ==
  ASSUME IInv, NEW i \in DOMAIN dialogs, CountdownEnds(i)
  PROVE  IInv'
<1> DEFINE d == [dialogs[i] EXCEPT !.counting = FALSE, !.response = "cancel"]
           ds == Quit([dialogs EXCEPT ![i] = d])
<1>1. TypeOK /\ dialogs \in Seq(Dialog) /\ queued \in Nat
  BY DEF IInv, TypeOK
<1>2. i \in 1 .. Len(dialogs) /\ Len(dialogs) \in Nat /\ dialogs[i] \in Dialog
  BY <1>1
<1>3. dialogs # <<>>
  BY <1>1, <1>2, DialogsLength
<1>4. d \in Dialog /\ d.response = "cancel"
  BY <1>2 DEF Dialog
<1>5. dialogs' = ds
  BY DEF CountdownEnds
<1>6. UNCHANGED <<intended, backup, screen, fits, running, saved, queued, tries, kept,
                  before, disturbed>>
  BY DEF CountdownEnds, files, history
<1> HIDE DEF d
<1>7. /\ ds \in Seq(Dialog) /\ Len(ds) = Len(dialogs)
      /\ i = Len(dialogs) => ds[Len(ds)].response = "cancel"
  BY <1>1, <1>2, <1>4, AnswerType
<1> HIDE DEF ds
<1>8. ~disturbed' => i = Len(dialogs)
  <2>1. ~disturbed => queued + Len(dialogs) <= 1
    BY Zenon DEF IInv, OnePending
  <2>2. queued + Len(dialogs) <= 1 => i = Len(dialogs)
    BY <1>1, <1>2
  <2>3. QED
    BY <1>6, <2>1, <2>2
<1>9. ~disturbed' => ds[Len(ds)].response # "none"
  BY <1>7, <1>8
<1>10. QED
  BY <1>3, <1>5, <1>6, <1>7, <1>9, AnsweredInv

LEMMA TimeoutResponseInv ==
  ASSUME IInv, NEW how \in {"accept", "cancel", "delete event"}, TimeoutResponse(how)
  PROVE  IInv'
<1> DEFINE answer == IF how = "delete event" THEN "cancel" ELSE how
           d == [dialogs[Len(dialogs)] EXCEPT !.response = answer]
           ds == Quit([dialogs EXCEPT ![Len(dialogs)] = d])
<1>1. dialogs \in Seq(Dialog) /\ dialogs # <<>>
  BY DEF IInv, TypeOK, TimeoutResponse
<1>2. Len(dialogs) \in 1 .. Len(dialogs) /\ dialogs[Len(dialogs)] \in Dialog
  BY <1>1, DialogsLength
<1>3. d \in Dialog /\ d.response = answer /\ answer # "none"
  BY <1>2 DEF Dialog
<1>4. dialogs' = ds
  BY DEF TimeoutResponse
<1>5. UNCHANGED <<intended, backup, screen, fits, running, saved, queued, tries, kept,
                  before, disturbed>>
  BY DEF TimeoutResponse, files, history
<1> HIDE DEF answer, d
<1>6. /\ ds \in Seq(Dialog) /\ Len(ds) = Len(dialogs)
      /\ ds[Len(dialogs)].response = d.response
  BY <1>1, <1>2, <1>3, AnswerType
<1> HIDE DEF ds
<1>7. ds[Len(ds)].response # "none"
  BY <1>3, <1>6
<1>8. QED
  BY <1>1, <1>4, <1>5, <1>6, <1>7, AnsweredInv

LEMMA InterruptInv ==
  ASSUME IInv, Interrupt
  PROVE  IInv'
<1>1. dialogs \in Seq(Dialog) /\ dialogs # <<>>
  BY DEF IInv, TypeOK, Interrupt
<1>2. /\ dialogs' = Quit(dialogs) /\ disturbed' = TRUE
      /\ UNCHANGED <<intended, backup, screen, fits, running, saved, queued, tries, kept, before>>
  BY DEF Interrupt, files
<1>3. Quit(dialogs) \in Seq(Dialog) /\ Len(Quit(dialogs)) = Len(dialogs)
  BY <1>1, QuitType
<1>4. QED
  BY <1>1, <1>2, <1>3, AnsweredInv

(* When an undisturbed dialog returns, nothing else is pending, and the    *)
(* backup has been used.                                                   *)
LEMMA LoopReturnsInv ==
  ASSUME IInv, LoopReturns
  PROVE  IInv'
<1>1. TypeOK /\ dialogs \in Seq(Dialog) /\ dialogs # <<>> /\ queued \in Nat
  BY DEF IInv, TypeOK, LoopReturns
<1>2. /\ UserSaysThingsAreOk \/ RestoreBackup
      /\ UNCHANGED <<fits, running, saved, queued, tries, before, disturbed>>
  BY DEF LoopReturns
<1>3. dialogs' \in Seq(Dialog) /\ Len(dialogs') = Len(dialogs) - 1
  BY <1>1, FrontType DEF LoopReturns
<1>4. backup' = NoFile
  BY <1>2 DEF UserSaysThingsAreOk, RestoreBackup
<1>5. TypeOK'
  BY <1>1, <1>2, <1>3, <1>4
  DEF TypeOK, Maybe, UserSaysThingsAreOk, RestoreBackup, Shown, Applies
<1>6. ~disturbed => ~saved /\ queued = 0 /\ dialogs' = <<>>
  <2>1. ~disturbed => queued + Len(dialogs) <= 1 /\ ~saved
    BY <1>1, Zenon DEF IInv, OnePending
  <2>2. Len(dialogs) \in Nat \ {0}
    BY <1>1, DialogsLength
  <2>3. queued + Len(dialogs) <= 1 => queued = 0 /\ Len(dialogs') = 0
    BY <1>1, <1>3, <2>2
  <2>4. Len(dialogs') = 0 => dialogs' = <<>>
    BY <1>3
  <2>5. QED
    BY <2>1, <2>3, <2>4, Zenon
<1>7. ~disturbed' => ~Pending'
  BY <1>2, <1>6 DEF Pending
<1>8. ~disturbed /\ kept # NoFile => backup = kept
  BY <1>1, Zenon DEF IInv, FilesInv, UnconfirmedIsTakenBack, Pending
<1>9. ~disturbed' /\ kept' # NoFile => intended' = kept'
  BY <1>2, <1>8 DEF UserSaysThingsAreOk, RestoreBackup
<1>10. FilesInv'
  BY <1>4, <1>7, <1>9, Zenon DEF FilesInv, UnconfirmedIsTakenBack, NoStaleBackup, BeforeIsKept
<1>11. OnePending' /\ ResponseIsKnown'
  <2>1. Len(<<>>) = 0
    OBVIOUS
  <2>2. QED
    BY <1>2, <1>6, <2>1 DEF OnePending, ResponseIsKnown
<1>12. QED
  BY <1>5, <1>10, <1>11 DEF IInv
-----------------------------------------------------------------------------
LEMMA StartInv ==
  ASSUME IInv, Start
  PROVE  IInv'
<1>1. TypeOK
  BY DEF IInv
<1>2. /\ running' = TRUE
      /\ UNCHANGED <<fits, saved, queued, dialogs, tries, kept, before>>
      /\ RestoreAtStartup \/ GiveUpAtStartup \/ ApplyAtStartup
  BY DEF Start
<1>3. /\ backup' = NoFile
      /\ backup = NoFile => intended' = intended
      /\ disturbed' \in BOOLEAN
      /\ ~disturbed' => /\ ~disturbed /\ ~Pending
                        /\ backup # NoFile => intended' = backup
  BY <1>1, <1>2, Zenon
  DEF RestoreAtStartup, GiveUpAtStartup, ApplyAtStartup, files, Pending, TypeOK
<1>4. TypeOK'
  BY <1>1, <1>2, <1>3
  DEF TypeOK, Maybe, RestoreAtStartup, GiveUpAtStartup, ApplyAtStartup, files
<1>5. Pending' <=> Pending
  BY <1>2 DEF Pending
<1>6. FilesInv'
  BY <1>2, <1>3, <1>5, Zenon
  DEF IInv, FilesInv, UnconfirmedIsTakenBack, NoStaleBackup, BeforeIsKept
<1>7. OnePending' /\ ResponseIsKnown'
  BY <1>2, <1>3, Zenon DEF IInv, OnePending, ResponseIsKnown, Top
<1>8. QED
  BY <1>4, <1>6, <1>7 DEF IInv

LEMMA CrashInv ==
  ASSUME IInv, Crash
  PROVE  IInv'
<1>1. TypeOK
  BY DEF IInv
<1>2. /\ running' = FALSE /\ before' = NoFile /\ disturbed' = FALSE
      /\ saved' = FALSE /\ queued' = 0 /\ dialogs' = <<>>
      /\ intended' = intended /\ backup' = backup
      /\ kept' = IF ~disturbed THEN kept ELSE IF backup = NoFile THEN intended ELSE backup
  BY DEF Crash, files
<1>3. TypeOK'
  <2>1. screen' \in Config /\ fits' = fits /\ tries' = tries
    BY DEF Crash
  <2>2. dialogs' \in Seq(Dialog) /\ queued' \in Nat
    BY <1>2
  <2>3. kept' \in Maybe /\ before' \in Maybe
    BY <1>1, <1>2 DEF TypeOK, Maybe
  <2>4. QED
    BY <1>1, <1>2, <2>1, <2>2, <2>3 DEF TypeOK
<1>4. ~Pending'
  BY <1>2 DEF Pending
<1>5. FilesInv'
  BY <1>2, <1>4
  DEF IInv, FilesInv, UnconfirmedIsTakenBack, NoStaleBackup, BeforeIsKept
<1>6. OnePending' /\ ResponseIsKnown'
  <2>1. Len(<<>>) = 0
    OBVIOUS
  <2>2. QED
    BY <1>2, <2>1 DEF OnePending, ResponseIsKnown
<1>7. QED
  BY <1>3, <1>5, <1>6 DEF IInv

(* Steps of the plugin or the monitors that change only what is shown.     *)
LEMMA ShownInv ==
  ASSUME IInv, screen' \in Config, fits' \in SUBSET Config, running' \in BOOLEAN,
         running' => running,
         UNCHANGED <<intended, backup, saved, queued, dialogs, tries, kept, before, disturbed>>
  PROVE  IInv'
<1>1. TypeOK'
  BY DEF IInv, TypeOK
<1>2. Pending' <=> Pending
  BY DEF Pending
<1>3. FilesInv'
  BY <1>2, FilesUntouched DEF IInv
<1>4. OnePending' /\ ResponseIsKnown'
  BY DEF IInv, OnePending, ResponseIsKnown, Top
<1>5. QED
  BY <1>1, <1>3, <1>4 DEF IInv

LEMMA StutterInv == IInv /\ UNCHANGED vars => IInv'
<1>1. SUFFICES ASSUME IInv, UNCHANGED vars PROVE IInv'
  OBVIOUS
<1>2. TypeOK
  BY <1>1 DEF IInv
<1>3. screen' \in Config /\ fits' \in SUBSET Config /\ running' \in BOOLEAN
  BY <1>1, <1>2 DEF vars, TypeOK
<1>4. /\ running' => running
      /\ UNCHANGED <<intended, backup, saved, queued, dialogs, tries, kept, before, disturbed>>
  BY <1>1 DEF vars
<1>5. QED
  BY <1>1, <1>3, <1>4, ShownInv

LEMMA NextInv == IInv /\ [Next]_vars => IInv'
<1>1. SUFFICES ASSUME IInv, [Next]_vars PROVE IInv'
  OBVIOUS
<1>2. TypeOK
  BY <1>1 DEF IInv
<1>3. CASE \E c \in Config : ProgramSaves(c) \/ MonitorActivate(c) \/ MirrorOutputs(c)
  BY <1>1, <1>3, ProgramSavesInv, MonitorActivateInv, MirrorOutputsInv
<1>4. CASE ApplyConfiguration
  BY <1>1, <1>4, ApplyConfigurationInv
<1>5. CASE MonitorActivateFails \/ MirrorOutputsFails
  BY <1>1, <1>5, MonitorActivateFailsInv, MirrorOutputsFailsInv
<1>6. CASE AskUser
  BY <1>1, <1>6, AskUserInv
<1>7. CASE \E i \in DOMAIN dialogs : CountdownEnds(i)
  BY <1>1, <1>7, CountdownEndsInv
<1>8. CASE \E how \in {"accept", "cancel", "delete event"} : TimeoutResponse(how)
  BY <1>1, <1>8, TimeoutResponseInv
<1>9. CASE Interrupt
  BY <1>1, <1>9, InterruptInv
<1>10. CASE LoopReturns
  BY <1>1, <1>10, LoopReturnsInv
<1>11. CASE Start
  BY <1>1, <1>11, StartInv
<1>12. CASE Stop
  BY <1>1, <1>2, <1>12, ShownInv DEF Stop, TypeOK, files, history
<1>13. CASE Crash
  BY <1>1, <1>13, CrashInv
<1>14. CASE \E set \in SUBSET Config : Hotplug(set)
  BY <1>1, <1>2, <1>14, ShownInv DEF Hotplug, TypeOK, files, history
<1>15. CASE \E c \in Config : KeyPressed(c)
  BY <1>1, <1>2, <1>15, ShownInv DEF KeyPressed, TypeOK, files, history
<1>16. CASE UNCHANGED vars
  BY <1>1, <1>16, StutterInv
<1>17. QED
  BY <1>1, <1>3, <1>4, <1>5, <1>6, <1>7, <1>8, <1>9, <1>10, <1>11, <1>12, <1>13, <1>14,
     <1>15, <1>16 DEF Next

LEMMA IInvAlways == Spec => []IInv
<1>1. Init => IInv
  BY InitInv
<1>2. IInv /\ [Next]_vars => IInv'
  BY NextInv
<1>3. QED
  BY <1>1, <1>2, PTL DEF Spec

-----------------------------------------------------------------------------
(* Files, screen and dialogs are of their types, and a dialog is answered  *)
(* with a response that user_says_things_are_ok knows.                     *)
THEOREM TypeOKAlways == Spec => []TypeOK
<1>1. IInv => TypeOK
  BY DEF IInv
<1>2. QED
  BY <1>1, IInvAlways, PTL

(* What the user has not confirmed does not replace what was there: the    *)
(* files have it through failures, crashes, stops and starts.              *)
THEOREM UnconfirmedIsTakenBackAlways == Spec => []UnconfirmedIsTakenBack
<1>1. IInv => UnconfirmedIsTakenBack
  BY DEF IInv, FilesInv
<1>2. QED
  BY <1>1, IInvAlways, PTL

(* While the plugin runs there is a backup only of a change that is still  *)
(* to be confirmed, disturbed or not.                                      *)
THEOREM NoStaleBackupAlways == Spec => []NoStaleBackup
<1>1. IInv => NoStaleBackup
  BY DEF IInv, FilesInv
<1>2. QED
  BY <1>1, IInvAlways, PTL

(* An undisturbed dialog never returns with an uninitialised response.     *)
THEOREM ResponseIsKnownAlways == Spec => []ResponseIsKnown
<1>1. IInv => ResponseIsKnown
  BY DEF IInv
<1>2. QED
  BY <1>1, IInvAlways, PTL

(* What was shown before the menu was used is shown again when the dialog  *)
(* is cancelled or runs out, whatever happened to the files and the        *)
(* monitors meanwhile.                                                     *)
THEOREM MenuChangeIsUndoneAlways == Spec => MenuChangeIsUndone
<1> DEFINE Undone ==
      Len(dialogs') < Len(dialogs) /\ Top.response = "cancel" /\ before # NoFile /\ ~disturbed
        /\ Applies(before) /\ running' =>
        screen' = before /\ intended' = before
<1>1. IInv /\ [Next]_vars => [Undone]_vars
  <2>1. SUFFICES ASSUME IInv, Next,
                        Len(dialogs') < Len(dialogs), Top.response = "cancel",
                        before # NoFile, ~disturbed, Applies(before), running'
                 PROVE  screen' = before /\ intended' = before
    OBVIOUS
  <2>2. dialogs \in Seq(Dialog) /\ Len(dialogs) \in Nat
    BY <2>1 DEF IInv, TypeOK
  <2>3. CASE LoopReturns
    <3>1. dialogs # <<>> /\ RestoreBackup
      BY <2>1, <2>3 DEF LoopReturns, UserSaysThingsAreOk
    <3>2. kept = before
      BY <2>1, <3>1, Zenon DEF IInv, FilesInv, BeforeIsKept, Pending
    <3>3. backup = before
      BY <2>1, <3>1, <3>2, Zenon DEF IInv, FilesInv, UnconfirmedIsTakenBack, Pending
    <3>4. QED
      BY <2>1, <3>1, <3>3, Zenon DEF RestoreBackup, Shown
  <2>4. CASE Crash
    BY <2>1, <2>4 DEF Crash
  <2>5. Len(dialogs') # Len(dialogs) /\ ~(Len(dialogs') = Len(dialogs) + 1)
    BY <2>1, <2>2
  <2>6. CASE AskUser
    BY <2>2, <2>5, <2>6 DEF AskUser
  <2>7. CASE \E i \in DOMAIN dialogs : CountdownEnds(i)
    <3>1. PICK i \in DOMAIN dialogs : CountdownEnds(i)
      BY <2>7
    <3>2. i \in 1 .. Len(dialogs) /\ dialogs[i] \in Dialog
      BY <2>2
    <3>3. [dialogs[i] EXCEPT !.counting = FALSE, !.response = "cancel"] \in Dialog
      BY <3>2 DEF Dialog
    <3>4. Len(dialogs') = Len(dialogs)
      BY <2>2, <3>1, <3>2, <3>3, AnswerType DEF CountdownEnds
    <3>5. QED
      BY <2>5, <3>4, Zenon
  <2>8. CASE \E how \in {"accept", "cancel", "delete event"} : TimeoutResponse(how)
    <3>1. PICK how \in {"accept", "cancel", "delete event"} : TimeoutResponse(how)
      BY <2>8
    <3>2. Len(dialogs) \in 1 .. Len(dialogs) /\ dialogs[Len(dialogs)] \in Dialog
      BY <2>2, <3>1, DialogsLength DEF TimeoutResponse
    <3> DEFINE d == [dialogs[Len(dialogs)] EXCEPT !.response =
                       IF how = "delete event" THEN "cancel" ELSE how]
    <3>3. d \in Dialog
      BY <3>2 DEF Dialog
    <3>4. dialogs' = Quit([dialogs EXCEPT ![Len(dialogs)] = d])
      BY <3>1 DEF TimeoutResponse
    <3> HIDE DEF d
    <3>5. Len(Quit([dialogs EXCEPT ![Len(dialogs)] = d])) = Len(dialogs)
      BY <2>2, <3>2, <3>3, AnswerType
    <3>6. Len(dialogs') = Len(dialogs)
      BY <3>4, <3>5, Zenon
    <3>7. QED
      BY <2>5, <3>6, Zenon
  <2>9. CASE Interrupt
    BY <2>2, <2>5, <2>9, QuitType DEF Interrupt
  <2>10. CASE UNCHANGED dialogs
    BY <2>2, <2>5, <2>10
  <2>11. QED
    BY <2>1, <2>3, <2>4, <2>6, <2>7, <2>8, <2>9, <2>10
    DEF Next, ProgramSaves, ApplyConfiguration, MonitorActivate, MonitorActivateFails,
        MirrorOutputs, MirrorOutputsFails, Start, Stop, Hotplug, KeyPressed
<1>2. QED
  BY <1>1, IInvAlways, PTL DEF Spec, MenuChangeIsUndone

=============================================================================
