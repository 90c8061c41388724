---------------------------- MODULE Confirmation ----------------------------
(***************************************************************************)
(* Trying out a configuration of the monitors                              *)
(* (plugins/xrandr/csd_xrandr-manager.c).                                  *)
(*                                                                         *)
(* A new configuration is saved in the file of the intended one, whose old *)
(* contents become the backup, and applied; an idle callback then asks the *)
(* user to confirm it, in a dialog with a countdown and a ctk_main of its  *)
(* own.  Confirmed, the backup is deleted; otherwise it is put back.  A    *)
(* backup that is found at startup is what a crash left behind.            *)
(*                                                                         *)
(* Within the dialog's loop everything else goes on: another program or    *)
(* the menu of the status icon may try another configuration, the plugin   *)
(* may be stopped and started.                                             *)
(***************************************************************************)
EXTENDS Naturals, Sequences

CONSTANTS
  Config,
  NoFile,
  MaxTries \* bound: configurations that are tried

ASSUME ConfirmationAssumption ==
  /\ NoFile \notin Config
  /\ MaxTries \in Nat

Maybe == Config \cup {NoFile}

(* A dialog with its loop: TimeoutDialog's response_id, "none" while it is *)
(* not initialised; the countdown is above 0; the loop was told to quit.   *)
Dialog == [response : {"none", "accept", "cancel"}, counting : BOOLEAN, quit : BOOLEAN]

VARIABLES
  intended, \* monitors.xml
  backup,   \* monitors.xml.backup
  screen,   \* what is shown
  fits,     \* configurations that match the connected monitors
  running,  \* priv->running; priv->rw_screen is there
  saved,    \* another program has saved a configuration, to have it applied
  queued,   \* confirm_with_user_idle_cb is queued so many times
  dialogs,  \* the dialogs that are open, the innermost last
  tries,
  kept,     \* history: what the files go back to unless the user confirms
  before,   \* history: what was shown before the menu was used, if it was
  disturbed \* history: undecided, a change was overtaken, given up or interrupted

vars == <<intended, backup, screen, fits, running, saved, queued, dialogs, tries,
          kept, before, disturbed>>

files   == <<intended, backup>>
history == <<kept, before, disturbed>>

Pending == saved \/ queued > 0 \/ dialogs # <<>>

Init ==
  /\ intended \in Maybe
  /\ backup \in Maybe
  /\ screen \in Config
  /\ fits \in SUBSET Config
  /\ running = FALSE
  /\ saved = FALSE
  /\ queued = 0
  /\ dialogs = <<>>
  /\ tries = 0
  /\ kept = IF backup = NoFile THEN intended ELSE backup
  /\ before = NoFile
  /\ disturbed = FALSE

-----------------------------------------------------------------------------
(* apply_configuration_from_filename, of a file with these contents.  That *)
(* they do not match the monitors may be an error or not; after a stop     *)
(* there is no screen to apply anything to.                                *)
Applies(file) == running /\ file \in fits

MayReturnTrue(file)  == Applies(file) \/ (running /\ file # NoFile)
MayReturnFalse(file) == ~Applies(file)

Shown(file) == IF Applies(file) THEN file ELSE screen

(* What a save makes the backup, and the file again if it fails.           *)
BackupOfSave == IF intended # NoFile THEN intended ELSE backup

(* A save over a backup, or while another change is not confirmed yet,     *)
(* loses what there was to go back to.                                     *)
GoBackTo(file) ==
  /\ kept' = file
  /\ disturbed' = (disturbed \/ Pending \/ backup # NoFile)

(* try_to_apply_intended_configuration, with these contents of the two     *)
(* files; what cannot be applied is replaced by the backup, if there is    *)
(* one.                                                                    *)
TryToApply(new, old) ==
  \/ /\ MayReturnTrue(new)
     /\ intended' = new /\ backup' = old
     /\ screen' = Shown(new)
     /\ queued' = queued + 1
  \/ /\ MayReturnFalse(new)
     /\ intended' = IF old # NoFile THEN old ELSE new
     /\ backup' = NoFile
     /\ UNCHANGED <<screen, queued>>

(* Another program saves a configuration, and calls ApplyConfiguration.    *)
ProgramSaves(c) ==
  /\ running
  /\ tries < MaxTries
  /\ tries' = tries + 1
  /\ saved' = TRUE
  /\ intended' = c
  /\ backup' = BackupOfSave
  /\ GoBackTo(intended)
  /\ before' = NoFile
  /\ UNCHANGED <<screen, fits, running, queued, dialogs>>

ApplyConfiguration ==
  /\ saved
  /\ saved' = FALSE
  /\ TryToApply(intended, backup)
  /\ UNCHANGED <<fits, running, dialogs, tries, history>>

(* The status icon's menu, which a modal dialog makes insensitive.         *)
MenuIsSensitive == running /\ dialogs = <<>> /\ tries < MaxTries

(* Mutant: the current configuration is not saved before the new one.      *)
MonitorActivateUnsaved(c) ==
  /\ MenuIsSensitive
  /\ tries' = tries + 1
  /\ TryToApply(c, BackupOfSave)
  /\ GoBackTo(BackupOfSave)
  /\ before' = screen
  /\ UNCHANGED <<fits, running, saved, dialogs>>

(* monitor_activate_cb and output_rotation_item_activate_cb save what is   *)
(* shown and then the new configuration, so that the backup is what is     *)
(* shown, whatever the file was.                                           *)
MonitorActivate(c) ==
  /\ MenuIsSensitive
  /\ tries' = tries + 1
  /\ TryToApply(c, screen)
  /\ GoBackTo(screen)
  /\ before' = screen
  /\ UNCHANGED <<fits, running, saved, dialogs>>

(* The new configuration cannot be saved, and maybe the old one neither;   *)
(* the handler returns.                                                    *)
MonitorActivateFails ==
  /\ MenuIsSensitive
  /\ tries' = tries + 1
  /\ \E file \in {screen, BackupOfSave} : intended' = file /\ GoBackTo(file)
  /\ backup' = NoFile
  /\ before' = NoFile
  /\ UNCHANGED <<screen, fits, running, saved, queued, dialogs>>

(* mirror_outputs_cb saves only the new one.                               *)
MirrorOutputs(c) ==
  /\ MenuIsSensitive
  /\ tries' = tries + 1
  /\ TryToApply(c, BackupOfSave)
  /\ GoBackTo(intended)
  /\ before' = NoFile
  /\ UNCHANGED <<fits, running, saved, dialogs>>

(* There is no such setup, or it cannot be saved: the handler goes on with *)
(* the file that is there, and the user is asked about it.                 *)
MirrorOutputsFails ==
  /\ MenuIsSensitive
  /\ tries' = tries + 1
  /\ TryToApply(intended, backup) \/ TryToApply(BackupOfSave, NoFile)
  /\ disturbed' = TRUE
  /\ UNCHANGED <<fits, running, saved, dialogs, kept, before>>

-----------------------------------------------------------------------------
Top == dialogs[Len(dialogs)]

(* confirm_with_user_idle_cb, up to the ctk_main in                        *)
(* user_says_things_are_ok; a loop that was told to quit starts no new     *)
(* iteration, which an idle callback would need.                           *)
AskUser ==
  /\ queued > 0
  /\ dialogs # <<>> => ~Top.quit
  /\ queued' = queued - 1
  /\ dialogs' = Append(dialogs, [response |-> "none", counting |-> TRUE, quit |-> FALSE])
  /\ UNCHANGED <<files, screen, fits, running, saved, tries, history>>

(* ctk_main_quit ends the innermost loop, whoever calls it.                *)
Quit(ds) == [ds EXCEPT ![Len(ds)].quit = TRUE]

(* Mutant: the countdown ends no loop.                                     *)
CountdownQuitsNothing(i) ==
  /\ dialogs[i].counting
  /\ \A j \in 1..(i - 1) : ~dialogs[j].counting
  /\ dialogs' = [dialogs EXCEPT ![i] = [@ EXCEPT !.counting = FALSE, !.response = "cancel"]]
  /\ UNCHANGED <<files, screen, fits, running, saved, queued, tries, history>>

(* timeout_cb comes to 0: that of the dialog opened first comes first.     *)
CountdownEnds(i) ==
  /\ dialogs[i].counting
  /\ \A j \in 1..(i - 1) : ~dialogs[j].counting
  /\ dialogs' = Quit([dialogs EXCEPT ![i] = [@ EXCEPT !.counting = FALSE,
                                                     !.response = "cancel"]])
  /\ UNCHANGED <<files, screen, fits, running, saved, queued, tries, history>>

(* Mutant: a dialog that is closed responds with "delete event".           *)
TimeoutResponseUnmapped(how) ==
  /\ dialogs # <<>>
  /\ dialogs' = Quit([dialogs EXCEPT ![Len(dialogs)].response = how])
  /\ UNCHANGED <<files, screen, fits, running, saved, queued, tries, history>>

(* timeout_response_cb: the innermost dialog, which has the grab, is       *)
(* answered or closed.                                                     *)
TimeoutResponse(how) ==
  /\ dialogs # <<>>
  /\ dialogs' = Quit([dialogs EXCEPT ![Len(dialogs)].response =
                        IF how = "delete event" THEN "cancel" ELSE how])
  /\ UNCHANGED <<files, screen, fits, running, saved, queued, tries, history>>

(* SIGTERM ends the innermost loop too (main.c).                           *)
Interrupt ==
  /\ dialogs # <<>>
  /\ dialogs' = Quit(dialogs)
  /\ disturbed' = TRUE
  /\ UNCHANGED <<files, screen, fits, running, saved, queued, tries, kept, before>>

(* The innermost loop returns.  A response that was never set reads as     *)
(* anything.                                                               *)
UserSaysThingsAreOk ==
  /\ Top.response \in {"none", "accept"}
  /\ backup' = NoFile
  /\ kept' = intended
  /\ UNCHANGED <<intended, screen>>

(* restore_backup_configuration: without a backup the file that did not    *)
(* work is deleted and the screen stays.                                   *)
RestoreBackup ==
  /\ Top.response \in {"none", "cancel"}
  /\ intended' = backup
  /\ backup' = NoFile
  /\ screen' = Shown(backup)
  /\ UNCHANGED kept

LoopReturns ==
  /\ dialogs # <<>>
  /\ Top.quit
  /\ UserSaysThingsAreOk \/ RestoreBackup
  /\ dialogs' = SubSeq(dialogs, 1, Len(dialogs) - 1)
  /\ UNCHANGED <<fits, running, saved, queued, tries, before, disturbed>>

-----------------------------------------------------------------------------
(* The plugin's life.                                                      *)

(* Mutant: the backup is applied and not put back.                         *)
RestoreAtStartupUnsaved ==
  /\ backup # NoFile
  /\ backup' = NoFile
  /\ screen' = IF backup \in fits THEN backup ELSE screen
  /\ disturbed' = (disturbed \/ Pending)
  /\ UNCHANGED intended

(* csd_xrandr_manager_start, apply_stored_configuration_at_startup: the    *)
(* backup is put back and applied, or given up if it cannot be applied;    *)
(* without a backup the intended configuration is applied.  What cannot be *)
(* applied is replaced by a default.                                       *)
RestoreAtStartup ==
  /\ backup # NoFile
  /\ intended' = backup /\ backup' = NoFile
  /\ screen' = IF backup \in fits THEN backup ELSE screen
  /\ disturbed' = (disturbed \/ Pending)

GiveUpAtStartup ==
  /\ backup # NoFile /\ backup \notin fits
  /\ backup' = NoFile
  /\ screen' \in Config
  /\ disturbed' = TRUE
  /\ UNCHANGED intended

ApplyAtStartup ==
  /\ backup = NoFile
  /\ IF intended \in fits THEN screen' = intended ELSE screen' \in Config
  /\ disturbed' = (disturbed \/ Pending)
  /\ UNCHANGED files

(* Mutant: startup applies the intended configuration at once.             *)
StartIgnoringBackup ==
  /\ ~running
  /\ running' = TRUE
  /\ IF intended \in fits THEN screen' = intended ELSE screen' \in Config
  /\ disturbed' = (disturbed \/ Pending)
  /\ UNCHANGED files
  /\ UNCHANGED <<fits, saved, queued, dialogs, tries, kept, before>>

Start ==
  /\ ~running
  /\ running' = TRUE
  /\ RestoreAtStartup \/ GiveUpAtStartup \/ ApplyAtStartup
  /\ UNCHANGED <<fits, saved, queued, dialogs, tries, kept, before>>

(* csd_xrandr_manager_stop leaves dialogs and queued confirmations alone.  *)
Stop ==
  /\ running
  /\ running' = FALSE
  /\ UNCHANGED <<files, screen, fits, saved, queued, dialogs, tries, history>>

(* The daemon ends or the machine crashes: only the files stay.            *)
Crash ==
  /\ running' = FALSE
  /\ saved' = FALSE /\ queued' = 0 /\ dialogs' = <<>>
  /\ screen' \in Config
  /\ before' = NoFile
  /\ kept' = IF ~disturbed THEN kept ELSE IF backup = NoFile THEN intended ELSE backup
  /\ disturbed' = FALSE
  /\ UNCHANGED <<files, fits, tries>>

(* Monitors are plugged in or out; on_randr_event applies the intended     *)
(* configuration, confirmed or not, or one of its own making.              *)
Hotplug(set) ==
  /\ set # fits
  /\ fits' = set
  /\ IF ~running THEN UNCHANGED screen
     ELSE IF intended \in set THEN screen' = intended ELSE screen' \in Config
  /\ UNCHANGED <<files, running, saved, queued, dialogs, tries, history>>

(* handle_fn_f7 and handle_rotate_windows show another configuration and   *)
(* save nothing.                                                           *)
KeyPressed(c) ==
  /\ running
  /\ c \in fits \ {screen}
  /\ screen' = c
  /\ UNCHANGED <<files, fits, running, saved, queued, dialogs, tries, history>>

Next ==
  \/ \E c \in Config : ProgramSaves(c)
  \/ ApplyConfiguration
  \/ \E c \in Config : MonitorActivate(c)
  \/ \E c \in Config : MirrorOutputs(c)
  \/ MonitorActivateFails
  \/ MirrorOutputsFails
  \/ AskUser
  \/ \E i \in DOMAIN dialogs : CountdownEnds(i)
  \/ \E how \in {"accept", "cancel", "delete event"} : TimeoutResponse(how)
  \/ Interrupt
  \/ LoopReturns
  \/ Start \/ Stop \/ Crash
  \/ \E set \in SUBSET Config : Hotplug(set)
  \/ \E c \in Config : KeyPressed(c)

Spec == Init /\ [][Next]_vars

(* The main loop comes to idle callbacks and timers; a loop that was told  *)
(* to quit ends.                                                           *)
Fairness ==
  /\ WF_vars(AskUser)
  /\ WF_vars(\E i \in DOMAIN dialogs : CountdownEnds(i))
  /\ WF_vars(LoopReturns)

FairSpec == Spec /\ Fairness

-----------------------------------------------------------------------------
(* Files, screen and dialogs are what they may be; a response is one that  *)
(* user_says_things_are_ok knows.                                          *)
TypeOK ==
  /\ intended \in Maybe /\ backup \in Maybe
  /\ screen \in Config
  /\ fits \in SUBSET Config
  /\ running \in BOOLEAN /\ saved \in BOOLEAN
  /\ queued \in Nat
  /\ dialogs \in Seq(Dialog)
  /\ tries \in Nat
  /\ kept \in Maybe /\ before \in Maybe
  /\ disturbed \in BOOLEAN

(* What the user has not confirmed does not replace what was there: the    *)
(* files have it, through failures, crashes and restarts, unless there was *)
(* nothing, or the change was disturbed.                                   *)
UnconfirmedIsTakenBack ==
  ~disturbed /\ kept # NoFile =>
    IF backup # NoFile THEN backup = kept ELSE intended = kept /\ ~Pending

(* No backup is left when nothing is to be confirmed: the next start would *)
(* take back what was.                                                     *)
NoStaleBackup == running /\ ~Pending => backup = NoFile

(* "The display will be reset to its previous configuration": what was     *)
(* shown before the menu was used is shown again, if the monitors allow.   *)
MenuChangeIsUndone ==
  [][Len(dialogs') < Len(dialogs) /\ Top.response = "cancel" /\ before # NoFile /\ ~disturbed
       /\ Applies(before) /\ running' =>
       screen' = before /\ intended' = before]_vars

(* A dialog returns with a response that was given, unless another change  *)
(* was tried meanwhile: then the inner one may return without.             *)
ResponseIsKnown == dialogs # <<>> /\ Top.quit /\ ~disturbed => Top.response # "none"

(* Without another change the dialog does not stay for ever.               *)
EveryDialogEnds ==
  []~disturbed => (queued > 0 \/ dialogs # <<>> ~> queued = 0 /\ dialogs = <<>>)

=============================================================================
