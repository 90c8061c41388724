----------------------------- MODULE TrashEmpty -----------------------------
(***************************************************************************)
(* Emptying the trash (plugins/housekeeping/csd_ldsm-trash-empty.c).  A    *)
(* thread counts the files, then deletes them, and now and then leaves     *)
(* word of it, in variables that no lock protects, for the main loop to    *)
(* show in a dialog.  Loads and stores happen in the order they are        *)
(* written in: there is a call between any two that matter.                *)
(***************************************************************************)
EXTENDS Naturals, Sequences

CONSTANTS
  MaxFiles, \* bound on the files in the trash
  MaxJobs   \* bound on the times it is emptied

VARIABLES
  confirm,   \* the file manager's setting: the user is asked first
  question,  \* trash_empty_confirm_dialog is there
  dialog,    \* trash_empty_dialog: "none", "shown", or "closed", which is a pointer to what is gone
  jobs,      \* times it was emptied
  phase,     \* what the thread does: "off", "count" or "delete"
  step,      \* where it is with a file: "next", "fill", "raise", "send" or "remove"
  cancelled, \* the cancellable of the job is
  files,     \* how many there are
  left,      \* those the enumerator has yet to return
  deleted,   \* deleted, of the thread
  pending,   \* trash_empty_update_pending
  current,   \* trash_empty_current_file is set
  report,    \* trash_empty_deleted_files and trash_empty_actually_deleting
  total,     \* trash_empty_total_files
  queue,     \* callbacks the thread sent to the main loop, "update" or "done"
  handler,   \* where trash_empty_update_dialog is: "off", "shown" or "cleared"
  grown,     \* history: files were added to the trash
  failed     \* history: the assertion failed, a second thread was started, or the dialog was not there

trash == <<files, grown>>
thread == <<phase, step, left, deleted>>
shared == <<pending, current, report, total>>

vars == <<confirm, question, dialog, jobs, thread, cancelled, trash, shared, queue, handler, failed>>

Init ==
  /\ confirm \in BOOLEAN
  /\ question = FALSE /\ dialog = "none" /\ jobs = 0
  /\ phase = "off" /\ step = "next" /\ left = 0 /\ deleted = 0
  /\ cancelled = FALSE
  /\ files \in 0..MaxFiles /\ grown = FALSE
  /\ pending = FALSE /\ current = FALSE
  /\ report = [deleted |-> 0, deleting |-> FALSE] /\ total = 0
  /\ queue = <<>> /\ handler = "off"
  /\ failed = FALSE

-----------------------------------------------------------------------------
(* Mutant: each file is reported, whether the main loop is ready or not.   *)
NextFileAlways ==
  /\ phase # "off" /\ step = "next" /\ left > 0 /\ ~cancelled
  /\ left' = left - 1
  /\ step' = "fill"
  /\ UNCHANGED <<confirm, question, dialog, jobs, phase, deleted, cancelled, trash, shared, queue, handler, failed>>

(* The thread.  trash_empty_delete_contents: the next file, of which the   *)
(* main loop is told if it is done with the one before.                    *)
NextFile ==
  /\ phase # "off" /\ step = "next" /\ left > 0 /\ ~cancelled
  /\ left' = left - 1
  /\ step' = IF pending THEN "remove" ELSE "fill"
  /\ UNCHANGED <<confirm, question, dialog, jobs, phase, deleted, cancelled, trash, shared, queue, handler, failed>>

(* trash_empty_maybe_schedule_update, with what it asserts                 *)
Fill ==
  /\ step = "fill"
  /\ failed' = (failed \/ current)
  /\ current' = TRUE
  /\ report' = [deleted |-> deleted, deleting |-> phase = "delete"]
  /\ step' = "raise"
  /\ UNCHANGED <<confirm, question, dialog, jobs, phase, left, deleted, cancelled, trash, pending, total, queue, handler>>

Raise ==
  /\ step = "raise"
  /\ pending' = TRUE
  /\ step' = "send"
  /\ UNCHANGED <<confirm, question, dialog, jobs, phase, left, deleted, cancelled, trash, current, report, total,
                 queue, handler, failed>>

Send ==
  /\ step = "send"
  /\ queue' = Append(queue, "update")
  /\ step' = "remove"
  /\ UNCHANGED <<confirm, question, dialog, jobs, phase, left, deleted, cancelled, trash, shared, handler, failed>>

(* The file is deleted, or cannot be, or is only counted.                  *)
Remove ==
  /\ step = "remove"
  /\ step' = "next"
  /\ deleted' = deleted + 1
  /\ \/ phase = "delete" /\ ~cancelled /\ files > 0 /\ files' = files - 1
     \/ files' = files
  /\ UNCHANGED <<confirm, question, dialog, jobs, phase, left, cancelled, grown, shared, queue, handler, failed>>

(* trash_empty_job, when a pass is over                                    *)
EndPass ==
  /\ phase # "off" /\ step = "next" /\ (left = 0 \/ cancelled)
  /\ IF phase = "count"
       THEN /\ phase' = "delete"
            /\ total' = deleted /\ deleted' = 0 /\ left' = files
            /\ UNCHANGED queue
       ELSE /\ phase' = "off"
            /\ queue' = Append(queue, "done")
            /\ UNCHANGED <<total, deleted, left>>
  /\ UNCHANGED <<confirm, question, dialog, jobs, step, cancelled, trash, pending, current, report, handler, failed>>

Thread == NextFile \/ Fill \/ Raise \/ Send \/ Remove \/ EndPass

-----------------------------------------------------------------------------
(* The main loop.  trash_empty_update_dialog, up to out:                   *)
ShowUpdate ==
  /\ queue # <<>> /\ Head(queue) = "update" /\ handler = "off"
  /\ handler' = "shown"
  /\ queue' = Tail(queue)
  /\ failed' = (failed \/ ~pending \/ ~current \/ dialog = "none")
  /\ UNCHANGED <<confirm, question, dialog, jobs, thread, cancelled, trash, shared>>

(* The rest of it, step by step                                            *)
ClearFile ==
  /\ handler = "shown"
  /\ handler' = "cleared"
  /\ current' = FALSE
  /\ UNCHANGED <<confirm, question, dialog, jobs, thread, cancelled, trash, pending, report, total, queue, failed>>

ClearPending ==
  /\ handler = "cleared"
  /\ handler' = "off"
  /\ pending' = FALSE
  /\ UNCHANGED <<confirm, question, dialog, jobs, thread, cancelled, trash, current, report, total, queue, failed>>

(* trash_empty_done                                                        *)
Done ==
  /\ queue # <<>> /\ Head(queue) = "done" /\ handler = "off"
  /\ queue' = Tail(queue)
  /\ failed' = (failed \/ dialog = "none")
  /\ dialog' = "none"
  /\ UNCHANGED <<confirm, question, jobs, thread, cancelled, trash, shared, handler>>

(* trash_empty_start                                                       *)
Begin ==
  /\ jobs' = jobs + 1
  /\ dialog' = "shown"
  /\ failed' = (failed \/ phase # "off" \/ dialog # "none")
  /\ phase' = "count" /\ step' = "next" /\ left' = files /\ deleted' = 0
  /\ cancelled' = FALSE

(* csd_ldsm_trash_empty, trash_empty_show_confirmation_dialog: a dialog    *)
(* that is there is only presented.                                        *)
TrashEmpty ==
  /\ handler = "off" /\ jobs < MaxJobs
  /\ IF question \/ dialog # "none"
       THEN UNCHANGED <<question, dialog, jobs, thread, cancelled, failed>>
       ELSE IF confirm
       THEN question' = TRUE /\ UNCHANGED <<dialog, jobs, thread, cancelled, failed>>
       ELSE Begin /\ UNCHANGED question
  /\ UNCHANGED <<confirm, trash, shared, queue, handler>>

(* trash_empty_confirmation_response                                       *)
ConfirmationResponse(yes) ==
  /\ question /\ handler = "off"
  /\ question' = FALSE
  /\ IF yes THEN Begin ELSE UNCHANGED <<dialog, jobs, thread, cancelled, failed>>
  /\ UNCHANGED <<confirm, trash, shared, queue, handler>>

(* The user cancels, or closes the dialog, which takes it away.            *)
Cancel(closes) ==
  /\ dialog = "shown" /\ handler = "off"
  /\ cancelled' = TRUE
  /\ dialog' = IF closes THEN "closed" ELSE "shown"
  /\ UNCHANGED <<confirm, question, jobs, thread, trash, shared, queue, handler, failed>>

(* The user moves a file to the trash, or wants to be asked or not.        *)
AddFile ==
  /\ ~grown /\ files < MaxFiles
  /\ files' = files + 1
  /\ grown' = TRUE
  /\ UNCHANGED <<confirm, question, dialog, jobs, thread, cancelled, shared, queue, handler, failed>>

ChangeConfirm ==
  /\ confirm' = ~confirm
  /\ UNCHANGED <<question, dialog, jobs, thread, cancelled, trash, shared, queue, handler, failed>>

Next ==
  \/ Thread \/ ShowUpdate \/ ClearFile \/ ClearPending \/ Done
  \/ TrashEmpty \/ AddFile \/ ChangeConfirm
  \/ \E yes \in BOOLEAN : ConfirmationResponse(yes) \/ Cancel(yes)

Spec == Init /\ [][Next]_vars

-----------------------------------------------------------------------------
(* The thread and the main loop never meet over the file that is reported: *)
(* neither the assertions of the two fail nor is there an update without a *)
(* file; and there is one thread, which reports to a dialog.               *)
UpdatesFindFiles == ~failed

(* What is shown of the deletion is a part of something, unless the trash  *)
(* was empty when it was counted and was filled meanwhile.                 *)
FractionIsDefined == handler = "shown" /\ report.deleting /\ report.deleted <= total /\ ~grown => total > 0

Updating == step \in {"fill", "raise", "send"}
Queued   == queue \in {<<"update">>, <<"update", "done">>}
Shown    == handler # "off"

Types ==
  /\ phase \in {"off", "count", "delete"}
  /\ step \in {"next", "fill", "raise", "send", "remove"}
  /\ handler \in {"off", "shown", "cleared"}
  /\ dialog \in {"none", "shown", "closed"}
  /\ pending \in BOOLEAN /\ current \in BOOLEAN /\ question \in BOOLEAN /\ failed \in BOOLEAN

(* The report is in one place: the thread's, on its way, or the main       *)
(* loop's.  The flag is up and the file there accordingly.                 *)
OneReport ==
  /\ ~(Updating /\ Queued) /\ ~(Updating /\ Shown) /\ ~(Queued /\ Shown)
  /\ pending = (step = "send" \/ Queued \/ Shown)
  /\ current = (step \in {"raise", "send"} \/ Queued \/ handler = "shown")

(* There is a dialog as long as there is a thread or it has something to   *)
(* say, and the thread's last word comes last.                             *)
DialogIsThere ==
  /\ queue \in {<<>>, <<"update">>, <<"done">>, <<"update", "done">>}
  /\ phase # "off" => queue \in {<<>>, <<"update">>} /\ dialog # "none"
  /\ phase = "off" => step = "next"
  /\ dialog = "none" => queue = <<>> /\ handler = "off"
  /\ question => dialog = "none"

(* Unless files were added meanwhile all files are counted, and none is    *)
(* deleted, nor said to be, if there was none.                             *)
AllAreCounted ==
  /\ files \in Nat /\ left \in Nat /\ deleted \in Nat /\ total \in Nat
  /\ ~grown =>
       /\ phase = "count" => deleted + left + (IF step = "next" THEN 0 ELSE 1) = files
       /\ phase = "delete" /\ (step # "next" \/ (left > 0 /\ ~cancelled)) => total > 0
       /\ current /\ step # "fill" /\ report.deleting => phase # "count" /\ total > 0

=============================================================================
