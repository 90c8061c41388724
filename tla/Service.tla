------------------------------ MODULE Service ------------------------------
(***************************************************************************)
(* What a plugin of the desktop promises the daemon, which activates and   *)
(* deactivates it (cafe-settings-plugin.h: activate, deactivate): it may   *)
(* take hold of timers, handlers, programs and the like while it is        *)
(* active, and has let go of all of them when it is not.  The promise ends *)
(* when a start that was left to an idle callback or to an answer is       *)
(* overtaken by a stop, or comes on top of another, which the plugins that *)
(* start this way do not guard against.                                    *)
(***************************************************************************)
VARIABLES
  on,   \* the plugin is activated
  held, \* what it holds
  late  \* a start came late, or will

vars == <<on, held, late>>

Init == on = FALSE /\ held = {} /\ late = FALSE

Activate == ~on /\ on' /\ (late => late')

Deactivate == on /\ ~on' /\ (late => late') /\ (late' \/ held' = {})

(* What happens while it is active, and what is left to happen after, from *)
(* which it gets no hold of anything.                                      *)
Work == on' = on /\ (late => late') /\ (on \/ late' \/ held' = {})

Next == Activate \/ Deactivate \/ Work

Spec == Init /\ [][Next]_vars

=============================================================================
