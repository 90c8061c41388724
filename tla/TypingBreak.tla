---------------------------- MODULE TypingBreak ----------------------------
(***************************************************************************)
(* The typing-break plugin                                                 *)
(* (plugins/typing-break/csd_typing-break-manager.c): a monitor process    *)
(* that is started three seconds after the plugin, or when the setting     *)
(* becomes true, and killed three seconds after it becomes false.          *)
(***************************************************************************)
EXTENDS Integers

CONSTANTS
  MaxStarts, \* bound on the starts of the plugin
  MaxKills   \* bound on the timers that kill at a time

VARIABLES
  on,       \* the plugin is activated
  begun,    \* number of starts so far
  enabled,  \* the setting
  unsaid,   \* a change of it is yet to be signalled
  setup,    \* setup_id: the delayed start waits
  killers,  \* timers that will run typing_break_timeout
  known,    \* typing_monitor_idle_id is one of them
  monitor,  \* "none" for typing_monitor_pid = 0, else what became of the child
  upset     \* history: what parts the monitor from the setting has happened

vars == <<on, begun, enabled, unsaid, setup, killers, known, monitor, upset>>

Init ==
  /\ on = FALSE
  /\ begun = 0
  /\ enabled \in BOOLEAN
  /\ unsaid = FALSE
  /\ setup = FALSE
  /\ killers = 0
  /\ known = FALSE
  /\ monitor = "none"
  /\ upset = FALSE

-----------------------------------------------------------------------------
(* Mutant: the timer that kills is not removed.                            *)
EnableForgettingTheTimer(astray) ==
  /\ known' = FALSE
  /\ killers' = killers
  /\ \/ monitor # "none" /\ monitor' = monitor
     \/ monitor = "none" /\ monitor' \in {"running", "none"}
  /\ upset' = (upset \/ astray \/ monitor' # "running")

(* setup_typing_break (TRUE): a child that was killed and is not reaped    *)
(* yet still counts as running, and the program may not be there.          *)
Enable(astray) ==
  /\ known' = FALSE
  /\ killers' = IF known THEN killers - 1 ELSE killers
  /\ \/ monitor # "none" /\ monitor' = monitor
     \/ monitor = "none" /\ monitor' \in {"running", "none"}
  /\ upset' = (upset \/ astray \/ monitor' # "running")

(* setup_typing_break (FALSE): the id of an earlier timer is overwritten   *)
Disable ==
  /\ IF monitor # "none"
       THEN /\ killers < MaxKills
            /\ killers' = killers + 1
            /\ known' = TRUE
            /\ upset' = (upset \/ killers > 0)
       ELSE UNCHANGED <<killers, known, upset>>
  /\ UNCHANGED monitor

(* csd_typing_break_manager_start                                          *)
Start ==
  /\ ~on /\ begun < MaxStarts
  /\ on' = TRUE
  /\ begun' = begun + 1
  /\ setup' = enabled
  /\ UNCHANGED <<enabled, unsaid, killers, known, monitor, upset>>

(* really_setup_typing_break, whatever the setting is by now               *)
ReallySetup ==
  /\ setup
  /\ setup' = FALSE
  /\ Enable(~enabled)
  /\ UNCHANGED <<on, begun, enabled, unsaid>>

ChangeEnabled ==
  /\ enabled' = ~enabled
  /\ unsaid' = on
  /\ UNCHANGED <<on, begun, setup, killers, known, monitor, upset>>

(* typing_break_enabled_callback                                           *)
EnabledCallback ==
  /\ on /\ unsaid
  /\ unsaid' = FALSE
  /\ IF enabled THEN Enable(FALSE) ELSE Disable
  /\ UNCHANGED <<on, begun, enabled, setup>>

(* typing_break_timeout, of the timer that is known or of a lost one       *)
Timeout ==
  /\ killers > 0
  /\ killers' = killers - 1
  /\ known' = FALSE
  /\ monitor' = IF monitor = "running" THEN "dead" ELSE monitor
  /\ UNCHANGED <<on, begun, enabled, unsaid, setup, upset>>

(* The monitor ends on its own.                                            *)
MonitorExits ==
  /\ monitor = "running"
  /\ monitor' = "dead"
  /\ upset' = TRUE
  /\ UNCHANGED <<on, begun, enabled, unsaid, setup, killers, known>>

(* child_watch                                                             *)
ChildWatch ==
  /\ monitor = "dead"
  /\ monitor' = "none"
  /\ UNCHANGED <<on, begun, enabled, unsaid, setup, killers, known, upset>>

(* csd_typing_break_manager_stop                                           *)
Stop ==
  /\ on
  /\ on' = FALSE
  /\ unsaid' = FALSE
  /\ setup' = FALSE
  /\ killers' = IF known THEN killers - 1 ELSE killers
  /\ known' = FALSE
  /\ monitor' = "none"
  /\ UNCHANGED <<begun, enabled, upset>>

Next ==
  \/ Start \/ ReallySetup \/ ChangeEnabled \/ EnabledCallback
  \/ Timeout \/ MonitorExits \/ ChildWatch \/ Stop

Spec == Init /\ [][Next]_vars

-----------------------------------------------------------------------------
(* What the plugin holds.                                                  *)
Held == (IF setup THEN {"timer"} ELSE {}) \cup (IF monitor # "none" THEN {"child"} ELSE {})
        \cup (IF known THEN {"killer"} ELSE {})

(* A stopped plugin has no delayed start, no child and no known timer.     *)
LetGo == ~on => ~setup /\ monitor = "none" /\ ~known

(* Once all is quiet the monitor runs exactly if it is enabled, unless it  *)
(* ended on its own or could not be started, was enabled in the moment     *)
(* between its end and its reaping, was disabled while the delayed start   *)
(* waited, or a second disabling lost the first one's timer.               *)
MonitorFollowsSetting ==
  on /\ ~unsaid /\ ~setup /\ killers = 0 /\ monitor # "dead" /\ ~upset
    => (monitor = "running" <=> enabled)

(* As long as nothing parted the child from the setting there is at most   *)
(* one timer that kills, and it is the known one.                          *)
OneKiller ==
  /\ killers \in Int
  /\ ~upset => (known => killers = 1) /\ (~known => killers = 0)

(* The child that runs is the one the setting asks for, or is about to be  *)
(* killed.                                                                 *)
ChildIsWanted ==
  on /\ ~upset /\ ~unsaid /\ ~setup
    => /\ enabled => monitor = "running" /\ ~known
       /\ ~enabled => monitor # "running" \/ known

(* What is told by flags.                                                  *)
Flags ==
  /\ on \in BOOLEAN /\ unsaid \in BOOLEAN /\ setup \in BOOLEAN
  /\ known \in BOOLEAN /\ upset \in BOOLEAN /\ enabled \in BOOLEAN

=============================================================================
