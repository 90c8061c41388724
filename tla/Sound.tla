------------------------------- MODULE Sound -------------------------------
(***************************************************************************)
(* The sound plugin (plugins/sound/csd_sound-manager.c): drops the sounds  *)
(* of the theme from the cache of the sound server half a second after     *)
(* the last change of the theme or of a directory of themes.               *)
(***************************************************************************)
EXTENDS Naturals

CONSTANTS
  Themed,    \* samples that carry the name of an event
  Other,     \* samples that do not
  MaxStarts  \* bound on the starts of the plugin

VARIABLES
  on, begun, \* activated; starts so far
  hasopts,   \* settings is there
  watched,   \* what has a monitor in monitors: directories of themes
  cached,    \* samples the server holds
  outdated,  \* those of a theme that is no longer
  signals,   \* what changed and is yet to be signalled
  timer,     \* timeout
  unreached  \* history: a change no flush has to make up for

vars == <<on, begun, hasopts, watched, cached, outdated, signals, timer, unreached>>

Directory == {"home", "global"}

Init ==
  /\ on = FALSE /\ begun = 0
  /\ hasopts = FALSE /\ watched = {}
  /\ cached = {} /\ outdated = {}
  /\ signals = {} /\ timer = FALSE
  /\ unreached = FALSE

-----------------------------------------------------------------------------
(* csd_sound_manager_start, register_directory_callback: not every         *)
(* directory can be watched.                                               *)
Start ==
  /\ ~on /\ begun < MaxStarts
  /\ on' = TRUE
  /\ begun' = begun + 1
  /\ hasopts' = TRUE
  /\ watched' \in SUBSET Directory
  /\ UNCHANGED <<cached, outdated, signals, timer, unreached>>

(* An application plays a sound.                                           *)
Play(s) ==
  /\ cached' = cached \cup {s}
  /\ UNCHANGED <<on, begun, hasopts, watched, outdated, signals, timer, unreached>>

(* The user chooses a theme, or the files of a theme change.               *)
ChangeTheme(where) ==
  /\ outdated' = cached \cap Themed
  /\ IF (where = "settings" /\ hasopts) \/ where \in watched
       THEN signals' = signals \cup {where} /\ UNCHANGED unreached
       ELSE unreached' = TRUE /\ UNCHANGED signals
  /\ UNCHANGED <<on, begun, hasopts, watched, cached, timer>>

(* Mutant: a change while the timer waits starts no other.                 *)
TriggerFlushOnce == timer' = ~timer

(* trigger_flush: the timer starts over.                                   *)
TriggerFlush == timer' = TRUE

(* gsettings_notify_cb, file_monitor_changed_cb                            *)
Notified(where) ==
  /\ where \in signals
  /\ signals' = signals \ {where}
  /\ TriggerFlush
  /\ UNCHANGED <<on, begun, hasopts, watched, cached, outdated, unreached>>

(* flush_cache, sample_info_cb: what may be dropped, of which the server   *)
(* may refuse some.                                                        *)
FlushCache(refused) ==
  /\ cached' = (cached \ Themed) \cup refused
  /\ outdated' = outdated \cap refused
  /\ unreached' = (outdated' # {})

(* flush_cb, which is not tried again if the server is out of reach        *)
FlushCb ==
  /\ timer
  /\ timer' = FALSE
  /\ \/ \E refused \in SUBSET (cached \cap Themed) : FlushCache(refused)
     \/ unreached' = TRUE /\ UNCHANGED <<cached, outdated>>
  /\ UNCHANGED <<on, begun, hasopts, watched, signals>>

(* csd_sound_manager_stop: what the timer waited for is not flushed.       *)
Stop ==
  /\ on
  /\ on' = FALSE
  /\ hasopts' = FALSE
  /\ watched' = {}
  /\ signals' = {}
  /\ timer' = FALSE
  /\ unreached' = (unreached \/ timer \/ signals # {})
  /\ UNCHANGED <<begun, cached, outdated>>

Next ==
  \/ Start \/ FlushCb \/ Stop
  \/ \E s \in Themed \cup Other : Play(s)
  \/ \E where \in {"settings"} \cup Directory : ChangeTheme(where) \/ Notified(where)

Spec == Init /\ [][Next]_vars

-----------------------------------------------------------------------------
(* What the plugin holds.                                                  *)
Held == (IF hasopts THEN {"settings"} ELSE {}) \cup (IF watched # {} THEN {"monitors"} ELSE {})
        \cup (IF timer THEN {"timer"} ELSE {})

(* A stopped plugin has no settings, no monitors and no timer, and nothing *)
(* it is yet to be told that would set one.                                *)
LetGo == ~on => ~hasopts /\ watched = {} /\ ~timer /\ signals = {}

(* Once all is quiet the server holds no sound of a theme that is no       *)
(* longer, unless it was out of reach, or something was not watched or the *)
(* plugin stopped in the meantime.                                         *)
OldSoundsAreDropped == signals = {} /\ ~timer /\ ~unreached => outdated = {}

=============================================================================
