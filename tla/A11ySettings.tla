---------------------------- MODULE A11ySettings ----------------------------
(***************************************************************************)
(* The a11y-settings plugin                                                *)
(* (plugins/a11y-settings/csd_a11y-settings-manager.c): accessibility is   *)
(* switched on for the toolkits as long as the screen reader or the        *)
(* on-screen keyboard is.                                                  *)
(***************************************************************************)
EXTENDS Naturals

CONSTANTS
  MaxStarts \* bound on the starts of the plugin

VARIABLES
  on, begun,     \* activated; starts so far
  hasopts,       \* interface_settings and a11y_apps_settings are there
  apps,          \* which of the two are enabled
  accessibility, \* the setting of the toolkits
  told,          \* changes of the two that are yet to be signalled
  overruled      \* history: the user set accessibility since

vars == <<on, begun, hasopts, apps, accessibility, told, overruled>>

Wanting == {"screen-reader-enabled", "screen-keyboard-enabled"}

Init ==
  /\ on = FALSE /\ begun = 0 /\ hasopts = FALSE
  /\ apps \in SUBSET Wanting
  /\ accessibility \in BOOLEAN
  /\ told = {}
  /\ overruled = TRUE

-----------------------------------------------------------------------------
(* csd_a11y_settings_manager_start, which never switches it off            *)
Start ==
  /\ ~on /\ begun < MaxStarts
  /\ on' = TRUE
  /\ begun' = begun + 1
  /\ hasopts' = TRUE
  /\ accessibility' = (accessibility \/ apps # {})
  /\ overruled' = (apps = {})
  /\ UNCHANGED <<apps, told>>

ChangeApp(app) ==
  /\ apps' = IF app \in apps THEN apps \ {app} ELSE apps \cup {app}
  /\ told' = IF hasopts THEN told \cup {app} ELSE {}
  /\ overruled' = (overruled \/ ~hasopts)
  /\ UNCHANGED <<on, begun, hasopts, accessibility>>

(* The user switches accessibility himself.                                *)
Overrule ==
  /\ accessibility' = ~accessibility
  /\ overruled' = TRUE
  /\ UNCHANGED <<on, begun, hasopts, apps, told>>

(* Mutant: each of the two sets what it is.                                *)
AppsSettingsChangedAlone(app) ==
  /\ app \in told
  /\ told' = told \ {app}
  /\ accessibility' = (app \in apps)
  /\ overruled' = FALSE
  /\ UNCHANGED <<on, begun, hasopts, apps>>

(* apps_settings_changed                                                   *)
AppsSettingsChanged(app) ==
  /\ app \in told
  /\ told' = told \ {app}
  /\ accessibility' = (apps # {})
  /\ overruled' = FALSE
  /\ UNCHANGED <<on, begun, hasopts, apps>>

(* csd_a11y_settings_manager_stop                                          *)
Stop ==
  /\ on
  /\ on' = FALSE
  /\ hasopts' = FALSE
  /\ told' = {}
  /\ UNCHANGED <<begun, apps, accessibility, overruled>>

Next ==
  \/ Start \/ Overrule \/ Stop
  \/ \E app \in Wanting : ChangeApp(app) \/ AppsSettingsChanged(app)

Spec == Init /\ [][Next]_vars

-----------------------------------------------------------------------------
(* What the plugin holds.                                                  *)
Held == IF hasopts THEN {"settings"} ELSE {}

(* A stopped plugin holds no settings.                                     *)
LetGo == ~on => ~hasopts

(* Once all is quiet accessibility is on exactly if one of the two is,     *)
(* unless the user said otherwise since; and it is not taken from one      *)
(* because the other was disabled.                                         *)
AccessibilityFollowsApps ==
  on /\ told = {} /\ ~overruled => (accessibility <=> apps # {})

(* It rests on this: whoever is activated has the settings.                *)
SettingsAreThere == on => hasopts

=============================================================================
