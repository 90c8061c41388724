---------------------------- MODULE A11yKeyboard ----------------------------
(***************************************************************************)
(* The a11y-keyboard plugin                                                *)
(* (plugins/a11y-keyboard/csd_a11y-keyboard-manager.c): the settings of    *)
(* keyboard accessibility and the controls of the X server, each of which  *)
(* is written when the other changes, and the questions that are asked     *)
(* when the keyboard's shortcuts turn slow or sticky keys on or off.       *)
(*                                                                         *)
(* A feature stands for its control bit and one of its options.  What this *)
(* program writes to the settings is signalled to it at once, what others  *)
(* write later.                                                            *)
(***************************************************************************)
EXTENDS Integers, FiniteSets, Sequences

CONSTANTS
  MaxStarts,  \* bound on the starts of the plugin
  MaxChanges, \* bound on the starts and the changes of settings and controls
  MaxNotes    \* bound on the notifications

VARIABLES
  on, begun, idles, \* activated; starts so far; starts that are queued
  late,       \* history: a queued start ran after a stop, or on top of another
  xkb,        \* the server has the extension
  access,     \* the settings
  controls,   \* of the server
  hasopts,    \* priv->settings is there
  listening,  \* settings objects that call the manager
  untold,    \* a change of the settings is yet to be signalled
  filtered,   \* how often the two event filters are installed
  unread,     \* a ControlsNotify event is yet to be handled
  present,    \* a DeviceEnabled event is
  original,   \* original_xkb_desc, or None
  icon,       \* the status icon: "none", "hidden" or "shown"
  alert,      \* for slow and sticky keys, what the alert asks, or "none"
  shortcut,   \* slowkeys_shortcut_val, stickykeys_shortcut_val
  note,       \* notification, or 0
  notes,      \* what each notification so far was about
  alive,      \* notifications whose object was not released
  screen,     \* notifications that are on the screen
  closing,    \* notifications whose end is yet to be signalled
  before,     \* history: the controls before the start, or None once they were changed since the stop
  changes     \* number of changes so far

questions == <<alert, shortcut, note, notes, alive, screen, closing>>
vars == <<on, begun, idles, late, xkb, access, controls, hasopts, listening, untold, filtered,
          unread, present, original, icon, questions, before, changes>>

None == [none |-> TRUE]

Shortcut == {"slow", "sticky"}
Feature == {"bounce", "mouse"} \cup Shortcut

(* Delays, and the speed of the mouse keys, which the server has in pixels *)
(* per event of a tenth of a second.                                       *)
Option(f) == IF f = "mouse" THEN {5, 20} ELSE IF f = "slow" THEN {0, 600} ELSE {1}

Plain == [enable |-> FALSE, timeout |-> FALSE, ons |-> {}, option |-> [f \in Feature |-> 1]]

Init ==
  /\ on = FALSE /\ begun = 0 /\ idles = 0 /\ late = FALSE
  /\ xkb \in BOOLEAN
  /\ \E e \in BOOLEAN, ons \in {{}, {"slow"}, {"mouse", "sticky"}} :
       access = [Plain EXCEPT !.enable = e, !.ons = ons]
  /\ controls = Plain
  /\ hasopts = FALSE /\ listening = 0 /\ untold = FALSE /\ filtered = 0
  /\ unread = FALSE /\ present = FALSE
  /\ original = None /\ icon = "none"
  /\ alert = [f \in Shortcut |-> "none"] /\ shortcut = [f \in Shortcut |-> FALSE]
  /\ note = 0 /\ notes = <<>> /\ alive = {} /\ screen = {} /\ closing = {}
  /\ before = None
  /\ changes = 0

-----------------------------------------------------------------------------
(* get_int and what set_server_from_settings makes of it                   *)
Rounded(f, n) ==
  LET atleast(i, j) == IF i < j THEN j ELSE i
  IN CASE f = "mouse" -> atleast(atleast(n, 1) \div 10, 1)
       [] f = "slow"  -> IF n > 500 THEN 500 ELSE atleast(n, 1)
       [] OTHER       -> atleast(n, 1)

(* Mutant: controls are only ever turned on.                               *)
ServerOfOnlySetting(s, c) ==
  [enable |-> s.enable, timeout |-> s.timeout, ons |-> c.ons \cup s.ons,
   option |-> [f \in Feature |-> IF f \in s.ons THEN Rounded(f, s.option[f]) ELSE c.option[f]]]

(* set_server_from_settings: the options of what is off are left alone     *)
ServerOf(s, c) ==
  [enable |-> s.enable, timeout |-> s.timeout, ons |-> s.ons,
   option |-> [f \in Feature |-> IF f \in s.ons THEN Rounded(f, s.option[f]) ELSE c.option[f]]]

(* set_settings_from_server                                                *)
SettingsOf(c) ==
  [c EXCEPT !.option = [f \in Feature |-> IF f = "mouse" THEN 10 * c.option[f] ELSE c.option[f]]]

(* What is read of the settings s: nothing is on where there are none.     *)
Read(s) == IF hasopts THEN s ELSE Plain

SetServer(s) ==
  /\ controls' = ServerOf(s, controls)
  /\ unread' = (filtered > 0 /\ (unread \/ controls' # controls))

(* maybe_show_status_icon, csd_a11y_keyboard_manager_ensure_status_icon    *)
MaybeShowStatusIcon(s) ==
  icon' = IF s.enable THEN "shown" ELSE IF icon = "none" THEN "none" ELSE "hidden"

Touched == before' = IF on THEN before ELSE None

-----------------------------------------------------------------------------
(* csd_a11y_keyboard_manager_start                                         *)
Start ==
  /\ ~on /\ begun < MaxStarts
  /\ on' = TRUE
  /\ begun' = begun + 1
  /\ idles' = idles + 1
  /\ UNCHANGED <<late, xkb, access, controls, hasopts, listening, untold, filtered, unread,
                 present, original, icon, questions, before, changes>>

(* start_a11y_keyboard_idle_cb                                             *)
StartIdle ==
  /\ idles > 0
  /\ idles' = idles - 1
  /\ late' = (late \/ ~on \/ hasopts)
  /\ IF xkb
       THEN /\ hasopts' = TRUE
            /\ listening' = listening + 1
            /\ filtered' = filtered + 1
            /\ original' = controls
            /\ before' = IF late' THEN None ELSE controls
            /\ SetServer(access)
            /\ MaybeShowStatusIcon(access)
       ELSE UNCHANGED <<hasopts, listening, filtered, original, before, controls, unread, icon>>
  /\ UNCHANGED <<on, begun, xkb, access, untold, present, questions, changes>>

(* Someone else changes the settings.                                      *)
ChangeSettings ==
  /\ begun > 0 /\ begun + changes < MaxChanges
  /\ changes' = changes + 1
  /\ \/ access' = [access EXCEPT !.enable = ~@]
     \/ access' = [access EXCEPT !.timeout = ~@]
     \/ \E f \in Feature :
          \/ access' = [access EXCEPT !.ons = IF f \in @ THEN @ \ {f} ELSE @ \cup {f}]
          \/ \E v \in Option(f) : access' = [access EXCEPT !.option[f] = v]
  /\ untold' = (listening > 0)
  /\ UNCHANGED <<on, begun, idles, late, xkb, controls, hasopts, listening, filtered, unread,
                 present, original, icon, questions, before>>

(* keyboard_callback                                                       *)
KeyboardCallback ==
  /\ listening > 0 /\ untold
  /\ untold' = FALSE
  /\ SetServer(Read(access))
  /\ MaybeShowStatusIcon(Read(access))
  /\ Touched
  /\ UNCHANGED <<on, begun, idles, late, xkb, access, hasopts, listening, filtered, present,
                 original, questions, changes>>

(* The keyboard's shortcut for slow or sticky keys, or the timeout, which  *)
(* turns the shortcuts off.                                                *)
ServerChanges ==
  /\ controls.enable /\ begun + changes < MaxChanges
  /\ changes' = changes + 1
  /\ \/ controls.timeout /\ controls' = [controls EXCEPT !.enable = FALSE]
     \/ \E f \in Shortcut :
          controls' = [controls EXCEPT !.ons = IF f \in @ THEN @ \ {f} ELSE @ \cup {f}]
  /\ unread' = (filtered > 0)
  /\ Touched
  /\ UNCHANGED <<on, begun, idles, late, xkb, access, hasopts, listening, untold, filtered,
                 present, original, icon, questions>>

(* A keyboard is plugged in, with controls of its own.                     *)
Plug ==
  /\ begun > 0 /\ begun + changes < MaxChanges
  /\ changes' = changes + 1
  /\ controls' = Plain
  /\ present' = (filtered > 0)
  /\ Touched
  /\ UNCHANGED <<on, begun, idles, late, xkb, access, hasopts, listening, untold, filtered,
                 unread, original, icon, questions>>

(* devicepresence_filter                                                   *)
DevicePresence ==
  /\ present
  /\ present' = FALSE
  /\ SetServer(Read(access))
  /\ Touched
  /\ UNCHANGED <<on, begun, idles, late, xkb, access, hasopts, listening, untold, filtered,
                 original, icon, questions, changes>>

-----------------------------------------------------------------------------
(* ax_slowkeys_warning_post, ax_stickykeys_warning_post: a notification if *)
(* the icon is embedded, which closes the one there is and slow keys'      *)
(* alert, and an alert if there is no icon or no notification.  An alert   *)
(* that is there is shown again with what it asked.                        *)
Ask(f, enabled) ==
  LET asks == IF enabled THEN "activate" ELSE "deactivate"
      Post(alerts) == alert' = IF alerts[f] = "none" THEN [alerts EXCEPT ![f] = asks] ELSE alerts
      n == Len(notes) + 1
      bubbled == [alert EXCEPT !["slow"] = "none"]
  IN /\ shortcut' = [shortcut EXCEPT ![f] = enabled]
     /\ \/ Post(alert) /\ UNCHANGED <<note, notes, alive, screen, closing>>
        \/ /\ icon = "shown" /\ n <= MaxNotes
           /\ note' = n
           /\ notes' = Append(notes, f)
           /\ alive' = alive \cup {n}
           /\ closing' = closing \cup ({note} \cap screen)
           /\ \/ screen' = (screen \ {note}) \cup {n} /\ alert' = bubbled
              \/ screen' = screen \ {note} /\ Post(bubbled)

(* cb_xkb_event_filter: a change of slow or sticky keys and of nothing     *)
(* else is taken for a shortcut.                                           *)
XkbEventFilter ==
  LET seen  == SettingsOf(controls)
      flips == {f \in Shortcut : (f \in access.ons) # (f \in seen.ons)}
      rest(s) == [s EXCEPT !.ons = @ \ Shortcut]
  IN /\ unread
     /\ IF rest(seen) = rest(access) /\ Cardinality(flips) = 1 /\ controls.enable
          THEN \E f \in flips : Ask(f, f \in seen.ons)
          ELSE UNCHANGED questions
     /\ access' = seen
     /\ IF seen # access /\ listening > 0
          THEN /\ controls' = ServerOf(Read(seen), controls)
               /\ unread' = (controls' # controls)
               /\ MaybeShowStatusIcon(Read(seen))
               /\ Touched
          ELSE unread' = FALSE /\ UNCHANGED <<controls, icon, before>>
     /\ UNCHANGED <<on, begun, idles, late, xkb, hasopts, listening, untold, filtered, present,
                    original, changes>>

(* ax_response_callback: the answer to a question about f                  *)
Respond(f, revert) ==
  IF ~revert THEN UNCHANGED <<access, controls, unread, icon, before>>
  ELSE LET ons == IF shortcut[f] THEN access.ons \ {f} ELSE access.ons \cup {f}
       IN /\ access' = IF hasopts THEN [access EXCEPT !.ons = ons] ELSE access
          /\ SetServer(Read(access'))
          /\ IF access' # access THEN MaybeShowStatusIcon(access') ELSE UNCHANGED icon
          /\ Touched

(* ax_slowkeys_response, ax_stickykeys_response                            *)
AlertResponse(f, revert) ==
  /\ alert[f] # "none"
  /\ alert' = [alert EXCEPT ![f] = "none"]
  /\ Respond(f, revert)
  /\ UNCHANGED <<on, begun, idles, late, xkb, hasopts, listening, untold, filtered, present,
                 original, shortcut, note, notes, alive, screen, closing, changes>>

(* on_slow_keys_action, on_sticky_keys_action: the notification that is    *)
(* closed is the last                                                      *)
NoteAction(n, revert) ==
  /\ n \in screen \cap alive
  /\ Respond(notes[n], revert)
  /\ screen' = screen \ {n, note}
  /\ closing' = closing \cup {n} \cup ({note} \cap screen)
  /\ UNCHANGED <<on, begun, idles, late, xkb, hasopts, listening, untold, filtered, present,
                 original, alert, shortcut, note, notes, alive, changes>>

NoteExpires(n) ==
  /\ n \in screen
  /\ screen' = screen \ {n}
  /\ closing' = IF n \in alive THEN closing \cup {n} ELSE closing
  /\ UNCHANGED <<on, begun, idles, late, xkb, access, controls, hasopts, listening, untold, filtered,
                 unread, present, original, icon, alert, shortcut, note, notes, alive, before, changes>>

(* Mutant: the pointer is kept.                                            *)
NotificationClosedKept(n) ==
  /\ n \in closing
  /\ alive' = alive \ {note}
  /\ closing' = closing \ {n, note}
  /\ UNCHANGED <<on, begun, idles, late, xkb, access, controls, hasopts, listening, untold, filtered,
                 unread, present, original, icon, alert, shortcut, note, notes, screen, before, changes>>

(* on_notification_closed: releases the notification that is known, which  *)
(* need not be the one that was closed; that one is then never released.   *)
NotificationClosed(n) ==
  /\ n \in closing
  /\ alive' = alive \ {note}
  /\ closing' = closing \ {n, note}
  /\ note' = 0
  /\ UNCHANGED <<on, begun, idles, late, xkb, access, controls, hasopts, listening, untold, filtered,
                 unread, present, original, icon, alert, shortcut, notes, screen, before, changes>>

-----------------------------------------------------------------------------
(* csd_a11y_keyboard_manager_stop, restore_server_xkb_config: the          *)
(* notification is left                                                    *)
Stop ==
  /\ on
  /\ on' = FALSE
  /\ hasopts' = FALSE
  /\ listening' = IF hasopts THEN listening - 1 ELSE listening
  /\ untold' = (untold /\ listening' > 0)
  /\ filtered' = IF filtered > 0 THEN filtered - 1 ELSE 0
  /\ controls' = IF original = None THEN controls ELSE original
  /\ original' = None
  /\ unread' = (filtered' > 0 /\ (unread \/ controls' # controls))
  /\ present' = (filtered' > 0 /\ present)
  /\ icon' = IF icon = "none" THEN "none" ELSE "hidden"
  /\ alert' = [f \in Shortcut |-> "none"]
  /\ shortcut' = [f \in Shortcut |-> FALSE]
  /\ before' = IF original = None THEN None ELSE before
  /\ UNCHANGED <<begun, idles, late, xkb, access, note, notes, alive, screen, closing, changes>>

Next ==
  \/ Start \/ StartIdle \/ Stop
  \/ ChangeSettings \/ KeyboardCallback
  \/ ServerChanges \/ XkbEventFilter \/ Plug \/ DevicePresence
  \/ \E f \in Shortcut, r \in BOOLEAN : AlertResponse(f, r)
  \/ \E n \in 1..MaxNotes : NoteExpires(n) \/ NotificationClosed(n) \/ \E r \in BOOLEAN : NoteAction(n, r)

Spec == Init /\ [][Next]_vars

-----------------------------------------------------------------------------
(* What the plugin holds.                                                  *)
Held ==
  (IF hasopts \/ listening > 0 THEN {"settings"} ELSE {}) \cup (IF filtered > 0 THEN {"filter"} ELSE {})
  \cup (IF icon = "shown" THEN {"icon"} ELSE {}) \cup {f \in Shortcut : alert[f] # "none"}

(* As long as no start came late the settings are there only while the     *)
(* plugin is activated; with them, and only then, one handler of each kind *)
(* and the events it is told of; and only with them the icon is shown and  *)
(* a question asked.                                                       *)
LetGo ==
  ~late => /\ hasopts => on
           /\ listening = (IF hasopts THEN 1 ELSE 0)
           /\ filtered = listening
           /\ unread => filtered > 0
           /\ ~hasopts => icon # "shown" /\ \A f \in Shortcut : alert[f] = "none"

(* Once all is quiet the server and the settings agree, whichever of them  *)
(* changed first: on what is on, and on the options of that as rounded.    *)
ServerFollowsSettings ==
  on /\ ~late /\ hasopts /\ idles = 0 /\ ~untold /\ ~unread /\ ~present
    => /\ controls.enable = access.enable /\ controls.timeout = access.timeout
       /\ controls.ons = access.ons
       /\ \A f \in controls.ons : controls.option[f] = Rounded(f, access.option[f])

(* After a stop the controls are those from before the start, unless the   *)
(* server, or the answer to a question that is still there, changed them.  *)
ControlsAreRestored == ~on /\ before # None => controls = before

(* They rest on this: the two agree unless something is yet to be handled, *)
(* and a stop restores what was before the start.                          *)
ControlsAreSet ==
  /\ ~late /\ hasopts /\ ~untold /\ ~unread /\ ~present
       => /\ controls.enable = access.enable /\ controls.timeout = access.timeout
          /\ controls.ons = access.ons
          /\ \A f \in controls.ons : controls.option[f] = Rounded(f, access.option[f])
  /\ before # None /\ original # None => original = before

(* The settings, what the server can be set to, and what was asked about.  *)
Settings == [enable : BOOLEAN, timeout : BOOLEAN, ons : SUBSET Feature, option : [Feature -> Nat]]
Controls == {c \in Settings : \A f \in Feature : c.option[f] > 0 /\ (f = "slow" => c.option[f] <= 500)}
ControlTypes ==
  /\ access \in Settings /\ controls \in Controls /\ original \in Controls \cup {None}
  /\ notes \in Seq(Shortcut) /\ alive \subseteq DOMAIN notes

(* The notification that is known was not released.                        *)
NoteIsThere == note # 0 => note \in alive

=============================================================================
