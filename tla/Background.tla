----------------------------- MODULE Background -----------------------------
(***************************************************************************)
(* The background plugin                                                   *)
(* (plugins/background/csd_background-manager.c): it draws the background  *)
(* of the desktop unless the file manager, Baul, does.  Whether it may and *)
(* whether Baul may is read from the settings at the start, and when they  *)
(* change while a background is set up.                                    *)
(***************************************************************************)
EXTENDS Naturals

CONSTANTS
  MaxStarts, \* bound on the starts of the plugin
  MaxChanges \* bound on the starts and the changes of settings, Baul and the screen

VARIABLES
  on, begun,  \* activated; starts so far
  may,        \* the settings: who may draw, out of "csd" and "baul"
  mayknown,   \* csd_can_draw, baul_can_draw
  unheard,    \* keys whose change is yet to be signalled
  hasopts,    \* settings is there
  bg,         \* bg is set up
  baul,       \* Baul's desktop window is there
  session,    \* the session is running
  proxy,      \* of the session manager: "none", "listening", "there", or "stale", which was released
  timer,      \* timeout_id: the background will be set up
  loads,      \* idle callbacks that will load the preferences
  painting,   \* the background is yet to be drawn
  size,       \* of the screen
  resized,    \* a change of it is yet to be signalled
  painted,    \* the size the background was drawn for, or 0
  given,      \* history: the background was left to Baul, or none was wanted at the start
  changes     \* number of changes so far

vars == <<on, begun, may, mayknown, unheard, hasopts, bg, baul, session, proxy, timer, loads, painting,
          size, resized, painted, given, changes>>

Init ==
  /\ on = FALSE /\ begun = 0
  /\ may \in SUBSET {"csd", "baul"} /\ mayknown = {} /\ unheard = {}
  /\ hasopts = FALSE /\ bg = FALSE
  /\ baul \in BOOLEAN /\ session \in BOOLEAN
  /\ proxy = "none" /\ timer = FALSE /\ loads = 0
  /\ painting = FALSE /\ size = 1 /\ resized = FALSE /\ painted = 0
  /\ given = FALSE
  /\ changes = 0

-----------------------------------------------------------------------------
(* baul_is_drawing_bg, by what is known of the settings                    *)
BaulIsDrawing == "baul" \in mayknown' /\ baul

(* setup_background, which does nothing if there is one                    *)
SetupBackground ==
  /\ bg' = TRUE
  /\ painting' = TRUE

(* remove_background: the settings are released, too                       *)
RemoveBackground ==
  /\ bg' = FALSE
  /\ hasopts' = FALSE
  /\ painting' = FALSE
  /\ resized' = FALSE
  /\ painted' = 0
  /\ unheard' = {}

(* csd_background_manager_start, draw_bg_after_session_loads: the session  *)
(* manager may be out of reach.                                            *)
Start ==
  /\ ~on /\ begun < MaxStarts
  /\ on' = TRUE
  /\ begun' = begun + 1
  /\ hasopts' = TRUE
  /\ mayknown' = may
  /\ IF may = {"csd"} THEN SetupBackground ELSE UNCHANGED <<bg, painting>>
  /\ \/ may = {"csd", "baul"} /\ proxy' = "listening" /\ given' = session
     \/ may = {"csd", "baul"} /\ proxy' = "none" /\ given' = TRUE
     \/ may # {"csd", "baul"} /\ proxy' = proxy /\ given' = ("csd" \notin may)
  /\ UNCHANGED <<may, unheard, baul, session, timer, loads, size, resized, painted, changes>>

(* on_session_manager_signal, queue_timeout                                *)
SessionRunning ==
  /\ ~session
  /\ session' = TRUE
  /\ IF proxy = "listening" THEN timer' = TRUE /\ proxy' = "there" ELSE UNCHANGED <<timer, proxy>>
  /\ UNCHANGED <<on, begun, may, mayknown, unheard, hasopts, bg, baul, loads, painting, size, resized,
                 painted, given, changes>>

(* queue_setup_background                                                  *)
QueueSetupBackground ==
  /\ timer
  /\ timer' = FALSE
  /\ IF ~bg /\ hasopts THEN SetupBackground ELSE UNCHANGED <<bg, painting>>
  /\ UNCHANGED <<on, begun, may, mayknown, unheard, hasopts, baul, session, proxy, loads, size, resized,
                 painted, given, changes>>

Changing ==
  /\ begun > 0 /\ begun + changes < MaxChanges
  /\ changes' = changes + 1

(* The user changes who may draw.                                          *)
ChangeMay(who) ==
  /\ Changing
  /\ may' = IF who \in may THEN may \ {who} ELSE may \cup {who}
  /\ unheard' = IF hasopts THEN unheard \cup {who} ELSE {}
  /\ UNCHANGED <<on, begun, mayknown, hasopts, bg, baul, session, proxy, timer, loads, painting, size, resized,
                 painted, given>>

(* settings_change_event_cb, if there is a background, and then            *)
(* on_bg_handling_changed                                                  *)
HandlingChanged(who) ==
  /\ who \in unheard /\ hasopts
  /\ mayknown' = IF bg THEN may ELSE mayknown
  /\ loads' = IF bg /\ "csd" \in mayknown' /\ ~BaulIsDrawing /\ loads < 2 THEN loads + 1 ELSE loads
  /\ IF BaulIsDrawing /\ bg
       THEN RemoveBackground /\ given' = TRUE
       ELSE /\ unheard' = unheard \ {who}
            /\ IF ~BaulIsDrawing /\ "csd" \in mayknown' /\ ~bg THEN SetupBackground
               ELSE UNCHANGED <<bg, painting>>
            /\ UNCHANGED <<hasopts, resized, painted, given>>
  /\ UNCHANGED <<on, begun, may, baul, session, proxy, timer, size, changes>>

(* settings_change_event_idle_cb: the background may be gone by then.      *)
LoadPreferences ==
  /\ loads > 0
  /\ loads' = loads - 1
  /\ painting' = (painting \/ bg)
  /\ UNCHANGED <<on, begun, may, mayknown, unheard, hasopts, bg, baul, session, proxy, timer, size, resized,
                 painted, given, changes>>

(* on_bg_changed, on_bg_transitioned, draw_background                      *)
BgChanged ==
  /\ painting /\ bg
  /\ painting' = FALSE
  /\ mayknown' = mayknown
  /\ painted' = IF "csd" \in mayknown /\ ~BaulIsDrawing THEN size ELSE painted
  /\ given' = (given \/ BaulIsDrawing)
  /\ UNCHANGED <<on, begun, may, unheard, hasopts, bg, baul, session, proxy, timer, loads, size, resized,
                 changes>>

BaulComesOrGoes ==
  /\ Changing
  /\ baul' = ~baul
  /\ UNCHANGED <<on, begun, may, mayknown, unheard, hasopts, bg, session, proxy, timer, loads, painting, size,
                 resized, painted, given>>

ResizeScreen ==
  /\ Changing
  /\ size' = 3 - size
  /\ resized' = bg
  /\ UNCHANGED <<on, begun, may, mayknown, unheard, hasopts, bg, baul, session, proxy, timer, loads, painting,
                 painted, given>>

(* on_screen_size_changed                                                  *)
ScreenSizeChanged ==
  /\ resized
  /\ resized' = FALSE
  /\ mayknown' = mayknown
  /\ painted' = IF "csd" \in mayknown /\ ~BaulIsDrawing THEN size ELSE painted
  /\ given' = (given \/ BaulIsDrawing)
  /\ UNCHANGED <<on, begun, may, unheard, hasopts, bg, baul, session, proxy, timer, loads, painting, size,
                 changes>>

(* csd_background_manager_stop, disconnect_session_manager_listener: the   *)
(* pointer to the proxy is kept.                                           *)
Stop ==
  /\ on
  /\ on' = FALSE
  /\ timer' = FALSE
  /\ proxy' = IF proxy = "none" THEN "none" ELSE "stale"
  /\ RemoveBackground
  /\ UNCHANGED <<begun, may, mayknown, baul, session, loads, size, given, changes>>

Next ==
  \/ Start \/ Stop \/ SessionRunning \/ QueueSetupBackground
  \/ \E who \in {"csd", "baul"} : ChangeMay(who) \/ HandlingChanged(who)
  \/ LoadPreferences \/ BgChanged \/ BaulComesOrGoes \/ ResizeScreen \/ ScreenSizeChanged

Spec == Init /\ [][Next]_vars

-----------------------------------------------------------------------------
(* What the plugin holds.                                                  *)
Held == (IF hasopts THEN {"settings"} ELSE {}) \cup (IF bg THEN {"background"} ELSE {})
        \cup (IF timer THEN {"timer"} ELSE {})

(* A stopped plugin has no settings, no background and no timer, and no    *)
(* proxy that would set one.                                               *)
LetGo == ~on => ~hasopts /\ ~bg /\ ~timer /\ proxy # "listening"

(* Once the session is up and all is quiet there is a background, of the   *)
(* size of the screen, if this plugin may draw and Baul does not, unless   *)
(* none was wanted when the plugin started, or it was left to Baul, after  *)
(* which the plugin hears of no change.                                    *)
BackgroundIsDrawn ==
  on /\ session /\ ~timer /\ ~painting /\ ~resized /\ unheard = {} /\ loads = 0 /\ ~given
  /\ "csd" \in may /\ ~("baul" \in may /\ baul)
    => bg /\ painted = size

(* What it rests on as long as the background is not left to Baul: there   *)
(* is one, or the session manager or the timer will set one up; it has the *)
(* size of the screen, or will be drawn; and the plugin knows that it may  *)
(* draw, or is yet to be told.                                             *)
BackgroundIsDue ==
  /\ hasopts
  /\ ~bg => ((proxy = "listening" /\ ~session) \/ timer) /\ "csd" \in mayknown
  /\ bg /\ painted # size /\ "csd" \in mayknown => painting \/ loads > 0 \/ resized
  /\ bg /\ unheard = {} /\ "csd" \in may => "csd" \in mayknown

(* Who may be named, and that loads are counted.                           *)
BackgroundTypes == may \subseteq {"csd", "baul"} /\ loads \in Nat

=============================================================================
