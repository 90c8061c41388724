----------------------------- MODULE XSettings -----------------------------
(***************************************************************************)
(* The xsettings plugin (plugins/xsettings): what applications are told of *)
(* the settings, in a property of a window that owns the selection         *)
(* _XSETTINGS_S0.  Every setting is published with the serial of the       *)
(* publication in which it last changed.                                   *)
(*                                                                         *)
(* The table of translations is represented by one entry, the settings of  *)
(* the font rendering by the order of subpixels and the resolution, which  *)
(* is in dots per inch.                                                    *)
(***************************************************************************)
EXTENDS Integers

CONSTANTS
  MaxStarts,  \* bound on the starts of the plugin
  MaxChanges, \* bound on the starts and the changes of settings, monitor and fonts
  Lost        \* no value

VARIABLES
  on, begun, idles, \* activated; starts so far; starts of the fontconfig monitor that are queued
  late,      \* history: one of them ran after a stop, or on top of another
  prefs,     \* the settings
  display,   \* the primary monitor
  rival,     \* another program owns the selection
  running,   \* managers and the settings objects are there
  screened,  \* how often the handler of screen changes is connected
  unheard,   \* kinds of settings whose change is yet to be signalled
  resized,   \* a change of the screen is yet to be signalled
  factor,    \* window_scale
  store,     \* the static list: [value, serial] of each setting
  serial,    \* of the manager
  property,  \* of the window: [serial, store], or Lost
  handles,   \* monitors of fontconfig that run
  handle,    \* fontconfig_handle is one of them
  fonts,     \* timers of those that wait for quiescence
  icons,     \* show-desktop-icons
  offs, ons, \* timers that will turn that off and on
  meddled,   \* history: someone changed it while such a timer waited, or before
  crashed,   \* history: handlers that found no managers
  changes    \* number of changes so far

toggles == <<icons, offs, ons, meddled>>
fontvars == <<handles, handle, fonts>>
vars == <<on, begun, idles, late, prefs, display, rival, running, screened, unheard, resized, factor,
          store, serial, property, fontvars, toggles, crashed, changes>>

Name == {"theme", "cursor", "dpi", "unscaled", "scale", "rgba", "lcdfilter", "stamp"}

Full  == [width |-> 1920, height |-> 1080, mm |-> 520]
Dense == [width |-> 3840, height |-> 2160, mm |-> 340]
Coded == [width |-> 3840, height |-> 2160, mm |-> 160]

Init ==
  /\ on = FALSE /\ begun = 0 /\ idles = 0 /\ late = FALSE
  /\ \E f \in {0, 2}, d \in {0, 300} :
       prefs = [theme |-> "light", size |-> 24, factor |-> f, dpi |-> d, antialias |-> "rgba", order |-> "rgb"]
  /\ display \in {Full, Dense, Coded}
  /\ rival \in BOOLEAN
  /\ running = FALSE /\ screened = 0 /\ unheard = {} /\ resized = FALSE /\ factor = 0
  /\ store = [n \in Name |-> Lost] /\ serial = 0 /\ property = Lost
  /\ handles = 0 /\ handle = FALSE /\ fonts = 0
  /\ icons = TRUE /\ offs = 0 /\ ons = 0 /\ meddled = FALSE
  /\ crashed = {}
  /\ changes = 0

-----------------------------------------------------------------------------
Clamped(n) == IF n < 50 THEN 50 ELSE IF n > 500 THEN 500 ELSE n

(* get_window_scale_auto: 2 for a monitor that is high, whose size is not  *)
(* an aspect ratio, and that has more than 192 dots per inch               *)
WindowScaleAuto ==
  IF display.height < 1500 \/ display.mm = 160 THEN 1
  ELSE IF display.width * 254 > 1920 * display.mm THEN 2 ELSE 1

(* get_window_scale                                                        *)
WindowScale == IF prefs.factor = 0 THEN WindowScaleAuto ELSE prefs.factor

(* get_dpi_from_x_server: 96 if what it says is out of range               *)
ServerDpi ==
  LET dpi == (display.width * 254) \div (10 * display.mm)
  IN IF dpi \in 50..500 THEN dpi ELSE 96

(* xft_settings_get, get_dpi_from_gsettings_or_x_server                    *)
XftSettings ==
  LET dpi  == Clamped((IF prefs.dpi = 0 THEN ServerDpi ELSE prefs.dpi) * WindowScale)
      rgba == IF prefs.antialias # "rgba" THEN "none"
              ELSE IF prefs.order \in {"rgb", "bgr", "vbgr", "vrgb"} THEN prefs.order ELSE "rgb"
  IN [scale |-> WindowScale, dpi |-> dpi, unscaled |-> dpi \div WindowScale, rgba |-> rgba,
      lcdfilter |-> IF rgba = "rgb" THEN "lcddefault" ELSE "none",
      cursor |-> prefs.size * WindowScale]

(* Mutant: a setting has the serial of the publication before.             *)
SetSettingEarly(list, n, v, now) ==
  IF list[n] # Lost /\ list[n].value = v THEN list ELSE [list EXCEPT ![n] = [value |-> v, serial |-> now - 1]]

(* xsettings_manager_set_setting                                           *)
SetSetting(list, n, v, now) ==
  IF list[n] # Lost /\ list[n].value = v THEN list ELSE [list EXCEPT ![n] = [value |-> v, serial |-> now]]

(* xft_settings_set_xsettings                                              *)
SetXft(list, now) ==
  LET x == XftSettings
      s1 == SetSetting(SetSetting(list, "scale", x.scale, now), "unscaled", x.unscaled, now)
      s2 == SetSetting(SetSetting(s1, "dpi", x.dpi, now), "rgba", x.rgba, now)
  IN SetSetting(SetSetting(s2, "lcdfilter", x.lcdfilter, now), "cursor", x.cursor, now)

(* xsettings_manager_notify                                                *)
Notify(list, now) ==
  /\ store' = list
  /\ property' = [serial |-> now, store |-> list]
  /\ serial' = now + 1

(* scale_change_workarounds: not the first time, the window manager and    *)
(* the panel are restarted, and the icons of the desktop toggled.          *)
ScaleChangeWorkarounds ==
  LET toggled == factor \notin {0, WindowScale} /\ icons
  IN /\ factor' = WindowScale
     /\ offs' = IF toggled THEN offs + 1 ELSE offs
     /\ ons' = IF toggled THEN ons + 1 ELSE ons
     /\ UNCHANGED <<icons, meddled>>

-----------------------------------------------------------------------------
(* Mutant: what the translations wrote of the cursor comes last.           *)
StartedTranslatingLast ==
  LET list == SetXft(store, 0)
  IN SetSetting(SetSetting(list, "theme", prefs.theme, 0), "cursor", prefs.size, 0)

(* What cafe_xsettings_manager_start puts in the list: the translations,   *)
(* the unscaled size of the cursor among them, and then the rest           *)
Started ==
  LET list == SetSetting(SetSetting(store, "theme", prefs.theme, 0), "cursor", prefs.size, 0)
  IN SetXft(list, 0)

(* cafe_xsettings_manager_start: not while another program is the manager; *)
(* setup_xsettings_managers, start_fontconfig_monitor                      *)
Start ==
  /\ ~on /\ begun < MaxStarts
  /\ on' = TRUE
  /\ begun' = begun + 1
  /\ IF rival
       THEN UNCHANGED <<idles, running, screened, factor, store, serial, property, toggles>>
       ELSE /\ running' = TRUE
            /\ screened' = screened + 1
            /\ idles' = idles + 1
            /\ Notify(Started, 0)
            /\ ScaleChangeWorkarounds
  /\ UNCHANGED <<late, prefs, display, rival, unheard, resized, fontvars, crashed, changes>>

(* start_fontconfig_monitor_idle_cb, fontconfig_monitor_start              *)
StartFontconfigMonitor ==
  /\ idles > 0
  /\ idles' = idles - 1
  /\ late' = (late \/ ~running \/ handle)
  /\ handles' = handles + 1
  /\ handle' = TRUE
  /\ UNCHANGED <<on, begun, prefs, display, rival, running, screened, unheard, resized, factor, store,
                 serial, property, fonts, toggles, crashed, changes>>

Changing ==
  /\ begun > 0 /\ begun + changes < MaxChanges
  /\ changes' = changes + 1

(* Someone else changes the settings.                                      *)
ChangeSettings ==
  /\ Changing
  /\ \/ /\ prefs' = [prefs EXCEPT !.theme = "dark"]
        /\ unheard' = IF running THEN unheard \cup {"theme"} ELSE {}
     \/ /\ \/ prefs' = [prefs EXCEPT !.size = 32]
           \/ prefs' = [prefs EXCEPT !.factor = 1]
           \/ prefs' = [prefs EXCEPT !.order = "odd"]
           \/ prefs' = [prefs EXCEPT !.antialias = "none"]
        /\ unheard' = IF running THEN unheard \cup {"xft"} ELSE {}
  /\ UNCHANGED <<on, begun, idles, late, display, rival, running, screened, resized, factor, store, serial,
                 property, fontvars, toggles, crashed>>

(* xsettings_callback                                                      *)
XSettingsCallback ==
  /\ "theme" \in unheard
  /\ unheard' = unheard \ {"theme"}
  /\ Notify(SetSetting(store, "theme", prefs.theme, serial), serial)
  /\ UNCHANGED <<on, begun, idles, late, prefs, display, rival, running, screened, resized, factor, fontvars,
                 toggles, crashed, changes>>

(* xft_callback, which xsettings_callback calls for the cursor and the     *)
(* scale                                                                   *)
XftCallback ==
  /\ "xft" \in unheard
  /\ unheard' = unheard \ {"xft"}
  /\ Notify(SetXft(store, serial), serial)
  /\ ScaleChangeWorkarounds
  /\ UNCHANGED <<on, begun, idles, late, prefs, display, rival, running, screened, resized, fontvars,
                 crashed, changes>>

(* The screen changes.                                                     *)
ChangeScreen ==
  /\ Changing
  /\ display' \in {Full, Dense, Coded} \ {display}
  /\ resized' = (screened > 0)
  /\ UNCHANGED <<on, begun, idles, late, prefs, rival, running, screened, unheard, factor, store, serial,
                 property, fontvars, toggles, crashed>>

(* recalculate_scale_callback, which no stop disconnects.  Without         *)
(* settings g_settings_get_int returns -1, a scale that is never that of   *)
(* before, and the settings are given to managers that are not there.      *)
RecalculateScale ==
  /\ resized
  /\ resized' = FALSE
  /\ \/ /\ running /\ factor = WindowScale
        /\ UNCHANGED <<store, property, serial, factor, toggles, crashed>>
     \/ /\ running /\ factor # WindowScale
        /\ Notify(SetXft(store, serial), serial)
        /\ ScaleChangeWorkarounds
        /\ UNCHANGED crashed
     \/ /\ ~running
        /\ crashed' = crashed \cup {"screen"}
        /\ UNCHANGED <<store, property, serial, factor, toggles>>
  /\ UNCHANGED <<on, begun, idles, late, prefs, display, rival, running, screened, unheard, fontvars, changes>>

(* stuff_changed: a timer of each monitor waits for quiescence.            *)
FontsChange ==
  /\ Changing
  /\ fonts' = handles
  /\ UNCHANGED <<on, begun, idles, late, prefs, display, rival, running, screened, unheard, resized, factor,
                 store, serial, property, handles, handle, toggles, crashed>>

(* update of fontconfig-monitor.c, fontconfig_callback: if fontconfig is   *)
(* not up to date the monitors are made anew and the applications told.    *)
UpdateFonts ==
  /\ fonts > 0
  /\ fonts' = fonts - 1
  /\ \/ UNCHANGED <<store, property, serial, crashed>>
     \/ running /\ Notify(SetSetting(store, "stamp", serial, serial), serial) /\ UNCHANGED crashed
     \/ ~running /\ crashed' = crashed \cup {"fonts"} /\ UNCHANGED <<store, property, serial>>
  /\ UNCHANGED <<on, begun, idles, late, prefs, display, rival, running, screened, unheard, resized, factor,
                 handles, handle, toggles, changes>>

(* delayed_toggle_bg_draw: off after a second, on after another            *)
ToggleBgDraw ==
  /\ \/ offs > 0 /\ offs' = offs - 1 /\ icons' = FALSE /\ ons' = ons
     \/ ons > offs /\ ons' = ons - 1 /\ icons' = TRUE /\ offs' = offs
  /\ UNCHANGED <<on, begun, idles, late, prefs, display, rival, running, screened, unheard, resized, factor,
                 store, serial, property, fontvars, meddled, crashed, changes>>

(* The user hides the icons of the desktop.                                *)
HideIcons ==
  /\ Changing /\ icons
  /\ icons' = FALSE
  /\ meddled' = TRUE
  /\ UNCHANGED <<on, begun, idles, late, prefs, display, rival, running, screened, unheard, resized, factor,
                 store, serial, property, fontvars, offs, ons, crashed>>

(* Mutant: the timer of fontconfig is left.                                *)
StopForgettingTheTimer ==
  /\ on
  /\ on' = FALSE
  /\ running' = FALSE
  /\ unheard' = {}
  /\ property' = Lost
  /\ handles' = IF handle THEN handles - 1 ELSE handles
  /\ handle' = FALSE
  /\ UNCHANGED <<begun, idles, late, prefs, display, rival, screened, resized, factor, store, serial,
                 fonts, toggles, crashed, changes>>

(* cafe_xsettings_manager_stop, xsettings_manager_destroy,                 *)
(* fontconfig_monitor_stop: the static list stays.                         *)
Stop ==
  /\ on
  /\ on' = FALSE
  /\ running' = FALSE
  /\ unheard' = {}
  /\ property' = Lost
  /\ handles' = IF handle THEN handles - 1 ELSE handles
  /\ handle' = FALSE
  /\ fonts' = IF fonts > handles' THEN handles' ELSE fonts
  /\ UNCHANGED <<begun, idles, late, prefs, display, rival, screened, resized, factor, store, serial,
                 toggles, crashed, changes>>

Next ==
  \/ Start \/ StartFontconfigMonitor \/ Stop
  \/ ChangeSettings \/ XSettingsCallback \/ XftCallback \/ ChangeScreen \/ RecalculateScale
  \/ FontsChange \/ UpdateFonts \/ ToggleBgDraw \/ HideIcons

Spec == Init /\ [][Next]_vars

-----------------------------------------------------------------------------
(* What the plugin holds.                                                  *)
Held == (IF running THEN {"settings"} ELSE {}) \cup (IF handles > 0 THEN {"fonts"} ELSE {})

(* The managers are there only while the plugin is activated, and with     *)
(* them the property and what is to be signalled; as long as no start came *)
(* late the monitor of the fonts is theirs, and so are its timers.         *)
LetGo ==
  /\ running => on
  /\ property # Lost \/ unheard # {} => running
  /\ ~late => /\ handle => running
              /\ handles = (IF handle THEN 1 ELSE 0)
              /\ fonts \in 0..handles

(* Once all is quiet the applications are told what the settings and the   *)
(* screen ask for: the cursor and the resolution are those of the scale,   *)
(* whatever changed in which order.  A resolution that is taken from the   *)
(* screen is not followed while the scale stays the same.                  *)
PublishedFollowsSettings ==
  running /\ unheard = {} /\ ~resized
    => LET x == XftSettings
           v(n) == property.store[n].value
       IN /\ v("theme") = prefs.theme
          /\ v("scale") = x.scale /\ v("cursor") = x.cursor
          /\ v("rgba") = x.rgba /\ v("lcdfilter") = x.lcdfilter
          /\ prefs.dpi # 0 => v("dpi") = x.dpi /\ v("dpi") >= v("unscaled")

(* What a list says of the font rendering and the cursor by a scale.       *)
ListedBy(list, scale) ==
  LET v(n) == list[n].value
      dpi  == Clamped(prefs.dpi * scale)
  IN /\ scale \in {1, 2} /\ v("scale") = scale /\ v("cursor") = prefs.size * scale
     /\ v("rgba") = XftSettings.rgba /\ v("lcdfilter") = XftSettings.lcdfilter
     /\ prefs.dpi # 0 => v("dpi") = dpi /\ v("unscaled") = dpi \div scale

(* What PublishedFollowsSettings rests on while the managers are there:    *)
(* what has not changed since is in the list, by the scale of the last     *)
(* publication, which is that of the screen unless a change of it is yet   *)
(* to be handled.                                                          *)
ListFollowsSettings ==
  /\ screened > 0
  /\ property = [serial |-> serial - 1, store |-> store]
  /\ "theme" \notin unheard => store["theme"].value = prefs.theme
  /\ "xft" \notin unheard => ListedBy(store, factor) /\ (~resized => factor = WindowScale)

(* The settings, and the factor they may have.                             *)
SettingsTypes ==
  /\ {"theme", "size", "factor", "dpi", "antialias", "order"} \subseteq DOMAIN prefs
  /\ prefs.factor \in {0, 1, 2} /\ prefs.dpi \in Nat
  /\ screened \in Nat

(* The protocol of XSETTINGS: what changed from one publication to the     *)
(* next of the same manager has the serial of the later, which is greater. *)
SerialTellsChange ==
  property # Lost /\ property' # Lost
    => /\ property'.serial >= property.serial
       /\ \A n \in Name : LET old == property.store[n]
                              new == property'.store[n]
                          IN new # Lost /\ (old = Lost \/ old.value # new.value)
                               => new.serial = property'.serial

(* Timers are counted, and while the icons are hidden by one of them there *)
(* is another left that shows them.                                        *)
TimersAreCounted == offs \in Nat /\ ons \in Nat /\ offs <= ons /\ (~meddled /\ ~icons => offs < ons)

(* What is published is the list, with the serial before the next.         *)
ListIsPublished ==
  /\ DOMAIN store = Name /\ serial \in Nat
  /\ property # Lost => property = [serial |-> serial - 1, store |-> store]

(* The handlers of fontconfig find the managers, and once the timers are   *)
(* through the icons of the desktop are back.                              *)
FontsFindManagers == "fonts" \in crashed => late
IconsComeBack == offs = 0 /\ ons = 0 /\ ~meddled => icons

=============================================================================
