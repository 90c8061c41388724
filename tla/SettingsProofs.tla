-------------------------- MODULE SettingsProofs --------------------------
(***************************************************************************)
(* Proofs of what MCDesktop.tla says of the plugins that follow settings:  *)
(* once all is quiet, what a plugin makes of its settings is there.        *)
(* The argument is the same for each: what it sets follows a setting       *)
(* unless a change of it is yet to be handled, and each handler makes up   *)
(* for the change it was called for and spoils nothing else.               *)
(***************************************************************************)
EXTENDS DesktopProofs

(* Accessibility: a change that is signalled or made up for.               *)
LEMMA SwitchStep ==
  ASSUME AS!LetGo, AS!SettingsAreThere, AS!AccessibilityFollowsApps, [AS!Next]_AS!vars
  PROVE  AS!SettingsAreThere' /\ AS!AccessibilityFollowsApps'
<1> USE DEF AS!LetGo, AS!SettingsAreThere, AS!AccessibilityFollowsApps
<1>1. CASE AS!Start
  BY <1>1 DEF AS!Start
<1>2. ASSUME NEW app \in AS!Wanting, AS!ChangeApp(app)
      PROVE  AS!SettingsAreThere' /\ AS!AccessibilityFollowsApps'
  BY <1>2 DEF AS!ChangeApp
<1>3. ASSUME NEW app \in AS!Wanting, AS!AppsSettingsChanged(app)
      PROVE  AS!SettingsAreThere' /\ AS!AccessibilityFollowsApps'
  BY <1>3 DEF AS!AppsSettingsChanged
<1>4. CASE AS!Overrule \/ AS!Stop \/ UNCHANGED AS!vars
  BY <1>4 DEF AS!Overrule, AS!Stop, AS!vars
<1> QED
  BY <1>1, <1>2, <1>3, <1>4 DEF AS!Next

(* Sounds: a change is signalled, the timer waits, or nothing makes up for *)
(* it.                                                                     *)
LEMMA SoundStep == SO!OldSoundsAreDropped /\ [SO!Next]_SO!vars => SO!OldSoundsAreDropped'
<1> SUFFICES ASSUME SO!OldSoundsAreDropped, [SO!Next]_SO!vars PROVE SO!OldSoundsAreDropped'
  OBVIOUS
<1> USE DEF SO!OldSoundsAreDropped
<1>1. CASE SO!Start \/ SO!Stop \/ UNCHANGED SO!vars
  BY <1>1 DEF SO!Start, SO!Stop, SO!vars
<1>2. CASE SO!FlushCb
  BY <1>2 DEF SO!FlushCb, SO!FlushCache
<1>3. ASSUME NEW s, SO!Play(s) PROVE SO!OldSoundsAreDropped'
  BY <1>3 DEF SO!Play
<1>4. ASSUME NEW where, SO!ChangeTheme(where) PROVE SO!OldSoundsAreDropped'
  BY <1>4 DEF SO!ChangeTheme
<1>5. ASSUME NEW where, SO!Notified(where) PROVE SO!OldSoundsAreDropped'
  BY <1>5 DEF SO!Notified, SO!TriggerFlush
<1> QED
  BY <1>1, <1>2, <1>3, <1>4, <1>5 DEF SO!Next

(* The circles: a frame is never drawn ahead of the time.                  *)
LEMMA CirclesStep ==
  ASSUME LP!CirclesEnd, LP!TimeIsCounted, [LP!Next]_LP!vars
  PROVE  LP!CirclesEnd' /\ LP!TimeIsCounted'
<1> USE DEF LP!CirclesEnd, LP!TimeIsCounted
<1>1. CASE LP!Press \/ LP!ReleaseOrOther
  BY <1>1 DEF LP!Press, LP!ReleaseOrOther
<1>2. CASE LP!CompositedChanged \/ LP!ChangeAnimations \/ UNCHANGED LP!vars
  BY <1>2 DEF LP!CompositedChanged, LP!ChangeAnimations, LP!vars
<1>3. CASE LP!EventFilter
  <2>1. x1' # "frozen" /\ (x2 = "release" \/ UNCHANGED <<x6, x7, x8, x10>>)
    BY <1>3 DEF LP!EventFilter
  <2>2. CASE x2 = "release" /\ x3
    BY <1>3, <2>1, <2>2 DEF LP!EventFilter, LP!Locate
  <2>3. CASE x2 = "release" /\ ~x3
    BY <1>3, <2>1, <2>3 DEF LP!EventFilter, LP!Locate
  <2> QED
    BY <2>1, <2>2, <2>3
<1>4. CASE LP!RunFrame
  <2>1. PICK now \in x7 + 1..x7 + 2 :
          LET progress == IF now < Length THEN now ELSE Length
          IN /\ x7' = progress
             /\ x10' = LP!Frame(progress, x10)
             /\ x6' = (progress < Length)
             /\ x8' = (x8 /\ progress < Length)
    BY <1>4 DEF LP!RunFrame
  <2>2. x6 /\ UNCHANGED <<x1, x2>> /\ x7 \in Int /\ x10 \in Int /\ now \in Int /\ now > x7
    BY <1>4 DEF LP!RunFrame
  <2>3. CASE now < Length
    <3>1. x7' = now /\ x10' = LP!Frame(now, x10)
      BY <2>1, <2>3
    <3>2. x10' \in Int /\ x10' <= now
      BY <2>2, <3>1 DEF LP!Frame
    <3>3. x8' => x6'
      BY <2>1, <2>3
    <3> QED
      BY <1>4, <2>2, <3>1, <3>2, <3>3 DEF LP!RunFrame
  <2>4. CASE ~(now < Length)
    <3>1. ~(Length < Length)
      BY LengthAssumption
    <3>2. ~x6' /\ ~x8'
      BY <2>1, <2>4, <3>1
    <3> QED
      BY <1>4, <2>2, <3>2
  <2> QED
    BY <2>3, <2>4
<1> QED
  BY <1>1, <1>2, <1>3, <1>4 DEF LP!Next

(* The background: nothing else is named, and loads are counted.           *)
LEMMA BackgroundTypesStep == BG!BackgroundTypes /\ [BG!Next]_BG!vars => BG!BackgroundTypes'
<1> SUFFICES ASSUME BG!BackgroundTypes, [BG!Next]_BG!vars PROVE BG!BackgroundTypes'
  OBVIOUS
<1> USE DEF BG!BackgroundTypes
<1>1. ASSUME NEW who \in {"csd", "baul"}, BG!ChangeMay(who) PROVE BG!BackgroundTypes'
  BY <1>1 DEF BG!ChangeMay
<1>2. ASSUME NEW who, BG!HandlingChanged(who) PROVE BG!BackgroundTypes'
  <2>1. x10' \in {x10, x10 + 1} /\ x1' = x1
    BY <1>2 DEF BG!HandlingChanged
  <2> QED
    BY <2>1
<1>3. CASE BG!LoadPreferences
  BY <1>3 DEF BG!LoadPreferences
<1>4. CASE UNCHANGED <<x1, x10>>
  BY <1>4
<1> QED
  BY <1>1, <1>2, <1>3, <1>4 DEF BG!Next, BG!vars, BG!Start, BG!Stop, BG!SessionRunning, BG!QueueSetupBackground,
     BG!BgChanged, BG!BaulComesOrGoes, BG!ResizeScreen, BG!ScreenSizeChanged

(* The background: whatever keeps it from being drawn is yet to be handled.*)
LEMMA BackgroundStep ==
  ASSUME on \in BOOLEAN, BG!LetGo, on /\ ~x15 => BG!BackgroundIsDue, BG!BackgroundTypes, [BG!Next]_BG!vars,
         on', ~x15'
  PROVE  BG!BackgroundIsDue'
<1> USE DEF BG!LetGo, BG!BackgroundIsDue
<1>1. CASE BG!Start
  <2>1. CASE x1 = {"csd"}
    <3>1. x5' /\ x11' /\ x4' /\ x2' = x1 /\ x1' = x1
      BY <1>1, <2>1 DEF BG!Start, BG!SetupBackground
    <3>2. "csd" \in x2'
      BY <2>1, <3>1
    <3> QED
      BY <3>1, <3>2
  <2>2. CASE x1 # {"csd"}
    <3>1. ~on /\ ~x5' /\ x4' /\ x2' = x1
      BY <1>1, <2>2 DEF BG!Start
    <3>2. x1 = {"csd", "baul"} \/ "csd" \notin x1
      BY <2>2 DEF BG!BackgroundTypes
    <3>3. CASE x1 = {"csd", "baul"}
      <4>1. x8' = "listening" /\ x15' = x7 /\ x7' = x7
        BY <1>1, <3>3, Zenon DEF BG!Start
      <4> QED
        BY <3>1, <3>3, <4>1
    <3>4. CASE "csd" \notin x1
      <4>1. x15' = ("csd" \notin x1)
        BY <1>1, <3>4 DEF BG!Start
      <4> QED
        BY <3>4, <4>1
    <3> QED
      BY <3>2, <3>3, <3>4
  <2> QED
    BY <2>1, <2>2
<1>2. CASE BG!Stop
  BY <1>2 DEF BG!Stop
<1>3. CASE BG!SessionRunning
  BY <1>3 DEF BG!SessionRunning
<1>4. CASE BG!QueueSetupBackground
  BY <1>4 DEF BG!QueueSetupBackground, BG!SetupBackground
<1>5. ASSUME NEW who, BG!ChangeMay(who) PROVE BG!BackgroundIsDue'
  BY <1>5 DEF BG!ChangeMay
<1>6. ASSUME NEW who, BG!HandlingChanged(who) PROVE BG!BackgroundIsDue'
  <2>1. x2' = (IF x5 THEN x1 ELSE x2) /\ UNCHANGED <<on, x1, x6, x7, x8, x9, x12>>
    BY <1>6 DEF BG!HandlingChanged
  <2>2. ~(BG!BaulIsDrawing /\ x5)
    BY <1>6 DEF BG!HandlingChanged
  <2>3. /\ IF ~BG!BaulIsDrawing /\ "csd" \in x2' /\ ~x5 THEN BG!SetupBackground ELSE UNCHANGED <<x5, x11>>
        /\ UNCHANGED <<x4, x13, x14, x15>>
    BY <1>6, <2>2 DEF BG!HandlingChanged
  <2>4. on /\ ~x15
    BY <2>1, <2>3
  <2>5. CASE x5
    <3>1. x5' /\ x11' = x11
      BY <2>3, <2>5
    <3>2. "csd" \in x2' => x10' > 0
      BY <1>6, <2>2, <2>5 DEF BG!BackgroundTypes, BG!HandlingChanged
    <3> QED
      BY <2>1, <2>3, <2>4, <2>5, <3>1, <3>2
  <2>6. CASE ~x5
    BY <2>1, <2>3, <2>4, <2>6 DEF BG!SetupBackground
  <2> QED
    BY <2>5, <2>6
<1>7. CASE BG!LoadPreferences
  BY <1>7 DEF BG!BackgroundTypes, BG!LoadPreferences
<1>8. CASE BG!BgChanged
  BY <1>8 DEF BG!BgChanged
<1>9. CASE BG!BaulComesOrGoes
  BY <1>9 DEF BG!BaulComesOrGoes
<1>12. CASE BG!ResizeScreen
  <2>1. x13' = x5 /\ UNCHANGED <<on, x1, x2, x3, x4, x5, x7, x8, x9, x15>>
    BY <1>12 DEF BG!ResizeScreen
  <2> QED
    BY <2>1
<1>10. CASE BG!ScreenSizeChanged
  BY <1>10 DEF BG!ScreenSizeChanged
<1>11. CASE UNCHANGED BG!vars
  BY <1>11 DEF BG!vars
<1> QED
  BY <1>1, <1>2, <1>3, <1>4, <1>5, <1>6, <1>7, <1>8, <1>9, <1>10, <1>11, <1>12 DEF BG!Next

(* What is set is in the list, and nothing else is changed.                *)
LEMMA SetIsListed ==
  ASSUME NEW list, DOMAIN list = XS!Name, NEW n \in XS!Name, NEW v, NEW now
  PROVE  /\ DOMAIN XS!SetSetting(list, n, v, now) = XS!Name
         /\ XS!SetSetting(list, n, v, now)[n].value = v
         /\ \A m \in XS!Name \ {n} : XS!SetSetting(list, n, v, now)[m] = list[m]
BY DEF XS!SetSetting

(* The scale is one or two.                                                *)
LEMMA ScaleIsSmall == XS!SettingsTypes => XS!WindowScale \in {1, 2} /\ XS!WindowScaleAuto \in {1, 2}
BY DEF XS!SettingsTypes, XS!WindowScale, XS!WindowScaleAuto

(* What xft_settings_set_xsettings lists is by the scale of the screen.    *)
LEMMA XftIsListed ==
  ASSUME XS!SettingsTypes, NEW list, DOMAIN list = XS!Name, NEW now
  PROVE  /\ XS!ListedBy(XS!SetXft(list, now), XS!WindowScale)
         /\ DOMAIN XS!SetXft(list, now) = XS!Name
         /\ XS!SetXft(list, now)["theme"] = list["theme"]
<1> DEFINE x  == XS!XftSettings
           s1 == XS!SetSetting(list, "scale", x.scale, now)
           s2 == XS!SetSetting(s1, "unscaled", x.unscaled, now)
           s3 == XS!SetSetting(s2, "dpi", x.dpi, now)
           s4 == XS!SetSetting(s3, "rgba", x.rgba, now)
           s5 == XS!SetSetting(s4, "lcdfilter", x.lcdfilter, now)
           s6 == XS!SetSetting(s5, "cursor", x.cursor, now)
<1>1. {"theme", "scale", "unscaled", "dpi", "rgba", "lcdfilter", "cursor"} \subseteq XS!Name
  BY DEF XS!Name
<1>2. DOMAIN s1 = XS!Name /\ s1["scale"].value = x.scale /\ s1["theme"] = list["theme"]
  BY <1>1, SetIsListed
<1> HIDE DEF s1
<1>3. DOMAIN s2 = XS!Name /\ s2["unscaled"].value = x.unscaled /\ \A n \in XS!Name \ {"unscaled"} : s2[n] = s1[n]
  BY <1>1, <1>2, SetIsListed
<1> HIDE DEF s2
<1>4. DOMAIN s3 = XS!Name /\ s3["dpi"].value = x.dpi /\ \A n \in XS!Name \ {"dpi"} : s3[n] = s2[n]
  BY <1>1, <1>3, SetIsListed
<1> HIDE DEF s3
<1>5. DOMAIN s4 = XS!Name /\ s4["rgba"].value = x.rgba /\ \A n \in XS!Name \ {"rgba"} : s4[n] = s3[n]
  BY <1>1, <1>4, SetIsListed
<1> HIDE DEF s4
<1>6. DOMAIN s5 = XS!Name /\ s5["lcdfilter"].value = x.lcdfilter /\ \A n \in XS!Name \ {"lcdfilter"} : s5[n] = s4[n]
  BY <1>1, <1>5, SetIsListed
<1> HIDE DEF s5
<1>7. DOMAIN s6 = XS!Name /\ s6["cursor"].value = x.cursor /\ \A n \in XS!Name \ {"cursor"} : s6[n] = s5[n]
  BY <1>1, <1>6, SetIsListed
<1>8. XS!SetXft(list, now) = s6
  BY DEF XS!SetXft, s1, s2, s3, s4, s5
<1> HIDE DEF s6, x
<1>9. /\ s6["scale"].value = x.scale /\ s6["cursor"].value = x.cursor /\ s6["rgba"].value = x.rgba
      /\ s6["lcdfilter"].value = x.lcdfilter /\ s6["dpi"].value = x.dpi /\ s6["unscaled"].value = x.unscaled
      /\ s6["theme"] = list["theme"]
  BY <1>1, <1>2, <1>3, <1>4, <1>5, <1>6, <1>7
<1>10. /\ x.scale = XS!WindowScale /\ x.cursor = x1.size * XS!WindowScale
       /\ x.rgba = XS!XftSettings.rgba /\ x.lcdfilter = XS!XftSettings.lcdfilter
  BY DEF x, XS!XftSettings
<1>11. x1.dpi # 0 => /\ x.dpi = XS!Clamped(x1.dpi * XS!WindowScale)
                     /\ x.unscaled = XS!Clamped(x1.dpi * XS!WindowScale) \div XS!WindowScale
  BY DEF x, XS!XftSettings
<1>12. XS!ListedBy(s6, XS!WindowScale)
  BY <1>9, <1>10, <1>11, ScaleIsSmall DEF XS!ListedBy
<1> QED
  BY <1>7, <1>8, <1>9, <1>12

(* The settings keep their names, and the factor is one of its values.     *)
LEMMA SettingsTypesStep == XS!SettingsTypes /\ [XS!Next]_XS!vars => XS!SettingsTypes'
<1> SUFFICES ASSUME XS!SettingsTypes, [XS!Next]_XS!vars PROVE XS!SettingsTypes'
  OBVIOUS
<1> USE DEF XS!SettingsTypes
<1>1. CASE XS!Start
  BY <1>1 DEF XS!Start
<1>2. CASE XS!ChangeSettings
  BY <1>2 DEF XS!ChangeSettings
<1>3. CASE UNCHANGED <<x1, x5>>
  BY <1>3
<1> QED
  BY <1>1, <1>2, <1>3 DEF XS!Next, XS!vars, XS!StartFontconfigMonitor, XS!Stop, XS!XSettingsCallback, XS!XftCallback,
     XS!ChangeScreen, XS!RecalculateScale, XS!FontsChange, XS!UpdateFonts, XS!ToggleBgDraw, XS!HideIcons

(* The published settings: whatever may part them from the settings is yet *)
(* to be handled.                                                          *)
LEMMA PublishedStep ==
  ASSUME XS!LetGo, XS!ListIsPublished, XS!SettingsTypes, x4 => XS!ListFollowsSettings, [XS!Next]_XS!vars, x4'
  PROVE  XS!ListFollowsSettings'
<1> USE DEF XS!ListFollowsSettings
<1>0. XS!WindowScale \in {1, 2} /\ x5 \in Nat /\ DOMAIN x9 = XS!Name /\ x10 \in Nat
  BY ScaleIsSmall DEF XS!SettingsTypes, XS!ListIsPublished
<1>1. ASSUME x4, UNCHANGED <<x1, x2, x5>>, NEW list, DOMAIN list = XS!Name, XS!Notify(list, x10),
             "theme" \notin x6' => list["theme"].value = x1.theme,
             "xft" \notin x6' => XS!ListedBy(list, x8') /\ (~x7' => x8' = XS!WindowScale)
      PROVE  XS!ListFollowsSettings'
  <2>1. x9' = list /\ x11' = [serial |-> x10' - 1, store |-> x9']
    BY <1>0, <1>1 DEF XS!Notify
  <2>2. XS!WindowScale' = XS!WindowScale /\ (XS!ListedBy(list, x8') => XS!ListedBy(x9, x8)')
    BY <1>1, <2>1 DEF XS!WindowScale, XS!WindowScaleAuto, XS!ListedBy, XS!XftSettings, XS!ServerDpi
  <2> QED
    BY <1>1, <2>1, <2>2
<1>2. ASSUME x4, UNCHANGED <<x5, x8, x9, x10, x11>>, x1'.size = x1.size, x1'.dpi = x1.dpi,
             x1'.antialias = x1.antialias, x1'.order = x1.order, x1'.factor = x1.factor,
             x6 \subseteq x6', x1'.theme = x1.theme \/ "theme" \in x6', (x2' = x2 /\ x7' = x7) \/ x7'
      PROVE  XS!ListFollowsSettings'
  <2>1. XS!ListedBy(x9, x8) => XS!ListedBy(x9, x8)'
    BY <1>2 DEF XS!ListedBy, XS!XftSettings
  <2>2. x2' = x2 => XS!WindowScale' = XS!WindowScale
    BY <1>2 DEF XS!WindowScale, XS!WindowScaleAuto
  <2>3. x2' = x2 /\ x7' = x7 => XS!ListFollowsSettings'
    BY <1>2, <2>1, <2>2
  <2>4. x7' => XS!ListFollowsSettings'
    BY <1>2, <2>1
  <2> QED
    BY <1>2, <2>3, <2>4
<1>3. CASE XS!Start
  <2>1. ~x3 /\ x6' = {} /\ x5' > 0 /\ UNCHANGED <<x1, x2>>
    <3>1. ~on /\ (x3 => x4' = x4) /\ UNCHANGED <<x1, x2, x6>> /\ (~x3 => x5' = x5 + 1)
      BY <1>3 DEF XS!Start
    <3>2. ~x4 /\ ~x3
      BY <3>1 DEF XS!LetGo
    <3>3. x6 = {}
      BY <3>2 DEF XS!LetGo
    <3> QED
      BY <1>0, <3>1, <3>2, <3>3
  <2>2. x9' = XS!Started /\ x11' = [serial |-> 0, store |-> XS!Started] /\ x10' = 1 /\ x8' = XS!WindowScale
    BY <1>3, <2>1 DEF XS!Start, XS!Notify, XS!ScaleChangeWorkarounds
  <2> DEFINE s1 == XS!SetSetting(x9, "theme", x1.theme, 0)
             s2 == XS!SetSetting(s1, "cursor", x1.size, 0)
  <2>3. DOMAIN s2 = XS!Name /\ s2["theme"].value = x1.theme
    <3>1. "theme" \in XS!Name /\ "cursor" \in XS!Name
      BY DEF XS!Name
    <3>2. DOMAIN s1 = XS!Name /\ s1["theme"].value = x1.theme
      BY <1>0, <3>1, SetIsListed
    <3> HIDE DEF s1
    <3> QED
      BY <3>1, <3>2, SetIsListed
  <2>4. XS!Started = XS!SetXft(s2, 0)
    BY DEF XS!Started
  <2>5. XS!ListedBy(XS!Started, XS!WindowScale) /\ XS!Started["theme"].value = x1.theme
    <3> HIDE DEF s2
    <3> QED
      BY <2>3, <2>4, XftIsListed
  <2>6. XS!WindowScale' = XS!WindowScale /\ XS!ListedBy(x9, x8)'
    BY <2>1, <2>2, <2>5 DEF XS!WindowScale, XS!WindowScaleAuto, XS!ListedBy, XS!XftSettings
  <2> QED
    BY <1>0, <2>1, <2>2, <2>5, <2>6
<1>4. CASE XS!ChangeSettings
  BY <1>2, <1>4 DEF XS!ChangeSettings, XS!SettingsTypes
<1>5. CASE XS!XSettingsCallback
  <2> DEFINE new == XS!SetSetting(x9, "theme", x1.theme, x10)
  <2>1. x4 /\ UNCHANGED <<x1, x2, x5, x7, x8>> /\ XS!Notify(new, x10) /\ x6' = x6 \ {"theme"}
    BY <1>5 DEF XS!XSettingsCallback
  <2>2. /\ DOMAIN new = XS!Name /\ new["theme"].value = x1.theme
        /\ \A m \in XS!Name \ {"theme"} : new[m] = x9[m]
    <3>1. "theme" \in XS!Name
      BY DEF XS!Name
    <3> QED
      BY <1>0, <3>1, SetIsListed
  <2> HIDE DEF new
  <2>3. XS!ListedBy(x9, x8) => XS!ListedBy(new, x8)
    BY <2>2 DEF XS!ListedBy, XS!Name
  <2> QED
    BY <1>1, <2>1, <2>2, <2>3
<1>6. ASSUME x4, XS!Notify(XS!SetXft(x9, x10), x10), UNCHANGED <<x1, x2, x5>>, x6 \subseteq x6' \cup {"xft"},
             x8' = XS!WindowScale
      PROVE  XS!ListFollowsSettings'
  <2> DEFINE new == XS!SetXft(x9, x10)
  <2>1. DOMAIN new = XS!Name /\ XS!ListedBy(new, XS!WindowScale) /\ new["theme"] = x9["theme"]
    BY <1>0, XftIsListed
  <2> HIDE DEF new
  <2>2. XS!Notify(new, x10)
    BY <1>6 DEF new
  <2> QED
    BY <1>1, <1>6, <2>1, <2>2
<1>7. CASE XS!XftCallback
  BY <1>6, <1>7 DEF XS!XftCallback, XS!ScaleChangeWorkarounds
<1>8. CASE XS!ChangeScreen
  BY <1>2, <1>8 DEF XS!ChangeScreen
<1>9. CASE XS!RecalculateScale
  <2>1. x4 /\ UNCHANGED <<x1, x2, x5, x6>> /\ x7' = FALSE
    BY <1>9 DEF XS!RecalculateScale
  <2>2. CASE x8 = XS!WindowScale
    <3>1. UNCHANGED <<x8, x9, x10, x11>>
      BY <1>9, <2>1, <2>2 DEF XS!RecalculateScale
    <3>2. XS!WindowScale' = XS!WindowScale /\ (XS!ListedBy(x9, x8) => XS!ListedBy(x9, x8)')
      BY <2>1, <3>1 DEF XS!WindowScale, XS!WindowScaleAuto, XS!ListedBy, XS!XftSettings, XS!ServerDpi
    <3> QED
      BY <2>1, <2>2, <3>1, <3>2
  <2>3. CASE x8 # XS!WindowScale
    <3>1. XS!Notify(XS!SetXft(x9, x10), x10) /\ XS!ScaleChangeWorkarounds
      BY <1>9, <2>1, <2>3 DEF XS!RecalculateScale
    <3> QED
      BY <1>6, <2>1, <3>1 DEF XS!ScaleChangeWorkarounds
  <2> QED
    BY <2>2, <2>3
<1>10. CASE XS!UpdateFonts
  <2> DEFINE new == XS!SetSetting(x9, "stamp", x10, x10)
  <2>1. x4 /\ UNCHANGED <<x1, x2, x5, x6, x7, x8>> /\ (UNCHANGED <<x9, x10, x11>> \/ XS!Notify(new, x10))
    BY <1>10 DEF XS!UpdateFonts
  <2>2. DOMAIN new = XS!Name /\ \A m \in XS!Name \ {"stamp"} : new[m] = x9[m]
    <3>1. "stamp" \in XS!Name
      BY DEF XS!Name
    <3> QED
      BY <1>0, <3>1, SetIsListed
  <2> HIDE DEF new
  <2>3. (XS!ListedBy(x9, x8) => XS!ListedBy(new, x8)) /\ new["theme"] = x9["theme"]
    BY <2>2 DEF XS!ListedBy, XS!Name
  <2>4. CASE UNCHANGED <<x9, x10, x11>>
    BY <1>2, <2>1, <2>4
  <2>5. CASE XS!Notify(new, x10)
    BY <1>1, <2>1, <2>2, <2>3, <2>5
  <2> QED
    BY <2>1, <2>4, <2>5
<1>11. CASE UNCHANGED <<x1, x2, x4, x5, x6, x7, x8, x9, x10, x11>>
  BY <1>2, <1>11
<1>12. XS!StartFontconfigMonitor \/ XS!FontsChange \/ XS!ToggleBgDraw \/ XS!HideIcons \/ UNCHANGED XS!vars
         => UNCHANGED <<x1, x2, x4, x5, x6, x7, x8, x9, x10, x11>>
  BY DEF XS!StartFontconfigMonitor, XS!FontsChange, XS!ToggleBgDraw, XS!HideIcons, XS!vars
<1>13. ~XS!Stop
  BY DEF XS!Stop
<1> QED
  BY <1>3, <1>4, <1>5, <1>7, <1>8, <1>9, <1>10, <1>11, <1>12, <1>13 DEF XS!Next

(* So what is published is what PublishedFollowsSettings asks for.         *)
LEMMA PublishedIsListed ==
  ASSUME XS!SettingsTypes, x4 => XS!ListFollowsSettings
  PROVE  XS!PublishedFollowsSettings
<1> SUFFICES ASSUME x4, x6 = {}, ~x7, XS!ListFollowsSettings PROVE XS!PublishedFollowsSettings
  BY DEF XS!PublishedFollowsSettings
<1>1. x11.store = x9 /\ x9["theme"].value = x1.theme /\ XS!ListedBy(x9, XS!WindowScale)
  BY DEF XS!ListFollowsSettings
<1>2. /\ XS!XftSettings.scale = XS!WindowScale /\ XS!XftSettings.cursor = x1.size * XS!WindowScale
      /\ x1.dpi # 0 => XS!XftSettings.dpi = XS!Clamped(x1.dpi * XS!WindowScale)
  BY DEF XS!XftSettings
<1>3. \A n \in Nat : n \div 1 <= n /\ n \div 2 <= n
  OBVIOUS
<1>4. XS!Clamped(x1.dpi * XS!WindowScale) \in Nat
  BY ScaleIsSmall DEF XS!Clamped, XS!SettingsTypes
<1>5. x1.dpi # 0 => x9["unscaled"].value <= x9["dpi"].value
  BY <1>1, <1>3, <1>4, ScaleIsSmall DEF XS!ListedBy
<1>6. x1.dpi # 0 => x9["dpi"].value \in Nat /\ x9["unscaled"].value \in Nat
  BY <1>1, <1>4, ScaleIsSmall DEF XS!ListedBy
<1> QED
  BY <1>1, <1>2, <1>5, <1>6 DEF XS!PublishedFollowsSettings, XS!ListedBy

(* Of the files that a child merges those of the user are merged last.     *)
LEMMA UserIsLast ==
  ASSUME NEW old, NEW input, input.files = XR!ScanForFiles(input.mine), input.mine \in XR!Mine
  PROVE  /\ XR!Merge(old, input).look = input.look
         /\ XR!Merge(old, input).mine = input.mine
         /\ \A n \in input.mine \ XR!Unreadable : XR!Merge(old, input).last[n] = "user"
<1> DEFINE defining(n) == {i \in DOMAIN input.files : n \in input.files[i].names}
<1>1. /\ XR!Merge(old, input).look = input.look /\ XR!Merge(old, input).mine = input.mine
      /\ \A n \in XR!Name : defining(n) # {}
           => XR!Merge(old, input).last[n] = input.files[XR!Max(defining(n))].dir
  BY DEF XR!Merge
<1>2. ASSUME NEW n \in input.mine, n \notin XR!Unreadable
      PROVE  XR!Merge(old, input).last[n] = "user"
  <2>1. input.mine # XR!Unreadable /\ n \in XR!Name
    BY <1>2 DEF XR!Mine
  <2>2. DOMAIN input.files = 1..3 /\ input.files[3] = [dir |-> "user", names |-> input.mine]
    BY <2>1 DEF XR!ScanForFiles, XR!ScanAdDirectory
  <2>3. defining(n) \subseteq 1..3 /\ 3 \in defining(n)
    BY <1>2, <2>2
  <2> HIDE DEF defining
  <2>4. \E x \in defining(n) : \A y \in defining(n) : x >= y
    BY <2>3
  <2>5. XR!Max(defining(n)) \in defining(n) /\ \A y \in defining(n) : XR!Max(defining(n)) >= y
    BY <2>4 DEF XR!Max
  <2>6. XR!Max(defining(n)) = 3
    BY <2>3, <2>5
  <2> QED
    BY <1>1, <2>1, <2>2, <2>3, <2>6
<1> QED
  BY <1>1, <1>2

(* Resources: the files of every child are those of its directories, and   *)
(* the theme is that of the only child.                                    *)
LEMMA ResourcesStep ==
  ASSUME XR!ChildrenBringTheme, XR!ResourceTypes, [XR!Next]_XR!vars
  PROVE  XR!ChildrenBringTheme' /\ XR!ResourceTypes'
<1> DEFINE Input == [look : Nat, mine : XR!Mine, files : {XR!ScanForFiles(m) : m \in XR!Mine}]
<1> USE DEF XR!ChildrenBringTheme
<1>0. x5 \in Seq(Input) /\ x2 \in Nat /\ x3 \in XR!Mine
  BY DEF XR!ResourceTypes
<1>1. ASSUME x2' \in Nat, x3' \in XR!Mine, x5' \in Seq(Input) PROVE XR!ResourceTypes'
  BY <1>1 DEF XR!ResourceTypes, XR!Mine, XR!Name, XR!Unreadable, XR!ScanForFiles, XR!ScanAdDirectory, XR!System
<1> HIDE DEF Input
<1>2. CASE XR!Start \/ UNCHANGED XR!vars
  <2>1. UNCHANGED <<x2, x3, x4, x5, x6, x7>>
    BY <1>2 DEF XR!Start, XR!vars
  <2> QED
    BY <1>0, <1>1, <2>1
<1>3. CASE XR!ChangeTheme
  <2>1. x2' \in Nat /\ UNCHANGED <<x3, x5, x6>> /\ x4' = x1 /\ x7' = (x7 \/ ~x1)
    BY <1>0, <1>3 DEF XR!ChangeTheme
  <2>2. x7' \/ x4'
    BY <2>1
  <2> QED
    BY <1>0, <1>1, <2>1, <2>2
<1>4. CASE XR!ChangeFiles
  <2>1. x3' \in XR!Mine /\ UNCHANGED <<x2, x4, x5, x6, x7>>
    BY <1>4 DEF XR!ChangeFiles, XR!Mine, XR!Name
  <2> QED
    BY <1>0, <1>1, <2>1
<1>5. CASE XR!ThemeChanged
  <2> DEFINE new == [look |-> x2, mine |-> x3, files |-> XR!ScanForFiles(x3)]
  <2>1. UNCHANGED <<x2, x3, x6>> /\ ((x5' = Append(x5, new) /\ x7' = (x5 # <<>>)) \/ (x5' = x5 /\ x7'))
    BY <1>5 DEF XR!ThemeChanged
  <2>2. new \in Input /\ new.files = XR!ScanForFiles(new.mine) /\ new.look = x2
    BY <1>0 DEF Input
  <2> HIDE DEF new
  <2>3. CASE x5' = x5 /\ x7'
    BY <1>0, <1>1, <2>1, <2>3
  <2>4. CASE x5' = Append(x5, new) /\ x7' = (x5 # <<>>)
    <3>1. x5' \in Seq(Input) /\ \A i \in DOMAIN x5' : x5'[i] = new \/ (i \in DOMAIN x5 /\ x5'[i] = x5[i])
      BY <1>0, <2>2, <2>4
    <3>2. ~x7' => Len(x5') = 1 /\ x5'[1] = new
      <4>1. ~x7' => x5 = <<>>
        BY <2>4
      <4>2. Append(<<>>, new) = <<new>>
        OBVIOUS
      <4> QED
        BY <2>4, <4>1, <4>2
    <3> QED
      BY <1>0, <1>1, <2>1, <2>2, <3>1, <3>2
  <2> QED
    BY <2>1, <2>3, <2>4
<1>6. CASE XR!Stop
  <2>1. UNCHANGED <<x2, x3, x5, x6>> /\ (x4 => x7') /\ (~x7' => ~x7)
    BY <1>6 DEF XR!Stop
  <2> QED
    BY <1>0, <1>1, <2>1
<1>7. ASSUME NEW i, XR!ChildWatch(i) PROVE XR!ChildrenBringTheme' /\ XR!ResourceTypes'
  <2>1. /\ i \in DOMAIN x5 /\ x5' = XR!RemoveAt(x5, i) /\ UNCHANGED <<x2, x3, x4>>
        /\ (x6' = XR!Merge(x6, x5[i]) /\ x7' = x7) \/ (x7' /\ x6' = x6)
    BY <1>7 DEF XR!ChildWatch
  <2>2. /\ x5' \in Seq(Input) /\ Len(x5') = Len(x5) - 1
        /\ \A j \in DOMAIN x5' : \E k \in DOMAIN x5 : x5'[j] = x5[k]
    <3>1. x5' = SubSeq(x5, 1, i - 1) \o SubSeq(x5, i + 1, Len(x5))
      BY <2>1 DEF XR!RemoveAt
    <3>2. i \in 1..Len(x5) /\ Len(x5) \in Nat
      BY <1>0, <2>1
    <3>3. /\ x5' \in Seq(Input) /\ Len(x5') = Len(x5) - 1
          /\ \A j \in 1..Len(x5) - 1 : x5'[j] = IF j < i THEN x5[j] ELSE x5[j + 1]
      <4>1. x5 \in Seq(Input)
        BY <1>0
      <4>2. LacksAt(Input, x5', x5, i)
        BY ONLY <3>1, <3>2, <4>1, RemovedOne, Zenon
      <4> QED
        BY <4>2 DEF LacksAt
    <3>4. \A j \in 1..Len(x5) - 1 : x5'[j] = x5[j] \/ x5'[j] = x5[j + 1]
      BY <3>2, <3>3
    <3>5. \A j \in 1..Len(x5) - 1 : j \in DOMAIN x5 /\ j + 1 \in DOMAIN x5
      BY <1>0
    <3>6. DOMAIN x5' = 1..Len(x5) - 1
      BY <1>0, <3>3
    <3>7. ASSUME NEW j \in DOMAIN x5' PROVE \E k \in DOMAIN x5 : x5'[j] = x5[k]
      <4>1. j \in DOMAIN x5 /\ j + 1 \in DOMAIN x5 /\ (x5'[j] = x5[j] \/ x5'[j] = x5[j + 1])
        BY <3>4, <3>5, <3>6
      <4> QED
        BY <4>1
    <3> QED
      BY <3>3, <3>7
  <2>3. x5[i].files = XR!ScanForFiles(x5[i].mine) /\ x5[i].mine \in XR!Mine
    <3>1. x5[i] \in Input
      BY <1>0, <2>1
    <3>2. x5[i].mine \in XR!Mine
      BY <3>1 DEF Input
    <3> QED
      BY <2>1, <3>2
  <2>4. \A n \in x6'.mine \ XR!Unreadable : x6'.last[n] = "user"
    BY <2>1, <2>3, UserIsLast
  <2>5. ~x7' /\ ~x4' => x5' = <<>> /\ x6'.look = x2'
    <3> SUFFICES ASSUME ~x7', ~x4' PROVE x5' = <<>> /\ x6'.look = x2'
      OBVIOUS
    <3>1. Len(x5) = 1 /\ i = 1 /\ x5[1].look = x2 /\ x6' = XR!Merge(x6, x5[1])
      BY <1>0, <2>1
    <3> QED
      BY <2>1, <2>2, <2>3, <3>1, UserIsLast
  <2> QED
    BY <1>0, <1>1, <2>1, <2>2, <2>4, <2>5
<1> QED
  BY <1>2, <1>3, <1>4, <1>5, <1>6, <1>7 DEF XR!Next

(* What is known of the plugin that is picked, for what it makes of its    *)
(* settings.                                                               *)
DesktopInv ==
  /\ MonitorInv
  /\ plugin = "xsettings" => XS!SettingsTypes /\ (x4 => XS!ListFollowsSettings)
  /\ plugin = "background" => BG!BackgroundTypes /\ (on /\ ~x15 => BG!BackgroundIsDue)
  /\ plugin = "a11y-settings" => AS!SettingsAreThere /\ AS!AccessibilityFollowsApps
  /\ plugin = "sound" => SO!OldSoundsAreDropped
  /\ plugin = "xrdb" => XR!ChildrenBringTheme /\ XR!ResourceTypes

(* At first nothing is there to follow.                                    *)
LEMMA InitDesktopInv == SumInit => DesktopInv
<1> SUFFICES ASSUME SumInit PROVE DesktopInv
  OBVIOUS
<1>1. MonitorInv
  BY InitMonitorInv
<1>2. plugin = "xsettings" => XS!SettingsTypes /\ ~x4
  <2>1. plugin = "xsettings" => XS!Init
    BY DEF SumInit
  <2> QED
    BY <2>1 DEF XS!Init, XS!SettingsTypes
<1>3. plugin = "background" => BG!BackgroundTypes /\ ~on
  BY DEF SumInit, Init, MKInit, BG!Init, BG!BackgroundTypes
<1>4. plugin = "a11y-settings" => AS!SettingsAreThere /\ AS!AccessibilityFollowsApps
  BY DEF SumInit, AS!Init, AS!SettingsAreThere, AS!AccessibilityFollowsApps
<1>5. plugin = "sound" => SO!OldSoundsAreDropped
  BY DEF SumInit, SO!Init, SO!OldSoundsAreDropped
<1>6. plugin = "xrdb" => XR!ChildrenBringTheme /\ XR!ResourceTypes
  <2>1. plugin = "xrdb" => XR!Init
    BY DEF SumInit
  <2>2. XR!Init => XR!ResourceTypes
    BY DEF XR!Init, XR!ResourceTypes, XR!Mine, XR!Name
  <2>3. XR!Init => XR!ChildrenBringTheme
    BY DEF XR!Init, XR!ChildrenBringTheme
  <2> QED
    BY <2>1, <2>2, <2>3
<1> QED
  BY <1>1, <1>2, <1>3, <1>4, <1>5, <1>6 DEF DesktopInv

(* Every step keeps it: that of the plugin that is picked.                 *)
LEMMA DesktopStep ==
  ASSUME Kept, Kept', DesktopInv, [SumNext]_<<plugin, size, vars, xs>>
  PROVE  DesktopInv'
<1> USE Picked DEF Kept, DesktopInv
<1>1. MonitorInv'
  BY MonitorStep DEF MonitorInv
<1>2. plugin = "xsettings" => XS!SettingsTypes' /\ (x4' => XS!ListFollowsSettings')
  BY SettingsTypesStep, PublishedStep
<1>3. plugin = "background" => BG!BackgroundTypes' /\ (on' /\ ~x15' => BG!BackgroundIsDue')
  BY BackgroundTypesStep, BackgroundStep
<1>4. plugin = "a11y-settings" => AS!SettingsAreThere' /\ AS!AccessibilityFollowsApps'
  BY SwitchStep
<1>5. plugin = "sound" => SO!OldSoundsAreDropped'
  BY SoundStep
<1>6. plugin = "xrdb" => XR!ChildrenBringTheme' /\ XR!ResourceTypes'
  BY ResourcesStep
<1> QED
  BY <1>1, <1>2, <1>3, <1>4, <1>5, <1>6

(* Once all is quiet what the plugins make of their settings is there, for *)
(* any number of starts, changes, children and screens, in any order: the  *)
(* typing monitor, the published XSETTINGS (xft_settings_set_xsettings),   *)
(* the background, the accessibility switch, the resources of the theme    *)
(* (scan_for_files, theme_changed), and no sounds of themes that are gone. *)
THEOREM DesktopFollowsSettingsAlways == SumSpec => []DesktopFollowsSettings
<1>1. DesktopInv => DesktopFollowsSettings
  <2> SUFFICES ASSUME DesktopInv PROVE DesktopFollowsSettings
    OBVIOUS
  <2>1. plugin = "typing-break" => TB!MonitorFollowsSetting
    BY DEF DesktopInv, MonitorInv, TB!Flags, TB!OneKiller, TB!ChildIsWanted, TB!MonitorFollowsSetting
  <2>2. plugin = "xsettings" => XS!PublishedFollowsSettings
    BY PublishedIsListed DEF DesktopInv
  <2>3. plugin = "background" => BG!BackgroundIsDrawn
    BY DEF DesktopInv, BG!BackgroundTypes, BG!BackgroundIsDue, BG!BackgroundIsDrawn
  <2>4. plugin = "a11y-settings" => AS!AccessibilityFollowsApps
    BY DEF DesktopInv
  <2>5. plugin = "sound" => SO!OldSoundsAreDropped
    BY DEF DesktopInv
  <2>6. plugin = "xrdb" => XR!ResourcesFollowTheme
    BY DEF DesktopInv, XR!ChildrenBringTheme, XR!ResourcesFollowTheme
  <2> QED
    BY <2>1, <2>2, <2>3, <2>4, <2>5, <2>6 DEF DesktopFollowsSettings
<1> QED
  BY <1>1, KeptAlways, InitDesktopInv, DesktopStep, PTL DEF SumSpec

-----------------------------------------------------------------------------
(* What apply_settings makes of a server s.                                *)
LEMMA SettingsAreApplied ==
  ASSUME NEW s, {"repeat", "rate", "layouts", "numlock"} \subseteq DOMAIN s, NEW new
  PROVE  LET t == KB!ApplySettings(s, new)
         IN /\ {"repeat", "rate", "layouts", "numlock"} \subseteq DOMAIN t
            /\ t.repeat = x1.repeat /\ (t.repeat => t.rate = x1.rate) /\ t.layouts = s.layouts
            /\ t.numlock \in {s.numlock, x1.numlock} /\ (~new => t.numlock = s.numlock)
BY DEF KB!ApplySettings

(* Of layouts that differ from those of the settings a registry that was   *)
(* not freed leaves those that are known; and what went astray is noted.   *)
LEMMA LayoutsAreFiltered ==
  ASSUME NEW left, KB!FilterXkbConfig(left)
  PROVE  /\ x21 => x21'
         /\ ~x21' /\ left # x1.layouts => left = KB!Known(x1.layouts)
<1>1. \/ x21' = x21 /\ (left = x1.layouts \/ left = KB!Known(x1.layouts))
      \/ x21' = TRUE
  BY DEF KB!FilterXkbConfig
<1>2. CASE x21' = x21 /\ (left = x1.layouts \/ left = KB!Known(x1.layouts))
  BY <1>2, Zenon
<1>3. CASE x21' = TRUE
  BY <1>3, Zenon
<1> QED
  BY <1>1, <1>2, <1>3

(* What apply_xkb_settings makes of a server s: the layouts that are known *)
(* or it failed, as long as the registry was not freed.                    *)
LEMMA LayoutsAreApplied ==
  ASSUME NEW s, {"repeat", "rate", "layouts", "numlock"} \subseteq DOMAIN s, KB!ApplyXkb(s)
  PROVE  /\ {"repeat", "rate", "layouts", "numlock"} \subseteq DOMAIN x2'
         /\ x2'.repeat = s.repeat /\ x2'.rate = s.rate /\ x2'.numlock = s.numlock
         /\ x21 => x21'
         /\ ~x21' => /\ x13' \/ x2'.layouts = KB!Known(x1.layouts)
                     /\ x12' => Len(KB!Known(x1.layouts)) > 1 \/ x13'
<1> DEFINE Done(layouts) == /\ x2' = [s EXCEPT !.layouts = layouts]
                            /\ KB!Known(layouts) = layouts
                            /\ x12' = (Len(layouts) > 1 /\ (x12 \/ ~x1.disable))
<1>1. CASE x2' = s /\ x13' /\ (x21 => x21')
  BY <1>1
<1>2. ASSUME NEW layouts, Done(layouts), x21 => x21', ~x21' => layouts = KB!Known(x1.layouts)
      PROVE  /\ {"repeat", "rate", "layouts", "numlock"} \subseteq DOMAIN x2'
             /\ x2'.repeat = s.repeat /\ x2'.rate = s.rate /\ x2'.numlock = s.numlock
             /\ ~x21' => /\ x2'.layouts = KB!Known(x1.layouts)
                         /\ x12' => Len(KB!Known(x1.layouts)) > 1
  BY <1>2
<1>3. CASE Done(x1.layouts) /\ UNCHANGED x21
  BY <1>2, <1>3
<1>4. ASSUME NEW left, KB!FilterXkbConfig(left), \/ x2' = s /\ x13'
                                                 \/ left # x1.layouts /\ Done(left)
      PROVE  \/ x2' = s /\ x13' /\ (x21 => x21')
             \/ Done(left) /\ (x21 => x21') /\ (~x21' => left = KB!Known(x1.layouts))
  BY <1>4, LayoutsAreFiltered
<1>5. \/ Done(x1.layouts) /\ UNCHANGED x21
      \/ \E left : KB!FilterXkbConfig(left) /\ (\/ x2' = s /\ x13'
                                                \/ left # x1.layouts /\ Done(left))
  <2>1. CASE \E known \in SUBSET {"us", "de", "unknown"} :
               LET left == SelectSeq(x1.layouts, LAMBDA l : l \in known)
               IN /\ KB!FilterXkbConfig(left)
                  /\ \/ x2' = s /\ x13'
                     \/ left # x1.layouts /\ Done(left)
    BY <2>1, Zenon
  <2> QED
    BY <2>1 DEF KB!ApplyXkb
<1> HIDE DEF Done
<1> QED
  BY <1>1, <1>2, <1>3, <1>4, <1>5

(* What the last event of Num Lock says is what the server does, if only   *)
(* that much of the server is changed.                                     *)
LEMMA EventsAreKept ==
  ASSUME KB!KeyboardTypes, x10 # <<>> => x9 > 0 /\ x10[Len(x10)] = x2.numlock,
         NEW s, s.numlock \in {"on", "off", "unknown"}, x9' \in Nat, x9 > 0 => x9' > 0, KB!Notify(s)
  PROVE  /\ x10' \in Seq({"on", "off", "unknown"})
         /\ x10' # <<>> => x9' > 0 /\ x10'[Len(x10')] = s.numlock
         /\ x9' > 0 /\ x10' = <<>> => s.numlock = x2.numlock /\ x10 = <<>>
<1>0. x10 \in Seq({"on", "off", "unknown"})
  BY DEF KB!KeyboardTypes
<1>1. CASE x9' > 0 /\ s.numlock # x2.numlock
  <2>1. x10' = Append(x10, s.numlock)
    BY <1>1 DEF KB!Notify
  <2>2. x10' \in Seq({"on", "off", "unknown"}) /\ Len(x10') = Len(x10) + 1 /\ x10'[Len(x10) + 1] = s.numlock
    BY <1>0, <2>1
  <2> QED
    BY <1>0, <1>1, <2>2
<1>2. CASE ~(x9' > 0 /\ s.numlock # x2.numlock)
  <2>1. x10' = x10
    BY <1>2 DEF KB!Notify
  <2> QED
    BY <1>0, <1>2, <2>1
<1> QED
  BY <1>1, <1>2

(* Settings, server and events stay what they are.                         *)
LEMMA KeyboardTypesStep ==
  ASSUME KB!KeyboardTypes, KB!KeyboardIsSet, [KB!Next]_KB!vars
  PROVE  KB!KeyboardTypes'
<1> USE DEF KB!KeyboardTypes
<1> DEFINE Lock    == {"on", "off", "unknown"}
           Field   == {"repeat", "rate", "layouts", "numlock"}
           Whole(s) == Field \subseteq DOMAIN s /\ s.numlock \in Lock
<1>0. /\ Whole(x2) /\ x10 \in Seq(Lock) /\ x1.numlock \in Lock /\ x9 \in Nat /\ x7 \in Nat /\ late \in BOOLEAN
      /\ x10 # <<>> => x9 > 0 /\ x10[Len(x10)] = x2.numlock
  BY DEF KB!KeyboardIsSet
<1>1. ASSUME UNCHANGED <<x1, x7, late>>, Whole(x2'), x10' \in Seq(Lock), x9' \in Nat PROVE KB!KeyboardTypes'
  BY <1>1
<1>2. ASSUME KB!Apply(x2), x9' \in Nat, x9 > 0 => x9' > 0 PROVE Whole(x2') /\ x10' \in Seq(Lock)
  <2>1. PICK t : t = KB!ApplySettings(x2, TRUE)
    OBVIOUS
  <2>2. KB!ApplyXkb(t) /\ KB!Notify(t)
    BY <1>2, <2>1 DEF KB!Apply
  <2>3. Whole(t)
    BY <1>0, <2>1, SettingsAreApplied
  <2> QED
    BY <1>0, <1>2, <2>2, <2>3, LayoutsAreApplied, EventsAreKept
<1>3. CASE KB!StartIdle
  <2>1. KB!Apply(x2) /\ x9' = x9 + 1 /\ x7' = x7 + 1 /\ x1' = x1 /\ late' = (late \/ ~on \/ x3)
    BY <1>3 DEF KB!StartIdle
  <2>2. late' \in BOOLEAN
    BY <2>1, Zenon
  <2>3. Whole(x2') /\ x10' \in Seq(Lock)
    BY <1>0, <1>2, <2>1
  <2> QED
    BY <1>0, <2>1, <2>2, <2>3
<1>4. CASE KB!ChangeSettings
  BY <1>4 DEF KB!ChangeSettings
<1>5. CASE KB!SettingsChanged
  <2>1. PICK s : s = IF x4 > 0 THEN KB!ApplySettings(x2, FALSE) ELSE x2
    OBVIOUS
  <2>2. (KB!ApplyXkb(s) \/ x2' = s) /\ UNCHANGED <<x1, x7, x9, x10, late>>
    BY <1>5, <2>1 DEF KB!SettingsChanged
  <2>3. Whole(s)
    BY <1>0, <2>1, SettingsAreApplied
  <2>4. Whole(x2')
    BY <2>2, <2>3, LayoutsAreApplied
  <2> QED
    BY <1>0, <1>1, <2>2, <2>4
<1>6. CASE KB!DesktopChanged \/ KB!ToggleNumlock
  <2>1. KB!Notify(x2') /\ UNCHANGED <<x1, x7, x9, late>>
    BY <1>6 DEF KB!DesktopChanged, KB!ToggleNumlock
  <2>2. Whole(x2')
    <3>1. CASE KB!DesktopChanged
      <4>1. x2' = KB!ApplySettings(x2, TRUE)
        BY <3>1 DEF KB!DesktopChanged
      <4> QED
        BY <1>0, <4>1, SettingsAreApplied
    <3>2. CASE KB!ToggleNumlock
      BY <1>0, <3>2 DEF KB!ToggleNumlock
    <3> QED
      BY <1>6, <3>1, <3>2
  <2>3. PICK s : s = x2'
    OBVIOUS
  <2>4. KB!Notify(s)
    BY <2>1, <2>3
  <2>5. x10' \in Seq(Lock)
    BY <1>0, <2>1, <2>2, <2>3, <2>4, EventsAreKept
  <2> QED
    BY <1>0, <1>1, <2>1, <2>2, <2>5
<1>7. CASE KB!NumlockCallback
  <2>1. x10 # <<>> /\ x10' = Tail(x10) /\ x1' = [x1 EXCEPT !.numlock = Head(x10)] /\ UNCHANGED <<x2, x7, x9, late>>
    BY <1>7 DEF KB!NumlockCallback
  <2>2. Head(x10) \in Lock /\ Tail(x10) \in Seq(Lock)
    BY <1>0, <2>1
  <2> QED
    BY <1>0, <2>1, <2>2
<1>8. CASE KB!Plug
  BY <1>0, <1>1, <1>8 DEF KB!Plug
<1>9. CASE KB!NewDevice
  <2>1. UNCHANGED <<x1, x7, x9, late>> /\ (KB!Apply(x2) \/ UNCHANGED <<x2, x10>>)
    BY <1>9 DEF KB!NewDevice
  <2> QED
    BY <1>0, <1>1, <1>2, <2>1
<1>10. CASE KB!Stop
  <2>1. x9' = (IF x9 > 0 THEN x9 - 1 ELSE 0) /\ x10' = (IF x9' > 0 THEN x10 ELSE <<>>) /\ UNCHANGED <<x1, x2, x7, late>>
    BY <1>10 DEF KB!Stop
  <2> QED
    BY <1>0, <1>1, <2>1
<1>11. CASE UNCHANGED <<x1, x2, x7, x9, x10, late>>
  BY <1>11
<1>12. (\E i : KB!CloseDialog(i)) \/ KB!Start \/ KB!DelayedShowTimeout \/ KB!MessageFilter \/ UNCHANGED KB!vars
         \/ KB!ShowLayout \/ KB!CloseLayout
         => UNCHANGED <<x1, x2, x7, x9, x10, late>>
  BY DEF KB!CloseDialog, KB!Start, KB!DelayedShowTimeout, KB!MessageFilter, KB!ShowLayout, KB!CloseLayout, KB!vars
<1> QED
  BY <1>3, <1>4, <1>5, <1>6, <1>7, <1>8, <1>9, <1>10, <1>11, <1>12 DEF KB!Next

(* What used freed memory once did so for good.                            *)
LEMMA StrayedStays ==
  ASSUME KB!KeyboardTypes, [KB!Next]_KB!vars, x21
  PROVE  x21'
<1>1. ASSUME NEW s, KB!ApplyXkb(s) PROVE x21'
  <2>1. ASSUME NEW left, KB!FilterXkbConfig(left) PROVE x21'
    BY <2>1, LayoutsAreFiltered
  <2> QED
    BY <1>1, <2>1, Zenon DEF KB!ApplyXkb
<1>2. CASE KB!StartIdle \/ KB!SettingsChanged \/ KB!NewDevice
  <2>1. (\E s : KB!ApplyXkb(s)) \/ UNCHANGED x21
    BY <1>2, Zenon DEF KB!StartIdle, KB!SettingsChanged, KB!NewDevice, KB!Apply
  <2> QED
    BY <1>1, <2>1
<1>3. CASE KB!ShowLayout \/ KB!CloseLayout \/ KB!Stop
  BY <1>3, Zenon DEF KB!ShowLayout, KB!CloseLayout, KB!Stop
<1>4. CASE KB!Start \/ KB!ChangeSettings \/ KB!DesktopChanged \/ KB!ToggleNumlock \/ KB!NumlockCallback \/ KB!Plug
  BY <1>4 DEF KB!Start, KB!ChangeSettings, KB!DesktopChanged, KB!ToggleNumlock, KB!NumlockCallback, KB!Plug, KB!memory
<1>5. CASE KB!DelayedShowTimeout \/ KB!MessageFilter \/ (\E i : KB!CloseDialog(i)) \/ UNCHANGED KB!vars
  BY <1>5 DEF KB!DelayedShowTimeout, KB!MessageFilter, KB!CloseDialog, KB!vars, KB!memory
<1> QED
  BY <1>2, <1>3, <1>4, <1>5 DEF KB!Next

(* The keyboard is set again whenever something changed is handled.        *)
LEMMA KeyboardStep ==
  ASSUME on \in BOOLEAN, KB!LetGo, KB!KeyboardTypes, KB!KeyboardIsSet, [KB!Next]_KB!vars
  PROVE  KB!KeyboardIsSet'
<1> DEFINE Field == {"repeat", "rate", "layouts", "numlock"}
           Lock  == {"on", "off", "unknown"}
           Events == x10 # <<>> => x9 > 0 /\ x10[Len(x10)] = x2.numlock
           Set    == /\ x2.repeat = x1.repeat
                     /\ x2.repeat => x2.rate = x1.rate
                     /\ x13 \/ x2.layouts = KB!Known(x1.layouts)
                     /\ x12 => Len(KB!Known(x1.layouts)) > 1 \/ x13
           Locked == x14 /\ x10 = <<>> => x2.numlock = x1.numlock
<1>0. /\ Field \subseteq DOMAIN x2 /\ x2.numlock \in Lock /\ x10 \in Seq(Lock) /\ x1.numlock \in Lock
      /\ x9 \in Nat /\ x7 \in Nat /\ Events
      /\ ~late /\ x3 => on /\ x4 = 1 /\ x9 = 1
      /\ ~late /\ ~x21 /\ x3 => x5 /\ (~x8 /\ ~x11 => Set) /\ Locked
      /\ ~late /\ ~x3 => x9 = 0 /\ ~x5 /\ ~x14
  BY DEF KB!KeyboardTypes, KB!KeyboardIsSet, KB!LetGo
<1>a. x21 => x21'
  BY StrayedStays
<1>1. ASSUME Events', ~late' /\ ~x21' /\ x3' => x5' /\ (~x8' /\ ~x11' => Set') /\ Locked',
             ~late' /\ ~x3' => ~x5' /\ ~x14'
      PROVE  KB!KeyboardIsSet'
  BY <1>1 DEF KB!KeyboardIsSet
<1>2. ASSUME KB!Apply(x2), x9' \in Nat, x9 > 0 => x9' > 0, x1' = x1
      PROVE  Events' /\ (~x21' => Set') /\ (~x14 \/ (x10 = <<>> => x2.numlock = x1.numlock) => (x9' > 0 => Locked'))
  <2>1. PICK t : t = KB!ApplySettings(x2, TRUE)
    OBVIOUS
  <2>2. /\ KB!ApplyXkb(t) /\ KB!Notify(t)
        /\ x14' = (x14 \/ t.numlock # x2.numlock \/ (x1.remember /\ t.numlock = x1.numlock))
    BY <1>2, <2>1 DEF KB!Apply
  <2>3. Field \subseteq DOMAIN t /\ t.numlock \in Lock /\ t.repeat = x1.repeat /\ (t.repeat => t.rate = x1.rate)
    BY <1>0, <2>1, SettingsAreApplied
  <2>4. /\ x2'.repeat = t.repeat /\ x2'.rate = t.rate /\ x2'.numlock = t.numlock
        /\ ~x21' => /\ x13' \/ x2'.layouts = KB!Known(x1.layouts)
                    /\ x12' => Len(KB!Known(x1.layouts)) > 1 \/ x13'
    BY <2>2, <2>3, LayoutsAreApplied
  <2>5. /\ x10' # <<>> => x9' > 0 /\ x10'[Len(x10')] = t.numlock
        /\ x9' > 0 /\ x10' = <<>> => t.numlock = x2.numlock /\ x10 = <<>>
    BY <1>0, <1>2, <2>2, <2>3, EventsAreKept
  <2>6. KB!Known(x1.layouts)' = KB!Known(x1.layouts)
    BY <1>2
  <2>7. ~x21' => Set'
    BY <1>2, <2>3, <2>4, <2>6
  <2>8. x14' => x14 \/ t.numlock # x2.numlock \/ t.numlock = x1.numlock
    BY <2>2
  <2> QED
    BY <1>2, <2>4, <2>5, <2>7, <2>8
<1>3. CASE KB!StartIdle
  <2>1. /\ KB!Apply(x2) /\ x9' = x9 + 1 /\ x1' = x1 /\ late' = (late \/ ~on \/ x3) /\ x3' = TRUE /\ x5' = TRUE
    BY <1>3 DEF KB!StartIdle
  <2>2. ~late' => ~late /\ ~x3
    BY <2>1, Zenon
  <2>3. ~late' => ~x14
    BY <1>0, <2>2
  <2> QED
    BY <1>0, <1>a, <1>1, <1>2, <2>1, <2>3
<1>4. CASE KB!ChangeSettings
  <2>1. /\ UNCHANGED <<x2, x3, x4, x5, x7, x9, x10, x11, x12, x13, x14, late>> /\ x1'.numlock = x1.numlock
        /\ x8' = (x4 + x7 > 0)
    BY <1>4 DEF KB!ChangeSettings, KB!KeyboardTypes
  <2>2. x4 = 1 => x4 + x7 > 0
    BY <1>0
  <2>3. x4 = 1 => x8'
    BY <2>1, <2>2
  <2> QED
    BY <1>0, <1>a, <1>1, <2>1, <2>3
<1>5. CASE KB!SettingsChanged
  <2>1. PICK s : s = IF x4 > 0 THEN KB!ApplySettings(x2, FALSE) ELSE x2
    OBVIOUS
  <2>2. /\ UNCHANGED <<x1, x3, x4, x5, x9, x10, x11, x14, late>>
        /\ x5 => KB!ApplyXkb(s)
        /\ ~x5 => x2' = s
    BY <1>5, <2>1 DEF KB!SettingsChanged
  <2>3. /\ Field \subseteq DOMAIN s /\ s.numlock = x2.numlock
        /\ x4 > 0 => s.repeat = x1.repeat /\ (s.repeat => s.rate = x1.rate)
    BY <1>0, <2>1, SettingsAreApplied
  <2>4. x2'.numlock = x2.numlock
    BY <2>2, <2>3, LayoutsAreApplied
  <2>5. x5 /\ x4 > 0 /\ ~x21' => Set'
    <3> SUFFICES ASSUME x5, x4 > 0, ~x21' PROVE Set'
      OBVIOUS
    <3>1. /\ x2'.repeat = s.repeat /\ x2'.rate = s.rate
          /\ x13' \/ x2'.layouts = KB!Known(x1.layouts)
          /\ x12' => Len(KB!Known(x1.layouts)) > 1 \/ x13'
      BY <2>2, <2>3, LayoutsAreApplied
    <3>2. KB!Known(x1.layouts)' = KB!Known(x1.layouts)
      BY <2>2
    <3> QED
      BY <2>2, <2>3, <3>1, <3>2
  <2> QED
    BY <1>0, <1>a, <1>1, <2>2, <2>4, <2>5
<1>6. CASE KB!DesktopChanged
  <2>1. PICK s : s = KB!ApplySettings(x2, TRUE)
    OBVIOUS
  <2>2. x2' = s /\ KB!Notify(s) /\ UNCHANGED <<x1, x3, x5, x8, x9, x11, x12, x13, x14, late>>
    BY <1>6, <2>1 DEF KB!DesktopChanged
  <2>3. s.numlock \in Lock /\ s.repeat = x1.repeat /\ (s.repeat => s.rate = x1.rate) /\ s.layouts = x2.layouts
    BY <1>0, <2>1, SettingsAreApplied
  <2>4. /\ x10' # <<>> => x9' > 0 /\ x10'[Len(x10')] = s.numlock
        /\ x9' > 0 /\ x10' = <<>> => s.numlock = x2.numlock /\ x10 = <<>>
    BY <1>0, <2>2, <2>3, EventsAreKept
  <2>5. Set => Set'
    BY <2>2, <2>3
  <2> QED
    BY <1>0, <1>a, <1>1, <2>2, <2>4, <2>5
<1>7. CASE KB!ToggleNumlock
  <2>1. PICK s : s = [x2 EXCEPT !.numlock = IF @ = "on" THEN "off" ELSE "on"]
    OBVIOUS
  <2>2. /\ x2' = s /\ KB!Notify(s) /\ UNCHANGED <<x1, x3, x5, x8, x9, x11, x12, x13, late>>
        /\ x14' = (x14 /\ x9 > 0)
    BY <1>7, <2>1 DEF KB!ToggleNumlock
  <2>3. s.numlock \in Lock /\ s.repeat = x2.repeat /\ s.rate = x2.rate /\ s.layouts = x2.layouts
    BY <1>0, <2>1
  <2>4. /\ x10' # <<>> => x9' > 0 /\ x10'[Len(x10')] = s.numlock
        /\ x9' > 0 /\ x10' = <<>> => s.numlock = x2.numlock /\ x10 = <<>>
    BY <1>0, <2>2, <2>3, EventsAreKept
  <2>5. Set => Set'
    BY <2>2, <2>3
  <2>6. x14' => x14 /\ x9 > 0
    BY <2>2
  <2> QED
    BY <1>0, <1>a, <1>1, <2>2, <2>4, <2>5, <2>6
<1>8. CASE KB!NumlockCallback
  <2>1. /\ x10 # <<>> /\ x10' = Tail(x10) /\ x1' = [x1 EXCEPT !.numlock = Head(x10)]
        /\ UNCHANGED <<x2, x3, x4, x5, x9, x11, x12, x13, late>>
        /\ x8 => x8'
    BY <1>8 DEF KB!NumlockCallback
  <2>2. /\ x1'.numlock = Head(x10) /\ x1'.repeat = x1.repeat /\ x1'.rate = x1.rate /\ x1'.layouts = x1.layouts
    BY <2>1 DEF KB!KeyboardTypes
  <2>3. Events' /\ (x10' = <<>> => Head(x10) = x2.numlock)
    <3>1. Len(x10) \in Nat /\ Len(x10) > 0 /\ Len(x10') = Len(x10) - 1 /\ \A i \in 1..Len(x10) - 1 : x10'[i] = x10[i + 1]
      BY <1>0, <2>1
    <3>2. x10' # <<>> => Len(x10') > 0
      <4>1. x10' \in Seq(Lock)
        BY <1>0, <2>1
      <4> QED
        BY <4>1
    <3>3. (x10' = <<>> => Len(x10) = 1) /\ Head(x10) = x10[1]
      <4>1. x10' = <<>> => Len(x10') = 0
        OBVIOUS
      <4>2. Len(x10') = 0 => Len(x10) = 1
        BY <3>1
      <4>3. Head(x10) = x10[1]
        BY <1>0, <2>1
      <4> QED
        BY <4>1, <4>2, <4>3
    <3> QED
      BY <1>0, <2>1, <3>1, <3>2, <3>3
  <2>4. Set => Set'
    <3>1. KB!Known(x1.layouts)' = KB!Known(x1.layouts)
      BY <2>2
    <3> QED
      BY <2>1, <2>2, <3>1
  <2>5. ~late => x3
    BY <1>0, <2>1
  <2> QED
    BY <1>0, <1>a, <1>1, <2>1, <2>2, <2>3, <2>4, <2>5
<1>9. CASE KB!Plug
  <2>1. /\ x11' = x5 /\ UNCHANGED <<x1, x3, x5, x9, x10, x14, late>> /\ x2'.numlock = x2.numlock
    BY <1>0, <1>9 DEF KB!Plug
  <2> QED
    BY <1>0, <1>a, <1>1, <2>1
<1>10. CASE KB!NewDevice
  <2>1. /\ UNCHANGED <<x1, x3, x5, x9, late>> /\ (x5 => KB!Apply(x2))
        /\ ~x5 => UNCHANGED <<x2, x10, x14>>
    BY <1>10 DEF KB!NewDevice
  <2> QED
    BY <1>0, <1>a, <1>1, <1>2, <2>1
<1>11. CASE KB!Stop
  <2>1. /\ x9' = (IF x9 > 0 THEN x9 - 1 ELSE 0) /\ x10' = (IF x9' > 0 THEN x10 ELSE <<>>)
        /\ UNCHANGED <<x1, x2, late>> /\ x3' = FALSE /\ x5' = FALSE /\ x14' = FALSE
    BY <1>11 DEF KB!Stop
  <2> QED
    BY <1>0, <1>a, <1>1, <2>1
<1>12. CASE UNCHANGED <<x1, x2, x3, x5, x8, x9, x10, x11, x12, x13, x14, late>>
  BY <1>0, <1>a, <1>1, <1>12
<1>13. (\E i : KB!CloseDialog(i)) \/ KB!Start \/ KB!DelayedShowTimeout \/ KB!MessageFilter \/ UNCHANGED KB!vars
         \/ KB!ShowLayout \/ KB!CloseLayout
         => UNCHANGED <<x1, x2, x3, x5, x8, x9, x10, x11, x12, x13, x14, late>>
  BY DEF KB!CloseDialog, KB!Start, KB!DelayedShowTimeout, KB!MessageFilter, KB!ShowLayout, KB!CloseLayout, KB!vars
<1> QED
  BY <1>3, <1>4, <1>5, <1>6, <1>7, <1>8, <1>9, <1>10, <1>11, <1>12, <1>13 DEF KB!Next

-----------------------------------------------------------------------------
(* Two settings are the same if they agree in everything.                  *)
LEMMA SettingsAreFields ==
  ASSUME NEW s \in AK!Settings
  PROVE  /\ s.enable \in BOOLEAN /\ s.timeout \in BOOLEAN /\ s.ons \subseteq AK!Feature
         /\ s.option \in [AK!Feature -> Nat]
BY DEF AK!Settings

(* What set_server_from_settings sets are controls of the server, on which *)
(* is what the settings s say, with their options as rounded.              *)
LEMMA ServerIsSet ==
  ASSUME NEW s \in AK!Settings, NEW c \in AK!Controls
  PROVE  LET t == AK!ServerOf(s, c)
         IN /\ t \in AK!Controls
            /\ t.enable = s.enable /\ t.timeout = s.timeout /\ t.ons = s.ons
            /\ \A f \in t.ons : t.option[f] = AK!Rounded(f, s.option[f])
<1> DEFINE t == AK!ServerOf(s, c)
<1>1. t.enable = s.enable /\ t.timeout = s.timeout /\ t.ons = s.ons
  BY DEF AK!ServerOf
<1>2. \A f \in AK!Feature : t.option[f] = IF f \in s.ons THEN AK!Rounded(f, s.option[f]) ELSE c.option[f]
  BY DEF AK!ServerOf
<1>3. \A f \in AK!Feature, n \in Nat : /\ AK!Rounded(f, n) \in Nat /\ AK!Rounded(f, n) > 0
                                       /\ f = "slow" => AK!Rounded(f, n) <= 500
  BY DEF AK!Rounded, AK!Feature, AK!Shortcut
<1>4. c \in AK!Settings /\ \A f \in AK!Feature : c.option[f] > 0 /\ (f = "slow" => c.option[f] <= 500)
  BY DEF AK!Controls
<1>5. \A f \in AK!Feature : t.option[f] \in Nat /\ t.option[f] > 0 /\ (f = "slow" => t.option[f] <= 500)
  BY <1>2, <1>3, <1>4, SettingsAreFields
<1>6. t \in AK!Settings
  <2>1. t.option \in [AK!Feature -> Nat]
    <3>1. t.option = [f \in AK!Feature |-> t.option[f]]
      BY DEF AK!ServerOf
    <3> HIDE DEF t
    <3> QED
      BY <1>5, <3>1
  <2>2. t = [enable |-> s.enable, timeout |-> s.timeout, ons |-> s.ons, option |-> t.option]
    BY DEF AK!ServerOf
  <2> HIDE DEF t
  <2> QED
    BY <2>1, <2>2, SettingsAreFields DEF AK!Settings
<1>7. \A f \in t.ons : t.option[f] = AK!Rounded(f, s.option[f])
  BY <1>1, <1>2, SettingsAreFields
<1> QED
  BY <1>1, <1>5, <1>6, <1>7 DEF AK!Controls

(* Settings that are taken from the server are what the server is set to.  *)
LEMMA ServerIsTaken ==
  ASSUME NEW c \in AK!Controls
  PROVE  LET s == AK!SettingsOf(c)
         IN /\ s \in AK!Settings
            /\ c.enable = s.enable /\ c.timeout = s.timeout /\ c.ons = s.ons
            /\ \A f \in c.ons : c.option[f] = AK!Rounded(f, s.option[f])
<1> DEFINE s == AK!SettingsOf(c)
<1>1. /\ c \in AK!Settings
      /\ \A f \in AK!Feature : c.option[f] \in Nat /\ c.option[f] > 0 /\ (f = "slow" => c.option[f] <= 500)
  BY DEF AK!Controls, AK!Settings
<1>2. /\ c.enable = s.enable /\ c.timeout = s.timeout /\ c.ons = s.ons
      /\ s.option = [f \in AK!Feature |-> IF f = "mouse" THEN 10 * c.option[f] ELSE c.option[f]]
      /\ s = [enable |-> c.enable, timeout |-> c.timeout, ons |-> c.ons, option |-> s.option]
  BY <1>1 DEF AK!SettingsOf, AK!Settings
<1> HIDE DEF s
<1>3. s \in AK!Settings
  <2>1. s.option \in [AK!Feature -> Nat]
    BY <1>1, <1>2
  <2> QED
    BY <1>1, <1>2, <2>1, SettingsAreFields DEF AK!Settings
<1>4. \A n \in Nat : n > 0 => (10 * n) \div 10 = n /\ 10 * n >= 1
  OBVIOUS
<1>5. \A f \in AK!Feature : c.option[f] = AK!Rounded(f, s.option[f])
  BY <1>1, <1>2, <1>4 DEF AK!Rounded
<1> QED
  BY <1>1, <1>2, <1>3, <1>5, SettingsAreFields DEF s

(* The controls are set again whenever something changed is handled, and   *)
(* nothing but a stop restores those that were before the start.           *)
LEMMA ControlsStep ==
  ASSUME on \in BOOLEAN, AK!LetGo, AK!ControlTypes, AK!ControlsAreSet, AK!ControlsAreRestored, [AK!Next]_AK!vars
  PROVE  AK!ControlTypes' /\ AK!ControlsAreSet' /\ AK!ControlsAreRestored'
<1>18. x15' \in Seq(AK!Shortcut) /\ x16' \subseteq DOMAIN x15'
  <2> DEFINE Types == x15 \in Seq(AK!Shortcut) /\ x16 \subseteq DOMAIN x15
  <2>0. Types
    BY DEF AK!ControlTypes
  <2>1. ASSUME x15' = x15, x16' \subseteq x16 PROVE Types'
    BY <2>0, <2>1
  <2>2. ASSUME NEW f \in AK!Shortcut, NEW e, AK!Ask(f, e) PROVE Types'
    <3>1. (UNCHANGED <<x15, x16>>) \/ (x15' = Append(x15, f) /\ x16' = x16 \cup {Len(x15) + 1})
      BY <2>2 DEF AK!Ask
    <3> QED
      BY <2>0, <2>1, <2>2, <3>1
  <2>3. CASE AK!XkbEventFilter
    <3>1. UNCHANGED <<x15, x16>> \/ \E f \in AK!Shortcut : AK!Ask(f, f \in AK!SettingsOf(x3).ons)
      BY <2>3, Zenon DEF AK!XkbEventFilter, AK!questions
    <3> QED
      BY <2>1, <2>2, <3>1
  <2>4. AK!Start \/ AK!StartIdle \/ AK!Stop \/ AK!ChangeSettings \/ AK!KeyboardCallback \/ AK!ServerChanges
          \/ AK!Plug \/ AK!DevicePresence \/ UNCHANGED AK!vars => UNCHANGED <<x15, x16>>
    BY DEF AK!Start, AK!StartIdle, AK!Stop, AK!ChangeSettings, AK!KeyboardCallback, AK!ServerChanges, AK!Plug,
       AK!DevicePresence, AK!questions, AK!vars
  <2>5. \A f, r : AK!AlertResponse(f, r) => UNCHANGED <<x15, x16>>
    BY DEF AK!AlertResponse
  <2>6. \A n, r : AK!NoteExpires(n) \/ AK!NotificationClosed(n) \/ AK!NoteAction(n, r)
                   => x15' = x15 /\ x16' \subseteq x16
    BY DEF AK!NoteExpires, AK!NotificationClosed, AK!NoteAction
  <2> QED
    BY <2>1, <2>3, <2>4, <2>5, <2>6 DEF AK!Next
<1> DEFINE Match  == /\ x3.enable = x2.enable /\ x3.timeout = x2.timeout /\ x3.ons = x2.ons
                     /\ \A f \in x3.ons : x3.option[f] = AK!Rounded(f, x2.option[f])
           Quiet  == ~late /\ x4 /\ ~x6 /\ ~x8 /\ ~x9
           Types  == x2 \in AK!Settings /\ x3 \in AK!Controls /\ x10 \in AK!Controls \cup {AK!None}
           Before == x19 # AK!None /\ x10 # AK!None => x10 = x19
           Restored == ~on /\ x19 # AK!None => x3 = x19
           Good   == Types' /\ (Quiet' => Match') /\ Before' /\ Restored'
<1>0. Types /\ (Quiet => Match) /\ Before /\ Restored /\ (~late /\ x4 => on /\ x5 > 0 /\ x7 > 0)
  BY DEF AK!ControlTypes, AK!ControlsAreSet, AK!ControlsAreRestored, AK!LetGo
<1>1. SUFFICES Good
  BY <1>18 DEF AK!ControlTypes, AK!ControlsAreSet, AK!ControlsAreRestored
<1>2. AK!Plain \in AK!Settings /\ AK!Plain \in AK!Controls
  BY DEF AK!Plain, AK!Settings, AK!Controls, AK!Feature, AK!Shortcut
<1>3. ASSUME NEW s, s \in AK!Settings, AK!SetServer(s), x2' \in AK!Settings, x4' => s = x2',
             UNCHANGED <<on, x10>>, AK!Touched
      PROVE  Good
  <2>1. x3' = AK!ServerOf(s, x3) /\ x19' = (IF on THEN x19 ELSE AK!None)
    BY <1>3 DEF AK!SetServer, AK!Touched
  <2>2. /\ x3' \in AK!Controls /\ x3'.enable = s.enable /\ x3'.timeout = s.timeout /\ x3'.ons = s.ons
        /\ \A f \in x3'.ons : x3'.option[f] = AK!Rounded(f, s.option[f])
    BY <1>0, <1>3, <2>1, ServerIsSet
  <2>3. x4' => Match'
    BY <1>3, <2>2
  <2> QED
    BY <1>0, <1>3, <2>1, <2>2, <2>3
<1>4. ASSUME UNCHANGED <<on, x2, x3, x10, x19>>, Quiet' => Quiet PROVE Good
  BY <1>0, <1>4
<1>5. CASE AK!Start
  <2>1. on' /\ UNCHANGED <<late, x2, x3, x4, x6, x8, x9, x10, x19>>
    BY <1>5 DEF AK!Start
  <2> QED
    BY <1>0, <2>1
<1>6. CASE AK!StartIdle
  <2>1. late' = (late \/ ~on \/ x4) /\ UNCHANGED <<on, x2>>
    BY <1>6 DEF AK!StartIdle
  <2>2. CASE x1
    <3>1. /\ x10' = x3 /\ x19' = (IF late' THEN AK!None ELSE x3) /\ x3' = AK!ServerOf(x2, x3)
      BY <1>6, <2>2 DEF AK!StartIdle, AK!SetServer
    <3>2. /\ x3' \in AK!Controls /\ x3'.enable = x2.enable /\ x3'.timeout = x2.timeout /\ x3'.ons = x2.ons
          /\ \A f \in x3'.ons : x3'.option[f] = AK!Rounded(f, x2.option[f])
      BY <1>0, <3>1, ServerIsSet
    <3>3. Match'
      BY <2>1, <3>2
    <3>4. Restored'
      <4>1. ~on' => late'
        BY <2>1, Zenon
      <4> QED
        BY <3>1, <4>1
    <3> QED
      BY <1>0, <2>1, <3>1, <3>2, <3>3, <3>4
  <2>3. CASE ~x1
    <3>1. UNCHANGED <<x3, x4, x6, x8, x9, x10, x19>>
      BY <1>6, <2>3 DEF AK!StartIdle
    <3>2. Quiet' => Quiet
      <4>1. ~late' => ~late
        BY <2>1, Zenon
      <4> QED
        BY <3>1, <4>1
    <3> QED
      BY <1>4, <2>1, <3>1, <3>2
  <2> QED
    BY <2>2, <2>3
<1>7. CASE AK!ChangeSettings
  <2>1. x2' \in AK!Settings
    <3>1. \A f \in AK!Feature : AK!Option(f) \subseteq Nat
      BY DEF AK!Option
    <3>2. \/ x2' = [x2 EXCEPT !.enable = ~@]
          \/ x2' = [x2 EXCEPT !.timeout = ~@]
          \/ \E f \in AK!Feature : \/ x2' = [x2 EXCEPT !.ons = IF f \in @ THEN @ \ {f} ELSE @ \cup {f}]
                                   \/ \E v \in AK!Option(f) : x2' = [x2 EXCEPT !.option[f] = v]
      BY <1>7 DEF AK!ChangeSettings
    <3>3. CASE x2' = [x2 EXCEPT !.enable = ~@] \/ x2' = [x2 EXCEPT !.timeout = ~@]
      BY <1>0, <3>3 DEF AK!Settings
    <3>4. ASSUME NEW f \in AK!Feature, x2' = [x2 EXCEPT !.ons = IF f \in @ THEN @ \ {f} ELSE @ \cup {f}]
          PROVE  x2' \in AK!Settings
      BY <1>0, <3>4 DEF AK!Settings
    <3>5. ASSUME NEW f \in AK!Feature, NEW v \in AK!Option(f), x2' = [x2 EXCEPT !.option[f] = v]
          PROVE  x2' \in AK!Settings
      <4>1. [x2.option EXCEPT ![f] = v] \in [AK!Feature -> Nat]
        BY <1>0, <3>1, SettingsAreFields
      <4>2. x2' = [x2 EXCEPT !.option = [x2.option EXCEPT ![f] = v]]
        BY <3>5
      <4> QED
        BY <1>0, <4>1, <4>2 DEF AK!Settings
    <3> QED
      BY <3>2, <3>3, <3>4, <3>5
  <2>2. x6' = (x5 > 0) /\ UNCHANGED <<on, late, x3, x4, x5, x10, x19>>
    BY <1>7 DEF AK!ChangeSettings
  <2>3. ~Quiet'
    <3>1. x5 > 0 => x6'
      BY <2>2
    <3> QED
      BY <1>0, <2>2, <3>1
  <2> QED
    BY <1>0, <2>1, <2>2, <2>3
<1>8. CASE AK!KeyboardCallback \/ AK!DevicePresence
  <2>1. PICK s : s = AK!Read(x2)
    OBVIOUS
  <2>2. AK!SetServer(s) /\ AK!Touched /\ UNCHANGED <<on, x2, x4, x10>>
    BY <1>8, <2>1 DEF AK!KeyboardCallback, AK!DevicePresence
  <2>3. s \in AK!Settings /\ (x4 => s = x2)
    BY <1>0, <1>2, <2>1 DEF AK!Read
  <2> QED
    BY <1>0, <1>3, <2>2, <2>3
<1>9. CASE AK!ServerChanges
  <2>1. x3' \in AK!Controls
    <3>1. x3' = [x3 EXCEPT !.enable = FALSE]
            \/ \E f \in AK!Shortcut : x3' = [x3 EXCEPT !.ons = IF f \in @ THEN @ \ {f} ELSE @ \cup {f}]
      BY <1>9 DEF AK!ServerChanges
    <3>2. AK!Shortcut \subseteq AK!Feature
      BY DEF AK!Feature
    <3>3. x3 \in AK!Settings /\ \A f \in AK!Feature : x3.option[f] > 0 /\ (f = "slow" => x3.option[f] <= 500)
      BY <1>0 DEF AK!Controls
    <3>4. x3' \in AK!Settings /\ x3'.option = x3.option
      <4>1. CASE x3' = [x3 EXCEPT !.enable = FALSE]
        <5>1. DOMAIN x3 = {"enable", "timeout", "ons", "option"}
          BY <3>3 DEF AK!Settings
        <5>2. x3' = [enable |-> FALSE, timeout |-> x3.timeout, ons |-> x3.ons, option |-> x3.option]
          BY <3>3, <4>1, <5>1 DEF AK!Settings
        <5> QED
          BY <3>3, <5>2 DEF AK!Settings
      <4>2. ASSUME NEW f \in AK!Shortcut, x3' = [x3 EXCEPT !.ons = IF f \in @ THEN @ \ {f} ELSE @ \cup {f}]
            PROVE  x3' \in AK!Settings /\ x3'.option = x3.option
        <5>1. PICK ons : ons = (IF f \in x3.ons THEN x3.ons \ {f} ELSE x3.ons \cup {f})
          OBVIOUS
        <5>2. ons \in SUBSET AK!Feature
          BY <3>2, <3>3, <5>1 DEF AK!Settings
        <5>3. x3' = [x3 EXCEPT !.ons = ons]
          BY <4>2, <5>1
        <5> QED
          BY <3>3, <5>2, <5>3 DEF AK!Settings
      <4> QED
        BY <3>1, <4>1, <4>2
    <3> QED
      BY <3>3, <3>4 DEF AK!Controls
  <2>2. x8' = (x7 > 0) /\ AK!Touched /\ UNCHANGED <<on, late, x2, x4, x7, x10>>
    BY <1>9 DEF AK!ServerChanges
  <2>3. ~Quiet'
    <3>1. x7 > 0 => x8'
      BY <2>2
    <3> QED
      BY <1>0, <2>2, <3>1
  <2> QED
    BY <1>0, <2>1, <2>2, <2>3 DEF AK!Touched
<1>10. CASE AK!Plug
  <2>1. x9' = (x7 > 0) /\ AK!Touched /\ UNCHANGED <<on, late, x2, x4, x7, x10>> /\ x3' = AK!Plain
    BY <1>10 DEF AK!Plug
  <2>2. ~Quiet'
    <3>1. x7 > 0 => x9'
      BY <2>1
    <3> QED
      BY <1>0, <2>1, <3>1
  <2> QED
    BY <1>0, <1>2, <2>1, <2>2 DEF AK!Touched
<1>11. CASE AK!XkbEventFilter
  <2>1. PICK seen : seen = AK!SettingsOf(x3)
    OBVIOUS
  <2>2. /\ x2' = seen /\ UNCHANGED <<on, late, x4, x5, x10>>
        /\ seen # x2 /\ x5 > 0 => x3' = AK!ServerOf(AK!Read(seen), x3) /\ AK!Touched
        /\ ~(seen # x2 /\ x5 > 0) => UNCHANGED <<x3, x19>>
    BY <1>11, <2>1 DEF AK!XkbEventFilter
  <2>3. /\ seen \in AK!Settings
        /\ x3.enable = seen.enable /\ x3.timeout = seen.timeout /\ x3.ons = seen.ons
        /\ \A f \in x3.ons : x3.option[f] = AK!Rounded(f, seen.option[f])
    BY <1>0, <2>1, ServerIsTaken
  <2>4. CASE seen # x2 /\ x5 > 0
    <3>1. PICK s : s = AK!Read(seen)
      OBVIOUS
    <3>2. s \in AK!Settings /\ (x4 => s = x2') /\ x3' = AK!ServerOf(s, x3) /\ AK!Touched
      BY <1>2, <2>2, <2>3, <2>4, <3>1 DEF AK!Read
    <3>3. /\ x3' \in AK!Controls /\ x3'.enable = s.enable /\ x3'.timeout = s.timeout /\ x3'.ons = s.ons
          /\ \A f \in x3'.ons : x3'.option[f] = AK!Rounded(f, s.option[f])
      BY <1>0, <3>2, ServerIsSet
    <3>4. x4' => Match'
      BY <2>2, <3>2, <3>3
    <3>5. x19' = (IF on THEN x19 ELSE AK!None)
      BY <3>2 DEF AK!Touched
    <3> QED
      BY <1>0, <2>2, <2>3, <3>3, <3>4, <3>5
  <2>5. CASE ~(seen # x2 /\ x5 > 0)
    <3>1. UNCHANGED <<x3, x19>> /\ Match'
      BY <2>2, <2>3, <2>5
    <3> QED
      BY <1>0, <2>2, <2>3, <3>1
  <2> QED
    BY <2>4, <2>5
<1>12. ASSUME NEW f \in AK!Shortcut, NEW revert, AK!Respond(f, revert), UNCHANGED <<on, late, x4, x6, x9, x10>> PROVE Good
  <2>1. CASE ~revert
    <3>1. UNCHANGED <<x2, x3, x8, x19>>
      BY <1>12, <2>1 DEF AK!Respond
    <3> QED
      BY <1>4, <1>12, <3>1
  <2>2. CASE revert
    <3>1. PICK s : s = AK!Read(x2')
      OBVIOUS
    <3>2. AK!SetServer(s) /\ AK!Touched
      BY <1>12, <2>2, <3>1 DEF AK!Respond
    <3>3. /\ x2' \in {x2, [x2 EXCEPT !.ons = x2.ons \ {f}], [x2 EXCEPT !.ons = x2.ons \cup {f}]}
          /\ x4' = x4
      BY <1>12, <2>2 DEF AK!Respond
    <3>4. x2' \in AK!Settings
      <4>1. AK!Shortcut \subseteq AK!Feature
        BY DEF AK!Feature
      <4>2. f \in AK!Feature /\ x2 \in AK!Settings /\ x2.ons \subseteq AK!Feature
        BY <1>0, <1>12, <4>1, SettingsAreFields
      <4>3. \A ons \in SUBSET AK!Feature : [x2 EXCEPT !.ons = ons] \in AK!Settings
        BY <4>2 DEF AK!Settings
      <4> QED
        BY <3>3, <4>2, <4>3
    <3>5. s \in AK!Settings /\ (x4' => s = x2')
      BY <1>2, <3>1, <3>3, <3>4 DEF AK!Read
    <3> QED
      BY <1>3, <1>12, <3>2, <3>4, <3>5
  <2> QED
    BY <2>1, <2>2
<1>13. ASSUME NEW f \in AK!Shortcut, NEW r, AK!AlertResponse(f, r) PROVE Good
  <2>1. AK!Respond(f, r) /\ UNCHANGED <<on, late, x4, x6, x9, x10>>
    BY <1>13 DEF AK!AlertResponse
  <2> QED
    BY <1>12, <1>13, <2>1
<1>14. ASSUME NEW n, NEW r, AK!NoteAction(n, r) PROVE Good
  <2>1. PICK f : f = x15[n]
    OBVIOUS
  <2>2. AK!Respond(f, r) /\ n \in x16 /\ UNCHANGED <<on, late, x4, x6, x9, x10>>
    BY <1>14, <2>1 DEF AK!NoteAction
  <2>3. f \in AK!Shortcut
    BY <2>1, <2>2 DEF AK!ControlTypes
  <2> QED
    BY <1>12, <2>2, <2>3
<1>15. (\E n : AK!NoteExpires(n) \/ AK!NotificationClosed(n)) \/ UNCHANGED AK!vars
         => UNCHANGED <<on, late, x2, x3, x4, x6, x8, x9, x10, x19>>
  BY DEF AK!NoteExpires, AK!NotificationClosed, AK!vars
<1>16. CASE AK!Stop
  <2>1. /\ x4' = FALSE /\ x3' = (IF x10 = AK!None THEN x3 ELSE x10) /\ x10' = AK!None
        /\ x19' = (IF x10 = AK!None THEN AK!None ELSE x19) /\ x2' = x2
    BY <1>16 DEF AK!Stop
  <2> QED
    BY <1>0, <2>1
<1>17. CASE UNCHANGED <<on, late, x2, x3, x4, x6, x8, x9, x10, x19>>
  BY <1>4, <1>17
<1> QED
  BY <1>5, <1>6, <1>7, <1>8, <1>9, <1>10, <1>11, <1>13, <1>14, <1>15, <1>16, <1>17 DEF AK!Next

-----------------------------------------------------------------------------
(* What can be set on a device.                                            *)
LEMMA WholeHasFields ==
  ASSUME NEW p, M!Whole(p)
  PROVE  {"buttons", "lefty", "middle", "motion", "profile", "dwt", "tap", "clicks", "edge", "two", "horizontal",
          "distance", "enabled"} = DOMAIN p
BY DEF M!Whole, M!Fresh

(* configure_button_layout makes of either mapping the one for the hand.   *)
LEMMA ButtonsAreSwapped ==
  ASSUME NEW b0 \in {<<1, 2, 3>>, <<3, 2, 1>>}, NEW left
  PROVE  LET b1 == M!ConfigureButtonLayout(b0, left)
         IN b1 \in {<<1, 2, 3>>, <<3, 2, 1>>} /\ (b1[1] = 3 <=> left)
<1>1. Len(b0) = 3 /\ DOMAIN b0 = 1..3
  OBVIOUS
<1>2. CASE b0 = <<1, 2, 3>> /\ left
  <2>1. M!ConfigureButtonLayout(b0, left)
          = [i \in 1..3 |-> IF i = 1 THEN 3 ELSE IF i \in {j \in 1..3 : b0[j] = 3 /\ \A m \in 1..j - 1 : b0[m] # 3}
                                                   THEN 1 ELSE b0[i]]
    BY <1>1, <1>2 DEF M!ConfigureButtonLayout
  <2>2. {j \in 1..3 : b0[j] = 3 /\ \A m \in 1..j - 1 : b0[m] # 3} = {3}
    <3>1. b0[1] = 1 /\ b0[2] = 2 /\ b0[3] = 3
      BY <1>2
    <3>2. \A j \in 1..3 : b0[j] = 3 <=> j = 3
      BY <3>1
    <3>3. \A m \in 1..3 - 1 : b0[m] # 3
      BY <3>1
    <3> QED
      BY <3>2, <3>3
  <2>3. M!ConfigureButtonLayout(b0, left) = <<3, 2, 1>>
    <3>1. M!ConfigureButtonLayout(b0, left) = [i \in 1..3 |-> IF i = 1 THEN 3 ELSE IF i \in {3} THEN 1 ELSE b0[i]]
      BY <2>1, <2>2
    <3>2. b0[2] = 2
      BY <1>2
    <3>3. [i \in 1..3 |-> IF i = 1 THEN 3 ELSE IF i \in {3} THEN 1 ELSE b0[i]] = <<3, 2, 1>>
      BY <3>2
    <3> QED
      BY <3>1, <3>3
  <2>4. <<3, 2, 1>>[1] = 3
    OBVIOUS
  <2> DEFINE b1 == M!ConfigureButtonLayout(b0, left)
  <2>5. b1 = <<3, 2, 1>> /\ b1[1] = 3
    BY <2>3, <2>4
  <2> HIDE DEF b1
  <2>6. b1 \in {<<1, 2, 3>>, <<3, 2, 1>>} /\ (b1[1] = 3 <=> left)
    BY <1>2, <2>5
  <2> QED
    BY <2>6 DEF b1
<1>3. CASE b0 = <<3, 2, 1>> /\ ~left
  <2>1. M!ConfigureButtonLayout(b0, left)
          = [i \in 1..3 |-> IF i = 1 THEN 1 ELSE IF i \in {j \in 1..3 : b0[j] = 1 /\ \A m \in 1..j - 1 : b0[m] # 1}
                                                   THEN 3 ELSE b0[i]]
    BY <1>1, <1>3 DEF M!ConfigureButtonLayout
  <2>2. {j \in 1..3 : b0[j] = 1 /\ \A m \in 1..j - 1 : b0[m] # 1} = {3}
    BY <1>3
  <2>3. M!ConfigureButtonLayout(b0, left) = <<1, 2, 3>>
    BY <1>3, <2>1, <2>2
  <2> QED
    BY <1>3, <2>3
<1>4. CASE (b0 = <<1, 2, 3>> /\ ~left) \/ (b0 = <<3, 2, 1>> /\ left)
  <2>1. M!ConfigureButtonLayout(b0, left) = b0
    BY <1>1, <1>4 DEF M!ConfigureButtonLayout
  <2> QED
    BY <1>4, <2>1
<1> QED
  BY <1>2, <1>3, <1>4

(* What SetTap sets: a touchpad taps if it should, and if it is synaptics  *)
(* the fingers are by the hand.                                            *)
LEMMA TapIsSet ==
  ASSUME NEW dev, NEW p, M!Whole(p), NEW s, s.onefinger \in {0, 1, 3}, NEW left
  PROVE  LET q == M!SetTap(dev, p, s, left)
         IN /\ M!Whole(q) /\ \A f \in DOMAIN p \ {"tap"} : q[f] = p[f]
            /\ M!TapsFollow(dev, q, s)
            /\ M!IsTouchpad(dev) /\ dev.driver = "synaptics" /\ s.tap
                 => (left <=> (q.tap = 1 <=> s.onefinger = 3))
            /\ ~M!IsTouchpad(dev) => q = p
<1>1. CASE ~M!IsTouchpad(dev)
  BY <1>1 DEF M!SetTap, M!TapsFollow
<1>2. CASE M!IsTouchpad(dev) /\ dev.driver = "synaptics"
  <2> DEFINE finger == IF s.onefinger \in 1..3 THEN s.onefinger ELSE 1
             tapped == IF ~s.tap THEN 0 ELSE IF left THEN 4 - finger ELSE finger
  <2>1. M!SetTap(dev, p, s, left) = [p EXCEPT !.tap = tapped]
    BY <1>2 DEF M!SetTap
  <2>2. (tapped = 0 <=> ~s.tap) /\ (s.tap => (left <=> (tapped = 1 <=> s.onefinger = 3)))
    OBVIOUS
  <2> HIDE DEF tapped
  <2> QED
    BY <1>2, <2>1, <2>2, WholeHasFields DEF M!TapsFollow, M!Whole
<1>3. CASE M!IsTouchpad(dev) /\ dev.driver # "synaptics"
  <2>1. M!SetTap(dev, p, s, left) = [p EXCEPT !.tap = IF s.tap THEN 1 ELSE 0]
    BY <1>3 DEF M!SetTap
  <2> QED
    BY <1>3, <2>1, WholeHasFields DEF M!TapsFollow, M!Whole
<1> QED
  BY <1>1, <1>2, <1>3

(* What SetLeftHanded sets: the hand, and the taps with it if there are    *)
(* any.                                                                    *)
LEMMA LeftHandedIsSet ==
  ASSUME NEW dev, NEW p, M!Whole(p), NEW s, s.onefinger \in {0, 1, 3}, NEW known, dev.driver \in known,
         dev.driver = "synaptics" => M!IsTouchpad(dev)
  PROVE  LET q == M!SetLeftHanded(dev, p, s, known)
         IN /\ M!Whole(q) /\ \A f \in DOMAIN p \ {"tap", "lefty", "buttons"} : q[f] = p[f]
            /\ M!HandFollows(dev, q, s, known)
            /\ M!TapsFollow(dev, p, s) => M!TapsFollow(dev, q, s)
            /\ M!TapsAreMirrored(dev, q, s, known)
<1> DEFINE left == M!WantLeft(dev, s)
           q    == M!SetLeftHanded(dev, p, s, known)
           Good == /\ M!Whole(q) /\ \A f \in DOMAIN p \ {"tap", "lefty", "buttons"} : q[f] = p[f]
                   /\ M!HandFollows(dev, q, s, known)
                   /\ M!TapsFollow(dev, p, s) => M!TapsFollow(dev, q, s)
                   /\ M!TapsAreMirrored(dev, q, s, known)
<1> SUFFICES Good
  OBVIOUS
<1> HIDE DEF Good
<1>1. CASE "libinput" \in known
  <2>1. CASE dev.driver = "libinput"
    <3>1. q = [p EXCEPT !.lefty = left]
      BY <1>1, <2>1 DEF M!SetLeftHanded
    <3>2. q.lefty = left /\ M!Whole(q) /\ \A f \in DOMAIN p \ {"lefty"} : q[f] = p[f]
      BY <3>1, WholeHasFields DEF M!Whole
    <3> HIDE DEF left, q
    <3>3. M!HandFollows(dev, q, s, known)
      BY <2>1, <3>2 DEF M!HandFollows, left
    <3>4. q.tap = p.tap
      BY <3>2, WholeHasFields
    <3>5. M!TapsFollow(dev, p, s) => M!TapsFollow(dev, q, s)
      BY <3>4 DEF M!TapsFollow
    <3>6. M!TapsAreMirrored(dev, q, s, known)
      BY <2>1 DEF M!TapsAreMirrored
    <3>7. \A f \in DOMAIN p \ {"tap", "lefty", "buttons"} : q[f] = p[f]
      BY <3>2
    <3> QED
      BY <3>2, <3>3, <3>5, <3>6, <3>7 DEF Good
  <2>2. CASE dev.driver # "libinput"
    <3>1. q = p
      BY <1>1, <2>2 DEF M!SetLeftHanded
    <3> HIDE DEF q
    <3>2. M!HandFollows(dev, q, s, known)
      BY <1>1, <2>2 DEF M!HandFollows, M!Own
    <3>3. M!TapsAreMirrored(dev, q, s, known)
      BY <1>1, <2>2 DEF M!TapsAreMirrored, M!Own
    <3> QED
      BY <3>1, <3>2, <3>3 DEF Good
  <2> QED
    BY <2>1, <2>2
<1>2. CASE "libinput" \notin known
  <2> DEFINE taps == IF M!IsTouchpad(dev) /\ s.tap /\ ~dev.single THEN M!SetTap(dev, p, s, left) ELSE p
  <2>0. dev.driver # "libinput"
    BY <1>2
  <2>1. /\ M!Whole(taps) /\ \A f \in DOMAIN p \ {"tap"} : taps[f] = p[f]
        /\ M!TapsFollow(dev, p, s) => M!TapsFollow(dev, taps, s)
        /\ M!TapsAreMirrored(dev, taps, s, known)
    <3>1. CASE M!IsTouchpad(dev) /\ s.tap /\ ~dev.single
      <4>1. taps = M!SetTap(dev, p, s, left)
        BY <3>1
      <4> HIDE DEF taps
      <4> QED
        BY <3>1, <4>1, TapIsSet DEF M!TapsAreMirrored
    <3>2. CASE ~(M!IsTouchpad(dev) /\ s.tap /\ ~dev.single)
      <4>1. taps = p
        BY <3>2
      <4> HIDE DEF taps
      <4> QED
        BY <3>2, <4>1 DEF M!TapsAreMirrored
    <3> QED
      BY <3>1, <3>2
  <2>2. q = IF M!IsTouchpad(dev) /\ dev.single THEN taps
            ELSE [taps EXCEPT !.buttons = M!ConfigureButtonLayout(taps.buttons, left)]
    BY <1>2 DEF M!SetLeftHanded
  <2> HIDE DEF taps, q
  <2>3. CASE M!IsTouchpad(dev) /\ dev.single
    <3>1. q = taps
      BY <2>2, <2>3
    <3>2. M!HandFollows(dev, q, s, known)
      BY <2>0, <2>3 DEF M!HandFollows
    <3>3. \A f \in DOMAIN p \ {"tap", "lefty", "buttons"} : q[f] = p[f]
      BY <2>1, <3>1
    <3> QED
      BY <2>1, <3>1, <3>2, <3>3 DEF Good
  <2>4. CASE ~(M!IsTouchpad(dev) /\ dev.single)
    <3> DEFINE new == M!ConfigureButtonLayout(taps.buttons, left)
    <3>1. new \in {<<1, 2, 3>>, <<3, 2, 1>>} /\ (new[1] = 3 <=> left)
      BY <2>1, ButtonsAreSwapped DEF M!Whole
    <3>2. q = [taps EXCEPT !.buttons = new]
      BY <2>2, <2>4
    <3> HIDE DEF new, left
    <3>3. q.buttons = new /\ M!Whole(q) /\ \A f \in DOMAIN p \ {"buttons"} : q[f] = taps[f]
      BY <2>1, <3>1, <3>2, WholeHasFields DEF M!Whole
    <3>4. q.tap = taps.tap
      BY <3>3, WholeHasFields
    <3>5. M!HandFollows(dev, q, s, known)
      BY <2>0, <3>1, <3>3 DEF M!HandFollows, left
    <3>6. M!TapsFollow(dev, p, s) => M!TapsFollow(dev, q, s)
      BY <2>1, <3>4 DEF M!TapsFollow
    <3>7. M!TapsAreMirrored(dev, q, s, known)
      BY <2>1, <3>4 DEF M!TapsAreMirrored
    <3>8. \A f \in DOMAIN p \ {"tap", "lefty", "buttons"} : q[f] = p[f]
      BY <2>1, <3>3
    <3> QED
      BY <3>3, <3>5, <3>6, <3>7, <3>8 DEF Good
  <2> QED
    BY <2>3, <2>4
<1> QED
  BY <1>1, <1>2

(* q is a device that differs from p in nothing but the fields.            *)
Touched(q, p, fields) == M!Whole(q) /\ \A f \in DOMAIN M!Fresh \ fields : q[f] = p[f]

(* Each of the claims holds of a device that it held of before, if none of *)
(* the fields that it is about is touched.                                 *)
LEMMA MotionIsLeft ==
  ASSUME NEW dev, NEW p, NEW q, NEW fields, Touched(q, p, fields), NEW s, NEW known,
         "motion" \notin fields, M!MotionFollows(dev, p, s, known)
  PROVE  M!MotionFollows(dev, q, s, known)
<1>1. q.motion = p.motion
  BY DEF Touched, M!Fresh
<1> QED
  BY <1>1 DEF M!MotionFollows

LEMMA HandIsLeft ==
  ASSUME NEW dev, NEW p, NEW q, NEW fields, Touched(q, p, fields), NEW s, NEW known,
         fields \cap {"lefty", "buttons"} = {}, M!HandFollows(dev, p, s, known)
  PROVE  M!HandFollows(dev, q, s, known)
<1>1. q.lefty = p.lefty /\ q.buttons = p.buttons
  BY DEF Touched, M!Fresh
<1> QED
  BY <1>1 DEF M!HandFollows

LEMMA TapsIsLeft ==
  ASSUME NEW dev, NEW p, NEW q, NEW fields, Touched(q, p, fields), NEW s,
         "tap" \notin fields, M!TapsFollow(dev, p, s)
  PROVE  M!TapsFollow(dev, q, s)
<1>1. q.tap = p.tap
  BY DEF Touched, M!Fresh
<1> QED
  BY <1>1 DEF M!TapsFollow

LEMMA MirroredIsLeft ==
  ASSUME NEW dev, NEW p, NEW q, NEW fields, Touched(q, p, fields), NEW s, NEW known,
         "tap" \notin fields, M!TapsAreMirrored(dev, p, s, known)
  PROVE  M!TapsAreMirrored(dev, q, s, known)
<1>1. q.tap = p.tap
  BY DEF Touched, M!Fresh
<1> QED
  BY <1>1 DEF M!TapsAreMirrored

LEMMA EnablingIsLeft ==
  ASSUME NEW dev, NEW p, NEW q, NEW fields, Touched(q, p, fields), NEW s,
         "enabled" \notin fields, M!EnablingFollows(dev, p, s)
  PROVE  M!EnablingFollows(dev, q, s)
<1>1. q.enabled = p.enabled
  BY DEF Touched, M!Fresh
<1> QED
  BY <1>1 DEF M!EnablingFollows

LEMMA ScrollingIsLeft ==
  ASSUME NEW dev, NEW p, NEW q, NEW fields, Touched(q, p, fields), NEW s,
         "distance" \notin fields, M!ScrollingFollows(dev, p, s)
  PROVE  M!ScrollingFollows(dev, q, s)
<1>1. q.distance = p.distance
  BY DEF Touched, M!Fresh
<1> QED
  BY <1>1 DEF M!ScrollingFollows

LEMMA OneWayIsLeft ==
  ASSUME NEW dev, NEW p, NEW q, NEW fields, Touched(q, p, fields),
         fields \cap {"edge", "two"} = {}, M!ScrollsOneWay(dev, p)
  PROVE  M!ScrollsOneWay(dev, q)
<1>1. q.edge = p.edge /\ q.two = p.two
  BY DEF Touched, M!Fresh
<1> QED
  BY <1>1 DEF M!ScrollsOneWay

LEMMA TouchedTwice ==
  ASSUME NEW p, NEW q, NEW r, NEW one, NEW two, Touched(q, p, one), Touched(r, q, two)
  PROVE  Touched(r, p, one \cup two)
BY DEF Touched

(* What the rest of the functions set on a device.                         *)
LEMMA FieldIsSet ==
  ASSUME NEW p, M!Whole(p), NEW f \in DOMAIN M!Fresh, f # "buttons", NEW v
  PROVE  Touched([p EXCEPT ![f] = v], p, {f}) /\ [p EXCEPT ![f] = v][f] = v
BY DEF Touched, M!Whole, M!Fresh

LEMMA MotionIsSet ==
  ASSUME NEW dev, NEW p, M!Whole(p), NEW s, NEW known
  PROVE  LET q == M!SetMotion(dev, p, s, known)
         IN Touched(q, p, {"motion"}) /\ M!MotionFollows(dev, q, s, known)
<1> DEFINE v == IF M!IsTouchpad(dev) THEN s.padmotion ELSE s.motion
<1>1. Touched(p, p, {"motion"})
  BY DEF Touched
<1>2. Touched([p EXCEPT !.motion = v], p, {"motion"}) /\ [p EXCEPT !.motion = v].motion = v
  <2>1. "motion" \in DOMAIN M!Fresh
    BY DEF M!Fresh
  <2> QED
    BY <2>1, FieldIsSet
<1>3. CASE "libinput" \in known /\ dev.driver # "libinput"
  BY <1>1, <1>3 DEF M!SetMotion, M!MotionFollows, M!Own
<1>4. CASE ~("libinput" \in known /\ dev.driver # "libinput")
  BY <1>2, <1>4 DEF M!SetMotion, M!MotionFollows
<1> QED
  BY <1>3, <1>4

LEMMA OthersAreSet ==
  ASSUME NEW dev, NEW p, M!Whole(p), NEW s
  PROVE  /\ Touched(M!SetProfile(dev, p, s), p, {"profile"})
         /\ Touched(M!SetMiddle(dev, p, s), p, {"middle"})
         /\ Touched(M!SetTyping(dev, p, s), p, {"dwt"})
         /\ Touched(M!SetClicks(dev, p, s), p, {"clicks"})
<1>1. \A f : Touched(p, p, {f})
  BY DEF Touched
<1>2. {"profile", "middle", "dwt", "clicks"} \subseteq DOMAIN M!Fresh \ {"buttons"}
  BY DEF M!Fresh
<1>3. \A v : Touched([p EXCEPT !.profile = v], p, {"profile"})
  BY <1>2, FieldIsSet
<1>4. \A v : Touched([p EXCEPT !.middle = v], p, {"middle"})
  BY <1>2, FieldIsSet
<1>5. \A v : Touched([p EXCEPT !.dwt = v], p, {"dwt"})
  BY <1>2, FieldIsSet
<1>6. \A v : Touched([p EXCEPT !.clicks = v], p, {"clicks"})
  BY <1>2, FieldIsSet
<1>7. Touched(M!SetProfile(dev, p, s), p, {"profile"})
  BY <1>1, <1>3 DEF M!SetProfile
<1>8. Touched(M!SetMiddle(dev, p, s), p, {"middle"})
  BY <1>1, <1>4 DEF M!SetMiddle
<1>9. Touched(M!SetTyping(dev, p, s), p, {"dwt"})
  BY <1>1, <1>5 DEF M!SetTyping
<1>10. Touched(M!SetClicks(dev, p, s), p, {"clicks"})
  BY <1>1, <1>6 DEF M!SetClicks
<1> QED
  BY <1>7, <1>8, <1>9, <1>10

LEMMA NaturalIsSet ==
  ASSUME NEW dev, NEW p, M!Whole(p), NEW s
  PROVE  LET q == M!SetNatural(dev, p, s)
         IN Touched(q, p, {"distance"}) /\ M!ScrollingFollows(dev, q, s)
<1> DEFINE v == IF s.natural THEN -1 ELSE 1
<1>1. Touched(p, p, {"distance"})
  BY DEF Touched
<1>2. Touched([p EXCEPT !.distance = v], p, {"distance"}) /\ [p EXCEPT !.distance = v].distance = v
  <2>1. "distance" \in DOMAIN M!Fresh
    BY DEF M!Fresh
  <2> QED
    BY <2>1, FieldIsSet
<1>3. v < 0 <=> s.natural
  OBVIOUS
<1>4. CASE ~M!IsTouchpad(dev)
  BY <1>1, <1>4 DEF M!SetNatural, M!ScrollingFollows
<1>5. CASE M!IsTouchpad(dev)
  <2> DEFINE q == M!SetNatural(dev, p, s)
  <2>1. q = [p EXCEPT !.distance = v]
    BY <1>5 DEF M!SetNatural
  <2> HIDE DEF v
  <2>2. Touched(q, p, {"distance"}) /\ q.distance = v
    BY <1>2, <2>1
  <2> HIDE DEF q
  <2>3. M!ScrollingFollows(dev, q, s)
    BY <1>3, <2>2 DEF M!ScrollingFollows
  <2> QED
    BY <2>2, <2>3 DEF q
<1> QED
  BY <1>4, <1>5

LEMMA EnabledIsSet ==
  ASSUME NEW dev, NEW p, M!Whole(p), NEW s
  PROVE  LET q == M!SetEnabled(dev, p, s)
         IN Touched(q, p, {"enabled"}) /\ M!EnablingFollows(dev, q, s)
<1>1. Touched(p, p, {"enabled"})
  BY DEF Touched
<1>2. Touched([p EXCEPT !.enabled = s.enabled], p, {"enabled"}) /\ [p EXCEPT !.enabled = s.enabled].enabled = s.enabled
  <2>1. "enabled" \in DOMAIN M!Fresh /\ "enabled" # "buttons"
    BY DEF M!Fresh
  <2>2. PICK v : v = s.enabled
    OBVIOUS
  <2>3. Touched([p EXCEPT !["enabled"] = v], p, {"enabled"}) /\ [p EXCEPT !["enabled"] = v]["enabled"] = v
    BY <2>1, FieldIsSet
  <2> QED
    BY <2>2, <2>3, Zenon
<1>3. CASE ~M!IsTouchpad(dev)
  BY <1>1, <1>3 DEF M!SetEnabled, M!EnablingFollows
<1>4. CASE M!IsTouchpad(dev)
  BY <1>2, <1>4 DEF M!SetEnabled, M!EnablingFollows
<1> QED
  BY <1>3, <1>4

(* A touchpad of libinput scrolls with two fingers or at its edge.         *)
LEMMA ScrollingIsSet ==
  ASSUME NEW dev, NEW p, M!Whole(p), NEW s
  PROVE  LET q == M!SetScrolling(dev, p, s)
         IN Touched(q, p, {"edge", "two", "horizontal"}) /\ M!ScrollsOneWay(dev, q)
<1> DEFINE q == M!SetScrolling(dev, p, s)
           some == {"edge", "two", "horizontal"}
<1> SUFFICES Touched(q, p, some) /\ M!ScrollsOneWay(dev, q)
  OBVIOUS
<1>1. CASE ~M!IsTouchpad(dev)
  <2>1. q = p
    BY <1>1 DEF M!SetScrolling
  <2> QED
    BY <1>1, <2>1 DEF Touched, M!ScrollsOneWay
<1>2. CASE M!IsTouchpad(dev) /\ dev.driver = "synaptics"
  <2> DEFINE edge == <<s.vedge, s.hedge>>
             two  == <<s.vtwo, s.htwo>>
  <2>1. q = [p EXCEPT !.edge = edge, !.two = two]
    BY <1>2 DEF M!SetScrolling
  <2> HIDE DEF edge, two, q
  <2>2. Touched(q, p, some)
    BY <2>1, WholeHasFields DEF Touched, M!Whole, M!Fresh
  <2> QED
    BY <1>2, <2>2 DEF M!ScrollsOneWay
<1>3. CASE M!IsTouchpad(dev) /\ dev.driver # "synaptics"
  <2> DEFINE edge == <<s.vedge /\ ~s.vtwo, p.edge[2]>>
             two  == <<s.vtwo, p.two[2]>>
             side == IF s.vtwo THEN s.htwo ELSE IF s.vedge THEN s.hedge ELSE p.horizontal
  <2>1. q = [p EXCEPT !.two = two, !.edge = edge, !.horizontal = side]
    BY <1>3 DEF M!SetScrolling
  <2>2. ~(edge[1] /\ two[1])
    <3>1. two[1] = s.vtwo
      OBVIOUS
    <3>2. edge[1] = (s.vedge /\ ~s.vtwo)
      OBVIOUS
    <3> HIDE DEF edge, two
    <3> QED
      BY <3>1, <3>2, Zenon
  <2> HIDE DEF edge, two, side, q
  <2>3. Touched(q, p, some)
    BY <2>1, WholeHasFields DEF Touched, M!Whole, M!Fresh
  <2>4. q.edge = edge /\ q.two = two
    BY <2>1, WholeHasFields
  <2> QED
    BY <2>2, <2>3, <2>4 DEF M!ScrollsOneWay
<1> QED
  BY <1>1, <1>2, <1>3

(* A device that the manager knows, and settings it can be set to.         *)
Known(dev, s, known) ==
  /\ dev.driver \in known /\ (dev.driver = "synaptics" => M!IsTouchpad(dev))
  /\ s.onefinger \in {0, 1, 3}

(* A tap is of the finger that the hand is given for.                      *)
LEMMA TapFollowsHand ==
  ASSUME NEW dev, NEW p, M!Whole(p), NEW s, NEW known, Known(dev, s, known)
  PROVE  LET q == M!SetTap(dev, p, s, M!TouchpadHandedness(s))
         IN Touched(q, p, {"tap"}) /\ M!TapsFollow(dev, q, s) /\ M!TapsAreMirrored(dev, q, s, known)
<1>0. s.onefinger \in {0, 1, 3} /\ (dev.driver = "synaptics" => M!IsTouchpad(dev))
  BY DEF Known
<1>1. PICK q : q = M!SetTap(dev, p, s, M!TouchpadHandedness(s))
  OBVIOUS
<1>2. CASE M!IsTouchpad(dev)
  <2> DEFINE left == M!WantLeft(dev, s)
  <2>1. q = M!SetTap(dev, p, s, left)
    BY <1>1, <1>2 DEF M!WantLeft
  <2>2. /\ M!Whole(q) /\ \A f \in DOMAIN p \ {"tap"} : q[f] = p[f]
        /\ M!TapsFollow(dev, q, s)
        /\ M!TapsAreMirrored(dev, q, s, known)
    BY <1>0, <1>2, <2>1, TapIsSet DEF M!TapsAreMirrored
  <2> QED
    BY <1>1, <2>2 DEF Touched, M!Whole
<1>3. CASE ~M!IsTouchpad(dev)
  <2>1. q = p
    BY <1>1, <1>3 DEF M!SetTap
  <2>2. M!TapsFollow(dev, q, s) /\ M!TapsAreMirrored(dev, q, s, known)
    BY <1>0, <1>3 DEF M!TapsFollow, M!TapsAreMirrored
  <2> QED
    BY <1>1, <2>1, <2>2 DEF Touched
<1> QED
  BY <1>2, <1>3

LEMMA HandIsSet ==
  ASSUME NEW dev, NEW p, M!Whole(p), NEW s, NEW known, Known(dev, s, known)
  PROVE  LET q == M!SetLeftHanded(dev, p, s, known)
         IN /\ Touched(q, p, {"tap", "lefty", "buttons"})
            /\ M!HandFollows(dev, q, s, known) /\ M!TapsAreMirrored(dev, q, s, known)
            /\ M!TapsFollow(dev, p, s) => M!TapsFollow(dev, q, s)
BY LeftHandedIsSet DEF Known, Touched, M!Whole

(* set_mouse_settings makes a device follow every setting.                 *)
LEMMA SetAllFollows ==
  ASSUME NEW dev, NEW p, M!Whole(p), NEW s, NEW known, Known(dev, s, known), NEW pending
  PROVE  LET q == M!SetAll(dev, p, s, known)
         IN M!Whole(q) /\ M!DeviceFollows(dev, q, s, known, pending) /\ M!ScrollsOneWay(dev, q)
<1> DEFINE p1 == M!SetLeftHanded(dev, p, s, known)
           p2 == M!SetMotion(dev, p1, s, known)
           m3 == M!SetMiddle(dev, p2, s)
           p3 == M!SetTyping(dev, m3, s)
           p4 == M!SetTap(dev, p3, s, M!TouchpadHandedness(s))
           c5 == M!SetClicks(dev, p4, s)
           p5 == M!SetScrolling(dev, c5, s)
           n6 == M!SetNatural(dev, p5, s)
           p6 == M!SetEnabled(dev, n6, s)
           q  == M!SetProfile(dev, p6, s)
<1>0. M!SetAll(dev, p, s, known) = q
  BY DEF M!SetAll
<1> HIDE DEF q, p6, n6, p5, c5, p4, p3, m3, p2
<1>1. M!Whole(p1) /\ M!HandFollows(dev, p1, s, known)
  BY HandIsSet DEF Touched
<1> HIDE DEF p1
<1>2. Touched(p2, p1, {"motion"}) /\ M!MotionFollows(dev, p2, s, known) /\ M!Whole(p2)
  BY <1>1, MotionIsSet DEF p2, Touched
<1>3. Touched(m3, p2, {"middle"}) /\ M!Whole(m3)
  <2>1. Touched(m3, p2, {"middle"})
    BY <1>2, OthersAreSet DEF m3
  <2> QED
    BY <2>1 DEF Touched
<1>4. Touched(p3, m3, {"dwt"}) /\ M!Whole(p3)
  <2>1. Touched(p3, m3, {"dwt"})
    BY <1>3, OthersAreSet DEF p3
  <2> QED
    BY <2>1 DEF Touched
<1>5. /\ Touched(p4, p3, {"tap"}) /\ M!Whole(p4)
      /\ M!TapsFollow(dev, p4, s) /\ M!TapsAreMirrored(dev, p4, s, known)
  BY <1>4, TapFollowsHand DEF p4, Touched
<1>6. Touched(c5, p4, {"clicks"}) /\ M!Whole(c5)
  <2>1. Touched(c5, p4, {"clicks"})
    BY <1>5, OthersAreSet DEF c5
  <2> QED
    BY <2>1 DEF Touched
<1>7. Touched(p5, c5, {"edge", "two", "horizontal"}) /\ M!ScrollsOneWay(dev, p5) /\ M!Whole(p5)
  BY <1>6, ScrollingIsSet DEF p5, Touched
<1>8. Touched(n6, p5, {"distance"}) /\ M!ScrollingFollows(dev, n6, s) /\ M!Whole(n6)
  BY <1>7, NaturalIsSet DEF n6, Touched
<1>9. Touched(p6, n6, {"enabled"}) /\ M!EnablingFollows(dev, p6, s) /\ M!Whole(p6)
  BY <1>8, EnabledIsSet DEF p6, Touched
<1>10. Touched(q, p6, {"profile"}) /\ M!Whole(q)
  BY <1>9, OthersAreSet DEF q, Touched
<1>11. Touched(q, n6, {"enabled", "profile"})
  BY <1>9, <1>10, TouchedTwice
<1>12. Touched(q, p5, {"distance"} \cup {"enabled", "profile"})
  BY <1>8, <1>11, TouchedTwice
<1>13. Touched(q, p4, {"clicks"} \cup {"edge", "two", "horizontal"} \cup ({"distance"} \cup {"enabled", "profile"}))
  <2>1. Touched(p5, p4, {"clicks"} \cup {"edge", "two", "horizontal"})
    BY <1>6, <1>7, TouchedTwice
  <2> QED
    BY <1>12, <2>1, TouchedTwice
<1>14. Touched(q, p2, {"middle", "dwt", "tap", "clicks", "edge", "two", "horizontal", "distance", "enabled", "profile"})
  <2>1. Touched(p3, p2, {"middle"} \cup {"dwt"})
    BY <1>3, <1>4, TouchedTwice
  <2>2. Touched(p4, p2, {"middle"} \cup {"dwt"} \cup {"tap"})
    BY <1>5, <2>1, TouchedTwice
  <2> DEFINE one == {"middle"} \cup {"dwt"} \cup {"tap"}
             two == {"clicks"} \cup {"edge", "two", "horizontal"} \cup ({"distance"} \cup {"enabled", "profile"})
  <2>3. Touched(q, p2, one \cup two)
    BY <1>13, <2>2, TouchedTwice
  <2> QED
    BY <2>3 DEF Touched
<1>15. M!EnablingFollows(dev, q, s)
  BY <1>9, <1>10, EnablingIsLeft
<1>16. M!ScrollingFollows(dev, q, s)
  BY <1>8, <1>11, ScrollingIsLeft
<1>18. M!ScrollsOneWay(dev, q)
  BY <1>7, <1>12, OneWayIsLeft
<1>19. M!TapsFollow(dev, q, s)
  BY <1>5, <1>13, TapsIsLeft
<1>20. M!TapsAreMirrored(dev, q, s, known)
  BY <1>5, <1>13, MirroredIsLeft
<1>21. M!MotionFollows(dev, q, s, known)
  BY <1>2, <1>14, MotionIsLeft
<1>22. M!HandFollows(dev, q, s, known)
  <2>1. M!HandFollows(dev, p2, s, known)
    BY <1>1, <1>2, HandIsLeft
  <2> QED
    BY <1>14, <2>1, HandIsLeft
<1>17. M!DeviceFollows(dev, q, s, known, pending)
  BY <1>15, <1>16, <1>19, <1>20, <1>21, <1>22 DEF M!DeviceFollows
<1> QED
  BY <1>0, <1>10, <1>17, <1>18

(* The callback of a key makes a device follow it, and spoils no other.    *)
LEMMA SetKeyFollows ==
  ASSUME NEW dev, NEW p, M!Whole(p), NEW s, NEW known, Known(dev, s, known), NEW pending, NEW k \in DOMAIN M!Default
  PROVE  LET q == M!SetKey(k, dev, p, s, known)
         IN /\ M!Whole(q)
            /\ M!DeviceFollows(dev, p, s, known, pending) => M!DeviceFollows(dev, q, s, known, pending \ {k})
            /\ M!ScrollsOneWay(dev, p) => M!ScrollsOneWay(dev, q)
<1> DEFINE q == M!SetKey(k, dev, p, s, known)
           Good == /\ M!Whole(q)
                   /\ M!DeviceFollows(dev, p, s, known, pending) => M!DeviceFollows(dev, q, s, known, pending \ {k})
                   /\ M!ScrollsOneWay(dev, p) => M!ScrollsOneWay(dev, q)
<1> SUFFICES Good
  OBVIOUS
<1> HIDE DEF q
<1>0. k \in {"left", "padleft", "middle", "motion", "padmotion", "profile", "padprofile", "locate", "dwt", "tap",
              "onefinger", "click2", "click3", "vedge", "hedge", "vtwo", "htwo", "natural", "enabled"}
  BY DEF M!Default
<1>1. CASE k \in {"left", "padleft"}
  <2>1. q = M!SetLeftHanded(dev, p, s, known)
    BY <1>1 DEF q, M!SetKey
  <2>2. /\ Touched(q, p, {"tap", "lefty", "buttons"})
        /\ M!HandFollows(dev, q, s, known) /\ M!TapsAreMirrored(dev, q, s, known)
        /\ M!TapsFollow(dev, p, s) => M!TapsFollow(dev, q, s)
    BY <2>1, HandIsSet
  <2>3. /\ M!MotionFollows(dev, p, s, known) => M!MotionFollows(dev, q, s, known)
        /\ M!EnablingFollows(dev, p, s) => M!EnablingFollows(dev, q, s)
        /\ M!ScrollingFollows(dev, p, s) => M!ScrollingFollows(dev, q, s)
        /\ M!ScrollsOneWay(dev, p) => M!ScrollsOneWay(dev, q)
    <3>1. M!MotionFollows(dev, p, s, known) => M!MotionFollows(dev, q, s, known)
      BY <2>2, MotionIsLeft
    <3>2. M!EnablingFollows(dev, p, s) => M!EnablingFollows(dev, q, s)
      BY <2>2, EnablingIsLeft
    <3>3. M!ScrollingFollows(dev, p, s) => M!ScrollingFollows(dev, q, s)
      BY <2>2, ScrollingIsLeft
    <3>4. M!ScrollsOneWay(dev, p) => M!ScrollsOneWay(dev, q)
      BY <2>2, OneWayIsLeft
    <3> QED
      BY <3>1, <3>2, <3>3, <3>4
  <2> QED
    BY <1>1, <2>2, <2>3 DEF M!DeviceFollows, Touched
<1>2. CASE k \in {"motion", "padmotion"}
  <2>1. q = M!SetMotion(dev, p, s, known)
    BY <1>2 DEF q, M!SetKey
  <2>2. Touched(q, p, {"motion"}) /\ M!MotionFollows(dev, q, s, known)
    BY <2>1, MotionIsSet
  <2>3. /\ M!HandFollows(dev, p, s, known) => M!HandFollows(dev, q, s, known)
        /\ M!TapsFollow(dev, p, s) => M!TapsFollow(dev, q, s)
        /\ M!TapsAreMirrored(dev, p, s, known) => M!TapsAreMirrored(dev, q, s, known)
        /\ M!EnablingFollows(dev, p, s) => M!EnablingFollows(dev, q, s)
        /\ M!ScrollingFollows(dev, p, s) => M!ScrollingFollows(dev, q, s)
        /\ M!ScrollsOneWay(dev, p) => M!ScrollsOneWay(dev, q)
    <3>1. M!HandFollows(dev, p, s, known) => M!HandFollows(dev, q, s, known)
      BY <2>2, HandIsLeft
    <3>2. M!TapsFollow(dev, p, s) => M!TapsFollow(dev, q, s)
      BY <2>2, TapsIsLeft
    <3>3. M!TapsAreMirrored(dev, p, s, known) => M!TapsAreMirrored(dev, q, s, known)
      BY <2>2, MirroredIsLeft
    <3>4. M!EnablingFollows(dev, p, s) => M!EnablingFollows(dev, q, s)
      BY <2>2, EnablingIsLeft
    <3>5. M!ScrollingFollows(dev, p, s) => M!ScrollingFollows(dev, q, s)
      BY <2>2, ScrollingIsLeft
    <3>6. M!ScrollsOneWay(dev, p) => M!ScrollsOneWay(dev, q)
      BY <2>2, OneWayIsLeft
    <3> QED
      BY <3>1, <3>2, <3>3, <3>4, <3>5, <3>6
  <2> QED
    BY <1>2, <2>2, <2>3 DEF M!DeviceFollows, Touched
<1>3. CASE k \in {"profile", "padprofile", "middle", "dwt", "click2", "click3", "locate"}
  <2>1. \E f \in {"profile", "middle", "dwt", "clicks"} : Touched(q, p, {f})
    <3>1. CASE k \in {"profile", "padprofile"}
      BY <3>1, OthersAreSet DEF q, M!SetKey
    <3>2. CASE k = "middle"
      BY <3>2, OthersAreSet DEF q, M!SetKey
    <3>3. CASE k = "dwt"
      BY <3>3, OthersAreSet DEF q, M!SetKey
    <3>4. CASE k \in {"click2", "click3"}
      BY <3>4, OthersAreSet DEF q, M!SetKey
    <3>5. CASE k = "locate"
      <4>1. q = p
        BY <3>5 DEF q, M!SetKey
      <4> QED
        BY <4>1 DEF Touched
    <3> QED
      BY <1>3, <3>1, <3>2, <3>3, <3>4, <3>5
  <2>2. PICK f \in {"profile", "middle", "dwt", "clicks"} : Touched(q, p, {f})
    BY <2>1
  <2>3. /\ M!MotionFollows(dev, p, s, known) => M!MotionFollows(dev, q, s, known)
        /\ M!HandFollows(dev, p, s, known) => M!HandFollows(dev, q, s, known)
        /\ M!TapsFollow(dev, p, s) => M!TapsFollow(dev, q, s)
        /\ M!TapsAreMirrored(dev, p, s, known) => M!TapsAreMirrored(dev, q, s, known)
        /\ M!EnablingFollows(dev, p, s) => M!EnablingFollows(dev, q, s)
        /\ M!ScrollingFollows(dev, p, s) => M!ScrollingFollows(dev, q, s)
        /\ M!ScrollsOneWay(dev, p) => M!ScrollsOneWay(dev, q)
    <3>1. M!MotionFollows(dev, p, s, known) => M!MotionFollows(dev, q, s, known)
      BY <2>2, MotionIsLeft
    <3>2. M!HandFollows(dev, p, s, known) => M!HandFollows(dev, q, s, known)
      BY <2>2, HandIsLeft
    <3>3. M!TapsFollow(dev, p, s) => M!TapsFollow(dev, q, s)
      BY <2>2, TapsIsLeft
    <3>4. M!TapsAreMirrored(dev, p, s, known) => M!TapsAreMirrored(dev, q, s, known)
      BY <2>2, MirroredIsLeft
    <3>5. M!EnablingFollows(dev, p, s) => M!EnablingFollows(dev, q, s)
      BY <2>2, EnablingIsLeft
    <3>6. M!ScrollingFollows(dev, p, s) => M!ScrollingFollows(dev, q, s)
      BY <2>2, ScrollingIsLeft
    <3>7. M!ScrollsOneWay(dev, p) => M!ScrollsOneWay(dev, q)
      BY <2>2, OneWayIsLeft
    <3> QED
      BY <3>1, <3>2, <3>3, <3>4, <3>5, <3>6, <3>7
  <2> QED
    BY <1>3, <2>2, <2>3 DEF M!DeviceFollows, Touched
<1>4. CASE k \in {"tap", "onefinger"}
  <2>1. q = M!SetTap(dev, p, s, M!TouchpadHandedness(s))
    BY <1>4 DEF q, M!SetKey
  <2>2. Touched(q, p, {"tap"}) /\ M!TapsFollow(dev, q, s) /\ M!TapsAreMirrored(dev, q, s, known)
    BY <2>1, TapFollowsHand
  <2>3. /\ M!MotionFollows(dev, p, s, known) => M!MotionFollows(dev, q, s, known)
        /\ M!HandFollows(dev, p, s, known) => M!HandFollows(dev, q, s, known)
        /\ M!EnablingFollows(dev, p, s) => M!EnablingFollows(dev, q, s)
        /\ M!ScrollingFollows(dev, p, s) => M!ScrollingFollows(dev, q, s)
        /\ M!ScrollsOneWay(dev, p) => M!ScrollsOneWay(dev, q)
    <3>1. M!MotionFollows(dev, p, s, known) => M!MotionFollows(dev, q, s, known)
      BY <2>2, MotionIsLeft
    <3>2. M!HandFollows(dev, p, s, known) => M!HandFollows(dev, q, s, known)
      BY <2>2, HandIsLeft
    <3>3. M!EnablingFollows(dev, p, s) => M!EnablingFollows(dev, q, s)
      BY <2>2, EnablingIsLeft
    <3>4. M!ScrollingFollows(dev, p, s) => M!ScrollingFollows(dev, q, s)
      BY <2>2, ScrollingIsLeft
    <3>5. M!ScrollsOneWay(dev, p) => M!ScrollsOneWay(dev, q)
      BY <2>2, OneWayIsLeft
    <3> QED
      BY <3>1, <3>2, <3>3, <3>4, <3>5
  <2> QED
    BY <1>4, <2>2, <2>3 DEF M!DeviceFollows, Touched
<1>5. CASE k \in {"vedge", "hedge", "vtwo", "htwo"}
  <2>1. q = M!SetScrolling(dev, p, s)
    BY <1>5 DEF q, M!SetKey
  <2>2. Touched(q, p, {"edge", "two", "horizontal"}) /\ M!ScrollsOneWay(dev, q)
    BY <2>1, ScrollingIsSet
  <2>3. /\ M!MotionFollows(dev, p, s, known) => M!MotionFollows(dev, q, s, known)
        /\ M!HandFollows(dev, p, s, known) => M!HandFollows(dev, q, s, known)
        /\ M!TapsFollow(dev, p, s) => M!TapsFollow(dev, q, s)
        /\ M!TapsAreMirrored(dev, p, s, known) => M!TapsAreMirrored(dev, q, s, known)
        /\ M!EnablingFollows(dev, p, s) => M!EnablingFollows(dev, q, s)
        /\ M!ScrollingFollows(dev, p, s) => M!ScrollingFollows(dev, q, s)
    <3>1. M!MotionFollows(dev, p, s, known) => M!MotionFollows(dev, q, s, known)
      BY <2>2, MotionIsLeft
    <3>2. M!HandFollows(dev, p, s, known) => M!HandFollows(dev, q, s, known)
      BY <2>2, HandIsLeft
    <3>3. M!TapsFollow(dev, p, s) => M!TapsFollow(dev, q, s)
      BY <2>2, TapsIsLeft
    <3>4. M!TapsAreMirrored(dev, p, s, known) => M!TapsAreMirrored(dev, q, s, known)
      BY <2>2, MirroredIsLeft
    <3>5. M!EnablingFollows(dev, p, s) => M!EnablingFollows(dev, q, s)
      BY <2>2, EnablingIsLeft
    <3>6. M!ScrollingFollows(dev, p, s) => M!ScrollingFollows(dev, q, s)
      BY <2>2, ScrollingIsLeft
    <3> QED
      BY <3>1, <3>2, <3>3, <3>4, <3>5, <3>6
  <2> QED
    BY <1>5, <2>2, <2>3 DEF M!DeviceFollows, Touched
<1>6. CASE k \in {"natural", "enabled"}
  <2>1. CASE k = "natural"
    <3>1. Touched(q, p, {"distance"}) /\ M!ScrollingFollows(dev, q, s)
      BY <2>1, NaturalIsSet DEF q, M!SetKey
    <3>2. /\ M!MotionFollows(dev, p, s, known) => M!MotionFollows(dev, q, s, known)
          /\ M!HandFollows(dev, p, s, known) => M!HandFollows(dev, q, s, known)
          /\ M!TapsFollow(dev, p, s) => M!TapsFollow(dev, q, s)
          /\ M!TapsAreMirrored(dev, p, s, known) => M!TapsAreMirrored(dev, q, s, known)
          /\ M!EnablingFollows(dev, p, s) => M!EnablingFollows(dev, q, s)
          /\ M!ScrollsOneWay(dev, p) => M!ScrollsOneWay(dev, q)
      <4>1. M!MotionFollows(dev, p, s, known) => M!MotionFollows(dev, q, s, known)
        BY <3>1, MotionIsLeft
      <4>2. M!HandFollows(dev, p, s, known) => M!HandFollows(dev, q, s, known)
        BY <3>1, HandIsLeft
      <4>3. M!TapsFollow(dev, p, s) => M!TapsFollow(dev, q, s)
        BY <3>1, TapsIsLeft
      <4>4. M!TapsAreMirrored(dev, p, s, known) => M!TapsAreMirrored(dev, q, s, known)
        BY <3>1, MirroredIsLeft
      <4>5. M!EnablingFollows(dev, p, s) => M!EnablingFollows(dev, q, s)
        BY <3>1, EnablingIsLeft
      <4>6. M!ScrollsOneWay(dev, p) => M!ScrollsOneWay(dev, q)
        BY <3>1, OneWayIsLeft
      <4> QED
        BY <4>1, <4>2, <4>3, <4>4, <4>5, <4>6
    <3> QED
      BY <2>1, <3>1, <3>2 DEF M!DeviceFollows, Touched
  <2>2. CASE k = "enabled"
    <3>1. Touched(q, p, {"enabled"}) /\ M!EnablingFollows(dev, q, s)
      BY <2>2, EnabledIsSet DEF q, M!SetKey
    <3>2. /\ M!MotionFollows(dev, p, s, known) => M!MotionFollows(dev, q, s, known)
          /\ M!HandFollows(dev, p, s, known) => M!HandFollows(dev, q, s, known)
          /\ M!TapsFollow(dev, p, s) => M!TapsFollow(dev, q, s)
          /\ M!TapsAreMirrored(dev, p, s, known) => M!TapsAreMirrored(dev, q, s, known)
          /\ M!ScrollingFollows(dev, p, s) => M!ScrollingFollows(dev, q, s)
          /\ M!ScrollsOneWay(dev, p) => M!ScrollsOneWay(dev, q)
      <4>1. M!MotionFollows(dev, p, s, known) => M!MotionFollows(dev, q, s, known)
        BY <3>1, MotionIsLeft
      <4>2. M!HandFollows(dev, p, s, known) => M!HandFollows(dev, q, s, known)
        BY <3>1, HandIsLeft
      <4>3. M!TapsFollow(dev, p, s) => M!TapsFollow(dev, q, s)
        BY <3>1, TapsIsLeft
      <4>4. M!TapsAreMirrored(dev, p, s, known) => M!TapsAreMirrored(dev, q, s, known)
        BY <3>1, MirroredIsLeft
      <4>5. M!ScrollingFollows(dev, p, s) => M!ScrollingFollows(dev, q, s)
        BY <3>1, ScrollingIsLeft
      <4>6. M!ScrollsOneWay(dev, p) => M!ScrollsOneWay(dev, q)
        BY <3>1, OneWayIsLeft
      <4> QED
        BY <4>1, <4>2, <4>3, <4>4, <4>5, <4>6
    <3> QED
      BY <2>2, <3>1, <3>2 DEF M!DeviceFollows, Touched
  <2> QED
    BY <1>6, <2>1, <2>2
<1> QED
  BY <1>0, <1>1, <1>2, <1>3, <1>4, <1>5, <1>6

(* What devices there are, and what may be changed by a helper that cannot *)
(* be started.                                                             *)
LEMMA DevicesAreKnown ==
  ASSUME M!MouseTypes
  PROVE  \A d \in x2 : d \in Device /\ Known(x1[d], x5, x3) /\ M!Whole(x7[d])
<1>1. \A d \in Device : x1[d].driver = "synaptics" => M!IsTouchpad(x1[d])
  <2>1. PICK one, two : /\ x1 = [d \in Device |-> IF d = d1 THEN one ELSE two]
                        /\ \A w \in {one, two} : w.driver = "synaptics" => w.pad
    BY DEF M!MouseTypes, Worlds
  <2>2. \A d \in Device : x1[d] \in {one, two}
    BY <2>1
  <2> QED
    BY <2>1, <2>2 DEF M!IsTouchpad
<1> QED
  BY <1>1 DEF M!MouseTypes, Known, M!Values

LEMMA SettingsAreLeft ==
  ASSUME NEW governed, NEW running, M!SetHelpers(governed, running)
  PROVE  DOMAIN x5' = DOMAIN x5 /\ \A k \in DOMAIN x5 \ {"dwt", "locate"} : x5'[k] = x5[k]
<1>1. PICK off : x5' = [k \in DOMAIN x5 |-> IF k \in {M!KeyOf(h) : h \in off} THEN FALSE ELSE x5[k]]
  BY Zenon DEF M!SetHelpers
<1>2. \A h : M!KeyOf(h) \in {"dwt", "locate"}
  BY DEF M!KeyOf
<1> QED
  BY <1>1, <1>2

(* A device follows settings that are changed in nothing but what is       *)
(* pending.                                                                *)
LEMMA FollowsAnyway ==
  ASSUME NEW dev, NEW p, NEW known, NEW s, NEW t, NEW one, NEW two, one \subseteq two,
         \A k \in DOMAIN M!Default \ (two \cup {"dwt", "locate"}) : t[k] = s[k],
         M!DeviceFollows(dev, p, s, known, one)
  PROVE  M!DeviceFollows(dev, p, t, known, two)
<1>1. \A k \in {"left", "padleft", "motion", "padmotion", "tap", "onefinger", "natural", "enabled"} \ two : t[k] = s[k]
  BY DEF M!Default
<1>2. {"left", "padleft"} \cap two = {} => M!WantLeft(dev, t) = M!WantLeft(dev, s)
  BY <1>1 DEF M!WantLeft, M!TouchpadHandedness
<1>3. {"motion", "padmotion"} \cap two = {} => M!MotionFollows(dev, p, t, known)
  BY <1>1 DEF M!DeviceFollows, M!MotionFollows
<1>4. {"left", "padleft"} \cap two = {} => M!HandFollows(dev, p, t, known)
  <2> SUFFICES ASSUME {"left", "padleft"} \cap two = {} PROVE M!HandFollows(dev, p, t, known)
    OBVIOUS
  <2>1. M!HandFollows(dev, p, s, known)
    BY DEF M!DeviceFollows
  <2> QED
    BY <1>2, <2>1, Zenon DEF M!HandFollows
<1>5. "tap" \notin two => M!TapsFollow(dev, p, t)
  BY <1>1 DEF M!DeviceFollows, M!TapsFollow
<1>6. {"left", "padleft", "tap", "onefinger"} \cap two = {} => M!TapsAreMirrored(dev, p, t, known)
  <2> SUFFICES ASSUME {"left", "padleft", "tap", "onefinger"} \cap two = {} PROVE M!TapsAreMirrored(dev, p, t, known)
    OBVIOUS
  <2>1. M!TapsAreMirrored(dev, p, s, known)
    BY DEF M!DeviceFollows
  <2>2. t.tap = s.tap /\ t.onefinger = s.onefinger /\ M!WantLeft(dev, t) = M!WantLeft(dev, s)
    BY <1>1, <1>2
  <2> QED
    BY <2>1, <2>2, Zenon DEF M!TapsAreMirrored
<1>7. "enabled" \notin two => M!EnablingFollows(dev, p, t)
  BY <1>1 DEF M!DeviceFollows, M!EnablingFollows
<1>8. "natural" \notin two => M!ScrollingFollows(dev, p, t)
  BY <1>1 DEF M!DeviceFollows, M!ScrollingFollows
<1> QED
  BY <1>3, <1>4, <1>5, <1>6, <1>7, <1>8 DEF M!DeviceFollows

(* The devices and the settings have all that is to be set and read.       *)
LEMMA MouseTypesStep ==
  ASSUME M!MouseTypes, [M!Next]_(M!vars)
  PROVE  M!MouseTypes'
<1> DEFINE Shapes == UNCHANGED <<x1, x2, x3>>
           Settings == DOMAIN x5' = DOMAIN x5 /\ x5'.onefinger \in M!Values("onefinger")
           Props == DOMAIN x7' = Device /\ \A d \in Device : M!Whole(x7'[d])
<1>0. "onefinger" \in DOMAIN x5
  BY DEF M!MouseTypes, M!Default
<1>1. ASSUME NEW governed, NEW running, M!SetHelpers(governed, running)
      PROVE  Settings
  BY <1>0, <1>1, SettingsAreLeft DEF M!MouseTypes
<1>2. ASSUME NEW set, NEW announced, M!SetDevices(set, announced), \A d \in x2 : M!Whole(set[d])
      PROVE  Props
  BY <1>2 DEF M!SetDevices, M!MouseTypes
<1>3. ASSUME Shapes, Settings, Props
      PROVE  M!MouseTypes'
  BY <1>3 DEF M!MouseTypes
<1>4. ASSUME Shapes, UNCHANGED <<x5, x7>>
      PROVE  M!MouseTypes'
  BY <1>4 DEF M!MouseTypes
<1>5. CASE M!IdleCb
  <2> DEFINE set == [d \in x2 |-> M!SetAll(x1[d], x7[d], x5, x3)]
  <2>1. \A d \in x2 : M!Whole(set[d])
    BY DevicesAreKnown, SetAllFollows
  <2>2. Shapes /\ M!SetDevices(set, x4) /\ M!SetHelpers(M!Helper, x12 \ {"syndaemon"})
    BY <1>5 DEF M!IdleCb
  <2> QED
    BY <1>1, <1>2, <1>3, <2>1, <2>2
<1>6. CASE M!DevicePresence
  <2> DEFINE set == [d \in x2 |-> M!SetAll(x1[d], x7[d], x5, x3)]
  <2>1. \A d \in x2 : M!Whole(set[d])
    BY DevicesAreKnown, SetAllFollows
  <2>2. Shapes /\ M!SetDevices(set, FALSE) /\ M!SetHelpers({"syndaemon"}, x12)
    BY <1>6 DEF M!DevicePresence
  <2> QED
    BY <1>1, <1>2, <1>3, <2>1, <2>2
<1>7. ASSUME NEW k \in DOMAIN x5, M!SettingsCallback(k) PROVE M!MouseTypes'
  <2> DEFINE set == [d \in x2 |-> M!SetKey(k, x1[d], x7[d], x5, x3)]
  <2>0. k \in DOMAIN M!Default
    BY DEF M!MouseTypes
  <2>1. \A d \in x2 : M!Whole(set[d])
    BY <2>0, DevicesAreKnown, SetKeyFollows
  <2>2. Shapes /\ M!SetDevices(set, x4) /\ M!SetHelpers({h \in M!Helper : k = M!KeyOf(h)}, x12)
    BY <1>7 DEF M!SettingsCallback
  <2> QED
    BY <1>1, <1>2, <1>3, <2>1, <2>2
<1>8. ASSUME NEW k \in DOMAIN x5, NEW v \in M!Values(k), M!ChangeKey(k, v) PROVE M!MouseTypes'
  BY <1>8 DEF M!ChangeKey, M!MouseTypes
<1>9. ASSUME NEW d \in Device, M!Plug(d) PROVE M!MouseTypes'
  <2>1. M!Whole(M!Fresh)
    BY DEF M!Whole, M!Fresh
  <2> QED
    BY <1>9, <2>1 DEF M!Plug, M!MouseTypes
<1>10. ASSUME NEW d \in Device, M!Unplug(d) PROVE M!MouseTypes'
  BY <1>10 DEF M!Unplug, M!MouseTypes
<1>11. M!Start \/ M!Stop \/ (\E h \in M!Helper : M!HelperExits(h)) \/ UNCHANGED M!vars => Shapes /\ UNCHANGED <<x5, x7>>
  BY DEF M!Start, M!Stop, M!HelperExits, M!vars
<1> QED
  BY <1>4, <1>5, <1>6, <1>7, <1>8, <1>9, <1>10, <1>11 DEF M!Next

(* Each device follows every setting whose change is not pending.          *)
LEMMA DevicesStep ==
  ASSUME M!LetGo, M!MouseTypes, M!DevicesAreSet, [M!Next]_(M!vars)
  PROVE  M!DevicesAreSet'
<1>1. \A d \in x2 : d \in Device /\ Known(x1[d], x5, x3) /\ M!Whole(x7[d]) /\ M!ScrollsOneWay(x1[d], x7[d])
  BY DevicesAreKnown DEF M!DevicesAreSet
<1>2. ~late /\ x8 => x9 = 1 /\ x10 = 1
  BY DEF M!LetGo
<1>3. ASSUME NEW d \in x2,
             ~late' /\ x8' /\ ~x4' => M!DeviceFollows(x1[d], x7'[d], x5, x3, x6'),
             NEW governed, NEW running, M!SetHelpers(governed, running)
      PROVE  ~late' /\ x8' /\ ~x4' => M!DeviceFollows(x1[d], x7'[d], x5', x3, x6')
  <2>1. \A k \in DOMAIN M!Default \ (x6' \cup {"dwt", "locate"}) : x5'[k] = x5[k]
    BY <1>3, SettingsAreLeft DEF M!MouseTypes
  <2> QED
    BY <1>3, <2>1, FollowsAnyway
<1>4. ASSUME NEW announced, M!SetDevices([d \in x2 |-> M!SetAll(x1[d], x7[d], x5, x3)], announced),
             UNCHANGED <<x1, x2, x3>>, NEW governed, NEW running, M!SetHelpers(governed, running)
      PROVE  M!DevicesAreSet'
  <2>1. \A d \in x2 : x7'[d] = M!SetAll(x1[d], x7[d], x5, x3)
    BY <1>1, <1>4 DEF M!SetDevices
  <2>2. \A d \in x2 : M!DeviceFollows(x1[d], x7'[d], x5, x3, x6') /\ M!ScrollsOneWay(x1[d], x7'[d])
    BY <1>1, <2>1, SetAllFollows
  <2>3. \A d \in x2 : ~late' /\ x8' /\ ~x4' => M!DeviceFollows(x1[d], x7'[d], x5', x3, x6')
    BY <1>3, <1>4, <2>2
  <2> QED
    BY <1>4, <2>2, <2>3 DEF M!DevicesAreSet
<1>5. CASE M!IdleCb
  BY <1>4, <1>5 DEF M!IdleCb
<1>6. CASE M!DevicePresence
  BY <1>4, <1>6 DEF M!DevicePresence
<1>7. ASSUME NEW k \in DOMAIN x5, M!SettingsCallback(k) PROVE M!DevicesAreSet'
  <2>0. k \in DOMAIN M!Default
    BY DEF M!MouseTypes
  <2>1. /\ M!SetDevices([d \in x2 |-> M!SetKey(k, x1[d], x7[d], x5, x3)], x4)
        /\ M!SetHelpers({h \in M!Helper : k = M!KeyOf(h)}, x12)
        /\ UNCHANGED <<x1, x2, x3, x8, x10, late>> /\ x6' = x6 \ {k} /\ x8
    BY <1>7 DEF M!SettingsCallback
  <2>2. \A d \in x2 : x7'[d] = M!SetKey(k, x1[d], x7[d], x5, x3)
    BY <1>1, <2>1 DEF M!SetDevices
  <2>3. ~late' /\ ~x4' => ~late /\ x8 /\ ~x4
    <3>1. x4' = (x10' > 0 /\ (x4 \/ \E d \in x2 : x7'[d].enabled /\ ~x7[d].enabled))
      BY <2>1, <2>2, <1>1 DEF M!SetDevices
    <3>2. x10' > 0 /\ x4 => x4'
      BY <3>1, Zenon
    <3>3. ~late' => x10' > 0 /\ ~late /\ x8
      BY <1>2, <2>1
    <3> QED
      BY <3>2, <3>3
  <2>4. ASSUME NEW d \in x2
        PROVE  /\ ~late' /\ x8' /\ ~x4' => M!DeviceFollows(x1[d], x7'[d], x5', x3, x6')
               /\ M!ScrollsOneWay(x1[d], x7'[d])
    <3>1. /\ M!DeviceFollows(x1[d], x7[d], x5, x3, x6) => M!DeviceFollows(x1[d], x7'[d], x5, x3, x6 \ {k})
          /\ M!ScrollsOneWay(x1[d], x7'[d])
      BY <1>1, <2>0, <2>2, <2>4, SetKeyFollows
    <3>2. ~late' /\ x8' /\ ~x4' => M!DeviceFollows(x1[d], x7'[d], x5, x3, x6')
      BY <2>1, <2>3, <2>4, <3>1 DEF M!DevicesAreSet
    <3> QED
      BY <1>3, <2>1, <2>4, <3>1, <3>2
  <2> QED
    BY <2>1, <2>4 DEF M!DevicesAreSet
<1>8. ASSUME NEW k \in DOMAIN x5, NEW v \in M!Values(k), M!ChangeKey(k, v) PROVE M!DevicesAreSet'
  <2>1. /\ x5' = [x5 EXCEPT ![k] = v] /\ UNCHANGED <<late, x1, x2, x3, x4, x7, x8>>
        /\ ~late /\ x8 => x6' = x6 \cup {k}
    BY <1>2, <1>8 DEF M!ChangeKey
  <2>2. ~late /\ x8 => \A m \in DOMAIN M!Default \ (x6' \cup {"dwt", "locate"}) : x5'[m] = x5[m]
    BY <2>1 DEF M!MouseTypes
  <2>3. ASSUME NEW d \in x2, ~late', x8', ~x4'
        PROVE  M!DeviceFollows(x1[d], x7[d], x5', x3, x6')
    <3>1. M!DeviceFollows(x1[d], x7[d], x5, x3, x6) /\ ~late /\ x8
      BY <2>1, <2>3 DEF M!DevicesAreSet
    <3>2. x6 \subseteq x6'
      BY <2>1, <3>1
    <3>3. \A m \in DOMAIN M!Default \ (x6' \cup {"dwt", "locate"}) : x5'[m] = x5[m]
      BY <2>2, <3>1
    <3> QED
      BY <3>1, <3>2, <3>3, FollowsAnyway
  <2> QED
    BY <1>1, <2>1, <2>3 DEF M!DevicesAreSet
<1>9. ASSUME NEW d \in Device, M!Plug(d) PROVE M!DevicesAreSet'
  <2>1. /\ x2' = x2 \cup {d} /\ x7' = [x7 EXCEPT ![d] = M!Fresh] /\ UNCHANGED <<late, x1, x8>>
        /\ x4' = (x10 > 0)
    BY <1>9 DEF M!Plug
  <2>2. ~late' /\ x8' => x4'
    <3>1. x10 > 0 => x4'
      BY <2>1, Zenon
    <3>2. ~late' /\ x8' => x10 > 0
      BY <1>2, <2>1
    <3> QED
      BY <3>1, <3>2
  <2>3. M!ScrollsOneWay(x1[d], M!Fresh)
    BY DEF M!ScrollsOneWay, M!Fresh
  <2>4. \A c \in x2' : M!ScrollsOneWay(x1[c], x7'[c])
    <3>1. x7'[d] = M!Fresh /\ \A c \in x2 \ {d} : x7'[c] = x7[c]
      BY <1>1, <2>1 DEF M!MouseTypes
    <3> QED
      BY <1>1, <2>1, <2>3, <3>1
  <2> QED
    BY <2>1, <2>2, <2>4 DEF M!DevicesAreSet
<1>10. ASSUME NEW d \in Device, M!Unplug(d) PROVE M!DevicesAreSet'
  <2>1. x2' = x2 \ {d} /\ UNCHANGED <<late, x1, x3, x4, x5, x6, x7, x8>>
    BY <1>10 DEF M!Unplug
  <2> QED
    BY <1>1, <2>1 DEF M!DevicesAreSet
<1>11. CASE M!Stop
  <2>1. x8' = FALSE /\ UNCHANGED <<x1, x2, x7>>
    BY <1>11 DEF M!Stop
  <2> QED
    BY <1>1, <2>1 DEF M!DevicesAreSet
<1>12. CASE UNCHANGED <<late, x1, x2, x3, x4, x5, x6, x7, x8>>
  BY <1>12 DEF M!DevicesAreSet
<1>13. M!Start \/ (\E h \in M!Helper : M!HelperExits(h)) \/ UNCHANGED M!vars
         => UNCHANGED <<late, x1, x2, x3, x4, x5, x6, x7, x8>>
  BY DEF M!Start, M!HelperExits, M!vars
<1> QED
  BY <1>5, <1>6, <1>7, <1>8, <1>9, <1>10, <1>11, <1>12, <1>13 DEF M!Next

(* What SetHelpers makes of the helpers: those it governs run as the       *)
(* settings ask for, the others are left alone.                            *)
LEMMA HelpersAreSet ==
  ASSUME NEW governed \in SUBSET M!Helper, NEW running, M!SetHelpers(governed, running), UNCHANGED <<x1, x2, x3>>,
         M!MouseTypes, "syndaemon" \in x11 => "synaptics" \in x3, NEW gone,
         \A h \in M!Helper \ x13 : /\ h \in running => h \in x11
                                   /\ h \in x11 => h \in running \/ (h = "syndaemon" /\ gone)
  PROVE  /\ x13 \subseteq x13' /\ ("syndaemon" \in x11' => "synaptics" \in x3)
         /\ \A h \in M!Helper \ x13' :
              /\ h \in x12' => h \in x11'
              /\ h \in x11' => h \in x12' \/ (h = "syndaemon" /\ gone)
              /\ h \notin governed => /\ h \in x11' <=> h \in x11
                                      /\ x5'[M!KeyOf(h)] = x5[M!KeyOf(h)]
                                      /\ h \in M!Wanted(x5)' => h \in M!Wanted(x5)
              /\ h \in governed => /\ h \in M!Wanted(x5)' /\ (h = "syndaemon" => "synaptics" \in x3) => h \in x11'
                                   /\ h \in x11' => x5'[M!KeyOf(h)] \/ (h = "syndaemon" /\ gone)
<1> DEFINE ask == IF "synaptics" \in x3 THEN governed ELSE governed \ {"syndaemon"}
           new == (M!Wanted(x5) \cap ask) \ running
           end == (running \cap ask) \ M!Wanted(x5)
<1>1. PICK started, off :
        /\ started \in SUBSET new /\ off \in SUBSET (new \ started)
        /\ x12' = (running \cup started) \ end
        /\ x11' = (x11 \cup started) \ end
        /\ x13' = x13 \cup (new \ started)
        /\ x5' = [k \in DOMAIN x5 |-> IF k \in {M!KeyOf(h) : h \in off} THEN FALSE ELSE x5[k]]
  BY ZenonT(40) DEF M!SetHelpers
<1>2. /\ "dwt" \in DOMAIN x5 /\ "locate" \in DOMAIN x5
      /\ M!Helper = {"syndaemon", "locate-pointer"} /\ M!KeyOf("syndaemon") = "dwt"
      /\ M!KeyOf("locate-pointer") = "locate"
  BY DEF M!MouseTypes, M!Default, M!Helper, M!KeyOf
<1>3. \A h \in M!Helper \ x13' : /\ h \notin off
                                 /\ M!KeyOf(h) \notin {M!KeyOf(g) : g \in off} /\ M!KeyOf(h) \in DOMAIN x5
  <2>1. off \subseteq M!Helper /\ off \subseteq x13'
    BY <1>1
  <2> QED
    BY <1>2, <2>1
<1>4. \A h \in M!Helper \ x13' : x5'[M!KeyOf(h)] = x5[M!KeyOf(h)]
  BY <1>1, <1>3
<1>5. \A h \in M!Helper : h \in M!Wanted(x5)' <=> /\ x5'[M!KeyOf(h)]
                                                  /\ h = "syndaemon" => \E d \in x2 : M!IsTouchpad(x1[d])
  BY <1>2 DEF M!Wanted, M!IsTouchpad
<1>6. \A h \in M!Helper : h \in M!Wanted(x5) <=> /\ x5[M!KeyOf(h)]
                                                 /\ h = "syndaemon" => \E d \in x2 : M!IsTouchpad(x1[d])
  BY <1>2 DEF M!Wanted, M!IsTouchpad
<1>7. \A h \in M!Helper \ x13' : h \in M!Wanted(x5)' <=> h \in M!Wanted(x5)
  BY <1>4, <1>5, <1>6, Zenon
<1> HIDE DEF ask, new, end
<1>8. /\ ask \subseteq governed /\ ("syndaemon" \in ask <=> "syndaemon" \in governed /\ "synaptics" \in x3)
      /\ "locate-pointer" \in governed => "locate-pointer" \in ask
  BY DEF ask
<1>9. \A h : /\ h \in new <=> h \in M!Wanted(x5) /\ h \in ask /\ h \notin running
             /\ h \in end <=> h \in running /\ h \in ask /\ h \notin M!Wanted(x5)
  BY DEF new, end
<1>10. \A h \in M!Helper \ x13' : h \in new => h \in started
  BY <1>1
<1>11. \A h \in M!Helper \ x13' : /\ h \in x12' => h \in x11'
                                  /\ h \in x11' => h \in x12' \/ (h = "syndaemon" /\ gone)
  BY <1>1
<1>12. "syndaemon" \in x11' => "synaptics" \in x3
  BY <1>1, <1>8, <1>9
<1>13. \A h \in M!Helper \ x13' : h \notin governed => (h \in x11' <=> h \in x11)
  BY <1>1, <1>8, <1>9
<1>14. \A h \in M!Helper \ x13' : h \in governed /\ h \in M!Wanted(x5) /\ (h = "syndaemon" => "synaptics" \in x3)
                                    => h \in x11'
  <2>1. \A h \in M!Helper : h \in governed /\ (h = "syndaemon" => "synaptics" \in x3) => h \in ask
    BY <1>2, <1>8
  <2> QED
    BY <1>1, <1>9, <1>10, <2>1
<1>15. \A h \in M!Helper \ x13' : h \in governed /\ h \in x11' => h \in M!Wanted(x5) \/ (h = "syndaemon" /\ gone)
  <2>1. \A h \in M!Helper : h \in governed /\ (h = "syndaemon" => "synaptics" \in x3) => h \in ask
    BY <1>2, <1>8
  <2> QED
    BY <1>1, <1>9, <1>12, <2>1
<1>16. x13 \subseteq x13'
  BY <1>1
<1>17. \A h \in M!Helper : h \in M!Wanted(x5) => x5[M!KeyOf(h)]
  BY <1>6
<1>18. \A h \in M!Helper \ x13' : h \in M!Wanted(x5) => x5'[M!KeyOf(h)]
  BY <1>4, <1>17, Zenon
<1> QED
  BY <1>4, <1>7, <1>11, <1>12, <1>13, <1>14, <1>15, <1>16, <1>18

(* The helpers that run are counted, and are those that are asked for.     *)
LEMMA HelpersStep ==
  ASSUME M!LetGo, M!MouseTypes, M!HelpersAreCounted, [M!Next]_(M!vars)
  PROVE  M!HelpersAreCounted'
<1> DEFINE Asked(h) == /\ h \in M!Wanted(x5) /\ (h = "syndaemon" => "synaptics" \in x3 /\ ~x4) => h \in x11
                       /\ h \in x11 => x5[M!KeyOf(h)] \/ (h = "syndaemon" /\ x14)
<1>1. /\ \A h \in M!Helper \ x13 : /\ h \in x12 => h \in x11
                                   /\ h \in x11 => h \in x12 \/ (h = "syndaemon" /\ x14)
      /\ "syndaemon" \in x11 => "synaptics" \in x3
      /\ ~late /\ x8 => \A h \in M!Helper \ x13 : M!KeyOf(h) \notin x6 => Asked(h)
  BY DEF M!HelpersAreCounted
<1>2. ~late /\ x8 => x9 = 1 /\ x10 = 1
  BY DEF M!LetGo
<1>3. M!Helper = {"syndaemon", "locate-pointer"} /\ M!KeyOf("syndaemon") = "dwt" /\ M!KeyOf("locate-pointer") = "locate"
  BY DEF M!Helper, M!KeyOf
<1>4. ASSUME NEW governed \in SUBSET M!Helper, M!SetHelpers(governed, x12), UNCHANGED <<late, x1, x2, x3, x8, x14>>,
             \A h \in M!Helper \ governed : M!KeyOf(h) \notin x6' => M!KeyOf(h) \notin x6,
             ~late' /\ x8' /\ ~x4' /\ "syndaemon" \notin governed => ~x4
      PROVE  M!HelpersAreCounted'
  <2> DEFINE gone == x14
  <2>5. \A h \in M!Helper \ x13 : /\ h \in x12 => h \in x11
                                  /\ h \in x11 => h \in x12 \/ (h = "syndaemon" /\ gone)
    BY <1>1
  <2>6. gone <=> x14'
    BY <1>4
  <2> HIDE DEF gone
  <2>1. /\ x13 \subseteq x13' /\ ("syndaemon" \in x11' => "synaptics" \in x3)
        /\ \A h \in M!Helper \ x13' :
             /\ h \in x12' => h \in x11'
             /\ h \in x11' => h \in x12' \/ (h = "syndaemon" /\ gone)
             /\ h \notin governed => /\ h \in x11' <=> h \in x11
                                     /\ x5'[M!KeyOf(h)] = x5[M!KeyOf(h)]
                                     /\ h \in M!Wanted(x5)' => h \in M!Wanted(x5)
             /\ h \in governed => /\ h \in M!Wanted(x5)' /\ (h = "syndaemon" => "synaptics" \in x3) => h \in x11'
                                  /\ h \in x11' => x5'[M!KeyOf(h)] \/ (h = "syndaemon" /\ gone)
    BY <1>1, <1>4, <2>5, HelpersAreSet
  <2>2. ASSUME ~late', x8', NEW h \in M!Helper \ x13', M!KeyOf(h) \notin x6'
        PROVE  Asked(h)'
    <3>1. CASE h \in governed
      <4>1. M!KeyOf(h)' = M!KeyOf(h)
        BY DEF M!KeyOf
      <4>2. h \in M!Wanted(x5)' /\ (h = "syndaemon" => "synaptics" \in x3') => h \in x11'
        BY <1>4, <2>1, <2>2, <3>1
      <4>3. h \in x11' => x5'[M!KeyOf(h)] \/ (h = "syndaemon" /\ x14')
        BY <2>1, <2>2, <2>6, <3>1
      <4> QED
        BY <4>1, <4>2, <4>3
    <3>2. CASE h \notin governed
      <4>1. h \in M!Helper \ x13 /\ M!KeyOf(h) \notin x6 /\ ~late /\ x8
        BY <1>4, <2>1, <2>2, <3>2
      <4>2. Asked(h)
        BY <1>1, <4>1
      <4>3. /\ h \in x11' <=> h \in x11
            /\ x5'[M!KeyOf(h)] = x5[M!KeyOf(h)]
            /\ h \in M!Wanted(x5)' => h \in M!Wanted(x5)
        BY <2>1, <2>2, <3>2
      <4>4. h = "syndaemon" /\ ~x4' => ~x4
        BY <1>4, <2>2, <3>2
      <4>5. h \in M!Wanted(x5)' /\ (h = "syndaemon" => "synaptics" \in x3' /\ ~x4') => h \in x11'
        BY <1>4, <4>2, <4>3, <4>4
      <4>6. h \in x11' => x5'[M!KeyOf(h)] \/ (h = "syndaemon" /\ x14')
        BY <1>4, <4>2, <4>3, Zenon
      <4> QED
        BY <4>5, <4>6
    <3> QED
      BY <3>1, <3>2
  <2>3. \A h \in M!Helper \ x13' : /\ h \in x12' => h \in x11'
                                   /\ h \in x11' => h \in x12' \/ (h = "syndaemon" /\ x14')
    BY <2>1, <2>6
  <2>4. "syndaemon" \in x11' => "synaptics" \in x3'
    BY <1>4, <2>1
  <2> QED
    BY <2>2, <2>3, <2>4 DEF M!HelpersAreCounted
<1>5. CASE M!IdleCb
  <2> DEFINE gone == x14 \/ "syndaemon" \in x11
  <2>1. /\ M!SetHelpers(M!Helper, x12 \ {"syndaemon"}) /\ UNCHANGED <<x1, x2, x3>>
        /\ x14' = gone
    BY <1>5 DEF M!IdleCb
  <2>2. \A h \in M!Helper \ x13 : /\ h \in x12 \ {"syndaemon"} => h \in x11
                                  /\ h \in x11 => h \in x12 \ {"syndaemon"} \/ (h = "syndaemon" /\ gone)
    BY <1>1
  <2>3. x14' <=> gone
    BY <2>1, Zenon
  <2> HIDE DEF gone
  <2>4. /\ "syndaemon" \in x11' => "synaptics" \in x3
        /\ \A h \in M!Helper \ x13' :
             /\ h \in x12' => h \in x11'
             /\ h \in x11' => h \in x12' \/ (h = "syndaemon" /\ gone)
             /\ h \in M!Helper => /\ h \in M!Wanted(x5)' /\ (h = "syndaemon" => "synaptics" \in x3) => h \in x11'
                                  /\ h \in x11' => x5'[M!KeyOf(h)] \/ (h = "syndaemon" /\ gone)
    BY <1>1, <2>1, <2>2, HelpersAreSet
  <2>5. ASSUME NEW h \in M!Helper \ x13'
        PROVE  Asked(h)' /\ (h \in x12' => h \in x11') /\ (h \in x11' => h \in x12' \/ (h = "syndaemon" /\ x14'))
    <3>1. M!KeyOf(h)' = M!KeyOf(h)
      BY DEF M!KeyOf
    <3>2. h \in M!Wanted(x5)' /\ (h = "syndaemon" => "synaptics" \in x3') => h \in x11'
      BY <2>1, <2>4, <2>5
    <3>3. h \in x11' => x5'[M!KeyOf(h)] \/ (h = "syndaemon" /\ x14')
      BY <2>3, <2>4, <2>5
    <3>4. (h \in x12' => h \in x11') /\ (h \in x11' => h \in x12' \/ (h = "syndaemon" /\ x14'))
      BY <2>3, <2>4, <2>5
    <3> QED
      BY <3>1, <3>2, <3>3, <3>4
  <2>6. "syndaemon" \in x11' => "synaptics" \in x3'
    BY <2>1, <2>4
  <2> QED
    BY <2>5, <2>6 DEF M!HelpersAreCounted
<1>6. CASE M!DevicePresence
  BY <1>3, <1>4, <1>6 DEF M!DevicePresence
<1>7. ASSUME NEW k \in DOMAIN x5, M!SettingsCallback(k) PROVE M!HelpersAreCounted'
  <2> DEFINE governed == {h \in M!Helper : k = M!KeyOf(h)}
  <2>1. /\ M!SetDevices([d \in x2 |-> M!SetKey(k, x1[d], x7[d], x5, x3)], x4)
        /\ M!SetHelpers(governed, x12)
        /\ UNCHANGED <<x1, x2, x3, x8, x10, x14, late>> /\ x6' = x6 \ {k} /\ x8
    BY <1>7 DEF M!SettingsCallback
  <2>2. ~late' /\ ~x4' => ~x4
    <3>1. PICK again : x4' = (x10' > 0 /\ (x4 \/ again))
      BY <2>1, Zenon DEF M!SetDevices
    <3>2. x10' > 0 /\ x4 => x4'
      BY <3>1, Zenon
    <3>3. ~late' => x10' > 0
      BY <1>2, <2>1
    <3> QED
      BY <3>2, <3>3
  <2>3. \A h \in M!Helper \ governed : M!KeyOf(h) \notin x6' => M!KeyOf(h) \notin x6
    BY <2>1
  <2> QED
    BY <1>4, <2>1, <2>2, <2>3
<1>8. ASSUME NEW k \in DOMAIN x5, NEW v \in M!Values(k), M!ChangeKey(k, v) PROVE M!HelpersAreCounted'
  <2>1. /\ x5' = [x5 EXCEPT ![k] = v] /\ UNCHANGED <<late, x1, x2, x3, x4, x8, x11, x12, x13, x14>>
        /\ ~late /\ x8 => x6' = x6 \cup {k}
    BY <1>2, <1>8 DEF M!ChangeKey
  <2>2. "dwt" \in DOMAIN x5 /\ "locate" \in DOMAIN x5
    BY DEF M!MouseTypes, M!Default
  <2>3. ASSUME ~late', x8', NEW h \in M!Helper \ x13', M!KeyOf(h) \notin x6'
        PROVE  Asked(h)'
    <3>1. M!KeyOf(h) \notin x6 /\ k # M!KeyOf(h) /\ h \in M!Helper \ x13 /\ ~late /\ x8
      BY <2>1, <2>3
    <3>2. Asked(h)
      BY <1>1, <3>1
    <3>3. x5'[M!KeyOf(h)] = x5[M!KeyOf(h)]
      BY <1>3, <2>1, <2>2, <3>1
    <3>4. h \in M!Wanted(x5)' => h \in M!Wanted(x5)
      <4>1. CASE h = "syndaemon"
        <5>1. x5'.dwt = x5.dwt
          BY <1>3, <3>3, <4>1
        <5>2. h \in M!Wanted(x5)' => x5'.dwt /\ \E d \in x2 : M!IsTouchpad(x1[d])
          BY <2>1, <4>1 DEF M!Wanted, M!IsTouchpad
        <5>3. x5.dwt /\ (\E d \in x2 : M!IsTouchpad(x1[d])) => h \in M!Wanted(x5)
          BY <4>1 DEF M!Wanted
        <5> QED
          BY <5>1, <5>2, <5>3, Zenon
      <4>2. CASE h = "locate-pointer"
        <5>1. x5'.locate = x5.locate
          BY <1>3, <3>3, <4>2
        <5>2. h \in M!Wanted(x5)' => x5'.locate
          BY <4>2 DEF M!Wanted
        <5>3. x5.locate => h \in M!Wanted(x5)
          BY <4>2 DEF M!Wanted
        <5> QED
          BY <5>1, <5>2, <5>3, Zenon
      <4> QED
        BY <1>3, <2>3, <4>1, <4>2
    <3>5. h \in M!Wanted(x5)' /\ (h = "syndaemon" => "synaptics" \in x3' /\ ~x4') => h \in x11'
      BY <2>1, <3>2, <3>4
    <3>6. h \in x11' => x5'[M!KeyOf(h)] \/ (h = "syndaemon" /\ x14')
      BY <2>1, <3>2, <3>3, Zenon
    <3> QED
      BY <3>5, <3>6
  <2> QED
    BY <1>1, <2>1, <2>3 DEF M!HelpersAreCounted
<1>9. ASSUME NEW d \in Device, M!Plug(d) \/ M!Unplug(d) PROVE M!HelpersAreCounted'
  <2>1. /\ UNCHANGED <<late, x1, x5, x6, x8, x11, x12, x13, x14>> /\ x3 \subseteq x3'
        /\ ~late /\ x8 => x4' \/ (x2' \subseteq x2 /\ UNCHANGED <<x3, x4>>)
    <3>1. CASE M!Plug(d)
      <4>1. x4' = (x10 > 0)
        BY <3>1 DEF M!Plug
      <4>2. x10 > 0 => x4'
        BY <4>1, Zenon
      <4>3. ~late /\ x8 => x4'
        BY <1>2, <4>2
      <4> QED
        BY <3>1, <4>3 DEF M!Plug
    <3>2. CASE M!Unplug(d)
      BY <3>2 DEF M!Unplug
    <3> QED
      BY <1>9, <3>1, <3>2
  <2>2. ASSUME ~late', x8', NEW h \in M!Helper \ x13', M!KeyOf(h) \notin x6'
        PROVE  Asked(h)'
    <3>1. Asked(h)
      BY <1>1, <2>1, <2>2
    <3>2. h \in M!Wanted(x5)' /\ (h = "syndaemon" => "synaptics" \in x3' /\ ~x4') => h \in x11'
      <4>1. CASE h = "syndaemon"
        <5>1. h \in M!Wanted(x5)' /\ ~x4' => h \in M!Wanted(x5)
          BY <2>1, <2>2, <4>1 DEF M!Wanted, M!IsTouchpad
        <5>2. ~x4' => UNCHANGED <<x3, x4>>
          BY <2>1, <2>2
        <5>3. h \in M!Wanted(x5) /\ "synaptics" \in x3 /\ ~x4 => h \in x11
          BY <3>1
        <5> QED
          BY <2>1, <4>1, <5>1, <5>2, <5>3
      <4>2. CASE h = "locate-pointer"
        <5>1. h \in M!Wanted(x5)' => h \in M!Wanted(x5)
          BY <2>1, <4>2 DEF M!Wanted
        <5> QED
          BY <2>1, <3>1, <4>2, <5>1
      <4> QED
        BY <1>3, <2>2, <4>1, <4>2
    <3>3. h \in x11' => x5'[M!KeyOf(h)] \/ (h = "syndaemon" /\ x14')
      BY <2>1, <3>1
    <3> QED
      BY <3>2, <3>3
  <2> QED
    BY <1>1, <2>1, <2>2 DEF M!HelpersAreCounted
<1>10. ASSUME NEW h \in M!Helper, M!HelperExits(h) PROVE M!HelpersAreCounted'
  BY <1>1, <1>10 DEF M!HelperExits, M!HelpersAreCounted, M!Wanted, M!IsTouchpad
<1>11. CASE M!Stop
  <2>1. x8' = FALSE /\ UNCHANGED <<x3, x13, x14>> /\ x12' = x12 \ {"locate-pointer"}
        /\ x11' = IF "locate-pointer" \in x12 THEN x11 \ {"locate-pointer"} ELSE x11
    BY <1>11 DEF M!Stop
  <2> QED
    BY <1>1, <1>3, <2>1 DEF M!HelpersAreCounted
<1>12. CASE UNCHANGED <<late, x1, x2, x3, x4, x5, x6, x8, x11, x12, x13, x14>>
  BY <1>12 DEF M!HelpersAreCounted, M!Wanted, M!IsTouchpad
<1>13. M!Start \/ UNCHANGED M!vars => UNCHANGED <<late, x1, x2, x3, x4, x5, x6, x8, x11, x12, x13, x14>>
  BY DEF M!Start, M!vars
<1> QED
  BY <1>5, <1>6, <1>7, <1>8, <1>9, <1>10, <1>11, <1>12, <1>13 DEF M!Next

-----------------------------------------------------------------------------
(* What holds of each of the plugins for input.                            *)
InputInv ==
  /\ plugin = "mouse" => M!MouseTypes /\ M!DevicesAreSet /\ M!HelpersAreCounted
  /\ plugin = "locate-pointer" => LP!CirclesEnd /\ LP!TimeIsCounted
  /\ plugin = "keyboard" => KB!KeyboardTypes /\ KB!KeyboardIsSet
  /\ plugin = "a11y-keyboard" => AK!ControlTypes /\ AK!ControlsAreSet /\ AK!ControlsAreRestored

(* At first nothing is set, and no plugin is activated.                    *)
LEMMA InitInputInv == SumInit => InputInv
<1> SUFFICES ASSUME SumInit PROVE InputInv
  OBVIOUS
<1>1. on = FALSE
  BY DEF SumInit, Init, MKInit
<1>2. plugin = "mouse" => M!MouseTypes /\ M!DevicesAreSet /\ M!HelpersAreCounted
  <2> SUFFICES ASSUME M!Init PROVE M!MouseTypes /\ M!DevicesAreSet /\ M!HelpersAreCounted
    BY DEF SumInit
  <2>1. M!Whole(M!Fresh) /\ DOMAIN M!Default = DOMAIN M!Default /\ M!Default.onefinger \in M!Values("onefinger")
    BY DEF M!Whole, M!Fresh, M!Default, M!Values
  <2>2. \A d : M!ScrollsOneWay(x1[d], M!Fresh)
    BY DEF M!ScrollsOneWay, M!Fresh
  <2>3. M!MouseTypes
    BY <2>1 DEF M!Init, M!MouseTypes
  <2>4. M!DevicesAreSet
    BY <2>2 DEF M!Init, M!DevicesAreSet
  <2>5. M!HelpersAreCounted
    BY DEF M!Init, M!HelpersAreCounted
  <2> QED
    BY <2>3, <2>4, <2>5
<1>3. plugin = "locate-pointer" => LP!CirclesEnd /\ LP!TimeIsCounted
  BY DEF SumInit, LP!Init, LP!CirclesEnd, LP!TimeIsCounted
<1>4. plugin = "keyboard" => KB!KeyboardTypes /\ KB!KeyboardIsSet
  <2> SUFFICES ASSUME KB!Init PROVE KB!KeyboardTypes /\ KB!KeyboardIsSet
    BY DEF SumInit
  <2>1. x10 = <<>> /\ <<>> \in Seq({"on", "off", "unknown"})
    BY DEF KB!Init
  <2>2. /\ {"repeat", "rate", "layouts", "disable", "remember", "numlock"} \subseteq DOMAIN x1
        /\ x1.numlock \in {"on", "off", "unknown"}
    <3>1. PICK r, l, d : x1 = [repeat |-> TRUE, rate |-> 30, layouts |-> l, disable |-> d, remember |-> r,
                               numlock |-> "unknown"]
      BY DEF KB!Init
    <3> QED
      BY <3>1
  <2>3. {"repeat", "rate", "layouts", "numlock"} \subseteq DOMAIN x2 /\ x2.numlock \in {"on", "off", "unknown"}
    BY DEF KB!Init
  <2>4. KB!KeyboardTypes
    BY <2>1, <2>2, <2>3 DEF KB!Init, KB!KeyboardTypes
  <2> QED
    BY <2>1, <2>4 DEF KB!Init, KB!KeyboardIsSet
<1>5. plugin = "a11y-keyboard" => AK!ControlTypes /\ AK!ControlsAreSet /\ AK!ControlsAreRestored
  <2> SUFFICES ASSUME AK!Init PROVE AK!ControlTypes /\ AK!ControlsAreSet /\ AK!ControlsAreRestored
    BY DEF SumInit
  <2>1. AK!Plain \in AK!Controls /\ AK!Plain \in AK!Settings
    <3>1. AK!Plain \in AK!Settings
      BY DEF AK!Plain, AK!Settings
    <3>2. \A f \in AK!Feature : AK!Plain.option[f] = 1
      BY DEF AK!Plain
    <3> QED
      BY <3>1, <3>2 DEF AK!Controls
  <2>2. x2 \in AK!Settings
    <3>1. PICK e \in BOOLEAN, ons \in {{}, {"slow"}, {"mouse", "sticky"}} :
            x2 = [AK!Plain EXCEPT !.enable = e, !.ons = ons]
      BY DEF AK!Init
    <3>2. ons \in SUBSET AK!Feature
      BY DEF AK!Feature, AK!Shortcut
    <3> QED
      BY <2>1, <3>1, <3>2 DEF AK!Settings
  <2>3. x15 = <<>> /\ <<>> \in Seq(AK!Shortcut) /\ x16 = {}
    BY DEF AK!Init
  <2> QED
    BY <2>1, <2>2, <2>3 DEF AK!Init, AK!ControlTypes, AK!ControlsAreSet, AK!ControlsAreRestored
<1> QED
  BY <1>2, <1>3, <1>4, <1>5 DEF InputInv

(* Every step keeps it: that of the plugin that is picked.                 *)
LEMMA InputStep ==
  ASSUME Kept, InputInv, [SumNext]_<<plugin, size, vars, xs>>
  PROVE  InputInv'
<1> USE Picked DEF Kept, InputInv
<1>1. plugin = "mouse" => M!MouseTypes' /\ M!DevicesAreSet' /\ M!HelpersAreCounted'
  BY MouseTypesStep, DevicesStep, HelpersStep
<1>2. plugin = "locate-pointer" => LP!CirclesEnd' /\ LP!TimeIsCounted'
  BY CirclesStep
<1>3. plugin = "keyboard" => KB!KeyboardTypes' /\ KB!KeyboardIsSet'
  BY KeyboardTypesStep, KeyboardStep
<1>4. plugin = "a11y-keyboard" => AK!ControlTypes' /\ AK!ControlsAreSet' /\ AK!ControlsAreRestored'
  BY ControlsStep
<1> QED
  BY <1>1, <1>2, <1>3, <1>4

(* Once all is quiet every device and the X server's keyboard are set as   *)
(* the settings say, whichever side changed first, for any devices and any *)
(* number of changes (set_mouse_settings, apply_settings,                  *)
(* set_server_from_settings), and the helpers run as they say.             *)
THEOREM InputFollowsSettingsAlways == SumSpec => []InputFollowsSettings
<1>1. InputInv => InputFollowsSettings
  <2> SUFFICES ASSUME InputInv PROVE InputFollowsSettings
    OBVIOUS
  <2>1. plugin = "mouse" => M!DevicesFollowSettings
    BY DEF InputInv, M!DevicesAreSet, M!DeviceFollows, M!DevicesFollowSettings, M!Quiet
  <2>2. plugin = "mouse" => M!HelpersFollowSettings
    BY DEF InputInv, M!HelpersAreCounted, M!HelpersFollowSettings, M!Quiet
  <2>3. plugin = "keyboard" => KB!KeyboardFollowsSettings
    BY DEF InputInv, KB!KeyboardIsSet, KB!KeyboardFollowsSettings
  <2>4. plugin = "a11y-keyboard" => AK!ServerFollowsSettings /\ AK!ControlsAreRestored
    BY DEF InputInv, AK!ControlsAreSet, AK!ServerFollowsSettings
  <2>5. plugin = "locate-pointer" => LP!CirclesEnd
    BY DEF InputInv
  <2> QED
    BY <2>1, <2>2, <2>3, <2>4, <2>5 DEF InputFollowsSettings
<1> QED
  BY <1>1, KeptAlways, InitInputInv, InputStep, PTL DEF SumSpec

=============================================================================
