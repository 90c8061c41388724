----------------------------- MODULE MCDesktop -----------------------------
(***************************************************************************)
(* The parts of the desktop that share no state but the daemon, in one     *)
(* run: the initial state picks one of them, and only that one steps.      *)
(* Variables that plugins have in common - whether one is activated, how   *)
(* often it was, the starts that are queued - are those of the one that is *)
(* picked.  media-keys and keybindings, whose grabs are shared, are one:   *)
(* two entries of the media-keys table and two custom bindings; of the two *)
(* keys one has the other's keycode and another.                           *)
(***************************************************************************)
EXTENDS DesktopKeys, Integers, TLC

CONSTANTS
  a, b, MaxKills,                               \* keys, typing-break
  Device, d1, d2, MaxChanges, Length, NoTimer,  \* mouse
  MaxNotes, MaxDialogs, Lost,                   \* a11y-keyboard, keyboard, xsettings
  Themed, Other, MaxThemes,                     \* sound, xrdb
  MaxOthers, MaxCalls,                          \* datetime
  Player, NoPlayer, MaxMoves, App, Width, MaxTime, \* mpris
  Half, NoWarning, MaxFiles, MaxJobs            \* housekeeping

(* An int is large enough for the sizes that are set, and the first files  *)
(* of the trash and the frames of an animation can be counted.             *)
ASSUME HalfAssumption == Half \in Nat /\ Half > 2
ASSUME MaxFilesAssumption == MaxFiles \in Nat
ASSUME LengthAssumption == Length \in Nat

(* There are times.                                                        *)
ASSUME WidthAssumption == Width \in Nat \ {0}

(* Names that stand for none are no names on the bus.                      *)
ASSUME NamesAssumption == NoPlayer \notin Player /\ "CsdMpris" \notin App

VARIABLES
  size,   \* how many variables it has
  plugin, \* the one that is picked, whose variables are the following, as many as it has
  x1, x2, x3, x4, x5, x6, x7, x8, x9, x10, x11, x12, x13, x14, x15, x16, x17, x18, x19, x20, x21

xs == <<x1, x2, x3, x4, x5, x6, x7, x8, x9, x10, x11, x12, x13, x14, x15, x16, x17, x18, x19, x20, x21>>

(* A touchpad beside a mouse, of the same driver or not.                   *)
Worlds ==
  LET What(pad, driver, single) == [pad |-> pad, driver |-> driver, single |-> single]
  IN {[d \in Device |-> IF d = d1 THEN x[1] ELSE x[2]] : x \in {
       <<What(FALSE, "libinput", FALSE), What(TRUE, "libinput", FALSE)>>,
       <<What(FALSE, "evdev", FALSE), What(TRUE, "synaptics", FALSE)>>,
       <<What(FALSE, "evdev", FALSE), What(TRUE, "libinput", FALSE)>>,
       <<What(FALSE, "evdev", FALSE), What(TRUE, "synaptics", TRUE)>>}}

(* Thumbnails of which the limits may leave some: records of age and size. *)
Thumbnails == LET Thumb(old, large) == [age |-> old, size |-> large]
              IN {Thumb(0, 1), Thumb(1, 2), Thumb(1, 1), Thumb(2, 1)}

(* The forms of the configuration of the time zone.                         *)
Layouts == {{"timezone", "rc"}, {"ZONE", "TZ"}, {"TIMEZONE", "confd"}}

TB == INSTANCE TypingBreak WITH enabled <- x1, unsaid <- x2, setup <- x3, killers <- x4, known <- x5,
  monitor <- x6, upset <- x7
M == INSTANCE Mouse WITH kind <- x1, plugged <- x2, drivers <- x3, unread <- x4, opts <- x5, unheard <- x6,
  prop <- x7, hasopts <- x8, listening <- x9, filtered <- x10, helper <- x11, spawned <- x12, missing <- x13,
  orphan <- x14, changes <- x15
LP == INSTANCE LocatePointer WITH keyboard <- x1, pressed <- x2, animations <- x3, composited <- x4,
  made <- x5, running <- x6, elapsed <- x7, shown <- x8, shaped <- x9, drawn <- x10
AK == INSTANCE A11yKeyboard WITH xkb <- x1, access <- x2, controls <- x3, hasopts <- x4, listening <- x5,
  untold <- x6, filtered <- x7, unread <- x8, present <- x9, original <- x10, icon <- x11, alert <- x12,
  shortcut <- x13, note <- x14, notes <- x15, alive <- x16, screen <- x17, closing <- x18, before <- x19,
  changes <- x20
KB == INSTANCE Keyboard WITH wishes <- x1, server <- x2, hasopts <- x3, listening <- x4, inited <- x5,
  registry <- x6, sources <- x7, untold <- x8, filtered <- x9, locks <- x10, present <- x11, trayed <- x12,
  failed <- x13, synced <- x14, dialogs <- x15, timers <- x16, wm <- x17, messages <- x18, changes <- x19,
  drawn <- x20, strayed <- x21
XS == INSTANCE XSettings WITH prefs <- x1, display <- x2, rival <- x3, running <- x4, screened <- x5,
  unheard <- x6, resized <- x7, factor <- x8, store <- x9, serial <- x10, property <- x11, handles <- x12,
  handle <- x13, fonts <- x14, icons <- x15, offs <- x16, ons <- x17, meddled <- x18, crashed <- x19,
  changes <- x20
BG == INSTANCE Background WITH may <- x1, mayknown <- x2, unheard <- x3, hasopts <- x4, bg <- x5, baul <- x6,
  session <- x7, proxy <- x8, timer <- x9, loads <- x10, painting <- x11, size <- x12, resized <- x13,
  painted <- x14, given <- x15, changes <- x16
SO == INSTANCE Sound WITH hasopts <- x1, watched <- x2, cached <- x3, outdated <- x4, signals <- x5,
  timer <- x6, unreached <- x7
AS == INSTANCE A11ySettings WITH hasopts <- x1, apps <- x2, accessibility <- x3, told <- x4, overruled <- x5
XR == INSTANCE Xrdb WITH widget <- x1, look <- x2, mine <- x3, restyled <- x4, xrdbs <- x5, merged <- x6,
  crossed <- x7, renewals <- x8
DT == INSTANCE DateTime WITH localtime <- x1, config <- x2, job <- x3, tz <- x4, stirred <- x5, missed <- x6,
  others <- x7, up <- x8, queue <- x9, call <- x10, stage <- x11, clock <- x12, due <- x13, read <- x14,
  waited <- x15, hwclock <- x16, adjtime <- x17, sysconf <- x18, answer <- x19, tampered <- x20, calls <- x21
MP == INSTANCE MprisPlayers WITH owned <- x1, moves <- x2, asks <- x3, inbox <- x4, nextid <- x5,
  watcherid <- x6, watcher <- x7, knows <- x8, playerq <- x9, latest <- x10
PL == INSTANCE MediaPlayers WITH keyson <- x1, keysbegun <- x2, now <- x3, players <- x4, named <- x5,
  opening <- x6, proxied <- x7, leaked <- x8, asking <- x9, last <- x10, astray <- x11
HK == INSTANCE Housekeeping WITH Thumbnail <- Thumbnails, Age <- {-1, 0, 1}, Size <- {-1, 0, 2, Half, 2 * Half},
  maxage <- x1, maxsize <- x2, cache <- x3, hasopts <- x4, unread <- x5, soon <- x6, daily <- x7, applied <- x8,
  added <- x9, wanted <- x10, stopped <- x11, changes <- x12
DS == INSTANCE DiskSpace WITH Fstab <- <<"root", "home">>, mounted <- x1, free <- x2, ignored <- x3, unread <- x4,
  moved <- x5, hash <- x6, notified <- x7, monitor <- x8, hasopts <- x9, paths <- x10, timer <- x11,
  warning <- x12, blocked <- x13, checked <- x14, told <- x15, hidden <- x16, outdated <- x17, astray <- x18,
  changes <- x19
TE == INSTANCE TrashEmpty WITH confirm <- x1, question <- x2, dialog <- x3, jobs <- x4, phase <- x5, step <- x6,
  cancelled <- x7, files <- x8, left <- x9, deleted <- x10, pending <- x11, current <- x12, report <- x13,
  total <- x14, queue <- x15, handler <- x16, grown <- x17, failed <- x18

keysown == <<grabs, taken, wanted, unseen, screens, settings, watches, key, kbvars, shared>>

MCKey == {{a}, {a, b}}

Symmetry == Permutations(Entry) \cup Permutations(Path)

(* The variables of keys that are not picked are in one of their initial   *)
(* states, and stay there.                                                 *)
SumInit ==
  /\ \/ plugin = "typing-break" /\ size = 7 /\ TB!Init
     \/ plugin = "mouse" /\ size = 15 /\ M!Init
     \/ plugin = "locate-pointer" /\ size = 10 /\ LP!Init
     \/ plugin = "a11y-keyboard" /\ size = 20 /\ AK!Init
     \/ plugin = "keyboard" /\ size = 21 /\ KB!Init
     \/ plugin = "xsettings" /\ size = 20 /\ XS!Init
     \/ plugin = "background" /\ size = 16 /\ BG!Init
     \/ plugin = "sound" /\ size = 7 /\ SO!Init
     \/ plugin = "a11y-settings" /\ size = 5 /\ AS!Init
     \/ plugin = "xrdb" /\ size = 8 /\ XR!Init
     \/ plugin = "datetime" /\ size = 21 /\ DT!Init
     \/ plugin = "mpris" /\ size = 10 /\ MP!Init
     \/ plugin = "players" /\ size = 11 /\ PL!Init
     \/ plugin = "housekeeping" /\ size = 12 /\ HK!Init
     \/ plugin = "disk-space" /\ size = 19 /\ DS!Init
     \/ plugin = "trash" /\ size = 18 /\ TE!Init
     \/ plugin = "keys" /\ size = 0
  /\ Init /\ (plugin # "keys" => KeysOf(wanted) \cup KeysOf(custom) = {})
  /\ (IF size < 1 THEN x1 = 0 ELSE TRUE) /\ (IF size < 2 THEN x2 = 0 ELSE TRUE)
  /\ (IF size < 3 THEN x3 = 0 ELSE TRUE) /\ (IF size < 4 THEN x4 = 0 ELSE TRUE)
  /\ (IF size < 5 THEN x5 = 0 ELSE TRUE) /\ (IF size < 6 THEN x6 = 0 ELSE TRUE)
  /\ (IF size < 7 THEN x7 = 0 ELSE TRUE) /\ (IF size < 8 THEN x8 = 0 ELSE TRUE)
  /\ (IF size < 9 THEN x9 = 0 ELSE TRUE) /\ (IF size < 10 THEN x10 = 0 ELSE TRUE)
  /\ (IF size < 11 THEN x11 = 0 ELSE TRUE) /\ (IF size < 12 THEN x12 = 0 ELSE TRUE)
  /\ (IF size < 13 THEN x13 = 0 ELSE TRUE) /\ (IF size < 14 THEN x14 = 0 ELSE TRUE)
  /\ (IF size < 15 THEN x15 = 0 ELSE TRUE) /\ (IF size < 16 THEN x16 = 0 ELSE TRUE)
  /\ (IF size < 17 THEN x17 = 0 ELSE TRUE) /\ (IF size < 18 THEN x18 = 0 ELSE TRUE)
  /\ (IF size < 19 THEN x19 = 0 ELSE TRUE) /\ (IF size < 20 THEN x20 = 0 ELSE TRUE)
  /\ (IF size < 21 THEN x21 = 0 ELSE TRUE)

Frozen ==
  /\ UNCHANGED <<plugin, size>>
  /\ IF plugin = "keys" THEN TRUE ELSE UNCHANGED keysown
  /\ IF plugin \in {"locate-pointer", "datetime", "trash"} THEN UNCHANGED <<on, begun>> ELSE TRUE
  /\ IF plugin \in {"keys", "mouse", "a11y-keyboard", "keyboard", "xsettings"} THEN TRUE ELSE UNCHANGED <<idles, late>>
  /\ (IF size < 1 THEN UNCHANGED x1 ELSE TRUE) /\ (IF size < 2 THEN UNCHANGED x2 ELSE TRUE)
  /\ (IF size < 3 THEN UNCHANGED x3 ELSE TRUE) /\ (IF size < 4 THEN UNCHANGED x4 ELSE TRUE)
  /\ (IF size < 5 THEN UNCHANGED x5 ELSE TRUE) /\ (IF size < 6 THEN UNCHANGED x6 ELSE TRUE)
  /\ (IF size < 7 THEN UNCHANGED x7 ELSE TRUE) /\ (IF size < 8 THEN UNCHANGED x8 ELSE TRUE)
  /\ (IF size < 9 THEN UNCHANGED x9 ELSE TRUE) /\ (IF size < 10 THEN UNCHANGED x10 ELSE TRUE)
  /\ (IF size < 11 THEN UNCHANGED x11 ELSE TRUE) /\ (IF size < 12 THEN UNCHANGED x12 ELSE TRUE)
  /\ (IF size < 13 THEN UNCHANGED x13 ELSE TRUE) /\ (IF size < 14 THEN UNCHANGED x14 ELSE TRUE)
  /\ (IF size < 15 THEN UNCHANGED x15 ELSE TRUE) /\ (IF size < 16 THEN UNCHANGED x16 ELSE TRUE)
  /\ (IF size < 17 THEN UNCHANGED x17 ELSE TRUE) /\ (IF size < 18 THEN UNCHANGED x18 ELSE TRUE)
  /\ (IF size < 19 THEN UNCHANGED x19 ELSE TRUE) /\ (IF size < 20 THEN UNCHANGED x20 ELSE TRUE)
  /\ (IF size < 21 THEN UNCHANGED x21 ELSE TRUE)

SumNext ==
  /\ \/ plugin = "keys" /\ Next
     \/ plugin = "typing-break" /\ TB!Next
     \/ plugin = "mouse" /\ M!Next
     \/ plugin = "locate-pointer" /\ LP!Next
     \/ plugin = "a11y-keyboard" /\ AK!Next
     \/ plugin = "keyboard" /\ KB!Next
     \/ plugin = "xsettings" /\ XS!Next
     \/ plugin = "background" /\ BG!Next
     \/ plugin = "sound" /\ SO!Next
     \/ plugin = "a11y-settings" /\ AS!Next
     \/ plugin = "xrdb" /\ XR!Next
     \/ plugin = "datetime" /\ DT!Next
     \/ plugin = "mpris" /\ MP!Next
     \/ plugin = "players" /\ PL!Next
     \/ plugin = "housekeeping" /\ HK!Next
     \/ plugin = "disk-space" /\ DS!Next
     \/ plugin = "trash" /\ TE!Next
  /\ Frozen

SumSpec == SumInit /\ [][SumNext]_<<plugin, size, vars, xs>>

-----------------------------------------------------------------------------
(* What the plugin that is picked holds.                                   *)
Held ==
  CASE plugin = "keys" -> (IF screens > 0 THEN {"grabs"} ELSE {}) \cup (IF watches > 0 THEN {"settings"} ELSE {})
    [] plugin = "typing-break" -> TB!Held [] plugin = "mouse" -> M!Held
    [] plugin = "a11y-keyboard" -> AK!Held [] plugin = "keyboard" -> KB!Held
    [] plugin = "xsettings" -> XS!Held [] plugin = "background" -> BG!Held
    [] plugin = "sound" -> SO!Held [] plugin = "a11y-settings" -> AS!Held
    [] plugin = "xrdb" -> XR!Held [] plugin = "mpris" -> MP!Held
    [] plugin = "players" -> PL!Held [] plugin = "housekeeping" -> HK!Held
    [] plugin = "disk-space" -> DS!Held [] OTHER -> {}

Late == late \/ (plugin = "players" /\ PL!CameLate) \/ (plugin = "disk-space" /\ DS!Astray)

S == INSTANCE Service WITH held <- Held, late <- Late

(* Every plugin keeps what it promises the daemon: it has let go of what   *)
(* it took hold of when it is stopped (the stop functions of each, but for *)
(* what its own module says).                                              *)
ServicePromise == S!Spec

(* Once all is quiet the devices and the X server's keyboard are set as    *)
(* the settings of the mouse, the keyboard and the a11y-keyboard plugin    *)
(* say, whichever side changed first, and the helpers run as they say.     *)
InputFollowsSettings ==
  /\ plugin = "mouse" => M!DevicesFollowSettings /\ M!HelpersFollowSettings
  /\ plugin = "locate-pointer" => LP!CirclesEnd
  /\ plugin = "keyboard" => KB!KeyboardFollowsSettings
  /\ plugin = "a11y-keyboard" => AK!ServerFollowsSettings /\ AK!ControlsAreRestored

(* Once all is quiet what the other plugins make of their settings is      *)
(* there: the typing monitor, the published XSETTINGS, the background, the *)
(* accessibility switch, the resources of the theme, and no sounds of      *)
(* themes that are gone.                                                   *)
DesktopFollowsSettings ==
  /\ plugin = "typing-break" => TB!MonitorFollowsSetting
  /\ plugin = "xsettings" => XS!PublishedFollowsSettings
  /\ plugin = "background" => BG!BackgroundIsDrawn
  /\ plugin = "a11y-settings" => AS!AccessibilityFollowsApps
  /\ plugin = "sound" => SO!OldSoundsAreDropped
  /\ plugin = "xrdb" => XR!ResourcesFollowTheme

(* The serials of the published settings tell an application what changed. *)
SerialsTellChanges == [][plugin = "xsettings" => XS!SerialTellsChange]_<<x10, x11>>

(* No callback finds what it uses to be gone, as it would after a stop     *)
(* that left it behind: handlers and their settings, dialogs and the timer *)
(* that shows them, notifications, font timers and their managers; and     *)
(* what was switched off for a moment is switched on again.  Only what the *)
(* stop of the keyboard plugin frees, its registry of layouts and table of *)
(* dialogs, is found by pointers that stay: nothing is said of it once the *)
(* plugin was stopped.                                                     *)
NothingDangles ==
  /\ plugin = "mouse" => M!HandlersHaveSettings
  /\ plugin = "keyboard" => KB!WaitingHasTimer /\ KB!FreedByStop
  /\ plugin = "a11y-keyboard" => AK!NoteIsThere
  /\ plugin = "xsettings" => XS!FontsFindManagers /\ XS!IconsComeBack

(* The media keys go to the player that asked last, and those that run are *)
(* all known to the plugin that speaks for them.                           *)
KeysGoToPlayers ==
  /\ plugin = "mpris" => MP!PlayersAreQueued
  /\ plugin = "players" => PL!LastAskedListens /\ PL!ProxyFollowsName

(* The limits of the thumbnails are applied when they change, and exactly; *)
(* the volumes that are full are known and the user told of them, whatever *)
(* happens while a warning is shown; and the thread that empties the trash *)
(* and the dialog that shows it never meet over a file.                    *)
HouseIsKept ==
  /\ plugin = "housekeeping" => HK!LimitsAreApplied /\ HK!CleanupIsExact /\ HK!ZeroIsApplied
  /\ plugin = "disk-space" => DS!FullAreKnown /\ DS!KnownAreTold /\ DS!MonitorIsWhole
  /\ plugin = "trash" => TE!UpdatesFindFiles /\ TE!FractionIsDefined

(* What the mechanism answers is so: the zone, the clock and the hardware  *)
(* clock are what was asked for, or the caller is told of an error; and    *)
(* its notion of the zone is that of the system.                           *)
AnswersAreTrue == plugin = "datetime" => DT!AnswersAreTrue /\ DT!ObjectFollowsSystem

=============================================================================
