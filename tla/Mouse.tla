------------------------------- MODULE Mouse -------------------------------
(***************************************************************************)
(* The mouse plugin (plugins/mouse/csd_mouse-manager.c): writes settings   *)
(* to the input devices as they change and as devices come, and runs two   *)
(* helper programs.                                                        *)
(*                                                                         *)
(* Which driver's properties there are is asked of the server, not of the  *)
(* device: property_exists_on_device is true for every device once some    *)
(* device of the driver has ever been there, since XGetDeviceProperty      *)
(* succeeds for a property that the device does not have.                  *)
(***************************************************************************)
EXTENDS Integers, Sequences

CONSTANTS
  Device,
  Worlds,     \* what the devices may be: functions from Device to records of
              \*   pad: a touchpad, driver, single: has one button
  MaxStarts,  \* bound on the starts of the plugin
  MaxChanges  \* bound on the starts and the changes of settings and devices

VARIABLES
  on, begun, idles, \* activated; starts so far; starts that are queued
  late,       \* history: a queued start ran after a stop, or on top of another
  kind,       \* what the devices are
  plugged,    \* the devices that are there
  drivers,    \* drivers whose properties the server knows
  unread,     \* a DeviceEnabled event is yet to be handled
  opts,       \* the settings
  unheard,    \* keys whose change is yet to be signalled
  prop,       \* what is set on each device
  hasopts,    \* settings_mouse and settings_touchpad are there
  listening,  \* settings objects that call the manager
  filtered,   \* how often the presence filter is installed
  helper,     \* helper programs that run
  spawned,    \* syndaemon_spawned, locate_pointer_spawned
  missing,    \* history: helpers that ended on their own or did not start
  orphan,     \* history: a syndaemon was forgotten
  changes     \* number of changes so far

vars == <<on, begun, idles, late, kind, plugged, drivers, unread, opts, unheard, prop, hasopts,
          listening, filtered, helper, spawned, missing, orphan, changes>>

Default ==
  [left |-> FALSE, padleft |-> "mouse", middle |-> FALSE, motion |-> "slow", padmotion |-> "slow",
   profile |-> "default", padprofile |-> "default", locate |-> FALSE,
   dwt |-> FALSE, tap |-> FALSE, onefinger |-> 1, click2 |-> FALSE, click3 |-> FALSE,
   vedge |-> FALSE, hedge |-> FALSE, vtwo |-> TRUE, htwo |-> FALSE, natural |-> FALSE, enabled |-> TRUE]

Values(k) ==
  CASE k = "padleft" -> {"right", "left", "mouse"}
    [] k \in {"motion", "padmotion"} -> {"slow", "fast"}
    [] k \in {"profile", "padprofile"} -> {"default", "flat"}
    [] k = "onefinger" -> {0, 1, 3}
    [] OTHER -> BOOLEAN

(* What a device that was just plugged in does.                            *)
Fresh ==
  [buttons |-> <<1, 2, 3>>, lefty |-> FALSE, middle |-> FALSE, motion |-> "slow", profile |-> "default",
   dwt |-> FALSE, tap |-> 0, clicks |-> <<FALSE, FALSE>>, edge |-> <<FALSE, FALSE>>, two |-> <<FALSE, FALSE>>,
   horizontal |-> FALSE, distance |-> 1, enabled |-> TRUE]

Init ==
  /\ on = FALSE /\ begun = 0 /\ idles = 0 /\ late = FALSE
  /\ kind \in Worlds
  /\ plugged \in SUBSET Device
  /\ drivers = {kind[d].driver : d \in plugged}
  /\ unread = FALSE
  /\ opts = Default
  /\ unheard = {}
  /\ prop = [d \in Device |-> Fresh]
  /\ hasopts = FALSE /\ listening = 0 /\ filtered = 0
  /\ helper = {} /\ spawned = {} /\ missing = {} /\ orphan = FALSE
  /\ changes = 0

-----------------------------------------------------------------------------
(* device_is_touchpad, for a device of the server's type touchpad          *)
IsTouchpad(dev) == dev.pad /\ dev.driver \in {"libinput", "synaptics"}

(* get_touchpad_handedness                                                 *)
TouchpadHandedness(s) == IF s.padleft = "mouse" THEN s.left ELSE s.padleft = "left"

WantLeft(dev, s) == IF IsTouchpad(dev) THEN TouchpadHandedness(s) ELSE s.left

(* Mutant: swapped buttons are swapped again.                              *)
ConfigureButtonLayoutBlindly(buttons, left) ==
  LET right == IF Len(buttons) < 3 THEN Len(buttons) ELSE 3
      swap(x, y) == [i \in DOMAIN buttons |-> IF buttons[i] = x THEN y ELSE IF buttons[i] = y THEN x ELSE buttons[i]]
  IN IF buttons[1] \notin {1, right} THEN buttons
     ELSE IF left THEN swap(1, right) ELSE buttons

(* configure_button_layout: the first button that is the other one becomes *)
(* what the first of all was; a mapping that is neither is left alone.     *)
ConfigureButtonLayout(buttons, left) ==
  LET right == IF Len(buttons) < 3 THEN Len(buttons) ELSE 3
      From == IF left THEN 1 ELSE right
      To   == IF left THEN right ELSE 1
      First == {i \in DOMAIN buttons : buttons[i] = To /\ \A j \in 1..i - 1 : buttons[j] # To}
  IN IF buttons[1] # From \/ buttons[1] \notin {1, right} THEN buttons
     ELSE [i \in DOMAIN buttons |-> IF i = 1 THEN To ELSE IF i \in First THEN From ELSE buttons[i]]

(* set_tap_to_click_synaptics, _libinput: left-handed taps are mirrored    *)
SetTap(dev, p, s, left) ==
  LET finger == IF s.onefinger \in 1..3 THEN s.onefinger ELSE 1
      tapped == IF ~s.tap THEN 0 ELSE IF left THEN 4 - finger ELSE finger
  IN IF ~IsTouchpad(dev) THEN p
     ELSE IF dev.driver = "synaptics" THEN [p EXCEPT !.tap = tapped]
     ELSE [p EXCEPT !.tap = IF s.tap THEN 1 ELSE 0]

(* set_left_handed, with either driver: a touchpad of one button keeps its *)
(* taps and its button                                                     *)
SetLeftHanded(dev, p, s, known) ==
  LET left == WantLeft(dev, s)
      taps == IF IsTouchpad(dev) /\ s.tap /\ ~dev.single THEN SetTap(dev, p, s, left) ELSE p
  IN IF "libinput" \in known
       THEN IF dev.driver = "libinput" THEN [p EXCEPT !.lefty = left] ELSE p
     ELSE IF IsTouchpad(dev) /\ dev.single THEN taps
     ELSE [taps EXCEPT !.buttons = ConfigureButtonLayout(taps.buttons, left)]

(* set_motion, with either driver                                          *)
SetMotion(dev, p, s, known) ==
  IF "libinput" \in known /\ dev.driver # "libinput" THEN p
  ELSE [p EXCEPT !.motion = IF IsTouchpad(dev) THEN s.padmotion ELSE s.motion]

(* set_accel_profile: only libinput has profiles                           *)
SetProfile(dev, p, s) ==
  IF dev.driver # "libinput" THEN p
  ELSE [p EXCEPT !.profile = IF IsTouchpad(dev) THEN s.padprofile ELSE s.profile]

(* set_middle_button: no touchpads                                         *)
SetMiddle(dev, p, s) ==
  IF dev.driver = "synaptics" \/ (dev.driver = "libinput" /\ IsTouchpad(dev)) THEN p
  ELSE [p EXCEPT !.middle = s.middle]

(* set_disable_w_typing_libinput                                           *)
SetTyping(dev, p, s) ==
  IF IsTouchpad(dev) /\ dev.driver = "libinput" THEN [p EXCEPT !.dwt = s.dwt] ELSE p

(* set_click_actions: libinput has one method for two and three fingers    *)
SetClicks(dev, p, s) ==
  IF ~IsTouchpad(dev) THEN p
  ELSE [p EXCEPT !.clicks = IF dev.driver = "synaptics" THEN <<s.click2, s.click3>>
                            ELSE LET finger == s.click2 \/ s.click3 IN <<~finger, finger>>]

(* set_scrolling: libinput has one method, two fingers rather than edges,  *)
(* and one horizontal scrolling, which is left alone with neither          *)
SetScrolling(dev, p, s) ==
  IF ~IsTouchpad(dev) THEN p
  ELSE IF dev.driver = "synaptics"
    THEN [p EXCEPT !.edge = <<s.vedge, s.hedge>>, !.two = <<s.vtwo, s.htwo>>]
  ELSE [p EXCEPT !.two  = <<s.vtwo, p.two[2]>>,
                 !.edge = <<s.vedge /\ ~s.vtwo, p.edge[2]>>,
                 !.horizontal = IF s.vtwo THEN s.htwo ELSE IF s.vedge THEN s.hedge ELSE p.horizontal]

(* set_natural_scroll: synaptics has negative distances                    *)
SetNatural(dev, p, s) ==
  IF IsTouchpad(dev) THEN [p EXCEPT !.distance = IF s.natural THEN -1 ELSE 1] ELSE p

(* set_touchpad_enabled                                                    *)
SetEnabled(dev, p, s) == IF IsTouchpad(dev) THEN [p EXCEPT !.enabled = s.enabled] ELSE p

(* set_mouse_settings, as far as devices go                                *)
SetAll(dev, p, s, known) ==
  LET p1 == SetLeftHanded(dev, p, s, known)
      p2 == SetMotion(dev, p1, s, known)
      p3 == SetTyping(dev, SetMiddle(dev, p2, s), s)
      p4 == SetTap(dev, p3, s, TouchpadHandedness(s))
      p5 == SetScrolling(dev, SetClicks(dev, p4, s), s)
      p6 == SetEnabled(dev, SetNatural(dev, p5, s), s)
  IN SetProfile(dev, p6, s)

(* mouse_callback and touchpad_callback, as far as devices go              *)
SetKey(k, dev, p, s, known) ==
  CASE k \in {"left", "padleft"} -> SetLeftHanded(dev, p, s, known)
    [] k \in {"motion", "padmotion"} -> SetMotion(dev, p, s, known)
    [] k \in {"profile", "padprofile"} -> SetProfile(dev, p, s)
    [] k = "middle" -> SetMiddle(dev, p, s)
    [] k = "dwt" -> SetTyping(dev, p, s)
    [] k \in {"tap", "onefinger"} -> SetTap(dev, p, s, TouchpadHandedness(s))
    [] k \in {"click2", "click3"} -> SetClicks(dev, p, s)
    [] k \in {"vedge", "hedge", "vtwo", "htwo"} -> SetScrolling(dev, p, s)
    [] k = "natural" -> SetNatural(dev, p, s)
    [] k = "enabled" -> SetEnabled(dev, p, s)
    [] k = "locate" -> p

-----------------------------------------------------------------------------
Helper == {"syndaemon", "locate-pointer"}

KeyOf(h) == IF h = "syndaemon" THEN "dwt" ELSE "locate"

(* The helpers that settings ask for; syndaemon only with a touchpad.      *)
Wanted(s) ==
  (IF s.locate THEN {"locate-pointer"} ELSE {})
  \cup (IF s.dwt /\ \E d \in plugged : IsTouchpad(kind[d]) THEN {"syndaemon"} ELSE {})

(* set_disable_w_typing_synaptics, if there are properties of synaptics,   *)
(* and set_locate_pointer, for those of the helpers that are governed: one *)
(* that cannot be started is turned off in the settings, or left alone if  *)
(* its program is not there.                                               *)
SetHelpers(governed, running) ==
  LET ask == IF "synaptics" \in drivers THEN governed ELSE governed \ {"syndaemon"}
      new == (Wanted(opts) \cap ask) \ running
      end == (running \cap ask) \ Wanted(opts)
  IN \E started \in SUBSET new : \E off \in SUBSET (new \ started) :
       /\ spawned' = (running \cup started) \ end
       /\ helper' = (helper \cup started) \ end
       /\ missing' = missing \cup (new \ started)
       /\ opts' = [k \in DOMAIN opts |-> IF k \in {KeyOf(h) : h \in off} THEN FALSE ELSE opts[k]]

(* set is what is set on each of the devices there are; one that is        *)
(* enabled again is announced like one that was plugged in.                *)
SetDevices(set, announced) ==
  /\ prop' = [d \in Device |-> IF d \in plugged THEN set[d] ELSE prop[d]]
  /\ unread' = (filtered' > 0 /\ (announced \/ \E d \in plugged : set[d].enabled /\ ~prop[d].enabled))

(* csd_mouse_manager_start                                                 *)
Start ==
  /\ ~on /\ begun < MaxStarts
  /\ on' = TRUE
  /\ begun' = begun + 1
  /\ idles' = idles + 1
  /\ UNCHANGED <<late, kind, plugged, drivers, unread, opts, unheard, prop, hasopts, listening,
                 filtered, helper, spawned, missing, orphan, changes>>

(* csd_mouse_manager_idle_cb: a syndaemon from before is forgotten         *)
IdleCb ==
  /\ idles > 0
  /\ idles' = idles - 1
  /\ late' = (late \/ ~on \/ hasopts)
  /\ hasopts' = TRUE
  /\ listening' = listening + 1
  /\ filtered' = filtered + 1
  /\ orphan' = (orphan \/ "syndaemon" \in helper)
  /\ SetHelpers(Helper, spawned \ {"syndaemon"})
  /\ SetDevices([d \in plugged |-> SetAll(kind[d], prop[d], opts, drivers)], unread)
  /\ UNCHANGED <<on, begun, kind, plugged, drivers, unheard, changes>>

(* The user changes a setting.                                             *)
ChangeKey(k, v) ==
  /\ begun > 0 /\ begun + changes < MaxChanges
  /\ opts[k] # v
  /\ opts' = [opts EXCEPT ![k] = v]
  /\ unheard' = IF listening > 0 THEN unheard \cup {k} ELSE {}
  /\ changes' = changes + 1
  /\ UNCHANGED <<on, begun, idles, late, kind, plugged, drivers, unread, prop, hasopts, listening,
                 filtered, helper, spawned, missing, orphan>>

(* mouse_callback, touchpad_callback                                       *)
SettingsCallback(k) ==
  /\ listening > 0 /\ hasopts
  /\ k \in unheard
  /\ unheard' = unheard \ {k}
  /\ SetHelpers({h \in Helper : k = KeyOf(h)}, spawned)
  /\ filtered' = filtered
  /\ SetDevices([d \in plugged |-> SetKey(k, kind[d], prop[d], opts, drivers)], unread)
  /\ UNCHANGED <<on, begun, idles, late, kind, plugged, drivers, hasopts, listening, orphan, changes>>

Plug(d) ==
  /\ d \notin plugged /\ begun > 0 /\ begun + changes < MaxChanges
  /\ plugged' = plugged \cup {d}
  /\ drivers' = drivers \cup {kind[d].driver}
  /\ prop' = [prop EXCEPT ![d] = Fresh]
  /\ unread' = (filtered > 0)
  /\ changes' = changes + 1
  /\ UNCHANGED <<on, begun, idles, late, kind, opts, unheard, hasopts, listening, filtered,
                 helper, spawned, missing, orphan>>

Unplug(d) ==
  /\ d \in plugged /\ begun > 0 /\ begun + changes < MaxChanges
  /\ plugged' = plugged \ {d}
  /\ changes' = changes + 1
  /\ UNCHANGED <<on, begun, idles, late, kind, drivers, unread, opts, unheard, prop, hasopts,
                 listening, filtered, helper, spawned, missing, orphan>>

(* devicepresence_filter, set_mouse_settings                               *)
DevicePresence ==
  /\ unread /\ filtered > 0 /\ hasopts
  /\ SetHelpers({"syndaemon"}, spawned)
  /\ filtered' = filtered
  /\ SetDevices([d \in plugged |-> SetAll(kind[d], prop[d], opts, drivers)], FALSE)
  /\ UNCHANGED <<on, begun, idles, late, kind, plugged, drivers, unheard, hasopts, listening,
                 orphan, changes>>

(* A helper ends on its own: it still counts as spawned.                   *)
HelperExits(h) ==
  /\ h \in helper
  /\ helper' = helper \ {h}
  /\ missing' = missing \cup {h}
  /\ UNCHANGED <<on, begun, idles, late, kind, plugged, drivers, unread, opts, unheard, prop,
                 hasopts, listening, filtered, spawned, orphan, changes>>

(* csd_mouse_manager_stop: syndaemon is left running                       *)
Stop ==
  /\ on
  /\ on' = FALSE
  /\ hasopts' = FALSE
  /\ listening' = IF hasopts THEN listening - 1 ELSE listening
  /\ unheard' = IF listening' = 0 THEN {} ELSE unheard
  /\ spawned' = spawned \ {"locate-pointer"}
  /\ helper' = IF "locate-pointer" \in spawned THEN helper \ {"locate-pointer"} ELSE helper
  /\ filtered' = IF filtered > 0 THEN filtered - 1 ELSE 0
  /\ unread' = (unread /\ filtered' > 0)
  /\ UNCHANGED <<begun, idles, late, kind, plugged, drivers, opts, prop, missing, orphan, changes>>

Next ==
  \/ Start \/ IdleCb \/ DevicePresence \/ Stop
  \/ \E k \in DOMAIN opts : SettingsCallback(k) \/ \E v \in Values(k) : ChangeKey(k, v)
  \/ \E d \in Device : Plug(d) \/ Unplug(d)
  \/ \E h \in Helper : HelperExits(h)

Spec == Init /\ [][Next]_vars

-----------------------------------------------------------------------------
(* What the plugin holds: but for syndaemon, which no stop ends.           *)
Held ==
  (IF hasopts \/ listening > 0 THEN {"settings"} ELSE {}) \cup (IF filtered > 0 THEN {"filter"} ELSE {})
  \cup (helper \cap {"locate-pointer"})

(* As long as no start came late: the settings are there only while the    *)
(* plugin is activated, and with them, and only then, one handler of each  *)
(* kind; the helper that a stop ends counts as spawned.                    *)
LetGo ==
  ~late => /\ hasopts => on
           /\ listening = (IF hasopts THEN 1 ELSE 0)
           /\ filtered = listening
           /\ helper \cap {"locate-pointer"} \subseteq spawned
           /\ ~hasopts => "locate-pointer" \notin spawned

Quiet == on /\ ~late /\ hasopts /\ idles = 0 /\ ~unread /\ unheard = {}

(* What is set on a device p follows the settings s: motion, hand, taps    *)
(* and the fingers they are for, and the rest.  A device that is not       *)
(* libinput's is left alone in part once one of libinput's was there.      *)
Own(dev, known) == dev.driver = "libinput" \/ "libinput" \notin known
MotionFollows(dev, p, s, known) ==
  Own(dev, known) => p.motion = IF IsTouchpad(dev) THEN s.padmotion ELSE s.motion
HandFollows(dev, p, s, known) ==
  /\ dev.driver = "libinput" => p.lefty = WantLeft(dev, s)
  /\ Own(dev, known) /\ dev.driver # "libinput" /\ ~(IsTouchpad(dev) /\ dev.single)
       => (p.buttons[1] = 3 <=> WantLeft(dev, s))
TapsFollow(dev, p, s) == IsTouchpad(dev) => (p.tap = 0 <=> ~s.tap)
TapsAreMirrored(dev, p, s, known) ==
  Own(dev, known) /\ dev.driver = "synaptics" /\ ~dev.single /\ s.tap
    => (WantLeft(dev, s) <=> (p.tap = 1 <=> s.onefinger = 3))
EnablingFollows(dev, p, s) == IsTouchpad(dev) => p.enabled = s.enabled
ScrollingFollows(dev, p, s) == IsTouchpad(dev) => (p.distance < 0 <=> s.natural)
ScrollsOneWay(dev, p) == IsTouchpad(dev) => ~(dev.driver = "libinput" /\ p.edge[1] /\ p.two[1])

(* Once all is quiet each device is set as the settings say, by whatever   *)
(* sequence of changes and devices it came there: its hand, taps, motion   *)
(* and the rest.  Excepted are devices that are not libinput's once one of *)
(* libinput's was there (hand, motion), and the taps of a touchpad of one  *)
(* button after a change of hand.                                          *)
DevicesFollowSettings ==
  Quiet => \A d \in plugged :
    /\ MotionFollows(kind[d], prop[d], opts, drivers)
    /\ HandFollows(kind[d], prop[d], opts, drivers)
    /\ TapsFollow(kind[d], prop[d], opts)
    /\ TapsAreMirrored(kind[d], prop[d], opts, drivers)
    /\ EnablingFollows(kind[d], prop[d], opts)
    /\ ScrollingFollows(kind[d], prop[d], opts)
    /\ ScrollsOneWay(kind[d], prop[d])

(* Once all is quiet a helper runs exactly if it is asked for, unless it   *)
(* ended on its own or did not start, or, for syndaemon, the touchpad was  *)
(* unplugged or an earlier one forgotten.                                  *)
HelpersFollowSettings ==
  Quiet => \A h \in Helper \ missing :
    /\ h \in Wanted(opts) /\ (h = "syndaemon" => "synaptics" \in drivers) => h \in helper
    /\ h \in helper => opts[KeyOf(h)] \/ (h = "syndaemon" /\ orphan)

(* No handler runs without the settings.                                   *)
HandlersHaveSettings == ~late => (listening > 0 \/ filtered > 0 <=> hasopts)

(* What DevicesFollowSettings rests on: a device follows each setting but  *)
(* those whose change is pending.                                          *)
DeviceFollows(dev, p, s, known, pending) ==
  /\ {"motion", "padmotion"} \cap pending = {} => MotionFollows(dev, p, s, known)
  /\ {"left", "padleft"} \cap pending = {} => HandFollows(dev, p, s, known)
  /\ "tap" \notin pending => TapsFollow(dev, p, s)
  /\ {"left", "padleft", "tap", "onefinger"} \cap pending = {} => TapsAreMirrored(dev, p, s, known)
  /\ "enabled" \notin pending => EnablingFollows(dev, p, s)
  /\ "natural" \notin pending => ScrollingFollows(dev, p, s)

DevicesAreSet ==
  /\ ~late /\ hasopts /\ ~unread
       => \A d \in plugged : DeviceFollows(kind[d], prop[d], opts, drivers, unheard)
  /\ \A d \in plugged : ScrollsOneWay(kind[d], prop[d])

(* What HelpersFollowSettings rests on: a helper that counts as spawned    *)
(* runs, and one that runs counts, or was forgotten; while the settings    *)
(* are there those that run are those that are asked for, but for changes  *)
(* and touchpads that are pending.                                         *)
HelpersAreCounted ==
  /\ \A h \in Helper \ missing : /\ h \in spawned => h \in helper
                                 /\ h \in helper => h \in spawned \/ (h = "syndaemon" /\ orphan)
  /\ "syndaemon" \in helper => "synaptics" \in drivers
  /\ ~late /\ hasopts => \A h \in Helper \ missing : KeyOf(h) \notin unheard =>
       /\ h \in Wanted(opts) /\ (h = "syndaemon" => "synaptics" \in drivers /\ ~unread) => h \in helper
       /\ h \in helper => opts[KeyOf(h)] \/ (h = "syndaemon" /\ orphan)

(* What can be set on a device, and the settings as far as it matters.     *)
Whole(p) == DOMAIN p = DOMAIN Fresh /\ p.buttons \in {<<1, 2, 3>>, <<3, 2, 1>>}

MouseTypes ==
  /\ kind \in Worlds
  /\ plugged \subseteq Device /\ \A d \in plugged : kind[d].driver \in drivers
  /\ DOMAIN opts = DOMAIN Default /\ opts.onefinger \in Values("onefinger")
  /\ DOMAIN prop = Device /\ \A d \in Device : Whole(prop[d])

=============================================================================
