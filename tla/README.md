# A formal model of cafe-settings-daemon

`cafe-settings-daemon` is the process of a CAFE desktop session that holds some
twenty plugins: each applies the user's settings to the X server, or serves the
session in another way.  This directory keeps TLA+ models of its parts beside
the code, the TLC runs that check them, and TLAPS proofs about them.
`PROJECT.json` maps every definition to the lines that it translates and lists
the runs, the mutants that show each property to be breakable, the hazards and
the theorems; this file explains the rest.

Paths are relative to the repository; `plugins/` is short for `src/plugins/`.

Contents: 1 the system and its parts; 2 the plan; 3 the modules and the code;
4 the runs, their bounds and fairness; 5 what was found; 6 the proofs;
7 what the models assume and leave out.

## 1. The system

The daemon is one thread with a GLib main loop.  `main.c` connects to D-Bus,
starts the plugins in two phases around its registration with the session
manager, and enters the loop.  All that plugins do happens in callbacks of that
loop: GSettings signals, D-Bus calls and answers, X events, timers, idle
sources.  Two plugins have a thread (smartcard's worker, the emptying of the
trash), one has a process of its own on the system bus (datetime's mechanism).
A handler that opens a dialog runs a nested main loop in which all other
handlers are dispatched again: much of what is hard here comes from that, from
answers that arrive after the state that asked for them has changed, and from
idle callbacks that are queued by a start and that no stop removes.

How the parts touch each other:

  - the host calls `activate` and `deactivate` of each plugin, from start-up,
    settings changes, D-Bus and the end of the session;
  - media-keys and keybindings grab keys of the same X client (`common/`);
    media-keys calls rfkill, xrandr, power and media players over D-Bus, and
    mpris registers players with media-keys over D-Bus;
  - rfkill follows the kernel, NetworkManager and ModemManager and announces
    what it makes of them;
  - clipboard talks to all X clients through selections and properties;
  - smartcard talks to its thread through a pipe.

### Components

| Component | State it keeps | Operations | What is hard | What makes it correct |
|---|---|---|---|---|
| Plugin host: `cafe-settings-daemon/{main,cafe-settings-manager,cafe-settings-plugin-info,cafe-settings-module}.c` | list of plugin infos (enabled, available, active, object, priority), running main loops | the two start phases, Awake, Start, settings changes, end of session, SIGTERM, loss of the name, disposal | settings, files and signals that come between two plugins of a loop; `enabled` is a copy that is never refreshed; nested loops | activations and deactivations paired; enabled plugins active; order by priority; SIGTERM ends the daemon |
| rfkill: `plugins/rfkill/{rfkill-glib,csd_rfkill-manager}.c` | one event, one task, one timer, the stream; tables of switches, facts about the modem | set airplane mode (all, Bluetooth), kernel events, answers of the bus, start, stop | callbacks in any order, requests that overlap, the object outliving the manager | every request answered once, success only if written; table = kernel; announcements current |
| smartcard: `plugins/smartcard/*.c` | worker's table of tracked cards by slot, pipe, manager's table by name, plugin's flag | worker's wait and classification, processing of messages, start, stop, activate, deactivate | a thread that reads a slot in several steps while cards come and go | messages paired; table = slots; the removal action runs |
| clipboard: `plugins/clipboard/*.c` | saved contents, the request being served, transfers in parts, X filters | SAVE_TARGETS, conversion, parts in and out, loss of the selections | a distributed protocol with clients that copy, end or never answer; writes to the windows of clients outside any error trap (`csd_clipboard-manager.c:384`, 516, 540, 646, 757) | what was confirmed as saved is kept and served whole; every request answered |
| media-keys shortcuts: `plugins/media-keys/csd_media-keys-manager.c` | table of keys, screens, queued start, settings | start, its idle callback, change of a shortcut, stop | the queued start and the stop; grabs shared with others, and grabs that fail because another application has the key | grabbed = bound |
| keybindings: `plugins/keybindings/*.c`; common grabs: `plugins/common/csd_keygrab.c` | list of bindings; the X grabs | start, change of any binding, stop; grab, ungrab | all keys are ungrabbed and grabbed anew at each change; one X client has one grab of a key | grabbed = bound |
| xrandr, trying a configuration: `plugins/xrandr/csd_xrandr-manager.c` | the screen, queued confirmations, open dialogs, `monitors.xml` and its backup | save and apply over D-Bus or from the menu, confirmation, start, stop, hot-plugging, keys | confirmation dialogs with a countdown in nested `ctk_main`: a countdown ends the innermost loop, whose dialog may be another's (458); a window kept without a reference (563); a stop during a dialog (545); files that cannot be applied (584) or saved (2065); crashes; without libnotify an error dialog in the middle of a handler (1148) | a configuration that nobody confirms is taken back; every dialog ends; no backup is left over |
| media players: `plugins/mpris/*.c` and the player list of media-keys | watcher of a bus name space, queue of players, proxy, media-keys' list by time | names that come, change owner and go between signals and answers; the first watch has number 0, which means none (`csd_mpris-manager.c:338`); a proxy that arrives after its name has gone (271); a 32-bit time in milliseconds (`csd_media-keys-manager.c:1071`); a stopped media-keys that still takes players from the bus (1637) | a player is queued once; the one that asked last gets the keys |
| housekeeping: `plugins/housekeeping/*.c` | two timers; notified mounts, the warning, ignored paths; the pending update of the trash's dialog | purge of thumbnails, check of mounts, the thread that empties the trash | the warning's main loop, in which all is checked again (`csd_disk-space.c:208`) or the plugin is stopped (574); the limit as an `int` (`csd_housekeeping-manager.c:153`); the thread without a lock (`csd_ldsm-trash-empty.c:144`) | the limits are applied, exactly; full volumes are known and told of; thread and dialog never meet |
| datetime: `plugins/datetime/*.c` | a call and its stage, the exit timer, the system's time zone files, the zone object | SetTime, AdjustTime, SetTimezone, hardware clock, watching of the files | the clock read before the authorization (`csd_datetime-mechanism.c:412`), a time set without the hardware clock (296), the exit with calls waiting (63), a zone written to one file after another (`system-timezone.c:985`) | what is answered is so |
| xsettings: `plugins/xsettings/*.c` | the list of settings with serials, the selection, fontconfig's monitor | start, changes of settings, of the screen and of the fonts, stop | the monitor starts from an idle callback that a stop does not remove (`csd_xsettings-manager.c:772`); a static list that outlives the manager | what is published follows the settings; a serial tells what changed |
| typing-break | child, delayed start, timers that kill | | the delayed start, a restart before the old child is reaped (101), a timer's id overwritten (91) | the child runs exactly while enabled |
| background | who draws: file manager or plugin | | the settings are released when the file manager takes over (388); idle callbacks (324); the stale proxy (526) | there is a background of the screen's size |
| mouse, with its pointer locator and its timeline | devices' properties, helpers | | a queued start (1804), a driver judged by a property that the server knows (534), ids of helpers that ended (954) | devices and helpers follow the settings |
| keyboard | layouts, Num Lock, dialogs that wait | | a queued start (315), Num Lock written from both sides, dialogs that share timers (`delayed-dialog.c:68`), a registry and a table that a stop frees without clearing their pointers (`csd_keyboard-xkb.c:665`, 685) | the server follows the settings |
| a11y-keyboard, a11y-settings | settings and controls, questions | | a queued start (1045), settings and controls each written when the other changes (956) | the two agree once all is quiet; a stop restores the controls |
| sound, xrdb | a timer; children that merge resources | | changes gathered for half a second; children that end in another order (`csd_xrdb-manager.c:466`) | no sound of an old theme; the resources are the theme's |
| dummy, data, translations, build files | none | | | |

### Not modelled

`dummy` keeps no state; data, translations and the build are read, not run.
Parts of modelled components that are left out, with the reason, are in
section 7.

## 2. The plan

Order: first what everything depends on or what can lose the user's data or
state (the host, rfkill, smartcard, clipboard, keys, the nested dialogs of
xrandr), then the rest of the plugins, then proofs.

| Stage | Modules | Composes | Properties | Theorems |
|---|---|---|---|---|
| 1 (done) | `PluginManager` | | start-up, pairing, SIGTERM | type, pairing, strays, enabled is active, the order of the start |
| 1 (done) | `Rfkill`, `RfkillManager` | object + manager + kernel | requests, tables, announcements | type, requests, tables, announcements |
| 1 (done) | `SmartcardWorker`, `SmartcardManager` | readers + worker + manager + plugin | pairing, table, removal | type, pairing, table |
| 1 (done) | `ClipboardClients`, `ClipboardManager` | clients + manager | saved is kept | type, saved is kept, served whole, types known, nothing left over |
| 1 (done) | `KeyGrabs`, `MediaKeys`, `Keybindings`, `DesktopKeys` | two plugins, one X client | grabbed = bound | type, grabbed = bound, both ways |
| 1 (done) | `Confirmation` | dialogs + nested loops + files | an unconfirmed configuration is taken back; dialogs end | files, responses, what is shown again |
| 2 (done) | `Service` (abstract) and the plugins below | | `ServicePromise`: each plugin implements it | every plugin implements it |
| 2 (done) | `Mouse`, `LocatePointer`, `Keyboard`, `A11yKeyboard` | plugin + server | `InputFollowsSettings`, `NothingDangles` | devices and the keyboard follow the settings; nothing dangles |
| 2 (done) | `XSettings`, `Background`, `TypingBreak`, `Sound`, `A11ySettings`, `Xrdb` | plugin + server, file manager, children | `DesktopFollowsSettings`, `SerialsTellChanges` | all of them follow their settings; serials tell changes |
| 2 (done) | `MprisPlayers`, `MediaPlayers` | bus + mpris + media-keys | `KeysGoToPlayers` | the keys go to the players |
| 2 (done) | `SystemTimezone`, `DateTime` | files + object + calls | `AnswersAreTrue` | what is answered is so |
| 2 (done) | `Housekeeping`, `DiskSpace`, `TrashEmpty` | timers; checks + nested loop; thread + loop | `HouseIsKept` | the limits, the volumes, the trash |
| 3 (done) | proofs for the modules of stage 1 | | every invariant that their runs check | inductive invariants, section 6 |
| 3 (done) | `DesktopProofs` | every part of `MCDesktop` | `ServicePromise`, `NothingDangles`, `SerialsTellChanges`, `HouseIsKept`, `AnswersAreTrue` | the refinement, for whichever part is picked; inductive invariants of two plugins |
| 3 (done) | `SettingsProofs` | the plugins that follow settings | `DesktopFollowsSettings`, `InputFollowsSettings` | inductive invariants |
| 3 (done) | `PlayersProofs` | bus + mpris + media-keys | `KeysGoToPlayers` | inductive invariants |
| 4 | `Outputs` | configurations of the display key, rotation, hot-plugging as operators over small sets of outputs and modes | what is chosen can be shown; the key comes round | the next rotation is allowed |

Abstract specifications:

  - `Service`: a plugin that holds things only while it is activated.  Fourteen
    parts implement it (`ServicePromise` of the run `Desktop_plugins`), each
    with a refinement mapping `Held` of its own, as long as no start came late.
  - Stated as properties so far, and worth a specification of their own: a
    *register of one request* that is answered exactly once (rfkill:
    `AnsweredOnce`, `EveryRequestAnswered`); a *set of cards* that follows the
    slots (smartcard); a *clipboard that outlives its owner*; *try and confirm*
    (xrandr: `UnconfirmedIsTakenBack`, `EveryDialogEnds`).

## 3. The modules and the code

Every action is a whole callback, up to its return to the loop, unless the code
itself can be interrupted in it: a thread, a nested loop, or a loop over plugins
between whose iterations settings, files and signals may change.  A variable's
comment names the field it stands for; histories, variables of which no guard of
the code's actions makes use, are marked `history`.  Operators that stand before
a definition under the word *Mutant* are the plausible bugs that the mutation
runs put in its place; nothing else uses them.

**`PluginManager`** - the host.  `main` is the place of `main()`; `loops` the
stack of main loops, each a `ctk_main` (which `ctk_main_quit` ends) or a
`ctk_dialog_run`; `job` the `g_slist_foreach` over the plugins in progress with
the plugins it has still to reach; `info[p]` the `CafeSettingsPluginInfo`.
`BeginLoad`/`MaybeActivate`/`EndLoad` are `cafe_settings_manager_start`,
`BeginUnload`/`UnloadPlugin`/`EndUnload` its stop; `PluginEnabledCb`, `Awake`,
`DBusStart`, `OnSessionEnd`, `OnTermSignalPipeClosed`, `BusMessage` are the
handlers.  The D-Bus method `Start` is declared without an argument, so that
the C function gets the address of its error as the load flag: the model passes
the flag `STRAY`, which matches no plugin.  `live[p]`, a history, counts
activations less deactivations.

**`Rfkill`, `RfkillManager`** - `Rfkill` is `CcRfkillGlib` alone: one `event`,
`task`, `timer` and output stream for any number of requests.  A write reaches
the kernel when it is issued; its callback comes later.  A second write while
one is in progress is refused, and its callback comes later too.  `fault`
records which of the code's assumptions failed: the assertion, a NULL event,
freed memory.  `RfkillManager` EXTENDS it with the kernel, the switches' event
queue, the manager's tables and the facts from NetworkManager and ModemManager
(of whose modems it is told only that one gains or loses an interface, not
that the first comes or the last goes whole);
its steps are `Rfkill`'s steps with their effect on the rest, or leave `Rfkill`
alone, which `RfkillProofs!ManagerStep` proves.  `Filed` is the loop over the
list of events, stated switch by switch: the last event about it counts.

**`SmartcardWorker`, `SmartcardManager`** - the worker's steps are split where
it asks NSS anew: wait, series, presence, name.  The readers act between any two
of them.  The pipe is a sequence of messages.  The manager reads them, keeps a
set of names, and the plugin runs the removal action (`noticed`).

**`ClipboardClients`, `ClipboardManager`** - the first module is the X side, and
external: the selection's owner, clients that copy, save, answer conversions,
refuse those from before their copy, send large data in parts, ask for what is
saved, and end.  The second is `clipboard_manager_process_event`, one action for
each kind of event.  Data is a sequence of parts, each marked with the copy it
is from, which is all that "whole" and "unmixed" need.  `Convert` is the owner's to
answer, or the server's if there is none; the manager may also be the owner and
then answers itself (`OwnAnswer`).  `Touch` is a write to a window outside any error
trap: if the window has gone, the X server's BadWindow ends the daemon
(`errors = "killed"`), after which it handles nothing.  It happens where data, the
answer to MULTIPLE or to TARGETS, or the next part is given to a client that
asked for it and has ended meanwhile (lines 384, 516, 540, 646), and where what
was saved is written back to the requestor (757).  A request to save that names
no property leaves a trap open for good (432), and all later errors are then
`trapped`.  The manager has no other way to tell answers apart
than their order, and the code does not look at the time of a failure: the
history `mistaken` notes that a failure was taken for that of a later
conversion.

**`KeyGrabs`, `MediaKeys`, `Keybindings`, `DesktopKeys`** - `KeyGrabs` holds the
one set of grabs of the daemon's X client; the two plugin modules grab and
ungrab in it; `DesktopKeys` interleaves them.  The history `shared` collects what
the code cannot be blamed for: keycodes that were bound twice at a time, and
those that a start bound while it had no screen to grab them on, and those that
another application had at some time while they were bound.  A grab of a keycode that another
application has (`taken`) fails, which the code traps and warns of: `Grabbed`
takes what is free.  The code grabs each keycode under every combination of the
modifiers that it ignores; the model takes it that an application which has one
of these has them all.  A key is a set of keycodes, since
a keysym may be on several, and two keys may share some.

**`Confirmation`** - what xrandr does with a configuration from its save to the
user's answer.  `intended` and `backup` are the two files, `screen` what is
shown, `fits` the configurations that the connected monitors can show,
`queued` the idle callbacks, `dialogs` the stack of confirmation dialogs, each
with the `ctk_main` that it runs.  `saved` stands between another program's save
and its D-Bus call.  `TryToApply` is `try_to_apply_intended_configuration`; the
menu's handlers are actions that save and try, with failures of the save as
actions of their own; `AskUser`, `CountdownEnds`, `TimeoutResponse`,
`LoopReturns` are the life of a dialog, `UserSaysThingsAreOk` and
`RestoreBackup` its two ends.  A response that was never set reads as anything.
What the keys and hot-plugging choose is left open (any configuration).  The
histories: `kept` is what the files go back to, `before` what was shown before
the menu was used, `disturbed` that another change or a start came before the
decision, that nothing was saved, or that SIGTERM ended the loop.

**`Service`** - what `cafe-settings-plugin.h` has of a plugin, `activate` and
`deactivate`, as a promise: nothing is held unless activated.  Timers, signal
handlers, filters, grabs, children and watches are what the plugins hold; each
module's `Held` says which.  `late` is where the promise ends: a start that was
queued as an idle source, whose id the code does not keep, may run after the
stop, or twice.

**`Mouse`, `LocatePointer`** - `Mouse` is `csd_mouse-manager.c`: `SetKey` is
what `mouse_callback` and `touchpad_callback` do for each key, `SetAll` is
`set_mouse_settings` for a device, both made of one operator for each of the
`set_..._synaptics/libinput/evdev` families.  `drivers` is what the server knows
properties of, by which the code judges (`property_exists_on_device`).
`LocatePointer` is the helper program and `csd_timeline.c`: `RunFrame` is
`csd_timeline_run_frame`, `Locate` `csd_locate_pointer`.

**`Keyboard`** - `Apply` is `apply_settings`, `ApplyXkb` `apply_xkb_settings`
with its errors, `NumlockCallback` and `ToggleNumlock` the two directions of
Num Lock.  `dialogs`, `timers`, `messages` are `delayed-dialog.c`.  `registry` is
`xkl_registry`, which the stop frees and does not clear: a later
`FilterXkbConfig` asks what was freed, and may get any answer if the daemon
survives.  The table of the dialogs that show a layout (`preview_dialogs`) is
treated in the same way by the stop, and used by the menu of the icon
(`ShowLayout`) and the end of such a dialog (`CloseLayout`); `TableIsFreed` is
the time between a stop and the next start's idle callback, which makes a new
one.  The history `strayed` notes the first use of freed memory.  Of what a use of
it may do the model has the answers it may give, not a crash.

**`A11yKeyboard`, `A11ySettings`** - `ServerOf` is `set_server_from_settings`,
`SettingsOf` `set_settings_from_server`; the two differ in what they round
(`Rounded`), which is why agreement is worth a property.  Questions are alerts or
notifications; a notification's end is signalled later than it comes.

**`XSettings`** - the table of translations is one entry; what is computed (the
window scale, the resolution, the cursor's size) is computed.  `SetSetting` is
`xsettings_manager_set_setting`, `Notify` the publication,
`RecalculateScale` and `ScaleChangeWorkarounds` what a change of the screen
leads to, with the two timers that turn the desktop's icons off and on.  After
the stop, which does not disconnect it, `recalculate_scale_callback` reads -1 from
settings that are not there, a scale that always differs, and gives the result to
managers that are not there (`crashed`).

**`Background`** - `painting`, `loads` and `timer` are what is queued; `proxy` is
the session manager's, which is released and used again.

**`TypingBreak`, `Sound`, `Xrdb`** - one variable for each timer and child.  In
`Xrdb` the order of the directories is that of the code's prepends
(`ScanForFiles`); within one no two files have the same name, so that their
order does not matter.  A child's end is an action for each child.

**`SystemTimezone`, `DateTime`** - the first has `system_timezone_set`, one
action for each file it writes (`SetLink`, `SetCopy`, `UpdateConfig`) with their
failures, `Find`, which is `system_timezone_find`'s order of preference, and the
object's monitors.  The second EXTENDS it with the mechanism: `stage` is the
place in the call, `CheckPolkit` the answer of the user.

**`MprisPlayers`, `MediaPlayers`** - the bus answers and signals in the order
in which it did things (`inbox`); `watcher[i]` is the watcher with the number
`i`, and `Unwatch` passes it on only if it is not 0; `Tell` is what a watcher
that hears of a name tells the plugin, `Known` what it then knows.
`MediaPlayers` has media-keys' list, with `Inserted` for
`g_list_insert_sorted`'s rule and `find_by_time`'s comparison of 32-bit times,
`Without` for the first that `g_list_find_custom` finds, and mpris' proxy.  The
object of media-keys is registered when its plugin is first activated and stays
on the bus when that is stopped (`OnTheBus`): whoever asks it then is in the list
of the next start.

**`Housekeeping`, `DiskSpace`, `TrashEmpty`** - `MayLeave` is the purge's result
(`purge_thumbnail_cache`), `Limit` the size limit as the `int` that it is.  In
`DiskSpace` `MaybeWarn` is `ldsm_maybe_warn_mounts` up to the first warning,
and `warning` holds the rest of its list while the dialog's loop runs;
`CheckIsOver`, `Dismiss` and `Act` go on with it.  In `TrashEmpty` the thread's
steps are split where it uses what the main loop uses: fill, raise the flag,
send; the main loop's callback is split in the same way.

**`MCDesktop`** - all of these in one run.  `SumInit` picks one part (`plugin`),
whose variables are the first `size` of `x1`..`x21`, so that the state spaces add
up and do not multiply; the others' slots are 0.  What all plugins have
(activated, starts so far, queued starts, late) are the variables `on`, `begun`,
`idles`, `late` of `DesktopKeys`.  Its properties are conjunctions of those that
the modules state, each behind the part it is about.

## 4. The runs

| Run | Distinct states, time | What it shows |
|---|---|---|
| `PluginManager_plugins` | 2,990,715, 1.5 min | Whatever settings, files and handlers do during the two phases and after them: enabled plugins are active once the loop is quiet unless their file was met by a start that did not want them; disabled ones are inactive unless Awake went by the flag read at load time; start-up goes by priority; a plugin keeps running after its unloading only if it was disabled when it was loaded and enabled since |
| `PluginManager_loops` | 288,847, 25 s | Pairing of activate and deactivate under nested loops; SIGTERM reaches `main()`'s loop as long as no second `ctk_main` runs |
| `PluginManager_term`, `PluginManager_setting` | violations | see section 5 |
| `Rfkill_manager` | 297,602, 40 s | No handler goes wrong unless requests overlap or the manager is stopped during one; success means that the kernel took every write; nothing is answered twice, everything is answered unless requests overlap; the table follows the kernel but for events thrown away while the device is opened; what was announced is current |
| `Rfkill_timer` | violation | see section 5 |
| `Smartcard_cards` | 1,055,740, 1.75 min | Messages about a slot are paired but for cards that were overtaken; the table follows the slots; the login card's removal is noticed |
| `Smartcard_paired` | violation | see section 5 |
| `Clipboard_manager` | 474,148, 1.75 min | A client that was told that its clipboard is saved has it kept, whole; what is served is one whole copy; every request is answered unless the daemon is ended by a division or by an X error; nothing is left in the list |
| `Clipboard_refused` | violation | see section 5 |
| `Desktop_plugins` | 2,074,476, 2.8 min | One part at a time, started and stopped twice: nothing is grabbed that is not bound, and what is bound once and nobody else has is grabbed; devices, the X server, the published settings, the background, the children and the resources follow the settings once all is quiet; no callback finds what it uses gone; the media keys go to the player that asked last; the mechanism's answers are so; thumbnails, full volumes and the trash are dealt with; each part implements `Service` |
| `Xrandr_confirmation` | 42,182, 6 s | Whatever is tried, crashes or is plugged in: the files have what the user did not give up; no backup is left over; a dialog ends; a change from the menu that is not confirmed is undone on the screen and in the file - each, but for the second, as long as nothing disturbs the change |

### Bounds, and why they are enough

  - *Plugins*: three, one on each side of the priority cut-off and one on it,
    one with its number from GSettings, one from the file, one from neither.
    Interference between plugins comes from order and from the flags of a
    start, and any pair of (early, late) plugins shows it.  The third plugin
    takes part in start-up only (`TwoInMainLoop`), where order matters.  Loops:
    three deep, so that a `ctk_main` runs outside, inside and between dialogs.
  - *rfkill*: two requests, since what goes wrong needs one write in progress and
    one request on top of it; the proofs cover any number.  A Bluetooth and
    another switch; up to two changes by the environment, one once a request was made.
    `MCInit` fixes the initial state of the switches up to the differences that matter.
  - *smartcard*: two readers (a card must be able to move) and two cards (one
    must be able to replace another); series up to 3, so that the worker may
    miss a whole card; two activations, so that what a stop leaves is met.  The
    proofs cover any of these numbers.
  - *clipboard*: two clients, one small and one large target of two parts; two
    copies, so that one can overtake a save.  `Few` bounds the queue of events
    to three; since handling an event never lengthens the queue, a client's
    step that the bound cuts off happens once the manager has handled one.  One
    client alone asks for what is saved, for one target at a time, which may be
    in the form of MULTIPLE (`Touch` or not); the proofs cover requests of
    any client for any targets.  Nothing follows the daemon's end.
  - *all of `Desktop_plugins`*: two starts (`MaxStarts`), so that what a stop
    leaves is met by the next start; three changes (`MaxChanges`, the starts
    included), so that a change can come while the effects of another are under
    way, or two while the plugin is on.  A change that the bound cuts off is a
    change by the environment only: what the code does is never bounded, but
    for timers and dialogs that pile up (`MaxKills` 2, `MaxNotes` 2, `MaxDialogs`
    1, of both kinds together), of which two show what more would.
  - *keys*: two keys of which one contains the other's keycode, two entries, two
    custom bindings, two starts; symmetric in entries and bindings, which the
    code treats alike.  Other applications grab and give up one of the two
    keycodes (`Contested`), the one that both keys have.
  - *mouse, pointer locator*: a mouse and a touchpad (`Worlds`), of one driver or
    of two; an animation of three intervals, first, middle and last.
  - *a11y-keyboard, keyboard, xsettings*: one feature of each kind, two values
    each; three lists of layouts, one with an unknown layout; three monitors,
    a plain one, one dense, one whose size is coded as an aspect ratio.
  - *sound, xrdb*: two samples of the theme and another; three themes
    (`MaxThemes`), so that two children run and a third follows.
  - *datetime*: one change by others (`MaxOthers`), two calls (`MaxCalls`), one
    waiting for the other; three of the distributions' layouts; three zones, one
    with a second path, one whose name the code rejects.
  - *mpris, media players*: two players, two changes of owners (`MaxMoves`), in any
    initial state, so that a player goes and comes or two come; times modulo 3
    (`Width`) up to 3 (`MaxTime`), so that the clock wraps once.  One application
    (`App`) and mpris are in media-keys' list, which makes two to put in order; the
    two plugins are started three times together (each at most twice), so that
    either may be stopped and started again beside the other.
  - *housekeeping*: four thumbnails of three ages and two sizes, limits of none,
    0, one that is met, and two that overflow, computed in an `int` of three bits
    (`Half` 4); two volumes, of which one can be warned of while the other is;
    two files (`MaxFiles`) and two runs (`MaxJobs`) of the trash's thread.
  - *xrandr*: two configurations, the old and the new, or no file, in all initial
    combinations, with any set of them fitting the monitors; three tries, so
    that one is disturbed by a second before it is decided and a third follows
    when the first two are over.  The proofs cover any of these numbers.

### Fairness

  - Host: `main()` runs on (weak).  GLib dispatches every ready source in the end,
    however many others become ready (strong, per handler); a `ctk_main` that was
    told to quit returns; xrandr's dialog answers itself when its countdown ends.
    No user is assumed to answer other dialogs, and nothing makes the environment act.
  - rfkill: callbacks of writes and the timer come (weak).  Nothing is assumed of
    the kernel's events.
  - smartcard: the worker, the main thread's activation and the processing of the
    pipe go on (weak); NSS may fail or not, cards come and go or not.
  - clipboard: the manager's loop comes to its events; clients answer conversions
    and send parts on (weak).  The code has no time limit of its own, so that
    without the last two a request may stay unanswered for ever: that is a fact
    about the code which the run's fairness states rather than hides.
  - xrandr: the loop comes to idle callbacks and to the countdown, and a loop
    that was told to quit ends (weak).  Nobody is assumed to answer a dialog.
  - `Desktop_plugins`: none.  Instead of "in the end" its properties say what
    holds whenever all is quiet, which is when no signal, timer, answer or child
    is pending; it needs no assumption about who comes first.

Deadlock is not an error where the system may stop: the daemon exits, a
`fault` ends the model, a queue may be empty with nobody acting, the changes of
the environment are used up.

## 5. What was found

Where the code does not do what a comment, an assertion or a schema of the
repository says, a run of one property shows it; the passing runs state what
holds instead, with the exception named.

  - `TermExits` ("Got SIGTERM, time to clean up and get out", `main.c:289`):
    SIGTERM during xrandr's confirmation ends that dialog's `ctk_main` and not
    the daemon, and the signal's pipe can be used only once.
    `TermReachesMainLoop` holds without a second `ctk_main`.
  - `SettingIsObeyed` (the schema's description of `active`): plugin infos keep
    the setting they read first.
  - `AssertionHolds` (`rfkill-glib.c:154`): a request on top of another one's
    write makes the timer's assertion fail.
  - `AlwaysPaired` (`csd_smartcard-manager.c:1129`): a card swapped between two
    of the worker's questions is inserted without a removal of the old one.
  - `RefusedOnlyWhenBusy` (`csd_clipboard-manager.c:412`): after a conversion
    that failed, every request to save is refused.

Of the clipboard the proofs showed, which the bounds of the run do not reach
(it takes three clients and three copies), and what the histories except:

  - an owner that refuses after its requestor has ended answers for the next
    one: its failure is taken for that of the conversion that is under way
    (`csd_clipboard-manager.c:775` compares no time), a third request is accepted
    while the second is still to be answered, and that answer makes the manager
    the owner and then convert from itself (`mistaken`).  In such a history
    a client may be told that its clipboard is saved without its being kept whole.

Of the clipboard the run shows, too, as what `EverySaveAnswered` excepts: a client
that ends before it gets what it asked for, or before what was saved is written
back to it, ends the daemon by a BadWindow that nothing traps
(`csd_clipboard-manager.c:384`, 516, 540, 646, 757), and whoever waits for his
clipboard to be saved waits for ever.

Of the keys they showed that a start without a screen leaves keys that are bound
and not grabbed, which the next start takes over (`shared`); the run's two starts
were too few to show it.

Of xrandr the model shows, as what the history `disturbed` excepts and without a
run of its own:

  - two confirmations overlap: the countdown of the first ends the loop of the
    second (`csd_xrandr-manager.c:458`), which returns with a response that was
    never set, and the first dialog then stays until it is answered; the second
    one's end has used the backup, so that the first one's finds none and
    deletes `monitors.xml`, although "ENOENT means the original file didn't
    exist" (408);
  - `mirror_outputs_cb` goes on when there is no setup that mirrors (2065): the
    file that was there all along is applied, the user is asked about it, and
    it is deleted in the same way unless he confirms it;
  - `mirror_outputs_cb` does not save what is shown first, as the other handlers
    of the menu do and the comment at 1961 asks for: with no file before, what
    was shown is not shown again (`before` is set by those others only).

Of the plugins of `Desktop_plugins` the models show, as what their properties
except by a history or a guard, each with the code's line in the module:

  - *queued starts* (mouse, keyboard, a11y-keyboard, media-keys, xsettings' font
    monitor): a stop before the idle callback leaves handlers and filters of a
    plugin that is not active (`late`);
  - *typing-break*: a timer whose id was overwritten kills a monitor that should
    run; a monitor that was killed and is not yet reaped counts as running;
  - *background*: when the file manager takes over the settings are released, and
    no later change gives the background back; the proxy that a stop releases
    stays in its variable;
  - *mouse*: a property that the server knows makes every device one of its
    driver; a syndaemon that the stop does not end;
  - *keyboard*: the icon of the layouts survives the stop; the registry of
    layouts and the table of dialogs are freed by a stop and used after it (`strayed`):
    after a restart the layouts are filtered by freed memory;
  - *keys*: a grab that fails because another application has the key is not tried
    again when that gives it up (`shared`);
  - *a11y-keyboard*: a notification survives the stop, and the end of an old one
    releases the current one; *sound*: a flush that a stop or a server out of reach loses is not made
    up for; *xrdb*: two children merge at once, and the last to end counts;
    *xsettings*: the handlers of the screen's size are never disconnected;
  - *mpris*: the first watcher has the number 0 and is never stopped; a proxy
    that arrives late is kept, or leaks the one before; after media-keys was
    restarted nobody asks for its keys again; a stopped media-keys takes
    players, and forgets none of them at its next start; two that ask within a millisecond,
    or about seven weeks apart, are put in the wrong order;
  - *datetime*: the time that passes while the user is asked for his password is
    lost by AdjustTime; `+` is no character of a zone's name; files compared by
    inode number without the device; `/etc/rc.conf` is not watched;
  - *housekeeping*: without an age limit the size limit is never met; 2048 MB
    is no limit and 4096 MB is 0; while a warning is shown, the check within
    notes volumes as told of that nobody was told of, and the check without
    goes on with a list that may be out of date; a stop during a warning that a
    change of the mounts led to sets a timer again, which the next start takes
    for a monitor that runs; the ignored paths are then freed twice; a dialog of
    the trash that was closed is used again.

## 6. The proofs

By TLAPS, for every value of the constants; the assumptions are the named
ASSUMEs of the modules (types of the constants, `NoTask \notin Task`, distinct
windows, half of an `int`'s range more than 2, a clock's range and an animation's
length that are numbers, `NoPlayer` and mpris' own name told from the others', and
the like), which TLC evaluates in the runs.

**`PluginManagerProofs`.**  The type invariant is not inductive: `live[p]` stays
a natural number only because a plugin is deactivated when it is active with an
object, and that such a plugin has a positive `live`.  `IInv == TypeOK /\
ActiveIsRunning` is; one lemma for each operator that touches infos
(`InfoActivate`, `InfoDeactivate`, `BeginLoad`, `UnloadPlugin`, `LeavePhase`),
one step for each action.  From it: `TypeOKAlways`, `ActiveIsRunningAlways`; the
action property `StrayOnlyIfDisabledAtLoadAlways`; and, with `StaleInv` (at any
time, an active plugin whose key is off was enabled at load or has its change
pending), `DisabledIsInactiveUnlessStaleAlways`.  `EnabledIsActiveAlways` is the
other direction: a plugin that should be active and is not has its change
pending, is still to be reached by the loop in progress, or the daemon is leaving
(`EnabledInv`), which needs that an unloading loop has all plugins before it
(`PhaseInv`).  `StartupOrderAlways` follows from what the first phase leaves to
the second (`OrderInv`): every enabled plugin of its group that can be
activated is active, before any plugin of the other group is reached.

**`RfkillProofs`.**  `RInv` says that task and event come and go together, that
the timer runs only while no write is in progress (`Slots`), that a request
without overlap is in exactly one of its phases (`Overlaps`, `Writes`), and what
the histories say of the task being served (`Served`).  It is proved for
`Rfkill` alone, one lemma for each handler; `ManagerStep` shows that every step
of the manager is a step of `Rfkill` or leaves it alone, which carries the
result over: `RInvAlways`, `FaultsHaveCausesAlways`,
`SuccessMeansWrittenAlways`, `CallbacksFindTheObjectAlways`,
`AnsweredOnceAlways`.  That a callback finds its object (`CallbacksFindTheObject`)
follows from the same invariant and is proved only.

Of the manager, `TypeOKAlways` from `TInv`.  `TableMatchesKernelAlways` needs to
say, of a queue of any length, where a switch's state is: the last event about
it that is queued tells it; if there is none, the last of those kept while the
device is opened does, or the table (`QueueTells`, `InitialTells`, `TableTells`).
`LastTells` and the lemmas about it say how that moves when an event is
appended, when the first is read, and when some are filed; that there is a last
event about a switch is `Least`, by the well-foundedness of the naturals.
`AnnouncedIsCurrentAlways` is inductive with the condition that ModemManager is
watched only while the manager is started (`AnnouncedInv`), one step for each
handler that touches a table.

**`SmartcardProofs`.**  `PairedEvents` looks at one step, but needs that the
messages written so far leave in each slot the card that the worker tracks
(`Told`), which in turn needs that series only grow and that a tracked card
with the slot's series is the slot's last card (`SeriesGrow`), and that a slot
with a tracked card has a name (`Names`).  `TypeOKAlways`,
`PairedEventsAlways`.  For `TableMatchesSlotsAlways` each of the three that work
on a card is given its part: no card is in two slots (`OneSlot`); a slot that no
wake-up is due for was told of as it is (`SlotsTold`); a card that was not
overtaken is told of in one slot only, also while the worker is about to tell of
it (`ToldOnce`, `InsertedOnce`); and the last message about a card that is still
in the pipe, or else the table, says whether it was told of (`PipeTells`).

**`DesktopProofs`.**  First the two plugins with keys, of the specification of
`DesktopKeys`.  `GrabsAreBound` is inductive together with `Orderly`: as long as
no queued start ran late, the plugin has one list of screens, one watch and its
settings, or none of them and no key.  `GrabsAreBoundHolds`.  `TypeOKAlways`
needs in addition that settings come with a watch (`TypeInv`).
`BoundIsGrabbedHolds` is the converse, and holds late or not: `SharedInv` says
that `shared` has what is bound twice now, what is bound while another application
has it and, without a screen, all keys;
beyond that, two keys that are both bound have nothing in common
(`MeetIsShared`), so that to ungrab one leaves the other.  What the theorem says
of grabs that may fail: a failure costs no other key, and none of a key that is
bound anew once it is free.

Then all plugins, of `SumSpec`, the specification of the run `Desktop_plugins`.
That a plugin which is stopped holds nothing is not inductive: what is left in
the loop after the stop (a timer, a queued start, an answer, a signal) might take
hold of something again.  Each module says in its `LetGo` which of these a stopped
plugin may still have: none that would act, or only ones that find no settings,
or none until a start came late, which also counts the handlers that it
connects twice.  One lemma for each module shows that all its actions keep
`LetGo`, whatever its size and settings.  `Kept` is the conjunction over the
plugins, with what the other two properties need: that a dialog which waits has
its timer and its filter, both of which a stop leaves alone (`WaitingHasTimer`), that nothing is freed
before the first stop of the keyboard plugin (`NothingIsFreed`; what a later start
finds freed is excepted by `FreedByStop`),
that a timer which shows the icons is due after each that hides them
(`TimersAreCounted`), and that what is published is the list as it was before
the next serial was taken (`ListIsPublished`).  `Picked` says that a step of `SumSpec` is one of
the plugin picked; `StepIsService` that it is, under the mapping `Held`, one of
`Service` or a stutter.  `EveryPluginServes`, `NothingDanglesAlways`,
`SerialsTellChangesAlways`: for any number of starts, devices, settings and
changes, where the run has two starts and up to three changes.

That the typing monitor follows its setting needs that the one timer that kills
is the known one (`OneKiller`), unless one was overwritten, and that the child
which runs is wanted or about to be killed (`ChildIsWanted`):
`MonitorFollowsSettingAlways`.

Of the datetime mechanism, a call is in a stage, and what the answer will say of the
clocks and the zone depends on how far it is: `StagesHaveCalls` says which call
can be where, `ClocksAreAtStage` what the clock and the hardware clock are by
then, `ZoneIsAtStage` which files of `system_timezone_set` are written.  Of the
zone, `WrittenIsFound` is the lemma that matters: if every file was written or is
of a form that says nothing, then what `system_timezone_find` returns - the first
valid answer in the order of its list - is the new zone.  `Find` is stated as
the least place with a valid answer, and that there is one is again the
well-foundedness of the naturals.  `ObjectFollowsSystem` is inductive with the
monitors' pending signals.  `AnswersAreTrueAlways`.

Of the housekeeping plugin there are three inductive invariants, of which
`Keeping` picks one.  `HouseInv`, of the thumbnails: the daily timer is there while the plugin is
active (`RunsDaily`), and a cleanup leaves what the limits allow
(`CleanupLeaves`): that a limit which fits an int is the limit in bytes
(`LimitIsSize`), for any width of an int.

`DiskInv`, of the volumes, must say what the checks leave to each other when one
is interrupted by the main loop of its warning.  What is left of a list that is
up to date are full volumes (`RestIsFull`); each that is full has an entry or is
left to the check (`CheckGoesThrough`), which is how it comes to be known though
several warnings and other checks lie between; an entry that is not outdated is
of a volume that is looked at, or was just unmounted (`EntriesAreLookedAt`).
`WarnNotes` and `Warned` say what `MaybeWarn` leaves for every list and every
table, `CheckKeeps` and `DismissKeeps` what a check from the start and the rest
of one make of the invariant.

`TrashInv`, of the thread: the report about a file is in one place only - the
thread's, on its way in the queue, or the main loop's - and the flag and the file
say which (`OneReport`); a dialog is there as long as the thread has something to
say, whose last word comes last (`DialogIsThere`).  `CountStep` adds that no more
is deleted than was counted (`AllAreCounted`), so that the fraction shown is
defined.  `HouseIsKeptAlways`.

**`SettingsProofs`.**  What a plugin makes of its settings is there once all is
quiet; while a change is under way it is not, so that each inductive invariant
says of every part of the outcome that it follows the setting *or* that the
handler, timer or child which makes up for it is pending.  One lemma for each
handler shows that it makes up for the change it was called for, and spoils
nothing of what was set before.

  - `DesktopInv`, for `DesktopFollowsSettings`: xsettings' list is
    `ListedBy` the settings (`ListFollowsSettings`), but for a signal or a
    queued handler; the background is drawn or due (`BackgroundIsDue`); the
    accessibility switch is what the applications' switches make of it
    (`SettingsAreThere`); samples of an old theme are dropped or the flush is
    due; of xrdb, unless two children ran at once, the theme is that of the
    resources or of the only child, and what a child merges are the files of its
    directories (`ChildrenBringTheme`), from which the user's file of a name comes
    last: a fact about the places of a list, not about its length.
  - `InputInv`, for `InputFollowsSettings`: for each device a record of what was
    set is compared with the settings, property by property (`DeviceFollows`:
    `MotionFollows`, `HandFollows`, `TapsFollow`, `TapsAreMirrored`,
    `EnablingFollows`, `ScrollingFollows`), each behind the change of the
    setting it is about (`DevicesAreSet`), for any devices; the helpers are
    counted (`HelpersAreCounted`); the circles of the pointer locator end, by the
    time that has passed (`TimeIsCounted`), for an animation of any length; what
    keyboard and a11y-keyboard set follows, where settings and server each change
    when the other does (`KeyboardIsSet`, `ControlsAreSet`).  Of the keyboard this
    holds until freed memory is used, which `strayed` remembers and no step
    forgets (`StrayedStays`): a registry that is there or was never loaded leaves
    the layouts that are known (`LayoutsAreFiltered`).  A start after a stop
    is covered as long as the registry was not loaded before.

`DesktopFollowsSettingsAlways`, `InputFollowsSettingsAlways`.

**`PlayersProofs`.**  Of media-keys' list: nobody in it asked at a time yet to
come, and who asked last is at its head (`PlayersAreInTime`), unless the
clock has wrapped or two asked within a millisecond; that the place which
`find_by_time` gives is before all that asked earlier is `InsertedOne`.  Of the
proxy: one is made for one appearance of the name, and what it is for ends with
its call or with one that fails (`ProxyIsOne`).

Of mpris, `PlayersAreQueued` speaks of the moment when nothing is under way; what
leads there must be said of any signals and answers, in any number, that are:

  - a watcher that can still come to watch has heard of nothing, nor is anything
    on its way to it (`NewAreUntold`); a name that is lost is signalled to all
    that watch, so that a watcher which is not told came later
    (`LostComeFirst`);
  - of each name and watcher, the last message about the name is true, and where
    there is none what the watcher knows is, or it is yet to be told by an answer
    (`LastIsTrue`, `KnownIsTrue`): a signal never overtakes an answer;
  - the queue has the names that the watcher of the plugin knows and, as long as
    the first one survives its stop, those that this one knows, each at most
    once for either (`Queued`, `QueueIsKnown`);
  - who was run last is at the head, or all that is before it on the way there
    are names that are lost (`LatestIsAhead`).

`ToldIsQueued` says what one message does to the queue, for any queue and
what any two watchers know; `QueueStep` uses it twice, for the first watcher and
that of the plugin.  Once all is quiet the watchers know the owned names
(`QuietIsQueued`), and with one watcher the queue is a bijection, hence as long
as they are many.  `KeysGoToPlayersAlways`.

**`ClipboardProofs`.**  The largest: five invariants of the clipboard from one
inductive invariant, `Inv`.  What the manager takes an event for depends on what
it has asked and on what is before the event in the queue, so that `Safe` is the
history of each clipboard up to the queue:

  - `Clock`, `Accepted`, `Saves`: every time is that of one client's copy, and a
    request to save is later than all that was accepted before;
  - `Ordered`: which events may come before which (no request to save before
    a loss, no second outcome of one conversion, no answer after the end of its
    requestor, one part of a target at a time);
  - `Conversions`, `Phase`: one conversion at most can still be answered, it is
    that of the requestor, and the list of what is saved is as far as it;
  - `Transfers`: of a target in parts, what has been received, the property and
    the sender's next part fit together (`NextPart`); what is complete is whole;
  - `Kept`: who was told "saved" finds everything there.

`Safe` holds until a failure is mistaken; `Faithful` says the same of data that
is being sent, `Owning` who owns what is saved.  Lemmas about queues (`In`,
`Pairs`: what is in a queue, and what is before what, after an event has come or
has been handled) take the place of an induction over it.  One lemma for each
action shows `Safe'`, over lemmas for what actions have in common: an event
that changes nothing of what is saved, a list that is freed, a conversion that is
asked.  `TypeOKAlways`, `SavedIsKeptAlways`, `ServedIsSavedAlways`,
`TypeIsKnownAlways`, `NothingLeftOverAlways`.  That the daemon may end at any write to a
window (`Touch`) changes nothing of what they say of it while it is there.  The proof showed three errors of
an earlier model: guards of `GetProperty` that overlapped, a conversion that the
manager asks of itself, and the exception `mistaken`.

**`ConfirmationProofs`.**  `UnconfirmedIsTakenBack` is not inductive: the end of a
dialog uses the backup, so that nothing else may be pending then.  `OnePending`
says that an undisturbed change is in one place only - saved, queued or in the
only dialog - which is also why a countdown meets no loop but its own
(`ResponseIsKnown`, which is proved and has no run); `BeforeIsKept` ties what was shown to what the files go
back to, for the action property `MenuChangeIsUndone`.  One lemma for each
action, over lemmas about sequences of dialogs (`QuitType`, `AnswerType`,
`FrontType`) and about `TryToApply`.  `TypeOKAlways`,
`UnconfirmedIsTakenBackAlways`, `NoStaleBackupAlways`, `ResponseIsKnownAlways`,
`MenuChangeIsUndoneAlways`.

Only model-checked:

  - everything under fairness (`TermReachesMainLoop`, `EveryRequestAnswered`,
    `EveryRemovalNoticed`, `EverySaveAnswered`, `EveryDialogEnds`): the prover
    has no rule for liveness that its back ends can use here;
  - that each step can be taken (ENABLED), and that the interesting cases
    happen: the mutants and the coverage of the runs show that.

Every other property that a passing run checks is proved for all values of the
constants.  Nothing is proved by induction over data, since the library's
induction theorems take the predicate as an operator, which the provers cannot
instantiate.  Where a proof would have needed one, the definition is stated
without a fold or a recursion (`Filed`, `Find`, `FullList`, `MayLeave`, `Merge`,
`Inserted`, `Known`), the invariant speaks of what is in a sequence and not of how
it is built, or the well-foundedness of the naturals, which is a fact about
sets, takes its place (`Least`).

## 7. What is assumed and left out

Assumed of what lies outside `src/`:

  - GLib dispatches one handler at a time and runs asynchronous callbacks from
    the loop, never from within the call; an output stream takes one write at a
    time and refuses another with `G_IO_ERROR_PENDING`; a `GTask` holds its
    source object;
  - a dbus-glib method without declared arguments calls its function with the
    error's address only;
  - the kernel queues an event for each change and each open file, keeps their
    order, and takes a write to `/dev/rfkill` at once;
  - NSS gives a slot a new series with each card, wakes the worker for a change
    that came before it waits, and names tokens differently;
  - the X server ignores a selection's change with an old timestamp, sends one
    `SelectionClear` for each loss, has one grab of a key for one client, refuses
    a grab of what another client has, and answers a request about a window that
    is not there with BadWindow, which CDK takes for fatal outside a trap;
  - a modal dialog takes the events of the windows and of the menu under it;
    idle callbacks wait for the next iteration of a loop;
  - `cafe_rr_config_save` makes the old file the backup first and puts it back if
    it fails; a configuration that matches the monitors can be applied.

Left out of the modelled parts: the plugin host's debug switch and its
informative signals; rfkill's hang-up of the device and its request for one
switch, which nothing calls; smartcard's hang-up of the pipe, a worker of an
earlier life that still runs after a stop, and the loading of NSS; the
clipboard's start and stop, its answers to TARGETS and TIMESTAMP of the manager's
own selection (`csd_clipboard-manager.c:460-484`, which write to the window of whoever asks outside
any trap, too) and the bytes behind a part; what a key press runs, media-keys' volume keys and its rfkill
proxy; the parsing of accelerators (`plugins/common/eggaccelerators.c`) and the
on-screen windows, which only draw; xsettings' text for the X resources
(`xft_settings_set_xresources`), which is formatting; a11y-keyboard's preferences dialog,
which binds widgets to settings; of the timeline, loops and directions that
the pointer locator never asks for; whether a volume has a trash; which configurations xrandr's keys and
hot-plugging choose, its build without libnotify (whose error messages are
dialogs, 1148), and errors of the file system other than a missing file.  Logging, wording and layout are left out
everywhere.  The parts not modelled at all are listed in section 1.
