------------------------------ MODULE Keyboard ------------------------------
(***************************************************************************)
(* The keyboard plugin (plugins/keyboard/csd_keyboard-manager.c,           *)
(* csd_keyboard-xkb.c and delayed-dialog.c): repetition, Num Lock and the  *)
(* layouts of the settings are given to the X server, whose Num Lock is    *)
(* written to the settings, and what goes wrong is said in dialogs that    *)
(* wait for a window manager.                                              *)
(***************************************************************************)
EXTENDS Naturals, Sequences

CONSTANTS
  MaxStarts,  \* bound on the starts of the plugin
  MaxChanges, \* bound on the starts and the changes of settings and server
  MaxDialogs  \* bound on the dialogs

VARIABLES
  on, begun, idles, \* activated; starts so far; starts that are queued
  late,      \* history: a queued start ran after a stop, or on top of another
  wishes,    \* the settings
  server,    \* what the server does
  hasopts,   \* priv->settings is there
  listening, \* settings objects that call the manager
  inited,    \* inited_ok of csd_keyboard-xkb.c
  registry,  \* xkl_registry: "none", "there" or, but for its pointer, "freed"
  sources,   \* what calls csd_keyboard-xkb.c: settings of each start
  untold,   \* a change of the settings is yet to be signalled
  filtered,  \* how often the filters for Num Lock and for libxklavier are installed
  locks,     \* StateNotify events that are yet to be handled
  present,   \* a new device is yet to be handled
  trayed,    \* the icon of the layouts
  failed,    \* history: the last layouts could not be activated
  synced,    \* history: Num Lock was written to the server or the settings since the start
  dialogs,   \* what became of each dialog: "waiting", "shown" or "gone"
  timers,    \* timers that show all that wait
  wm,        \* there is a window manager
  messages,  \* how often message_filter is installed
  drawn,     \* dialogs that show a layout
  strayed,   \* history: memory was used that a stop had freed
  changes    \* number of changes so far

delayed == <<dialogs, timers, wm, messages>>
memory == <<registry, drawn, strayed>>
vars == <<on, begun, idles, late, wishes, server, hasopts, listening, inited, memory, sources,
          untold, filtered, locks, present, trayed, failed, synced, delayed, changes>>

(* Lists of layouts; the last is not known to the registry.                *)
Lists == {<<"us">>, <<"us", "de">>, <<"de", "unknown">>}
Known(layouts) == SelectSeq(layouts, LAMBDA l : l # "unknown")

Init ==
  /\ on = FALSE /\ begun = 0 /\ idles = 0 /\ late = FALSE
  /\ \E r \in BOOLEAN, l \in Lists, d \in BOOLEAN :
       wishes = [repeat |-> TRUE, rate |-> 30, layouts |-> l, disable |-> d,
                 remember |-> r, numlock |-> "unknown"]
  /\ server = [repeat |-> TRUE, rate |-> 25, layouts |-> <<"us">>, numlock |-> "off"]
  /\ hasopts = FALSE /\ listening = 0 /\ inited = FALSE /\ registry = "none" /\ sources = 0
  /\ untold = FALSE /\ filtered = 0 /\ locks = <<>> /\ present = FALSE
  /\ trayed = FALSE /\ failed = FALSE /\ synced = FALSE
  /\ dialogs = <<>> /\ timers = 0 /\ wm \in BOOLEAN /\ messages = 0
  /\ drawn = 0 /\ strayed = FALSE
  /\ changes = 0

-----------------------------------------------------------------------------
(* Mutant: a rate is set while keys do not repeat, and none when they do.  *)
ApplySettingsSwapped(s, new) ==
  [s EXCEPT !.repeat = wishes.repeat,
            !.rate = IF wishes.repeat THEN s.rate ELSE wishes.rate,
            !.numlock = IF new /\ wishes.remember /\ wishes.numlock # "unknown"
                          THEN wishes.numlock ELSE s.numlock]

(* apply_settings and what it calls, on the server s; new if there is no   *)
(* key                                                                     *)
ApplySettings(s, new) ==
  [s EXCEPT !.repeat = wishes.repeat,
            !.rate = IF wishes.repeat THEN wishes.rate ELSE s.rate,
            !.numlock = IF new /\ wishes.remember /\ wishes.numlock # "unknown"
                          THEN wishes.numlock ELSE s.numlock]

(* The event of a change of Num Lock; the server has more than one client. *)
Notify(s) ==
  locks' = IF filtered' > 0 /\ s.numlock # server.numlock THEN Append(locks, s.numlock) ELSE locks

(* csd_delayed_show_dialog, for the dialog of activation_error             *)
ShowDialog ==
  /\ Len(dialogs) + drawn < MaxDialogs
  /\ dialogs' = Append(dialogs, IF wm THEN "shown" ELSE "waiting")
  /\ timers' = IF wm THEN timers ELSE timers + 1
  /\ messages' = IF wm THEN messages ELSE messages + 1
  /\ wm' = wm

(* preview_dialogs is made by each start that is run, with priv->settings, *)
(* and destroyed by each stop, which leaves the pointer.                   *)
TableIsFreed == ~hasopts /\ sources > 0

(* filter_xkb_config: what is left of the layouts.  The registry is loaded *)
(* if there is none, which may fail; that of an earlier start was freed,   *)
(* and may say what it likes, if the daemon survives to ask it.            *)
FilterXkbConfig(left) ==
  \/ /\ registry = "none"
     /\ \/ left = wishes.layouts /\ UNCHANGED registry
        \/ left = Known(wishes.layouts) /\ registry' = "there"
     /\ UNCHANGED strayed
  \/ /\ registry = "there" /\ left = Known(wishes.layouts)
     /\ UNCHANGED <<registry, strayed>>
  \/ /\ registry = "freed"
     /\ strayed' = TRUE
     /\ UNCHANGED registry

(* apply_xkb_settings, on the server s: try_activating_xkb_config_if_new,  *)
(* filter_xkb_config and a second try if layouts were dropped;             *)
(* show_hide_icon for the layouts that are left.  A list that has unknown  *)
(* layouts cannot be activated, and any other may fail, too.               *)
ApplyXkb(s) ==
  LET Shown(layouts) == Len(layouts) > 1 /\ (trayed \/ ~wishes.disable)
      Done(layouts) == /\ Known(layouts) = layouts
                       /\ server' = [s EXCEPT !.layouts = layouts]
                       /\ trayed' = Shown(layouts)
                       /\ failed' = FALSE
                       /\ UNCHANGED delayed
      Failed(layouts) == /\ layouts # s.layouts
                         /\ server' = s
                         /\ trayed' = Shown(layouts)
                         /\ failed' = TRUE
                         /\ ShowDialog
  IN \/ Done(wishes.layouts) /\ UNCHANGED <<registry, strayed>>
     \/ /\ wishes.layouts # s.layouts
        /\ \E known \in SUBSET {"us", "de", "unknown"} :
             LET left == SelectSeq(wishes.layouts, LAMBDA l : l \in known)
             IN /\ FilterXkbConfig(left)
                /\ Failed(left) \/ (left # wishes.layouts /\ Done(left))

(* apply_desktop_settings and apply_xkb_settings                           *)
Apply(s) ==
  LET t == ApplySettings(s, TRUE)
  IN /\ ApplyXkb(t)
     /\ Notify(t)
     /\ synced' = (synced \/ t.numlock # s.numlock \/ (wishes.remember /\ t.numlock = wishes.numlock))

-----------------------------------------------------------------------------
(* csd_keyboard_manager_start                                              *)
Start ==
  /\ ~on /\ begun < MaxStarts
  /\ on' = TRUE
  /\ begun' = begun + 1
  /\ idles' = idles + 1
  /\ UNCHANGED <<late, wishes, server, hasopts, listening, inited, memory, sources, untold,
                 filtered, locks, present, trayed, failed, synced, delayed, changes>>

(* start_keyboard_idle_cb, csd_keyboard_xkb_init, numlock_xkb_init         *)
StartIdle ==
  /\ idles > 0
  /\ idles' = idles - 1
  /\ late' = (late \/ ~on \/ hasopts)
  /\ hasopts' = TRUE
  /\ listening' = listening + 1
  /\ inited' = TRUE
  /\ sources' = sources + 1
  /\ filtered' = filtered + 1
  /\ Apply(server)
  /\ UNCHANGED <<on, begun, wishes, untold, present, drawn, changes>>

(* Someone else changes the settings.                                      *)
ChangeSettings ==
  /\ begun > 0 /\ begun + changes < MaxChanges
  /\ changes' = changes + 1
  /\ \/ \E l \in Lists : wishes' = [wishes EXCEPT !.layouts = l]
     \/ wishes' = [wishes EXCEPT !.remember = ~@]
     \/ wishes' = [wishes EXCEPT !.repeat = ~@]
     \/ wishes' = [wishes EXCEPT !.rate = 25]
  /\ untold' = (listening + sources > 0)
  /\ UNCHANGED <<on, begun, idles, late, server, hasopts, listening, inited, memory, sources,
                 filtered, locks, present, trayed, failed, synced, delayed>>

(* apply_settings, for a key, and apply_xkb_settings_cb, both of which may *)
(* be called for settings of earlier starts                                *)
SettingsChanged ==
  /\ untold
  /\ untold' = FALSE
  /\ LET s == IF listening > 0 THEN ApplySettings(server, FALSE) ELSE server
     IN IF inited THEN ApplyXkb(s)
        ELSE server' = s /\ UNCHANGED <<registry, strayed, trayed, failed, delayed>>
  /\ UNCHANGED <<on, begun, idles, late, wishes, hasopts, listening, inited, sources, filtered,
                 locks, present, synced, drawn, changes>>

(* apply_desktop_settings_cb                                               *)
DesktopChanged ==
  /\ inited /\ begun + changes < MaxChanges
  /\ changes' = changes + 1
  /\ filtered' = filtered
  /\ server' = ApplySettings(server, TRUE)
  /\ Notify(server')
  /\ UNCHANGED <<on, begun, idles, late, wishes, hasopts, listening, inited, memory, sources,
                 untold, present, trayed, failed, synced, delayed>>

(* The user presses Num Lock.                                              *)
ToggleNumlock ==
  /\ begun > 0 /\ begun + changes < MaxChanges
  /\ changes' = changes + 1
  /\ filtered' = filtered
  /\ server' = [server EXCEPT !.numlock = IF @ = "on" THEN "off" ELSE "on"]
  /\ Notify(server')
  /\ synced' = (synced /\ filtered > 0)
  /\ UNCHANGED <<on, begun, idles, late, wishes, hasopts, listening, inited, memory, sources,
                 untold, present, trayed, failed, delayed>>

(* numlock_xkb_callback: writes what the event says                        *)
NumlockCallback ==
  /\ locks # <<>>
  /\ locks' = Tail(locks)
  /\ wishes' = [wishes EXCEPT !.numlock = Head(locks)]
  /\ untold' = (untold \/ (wishes' # wishes /\ listening > 0))
  /\ synced' = TRUE
  /\ UNCHANGED <<on, begun, idles, late, server, hasopts, listening, inited, memory, sources,
                 filtered, present, trayed, failed, delayed, changes>>

(* A keyboard is plugged in, which has its own layout and repetition.      *)
Plug ==
  /\ begun > 0 /\ begun + changes < MaxChanges
  /\ changes' = changes + 1
  /\ server' = [server EXCEPT !.layouts = <<"us">>, !.repeat = TRUE, !.rate = 25]
  /\ present' = inited
  /\ UNCHANGED <<on, begun, idles, late, wishes, hasopts, listening, inited, memory, sources,
                 untold, filtered, locks, trayed, failed, synced, delayed>>

(* csd_keyboard_xkb_evt_filter, csd_keyboard_new_device                    *)
NewDevice ==
  /\ present
  /\ present' = FALSE
  /\ filtered' = filtered
  /\ IF inited THEN Apply(server)
     ELSE UNCHANGED <<server, locks, synced, registry, strayed, trayed, failed, delayed>>
  /\ UNCHANGED <<on, begun, idles, late, wishes, hasopts, listening, inited, sources, untold, drawn,
                 changes>>

-----------------------------------------------------------------------------
(* delayed_show_timeout: the filter stays                                  *)
DelayedShowTimeout ==
  /\ timers > 0
  /\ timers' = timers - 1
  /\ dialogs' = [i \in DOMAIN dialogs |-> IF dialogs[i] = "waiting" THEN "shown" ELSE dialogs[i]]
  /\ UNCHANGED <<on, begun, idles, late, wishes, server, hasopts, listening, inited, memory, sources,
                 untold, filtered, locks, present, trayed, failed, synced, wm, messages, changes>>

(* message_filter, for a window manager that starts: the filter is removed *)
(* once, however often it was added.                                       *)
MessageFilter ==
  /\ ~wm
  /\ wm' = TRUE
  /\ dialogs' = IF messages = 0 THEN dialogs
                ELSE [i \in DOMAIN dialogs |-> IF dialogs[i] = "waiting" THEN "shown" ELSE dialogs[i]]
  /\ messages' = IF messages = 0 THEN 0 ELSE messages - 1
  /\ UNCHANGED <<on, begun, idles, late, wishes, server, hasopts, listening, inited, memory, sources,
                 untold, filtered, locks, present, trayed, failed, synced, timers, changes>>

(* The user closes a dialog that is shown.                                 *)
CloseDialog(i) ==
  /\ dialogs[i] = "shown"
  /\ dialogs' = [dialogs EXCEPT ![i] = "gone"]
  /\ UNCHANGED <<on, begun, idles, late, wishes, server, hasopts, listening, inited, memory, sources,
                 untold, filtered, locks, present, trayed, failed, synced, timers, wm, messages, changes>>

(* popup_menu_show_layout, from the menu of the icon, which no stop takes  *)
(* away: the dialog of the layout is looked up in preview_dialogs, and is  *)
(* presented or made.                                                      *)
ShowLayout ==
  /\ trayed
  /\ strayed' = (strayed \/ TableIsFreed)
  /\ \/ UNCHANGED drawn
     \/ Len(dialogs) + drawn < MaxDialogs /\ drawn' = drawn + 1
  /\ UNCHANGED <<on, begun, idles, late, wishes, server, hasopts, listening, inited, registry, sources,
                 untold, filtered, locks, present, trayed, failed, synced, delayed, changes>>

(* show_layout_destroy                                                     *)
CloseLayout ==
  /\ drawn > 0
  /\ drawn' = drawn - 1
  /\ strayed' = (strayed \/ TableIsFreed)
  /\ UNCHANGED <<on, begun, idles, late, wishes, server, hasopts, listening, inited, registry, sources,
                 untold, filtered, locks, present, trayed, failed, synced, delayed, changes>>

(* csd_keyboard_manager_stop, csd_keyboard_xkb_shutdown: the settings that *)
(* libcafekbd listens to and the icon stay; the registry and the table of  *)
(* the dialogs are freed, again if they were before, and their pointers    *)
(* stay.                                                                   *)
Stop ==
  /\ on
  /\ on' = FALSE
  /\ hasopts' = FALSE
  /\ listening' = IF hasopts THEN listening - 1 ELSE listening
  /\ inited' = FALSE
  /\ filtered' = IF filtered > 0 THEN filtered - 1 ELSE 0
  /\ locks' = IF filtered' > 0 THEN locks ELSE <<>>
  /\ present' = (present /\ filtered' > 0)
  /\ synced' = FALSE
  /\ registry' = IF inited /\ registry # "none" THEN "freed" ELSE registry
  /\ strayed' = (strayed \/ TableIsFreed \/ (inited /\ registry = "freed"))
  /\ UNCHANGED <<begun, idles, late, wishes, server, sources, untold, trayed, failed, delayed, drawn,
                 changes>>

Next ==
  \/ Start \/ StartIdle \/ Stop
  \/ ChangeSettings \/ SettingsChanged \/ DesktopChanged
  \/ ToggleNumlock \/ NumlockCallback \/ Plug \/ NewDevice
  \/ DelayedShowTimeout \/ MessageFilter \/ ShowLayout \/ CloseLayout
  \/ \E i \in DOMAIN dialogs : CloseDialog(i)

Spec == Init /\ [][Next]_vars

-----------------------------------------------------------------------------
(* What the plugin holds.                                                  *)
Held ==
  (IF hasopts \/ listening > 0 THEN {"settings"} ELSE {}) \cup (IF filtered > 0 THEN {"filter"} ELSE {})

(* As long as no start came late the settings are there only while the     *)
(* plugin is activated, and with them, and only then, one handler of each  *)
(* kind.                                                                   *)
LetGo ==
  ~late => /\ hasopts => on
           /\ listening = (IF hasopts THEN 1 ELSE 0)
           /\ filtered = listening

(* Once all is quiet the keyboard is as the settings say: the layouts are  *)
(* those that are known, unless they cannot be activated, keys repeat as   *)
(* often as they should, the icon means that there is a choice, and Num    *)
(* Lock, once it was written either way, is what is remembered of it.  A   *)
(* registry that a stop freed keeps no such promise.                       *)
KeyboardFollowsSettings ==
  on /\ ~late /\ ~strayed /\ hasopts /\ idles = 0 /\ ~untold /\ locks = <<>> /\ ~present
    => /\ server.repeat = wishes.repeat
       /\ server.repeat => server.rate = wishes.rate
       /\ failed \/ server.layouts = Known(wishes.layouts)
       /\ trayed => Len(Known(wishes.layouts)) > 1 \/ failed
       /\ synced => server.numlock = wishes.numlock

(* It rests on this: the keyboard is set unless something is yet to be     *)
(* handled, and the last event of Num Lock says what the server does.      *)
KeyboardIsSet ==
  /\ locks # <<>> => filtered > 0 /\ locks[Len(locks)] = server.numlock
  /\ ~late /\ ~strayed /\ hasopts =>
       /\ inited
       /\ ~untold /\ ~present =>
            /\ server.repeat = wishes.repeat
            /\ server.repeat => server.rate = wishes.rate
            /\ failed \/ server.layouts = Known(wishes.layouts)
            /\ trayed => Len(Known(wishes.layouts)) > 1 \/ failed
       /\ synced /\ locks = <<>> => server.numlock = wishes.numlock
  /\ ~late /\ ~hasopts => ~inited /\ ~synced

(* The settings, what of the server they are about, and the events.        *)
KeyboardTypes ==
  /\ {"repeat", "rate", "layouts", "disable", "remember", "numlock"} \subseteq DOMAIN wishes
  /\ {"repeat", "rate", "layouts", "numlock"} \subseteq DOMAIN server
  /\ locks \in Seq({"on", "off", "unknown"})
  /\ {wishes.numlock, server.numlock} \subseteq {"on", "off", "unknown"}
  /\ filtered \in Nat /\ sources \in Nat /\ late \in BOOLEAN

(* What is counted of the dialogs.                                         *)
DialogsAreCounted == timers \in Nat /\ messages \in Nat /\ dialogs \in Seq({"waiting", "shown", "gone"})

(* A dialog that waits is shown in the end: a timer or a message will.     *)
WaitingHasTimer ==
  \A i \in DOMAIN dialogs : dialogs[i] = "waiting" => timers > 0 /\ messages > 0

(* The registry and the table of the dialogs are there when they are used, *)
(* as long as the plugin was never stopped: its stop frees them and leaves *)
(* the pointers, which the icon, the dialogs, and the next start and stop  *)
(* follow.                                                                 *)
FreedByStop == begun = 0 \/ (on /\ begun = 1) => ~strayed

(* What it rests on: nothing is freed before the first stop.               *)
NothingIsFreed ==
  /\ begun \in Nat /\ sources \in Nat /\ (on => begun > 0)
  /\ begun = 0 \/ (on /\ begun = 1) => registry # "freed" /\ ~TableIsFreed /\ ~strayed

=============================================================================
