--------------------------- MODULE PluginManager ---------------------------
(***************************************************************************)
(* The plugin host of cafe-settings-daemon: main.c, the manager that loads *)
(* the plugin files (cafe-settings-manager.c) and the state kept for each  *)
(* plugin (cafe-settings-plugin-info.c).                                   *)
(*                                                                         *)
(* The daemon is one thread.  main() loads the plugins of the              *)
(* initialization phase, registers with the session, loads the deferred    *)
(* ones and enters the main loop, which dispatches one handler at a time:  *)
(* a GSettings change of a plugin's "active" key, the D-Bus methods Awake  *)
(* and Start, the end of the session, SIGTERM through a pipe, the loss of  *)
(* the bus name.  A handler may open a dialog, which runs a nested loop    *)
(* where the other handlers are dispatched again.  Loading and unloading   *)
(* go plugin by plugin, so that settings, plugin files and signals may     *)
(* change between two plugins; no handler runs between them.               *)
(*                                                                         *)
(* The manager's list is kept sorted by priority and every loop over it is *)
(* a g_slist_foreach.  It is modelled by the set of its plugins and by the *)
(* set "todo" of those the running loop has not reached, from which the    *)
(* next one is any of least priority number: ties are in no fixed order.   *)
(***************************************************************************)
EXTENDS Integers, Sequences, FiniteSets

CONSTANTS
  Plugin,            \* the locations (key Module) of the plugin files
  FilePriority,      \* the Priority key of each plugin file, 0 when absent
  SettingsPriority,  \* the "priority" GSettings key of each plugin
  InitLoadPriority,  \* the "init-load-priority" GSettings key
  NestedLoop,        \* the kinds of nested loop that handlers may start
  MaxDepth           \* bound: how many loops run at once

PLUGIN_PRIORITY_MAX     == 1
PLUGIN_PRIORITY_DEFAULT == 100

(* The loops: ctk_main, which main() runs and which xrandr's confirmation  *)
(* of a new configuration runs again, and ctk_dialog_run, whose loop       *)
(* ctk_main_quit does not know of.                                         *)
CtkMain   == "ctk_main"
DialogRun == "ctk_dialog_run"

ASSUME PluginManagerAssumption ==
  /\ FilePriority \in [Plugin -> Int]
  /\ SettingsPriority \in [Plugin -> Int]
  /\ InitLoadPriority \in Int
  /\ NestedLoop \subseteq {CtkMain, DialogRun}
  /\ MaxDepth \in Nat \ {0}

VARIABLES
  main,        \* where main() is
  starter,     \* the daemon was started by D-Bus activation
  supported,   \* g_module_supported ()
  loops,       \* the running main loops, the innermost last
  job,         \* the foreach over the plugins in progress, if any
  files,       \* the plugin files that are installed, valid and have a schema
  setting,     \* the "active" GSettings key of each plugin
  changed,     \* plugins with a "changed::active" signal not yet dispatched
  plugins,     \* manager->priv->plugins
  info,        \* the CafeSettingsPluginInfo of each plugin of the list
  session,     \* what the session manager may still send us
  term,        \* SIGTERM: "none", "raised" (pipe closed) or "seen"
  live         \* history: activate calls less deactivate calls of each plugin

vars == <<main, starter, supported, loops, job, files, setting, changed,
          plugins, info, session, term, live>>

(* The variables only the environment changes.                             *)
env == <<starter, supported, files, setting>>

-----------------------------------------------------------------------------
(* The flags of cafe_settings_manager_start.  STRAY is what the D-Bus      *)
(* method Start passes: see DBusStart.                                     *)
ALL   == "ALL"
INIT  == "INIT"
DEFER == "DEFER"
STRAY == "STRAY"
Flag  == {ALL, INIT, DEFER, STRAY}

(* fill_from_file takes the file's number when it is at least 1;           *)
(* set_schema lets a positive GSettings number override it.                *)
Priority(p) ==
  IF SettingsPriority[p] > 0 THEN SettingsPriority[p]
  ELSE IF FilePriority[p] >= PLUGIN_PRIORITY_MAX THEN FilePriority[p]
  ELSE PLUGIN_PRIORITY_DEFAULT

InInitGroup(p) == Priority(p) <= InitLoadPriority

(* maybe_activate_plugin's condition on the flag.                          *)
Wanted(flag, p) ==
  \/ flag = ALL
  \/ flag = INIT  /\ InInitGroup(p)
  \/ flag = DEFER /\ ~InInitGroup(p)

(* Mutant: the list is not sorted.                                         *)
AnyOf(S) == S

(* Of a set of plugins, those a loop over the sorted list may come to next. *)
FirstOf(S) == {p \in S : \A q \in S : Priority(p) <= Priority(q)}

NoJob == [op |-> "none", flag |-> ALL, todo |-> {}]
Job   == [op : {"none", "load", "unload"}, flag : Flag, todo : SUBSET Plugin]

(* A CafeSettingsPluginInfo: "plugin" says whether its module was loaded   *)
(* and made an object; "found" is a history, the flag of the start that    *)
(* met its file first.                                                     *)
Info == [enabled : BOOLEAN, available : BOOLEAN, active : BOOLEAN,
         plugin : BOOLEAN, found : Flag]

NewInfo(p, flag) ==
  [enabled |-> setting[p], available |-> TRUE, active |-> FALSE,
   plugin |-> FALSE, found |-> flag]

NoInfo == [enabled |-> FALSE, available |-> FALSE, active |-> FALSE,
           plugin |-> FALSE, found |-> ALL]

Loop == [kind : {CtkMain, DialogRun}, quit : BOOLEAN]

Init ==
  /\ main = "bus"
  /\ starter \in BOOLEAN
  /\ supported \in BOOLEAN
  /\ loops = <<>>
  /\ job = NoJob
  /\ files \in SUBSET Plugin
  /\ setting \in [Plugin -> BOOLEAN]
  /\ changed = {}
  /\ plugins = {}
  /\ info = [p \in Plugin |-> NoInfo]
  /\ session = "none"
  /\ term = "none"
  /\ live = [p \in Plugin |-> 0]

-----------------------------------------------------------------------------
(* Activation of one plugin.                                               *)

(* The activate method of a plugin object, then active = TRUE.             *)
StartPlugin(p) ==
  /\ info' = [info EXCEPT ![p] = [@ EXCEPT !.active = TRUE, !.plugin = TRUE]]
  /\ live' = [live EXCEPT ![p] = @ + 1]

(* The module may fail to load, which makes the plugin unavailable for     *)
(* good, or may register no type: then the object is NULL,                 *)
(* cafe_settings_plugin_activate returns at once and the plugin counts as  *)
(* active.                                                                 *)
LoadPluginModule(p) ==
  \/ StartPlugin(p)
  \/ /\ info' = [info EXCEPT ![p].available = FALSE]
     /\ UNCHANGED live
  \/ /\ info' = [info EXCEPT ![p].active = TRUE]
     /\ UNCHANGED live

(* cafe_settings_plugin_info_activate                                      *)
InfoActivate(p) ==
  \/ /\ info[p].active \/ ~info[p].available
     /\ UNCHANGED <<info, live>>
  \/ /\ info[p].available /\ ~info[p].active /\ info[p].plugin
     /\ StartPlugin(p)
  \/ /\ info[p].available /\ ~info[p].active /\ ~info[p].plugin
     /\ LoadPluginModule(p)

(* What one call of a plugin's deactivate method takes from "live".        *)
Running(p) == IF info[p].active /\ info[p].plugin THEN 1 ELSE 0

(* Mutants: the handler forgets to test "active"; it goes by the "enabled" *)
(* flag, as _unload_plugin does.                                           *)
InfoDeactivateAnyway(p) ==
  /\ info' = [info EXCEPT ![p].active = FALSE]
  /\ live' = [live EXCEPT ![p] = @ - IF info[p].plugin THEN 1 ELSE 0]

InfoDeactivateIfEnabled(p) ==
  IF info[p].enabled
    THEN /\ info' = [info EXCEPT ![p].active = FALSE]
         /\ live' = [live EXCEPT ![p] = @ - Running(p)]
    ELSE UNCHANGED <<info, live>>

(* cafe_settings_plugin_info_deactivate; only available plugins are active. *)
InfoDeactivate(p) ==
  /\ info' = [info EXCEPT ![p].active = @ /\ ~info[p].available]
  /\ live' = [live EXCEPT ![p] = @ - IF info[p].available THEN Running(p) ELSE 0]

-----------------------------------------------------------------------------
(* The loops over the plugin list.                                         *)

(* cafe_settings_manager_start up to the foreach: the plugins whose file   *)
(* was not known get an info, and set_schema reads their settings.         *)
BeginLoad(flag) ==
  /\ info' = [p \in Plugin |->
                IF p \in files \ plugins THEN NewInfo(p, flag) ELSE info[p]]
  /\ plugins' = plugins \cup files
  /\ job' = [op |-> "load", flag |-> flag, todo |-> plugins']

(* maybe_activate_plugin on the next plugin of the list.                   *)
MaybeActivate(p) ==
  /\ job.op = "load"
  /\ p \in FirstOf(job.todo)
  /\ IF info[p].enabled /\ Wanted(job.flag, p)
       THEN InfoActivate(p)
       ELSE UNCHANGED <<info, live>>
  /\ job' = [job EXCEPT !.todo = @ \ {p}]
  /\ UNCHANGED <<env, main, loops, changed, plugins, session, term>>

(* Mutants: a plugin is unloaded without being deactivated; its settings   *)
(* object survives it.                                                     *)
UnloadWithoutDeactivate(p) ==
  /\ job.op = "unload"
  /\ p \in FirstOf(job.todo)
  /\ info' = [info EXCEPT ![p] = NoInfo]
  /\ plugins' = plugins \ {p}
  /\ changed' = changed \ {p}
  /\ job' = [job EXCEPT !.todo = @ \ {p}]
  /\ UNCHANGED <<env, main, loops, session, term, live>>

UnloadLeavingSettings(p) ==
  /\ job.op = "unload"
  /\ p \in FirstOf(job.todo)
  /\ live' = [live EXCEPT ![p] = @ - IF info[p].enabled THEN Running(p) ELSE 0]
  /\ info' = [info EXCEPT ![p] = NoInfo]
  /\ plugins' = plugins \ {p}
  /\ job' = [job EXCEPT !.todo = @ \ {p}]
  /\ UNCHANGED <<env, main, loops, changed, session, term>>

(* _unload_plugin: the info and its GSettings go with the last reference,  *)
(* so a change not yet dispatched has no handler any more.                 *)
UnloadPlugin(p) ==
  /\ job.op = "unload"
  /\ p \in FirstOf(job.todo)
  /\ live' = [live EXCEPT ![p] =
                 @ - IF info[p].enabled /\ info[p].available THEN Running(p) ELSE 0]
  /\ info' = [info EXCEPT ![p] = NoInfo]
  /\ plugins' = plugins \ {p}
  /\ changed' = changed \ {p}
  /\ job' = [job EXCEPT !.todo = @ \ {p}]
  /\ UNCHANGED <<env, main, loops, session, term>>

BeginUnload == job' = [op |-> "unload", flag |-> ALL, todo |-> plugins]

-----------------------------------------------------------------------------
(* main()                                                                  *)

(* get_session_bus, bus_register and cafe_settings_manager_new: with no    *)
(* bus or another daemon on the name, main goes straight to its end.       *)
BusRegister ==
  /\ main = "bus"
  /\ main' \in {"init", "out"}
  /\ UNCHANGED <<env, loops, job, changed, plugins, info, session, term, live>>

(* main calls manager_start in two phases, unless D-Bus started it.        *)
StartPhase(here, flag) ==
  /\ main = here
  /\ job.op = "none"
  /\ ~starter /\ supported
  /\ BeginLoad(flag)
  /\ UNCHANGED <<env, main, loops, changed, session, term, live>>

(* Mutant: the second phase repeats the first one's flag.                  *)
StartInitAgain == StartPhase("defer", INIT)

StartInit  == StartPhase("init", INIT)
StartDefer == StartPhase("defer", DEFER)

(* What main does after a phase, or when it skips it: a failed second      *)
(* start ends the daemon, a failed first one is only a warning.           *)
LeavePhase ==
  CASE main = "init"  -> /\ main' = "register"
                         /\ UNCHANGED loops
    [] main = "defer" -> IF starter \/ supported
                           THEN /\ main' = "loop"
                                /\ loops' = <<[kind |-> CtkMain, quit |-> FALSE]>>
                           ELSE /\ main' = "out"
                                /\ UNCHANGED loops
    [] OTHER          -> UNCHANGED <<main, loops>>

SkipPhase ==
  /\ main \in {"init", "defer"}
  /\ job.op = "none"
  /\ starter \/ ~supported
  /\ LeavePhase
  /\ UNCHANGED <<env, job, changed, plugins, info, session, term, live>>

EndLoad ==
  /\ job.op = "load" /\ job.todo = {}
  /\ job' = NoJob
  /\ LeavePhase
  /\ UNCHANGED <<env, changed, plugins, info, session, term, live>>

(* set_session_over_handler: RegisterClient may fail, or not be tried.     *)
SetSessionOverHandler ==
  /\ main = "register"
  /\ main' = "defer"
  /\ session' \in {"none", "registered"}
  /\ UNCHANGED <<env, loops, job, changed, plugins, info, term, live>>

(* After the main loop: the last reference of the manager goes, and its    *)
(* dispose stops it.                                                       *)
DisposeManager ==
  /\ main = "out"
  /\ job.op = "none"
  /\ BeginUnload
  /\ UNCHANGED <<env, main, loops, changed, plugins, info, session, term, live>>

-----------------------------------------------------------------------------
(* Handlers of the main loop.  Each needs a loop that dispatches; one that *)
(* was told to quit still dispatches what was ready in its last iteration. *)
Dispatching == main = "loop" /\ job.op = "none"

Top == loops[Len(loops)]

(* Mutant: only a ctk_main that is the innermost loop is told to quit.     *)
QuitTopOnly(ls) ==
  [i \in DOMAIN ls |->
     IF ls[i].kind = CtkMain /\ i = Len(ls)
       THEN [kind |-> CtkMain, quit |-> TRUE]
       ELSE ls[i]]

(* ctk_main_quit: the innermost ctk_main, whatever dialog runs inside it.  *)
CtkMainQuit(ls) ==
  [i \in DOMAIN ls |->
     IF ls[i].kind = CtkMain /\ \A j \in DOMAIN ls : j > i => ls[j].kind # CtkMain
       THEN [kind |-> CtkMain, quit |-> TRUE]
       ELSE ls[i]]

Quit ==
  /\ loops' = CtkMainQuit(loops)
  /\ UNCHANGED <<env, main, job, changed, plugins, info, session, live>>

(* plugin_enabled_cb                                                       *)
PluginEnabledCb(p) ==
  /\ Dispatching
  /\ p \in changed
  /\ changed' = changed \ {p}
  /\ IF setting[p] THEN InfoActivate(p) ELSE InfoDeactivate(p)
  /\ UNCHANGED <<env, main, loops, job, plugins, session, term>>

(* The D-Bus method Awake is a start that takes every enabled plugin.      *)
Awake ==
  /\ Dispatching
  /\ supported
  /\ BeginLoad(ALL)
  /\ UNCHANGED <<env, main, loops, changed, session, term, live>>

(* The D-Bus method Start has no argument in the introspection data, so    *)
(* dbus-glib calls cafe_settings_manager_start (manager, &error): the      *)
(* address of the error arrives as the flag, which is none of the three.   *)
DBusStart ==
  /\ Dispatching
  /\ supported
  /\ BeginLoad(STRAY)
  /\ UNCHANGED <<env, main, loops, changed, session, term, live>>

(* on_session_end: stop the manager, and quit when that is done.           *)
OnSessionEnd ==
  /\ Dispatching
  /\ session = "registered"
  /\ session' = "ended"
  /\ BeginUnload
  /\ UNCHANGED <<env, main, loops, changed, plugins, info, term, live>>

EndUnload ==
  /\ job.op = "unload" /\ job.todo = {}
  /\ job' = NoJob
  /\ \/ main = "loop" /\ loops' = CtkMainQuit(loops) /\ UNCHANGED main
     \/ main = "out"  /\ main' = "exit" /\ UNCHANGED loops
  /\ UNCHANGED <<env, changed, plugins, info, session, term, live>>

OnTermSignalPipeClosed ==
  /\ Dispatching
  /\ term = "raised"
  /\ term' = "seen"
  /\ Quit

(* bus_message_handler: Disconnected or NameLost.  The timeout that        *)
(* --timed-exit arms before the loop does the same, once.                  *)
BusMessage ==
  /\ Dispatching
  /\ Quit
  /\ UNCHANGED term

(* A handler opens a dialog and runs a nested loop.                        *)
OpenNested(kind) ==
  /\ Dispatching
  /\ Len(loops) < MaxDepth
  /\ loops' = Append(loops, [kind |-> kind, quit |-> FALSE])
  /\ UNCHANGED <<env, main, job, changed, plugins, info, session, term, live>>

(* The answer to xrandr's dialog, which its countdown gives in the end.    *)
ConfirmAnswered ==
  /\ Dispatching
  /\ Len(loops) > 1 /\ Top.kind = CtkMain
  /\ Quit
  /\ UNCHANGED term

(* A loop returns: a dialog's when the user answers, a ctk_main's when it  *)
(* was told to quit; after the outermost one main goes to its end.         *)
LoopReturns(kind) ==
  /\ Dispatching
  /\ Top.kind = kind
  /\ kind = CtkMain => Top.quit
  /\ loops' = SubSeq(loops, 1, Len(loops) - 1)
  /\ main' = IF Len(loops) = 1 THEN "out" ELSE main
  /\ UNCHANGED <<env, job, changed, plugins, info, session, term, live>>

-----------------------------------------------------------------------------
(* The environment.                                                        *)
Ended == main \in {"exit", "killed"}

(* Somebody toggles the "active" key of a plugin; GSettings signals it to  *)
(* the main loop if the plugin's settings object exists.                   *)
ToggleSetting(p) ==
  /\ ~Ended
  /\ setting' = [setting EXCEPT ![p] = ~@]
  /\ changed' = changed \cup ({p} \cap plugins)
  /\ UNCHANGED <<main, starter, supported, loops, job, files, plugins, info,
                 session, term, live>>

InstallFile(p) ==
  /\ ~Ended
  /\ p \notin files
  /\ files' = files \cup {p}
  /\ UNCHANGED <<main, starter, supported, loops, job, setting, changed, plugins,
                 info, session, term, live>>

(* SIGTERM: until the handler is installed it kills the process.           *)
RaiseTerm ==
  /\ ~Ended
  /\ term = "none"
  /\ IF main \in {"bus", "init", "register"}
       THEN main' = "killed" /\ job' = NoJob /\ UNCHANGED term
       ELSE term' = "raised" /\ UNCHANGED <<main, job>>
  /\ UNCHANGED <<env, loops, changed, plugins, info, session, live>>

Next ==
  \/ BusRegister \/ StartInit \/ StartDefer \/ SkipPhase \/ EndLoad
  \/ SetSessionOverHandler \/ DisposeManager \/ EndUnload
  \/ \E p \in Plugin : MaybeActivate(p)
  \/ \E p \in Plugin : UnloadPlugin(p)
  \/ \E p \in Plugin : PluginEnabledCb(p)
  \/ Awake \/ DBusStart \/ OnSessionEnd
  \/ OnTermSignalPipeClosed \/ BusMessage
  \/ \E kind \in NestedLoop : OpenNested(kind)
  \/ ConfirmAnswered
  \/ \E kind \in {CtkMain, DialogRun} : LoopReturns(kind)
  \/ \E p \in Plugin : ToggleSetting(p)
  \/ \E p \in Plugin : InstallFile(p)
  \/ RaiseTerm

Spec == Init /\ [][Next]_vars

(* main() runs on; a ready handler is dispatched in the end, however many  *)
(* others are (GLib dispatches all that are ready, iteration by iteration, *)
(* hence strong fairness); a loop told to quit starts no new iteration;    *)
(* xrandr's dialog answers itself after its countdown.  Nothing makes a    *)
(* user answer the other dialogs, or the environment act.                  *)
Fairness ==
  /\ WF_vars(BusRegister \/ StartInit \/ StartDefer \/ SkipPhase \/ EndLoad
             \/ SetSessionOverHandler \/ DisposeManager \/ EndUnload)
  /\ WF_vars(\E p \in Plugin : MaybeActivate(p) \/ UnloadPlugin(p))
  /\ \A p \in Plugin : SF_vars(PluginEnabledCb(p))
  /\ SF_vars(OnTermSignalPipeClosed)
  /\ SF_vars(ConfirmAnswered)
  /\ SF_vars(LoopReturns(CtkMain))

FairSpec == Spec /\ Fairness

-----------------------------------------------------------------------------
(* Every variable has its type; the infos and changes are those of listed  *)
(* plugins, and loops run exactly while main is in ctk_main.               *)
TypeOK ==
  /\ main \in {"bus", "init", "register", "defer", "loop", "out", "exit", "killed"}
  /\ starter \in BOOLEAN /\ supported \in BOOLEAN
  /\ loops \in Seq(Loop)
  /\ main = "loop" <=> loops # <<>>
  /\ job \in Job
  /\ job.todo \subseteq plugins
  /\ files \in SUBSET Plugin
  /\ setting \in [Plugin -> BOOLEAN]
  /\ plugins \in SUBSET Plugin
  /\ changed \in SUBSET plugins
  /\ info \in [Plugin -> Info]
  /\ session \in {"none", "registered", "ended"}
  /\ term \in {"none", "raised", "seen"}
  /\ live \in [Plugin -> Nat]

(* No plugin's deactivate method is called more often than its activate    *)
(* method, whatever handlers and loops interleave: what counts as active   *)
(* with an object is running, and what left the list does not count.       *)
ActiveIsRunning ==
  \A p \in Plugin :
    /\ live[p] >= Running(p)
    /\ info[p].active => info[p].available /\ p \in plugins

(* The loop has nothing to do: what the handlers promise holds here.       *)
Quiet == main = "loop" /\ job.op = "none" /\ changed = {}

(* An enabled plugin is active, or its module could not be loaded, however *)
(* setting changes interleave with the two phases: unless its file was met *)
(* by a start that did not want it (one of the first phase's plugins met   *)
(* by the second phase, any plugin met by the D-Bus method Start).         *)
EnabledIsActiveUnlessFoundLate ==
  Quiet =>
    \A p \in plugins :
      /\ setting[p] /\ info[p].available
      /\ info[p].found # STRAY
      /\ info[p].found = DEFER => ~InInitGroup(p)
      => info[p].active

(* A disabled plugin is inactive once the change was dispatched, except    *)
(* that a later Awake may have gone by the setting read at load time.      *)
DisabledIsInactiveUnlessStale ==
  Quiet => \A p \in plugins : info[p].active /\ ~setting[p] => info[p].enabled

(* The description of the key "active": "Whether this plugin would be      *)
(* activated by cafe-settings-daemon or not".                              *)
SettingIsObeyed ==
  Quiet => \A p \in plugins : info[p].available => (info[p].active <=> setting[p])

(* "Priority determines the order in which plugins are started": while     *)
(* main starts plugins, one is activated only after every enabled plugin   *)
(* of a lower number, across the two phases; files that appear between     *)
(* the phases excepted.                                                    *)
StartupOrder ==
  [][\A p \in Plugin :
       main \in {"init", "defer"} /\ ~info[p].active /\ info'[p].active =>
         \A q \in plugins :
           /\ Priority(q) < Priority(p) /\ info[q].enabled
           /\ info[q].found = DEFER => ~InInitGroup(q)
           => info[q].active \/ ~info[q].available]_vars

(* Instances of a plugin that run although its info is not active.         *)
Stray(p) == live[p] - Running(p)

(* A running plugin gets out of the manager's hands only when it is        *)
(* unloaded and its setting was off at the time it was loaded.             *)
StrayOnlyIfDisabledAtLoad ==
  [][\A p \in Plugin :
       Stray(p)' # Stray(p) => p \in plugins \ plugins' /\ ~info[p].enabled]_vars

(* "Got SIGTERM, time to clean up and get out": SIGTERM ends the daemon.   *)
TermExits == term = "raised" ~> Ended

(* In an execution where no second ctk_main runs inside the first one,     *)
(* SIGTERM gets through to main()'s loop, even while a dialog that nobody  *)
(* answers still holds it; and with no dialog open the daemon ends.        *)
NoNestedCtkMain == \A i \in DOMAIN loops : loops[i].kind = CtkMain => i = 1

TermReachesMainLoop ==
  []NoNestedCtkMain =>
    (term = "raised" ~> Ended \/ (Len(loops) > 1 /\ loops[1].quit))

=============================================================================
