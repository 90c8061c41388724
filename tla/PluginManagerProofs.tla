------------------------ MODULE PluginManagerProofs ------------------------
(***************************************************************************)
(* Theorems about the plugin host, for any plugins, priorities, nested     *)
(* loops and depth.                                                        *)
(***************************************************************************)
EXTENDS PluginManager, SequenceTheorems, TLAPS

(* The inductive invariant.  Typing alone is not inductive: "live" stays a *)
(* natural number only because an active plugin with an object is running. *)
IInv == TypeOK /\ ActiveIsRunning

-----------------------------------------------------------------------------
(* ctk_main_quit changes no loop but the one it tells to quit.             *)
LEMMA CtkMainQuitType ==
  ASSUME NEW ls \in Seq(Loop)
  PROVE  /\ CtkMainQuit(ls) \in Seq(Loop)
         /\ ls # <<>> => CtkMainQuit(ls) # <<>>
<1>1. ls \in [1 .. Len(ls) -> Loop] /\ DOMAIN ls = 1 .. Len(ls) /\ Len(ls) \in Nat
  OBVIOUS
<1>2. CtkMainQuit(ls) \in [1 .. Len(ls) -> Loop]
  BY <1>1, SMT DEF CtkMainQuit, Loop, CtkMain, DialogRun
<1>3. CtkMainQuit(ls) \in Seq(Loop) /\ Len(CtkMainQuit(ls)) = Len(ls)
  BY <1>1, <1>2
<1>4. QED
  BY <1>1, <1>3

(* A prefix of a sequence, and of a sequence of loops: a loop that returns *)
(* leaves the outer ones.                                                  *)
LEMMA PrefixType ==
  ASSUME NEW S, NEW s \in Seq(S), NEW n \in Nat, n <= Len(s)
  PROVE  SubSeq(s, 1, n) \in Seq(S) /\ Len(SubSeq(s, 1, n)) = n
<1>1. \A i \in 1 .. n : s[i] \in S
  OBVIOUS
<1>2. SubSeq(s, 1, n) \in Seq(S)
  BY <1>1
<1>3. Len(SubSeq(s, 1, n)) = n
  BY <1>1
<1>4. QED
  BY <1>2, <1>3

LEMMA LoopReturnsType ==
  ASSUME NEW s \in Seq(Loop), s # <<>>
  PROVE  /\ SubSeq(s, 1, Len(s) - 1) \in Seq(Loop)
         /\ SubSeq(s, 1, Len(s) - 1) = <<>> <=> Len(s) = 1
<1>1. Len(s) \in Nat /\ Len(s) - 1 \in Nat /\ Len(s) - 1 <= Len(s)
  OBVIOUS
<1>2. /\ SubSeq(s, 1, Len(s) - 1) \in Seq(Loop)
      /\ Len(SubSeq(s, 1, Len(s) - 1)) = Len(s) - 1
  BY <1>1, PrefixType, Zenon
<1>3. \A t \in Seq(Loop) : t = <<>> <=> Len(t) = 0
  OBVIOUS
<1>4. SubSeq(s, 1, Len(s) - 1) = <<>> <=> Len(SubSeq(s, 1, Len(s) - 1)) = 0
  BY <1>2, <1>3
<1>5. Len(s) - 1 = 0 <=> Len(s) = 1
  BY <1>1
<1>6. QED
  BY <1>2, <1>4, <1>5, Zenon

(* Starting one plugin of the list, as the loops and the handler do.       *)
LEMMA InfoActivateInv ==
  ASSUME IInv, NEW p \in plugins, InfoActivate(p), plugins' = plugins
  PROVE  /\ info' \in [Plugin -> Info]
         /\ live' \in [Plugin -> Nat]
         /\ ActiveIsRunning'
<1>1. p \in Plugin /\ info \in [Plugin -> Info] /\ live \in [Plugin -> Nat]
  BY DEF IInv, TypeOK
<1>2. CASE UNCHANGED <<info, live>>
  BY <1>1, <1>2 DEF IInv, ActiveIsRunning, Running
<1>3. CASE info[p].available /\ ~info[p].active /\ StartPlugin(p)
  <2>1. [info[p] EXCEPT !.active = TRUE, !.plugin = TRUE] \in Info
    BY <1>1 DEF Info
  <2>2. /\ info' \in [Plugin -> Info] /\ live' \in [Plugin -> Nat]
        /\ \A q \in Plugin \ {p} : info'[q] = info[q] /\ live'[q] = live[q]
        /\ live'[p] = live[p] + 1
        /\ info'[p].available
    BY <1>1, <1>3, <2>1 DEF StartPlugin, Info
  <2>3. QED
    BY <1>1, <2>2 DEF IInv, ActiveIsRunning, Running
<1>4. CASE /\ info[p].available /\ ~info[p].active /\ ~info[p].plugin
           /\ \/ info' = [info EXCEPT ![p].available = FALSE]
              \/ info' = [info EXCEPT ![p].active = TRUE]
           /\ UNCHANGED live
  <2>1. /\ info' \in [Plugin -> Info]
        /\ \A q \in Plugin \ {p} : info'[q] = info[q]
        /\ info'[p].plugin = info[p].plugin
        /\ info'[p].active => info'[p].available
    BY <1>1, <1>4 DEF Info
  <2>2. QED
    BY <1>1, <1>4, <2>1 DEF IInv, ActiveIsRunning, Running
<1>5. QED
  BY <1>2, <1>3, <1>4 DEF InfoActivate, LoadPluginModule

(* Stopping one plugin of the list.                                        *)
LEMMA InfoDeactivateInv ==
  ASSUME IInv, NEW p \in plugins, InfoDeactivate(p), plugins' = plugins
  PROVE  /\ info' \in [Plugin -> Info]
         /\ live' \in [Plugin -> Nat]
         /\ ActiveIsRunning'
<1>1. p \in Plugin /\ info \in [Plugin -> Info] /\ live \in [Plugin -> Nat]
  BY DEF IInv, TypeOK
<1>2. live[p] >= Running(p) /\ Running(p) \in {0, 1}
  BY <1>1 DEF IInv, ActiveIsRunning, Running
<1>3. /\ info' \in [Plugin -> Info]
      /\ \A q \in Plugin \ {p} : info'[q] = info[q] /\ live'[q] = live[q]
      /\ ~info'[p].active
  BY <1>1 DEF InfoDeactivate, Info, IInv, ActiveIsRunning
<1>4. live' \in [Plugin -> Nat]
  BY <1>1, <1>2 DEF InfoDeactivate
<1>5. QED
  BY <1>1, <1>3, <1>4 DEF IInv, ActiveIsRunning, Running

-----------------------------------------------------------------------------
LEMMA InitInv == Init => IInv
<1>1. SUFFICES ASSUME Init PROVE IInv
  OBVIOUS
<1>2. TypeOK
  BY <1>1 DEF Init, TypeOK, NoJob, Job, Flag, ALL, INIT, DEFER, STRAY, NoInfo, Info
<1>3. ActiveIsRunning
  BY <1>1 DEF Init, ActiveIsRunning, Running, NoInfo
<1>4. QED
  BY <1>2, <1>3 DEF IInv

(* Steps that touch neither the infos nor the history keep ActiveIsRunning, *)
(* whatever plugins they add to the list.                                  *)
LEMMA UntouchedRunning ==
  ASSUME ActiveIsRunning, UNCHANGED <<info, live>>, plugins \subseteq plugins'
  PROVE  ActiveIsRunning'
BY DEF ActiveIsRunning, Running

(* A start, before its foreach: new infos are inactive.                    *)
LEMMA BeginLoadInv ==
  ASSUME IInv, NEW flag \in Flag, BeginLoad(flag), UNCHANGED <<files, setting, live>>
  PROVE  /\ plugins' \in SUBSET Plugin /\ plugins \subseteq plugins'
         /\ job' \in Job /\ job'.todo \subseteq plugins'
         /\ info' \in [Plugin -> Info]
         /\ ActiveIsRunning'
<1>1. /\ files \in SUBSET Plugin /\ plugins \in SUBSET Plugin
      /\ setting \in [Plugin -> BOOLEAN]
      /\ info \in [Plugin -> Info] /\ live \in [Plugin -> Nat]
  BY DEF IInv, TypeOK
<1>2. plugins' = plugins \cup files
  BY DEF BeginLoad
<1>3. \A p \in Plugin : NewInfo(p, flag) \in Info
  BY <1>1 DEF NewInfo, Info
<1>4. info' \in [Plugin -> Info]
  BY <1>1, <1>3 DEF BeginLoad
<1>5. job' \in Job /\ job'.todo \subseteq plugins'
  BY <1>1, <1>2 DEF BeginLoad, Job
<1>6. \A p \in Plugin : info'[p] = info[p] \/ (~info'[p].active /\ p \in plugins')
  BY <1>1, <1>2 DEF BeginLoad, NewInfo
<1>7. ActiveIsRunning'
  BY <1>1, <1>2, <1>6 DEF IInv, ActiveIsRunning, Running
<1>8. QED
  BY <1>1, <1>2, <1>4, <1>5, <1>7

(* One plugin leaves the list.                                             *)
LEMMA UnloadPluginInv ==
  ASSUME IInv, NEW p \in Plugin, UnloadPlugin(p)
  PROVE  IInv'
<1>1. p \in plugins /\ job \in Job /\ job.todo \subseteq plugins
  BY DEF IInv, TypeOK, UnloadPlugin, FirstOf
<1>2. info \in [Plugin -> Info] /\ live \in [Plugin -> Nat]
  BY DEF IInv, TypeOK
<1>3. live[p] >= Running(p) /\ Running(p) \in {0, 1}
  BY <1>2 DEF IInv, ActiveIsRunning, Running
<1>4. /\ info' \in [Plugin -> Info]
      /\ \A q \in Plugin \ {p} : info'[q] = info[q] /\ live'[q] = live[q]
      /\ ~info'[p].active
  BY <1>2 DEF UnloadPlugin, Info, NoInfo, Flag, ALL
<1>5. live' \in [Plugin -> Nat]
  BY <1>2, <1>3 DEF UnloadPlugin
<1>6. ActiveIsRunning'
  BY <1>2, <1>4, <1>5 DEF IInv, ActiveIsRunning, Running, UnloadPlugin
<1>7. job' \in Job /\ job'.todo \subseteq plugins'
  BY <1>1 DEF UnloadPlugin, Job
<1>8. changed' \in SUBSET plugins' /\ plugins' \in SUBSET Plugin
  BY DEF IInv, TypeOK, UnloadPlugin
<1>9. TypeOK'
  BY <1>4, <1>5, <1>7, <1>8 DEF IInv, TypeOK, UnloadPlugin, env
<1>10. QED
  BY <1>6, <1>9 DEF IInv

(* The loops are those of main, and a foreach's end is not the loop's end. *)
LEMMA LeavePhaseInv ==
  ASSUME TypeOK, LeavePhase, UNCHANGED <<starter, supported>>
  PROVE  /\ main' \in {"bus", "init", "register", "defer", "loop", "out", "exit", "killed"}
         /\ loops' \in Seq(Loop)
         /\ (main' = "loop" <=> loops' # <<>>)
<1>1. [kind |-> CtkMain, quit |-> FALSE] \in Loop
  BY DEF Loop
<1>2. <<[kind |-> CtkMain, quit |-> FALSE]>> \in Seq(Loop)
  BY <1>1
<1>3. <<[kind |-> CtkMain, quit |-> FALSE]>> # <<>>
  OBVIOUS
<1>4. CASE main = "init"
  BY <1>4 DEF TypeOK, LeavePhase
<1>5. CASE main = "defer" /\ (starter \/ supported)
  BY <1>2, <1>3, <1>5 DEF TypeOK, LeavePhase
<1>6. CASE main = "defer" /\ ~(starter \/ supported)
  BY <1>6 DEF TypeOK, LeavePhase
<1>7. CASE main \notin {"init", "defer"}
  BY <1>7 DEF TypeOK, LeavePhase
<1>8. QED
  BY <1>4, <1>5, <1>6, <1>7

-----------------------------------------------------------------------------
LEMMA NextInv == IInv /\ [Next]_vars => IInv'
<1> SUFFICES ASSUME IInv, [Next]_vars PROVE IInv'
  OBVIOUS
<1> USE DEF IInv
<1>1. CASE BusRegister
  BY <1>1, UntouchedRunning DEF BusRegister, TypeOK, env
<1>2. ASSUME NEW flag \in {INIT, DEFER}, NEW here \in {"init", "defer"}, StartPhase(here, flag)
      PROVE  IInv'
  <2>1. flag \in Flag
    BY DEF Flag
  <2>2. QED
    BY <1>2, <2>1, BeginLoadInv DEF StartPhase, TypeOK, env
<1>3. CASE SkipPhase
  BY <1>3, LeavePhaseInv, UntouchedRunning DEF SkipPhase, TypeOK, env
<1>4. CASE EndLoad
  <2>1. NoJob \in Job /\ NoJob.todo = {}
    BY DEF NoJob, Job, Flag
  <2>2. QED
    BY <1>4, <2>1, LeavePhaseInv, UntouchedRunning DEF EndLoad, TypeOK, env
<1>5. CASE SetSessionOverHandler
  BY <1>5, UntouchedRunning DEF SetSessionOverHandler, TypeOK, env
<1>6. ASSUME BeginUnload, UNCHANGED plugins
      PROVE  job' \in Job /\ job'.todo \subseteq plugins'
  BY <1>6 DEF BeginUnload, Job, Flag, TypeOK
<1>7. CASE DisposeManager
  BY <1>6, <1>7, UntouchedRunning DEF DisposeManager, TypeOK, env
<1>8. CASE EndUnload
  <2>1. NoJob \in Job /\ NoJob.todo = {}
    BY DEF NoJob, Job, Flag
  <2>2. QED
    BY <1>8, <2>1, CtkMainQuitType, UntouchedRunning DEF EndUnload, TypeOK, env
<1>9. ASSUME NEW p \in Plugin, MaybeActivate(p)
      PROVE  IInv'
  <2>1. p \in plugins /\ job \in Job /\ job.todo \subseteq plugins /\ plugins' = plugins
    BY <1>9 DEF TypeOK, MaybeActivate, FirstOf
  <2>2. job' \in Job /\ job'.todo \subseteq plugins'
    BY <1>9, <2>1 DEF MaybeActivate, Job
  <2>3. info' \in [Plugin -> Info] /\ live' \in [Plugin -> Nat] /\ ActiveIsRunning'
    <3>1. CASE UNCHANGED <<info, live>>
      BY <2>1, <3>1, UntouchedRunning DEF TypeOK
    <3>2. CASE InfoActivate(p)
      BY <2>1, <3>2, InfoActivateInv
    <3>3. QED
      BY <1>9, <3>1, <3>2 DEF MaybeActivate
  <2>4. QED
    BY <1>9, <2>2, <2>3 DEF MaybeActivate, TypeOK, env
<1>10. ASSUME NEW p \in Plugin, UnloadPlugin(p)
       PROVE  IInv'
  BY <1>10, UnloadPluginInv
<1>11. ASSUME NEW p \in Plugin, PluginEnabledCb(p)
       PROVE  IInv'
  <2>1. p \in plugins /\ plugins' = plugins
    BY <1>11 DEF TypeOK, PluginEnabledCb
  <2>2. info' \in [Plugin -> Info] /\ live' \in [Plugin -> Nat] /\ ActiveIsRunning'
    BY <1>11, <2>1, InfoActivateInv, InfoDeactivateInv DEF PluginEnabledCb
  <2>3. QED
    BY <1>11, <2>2 DEF PluginEnabledCb, TypeOK, env
<1>12. CASE Awake
  BY <1>12, BeginLoadInv DEF Awake, TypeOK, env, Flag
<1>13. CASE DBusStart
  BY <1>13, BeginLoadInv DEF DBusStart, TypeOK, env, Flag
<1>14. CASE OnSessionEnd
  BY <1>6, <1>14, UntouchedRunning DEF OnSessionEnd, TypeOK, env
<1>15. ASSUME Dispatching, Quit, term' \in {"none", "raised", "seen"}
       PROVE  IInv'
  <2>1. loops \in Seq(Loop) /\ loops # <<>>
    BY <1>15 DEF Dispatching, TypeOK
  <2>2. loops' \in Seq(Loop) /\ loops' # <<>>
    BY <1>15, <2>1, CtkMainQuitType DEF Quit
  <2>3. QED
    BY <1>15, <2>2, UntouchedRunning DEF Quit, Dispatching, TypeOK, env
<1>16. CASE OnTermSignalPipeClosed \/ BusMessage \/ ConfirmAnswered
  BY <1>15, <1>16 DEF OnTermSignalPipeClosed, BusMessage, ConfirmAnswered, TypeOK
<1>17. ASSUME NEW kind \in NestedLoop, OpenNested(kind)
       PROVE  IInv'
  <2>1. [kind |-> kind, quit |-> FALSE] \in Loop
    BY PluginManagerAssumption DEF Loop
  <2>2. loops' \in Seq(Loop) /\ loops' # <<>>
    BY <1>17, <2>1, AppendProperties DEF OpenNested, TypeOK
  <2>3. QED
    BY <1>17, <2>2, UntouchedRunning DEF OpenNested, Dispatching, TypeOK, env
<1>18. ASSUME NEW kind \in {CtkMain, DialogRun}, LoopReturns(kind)
       PROVE  IInv'
  <2>1. loops \in Seq(Loop) /\ loops # <<>> /\ main = "loop"
    BY <1>18 DEF LoopReturns, Dispatching, TypeOK
  <2>2. /\ loops' \in Seq(Loop)
        /\ loops' = <<>> <=> Len(loops) = 1
    BY <1>18, <2>1, LoopReturnsType DEF LoopReturns
  <2>3. QED
    BY <1>18, <2>1, <2>2, UntouchedRunning DEF LoopReturns, TypeOK, env
<1>19. ASSUME NEW p \in Plugin, ToggleSetting(p)
       PROVE  IInv'
  BY <1>19, UntouchedRunning DEF ToggleSetting, TypeOK
<1>20. ASSUME NEW p \in Plugin, InstallFile(p)
       PROVE  IInv'
  BY <1>20, UntouchedRunning DEF InstallFile, TypeOK
<1>21. CASE RaiseTerm
  <2>1. NoJob \in Job /\ NoJob.todo = {}
    BY DEF NoJob, Job, Flag
  <2>2. QED
    BY <1>21, <2>1, UntouchedRunning DEF RaiseTerm, TypeOK, env
<1>22. CASE UNCHANGED vars
  BY <1>22, UntouchedRunning DEF vars, TypeOK
<1>23. CASE StartInit \/ StartDefer
  BY <1>2, <1>23 DEF StartInit, StartDefer
<1>24. QED
  BY <1>1, <1>3, <1>4, <1>5, <1>7, <1>8, <1>9, <1>10, <1>11, <1>12, <1>13, <1>14,
     <1>16, <1>17, <1>18, <1>19, <1>20, <1>21, <1>22, <1>23 DEF Next

(* Whatever handlers, settings, files and loops interleave, the state is   *)
(* well typed and every plugin that counts as active is listed, available  *)
(* and, if its module made an object, running: no plugin is stopped twice. *)
THEOREM ActiveIsRunningAlways == Spec => [](TypeOK /\ ActiveIsRunning)
<1>1. IInv /\ [Next]_vars => IInv'
  BY NextInv
<1>2. IInv => TypeOK /\ ActiveIsRunning
  BY DEF IInv
<1>3. QED
  BY InitInv, <1>1, <1>2, PTL DEF Spec

-----------------------------------------------------------------------------
(* Activation and deactivation move "live" and the info together.          *)
LEMMA InfoActivateStray ==
  ASSUME IInv, NEW p \in Plugin, InfoActivate(p), NEW q \in Plugin
  PROVE  Stray(q)' = Stray(q)
<1>1. info \in [Plugin -> Info] /\ live \in [Plugin -> Nat]
  BY DEF IInv, TypeOK
<1>2. CASE UNCHANGED <<info, live>>
  BY <1>2 DEF Stray, Running
<1>3. CASE ~info[p].active /\ StartPlugin(p)
  <2>1. [info[p] EXCEPT !.active = TRUE, !.plugin = TRUE].active
        /\ [info[p] EXCEPT !.active = TRUE, !.plugin = TRUE].plugin
    BY <1>1 DEF Info
  <2>2. info'[p].active /\ info'[p].plugin /\ live'[p] = live[p] + 1
    BY <1>1, <1>3, <2>1 DEF StartPlugin
  <2>3. q # p => info'[q] = info[q] /\ live'[q] = live[q]
    BY <1>1, <1>3 DEF StartPlugin
  <2>4. QED
    BY <1>1, <1>3, <2>2, <2>3 DEF Stray, Running
<1>4. CASE /\ ~info[p].active /\ ~info[p].plugin
           /\ \/ info' = [info EXCEPT ![p].available = FALSE]
              \/ info' = [info EXCEPT ![p].active = TRUE]
           /\ UNCHANGED live
  BY <1>1, <1>4 DEF Stray, Running, Info
<1>5. QED
  BY <1>2, <1>3, <1>4 DEF InfoActivate, LoadPluginModule

LEMMA InfoDeactivateStray ==
  ASSUME IInv, NEW p \in Plugin, InfoDeactivate(p), NEW q \in Plugin
  PROVE  Stray(q)' = Stray(q)
<1>1. info \in [Plugin -> Info] /\ live \in [Plugin -> Nat]
  BY DEF IInv, TypeOK
<1>2. info[p].active => info[p].available
  BY DEF IInv, ActiveIsRunning
<1>3. ~info'[p].active /\ live'[p] = live[p] - Running(p)
  BY <1>1, <1>2 DEF InfoDeactivate, Info, Running
<1>4. q # p => info'[q] = info[q] /\ live'[q] = live[q]
  BY <1>1 DEF InfoDeactivate
<1>5. QED
  BY <1>1, <1>3, <1>4 DEF Stray, Running

(* An unloaded plugin that was enabled when it was loaded is deactivated.  *)
LEMMA UnloadPluginStray ==
  ASSUME IInv, NEW p \in Plugin, UnloadPlugin(p), NEW q \in Plugin
  PROVE  Stray(q)' # Stray(q) => q \in plugins \ plugins' /\ ~info[q].enabled
<1>1. info \in [Plugin -> Info] /\ live \in [Plugin -> Nat] /\ p \in plugins
  BY DEF IInv, TypeOK, UnloadPlugin, FirstOf
<1>2. info[p].active => info[p].available
  BY DEF IInv, ActiveIsRunning
<1>3. p \notin plugins' /\ ~info'[p].active
  BY <1>1 DEF UnloadPlugin, NoInfo
<1>4. info[p].enabled => live'[p] = live[p] - Running(p)
  BY <1>1, <1>2 DEF UnloadPlugin, Running
<1>5. q # p => info'[q] = info[q] /\ live'[q] = live[q]
  BY <1>1 DEF UnloadPlugin
<1>6. QED
  BY <1>1, <1>3, <1>4, <1>5 DEF Stray, Running

(* A running plugin gets out of the manager's hands only when it is        *)
(* unloaded and its "active" key was off when it was loaded; every other   *)
(* plugin is deactivated by the stop, however its setting changed since.   *)
THEOREM StrayOnlyIfDisabledAtLoadAlways == Spec => StrayOnlyIfDisabledAtLoad
<1> DEFINE Step == \A p \in Plugin :
             Stray(p)' # Stray(p) => p \in plugins \ plugins' /\ ~info[p].enabled
<1>1. ASSUME IInv, [Next]_vars
      PROVE  [Step]_vars
  <2> SUFFICES ASSUME Next, NEW q \in Plugin
               PROVE  Stray(q)' # Stray(q) => q \in plugins \ plugins' /\ ~info[q].enabled
    BY <1>1
  <2>1. CASE UNCHANGED <<info, live>>
    BY <2>1 DEF Stray, Running
  <2>2. ASSUME NEW flag, BeginLoad(flag), UNCHANGED live
        PROVE  Stray(q)' = Stray(q)
    <3>1. info \in [Plugin -> Info] /\ live \in [Plugin -> Nat]
      BY <1>1 DEF IInv, TypeOK
    <3>2. info'[q] = info[q] \/ (~info'[q].active /\ q \notin plugins)
      BY <2>2, <3>1 DEF BeginLoad, NewInfo
    <3>3. q \notin plugins => ~info[q].active
      BY <1>1 DEF IInv, ActiveIsRunning
    <3>4. QED
      BY <2>2, <3>1, <3>2, <3>3 DEF Stray, Running
  <2>3. CASE StartInit \/ StartDefer \/ Awake \/ DBusStart
    BY <2>2, <2>3 DEF StartInit, StartDefer, StartPhase, Awake, DBusStart
  <2>4. ASSUME NEW p \in Plugin, MaybeActivate(p)
        PROVE  Stray(q)' = Stray(q)
    BY <1>1, <2>4, InfoActivateStray DEF MaybeActivate, Stray, Running
  <2>5. ASSUME NEW p \in Plugin, PluginEnabledCb(p)
        PROVE  Stray(q)' = Stray(q)
    BY <1>1, <2>5, InfoActivateStray, InfoDeactivateStray DEF PluginEnabledCb
  <2>6. ASSUME NEW p \in Plugin, UnloadPlugin(p)
        PROVE  Stray(q)' # Stray(q) => q \in plugins \ plugins' /\ ~info[q].enabled
    BY <1>1, <2>6, UnloadPluginStray
  <2>7. QED
    BY <2>1, <2>3, <2>4, <2>5, <2>6
    DEF Next, BusRegister, SkipPhase, EndLoad, SetSessionOverHandler, DisposeManager,
        EndUnload, OnSessionEnd, OnTermSignalPipeClosed, BusMessage, OpenNested,
        ConfirmAnswered, LoopReturns, ToggleSetting, InstallFile, RaiseTerm, Quit
<1>2. Spec => []IInv
  BY InitInv, NextInv, PTL DEF Spec
<1>3. QED
  BY <1>1, <1>2, PTL DEF Spec, StrayOnlyIfDisabledAtLoad

-----------------------------------------------------------------------------
(* DisabledIsInactiveUnlessStale, strengthened from the quiet states to    *)
(* all: a disabled plugin still active has its change under way, or was    *)
(* enabled when it was loaded.                                             *)
StaleInv ==
  \A p \in plugins :
    info[p].active /\ ~setting[p] => info[p].enabled \/ p \in changed

LEMMA StaleStep == IInv /\ StaleInv /\ [Next]_vars => StaleInv'
<1> SUFFICES ASSUME IInv, StaleInv, [Next]_vars, NEW q \in plugins',
                    info'[q].active, ~setting'[q]
             PROVE  info'[q].enabled \/ q \in changed'
  BY DEF StaleInv
<1>1. /\ info \in [Plugin -> Info] /\ setting \in [Plugin -> BOOLEAN]
      /\ plugins \in SUBSET Plugin /\ files \in SUBSET Plugin
      /\ q \in Plugin
  BY NextInv DEF IInv, TypeOK
<1>2. CASE UNCHANGED <<info, setting, changed, plugins>>
  BY <1>2 DEF StaleInv
<1>3. ASSUME NEW flag, BeginLoad(flag), UNCHANGED <<setting, changed>>
      PROVE  info'[q].enabled \/ q \in changed'
  <2>1. q \in files \cup plugins
    BY <1>3 DEF BeginLoad
  <2>2. q \in plugins /\ info'[q] = info[q]
    BY <1>1, <1>3, <2>1 DEF BeginLoad, NewInfo
  <2>3. QED
    BY <1>3, <2>2 DEF StaleInv
<1>4. ASSUME NEW p \in Plugin, InfoActivate(p)
      PROVE  /\ q # p => info'[q] = info[q]
             /\ info'[q].enabled = info[q].enabled
  <2>1. [info[p] EXCEPT !.active = TRUE, !.plugin = TRUE].enabled = info[p].enabled
    BY <1>1 DEF Info
  <2>2. CASE StartPlugin(p)
    BY <1>1, <2>1, <2>2 DEF StartPlugin
  <2>3. CASE \/ info' = [info EXCEPT ![p].available = FALSE]
             \/ info' = [info EXCEPT ![p].active = TRUE]
             \/ info' = info
    BY <1>1, <2>3 DEF Info
  <2>4. QED
    BY <1>4, <2>2, <2>3 DEF InfoActivate, LoadPluginModule
<1>5. ASSUME NEW p \in Plugin, MaybeActivate(p)
      PROVE  info'[q].enabled \/ q \in changed'
  <2>1. UNCHANGED <<setting, changed, plugins>>
    BY <1>5 DEF MaybeActivate, env
  <2>2. CASE info[p].enabled /\ InfoActivate(p)
    <3>1. (q # p => info'[q] = info[q]) /\ info'[q].enabled = info[q].enabled
      BY <1>4, <2>2
    <3>2. QED
      BY <2>1, <2>2, <3>1 DEF StaleInv
  <2>3. CASE UNCHANGED info
    BY <2>1, <2>3 DEF StaleInv
  <2>4. QED
    BY <1>5, <2>2, <2>3 DEF MaybeActivate
<1>6. ASSUME NEW p \in Plugin, PluginEnabledCb(p)
      PROVE  info'[q].enabled \/ q \in changed'
  <2>1. UNCHANGED <<setting, plugins>> /\ changed' = changed \ {p}
    BY <1>6 DEF PluginEnabledCb, env
  <2>2. CASE setting[p] /\ InfoActivate(p)
    BY <1>4, <2>1, <2>2 DEF StaleInv
  <2>3. CASE InfoDeactivate(p)
    <3>1. ~info'[p].active /\ (q # p => info'[q] = info[q])
      BY <1>1, <2>3 DEF InfoDeactivate, Info, IInv, ActiveIsRunning
    <3>2. q # p /\ q \in plugins /\ info'[q] = info[q] /\ setting' = setting
      BY <2>1, <3>1
    <3>3. info[q].enabled \/ q \in changed
      BY <3>2 DEF StaleInv
    <3>4. QED
      BY <2>1, <3>2, <3>3
  <2>4. QED
    BY <1>6, <2>2, <2>3 DEF PluginEnabledCb
<1>7. ASSUME NEW p \in Plugin, UnloadPlugin(p)
      PROVE  info'[q].enabled \/ q \in changed'
  <2>1. q # p /\ q \in plugins /\ setting' = setting
    BY <1>7 DEF UnloadPlugin, env
  <2>2. info'[q] = info[q] /\ (q \in changed => q \in changed')
    BY <1>1, <1>7, <2>1 DEF UnloadPlugin
  <2>3. QED
    BY <2>1, <2>2 DEF StaleInv
<1>8. ASSUME NEW p \in Plugin, ToggleSetting(p)
      PROVE  info'[q].enabled \/ q \in changed'
  BY <1>1, <1>8 DEF ToggleSetting, StaleInv
<1>9. CASE StartInit \/ StartDefer \/ Awake \/ DBusStart
  BY <1>3, <1>9 DEF StartInit, StartDefer, StartPhase, Awake, DBusStart, env
<1>10. QED
  BY <1>2, <1>5, <1>6, <1>7, <1>8, <1>9
  DEF Next, vars, BusRegister, SkipPhase, EndLoad, SetSessionOverHandler, DisposeManager,
      EndUnload, OnSessionEnd, OnTermSignalPipeClosed, BusMessage, OpenNested,
      ConfirmAnswered, LoopReturns, InstallFile, RaiseTerm, Quit, env

(* When the loop is quiet, a disabled plugin that is still active owes it  *)
(* to the value its key had when the plugin was loaded.                    *)
THEOREM DisabledIsInactiveUnlessStaleAlways == Spec => []DisabledIsInactiveUnlessStale
<1>1. Init => StaleInv
  BY DEF Init, StaleInv
<1>2. IInv /\ StaleInv => DisabledIsInactiveUnlessStale
  BY DEF IInv, TypeOK, StaleInv, DisabledIsInactiveUnlessStale, Quiet
<1>3. QED
  BY InitInv, NextInv, StaleStep, <1>1, <1>2, PTL DEF Spec

(* Every variable keeps its type, and loops run exactly while main() is in *)
(* its main loop.                                                          *)
THEOREM TypeOKAlways == Spec => []TypeOK
BY InitInv, NextInv, PTL DEF Spec, IInv

-----------------------------------------------------------------------------
(* What an activation does to the infos: the plugin is active after it, or *)
(* turns out to be unavailable, and the rest of its info stays.            *)
LEMMA InfoActivateEffect ==
  ASSUME IInv, NEW p \in Plugin, InfoActivate(p)
  PROVE  /\ \A q \in Plugin \ {p} : info'[q] = info[q]
         /\ info'[p].enabled = info[p].enabled /\ info'[p].found = info[p].found
         /\ info'[p].active \/ ~info'[p].available
         /\ info[p].active => info'[p].active
         /\ info'[p].available => info[p].available
<1>1. info \in [Plugin -> Info]
  BY DEF IInv, TypeOK
<1>2. CASE StartPlugin(p)
  <2>1. /\ [info[p] EXCEPT !.active = TRUE, !.plugin = TRUE].active
        /\ [info[p] EXCEPT !.active = TRUE, !.plugin = TRUE].enabled = info[p].enabled
        /\ [info[p] EXCEPT !.active = TRUE, !.plugin = TRUE].found = info[p].found
        /\ [info[p] EXCEPT !.active = TRUE, !.plugin = TRUE].available = info[p].available
    BY <1>1 DEF Info
  <2>2. QED
    BY <1>1, <1>2, <2>1 DEF StartPlugin
<1>3. CASE /\ info[p].available /\ ~info[p].active
           /\ \/ info' = [info EXCEPT ![p].available = FALSE]
              \/ info' = [info EXCEPT ![p].active = TRUE]
  BY <1>1, <1>3 DEF Info
<1>4. CASE (info[p].active \/ ~info[p].available) /\ info' = info
  BY <1>1, <1>4
<1>5. QED
  BY <1>2, <1>3, <1>4 DEF InfoActivate, LoadPluginModule

(* A start gives an info to the files it did not know, and only to them.   *)
LEMMA BeginLoadEffect ==
  ASSUME IInv, NEW flag, BeginLoad(flag), NEW q \in plugins'
  PROVE  \/ q \in plugins /\ info'[q] = info[q]
         \/ /\ info'[q].enabled = setting[q] /\ info'[q].found = flag
            /\ info'[q].available /\ ~info'[q].active
<1>1. info \in [Plugin -> Info] /\ plugins \in SUBSET Plugin /\ files \in SUBSET Plugin
  BY DEF IInv, TypeOK
<1>2. q \in Plugin /\ (q \in plugins \/ q \in files \ plugins)
  BY <1>1 DEF BeginLoad
<1>3. QED
  BY <1>1, <1>2 DEF BeginLoad, NewInfo

-----------------------------------------------------------------------------
(* EnabledIsActiveUnlessFoundLate, strengthened from the quiet states to   *)
(* all.  A plugin that should be active and is not has a change under way, *)
(* is yet to be reached by the load in progress, or waits for the second   *)
(* phase.  A stop empties the list, and nothing is listed when main() does *)
(* not start the plugins itself.                                           *)
ShouldBeActive(p) ==
  /\ setting[p] /\ info[p].available /\ ~info[p].active
  /\ info[p].found # STRAY
  /\ info[p].found = DEFER => ~InInitGroup(p)

YetToBeReached(p) ==
  /\ info[p].enabled
  /\ \/ job.op = "load" /\ p \in job.todo /\ Wanted(job.flag, p)
     \/ /\ ~InInitGroup(p)
        /\ main \in {"init", "register"} \/ (main = "defer" /\ job.op = "none")

Leaving == main \in {"out", "exit", "killed"}

EnabledInv ==
  \A p \in plugins : ShouldBeActive(p) => p \in changed \/ YetToBeReached(p) \/ Leaving

PhaseInv ==
  /\ job.op = "unload" => job.todo = plugins
  /\ main \in {"bus", "init", "register", "defer"} /\ (starter \/ ~supported) => plugins = {}
  /\ main \in {"bus", "register"} => job.op = "none"

LEMMA PhaseStep == IInv /\ PhaseInv /\ [Next]_vars => PhaseInv'
<1> SUFFICES ASSUME IInv, PhaseInv, [Next]_vars PROVE PhaseInv'
  OBVIOUS
<1>1. CASE UNCHANGED vars
  BY <1>1 DEF vars, PhaseInv
<1>2. CASE BusRegister \/ SetSessionOverHandler
  BY <1>2 DEF BusRegister, SetSessionOverHandler, PhaseInv, env
<1>3. CASE StartInit \/ StartDefer
  BY <1>3 DEF StartInit, StartDefer, StartPhase, BeginLoad, PhaseInv, env
<1>4. CASE SkipPhase
  BY <1>4 DEF SkipPhase, LeavePhase, PhaseInv, env
<1>5. CASE EndLoad
  BY <1>5 DEF EndLoad, LeavePhase, NoJob, PhaseInv, env
<1>6. CASE DisposeManager \/ OnSessionEnd
  BY <1>6 DEF DisposeManager, OnSessionEnd, Dispatching, BeginUnload, PhaseInv, env
<1>7. CASE EndUnload
  BY <1>7 DEF EndUnload, NoJob, PhaseInv, env
<1>8. ASSUME NEW p \in Plugin, MaybeActivate(p)
      PROVE  PhaseInv'
  <2>1. job' = [job EXCEPT !.todo = @ \ {p}] /\ job.op = "load" /\ job \in Job
    BY <1>8 DEF MaybeActivate, IInv, TypeOK
  <2>2. job'.op = "load"
    BY <2>1 DEF Job
  <2>3. QED
    BY <1>8, <2>2 DEF MaybeActivate, PhaseInv, env
<1>9. ASSUME NEW p \in Plugin, UnloadPlugin(p)
      PROVE  PhaseInv'
  <2>1. job' = [job EXCEPT !.todo = @ \ {p}] /\ job.op = "unload" /\ job \in Job
    BY <1>9 DEF UnloadPlugin, IInv, TypeOK
  <2>2. job'.op = "unload" /\ job'.todo = job.todo \ {p}
    BY <2>1 DEF Job
  <2>3. QED
    BY <1>9, <2>1, <2>2 DEF UnloadPlugin, PhaseInv, env
<1>10. ASSUME NEW p \in Plugin, PluginEnabledCb(p) \/ ToggleSetting(p) \/ InstallFile(p)
       PROVE  PhaseInv'
  BY <1>10 DEF PluginEnabledCb, ToggleSetting, InstallFile, PhaseInv, env
<1>11. CASE Awake \/ DBusStart
  BY <1>11 DEF Awake, DBusStart, Dispatching, BeginLoad, PhaseInv, env
<1>12. CASE OnTermSignalPipeClosed \/ BusMessage \/ ConfirmAnswered
  BY <1>12 DEF OnTermSignalPipeClosed, BusMessage, ConfirmAnswered, Quit, PhaseInv, env
<1>13. ASSUME NEW kind, OpenNested(kind) \/ LoopReturns(kind)
       PROVE  PhaseInv'
  BY <1>13 DEF OpenNested, LoopReturns, Dispatching, PhaseInv, env
<1>14. CASE RaiseTerm
  BY <1>14 DEF RaiseTerm, NoJob, PhaseInv, env
<1>15. QED
  BY <1>1, <1>2, <1>3, <1>4, <1>5, <1>6, <1>7, <1>8, <1>9, <1>10, <1>11, <1>12, <1>13,
     <1>14 DEF Next

(* Steps that leave the infos, the settings and the list alone.            *)
LEMMA EnabledUntouched ==
  ASSUME EnabledInv, UNCHANGED <<info, setting, changed, plugins>>,
         \A p \in plugins : YetToBeReached(p) => YetToBeReached(p)' \/ Leaving',
         Leaving => Leaving'
  PROVE  EnabledInv'
<1>1. \A p : ShouldBeActive(p)' => ShouldBeActive(p)
  BY DEF ShouldBeActive, InInitGroup
<1>2. QED
  BY <1>1 DEF EnabledInv

LEMMA EnabledStep == IInv /\ PhaseInv /\ EnabledInv /\ [Next]_vars => EnabledInv'
<1> SUFFICES ASSUME IInv, PhaseInv, EnabledInv, [Next]_vars PROVE EnabledInv'
  OBVIOUS
<1>1. /\ info \in [Plugin -> Info] /\ setting \in [Plugin -> BOOLEAN]
      /\ plugins \in SUBSET Plugin /\ files \in SUBSET Plugin
      /\ job \in Job /\ job.todo \subseteq plugins
      /\ main = "loop" <=> loops # <<>>
  BY DEF IInv, TypeOK
<1>2. CASE UNCHANGED vars
  BY <1>2, EnabledUntouched DEF vars, YetToBeReached, Leaving
<1>3. CASE BusRegister \/ SetSessionOverHandler
  BY <1>3, EnabledUntouched
  DEF BusRegister, SetSessionOverHandler, env, YetToBeReached, Leaving, PhaseInv
<1>4. ASSUME NEW flag, NEW q \in plugins', BeginLoad(flag), UNCHANGED <<setting, changed, main>>,
             job.op = "none", ShouldBeActive(q)',
             \/ flag \in {ALL, STRAY} /\ main = "loop"
             \/ flag = INIT /\ main = "init"
             \/ flag = DEFER /\ main = "defer"
      PROVE  q \in changed' \/ YetToBeReached(q)' \/ Leaving'
  <2>1. job'.op = "load" /\ job'.flag = flag /\ job'.todo = plugins'
    BY <1>4 DEF BeginLoad
  <2>2. CASE q \in plugins /\ info'[q] = info[q]
    <3>1. ShouldBeActive(q)
      BY <1>4, <2>2 DEF ShouldBeActive, InInitGroup
    <3>2. q \in changed \/ YetToBeReached(q) \/ Leaving
      BY <2>2, <3>1 DEF EnabledInv
    <3>3. YetToBeReached(q) => YetToBeReached(q)'
      BY <1>4, <2>1, <2>2 DEF YetToBeReached, Wanted, InInitGroup, ALL, INIT, DEFER, STRAY
    <3>4. QED
      BY <1>4, <3>2, <3>3 DEF Leaving
  <2>3. CASE info'[q].enabled = setting[q] /\ info'[q].found = flag
    <3>1. info'[q].enabled /\ flag # STRAY /\ (flag = DEFER => ~InInitGroup(q))
      BY <1>4, <2>3 DEF ShouldBeActive, InInitGroup
    <3>2. YetToBeReached(q)'
      BY <1>4, <2>1, <3>1 DEF YetToBeReached, Wanted, InInitGroup, ALL, INIT, DEFER, STRAY
    <3>3. QED
      BY <3>2
  <2>4. QED
    BY <1>4, <2>2, <2>3, BeginLoadEffect
<1>5. CASE StartInit
  BY <1>4, <1>5 DEF StartInit, StartPhase, EnabledInv, env
<1>6. CASE StartDefer
  BY <1>4, <1>6 DEF StartDefer, StartPhase, EnabledInv, env
<1>7. CASE Awake \/ DBusStart
  BY <1>4, <1>7 DEF Awake, DBusStart, Dispatching, EnabledInv, env
<1>8. CASE SkipPhase
  BY <1>8, EnabledUntouched DEF SkipPhase, LeavePhase, PhaseInv, env, Leaving, YetToBeReached
<1>9. CASE EndLoad
  <2>1. job'.op = "none"
    BY <1>9 DEF EndLoad, NoJob
  <2>2. Leaving => Leaving'
    BY <1>9 DEF EndLoad, LeavePhase, Leaving
  <2>3. ASSUME NEW p \in plugins, YetToBeReached(p)
        PROVE  YetToBeReached(p)'
    BY <1>9, <2>1, <2>3 DEF EndLoad, LeavePhase, YetToBeReached, InInitGroup, PhaseInv
  <2>4. QED
    BY <1>9, <2>2, <2>3, EnabledUntouched DEF EndLoad, env
<1>10. CASE DisposeManager \/ OnSessionEnd
  BY <1>10, EnabledUntouched
  DEF DisposeManager, OnSessionEnd, Dispatching, env, Leaving, YetToBeReached
<1>11. CASE EndUnload
  BY <1>11 DEF EndUnload, PhaseInv, EnabledInv, env
<1>12. ASSUME NEW p \in Plugin, MaybeActivate(p)
       PROVE  EnabledInv'
  <2>1. job.op = "load" /\ job'.op = "load" /\ job'.flag = job.flag /\ job'.todo = job.todo \ {p}
    BY <1>1, <1>12 DEF MaybeActivate, Job
  <2>2. UNCHANGED <<main, setting, changed, plugins>>
    BY <1>12 DEF MaybeActivate, env
  <2>3. ASSUME NEW q \in plugins, ShouldBeActive(q)'
        PROVE  q \in changed' \/ YetToBeReached(q)' \/ Leaving'
    <3>1. info'[q] = info[q] /\ (q = p => ~(info[p].enabled /\ Wanted(job.flag, p)))
      <4>1. CASE info[p].enabled /\ Wanted(job.flag, p)
        BY <1>1, <1>12, <2>3, <4>1, InfoActivateEffect DEF MaybeActivate, ShouldBeActive
      <4>2. CASE ~(info[p].enabled /\ Wanted(job.flag, p))
        BY <1>12, <4>2 DEF MaybeActivate
      <4>3. QED
        BY <4>1, <4>2
    <3>2. ShouldBeActive(q)
      BY <2>2, <2>3, <3>1 DEF ShouldBeActive, InInitGroup
    <3>3. YetToBeReached(q) => YetToBeReached(q)'
      BY <2>1, <2>2, <3>1 DEF YetToBeReached, Wanted, InInitGroup
    <3>4. QED
      BY <2>2, <2>3, <3>2, <3>3 DEF EnabledInv, Leaving
  <2>4. QED
    BY <2>2, <2>3 DEF EnabledInv
<1>13. ASSUME NEW p \in Plugin, UnloadPlugin(p)
       PROVE  EnabledInv'
  <2>1. /\ job.op = "unload" /\ job'.op = "unload"
        /\ plugins' = plugins \ {p} /\ changed' = changed \ {p} /\ UNCHANGED <<main, setting>>
        /\ \A q \in plugins' : info'[q] = info[q]
    BY <1>1, <1>13 DEF UnloadPlugin, Job, env
  <2>2. ASSUME NEW q \in plugins', ShouldBeActive(q)'
        PROVE  q \in changed' \/ YetToBeReached(q)' \/ Leaving'
    <3>1. ShouldBeActive(q) /\ q \in plugins
      BY <2>1, <2>2 DEF ShouldBeActive, InInitGroup
    <3>2. YetToBeReached(q) => YetToBeReached(q)'
      BY <2>1 DEF YetToBeReached, InInitGroup
    <3>3. QED
      BY <2>1, <2>2, <3>1, <3>2 DEF EnabledInv, Leaving
  <2>3. QED
    BY <2>2 DEF EnabledInv
<1>14. ASSUME NEW p \in Plugin, PluginEnabledCb(p)
       PROVE  EnabledInv'
  <2>1. /\ main = "loop" /\ job.op = "none" /\ plugins' = plugins /\ changed' = changed \ {p}
        /\ UNCHANGED <<main, setting, job>>
    BY <1>14 DEF PluginEnabledCb, Dispatching, env
  <2>2. ASSUME NEW q \in plugins, ShouldBeActive(q)'
        PROVE  q \in changed'
    <3>1. q # p /\ info'[q] = info[q]
      <4>1. CASE setting[p] /\ InfoActivate(p)
        BY <1>1, <2>2, <4>1, InfoActivateEffect DEF ShouldBeActive
      <4>2. CASE ~setting[p] /\ InfoDeactivate(p)
        BY <1>1, <2>1, <2>2, <4>2 DEF InfoDeactivate, ShouldBeActive
      <4>3. QED
        BY <1>14, <4>1, <4>2 DEF PluginEnabledCb
    <3>2. ShouldBeActive(q)
      BY <2>1, <2>2, <3>1 DEF ShouldBeActive, InInitGroup
    <3>3. ~YetToBeReached(q) /\ ~Leaving
      BY <2>1 DEF YetToBeReached, Leaving
    <3>4. QED
      BY <2>1, <2>2, <3>1, <3>2, <3>3 DEF EnabledInv
  <2>3. QED
    BY <2>1, <2>2 DEF EnabledInv
<1>15. ASSUME NEW p \in Plugin, ToggleSetting(p)
       PROVE  EnabledInv'
  <2>1. /\ UNCHANGED <<main, job, plugins, info>>
        /\ changed' = changed \cup ({p} \cap plugins)
        /\ \A q \in Plugin \ {p} : setting'[q] = setting[q]
    BY <1>1, <1>15 DEF ToggleSetting
  <2>2. ASSUME NEW q \in plugins, ShouldBeActive(q)', q # p
        PROVE  ShouldBeActive(q)
    BY <1>1, <2>1, <2>2 DEF ShouldBeActive, InInitGroup
  <2>3. \A q : YetToBeReached(q) => YetToBeReached(q)'
    BY <2>1 DEF YetToBeReached, InInitGroup
  <2>4. QED
    BY <2>1, <2>2, <2>3 DEF EnabledInv, Leaving
<1>16. ASSUME NEW p \in Plugin, InstallFile(p)
       PROVE  EnabledInv'
  BY <1>16, EnabledUntouched DEF InstallFile, YetToBeReached, Leaving, InInitGroup
<1>17. CASE OnTermSignalPipeClosed \/ BusMessage \/ ConfirmAnswered
  BY <1>17, EnabledUntouched
  DEF OnTermSignalPipeClosed, BusMessage, ConfirmAnswered, Quit, env, YetToBeReached, Leaving,
      InInitGroup
<1>18. ASSUME NEW kind, OpenNested(kind) \/ LoopReturns(kind)
       PROVE  EnabledInv'
  BY <1>18, EnabledUntouched
  DEF OpenNested, LoopReturns, Dispatching, env, YetToBeReached, Leaving, InInitGroup
<1>19. CASE RaiseTerm
  BY <1>19, EnabledUntouched DEF RaiseTerm, env, YetToBeReached, Leaving, InInitGroup
<1>20. QED
  BY <1>2, <1>3, <1>5, <1>6, <1>7, <1>8, <1>9, <1>10, <1>11, <1>12, <1>13, <1>14, <1>15,
     <1>16, <1>17, <1>18, <1>19 DEF Next

(* When the loop is quiet, an enabled plugin is active, or its module could *)
(* not be loaded, or its file was met by a start that did not want it.     *)
THEOREM EnabledIsActiveAlways == Spec => []EnabledIsActiveUnlessFoundLate
<1>1. Init => PhaseInv /\ EnabledInv
  BY DEF Init, NoJob, PhaseInv, EnabledInv
<1>2. IInv /\ EnabledInv => EnabledIsActiveUnlessFoundLate
  <2>1. SUFFICES ASSUME EnabledInv, Quiet, NEW p \in plugins, ShouldBeActive(p)
                 PROVE  FALSE
    BY DEF EnabledIsActiveUnlessFoundLate, ShouldBeActive
  <2>2. QED
    BY <2>1 DEF Quiet, EnabledInv, YetToBeReached, Leaving
<1>3. QED
  BY InitInv, NextInv, PhaseStep, EnabledStep, <1>1, <1>2, PTL DEF Spec

-----------------------------------------------------------------------------
(* What makes the order of the start hold: the first phase finds the list  *)
(* empty and marks what it finds; each phase leaves behind it no enabled   *)
(* plugin that it wanted, is available and is not active.                  *)
Begun(p) == info[p].enabled => info[p].active \/ ~info[p].available

OrderInv ==
  /\ main = "bus" \/ (main = "init" /\ job.op = "none") => plugins = {}
  /\ main \in {"bus", "register"} => job.op = "none"
  /\ main = "init" /\ job.op # "none" => job.op = "load" /\ job.flag = INIT
  /\ main = "defer" /\ job.op # "none" => job.op = "load" /\ job.flag = DEFER
  /\ main \in {"init", "register", "defer"} =>
       \A p \in plugins : info[p].found \in {INIT, DEFER}
  /\ main = "init" => \A p \in plugins \ job.todo : InInitGroup(p) => Begun(p)
  /\ main \in {"register", "defer"} =>
       \A p \in plugins : InInitGroup(p) /\ info[p].found = INIT => Begun(p)
  /\ main = "defer" /\ job.op = "load" =>
       \A p \in plugins \ job.todo : ~InInitGroup(p) => Begun(p)

Starting == main \in {"bus", "init", "register", "defer"}

(* Steps that leave the list and the phases of main() alone.               *)
LEMMA OrderUntouched ==
  ASSUME OrderInv, UNCHANGED <<main, info, plugins, job>>
  PROVE  OrderInv'
BY DEF OrderInv, Begun, InInitGroup, Priority

(* Nothing is said of the order once main() has started the plugins.       *)
LEMMA OrderOver ==
  ASSUME ~Starting'
  PROVE  OrderInv'
BY DEF Starting, OrderInv

LEMMA OrderStep == IInv /\ OrderInv /\ [Next]_vars => OrderInv'
<1> SUFFICES ASSUME IInv, OrderInv, [Next]_vars PROVE OrderInv'
  OBVIOUS
<1>1. /\ info \in [Plugin -> Info] /\ plugins \in SUBSET Plugin /\ files \in SUBSET Plugin
      /\ job \in Job /\ job.todo \subseteq plugins
      /\ main = "loop" <=> loops # <<>>
  BY DEF IInv, TypeOK
<1>2. CASE UNCHANGED vars
  BY <1>2, OrderUntouched DEF vars
<1>3. CASE BusRegister
  BY <1>3 DEF BusRegister, OrderInv, env
<1>4. CASE SetSessionOverHandler
  BY <1>4 DEF SetSessionOverHandler, OrderInv, Begun, InInitGroup, Priority, env
<1>5. CASE StartInit
  <2>1. /\ main = "init" /\ main' = "init" /\ plugins = {} /\ plugins' = files
        /\ job'.op = "load" /\ job'.flag = INIT /\ job'.todo = plugins'
    BY <1>5 DEF StartInit, StartPhase, BeginLoad, OrderInv
  <2>2. \A q \in plugins' : info'[q].found = INIT
    BY <1>5, <2>1, BeginLoadEffect DEF StartInit, StartPhase
  <2>3. QED
    BY <2>1, <2>2 DEF OrderInv
<1>6. CASE StartDefer
  <2>1. /\ main = "defer" /\ main' = "defer"
        /\ job'.op = "load" /\ job'.flag = DEFER /\ job'.todo = plugins'
    BY <1>6 DEF StartDefer, StartPhase, BeginLoad
  <2>2. ASSUME NEW q \in plugins'
        PROVE  /\ info'[q].found \in {INIT, DEFER}
               /\ InInitGroup(q)' /\ info'[q].found = INIT => Begun(q)'
    <3>1. CASE q \in plugins /\ info'[q] = info[q]
      BY <2>1, <3>1 DEF OrderInv, Begun, InInitGroup, Priority
    <3>2. CASE info'[q].found = DEFER
      BY <3>2 DEF INIT, DEFER
    <3>3. QED
      BY <1>6, <3>1, <3>2, BeginLoadEffect DEF StartDefer, StartPhase
  <2>3. QED
    BY <2>1, <2>2 DEF OrderInv
<1>7. CASE SkipPhase
  <2>1. CASE main = "init"
    BY <1>7, <2>1 DEF SkipPhase, LeavePhase, OrderInv
  <2>2. CASE main = "defer"
    BY <1>7, <2>2, OrderOver DEF SkipPhase, LeavePhase, Starting
  <2>3. QED
    BY <1>7, <2>1, <2>2 DEF SkipPhase
<1>8. CASE EndLoad
  <2>1. job'.op = "none" /\ job.todo = {} /\ UNCHANGED <<info, plugins>>
    BY <1>8 DEF EndLoad, NoJob
  <2>2. CASE main = "init"
    <3>1. main' = "register"
      BY <1>8, <2>2 DEF EndLoad, LeavePhase
    <3>2. \A p \in plugins' : InInitGroup(p)' /\ info'[p].found = INIT => Begun(p)'
      BY <2>1, <2>2 DEF OrderInv, Begun, InInitGroup, Priority
    <3>3. QED
      BY <2>1, <2>2, <3>1, <3>2 DEF OrderInv
  <2>3. CASE main = "defer"
    BY <1>8, <2>3, OrderOver DEF EndLoad, LeavePhase, Starting
  <2>4. CASE main \notin {"init", "defer"}
    <3>1. main' = main /\ job.op = "load"
      BY <1>8, <2>4 DEF EndLoad, LeavePhase
    <3>2. CASE main \in {"bus", "register"}
      BY <3>1, <3>2 DEF OrderInv
    <3>3. CASE main \notin {"bus", "register"}
      BY <2>4, <3>1, <3>3, OrderOver DEF Starting
    <3>4. QED
      BY <3>2, <3>3
  <2>5. QED
    BY <2>2, <2>3, <2>4
<1>9. ASSUME NEW p \in Plugin, MaybeActivate(p)
      PROVE  OrderInv'
  <2>1. /\ job.op = "load" /\ job'.op = "load" /\ job'.flag = job.flag
        /\ job'.todo = job.todo \ {p} /\ UNCHANGED <<main, plugins>>
    BY <1>1, <1>9 DEF MaybeActivate, Job
  <2>2. ASSUME NEW q \in plugins
        PROVE  /\ info'[q].found = info[q].found
               /\ Begun(q) => Begun(q)'
    <3>1. CASE InfoActivate(p)
      BY <1>1, <1>9, <3>1, InfoActivateEffect DEF Begun
    <3>2. CASE UNCHANGED info
      BY <3>2 DEF Begun
    <3>3. QED
      BY <1>9, <3>1, <3>2 DEF MaybeActivate
  <2>3. Wanted(job.flag, p) => Begun(p)'
    <3>1. CASE info[p].enabled /\ Wanted(job.flag, p)
      BY <1>9, <3>1, InfoActivateEffect DEF MaybeActivate, Begun
    <3>2. CASE ~info[p].enabled
      BY <1>9, <3>2 DEF MaybeActivate, Begun
    <3>3. QED
      BY <3>1, <3>2
  <2>4. \A q : InInitGroup(q)' <=> InInitGroup(q)
    BY DEF InInitGroup, Priority
  <2>5. /\ job.flag = INIT => (InInitGroup(p) => Begun(p)')
        /\ job.flag = DEFER => (~InInitGroup(p) => Begun(p)')
    BY <2>3 DEF Wanted
  <2>6. /\ main' \in {"init", "register", "defer"} =>
             \A q \in plugins' : info'[q].found \in {INIT, DEFER}
        /\ main' = "init" => \A q \in plugins' \ job'.todo : InInitGroup(q)' => Begun(q)'
    BY <2>1, <2>2, <2>4, <2>5 DEF OrderInv
  <2>7. /\ main' \in {"register", "defer"} =>
             \A q \in plugins' : InInitGroup(q)' /\ info'[q].found = INIT => Begun(q)'
        /\ main' = "defer" => \A q \in plugins' \ job'.todo : ~InInitGroup(q)' => Begun(q)'
    BY <2>1, <2>2, <2>4, <2>5 DEF OrderInv
  <2>8. QED
    BY <2>1, <2>6, <2>7 DEF OrderInv
<1>10. ASSUME NEW p \in Plugin, UnloadPlugin(p)
       PROVE  OrderInv'
  <2>1. job.op = "unload" /\ main' = main
    BY <1>10 DEF UnloadPlugin
  <2>2. QED
    BY <2>1, OrderOver DEF Starting, OrderInv
<1>11. ASSUME NEW p \in Plugin, PluginEnabledCb(p)
       PROVE  OrderInv'
  BY <1>11, OrderOver DEF PluginEnabledCb, Dispatching, Starting
<1>12. CASE Awake \/ DBusStart \/ OnSessionEnd
  BY <1>12, OrderOver DEF Awake, DBusStart, OnSessionEnd, Dispatching, Starting
<1>13. CASE DisposeManager \/ EndUnload
  BY <1>13, OrderOver DEF DisposeManager, EndUnload, Starting
<1>14. CASE OnTermSignalPipeClosed \/ BusMessage \/ ConfirmAnswered
  BY <1>14, OrderOver
  DEF OnTermSignalPipeClosed, BusMessage, ConfirmAnswered, Quit, Dispatching, Starting
<1>15. ASSUME NEW kind, OpenNested(kind) \/ LoopReturns(kind)
       PROVE  OrderInv'
  BY <1>15, OrderOver DEF OpenNested, LoopReturns, Dispatching, Starting
<1>16. ASSUME NEW p \in Plugin, ToggleSetting(p) \/ InstallFile(p)
       PROVE  OrderInv'
  BY <1>16, OrderUntouched DEF ToggleSetting, InstallFile
<1>17. CASE RaiseTerm
  BY <1>17, OrderUntouched, OrderOver DEF RaiseTerm, Starting
<1>18. QED
  BY <1>2, <1>3, <1>4, <1>5, <1>6, <1>7, <1>8, <1>9, <1>10, <1>11, <1>12, <1>13, <1>14,
     <1>15, <1>16, <1>17 DEF Next

(* While main() starts plugins, one is activated only after every enabled  *)
(* plugin of a lower number, in both phases and across them, but for those *)
(* whose file appeared between the phases.                                 *)
THEOREM StartupOrderAlways == Spec => StartupOrder
<1> DEFINE Before(p) ==
             \A q \in plugins :
               /\ Priority(q) < Priority(p) /\ info[q].enabled
               /\ info[q].found = DEFER => ~InInitGroup(q)
               => info[q].active \/ ~info[q].available
<1> DEFINE Step == \A p \in Plugin :
             main \in {"init", "defer"} /\ ~info[p].active /\ info'[p].active => Before(p)
<1>1. ASSUME IInv, OrderInv, [Next]_vars
      PROVE  [Step]_vars
  <2> SUFFICES ASSUME Next, NEW p \in Plugin, main \in {"init", "defer"},
                      ~info[p].active, info'[p].active
               PROVE  Before(p)
    BY <1>1
  <2>1. /\ info \in [Plugin -> Info] /\ plugins \in SUBSET Plugin /\ files \in SUBSET Plugin
        /\ job.todo \subseteq plugins
    BY <1>1 DEF IInv, TypeOK
  <2>2. ASSUME NEW flag, BeginLoad(flag)
        PROVE  FALSE
    BY <2>1, <2>2 DEF BeginLoad, NewInfo
  <2>3. ASSUME NEW r \in Plugin, MaybeActivate(r)
        PROVE  Before(p)
    <3>1. /\ r = p /\ Wanted(job.flag, p) /\ p \in job.todo /\ job.op = "load"
          /\ \A q \in job.todo : Priority(p) <= Priority(q)
      BY <1>1, <2>1, <2>3, InfoActivateEffect DEF MaybeActivate, FirstOf
    <3>2. ASSUME NEW q \in plugins, Priority(q) < Priority(p), info[q].enabled,
                 info[q].found = DEFER => ~InInitGroup(q)
          PROVE  info[q].active \/ ~info[q].available
      <4>1. Priority(q) \in Int /\ Priority(p) \in Int /\ InitLoadPriority \in Int
        BY <2>1, PluginManagerAssumption DEF Priority, PLUGIN_PRIORITY_DEFAULT
      <4>2. q \notin job.todo
        BY <3>1, <3>2, <4>1
      <4>3. InInitGroup(p) => InInitGroup(q)
        BY <3>2, <4>1 DEF InInitGroup
      <4>4. CASE main = "init"
        <5>1. job.flag = INIT
          BY <1>1, <3>1, <4>4 DEF OrderInv
        <5>2. InInitGroup(q)
          BY <3>1, <4>3, <5>1 DEF Wanted, ALL, INIT, DEFER
        <5>3. QED
          BY <1>1, <3>2, <4>2, <4>4, <5>2 DEF OrderInv, Begun
      <4>5. CASE main = "defer"
        <5>1. CASE InInitGroup(q)
          BY <1>1, <3>2, <4>5, <5>1 DEF OrderInv, Begun
        <5>2. CASE ~InInitGroup(q)
          BY <1>1, <3>1, <3>2, <4>2, <4>5, <5>2 DEF OrderInv, Begun
        <5>3. QED
          BY <5>1, <5>2
      <4>6. QED
        BY <4>4, <4>5
    <3>3. QED
      BY <3>2
  <2>4. CASE UNCHANGED info
    BY <2>4
  <2>5. ASSUME NEW r \in Plugin, UnloadPlugin(r)
        PROVE  FALSE
    BY <1>1, <2>5 DEF UnloadPlugin, OrderInv
  <2>6. QED
    BY <2>2, <2>3, <2>4, <2>5
    DEF Next, BusRegister, StartInit, StartDefer, StartPhase, SkipPhase, EndLoad,
        SetSessionOverHandler, DisposeManager, EndUnload, PluginEnabledCb, Awake, DBusStart,
        OnSessionEnd, OnTermSignalPipeClosed, BusMessage, OpenNested, ConfirmAnswered,
        LoopReturns, ToggleSetting, InstallFile, RaiseTerm, Quit, Dispatching
<1>2. Init => OrderInv
  BY DEF Init, NoJob, OrderInv
<1>3. QED
  BY InitInv, NextInv, OrderStep, <1>1, <1>2, PTL DEF Spec, StartupOrder

=============================================================================
