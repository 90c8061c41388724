--------------------------- MODULE RfkillManager ---------------------------
(***************************************************************************)
(* The rfkill plugin's manager (plugins/rfkill/csd_rfkill-manager.c) with  *)
(* its CcRfkillGlib object (module Rfkill) and the kernel behind the       *)
(* device.                                                                 *)
(*                                                                         *)
(* The kernel queues an event for each open file when a switch comes, goes *)
(* or changes.  The manager keeps a table of the switches from these       *)
(* events, two facts about the modem from NetworkManager and ModemManager, *)
(* and announces on D-Bus what they amount to.  One life of the plugin is  *)
(* modelled, from start to stop.                                           *)
(***************************************************************************)
EXTENDS Rfkill, Sequences, SequencesExt

CONSTANTS
  Switch,     \* the kernel's index of each switch
  BtSwitch,   \* those of Bluetooth devices
  MaxChanges  \* bound: changes of the environment

ASSUME RfkillManagerAssumption ==
  /\ BtSwitch \subseteq Switch
  /\ IsFiniteSet(Switch)
  /\ MaxChanges \in Nat

Unblocked   == "RFKILL_STATE_UNBLOCKED"
SoftBlocked == "RFKILL_STATE_SOFT_BLOCKED"
HardBlocked == "RFKILL_STATE_HARD_BLOCKED"
Absent      == "absent"

(* A switch of the kernel, and the event that tells of it.                 *)
Gone        == [present |-> FALSE, soft |-> FALSE, hard |-> FALSE]
SwitchState == {Gone} \cup [present : {TRUE}, soft : BOOLEAN, hard : BOOLEAN]
RfkillEvent == [op : {"ADD", "DEL", "CHANGE"}, idx : Switch,
                soft : BOOLEAN, hard : BOOLEAN]

VARIABLES
  kernel,            \* the state of each switch
  queue,             \* events that our open file has not read yet
  manager,           \* "off", "opening", "on", "no device" or "stopped"
  initial,           \* the events that cc_rfkill_glib_open has collected
  missed,            \* history: switches whose events it threw away
  killswitches,      \* priv->killswitches
  connection,        \* priv->connection # NULL
  nm_client,         \* priv->nm_client # NULL
  mm_client,         \* priv->mm_client # NULL
  wwan_enabled,
  wwan_interesting,
  modems,            \* ModemManager has objects
  announced,         \* history: the properties last announced
  changes            \* how many changes the environment made

mvars == <<kernel, queue, manager, initial, missed, killswitches, connection,
           nm_client, mm_client, wwan_enabled, wwan_interesting, modems,
           announced, changes>>

vars == <<rvars, mvars>>

-----------------------------------------------------------------------------
(* What the manager makes of its tables.                                   *)

(* The bt_killswitches get the same insertions and removals for events of  *)
(* Bluetooth switches, and a switch never changes its type.                *)
Known(table, S) == {s \in S : table[s] # Absent}

(* engine_get_airplane_mode_helper and its Bluetooth twin                  *)
AllBlocked(table, S) ==
  /\ Known(table, S) # {}
  /\ \A s \in Known(table, S) : table[s] # Unblocked

(* engine_get_hardware_airplane_mode and its Bluetooth twin                *)
AllHardBlocked(table, S) ==
  /\ Known(table, S) # {}
  /\ \A s \in Known(table, S) : table[s] = HardBlocked

(* The values of engine_properties_changed; ShouldShowAirplaneMode is      *)
(* fixed by the machine's chassis.                                         *)
Properties(table, enabled, interesting) ==
  [AirplaneMode          |-> AllBlocked(table, Switch) /\ (interesting => ~enabled),
   HardwareAirplaneMode  |-> AllHardBlocked(table, Switch),
   HasAirplaneMode       |-> Known(table, Switch) # {} \/ interesting,
   BluetoothAirplaneMode |-> AllBlocked(table, BtSwitch),
   BluetoothHardwareAirplaneMode |-> AllHardBlocked(table, BtSwitch),
   BluetoothHasAirplaneMode      |-> Known(table, BtSwitch) # {}]

NotAnnounced == [AirplaneMode |-> "never announced"]

(* engine_properties_changed, called when the tables have their new values *)
PropertiesChanged ==
  announced' = IF connection
                 THEN Properties(killswitches', wwan_enabled', wwan_interesting')
                 ELSE announced

(* The state of the switch that an event carries, as rfkill_changed files  *)
(* it.                                                                     *)
Value(e) ==
  CASE e.op = "DEL" -> Absent
    [] e.op # "DEL" /\ e.hard -> HardBlocked
    [] e.op # "DEL" /\ ~e.hard /\ e.soft -> SoftBlocked
    [] OTHER -> Unblocked

(* The last of the events that tell of a switch.                           *)
IsLast(events, s, i) ==
  /\ i \in DOMAIN events /\ events[i].idx = s
  /\ \A j \in DOMAIN events : j > i => events[j].idx # s

TellsOf(events, s) == \E i \in DOMAIN events : events[i].idx = s

(* Mutant: the list of events is not reversed after the prepends, so that  *)
(* the first of them is filed last.                                        *)
IsFirst(events, s, i) ==
  /\ i \in DOMAIN events /\ events[i].idx = s
  /\ \A j \in DOMAIN events : j < i => events[j].idx # s

FiledReversed(table, events) ==
  [s \in Switch |->
     IF TellsOf(events, s)
       THEN Value(events[CHOOSE i \in DOMAIN events : IsFirst(events, s, i)])
       ELSE table[s]]

(* The loop of rfkill_changed files the events in their order: of those    *)
(* that tell of one switch the last one counts.                            *)
Filed(table, events) ==
  [s \in Switch |->
     IF TellsOf(events, s)
       THEN Value(events[CHOOSE i \in DOMAIN events : IsLast(events, s, i)])
       ELSE table[s]]

(* rfkill_changed, connected to the object's signal "changed": after the   *)
(* manager was stopped its tables are NULL, which GLib only warns of.      *)
RfkillChanged(events) ==
  /\ killswitches' = IF manager = "stopped" THEN killswitches
                     ELSE Filed(killswitches, events)
  /\ UNCHANGED <<wwan_enabled, wwan_interesting>>
  /\ PropertiesChanged

-----------------------------------------------------------------------------
(* The kernel.                                                             *)
EventOf(op, s, state) ==
  [op |-> op, idx |-> s, soft |-> state.soft, hard |-> state.hard]

Opened == manager \in {"opening", "on"} \/ (manager = "stopped" /\ Alive)

ManagerInit ==
  /\ kernel \in [Switch -> {Gone, [present |-> TRUE, soft |-> FALSE, hard |-> FALSE],
                            [present |-> TRUE, soft |-> TRUE, hard |-> FALSE]}]
  /\ queue = <<>>
  /\ manager = "off"
  /\ initial = <<>>
  /\ missed = {}
  /\ killswitches = [s \in Switch |-> Absent]
  /\ connection = FALSE
  /\ nm_client = FALSE
  /\ mm_client = FALSE
  /\ wwan_enabled = FALSE
  /\ wwan_interesting = FALSE
  /\ modems \in BOOLEAN
  /\ announced = NotAnnounced
  /\ changes = 0

Init == RfkillInit /\ ManagerInit

(* A device is plugged in or out, or a button or another program blocks or *)
(* unblocks a switch.                                                      *)
KernelChanges(s, state) ==
  /\ fault = "none"
  /\ changes < MaxChanges
  /\ state # kernel[s]
  /\ changes' = changes + 1
  /\ kernel' = [kernel EXCEPT ![s] = state]
  /\ LET op == IF ~state.present THEN "DEL"
               ELSE IF kernel[s].present THEN "CHANGE" ELSE "ADD"
     IN queue' = IF Opened THEN Append(queue, EventOf(op, s, state)) ELSE queue
  /\ UNCHANGED <<rvars, manager, initial, missed, killswitches, connection,
                 nm_client, mm_client, wwan_enabled, wwan_interesting, modems,
                 announced>>

(* What the kernel does with a CHANGE_ALL event that it takes: an event    *)
(* for each switch that it really changes, after those not yet read.       *)
Obeys(e, unread) ==
  LET changed == {s \in IF e.type = Bluetooth THEN BtSwitch ELSE Switch :
                    kernel[s].present /\ kernel[s].soft # e.soft}
  IN /\ kernel' = [s \in Switch |->
                     IF s \in changed THEN [kernel[s] EXCEPT !.soft = e.soft]
                     ELSE kernel[s]]
     /\ queue' = unread \o [i \in 1..Cardinality(changed) |->
                    LET s == SetToSeq(changed)[i] IN EventOf("CHANGE", s, kernel'[s])]

(* The kernel's part in a step in which the object may have written "e".   *)
KernelTakes(e, unread) ==
  IF stream' # stream /\ stream'.taken THEN Obeys(e, unread)
  ELSE kernel' = kernel /\ queue' = unread

-----------------------------------------------------------------------------
(* csd_rfkill_manager_start                                                *)

Started == manager \in {"on", "no device"}

(* cc_rfkill_glib_open fails, which nobody looks at: requests are only     *)
(* warned of then, and no event comes.                                     *)
StartWithoutDevice ==
  /\ manager = "off"
  /\ manager' = "no device"
  /\ UNCHANGED <<rvars, kernel, queue, initial, missed, killswitches, connection,
                 nm_client, mm_client, wwan_enabled, wwan_interesting, modems,
                 announced, changes>>

(* cc_rfkill_glib_open: the kernel queues an ADD event for each switch.    *)
Start ==
  /\ manager = "off"
  /\ manager' = "opening"
  /\ LET present == {s \in Switch : kernel[s].present}
     IN queue' = [i \in 1..Cardinality(present) |->
                    LET s == SetToSeq(present)[i] IN EventOf("ADD", s, kernel[s])]
  /\ UNCHANGED <<rvars, kernel, initial, missed, killswitches, connection, nm_client,
                 mm_client, wwan_enabled, wwan_interesting, modems, announced,
                 changes>>

(* Its loop reads one event after the other and keeps the ADD events.      *)
OpenRead ==
  /\ manager = "opening"
  /\ queue # <<>>
  /\ LET e == Head(queue) IN
       /\ initial' = IF e.op = "ADD" THEN Append(initial, e) ELSE initial
       /\ missed' = IF e.op = "ADD" THEN missed \ {e.idx} ELSE missed \cup {e.idx}
  /\ queue' = Tail(queue)
  /\ UNCHANGED <<rvars, kernel, manager, killswitches, connection, nm_client,
                 mm_client, wwan_enabled, wwan_interesting, modems, announced,
                 changes>>

(* Reading would block: the events kept go out as one signal, before the   *)
(* manager can be asked for anything.                                      *)
OpenDone ==
  /\ manager = "opening"
  /\ queue = <<>>
  /\ manager' = "on"
  /\ initial' = <<>>
  /\ RfkillChanged(initial)
  /\ UNCHANGED <<rvars, kernel, queue, missed, connection, nm_client, mm_client,
                 modems, changes>>

-----------------------------------------------------------------------------
(* The manager's handlers, and the object's with their effect on it.       *)

(* event_cb reads all there is and signals it; the object looks for a      *)
(* CHANGE event among them.                                                *)
EventsRead ==
  /\ Opened /\ manager # "opening"
  /\ queue # <<>>
  /\ EventCb(\E i \in DOMAIN queue : queue[i].op = "CHANGE")
  /\ RfkillChanged(queue)
  /\ missed' = missed \ {queue[i].idx : i \in DOMAIN queue}
  /\ KernelTakes(event, <<>>)
  /\ UNCHANGED <<manager, initial, connection, nm_client, mm_client, modems,
                 changes>>

(* handle_set_property: engine_set_airplane_mode, which also asks          *)
(* NetworkManager, or engine_set_bluetooth_airplane_mode.                  *)
SetAirplaneMode(t, type, enable) ==
  /\ manager = "on" /\ connection
  /\ SendChangeAll(t, type, enable)
  /\ KernelTakes(event', queue)
  /\ UNCHANGED <<manager, initial, missed, killswitches, connection, nm_client,
                 mm_client, wwan_enabled, wwan_interesting, modems, announced,
                 changes>>

ObjectCallback ==
  /\ WriteChangeAllDone \/ WriteRefused \/ WriteChangeAllAgainDone
     \/ WriteChangeAllTimeout
  /\ UNCHANGED mvars

(* on_bus_gotten; the answers to what csd_rfkill_manager_start asked for   *)
(* come as errors once the manager was stopped, and change nothing.        *)
OnBusGotten ==
  /\ fault = "none"
  /\ Started /\ ~connection
  /\ connection' = TRUE
  /\ UNCHANGED <<rvars, kernel, queue, manager, initial, missed, killswitches,
                 nm_client, mm_client, wwan_enabled, wwan_interesting, modems,
                 announced, changes>>

(* sync_wwan_enabled, with a value of the property                         *)
SyncWwanEnabled(v) ==
  /\ wwan_enabled' = v
  /\ UNCHANGED <<killswitches, wwan_interesting>>
  /\ PropertiesChanged

(* on_nm_proxy_gotten: without NetworkManager the property has no value.   *)
OnNmProxyGotten ==
  /\ fault = "none"
  /\ Started /\ ~nm_client
  /\ nm_client' = TRUE
  /\ \/ \E v \in BOOLEAN : SyncWwanEnabled(v)
     \/ UNCHANGED <<killswitches, wwan_enabled, wwan_interesting, announced>>
  /\ UNCHANGED <<rvars, kernel, queue, manager, initial, missed, connection,
                 mm_client, modems, changes>>

(* nm_signal with a new value; others are left out.                        *)
NmSignal ==
  /\ fault = "none"
  /\ Started /\ nm_client
  /\ changes < MaxChanges
  /\ changes' = changes + 1
  /\ SyncWwanEnabled(~wwan_enabled)
  /\ UNCHANGED <<rvars, kernel, queue, manager, initial, missed, connection,
                 nm_client, mm_client, modems>>

(* Mutant: a change of the modems is not announced.                        *)
SyncWithoutAnnouncing ==
  /\ wwan_interesting' = modems'
  /\ UNCHANGED <<killswitches, wwan_enabled, announced>>

(* sync_wwan_interesting                                                   *)
SyncWwanInteresting ==
  /\ wwan_interesting' = modems'
  /\ UNCHANGED <<killswitches, wwan_enabled>>
  /\ PropertiesChanged

OnMmProxyGotten ==
  /\ fault = "none"
  /\ Started /\ ~mm_client
  /\ mm_client' = TRUE
  /\ UNCHANGED modems
  /\ SyncWwanInteresting
  /\ UNCHANGED <<rvars, kernel, queue, manager, initial, missed, connection,
                 nm_client, changes>>

(* ModemManager's first object comes or its last one goes, whole, of which *)
(* the plugin is not told; or an object that is there gets or loses an     *)
(* interface, of which it is ("interface-added" and "interface-removed").  *)
ModemsChange ==
  /\ fault = "none"
  /\ changes < MaxChanges
  /\ changes' = changes + 1
  /\ \/ /\ modems' = ~modems
        /\ UNCHANGED <<killswitches, wwan_enabled, wwan_interesting, announced>>
     \/ /\ modems /\ mm_client
        /\ UNCHANGED modems
        /\ SyncWwanInteresting
  /\ UNCHANGED <<rvars, kernel, queue, manager, initial, missed, connection,
                 nm_client, mm_client>>

(* csd_rfkill_manager_stop: the object may outlive it, and its open file.  *)
Stop ==
  /\ Started
  /\ manager' = "stopped"
  /\ DropObject
  /\ connection' = FALSE
  /\ killswitches' = [s \in Switch |-> Absent]
  /\ nm_client' = FALSE /\ mm_client' = FALSE
  /\ wwan_enabled' = FALSE /\ wwan_interesting' = FALSE
  /\ queue' = IF Alive' THEN queue ELSE <<>>
  /\ UNCHANGED <<kernel, initial, missed, modems, announced, changes>>

Next ==
  \/ \E s \in Switch, state \in SwitchState : KernelChanges(s, state)
  \/ Start \/ StartWithoutDevice \/ OpenRead \/ OpenDone \/ EventsRead
  \/ \E t \in Task, type \in {Bluetooth, AllTypes}, enable \in BOOLEAN :
       SetAirplaneMode(t, type, enable)
  \/ ObjectCallback
  \/ OnBusGotten \/ OnNmProxyGotten \/ NmSignal \/ OnMmProxyGotten
  \/ ModemsChange
  \/ Stop

Spec == Init /\ [][Next]_vars

(* The main loop comes to every callback that is due.                      *)
Fairness == WF_vars(ObjectCallback) /\ WF_vars(WriteChangeAllTimeout /\ UNCHANGED mvars)

-----------------------------------------------------------------------------
(* The variables keep their types, those of the object's requests          *)
(* (RfkillTypeOK) included.                                                *)
TypeOK ==
  /\ RfkillTypeOK
  /\ kernel \in [Switch -> SwitchState]
  /\ queue \in Seq(RfkillEvent)
  /\ manager \in {"off", "opening", "on", "no device", "stopped"}
  /\ initial \in Seq(RfkillEvent)
  /\ missed \in SUBSET Switch
  /\ killswitches \in [Switch -> {Unblocked, SoftBlocked, HardBlocked, Absent}]
  /\ connection \in BOOLEAN
  /\ nm_client \in BOOLEAN /\ mm_client \in BOOLEAN
  /\ wwan_enabled \in BOOLEAN /\ wwan_interesting \in BOOLEAN
  /\ modems \in BOOLEAN
  /\ changes \in 0..MaxChanges

(* When the manager has read all events, its table tells the state of      *)
(* every switch, whatever came and went: except of those whose event       *)
(* cc_rfkill_glib_open threw away because it was no ADD.                   *)
TableMatchesKernel ==
  manager = "on" /\ queue = <<>> =>
    \A s \in Switch \ missed :
      killswitches[s] =
        Value(EventOf(IF kernel[s].present THEN "ADD" ELSE "DEL", s, kernel[s]))

(* Once the manager has announced its properties, what it announced last   *)
(* is what it would answer when asked: no handler changes what they depend *)
(* on without announcing it.                                               *)
AnnouncedIsCurrent ==
  Started /\ announced # NotAnnounced =>
    announced = Properties(killswitches, wwan_enabled, wwan_interesting)

=============================================================================
