------------------------------ MODULE DiskSpace -----------------------------
(***************************************************************************)
(* The low disk space monitor of the housekeeping plugin                   *)
(* (plugins/housekeeping/csd_disk-space.c).  It checks the volumes of      *)
(* /etc/fstab every minute and when a volume is mounted or unmounted.  A   *)
(* warning runs a main loop of its own, in which everything else may       *)
(* happen, and the check goes on with what it had seen before.             *)
(***************************************************************************)
EXTENDS Integers, Sequences, FiniteSetsExt

CONSTANTS
  Fstab,     \* the volumes, in the order of /etc/fstab
  NoWarning, \* stands for no warning
  MaxStarts, \* bound on the starts of the plugin
  MaxChanges \* bound on the starts and the changes of volumes and settings

VARIABLES
  on, begun, \* activated; starts so far
  mounted,   \* volumes that are
  free,      \* how much is free on each: Enough, or less
  ignored,   \* volumes in the settings' ignore-paths
  unread,    \* a change of it is yet to be signalled
  moved,     \* "mounts-changed" is yet to be signalled
  hash,      \* ldsm_notified_hash is there
  notified,  \* its entries: how much was free, and whether the least period between warnings is over
  monitor,   \* ldsm_monitor is there
  hasopts,   \* settings is there
  paths,     \* ignore_paths, which stays when its elements are freed
  timer,     \* ldsm_timeout_id is there
  warning,   \* dialog: the rest of the list, by place in fstab, who checks, and whether it is up to date
  blocked,   \* the timer's own check goes on, for which it does not fire
  checked,   \* history: the last check went through, and nothing changed since
  told,      \* history: volumes with a warning since they have an entry
  hidden,    \* history: volumes with an entry made while another's warning was shown
  outdated,  \* history: volumes with an entry made of a list that was out of date
  astray,    \* history: a timer was set after a stop, or the paths were freed twice
  changes    \* number of changes so far

world == <<mounted, free, ignored, unread, moved>>
parts == <<hash, monitor, hasopts, paths, timer>>

past == <<checked, told, hidden, outdated>>

vars == <<on, begun, world, parts, notified, warning, blocked, past, astray, changes>>

Volume == {Fstab[i] : i \in DOMAIN Fstab}
Enough == 2
None == [free |-> Enough, due |-> TRUE] \* no entry: any that is full has less

Recorded == {v \in Volume : notified[v] # None}

Init ==
  /\ on = FALSE /\ begun = 0
  /\ mounted = Volume /\ free \in [Volume -> {1, Enough}] /\ ignored \in SUBSET Volume
  /\ unread = FALSE /\ moved = FALSE
  /\ hash = FALSE /\ notified = [v \in Volume |-> None]
  /\ monitor = FALSE /\ hasopts = FALSE /\ paths = {} /\ timer = FALSE
  /\ warning = NoWarning /\ blocked = FALSE
  /\ checked = FALSE /\ told = {} /\ hidden = {} /\ outdated = {} /\ astray = FALSE
  /\ changes = 0

-----------------------------------------------------------------------------
(* ldsm_maybe_warn_mounts, ldsm_notify_for_mount: the entries of the list  *)
(* are made up to the first volume to warn of.  If a warning is shown      *)
(* already there is no other, and the rest of the list is left out.        *)
MaybeWarn(list, entries, busy, by, current) ==
  LET Dropped(i) == entries[list[i].of].free > list[i].free
      shows == {i \in DOMAIN list : Dropped(i) /\ entries[list[i].of].due}
      made  == {i \in DOMAIN list : \A j \in shows : i <= j}
      Noted(i) == [free |-> list[i].free, due |-> entries[list[i].of].due /\ i \notin shows]
      kept == {v \in Volume : entries[v] # None}
      new == {list[i].of : i \in made \cap shows}
  IN /\ notified' = [v \in Volume |->
           IF \E i \in made : hash /\ list[i].of = v /\ Dropped(i)
             THEN Noted(CHOOSE i \in made : list[i].of = v)
             ELSE entries[v]]
     /\ told' = IF busy THEN (told \cap kept) \ new ELSE (told \cap kept) \cup new
     /\ hidden' = IF busy THEN (hidden \cap kept) \cup new ELSE (hidden \cap kept) \ new
     /\ outdated' = (outdated \cap kept) \cup (IF current THEN {} ELSE {list[i].of : i \in made})
     /\ checked' = (hash /\ shows = {} /\ current)
     /\ warning' = IF busy THEN warning
                   ELSE IF shows = {} THEN NoWarning
                   ELSE [rest |-> [i \in DOMAIN list \ made |-> list[i]], by |-> by, current |-> current]

(* The volumes a check looks at (ldsm_mount_should_ignore), and the full   *)
(* ones of those (ldsm_mount_has_space)                                    *)
Looked == mounted \ paths
Full == {v \in Looked : free[v] < Enough}
FullList == [i \in {j \in DOMAIN Fstab : Fstab[j] \in Full} |-> [of |-> Fstab[i], free |-> free[Fstab[i]]]]

(* Mutant: a volume that has space again keeps its entry.                  *)
CheckAllMountsKeeping(entries, by) == MaybeWarn(FullList, entries, warning # NoWarning, by, TRUE)

(* ldsm_check_all_mounts                                                   *)
CheckAllMounts(entries, by) ==
  MaybeWarn(FullList, [v \in Volume |-> IF v \in Looked \ Full THEN None ELSE entries[v]],
            warning # NoWarning, by, TRUE)

(* csd_ldsm_setup, csd_ldsm_get_config: a timer that was left behind is    *)
(* taken for a monitor; the paths of a stopped one are freed again.        *)
Start ==
  /\ ~on /\ begun < MaxStarts
  /\ on' = TRUE
  /\ begun' = begun + 1
  /\ IF hash \/ timer \/ monitor
       THEN UNCHANGED <<parts, astray>>
       ELSE /\ hash' = TRUE /\ monitor' = TRUE /\ hasopts' = TRUE /\ timer' = TRUE
            /\ astray' = (astray \/ paths # {})
            /\ paths' = ignored
  /\ UNCHANGED <<world, notified, warning, blocked, past, changes>>

(* The timer goes off.                                                     *)
Tick ==
  /\ timer /\ ~blocked
  /\ CheckAllMounts(notified, "timer")
  /\ blocked' = (warning = NoWarning /\ warning' # NoWarning)
  /\ UNCHANGED <<on, begun, world, parts, astray, changes>>

(* ldsm_mounts_changed: when the check is over the timer starts over.      *)
MountsChanged ==
  /\ moved
  /\ moved' = FALSE
  /\ CheckAllMounts([v \in Volume |-> IF v \in mounted THEN notified[v] ELSE None], "mounts")
  /\ IF warning = NoWarning /\ warning' # NoWarning
       THEN UNCHANGED <<timer, blocked>>
       ELSE timer' = TRUE /\ blocked' = FALSE
  /\ UNCHANGED <<on, begun, mounted, free, ignored, unread, hash, monitor, hasopts, paths, astray, changes>>

(* What follows the last warning of a check                                *)
CheckIsOver ==
  /\ timer' = (timer \/ warning.by = "mounts")
  /\ blocked' = (blocked /\ warning.by = "mounts")

(* ldsm_notify_for_mount: the user only closes the warning, or looks at    *)
(* what is on the volume, and the check goes on.                           *)
Dismiss ==
  /\ warning # NoWarning
  /\ MaybeWarn(warning.rest, notified, FALSE, warning.by, warning.current)
  /\ IF warning' = NoWarning THEN CheckIsOver ELSE UNCHANGED <<timer, blocked>>
  /\ UNCHANGED <<on, begun, world, hash, monitor, hasopts, paths, astray, changes>>

(* The user empties the trash, or the dialog is closed: the check is over. *)
Act ==
  /\ warning # NoWarning
  /\ warning' = NoWarning
  /\ CheckIsOver
  /\ UNCHANGED <<on, begun, world, hash, monitor, hasopts, paths, notified, past, astray, changes>>

(* csd_ldsm_update_config, csd_ldsm_get_config                             *)
UpdateConfig ==
  /\ unread
  /\ unread' = FALSE
  /\ paths' = ignored
  /\ notified' = [v \in Volume |-> IF v \in ignored THEN None ELSE notified[v]]
  /\ told' = told \ ignored /\ hidden' = hidden \ ignored /\ outdated' = outdated \ ignored
  /\ checked' = FALSE
  /\ warning' = IF warning = NoWarning THEN NoWarning ELSE [warning EXCEPT !.current = FALSE]
  /\ UNCHANGED <<on, begun, mounted, free, ignored, moved, hash, monitor, hasopts, timer, blocked, astray, changes>>

(* Mutant: the dialog is not destroyed.                                    *)
CleanLeavingDialog ==
  /\ on
  /\ on' = FALSE
  /\ hash' = FALSE /\ notified' = [v \in Volume |-> None]
  /\ monitor' = FALSE /\ moved' = FALSE
  /\ hasopts' = FALSE /\ unread' = FALSE
  /\ timer' = FALSE
  /\ UNCHANGED <<begun, mounted, free, ignored, paths, warning, blocked, past, astray, changes>>

(* csd_ldsm_clean: with the dialog its main loop ends, and with it a check *)
(* that was going on; if "mounts-changed" made it the timer is set again.  *)
Clean ==
  /\ on
  /\ on' = FALSE
  /\ hash' = FALSE /\ notified' = [v \in Volume |-> None]
  /\ monitor' = FALSE /\ moved' = FALSE
  /\ hasopts' = FALSE /\ unread' = FALSE
  /\ warning' = NoWarning /\ blocked' = FALSE
  /\ timer' = (warning # NoWarning /\ warning.by = "mounts")
  /\ astray' = (astray \/ timer')
  /\ checked' = FALSE /\ told' = {} /\ hidden' = {} /\ outdated' = {}
  /\ UNCHANGED <<begun, mounted, free, ignored, paths, changes>>

(* The least period between warnings of a volume is over.                  *)
PeriodIsOver(v) ==
  /\ v \in Recorded
  /\ notified' = [notified EXCEPT ![v].due = TRUE]
  /\ UNCHANGED <<on, begun, world, parts, warning, blocked, past, astray, changes>>

Changing ==
  /\ begun > 0 /\ begun + changes < MaxChanges
  /\ changes' = changes + 1
  /\ checked' = FALSE
  /\ warning' = IF warning = NoWarning THEN NoWarning ELSE [warning EXCEPT !.current = FALSE]
  /\ UNCHANGED <<on, begun, parts, notified, blocked, told, hidden, outdated, astray>>

(* A volume is mounted or unmounted.                                       *)
Move(v) ==
  /\ Changing
  /\ mounted' = IF v \in mounted THEN mounted \ {v} ELSE mounted \cup {v}
  /\ moved' = monitor
  /\ UNCHANGED <<free, ignored, unread>>

(* Files are written to a volume, or removed.                              *)
ChangeFree(v) ==
  /\ Changing
  /\ \E f \in 0..Enough : free' = [free EXCEPT ![v] = f]
  /\ UNCHANGED <<mounted, ignored, unread, moved>>

(* The user wants no warning of a volume, or does (csd_ldsm-dialog.c,      *)
(* ignore_check_button_toggled_cb, or the settings)                        *)
ToggleIgnored(v) ==
  /\ Changing
  /\ ignored' = IF v \in ignored THEN ignored \ {v} ELSE ignored \cup {v}
  /\ unread' = hasopts
  /\ UNCHANGED <<mounted, free, moved>>

Next ==
  \/ Start \/ Tick \/ MountsChanged \/ Dismiss \/ Act \/ UpdateConfig \/ Clean
  \/ \E v \in Volume : PeriodIsOver(v) \/ Move(v) \/ ChangeFree(v) \/ ToggleIgnored(v)

Spec == Init /\ [][Next]_vars

-----------------------------------------------------------------------------
(* What the monitor holds.                                                 *)
Held == (IF hash THEN {"entries"} ELSE {}) \cup (IF monitor THEN {"monitor"} ELSE {})
        \cup (IF hasopts THEN {"settings"} ELSE {}) \cup (IF timer THEN {"timer"} ELSE {})
        \cup (IF warning # NoWarning THEN {"dialog"} ELSE {})

(* A stopped monitor has no table, no settings and nothing it is yet to be *)
(* told, and no timer and no dialog until it went astray.                  *)
LetGo ==
  ~on => /\ ~moved /\ ~unread /\ ~hash /\ ~monitor /\ ~hasopts
         /\ ~astray => ~timer /\ warning = NoWarning

(* From here on nothing is promised any more.                              *)
Astray == astray

(* Once a check went through, and nothing changed since that is yet to be  *)
(* dealt with, the volumes that are known to be full are those that are,   *)
(* but for those a check that had waited for the user took for full.       *)
FullAreKnown == checked /\ ~moved => Full \subseteq Recorded /\ Recorded \subseteq Full \cup outdated

(* The user was warned of each, but for those found full while the warning *)
(* of another was shown, of which there is none until they fill further.   *)
KnownAreTold == Recorded \subseteq told \cup hidden

(* Until a timer goes astray, whatever is checked while a warning is shown *)
(* the monitor is whole while the plugin is active.                        *)
MonitorIsWhole == on /\ ~astray => hash /\ monitor /\ hasopts /\ timer

(* An entry says that less than enough was free, and so does what is left  *)
(* of a list.                                                              *)
EntriesAreOfFull ==
  /\ free \in [Volume -> 0..Enough]
  /\ notified \in [Volume -> [free : 0..(Enough - 1), due : BOOLEAN] \cup {None}]
  /\ warning # NoWarning =>
       /\ warning = [rest |-> warning.rest, by |-> warning.by, current |-> warning.current]
       /\ \A i \in DOMAIN warning.rest : warning.rest[i] \in [of : Volume, free : 0..(Enough - 1)]

(* There are entries only in the table, and a check goes through only with *)
(* it.                                                                     *)
TableHasEntries == (~hash => Recorded = {} /\ ~checked) /\ (hash => monitor)

(* A stopped monitor shows a warning only with a timer that went astray.   *)
WarningHasTimer == ~on /\ warning # NoWarning => timer

(* What has an entry and is not outdated is looked at, but for volumes     *)
(* that were just unmounted.                                               *)
EntriesAreLookedAt ==
  \A v \in Recorded \ outdated : v \notin paths /\ (moved \/ v \in mounted)

(* What is left of a list that is up to date are volumes that are full.    *)
UpToDate == warning # NoWarning /\ warning.current
RestIsFull ==
  UpToDate => \A i \in DOMAIN warning.rest :
                LET entry == warning.rest[i] IN entry.of \in Full /\ entry.free = free[entry.of]

(* Once a check went through, or while it goes on and is up to date, what  *)
(* has an entry is full; and each full volume has one, or is left to it.   *)
CheckGoesThrough ==
  checked \/ UpToDate =>
    /\ \A v \in Recorded \ outdated : v \in mounted => v \in Full
    /\ hash => \A v \in Full : \/ v \in Recorded
                               \/ ~checked /\ \E i \in DOMAIN warning.rest : warning.rest[i].of = v

=============================================================================
