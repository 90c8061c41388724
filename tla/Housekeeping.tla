---------------------------- MODULE Housekeeping ----------------------------
(***************************************************************************)
(* The housekeeping plugin                                                 *)
(* (plugins/housekeeping/csd_housekeeping-manager.c): it removes           *)
(* thumbnails that are old, or too many, two minutes after the start or a  *)
(* change of the limits, and every day.  A thumbnail is its age and size;  *)
(* what it starts beside that is the low disk space monitor (DiskSpace).   *)
(***************************************************************************)
EXTENDS Integers, FiniteSetsExt

CONSTANTS
  Thumbnail, \* the thumbnails there may be: records of their age and size
  Age, Size, \* what the settings maximum-age and maximum-size may be; -1 is none
  Half,      \* a size in bytes, computed as an int, is below that
  MaxStarts, \* bound on the starts of the plugin
  MaxChanges \* bound on the starts and the changes of limits and thumbnails

VARIABLES
  on, begun,       \* activated; starts so far
  maxage, maxsize, \* the settings
  cache,           \* the thumbnails
  hasopts,         \* settings is there
  unread,          \* a change of the settings is yet to be signalled
  soon, daily,     \* short_term_cb and long_term_cb are there
  applied,         \* history: the limits of the last cleanup
  added,           \* history: thumbnails were added since
  wanted,          \* history: those there were before it
  stopped,         \* history: nothing changed since the plugin was stopped
  changes          \* number of changes so far

vars == <<on, begun, maxage, maxsize, cache, hasopts, unread, soon, daily, applied, added, wanted, stopped, changes>>

Bytes(ts) == MapThenSumSet(LAMBDA t : t.size, ts)

Init ==
  /\ on = FALSE /\ begun = 0
  /\ maxage \in Age /\ maxsize \in Size
  /\ cache \in SUBSET Thumbnail
  /\ hasopts = FALSE /\ unread = FALSE /\ soon = FALSE /\ daily = FALSE
  /\ applied = <<>> /\ added = FALSE /\ wanted = {} /\ stopped = FALSE
  /\ changes = 0

-----------------------------------------------------------------------------
(* The size limit in bytes, which is computed as an int                    *)
Limit == ((maxsize + Half) % (2 * Half)) - Half

(* purge_old_thumbnails, if there is a limit of the age                    *)
Fresh == {t \in cache : maxage >= 0 => t.age <= maxage}

(* Their size, which is only added up with a limit of the age.             *)
TotalSize == IF maxage >= 0 THEN Bytes(Fresh) ELSE 0

(* Mutant: the newest are removed first.                                   *)
MayLeaveOldest(some) ==
  IF Limit < 0 \/ TotalSize <= Limit THEN some = Fresh
  ELSE /\ Bytes(some) <= Limit
       /\ \E last \in Fresh \ some :
            /\ Bytes(some \cup {last}) > Limit
            /\ \A t \in some : t.age >= last.age
            /\ \A t \in Fresh \ some : t.age <= last.age

(* purge_thumbnail_cache may leave some: the oldest are removed one by one *)
(* while they are too large together.                                      *)
MayLeave(some) ==
  IF Limit < 0 \/ TotalSize <= Limit THEN some = Fresh
  ELSE /\ Bytes(some) <= Limit
       /\ \E last \in Fresh \ some :
            /\ Bytes(some \cup {last}) > Limit
            /\ \A t \in some : t.age <= last.age
            /\ \A t \in Fresh \ some : t.age >= last.age

(* do_cleanup                                                              *)
DoCleanup ==
  /\ \E some \in SUBSET Fresh : MayLeave(some) /\ cache' = some
  /\ applied' = <<maxage, maxsize>>
  /\ added' = FALSE
  /\ wanted' = cache

Nothing == UNCHANGED <<cache, applied, added, wanted>>

(* csd_housekeeping_manager_start                                          *)
Start ==
  /\ ~on /\ begun < MaxStarts
  /\ on' = TRUE
  /\ begun' = begun + 1
  /\ hasopts' = TRUE
  /\ soon' = TRUE /\ daily' = TRUE
  /\ stopped' = FALSE
  /\ Nothing
  /\ UNCHANGED <<maxage, maxsize, unread, changes>>

(* settings_changed_callback, do_cleanup_soon: one timer is enough.        *)
SettingsChanged ==
  /\ unread
  /\ unread' = FALSE
  /\ soon' = TRUE
  /\ Nothing
  /\ UNCHANGED <<on, begun, maxage, maxsize, hasopts, daily, stopped, changes>>

(* do_cleanup_once                                                         *)
DoCleanupOnce ==
  /\ soon
  /\ DoCleanup
  /\ soon' = FALSE
  /\ UNCHANGED <<on, begun, maxage, maxsize, hasopts, unread, daily, stopped, changes>>

(* The daily timer                                                         *)
Daily ==
  /\ daily
  /\ DoCleanup
  /\ UNCHANGED <<on, begun, maxage, maxsize, hasopts, unread, soon, daily, stopped, changes>>

(* Mutant: the timers are removed before it is asked whether one is there. *)
StopTooLate ==
  /\ on
  /\ on' = FALSE
  /\ hasopts' = FALSE /\ unread' = FALSE
  /\ soon' = FALSE /\ daily' = FALSE
  /\ stopped' = TRUE
  /\ Nothing
  /\ UNCHANGED <<begun, maxage, maxsize, changes>>

(* csd_housekeeping_manager_stop: with a limit of zero it cleans up once   *)
(* more.                                                                   *)
Stop ==
  /\ on
  /\ on' = FALSE
  /\ hasopts' = FALSE /\ unread' = FALSE
  /\ soon' = FALSE /\ daily' = FALSE
  /\ stopped' = TRUE
  /\ IF daily /\ (maxage = 0 \/ maxsize = 0) THEN DoCleanup ELSE Nothing
  /\ UNCHANGED <<begun, maxage, maxsize, changes>>

Changing ==
  /\ begun > 0 /\ begun + changes < MaxChanges
  /\ changes' = changes + 1
  /\ stopped' = FALSE

(* The user changes a limit.                                               *)
ChangeLimit ==
  /\ Changing
  /\ \/ maxage' \in Age \ {maxage} /\ maxsize' = maxsize
     \/ maxsize' \in Size \ {maxsize} /\ maxage' = maxage
  /\ unread' = hasopts
  /\ UNCHANGED <<on, begun, cache, hasopts, soon, daily, applied, added, wanted>>

(* A thumbnail is made.                                                    *)
AddThumbnail(t) ==
  /\ Changing
  /\ t \notin cache
  /\ cache' = cache \cup {t}
  /\ added' = TRUE
  /\ UNCHANGED <<on, begun, maxage, maxsize, hasopts, unread, soon, daily, applied, wanted>>

Next ==
  \/ Start \/ SettingsChanged \/ DoCleanupOnce \/ Daily \/ Stop \/ ChangeLimit
  \/ \E t \in Thumbnail : AddThumbnail(t)

Spec == Init /\ [][Next]_vars

-----------------------------------------------------------------------------
(* What the plugin holds.                                                  *)
Held == (IF hasopts THEN {"settings"} ELSE {}) \cup (IF soon \/ daily THEN {"timers"} ELSE {})

(* A stopped plugin has no settings and no timers, and nothing it is yet   *)
(* to be told that would set one.                                          *)
LetGo == ~on => ~hasopts /\ ~soon /\ ~daily /\ ~unread

(* Limits that are changed are applied without waiting for the day: once   *)
(* no timer of two minutes waits the last cleanup was by those there are.  *)
LimitsAreApplied == on /\ ~soon /\ ~unread => applied = <<maxage, maxsize>>

(* A cleanup leaves what the limits allow, and removes no more than it has *)
(* to.  There is no limit of the size where none of the age is set, and    *)
(* none is as meant that is too large for an int.                          *)
CleanupIsExact ==
  applied # <<>> /\ ~added =>
    LET age == applied[1]
        size == applied[2]
        old == {t \in wanted : age >= 0 /\ t.age > age}
    IN /\ cache \subseteq wanted \ old
       /\ size \in 0..(Half - 1) /\ age >= 0 => Bytes(cache) <= size
       /\ size < 0 \/ age < 0 \/ (size < Half /\ Bytes(wanted \ old) <= size) => cache = wanted \ old
       /\ \A t \in cache, u \in (wanted \ old) \ cache : t.age <= u.age

(* With a limit of zero the plugin cleans up once more when it stops.      *)
ZeroIsApplied == stopped /\ (maxage = 0 \/ maxsize = 0) => applied = <<maxage, maxsize>> /\ ~added

(* A plugin that is activated has its settings and the daily timer.        *)
RunsDaily == on => hasopts /\ daily

=============================================================================
