--------------------------- MODULE SystemTimezone ---------------------------
(***************************************************************************)
(* Where the system keeps its timezone                                     *)
(* (plugins/datetime/system-timezone.c): in /etc/localtime, a link to the  *)
(* data of the zone or a copy of it, and by name in files that depend on   *)
(* the distribution.  The functions that find and set it, one write after  *)
(* another, and the SystemTimezone object, which watches the files.        *)
(***************************************************************************)
EXTENDS SequencesExt

CONSTANTS
  Layouts,  \* which of the files a system may have: a set of sets of keys
  MaxOthers \* bound on what other programs change

VARIABLES
  localtime, \* /etc/localtime: kind "link", "copy" or "none", the zone of its data, and the zone
             \*   whose data has the same inode number by chance, or NoZone
  config,    \* from the key of each file that is there to the zone it names
  job,       \* the setting under way: the zone and the number of writes done, or NoJob
  tz,        \* of the SystemTimezone object
  stirred,   \* a monitor of it has something to tell
  missed,    \* history: a file changed that is not watched
  others     \* number of changes so far

tzvars == <<localtime, config, job, tz, stirred, missed, others>>

NoZone == "none"
NoJob  == [zone |-> NoZone, done |-> 0]

(* Zones, by their path below the directory of zones.  The data of one is  *)
(* there twice, and the name of another has a character that is not        *)
(* expected in one.                                                        *)
Zone == {"Lima", "posix/Paris", "GMT+5"}

(* system_timezone_strip_path_if_valid                                     *)
StripPath(z) == IF z = "posix/Paris" THEN "Paris" ELSE z

(* system_timezone_is_valid: letters, digits, slash, dash and underscore   *)
IsValid(z) == z \notin {NoZone, "GMT+5"}

(* The keys, in the order of get_system_timezone_methods, which is that of *)
(* set_system_timezone_methods, too.                                       *)
ConfigKey == <<"timezone", "ZONE", "TIMEZONE", "TZ", "rc", "confd">>

(* system_timezone_read_etc_timezone, system_timezone_read_key_file        *)
ReadKey(files, key) == IF key \in DOMAIN files THEN files[key] ELSE NoZone

(* system_timezone_find: the link, the files by name, the file of the same *)
(* inode, and the first of the same data, whichever has a name that is     *)
(* valid.  Two files of the same data have the same name once stripped.    *)
Find(lt, files) ==
  LET link  == IF lt.kind = "link" THEN StripPath(lt.zone) ELSE NoZone
      named == [i \in DOMAIN ConfigKey |-> ReadKey(files, ConfigKey[i])]
      inode == IF lt.kind = "link" THEN StripPath(lt.zone) ELSE lt.inode
      data  == StripPath(lt.zone)
      all   == <<link>> \o named \o <<inode, data>>
      valid == {i \in DOMAIN all : IsValid(all[i])}
  IN IF valid = {} THEN "UTC" ELSE all[Min(valid)]

Link(z)   == [kind |-> "link", zone |-> z, inode |-> NoZone]
Copy(z)   == {[kind |-> "copy", zone |-> z, inode |-> i] : i \in {NoZone, "Berlin"}}

TZInit ==
  /\ localtime \in {Link("Lima"), [Link("Lima") EXCEPT !.kind = "copy"]}
  /\ \E keys \in Layouts : config = [k \in keys |-> "Lima"]
  /\ job = NoJob
  /\ tz = Find(localtime, config) \* system_timezone_constructor
  /\ stirred = FALSE /\ missed = FALSE
  /\ others = 0

-----------------------------------------------------------------------------
Stir(key) ==
  IF key = "rc" THEN missed' = TRUE /\ UNCHANGED stirred
  ELSE stirred' = TRUE /\ UNCHANGED missed

(* system_timezone_set_from_file; system_timezone_is_zone_file_valid holds *)
(* of zones only.                                                          *)
SetFromFile(z) == job' = [zone |-> z, done |-> 0]

(* system_timezone_set_etc_timezone, a link: if it cannot be replaced by   *)
(* another, it remains or it is gone, and a copy is tried in either case.  *)
SetLink ==
  /\ job # NoJob /\ job.done = 0 /\ localtime.kind = "link"
  /\ localtime' = Link(job.zone)
  /\ job' = [job EXCEPT !.done = 1]
  /\ Stir("localtime")
  /\ UNCHANGED <<config, tz, others>>

SetCopy ==
  /\ job # NoJob /\ job.done = 0
  /\ localtime' \in Copy(job.zone)
  /\ job' = [job EXCEPT !.done = 1]
  /\ Stir("localtime")
  /\ UNCHANGED <<config, tz, others>>

SetLocaltimeFails ==
  /\ job # NoJob /\ job.done = 0
  /\ \/ UNCHANGED <<localtime, stirred, missed>>
     \/ /\ localtime.kind = "link" /\ Stir("localtime")
        /\ localtime' = [kind |-> "none", zone |-> NoZone, inode |-> NoZone]
  /\ job' = NoJob
  /\ UNCHANGED <<config, tz, others>>

(* Mutant: a file is written only if the ones before were there.           *)
UpdateConfigUntilMissing ==
  /\ job # NoJob /\ job.done \in DOMAIN ConfigKey
  /\ LET key == ConfigKey[job.done] IN
     IF key \in DOMAIN config
       THEN /\ config' = [config EXCEPT ![key] = job.zone]
            /\ Stir(key)
            /\ job' = [job EXCEPT !.done = @ + 1]
       ELSE UNCHANGED <<config, stirred, missed>> /\ job' = [job EXCEPT !.done = Len(ConfigKey) + 1]
  /\ UNCHANGED <<localtime, tz, others>>

(* system_timezone_update_config, one of set_system_timezone_methods:      *)
(* write_etc_timezone, write_key_file.  A file that is not there is left   *)
(* alone, and so is one without the key.                                   *)
UpdateConfig ==
  /\ job # NoJob /\ job.done \in DOMAIN ConfigKey
  /\ LET key == ConfigKey[job.done] IN
     IF key \in DOMAIN config
       THEN config' = [config EXCEPT ![key] = job.zone] /\ Stir(key)
       ELSE UNCHANGED <<config, stirred, missed>>
  /\ job' = [job EXCEPT !.done = @ + 1]
  /\ UNCHANGED <<localtime, tz, others>>

(* A file cannot be read or written: the ones after it are not tried.      *)
UpdateConfigFails ==
  /\ job # NoJob /\ job.done \in DOMAIN ConfigKey /\ ConfigKey[job.done] \in DOMAIN config
  /\ job' = NoJob
  /\ UNCHANGED <<localtime, config, tz, stirred, missed, others>>

JobIsDone == job # NoJob /\ job.done = Len(ConfigKey) + 1

(* Another program sets the zone, in one of the places.                    *)
OtherSets ==
  /\ others < MaxOthers
  /\ others' = others + 1
  /\ \/ localtime' = Link("Rome") /\ Stir("localtime") /\ UNCHANGED config
     \/ \E key \in DOMAIN config :
          config' = [config EXCEPT ![key] = "Rome"] /\ Stir(key) /\ UNCHANGED localtime
  /\ UNCHANGED <<job, tz>>

(* system_timezone_monitor_changed                                         *)
MonitorChanged ==
  /\ stirred
  /\ stirred' = FALSE
  /\ tz' = Find(localtime, config)
  /\ UNCHANGED <<localtime, config, job, missed, others>>

-----------------------------------------------------------------------------
(* Once its monitors have told all they had to tell, the object has the    *)
(* zone that is found, unless the file that is read and set but not        *)
(* watched changed.                                                        *)
ObjectFollowsSystem == ~stirred /\ ~missed => tz = Find(localtime, config)

=============================================================================
