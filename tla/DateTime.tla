------------------------------ MODULE DateTime ------------------------------
(***************************************************************************)
(* The privileged mechanism of the datetime plugin                         *)
(* (plugins/datetime/csd_datetime-mechanism.c, -main.c): a process of its  *)
(* own that is started by the bus, handles one call at a time, may wait    *)
(* for the user's password meanwhile, and exits when nothing was asked of  *)
(* it for a while.  Clocks are represented by how far they are ahead.      *)
(***************************************************************************)
EXTENDS SystemTimezone, Integers

CONSTANTS
  MaxCalls \* bound on the calls

VARIABLES
  up,       \* the mechanism runs and owns its name
  queue,    \* calls that wait
  call,     \* the call that is handled, or NoCall
  stage,    \* what is done next for it: "auth", "clock", "hwclock", "zone", "utc" or "sysconfig"
  clock,    \* how far the system's clock is ahead
  due,      \* how far the caller wants it to be
  read,     \* the clock that AdjustTime read, with what is to be added
  waited,   \* time that passed since
  hwclock,  \* the program, if it is there, last set the hardware's clock to: ahead, utc; or NoProgram
  adjtime,  \* what /etc/adjtime says: "UTC", "LOCAL" or none of it
  sysconf,  \* UTC= of /etc/sysconfig/clock, or "none"
  answer,   \* the last answer: the call, and whether it was an error
  tampered, \* history: others changed something since the call was received
  calls     \* number of calls so far

dtown == <<up, queue, call, stage, clock, due, read, waited, hwclock, adjtime, sysconf, answer,
           tampered, calls>>
vars == <<tzvars, dtown>>

(* What the clock is set to, or moved by.                                  *)
Ahead == 3

Call == ({"SetTime", "AdjustTime"} \X {"none"})
        \cup ({"SetTimezone"} \X (Zone \cup {NoZone}))
        \cup ({"SetHardwareClockUsingUtc"} \X {"UTC", "LOCAL"})
(* The clock a call asks for, or by how much it is to be moved.             *)
Asked(c) == IF c[1] \in {"SetTime", "AdjustTime"} THEN Ahead ELSE 0

Query == <<"GetTimezone", "none">>
NoCall == <<"none", "none">>
NoProgram == [ahead |-> 0, mode |-> "none"]

Init ==
  /\ TZInit
  /\ up = FALSE /\ queue = <<>> /\ call = NoCall /\ stage = "idle"
  /\ clock = 0 /\ due = 0 /\ read = 0 /\ waited = 0
  /\ hwclock \in {NoProgram, [ahead |-> 0, mode |-> "UTC"]}
  /\ adjtime = "UTC" /\ sysconf = (IF "ZONE" \in DOMAIN config THEN "UTC" ELSE "none")
  /\ answer = [call |-> NoCall, error |-> FALSE] /\ tampered = FALSE
  /\ calls = 0

clocks == <<clock, hwclock, adjtime, sysconf>>

-----------------------------------------------------------------------------
(* main: the bus starts the mechanism for a call, and it gets its name and *)
(* the authority or ends at once, with the call.                           *)
Activate ==
  /\ ~up /\ queue # <<>>
  /\ \/ up' = TRUE /\ UNCHANGED queue
     \/ queue' = <<>> /\ UNCHANGED <<up>>
  /\ UNCHANGED <<tzvars, call, stage, clocks, due, read, waited, answer, tampered, calls>>

Ask(c) ==
  /\ calls < MaxCalls
  /\ calls' = calls + 1
  /\ queue' = Append(queue, c)
  /\ UNCHANGED <<tzvars, up, call, stage, clocks, due, read, waited, answer, tampered>>

Reply(error) ==
  /\ answer' = [call |-> call, error |-> error]
  /\ call' = NoCall
  /\ stage' = "idle"

(* Mutant: the clock is set to what was to be added to it.                 *)
ReadNoClock(c) == read' = Asked(c)

(* csd_datetime_mechanism_adjust_time: the clock is read at once           *)
ReadClock(c) == read' = IF c[1] = "AdjustTime" THEN clock + Ahead ELSE Asked(c)

(* csd_datetime_mechanism_set_time, _adjust_time, _set_timezone and        *)
(* _set_hardware_clock_using_utc, as far as they go without waiting        *)
Receive ==
  /\ up /\ call = NoCall /\ queue # <<>>
  /\ LET c == Head(queue) IN
     /\ c \in Call
     /\ call' = c
     /\ stage' = "auth"
     /\ due' = Asked(c) + IF c[1] = "AdjustTime" THEN clock ELSE 0
     /\ ReadClock(c)
  /\ queue' = Tail(queue)
  /\ tampered' = FALSE
  /\ waited' = 0
  /\ UNCHANGED <<tzvars, up, clocks, answer, calls>>

(* csd_datetime_mechanism_get_timezone,                                    *)
(* _get_hardware_clock_using_utc, _can_set_time and _can_set_timezone      *)
ReceiveQuery ==
  /\ up /\ call = NoCall /\ queue # <<>>
  /\ Head(queue) = Query
  /\ queue' = Tail(queue)
  /\ UNCHANGED <<tzvars, up, call, stage, clocks, due, read, waited, answer, tampered, calls>>

(* The user is asked for a password.                                       *)
TimePasses ==
  /\ stage = "auth" /\ waited = 0 /\ Asked(call) # 0
  /\ waited' = 1
  /\ UNCHANGED <<tzvars, up, queue, call, stage, clocks, due, read, answer, tampered, calls>>

(* _check_polkit_for_action, and the first step of what follows            *)
CheckPolkit(authorized) ==
  /\ stage = "auth"
  /\ \/ ~authorized /\ Reply(TRUE) /\ UNCHANGED job
     \/ authorized /\ call = <<"SetTimezone", NoZone>> /\ Reply(TRUE) /\ UNCHANGED job
     \/ /\ authorized /\ call[1] = "SetTimezone" /\ call[2] # NoZone
        /\ SetFromFile(call[2]) /\ stage' = "zone" /\ UNCHANGED <<call, answer>>
     \/ /\ authorized /\ call[1] # "SetTimezone"
        /\ stage' = IF call[1] = "SetHardwareClockUsingUtc" THEN "utc" ELSE "clock"
        /\ UNCHANGED <<call, answer, job>>
  /\ UNCHANGED <<localtime, config, tz, stirred, missed, others, up, queue, clocks, due, read,
                 waited, tampered, calls>>

(* _set_time: settimeofday                                                 *)
SetTimeOfDay ==
  /\ stage = "clock"
  /\ \/ clock' = read - waited /\ stage' = "hwclock" /\ UNCHANGED <<call, answer>>
     \/ Reply(TRUE) /\ UNCHANGED clock
  /\ UNCHANGED <<tzvars, up, queue, hwclock, adjtime, sysconf, due, read, waited, tampered, calls>>

(* hwclock --systohc, if there is such a program: it is told the mode, or  *)
(* goes by what adjtime says, and writes adjtime.                          *)
Systohc(mode) ==
  /\ hwclock # NoProgram
  /\ hwclock' = [ahead |-> clock, mode |-> mode]
  /\ adjtime' = mode

(* _set_time, after the clock is set; the program may fail.                *)
SetHardwareClock ==
  /\ stage = "hwclock"
  /\ \/ Systohc(adjtime) /\ Reply(FALSE)
     \/ hwclock = NoProgram /\ Reply(FALSE) /\ UNCHANGED <<hwclock, adjtime>>
     \/ hwclock # NoProgram /\ Reply(TRUE) /\ UNCHANGED <<hwclock, adjtime>>
  /\ UNCHANGED <<tzvars, up, queue, clock, sysconf, due, read, waited, tampered, calls>>

(* csd_datetime_mechanism_set_hardware_clock_using_utc: without the        *)
(* program nothing is done, and that is a success.                         *)
SetMode ==
  /\ stage = "utc"
  /\ \/ Systohc(call[2]) /\ stage' = "sysconfig" /\ UNCHANGED <<call, answer>>
     \/ hwclock = NoProgram /\ Reply(FALSE) /\ UNCHANGED <<hwclock, adjtime>>
     \/ hwclock # NoProgram /\ Reply(TRUE) /\ UNCHANGED <<hwclock, adjtime>>
  /\ UNCHANGED <<tzvars, up, queue, clock, sysconf, due, read, waited, tampered, calls>>

(* _rh_update_etc_sysconfig_clock                                          *)
UpdateSysconfig ==
  /\ stage = "sysconfig"
  /\ \/ sysconf' = (IF sysconf = "none" THEN "none" ELSE call[2]) /\ Reply(FALSE)
     \/ sysconf # "none" /\ Reply(TRUE) /\ UNCHANGED sysconf
  /\ UNCHANGED <<tzvars, up, queue, clock, hwclock, adjtime, due, read, waited, tampered, calls>>

(* csd_datetime_mechanism_set_timezone, once the zone is set or not        *)
ZoneIsSet ==
  /\ JobIsDone
  /\ job' = NoJob
  /\ Reply(FALSE)
  /\ UNCHANGED <<localtime, config, tz, stirred, missed, others, up, queue, clocks, due, read,
                 waited, tampered, calls>>

SetZone ==
  /\ stage = "zone"
  /\ \/ SetLink \/ SetCopy \/ UpdateConfig
  /\ UNCHANGED dtown

SetZoneFails ==
  /\ stage = "zone"
  /\ SetLocaltimeFails \/ UpdateConfigFails
  /\ Reply(TRUE)
  /\ UNCHANGED <<up, queue, clocks, due, read, waited, tampered, calls>>

(* do_exit, when the timer is over, which started anew with most calls and *)
(* may have run out while one was handled.  Calls that wait are lost.      *)
DoExit ==
  /\ up /\ call = NoCall
  /\ up' = FALSE
  /\ queue' = <<>>
  /\ UNCHANGED <<tzvars, call, stage, clocks, due, read, waited, answer, tampered, calls>>

(* Other programs set the clock or the zone.                               *)
Tamper ==
  /\ OtherSets
  /\ tampered' = TRUE
  /\ UNCHANGED <<up, queue, call, stage, clocks, due, read, waited, answer, calls>>

TamperClock ==
  /\ others < MaxOthers
  /\ others' = others + 1
  /\ clock' = 1
  /\ tampered' = TRUE
  /\ UNCHANGED <<localtime, config, job, tz, stirred, missed, up, queue, call, stage, hwclock,
                 adjtime, sysconf, due, read, waited, answer, calls>>

Observe == MonitorChanged /\ UNCHANGED dtown

Next ==
  \/ Activate \/ Receive \/ ReceiveQuery \/ TimePasses \/ SetTimeOfDay \/ SetHardwareClock \/ SetMode \/ UpdateSysconfig
  \/ ZoneIsSet \/ SetZone \/ SetZoneFails \/ DoExit \/ Tamper \/ TamperClock \/ Observe
  \/ \E c \in Call \cup {Query} : Ask(c)
  \/ \E authorized \in BOOLEAN : CheckPolkit(authorized)

Spec == Init /\ [][Next]_vars

-----------------------------------------------------------------------------
(* A call that is answered with success did what it was asked for, unless  *)
(* others changed the same meanwhile: the zone is found again, if its name *)
(* is one that can be found and no other file has the inode of the copy;   *)
(* the clock is what was asked for less the time authorization took, and   *)
(* the hardware's clock, where there is a program for it, follows.         *)
AnswersAreTrue ==
  ~answer.error /\ call = NoCall /\ ~tampered
    => LET op  == answer.call[1]
           arg == answer.call[2]
       IN /\ op \in {"SetTime", "AdjustTime"}
               => clock = due - waited /\ (hwclock # NoProgram => hwclock.ahead = clock)
          /\ op = "SetTimezone" /\ IsValid(arg) /\ localtime.inode = NoZone
               => StripPath(Find(localtime, config)) = StripPath(arg)
          /\ op = "SetHardwareClockUsingUtc" /\ hwclock # NoProgram
               => hwclock.mode = arg /\ adjtime = arg /\ sysconf \in {"none", arg}

(* Each stage has a call of the kind that gets there.                      *)
StagesHaveCalls ==
  /\ stage \in {"idle", "auth", "clock", "hwclock", "zone", "utc", "sysconfig"}
  /\ call = NoCall <=> stage = "idle"
  /\ call # NoCall => call \in Call
  /\ stage \in {"clock", "hwclock"} => call[1] \in {"SetTime", "AdjustTime"}
  /\ stage = "zone" => call[1] = "SetTimezone"
  /\ stage \in {"utc", "sysconfig"} => call[1] = "SetHardwareClockUsingUtc"

(* What was read is what is due, and until the answer the clocks are as    *)
(* far as the stage says.                                                  *)
ClocksAreAtStage ==
  /\ clock \in Int /\ read \in Int /\ waited \in Int /\ due = read
  /\ stage = "hwclock" /\ ~tampered => clock = due - waited
  /\ stage = "sysconfig" => hwclock.mode = call[2] /\ adjtime = call[2]

(* A zone is being set exactly in that stage, and unless others changed    *)
(* something the files that were written name it.                          *)
ZoneIsAtStage ==
  /\ job \in [zone : Zone \cup {NoZone}, done : 0..(Len(ConfigKey) + 1)]
  /\ job # NoJob <=> stage = "zone"
  /\ stage = "zone" => job.zone = call[2] /\ job.zone \in Zone
  /\ stage = "zone" /\ ~tampered =>
       /\ job.done > 0 => localtime \in {Link(job.zone)} \cup Copy(job.zone)
       /\ \A i \in DOMAIN ConfigKey :
            i < job.done /\ ConfigKey[i] \in DOMAIN config => config[ConfigKey[i]] = job.zone

=============================================================================
