---------------------------- MODULE Coordinator ----------------------------
(***************************************************************************)
(* Who may run a backup, and when (container.py): the scheduler loop of    *)
(* run(), the handlers of the dashboard's POST requests, the threads that  *)
(* BackupCoordinator.start spawns, the lock they share and the state file. *)
(*                                                                         *)
(* What a backup does is BackupRunner's business: here it is a step of     *)
(* unknown length that succeeds or fails.  A write of the state file is    *)
(* one step, because _set_state_value and _load_state hold STATE_LOCK.     *)
(* Time is counted in hours.                                               *)
(***************************************************************************)
EXTENDS Naturals, FiniteSets

CONSTANTS
    Schedules,      \* daily, weekly, ...
    Rank,           \* [Schedules -> Nat]: the order of `candidates`
    DueDays,        \* [Schedules -> SUBSET Days]: the calendar
    Enabled,        \* the setting enabled_schedules
    BackupHour,     \* the setting backup_hour
    Hours,          \* hours of a day
    MaxTime,        \* bound: the last hour modelled
    Main,           \* the thread of run()
    Clients,        \* threads that handle a POST request
    Workers,        \* threads that execute BackupCoordinator._run
    None,
    Faults          \* state: a state file write may raise; crash: the
                    \* process may be killed

ASSUME TimeAssumption ==
    /\ Hours \in Nat \ {0} /\ BackupHour \in 0 .. Hours - 1
    /\ MaxTime \in Nat
ASSUME SchedulesAssumption ==
    /\ Rank \in [Schedules -> Nat]
    /\ \A s, t \in Schedules : Rank[s] = Rank[t] => s = t
    /\ None \notin Schedules /\ None \notin Nat
    /\ Enabled \subseteq Schedules
ASSUME ThreadsAssumption ==
    /\ Main \notin Clients \cup Workers
    /\ Clients \cap Workers = {}
ASSUME FaultsAssumption == Faults \subseteq {"state", "crash"}

VARIABLES
    pc,             \* [Threads -> where the thread is]
    want,           \* [Threads -> the schedule it is starting or running]
    outcome,        \* [Workers -> how run_backup ended]
    locked,         \* coordinator.lock
    active,         \* coordinator.active_schedule
    loopNow, due,   \* run(): `now`, and the schedules not yet started
    marks,          \* state file: [Schedules -> day of the last start]
    lastRun,        \* state file: "last_run"
    now,            \* the clock
    polled,         \* history: a whole pass of the loop lay in this hour
    runsOn,         \* history: [Schedules \X Days -> scheduled starts]
    refused,        \* history: <<schedule, day>> that met a busy lock
    died,           \* history: days on which the process was not up throughout
    cutOff          \* history: a thread of _run has ended without its last
                    \* steps since a backup last began: no, leaked (a state
                    \* file write raised) or killed

Threads == {Main} \cup Clients \cup Workers
Starters == {Main} \cup Clients
Days == 0 .. MaxTime \div Hours
Day(t)  == t \div Hours
Hour(t) == t % Hours

loopVars == <<loopNow, due>>
stateFile == <<marks, lastRun>>
history == <<polled, runsOn, refused, died, cutOff>>
vars == <<pc, want, outcome, locked, active, loopVars, stateFile, now, history>>

NoRun == [status |-> "none", schedule |-> None]

TypeOK ==
    /\ pc \in [Threads -> {"idle", "down", "sleep", "load", "loop", "active", "mark",
                           "spawn", "test", "begin", "run", "final", "clear",
                           "release"}]
    /\ want \in [Threads -> Schedules \cup {None}]
    /\ outcome \in [Workers -> {"none", "success", "failed"}]
    /\ locked \in BOOLEAN
    /\ active \in Schedules \cup {None}
    /\ loopNow \in 0 .. MaxTime /\ now \in 0 .. MaxTime
    /\ due \subseteq Schedules
    /\ marks \in [Schedules -> Days \cup {None}]
    /\ lastRun \in [status : {"none", "running", "success", "failed"},
                    schedule : Schedules \cup {None}]
    /\ polled \in BOOLEAN
    /\ runsOn \in [Schedules \X Days -> 0 .. 2]
    /\ refused \subseteq Schedules \X Days /\ died \subseteq Days
    /\ cutOff \in {"no", "leaked", "killed"}

\* A fresh process: the threads, the lock and active_schedule.
FreshPc == [t \in Threads |-> IF t = Main THEN "sleep" ELSE "idle"]

Init ==
    /\ pc = FreshPc
    /\ want = [t \in Threads |-> None]
    /\ outcome = [w \in Workers |-> "none"]
    /\ locked = FALSE /\ active = None
    /\ loopNow = 0 /\ due = {} /\ now = 0
    /\ marks = [s \in Schedules |-> None] /\ lastRun = NoRun
    /\ polled = FALSE
    /\ runsOn = [sd \in Schedules \X Days |-> 0]
    /\ refused = {} /\ died = {} /\ cutOff = "no"

-----------------------------------------------------------------------------
(* run(): the scheduler loop.                                              *)

IsScheduled(s, d) == s \in Enabled /\ d \in DueDays[s]

\* For mutation: what was started today is not looked up.
DueIgnoringMarks(t, m) ==
    IF Hour(t) # BackupHour THEN {}
    ELSE {s \in Schedules : IsScheduled(s, Day(t))}

\* For mutation: a schedule with any mark is taken for done.
DueUnlessMarked(t, m) ==
    IF Hour(t) # BackupHour THEN {}
    ELSE {s \in Schedules : IsScheduled(s, Day(t)) /\ m[s] = None}

DueSchedules(t, m) ==
    IF Hour(t) # BackupHour THEN {}
    ELSE {s \in Schedules : IsScheduled(s, Day(t)) /\ m[s] # Day(t)}

Wake ==
    /\ pc[Main] = "sleep"
    /\ loopNow' = now
    /\ pc' = [pc EXCEPT ![Main] = "load"]
    /\ UNCHANGED <<want, outcome, locked, active, due, stateFile, now, history>>

LoadDue ==
    /\ pc[Main] = "load"
    /\ due' = DueSchedules(loopNow, marks)
    /\ pc' = [pc EXCEPT ![Main] = "loop"]
    /\ UNCHANGED <<want, outcome, locked, active, loopNow, stateFile, now,
                   history>>

\* For mutation: the lock is taken for free while no schedule is active.
FreeWhenInactive == active = None

\* coordinator.lock.acquire(blocking=False) succeeds.
LockFree == ~locked

NextDue(s) == s \in due /\ \A t \in due : Rank[s] <= Rank[t]

StartDue(s) ==
    /\ pc[Main] = "loop"
    /\ NextDue(s)
    /\ LockFree
    /\ locked' = TRUE
    /\ due' = due \ {s}
    /\ want' = [want EXCEPT ![Main] = s]
    /\ pc' = [pc EXCEPT ![Main] = "active"]
    /\ UNCHANGED <<outcome, active, loopNow, stateFile, now, history>>

\* start returns False and the loop goes on.
DueRefused(s) ==
    /\ pc[Main] = "loop"
    /\ NextDue(s)
    /\ ~LockFree
    /\ due' = due \ {s}
    /\ refused' = refused \cup {<<s, Day(loopNow)>>}
    /\ UNCHANGED <<pc, want, outcome, locked, active, loopNow, stateFile, now,
                   polled, runsOn, died, cutOff>>

PassDone ==
    /\ pc[Main] = "loop"
    /\ due = {}
    /\ polled' = (polled \/ loopNow = now)
    /\ pc' = [pc EXCEPT ![Main] = "sleep"]
    /\ UNCHANGED <<want, outcome, locked, active, loopVars, stateFile, now,
                   runsOn, refused, died, cutOff>>

-----------------------------------------------------------------------------
(* The handlers of POST /backup, /rclone-test and /runtipi-test.  A request *)
(* that finds the lock taken changes nothing.                               *)

\* The server runs in daemon threads of the process of Main.
Serving == pc[Main] # "down"

PostBackup(c, s) ==
    /\ Serving /\ pc[c] = "idle"
    /\ LockFree
    /\ locked' = TRUE
    /\ want' = [want EXCEPT ![c] = s]
    /\ pc' = [pc EXCEPT ![c] = "active"]
    /\ UNCHANGED <<outcome, active, loopVars, stateFile, now, history>>

PostTest(c) ==
    /\ Serving /\ pc[c] = "idle"
    /\ LockFree
    /\ locked' = TRUE
    /\ pc' = [pc EXCEPT ![c] = "test"]
    /\ UNCHANGED <<want, outcome, active, loopVars, stateFile, now, history>>

\* For mutation: the release is forgotten.
TestEndsHolding(c) ==
    /\ pc[c] = "test"
    /\ pc' = [pc EXCEPT ![c] = "idle"]
    /\ UNCHANGED <<want, outcome, locked, active, loopVars, stateFile, now,
                   history>>

\* The finally of the test releases the lock; its result, stored after that,
\* concerns nobody.
TestEnds(c) ==
    /\ pc[c] = "test"
    /\ locked' = FALSE
    /\ pc' = [pc EXCEPT ![c] = "idle"]
    /\ UNCHANGED <<want, outcome, active, loopVars, stateFile, now, history>>

-----------------------------------------------------------------------------
(* BackupCoordinator.start once the lock is taken.                         *)

SetActive(p) ==
    /\ pc[p] = "active"
    /\ active' = want[p]
    /\ pc' = [pc EXCEPT ![p] = IF p = Main THEN "mark" ELSE "spawn"]
    /\ UNCHANGED <<want, outcome, locked, loopVars, stateFile, now, history>>

\* The mark carries the date of a second look at the clock.
Today == Day(now)

Mark ==
    /\ pc[Main] = "mark"
    /\ marks' = [marks EXCEPT ![want[Main]] = Today]
    /\ pc' = [pc EXCEPT ![Main] = "spawn"]
    /\ UNCHANGED <<want, outcome, locked, active, loopVars, lastRun, now,
                   history>>

Spawn(p, w) ==
    /\ pc[p] = "spawn"
    /\ pc[w] = "idle"
    /\ pc' = [pc EXCEPT ![p] = IF p = Main THEN "loop" ELSE "idle",
                        ![w] = "begin"]
    /\ want' = [want EXCEPT ![p] = None, ![w] = want[p]]
    /\ runsOn' = IF p = Main
                 THEN [runsOn EXCEPT ![<<want[p], Day(loopNow)>>] =
                           IF @ < 2 THEN @ + 1 ELSE 2]
                 ELSE runsOn
    /\ UNCHANGED <<outcome, locked, active, loopVars, stateFile, now, polled,
                   refused, died, cutOff>>

-----------------------------------------------------------------------------
(* BackupCoordinator._run.                                                 *)

BeginRun(w) ==
    /\ pc[w] = "begin"
    /\ lastRun' = [status |-> "running", schedule |-> want[w]]
    /\ pc' = [pc EXCEPT ![w] = "run"]
    /\ cutOff' = "no"
    /\ UNCHANGED <<want, outcome, locked, active, loopVars, marks, now, polled,
                   runsOn, refused, died>>

\* run_backup returns or raises; progress rewrites the same "running" entry.
RunEnds(w, status) ==
    /\ pc[w] = "run"
    /\ outcome' = [outcome EXCEPT ![w] = status]
    /\ pc' = [pc EXCEPT ![w] = "final"]
    /\ UNCHANGED <<want, locked, active, loopVars, stateFile, now, history>>

\* For mutation: the outcome of a failed run is not stored.
StoreSuccess(w) ==
    /\ pc[w] = "final"
    /\ lastRun' = IF outcome[w] = "failed" THEN lastRun
                  ELSE [status |-> outcome[w], schedule |-> want[w]]
    /\ pc' = [pc EXCEPT ![w] = "clear"]
    /\ UNCHANGED <<want, outcome, locked, active, loopVars, marks, now, history>>

StoreOutcome(w) ==
    /\ pc[w] = "final"
    /\ lastRun' = [status |-> outcome[w], schedule |-> want[w]]
    /\ pc' = [pc EXCEPT ![w] = "clear"]
    /\ UNCHANGED <<want, outcome, locked, active, loopVars, marks, now, history>>

\* For mutation: active_schedule is left set.
KeepActive(w) ==
    /\ pc[w] = "clear"
    /\ pc' = [pc EXCEPT ![w] = "release"]
    /\ UNCHANGED <<want, outcome, locked, active, loopVars, stateFile, now,
                   history>>

ClearActive(w) ==
    /\ pc[w] = "clear"
    /\ active' = None
    /\ pc' = [pc EXCEPT ![w] = "release"]
    /\ UNCHANGED <<want, outcome, locked, loopVars, stateFile, now, history>>

Release(w) ==
    /\ pc[w] = "release"
    /\ locked' = FALSE
    /\ want' = [want EXCEPT ![w] = None]
    /\ outcome' = [outcome EXCEPT ![w] = "none"]
    /\ pc' = [pc EXCEPT ![w] = "idle"]
    /\ UNCHANGED <<active, loopVars, stateFile, now, history>>

\* _store_outcome raises, before the try block or in its finally: the thread
\* ends without going on to the release of the lock.
StoreFails(w) ==
    /\ "state" \in Faults
    /\ pc[w] \in {"begin", "final"}
    /\ want' = [want EXCEPT ![w] = None]
    /\ outcome' = [outcome EXCEPT ![w] = "none"]
    /\ pc' = [pc EXCEPT ![w] = "idle"]
    /\ cutOff' = "leaked"
    /\ UNCHANGED <<locked, active, loopVars, stateFile, now, polled, runsOn,
                   refused, died>>

-----------------------------------------------------------------------------
(* The end of the process, its restart by docker, and the clock.           *)

\* For mutation: the marks live in memory only.
ForgottenMarks == [s \in Schedules |-> None]

\* What a new process reads from the state file.
PersistedMarks == marks

Die ==
    /\ pc' = [FreshPc EXCEPT ![Main] = "down"]
    /\ want' = [t \in Threads |-> None]
    /\ outcome' = [w \in Workers |-> "none"]
    /\ locked' = FALSE /\ active' = None
    /\ due' = {}
    /\ marks' = PersistedMarks
    /\ died' = died \cup {Day(now)} /\ cutOff' = "killed"
    /\ UNCHANGED <<loopNow, lastRun, now, polled, runsOn, refused>>

Crash == "crash" \in Faults /\ Serving /\ Die

\* An exception in the scheduler loop ends run(), and with it the process.
MarkFails == "state" \in Faults /\ pc[Main] = "mark" /\ Die

\* The restart may come too late for a pass of the loop in this hour.
Restart ==
    /\ pc[Main] = "down"
    /\ pc' = [pc EXCEPT ![Main] = "sleep"]
    /\ polled' = TRUE
    /\ died' = died \cup {Day(now)}
    /\ UNCHANGED <<want, outcome, locked, active, loopVars, stateFile, now,
                   runsOn, refused, cutOff>>

\* The loop sleeps 30 seconds: an hour in which the process is up does not
\* end before one pass has begun and ended in it.
Tick ==
    /\ now < MaxTime
    /\ polled \/ ~Serving
    /\ now' = now + 1
    /\ polled' = FALSE
    /\ died' = IF Serving THEN died ELSE died \cup {Day(now + 1)}
    /\ UNCHANGED <<pc, want, outcome, locked, active, loopVars, stateFile,
                   runsOn, refused, cutOff>>

-----------------------------------------------------------------------------
MainStep ==
    \/ Wake \/ LoadDue \/ PassDone
    \/ \E s \in Schedules : StartDue(s) \/ DueRefused(s)
    \/ SetActive(Main) \/ Mark \/ MarkFails
    \/ \E w \in Workers : Spawn(Main, w)

Request(c) == PostTest(c) \/ \E s \in Schedules : PostBackup(c, s)

HandlerStep(c) == SetActive(c) \/ \E w \in Workers : Spawn(c, w)

WorkerStep(w) ==
    BeginRun(w) \/ StoreOutcome(w) \/ ClearActive(w) \/ Release(w) \/ StoreFails(w)

\* The steps that take as long as docker, runtipi-cli and rclone take.
WorkEnds ==
    \/ \E w \in Workers, status \in {"success", "failed"} : RunEnds(w, status)
    \/ \E c \in Clients : TestEnds(c)

Next ==
    \/ MainStep
    \/ \E c \in Clients : Request(c) \/ HandlerStep(c)
    \/ \E w \in Workers : WorkerStep(w)
    \/ WorkEnds
    \/ Crash \/ Restart \/ Tick

Spec == Init /\ [][Next]_vars

\* Threads are scheduled; a backup or a connection test need not end.
FairSpec ==
    /\ Spec
    /\ WF_vars(MainStep)
    /\ \A c \in Clients : WF_vars(HandlerStep(c))
    /\ \A w \in Workers : WF_vars(WorkerStep(w))

\* Backups and tests end as well.
WorkEndsSpec == FairSpec /\ WF_vars(WorkEnds)

-----------------------------------------------------------------------------
(* Safety.                                                                 *)

\* The threads that are between taking the lock and giving it back.
Holders ==
    {t \in Threads : pc[t] \in {"active", "mark", "spawn", "test", "begin",
                                "run", "final", "clear", "release"}}

\* README.md:11: from the request to the release at most one thread is at
\* work on a backup or a connection test, and the lock is taken meanwhile.
OneBackupAtATime ==
    \A t \in Holders : locked /\ \A u \in Holders : t = u

\* container.py:189-235, 611-636: the lock is taken only while some thread
\* is going to release it, unless a state file write has raised in the thread
\* that held it.
LockNotLeaked == locked => Holders # {} \/ cutOff = "leaked"

\* container.py:191, 234: the dashboard shows a schedule as active exactly
\* from the start of its backup until its outcome has been stored, or could
\* not be.
ActiveShown ==
    /\ \A w \in Workers :
          pc[w] \in {"begin", "run", "final", "clear"} => active = want[w]
    /\ active # None => \/ \E t \in Holders : active = want[t]
                        \/ cutOff = "leaked"

\* container.py:173: while the dashboard's last run reads "running", a
\* thread is running that schedule and will store its outcome, unless the
\* thread was killed or could not store it.
LastRunTrue ==
    lastRun.status = "running" =>
        \/ \E w \in Workers : pc[w] \in {"run", "final"}
                                /\ want[w] = lastRun.schedule
        \/ cutOff # "no"

\* container.py:167-169: a schedule is started at most once for a day,
\* across refusals, crashes and restarts.
AtMostOncePerDay == \A sd \in Schedules \X Days : runsOn[sd] <= 1

\* Schedule s was due on day d, and the hour to start it has passed.
HourPassed(s, d) == IsScheduled(s, d) /\ now > d * Hours + BackupHour

\* container.py:674-679: a due schedule is started in its hour unless it
\* found another backup or a test in progress, or the process was down.  (In
\* the last hour of the day Mark may take the next day's date.)
MissedOnlyWhenBusy ==
    \A s \in Schedules, d \in Days :
        HourPassed(s, d) /\ d \notin died =>
            runsOn[<<s, d>>] > 0 \/ <<s, d>> \in refused

(* Liveness.                                                               *)

\* The lock is free again and again, unless one backup or one test itself
\* never ends, or a state file write has raised in the thread that held it.
LockFreeOrWorking ==
    \/ []<>LockFree
    \/ <>[](\E t \in Threads : pc[t] \in {"run", "test"})
    \/ <>[](cutOff = "leaked")

\* README.md:10: backups can be started on demand: when backups and tests
\* end, the lock is free again and again.
BackupsCanStart == []<>LockFree
=============================================================================
