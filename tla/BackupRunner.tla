---------------------------- MODULE BackupRunner ----------------------------
(***************************************************************************)
(* One backup run after another on one host: run_backup and                *)
(* _backup_one_app of backup/runner.py, over the containers of the apps    *)
(* and the archives on local disk.  Runs are sequential here; Coordinator  *)
(* models why they are.  The transfer to the remotes is one step (sync).   *)
(*                                                                         *)
(* An app is one "<app>:<store>" reference.  An archive file is an app, a  *)
(* schedule and a date; its content is                                     *)
(*   none     there is no such file                                        *)
(*   partial  opened and not completely written, or damaged                *)
(*   torn     readable, but taken while an app that had to be stopped ran  *)
(*   good     readable and consistent                                      *)
(***************************************************************************)
EXTENDS AppSettings, Retention

CONSTANTS
    Apps,           \* installed apps
    NoApp,          \* "no app in progress"
    Rank,           \* [Apps -> Nat]: the sorted order of discover_apps
    NameMatches,    \* [Apps -> SUBSET Apps]: whose containers the docker
                    \* filter "name=^/<app>_<store>" of is_app_running finds
    Schedules,
    Retention,      \* [Schedules -> Int]: local archives to keep
    StopApps,       \* backup.stop_apps
    Labels,         \* [Apps -> docker labels of the app's container]
    Config,         \* [Apps -> backup.app_settings of config.yaml]
    MaxDay,         \* bound: the run takes place on days 1 .. MaxDay
    Faults          \* what may go wrong besides commands that fail

ASSUME RankAssumption ==
    /\ Rank \in [Apps -> Nat]
    /\ \A a, b \in Apps : Rank[a] = Rank[b] => a = b
ASSUME NamesAssumption ==
    /\ NameMatches \in [Apps -> SUBSET Apps]
    /\ \A a \in Apps : a \in NameMatches[a]
    /\ NoApp \notin Apps
ASSUME ScheduleAssumption ==
    /\ Retention \in [Schedules -> Int]
    /\ MaxDay \in Nat \ {0}
    /\ StopApps \in BOOLEAN
\* AppBackupConfig.keep_running is an Optional[bool].
ASSUME ConfigAssumption ==
    /\ Unset \notin BOOLEAN
    /\ \A a \in Apps : Config[a]["keep_running"] \in BOOLEAN \cup {Unset}
\* docker:   a query of the docker daemon may fail
\* progress: the progress callback (a state file write) may raise
\* io:       a file operation on the archives may raise
\* stop:     a stop may exit with zero in vain
\* crash:    the process may be killed
ASSUME FaultsAssumption ==
    Faults \subseteq {"docker", "progress", "io", "stop", "crash"}

VARIABLES
    pc,             \* where the run is
    schedule, day,  \* of the run: its schedule and its date_str
    todo,           \* apps not reached yet
    createdFiles,   \* created_files
    failures,       \* apps recorded as failed
    result,         \* none, running, success, failed (it raised), crashed
    ref,            \* _backup_one_app: the app
    settings,       \* what resolve_app_settings returned
    wasRunning, stoppedByUs, restartError,
    exc,            \* the exception on its way out
    up,             \* [Apps -> BOOLEAN]: the containers really run
    disk,           \* [Files -> Contents]
    today,
    upBefore,       \* history: up when the run began
    targets,        \* history: the apps the run was asked for
    owed,           \* history: apps this run took down and did not yet try
                    \* to start again
    cleanup         \* history: [Apps -> post hook none, due or failed]

runVars == <<schedule, day, todo, createdFiles, failures, result>>
locals  == <<ref, settings, wasRunning, stoppedByUs, restartError, exc>>
history == <<upBefore, targets, owed, cleanup>>
vars    == <<pc, runVars, locals, up, disk, today, history>>

Days     == 1 .. MaxDay
Files    == Apps \X Schedules \X Days
Contents == {"none", "partial", "torn", "good"}
AppSteps == {"check", "pre", "stop", "archive", "write", "verify", "prune",
             "start", "post", "leave"}
Steps    == AppSteps \cup {"idle", "discover", "next", "sync"}

NoSettings == [keepRunning |-> FALSE, pre |-> FALSE, post |-> FALSE]

TypeOK ==
    /\ pc \in Steps
    /\ schedule \in Schedules /\ day \in Days /\ today \in Days
    /\ todo \subseteq Apps /\ failures \subseteq Apps
    /\ createdFiles \subseteq Files
    /\ result \in {"none", "running", "success", "failed", "crashed"}
    /\ ref \in Apps \cup {NoApp}
    /\ settings \in [keepRunning : BOOLEAN, pre : BOOLEAN, post : BOOLEAN]
    /\ wasRunning \in BOOLEAN /\ stoppedByUs \in BOOLEAN
    /\ restartError \in BOOLEAN
    /\ exc \in {"none", "CommandError", "BackupVerificationError",
                "OtherError"}
    /\ up \in [Apps -> BOOLEAN]
    /\ disk \in [Files -> Contents]
    /\ upBefore \in [Apps -> BOOLEAN]
    /\ targets \subseteq Apps /\ owed \subseteq Apps
    /\ cleanup \in [Apps -> {"none", "due", "failed"}]

Init ==
    /\ pc = "idle"
    /\ schedule \in Schedules /\ day = 1 /\ today = 1
    /\ todo = {} /\ failures = {} /\ createdFiles = {}
    /\ result = "none"
    /\ ref = NoApp /\ settings = NoSettings
    /\ wasRunning = FALSE /\ stoppedByUs = FALSE /\ restartError = FALSE
    /\ exc = "none"
    /\ up \in [Apps -> BOOLEAN]
    /\ disk = [f \in Files |-> "none"]
    /\ upBefore = up
    /\ targets = {} /\ owed = {}
    /\ cleanup = [a \in Apps |-> "none"]

-----------------------------------------------------------------------------
(* What the code computes.                                                 *)

\* For mutation: `docker ps -a`, which lists stopped containers as well.
SeenInAnyState(a, running) == {TRUE}

\* is_app_running: True when some container with a matching name runs;
\* a failed query counts as "stopped".
SeenRunning(a, running) ==
    {\E b \in NameMatches[a] : running[b]} \cup
    (IF "docker" \in Faults THEN {FALSE} ELSE {})

\* container_id and read_labels: no labels when docker cannot be asked.
VisibleLabels(a) ==
    {Labels[a]} \cup (IF "docker" \in Faults THEN {NoOverrides} ELSE {})

RunnerSettings(a, labels) ==
    LET resolved == ResolveAppSettings(labels, Config[a])
    IN  [keepRunning |-> resolved["keep_running"],
         pre  |-> IsCommand(resolved["pre_backup_command"]),
         post |-> IsCommand(resolved["post_backup_command"])]

Dest == <<ref, schedule, day>>

\* The dates of the archives the glob of one app and schedule finds.
DatesOnDisk(a, s) == {d \in Days : disk[<<a, s, d>>] # "none"}

Prunable == SelectPrunable(DatesOnDisk(ref, schedule), Retention[schedule])

MustStop(s) == StopApps /\ ~s.keepRunning

AfterPre(s, running) == IF MustStop(s) /\ running THEN "stop" ELSE "archive"

\* The tail of the `finally` block: the post hook, then the end of the app.
AfterStart(s) == IF s.post THEN "post" ELSE "leave"

\* For mutation: the restart is skipped when the app's backup has failed.
StartOnlyOnSuccess(stopped, s, e) ==
    IF stopped /\ e = "none" THEN "start" ELSE AfterStart(s)

\* For mutation: the post hook is skipped when the app was not stopped.
PostOnlyAfterStart(stopped, s, e) == IF stopped THEN "start" ELSE "leave"

\* Leaving the try block, by its end or by exception e.
FinallyPc(stopped, s, e) == IF stopped THEN "start" ELSE AfterStart(s)

\* Exception e (or none) ends the try block.
LeaveTry(stopped, e) ==
    /\ exc' = e
    /\ pc' = FinallyPc(stopped, settings, e)

ForgetLocals ==
    /\ ref' = NoApp /\ settings' = NoSettings
    /\ wasRunning' = FALSE /\ stoppedByUs' = FALSE /\ restartError' = FALSE
    /\ exc' = "none"

\* run_backup raises, or is killed.
EndRun(outcome) ==
    /\ result' = outcome
    /\ pc' = "idle"
    /\ ForgetLocals
    /\ UNCHANGED <<schedule, day, todo, createdFiles, failures,
                   up, disk, today, history>>

-----------------------------------------------------------------------------
(* run_backup up to the loop over the apps.                                *)

BeginRun(s, chosen) ==
    /\ pc = "idle"
    /\ pc' = "discover"
    /\ schedule' = s /\ targets' = chosen
    /\ todo' = {} /\ createdFiles' = {} /\ failures' = {}
    /\ result' = "running"
    /\ upBefore' = up /\ owed' = {}
    /\ cleanup' = [a \in Apps |-> "none"]
    /\ UNCHANGED <<day, locals, up, disk, today>>

DiscoverApps ==
    /\ pc = "discover"
    /\ targets # {}
    /\ pc' = "next"
    /\ todo' = targets /\ day' = today
    /\ UNCHANGED <<schedule, createdFiles, failures, result, locals, up, disk,
                   today, history>>

DiscoverNothing ==
    /\ pc = "discover"
    /\ targets = {}
    /\ EndRun("success")

\* No apps directory, or no runtipi-cli.
DiscoverFails == pc = "discover" /\ EndRun("failed")

\* For mutation: the app is not taken off the list.
Requeue(a) == todo

Remaining(a) == todo \ {a}

NextApp ==
    /\ pc = "next"
    /\ \E a \in todo :
        /\ \A b \in todo : Rank[a] <= Rank[b]
        /\ ref' = a
        /\ todo' = Remaining(a)
    /\ pc' = "check"
    /\ UNCHANGED <<schedule, day, createdFiles, failures, result, settings,
                   wasRunning, stoppedByUs, restartError, exc, up, disk, today,
                   history>>

AllAppsDone ==
    /\ pc = "next"
    /\ todo = {}
    /\ pc' = "sync"
    /\ UNCHANGED <<runVars, locals, up, disk, today, history>>

-----------------------------------------------------------------------------
(* _backup_one_app before its try block.                                   *)

CheckApp ==
    /\ pc = "check"
    /\ \E labels \in VisibleLabels(ref), running \in SeenRunning(ref, up) :
        /\ settings' = RunnerSettings(ref, labels)
        /\ wasRunning' = running
        /\ pc' = IF settings'.pre THEN "pre" ELSE AfterPre(settings', running)
    /\ UNCHANGED <<runVars, ref, stoppedByUs, restartError, exc, up, disk,
                   today, history>>

PostHookDue == IF settings.post THEN [cleanup EXCEPT ![ref] = "due"]
               ELSE cleanup

\* `docker exec` needs a container that really runs.
PreHook ==
    /\ pc = "pre"
    /\ wasRunning /\ up[ref]
    /\ pc' = AfterPre(settings, wasRunning)
    /\ cleanup' = PostHookDue
    /\ UNCHANGED <<runVars, locals, up, disk, today, upBefore, targets, owed>>

PreHookFails ==
    /\ pc = "pre"
    /\ exc' = "CommandError" /\ pc' = "leave"
    /\ UNCHANGED <<runVars, ref, settings, wasRunning, stoppedByUs,
                   restartError, up, disk, today, history>>

\* An exit with zero is believed, and with the fault "stop" it may be wrong.
StopApp ==
    /\ pc = "stop"
    /\ \E down \in {TRUE, "stop" \notin Faults} : up' = [up EXCEPT ![ref] = @ /\ ~down]
    /\ owed' = IF up[ref] /\ ~up'[ref] THEN owed \cup {ref} ELSE owed
    /\ stoppedByUs' = TRUE
    /\ pc' = "archive"
    /\ UNCHANGED <<runVars, ref, settings, wasRunning, restartError, exc, disk,
                   today, upBefore, targets, cleanup>>

\* For mutation: the error of a stop is ignored altogether.
IgnoreStopError(running) == FALSE

\* A failed stop is an error only if the app is seen to run afterwards.
StopFailed(running) == running

\* `runtipi-cli app stop` exits non-zero, whether or not the app went down.
StopReportsError ==
    /\ pc = "stop"
    /\ \E down \in BOOLEAN : up' = [up EXCEPT ![ref] = @ /\ ~down]
    /\ owed' = IF up[ref] /\ ~up'[ref] THEN owed \cup {ref} ELSE owed
    /\ \E running \in SeenRunning(ref, up') :
        IF StopFailed(running)
        THEN LeaveTry(FALSE, "CommandError") /\ UNCHANGED stoppedByUs
        ELSE stoppedByUs' = TRUE /\ pc' = "archive" /\ UNCHANGED exc
    /\ UNCHANGED <<runVars, ref, settings, wasRunning, restartError, disk,
                   today, upBefore, targets, cleanup>>

-----------------------------------------------------------------------------
(* The try block: archive, verify, prune.                                  *)

\* tarfile.open(dest_file, "w:gz") truncates an archive of the same day.
OpenArchive ==
    /\ pc = "archive"
    /\ disk' = [disk EXCEPT ![Dest] = "partial"]
    /\ cleanup' = PostHookDue
    /\ pc' = "write"
    /\ UNCHANGED <<runVars, locals, up, today, upBefore, targets, owed>>

WriteArchive ==
    /\ pc = "write"
    /\ \E content \in {"partial",
                       IF MustStop(settings) /\ up[ref] THEN "torn"
                       ELSE "good"} :
        disk' = [disk EXCEPT ![Dest] = content]
    /\ pc' = "verify"
    /\ UNCHANGED <<runVars, locals, up, today, history>>

VerifyArchive ==
    /\ pc = "verify"
    /\ disk[Dest] # "partial"
    /\ createdFiles' = createdFiles \cup {Dest}
    /\ pc' = "prune"
    /\ UNCHANGED <<schedule, day, todo, failures, result, locals, up, disk,
                   today, history>>

\* For mutation: the archive that failed verification is left on disk.
KeepCorrupt(content) == content

\* What is left of an archive that failed verification.
UnlinkCorrupt(content) == "none"

VerifyRejects ==
    /\ pc = "verify"
    /\ disk[Dest] = "partial"
    /\ disk' = [disk EXCEPT ![Dest] = UnlinkCorrupt(@)]
    /\ LeaveTry(stoppedByUs, "BackupVerificationError")
    /\ UNCHANGED <<runVars, ref, settings, wasRunning, stoppedByUs,
                   restartError, up, today, history>>

\* One unlink; select_prunable lists the newest prunable archive first, and
\* unlinking it leaves the others prunable.
PruneOne ==
    /\ pc = "prune"
    /\ \E d \in Prunable :
        /\ NewerThan(d, Prunable) = {}
        /\ disk' = [disk EXCEPT ![<<ref, schedule, d>>] = "none"]
    /\ UNCHANGED <<pc, runVars, locals, up, today, history>>

PruneDone ==
    /\ pc = "prune"
    /\ Prunable = {}
    /\ LeaveTry(stoppedByUs, "none")
    /\ UNCHANGED <<runVars, ref, settings, wasRunning, stoppedByUs,
                   restartError, up, disk, today, history>>

-----------------------------------------------------------------------------
(* The finally block, and the handler around the app in run_backup.        *)

StartApp ==
    /\ pc = "start"
    /\ up' = [up EXCEPT ![ref] = TRUE]
    /\ owed' = owed \ {ref}
    /\ pc' = AfterStart(settings)
    /\ UNCHANGED <<runVars, locals, disk, today, upBefore, targets, cleanup>>

\* A non-zero exit or the timeout; the app may come up all the same.
StartFails ==
    /\ pc = "start"
    /\ \E started \in BOOLEAN : up' = [up EXCEPT ![ref] = @ \/ started]
    /\ owed' = owed \ {ref}
    /\ restartError' = TRUE
    /\ pc' = AfterStart(settings)
    /\ UNCHANGED <<runVars, ref, settings, wasRunning, stoppedByUs, exc, disk,
                   today, upBefore, targets, cleanup>>

PostHook ==
    /\ pc = "post"
    /\ up[ref] /\ TRUE \in SeenRunning(ref, up)
    /\ cleanup' = [cleanup EXCEPT ![ref] = "none"]
    /\ pc' = "leave"
    /\ UNCHANGED <<runVars, locals, up, disk, today, upBefore, targets, owed>>

\* The error of the hook replaces the exception that was on its way.
PostHookFails ==
    /\ pc = "post"
    /\ cleanup' = [cleanup EXCEPT ![ref] = "failed"]
    /\ exc' = "CommandError"
    /\ pc' = "leave"
    /\ UNCHANGED <<runVars, ref, settings, wasRunning, stoppedByUs,
                   restartError, up, disk, today, upBefore, targets, owed>>

\* For mutation: a failed restart is printed and not raised again.
DropRestartError == exc

\* `if restart_error is not None: raise restart_error` ends the finally.
Raised == IF restartError THEN "CommandError" ELSE exc

\* For mutation: only the error of a command is isolated.
OnlyCommandErrors == {"CommandError"}

\* The exceptions run_backup records before it goes on with the next app.
Isolated == {"CommandError", "BackupVerificationError"}

\* For mutation: the failure is printed only.
PrintOnly == failures

RecordFailure == failures \cup {ref}

AppDone ==
    /\ pc = "leave"
    /\ Raised \in {"none"} \cup Isolated
    /\ failures' = IF Raised = "none" THEN failures ELSE RecordFailure
    /\ pc' = "next"
    /\ ForgetLocals
    /\ UNCHANGED <<schedule, day, todo, createdFiles, result, up, disk, today,
                   history>>

AppAbortsRun ==
    /\ pc = "leave"
    /\ Raised \notin {"none"} \cup Isolated
    /\ EndRun("failed")

\* sync_to_remotes, then BackupRunError if any app failed.
SyncRemotes ==
    /\ pc = "sync"
    /\ EndRun(IF failures = {} THEN "success" ELSE "failed")

SyncFails == pc = "sync" /\ EndRun("failed")

-----------------------------------------------------------------------------
(* Exceptions of other kinds: the progress callback raises (the            *)
(* dashboard's state file cannot be written), or a file operation does.    *)

\* In the try block: the report "archiving", an unusable exclude pattern, a
\* file of the app that vanishes, a full disk, an unlink.
RaisesInTry ==
    /\ \/ pc = "archive" /\ Faults \cap {"progress", "io"} # {}
       \/ pc = "write" /\ "io" \in Faults
       \/ pc = "verify" /\ "io" \in Faults /\ disk[Dest] = "partial"
       \/ pc = "prune" /\ "io" \in Faults /\ Prunable # {}
    /\ cleanup' = IF pc = "archive" THEN PostHookDue ELSE cleanup
    /\ LeaveTry(stoppedByUs, "OtherError")
    /\ UNCHANGED <<runVars, ref, settings, wasRunning, stoppedByUs,
                   restartError, up, disk, today, upBefore, targets, owed>>

\* Before the try block (mkdir, the report "stopping"), or in the finally
\* block before app_start (the report "starting"): the rest is skipped.
RaisesOutsideTry ==
    /\ \/ pc = "check" /\ "io" \in Faults
       \/ pc \in {"stop", "start"} /\ "progress" \in Faults
    /\ exc' = "OtherError" /\ pc' = "leave"
    /\ UNCHANGED <<runVars, ref, settings, wasRunning, stoppedByUs,
                   restartError, up, disk, today, history>>

\* The reports of run_backup itself: "discovering", "preparing",
\* "app-complete" or "app-failed", "syncing".
ReportRunFails ==
    /\ "progress" \in Faults
    /\ \/ pc \in {"discover", "sync"}
       \/ pc = "next" /\ todo # {}
       \/ pc = "leave" /\ Raised \in {"none"} \cup Isolated
    /\ EndRun("failed")

Crash ==
    /\ "crash" \in Faults
    /\ pc # "idle"
    /\ EndRun("crashed")

NextDay ==
    /\ today < MaxDay
    /\ today' = today + 1
    /\ UNCHANGED <<pc, runVars, locals, up, disk, history>>

-----------------------------------------------------------------------------
\* Steps that end because the code, or a bounded command, ends them.
BoundedStep ==
    \/ DiscoverApps \/ DiscoverNothing \/ DiscoverFails
    \/ NextApp \/ AllAppsDone
    \/ OpenArchive \/ WriteArchive \/ VerifyArchive \/ VerifyRejects
    \/ PruneOne \/ PruneDone
    \/ StartApp \/ StartFails
    \/ AppDone \/ AppAbortsRun
    \/ SyncRemotes \/ SyncFails

\* Steps that wait for docker commands, which have no timeout.
DockerStep == CheckApp \/ PreHook \/ PreHookFails \/ PostHook \/ PostHookFails

\* Steps that wait for `runtipi-cli app stop`, which has no timeout either.
StopStep == StopApp \/ StopReportsError

\* What need never happen.
Mishap == RaisesInTry \/ RaisesOutsideTry \/ ReportRunFails \/ Crash

Next ==
    \/ \E s \in Schedules, chosen \in SUBSET Apps : BeginRun(s, chosen)
    \/ BoundedStep
    \/ DockerStep
    \/ StopStep
    \/ Mishap
    \/ NextDay

Spec == Init /\ [][Next]_vars

\* The process is scheduled, app_start and the requests to rclone have a
\* timeout; the other commands may wait for ever.
FairSpec == Spec /\ WF_vars(BoundedStep)

-----------------------------------------------------------------------------
(* Safety.                                                                 *)

\* runner.py:347, README.md:51: an app this run took down is the app in
\* progress, the run remembers that it stopped it, and a call of app_start
\* still lies ahead on whatever path the run takes.
RestartOwed ==
    \A a \in owed : /\ a = ref /\ stoppedByUs
                    /\ pc \in {"archive", "write", "verify", "prune", "start"}

\* schema.py:72, runner.py:367: once the pre hook has succeeded, or the
\* archive has been attempted, the post hook of the app still lies ahead
\* until it has been called, however the archive, its verification and the
\* restart ended.
PostHookOwed ==
    \A a \in Apps : cleanup[a] = "due" =>
        /\ a = ref /\ settings.post
        /\ pc \in {"stop", "archive", "write", "verify", "prune", "start",
                   "post"}

\* A run that reports success leaves every app up or down as it found it,
\* and no post hook undone.
SuccessRestoresApps ==
    result = "success" => up = upBefore /\ \A a \in Apps : cleanup[a] = "none"

\* A run that reports success has a readable archive of every app it was
\* asked for, still on disk after its own pruning.
SuccessMeansBackedUp ==
    result = "success" => \A a \in targets :
        /\ <<a, schedule, day>> \in createdFiles
        /\ disk[<<a, schedule, day>>] \in {"good", "torn"}

\* runner.py:324: no corrupt archive is left on disk by the run, except the
\* one it is just writing.
NoCorruptSurvives ==
    \A f \in Files : disk[f] = "partial" => f = Dest /\ pc \in {"write", "verify"}

\* README.md:39: no archive of an app that had to be stopped was taken while
\* the app ran.  What the code knows of that are the exit of the stop and, if
\* that is not zero, the answer of docker; it holds where both are right.
ArchivesConsistent == \A f \in Files : disk[f] # "torn"

\* runner.py:27, README.md:50: a run that ends, well or with failed apps, has
\* been through every app.
FailureIsolation == result \in {"success", "failed"} => todo = {}

(* Action properties.                                                      *)

\* An app that was down when the run began is never brought up by it.
NoSpuriousStart ==
    [][\A a \in Apps : ~up[a] /\ up'[a] => upBefore[a]]_vars

\* container.py:120: an app that config.yaml says to keep running is never
\* taken down, whatever its labels say and whether or not docker answers.
PipelineNeverStopped ==
    [][\A a \in Apps : Config[a]["keep_running"] = TRUE /\ up[a] => up'[a]]_vars

\* runner.py:324: a good archive goes away only when it is rewritten on its
\* own day, or when as many newer good archives of the app and schedule
\* remain as the retention asks for.
GoodBackupsKept ==
    [][\A f \in Files : disk[f] = "good" /\ disk'[f] # "good" =>
         \/ f = Dest /\ pc = "archive"
         \/ Cardinality({d \in Days : d > f[3] /\ disk'[<<f[1], f[2], d>>] = "good"})
              >= Retention[f[2]]]_vars

(* Liveness.                                                               *)

\* runtipi_cli.py:93: a run comes to its end, or hangs in a docker command or
\* a stop, which have no timeout: nothing else, and no start, can hold it up.
RunEndsOrHangs ==
    []<>(pc = "idle") \/ <>[](pc \in {"check", "pre", "stop", "post"})
=============================================================================
