------------------------ MODULE BackupOutcomeProofs ------------------------
(***************************************************************************)
(* Proofs about what a run of BackupRunner leaves behind: the apps as it   *)
(* found them, a readable archive of each, consistent archives, and as     *)
(* many good ones as the retention asks for.                               *)
(***************************************************************************)
EXTENDS BackupRunnerProofs, RetentionProofs

-----------------------------------------------------------------------------
(* Where a run is, and the dates on disk.                                  *)

\* A run under way has no result yet; an app is in progress only in the
\* steps of _backup_one_app; nothing is dated after the run that is the
\* latest.
RunInv ==
    /\ pc # "idle" => result = "running"
    /\ pc \notin AppSteps => ref = NoApp
    /\ pc = "discover" => failures = {}
    /\ pc = "sync" => todo = {}
    /\ day <= today
    /\ \A f \in Files : disk[f] # "none" => f[3] <= day

\* As long as no app has failed: all apps but the one in progress are as the
\* run found them, that one is, unless the run stopped it and did not start
\* it again, and no post hook has been left out.
AppsInv ==
    /\ (failures = {} /\ pc # "idle") \/ result = "success" =>
           \A a \in Apps \ {ref} : up[a] = upBefore[a] /\ cleanup[a] = "none"
    /\ failures = {} =>
           /\ pc \in {"check", "pre"} =>
                  up[ref] = upBefore[ref] /\ cleanup[ref] = "none"
           /\ pc \in {"stop", "archive", "write", "verify", "prune", "start", "post"} =>
                  /\ cleanup[ref] # "failed"
                  /\ cleanup[ref] = "due" => settings.post
           /\ pc = "stop" => up[ref] = upBefore[ref]
           /\ pc \in {"archive", "write", "verify", "prune"} =>
                  stoppedByUs \/ up[ref] = upBefore[ref]
           /\ pc \in {"post", "leave"} /\ Raised = "none" => up[ref] = upBefore[ref]
           /\ pc = "leave" /\ Raised = "none" => cleanup[ref] = "none"

\* An archive taken of an app that had to be stopped is taken while it is
\* down.
ConsistentInv ==
    /\ ArchivesConsistent
    /\ pc \in {"archive", "write"} /\ MustStop(settings) => ~up[ref]

\* A readable archive of the day.
BackedUp(a) ==
    /\ <<a, schedule, day>> \in createdFiles
    /\ disk[<<a, schedule, day>>] \in {"good", "torn"}

\* As long as no app has failed, the apps that had their turn are backed up,
\* the one in progress as soon as its archive has been verified.
BackedUpInv ==
    /\ SuccessMeansBackedUp
    /\ pc \notin {"idle", "discover"} /\ failures = {} =>
           /\ \A a \in targets : a \notin todo /\ a # ref => BackedUp(a)
           /\ pc = "prune" => BackedUp(ref)
           /\ pc \in {"start", "post", "leave"} /\ exc = "none" => BackedUp(ref)

\* The archive being written is incomplete until it is; there is something
\* to verify.
WritingInv ==
    /\ pc = "write" => disk[Dest] = "partial"
    /\ pc = "verify" => disk[Dest] # "none"

-----------------------------------------------------------------------------
(* Bookkeeping.                                                            *)

LEMMA RunInit == Init => RunInv
BY ScheduleAssumption DEF Init, RunInv, AppSteps

\* The end of a run leaves the apps and the disk alone.
LEMMA RunEnds ==
    ASSUME RunInv, NEW outcome, EndRun(outcome)
    PROVE  RunInv'
BY DEF RunInv, EndRun, ForgetLocals, AppSteps

LEMMA RunStep == TypeOK /\ RefOK /\ RunInv /\ [Next]_vars => RunInv'
<1> SUFFICES ASSUME TypeOK, RefOK, RunInv, [Next]_vars PROVE RunInv'
    OBVIOUS
<1> USE DEF RunInv, AppSteps, runVars, locals, history
<1>1. day \in Int /\ today \in Int /\ \A f \in Files : f[3] \in Int
      BY DEF TypeOK, Days, Files
<1>2. ASSUME NEW s \in Schedules, NEW chosen \in SUBSET Apps, BeginRun(s, chosen)
      PROVE  RunInv'
      BY <1>2 DEF BeginRun
<1>3. CASE DiscoverApps
      BY <1>1, <1>3 DEF DiscoverApps
<1>4. CASE DiscoverNothing \/ DiscoverFails \/ AppAbortsRun \/ SyncRemotes
           \/ SyncFails \/ ReportRunFails \/ Crash
      BY <1>4, RunEnds DEF DiscoverNothing, DiscoverFails, AppAbortsRun,
                          SyncRemotes, SyncFails, ReportRunFails, Crash
<1>5. CASE NextApp \/ AllAppsDone \/ AppDone
      BY <1>5 DEF NextApp, AllAppsDone, AppDone, ForgetLocals
\* Steps of an app that write nothing.
<1>6. ASSUME pc \in AppSteps, pc' \in AppSteps, disk' = disk,
             UNCHANGED <<day, today, result, ref>>
      PROVE  RunInv'
      BY <1>6
<1>7. CASE VerifyArchive \/ PruneDone \/ StartApp \/ StartFails \/ RaisesInTry
           \/ RaisesOutsideTry
      BY <1>6, <1>7 DEF VerifyArchive, PruneDone, StartApp, StartFails, RaisesInTry,
                  RaisesOutsideTry, LeaveTry, FinallyPc, AfterStart
<1>8. CASE PreHook \/ PreHookFails \/ PostHook \/ PostHookFails
      BY <1>6, <1>8 DEF PreHook, PreHookFails, PostHook, PostHookFails, AfterPre
<1>9. CASE CheckApp
      BY <1>6, <1>9 DEF CheckApp, AfterPre
<1>10. CASE StopApp \/ StopReportsError
       BY <1>6, <1>10 DEF StopApp, StopReportsError, LeaveTry, FinallyPc, AfterStart
\* Steps that write the archive of the day, or remove archives.
<1>11. ASSUME pc \in AppSteps, pc' \in AppSteps, UNCHANGED <<day, today, result, ref>>,
              \A f \in Files : disk'[f] \in {disk[f], "none"} \/ f[3] = day
       PROVE  RunInv'
  <2>1. ASSUME NEW f \in Files, disk'[f] # "none" PROVE f[3] <= day
        BY <1>1, <1>11, <2>1
  <2>2. QED
        BY <1>11, <2>1
<1>12. CASE OpenArchive \/ WriteArchive \/ VerifyRejects
  <2>1. \A f \in Files : f # Dest => disk'[f] = disk[f]
        BY <1>12 DEF OpenArchive, WriteArchive, VerifyRejects, TypeOK
  <2>2. QED
        BY <1>11, <1>12, <2>1 DEF Dest, OpenArchive, WriteArchive, VerifyRejects,
                            LeaveTry, FinallyPc, AfterStart
<1>13. CASE PruneOne
  <2>1. \A f \in Files : disk'[f] \in {disk[f], "none"}
        BY <1>13 DEF PruneOne, TypeOK
  <2>2. QED
        BY <1>11, <1>13, <2>1 DEF PruneOne
<1>14. CASE NextDay \/ UNCHANGED vars
       BY <1>1, <1>14 DEF NextDay, vars
<1>15. QED
       BY <1>2, <1>3, <1>4, <1>5, <1>7, <1>8, <1>9, <1>10, <1>12, <1>13, <1>14
       DEF Next, BoundedStep, DockerStep, StopStep, Mishap

-----------------------------------------------------------------------------
(* Apps and hooks.                                                         *)

\* The end of a run: what is claimed of a success has to hold already.
LEMMA AppsEnd ==
    ASSUME RunInv, AppsInv, NEW outcome, EndRun(outcome), pc # "idle",
           outcome = "success" => failures = {} /\ pc \notin AppSteps
    PROVE  AppsInv'
<1>1. /\ result' = outcome /\ pc' = "idle" /\ ref' = NoApp
      /\ UNCHANGED <<failures, up, upBefore, cleanup>>
      BY DEF EndRun, ForgetLocals, history
<1>2. ASSUME outcome = "success", NEW a \in Apps \ {ref'}
      PROVE  up[a] = upBefore[a] /\ cleanup[a] = "none"
      BY <1>1, <1>2 DEF RunInv, AppsInv
<1>3. QED
      BY <1>1, <1>2 DEF AppsInv

LEMMA AppsStep ==
    ASSUME ExactNameMatches, TypeOK, RefOK, RunInv, FoundInv, AppsInv, [Next]_vars
    PROVE  AppsInv'
<1> USE DEF TypeOK, RefOK, AppSteps, runVars, locals, history
<1>1. ASSUME NEW s \in Schedules, NEW chosen \in SUBSET Apps, BeginRun(s, chosen)
      PROVE  AppsInv'
      BY <1>1 DEF BeginRun, AppsInv
<1>2. CASE DiscoverApps \/ AllAppsDone
      BY <1>2 DEF DiscoverApps, AllAppsDone, AppsInv, RunInv
<1>3. CASE NextApp
  <2>1. PICK a \in todo : ref' = a
        BY <1>3 DEF NextApp
  <2>2. /\ pc = "next" /\ pc' = "check" /\ ref = NoApp /\ a \in Apps /\ a # NoApp
        /\ result # "success" /\ UNCHANGED <<failures, result, up, upBefore, cleanup>>
        BY <1>3, <2>1, NamesAssumption DEF NextApp, RunInv
  <2>3. failures = {} => \A b \in Apps : up[b] = upBefore[b] /\ cleanup[b] = "none"
        BY <2>2, NamesAssumption DEF AppsInv
  <2>4. QED
        BY <2>1, <2>2, <2>3 DEF AppsInv
<1>4. CASE DiscoverNothing \/ DiscoverFails \/ SyncRemotes \/ SyncFails
      BY <1>4, AppsEnd
      DEF RunInv, DiscoverNothing, DiscoverFails, SyncRemotes, SyncFails
<1>5. CASE AppAbortsRun \/ ReportRunFails \/ Crash
      BY <1>5, AppsEnd DEF AppAbortsRun, ReportRunFails, Crash
<1>6. CASE CheckApp
      BY <1>6 DEF CheckApp, AfterPre, AppsInv, FoundInv
<1>7. CASE PreHook \/ OpenArchive
      BY <1>7 DEF PreHook, OpenArchive, PostHookDue, AfterPre, AppsInv
<1>8. CASE PreHookFails \/ RaisesOutsideTry
      BY <1>8 DEF PreHookFails, RaisesOutsideTry, AppsInv, Raised
<1>9. CASE WriteArchive \/ VerifyArchive \/ PruneOne
      BY <1>9 DEF WriteArchive, VerifyArchive, PruneOne, AppsInv
<1>10. CASE VerifyRejects \/ PruneDone
       BY <1>10 DEF VerifyRejects, PruneDone, LeaveTry, FinallyPc, AfterStart, AppsInv,
                    Raised
<1>11. CASE RaisesInTry
       BY <1>11 DEF RaisesInTry, PostHookDue, LeaveTry, FinallyPc, AfterStart,
                    AppsInv, Raised
<1>12. CASE StopApp
       BY <1>12 DEF StopApp, AppsInv
<1>13. CASE StopReportsError
       BY <1>13 DEF StopReportsError, LeaveTry, FinallyPc, AfterStart, AppsInv, Raised
<1>14. CASE StartApp \/ StartFails
  <2>1. /\ pc = "start" /\ ref \in Apps /\ upBefore[ref] /\ pc' = AfterStart(settings)
        /\ \A a \in Apps \ {ref} : up'[a] = up[a]
        /\ UNCHANGED <<failures, result, ref, settings, upBefore, cleanup>>
        BY <1>14 DEF StartApp, StartFails, FoundInv
  <2>2. Raised' = "none" => up'[ref]
        BY <1>14, <2>1 DEF StartApp, StartFails, Raised
  <2>3. pc' \in {"post", "leave"} /\ (pc' = "leave" => ~settings.post)
        BY <2>1 DEF AfterStart
  <2>4. up'[ref] \in BOOLEAN /\ upBefore[ref] \in BOOLEAN
        /\ cleanup[ref] \in {"none", "due", "failed"}
        BY <1>14, <2>1 DEF StartApp, StartFails
  <2>5. Raised' = "none" => up'[ref] = upBefore[ref]
        BY <2>1, <2>2, <2>4
  <2>6. failures = {} /\ pc' = "leave" => cleanup[ref] = "none"
        BY <2>1, <2>3, <2>4 DEF AppsInv
  <2>7. failures = {} \/ result = "success"
            => \A a \in Apps \ {ref} : up'[a] = upBefore[a] /\ cleanup[a] = "none"
        BY <2>1 DEF AppsInv
  <2>8. QED
        BY <2>1, <2>3, <2>4, <2>5, <2>6, <2>7 DEF AppsInv
<1>15. CASE PostHook \/ PostHookFails
  <2>1. /\ pc = "post" /\ pc' = "leave" /\ ref \in Apps
        /\ \A a \in Apps \ {ref} : cleanup'[a] = cleanup[a]
        /\ UNCHANGED <<failures, result, ref, up, upBefore>>
        BY <1>15 DEF PostHook, PostHookFails
  <2>2. Raised' = "none" => cleanup'[ref] = "none" /\ Raised = "none"
        BY <1>15, <2>1 DEF PostHook, PostHookFails, Raised
  <2>3. QED
        BY <2>1, <2>2 DEF AppsInv
<1>16. CASE AppDone
       BY <1>16 DEF AppDone, ForgetLocals, RecordFailure, AppsInv, RunInv
<1>17. CASE NextDay \/ UNCHANGED vars
       BY <1>17 DEF NextDay, vars, AppsInv, Raised
<1>18. QED
       BY <1>1, <1>2, <1>3, <1>4, <1>5, <1>6, <1>7, <1>8, <1>9, <1>10, <1>11,
          <1>12, <1>13, <1>14, <1>15, <1>16, <1>17
       DEF Next, BoundedStep, DockerStep, StopStep, Mishap

\* A run that reports success leaves every app up or down as it found it and
\* no post hook undone, under any faults, as long as the docker filter tells
\* the apps apart: an app that was not started again is a failed app.
THEOREM AppsAsFound ==
    ASSUME ExactNameMatches
    PROVE  Spec => []SuccessRestoresApps
<1>1. Init => RunInv /\ FoundInv /\ AppsInv
  <2>1. Init => FoundInv
        BY DEF Init, FoundInv, AppSteps
  <2>2. Init => AppsInv
        BY DEF Init, AppsInv
  <2>3. QED
        BY <2>1, <2>2, RunInit
<1>2. TypeOK /\ RefOK /\ RunInv /\ FoundInv /\ AppsInv /\ [Next]_vars
          => RunInv' /\ FoundInv' /\ AppsInv'
      BY RunStep, FoundStep, AppsStep
<1>3. TypeOK /\ RunInv /\ AppsInv => SuccessRestoresApps
  <2> SUFFICES ASSUME TypeOK, RunInv, AppsInv, result = "success"
               PROVE  up = upBefore /\ \A a \in Apps : cleanup[a] = "none"
      BY DEF SuccessRestoresApps
  <2>1. ref = NoApp
        BY DEF RunInv, AppSteps
  <2>2. \A a \in Apps : up[a] = upBefore[a] /\ cleanup[a] = "none"
        BY <2>1, NamesAssumption DEF AppsInv
  <2>3. QED
        BY <2>2 DEF TypeOK
<1>4. QED
      BY TypeInit, TypeStep, <1>1, <1>2, <1>3, PTL DEF Spec

-----------------------------------------------------------------------------
(* Consistent archives.                                                    *)

LEMMA ConsistentStep ==
    ASSUME {"docker", "stop"} \cap Faults = {}, ExactNameMatches,
           TypeOK, RefOK, FoundInv, ConsistentInv, [Next]_vars
    PROVE  ConsistentInv'
<1> USE DEF TypeOK, RefOK, ConsistentInv, ArchivesConsistent, AppSteps, runVars,
            locals, history
<1>1. ASSUME pc' \notin {"archive", "write"}, disk' = disk PROVE ConsistentInv'
      BY <1>1
<1>2. ASSUME NEW s \in Schedules, NEW chosen \in SUBSET Apps, BeginRun(s, chosen)
      PROVE  ConsistentInv'
      BY <1>2 DEF BeginRun
<1>3. CASE DiscoverApps \/ DiscoverNothing \/ DiscoverFails \/ NextApp
           \/ AllAppsDone \/ AppDone \/ AppAbortsRun \/ SyncRemotes \/ SyncFails
           \/ ReportRunFails \/ Crash
      BY <1>1, <1>3 DEF DiscoverApps, DiscoverNothing, DiscoverFails, NextApp,
                        AllAppsDone, AppDone, AppAbortsRun, SyncRemotes,
                        SyncFails, ReportRunFails, Crash, EndRun
<1>4. CASE VerifyArchive \/ PruneDone \/ StartApp \/ StartFails \/ RaisesInTry
           \/ RaisesOutsideTry \/ PreHookFails \/ PostHook \/ PostHookFails
      BY <1>1, <1>4 DEF VerifyArchive, PruneDone, StartApp, StartFails,
                        RaisesInTry, RaisesOutsideTry, PreHookFails, PostHook,
                        PostHookFails, LeaveTry, FinallyPc, AfterStart
\* The query of docker is answered, and only for the app.
<1>5. CASE CheckApp
  <2>1. PICK labels \in VisibleLabels(ref), running \in SeenRunning(ref, up) :
            /\ settings' = RunnerSettings(ref, labels)
            /\ wasRunning' = running
            /\ pc' = IF settings'.pre THEN "pre" ELSE AfterPre(settings', running)
        BY <1>5 DEF CheckApp
  <2>2. ref \in Apps /\ UNCHANGED <<ref, up, disk>>
        BY <1>5 DEF CheckApp
  <2>3. running = up[ref]
    <3>1. NameMatches[ref] = {ref} /\ up[ref] \in BOOLEAN
          BY <2>2 DEF ExactNameMatches
    <3>2. SeenRunning(ref, up) = {\E b \in NameMatches[ref] : up[b]}
          BY DEF SeenRunning
    <3>3. QED
          BY <2>1, <3>1, <3>2
  <2>4. pc' = "archive" \/ pc' = "write" => ~(MustStop(settings') /\ running)
        BY <2>1 DEF AfterPre
  <2>5. QED
        BY <2>2, <2>3, <2>4 DEF MustStop
<1>6. CASE PreHook
  <2>1. /\ wasRunning /\ pc' = AfterPre(settings, wasRunning)
        /\ UNCHANGED <<ref, settings, up, disk>>
        BY <1>6 DEF PreHook
  <2>2. pc' = "archive" \/ pc' = "write" => ~MustStop(settings)
        BY <2>1 DEF AfterPre
  <2>3. QED
        BY <2>1, <2>2 DEF MustStop
<1>7. CASE StopApp
  <2>1. ref \in Apps /\ up' = [up EXCEPT ![ref] = FALSE]
        /\ UNCHANGED <<ref, disk>>
        BY <1>7 DEF StopApp
  <2>2. QED
        BY <2>1
<1>8. CASE StopReportsError
  <2>1. ref \in Apps /\ UNCHANGED <<ref, settings, disk>>
        BY <1>8 DEF StopReportsError
  <2>2. PICK running \in SeenRunning(ref, up') :
            IF StopFailed(running)
            THEN LeaveTry(FALSE, "CommandError") /\ UNCHANGED stoppedByUs
            ELSE stoppedByUs' = TRUE /\ pc' = "archive" /\ UNCHANGED exc
        BY <1>8 DEF StopReportsError
  <2>3. running = up'[ref]
    <3>1. NameMatches[ref] = {ref} /\ up'[ref] \in BOOLEAN
          BY <1>8, <2>1 DEF ExactNameMatches, StopReportsError
    <3>2. SeenRunning(ref, up') = {\E b \in NameMatches[ref] : up'[b]}
          BY DEF SeenRunning
    <3>3. QED
          BY <2>2, <3>1, <3>2
  <2>4. CASE running
        BY <1>1, <2>1, <2>2, <2>4 DEF StopFailed, LeaveTry, FinallyPc, AfterStart
  <2>5. CASE ~running
        BY <2>1, <2>3, <2>5
  <2>6. QED
        BY <2>2, <2>4, <2>5 DEF SeenRunning
<1>9. CASE OpenArchive
  <2>1. /\ pc = "archive" /\ pc' = "write" /\ disk' = [disk EXCEPT ![Dest] = "partial"]
        /\ UNCHANGED <<ref, settings, up>>
        BY <1>9 DEF OpenArchive
  <2>2. \A f \in Files : disk'[f] # "torn"
        BY <2>1
  <2>3. QED
        BY <2>1, <2>2 DEF MustStop
<1>10. CASE WriteArchive
  <2>1. PICK content \in {"partial", "good"} : disk' = [disk EXCEPT ![Dest] = content]
        BY <1>10 DEF WriteArchive
  <2>2. \A f \in Files : disk'[f] # "torn"
        BY <2>1
  <2>3. QED
        BY <1>10, <2>2 DEF WriteArchive
<1>11. CASE VerifyRejects \/ PruneOne
  <2>1. \A f \in Files : disk'[f] # "torn"
        BY <1>11 DEF VerifyRejects, UnlinkCorrupt, PruneOne
  <2>2. pc' \notin {"archive", "write"}
        BY <1>11 DEF VerifyRejects, PruneOne, LeaveTry, FinallyPc, AfterStart
  <2>3. QED
        BY <2>1, <2>2
<1>12. CASE NextDay \/ UNCHANGED vars
       BY <1>12 DEF NextDay, vars, MustStop
<1>13. QED
       BY <1>2, <1>3, <1>4, <1>5, <1>6, <1>7, <1>8, <1>9, <1>10, <1>11, <1>12
       DEF Next, BoundedStep, DockerStep, StopStep, Mishap

\* README.md:39: no archive of an app that had to be stopped is taken while it
\* runs, whatever hooks and files do or the process is killed for, and whether
\* or not a stop that reports an error has worked -- as long as one that exits
\* with zero has, and docker answers, for the right app.
THEOREM NothingTorn ==
    ASSUME {"docker", "stop"} \cap Faults = {}, ExactNameMatches
    PROVE  Spec => []ArchivesConsistent
<1>1. Init => FoundInv /\ ConsistentInv
      BY DEF Init, FoundInv, ConsistentInv, ArchivesConsistent, AppSteps
<1>2. TypeOK /\ RefOK /\ FoundInv /\ ConsistentInv /\ [Next]_vars
          => FoundInv' /\ ConsistentInv'
      BY FoundStep, ConsistentStep
<1>3. ConsistentInv => ArchivesConsistent
      BY DEF ConsistentInv
<1>4. QED
      BY TypeInit, TypeStep, <1>1, <1>2, <1>3, PTL DEF Spec

-----------------------------------------------------------------------------
(* A readable archive of every app.                                        *)

\* container.py:410: the dashboard's form accepts counts of at least one.
RetainsSome == \A s \in Schedules : Retention[s] >= 1

LEMMA DatesOnDiskAreDays ==
    ASSUME NEW a, NEW s
    PROVE  MaxDay \in Nat /\ DatesOnDisk(a, s) \in SUBSET (1 .. MaxDay)
BY ScheduleAssumption DEF DatesOnDisk, Days

\* The pruning of a run spares the archive of its own day.
LEMMA TodaySpared ==
    ASSUME RetainsSome, TypeOK, RunInv, ref \in Apps
    PROVE  day \notin Prunable
<1> DEFINE dates == DatesOnDisk(ref, schedule)
<1>1. ASSUME NEW d \in dates PROVE d <= day
  <2>1. d \in Days /\ disk[<<ref, schedule, d>>] # "none"
        BY DEF DatesOnDisk
  <2>2. <<ref, schedule, d>> \in Files
        BY <2>1 DEF Files, TypeOK
  <2>3. QED
        BY <2>1, <2>2 DEF RunInv
<1>2. MaxDay \in Nat /\ dates \in SUBSET (1 .. MaxDay)
      BY DatesOnDiskAreDays
<1>3. Retention[schedule] \in Int /\ Retention[schedule] >= 1
      BY ScheduleAssumption DEF TypeOK, RetainsSome
<1> HIDE DEF dates
<1>4. day \notin SelectPrunable(dates, Retention[schedule])
      BY <1>1, <1>2, <1>3, NewestKept
<1>5. QED
      BY <1>4 DEF dates, Prunable

\* The end of a run: a success has been through every app.
LEMMA BackedUpEnd ==
    ASSUME RunInv, BackedUpInv, NEW outcome, EndRun(outcome),
           outcome = "success" =>
               \/ pc = "sync" /\ failures = {} /\ targets \subseteq Apps
               \/ pc = "discover" /\ targets = {}
    PROVE  BackedUpInv'
<1>1. /\ result' = outcome /\ pc' = "idle"
      /\ UNCHANGED <<schedule, day, createdFiles, targets, disk>>
      BY DEF EndRun, history
<1>2. ASSUME pc = "sync", failures = {}, targets \subseteq Apps, NEW a \in targets
      PROVE  BackedUp(a)
      BY <1>2, NamesAssumption DEF RunInv, BackedUpInv, AppSteps
<1>3. QED
      BY <1>1, <1>2 DEF BackedUpInv, SuccessMeansBackedUp, BackedUp

LEMMA BackedUpStep ==
    ASSUME RetainsSome, TypeOK, RefOK, RunInv, WritingInv, BackedUpInv, [Next]_vars
    PROVE  BackedUpInv'
<1> USE DEF TypeOK, RefOK, AppSteps, runVars, locals, history
<1>1. ASSUME NEW s \in Schedules, NEW chosen \in SUBSET Apps, BeginRun(s, chosen)
      PROVE  BackedUpInv'
      BY <1>1 DEF BeginRun, BackedUpInv, SuccessMeansBackedUp
<1>2. CASE DiscoverApps
      BY <1>2 DEF DiscoverApps, BackedUpInv, SuccessMeansBackedUp, RunInv
<1>3. CASE DiscoverNothing \/ DiscoverFails \/ AppAbortsRun \/ SyncRemotes
           \/ SyncFails \/ ReportRunFails \/ Crash
      BY <1>3, BackedUpEnd DEF DiscoverNothing, DiscoverFails, AppAbortsRun,
                               SyncRemotes, SyncFails, ReportRunFails, Crash
\* What a step inside a run has to show: its effect on the archives.
<1> DEFINE Kept(a) == BackedUp(a) => BackedUp(a)'
<1>4. ASSUME pc \notin {"idle", "discover"}, pc' \notin {"idle", "discover"},
             UNCHANGED <<result, targets, failures, todo, ref>>,
             \A a \in targets : a # ref => Kept(a),
             failures = {} /\ pc' = "prune" => BackedUp(ref)',
             failures = {} /\ pc' \in {"start", "post", "leave"} /\ exc' = "none"
                 => BackedUp(ref)'
      PROVE  BackedUpInv'
  <2>1. result' # "success"
        BY <1>4 DEF RunInv
  <2>2. ASSUME failures' = {}, NEW a \in targets', a \notin todo', a # ref'
        PROVE  BackedUp(a)'
        BY <1>4, <2>2 DEF BackedUpInv
  <2> HIDE DEF Kept
  <2>3. QED
        BY <1>4, <2>1, <2>2 DEF BackedUpInv, SuccessMeansBackedUp
\* Steps that leave the archives alone.
<1>5. ASSUME UNCHANGED <<schedule, day, createdFiles, disk>>, NEW a
      PROVE  BackedUp(a)' <=> BackedUp(a)
      BY <1>5 DEF BackedUp
\* Steps that touch archives of the app in progress only.
<1>6. ASSUME UNCHANGED <<schedule, day>>, createdFiles \subseteq createdFiles',
             \A f \in Files : f[1] # ref => disk'[f] = disk[f],
             NEW a \in targets, a # ref
      PROVE  Kept(a)
  <2>1. <<a, schedule, day>> \in Files
        BY DEF Files
  <2>2. QED
        BY <1>6, <2>1 DEF BackedUp
<1>7. CASE NextApp
  <2>1. /\ pc = "next" /\ pc' = "check" /\ ref = NoApp /\ result # "success"
        /\ UNCHANGED <<schedule, day, createdFiles, disk, failures, result, targets>>
        /\ todo' = todo \ {ref'}
        BY <1>7 DEF NextApp, Remaining, RunInv
  <2>2. \A a \in targets : a \notin todo' /\ a # ref' => a \notin todo /\ a # ref
        BY <2>1, NamesAssumption
  <2>3. QED
        BY <2>1, <2>2 DEF BackedUpInv, BackedUp, SuccessMeansBackedUp
<1>8. CASE AllAppsDone
      BY <1>8 DEF AllAppsDone, BackedUpInv, BackedUp, SuccessMeansBackedUp, RunInv
<1>9. CASE CheckApp \/ PreHook \/ PreHookFails
      BY <1>4, <1>5, <1>9 DEF CheckApp, PreHook, PreHookFails, AfterPre
<1>10. CASE StopApp \/ StopReportsError
       BY <1>4, <1>5, <1>10 DEF StopApp, StopReportsError, LeaveTry, FinallyPc, AfterStart
<1>11. CASE OpenArchive \/ WriteArchive \/ VerifyRejects
  <2>1. \A f \in Files : f # Dest => disk'[f] = disk[f]
        BY <1>11 DEF OpenArchive, WriteArchive, VerifyRejects
  <2>2. \A f \in Files : f[1] # ref => disk'[f] = disk[f]
        BY <2>1 DEF Dest
  <2>3. QED
        BY <1>4, <1>6, <1>11, <2>2 DEF OpenArchive, WriteArchive, VerifyRejects,
                                       LeaveTry, FinallyPc, AfterStart
<1>12. CASE VerifyArchive
  <2>1. /\ pc = "verify" /\ pc' = "prune"
        /\ disk[Dest] \in Contents \ {"none", "partial"}
        /\ createdFiles' = createdFiles \cup {Dest}
        /\ UNCHANGED <<schedule, day, todo, failures, result, ref, disk, targets>>
        BY <1>12 DEF VerifyArchive, WritingInv, Dest, Files
  <2>2. BackedUp(ref)'
        BY <2>1 DEF BackedUp, Dest, Contents
  <2>3. \A a \in targets : a # ref => Kept(a)
        BY <1>6, <2>1
  <2>4. QED
        BY <1>4, <2>1, <2>2, <2>3
\* With retention at least one, the archive of the day is not pruned.
<1>13. CASE PruneOne
  <2>1. PICK d \in Prunable : disk' = [disk EXCEPT ![<<ref, schedule, d>>] = "none"]
        BY <1>13 DEF PruneOne
  <2>2. /\ pc = "prune" /\ ref \in Apps
        /\ UNCHANGED <<pc, schedule, day, todo, createdFiles, failures, result, ref, exc, targets>>
        BY <1>13 DEF PruneOne
  <2>3. d # day
        BY <2>2, TodaySpared
  <2>4. <<ref, schedule, day>> \in Files /\ <<ref, schedule, day>> # <<ref, schedule, d>>
        BY <2>2, <2>3 DEF Files
  <2>5. Kept(ref)
        BY <2>1, <2>2, <2>4 DEF BackedUp
  <2>6. \A f \in Files : f[1] # ref => disk'[f] = disk[f]
        BY <2>1
  <2>7. \A a \in targets : a # ref => Kept(a)
        BY <1>6, <2>2, <2>6
  <2>8. QED
        BY <1>4, <2>2, <2>5, <2>7 DEF BackedUpInv
<1>14. CASE PruneDone \/ StartApp \/ StartFails \/ PostHook \/ PostHookFails
       BY <1>4, <1>5, <1>14
       DEF PruneDone, StartApp, StartFails, PostHook, PostHookFails, LeaveTry,
           FinallyPc, AfterStart, BackedUpInv
<1>15. CASE RaisesInTry \/ RaisesOutsideTry
       BY <1>4, <1>5, <1>15
       DEF RaisesInTry, RaisesOutsideTry, LeaveTry, FinallyPc, AfterStart
<1>16. CASE AppDone
  <2>1. /\ pc = "leave" /\ pc' = "next" /\ ref' = NoApp /\ result # "success"
        /\ failures' = {} => failures = {} /\ Raised = "none"
        /\ UNCHANGED <<schedule, day, createdFiles, disk, result, targets, todo>>
        BY <1>16 DEF AppDone, ForgetLocals, RecordFailure, RunInv
  <2>2. Raised = "none" => exc = "none"
        BY DEF Raised
  <2>3. failures' = {} => \A a \in targets : a \notin todo => BackedUp(a)
        BY <2>1, <2>2 DEF BackedUpInv
  <2>4. QED
        BY <2>1, <2>3 DEF BackedUpInv, BackedUp, SuccessMeansBackedUp
<1>17. CASE NextDay \/ UNCHANGED vars
       BY <1>17 DEF NextDay, vars, BackedUpInv, BackedUp, SuccessMeansBackedUp
<1>18. QED
       BY <1>1, <1>2, <1>3, <1>7, <1>8, <1>9, <1>10, <1>11, <1>12, <1>13, <1>14,
          <1>15, <1>16, <1>17
       DEF Next, BoundedStep, DockerStep, StopStep, Mishap

LEMMA WritingStep == TypeOK /\ RefOK /\ WritingInv /\ [Next]_vars => WritingInv'
<1> SUFFICES ASSUME TypeOK, RefOK, WritingInv, [Next]_vars PROVE WritingInv'
    OBVIOUS
<1> USE DEF WritingInv, runVars, locals, history
<1>1. CASE pc' \notin {"write", "verify"}
      BY <1>1
<1>2. CASE OpenArchive
      BY <1>2 DEF OpenArchive, Dest, Files, TypeOK, RefOK, AppSteps
<1>3. CASE WriteArchive
      BY <1>3 DEF WriteArchive, Dest, Files, TypeOK, RefOK, AppSteps
<1>4. CASE NextDay \/ UNCHANGED vars
      BY <1>4 DEF NextDay, vars, Dest
<1>5. QED
  <2>1. ASSUME NEW s \in Schedules, NEW chosen \in SUBSET Apps, BeginRun(s, chosen)
        PROVE  WritingInv'
        BY <1>1, <2>1 DEF BeginRun
  <2>2. CASE DiscoverApps \/ DiscoverNothing \/ DiscoverFails \/ NextApp
             \/ AllAppsDone \/ AppDone \/ AppAbortsRun \/ SyncRemotes
             \/ SyncFails \/ ReportRunFails \/ Crash
        BY <1>1, <2>2 DEF DiscoverApps, DiscoverNothing, DiscoverFails, NextApp,
                          AllAppsDone, AppDone, AppAbortsRun, SyncRemotes,
                          SyncFails, ReportRunFails, Crash, EndRun
  <2>3. CASE VerifyArchive \/ VerifyRejects \/ PruneOne \/ PruneDone \/ StartApp
             \/ StartFails \/ RaisesInTry \/ RaisesOutsideTry
        BY <1>1, <2>3 DEF VerifyArchive, VerifyRejects, PruneOne, PruneDone,
                          StartApp, StartFails, RaisesInTry, RaisesOutsideTry,
                          LeaveTry, FinallyPc, AfterStart
  <2>4. CASE CheckApp \/ PreHook \/ PreHookFails \/ PostHook \/ PostHookFails
             \/ StopApp \/ StopReportsError
        BY <1>1, <2>4 DEF CheckApp, PreHook, PreHookFails, PostHook,
                          PostHookFails, StopApp, StopReportsError, AfterPre,
                          LeaveTry, FinallyPc, AfterStart
  <2>5. QED
        BY <1>2, <1>3, <1>4, <2>1, <2>2, <2>3, <2>4
        DEF Next, BoundedStep, DockerStep, StopStep, Mishap

\* A run that reports success has a readable archive of every app it was
\* asked for, still there after its own pruning, under any faults and whatever
\* the docker filter matches.
THEOREM EveryAppBackedUp ==
    ASSUME RetainsSome
    PROVE  Spec => []SuccessMeansBackedUp
<1>1. Init => WritingInv /\ BackedUpInv
      BY DEF Init, WritingInv, BackedUpInv, SuccessMeansBackedUp
<1>2. TypeOK /\ RefOK /\ RunInv /\ WritingInv /\ BackedUpInv /\ [Next]_vars
          => BackedUpInv'
      BY BackedUpStep
<1>3. BackedUpInv => SuccessMeansBackedUp
      BY DEF BackedUpInv
<1>4. QED
      BY TypeInit, TypeStep, RunInit, RunStep, WritingStep, <1>1, <1>2, <1>3, PTL
      DEF Spec

-----------------------------------------------------------------------------
(* Good archives.                                                          *)

\* Only the steps of an archive and its verification, and the unlinks of the
\* pruning, touch the disk.
LEMMA OnlyArchiveStepsWrite ==
    ASSUME [Next]_vars, disk' # disk
    PROVE  OpenArchive \/ WriteArchive \/ VerifyRejects \/ PruneOne
<1> USE DEF runVars, locals, history
<1>1. ASSUME NEW s \in Schedules, NEW chosen \in SUBSET Apps, BeginRun(s, chosen)
      PROVE  FALSE
      BY <1>1 DEF BeginRun
<1>2. CASE DiscoverApps \/ DiscoverNothing \/ DiscoverFails \/ NextApp
           \/ AllAppsDone \/ AppDone \/ AppAbortsRun \/ SyncRemotes \/ SyncFails
           \/ ReportRunFails \/ Crash
      BY <1>2 DEF DiscoverApps, DiscoverNothing, DiscoverFails, NextApp,
                  AllAppsDone, AppDone, AppAbortsRun, SyncRemotes, SyncFails,
                  ReportRunFails, Crash, EndRun
<1>3. CASE VerifyArchive \/ PruneDone \/ StartApp \/ StartFails \/ RaisesInTry
           \/ RaisesOutsideTry \/ NextDay \/ UNCHANGED vars
      BY <1>3 DEF VerifyArchive, PruneDone, StartApp, StartFails, RaisesInTry,
                  RaisesOutsideTry, NextDay, vars
<1>4. CASE CheckApp \/ PreHook \/ PreHookFails \/ PostHook \/ PostHookFails
           \/ StopApp \/ StopReportsError
      BY <1>4 DEF CheckApp, PreHook, PreHookFails, PostHook, PostHookFails,
                  StopApp, StopReportsError
<1>5. QED
      BY <1>1, <1>2, <1>3, <1>4 DEF Next, BoundedStep, DockerStep, StopStep, Mishap

\* An unlink leaves as many newer archives as the retention asks for; they are
\* good as there are no others.
LEMMA PrunedForGood ==
    ASSUME TypeOK, RefOK, NoCorruptSurvives, ArchivesConsistent, PruneOne,
           NEW f \in Files, disk[f] = "good", disk'[f] # "good"
    PROVE  Cardinality({d \in Days : d > f[3] /\ disk'[<<f[1], f[2], d>>] = "good"})
               >= Retention[f[2]]
<1> DEFINE dates == DatesOnDisk(ref, schedule)
           newer == {d \in Days : d > f[3] /\ disk'[<<f[1], f[2], d>>] = "good"}
<1>1. PICK d \in Prunable : disk' = [disk EXCEPT ![<<ref, schedule, d>>] = "none"]
      BY DEF PruneOne
<1>2. pc = "prune" /\ ref \in Apps /\ schedule \in Schedules
      BY DEF PruneOne, TypeOK, RefOK, AppSteps
<1>3. f = <<ref, schedule, d>>
      BY <1>1 DEF TypeOK
<1>4. d \in dates /\ Cardinality(NewerThan(d, dates)) >= Count(Retention[schedule])
      BY PrunableMembers DEF Prunable
<1>5. ASSUME NEW e \in NewerThan(d, dates) PROVE e \in newer
  <2>1. e \in Days /\ e > d /\ disk[<<ref, schedule, e>>] # "none"
        BY DEF NewerThan, DatesOnDisk
  <2>2. <<ref, schedule, e>> \in Files
        BY <1>2, <2>1 DEF Files
  <2>3. disk[<<ref, schedule, e>>] = "good"
        BY <1>2, <2>1, <2>2 DEF TypeOK, Contents, NoCorruptSurvives, ArchivesConsistent
  <2>4. d \in Int
        BY <1>4, ScheduleAssumption DEF DatesOnDisk, Days
  <2>5. <<ref, schedule, e>> # <<ref, schedule, d>>
        BY <2>1, <2>4 DEF Days
  <2>6. disk'[<<ref, schedule, e>>] = "good"
        BY <1>1, <2>2, <2>3, <2>5 DEF TypeOK
  <2>7. QED
        BY <1>3, <2>1, <2>6
<1>6. MaxDay \in Nat /\ dates \in SUBSET (1 .. MaxDay) /\ newer \in SUBSET (1 .. MaxDay)
      BY DatesOnDiskAreDays, ScheduleAssumption DEF Days
<1>7. Retention[schedule] \in Int /\ f[2] = schedule
      BY <1>2, <1>3, ScheduleAssumption
<1> HIDE DEF dates, newer
<1>8. IsFiniteSet(newer) /\ Cardinality(newer) \in Nat
      BY <1>6, DatesFinite
<1>9. /\ Cardinality(NewerThan(d, dates)) <= Cardinality(newer)
      /\ Cardinality(NewerThan(d, dates)) \in Nat
      BY <1>5, <1>6, <1>8, NewerThanDates, FS_Subset
<1>10. Cardinality(newer) >= Retention[f[2]]
      BY <1>4, <1>7, <1>8, <1>9 DEF Count
<1>11. QED
      BY <1>10 DEF newer

LEMMA GoodKeptStep ==
    ASSUME TypeOK, RefOK, NoCorruptSurvives, ArchivesConsistent, WritingInv,
           [Next]_vars, NEW f \in Files, disk[f] = "good", disk'[f] # "good"
    PROVE  \/ f = Dest /\ pc = "archive"
           \/ Cardinality({d \in Days : d > f[3] /\ disk'[<<f[1], f[2], d>>] = "good"})
                  >= Retention[f[2]]
<1>1. OpenArchive \/ WriteArchive \/ VerifyRejects \/ PruneOne
      BY OnlyArchiveStepsWrite
<1>2. CASE OpenArchive
      BY <1>2 DEF OpenArchive, TypeOK
<1>3. CASE WriteArchive \/ VerifyRejects
  <2>1. disk[Dest] = "partial" /\ \A g \in Files : g # Dest => disk'[g] = disk[g]
        BY <1>3 DEF WriteArchive, VerifyRejects, WritingInv, TypeOK
  <2>2. FALSE
        BY <2>1
  <2>3. QED
        BY <2>2
<1>4. CASE PruneOne
      BY <1>4, PrunedForGood
<1>5. QED
      BY <1>1, <1>2, <1>3, <1>4

\* runner.py:324: a good archive goes away only when it is rewritten on its own
\* day or superseded by as many newer good ones as the retention asks for:
\* neither a failed archive nor a torn one counts.  For any retention counts
\* and whatever commands and progress reports fail, as long as files can be
\* written, nobody kills the process, docker answers for the right app and a stop
\* that exits with zero has worked.
THEOREM GoodArchivesStay ==
    ASSUME {"io", "stop", "crash", "docker"} \cap Faults = {}, ExactNameMatches
    PROVE  Spec => GoodBackupsKept
<1>1. Init => FoundInv /\ ConsistentInv /\ NoCorruptSurvives /\ WritingInv
      BY DEF Init, FoundInv, ConsistentInv, ArchivesConsistent, NoCorruptSurvives,
             WritingInv, AppSteps
<1>2. TypeOK /\ RefOK /\ FoundInv /\ ConsistentInv /\ NoCorruptSurvives
          /\ WritingInv /\ [Next]_vars
          => FoundInv' /\ ConsistentInv' /\ NoCorruptSurvives' /\ WritingInv'
      BY FoundStep, ConsistentStep, NoCorruptStep, WritingStep
<1>3. TypeOK /\ RefOK /\ ConsistentInv /\ NoCorruptSurvives /\ WritingInv
          /\ [Next]_vars =>
          [\A f \in Files : disk[f] = "good" /\ disk'[f] # "good" =>
             \/ f = Dest /\ pc = "archive"
             \/ Cardinality({d \in Days : d > f[3] /\ disk'[<<f[1], f[2], d>>] = "good"})
                  >= Retention[f[2]]]_vars
      BY GoodKeptStep DEF ConsistentInv
<1>4. QED
      BY TypeInit, TypeStep, <1>1, <1>2, <1>3, PTL DEF Spec, GoodBackupsKept

-----------------------------------------------------------------------------
(* A run cannot go on for ever: it takes a number of steps that is bounded  *)
(* from its beginning, so that it ends, or waits in one of them.           *)

FiniteHost == IsFiniteSet(Apps)

\* At most so many steps are taken over one app; one of them for each archive
\* that pruning finds.
StepsPerApp == MaxDay + 12

StepsInApp ==
    CASE pc = "check"   -> MaxDay + 12
      [] pc = "pre"     -> MaxDay + 11
      [] pc = "stop"    -> MaxDay + 10
      [] pc = "archive" -> MaxDay + 9
      [] pc = "write"   -> MaxDay + 8
      [] pc = "verify"  -> MaxDay + 7
      [] pc = "prune"   -> Cardinality(DatesOnDisk(ref, schedule)) + 6
      [] pc = "start"   -> 5
      [] pc = "post"    -> 4
      [] pc = "leave"   -> 3
      [] pc = "next"    -> 2
      [] pc = "sync"    -> 1
      [] OTHER          -> 0

StepsFor(apps) == StepsPerApp * Cardinality(apps)

\* At most so many steps are left of the run.
StepsLeft ==
    IF pc = "discover" THEN StepsFor(targets) + 3
    ELSE IF pc = "idle" THEN 0
    ELSE StepsFor(todo) + StepsInApp

LEMMA AppsFinite ==
    ASSUME FiniteHost, NEW S \in SUBSET Apps
    PROVE  IsFiniteSet(S) /\ Cardinality(S) \in Nat /\ StepsFor(S) \in Nat
<1>1. IsFiniteSet(S) /\ Cardinality(S) \in Nat
      BY FS_Subset, FS_CardinalityType DEF FiniteHost
<1>2. StepsPerApp \in Nat
      BY ScheduleAssumption DEF StepsPerApp
<1>3. QED
      BY <1>1, <1>2 DEF StepsFor

LEMMA OneAppLess ==
    ASSUME FiniteHost, NEW S \in SUBSET Apps, NEW a \in S
    PROVE  StepsFor(S) = StepsFor(S \ {a}) + StepsPerApp
<1>1. Cardinality(S \ {a}) = Cardinality(S) - 1
      /\ Cardinality(S) \in Nat /\ Cardinality(S \ {a}) \in Nat
      BY AppsFinite, FS_RemoveElement
<1>2. StepsPerApp \in Nat
      BY ScheduleAssumption DEF StepsPerApp
<1>3. \A w, m, n \in Nat : m = n - 1 => w * n = w * m + w
      OBVIOUS
<1>4. QED
      BY <1>1, <1>2, <1>3 DEF StepsFor

LEMMA DaysBounded ==
    ASSUME NEW dates \in SUBSET (1 .. MaxDay)
    PROVE  /\ MaxDay \in Nat
           /\ Cardinality(dates) \in 0 .. MaxDay
           /\ IsFiniteSet(dates)
<1>1. MaxDay \in Nat
      BY ScheduleAssumption
<1>2. IsFiniteSet(1 .. MaxDay) /\ Cardinality(1 .. MaxDay) = MaxDay
      BY <1>1, FS_Interval
<1>3. IsFiniteSet(dates) /\ Cardinality(dates) <= MaxDay
      BY <1>1, <1>2, FS_Subset
<1>4. Cardinality(dates) \in Nat
      BY <1>3, FS_CardinalityType
<1>5. QED
      BY <1>1, <1>3, <1>4

LEMMA StepsTyped ==
    TypeOK => StepsInApp \in Nat /\ (pc \notin {"idle", "discover"} => StepsInApp > 0)
<1>1. MaxDay \in Nat /\ Cardinality(DatesOnDisk(ref, schedule)) \in Nat
      BY DaysBounded, DatesOnDiskAreDays
<1>2. QED
      BY <1>1 DEF TypeOK, Steps, AppSteps, StepsInApp

\* One deletion leaves one archive fewer.
LEMMA PruneAdvances ==
    ASSUME TypeOK, RefOK, PruneOne
    PROVE  StepsInApp' < StepsInApp
<1>1. /\ pc = "prune" /\ pc' = "prune" /\ UNCHANGED <<ref, schedule>>
      /\ ref \in Apps
      BY DEF PruneOne, runVars, locals, RefOK, AppSteps
<1>2. PICK d \in Prunable : disk' = [disk EXCEPT ![<<ref, schedule, d>>] = "none"]
      BY DEF PruneOne
<1>3. d \in DatesOnDisk(ref, schedule)
      BY <1>2, PrunableMembers DEF Prunable
<1>4. DatesOnDisk(ref, schedule)' = DatesOnDisk(ref, schedule) \ {d}
      BY <1>1, <1>2, <1>3 DEF DatesOnDisk, TypeOK, Files
<1>5. Cardinality(DatesOnDisk(ref, schedule) \ {d}) =
          Cardinality(DatesOnDisk(ref, schedule)) - 1
      BY <1>3, DaysBounded, DatesOnDiskAreDays, FS_RemoveElement
<1>6. Cardinality(DatesOnDisk(ref, schedule)) \in Nat
      BY DaysBounded, DatesOnDiskAreDays
<1>7. QED
      BY <1>1, <1>4, <1>5, <1>6 DEF StepsInApp

\* Every step over an app brings its end nearer.
LEMMA AppAdvances ==
    ASSUME TypeOK, RefOK, pc \in AppSteps, pc' \in AppSteps \cup {"next"},
           BoundedStep \/ DockerStep \/ StopStep \/ RaisesInTry \/ RaisesOutsideTry
    PROVE  UNCHANGED todo /\ StepsInApp' \in Nat /\ StepsInApp' < StepsInApp
<1> USE DEF AppSteps, runVars, locals, history
<1>1. /\ MaxDay \in Nat
      /\ Cardinality(DatesOnDisk(ref, schedule)) \in 0 .. MaxDay
      /\ Cardinality(DatesOnDisk(ref, schedule)') \in 0 .. MaxDay
  <2>1. DatesOnDisk(ref, schedule)' \in SUBSET (1 .. MaxDay)
        BY DEF DatesOnDisk, Days
  <2>2. QED
        BY <2>1, DaysBounded, DatesOnDiskAreDays
<1>0. StepsInApp' \in Nat
      BY <1>1 DEF StepsInApp
<1>2. ASSUME NEW stopped \in BOOLEAN, NEW e, LeaveTry(stopped, e),
             pc \in {"stop", "archive", "write", "verify", "prune"}
      PROVE  StepsInApp' < StepsInApp
  <2>1. pc' \in {"start", "post", "leave"}
        BY <1>2, LeaveTryType
  <2>2. QED
        BY <1>1, <1>2, <2>1 DEF StepsInApp
<1>3. CASE CheckApp
  <2>1. pc = "check" /\ pc' \in {"pre", "stop", "archive"} /\ UNCHANGED todo
        BY <1>3, RoutesInSteps DEF CheckApp, AfterPre
  <2>2. QED
        BY <1>1, <2>1 DEF StepsInApp
<1>4. CASE PreHook \/ PreHookFails
  <2>1. pc = "pre" /\ pc' \in {"stop", "archive", "leave"} /\ UNCHANGED todo
        BY <1>4 DEF PreHook, PreHookFails, AfterPre
  <2>2. QED
        BY <1>1, <2>1 DEF StepsInApp
<1>5. CASE StopApp
  <2>1. pc = "stop" /\ pc' = "archive" /\ UNCHANGED todo
        BY <1>5 DEF StopApp
  <2>2. QED
        BY <1>1, <2>1 DEF StepsInApp
<1>6. CASE StopReportsError
  <2>1. /\ pc = "stop" /\ UNCHANGED todo
        /\ pc' = "archive" \/ LeaveTry(FALSE, "CommandError")
        BY <1>6 DEF StopReportsError
  <2>2. CASE pc' = "archive"
        BY <1>1, <2>1, <2>2 DEF StepsInApp
  <2>3. CASE LeaveTry(FALSE, "CommandError")
        BY <1>0, <1>2, <2>1, <2>3
  <2>4. QED
        BY <2>1, <2>2, <2>3
<1>7. CASE OpenArchive \/ WriteArchive \/ VerifyArchive
  <2>1. /\ UNCHANGED todo
        /\ \/ pc = "archive" /\ pc' = "write"
           \/ pc = "write" /\ pc' = "verify"
           \/ pc = "verify" /\ pc' = "prune"
        BY <1>7 DEF OpenArchive, WriteArchive, VerifyArchive
  <2>2. QED
        BY <1>1, <2>1 DEF StepsInApp
<1>8. CASE VerifyRejects
      BY <1>0, <1>2, <1>8 DEF VerifyRejects, TypeOK
<1>9. CASE PruneOne
      BY <1>0, <1>9, PruneAdvances DEF PruneOne
<1>10. CASE PruneDone
       BY <1>0, <1>2, <1>10 DEF PruneDone, TypeOK
<1>11. CASE StartApp \/ StartFails
  <2>1. pc = "start" /\ pc' \in {"post", "leave"} /\ UNCHANGED todo
        BY <1>11 DEF StartApp, StartFails, AfterStart
  <2>2. QED
        BY <2>1 DEF StepsInApp
<1>12. CASE PostHook \/ PostHookFails
  <2>1. pc = "post" /\ pc' = "leave" /\ UNCHANGED todo
        BY <1>12 DEF PostHook, PostHookFails
  <2>2. QED
        BY <2>1 DEF StepsInApp
<1>13. CASE AppDone
  <2>1. pc = "leave" /\ pc' = "next" /\ UNCHANGED todo
        BY <1>13 DEF AppDone
  <2>2. QED
        BY <2>1 DEF StepsInApp
<1>14. CASE RaisesInTry
       BY <1>0, <1>2, <1>14 DEF RaisesInTry, TypeOK
<1>15. CASE RaisesOutsideTry
  <2>1. pc \in {"check", "stop", "start"} /\ pc' = "leave" /\ UNCHANGED todo
        BY <1>15 DEF RaisesOutsideTry
  <2>2. QED
        BY <1>1, <2>1 DEF StepsInApp
<1>16. CASE DiscoverApps \/ DiscoverNothing \/ DiscoverFails \/ NextApp
                \/ AllAppsDone \/ SyncRemotes \/ SyncFails
       BY <1>16 DEF DiscoverApps, DiscoverNothing, DiscoverFails, NextApp,
                    AllAppsDone, SyncRemotes, SyncFails
<1>17. CASE AppAbortsRun
       BY <1>17 DEF AppAbortsRun, EndRun
<1>18. QED
       BY <1>0, <1>3, <1>4, <1>5, <1>6, <1>7, <1>8, <1>9, <1>10, <1>11, <1>12, <1>13,
          <1>14, <1>15, <1>16, <1>17
       DEF BoundedStep, DockerStep, StopStep

LEMMA RunStepAdvances ==
    ASSUME FiniteHost, TypeOK, RefOK, Next, pc # "idle", today' = today
    PROVE  StepsLeft' < StepsLeft
<1>1. /\ StepsFor(todo) \in Nat /\ StepsFor(targets) \in Nat
      /\ StepsInApp \in Nat
      /\ pc \notin {"idle", "discover"} => StepsInApp > 0
      BY AppsFinite, StepsTyped DEF TypeOK
<1>2. StepsLeft > 0
      BY <1>1 DEF StepsLeft
<1>3. CASE pc' = "idle"
      BY <1>2, <1>3 DEF StepsLeft
<1>4. CASE DiscoverApps
  <2>1. pc = "discover" /\ pc' = "next" /\ todo' = targets
        BY <1>4 DEF DiscoverApps
  <2>2. StepsInApp' = 2
        BY <2>1 DEF StepsInApp
  <2>3. StepsLeft' = StepsFor(targets) + 2
        BY <2>1, <2>2 DEF StepsLeft, StepsFor
  <2>4. QED
        BY <1>1, <2>1, <2>3 DEF StepsLeft
<1>5. CASE NextApp
  <2>1. PICK a \in todo : todo' = todo \ {a}
        BY <1>5 DEF NextApp, Remaining
  <2>2. pc = "next" /\ pc' = "check"
        BY <1>5 DEF NextApp
  <2>3. StepsInApp = 2 /\ StepsInApp' = StepsPerApp
        BY <2>2 DEF StepsInApp, StepsPerApp
  <2>4. StepsFor(todo) = StepsFor(todo \ {a}) + StepsPerApp
        BY <2>1, OneAppLess DEF TypeOK
  <2>5. StepsLeft' = StepsFor(todo) /\ StepsLeft = StepsFor(todo) + 2
        BY <2>1, <2>2, <2>3, <2>4 DEF StepsLeft, StepsFor
  <2>6. QED
        BY <1>1, <2>5
<1>6. CASE AllAppsDone
  <2>1. pc = "next" /\ pc' = "sync" /\ todo' = todo
        BY <1>6 DEF AllAppsDone, runVars
  <2>2. StepsInApp = 2 /\ StepsInApp' = 1
        BY <2>1 DEF StepsInApp
  <2>3. QED
        BY <1>1, <2>1, <2>2 DEF StepsLeft, StepsFor
<1>7. CASE pc \in AppSteps /\ pc' \in AppSteps \cup {"next"}
               /\ (BoundedStep \/ DockerStep \/ StopStep \/ RaisesInTry
                       \/ RaisesOutsideTry)
  <2>1. todo' = todo /\ StepsInApp' \in Nat /\ StepsInApp' < StepsInApp
        BY <1>7, AppAdvances
  <2>2. /\ StepsLeft = StepsFor(todo) + StepsInApp
        /\ StepsLeft' = StepsFor(todo) + StepsInApp'
        BY <1>7, <2>1 DEF StepsLeft, AppSteps, StepsFor
  <2>3. QED
        BY <1>1, <2>1, <2>2
<1>8. CASE ReportRunFails \/ Crash \/ DiscoverNothing \/ DiscoverFails
               \/ AppAbortsRun \/ SyncRemotes \/ SyncFails
  <2>1. pc' = "idle"
        BY <1>8 DEF ReportRunFails, Crash, DiscoverNothing, DiscoverFails,
                    AppAbortsRun, SyncRemotes, SyncFails, EndRun
  <2>2. QED
        BY <1>3, <2>1
<1>9. CASE NextDay
      BY <1>9 DEF NextDay, TypeOK, Days
<1>10. CASE \E s \in Schedules, chosen \in SUBSET Apps : BeginRun(s, chosen)
       BY <1>10 DEF BeginRun
<1>11. CASE CheckApp \/ PreHook \/ PreHookFails \/ StopApp \/ StopReportsError
                \/ OpenArchive \/ WriteArchive \/ VerifyArchive \/ VerifyRejects
                \/ PruneOne \/ PruneDone \/ StartApp \/ StartFails
                \/ PostHook \/ PostHookFails \/ AppDone
                \/ RaisesInTry \/ RaisesOutsideTry
  <2>1. /\ pc \in AppSteps
        /\ BoundedStep \/ DockerStep \/ StopStep \/ RaisesInTry \/ RaisesOutsideTry
        BY <1>11
        DEF BoundedStep, DockerStep, StopStep, AppSteps, CheckApp, PreHook,
            PreHookFails, StopApp, StopReportsError, OpenArchive, WriteArchive,
            VerifyArchive, VerifyRejects, PruneOne, PruneDone, StartApp,
            StartFails, PostHook, PostHookFails, AppDone, RaisesInTry,
            RaisesOutsideTry
  <2>2. pc' \in AppSteps \cup {"next"}
    <3>1. TypeOK'
          BY TypeStep
    <3>2. pc' \in AppSteps \cup {"next", "idle", "discover", "sync"}
          BY <3>1 DEF TypeOK, Steps
    <3>3. ASSUME NEW stopped \in BOOLEAN, NEW e, LeaveTry(stopped, e)
          PROVE  pc' \in AppSteps
          BY <3>3, LeaveTryType DEF AppSteps
    <3>4. CASE CheckApp \/ PreHook \/ PreHookFails \/ StartApp \/ StartFails
          BY <3>4 DEF CheckApp, PreHook, PreHookFails, StartApp, StartFails,
                      AfterPre, AfterStart, AppSteps
    <3>5. CASE StopApp \/ StopReportsError
          BY <3>5, <3>3 DEF StopApp, StopReportsError, AppSteps
    <3>6. CASE OpenArchive \/ WriteArchive \/ VerifyArchive \/ PruneOne
                   \/ PostHook \/ PostHookFails \/ AppDone \/ RaisesOutsideTry
          BY <3>6 DEF OpenArchive, WriteArchive, VerifyArchive, PruneOne,
                      PostHook, PostHookFails, AppDone, RaisesOutsideTry, AppSteps
    <3>7. CASE VerifyRejects \/ PruneDone \/ RaisesInTry
          BY <3>3, <3>7 DEF VerifyRejects, PruneDone, RaisesInTry, TypeOK
    <3>8. QED
          BY <1>11, <3>4, <3>5, <3>6, <3>7
  <2>3. QED
        BY <1>7, <2>1, <2>2
<1>12. QED
       BY <1>4, <1>5, <1>6, <1>8, <1>9, <1>10, <1>11
       DEF Next, BoundedStep, DockerStep, StopStep, Mishap

\* A backup run takes a bounded number of steps: whatever fails and wherever,
\* each step that is not the turn of the day brings the end nearer, by a measure
\* that is a natural number.  No retry, no exception path and no pruning loop
\* can go round for ever; all that can hold a run up is a step that is never
\* taken, a command without a timeout (runtipi_cli.py:93).  For any finite set
\* of apps.
THEOREM RunAdvances ==
    ASSUME FiniteHost
    PROVE  Spec => /\ [](StepsLeft \in Nat)
                   /\ [][pc # "idle" /\ today' = today
                             => StepsLeft' < StepsLeft]_vars
<1>1. TypeOK => StepsLeft \in Nat
  <2>1. TypeOK => StepsInApp \in Nat /\ StepsFor(todo) \in Nat
                     /\ StepsFor(targets) \in Nat
        BY AppsFinite, StepsTyped DEF TypeOK
  <2>2. QED
        BY <2>1 DEF StepsLeft
<1>2. TypeOK /\ RefOK /\ [Next]_vars =>
          [pc # "idle" /\ today' = today => StepsLeft' < StepsLeft]_vars
      BY RunStepAdvances
<1>3. QED
      BY TypeInit, TypeStep, <1>1, <1>2, PTL DEF Spec
=============================================================================
