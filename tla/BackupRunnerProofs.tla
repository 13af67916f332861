------------------------- MODULE BackupRunnerProofs -------------------------
(***************************************************************************)
(* Proofs about BackupRunner, for any apps, settings, schedules, retention *)
(* counts and number of days.                                              *)
(***************************************************************************)
EXTENDS BackupRunner, TLAPS

\* The settings the runner works with are Booleans, whatever layer they came
\* from: both layers may leave keep_running open, the default closes it.
LEMMA SettingsType ==
    ASSUME NEW a \in Apps, NEW labels \in VisibleLabels(a)
    PROVE  RunnerSettings(a, labels) \in
               [keepRunning : BOOLEAN, pre : BOOLEAN, post : BOOLEAN]
<1> DEFINE merged == MergeOverrides(LabelsToOverrides(labels), Config[a])
<1>1. merged["keep_running"] \in BOOLEAN \cup {Unset}
  <2>1. LabelsToOverrides(labels)["keep_running"] \in BOOLEAN \cup {Unset}
        BY DEF LabelsToOverrides, BoolLabel, Fields
  <2>2. QED
        BY <2>1, ConfigAssumption DEF MergeOverrides, Fields
<1>2. ResolveAppSettings(labels, Config[a])["keep_running"] \in BOOLEAN
      BY <1>1 DEF ResolveAppSettings, Defaults, NoOverrides, Fields
<1>3. QED
      BY <1>2 DEF RunnerSettings, IsCommand

\* A setting of config.yaml wins over every label, read or not.
LEMMA ConfigKeepsRunning ==
    ASSUME NEW a \in Apps, NEW labels \in VisibleLabels(a),
           Config[a]["keep_running"] = TRUE
    PROVE  RunnerSettings(a, labels).keepRunning = TRUE
<1>1. MergeOverrides(LabelsToOverrides(labels), Config[a])["keep_running"] = TRUE
      BY ConfigAssumption DEF MergeOverrides, Fields
<1>2. ResolveAppSettings(labels, Config[a])["keep_running"] = TRUE
      BY <1>1, ConfigAssumption DEF ResolveAppSettings, Fields
<1>3. QED
      BY <1>2 DEF RunnerSettings

-----------------------------------------------------------------------------
(* Type correctness.                                                       *)

LEMMA RoutesInSteps ==
    ASSUME NEW stopped \in BOOLEAN, NEW e,
           NEW s \in [keepRunning : BOOLEAN, pre : BOOLEAN, post : BOOLEAN],
           NEW running
    PROVE  /\ FinallyPc(stopped, s, e) \in {"start", "post", "leave"}
           /\ AfterStart(s) \in {"post", "leave"}
           /\ AfterPre(s, running) \in {"stop", "archive"}
BY DEF FinallyPc, AfterStart, AfterPre

\* The app in progress is an app.
RefOK == pc \in AppSteps => ref \in Apps

LEMMA TypeInit == Init => TypeOK /\ RefOK
<1> SUFFICES ASSUME Init PROVE TypeOK /\ RefOK
    OBVIOUS
<1>1. 1 \in Days
      BY ScheduleAssumption DEF Days
<1>2. disk \in [Files -> Contents] /\ cleanup \in [Apps -> {"none", "due", "failed"}]
      BY DEF Init, Contents
<1>3. QED
      BY <1>1, <1>2 DEF Init, TypeOK, RefOK, NoSettings, Steps, AppSteps

LEMMA EndRunType ==
    ASSUME TypeOK, NEW outcome \in {"success", "failed", "crashed"},
           EndRun(outcome)
    PROVE  TypeOK' /\ RefOK'
BY DEF TypeOK, RefOK, EndRun, ForgetLocals, NoSettings, Steps, AppSteps,
       Days, Files, Contents, history

LEMMA LeaveTryType ==
    ASSUME TypeOK, NEW stopped \in BOOLEAN, NEW e, LeaveTry(stopped, e)
    PROVE  pc' \in {"start", "post", "leave"} /\ exc' = e
BY RoutesInSteps DEF LeaveTry, TypeOK

LEMMA TypeStep == TypeOK /\ RefOK /\ [Next]_vars => TypeOK' /\ RefOK'
<1> SUFFICES ASSUME TypeOK, RefOK, [Next]_vars PROVE TypeOK' /\ RefOK'
    OBVIOUS
<1> USE DEF TypeOK, RefOK, Steps, AppSteps, Files, Contents, runVars, locals,
            history, Dest
<1>1. ASSUME NEW s \in Schedules, NEW chosen \in SUBSET Apps, BeginRun(s, chosen)
      PROVE TypeOK' /\ RefOK'
      BY <1>1 DEF BeginRun
<1>2. CASE DiscoverApps
      BY <1>2 DEF DiscoverApps
<1>3. CASE DiscoverNothing
      BY <1>3, EndRunType DEF DiscoverNothing
<1>4. CASE DiscoverFails
      BY <1>4, EndRunType DEF DiscoverFails
<1>5. CASE NextApp
      BY <1>5 DEF NextApp, Remaining
<1>6. CASE AllAppsDone
      BY <1>6 DEF AllAppsDone
<1>7. CASE OpenArchive
      BY <1>7 DEF OpenArchive, PostHookDue
<1>8. CASE WriteArchive
      BY <1>8 DEF WriteArchive
<1>9. CASE VerifyArchive
      BY <1>9 DEF VerifyArchive
<1>10. CASE VerifyRejects
      BY <1>10, LeaveTryType DEF VerifyRejects, UnlinkCorrupt
<1>11. CASE PruneOne
      BY <1>11 DEF PruneOne
<1>12. CASE PruneDone
      BY <1>12, LeaveTryType DEF PruneDone
<1>13. CASE StartApp
      BY <1>13, RoutesInSteps DEF StartApp
<1>14. CASE StartFails
      BY <1>14, RoutesInSteps DEF StartFails
<1>15. CASE AppDone
      BY <1>15 DEF AppDone, ForgetLocals, NoSettings, RecordFailure
<1>16. CASE AppAbortsRun
      BY <1>16, EndRunType DEF AppAbortsRun
<1>17. CASE SyncRemotes
      BY <1>17, EndRunType DEF SyncRemotes
<1>18. CASE SyncFails
      BY <1>18, EndRunType DEF SyncFails
<1>19. CASE RaisesInTry
      BY <1>19, LeaveTryType DEF RaisesInTry, PostHookDue
<1>20. CASE RaisesOutsideTry
      BY <1>20 DEF RaisesOutsideTry
<1>21. CASE ReportRunFails
      BY <1>21, EndRunType DEF ReportRunFails
<1>22. CASE CheckApp
  <2>1. ref \in Apps
        BY <1>22 DEF CheckApp
  <2>2. PICK labels \in VisibleLabels(ref), running \in SeenRunning(ref, up) :
            /\ settings' = RunnerSettings(ref, labels)
            /\ wasRunning' = running
            /\ pc' = IF settings'.pre THEN "pre" ELSE AfterPre(settings', running)
        BY <1>22 DEF CheckApp
  <2>3. settings' \in [keepRunning : BOOLEAN, pre : BOOLEAN, post : BOOLEAN]
        BY <2>1, <2>2, SettingsType
  <2>4. wasRunning' \in BOOLEAN
        BY <2>2 DEF SeenRunning
  <2>5. pc' \in {"pre", "stop", "archive"}
        BY <2>2, <2>3, RoutesInSteps
  <2>6. QED
        BY <1>22, <2>1, <2>3, <2>4, <2>5 DEF CheckApp
<1>23. CASE PreHook
      BY <1>23, RoutesInSteps DEF PreHook, PostHookDue
<1>24. CASE PreHookFails
      BY <1>24 DEF PreHookFails
<1>25. CASE PostHook
      BY <1>25 DEF PostHook
<1>26. CASE PostHookFails
      BY <1>26 DEF PostHookFails
<1>27. CASE StopApp
      BY <1>27 DEF StopApp
<1>28. CASE StopReportsError
  <2>1. pc = "stop" /\ ref \in Apps
        BY <1>28 DEF StopReportsError
  <2>2. up' \in [Apps -> BOOLEAN] /\ owed' \subseteq Apps
        BY <1>28, <2>1 DEF StopReportsError
  <2>3. \/ LeaveTry(FALSE, "CommandError") /\ UNCHANGED stoppedByUs
        \/ stoppedByUs' = TRUE /\ pc' = "archive" /\ UNCHANGED exc
        BY <1>28 DEF StopReportsError
  <2>4. /\ pc' \in {"start", "post", "leave", "archive"}
        /\ stoppedByUs' \in BOOLEAN
        /\ exc' \in {exc, "CommandError"}
        BY <2>3, LeaveTryType
  <2>5. QED
        BY <1>28, <2>1, <2>2, <2>4 DEF StopReportsError
<1>29. CASE Crash
      BY <1>29, EndRunType DEF Crash
<1>30. CASE NextDay
  <2>1. today' \in Days
        BY <1>30, ScheduleAssumption DEF NextDay, Days
  <2>2. QED
        BY <1>30, <2>1 DEF NextDay
<1>31. CASE UNCHANGED vars
      BY <1>31 DEF vars, runVars, locals, history
<1>32. QED
      BY <1>1, <1>2, <1>3, <1>4, <1>5, <1>6, <1>7, <1>8, <1>9, <1>10,
         <1>11, <1>12, <1>13, <1>14, <1>15, <1>16, <1>17, <1>18, <1>19,
         <1>20, <1>21, <1>22, <1>23, <1>24, <1>25, <1>26, <1>27, <1>28,
         <1>29, <1>30, <1>31
      DEF Next, BoundedStep, DockerStep, StopStep, Mishap

\* Every variable keeps its type, whatever faults occur.
THEOREM TypeCorrect == Spec => []TypeOK
<1>1. QED
      BY TypeInit, TypeStep, PTL DEF Spec

-----------------------------------------------------------------------------
(* The guarantees of the finally block.                                    *)

ExactNameMatches == \A a \in Apps : NameMatches[a] = {a}

LEMMA RestartOwedStep ==
    ASSUME {"progress", "crash"} \cap Faults = {}, ExactNameMatches,
           TypeOK, RefOK, RestartOwed, [Next]_vars
    PROVE  RestartOwed'
<1> USE DEF TypeOK, RefOK, RestartOwed, AppSteps, runVars, locals, history
<1>1. ASSUME NEW s \in Schedules, NEW chosen \in SUBSET Apps, BeginRun(s, chosen)
      PROVE RestartOwed'
      BY <1>1 DEF BeginRun
<1>2. CASE DiscoverApps
      BY <1>2 DEF DiscoverApps
<1>3. CASE DiscoverNothing
      BY <1>3 DEF DiscoverNothing, EndRun
<1>4. CASE DiscoverFails
      BY <1>4 DEF DiscoverFails, EndRun
<1>5. CASE NextApp
      BY <1>5 DEF NextApp, Remaining
<1>6. CASE AllAppsDone
      BY <1>6 DEF AllAppsDone
<1>7. CASE OpenArchive
      BY <1>7 DEF OpenArchive, PostHookDue
<1>8. CASE WriteArchive
      BY <1>8 DEF WriteArchive
<1>9. CASE VerifyArchive
      BY <1>9 DEF VerifyArchive
<1>10. CASE VerifyRejects
      BY <1>10 DEF VerifyRejects, LeaveTry, FinallyPc, AfterStart
<1>11. CASE PruneOne
      BY <1>11 DEF PruneOne
<1>12. CASE PruneDone
      BY <1>12 DEF PruneDone, LeaveTry, FinallyPc, AfterStart
<1>13. CASE StartApp
      BY <1>13 DEF StartApp, AfterStart
<1>14. CASE StartFails
      BY <1>14 DEF StartFails, AfterStart
<1>15. CASE AppDone
      BY <1>15 DEF AppDone, ForgetLocals
<1>16. CASE AppAbortsRun
      BY <1>16 DEF AppAbortsRun, EndRun
<1>17. CASE SyncRemotes
      BY <1>17 DEF SyncRemotes, EndRun
<1>18. CASE SyncFails
      BY <1>18 DEF SyncFails, EndRun
<1>19. CASE RaisesInTry
      BY <1>19 DEF RaisesInTry, PostHookDue, LeaveTry, FinallyPc, AfterStart
<1>20. CASE RaisesOutsideTry
      BY <1>20 DEF RaisesOutsideTry
<1>21. CASE ReportRunFails
      BY <1>21 DEF ReportRunFails, EndRun
<1>22. CASE CheckApp
      BY <1>22 DEF CheckApp, AfterPre
<1>23. CASE PreHook
      BY <1>23 DEF PreHook, PostHookDue, AfterPre
<1>24. CASE PreHookFails
      BY <1>24 DEF PreHookFails
<1>25. CASE PostHook
      BY <1>25 DEF PostHook
<1>26. CASE PostHookFails
      BY <1>26 DEF PostHookFails
<1>27. CASE StopApp
      BY <1>27 DEF StopApp
<1>28. CASE StopReportsError
  <2>1. pc = "stop" /\ ref \in Apps /\ owed = {} /\ ref' = ref
        BY <1>28 DEF StopReportsError
  <2>2. PICK running \in SeenRunning(ref, up') :
            IF StopFailed(running)
            THEN LeaveTry(FALSE, "CommandError") /\ UNCHANGED stoppedByUs
            ELSE stoppedByUs' = TRUE /\ pc' = "archive" /\ UNCHANGED exc
        BY <1>28 DEF StopReportsError
  <2>3. owed' = IF up[ref] /\ ~up'[ref] THEN {ref} ELSE {}
        BY <1>28, <2>1 DEF StopReportsError
  <2>4. CASE ~up'[ref]
    <3>1. ~ \E b \in NameMatches[ref] : up'[b]
          BY <2>1, <2>4 DEF ExactNameMatches
    <3>2. \A seen \in SeenRunning(ref, up') : ~seen
          BY <3>1, Zenon DEF SeenRunning
    <3>3. stoppedByUs' = TRUE /\ pc' = "archive"
          BY <2>2, <3>2 DEF StopFailed
    <3>4. QED
          BY <2>1, <2>3, <3>3
  <2>5. CASE up'[ref]
        BY <2>3, <2>5
  <2>6. QED
        BY <2>4, <2>5
<1>29. CASE Crash
      BY <1>29 DEF Crash, EndRun
<1>30. CASE NextDay
      BY <1>30 DEF NextDay
<1>31. CASE UNCHANGED vars
      BY <1>31 DEF vars
<1>32. QED
      BY <1>1, <1>2, <1>3, <1>4, <1>5, <1>6, <1>7, <1>8, <1>9, <1>10,
         <1>11, <1>12, <1>13, <1>14, <1>15, <1>16, <1>17, <1>18, <1>19,
         <1>20, <1>21, <1>22, <1>23, <1>24, <1>25, <1>26, <1>27, <1>28,
         <1>29, <1>30, <1>31
      DEF Next, BoundedStep, DockerStep, StopStep, Mishap

\* An app taken down by the run is always started again, or a start of it is
\* at least attempted, before the run turns to anything else -- whatever
\* fails in between, as long as the progress report does not raise, the
\* process is not killed and the docker filter tells the apps apart.
THEOREM AppsStartedAgain ==
    ASSUME {"progress", "crash"} \cap Faults = {}, ExactNameMatches
    PROVE  Spec => []RestartOwed
<1>1. Init => RestartOwed
      BY DEF Init, RestartOwed
<1>2. TypeOK /\ RefOK /\ RestartOwed /\ [Next]_vars => RestartOwed'
      BY RestartOwedStep
<1>3. QED
      BY TypeInit, TypeStep, <1>1, <1>2, PTL DEF Spec

LEMMA PostHookOwedStep ==
    ASSUME {"progress", "crash"} \cap Faults = {},
           TypeOK, RefOK, PostHookOwed, [Next]_vars
    PROVE  PostHookOwed'
<1> USE DEF TypeOK, RefOK, PostHookOwed, AppSteps, runVars, locals, history
<1>1. ASSUME NEW s \in Schedules, NEW chosen \in SUBSET Apps, BeginRun(s, chosen)
      PROVE PostHookOwed'
      BY <1>1 DEF BeginRun
<1>2. CASE DiscoverApps
      BY <1>2 DEF DiscoverApps
<1>3. CASE DiscoverNothing
      BY <1>3 DEF DiscoverNothing, EndRun
<1>4. CASE DiscoverFails
      BY <1>4 DEF DiscoverFails, EndRun
<1>5. CASE NextApp
      BY <1>5 DEF NextApp, Remaining
<1>6. CASE AllAppsDone
      BY <1>6 DEF AllAppsDone
<1>7. CASE OpenArchive
      BY <1>7 DEF OpenArchive, PostHookDue
<1>8. CASE WriteArchive
      BY <1>8 DEF WriteArchive
<1>9. CASE VerifyArchive
      BY <1>9 DEF VerifyArchive
<1>10. CASE VerifyRejects
      BY <1>10 DEF VerifyRejects, LeaveTry, FinallyPc, AfterStart
<1>11. CASE PruneOne
      BY <1>11 DEF PruneOne
<1>12. CASE PruneDone
      BY <1>12 DEF PruneDone, LeaveTry, FinallyPc, AfterStart
<1>13. CASE StartApp
      BY <1>13 DEF StartApp, AfterStart
<1>14. CASE StartFails
      BY <1>14 DEF StartFails, AfterStart
<1>15. CASE AppDone
      BY <1>15 DEF AppDone, ForgetLocals
<1>16. CASE AppAbortsRun
      BY <1>16 DEF AppAbortsRun, EndRun
<1>17. CASE SyncRemotes
      BY <1>17 DEF SyncRemotes, EndRun
<1>18. CASE SyncFails
      BY <1>18 DEF SyncFails, EndRun
<1>19. CASE RaisesInTry
      BY <1>19 DEF RaisesInTry, PostHookDue, LeaveTry, FinallyPc, AfterStart
<1>20. CASE RaisesOutsideTry
      BY <1>20 DEF RaisesOutsideTry
<1>21. CASE ReportRunFails
      BY <1>21 DEF ReportRunFails, EndRun
<1>22. CASE CheckApp
      BY <1>22 DEF CheckApp, AfterPre
<1>23. CASE PreHook
      BY <1>23 DEF PreHook, PostHookDue, AfterPre
<1>24. CASE PreHookFails
      BY <1>24 DEF PreHookFails
<1>25. CASE PostHook
      BY <1>25 DEF PostHook
<1>26. CASE PostHookFails
      BY <1>26 DEF PostHookFails
<1>27. CASE StopApp
      BY <1>27 DEF StopApp
<1>28. CASE StopReportsError
      BY <1>28 DEF StopReportsError, LeaveTry, FinallyPc, AfterStart,
         StopFailed, SeenRunning
<1>29. CASE Crash
      BY <1>29 DEF Crash, EndRun
<1>30. CASE NextDay
      BY <1>30 DEF NextDay
<1>31. CASE UNCHANGED vars
      BY <1>31 DEF vars
<1>32. QED
      BY <1>1, <1>2, <1>3, <1>4, <1>5, <1>6, <1>7, <1>8, <1>9, <1>10,
         <1>11, <1>12, <1>13, <1>14, <1>15, <1>16, <1>17, <1>18, <1>19,
         <1>20, <1>21, <1>22, <1>23, <1>24, <1>25, <1>26, <1>27, <1>28,
         <1>29, <1>30, <1>31
      DEF Next, BoundedStep, DockerStep, StopStep, Mishap

\* A post hook that is due is called, however the archive, the verification,
\* the pruning and the restart end, under the same conditions on the progress
\* report and the process.
THEOREM PostHooksCalled ==
    ASSUME {"progress", "crash"} \cap Faults = {}
    PROVE  Spec => []PostHookOwed
<1>1. Init => PostHookOwed
      BY DEF Init, PostHookOwed
<1>2. TypeOK /\ RefOK /\ PostHookOwed /\ [Next]_vars => PostHookOwed'
      BY PostHookOwedStep
<1>3. QED
      BY TypeInit, TypeStep, <1>1, <1>2, PTL DEF Spec

-----------------------------------------------------------------------------
(* keep_running in config.yaml.                                            *)

\* What keep_running means at each step of an app.
KeepInv ==
    /\ pc \in AppSteps \ {"check", "leave"} /\ Config[ref]["keep_running"] = TRUE
          => settings.keepRunning
    /\ pc = "stop" => ~settings.keepRunning

LEMMA KeepStep ==
    ASSUME TypeOK, RefOK, KeepInv, [Next]_vars
    PROVE  KeepInv'
<1> USE DEF TypeOK, RefOK, KeepInv, AppSteps, runVars, locals, history,
            MustStop, AfterPre
<1>1. ASSUME NEW s \in Schedules, NEW chosen \in SUBSET Apps, BeginRun(s, chosen)
      PROVE KeepInv'
      BY <1>1 DEF BeginRun
<1>2. CASE DiscoverApps
      BY <1>2 DEF DiscoverApps
<1>3. CASE DiscoverNothing
      BY <1>3 DEF DiscoverNothing, EndRun
<1>4. CASE DiscoverFails
      BY <1>4 DEF DiscoverFails, EndRun
<1>5. CASE NextApp
      BY <1>5 DEF NextApp, Remaining
<1>6. CASE AllAppsDone
      BY <1>6 DEF AllAppsDone
<1>7. CASE OpenArchive
      BY <1>7 DEF OpenArchive, PostHookDue
<1>8. CASE WriteArchive
      BY <1>8 DEF WriteArchive
<1>9. CASE VerifyArchive
      BY <1>9 DEF VerifyArchive
<1>10. CASE VerifyRejects
      BY <1>10 DEF VerifyRejects, LeaveTry, FinallyPc, AfterStart
<1>11. CASE PruneOne
      BY <1>11 DEF PruneOne
<1>12. CASE PruneDone
      BY <1>12 DEF PruneDone, LeaveTry, FinallyPc, AfterStart
<1>13. CASE StartApp
      BY <1>13 DEF StartApp, AfterStart
<1>14. CASE StartFails
      BY <1>14 DEF StartFails, AfterStart
<1>15. CASE AppDone
      BY <1>15 DEF AppDone, ForgetLocals
<1>16. CASE AppAbortsRun
      BY <1>16 DEF AppAbortsRun, EndRun
<1>17. CASE SyncRemotes
      BY <1>17 DEF SyncRemotes, EndRun
<1>18. CASE SyncFails
      BY <1>18 DEF SyncFails, EndRun
<1>19. CASE RaisesInTry
      BY <1>19 DEF RaisesInTry, PostHookDue, LeaveTry, FinallyPc, AfterStart
<1>20. CASE RaisesOutsideTry
      BY <1>20 DEF RaisesOutsideTry
<1>21. CASE ReportRunFails
      BY <1>21 DEF ReportRunFails, EndRun
<1>22. CASE CheckApp
  <2>1. PICK labels \in VisibleLabels(ref), running \in SeenRunning(ref, up) :
            /\ settings' = RunnerSettings(ref, labels)
            /\ pc' = IF settings'.pre THEN "pre" ELSE AfterPre(settings', running)
        BY <1>22 DEF CheckApp
  <2>2. ref \in Apps /\ ref' = ref
        BY <1>22 DEF CheckApp
  <2>3. Config[ref]["keep_running"] = TRUE => settings'.keepRunning
        BY <2>1, <2>2, ConfigKeepsRunning
  <2>4. pc' \in {"pre", "stop", "archive"} /\ (pc' = "stop" => ~settings'.keepRunning)
        BY <2>1
  <2>5. QED
        BY <2>2, <2>3, <2>4
<1>23. CASE PreHook
      BY <1>23 DEF PreHook, PostHookDue, AfterPre
<1>24. CASE PreHookFails
      BY <1>24 DEF PreHookFails
<1>25. CASE PostHook
      BY <1>25 DEF PostHook
<1>26. CASE PostHookFails
      BY <1>26 DEF PostHookFails
<1>27. CASE StopApp
      BY <1>27 DEF StopApp
<1>28. CASE StopReportsError
      BY <1>28 DEF StopReportsError, LeaveTry, FinallyPc, AfterStart,
         StopFailed, SeenRunning
<1>29. CASE Crash
      BY <1>29 DEF Crash, EndRun
<1>30. CASE NextDay
      BY <1>30 DEF NextDay
<1>31. CASE UNCHANGED vars
      BY <1>31 DEF vars
<1>32. QED
      BY <1>1, <1>2, <1>3, <1>4, <1>5, <1>6, <1>7, <1>8, <1>9, <1>10,
         <1>11, <1>12, <1>13, <1>14, <1>15, <1>16, <1>17, <1>18, <1>19,
         <1>20, <1>21, <1>22, <1>23, <1>24, <1>25, <1>26, <1>27, <1>28,
         <1>29, <1>30, <1>31
      DEF Next, BoundedStep, DockerStep, StopStep, Mishap

\* Only the two outcomes of a stop take an app down.
LEMMA OnlyStopsTakeDown ==
    ASSUME TypeOK, RefOK, KeepInv, [Next]_vars,
           NEW a \in Apps, up[a], ~up'[a]
    PROVE  pc = "stop" /\ a = ref
<1> USE DEF TypeOK, RefOK, AppSteps, runVars, locals, history
<1>1. ASSUME NEW s \in Schedules, NEW chosen \in SUBSET Apps, BeginRun(s, chosen)
      PROVE pc = "stop" /\ a = ref
      BY <1>1 DEF BeginRun
<1>2. CASE DiscoverApps
      BY <1>2 DEF DiscoverApps
<1>3. CASE DiscoverNothing
      BY <1>3 DEF DiscoverNothing, EndRun
<1>4. CASE DiscoverFails
      BY <1>4 DEF DiscoverFails, EndRun
<1>5. CASE NextApp
      BY <1>5 DEF NextApp, Remaining
<1>6. CASE AllAppsDone
      BY <1>6 DEF AllAppsDone
<1>7. CASE OpenArchive
      BY <1>7 DEF OpenArchive, PostHookDue
<1>8. CASE WriteArchive
      BY <1>8 DEF WriteArchive
<1>9. CASE VerifyArchive
      BY <1>9 DEF VerifyArchive
<1>10. CASE VerifyRejects
      BY <1>10 DEF VerifyRejects, LeaveTry, FinallyPc, AfterStart
<1>11. CASE PruneOne
      BY <1>11 DEF PruneOne
<1>12. CASE PruneDone
      BY <1>12 DEF PruneDone, LeaveTry, FinallyPc, AfterStart
<1>13. CASE StartApp
      BY <1>13 DEF StartApp, AfterStart
<1>14. CASE StartFails
      BY <1>14 DEF StartFails, AfterStart
<1>15. CASE AppDone
      BY <1>15 DEF AppDone, ForgetLocals
<1>16. CASE AppAbortsRun
      BY <1>16 DEF AppAbortsRun, EndRun
<1>17. CASE SyncRemotes
      BY <1>17 DEF SyncRemotes, EndRun
<1>18. CASE SyncFails
      BY <1>18 DEF SyncFails, EndRun
<1>19. CASE RaisesInTry
      BY <1>19 DEF RaisesInTry, PostHookDue, LeaveTry, FinallyPc, AfterStart
<1>20. CASE RaisesOutsideTry
      BY <1>20 DEF RaisesOutsideTry
<1>21. CASE ReportRunFails
      BY <1>21 DEF ReportRunFails, EndRun
<1>22. CASE CheckApp
      BY <1>22 DEF CheckApp, AfterPre
<1>23. CASE PreHook
      BY <1>23 DEF PreHook, PostHookDue, AfterPre
<1>24. CASE PreHookFails
      BY <1>24 DEF PreHookFails
<1>25. CASE PostHook
      BY <1>25 DEF PostHook
<1>26. CASE PostHookFails
      BY <1>26 DEF PostHookFails
<1>27. CASE StopApp
      BY <1>27 DEF StopApp
<1>28. CASE StopReportsError
      BY <1>28 DEF StopReportsError, LeaveTry, FinallyPc, AfterStart,
         StopFailed, SeenRunning
<1>29. CASE Crash
      BY <1>29 DEF Crash, EndRun
<1>30. CASE NextDay
      BY <1>30 DEF NextDay
<1>31. CASE UNCHANGED vars
      BY <1>31 DEF vars
<1>32. QED
      BY <1>1, <1>2, <1>3, <1>4, <1>5, <1>6, <1>7, <1>8, <1>9, <1>10,
         <1>11, <1>12, <1>13, <1>14, <1>15, <1>16, <1>17, <1>18, <1>19,
         <1>20, <1>21, <1>22, <1>23, <1>24, <1>25, <1>26, <1>27, <1>28,
         <1>29, <1>30, <1>31
      DEF Next, BoundedStep, DockerStep, StopStep, Mishap

\* An app that config.yaml says to keep running is never taken down, whatever
\* its labels say and whatever faults occur, a docker that does not answer
\* included.
THEOREM PipelineSafe == Spec => PipelineNeverStopped
<1>1. Init => KeepInv
      BY DEF Init, KeepInv, AppSteps
<1>2. TypeOK /\ RefOK /\ KeepInv /\ [Next]_vars => KeepInv'
      BY KeepStep
<1>3. TypeOK /\ RefOK /\ KeepInv /\ [Next]_vars =>
          [\A a \in Apps : Config[a]["keep_running"] = TRUE /\ up[a] => up'[a]]_vars
  <2> SUFFICES ASSUME TypeOK, RefOK, KeepInv, [Next]_vars,
                      NEW a \in Apps, Config[a]["keep_running"] = TRUE,
                      up[a], ~up'[a]
               PROVE  FALSE
      OBVIOUS
  <2>1. pc = "stop" /\ a = ref
        BY OnlyStopsTakeDown
  <2>2. QED
        BY <2>1 DEF KeepInv, AppSteps
<1>4. QED
      BY TypeInit, TypeStep, <1>1, <1>2, <1>3, PTL DEF Spec, PipelineNeverStopped

-----------------------------------------------------------------------------
(* A corrupt archive does not outlive the attempt that made it.            *)

LEMMA NoCorruptStep ==
    ASSUME {"io", "crash"} \cap Faults = {}, TypeOK, RefOK, NoCorruptSurvives,
           [Next]_vars
    PROVE  NoCorruptSurvives'
<1> USE DEF TypeOK, RefOK, NoCorruptSurvives, AppSteps, Files, runVars, locals,
            history, Dest
\* Steps away from the archive leave the disk alone.
<1>1. ASSUME pc \notin {"write", "verify"}, disk' = disk
      PROVE  NoCorruptSurvives'
      BY <1>1
<1>2. ASSUME UNCHANGED <<pc, ref, schedule, day, disk>>
      PROVE  NoCorruptSurvives'
      BY <1>2
<1>3. ASSUME NEW s \in Schedules, NEW chosen \in SUBSET Apps, BeginRun(s, chosen)
      PROVE  NoCorruptSurvives'
      BY <1>1, <1>3 DEF BeginRun
<1>4. CASE DiscoverApps \/ DiscoverNothing \/ DiscoverFails \/ NextApp
           \/ AllAppsDone
      BY <1>1, <1>4
      DEF DiscoverApps, DiscoverNothing, DiscoverFails, NextApp, AllAppsDone,
          EndRun
<1>5. CASE OpenArchive
      BY <1>5 DEF OpenArchive
<1>6. CASE WriteArchive
      BY <1>6 DEF WriteArchive
<1>7. CASE VerifyArchive
      BY <1>7 DEF VerifyArchive
<1>8. CASE VerifyRejects
  <2>1. disk' = [disk EXCEPT ![Dest] = "none"] /\ Dest \in Files
        BY <1>8 DEF VerifyRejects, UnlinkCorrupt
  <2>2. \A f \in Files : disk[f] = "partial" => f = Dest
        BY <1>8
  <2>3. \A f \in Files : disk'[f] # "partial"
        BY <2>1, <2>2
  <2>4. QED
        BY <2>3
<1>9. CASE PruneOne
  <2>1. \A f \in Files : disk'[f] \in {disk[f], "none"}
        BY <1>9 DEF PruneOne
  <2>2. QED
        BY <1>9, <2>1 DEF PruneOne
<1>10. CASE PruneDone \/ StartApp \/ StartFails \/ AppDone \/ AppAbortsRun
            \/ SyncRemotes \/ SyncFails
       BY <1>1, <1>10
       DEF PruneDone, StartApp, StartFails, AppDone, AppAbortsRun, SyncRemotes,
           SyncFails, EndRun
<1>11. CASE CheckApp \/ PreHook \/ PreHookFails \/ PostHook \/ PostHookFails
       BY <1>1, <1>11
       DEF CheckApp, PreHook, PreHookFails, PostHook, PostHookFails
<1>12. CASE StopApp \/ StopReportsError
       BY <1>1, <1>12 DEF StopApp, StopReportsError
<1>13. CASE RaisesInTry
  <2>1. pc = "archive" /\ disk' = disk
        BY <1>13 DEF RaisesInTry
  <2>2. QED
        BY <1>1, <2>1
<1>14. CASE RaisesOutsideTry \/ ReportRunFails
       BY <1>1, <1>14 DEF RaisesOutsideTry, ReportRunFails, EndRun
<1>15. CASE Crash
       BY <1>15 DEF Crash
<1>16. CASE NextDay \/ UNCHANGED vars
       BY <1>2, <1>16 DEF NextDay, vars
<1>17. QED
       BY <1>3, <1>4, <1>5, <1>6, <1>7, <1>8, <1>9, <1>10, <1>11, <1>12,
          <1>13, <1>14, <1>15, <1>16
       DEF Next, BoundedStep, DockerStep, StopStep, Mishap

\* As long as no file operation raises and nobody kills the process, a corrupt
\* archive is gone before the run turns to anything else, whatever commands,
\* queries and progress reports fail.
THEOREM CorruptRemoved ==
    ASSUME {"io", "crash"} \cap Faults = {}
    PROVE  Spec => []NoCorruptSurvives
<1>1. Init => NoCorruptSurvives
      BY DEF Init, NoCorruptSurvives
<1>2. TypeOK /\ RefOK /\ NoCorruptSurvives /\ [Next]_vars => NoCorruptSurvives'
      BY NoCorruptStep
<1>3. QED
      BY TypeInit, TypeStep, <1>1, <1>2, PTL DEF Spec

-----------------------------------------------------------------------------
(* One broken app does not end the run.                                    *)

IsolationInv ==
    /\ FailureIsolation
    /\ pc # "idle" => result = "running"
    /\ pc \in {"discover", "sync"} => todo = {}
    /\ exc # "OtherError"

LEMMA IsolationStep ==
    ASSUME {"io", "progress"} \cap Faults = {}, TypeOK, IsolationInv, [Next]_vars
    PROVE  IsolationInv'
<1> USE DEF TypeOK, IsolationInv, FailureIsolation, runVars, locals, history
<1>1. ASSUME NEW s \in Schedules, NEW chosen \in SUBSET Apps, BeginRun(s, chosen)
      PROVE  IsolationInv'
      BY <1>1 DEF BeginRun
<1>2. CASE DiscoverApps \/ NextApp \/ AllAppsDone
      BY <1>2 DEF DiscoverApps, NextApp, AllAppsDone
<1>3. CASE DiscoverNothing \/ DiscoverFails \/ SyncRemotes \/ SyncFails
      BY <1>3 DEF DiscoverNothing, DiscoverFails, SyncRemotes, SyncFails,
                  EndRun, ForgetLocals
<1>4. CASE OpenArchive \/ WriteArchive \/ VerifyArchive \/ PruneOne
           \/ StartApp \/ StartFails
      BY <1>4 DEF OpenArchive, WriteArchive, VerifyArchive, PruneOne, StartApp,
                  StartFails, AfterStart
<1>5. CASE VerifyRejects \/ PruneDone
      BY <1>5 DEF VerifyRejects, PruneDone, LeaveTry, FinallyPc, AfterStart
<1>6. CASE AppDone
      BY <1>6 DEF AppDone, ForgetLocals
<1>7. CASE AppAbortsRun
  <2>1. Raised \in {"none"} \cup Isolated
        BY DEF Raised, Isolated
  <2>2. QED
        BY <1>7, <2>1 DEF AppAbortsRun
<1>8. CASE CheckApp \/ PreHook \/ PreHookFails \/ PostHook \/ PostHookFails
      BY <1>8 DEF CheckApp, PreHook, PreHookFails, PostHook, PostHookFails,
                  AfterPre
<1>9. CASE StopApp \/ StopReportsError
      BY <1>9 DEF StopApp, StopReportsError, LeaveTry, FinallyPc, AfterStart
<1>10. CASE RaisesInTry \/ RaisesOutsideTry \/ ReportRunFails
       BY <1>10 DEF RaisesInTry, RaisesOutsideTry, ReportRunFails
<1>11. CASE Crash
       BY <1>11 DEF Crash, EndRun, ForgetLocals
<1>12. CASE NextDay \/ UNCHANGED vars
       BY <1>12 DEF NextDay, vars
<1>13. QED
       BY <1>1, <1>2, <1>3, <1>4, <1>5, <1>6, <1>7, <1>8, <1>9, <1>10, <1>11,
          <1>12
       DEF Next, BoundedStep, DockerStep, StopStep, Mishap

\* While only commands, hooks, verifications and requests fail, a run that
\* ends has been through every app, whatever happened to each of them.  (The
\* run runner_io_isolation shows that a file operation that raises breaks it.)
THEOREM EveryAppHasItsTurn ==
    ASSUME {"io", "progress"} \cap Faults = {}
    PROVE  Spec => []FailureIsolation
<1>1. Init => IsolationInv
      BY DEF Init, IsolationInv, FailureIsolation
<1>2. IsolationInv => FailureIsolation
      BY DEF IsolationInv
<1>3. TypeOK /\ RefOK /\ IsolationInv /\ [Next]_vars => IsolationInv'
      BY IsolationStep
<1>4. QED
      BY TypeInit, TypeStep, <1>1, <1>2, <1>3, PTL DEF Spec

-----------------------------------------------------------------------------
(* Nothing is started that was down when the run began.                    *)

\* The apps that had not their turn are as they were found; what is going to
\* be stopped really runs, and what has been stopped by the run did run.
FoundInv ==
    /\ pc = "discover" => up = upBefore
    /\ \A a \in todo : up[a] = upBefore[a]
    /\ pc \in AppSteps => ref \notin todo
    /\ pc \in {"check", "pre", "stop"} => up[ref] = upBefore[ref]
    /\ pc = "pre" /\ wasRunning => up[ref]
    /\ pc = "stop" => up[ref]
    /\ stoppedByUs => pc \in AppSteps \ {"check"} /\ upBefore[ref]
    /\ pc = "start" => stoppedByUs

LEMMA FoundStep ==
    ASSUME ExactNameMatches, TypeOK, RefOK, FoundInv, [Next]_vars
    PROVE  FoundInv'
<1> USE DEF TypeOK, RefOK, FoundInv, AppSteps, runVars, locals, history
<1>1. ASSUME NEW s \in Schedules, NEW chosen \in SUBSET Apps, BeginRun(s, chosen)
      PROVE  FoundInv'
      BY <1>1 DEF BeginRun
<1>2. CASE DiscoverApps \/ NextApp \/ AllAppsDone
      BY <1>2 DEF DiscoverApps, NextApp, AllAppsDone, Remaining
<1>3. ASSUME NEW outcome, EndRun(outcome) PROVE FoundInv'
      BY <1>3 DEF EndRun, ForgetLocals
<1>4. CASE OpenArchive \/ WriteArchive \/ VerifyArchive \/ PruneOne
      BY <1>4 DEF OpenArchive, WriteArchive, VerifyArchive, PruneOne
<1>5. CASE VerifyRejects \/ PruneDone \/ RaisesInTry
  <2>1. /\ pc \in AppSteps \ {"check", "pre", "stop"}
        /\ LeaveTry(stoppedByUs, exc') /\ UNCHANGED <<ref, todo, stoppedByUs, up, upBefore>>
        BY <1>5 DEF VerifyRejects, PruneDone, RaisesInTry, LeaveTry
  <2>2. pc' = "start" => stoppedByUs
        BY <2>1 DEF LeaveTry, FinallyPc, AfterStart
  <2>3. pc' \in {"start", "post", "leave"}
        BY <2>1 DEF LeaveTry, FinallyPc, AfterStart
  <2>4. QED
        BY <2>1, <2>2, <2>3
<1>6. CASE StartApp \/ StartFails
  <2>1. /\ \A a \in Apps : a # ref => up'[a] = up[a]
        /\ pc' \in {"post", "leave"} /\ pc = "start"
        /\ UNCHANGED <<ref, todo, stoppedByUs, upBefore>>
        BY <1>6 DEF StartApp, StartFails, AfterStart
  <2>2. QED
        BY <2>1
<1>7. CASE AppDone
      BY <1>7 DEF AppDone, ForgetLocals
<1>8. CASE CheckApp
  <2>1. ref \in Apps /\ UNCHANGED <<ref, todo, stoppedByUs, up, upBefore>>
        BY <1>8 DEF CheckApp
  <2>2. PICK labels \in VisibleLabels(ref), running \in SeenRunning(ref, up) :
            /\ settings' = RunnerSettings(ref, labels)
            /\ wasRunning' = running
            /\ pc' = IF settings'.pre THEN "pre" ELSE AfterPre(settings', running)
        BY <1>8 DEF CheckApp
  <2>3. running => up[ref]
        BY <2>1, <2>2 DEF SeenRunning, ExactNameMatches
  <2>4. /\ pc' \in {"pre", "stop", "archive"}
        /\ pc' = "stop" => running
        BY <2>2 DEF AfterPre
  <2>5. (pc' = "stop" => up[ref]) /\ (wasRunning' => up[ref])
        BY <2>2, <2>3, <2>4
  <2>6. pc = "check"
        BY <1>8 DEF CheckApp
  <2>7. QED
        BY <2>1, <2>4, <2>5, <2>6
<1>9. CASE PreHook \/ PreHookFails
      BY <1>9 DEF PreHook, PreHookFails, AfterPre
<1>10. CASE PostHook \/ PostHookFails
  <2>1. /\ pc = "post" /\ pc' = "leave"
        /\ UNCHANGED <<ref, todo, stoppedByUs, up, upBefore>>
        BY <1>10 DEF PostHook, PostHookFails
  <2>2. QED
        BY <2>1
<1>11. CASE StopApp \/ StopReportsError
  <2>1. /\ \A a \in Apps : a # ref => up'[a] = up[a]
        /\ pc = "stop" /\ ref \in Apps
        /\ UNCHANGED <<ref, todo, upBefore>>
        BY <1>11 DEF StopApp, StopReportsError
  <2>2. \/ pc' = "archive"
        \/ pc' \in {"post", "leave"} /\ stoppedByUs' = stoppedByUs
        BY <1>11 DEF StopApp, StopReportsError, LeaveTry, FinallyPc, AfterStart
  <2>3. QED
        BY <2>1, <2>2
<1>12. CASE RaisesOutsideTry
       BY <1>12 DEF RaisesOutsideTry
<1>13. CASE NextDay \/ UNCHANGED vars
       BY <1>13 DEF NextDay, vars
<1>14. CASE DiscoverNothing \/ DiscoverFails \/ AppAbortsRun \/ SyncRemotes
            \/ SyncFails \/ ReportRunFails \/ Crash
       BY <1>3, <1>14 DEF DiscoverNothing, DiscoverFails, AppAbortsRun,
                          SyncRemotes, SyncFails, ReportRunFails, Crash
<1>15. QED
       BY <1>1, <1>2, <1>4, <1>5, <1>6, <1>7, <1>8, <1>9, <1>10, <1>11, <1>12,
          <1>13, <1>14
       DEF Next, BoundedStep, DockerStep, StopStep, Mishap

LEMMA OnlyStartsBringUp ==
    ASSUME TypeOK, RefOK, [Next]_vars, NEW a \in Apps, ~up[a], up'[a]
    PROVE  pc = "start" /\ a = ref
<1> USE DEF TypeOK, RefOK, AppSteps, runVars, locals, history
<1>1. CASE UNCHANGED up
      BY <1>1
<1>2. CASE StopApp \/ StopReportsError
      BY <1>2 DEF StopApp, StopReportsError
<1>3. CASE StartApp \/ StartFails
      BY <1>3 DEF StartApp, StartFails
<1>4. ASSUME ~(StopApp \/ StopReportsError \/ StartApp \/ StartFails)
      PROVE  UNCHANGED up
  <2>1. ASSUME NEW s \in Schedules, NEW chosen \in SUBSET Apps, BeginRun(s, chosen)
        PROVE  UNCHANGED up
        BY <2>1 DEF BeginRun
  <2>2. CASE DiscoverApps \/ NextApp \/ AllAppsDone \/ OpenArchive
             \/ WriteArchive \/ VerifyArchive \/ VerifyRejects \/ PruneOne
             \/ PruneDone \/ AppDone
        BY <2>2 DEF DiscoverApps, NextApp, AllAppsDone, OpenArchive,
                    WriteArchive, VerifyArchive, VerifyRejects, PruneOne,
                    PruneDone, AppDone
  <2>3. CASE DiscoverNothing \/ DiscoverFails \/ AppAbortsRun \/ SyncRemotes
             \/ SyncFails \/ ReportRunFails \/ Crash
        BY <2>3 DEF DiscoverNothing, DiscoverFails, AppAbortsRun, SyncRemotes,
                    SyncFails, ReportRunFails, Crash, EndRun
  <2>4. CASE CheckApp \/ PreHook \/ PreHookFails \/ PostHook \/ PostHookFails
             \/ RaisesInTry \/ RaisesOutsideTry \/ NextDay \/ UNCHANGED vars
        BY <2>4 DEF CheckApp, PreHook, PreHookFails, PostHook, PostHookFails,
                    RaisesInTry, RaisesOutsideTry, NextDay, vars
  <2>5. QED
        BY <1>4, <2>1, <2>2, <2>3, <2>4
        DEF Next, BoundedStep, DockerStep, StopStep, Mishap
<1>5. QED
      BY <1>1, <1>2, <1>3, <1>4

\* An app that was down when the run began is not brought up by it, under any
\* faults, as long as the docker filter matches only the app it is asked for.
THEOREM NothingStarted ==
    ASSUME ExactNameMatches
    PROVE  Spec => NoSpuriousStart
<1>1. Init => FoundInv
      BY DEF Init, FoundInv, AppSteps
<1>2. TypeOK /\ RefOK /\ FoundInv /\ [Next]_vars => FoundInv'
      BY FoundStep
<1>3. TypeOK /\ RefOK /\ FoundInv /\ [Next]_vars =>
          [\A a \in Apps : ~up[a] /\ up'[a] => upBefore[a]]_vars
      BY OnlyStartsBringUp DEF FoundInv
<1>4. QED
      BY TypeInit, TypeStep, <1>1, <1>2, <1>3, PTL DEF Spec, NoSpuriousStart
=============================================================================
