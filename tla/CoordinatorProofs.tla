------------------------- MODULE CoordinatorProofs -------------------------
(***************************************************************************)
(* Proofs about Coordinator, for any threads, schedules, calendar and      *)
(* clock.                                                                  *)
(***************************************************************************)
EXTENDS Coordinator, TLAPS

\* What the lock needs to know of the types.
PcOK ==
    /\ pc \in [Threads -> {"idle", "down", "sleep", "load", "loop", "active",
                           "mark", "spawn", "test", "begin", "run", "final",
                           "clear", "release"}]
    /\ locked \in BOOLEAN

\* Workers and clients never are in the states of the scheduler loop.
RolesOK ==
    /\ \A w \in Workers : pc[w] \in {"idle", "begin", "run", "final", "clear",
                                     "release"}
    /\ \A c \in Clients : pc[c] \in {"idle", "active", "spawn", "test"}
    /\ pc[Main] \in {"down", "sleep", "load", "loop", "active", "mark", "spawn"}

LockInv == PcOK /\ RolesOK /\ OneBackupAtATime

LEMMA LockInit == Init => LockInv
BY ThreadsAssumption
   DEF Init, LockInv, PcOK, RolesOK, OneBackupAtATime, Holders, FreshPc, Threads

LEMMA LockStep == LockInv /\ [Next]_vars => LockInv'
<1> SUFFICES ASSUME LockInv, [Next]_vars PROVE LockInv'
    OBVIOUS
<1> USE ThreadsAssumption
    DEF LockInv, PcOK, RolesOK, OneBackupAtATime, Holders, Threads, LockFree
<1>1. CASE Wake
      BY <1>1 DEF Wake
<1>2. CASE LoadDue
      BY <1>2 DEF LoadDue
<1>3. CASE PassDone
      BY <1>3 DEF PassDone
<1>4. ASSUME NEW s \in Schedules, StartDue(s) PROVE LockInv'
      BY <1>4 DEF StartDue
<1>5. ASSUME NEW s \in Schedules, DueRefused(s) PROVE LockInv'
      BY <1>5 DEF DueRefused
<1>6. ASSUME NEW p \in Starters, SetActive(p) PROVE LockInv'
      BY <1>6 DEF SetActive, Starters
<1>7. CASE Mark
      BY <1>7 DEF Mark
<1>8. CASE Die
      BY <1>8 DEF Die, FreshPc
<1>9. ASSUME NEW p \in Starters, NEW w \in Workers, Spawn(p, w) PROVE LockInv'
      BY <1>9 DEF Spawn, Starters
<1>10. ASSUME NEW c \in Clients, NEW s \in Schedules, PostBackup(c, s)
       PROVE LockInv'
      BY <1>10 DEF PostBackup
<1>11. ASSUME NEW c \in Clients, PostTest(c) PROVE LockInv'
      BY <1>11 DEF PostTest
<1>12. ASSUME NEW c \in Clients, TestEnds(c) PROVE LockInv'
  <2>1. \A t \in Threads : t # c => t \notin Holders
        BY <1>12 DEF TestEnds
  <2>2. PcOK' /\ RolesOK'
        BY <1>12 DEF TestEnds
  <2>3. Holders' = {}
        BY <1>12, <2>1 DEF TestEnds
  <2>4. QED
        BY <2>2, <2>3
<1>13. ASSUME NEW w \in Workers, BeginRun(w) PROVE LockInv'
      BY <1>13 DEF BeginRun
<1>14. ASSUME NEW w \in Workers, NEW status \in {"success", "failed"},
              RunEnds(w, status)
       PROVE LockInv'
      BY <1>14 DEF RunEnds
<1>15. ASSUME NEW w \in Workers, StoreOutcome(w) PROVE LockInv'
      BY <1>15 DEF StoreOutcome
<1>16. ASSUME NEW w \in Workers, ClearActive(w) PROVE LockInv'
      BY <1>16 DEF ClearActive
<1>17. ASSUME NEW w \in Workers, Release(w) PROVE LockInv'
  <2>1. \A t \in Threads : t # w => t \notin Holders
        BY <1>17 DEF Release
  <2>2. PcOK' /\ RolesOK'
        BY <1>17 DEF Release
  <2>3. Holders' = {}
        BY <1>17, <2>1 DEF Release
  <2>4. QED
        BY <2>2, <2>3
<1>18. ASSUME NEW w \in Workers, StoreFails(w) PROVE LockInv'
      BY <1>18 DEF StoreFails
<1>19. CASE Restart
      BY <1>19 DEF Restart
<1>20. CASE Tick
      BY <1>20 DEF Tick
<1>21. CASE UNCHANGED vars
      BY <1>21 DEF vars
<1>22. QED
      BY <1>1, <1>2, <1>3, <1>4, <1>5, <1>6, <1>7, <1>8, <1>9, <1>10, <1>11,
         <1>12, <1>13, <1>14, <1>15, <1>16, <1>17, <1>18, <1>19, <1>20, <1>21
      DEF Next, MainStep, Request, HandlerStep, WorkerStep, WorkEnds, Crash,
          MarkFails, Starters

\* At most one backup or connection test is in progress, whatever the number
\* of request threads, and even when state file writes fail or the process is
\* killed at any point.
THEOREM Serialized == Spec => []OneBackupAtATime
<1>1. LockInv => OneBackupAtATime
      BY DEF LockInv
<1>2. QED
      BY LockInit, LockStep, <1>1, PTL DEF Spec

-----------------------------------------------------------------------------
(* A taken lock is on its way back, unless a state file write has raised.  *)

LEMMA NotLeakedStep ==
    ASSUME LockInv, LockNotLeaked, [Next]_vars
    PROVE  LockNotLeaked'
<1> USE ThreadsAssumption
    DEF LockInv, PcOK, RolesOK, Holders, Threads, LockFree, LockNotLeaked,
        history
<1>1. CASE Wake
      BY <1>1 DEF Wake
<1>2. CASE LoadDue
      BY <1>2 DEF LoadDue
<1>3. CASE PassDone
      BY <1>3 DEF PassDone
<1>4. ASSUME NEW s \in Schedules, StartDue(s) PROVE LockNotLeaked'
      BY <1>4 DEF StartDue
<1>5. ASSUME NEW s \in Schedules, DueRefused(s) PROVE LockNotLeaked'
      BY <1>5 DEF DueRefused
<1>6. ASSUME NEW p \in Starters, SetActive(p) PROVE LockNotLeaked'
  <2>1. p \in Holders'
        BY <1>6 DEF SetActive, Starters
  <2>2. QED
        BY <2>1
<1>7. CASE Mark
  <2>1. Main \in Holders'
        BY <1>7 DEF Mark
  <2>2. QED
        BY <2>1
<1>8. CASE Die
      BY <1>8 DEF Die
<1>9. ASSUME NEW p \in Starters, NEW w \in Workers, Spawn(p, w)
      PROVE LockNotLeaked'
  <2>1. w \in Holders'
        BY <1>9 DEF Spawn, Starters
  <2>2. QED
        BY <2>1
<1>10. ASSUME NEW c \in Clients, NEW s \in Schedules, PostBackup(c, s)
       PROVE LockNotLeaked'
      BY <1>10 DEF PostBackup
<1>11. ASSUME NEW c \in Clients, PostTest(c) PROVE LockNotLeaked'
      BY <1>11 DEF PostTest
<1>12. ASSUME NEW c \in Clients, TestEnds(c) PROVE LockNotLeaked'
      BY <1>12 DEF TestEnds
<1>13. ASSUME NEW w \in Workers, BeginRun(w) PROVE LockNotLeaked'
  <2>1. w \in Holders'
        BY <1>13 DEF BeginRun
  <2>2. QED
        BY <2>1
<1>14. ASSUME NEW w \in Workers, NEW status \in {"success", "failed"},
              RunEnds(w, status)
       PROVE LockNotLeaked'
      BY <1>14 DEF RunEnds
<1>15. ASSUME NEW w \in Workers, StoreOutcome(w) PROVE LockNotLeaked'
      BY <1>15 DEF StoreOutcome
<1>16. ASSUME NEW w \in Workers, ClearActive(w) PROVE LockNotLeaked'
      BY <1>16 DEF ClearActive
<1>17. ASSUME NEW w \in Workers, Release(w) PROVE LockNotLeaked'
      BY <1>17 DEF Release
<1>18. ASSUME NEW w \in Workers, StoreFails(w) PROVE LockNotLeaked'
      BY <1>18 DEF StoreFails
<1>19. CASE Restart
      BY <1>19 DEF Restart
<1>20. CASE Tick
      BY <1>20 DEF Tick
<1>21. CASE UNCHANGED vars
      BY <1>21 DEF vars
<1>22. QED
      BY <1>1, <1>2, <1>3, <1>4, <1>5, <1>6, <1>7, <1>8, <1>9, <1>10, <1>11,
         <1>12, <1>13, <1>14, <1>15, <1>16, <1>17, <1>18, <1>19, <1>20, <1>21
      DEF Next, MainStep, Request, HandlerStep, WorkerStep, WorkEnds, Crash,
          MarkFails, Starters

\* Unless a write of the state file raises in the thread that holds it, the
\* lock is never left taken with nobody to release it, even when the process
\* is killed at any point.
THEOREM NotLeaked == Spec => []LockNotLeaked
<1>1. Init => LockNotLeaked
      BY DEF Init, LockNotLeaked
<1>2. LockInv /\ LockNotLeaked /\ [Next]_vars => LockNotLeaked'
      BY NotLeakedStep
<1>3. QED
      BY LockInit, LockStep, <1>1, <1>2, PTL DEF Spec

-----------------------------------------------------------------------------
(* Types.                                                                  *)

LEMMA DayNat == \A t \in Nat : Day(t) \in Nat
BY TimeAssumption DEF Day

LEMMA DayMonotone == \A t, u \in Nat : t <= u => Day(t) <= Day(u)
BY TimeAssumption DEF Day

LEMMA DayTyped == \A t \in 0 .. MaxTime : Day(t) \in Days
<1>1. \A t \in 0 .. MaxTime : Day(t) \in Nat /\ Day(t) <= Day(MaxTime)
      BY TimeAssumption, DayNat, DayMonotone
<1>2. Day(MaxTime) \in Nat
      BY TimeAssumption, DayNat
<1>3. Days = 0 .. Day(MaxTime)
      BY DEF Days, Day
<1>4. QED
      BY <1>1, <1>2, <1>3

\* A thread has a schedule from taking the lock to giving it back, and the
\* loop does not run ahead of the clock.
Working == {"active", "mark", "spawn", "begin", "run", "final", "clear", "release"}

CoordInv ==
    /\ TypeOK /\ RolesOK
    /\ \A t \in Threads : pc[t] \in Working => want[t] \in Schedules
    /\ \A w \in Workers :
           pc[w] \in {"final", "clear"} => outcome[w] \in {"success", "failed"}
    /\ loopNow <= now

LEMMA CoordInit == Init => CoordInv
<1> SUFFICES ASSUME Init PROVE CoordInv
    OBVIOUS
<1>1. RolesOK
      BY ThreadsAssumption DEF Init, RolesOK, FreshPc, Threads
<1>2. /\ pc \in [Threads -> {"sleep", "idle"}]
      /\ want \in [Threads -> Schedules \cup {None}]
      /\ outcome \in [Workers -> {"none", "success", "failed"}]
      /\ marks \in [Schedules -> Days \cup {None}]
      /\ runsOn \in [Schedules \X Days -> 0 .. 2]
      /\ lastRun \in [status : {"none", "running", "success", "failed"},
                      schedule : Schedules \cup {None}]
      /\ 0 \in 0 .. MaxTime
      BY TimeAssumption DEF Init, FreshPc, NoRun
<1>3. TypeOK
      BY <1>2 DEF Init, TypeOK
<1>4. QED
      BY <1>1, <1>2, <1>3, TimeAssumption DEF Init, CoordInv, Working, Threads

LEMMA CoordStep == CoordInv /\ [Next]_vars => CoordInv'
<1> SUFFICES ASSUME CoordInv, [Next]_vars PROVE CoordInv'
    OBVIOUS
<1> USE ThreadsAssumption, TimeAssumption
    DEF CoordInv, TypeOK, RolesOK, Threads, Working, loopVars, stateFile, history
<1>1. CASE Wake \/ LoadDue \/ PassDone
  <2>1. DueSchedules(loopNow, marks) \subseteq Schedules
        BY DEF DueSchedules
  <2>2. CASE Wake
        BY <2>2 DEF Wake
  <2>3. CASE LoadDue
        BY <2>1, <2>3 DEF LoadDue
  <2>4. CASE PassDone
    <3>1. polled' \in BOOLEAN
          BY <2>4 DEF PassDone
    <3>2. QED
          BY <2>4, <3>1 DEF PassDone
  <2>5. QED
        BY <1>1, <2>2, <2>3, <2>4
<1>2. ASSUME NEW s \in Schedules, StartDue(s) PROVE CoordInv'
      BY <1>2 DEF StartDue
<1>3. ASSUME NEW s \in Schedules, DueRefused(s) PROVE CoordInv'
      BY <1>3, DayTyped DEF DueRefused
<1>4. ASSUME NEW p \in Starters, SetActive(p) PROVE CoordInv'
      BY <1>4 DEF SetActive, Starters
<1>5. CASE Mark
  <2>1. Today \in Days
        BY DayTyped DEF Today
  <2>2. marks' \in [Schedules -> Days \cup {None}]
        BY <1>5, <2>1 DEF Mark
  <2>3. QED
        BY <1>5, <2>2 DEF Mark
<1>6. CASE Die
  <2>1. Day(now) \in Days
        BY DayTyped
  <2>2. pc' \in [Threads -> {"down", "idle", "sleep"}] /\ pc'[Main] = "down"
        /\ \A t \in Threads : t # Main => pc'[t] = "idle"
        BY <1>6 DEF Die, FreshPc
  <2>3. /\ want' \in [Threads -> Schedules \cup {None}]
        /\ outcome' \in [Workers -> {"none", "success", "failed"}]
        /\ marks' = marks
        BY <1>6 DEF Die, PersistedMarks
  <2>4. QED
        BY <1>6, <2>1, <2>2, <2>3 DEF Die
<1>7. ASSUME NEW p \in Starters, NEW w \in Workers, Spawn(p, w)
      PROVE  CoordInv'
  <2>1. want[p] \in Schedules /\ p \in Threads /\ w \in Threads /\ p # w
        BY <1>7 DEF Spawn, Starters
  <2>2. Day(loopNow) \in Days
        BY DayTyped
  <2>3. runsOn' \in [Schedules \X Days -> 0 .. 2]
        BY <1>7, <2>1, <2>2 DEF Spawn
  <2>4. /\ pc' = [pc EXCEPT ![p] = IF p = Main THEN "loop" ELSE "idle",
                            ![w] = "begin"]
        /\ want' = [want EXCEPT ![p] = None, ![w] = want[p]]
        BY <1>7 DEF Spawn
  <2>5. RolesOK'
        BY <2>1, <2>4 DEF Starters
  <2>6. \A t \in Threads : pc'[t] \in Working => want'[t] \in Schedules
        BY <2>1, <2>4
  <2>7. TypeOK'
        BY <1>7, <2>1, <2>3, <2>4 DEF Spawn
  <2>8. \A u \in Workers :
            pc'[u] \in {"final", "clear"} => outcome'[u] \in {"success", "failed"}
        BY <1>7, <2>1, <2>4 DEF Spawn, Starters
  <2>9. QED
        BY <1>7, <2>5, <2>6, <2>7, <2>8 DEF Spawn
<1>8. ASSUME NEW c \in Clients, NEW s \in Schedules, PostBackup(c, s)
      PROVE  CoordInv'
      BY <1>8 DEF PostBackup
<1>9. ASSUME NEW c \in Clients, PostTest(c) \/ TestEnds(c) PROVE CoordInv'
  <2>1. CASE PostTest(c)
        BY <2>1 DEF PostTest
  <2>2. CASE TestEnds(c)
        BY <2>2 DEF TestEnds
  <2>3. QED
        BY <1>9, <2>1, <2>2
<1>10. ASSUME NEW w \in Workers, BeginRun(w) PROVE CoordInv'
       BY <1>10 DEF BeginRun
<1>11. ASSUME NEW w \in Workers, NEW status \in {"success", "failed"},
              RunEnds(w, status)
       PROVE  CoordInv'
       BY <1>11 DEF RunEnds
<1>12. ASSUME NEW w \in Workers, StoreOutcome(w) PROVE CoordInv'
       BY <1>12 DEF StoreOutcome
<1>13. ASSUME NEW w \in Workers, ClearActive(w) PROVE CoordInv'
       BY <1>13 DEF ClearActive
<1>14. ASSUME NEW w \in Workers, Release(w) PROVE CoordInv'
       BY <1>14 DEF Release
<1>15. ASSUME NEW w \in Workers, StoreFails(w) PROVE CoordInv'
       BY <1>15 DEF StoreFails
<1>16. CASE Restart
       BY <1>16, DayTyped DEF Restart
<1>17. CASE Tick
  <2>1. now' \in 0 .. MaxTime /\ Day(now + 1) \in Days
        BY <1>17, DayTyped DEF Tick
  <2>2. died' \subseteq Days /\ loopNow' <= now'
        BY <1>17, <2>1 DEF Tick
  <2>3. TypeOK'
        BY <1>17, <2>1, <2>2 DEF Tick
  <2>4. QED
        BY <1>17, <2>2, <2>3 DEF Tick
<1>18. CASE UNCHANGED vars
       BY <1>18 DEF vars
<1>19. CASE MainStep
       BY <1>1, <1>2, <1>3, <1>4, <1>5, <1>6, <1>7, <1>19
       DEF MainStep, MarkFails, Starters
<1>20. ASSUME NEW c \in Clients, Request(c) \/ HandlerStep(c) PROVE CoordInv'
       BY <1>4, <1>7, <1>8, <1>9, <1>20 DEF Request, HandlerStep, Starters
<1>21. ASSUME NEW w \in Workers, WorkerStep(w) PROVE CoordInv'
       BY <1>10, <1>12, <1>13, <1>14, <1>15, <1>21 DEF WorkerStep
<1>22. CASE WorkEnds
       BY <1>9, <1>11, <1>22 DEF WorkEnds
<1>23. CASE Crash
       BY <1>6, <1>23 DEF Crash
<1>24. QED
       BY <1>16, <1>17, <1>18, <1>19, <1>20, <1>21, <1>22, <1>23 DEF Next

\* Every state is well typed, for any calendar and any number of threads.
THEOREM TypeCorrect == Spec => []TypeOK
<1>1. CoordInv => TypeOK
      BY DEF CoordInv
<1>2. QED
      BY CoordInit, CoordStep, <1>1, PTL DEF Spec

-----------------------------------------------------------------------------
(* What the dashboard shows.                                               *)

\* active_schedule is the holder's from the step after it took the lock to
\* the step before it gives it back.
ActiveInv ==
    /\ \A t \in Threads :
           pc[t] \in {"mark", "spawn", "begin", "run", "final", "clear"}
               => active = want[t]
    /\ active # None =>
           \/ \E t \in Threads :
                  /\ pc[t] \in {"mark", "spawn", "begin", "run", "final", "clear"}
                  /\ active = want[t]
           \/ cutOff = "leaked"

LEMMA ActiveStep ==
    ASSUME CoordInv, LockInv, ActiveInv, [Next]_vars
    PROVE  ActiveInv'
<1> USE ThreadsAssumption
    DEF CoordInv, TypeOK, RolesOK, Threads, ActiveInv, loopVars, stateFile,
        history, LockFree
<1>0. \A t, u \in Threads : t \in Holders /\ u \in Holders => t = u
      BY DEF LockInv, OneBackupAtATime, Holders
<1>1. CASE Wake \/ LoadDue \/ PassDone
  <2>1. UNCHANGED <<want, active, cutOff>>
        BY <1>1 DEF Wake, LoadDue, PassDone
  <2>2. pc[Main] \in {"sleep", "load", "loop"}
        /\ \E at \in {"sleep", "load", "loop"} : pc' = [pc EXCEPT ![Main] = at]
        BY <1>1 DEF Wake, LoadDue, PassDone
  <2>3. QED
        BY <2>1, <2>2
<1>2. ASSUME NEW s \in Schedules, StartDue(s) PROVE ActiveInv'
      BY <1>2 DEF StartDue
<1>3. ASSUME NEW s \in Schedules, DueRefused(s) PROVE ActiveInv'
      BY <1>3 DEF DueRefused
<1>4. ASSUME NEW p \in Starters, SetActive(p) PROVE ActiveInv'
  <2>1. p \in Threads /\ p \in Holders
        BY <1>4 DEF SetActive, Starters, Holders
  <2>2. \A t \in Threads : t # p => t \notin Holders
        BY <1>0, <2>1
  <2>3. \A t \in Threads : t # p =>
            pc[t] \notin {"mark", "spawn", "begin", "run", "final", "clear"}
        BY <2>2 DEF Holders
  <2>4. active' = want[p] /\ want' = want /\ pc'[p] \in {"mark", "spawn"}
        /\ \A t \in Threads : t # p => pc'[t] = pc[t]
        BY <1>4, <2>1 DEF SetActive
  <2>5. QED
        BY <2>1, <2>3, <2>4
<1>5. CASE Mark
      BY <1>5 DEF Mark
<1>6. CASE Die
      BY <1>6 DEF Die, FreshPc
<1>7. ASSUME NEW p \in Starters, NEW w \in Workers, Spawn(p, w)
      PROVE  ActiveInv'
  <2>1. p \in Threads /\ w \in Threads /\ p # w /\ p \in Holders
        BY <1>7 DEF Spawn, Starters, Holders
  <2>2. \A t \in Threads : t # p => t \notin Holders
        BY <1>0, <2>1
  <2>3. \A t \in Threads : t # p =>
            pc[t] \notin {"mark", "spawn", "begin", "run", "final", "clear"}
        BY <2>2 DEF Holders
  <2>4. /\ active' = active /\ active = want[p] /\ pc'[w] = "begin"
        /\ want'[w] = want[p] /\ pc'[p] \in {"loop", "idle"}
        /\ \A t \in Threads : t \notin {p, w} => pc'[t] = pc[t]
        BY <1>7, <2>1 DEF Spawn
  <2>5. QED
        BY <2>1, <2>3, <2>4
<1>8. ASSUME NEW c \in Clients, NEW s \in Schedules, PostBackup(c, s)
      PROVE  ActiveInv'
      BY <1>8 DEF PostBackup
<1>9. ASSUME NEW c \in Clients, PostTest(c) \/ TestEnds(c) PROVE ActiveInv'
      BY <1>9 DEF PostTest, TestEnds
<1>10. ASSUME NEW w \in Workers, BeginRun(w) PROVE ActiveInv'
       BY <1>10 DEF BeginRun
<1>11. ASSUME NEW w \in Workers, NEW status \in {"success", "failed"},
              RunEnds(w, status)
       PROVE  ActiveInv'
       BY <1>11 DEF RunEnds
<1>12. ASSUME NEW w \in Workers, StoreOutcome(w) PROVE ActiveInv'
       BY <1>12 DEF StoreOutcome
<1>13. ASSUME NEW w \in Workers, ClearActive(w) PROVE ActiveInv'
  <2>1. w \in Threads /\ w \in Holders
        BY <1>13 DEF ClearActive, Holders
  <2>2. \A t \in Threads : t # w => t \notin Holders
        BY <1>0, <2>1
  <2>3. QED
        BY <1>13, <2>2 DEF ClearActive, Holders
<1>14. ASSUME NEW w \in Workers, Release(w) PROVE ActiveInv'
       BY <1>14 DEF Release
<1>15. ASSUME NEW w \in Workers, StoreFails(w) PROVE ActiveInv'
       BY <1>15 DEF StoreFails
<1>16. CASE Restart
       BY <1>16 DEF Restart
<1>17. CASE Tick
       BY <1>17 DEF Tick
<1>18. CASE UNCHANGED vars
       BY <1>18 DEF vars
<1>19. CASE MainStep
       BY <1>1, <1>2, <1>3, <1>4, <1>5, <1>6, <1>7, <1>19
       DEF MainStep, MarkFails, Starters
<1>20. ASSUME NEW c \in Clients, Request(c) \/ HandlerStep(c) PROVE ActiveInv'
       BY <1>4, <1>7, <1>8, <1>9, <1>20 DEF Request, HandlerStep, Starters
<1>21. ASSUME NEW w \in Workers, WorkerStep(w) PROVE ActiveInv'
       BY <1>10, <1>12, <1>13, <1>14, <1>15, <1>21 DEF WorkerStep
<1>22. CASE WorkEnds
       BY <1>9, <1>11, <1>22 DEF WorkEnds
<1>23. CASE Crash
       BY <1>6, <1>23 DEF Crash
<1>24. QED
       BY <1>16, <1>17, <1>18, <1>19, <1>20, <1>21, <1>22, <1>23 DEF Next

\* The schedule shown as active is the one that is running, on every
\* interleaving and after kills; only a state file write that raises can leave
\* it shown for good.
THEOREM ActiveIsRunning == Spec => []ActiveShown
<1>1. Init => ActiveInv
      BY DEF Init, ActiveInv, FreshPc
<1>2. ActiveInv => ActiveShown
      BY DEF ActiveInv, ActiveShown, Holders, Threads
<1>3. CoordInv /\ LockInv /\ ActiveInv /\ [Next]_vars => ActiveInv'
      BY ActiveStep
<1>4. QED
      BY <1>1, <1>2, <1>3, CoordInit, CoordStep, LockInit, LockStep, PTL DEF Spec

-----------------------------------------------------------------------------
(* The mark of a schedule keeps it from being started twice for a day.     *)

\* Marks never lie ahead of the clock.  A start for a day is marked with that
\* day or a later one; what the loop is about to start has not been started
\* for its day.
OnceInv ==
    /\ AtMostOncePerDay
    /\ \A s \in Schedules : marks[s] # None => marks[s] <= Day(now)
    /\ \A s \in Schedules, d \in Days :
           runsOn[<<s, d>>] > 0 => marks[s] # None /\ d <= marks[s]
    /\ pc[Main] = "load" => \A s \in Schedules :
           marks[s] # None => marks[s] <= Day(loopNow)
    /\ pc[Main] \in {"loop", "active", "mark", "spawn"} =>
           \A s \in due : runsOn[<<s, Day(loopNow)>>] = 0
    /\ pc[Main] \in {"active", "mark", "spawn"} =>
           /\ want[Main] \notin due
           /\ runsOn[<<want[Main], Day(loopNow)>>] = 0
    /\ pc[Main] = "spawn" =>
           marks[want[Main]] # None /\ Day(loopNow) <= marks[want[Main]]

LEMMA Antisymmetric == \A m, n \in Nat : m <= n /\ n <= m => m = n
OBVIOUS

LEMMA OnceStep ==
    ASSUME CoordInv, OnceInv, [Next]_vars
    PROVE  OnceInv'
<1> USE ThreadsAssumption, TimeAssumption
    DEF CoordInv, TypeOK, RolesOK, Threads, OnceInv, AtMostOncePerDay,
        loopVars, stateFile, history
<1>0. /\ now \in Nat /\ loopNow \in Nat
      /\ Day(now) \in Nat /\ Day(loopNow) \in Nat /\ Day(loopNow) <= Day(now)
      /\ Day(loopNow) \in Days
      BY DayNat, DayMonotone, DayTyped
<1>d. \A d \in Days : d \in Nat
      BY DEF Days
<1>1. CASE Wake
      BY <1>0, <1>1 DEF Wake
<1>2. CASE LoadDue
  <2>1. \A s \in DueSchedules(loopNow, marks) :
            s \in Schedules /\ marks[s] # Day(loopNow)
        BY DEF DueSchedules
  <2>2. \A s \in Schedules : runsOn[<<s, Day(loopNow)>>] > 0 =>
            /\ marks[s] # None /\ marks[s] \in Nat
            /\ Day(loopNow) <= marks[s] /\ marks[s] <= Day(loopNow)
        BY <1>0, <1>d, <1>2 DEF LoadDue
  <2>3. \A s \in DueSchedules(loopNow, marks) : runsOn[<<s, Day(loopNow)>>] = 0
    <3>1. SUFFICES ASSUME NEW s \in DueSchedules(loopNow, marks),
                          runsOn[<<s, Day(loopNow)>>] # 0
                   PROVE  FALSE
          OBVIOUS
    <3>2. runsOn[<<s, Day(loopNow)>>] \in 0 .. 2
          BY <1>0, <2>1, <3>1
    <3>3. runsOn[<<s, Day(loopNow)>>] > 0
          BY <3>1, <3>2
    <3>4. s \in Schedules /\ marks[s] # Day(loopNow)
          BY <2>1
    <3>5. /\ marks[s] \in Nat
          /\ Day(loopNow) <= marks[s] /\ marks[s] <= Day(loopNow)
          BY <2>2, <3>3, <3>4
    <3>6. QED
          BY <1>0, <3>4, <3>5, Antisymmetric
  <2>4. QED
        BY <1>2, <2>3 DEF LoadDue
<1>3. CASE PassDone
      BY <1>3 DEF PassDone
<1>4. ASSUME NEW s \in Schedules, StartDue(s) PROVE OnceInv'
      BY <1>4 DEF StartDue, NextDue
<1>5. ASSUME NEW s \in Schedules, DueRefused(s) PROVE OnceInv'
      BY <1>5 DEF DueRefused
<1>6. ASSUME NEW p \in Starters, SetActive(p) PROVE OnceInv'
      BY <1>6 DEF SetActive, Starters
<1>7. CASE Mark
  <2>1. /\ pc[Main] = "mark" /\ want[Main] \in Schedules
        /\ marks' = [marks EXCEPT ![want[Main]] = Day(now)]
        /\ UNCHANGED <<want, due, loopNow, now, runsOn>>
        /\ pc' = [pc EXCEPT ![Main] = "spawn"]
        BY <1>7 DEF Mark, Today, Working
  <2>2. Day(now) # None
        BY <1>0, SchedulesAssumption
  <2>3. \A s \in Schedules : marks[s] # None =>
            marks'[s] # None /\ marks[s] <= marks'[s] /\ marks[s] \in Nat
            /\ marks'[s] \in Nat
        BY <1>0, <1>d, <2>1, <2>2
  <2>4. \A s \in Schedules, d \in Days :
            runsOn[<<s, d>>] > 0 => marks'[s] # None /\ d <= marks'[s]
        BY <1>d, <2>3
  <2>5. \A s \in Schedules : marks'[s] # None => marks'[s] <= Day(now)
        BY <1>0, <2>1
  <2>6. marks'[want[Main]] # None /\ Day(loopNow) <= marks'[want[Main]]
        BY <1>0, <2>1, <2>2
  <2>7. pc'[Main] = "spawn"
        BY <2>1
  <2>8. QED
        BY <2>1, <2>4, <2>5, <2>6, <2>7
<1>8. CASE Die
  <2>1. pc'[Main] = "down" /\ UNCHANGED <<runsOn, marks, now>>
        BY <1>8 DEF Die, PersistedMarks, FreshPc
  <2>2. QED
        BY <2>1
<1>9. ASSUME NEW c \in Clients, NEW w \in Workers, Spawn(c, w)
      PROVE  OnceInv'
  <2>1. /\ pc'[Main] = pc[Main] /\ want'[Main] = want[Main]
        /\ UNCHANGED <<runsOn, marks, now, due, loopNow>>
        BY <1>9 DEF Spawn
  <2>2. QED
        BY <2>1
<1>10. ASSUME NEW w \in Workers, Spawn(Main, w) PROVE OnceInv'
  <2>1. /\ pc[Main] = "spawn" /\ pc'[Main] = "loop"
        /\ UNCHANGED <<marks, now, due, loopNow>> /\ want[Main] \in Schedules
        /\ runsOn' = [runsOn EXCEPT ![<<want[Main], Day(loopNow)>>] =
                          IF @ < 2 THEN @ + 1 ELSE 2]
        BY <1>10 DEF Spawn, Working
  <2>2. /\ runsOn[<<want[Main], Day(loopNow)>>] = 0
        /\ <<want[Main], Day(loopNow)>> \in Schedules \X Days
        BY <1>0, <2>1
  <2>3. runsOn'[<<want[Main], Day(loopNow)>>] = 1
        /\ \A sd \in Schedules \X Days :
               sd # <<want[Main], Day(loopNow)>> => runsOn'[sd] = runsOn[sd]
        BY <2>1, <2>2
  <2>4. AtMostOncePerDay'
        BY <2>3
  <2>5. \A s \in Schedules, d \in Days :
            runsOn'[<<s, d>>] > 0 => marks[s] # None /\ d <= marks[s]
    <3>1. SUFFICES ASSUME NEW s \in Schedules, NEW d \in Days,
                          runsOn'[<<s, d>>] > 0
                   PROVE  marks[s] # None /\ d <= marks[s]
          OBVIOUS
    <3>2. CASE s = want[Main] /\ d = Day(loopNow)
          BY <2>1, <3>2
    <3>3. CASE ~(s = want[Main] /\ d = Day(loopNow))
          BY <2>3, <3>1, <3>3
    <3>4. QED
          BY <3>2, <3>3
  <2>6. \A s \in due : runsOn'[<<s, Day(loopNow)>>] = 0
        BY <1>0, <2>1, <2>3
  <2>7. QED
        BY <2>1, <2>4, <2>5, <2>6
<1>11. ASSUME NEW c \in Clients,
              PostTest(c) \/ TestEnds(c) \/ \E s \in Schedules : PostBackup(c, s)
       PROVE  OnceInv'
  <2>1. /\ pc'[Main] = pc[Main] /\ want'[Main] = want[Main]
        /\ UNCHANGED <<runsOn, marks, now, due, loopNow>>
        BY <1>11 DEF PostTest, TestEnds, PostBackup
  <2>2. QED
        BY <2>1
<1>12. ASSUME NEW w \in Workers,
              \/ WorkerStep(w)
              \/ \E status \in {"success", "failed"} : RunEnds(w, status)
       PROVE  OnceInv'
  <2>1. /\ pc'[Main] = pc[Main] /\ want'[Main] = want[Main]
        /\ UNCHANGED <<runsOn, marks, now, due, loopNow>>
        BY <1>12 DEF WorkerStep, BeginRun, RunEnds, StoreOutcome, ClearActive,
                     Release, StoreFails
  <2>2. QED
        BY <2>1
<1>13. CASE Restart
  <2>1. pc'[Main] = "sleep" /\ UNCHANGED <<runsOn, marks, now>>
        BY <1>13 DEF Restart
  <2>2. QED
        BY <2>1
<1>14. CASE Tick
  <2>1. /\ UNCHANGED <<pc, want, runsOn, marks, due, loopNow>>
        /\ now' = now + 1
        BY <1>14 DEF Tick
  <2>2. Day(now') \in Nat /\ Day(now) <= Day(now')
        BY <1>0, <2>1, DayNat, DayMonotone
  <2>3. \A s \in Schedules : marks[s] # None => marks[s] <= Day(now')
        BY <1>0, <1>d, <2>2
  <2>4. QED
        BY <2>1, <2>3
<1>15. CASE UNCHANGED vars
       BY <1>15 DEF vars
<1>16. CASE MainStep
       BY <1>1, <1>2, <1>3, <1>4, <1>5, <1>6, <1>7, <1>8, <1>10, <1>16
       DEF MainStep, MarkFails, Starters
<1>17. ASSUME NEW c \in Clients, Request(c) \/ HandlerStep(c) PROVE OnceInv'
       BY <1>6, <1>9, <1>11, <1>17 DEF Request, HandlerStep, Starters
<1>18. CASE WorkEnds
       BY <1>11, <1>12, <1>18 DEF WorkEnds
<1>19. CASE Crash
       BY <1>8, <1>19 DEF Crash
<1>20. QED
       BY <1>12, <1>13, <1>14, <1>15, <1>16, <1>17, <1>18, <1>19 DEF Next

\* A schedule is started at most once for a day, for any calendar, hour and
\* clock, across refusals, kills and restarts at any point.
THEOREM OncePerDay == Spec => []AtMostOncePerDay
<1>1. Init => OnceInv
      BY ThreadsAssumption
      DEF Init, OnceInv, AtMostOncePerDay, FreshPc, Threads
<1>2. OnceInv => AtMostOncePerDay
      BY DEF OnceInv
<1>3. CoordInv /\ OnceInv /\ [Next]_vars => OnceInv'
      BY OnceStep
<1>4. QED
      BY <1>1, <1>2, <1>3, CoordInit, CoordStep, PTL DEF Spec

LEMMA LastRunStep ==
    ASSUME CoordInv, LastRunTrue, [Next]_vars
    PROVE  LastRunTrue'
<1> USE ThreadsAssumption
    DEF CoordInv, TypeOK, RolesOK, Threads, LastRunTrue, stateFile, history
<1>1. ASSUME UNCHANGED <<lastRun, cutOff>>,
             \A w \in Workers : pc[w] \in {"run", "final"} =>
                 pc'[w] \in {"run", "final"} /\ want'[w] = want[w]
      PROVE  LastRunTrue'
      BY <1>1
<1>2. CASE Wake \/ LoadDue \/ PassDone \/ Mark \/ Restart \/ Tick \/ UNCHANGED vars
      BY <1>1, <1>2 DEF Wake, LoadDue, PassDone, Mark, Restart, Tick, vars
<1>3. ASSUME NEW s \in Schedules, StartDue(s) \/ DueRefused(s)
      PROVE  LastRunTrue'
      BY <1>1, <1>3 DEF StartDue, DueRefused
<1>4. ASSUME NEW p \in Starters, SetActive(p) PROVE LastRunTrue'
      BY <1>1, <1>4 DEF SetActive, Starters
<1>5. CASE Die
      BY <1>5 DEF Die
<1>6. ASSUME NEW p \in Starters, NEW w \in Workers, Spawn(p, w)
      PROVE  LastRunTrue'
      BY <1>1, <1>6 DEF Spawn, Starters
<1>7. ASSUME NEW c \in Clients,
             PostTest(c) \/ TestEnds(c) \/ \E s \in Schedules : PostBackup(c, s)
      PROVE  LastRunTrue'
      BY <1>1, <1>7 DEF PostTest, TestEnds, PostBackup
<1>8. ASSUME NEW w \in Workers, BeginRun(w) PROVE LastRunTrue'
      BY <1>8 DEF BeginRun
<1>9. ASSUME NEW w \in Workers, NEW status \in {"success", "failed"},
             RunEnds(w, status)
      PROVE  LastRunTrue'
      BY <1>1, <1>9 DEF RunEnds
<1>10. ASSUME NEW w \in Workers, StoreOutcome(w) PROVE LastRunTrue'
  <2>1. lastRun'.status \in {"success", "failed"}
        BY <1>10 DEF StoreOutcome
  <2>2. QED
        BY <2>1
<1>11. ASSUME NEW w \in Workers, ClearActive(w) \/ Release(w) PROVE LastRunTrue'
       BY <1>1, <1>11 DEF ClearActive, Release
<1>12. ASSUME NEW w \in Workers, StoreFails(w) PROVE LastRunTrue'
       BY <1>12 DEF StoreFails
<1>13. CASE MainStep
       BY <1>2, <1>3, <1>4, <1>5, <1>6, <1>13
       DEF MainStep, MarkFails, Starters
<1>14. ASSUME NEW c \in Clients, Request(c) \/ HandlerStep(c) PROVE LastRunTrue'
       BY <1>4, <1>6, <1>7, <1>14 DEF Request, HandlerStep, Starters
<1>15. ASSUME NEW w \in Workers, WorkerStep(w) PROVE LastRunTrue'
       BY <1>8, <1>10, <1>11, <1>12, <1>15 DEF WorkerStep
<1>16. CASE WorkEnds
       BY <1>7, <1>9, <1>16 DEF WorkEnds
<1>17. CASE Crash
       BY <1>5, <1>17 DEF Crash
<1>18. QED
       BY <1>2, <1>13, <1>14, <1>15, <1>16, <1>17 DEF Next

\* "running" is a promise: some thread runs that schedule and is going to
\* store its outcome, unless it was killed or could not store it.
THEOREM LastRunKept == Spec => []LastRunTrue
<1>1. Init => LastRunTrue
      BY DEF Init, LastRunTrue, NoRun
<1>2. CoordInv /\ LastRunTrue /\ [Next]_vars => LastRunTrue'
      BY LastRunStep
<1>3. QED
      BY <1>1, <1>2, CoordInit, CoordStep, PTL DEF Spec

-----------------------------------------------------------------------------
(* A due schedule is started in its hour.                                  *)

\* The hour of the backup is not the last one of the day.
NotLastHour == BackupHour + 1 < Hours

Done(s, d) == runsOn[<<s, d>>] > 0 \/ <<s, d>> \in refused

\* What the loop has still to do for schedule s.
Ahead(s) == s \in due \/ (pc[Main] \in {"active", "mark", "spawn"} /\ s = want[Main])

\* A pass of the loop lasts into the next hour at most; only in the hour of
\* the backup does it start anything; what is scheduled for the day is done or
\* lies ahead; a mark stands for a start, or for one that is about to follow;
\* so once the loop has polled in the hour, what was due is done.
MissInv ==
    /\ MissedOnlyWhenBusy
    /\ ~Serving => Day(now) \in died
    /\ pc[Main] \in {"load", "loop", "active", "mark", "spawn"} =>
           loopNow = now \/ (now = loopNow + 1 /\ ~polled)
    /\ \/ pc[Main] = "loop" /\ due # {}
       \/ pc[Main] \in {"active", "mark", "spawn"}
       => Hour(loopNow) = BackupHour
    /\ pc[Main] \in {"loop", "active", "mark", "spawn"}
           /\ Hour(loopNow) = BackupHour /\ Day(loopNow) \notin died =>
           \A s \in Schedules : IsScheduled(s, Day(loopNow)) =>
               Done(s, Day(loopNow)) \/ Ahead(s)
    /\ \A s \in Schedules, d \in Days : marks[s] = d /\ d \notin died =>
           \/ Done(s, d)
           \/ pc[Main] = "spawn" /\ want[Main] = s /\ d = Day(loopNow)
    /\ polled /\ Hour(now) = BackupHour /\ Day(now) \notin died =>
           \A s \in Schedules : IsScheduled(s, Day(now)) => Done(s, Day(now))

\* The calendar and the clock.
LEMMA HourOfDay ==
    ASSUME NEW d \in Nat, NEW h \in 0 .. Hours - 1
    PROVE  Day(d * Hours + h) = d /\ Hour(d * Hours + h) = h
BY TimeAssumption DEF Day, Hour

LEMMA DayAndHour ==
    ASSUME NEW t \in Nat
    PROVE  /\ Day(t) \in Nat /\ Hour(t) \in 0 .. Hours - 1
           /\ t = Day(t) * Hours + Hour(t)
BY TimeAssumption DEF Day, Hour

LEMMA SameDay ==
    ASSUME NotLastHour, NEW t \in Nat, Hour(t) = BackupHour
    PROVE  Day(t + 1) = Day(t)
<1>1. t = Day(t) * Hours + BackupHour /\ Day(t) \in Nat
      BY DayAndHour
<1>2. BackupHour + 1 \in 0 .. Hours - 1
      BY TimeAssumption DEF NotLastHour
<1>3. Day(Day(t) * Hours + (BackupHour + 1)) = Day(t)
      BY <1>1, <1>2, HourOfDay
<1>4. PICK p \in Nat : p = Day(t) * Hours
      BY <1>1, TimeAssumption
<1>5. p + BackupHour + 1 = p + (BackupHour + 1)
      BY <1>4, TimeAssumption
<1>6. QED
      BY <1>1, <1>3, <1>4, <1>5

\* Steps of other threads that leave the loop, the state file and the clock
\* alone.
LEMMA MissFrame ==
    ASSUME MissInv, pc'[Main] = pc[Main], want'[Main] = want[Main],
           UNCHANGED <<loopNow, due, marks, now, polled, runsOn, refused, died>>
    PROVE  MissInv'
BY DEF MissInv, MissedOnlyWhenBusy, HourPassed, Serving, Done, Ahead

LEMMA MissStep ==
    ASSUME NotLastHour, CoordInv, MissInv, [Next]_vars
    PROVE  MissInv'
<1> USE ThreadsAssumption
    DEF CoordInv, TypeOK, RolesOK, Threads, loopVars, stateFile, history
<1>0. /\ now \in Nat /\ loopNow \in Nat /\ Main \in Threads
      /\ Day(now) \in Days /\ Day(loopNow) \in Days
      BY DayTyped, TimeAssumption
<1>d. \A d \in Days : d \in Nat /\ d # None
      BY SchedulesAssumption DEF Days
<1> USE DEF MissInv, MissedOnlyWhenBusy, HourPassed, Serving, Done, Ahead
<1>1. CASE Wake
      BY <1>1 DEF Wake
<1>2. CASE LoadDue
  <2>1. /\ pc[Main] = "load" /\ pc'[Main] = "loop"
        /\ due' = DueSchedules(loopNow, marks)
        /\ UNCHANGED <<want, loopNow, marks, now, polled, runsOn, refused, died>>
        BY <1>2 DEF LoadDue
  <2>2. due' # {} => Hour(loopNow) = BackupHour
        BY <2>1 DEF DueSchedules
  <2>3. ASSUME Hour(loopNow) = BackupHour, Day(loopNow) \notin died,
               NEW s \in Schedules, IsScheduled(s, Day(loopNow)), s \notin due'
        PROVE  Done(s, Day(loopNow))
    <3>1. marks[s] = Day(loopNow)
          BY <2>1, <2>3 DEF DueSchedules
    <3>2. QED
          BY <1>0, <2>1, <2>3, <3>1
  <2>4. QED
        BY <2>1, <2>2, <2>3
<1>3. CASE PassDone
  <2>1. /\ pc[Main] = "loop" /\ due = {} /\ pc'[Main] = "sleep"
        /\ polled' = (polled \/ loopNow = now)
        /\ UNCHANGED <<want, loopNow, due, marks, now, runsOn, refused, died>>
        BY <1>3 DEF PassDone
  <2>2. QED
        BY <2>1
<1>4. ASSUME NEW s \in Schedules, StartDue(s) PROVE MissInv'
  <2>1. /\ pc[Main] = "loop" /\ pc'[Main] = "active" /\ s \in due
        /\ due' = due \ {s} /\ want'[Main] = s
        /\ UNCHANGED <<loopNow, marks, now, polled, runsOn, refused, died>>
        BY <1>4 DEF StartDue, NextDue
  <2>2. QED
        BY <2>1
<1>5. ASSUME NEW s \in Schedules, DueRefused(s) PROVE MissInv'
  <2>1. /\ pc[Main] = "loop" /\ pc' = pc /\ s \in due /\ due' = due \ {s}
        /\ refused' = refused \cup {<<s, Day(loopNow)>>}
        /\ UNCHANGED <<want, loopNow, marks, now, polled, runsOn, died>>
        BY <1>5 DEF DueRefused, NextDue
  <2>2. QED
        BY <2>1
<1>6. CASE SetActive(Main)
  <2>1. /\ pc[Main] = "active" /\ pc'[Main] = "mark"
        /\ UNCHANGED <<want, loopNow, due, marks, now, polled, runsOn, refused,
                       died>>
        BY <1>6 DEF SetActive
  <2>2. QED
        BY <2>1
<1>7. CASE Mark
  <2>1. /\ pc[Main] = "mark" /\ pc'[Main] = "spawn"
        /\ marks' = [marks EXCEPT ![want[Main]] = Day(now)]
        /\ UNCHANGED <<want, loopNow, due, now, polled, runsOn, refused, died>>
        BY <1>7 DEF Mark, Today
  <2>2. Day(now) = Day(loopNow)
        BY <1>0, <2>1, SameDay
  <2>3. \A s \in Schedules, d \in Days : marks'[s] = d /\ d \notin died =>
            Done(s, d) \/ (want[Main] = s /\ d = Day(loopNow))
        BY <2>1, <2>2
  <2>4. QED
        BY <2>1, <2>3
<1>8. CASE Die
  <2>1. /\ pc'[Main] = "down" /\ marks' = marks /\ due' = {}
        /\ died' = died \cup {Day(now)}
        /\ UNCHANGED <<loopNow, now, polled, runsOn, refused>>
        BY <1>8 DEF Die, PersistedMarks, FreshPc
  <2>2. pc[Main] = "spawn" => Day(now) = Day(loopNow)
        BY <1>0, SameDay
  <2>3. \A s \in Schedules, d \in Days :
            marks[s] = d /\ d \notin died' => Done(s, d)
        BY <2>1, <2>2
  <2>4. QED
        BY <2>1, <2>3
<1>9. ASSUME NEW w \in Workers, Spawn(Main, w) PROVE MissInv'
  <2>1. /\ pc[Main] = "spawn" /\ pc'[Main] = "loop"
        /\ want[Main] \in Schedules
        /\ runsOn' = [runsOn EXCEPT ![<<want[Main], Day(loopNow)>>] =
                          IF @ < 2 THEN @ + 1 ELSE 2]
        /\ UNCHANGED <<loopNow, due, marks, now, polled, refused, died>>
        BY <1>9 DEF Spawn, Working
  <2>2. runsOn'[<<want[Main], Day(loopNow)>>] > 0
        BY <1>0, <2>1
  <2>3. \A s \in Schedules, d \in Days :
            runsOn[<<s, d>>] > 0 => runsOn'[<<s, d>>] > 0
    <3>1. SUFFICES ASSUME NEW s \in Schedules, NEW d \in Days,
                          runsOn[<<s, d>>] > 0
                   PROVE  runsOn'[<<s, d>>] > 0
          OBVIOUS
    <3>2. CASE <<s, d>> = <<want[Main], Day(loopNow)>>
          BY <2>2, <3>2
    <3>3. CASE <<s, d>> # <<want[Main], Day(loopNow)>>
          BY <2>1, <3>1, <3>3
    <3>4. QED
          BY <3>2, <3>3
  <2>4. \A s \in Schedules, d \in Days : Done(s, d) => Done(s, d)'
        BY <2>1, <2>3
  <2>5. \A s \in Schedules, d \in Days :
            s = want[Main] /\ d = Day(loopNow) => Done(s, d)'
        BY <2>2
  <2>6. QED
        BY <1>0, <2>1, <2>4, <2>5
<1>10. CASE Restart
  <2>1. /\ pc[Main] = "down" /\ pc'[Main] = "sleep" /\ polled' = TRUE
        /\ died' = died \cup {Day(now)}
        /\ UNCHANGED <<loopNow, due, marks, now, runsOn, refused>>
        BY <1>10 DEF Restart
  <2>2. QED
        BY <2>1
<1>11. CASE Tick
  <2>1. /\ polled \/ ~Serving
        /\ now' = now + 1 /\ polled' = FALSE
        /\ died' = IF Serving THEN died ELSE died \cup {Day(now + 1)}
        /\ UNCHANGED <<pc, want, loopNow, due, marks, runsOn, refused>>
        BY <1>11 DEF Tick
  <2>2. ASSUME NEW s \in Schedules, NEW d \in Days, IsScheduled(s, d),
               now + 1 > d * Hours + BackupHour, d \notin died'
        PROVE  Done(s, d)
    <3>1. d \in Nat /\ d \notin died
          BY <1>d, <2>1, <2>2
    <3>2. d * Hours \in Nat /\ BackupHour \in Nat
          BY <3>1, TimeAssumption
    <3>3. CASE now > d * Hours + BackupHour
          BY <2>2, <3>1, <3>3
    <3>4. CASE now = d * Hours + BackupHour
      <4>1. Day(now) = d /\ Hour(now) = BackupHour
            BY <3>1, <3>4, HourOfDay, TimeAssumption
      <4>2. polled
            BY <2>1, <3>1, <4>1
      <4>3. QED
            BY <2>2, <3>1, <4>1, <4>2
    <3>5. \A m, n \in Nat : m + 1 > n => m > n \/ m = n
          OBVIOUS
    <3>6. d * Hours + BackupHour \in Nat
          BY <3>2
    <3>7. QED
          BY <1>0, <2>2, <3>3, <3>4, <3>5, <3>6
  <2>3. MissedOnlyWhenBusy'
        BY <2>1, <2>2
  <2>4. pc[Main] \in {"load", "loop", "active", "mark", "spawn"} =>
            now' = loopNow + 1
        BY <2>1
  <2>5. died \subseteq died' /\ (~Serving => Day(now') \in died')
        BY <2>1
  <2>6. QED
        BY <2>1, <2>3, <2>4, <2>5
<1>12. ASSUME NEW c \in Clients, Request(c) \/ HandlerStep(c) PROVE MissInv'
  <2>1. /\ pc'[Main] = pc[Main] /\ want'[Main] = want[Main]
        /\ UNCHANGED <<loopNow, due, marks, now, polled, runsOn, refused, died>>
        BY <1>12 DEF Request, HandlerStep, PostTest, PostBackup, SetActive, Spawn
  <2>2. QED
        BY <2>1, MissFrame
<1>13. ASSUME NEW w \in Workers, WorkerStep(w) PROVE MissInv'
  <2>1. /\ pc'[Main] = pc[Main] /\ want'[Main] = want[Main]
        /\ UNCHANGED <<loopNow, due, marks, now, polled, runsOn, refused, died>>
        BY <1>13 DEF WorkerStep, BeginRun, StoreOutcome, ClearActive, Release,
                     StoreFails
  <2>2. QED
        BY <2>1, MissFrame
<1>14. CASE WorkEnds
  <2>1. /\ pc'[Main] = pc[Main] /\ want'[Main] = want[Main]
        /\ UNCHANGED <<loopNow, due, marks, now, polled, runsOn, refused, died>>
        BY <1>14 DEF WorkEnds, RunEnds, TestEnds
  <2>2. QED
        BY <2>1, MissFrame
<1>15. CASE UNCHANGED vars
       BY <1>15, MissFrame DEF vars
<1>16. CASE MainStep
       BY <1>1, <1>2, <1>3, <1>4, <1>5, <1>6, <1>7, <1>8, <1>9, <1>16
       DEF MainStep, MarkFails
<1>17. CASE Crash
       BY <1>8, <1>17 DEF Crash
<1>18. QED
       BY <1>10, <1>11, <1>12, <1>13, <1>14, <1>15, <1>16, <1>17 DEF Next

\* Unless the hour of the backup is the last one of the day, a schedule that is
\* due is started in its hour, or it met another backup or a test at work; or
\* the process was down for a part of that day.  In the last hour a start
\* whose mark carries the next day's date makes the next day's backup be missed.
THEOREM DueIsStarted == NotLastHour /\ Spec => []MissedOnlyWhenBusy
<1>1. Init => MissInv
  <2>1. SUFFICES ASSUME Init PROVE MissInv
        OBVIOUS
  <2>2. pc[Main] = "sleep" /\ polled = FALSE /\ now = 0
        BY <2>1, ThreadsAssumption DEF Init, FreshPc, Threads
  <2>3. \A s \in Schedules, d \in Days : marks[s] # d
        BY <2>1, SchedulesAssumption DEF Init, Days
  <2>4. \A d \in Days : ~ (now > d * Hours + BackupHour)
    <3>1. SUFFICES ASSUME NEW d \in Days
                   PROVE  ~ (0 > d * Hours + BackupHour)
          BY <2>2
    <3>2. d \in Nat
          BY DEF Days
    <3>3. d * Hours \in Nat /\ BackupHour \in Nat
          BY <3>2, TimeAssumption
    <3>4. QED
          BY <3>3
  <2>5. QED
        BY <2>2, <2>3, <2>4
        DEF MissInv, MissedOnlyWhenBusy, HourPassed, Serving
<1>2. MissInv => MissedOnlyWhenBusy
      BY DEF MissInv
<1>3. NotLastHour /\ CoordInv /\ MissInv /\ [Next]_vars => MissInv'
      BY MissStep
<1>4. NotLastHour => NotLastHour'
      BY DEF NotLastHour
<1>5. QED
      BY <1>1, <1>2, <1>3, <1>4, CoordInit, CoordStep, PTL DEF Spec
=============================================================================
