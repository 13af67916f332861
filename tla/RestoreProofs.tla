--------------------------- MODULE RestoreProofs ---------------------------
(***************************************************************************)
(* Proofs about Restore, for any host, any archives and any faults.        *)
(***************************************************************************)
EXTENDS Restore, RetentionProofs

-----------------------------------------------------------------------------
(* What the code computes.                                                 *)

LEMMA ArchiveRefs ==
    \A x \in Archives : <<x.app, x.store>> \in Refs /\ x.app \in Apps
<1> SUFFICES ASSUME NEW x \in Archives
             PROVE  <<x.app, x.store>> \in Refs /\ x.app \in Apps
    OBVIOUS
<1>1. <<x.app, x.store>> \in Refs
      BY ArchivesAssumption
<1>2. <<x.app, x.store>>[1] = x.app
      OBVIOUS
<1>3. QED
      BY <1>1, <1>2 DEF Apps

\* No archive comes later than itself, and what comes later than a later one,
\* is later.
LEMMA LaterIsAnOrder ==
    /\ \A x \in Archives : ~Later(x, x)
    /\ \A x, y, z \in Archives : Later(x, y) /\ Later(y, z) => Later(x, z)
<1>1. ASSUME NEW x \in Archives, Later(x, x)
      PROVE  FALSE
  <2>1. x.date \in Nat /\ StoreRank[x.store] \in Nat
        /\ ScheduleRank[x.schedule] \in Nat
        BY ArchivesAssumption
  <2>2. QED
        BY <1>1, <2>1 DEF Later
<1>2. ASSUME NEW x \in Archives, NEW y \in Archives, NEW z \in Archives,
             Later(x, y), Later(y, z)
      PROVE  Later(x, z)
  <2>1. \A w \in {x, y, z} : /\ w.date \in Nat /\ StoreRank[w.store] \in Nat
                             /\ ScheduleRank[w.schedule] \in Nat
        BY ArchivesAssumption
  <2>2. QED
        BY <1>2, <2>1 DEF Later
<1>3. QED
      BY <1>1, <1>2

\* So an app that has archives has one that no other one comes after: one with
\* the fewest archives after it.
LEMMA LatestExists ==
    ASSUME NEW a \in Apps, ArchivesOf(a) # {}
    PROVE  \E x \in ArchivesOf(a) : \A y \in ArchivesOf(a) : ~Later(y, x)
<1> DEFINE After(x) == {y \in ArchivesOf(a) : Later(y, x)}
           Counts == {Cardinality(After(x)) : x \in ArchivesOf(a)}
<1>1. ArchivesOf(a) \in SUBSET Archives /\ IsFiniteSet(ArchivesOf(a))
      BY ArchivesAssumption, FS_Subset DEF ArchivesOf
<1>2. \A x : After(x) \in SUBSET ArchivesOf(a)
      OBVIOUS
<1>3. \A x : IsFiniteSet(After(x)) /\ Cardinality(After(x)) \in Nat
      BY <1>1, <1>2, FS_Subset, FS_CardinalityType
<1>4. Counts \in SUBSET Nat /\ Counts # {}
      BY <1>3
<1>5. PICK m \in Counts : \A n \in Counts : m <= n
      BY <1>4, SmallestNumber
<1>6. PICK x \in ArchivesOf(a) : m = Cardinality(After(x))
      OBVIOUS
<1>7. ASSUME NEW y \in ArchivesOf(a), Later(y, x)
      PROVE  FALSE
  <2>1. After(y) \in SUBSET After(x)
    <3>1. \A z \in ArchivesOf(a) : Later(z, y) => Later(z, x)
          BY <1>1, <1>7, LaterIsAnOrder
    <3>2. QED
          BY <3>1
  <2>2. y \in After(x) /\ y \notin After(y)
        BY <1>1, <1>7, LaterIsAnOrder
  <2>3. Cardinality(After(x)) <= Cardinality(After(y))
        BY <1>5, <1>6, <1>7
  <2>4. Cardinality(After(y)) <= Cardinality(After(x))
        /\ (Cardinality(After(x)) = Cardinality(After(y)) => After(x) = After(y))
        BY <1>3, <2>1, FS_Subset
  <2>5. After(x) = After(y)
        BY <1>3, <2>3, <2>4
  <2>6. QED
        BY <2>2, <2>5
<1>8. QED
      BY <1>7

\* An app that has archives has a newest one, and it is of the reference
\* that is going to be restored.
LEMMA NewestFound ==
    ASSUME NEW a \in Apps, ArchivesOf(a) # {}
    PROVE  /\ Newest(a) \in Archives
           /\ \A y \in ArchivesOf(a) : ~Later(y, Newest(a))
           /\ RefOf(a) \in Refs /\ RefOf(a)[1] = a
           /\ RefOf(a) = <<Newest(a).app, Newest(a).store>>
<1>1. Newest(a) \in ArchivesOf(a) /\ \A y \in ArchivesOf(a) : ~Later(y, Newest(a))
      BY LatestExists DEF Newest
<1>2. Newest(a) \in Archives /\ Newest(a).app = a
      BY <1>1 DEF ArchivesOf
<1>3. RefOf(a)[1] = a
      BY DEF RefOf
<1>4. QED
      BY <1>1, <1>2, <1>3, ArchiveRefs DEF RefOf

\* If docker answers that an app does not run, its container does not; if it
\* answers that it runs, a container its filter matches does.
LEMMA Seen ==
    ASSUME NEW r \in Refs, NEW running \in UpStates,
           NEW seen \in SeenRunning(r, running)
    PROVE  /\ seen.blind \in BOOLEAN
           /\ seen.answer => \E s \in NameMatches[r] : running[s]
           /\ ~seen.answer /\ running[r] => seen.blind
<1>1. CASE seen = [answer |-> \E s \in NameMatches[r] : running[s], blind |-> FALSE]
  <2>1. seen.answer = (\E s \in NameMatches[r] : running[s]) /\ seen.blind = FALSE
        BY <1>1
  <2>2. r \in NameMatches[r]
        BY RefsAssumption
  <2>3. QED
        BY <2>1, <2>2, Zenon
<1>2. CASE seen = [answer |-> FALSE, blind |-> TRUE]
      BY <1>2
<1>3. QED
      BY <1>1, <1>2 DEF SeenRunning

LEMMA DirFound == \A n \in 1 .. 3 : DirOrder[n] \in DirNames
BY DEF DirOrder, DirNames

LEMMA OrderLength == Len(DirOrder) = 3
BY DEF DirOrder

LEMMA Positions ==
    \A n : n \in 1 .. Len(DirOrder) + 1 <=> n \in 1 .. 3 \/ n = 4
BY OrderLength

LEMMA PutTyped ==
    ASSUME data \in DataStates, ref \in Refs, at \in 1 .. 3,
           NEW content \in {Live, Absent, Damaged} \cup Archives, Put(content)
    PROVE  /\ data' \in DataStates
           /\ \A r \in Refs : r # ref => data'[r] = data[r]
           /\ \A d \in DirNames : d # Dir => data'[ref][d] = data[ref][d]
           /\ data'[ref][Dir] = content
BY DirFound DEF DataStates, Put, Dir

-----------------------------------------------------------------------------
(* Types.                                                                  *)

InApp == {"fetch", "confirm", "check", "stop", "extract", "remove", "move",
          "start", "settings", "boot", "hook", "leave"}

\* Only an app with an archive gets into the loop of restore_apps, and it is
\* its newest archive that is restored.
Chosen ==
    /\ \A a \in Apps : fate[a] # "none" => ArchivesOf(a) # {}
    /\ pc \in InApp =>
         /\ ref \in Refs /\ ArchivesOf(ref[1]) # {}
         /\ ref = RefOf(ref[1]) /\ fate[ref[1]] = "begun"
    /\ pc = "move" => at \in 1 .. 3

TypeInv == TypeOK /\ Chosen

LEMMA TypeInit == Init => TypeInv
<1> SUFFICES ASSUME Init PROVE TypeInv
    OBVIOUS
<1>1. data \in DataStates
      BY DEF Init, DataStates
<1>2. before \in [up : UpStates, data : DataStates]
      BY <1>1 DEF Init
<1>3. at \in 1 .. Len(DirOrder) + 1
      BY Positions DEF Init
<1>4. fate \in [Apps -> Fates] /\ batches \in 0 .. MaxBatches
      BY BoundsAssumption DEF Init, Fates
<1>5. ref \in Refs \cup {NoRef} /\ stoppedByUs \in BOOLEAN /\ raised \in BOOLEAN
      BY DEF Init
<1>6. extracted \subseteq Refs /\ owed \subseteq Refs /\ blind \in BOOLEAN
      BY DEF Init
<1>7. TypeOK
      BY <1>1, <1>2, <1>3, <1>4, <1>5, <1>6 DEF Init, TypeOK
<1>8. Chosen
      BY DEF Init, Chosen, InApp
<1>9. QED
      BY <1>7, <1>8 DEF TypeInv

LEMMA FinallyTyped ==
    ASSUME NEW e \in BOOLEAN
    PROVE  FinallyPc(e) \in {"start", "leave", "settings"}
BY DEF FinallyPc

LEMMA TypeStep == TypeInv /\ [Next]_vars => TypeInv'
<1> SUFFICES ASSUME TypeInv, [Next]_vars PROVE TypeInv'
    OBVIOUS
<1> USE RefsAssumption, OrderLength
    DEF TypeInv, TypeOK, Chosen, Fates, InApp, batch, locals, history
<1>1. ASSUME NEW chosen \in SUBSET Apps, NEW outcome \in Outcomes(chosen),
             BeginBatch(chosen, outcome)
      PROVE  TypeInv'
  <2>1. outcome = "running" => \A a \in chosen : ArchivesOf(a) # {}
        BY DEF Outcomes
  <2>2. outcome \in {"aborted", "missing", "running"}
        BY DEF Outcomes
  <2>3. fate' \in [Apps -> Fates]
        BY <1>1 DEF BeginBatch
  <2>4. batches' \in 0 .. MaxBatches
        BY <1>1, BoundsAssumption DEF BeginBatch
  <2>5. TypeOK'
        BY <1>1, <2>2, <2>3, <2>4 DEF BeginBatch
  <2>6. Chosen'
        BY <1>1, <2>1 DEF BeginBatch
  <2>7. QED
        BY <2>5, <2>6
<1>2. CASE NextApp
  <2>1. PICK a \in Apps : /\ fate[a] = "todo"
                          /\ fate' = [fate EXCEPT ![a] = "begun"]
                          /\ ref' = RefOf(a)
        BY <1>2 DEF NextApp
  <2>2. ArchivesOf(a) # {}
        BY <2>1
  <2>3. ref' \in Refs /\ ref'[1] = a
        BY <2>1, <2>2, NewestFound
  <2>4. TypeOK'
        BY <1>2, <2>1, <2>3 DEF NextApp
  <2>5. Chosen'
        BY <1>2, <2>1, <2>2, <2>3 DEF NextApp
  <2>6. QED
        BY <2>4, <2>5
<1>3. ASSUME NEW outcome \in {"done", "error", "crashed"}, EndBatch(outcome)
      PROVE  TypeInv'
  <2>0. at' \in 1 .. Len(DirOrder) + 1 /\ ref' \in Refs \cup {NoRef}
        BY <1>3, Positions DEF EndBatch, ForgetLocals
  <2>1. TypeOK'
        BY <1>3, <2>0 DEF EndBatch, ForgetLocals
  <2>2. Chosen'
        BY <1>3, Positions DEF EndBatch, ForgetLocals
  <2>3. QED
        BY <2>1, <2>2
<1>4. CASE Fetch
      BY <1>4 DEF Fetch, Raise
<1>5. CASE Confirm
      BY <1>5 DEF Confirm
<1>6. ASSUME NEW outcome \in {"restored", "skipped", "failed"}, pc \in InApp,
             Finish(outcome)
      PROVE  TypeInv'
  <2>1. ref[1] \in Apps
        BY <1>6 DEF Apps
  <2>2. at' \in 1 .. Len(DirOrder) + 1 /\ ref' \in Refs \cup {NoRef}
        BY <1>6, Positions DEF Finish, ForgetLocals
  <2>3. TypeOK'
        BY <1>6, <2>1, <2>2 DEF Finish, ForgetLocals
  <2>4. Chosen'
        BY <1>6, <2>1, Positions DEF Finish, ForgetLocals
  <2>5. QED
        BY <2>3, <2>4
<1>7. CASE CheckApp
  <2>1. blind' \in BOOLEAN /\ pc' \in {"stop", "extract"}
        BY <1>7, Seen DEF CheckApp
  <2>2. QED
        BY <1>7, <2>1 DEF CheckApp
<1>8. CASE StopApp
  <2>1. up' \in UpStates
        BY <1>8 DEF StopApp, UpStates
  <2>2. PICK exitsZero \in BOOLEAN, seen \in SeenRunning(ref, up') :
            /\ \/ Raise /\ UNCHANGED stoppedByUs
               \/ stoppedByUs' = TRUE /\ pc' = "extract" /\ UNCHANGED raised
            /\ blind' = (blind \/ IF exitsZero THEN up'[ref] ELSE seen.blind)
        BY <1>8 DEF StopApp
  <2>3. blind' \in BOOLEAN
        BY <1>8, <2>1, <2>2, Seen DEF StopApp
  <2>4. owed' \subseteq Refs
        BY <1>8 DEF StopApp
  <2>5. stoppedByUs' \in BOOLEAN /\ raised' \in BOOLEAN
        /\ pc' \in {"leave", "extract"}
        BY <2>2 DEF Raise
  <2>6. QED
        BY <1>8, <2>1, <2>3, <2>4, <2>5 DEF StopApp
<1>9. CASE Extract
      BY <1>9, FinallyTyped DEF Extract, LeaveTry, AfterFailedExtraction
<1>10. CASE RemoveOld
  <2>1. at \in 1 .. 3
        BY <1>10 DEF RemoveOld
  <2>2. data' \in DataStates
    <3>1. PICK left \in {Absent, Damaged, data[ref][Dir]} : Put(left)
          BY <1>10 DEF RemoveOld
    <3>2. data[ref][Dir] \in {Live, Absent, Damaged} \cup Archives
          BY <1>10, <2>1, DirFound DEF RemoveOld, DataStates, Dir
    <3>3. QED
          BY <1>10, <2>1, <3>1, <3>2, PutTyped DEF RemoveOld
  <2>3. QED
        BY <1>10, <2>1, <2>2, FinallyTyped DEF RemoveOld, LeaveTry
<1>11. CASE LeaveAlone
       BY <1>11 DEF LeaveAlone
<1>12. CASE MoveNew
  <2>1. Archive \in Archives
        BY <1>12, NewestFound DEF MoveNew, Archive, Apps
  <2>2. PICK left \in {Absent, Damaged, Archive} : Put(left)
        BY <1>12 DEF MoveNew
  <2>3. data' \in DataStates
        BY <1>12, <2>1, <2>2, PutTyped DEF MoveNew
  <2>4. at' \in 1 .. 4 /\ raised' \in BOOLEAN
        /\ pc' \in {"remove", "start", "leave", "settings"}
    <3>1. CASE at' = at + 1 /\ pc' = "remove" /\ UNCHANGED raised
          BY <1>12, <3>1 DEF MoveNew
    <3>2. CASE LeaveTry(TRUE) /\ UNCHANGED at
      <4>1. raised' = TRUE /\ pc' = FinallyPc(TRUE) /\ at' = at
            BY <3>2 DEF LeaveTry
      <4>2. at \in 1 .. 3
            BY <1>12 DEF MoveNew
      <4>3. pc' \in {"start", "leave", "settings"}
            BY <4>1, FinallyTyped
      <4>4. at' \in 1 .. 4
            BY <4>1, <4>2
      <4>5. raised' \in BOOLEAN
            BY <4>1
      <4>6. QED
            BY <4>3, <4>4, <4>5
    <3>3. QED
          BY <1>12, <3>1, <3>2 DEF MoveNew, MoveError
  <2>5. QED
        BY <1>12, <2>3, <2>4 DEF MoveNew
<1>13. CASE AllReplaced
       BY <1>13, FinallyTyped DEF AllReplaced, LeaveTry
<1>14. ASSUME NEW nextPc \in {"leave", "settings", "hook"}, pc \in InApp,
              AppStart(nextPc), owed' \subseteq owed,
              UNCHANGED <<batch, ref, copy, at, stoppedByUs, data, before,
                          extracted, blind>>
       PROVE  TypeInv'
  <2>1. up' \in UpStates
        BY <1>14 DEF AppStart, UpStates
  <2>2. QED
        BY <1>14, <2>1 DEF AppStart, StartError, Raise
<1>15. CASE StartApp
       BY <1>14, <1>15 DEF StartApp
<1>16. CASE StartForHook
       BY <1>14, <1>16 DEF StartForHook
<1>17. CASE ReadSettings
       BY <1>17 DEF ReadSettings
<1>18. CASE RestoreHook
       BY <1>18 DEF RestoreHook, Raise
<1>19. CASE UNCHANGED vars
       BY <1>19 DEF vars
<1>20. CASE BatchDone
       BY <1>3, <1>20 DEF BatchDone
<1>21. CASE FinishApp
       BY <1>6, <1>21 DEF FinishApp, FailureRecorded
<1>22. CASE Decline
       BY <1>6, <1>22 DEF Decline
<1>23. CASE Crash
       BY <1>3, <1>23 DEF Crash
<1>24. QED
       BY <1>1, <1>2, <1>4, <1>5, <1>7, <1>8, <1>9, <1>10, <1>11, <1>12, <1>13,
          <1>15, <1>16, <1>17, <1>18, <1>19, <1>20, <1>21, <1>22, <1>23
       DEF Next, BoundedStep, UnboundedStep

\* Every state is well typed: the loop only reaches apps that have archives,
\* and the reference it restores is one of the host.
THEOREM TypeCorrect == Spec => []TypeOK
<1>1. TypeInv => TypeOK
      BY DEF TypeInv
<1>2. QED
      BY TypeInit, TypeStep, <1>1, PTL DEF Spec

-----------------------------------------------------------------------------
(* Which steps touch the live directories.                                 *)

\* A directory only changes in the loop that replaces the directories of the
\* app in progress, and nothing else does in such a step but the local state.
LEMMA OnlyReplacement ==
    ASSUME TypeInv, [Next]_vars
    PROVE  \/ data' = data
           \/ /\ pc \in {"remove", "move"} /\ ref \in Refs
              /\ \E content \in {Absent, Damaged, Archive} : Put(content)
              /\ \A r \in Refs : r # ref => data'[r] = data[r]
              /\ UNCHANGED <<batch, ref, up, history>>
<1> USE DEF TypeInv, TypeOK, Chosen, InApp, batch, locals, history
<1>1. CASE RemoveOld
  <2>1. PICK left \in {Absent, Damaged, data[ref][Dir]} : Put(left)
        BY <1>1 DEF RemoveOld
  <2>2. \A r \in Refs : r # ref => data'[r] = data[r]
        BY <2>1 DEF Put, DataStates
  <2>3. CASE left = data[ref][Dir]
    <3>1. Dir \in DirNames /\ ref \in Refs
          BY <1>1, OrderLength, DirFound DEF RemoveOld, Dir
    <3>2. data' = data
          BY <2>1, <2>3, <3>1 DEF Put, DataStates
    <3>3. QED
          BY <3>2
  <2>4. CASE left \in {Absent, Damaged}
        BY <1>1, <2>1, <2>2, <2>4 DEF RemoveOld
  <2>5. QED
        BY <2>3, <2>4
<1>2. CASE MoveNew
  <2>1. PICK left \in {Absent, Damaged, Archive} : Put(left)
        BY <1>2 DEF MoveNew
  <2>2. \A r \in Refs : r # ref => data'[r] = data[r]
        BY <2>1 DEF Put, DataStates
  <2>3. QED
        BY <1>2, <2>1, <2>2 DEF MoveNew
<1>3. CASE Extract
      BY <1>3 DEF Extract, AfterFailedExtraction
<1>4. ASSUME NEW chosen \in SUBSET Apps, NEW outcome \in Outcomes(chosen),
             BeginBatch(chosen, outcome)
      PROVE  data' = data
      BY <1>4 DEF BeginBatch
<1>5. CASE NextApp \/ Fetch \/ Confirm \/ CheckApp \/ StopApp \/ LeaveAlone
      BY <1>5 DEF NextApp, Fetch, Confirm, CheckApp, StopApp, LeaveAlone
<1>6. CASE BatchDone \/ Crash
      BY <1>6 DEF BatchDone, Crash, EndBatch
<1>7. CASE FinishApp \/ Decline
      BY <1>7 DEF FinishApp, Decline, Finish
<1>8. CASE AllReplaced \/ StartApp \/ StartForHook \/ ReadSettings \/ RestoreHook
      BY <1>8 DEF AllReplaced, StartApp, StartForHook, ReadSettings, RestoreHook
<1>9. CASE UNCHANGED vars
      BY <1>9 DEF vars
<1>10. QED
       BY <1>1, <1>2, <1>3, <1>4, <1>5, <1>6, <1>7, <1>8, <1>9
       DEF Next, BoundedStep, UnboundedStep

\* The loop is only reached with an extracted archive.
TouchInv ==
    /\ UntouchedUntilExtracted
    /\ pc \in {"remove", "move"} => ref \in extracted

\* The loop is only reached with the app down, or after a query that failed.
DownInv == pc \in {"extract", "remove", "move"} => ~up[ref] \/ blind

LEMMA TouchStep ==
    ASSUME TypeInv, TouchInv, [Next]_vars
    PROVE  TouchInv'
<1> USE DEF TouchInv, UntouchedUntilExtracted, batch, locals, history
<1>1. CASE RemoveOld \/ MoveNew
  <2>1. data' = data \/ \A r \in Refs : r # ref => data'[r] = data[r]
        BY OnlyReplacement
  <2>2. ref \in extracted /\ UNCHANGED <<ref, extracted, before>>
        BY <1>1 DEF RemoveOld, MoveNew
  <2>3. QED
        BY <2>1, <2>2
<1>2. CASE Extract
      BY <1>2 DEF Extract, AfterFailedExtraction, LeaveTry, FinallyPc
<1>3. ASSUME NEW chosen \in SUBSET Apps, NEW outcome \in Outcomes(chosen),
             BeginBatch(chosen, outcome)
      PROVE  TouchInv'
      BY <1>3 DEF BeginBatch
<1>4. CASE NextApp \/ Fetch \/ Confirm \/ CheckApp \/ StopApp \/ LeaveAlone
      BY <1>4 DEF NextApp, Fetch, Confirm, CheckApp, StopApp, LeaveAlone, Raise
<1>5. CASE BatchDone \/ Crash
      BY <1>5 DEF BatchDone, Crash, EndBatch
<1>6. CASE FinishApp \/ Decline
      BY <1>6 DEF FinishApp, Decline, Finish
<1>7. CASE AllReplaced
      BY <1>7 DEF AllReplaced, LeaveTry, FinallyPc
<1>8. CASE StartApp \/ StartForHook \/ ReadSettings \/ RestoreHook
      BY <1>8 DEF StartApp, StartForHook, ReadSettings, RestoreHook, AppStart,
                  StartError, Raise
<1>9. CASE UNCHANGED vars
      BY <1>9 DEF vars
<1>10. QED
       BY <1>1, <1>2, <1>3, <1>4, <1>5, <1>6, <1>7, <1>8, <1>9
       DEF Next, BoundedStep, UnboundedStep

LEMMA DownStep ==
    ASSUME TypeInv, DownInv, [Next]_vars
    PROVE  DownInv'
<1> USE DEF TypeInv, TypeOK, Chosen, InApp, DownInv, batch, locals, history
<1>1. CASE CheckApp
  <2>1. PICK seen \in SeenRunning(ref, up) :
            /\ pc' = IF seen.answer THEN "stop" ELSE "extract"
            /\ blind' = seen.blind
        BY <1>1 DEF CheckApp
  <2>2. pc' = "extract" => ~seen.answer
        BY <2>1
  <2>3. UNCHANGED <<ref, up>> /\ ref \in Refs
        BY <1>1 DEF CheckApp
  <2>4. QED
        BY <2>1, <2>2, <2>3, Seen
<1>2. CASE StopApp
  <2>1. up' \in UpStates /\ ref \in Refs /\ ref' = ref
        BY <1>2 DEF StopApp, UpStates
  <2>2. PICK exitsZero \in BOOLEAN, seen \in SeenRunning(ref, up') :
            /\ IF ~exitsZero /\ StopFailed(seen.answer)
               THEN Raise /\ UNCHANGED stoppedByUs
               ELSE stoppedByUs' = TRUE /\ pc' = "extract" /\ UNCHANGED raised
            /\ blind' = (blind \/ IF exitsZero THEN up'[ref] ELSE seen.blind)
        BY <1>2 DEF StopApp
  <2>3. ~seen.answer /\ up'[ref] => seen.blind
        BY <2>1, Seen
  <2>4. CASE Raise
        BY <2>4 DEF Raise
  <2>5. CASE exitsZero
        BY <2>1, <2>2, <2>5
  <2>6. CASE ~exitsZero /\ ~seen.answer
        BY <2>1, <2>2, <2>3, <2>6
  <2>7. QED
        BY <2>2, <2>4, <2>5, <2>6 DEF StopFailed
<1>3. ASSUME NEW chosen \in SUBSET Apps, NEW outcome \in Outcomes(chosen),
             BeginBatch(chosen, outcome)
      PROVE  DownInv'
      BY <1>3 DEF BeginBatch
<1>4. CASE NextApp \/ Fetch \/ Confirm \/ LeaveAlone
      BY <1>4 DEF NextApp, Fetch, Confirm, LeaveAlone, Raise
<1>5. CASE BatchDone \/ Crash
      BY <1>5 DEF BatchDone, Crash, EndBatch
<1>6. CASE FinishApp \/ Decline
      BY <1>6 DEF FinishApp, Decline, Finish
<1>7. CASE AllReplaced
      BY <1>7 DEF AllReplaced, LeaveTry, FinallyPc
<1>8. CASE StartApp \/ StartForHook \/ ReadSettings \/ RestoreHook
      BY <1>8 DEF StartApp, StartForHook, ReadSettings, RestoreHook, AppStart,
                  StartError, Raise
<1>9. CASE Extract
      BY <1>9 DEF Extract, LeaveTry, FinallyPc
<1>10. CASE RemoveOld \/ MoveNew
       BY <1>10 DEF RemoveOld, MoveNew, LeaveTry, FinallyPc, MoveError
<1>11. CASE UNCHANGED vars
       BY <1>11 DEF vars
<1>12. QED
       BY <1>1, <1>2, <1>3, <1>4, <1>5, <1>6, <1>7, <1>8, <1>9, <1>10, <1>11
       DEF Next, BoundedStep, UnboundedStep

\* A reference keeps its directories until its archive has been extracted:
\* declining, a download or extraction that fails, and every other reference's
\* restore leave them alone.
THEOREM Untouched == Spec => []UntouchedUntilExtracted
<1>1. Init => TouchInv
      BY DEF Init, TouchInv, UntouchedUntilExtracted
<1>2. TouchInv => UntouchedUntilExtracted
      BY DEF TouchInv
<1>3. TypeInv /\ TouchInv /\ [Next]_vars => TouchInv'
      BY TouchStep
<1>4. QED
      BY <1>1, <1>2, <1>3, TypeInit, TypeStep, PTL DEF Spec

\* No live directory changes under a running app, unless docker did not
\* answer whether it runs or a stop exited with zero in vain; whatever else
\* the docker filter matches.
THEOREM DownWhileReplaced == Spec => ReplacedWhileDown
<1>1. Init => DownInv
      BY DEF Init, DownInv
<1>2. TypeInv /\ DownInv /\ [Next]_vars => DownInv'
      BY DownStep
<1>3. TypeInv /\ DownInv /\ [Next]_vars =>
          [\A r \in Refs : data'[r] # data[r] => ~up[r] \/ blind]_vars
      BY OnlyReplacement DEF DownInv
<1>4. QED
      BY <1>1, <1>2, <1>3, TypeInit, TypeStep, PTL DEF Spec, ReplacedWhileDown

-----------------------------------------------------------------------------
(* The restart is owed until it has been tried.                            *)

\* The docker filter finds the container it is asked about and no other.
ExactFilter == \A r \in Refs : NameMatches[r] = {r}

OwedInv ==
    /\ pc # "idle" => result = "running"
    /\ result = "crashed" => pc = "idle"
    /\ RestartOwed
    /\ pc = "stop" => owed = {}

LEMMA OwedStep ==
    ASSUME ExactFilter, TypeInv, OwedInv, [Next]_vars
    PROVE  OwedInv'
<1> USE DEF OwedInv, RestartOwed, batch, locals, history
<1>1. CASE StopApp
  <2>1. up' \in UpStates /\ ref \in Refs /\ UNCHANGED <<ref, result>>
        BY <1>1 DEF StopApp, UpStates, TypeInv, TypeOK, Chosen, InApp
  <2>2. PICK exitsZero \in BOOLEAN, seen \in SeenRunning(ref, up') :
            /\ IF ~exitsZero /\ StopFailed(seen.answer)
               THEN Raise /\ UNCHANGED stoppedByUs
               ELSE stoppedByUs' = TRUE /\ pc' = "extract" /\ UNCHANGED raised
        BY <1>1 DEF StopApp
  <2>3. owed' \subseteq {ref} /\ (up'[ref] => owed' = {})
        BY <1>1 DEF StopApp
  <2>4. seen.answer => up'[ref]
        BY <2>1, Seen DEF ExactFilter
  <2>5. CASE Raise /\ seen.answer
        BY <1>1, <2>1, <2>3, <2>4, <2>5 DEF Raise, StopApp
  <2>6. CASE stoppedByUs' = TRUE /\ pc' = "extract"
        BY <1>1, <2>1, <2>3, <2>6 DEF StopApp
  <2>7. QED
        BY <2>2, <2>5, <2>6 DEF StopFailed
<1>2. CASE CheckApp
      BY <1>2 DEF CheckApp
<1>3. ASSUME NEW chosen \in SUBSET Apps, NEW outcome \in Outcomes(chosen),
             BeginBatch(chosen, outcome)
      PROVE  OwedInv'
  <2>1. outcome \in {"aborted", "missing", "running"}
        BY DEF Outcomes
  <2>2. QED
        BY <1>3, <2>1 DEF BeginBatch
<1>4. CASE NextApp \/ Fetch \/ Confirm \/ LeaveAlone
      BY <1>4 DEF NextApp, Fetch, Confirm, LeaveAlone, Raise
<1>5. CASE BatchDone \/ Crash
      BY <1>5 DEF BatchDone, Crash, EndBatch
<1>6. CASE FinishApp \/ Decline
      BY <1>6 DEF FinishApp, Decline, Finish
<1>7. CASE AllReplaced
      BY <1>7 DEF AllReplaced, LeaveTry, FinallyPc
<1>8. CASE StartApp
      BY <1>8 DEF StartApp, AppStart, StartError, Raise
<1>9. CASE StartForHook \/ ReadSettings \/ RestoreHook
      BY <1>9 DEF StartForHook, ReadSettings, RestoreHook, AppStart,
                  StartError, Raise
<1>10. CASE Extract
       BY <1>10 DEF Extract, LeaveTry, FinallyPc
<1>11. CASE RemoveOld
       BY <1>11 DEF RemoveOld, LeaveTry, FinallyPc
<1>12. CASE MoveNew
       BY <1>12 DEF MoveNew, LeaveTry, FinallyPc, MoveError
<1>13. CASE UNCHANGED vars
       BY <1>13 DEF vars
<1>14. QED
       BY <1>1, <1>2, <1>3, <1>4, <1>5, <1>6, <1>7, <1>8, <1>9, <1>10, <1>11,
          <1>12, <1>13
       DEF Next, BoundedStep, UnboundedStep

\* An app this batch took down is started again, or the start is tried, on
\* every path through restore_backup: whatever fails while its directories
\* are replaced.  With a docker filter that also matches other apps a stop
\* may be taken for failed that was not, and the restart is lost.
THEOREM RestartTried == ExactFilter /\ Spec => []RestartOwed
<1>1. Init => OwedInv
      BY DEF Init, OwedInv, RestartOwed
<1>2. OwedInv => RestartOwed
      BY DEF OwedInv
<1>3. ExactFilter /\ TypeInv /\ OwedInv /\ [Next]_vars => OwedInv'
      BY OwedStep
<1>4. ExactFilter => ExactFilter'
      BY DEF ExactFilter
<1>5. QED
      BY <1>1, <1>2, <1>3, <1>4, TypeInit, TypeStep, PTL DEF Spec

-----------------------------------------------------------------------------
(* What an app that is reported as restored holds.                         *)

\* What a directory holds when it has been replaced, and before that.
Replaced(r, d) ==
    data[r][d] = IF d \in Holds[Newest(r[1])] THEN Newest(r[1])
                 ELSE before.data[r][d]
Kept(r, d) == data[r][d] = before.data[r][d]

\* Directories the loop has passed are replaced, those that lie ahead are as
\* they were; the other references' are as they were, unless their app has had
\* its turn.
WholeInv ==
    /\ RestoredIsWhole
    /\ pc \in {"idle", "next", "fetch", "confirm", "check", "stop", "extract"} =>
           at = 1
    /\ \A a \in Apps : fate[a] = "todo" => data[RefOf(a)] = before.data[RefOf(a)]
    /\ pc \in {"fetch", "confirm", "check", "stop", "extract"} =>
           \A d \in DirNames : Kept(ref, d)
    /\ pc \in {"remove", "move"} => \A n \in 1 .. 3 :
         /\ n < at => Replaced(ref, DirOrder[n])
         /\ n > at => Kept(ref, DirOrder[n])
    /\ pc = "remove" /\ at <= 3 => Kept(ref, Dir)
    /\ pc = "move" => Dir \in Holds[Archive]
    /\ pc \in {"start", "settings", "boot", "hook", "leave"} /\ ~raised =>
           \A d \in DirNames : Replaced(ref, d)

LEMMA EachDir == \A d \in DirNames : \E n \in 1 .. 3 : d = DirOrder[n]
BY DEF DirNames, DirOrder

LEMMA DirsDiffer ==
    \A m, n \in 1 .. 3 : m # n => DirOrder[m] # DirOrder[n]
BY DEF DirOrder

\* No other app's directories are touched.
LEMMA OthersWhole ==
    ASSUME TypeInv, WholeInv, RemoveOld \/ MoveNew
    PROVE  /\ RestoredIsWhole'
           /\ \A a \in Apps :
                  fate'[a] = "todo" => data'[RefOf(a)] = before'.data[RefOf(a)]
<1> USE DEF TypeInv, TypeOK, Chosen, InApp, WholeInv, batch, locals, history
<1>1. /\ UNCHANGED <<fate, before, ref>>
      /\ ref \in Refs /\ fate[ref[1]] = "begun"
      BY DEF RemoveOld, MoveNew
<1>2. \A r \in Refs : r # ref => data'[r] = data[r]
  <2>1. PICK left : Put(left)
        BY DEF RemoveOld, MoveNew
  <2>2. QED
        BY <2>1 DEF Put, DataStates
<1>3. \A a \in Apps : fate[a] \in {"todo", "restored"} =>
          RefOf(a) \in Refs /\ RefOf(a) # ref
      BY <1>1, NewestFound
<1>4. \A a \in Apps : fate[a] \in {"todo", "restored"} =>
          data'[RefOf(a)] = data[RefOf(a)]
      BY <1>2, <1>3
<1>5. \A a \in Apps :
          fate'[a] = "todo" => data'[RefOf(a)] = before'.data[RefOf(a)]
      BY <1>1, <1>4
<1>6. RestoredIsWhole'
      BY <1>1, <1>4 DEF RestoredIsWhole, With
<1>7. QED
      BY <1>5, <1>6

LEMMA RemoveWhole ==
    ASSUME TypeInv, WholeInv, RemoveOld
    PROVE  WholeInv'
<1> USE DEF WholeInv, batch, locals, history
<1>1. CASE Put(Absent) /\ pc' = "move" /\ UNCHANGED raised
  <2>1. /\ at \in 1 .. 3 /\ Dir \in Holds[Archive]
        /\ UNCHANGED <<fate, before, ref, at>> /\ ref \in Refs
        BY <1>1, OrderLength
        DEF RemoveOld, TypeInv, TypeOK, Chosen, InApp
  <2>2. \A d \in DirNames : d # Dir => data'[ref][d] = data[ref][d]
        BY <1>1, <2>1 DEF Put, DataStates, TypeInv, TypeOK
  <2>3. \A n \in 1 .. 3 : n # at =>
            data'[ref][DirOrder[n]] = data[ref][DirOrder[n]]
        BY <2>1, <2>2, DirFound, DirsDiffer DEF Dir
  <2>4. \A n \in 1 .. 3 : /\ n < at => Replaced(ref, DirOrder[n])'
                          /\ n > at => Kept(ref, DirOrder[n])'
        BY <2>1, <2>3 DEF Replaced, Kept, RemoveOld
  <2>5. (Dir \in Holds[Archive])'
        BY <2>1 DEF Dir, Archive
  <2>6. QED
        BY <1>1, <2>1, <2>4, <2>5, OthersWhole
<1>2. CASE LeaveTry(TRUE)
      BY <1>2, OthersWhole DEF LeaveTry, FinallyPc
<1>3. QED
      BY <1>1, <1>2 DEF RemoveOld

LEMMA MoveWhole ==
    ASSUME TypeInv, WholeInv, MoveNew
    PROVE  WholeInv'
<1> USE DEF WholeInv, batch, locals, history
<1>1. CASE Put(Archive) /\ at' = at + 1 /\ pc' = "remove" /\ UNCHANGED raised
  <2>1. /\ at \in 1 .. 3 /\ Dir \in Holds[Archive]
        /\ UNCHANGED <<fate, before, ref>> /\ ref \in Refs
        BY <1>1, OrderLength
        DEF MoveNew, TypeInv, TypeOK, Chosen, InApp
  <2>2. /\ \A d \in DirNames : d # Dir => data'[ref][d] = data[ref][d]
        /\ data'[ref][Dir] = Archive
        BY <1>1, <2>1, DirFound DEF Put, DataStates, TypeInv, TypeOK, Dir
  <2>3. \A n \in 1 .. 3 : n # at =>
            data'[ref][DirOrder[n]] = data[ref][DirOrder[n]]
        BY <2>1, <2>2, DirFound, DirsDiffer DEF Dir
  <2>4. \A n \in 1 .. 3 : n < at => Replaced(ref, DirOrder[n])'
        BY <2>1, <2>3 DEF Replaced, MoveNew
  <2>5. \A n \in 1 .. 3 : n = at => Replaced(ref, DirOrder[n])'
    <3>1. data'[ref][DirOrder[at]] = Newest(ref[1])
          BY <2>2 DEF Dir, Archive
    <3>2. DirOrder[at] \in Holds[Newest(ref[1])]
          BY <2>1 DEF Dir, Archive
    <3>3. QED
          BY <2>1, <3>1, <3>2 DEF Replaced
  <2>6. \A n \in 1 .. 3 : n > at => Kept(ref, DirOrder[n])'
        BY <2>1, <2>3 DEF Kept, MoveNew
  <2>7. \A n \in 1 .. 3 : /\ n < at' => Replaced(ref, DirOrder[n])'
                          /\ n > at' => Kept(ref, DirOrder[n])'
                          /\ n = at' => Kept(ref, DirOrder[n])'
        BY <1>1, <2>1, <2>4, <2>5, <2>6
  <2>8. at' <= 3 => Kept(ref, Dir)'
        BY <1>1, <2>1, <2>7 DEF Dir
  <2>9. QED
        BY <1>1, <2>1, <2>7, <2>8, OthersWhole
<1>2. CASE LeaveTry(TRUE)
      BY <1>2, OthersWhole DEF LeaveTry, FinallyPc
<1>3. QED
      BY <1>1, <1>2 DEF MoveNew, MoveError

LEMMA WholeStep ==
    ASSUME TypeInv, WholeInv, [Next]_vars
    PROVE  WholeInv'
<1> USE DEF WholeInv, batch, locals, history, With
<1>1. CASE RemoveOld
      BY <1>1, RemoveWhole
<1>2. CASE MoveNew
      BY <1>2, MoveWhole
<1>3. ASSUME NEW chosen \in SUBSET Apps, NEW outcome \in Outcomes(chosen),
             BeginBatch(chosen, outcome)
      PROVE  WholeInv'
      BY <1>3 DEF BeginBatch, RestoredIsWhole
<1>4. CASE NextApp
  <2>1. PICK a \in Apps : /\ fate[a] = "todo"
                          /\ fate' = [fate EXCEPT ![a] = "begun"]
                          /\ ref' = RefOf(a)
        BY <1>4 DEF NextApp
  <2>2. UNCHANGED <<data, before>> /\ pc' = "fetch" /\ at' = 1
        BY <1>4 DEF NextApp
  <2>3. \A d \in DirNames : Kept(ref, d)'
        BY <2>1, <2>2 DEF Kept
  <2>4. \A b \in Apps : fate'[b] = "restored" => fate[b] = "restored"
        BY <2>1 DEF TypeInv, TypeOK
  <2>5. RestoredIsWhole'
        BY <2>2, <2>4 DEF RestoredIsWhole
  <2>6. \A b \in Apps : fate'[b] = "todo" => fate[b] = "todo"
        BY <2>1 DEF TypeInv, TypeOK
  <2>7. QED
        BY <2>2, <2>3, <2>5, <2>6
<1>5. CASE Fetch \/ Confirm \/ CheckApp \/ StopApp
      BY <1>5 DEF Fetch, Confirm, CheckApp, StopApp, Raise, RestoredIsWhole, Kept
<1>6. CASE Extract
  <2>1. UNCHANGED <<data, before, fate, ref, at>>
        /\ \/ pc' = "remove"
           \/ pc' \in {"start", "leave"} /\ raised'
        BY <1>6 DEF Extract, AfterFailedExtraction, LeaveTry, FinallyPc
  <2>2. pc' = "remove" => \A n \in 1 .. 3 : Kept(ref, DirOrder[n])'
        BY <1>6, <2>1, DirFound DEF Extract, Kept
  <2>3. pc' = "remove" => at' = 1
        BY <1>6, <2>1 DEF Extract
  <2>4. RestoredIsWhole'
        BY <2>1 DEF RestoredIsWhole
  <2>5. QED
        BY <2>1, <2>2, <2>3, <2>4 DEF Dir
<1>7. CASE LeaveAlone
  <2>1. /\ at \in 1 .. 3 /\ Dir \notin Holds[Archive] /\ at' = at + 1
        /\ UNCHANGED <<data, before, fate, ref>> /\ pc = "remove" /\ pc' = "remove"
        BY <1>7, OrderLength DEF LeaveAlone, TypeInv, TypeOK
  <2>2. Replaced(ref, DirOrder[at])
        BY <2>1 DEF Replaced, Kept, Dir, Archive
  <2>3. \A n \in 1 .. 3 : /\ n < at' => Replaced(ref, DirOrder[n])'
                          /\ n > at' => Kept(ref, DirOrder[n])'
        BY <2>1, <2>2 DEF Replaced, Kept
  <2>4. at' <= 3 => Kept(ref, Dir)'
        BY <2>1 DEF Kept, Dir
  <2>5. RestoredIsWhole'
        BY <2>1 DEF RestoredIsWhole
  <2>6. QED
        BY <2>1, <2>3, <2>4, <2>5
<1>8. CASE AllReplaced
  <2>1. at = 4 /\ UNCHANGED <<data, before, fate, ref>> /\ pc = "remove"
        BY <1>8, OrderLength, Positions DEF AllReplaced, TypeInv, TypeOK
  <2>2. \A d \in DirNames : Replaced(ref, d)'
        BY <2>1, EachDir DEF Replaced
  <2>3. pc' \in {"start", "settings", "leave"}
        BY <1>8 DEF AllReplaced, LeaveTry, FinallyPc
  <2>4. RestoredIsWhole'
        BY <2>1 DEF RestoredIsWhole
  <2>5. QED
        BY <2>1, <2>2, <2>3, <2>4
<1>9. CASE StartApp \/ StartForHook \/ ReadSettings \/ RestoreHook
      BY <1>9 DEF StartApp, StartForHook, ReadSettings, RestoreHook, AppStart,
                  StartError, Raise, RestoredIsWhole, Replaced
<1>10. CASE BatchDone \/ Crash
       BY <1>10 DEF BatchDone, Crash, EndBatch, ForgetLocals, RestoredIsWhole
<1>11. ASSUME NEW outcome \in {"restored", "skipped", "failed"},
              Finish(outcome), pc \in InApp,
              outcome = "restored" => \A d \in DirNames : Replaced(ref, d)
       PROVE  WholeInv'
  <2>1. /\ fate' = [fate EXCEPT ![ref[1]] = outcome]
        /\ UNCHANGED <<data, before>> /\ pc' = "next" /\ at' = 1
        BY <1>11 DEF Finish, ForgetLocals
  <2>2. ref[1] \in Apps /\ ref = RefOf(ref[1])
        BY <1>11 DEF TypeInv, Chosen, Apps
  <2>3. \A a \in Apps : fate'[a] = "restored" =>
            fate[a] = "restored" \/ (a = ref[1] /\ outcome = "restored")
        BY <2>1, <2>2 DEF TypeInv, TypeOK
  <2>4. \A a \in Apps : fate'[a] = "todo" => fate[a] = "todo"
        BY <2>1, <2>2 DEF TypeInv, TypeOK
  <2>5. RestoredIsWhole'
        BY <1>11, <2>1, <2>2, <2>3 DEF RestoredIsWhole, Replaced
  <2>6. QED
        BY <2>1, <2>4, <2>5
<1>12. CASE FinishApp
       BY <1>11, <1>12 DEF FinishApp, FailureRecorded, InApp
<1>13. CASE Decline
       BY <1>11, <1>13 DEF Decline, InApp
<1>14. CASE UNCHANGED vars
       BY <1>14 DEF vars, RestoredIsWhole, Replaced, Kept, Dir, Archive
<1>15. QED
       BY <1>1, <1>2, <1>3, <1>4, <1>5, <1>6, <1>7, <1>8, <1>9, <1>10, <1>12,
          <1>13, <1>14
       DEF Next, BoundedStep, UnboundedStep

\* An app that is reported as restored holds every directory of its newest
\* archive and keeps those the archive lacks, wherever errors struck.
THEOREM WholeWhenRestored == Spec => []RestoredIsWhole
<1>1. Init => WholeInv
      BY DEF Init, WholeInv, RestoredIsWhole, With
<1>2. WholeInv => RestoredIsWhole
      BY DEF WholeInv
<1>3. TypeInv /\ WholeInv /\ [Next]_vars => WholeInv'
      BY WholeStep
<1>4. QED
      BY <1>1, <1>2, <1>3, TypeInit, TypeStep, PTL DEF Spec

-----------------------------------------------------------------------------
(* Which archive a directory is filled from.                               *)

LEMMA NewestOfRef ==
    ASSUME NEW a \in Apps, ArchivesOf(a) # {}
    PROVE  /\ <<Newest(a).app, Newest(a).store>> = RefOf(a)
           /\ \A x \in Archives : <<x.app, x.store>> = RefOf(a)
                  => x.date <= Newest(a).date
<1>1. SUFFICES ASSUME NEW x \in Archives, <<x.app, x.store>> = RefOf(a)
               PROVE  x.date <= Newest(a).date
      BY NewestFound
<1>2. x \in ArchivesOf(a) /\ x.store = Newest(a).store
      BY <1>1 DEF ArchivesOf, RefOf
<1>3. ~Later(x, Newest(a))
      BY <1>2, NewestFound
<1>4. x.date \in Nat /\ Newest(a).date \in Nat
      BY NewestFound, ArchivesAssumption
<1>5. QED
      BY <1>2, <1>3, <1>4 DEF Later

LEMMA FromNewestStep ==
    ASSUME TypeInv, FromNewest, [Next]_vars
    PROVE  FromNewest'
<1> USE DEF TypeInv, TypeOK, Chosen, InApp
<1>1. CASE data' = data
      BY <1>1 DEF FromNewest
<1>2. ASSUME NEW content \in {Absent, Damaged, Archive}, Put(content),
             pc \in {"remove", "move"}
      PROVE  FromNewest'
  <2>1. ref \in Refs /\ ref[1] \in Apps
        /\ ref = RefOf(ref[1]) /\ ArchivesOf(ref[1]) # {}
        BY <1>2 DEF Apps
  <2>2. \A r \in Refs, d \in DirNames :
            data'[r][d] = data[r][d] \/ (r = ref /\ data'[r][d] = content)
        BY <1>2, <2>1 DEF Put, DataStates
  <2>3. Absent \notin Archives /\ Damaged \notin Archives
        BY ArchivesAssumption
  <2>4. \A r \in Refs, d \in DirNames : data'[r][d] \in Archives =>
            data'[r][d] = data[r][d] \/ (r = ref /\ data'[r][d] = Archive)
        BY <1>2, <2>2, <2>3
  <2>5. QED
    <3>1. SUFFICES ASSUME NEW r \in Refs, NEW d \in DirNames,
                          data'[r][d] \in Archives
                   PROVE  /\ <<data'[r][d].app, data'[r][d].store>> = r
                          /\ \A x \in Archives : <<x.app, x.store>> = r
                                 => x.date <= data'[r][d].date
          BY DEF FromNewest
    <3>2. CASE data'[r][d] = data[r][d]
          BY <3>1, <3>2 DEF FromNewest
    <3>3. CASE r = ref /\ data'[r][d] = Archive
          BY <2>1, <3>3, NewestOfRef DEF Archive
    <3>4. QED
          BY <2>4, <3>1, <3>2, <3>3
<1>3. QED
      BY <1>1, <1>2, OnlyReplacement

\* A directory is only ever filled from the newest archive of its own app and
\* store, however the archives' names compare.
THEOREM FilledFromNewest == Spec => []FromNewest
<1>1. Init => FromNewest
  <2>1. SUFFICES ASSUME Init, NEW r \in Refs, NEW d \in DirNames
                 PROVE  data[r][d] \notin Archives
        BY DEF FromNewest
  <2>2. data[r][d] \in {Live, Absent, Damaged}
        BY <2>1 DEF Init
  <2>3. QED
        BY <2>2, ArchivesAssumption
<1>2. TypeInv /\ FromNewest /\ [Next]_vars => FromNewest'
      BY FromNewestStep
<1>3. QED
      BY <1>1, <1>2, TypeInit, TypeStep, PTL DEF Spec

-----------------------------------------------------------------------------
(* What a batch reports.                                                   *)

\* A batch that is under way runs; the app in progress is the one begun; only
\* the reference of an app that had its turn, and was not skipped, is touched.
AccountInv ==
    /\ pc # "idle" => result = "running"
    /\ \A a \in Apps : fate[a] = "begun" /\ result # "crashed" =>
           pc \in InApp /\ a = ref[1]
    /\ \A r \in Refs : data[r] # before.data[r] =>
           r = RefOf(r[1]) /\ fate[r[1]] \in {"begun", "restored", "failed"}
    /\ result \in {"done", "error"} =>
           With("todo") = {} /\ (result = "error" <=> With("failed") # {})

LEMMA RefsApp == \A r \in Refs : r[1] \in Apps
BY DEF Apps

LEMMA AccountStep ==
    ASSUME TypeInv, WholeInv, AccountInv, [Next]_vars
    PROVE  AccountInv'
<1> USE RefsApp
    DEF TypeInv, TypeOK, Chosen, InApp, AccountInv, batch, locals, history, With
<1>1. CASE RemoveOld \/ MoveNew
  <2>1. \A r \in Refs : r # ref => data'[r] = data[r]
        BY <1>1, OnlyReplacement
  <2>2. /\ UNCHANGED <<fate, result, ref, before>>
        /\ ref = RefOf(ref[1]) /\ fate[ref[1]] = "begun"
        /\ pc \in {"remove", "move"}
        /\ pc' \in {"move", "remove", "start", "leave", "settings"}
        BY <1>1 DEF RemoveOld, MoveNew, MoveError, LeaveTry, FinallyPc
  <2>3. QED
        BY <2>1, <2>2
<1>2. ASSUME NEW chosen \in SUBSET Apps, NEW outcome \in Outcomes(chosen),
             BeginBatch(chosen, outcome)
      PROVE  AccountInv'
  <2>1. outcome \in {"aborted", "missing", "running"}
        BY DEF Outcomes
  <2>2. QED
        BY <1>2, <2>1 DEF BeginBatch
<1>3. CASE NextApp
  <2>1. PICK a \in Apps : /\ fate[a] = "todo"
                          /\ fate' = [fate EXCEPT ![a] = "begun"]
                          /\ ref' = RefOf(a)
        BY <1>3 DEF NextApp
  <2>2. UNCHANGED <<data, before, result>> /\ pc = "next" /\ pc' = "fetch"
        BY <1>3 DEF NextApp
  <2>3. ref'[1] = a
        BY <2>1 DEF RefOf
  <2>4. \A b \in Apps : fate'[b] = "begun" => b = a \/ fate[b] = "begun"
        BY <2>1
  <2>5. \A b \in Apps : fate[b] # "begun"
        BY <2>2
  <2>6. \A r \in Refs : fate[r[1]] \in {"begun", "restored", "failed"} =>
            fate'[r[1]] = fate[r[1]]
        BY <2>1
  <2>7. QED
        BY <2>2, <2>3, <2>4, <2>5, <2>6
<1>4. CASE BatchDone
      BY <1>4 DEF BatchDone, EndBatch
<1>5. CASE Crash
      BY <1>5 DEF Crash, EndBatch
<1>6. ASSUME NEW outcome \in {"restored", "skipped", "failed"},
             Finish(outcome), pc \in {"confirm", "leave"},
             outcome = "skipped" => pc = "confirm"
      PROVE  AccountInv'
  <2>1. /\ fate' = [fate EXCEPT ![ref[1]] = outcome] /\ pc' = "next"
        /\ UNCHANGED <<data, before, result>>
        BY <1>6 DEF Finish
  <2>2. ref \in Refs /\ ref = RefOf(ref[1]) /\ result = "running"
        BY <1>6
  <2>3. \A b \in Apps : fate'[b] # "begun"
        BY <1>6, <2>1, <2>2
  <2>4. outcome = "skipped" => data[ref] = before.data[ref]
    <3>1. SUFFICES ASSUME outcome = "skipped"
                   PROVE  data[ref] = before.data[ref]
          OBVIOUS
    <3>2. \A d \in DirNames : data[ref][d] = before.data[ref][d]
          BY <1>6, <3>1 DEF WholeInv, Kept
    <3>3. data \in DataStates /\ before.data \in DataStates
          OBVIOUS
    <3>4. QED
          BY <2>2, <3>2, <3>3 DEF DataStates
  <2>5. \A r \in Refs : data[r] # before.data[r] =>
            r = RefOf(r[1]) /\ fate'[r[1]] \in {"begun", "restored", "failed"}
    <3>1. SUFFICES ASSUME NEW r \in Refs, data[r] # before.data[r]
                   PROVE  fate'[r[1]] \in {"begun", "restored", "failed"}
          OBVIOUS
    <3>2. r = RefOf(r[1]) /\ fate[r[1]] \in {"begun", "restored", "failed"}
          BY <3>1
    <3>3. CASE r[1] = ref[1]
          BY <2>1, <2>2, <2>4, <3>1, <3>2, <3>3
    <3>4. CASE r[1] # ref[1]
          BY <2>1, <3>2, <3>4
    <3>5. QED
          BY <3>3, <3>4
  <2>6. QED
        BY <2>1, <2>2, <2>3, <2>5
<1>7. CASE FinishApp
      BY <1>6, <1>7 DEF FinishApp, FailureRecorded
<1>8. CASE Decline
      BY <1>6, <1>8 DEF Decline
<1>9. ASSUME UNCHANGED <<fate, result, ref, data, before>>,
             pc \in InApp, pc' \in InApp
      PROVE  AccountInv'
      BY <1>9
<1>10. CASE Fetch \/ Confirm \/ CheckApp \/ StopApp \/ LeaveAlone
       BY <1>9, <1>10 DEF Fetch, Confirm, CheckApp, StopApp, LeaveAlone, Raise
<1>11. CASE Extract \/ AllReplaced
       BY <1>9, <1>11
       DEF Extract, AllReplaced, AfterFailedExtraction, LeaveTry, FinallyPc
<1>12. CASE StartApp \/ StartForHook \/ ReadSettings \/ RestoreHook
       BY <1>9, <1>12 DEF StartApp, StartForHook, ReadSettings, RestoreHook,
                          AppStart, StartError, Raise
<1>13. CASE UNCHANGED vars
       BY <1>13 DEF vars
<1>14. QED
       BY <1>1, <1>2, <1>3, <1>4, <1>5, <1>7, <1>8, <1>10, <1>11, <1>12, <1>13
       DEF Next, BoundedStep, UnboundedStep

LEMMA AccountsFor ==
    TypeInv /\ WholeInv /\ AccountInv => BatchAccounted
<1> SUFFICES ASSUME TypeInv, WholeInv, AccountInv, result \in {"done", "error"}
             PROVE  /\ With("begun") = {}
                    /\ \A r \in Refs, d \in DirNames :
                          data[r][d] \in {Absent, Damaged}
                              /\ data[r] # before.data[r]
                              => r[1] \in With("failed")
                                     \/ d \notin Holds[Newest(r[1])]
    BY DEF AccountInv, BatchAccounted
<1>1. \A a \in Apps : fate[a] # "begun"
      BY DEF AccountInv, InApp
<1>2. ASSUME NEW r \in Refs, NEW d \in DirNames,
             data[r][d] \in {Absent, Damaged}, data[r] # before.data[r],
             fate[r[1]] # "failed", d \in Holds[Newest(r[1])]
      PROVE  FALSE
  <2>1. r[1] \in Apps /\ r = RefOf(r[1]) /\ fate[r[1]] = "restored"
        BY <1>1, <1>2, RefsApp DEF AccountInv
  <2>2. data[r][d] = Newest(r[1])
        BY <1>2, <2>1 DEF WholeInv, RestoredIsWhole, With
  <2>3. Newest(r[1]) \in Archives
        BY <2>1, NewestFound DEF TypeInv, Chosen
  <2>4. QED
        BY <1>2, <2>2, <2>3, ArchivesAssumption
<1>3. QED
      BY <1>1, <1>2, RefsApp DEF With

\* A batch that comes to its end leaves out no app because another failed,
\* says so exactly if one failed, and no app it does not report as failed is
\* left with a directory half replaced.
THEOREM EveryAppAccountedFor == Spec => []BatchAccounted
<1>1. Init => WholeInv
      BY DEF Init, WholeInv, RestoredIsWhole, With
<1>2. Init => AccountInv
      BY DEF Init, AccountInv, With
<1>3. TypeInv /\ WholeInv /\ [Next]_vars => WholeInv'
      BY WholeStep
<1>4. TypeInv /\ WholeInv /\ AccountInv /\ [Next]_vars => AccountInv'
      BY AccountStep
<1>5. TypeInv /\ WholeInv /\ AccountInv => BatchAccounted
      BY AccountsFor
<1>6. QED
      BY <1>1, <1>2, <1>3, <1>4, <1>5, TypeInit, TypeStep, PTL DEF Spec

-----------------------------------------------------------------------------
(* Who runs at the end.                                                    *)

NeedsToRun(r) == HasRestoreCommand(r, Labels[r])

\* The container of the app in progress, as far as its restore has got.
AppInv ==
    /\ pc \in {"idle", "next", "fetch", "confirm", "check", "stop"} =>
           ~stoppedByUs
    /\ pc \in {"fetch", "confirm", "check", "settings"} => up[ref] = before.up[ref]
    /\ pc \in {"stop", "start"} => before.up[ref]
    /\ pc \in {"extract", "remove", "move"} =>
           IF stoppedByUs THEN before.up[ref] ELSE up[ref] = before.up[ref]
    /\ pc \in {"boot", "hook"} => NeedsToRun(ref) /\ (before.up[ref] => up[ref])
    /\ pc = "leave" /\ ~raised =>
           /\ before.up[ref] => up[ref]
           /\ up[ref] /\ ~before.up[ref] => NeedsToRun(ref)

\* The reference of an app runs as it did when the batch began, or runs
\* because its restore_command needs it.
AsBefore(a) ==
    /\ before.up[RefOf(a)] => up[RefOf(a)]
    /\ up[RefOf(a)] /\ ~before.up[RefOf(a)] =>
           fate[a] = "restored" /\ NeedsToRun(RefOf(a))

\* An app that has not had its turn runs as it did when the batch began.
WaitsAsBefore(a) == up[RefOf(a)] = before.up[RefOf(a)]

UpInv ==
    /\ pc # "idle" => result = "running"
    /\ result # "crashed" => \A a \in Apps :
           /\ fate[a] = "todo" => WaitsAsBefore(a)
           /\ fate[a] \in {"restored", "skipped"} => AsBefore(a)
    /\ AppInv

\* A label can give an app a restore_command; when docker does not answer, no
\* app gets one that it would not have had.
LEMMA CommandSeen ==
    ASSUME NEW r \in Refs, NEW labels \in VisibleLabels(r),
           HasRestoreCommand(r, labels)
    PROVE  NeedsToRun(r)
<1>1. labels = Labels[r] \/ labels = NoOverrides
      BY DEF VisibleLabels
<1>2. ASSUME NEW base
      PROVE  LabelsToOverrides(base)["restore_command"] = base["restore_command"]
      BY DEF LabelsToOverrides, Fields
<1>3. NoOverrides["restore_command"] = Unset
      /\ Defaults["restore_command"] = Unset
      BY DEF NoOverrides, Defaults, Fields
<1>4. ASSUME NEW base
      PROVE  ResolveAppSettings(base, Config[r])["restore_command"] =
                 IF Config[r]["restore_command"] # Unset
                 THEN Config[r]["restore_command"]
                 ELSE base["restore_command"]
  <2>1. MergeOverrides(LabelsToOverrides(base), Config[r])["restore_command"] =
            IF Config[r]["restore_command"] # Unset
            THEN Config[r]["restore_command"] ELSE base["restore_command"]
        BY <1>2 DEF MergeOverrides, Fields
  <2>2. QED
        BY <1>3, <2>1 DEF ResolveAppSettings, Fields
<1>5. QED
      BY <1>1, <1>3, <1>4 DEF HasRestoreCommand, IsCommand, NeedsToRun

\* Only the container of the app in progress is stopped or started.
LEMMA OnlyOwnContainer ==
    ASSUME TypeInv, [Next]_vars
    PROVE  \/ up' = up
           \/ /\ pc \in InApp /\ ref \in Refs
              /\ UNCHANGED <<fate, result, before, ref>>
              /\ \A r \in Refs : r # ref => up'[r] = up[r]
<1> USE DEF TypeInv, TypeOK, Chosen, InApp, batch, locals, history
<1>1. ASSUME NEW nextPc, AppStart(nextPc)
      PROVE  \A r \in Refs : r # ref => up'[r] = up[r]
      BY <1>1 DEF AppStart, UpStates
<1>2. CASE StopApp
      BY <1>2 DEF StopApp, UpStates
<1>3. CASE StartApp
      BY <1>1, <1>3 DEF StartApp
<1>4. CASE StartForHook
      BY <1>1, <1>4 DEF StartForHook
<1>5. ASSUME NEW chosen \in SUBSET Apps, NEW outcome \in Outcomes(chosen),
             BeginBatch(chosen, outcome)
      PROVE  up' = up
      BY <1>5 DEF BeginBatch
<1>6. CASE NextApp \/ Fetch \/ Confirm \/ CheckApp \/ LeaveAlone
      BY <1>6 DEF NextApp, Fetch, Confirm, CheckApp, LeaveAlone
<1>7. CASE BatchDone \/ Crash
      BY <1>7 DEF BatchDone, Crash, EndBatch
<1>8. CASE FinishApp \/ Decline
      BY <1>8 DEF FinishApp, Decline, Finish
<1>9. CASE Extract \/ RemoveOld \/ MoveNew
      BY <1>9 DEF Extract, RemoveOld, MoveNew
<1>10. CASE AllReplaced \/ ReadSettings \/ RestoreHook
       BY <1>10 DEF AllReplaced, ReadSettings, RestoreHook
<1>11. CASE UNCHANGED vars
       BY <1>11 DEF vars
<1>12. QED
       BY <1>2, <1>3, <1>4, <1>5, <1>6, <1>7, <1>8, <1>9, <1>10, <1>11
       DEF Next, BoundedStep, UnboundedStep

\* A step within the restore of one app keeps what holds of the other apps.
LEMMA OthersRunOn ==
    ASSUME TypeInv, UpInv, [Next]_vars, pc \in InApp,
           UNCHANGED <<fate, result, before>>
    PROVE  result' # "crashed" => \A a \in Apps :
               /\ fate'[a] = "todo" => WaitsAsBefore(a)'
               /\ fate'[a] \in {"restored", "skipped"} => AsBefore(a)'
<1>1. \A a \in Apps : fate[a] \in {"todo", "restored", "skipped"} =>
          RefOf(a) \in Refs /\ RefOf(a) # ref
      BY NewestFound DEF TypeInv, Chosen
<1>2. \A a \in Apps : fate[a] \in {"todo", "restored", "skipped"} =>
          up'[RefOf(a)] = up[RefOf(a)]
      BY <1>1, OnlyOwnContainer
<1>3. QED
      BY <1>2 DEF UpInv, AsBefore, WaitsAsBefore

LEMMA AppStep ==
    ASSUME ExactFilter, TypeInv, UpInv, [Next]_vars, pc \in InApp, pc' \in InApp
    PROVE  AppInv'
<1> USE DEF TypeInv, TypeOK, Chosen, InApp, UpInv, AppInv, batch, locals, history
<1>1. up \in UpStates /\ ref \in Refs
      OBVIOUS
<1>2. CASE Fetch \/ Confirm \/ LeaveAlone
      BY <1>2 DEF Fetch, Confirm, LeaveAlone, Raise
<1>3. CASE CheckApp
  <2>1. PICK seen \in SeenRunning(ref, up) :
            pc' = IF seen.answer THEN "stop" ELSE "extract"
        BY <1>3 DEF CheckApp
  <2>2. seen.answer => up[ref]
        BY <1>1, Seen DEF ExactFilter
  <2>3. QED
        BY <1>3, <2>1, <2>2 DEF CheckApp
<1>4. CASE StopApp
  <2>1. \/ pc' = "leave" /\ raised'
        \/ pc' = "extract" /\ stoppedByUs'
        BY <1>4 DEF StopApp, Raise
  <2>2. QED
        BY <1>4, <2>1 DEF StopApp
<1>5. CASE Extract
      BY <1>5 DEF Extract, LeaveTry, FinallyPc
<1>6. CASE RemoveOld
      BY <1>6 DEF RemoveOld, LeaveTry, FinallyPc
<1>7. CASE MoveNew
      BY <1>7 DEF MoveNew, MoveError, LeaveTry, FinallyPc
<1>8. CASE AllReplaced
      BY <1>8 DEF AllReplaced, LeaveTry, FinallyPc
<1>9. CASE StartApp
      BY <1>1, <1>9 DEF StartApp, AppStart, StartError, Raise, UpStates
<1>10. CASE StartForHook
       BY <1>1, <1>10 DEF StartForHook, AppStart, StartError, Raise, UpStates,
                          NeedsToRun
<1>11. CASE ReadSettings
  <2>1. PICK labels \in VisibleLabels(ref) :
            \/ pc' = "leave"
            \/ HasRestoreCommand(ref, labels) /\ pc' \in {"boot", "hook"}
        BY <1>11 DEF ReadSettings
  <2>2. pc' \in {"boot", "hook"} => NeedsToRun(ref)
        BY <1>1, <2>1, CommandSeen
  <2>3. UNCHANGED <<ref, up, before>> /\ pc = "settings"
        BY <1>11 DEF ReadSettings
  <2>4. QED
        BY <2>1, <2>2, <2>3 DEF NeedsToRun
<1>12. CASE RestoreHook
       BY <1>12 DEF RestoreHook, Raise, NeedsToRun
<1>13. CASE UNCHANGED vars
       BY <1>13 DEF vars, NeedsToRun
<1>14. ASSUME NEW chosen \in SUBSET Apps, NEW outcome \in Outcomes(chosen),
              BeginBatch(chosen, outcome)
       PROVE  FALSE
       BY <1>14 DEF BeginBatch
<1>15. CASE NextApp \/ BatchDone
       BY <1>15 DEF NextApp, BatchDone
<1>16. CASE FinishApp \/ Decline
       BY <1>16 DEF FinishApp, Decline, Finish
<1>17. CASE Crash
       BY <1>17 DEF Crash, EndBatch
<1>18. QED
       BY <1>2, <1>3, <1>4, <1>5, <1>6, <1>7, <1>8, <1>9, <1>10, <1>11, <1>12,
          <1>13, <1>14, <1>15, <1>16, <1>17
       DEF Next, BoundedStep, UnboundedStep

LEMMA UpStep ==
    ASSUME ExactFilter, TypeInv, UpInv, [Next]_vars
    PROVE  UpInv'
<1> USE DEF batch, locals, history
<1>1. ASSUME pc \in InApp, pc' \in InApp, UNCHANGED <<fate, result, before>>
      PROVE  UpInv'
      BY <1>1, AppStep, OthersRunOn DEF UpInv, InApp
<1>2. ASSUME NEW chosen \in SUBSET Apps, NEW outcome \in Outcomes(chosen),
             BeginBatch(chosen, outcome)
      PROVE  UpInv'
  <2>1. outcome \in {"aborted", "missing", "running"}
        BY DEF Outcomes
  <2>2. /\ pc' \in {"next", "idle"} /\ (pc' # "idle" => result' = "running")
        /\ before'.up = up' /\ \A a \in Apps : fate'[a] \in {"todo", "none"}
        BY <1>2, <2>1 DEF BeginBatch
  <2>3. ~stoppedByUs'
        BY <1>2 DEF BeginBatch, UpInv, AppInv
  <2>4. QED
        BY <2>2, <2>3 DEF UpInv, AppInv, WaitsAsBefore
<1>3. CASE NextApp
  <2>1. PICK a \in Apps : /\ fate[a] = "todo"
                          /\ fate' = [fate EXCEPT ![a] = "begun"]
                          /\ ref' = RefOf(a)
        BY <1>3 DEF NextApp
  <2>2. /\ UNCHANGED <<up, before, result, stoppedByUs>>
        /\ pc = "next" /\ pc' = "fetch"
        BY <1>3 DEF NextApp
  <2>3. \A b \in Apps : fate'[b] = fate[b] \/ fate'[b] = "begun"
        BY <2>1 DEF TypeInv, TypeOK
  <2>4. result = "running" /\ WaitsAsBefore(a) /\ ~stoppedByUs
        BY <2>1, <2>2 DEF UpInv, AppInv
  <2>5. AppInv'
        BY <2>1, <2>2, <2>4 DEF AppInv, WaitsAsBefore
  <2>6. \A b \in Apps :
            /\ fate'[b] = "todo" => WaitsAsBefore(b)'
            /\ fate'[b] \in {"restored", "skipped"} => AsBefore(b)'
        BY <2>2, <2>3, <2>4 DEF UpInv, AsBefore, WaitsAsBefore
  <2>7. QED
        BY <2>2, <2>4, <2>5, <2>6 DEF UpInv
<1>4. ASSUME NEW outcome, EndBatch(outcome), pc # "idle"
      PROVE  UpInv'
  <2>1. /\ pc' = "idle" /\ ~stoppedByUs' /\ UNCHANGED <<fate, up, before>>
        BY <1>4 DEF EndBatch, ForgetLocals
  <2>2. result = "running"
        BY <1>4 DEF UpInv
  <2>3. QED
        BY <2>1, <2>2 DEF UpInv, AppInv, AsBefore, WaitsAsBefore
<1>5. ASSUME NEW outcome \in {"restored", "skipped", "failed"},
             Finish(outcome), pc \in {"confirm", "leave"},
             outcome = "skipped" => pc = "confirm",
             outcome = "restored" => pc = "leave" /\ ~raised
      PROVE  UpInv'
  <2>1. /\ fate' = [fate EXCEPT ![ref[1]] = outcome] /\ pc' = "next"
        /\ ~stoppedByUs' /\ UNCHANGED <<up, before, result>>
        BY <1>5 DEF Finish, ForgetLocals
  <2>2. /\ ref = RefOf(ref[1]) /\ result = "running" /\ ref \in Refs
        /\ fate \in [Apps -> Fates] /\ ref[1] \in Apps
        BY <1>5, RefsApp DEF UpInv, TypeInv, TypeOK, Chosen, InApp
  <2>3. outcome = "skipped" => up[ref] = before.up[ref]
        BY <1>5 DEF UpInv, AppInv
  <2>4. outcome = "restored" =>
            /\ before.up[ref] => up[ref]
            /\ up[ref] /\ ~before.up[ref] => NeedsToRun(ref)
        BY <1>5 DEF UpInv, AppInv
  <2>5. AppInv'
        BY <2>1 DEF AppInv
  <2>6. ASSUME NEW a \in Apps
        PROVE  /\ fate'[a] = "todo" => WaitsAsBefore(a)'
               /\ fate'[a] \in {"restored", "skipped"} => AsBefore(a)'
    <3>1. CASE a = ref[1]
      <4>1. fate'[a] = outcome /\ RefOf(a) = ref
            BY <2>1, <2>2, <3>1
      <4>2. outcome \in {"restored", "skipped"} =>
                /\ before.up[RefOf(a)] => up[RefOf(a)]
                /\ up[RefOf(a)] /\ ~before.up[RefOf(a)] =>
                       outcome = "restored" /\ NeedsToRun(RefOf(a))
            BY <2>3, <2>4, <4>1
      <4>3. QED
            BY <2>1, <4>1, <4>2 DEF AsBefore, NeedsToRun
    <3>2. CASE a # ref[1]
          BY <2>1, <2>2, <3>2 DEF UpInv, AsBefore, WaitsAsBefore, NeedsToRun
    <3>3. QED
          BY <3>1, <3>2
  <2>7. QED
        BY <2>1, <2>2, <2>5, <2>6 DEF UpInv
<1>6. CASE BatchDone
      BY <1>4, <1>6 DEF BatchDone
<1>7. CASE Crash
      BY <1>4, <1>7 DEF Crash
<1>8. CASE FinishApp
      BY <1>5, <1>8 DEF FinishApp, FailureRecorded
<1>9. CASE Decline
      BY <1>5, <1>9 DEF Decline
<1>10. CASE Fetch \/ Confirm \/ CheckApp \/ StopApp \/ LeaveAlone
       BY <1>1, <1>10
       DEF Fetch, Confirm, CheckApp, StopApp, LeaveAlone, Raise, InApp
<1>11. CASE Extract \/ AllReplaced
       BY <1>1, <1>11 DEF Extract, AllReplaced, LeaveTry, FinallyPc, InApp
<1>12. CASE RemoveOld \/ MoveNew
       BY <1>1, <1>12
       DEF RemoveOld, MoveNew, MoveError, LeaveTry, FinallyPc, InApp
<1>13. CASE StartApp \/ StartForHook \/ ReadSettings \/ RestoreHook
       BY <1>1, <1>13 DEF StartApp, StartForHook, ReadSettings, RestoreHook,
                          AppStart, StartError, Raise, InApp
<1>14. CASE UNCHANGED vars
       BY <1>14 DEF vars, UpInv, AppInv, AsBefore, WaitsAsBefore, NeedsToRun
<1>15. QED
       BY <1>2, <1>3, <1>6, <1>7, <1>8, <1>9, <1>10, <1>11, <1>12, <1>13, <1>14
       DEF Next, BoundedStep, UnboundedStep

\* An app that is reported as restored or skipped runs if and only if it did
\* when the batch began, unless its restore_command needs it to run: whatever
\* docker and runtipi-cli answered on the way.  A docker filter that also
\* matches another app makes a stopped app look running, and it is started.
THEOREM UpAsBefore == ExactFilter /\ Spec => []RunsAsBefore
<1>1. Init => UpInv
      BY DEF Init, UpInv, AppInv
<1>2. UpInv => RunsAsBefore
      BY DEF UpInv, RunsAsBefore, AsBefore, NeedsToRun, With
<1>3. ExactFilter /\ TypeInv /\ UpInv /\ [Next]_vars => UpInv'
      BY UpStep
<1>4. ExactFilter => ExactFilter'
      BY DEF ExactFilter
<1>5. QED
      BY <1>1, <1>2, <1>3, <1>4, TypeInit, TypeStep, PTL DEF Spec

-----------------------------------------------------------------------------
(* A batch cannot go on for ever.                                          *)

\* The host has finitely many apps.
FiniteHost == IsFiniteSet(Apps)

\* At most so many steps are taken over one app: two for each directory.
StepsPerApp == 25

StepsInApp ==
    CASE pc = "fetch"    -> 25
      [] pc = "confirm"  -> 24
      [] pc = "check"    -> 23
      [] pc = "stop"     -> 22
      [] pc = "extract"  -> 21
      [] pc = "remove"   -> 20 - 2 * at
      [] pc = "move"     -> 19 - 2 * at
      [] pc = "start"    -> 6
      [] pc = "settings" -> 5
      [] pc = "boot"     -> 4
      [] pc = "hook"     -> 3
      [] pc = "leave"    -> 2
      [] pc = "next"     -> 1
      [] OTHER           -> 0

\* At most so many steps are left of the batch.
StepsLeft ==
    IF pc = "idle" THEN 0
    ELSE StepsPerApp * Cardinality(With("todo")) + StepsInApp

LEMMA AppsCounted ==
    ASSUME FiniteHost, NEW S \in SUBSET Apps
    PROVE  IsFiniteSet(S) /\ Cardinality(S) \in Nat
BY FS_Subset, FS_CardinalityType DEF FiniteHost

LEMMA WithinApp == TypeOK => StepsInApp \in 0 .. 25 /\ (pc # "idle" => StepsInApp > 0)
<1> SUFFICES ASSUME TypeOK
             PROVE  StepsInApp \in 0 .. 25 /\ (pc # "idle" => StepsInApp > 0)
    OBVIOUS
<1>1. at \in 1 .. 4
      BY OrderLength DEF TypeOK
<1>2. CASE pc = "idle"
      BY <1>2 DEF StepsInApp
<1>3. CASE pc # "idle"
  <2>1. pc \in InApp \cup {"next"}
        BY <1>3 DEF TypeOK, InApp
  <2>2. QED
        BY <1>1, <2>1 DEF StepsInApp, InApp
<1>4. QED
      BY <1>2, <1>3

LEMMA StepsTyped == FiniteHost /\ TypeOK => StepsLeft \in Nat
<1>1. FiniteHost => Cardinality(With("todo")) \in Nat
      BY AppsCounted DEF With
<1>2. QED
      BY <1>1, WithinApp DEF StepsLeft, StepsPerApp

\* Every step over an app, but the last, brings its end nearer.
LEMMA AppAdvances ==
    ASSUME TypeInv, TypeInv', pc \in InApp, pc' \in InApp,
           BoundedStep \/ UnboundedStep
    PROVE  UNCHANGED fate /\ StepsInApp' < StepsInApp
<1> USE DEF InApp, batch, locals, history, StepsInApp
<1>1. at \in 1 .. 4 /\ at' \in 1 .. 4 /\ Len(DirOrder) = 3
      BY OrderLength DEF TypeInv, TypeOK
<1>2. CASE NextApp \/ BatchDone \/ FinishApp \/ Decline
      BY <1>2 DEF NextApp, BatchDone, FinishApp, Decline, Finish, EndBatch
<1>3. CASE Fetch \/ Confirm \/ CheckApp
      BY <1>3 DEF Fetch, Confirm, CheckApp, Raise
<1>4. CASE StopApp
  <2>1. pc = "stop" /\ UNCHANGED fate /\ pc' \in {"leave", "extract"}
        BY <1>4 DEF StopApp, Raise
  <2>2. QED
        BY <2>1
<1>5. ASSUME NEW error, LeaveTry(error), pc \in {"extract", "remove", "move"}
      PROVE  StepsInApp' < StepsInApp
  <2>1. pc' \in {"start", "leave", "settings"}
        BY <1>5 DEF LeaveTry, FinallyPc
  <2>2. StepsInApp >= 11
        BY <1>1, <1>5
  <2>3. StepsInApp' <= 6 /\ StepsInApp' \in Nat /\ StepsInApp \in Int
        BY <1>1, <1>5, <2>1
  <2>4. QED
        BY <2>2, <2>3
<1>6. CASE Extract
  <2>1. /\ pc = "extract" /\ UNCHANGED <<fate, at>>
        /\ pc' = "remove" \/ LeaveTry(TRUE)
        BY <1>6 DEF Extract
  <2>2. CASE pc' = "remove"
        BY <1>1, <2>1, <2>2
  <2>3. QED
        BY <1>5, <2>1, <2>2
<1>7. CASE RemoveOld
  <2>1. /\ pc = "remove" /\ UNCHANGED <<fate, at>>
        /\ pc' = "move" \/ LeaveTry(TRUE)
        BY <1>7 DEF RemoveOld
  <2>2. CASE pc' = "move"
        BY <1>1, <2>1, <2>2
  <2>3. QED
        BY <1>5, <2>1, <2>2
<1>8. CASE LeaveAlone
  <2>1. pc = "remove" /\ pc' = "remove" /\ at' = at + 1 /\ UNCHANGED fate
        BY <1>8 DEF LeaveAlone
  <2>2. QED
        BY <1>1, <2>1
<1>9. CASE MoveNew
  <2>1. /\ pc = "move" /\ UNCHANGED fate
        /\ (pc' = "remove" /\ at' = at + 1) \/ LeaveTry(TRUE)
        BY <1>9 DEF MoveNew, MoveError
  <2>2. CASE pc' = "remove" /\ at' = at + 1
        BY <1>1, <2>1, <2>2
  <2>3. QED
        BY <1>5, <2>1, <2>2
<1>10. CASE AllReplaced
       BY <1>5, <1>10 DEF AllReplaced
<1>11. CASE StartApp \/ StartForHook
  <2>1. /\ UNCHANGED fate
        /\ \/ pc = "start" /\ pc' \in {"settings", "leave"}
           \/ pc = "boot" /\ pc' \in {"hook", "leave"}
        BY <1>11 DEF StartApp, StartForHook, AppStart, StartError, Raise
  <2>2. QED
        BY <2>1
<1>12. CASE ReadSettings \/ RestoreHook
  <2>1. /\ UNCHANGED fate
        /\ \/ pc = "settings" /\ pc' \in {"hook", "boot", "leave"}
           \/ pc = "hook" /\ pc' = "leave"
        BY <1>12 DEF ReadSettings, RestoreHook, Raise
  <2>2. QED
        BY <2>1
<1>13. QED
       BY <1>2, <1>3, <1>4, <1>6, <1>7, <1>8, <1>9, <1>10, <1>11, <1>12
       DEF BoundedStep, UnboundedStep

\* Taking up an app leaves one app fewer to do; an app is never put back.
LEMMA TodoShrinks ==
    ASSUME FiniteHost, TypeInv, NextApp
    PROVE  Cardinality(With("todo"))' = Cardinality(With("todo")) - 1
<1>1. PICK a \in Apps : fate[a] = "todo" /\ fate' = [fate EXCEPT ![a] = "begun"]
      BY DEF NextApp
<1>2. With("todo")' = With("todo") \ {a} /\ a \in With("todo")
      BY <1>1 DEF With, TypeInv, TypeOK
<1>3. IsFiniteSet(With("todo"))
      BY AppsCounted DEF With
<1>4. QED
      BY <1>2, <1>3, FS_RemoveElement

LEMMA TodoKept ==
    ASSUME FiniteHost, TypeInv, NEW outcome \in Fates \ {"todo"}, Finish(outcome)
    PROVE  /\ Cardinality(With("todo"))' <= Cardinality(With("todo"))
           /\ pc' = "next"
<1>1. With("todo")' \in SUBSET With("todo")
      BY DEF Finish, With, TypeInv, TypeOK
<1>2. IsFiniteSet(With("todo"))
      BY AppsCounted DEF With
<1>3. Cardinality(With("todo")') <= Cardinality(With("todo"))
      BY <1>1, <1>2, FS_Subset
<1>4. QED
      BY <1>3 DEF Finish

LEMMA BatchStepAdvances ==
    ASSUME FiniteHost, TypeInv, TypeInv', Next, pc # "idle"
    PROVE  StepsLeft' < StepsLeft
<1>1. /\ Cardinality(With("todo")) \in Nat
      /\ Cardinality(With("todo")') \in Nat
      BY AppsCounted DEF With
<1>2. /\ StepsInApp \in 0 .. 25 /\ StepsInApp' \in 0 .. 25
      /\ StepsInApp > 0
  <2>1. at' \in 1 .. 4
        BY OrderLength DEF TypeInv, TypeOK
  <2>2. StepsInApp' \in 0 .. 25
        BY <2>1 DEF StepsInApp
  <2>3. QED
        BY <2>2, WithinApp DEF TypeInv
<1>3. CASE pc' = "idle"
      BY <1>1, <1>2, <1>3 DEF StepsLeft, StepsPerApp
<1>4. CASE NextApp
  <2>1. pc = "next" /\ pc' = "fetch" /\ StepsInApp' = 25 /\ StepsInApp = 1
        BY <1>4 DEF NextApp, StepsInApp
  <2>2. Cardinality(With("todo")') = Cardinality(With("todo")) - 1
        BY <1>4, TodoShrinks
  <2>3. QED
        BY <1>1, <2>1, <2>2 DEF StepsLeft, StepsPerApp
<1>5. CASE BatchDone \/ Crash
      BY <1>3, <1>5 DEF BatchDone, Crash, EndBatch
<1>6. CASE FinishApp \/ Decline
  <2>1. PICK outcome \in Fates \ {"todo"} : Finish(outcome)
        BY <1>6 DEF FinishApp, Decline, FailureRecorded, Fates
  <2>2. /\ Cardinality(With("todo")') <= Cardinality(With("todo"))
        /\ pc' = "next"
        BY <2>1, TodoKept
  <2>3. StepsInApp' = 1 /\ StepsInApp >= 2
        BY <1>6, <2>2 DEF FinishApp, Decline, StepsInApp
  <2>4. QED
        BY <1>1, <1>2, <2>2, <2>3 DEF StepsLeft, StepsPerApp
<1>7. CASE pc \in InApp /\ pc' \in InApp /\ (BoundedStep \/ UnboundedStep)
  <2>1. UNCHANGED fate /\ StepsInApp' < StepsInApp
        BY <1>7, AppAdvances
  <2>2. With("todo")' = With("todo")
        BY <2>1 DEF With
  <2>3. QED
        BY <1>1, <1>2, <1>7, <2>1, <2>2 DEF StepsLeft, StepsPerApp, InApp
<1>8. CASE \E chosen \in SUBSET Apps : \E outcome \in Outcomes(chosen) :
               BeginBatch(chosen, outcome)
      BY <1>8 DEF BeginBatch
<1>9. ASSUME ~NextApp, ~BatchDone, ~FinishApp, ~Decline, BoundedStep \/ UnboundedStep
      PROVE  pc \in InApp /\ pc' \in InApp
      BY <1>9
      DEF BoundedStep, UnboundedStep, Fetch, Extract, RemoveOld, LeaveAlone,
          MoveNew, AllReplaced, StartApp, StartForHook, Confirm, CheckApp,
          StopApp, ReadSettings, RestoreHook, Raise, LeaveTry, FinallyPc,
          AppStart, StartError, MoveError, InApp
<1>10. QED
       BY <1>4, <1>5, <1>6, <1>7, <1>8, <1>9 DEF Next

\* restore.py:23, 101-106: a batch takes a bounded number of steps: whatever
\* fails, each step brings the end nearer by a measure that is a natural
\* number; an app that failed is not tried again.  All that can hold a batch up
\* is an answer or a command without a timeout that never comes.  For any
\* finite set of apps.
THEOREM BatchAdvances ==
    ASSUME FiniteHost
    PROVE  Spec => /\ [](StepsLeft \in Nat)
                   /\ [][pc # "idle" => StepsLeft' < StepsLeft]_vars
<1>1. TypeInv => StepsLeft \in Nat
      BY StepsTyped DEF TypeInv
<1>2. TypeInv /\ TypeInv' /\ [Next]_vars =>
          [pc # "idle" => StepsLeft' < StepsLeft]_vars
      BY BatchStepAdvances
<1>3. QED
      BY TypeInit, TypeStep, <1>1, <1>2, PTL DEF Spec
=============================================================================
