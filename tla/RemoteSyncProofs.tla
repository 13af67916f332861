-------------------------- MODULE RemoteSyncProofs --------------------------
(***************************************************************************)
(* Proofs about RemoteSync, for any apps, schedules, retention counts,     *)
(* number of days and faults.                                              *)
(***************************************************************************)
EXTENDS RemoteSync, RetentionProofs

-----------------------------------------------------------------------------
(* Type correctness.                                                       *)

\* A file is under way only between its upload and its verification.
CurrentOK == pc # "stat" => current = {}

LEMMA TypeInit == Init => TypeOK /\ CurrentOK
BY RemoteAssumption DEF Init, TypeOK, CurrentOK, Days

LEMMA EndRunType ==
    ASSUME TypeOK, NEW status \in {"success", "failed"}, EndRun(status),
           UNCHANGED <<runVars, local, today>>,
           remote' \in [Files -> {"none", "short", "partial", "good"}]
    PROVE  TypeOK' /\ CurrentOK'
BY DEF TypeOK, CurrentOK, EndRun, runVars, Files, Days

\* What is on disk after the apps of a run have met their outcomes.
LEMMA BackedType ==
    ASSUME TypeOK, NEW met \in [Apps -> {"good", "partial", "rejected", "skipped"}]
    PROVE  Backed(local, met) \in [Files -> {"none", "partial", "good"}]
<1>1. ASSUME NEW f \in Files
      PROVE  Backed(local, met)[f] \in {"none", "partial", "good"}
      BY DEF TypeOK, Backed, Files
<1>2. QED
      BY <1>1 DEF Backed

LEMMA TypeStep == TypeOK /\ CurrentOK /\ [Next]_vars => TypeOK' /\ CurrentOK'
<1> SUFFICES ASSUME TypeOK, CurrentOK, [Next]_vars PROVE TypeOK' /\ CurrentOK'
    OBVIOUS
<1>1. ASSUME NEW s \in Schedules, BeginRun(s) PROVE TypeOK' /\ CurrentOK'
      BY <1>1 DEF TypeOK, CurrentOK, BeginRun, Files, Days
<1>2. CASE BackUpApps
  <2>1. PICK met \in [Apps -> {"good", "rejected", "skipped"}] :
            local' = Backed(local, met) /\ appsOK' = \A a \in Apps : met[a] = "good"
        BY <1>2 DEF BackUpApps
  <2>2. local' \in [Files -> {"none", "partial", "good"}]
        BY <2>1, BackedType
  <2>3. appsOK' \in BOOLEAN
        BY <2>1
  <2>4. outgoing' \subseteq Files
        BY <1>2 DEF BackUpApps, Outgoing
  <2>5. UNCHANGED <<schedule, day, today, result, remote, current, doomed>>
        BY <1>2 DEF BackUpApps, runVars
  <2>6. pc' = "upload" /\ pc = "backup"
        BY <1>2 DEF BackUpApps
  <2>7. current' \subseteq outgoing'
        BY <1>2, <2>6 DEF CurrentOK, BackUpApps
  <2>8. QED
        BY <2>2, <2>3, <2>4, <2>5, <2>6, <2>7 DEF TypeOK, CurrentOK, Files, Days
<1>3. CASE BackupAborts
  <2>1. PICK broken \in Apps, met \in [Apps -> {"good", "rejected", "skipped"}] :
            local' = Backed(local, [met EXCEPT ![broken] = "partial"])
        BY <1>3 DEF BackupAborts
  <2>2. local' \in [Files -> {"none", "partial", "good"}]
        BY <2>1, BackedType
  <2>3. QED
        BY <1>3, <2>2 DEF TypeOK, CurrentOK, BackupAborts, EndRun, runVars
<1>4. ASSUME NEW f \in Files, Upload(f) PROVE TypeOK' /\ CurrentOK'
      BY <1>4 DEF TypeOK, CurrentOK, Upload, runVars
<1>5. ASSUME NEW f \in Files, UploadFails(f) PROVE TypeOK' /\ CurrentOK'
  <2>1. PICK left \in {remote[f], local[f], "short"} :
            remote' = [remote EXCEPT ![f] = left]
        BY <1>5 DEF UploadFails
  <2>2. remote' \in [Files -> {"none", "short", "partial", "good"}]
        BY <2>1 DEF TypeOK
  <2>3. QED
        BY <1>5, <2>2, EndRunType DEF UploadFails
<1>6. CASE StatAgrees
      BY <1>6 DEF TypeOK, CurrentOK, StatAgrees, StillOutgoing, runVars
<1>7. CASE StatDiffers
      BY <1>7, EndRunType DEF TypeOK, CurrentOK, StatDiffers
<1>8. CASE RequestFails
      BY <1>8, EndRunType DEF TypeOK, CurrentOK, RequestFails
<1>9. CASE ListRemote
      BY <1>9 DEF TypeOK, CurrentOK, ListRemote, Doomed, runVars
<1>10. ASSUME NEW f \in Files, DeleteFile(f) PROVE TypeOK' /\ CurrentOK'
       BY <1>10 DEF TypeOK, CurrentOK, DeleteFile, runVars
<1>11. ASSUME NEW f \in Files, DeleteFails(f) PROVE TypeOK' /\ CurrentOK'
  <2>1. PICK left \in {"none", remote[f]} : remote' = [remote EXCEPT ![f] = left]
        BY <1>11 DEF DeleteFails
  <2>2. remote' \in [Files -> {"none", "short", "partial", "good"}]
        BY <2>1 DEF TypeOK
  <2>3. QED
        BY <1>11, <2>2, EndRunType DEF DeleteFails
<1>12. CASE RunDone
       BY <1>12, EndRunType DEF TypeOK, CurrentOK, RunDone
<1>13. CASE NextDay
       BY <1>13, RemoteAssumption DEF TypeOK, CurrentOK, NextDay, Days, runVars, Files
<1>14. CASE UNCHANGED vars
       BY <1>14 DEF TypeOK, CurrentOK, vars, runVars, Files, Days
<1>15. QED
       BY <1>1, <1>2, <1>3, <1>4, <1>5, <1>6, <1>7, <1>8, <1>9, <1>10, <1>11,
          <1>12, <1>13, <1>14 DEF Next, RunStep

\* Contents, dates and the lists of files to send and to delete keep their
\* types, whatever fails.
THEOREM TypeCorrect == Spec => []TypeOK
BY TypeInit, TypeStep, PTL DEF Spec

-----------------------------------------------------------------------------
(* What a run knows of the remote, phase by phase.                         *)

\* No archive is dated after the run that is the latest, nor that run after
\* today; a run under way has no result yet.
DatesOK ==
    /\ pc # "idle" => result = "running"
    /\ day <= today
    /\ \A f \in Files : local[f] # "none" \/ remote[f] # "none" => f[3] <= day

\* What the pattern admits and is not outgoing any more lies on the remote as
\* it does on disk; what is under way may have come out short.
SentOK ==
    /\ pc \in {"upload", "stat"} =>
           /\ outgoing \subseteq Outgoing(local, schedule)
           /\ \A f \in Outgoing(local, schedule) : f \in outgoing \/ remote[f] = local[f]
    /\ pc = "stat" => \A f \in current : remote[f] \in {local[f], "short"}

\* The dates of f's app and schedule on the remote that prune_remote leaves.
Staying(a, s) == {d \in Dates(remote, a, s) : <<a, s, d>> \notin doomed}

NewerStaying(f) == {d \in Staying(f[1], f[2]) : d > f[3]}

\* While prune_remote deletes, what is on disk is on the remote or has been
\* deleted, and what is deleted or will be, is superseded by what stays.
PruningOK ==
    pc = "prune" =>
        /\ \A f \in Files : f[2] = schedule /\ local[f] # "none" =>
               \/ remote[f] = local[f]
               \/ /\ remote[f] = "none" /\ f \notin doomed
                  /\ Cardinality(NewerStaying(f)) >= RemoteKeep[schedule]
        /\ \A f \in doomed :
               /\ f[2] = schedule
               /\ Cardinality(NewerStaying(f)) >= RemoteKeep[schedule]

RemoteInv == TypeOK /\ CurrentOK /\ DatesOK /\ SentOK /\ PruningOK

\* The archives of this run, if it made them all, are on disk while the
\* remote is brought up to date, and on the remote while it is pruned.
TodayOK ==
    /\ appsOK /\ pc \in {"upload", "stat", "prune"} =>
           \A a \in Apps : local[<<a, schedule, day>>] = "good"
    /\ pc = "prune" => \A a \in Apps : <<a, schedule, day>> \notin doomed
    /\ appsOK /\ pc = "prune" =>
           \A a \in Apps : remote[<<a, schedule, day>>] = "good"

\* What stays on the remote is no more than the retention asks for.
StayingOK ==
    pc = "prune" => \A a \in Apps : schedule \notin SpellsAs[a] =>
        Cardinality(Staying(a, schedule)) <= RemoteKeep[schedule]

-----------------------------------------------------------------------------
(* The invariant holds initially and through the end of a run.             *)

LEMMA InvInit == Init => RemoteInv /\ TodayOK /\ StayingOK
BY TypeInit, RemoteAssumption
   DEF Init, RemoteInv, DatesOK, SentOK, PruningOK, TodayOK, StayingOK

\* Nothing is outgoing, under way or doomed once a run has ended.
LEMMA IdleStep ==
    ASSUME pc' \in {"idle", "backup"}
    PROVE  SentOK' /\ PruningOK' /\ TodayOK' /\ StayingOK'
BY DEF SentOK, PruningOK, TodayOK, StayingOK

\* A step that leaves all but the calendar alone.
LEMMA FrameStep ==
    ASSUME RemoteInv, TodayOK, StayingOK,
           UNCHANGED <<pc, runVars, result, appsOK, local, remote, outgoing,
                       current, doomed>>
    PROVE  SentOK' /\ PruningOK' /\ TodayOK' /\ StayingOK'
BY DEF RemoteInv, SentOK, PruningOK, TodayOK, StayingOK, Staying, NewerStaying,
       Dates, Outgoing, runVars

\* The dates of what is written are those of the run or of what it reads.
LEMMA DatesStep == RemoteInv /\ [Next]_vars => DatesOK'
<1> SUFFICES ASSUME RemoteInv, [Next]_vars PROVE DatesOK'
    OBVIOUS
<1> USE DEF RemoteInv, DatesOK
<1>1. ASSUME NEW s \in Schedules, BeginRun(s) PROVE DatesOK'
  <2>1. day \in Int /\ today \in Int /\ \A f \in Files : f[3] \in Int
        BY DEF TypeOK, Days, Files
  <2>2. QED
        BY <1>1, <2>1 DEF BeginRun
<1>2. ASSUME pc = "backup", NEW met, local' = Backed(local, met),
             UNCHANGED <<runVars, remote, today>>,
             pc' # "idle" => result' = "running"
      PROVE  DatesOK'
  <2>1. ASSUME NEW f \in Files, local'[f] # "none" PROVE f[3] <= day
    <3>1. local[f] # "none" \/ f[3] = day
          BY <1>2, <2>1 DEF Backed
    <3>2. f[3] \in Int /\ day \in Int
          BY DEF TypeOK, Days, Files
    <3>3. QED
          BY <3>1, <3>2
  <2>2. QED
        BY <1>2, <2>1 DEF runVars
<1>3. CASE BackUpApps
      BY <1>2, <1>3 DEF BackUpApps
<1>4. CASE BackupAborts
      BY <1>2, <1>4 DEF BackupAborts, EndRun
<1>5. ASSUME NEW f \in Files, Upload(f) \/ UploadFails(f) PROVE DatesOK'
  <2>1. f[3] <= day
    <3>1. f \in Outgoing(local, schedule)
          BY <1>5 DEF SentOK, Upload, UploadFails
    <3>2. QED
          BY <3>1 DEF Outgoing
  <2>2. \A g \in Files : g # f => remote'[g] = remote[g]
        BY <1>5 DEF Upload, UploadFails, TypeOK
  <2>3. UNCHANGED <<day, today, local>> /\ (pc' # "idle" => result' = "running")
        BY <1>5 DEF Upload, UploadFails, EndRun, runVars
  <2>4. QED
        BY <2>1, <2>2, <2>3
<1>6. CASE StatAgrees
      BY <1>6 DEF StatAgrees, runVars
<1>7. CASE StatDiffers \/ RequestFails \/ RunDone
      BY <1>7 DEF StatDiffers, RequestFails, RunDone, EndRun, runVars
<1>8. CASE ListRemote
      BY <1>8 DEF ListRemote, runVars
<1>9. ASSUME NEW f \in Files, DeleteFile(f) \/ DeleteFails(f) PROVE DatesOK'
  <2>1. \A g \in Files : remote'[g] \in {"none", remote[g]}
        BY <1>9 DEF DeleteFile, DeleteFails, TypeOK
  <2>2. UNCHANGED <<day, today, local>> /\ (pc' # "idle" => result' = "running")
        BY <1>9 DEF DeleteFile, DeleteFails, EndRun, runVars
  <2>3. QED
        BY <2>1, <2>2
<1>10. CASE NextDay
  <2>1. day \in Int /\ today \in Int
        BY DEF TypeOK, Days
  <2>2. QED
        BY <1>10, <2>1 DEF NextDay, runVars
<1>11. CASE UNCHANGED vars
       BY <1>11 DEF vars, runVars
<1>12. QED
       BY <1>1, <1>3, <1>4, <1>5, <1>6, <1>7, <1>8, <1>9, <1>10, <1>11
          DEF Next, RunStep

-----------------------------------------------------------------------------
(* Sending: the list of what is outgoing shrinks by what is verified.      *)

LEMMA SentStep == RemoteInv /\ [Next]_vars => SentOK'
<1> SUFFICES ASSUME RemoteInv, [Next]_vars PROVE SentOK'
    OBVIOUS
<1> USE DEF RemoteInv
<1>1. CASE pc' \notin {"upload", "stat"}
      BY <1>1 DEF SentOK
<1>2. CASE UNCHANGED <<pc, schedule, local, remote, outgoing, current>>
      BY <1>2 DEF SentOK, Outgoing
<1>3. CASE BackUpApps
  <2>1. pc' = "upload" /\ outgoing' = Outgoing(local', schedule')
        BY <1>3 DEF BackUpApps, runVars
  <2>2. QED
        BY <2>1 DEF SentOK, Outgoing
<1>4. ASSUME NEW f \in Files, Upload(f) PROVE SentOK'
  <2>1. /\ pc = "upload" /\ f \in outgoing
        /\ remote' \in {[remote EXCEPT ![f] = local[f]], [remote EXCEPT ![f] = "short"]}
        /\ current' = {f} /\ pc' = "stat"
        /\ UNCHANGED <<schedule, local, outgoing>>
        BY <1>4 DEF Upload, runVars
  <2>2. Outgoing(local', schedule') = Outgoing(local, schedule)
        BY <2>1 DEF Outgoing
  <2>3. remote'[f] \in {local[f], "short"} /\ \A g \in Files : g # f => remote'[g] = remote[g]
        BY <2>1 DEF TypeOK
  <2>4. outgoing \subseteq Outgoing(local, schedule) /\ Outgoing(local, schedule) \subseteq Files
        BY <2>1 DEF SentOK, Outgoing
  <2>5. ASSUME NEW g \in Outgoing(local, schedule) PROVE g \in outgoing \/ remote'[g] = local[g]
        BY <2>1, <2>3, <2>4 DEF SentOK
  <2>6. QED
        BY <2>1, <2>2, <2>3, <2>4, <2>5 DEF SentOK
<1>5. CASE StatAgrees
  <2>1. /\ pc = "stat" /\ pc' = "upload"
        /\ \A f \in current : remote[f] # "short"
        /\ outgoing' = outgoing \ current
        /\ UNCHANGED <<schedule, local, remote>>
        BY <1>5 DEF StatAgrees, SizeVerified, StillOutgoing, runVars
  <2>2. Outgoing(local', schedule') = Outgoing(local, schedule)
        BY <2>1 DEF Outgoing
  <2>3. \A f \in current : remote[f] = local[f]
        BY <2>1 DEF SentOK
  <2>4. QED
        BY <2>1, <2>2, <2>3 DEF SentOK
<1>6. QED
  <2>1. ASSUME NEW s \in Schedules, BeginRun(s) PROVE SentOK'
        BY <1>1, <2>1 DEF BeginRun
  <2>2. CASE BackupAborts \/ StatDiffers \/ RequestFails \/ RunDone
        BY <1>1, <2>2 DEF BackupAborts, StatDiffers, RequestFails, RunDone, EndRun
  <2>3. ASSUME NEW f \in Files, UploadFails(f) \/ DeleteFile(f) \/ DeleteFails(f)
        PROVE  SentOK'
        BY <1>1, <2>3 DEF UploadFails, DeleteFile, DeleteFails, EndRun
  <2>4. CASE ListRemote
        BY <1>1, <2>4 DEF ListRemote
  <2>5. CASE NextDay \/ UNCHANGED vars
        BY <1>2, <2>5 DEF NextDay, vars, runVars
  <2>6. QED
        BY <1>3, <1>4, <1>5, <2>1, <2>2, <2>3, <2>4, <2>5 DEF Next, RunStep

-----------------------------------------------------------------------------
(* Pruning: what prune_remote decides once holds through its deletions.    *)

LEMMA DatesAreDays ==
    ASSUME NEW files, NEW a, NEW s
    PROVE  /\ MaxDay \in Nat
           /\ Dates(files, a, s) \in SUBSET (1 .. MaxDay)
           /\ IsFiniteSet(Dates(files, a, s))
<1>1. MaxDay \in Nat /\ Dates(files, a, s) \in SUBSET (1 .. MaxDay)
      BY RemoteAssumption DEF Dates, Days
<1>2. QED
      BY <1>1, DatesFinite

\* What stays of an app's archives is what select_prunable keeps.
LEMMA ListedStaying ==
    ASSUME ListRemote, NEW a \in Apps, schedule \notin SpellsAs[a],
           schedule \in Schedules
    PROVE  Staying(a, schedule)' =
               Dates(remote, a, schedule)
                   \ SelectPrunable(Dates(remote, a, schedule), RemoteKeep[schedule])
<1>1. doomed' = Doomed(schedule) /\ UNCHANGED <<remote, schedule>>
      BY DEF ListRemote, runVars
<1>2. ASSUME NEW d \in Days
      PROVE  <<a, schedule, d>> \in Doomed(schedule) <=>
                 d \in SelectPrunable(Dates(remote, a, schedule), RemoteKeep[schedule])
  <2>1. <<a, schedule, d>> \in Files
        BY DEF Files
  <2>2. QED
        BY <2>1 DEF Doomed
<1>3. QED
      BY <1>1, <1>2 DEF Staying, Dates

\* A deletion takes nothing from what stays.
LEMMA DeletedStaying ==
    ASSUME TypeOK, NEW f \in Files, DeleteFile(f), NEW a \in Apps, NEW s \in Schedules
    PROVE  Staying(a, s)' = Staying(a, s)
<1>1. f \in doomed /\ remote' = [remote EXCEPT ![f] = "none"] /\ doomed' = doomed \ {f}
      BY DEF DeleteFile
<1>2. ASSUME NEW d \in Days
      PROVE  (remote'[<<a, s, d>>] # "none" /\ <<a, s, d>> \notin doomed')
             <=> (remote[<<a, s, d>>] # "none" /\ <<a, s, d>> \notin doomed)
  <2>1. <<a, s, d>> \in Files
        BY DEF Files
  <2>2. QED
        BY <1>1, <2>1 DEF TypeOK
<1>3. QED
      BY <1>2 DEF Staying, Dates

LEMMA FileParts ==
    ASSUME NEW f \in Files
    PROVE  f[1] \in Apps /\ f[2] \in Schedules /\ f[3] \in Days /\ f = <<f[1], f[2], f[3]>>
BY DEF Files

LEMMA ListedPruning ==
    ASSUME RemoteInv, ListRemote
    PROVE  PruningOK'
<1> USE DEF RemoteInv
<1>1. /\ pc = "upload" /\ outgoing = {} /\ doomed' = Doomed(schedule)
      /\ UNCHANGED <<schedule, local, remote>>
      BY DEF ListRemote, runVars
<1>2. ASSUME NEW f \in Files, f[2] = schedule, local[f] # "none"
      PROVE  remote[f] = local[f]
  <2>1. f \in Outgoing(local, schedule)
        BY <1>2 DEF Outgoing, Included
  <2>2. QED
        BY <1>1, <2>1 DEF SentOK
<1>3. ASSUME NEW f \in Doomed(schedule)
      PROVE  /\ f[2] = schedule
             /\ Cardinality(NewerStaying(f)') >= RemoteKeep[schedule]
  <2> DEFINE dates == Dates(remote, f[1], schedule)
             keep == RemoteKeep[schedule]
  <2>1. /\ f \in Files /\ f[2] = schedule /\ schedule \notin SpellsAs[f[1]]
        /\ f[3] \in SelectPrunable(dates, keep)
        BY DEF Doomed
  <2>2. f[1] \in Apps /\ schedule \in Schedules /\ keep \in Int
        BY <2>1, FileParts, RemoteAssumption DEF TypeOK
  <2>3. Staying(f[1], schedule)' = dates \ SelectPrunable(dates, keep)
        BY <2>1, <2>2, ListedStaying
  <2>4. NewerStaying(f)' = {e \in dates \ SelectPrunable(dates, keep) : e > f[3]}
        BY <1>1, <2>1, <2>3 DEF NewerStaying
  <2>5. Cardinality({e \in dates \ SelectPrunable(dates, keep) : e > f[3]}) >= Count(keep)
    <3>1. MaxDay \in Nat /\ dates \in SUBSET (1 .. MaxDay)
          BY DatesAreDays
    <3> HIDE DEF dates, keep
    <3>2. QED
          BY <2>1, <2>2, <3>1, PrunableSuperseded
  <2>6. Cardinality({e \in dates \ SelectPrunable(dates, keep) : e > f[3]}) \in Nat
    <3>1. {e \in dates \ SelectPrunable(dates, keep) : e > f[3]} \in SUBSET (1 .. MaxDay)
          BY DatesAreDays
    <3>2. QED
          BY <3>1, DatesAreDays, DatesFinite
  <2> HIDE DEF keep, dates
  <2>7. Cardinality(NewerStaying(f)') >= keep
        BY <2>2, <2>4, <2>5, <2>6 DEF Count
  <2>8. QED
        BY <2>1, <2>7 DEF keep
<1>4. QED
      BY <1>1, <1>2, <1>3 DEF PruningOK

LEMMA DeletedPruning ==
    ASSUME RemoteInv, NEW f \in Files, DeleteFile(f)
    PROVE  PruningOK'
<1> USE DEF RemoteInv
<1>1. /\ pc = "prune" /\ f \in doomed
      /\ remote' = [remote EXCEPT ![f] = "none"] /\ doomed' = doomed \ {f}
      /\ UNCHANGED <<schedule, local>>
      BY DEF DeleteFile, runVars
<1>2. ASSUME NEW g \in Files PROVE NewerStaying(g)' = NewerStaying(g)
      BY DeletedStaying, FileParts DEF NewerStaying
<1>3. remote'[f] = "none" /\ \A g \in Files : g # f => remote'[g] = remote[g]
      BY <1>1 DEF TypeOK
<1>4. ASSUME NEW g \in Files, g[2] = schedule, local[g] # "none"
      PROVE  \/ remote'[g] = local[g]
             \/ /\ remote'[g] = "none" /\ g \notin doomed'
                /\ Cardinality(NewerStaying(g)') >= RemoteKeep[schedule]
  <2>1. CASE g = f
        BY <1>1, <1>2, <1>3, <2>1 DEF PruningOK
  <2>2. CASE g # f
        BY <1>1, <1>2, <1>3, <1>4, <2>2 DEF PruningOK
  <2>3. QED
        BY <2>1, <2>2
<1>5. ASSUME NEW g \in doomed'
      PROVE  g[2] = schedule /\ Cardinality(NewerStaying(g)') >= RemoteKeep[schedule]
      BY <1>1, <1>2 DEF PruningOK, TypeOK
<1>6. QED
      BY <1>1, <1>4, <1>5 DEF PruningOK

\* A step after which the run does not prune, or that changes no archive, no
\* schedule and not what is doomed.
Elsewhere ==
    \/ pc' # "prune"
    \/ UNCHANGED <<pc, runVars, appsOK, local, remote, doomed>>

\* Only the listing and the deletions bear on what prune_remote knows.
LEMMA PruneSteps ==
    ASSUME [Next]_vars
    PROVE  \/ Elsewhere
           \/ ListRemote
           \/ \E f \in Files : DeleteFile(f)
<1> USE DEF Elsewhere
<1>1. ASSUME NEW s \in Schedules, BeginRun(s) PROVE Elsewhere
      BY <1>1 DEF BeginRun
<1>2. CASE BackUpApps \/ BackupAborts \/ StatAgrees \/ StatDiffers \/ RequestFails \/ RunDone
      BY <1>2 DEF BackUpApps, BackupAborts, StatAgrees, StatDiffers, RequestFails,
                  RunDone, EndRun
<1>3. ASSUME NEW f \in Files, Upload(f) \/ UploadFails(f) \/ DeleteFails(f) PROVE Elsewhere
      BY <1>3 DEF Upload, UploadFails, DeleteFails, EndRun
<1>4. CASE NextDay \/ UNCHANGED vars
      BY <1>4 DEF NextDay, vars
<1>5. QED
      BY <1>1, <1>2, <1>3, <1>4 DEF Next, RunStep

LEMMA PruningStep == RemoteInv /\ [Next]_vars => PruningOK'
<1> SUFFICES ASSUME RemoteInv, [Next]_vars PROVE PruningOK'
    OBVIOUS
<1>1. CASE Elsewhere
      BY <1>1 DEF Elsewhere, RemoteInv, PruningOK, Staying, NewerStaying, Dates, runVars
<1>2. QED
      BY <1>1, PruneSteps, ListedPruning, DeletedPruning

LEMMA RemoteInvStep == RemoteInv /\ [Next]_vars => RemoteInv'
BY TypeStep, DatesStep, SentStep, PruningStep DEF RemoteInv

\* What has been uploaded and verified justifies every deletion.
LEMMA VerifiedNow == RemoteInv => VerifiedBeforePrune
<1> SUFFICES ASSUME RemoteInv, pc = "prune", NEW f \in Files,
                    f[2] = schedule, local[f] # "none", remote[f] # local[f]
             PROVE  remote[f] = "none" /\ Superseded(f)
    BY DEF VerifiedBeforePrune
<1>1. remote[f] = "none" /\ Cardinality(NewerStaying(f)) >= RemoteKeep[schedule]
      BY DEF RemoteInv, PruningOK
<1> DEFINE S == {d \in Dates(remote, f[1], f[2]) : d > f[3]}
<1>2. S \in SUBSET (1 .. MaxDay) /\ NewerStaying(f) \in SUBSET S
      BY DatesAreDays DEF NewerStaying, Staying
<1>3. /\ IsFiniteSet(S) /\ Cardinality(S) \in Nat
      /\ NewerStaying(f) \in SUBSET (1 .. MaxDay)
      /\ Cardinality(NewerStaying(f)) \in Nat
      BY <1>2, DatesAreDays, DatesFinite
<1>4. Cardinality(NewerStaying(f)) <= Cardinality(S)
      BY <1>2, <1>3, FS_Subset
<1>5. RemoteKeep[schedule] \in Int
      BY RemoteAssumption DEF RemoteInv, TypeOK
<1>6. Cardinality(S) >= RemoteKeep[schedule]
      BY <1>1, <1>3, <1>4, <1>5
<1>7. QED
      BY <1>1, <1>6 DEF Superseded

\* README.md:48: when prune_remote deletes, every archive of the schedule that
\* is on disk lies complete on the remote or is superseded there, whatever
\* earlier runs left unsent, and whatever a deletion that failed took away.
THEOREM RemoteVerifiedFirst == Spec => []VerifiedBeforePrune
<1>1. Init => RemoteInv
      BY InvInit
<1>2. QED
      BY <1>1, RemoteInvStep, VerifiedNow, PTL DEF Spec

-----------------------------------------------------------------------------
(* What a run that reports success has left on the remote.                 *)

\* container.py:410: the dashboard's form accepts counts of at least one.
KeepsSome == \A s \in Schedules : RemoteKeep[s] >= 1

\* Counts of zero, from an edited config.yaml, are sensible as well.
KeepsNatural == \A s \in Schedules : RemoteKeep[s] >= 0

LEMMA ListedToday ==
    ASSUME RemoteInv, TodayOK, KeepsSome, ListRemote
    PROVE  TodayOK'
<1> USE DEF RemoteInv
<1>1. /\ pc = "upload" /\ pc' = "prune" /\ outgoing = {} /\ doomed' = Doomed(schedule)
      /\ UNCHANGED <<schedule, day, local, remote, appsOK>>
      BY DEF ListRemote, runVars
<1>2. schedule \in Schedules /\ day \in Days
      BY DEF TypeOK
<1>3. ASSUME NEW a \in Apps PROVE <<a, schedule, day>> \notin Doomed(schedule)
  <2> DEFINE dates == Dates(remote, a, schedule)
  <2>1. \A d \in dates : d <= day
    <3>1. ASSUME NEW d \in dates PROVE d <= day
      <4>1. d \in Days /\ remote[<<a, schedule, d>>] # "none"
            BY DEF Dates
      <4>2. <<a, schedule, d>> \in Files
            BY <1>2, <4>1 DEF Files
      <4>3. QED
            BY <4>1, <4>2 DEF DatesOK
    <3>2. QED
          BY <3>1
  <2>2. MaxDay \in Nat /\ dates \in SUBSET (1 .. MaxDay)
        BY DatesAreDays
  <2>3. RemoteKeep[schedule] \in Int /\ RemoteKeep[schedule] >= 1
        BY <1>2, RemoteAssumption DEF KeepsSome
  <2>4. day \notin SelectPrunable(dates, RemoteKeep[schedule])
    <3> HIDE DEF dates
    <3>1. QED
          BY <2>1, <2>2, <2>3, NewestKept
  <2>5. QED
        BY <2>4 DEF Doomed
<1>4. ASSUME appsOK, NEW a \in Apps
      PROVE  local[<<a, schedule, day>>] = "good" /\ remote[<<a, schedule, day>>] = "good"
  <2>1. local[<<a, schedule, day>>] = "good"
        BY <1>1, <1>4 DEF TodayOK
  <2>2. <<a, schedule, day>> \in Outgoing(local, schedule)
        BY <1>2, <2>1 DEF Outgoing, Included, Files
  <2>3. QED
        BY <1>1, <2>1, <2>2 DEF SentOK
<1>5. QED
      BY <1>1, <1>3, <1>4 DEF TodayOK

LEMMA TodayStep == RemoteInv /\ TodayOK /\ KeepsSome /\ [Next]_vars => TodayOK'
<1> SUFFICES ASSUME RemoteInv, TodayOK, KeepsSome, [Next]_vars PROVE TodayOK'
    OBVIOUS
<1> USE DEF RemoteInv
<1>1. CASE pc' \notin {"upload", "stat", "prune"}
      BY <1>1 DEF TodayOK
<1>2. CASE pc # "prune" /\ pc' \in {"upload", "stat"} /\ UNCHANGED <<schedule, day, appsOK, local>>
           /\ pc \in {"upload", "stat"}
      BY <1>2 DEF TodayOK
<1>3. CASE UNCHANGED <<pc, schedule, day, appsOK, local, remote, doomed>>
      BY <1>3 DEF TodayOK
<1>4. CASE BackUpApps
  <2>1. PICK met \in [Apps -> {"good", "rejected", "skipped"}] :
            /\ local' = Backed(local, met)
            /\ appsOK' = \A a \in Apps : met[a] = "good"
        BY <1>4 DEF BackUpApps
  <2>2. pc' = "upload" /\ UNCHANGED <<schedule, day>>
        BY <1>4 DEF BackUpApps, runVars
  <2>3. ASSUME appsOK', NEW a \in Apps PROVE local'[<<a, schedule, day>>] = "good"
    <3>1. met[a] = "good"
          BY <2>1, <2>3
    <3>2. <<a, schedule, day>> \in Files
          BY DEF TypeOK, Files
    <3>3. QED
          BY <2>1, <3>1, <3>2 DEF Backed
  <2>4. QED
        BY <2>2, <2>3 DEF TodayOK
<1>5. ASSUME NEW f \in Files, DeleteFile(f) PROVE TodayOK'
  <2>1. /\ pc = "prune" /\ pc' = "prune" /\ f \in doomed
        /\ remote' = [remote EXCEPT ![f] = "none"] /\ doomed' = doomed \ {f}
        /\ UNCHANGED <<schedule, day, appsOK, local>>
        BY <1>5 DEF DeleteFile, runVars
  <2>2. ASSUME NEW a \in Apps
        PROVE  <<a, schedule, day>> \in Files /\ <<a, schedule, day>> # f
        BY <2>1 DEF TodayOK, TypeOK, Files
  <2>3. QED
        BY <2>1, <2>2 DEF TodayOK, TypeOK
<1>6. QED
  <2>1. ASSUME NEW s \in Schedules, BeginRun(s) PROVE TodayOK'
        BY <1>1, <2>1 DEF BeginRun
  <2>2. CASE BackupAborts \/ StatDiffers \/ RequestFails \/ RunDone
        BY <1>1, <2>2 DEF BackupAborts, StatDiffers, RequestFails, RunDone, EndRun
  <2>3. ASSUME NEW f \in Files, UploadFails(f) \/ DeleteFails(f) PROVE TodayOK'
        BY <1>1, <2>3 DEF UploadFails, DeleteFails, EndRun
  <2>4. ASSUME NEW f \in Files, Upload(f) PROVE TodayOK'
        BY <1>2, <2>4 DEF Upload, runVars
  <2>5. CASE StatAgrees
        BY <1>2, <2>5 DEF StatAgrees, runVars
  <2>6. CASE NextDay \/ UNCHANGED vars
        BY <1>3, <2>6 DEF NextDay, vars, runVars
  <2>7. QED
        BY <1>4, <1>5, <2>1, <2>2, <2>3, <2>4, <2>5, <2>6, ListedToday DEF Next, RunStep

LEMMA StayingStep == RemoteInv /\ StayingOK /\ KeepsNatural /\ [Next]_vars => StayingOK'
<1> SUFFICES ASSUME RemoteInv, StayingOK, KeepsNatural, [Next]_vars PROVE StayingOK'
    OBVIOUS
<1> USE DEF RemoteInv
<1>1. CASE Elsewhere
      BY <1>1 DEF Elsewhere, StayingOK, Staying, Dates, runVars
<1>2. CASE ListRemote
  <2>1. schedule \in Schedules /\ UNCHANGED schedule
        BY <1>2 DEF ListRemote, runVars, TypeOK
  <2>2. RemoteKeep[schedule] \in Int /\ RemoteKeep[schedule] >= 0
        BY <2>1, RemoteAssumption DEF KeepsNatural
  <2>3. Count(RemoteKeep[schedule]) = RemoteKeep[schedule]
        BY <2>2 DEF Count
  <2>4. ASSUME NEW a \in Apps, schedule \notin SpellsAs[a]
        PROVE  Cardinality(Staying(a, schedule)') <= RemoteKeep[schedule]
    <3> DEFINE dates == Dates(remote, a, schedule)
    <3>1. Staying(a, schedule)' = dates \ SelectPrunable(dates, RemoteKeep[schedule])
          BY <1>2, <2>1, <2>4, ListedStaying
    <3>2. MaxDay \in Nat /\ dates \in SUBSET (1 .. MaxDay)
          BY DatesAreDays
    <3> HIDE DEF dates
    <3>3. Cardinality(dates \ SelectPrunable(dates, RemoteKeep[schedule]))
              <= Count(RemoteKeep[schedule])
          BY <2>2, <3>2, KeptAtMost
    <3>4. QED
          BY <2>3, <3>1, <3>3
  <2>5. QED
        BY <2>1, <2>4 DEF StayingOK
<1>3. ASSUME NEW f \in Files, DeleteFile(f) PROVE StayingOK'
  <2>1. pc = "prune" /\ UNCHANGED schedule /\ schedule \in Schedules
        BY <1>3 DEF DeleteFile, runVars, TypeOK
  <2>2. \A a \in Apps : Staying(a, schedule)' = Staying(a, schedule)
        BY <1>3, <2>1, DeletedStaying
  <2>3. QED
        BY <2>1, <2>2 DEF StayingOK
<1>4. QED
      BY <1>1, <1>2, <1>3, PruneSteps

\* A result stands until the next run begins; success is reported by RunDone
\* alone.
LEMMA SuccessStep ==
    ASSUME RemoteInv, [Next]_vars, result' = "success"
    PROVE  \/ result = "success" /\ UNCHANGED <<runVars, remote>>
           \/ RunDone /\ appsOK
<1> USE DEF RemoteInv, DatesOK
<1>1. ASSUME NEW s \in Schedules, BeginRun(s) PROVE FALSE
      BY <1>1 DEF BeginRun
<1>2. CASE BackUpApps \/ BackupAborts \/ StatAgrees \/ StatDiffers \/ RequestFails \/ ListRemote
      BY <1>2 DEF BackUpApps, BackupAborts, StatAgrees, StatDiffers, RequestFails,
                  ListRemote, EndRun
<1>3. ASSUME NEW f \in Files,
             Upload(f) \/ UploadFails(f) \/ DeleteFile(f) \/ DeleteFails(f)
      PROVE  FALSE
      BY <1>3 DEF Upload, UploadFails, DeleteFile, DeleteFails, EndRun
<1>4. CASE RunDone
      BY <1>4 DEF RunDone, EndRun
<1>5. CASE NextDay \/ UNCHANGED vars
      BY <1>5 DEF NextDay, vars
<1>6. QED
      BY <1>1, <1>2, <1>3, <1>4, <1>5 DEF Next, RunStep

\* runner.py:219-242: a run that reports success has left a good copy of every
\* app's archive of the day on the remote; its own pruning did not take it.
THEOREM RemoteSuccess ==
    ASSUME KeepsSome
    PROVE  Spec => []SuccessMeansOffSite
<1>1. Init => RemoteInv /\ TodayOK /\ SuccessMeansOffSite
  <2>1. Init => SuccessMeansOffSite
        BY DEF Init, SuccessMeansOffSite
  <2>2. QED
        BY <2>1, InvInit
<1>2. RemoteInv /\ TodayOK /\ SuccessMeansOffSite /\ [Next]_vars => SuccessMeansOffSite'
  <2> SUFFICES ASSUME RemoteInv, TodayOK, SuccessMeansOffSite, [Next]_vars,
                      result' = "success"
               PROVE  \A a \in Apps : remote'[<<a, schedule', day'>>] = "good"
      BY DEF SuccessMeansOffSite
  <2>1. CASE result = "success" /\ UNCHANGED <<runVars, remote>>
        BY <2>1 DEF SuccessMeansOffSite, runVars
  <2>2. CASE RunDone /\ appsOK
        BY <2>2 DEF RunDone, TodayOK, runVars
  <2>3. QED
        BY <2>1, <2>2, SuccessStep
<1>3. RemoteInv /\ TodayOK /\ [Next]_vars => TodayOK'
      BY TodayStep
<1>4. QED
      BY <1>1, <1>2, <1>3, RemoteInvStep, PTL DEF Spec

\* README.md:46: after a run that reports success the remote keeps no more
\* archives of an app than the retention of the schedule asks for, unless the
\* app's name spells the schedule.
THEOREM RemoteRetention ==
    ASSUME KeepsNatural
    PROVE  Spec => []RemoteRetentionKept
<1>1. Init => RemoteInv /\ StayingOK /\ RemoteRetentionKept
  <2>1. Init => RemoteRetentionKept
        BY DEF Init, RemoteRetentionKept
  <2>2. QED
        BY <2>1, InvInit
<1>2. RemoteInv /\ StayingOK /\ RemoteRetentionKept /\ [Next]_vars => RemoteRetentionKept'
  <2> SUFFICES ASSUME RemoteInv, StayingOK, RemoteRetentionKept, [Next]_vars,
                      result' = "success"
               PROVE  \A a \in Apps : schedule' \notin SpellsAs[a] =>
                          Cardinality(Dates(remote', a, schedule'))
                              <= RemoteKeep[schedule']
      BY DEF RemoteRetentionKept
  <2>1. CASE result = "success" /\ UNCHANGED <<runVars, remote>>
        BY <2>1 DEF RemoteRetentionKept, runVars
  <2>2. CASE RunDone
    <3>1. pc = "prune" /\ doomed = {} /\ UNCHANGED <<schedule, remote>>
          BY <2>2 DEF RunDone, runVars
    <3>2. \A a \in Apps : Staying(a, schedule) = Dates(remote, a, schedule)
          BY <3>1 DEF Staying
    <3>3. QED
          BY <3>1, <3>2 DEF StayingOK
  <2>3. QED
        BY <2>1, <2>2, SuccessStep
<1>3. RemoteInv /\ StayingOK /\ [Next]_vars => StayingOK'
      BY StayingStep
<1>4. QED
      BY <1>1, <1>2, <1>3, RemoteInvStep, PTL DEF Spec

-----------------------------------------------------------------------------
(* A sync cannot go on for ever.                                           *)

\* Apps, schedules and days are finitely many.
FiniteHost == IsFiniteSet(Files)

\* At most so many steps are left of the run: every file may be listed, sent
\* and verified, and deleted.
StepsLeft ==
    CASE pc = "backup" -> 3 * Cardinality(Files) + 3
      [] pc = "upload" -> Cardinality(Files) + 2 * Cardinality(outgoing) + 2
      [] pc = "stat"   -> Cardinality(Files) + 2 * Cardinality(outgoing) + 1
      [] pc = "prune"  -> Cardinality(doomed) + 1
      [] OTHER         -> 0

\* The file to verify is one of those to send.
UnderWayOK == pc = "stat" => \E f \in outgoing : current = {f}

LEMMA UnderWayStep == TypeOK /\ UnderWayOK /\ [Next]_vars => UnderWayOK'
BY DEF TypeOK, UnderWayOK, vars, runVars, Next, RunStep, BeginRun, BackUpApps,
       BackupAborts, Upload, UploadFails, StatAgrees, StatDiffers, RequestFails,
       ListRemote, DeleteFile, DeleteFails, RunDone, NextDay, EndRun

LEMMA FilesCounted ==
    ASSUME FiniteHost, NEW S \in SUBSET Files
    PROVE  /\ IsFiniteSet(S)
           /\ Cardinality(S) \in Nat /\ Cardinality(Files) \in Nat
           /\ Cardinality(S) <= Cardinality(Files)
BY FS_Subset, FS_CardinalityType DEF FiniteHost

LEMMA OneFileLess ==
    ASSUME FiniteHost, NEW S \in SUBSET Files, NEW f \in S
    PROVE  Cardinality(S \ {f}) = Cardinality(S) - 1
BY FilesCounted, FS_RemoveElement

LEMMA StepsTyped == FiniteHost /\ TypeOK => StepsLeft \in Nat
<1> SUFFICES ASSUME FiniteHost, TypeOK PROVE StepsLeft \in Nat
    OBVIOUS
<1>1. /\ Cardinality(Files) \in Nat
      /\ Cardinality(outgoing) \in Nat
      /\ Cardinality(doomed) \in Nat
      BY FilesCounted DEF TypeOK
<1>2. QED
      BY <1>1 DEF StepsLeft, TypeOK

LEMMA SyncStepAdvances ==
    ASSUME FiniteHost, TypeOK, TypeOK', UnderWayOK, Next,
           pc # "idle", today' = today
    PROVE  StepsLeft' < StepsLeft
<1> USE DEF StepsLeft
<1>1. /\ outgoing \in SUBSET Files /\ outgoing' \in SUBSET Files
      /\ doomed \in SUBSET Files /\ doomed' \in SUBSET Files
      BY DEF TypeOK
<1>2. /\ Cardinality(Files) \in Nat
      /\ Cardinality(outgoing) \in Nat /\ Cardinality(doomed) \in Nat
      /\ Cardinality(outgoing') \in Nat /\ Cardinality(doomed') \in Nat
      /\ Cardinality(outgoing') <= Cardinality(Files)
      /\ Cardinality(doomed') <= Cardinality(Files)
      BY <1>1, FilesCounted
<1>3. CASE pc' = "idle"
      BY <1>2, <1>3 DEF TypeOK
<1>4. CASE BackUpApps
      BY <1>2, <1>4 DEF BackUpApps
<1>5. ASSUME NEW f \in Files, Upload(f)
      PROVE  StepsLeft' < StepsLeft
      BY <1>2, <1>5 DEF Upload
<1>6. CASE StatAgrees
  <2>1. PICK f \in outgoing : outgoing' = outgoing \ {f}
        BY <1>6 DEF StatAgrees, UnderWayOK, StillOutgoing
  <2>2. Cardinality(outgoing') = Cardinality(outgoing) - 1
        BY <1>1, <2>1, OneFileLess
  <2>3. QED
        BY <1>2, <1>6, <2>2 DEF StatAgrees
<1>7. CASE ListRemote
      BY <1>2, <1>7 DEF ListRemote
<1>8. ASSUME NEW f \in Files, DeleteFile(f)
      PROVE  StepsLeft' < StepsLeft
  <2>1. f \in doomed /\ doomed' = doomed \ {f}
        BY <1>8 DEF DeleteFile
  <2>2. Cardinality(doomed') = Cardinality(doomed) - 1
        BY <1>1, <2>1, OneFileLess
  <2>3. QED
        BY <1>2, <1>8, <2>2 DEF DeleteFile
<1>9. CASE BackupAborts \/ StatDiffers \/ RequestFails \/ RunDone
      BY <1>3, <1>9 DEF BackupAborts, StatDiffers, RequestFails, RunDone, EndRun
<1>10. ASSUME NEW f \in Files, UploadFails(f) \/ DeleteFails(f)
       PROVE  StepsLeft' < StepsLeft
       BY <1>3, <1>10 DEF UploadFails, DeleteFails, EndRun
<1>11. CASE NextDay
       BY <1>11 DEF NextDay, TypeOK, Days
<1>12. QED
       BY <1>4, <1>5, <1>6, <1>7, <1>8, <1>9, <1>10, <1>11
       DEF Next, RunStep, BeginRun

\* runner.py:387-446: a sync takes a bounded number of steps: each request,
\* answered or not, brings the end nearer by a measure that is a natural
\* number; nothing is sent again or listed again within a run.  What SyncEnds
\* adds is that each request is answered or given up.  For finitely many files.
THEOREM SyncAdvances ==
    ASSUME FiniteHost
    PROVE  Spec => /\ [](StepsLeft \in Nat)
                   /\ [][pc # "idle" /\ today' = today
                             => StepsLeft' < StepsLeft]_vars
<1>1. TypeOK => StepsLeft \in Nat
      BY StepsTyped
<1>2. TypeOK /\ TypeOK' /\ UnderWayOK /\ [Next]_vars =>
          [pc # "idle" /\ today' = today => StepsLeft' < StepsLeft]_vars
      BY SyncStepAdvances
<1>3. Init => UnderWayOK
      BY DEF Init, UnderWayOK
<1>4. QED
      BY TypeInit, TypeStep, UnderWayStep, <1>1, <1>2, <1>3, PTL DEF Spec
=============================================================================
