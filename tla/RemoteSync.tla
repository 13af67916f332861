----------------------------- MODULE RemoteSync -----------------------------
(***************************************************************************)
(* The copies of the archives on the rclone remote: sync_to_remotes and    *)
(* prune_remote of backup/runner.py over RcloneRCClient of                 *)
(* backup/rclone.py, for the one remote of the managed configuration.      *)
(* How the archives come about is BackupRunner's business: here all the    *)
(* apps of a run are backed up in one step.                                *)
(*                                                                         *)
(* A file is an app, a schedule and a date, with the same path on disk and *)
(* under <remote>/<host>.  Its content is none, good, or                   *)
(*   partial  the archive is incomplete (and its copy of the same size)    *)
(*   short    on the remote only: smaller than the local file              *)
(***************************************************************************)
EXTENDS Retention

CONSTANTS
    Apps, Schedules,
    SpellsAs,       \* [Apps -> SUBSET Schedules]: the schedules s for which
                    \* "-s-" occurs in "<app>-", as in my-weekly-notes
    LocalKeep,      \* [Schedules -> Int]: backup.schedules
    RemoteKeep,     \* [Schedules -> Int]: the schedules of the remote
    MaxDay,         \* bound: runs take place on days 1 .. MaxDay
    Faults          \* leftover: an archive may be left incomplete on disk;
                    \* short: an upload may leave a short object behind

ASSUME RemoteAssumption ==
    /\ SpellsAs \in [Apps -> SUBSET Schedules]
    /\ LocalKeep \in [Schedules -> Int] /\ RemoteKeep \in [Schedules -> Int]
    /\ MaxDay \in Nat \ {0}
    /\ Faults \subseteq {"leftover", "short"}

Days  == 1 .. MaxDay
Files == Apps \X Schedules \X Days

VARIABLES
    pc,             \* idle, backup, upload, stat or prune
    schedule, day,  \* of the run
    result,         \* none, running, success or failed
    appsOK,         \* no app of the run has failed
    local,          \* [Files -> content on the local disk]
    remote,         \* [Files -> content on the remote]
    outgoing,       \* sync_dir: the files not yet uploaded and verified
    current,        \* _upload_file: the file under way, as a set
    doomed,         \* prune_remote: the files still to delete
    today

runVars == <<schedule, day>>
vars == <<pc, runVars, result, appsOK, local, remote, outgoing, current,
          doomed, today>>

TypeOK ==
    /\ pc \in {"idle", "backup", "upload", "stat", "prune"}
    /\ schedule \in Schedules /\ day \in Days /\ today \in Days
    /\ result \in {"none", "running", "success", "failed"}
    /\ appsOK \in BOOLEAN
    /\ local \in [Files -> {"none", "partial", "good"}]
    /\ remote \in [Files -> {"none", "short", "partial", "good"}]
    /\ outgoing \subseteq Files /\ current \subseteq outgoing
    /\ doomed \subseteq Files

Init ==
    /\ pc = "idle" /\ result = "none" /\ appsOK = TRUE
    /\ schedule \in Schedules /\ day = 1 /\ today = 1
    /\ local = [f \in Files |-> "none"]
    /\ remote = [f \in Files |-> "none"]
    /\ outgoing = {} /\ current = {} /\ doomed = {}

-----------------------------------------------------------------------------
(* What the code computes.                                                 *)

\* The include pattern "*-<schedule>-*.tar.gz" of sync_dir.
Included(f, s) == f[2] = s \/ s \in SpellsAs[f[1]]

\* For mutation: only the archives of this run are sent.
OutgoingToday(disk, s) ==
    {f \in Files : disk[f] # "none" /\ Included(f, s) /\ f[3] = today}

\* Every archive on disk that the pattern admits is uploaded, each time.
Outgoing(disk, s) == {f \in Files : disk[f] # "none" /\ Included(f, s)}

Dates(files, a, s) == {d \in Days : files[<<a, s, d>>] # "none"}

\* For mutation: the retention is applied to the listing of the local disk.
DoomedLocally(s) ==
    {f \in Files : f[2] = s /\ s \notin SpellsAs[f[1]]
                   /\ f[3] \in SelectPrunable(Dates(local, f[1], s), RemoteKeep[s])}

\* prune_remote takes the app from the file name up to the first "-<s>-":
\* where that comes too early, it prunes nothing.
Doomed(s) ==
    {f \in Files : f[2] = s /\ s \notin SpellsAs[f[1]]
                   /\ f[3] \in SelectPrunable(Dates(remote, f[1], s), RemoteKeep[s])}

\* For mutation: the answer to the upload is taken for its verification.
TrustUpload(content) == TRUE

\* The size on the remote is that of the local file.
SizeVerified(content) == content # "short"

\* The local disk after each app of the run met its outcome: a new archive,
\* which prunes older ones, a rejected one, a leftover, or no attempt.
Backed(disk, met) ==
    [f \in Files |->
        LET a == f[1]
            dates == Dates(disk, a, schedule) \cup {day}
        IN  IF f[2] # schedule \/ met[a] = "skipped" THEN disk[f]
            ELSE IF f[3] = day
                 THEN IF met[a] = "rejected" THEN "none" ELSE met[a]
            ELSE IF met[a] = "good" /\ f[3] \in SelectPrunable(dates, LocalKeep[schedule])
                 THEN "none"
            ELSE disk[f]]

EndRun(status) ==
    /\ pc' = "idle" /\ result' = status
    /\ appsOK' = TRUE /\ outgoing' = {} /\ current' = {} /\ doomed' = {}

-----------------------------------------------------------------------------
(* run_backup up to sync_to_remotes.                                       *)

BeginRun(s) ==
    /\ pc = "idle"
    /\ pc' = "backup" /\ result' = "running"
    /\ schedule' = s /\ day' = today
    /\ UNCHANGED <<appsOK, local, remote, outgoing, current, doomed, today>>

\* Failed apps do not keep the others, nor what is on disk, from the remote.
BackUpApps ==
    /\ pc = "backup"
    /\ \E met \in [Apps -> {"good", "rejected", "skipped"}] :
        /\ local' = Backed(local, met)
        /\ appsOK' = \A a \in Apps : met[a] = "good"
    /\ outgoing' = Outgoing(local', schedule)
    /\ pc' = "upload"
    /\ UNCHANGED <<runVars, result, remote, current, doomed, today>>

\* An OSError or a kill while one app is archived ends the run; the apps
\* after it are skipped.
BackupAborts ==
    /\ pc = "backup"
    /\ "leftover" \in Faults
    /\ \E broken \in Apps, met \in [Apps -> {"good", "rejected", "skipped"}] :
        local' = Backed(local, [met EXCEPT ![broken] = "partial"])
    /\ EndRun("failed")
    /\ UNCHANGED <<runVars, remote, today>>

-----------------------------------------------------------------------------
(* sync_dir and _upload_file.  Files are sent one by one; their order does *)
(* not matter here.                                                        *)

Upload(f) ==
    /\ pc = "upload" /\ f \in outgoing
    /\ \/ remote' = [remote EXCEPT ![f] = local[f]]
       \/ "short" \in Faults /\ remote' = [remote EXCEPT ![f] = "short"]
    /\ current' = {f} /\ pc' = "stat"
    /\ UNCHANGED <<runVars, result, appsOK, local, outgoing, doomed, today>>

\* The connection breaks or the server refuses: the remote has the object it
\* had, the whole new one, or a short one.
UploadFails(f) ==
    /\ pc = "upload" /\ f \in outgoing
    /\ \E left \in {remote[f], local[f]} \cup
                   (IF "short" \in Faults THEN {"short"} ELSE {}) :
        remote' = [remote EXCEPT ![f] = left]
    /\ EndRun("failed")
    /\ UNCHANGED <<runVars, local, today>>

\* For mutation: the verified file is added to the list once more.
SentStillOutgoing(sent) == outgoing \cup {<<f[1], f[2], f[3] + 1>> : f \in sent}

\* For mutation: the file is not taken off the list.
KeepOutgoing(sent) == outgoing

StillOutgoing(sent) == outgoing \ sent

StatAgrees ==
    /\ pc = "stat"
    /\ \A f \in current : SizeVerified(remote[f])
    /\ outgoing' = StillOutgoing(current)
    /\ current' = {} /\ pc' = "upload"
    /\ UNCHANGED <<runVars, result, appsOK, local, remote, doomed, today>>

StatDiffers ==
    /\ pc = "stat"
    /\ \E f \in current : ~SizeVerified(remote[f])
    /\ EndRun("failed")
    /\ UNCHANGED <<runVars, local, remote, today>>

\* A request of _request fails: the stat, or the listing.
RequestFails ==
    /\ \/ pc = "stat"
       \/ pc = "upload" /\ outgoing = {}
    /\ EndRun("failed")
    /\ UNCHANGED <<runVars, local, remote, today>>

-----------------------------------------------------------------------------
(* prune_remote, and the end of run_backup.                                *)

ListRemote ==
    /\ pc = "upload" /\ outgoing = {}
    /\ doomed' = Doomed(schedule)
    /\ pc' = "prune"
    /\ UNCHANGED <<runVars, result, appsOK, local, remote, outgoing, current,
                   today>>

DeleteFile(f) ==
    /\ pc = "prune" /\ f \in doomed
    /\ remote' = [remote EXCEPT ![f] = "none"]
    /\ doomed' = doomed \ {f}
    /\ UNCHANGED <<pc, runVars, result, appsOK, local, outgoing, current, today>>

\* The file may be gone although the answer was lost.
DeleteFails(f) ==
    /\ pc = "prune" /\ f \in doomed
    /\ \E left \in {"none", remote[f]} : remote' = [remote EXCEPT ![f] = left]
    /\ EndRun("failed")
    /\ UNCHANGED <<runVars, local, today>>

\* BackupRunError is raised here if an app had failed.
RunDone ==
    /\ pc = "prune" /\ doomed = {}
    /\ EndRun(IF appsOK THEN "success" ELSE "failed")
    /\ UNCHANGED <<runVars, local, remote, today>>

NextDay ==
    /\ today < MaxDay
    /\ today' = today + 1
    /\ UNCHANGED <<pc, runVars, result, appsOK, local, remote, outgoing,
                   current, doomed>>

RunStep ==
    \/ BackUpApps \/ BackupAborts
    \/ \E f \in Files : Upload(f) \/ UploadFails(f)
    \/ StatAgrees \/ StatDiffers \/ RequestFails \/ ListRemote
    \/ \E f \in Files : DeleteFile(f) \/ DeleteFails(f)
    \/ RunDone

Next == (\E s \in Schedules : BeginRun(s)) \/ RunStep \/ NextDay

Spec == Init /\ [][Next]_vars

\* Each request is answered or given up (timeouts of 60 and 3600 seconds);
\* that the backup of the apps ends is a matter for BackupRunner.
FairSpec == Spec /\ WF_vars(RunStep)

-----------------------------------------------------------------------------
(* Safety.                                                                 *)

\* As many newer objects of the same app and schedule lie on the remote as
\* its retention asks for.
Superseded(f) ==
    Cardinality({d \in Dates(remote, f[1], f[2]) : d > f[3]}) >= RemoteKeep[f[2]]

\* README.md:48: nothing is pruned before every archive of the schedule that
\* is on disk, those of earlier failed syncs included, lies complete on the
\* remote; only what the retention lets go may be gone again.
VerifiedBeforePrune ==
    pc = "prune" => \A f \in Files :
        f[2] = schedule /\ local[f] # "none" =>
            \/ remote[f] = local[f]
            \/ remote[f] = "none" /\ Superseded(f)

\* runner.py:219-242: a run that reports success leaves a good copy of each
\* app's archive on the remote.
SuccessMeansOffSite ==
    result = "success" => \A a \in Apps : remote[<<a, schedule, day>>] = "good"

\* README.md:46: after a run that reports success the remote keeps no more
\* archives of the schedule than its retention asks for, except of apps whose
\* names spell the schedule.
RemoteRetentionKept ==
    result = "success" => \A a \in Apps : schedule \notin SpellsAs[a] =>
        Cardinality(Dates(remote, a, schedule)) <= RemoteKeep[schedule]

(* Action properties.                                                      *)

\* README.md:47-48: a good copy on the remote goes away only while the local
\* disk has it as well, or when as many newer good copies remain on the
\* remote as its retention asks for.
GoodCopiesKept ==
    [][\A f \in Files : remote[f] = "good" /\ remote'[f] # "good" =>
         \/ local[f] = "good"
         \/ Cardinality({d \in Days : d > f[3] /\ remote'[<<f[1], f[2], d>>] = "good"})
              >= RemoteKeep[f[2]]]_vars

(* Liveness.                                                               *)

\* runner.py:387-446: a run that has got as far as the remote comes to its
\* end, whatever fails on the way.
SyncEnds == pc # "idle" ~> pc = "idle"
=============================================================================
