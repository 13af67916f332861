------------------------------ MODULE Restore ------------------------------
(***************************************************************************)
(* restore_apps and restore_backup of backup/restore.py: a batch of apps   *)
(* is restored one by one, each from its newest archive, from local disk   *)
(* or downloaded from the remote.                                          *)
(*                                                                         *)
(* A reference is an <<app, store>> pair with three live directories.      *)
(* What a directory holds is the archive it was restored from, or          *)
(*   Live     what the app had written before                              *)
(*   Absent   there is no such directory                                   *)
(*   Damaged  a removal or a move broke off                                *)
(***************************************************************************)
EXTENDS AppSettings, Naturals, Sequences, FiniteSets

CONSTANTS
    Refs,           \* the <<app, store>> pairs of the host
    NoRef,
    Live, Absent, Damaged,
    StoreRank,      \* [stores -> Nat]: the order of store names
    Archives,       \* backups found: [app, store, date, schedule] records
    ScheduleRank,   \* [schedules -> Nat]: the order of schedule names
    Holds,          \* [Archives -> SUBSET DirNames]: members of the archive
    NameMatches,    \* [Refs -> SUBSET Refs]: what the docker filter finds
    Labels,         \* [Refs -> docker labels of the container]
    Config,         \* [Refs -> backup.app_settings of config.yaml]
    MaxBatches,     \* bound: restore_apps is called so many times
    Faults          \* docker: a query may fail; stop: a stop may exit with
                    \* zero in vain; crash: the process may be killed

ASSUME RefsAssumption ==
    /\ \A r \in Refs : r = <<r[1], r[2]>>
    /\ NoRef \notin Refs
    /\ NameMatches \in [Refs -> SUBSET Refs]
    /\ \A r \in Refs : r \in NameMatches[r]
ASSUME ArchivesAssumption ==
    /\ IsFiniteSet(Archives)
    /\ \A x \in Archives :
           /\ <<x.app, x.store>> \in Refs /\ x.date \in Nat
           /\ StoreRank[x.store] \in Nat /\ ScheduleRank[x.schedule] \in Nat
    /\ Holds \in [Archives -> SUBSET {"app", "app-data", "user-config"}]
    /\ Archives \cap {Live, Absent, Damaged} = {}
    /\ Live \notin {Absent, Damaged}
ASSUME BoundsAssumption ==
    /\ MaxBatches \in Nat
    /\ Faults \subseteq {"docker", "stop", "crash"}

\* dest_map, in the order in which the directories are replaced.
DirOrder == <<"app", "app-data", "user-config">>
DirNames == {"app", "app-data", "user-config"}

Apps == {r[1] : r \in Refs}

VARIABLES
    pc,             \* where the batch is
    fate,           \* [Apps -> what the batch has made of the app]
    result,         \* none, running, done, missing (ValueError), error
                    \* (RestoreRunError), aborted or crashed
    batches,        \* batches begun
    ref,            \* restore_backup: the app
    copy,           \* archive_path: none, whole or damaged
    at,             \* position in DirOrder
    stoppedByUs,
    raised,         \* an exception is on its way out
    up,             \* [Refs -> BOOLEAN]: the containers really run
    data,           \* [Refs -> [DirNames -> what is there]]
    before,         \* history: up and data when the batch began
    extracted,      \* history: references whose archive was extracted
    owed,           \* history: references taken down and not yet tried to
                    \* start again
    blind           \* history: what was last learnt of this app may be wrong:
                    \* a query failed, or a stop exited with zero in vain

batch   == <<fate, result, batches>>
locals  == <<ref, copy, at, stoppedByUs, raised>>
history == <<before, extracted, owed, blind>>
vars    == <<pc, batch, locals, up, data, history>>

Fates == {"none", "todo", "begun", "restored", "skipped", "failed"}
UpStates == [Refs -> BOOLEAN]
DataStates == [Refs -> [DirNames -> {Live, Absent, Damaged} \cup Archives]]

TypeOK ==
    /\ pc \in {"idle", "next", "fetch", "confirm", "check", "stop", "extract",
               "remove", "move", "start", "settings", "boot", "hook", "leave"}
    /\ fate \in [Apps -> Fates]
    /\ result \in {"none", "running", "done", "missing", "error", "aborted",
                   "crashed"}
    /\ batches \in 0 .. MaxBatches
    /\ ref \in Refs \cup {NoRef}
    /\ copy \in {"none", "whole", "damaged"}
    /\ at \in 1 .. Len(DirOrder) + 1
    /\ stoppedByUs \in BOOLEAN /\ raised \in BOOLEAN
    /\ up \in UpStates /\ data \in DataStates
    /\ before \in [up : UpStates, data : DataStates]
    /\ extracted \subseteq Refs /\ owed \subseteq Refs
    /\ blind \in BOOLEAN

Init ==
    /\ pc = "idle" /\ result = "none" /\ batches = 0
    /\ fate = [a \in Apps |-> "none"]
    /\ ref = NoRef /\ copy = "none" /\ at = 1
    /\ stoppedByUs = FALSE /\ raised = FALSE
    /\ up \in UpStates
    /\ \E there \in {Live, Absent, Damaged} :
        data = [r \in Refs |-> [d \in DirNames |-> there]]
    /\ before = [up |-> up, data |-> data]
    /\ extracted = {} /\ owed = {} /\ blind = FALSE

-----------------------------------------------------------------------------
(* What the code computes.                                                 *)

ArchivesOf(a) == {x \in Archives : x.app = a}

\* For mutation: the greatest file name wins, and the date comes last in it.
LaterByName(x, y) ==
    \/ StoreRank[x.store] > StoreRank[y.store]
    \/ x.store = y.store /\ ScheduleRank[x.schedule] > ScheduleRank[y.schedule]
    \/ x.store = y.store /\ x.schedule = y.schedule /\ x.date > y.date

\* select_latest orders one store's archives by date, then by name; of two
\* stores the later name wins in the dictionary of _latest_by_app_id.
Later(x, y) ==
    \/ StoreRank[x.store] > StoreRank[y.store]
    \/ x.store = y.store /\ x.date > y.date
    \/ x.store = y.store /\ x.date = y.date
         /\ ScheduleRank[x.schedule] > ScheduleRank[y.schedule]

Newest(a) == CHOOSE x \in ArchivesOf(a) : \A y \in ArchivesOf(a) : ~Later(y, x)

RefOf(a) == <<a, Newest(a).store>>

Archive == Newest(ref[1])

\* is_app_running: what it may answer, and whether docker was asked in vain.
SeenRunning(r, running) ==
    {[answer |-> \E s \in NameMatches[r] : running[s], blind |-> FALSE]} \cup
    (IF "docker" \in Faults THEN {[answer |-> FALSE, blind |-> TRUE]} ELSE {})

VisibleLabels(r) ==
    {Labels[r]} \cup (IF "docker" \in Faults THEN {NoOverrides} ELSE {})

HasRestoreCommand(r, labels) ==
    IsCommand(ResolveAppSettings(labels, Config[r])["restore_command"])

\* For mutation: the restart is skipped when the replacement has failed.
StartOnlyOnSuccess(error) ==
    IF stoppedByUs /\ ~error THEN "start" ELSE IF error THEN "leave" ELSE "settings"

\* Leaving the try block, by its end or by an exception.
FinallyPc(error) ==
    IF stoppedByUs THEN "start" ELSE IF error THEN "leave" ELSE "settings"

LeaveTry(error) == raised' = error /\ pc' = FinallyPc(error)

\* An exception outside the try block.
Raise == raised' = TRUE /\ pc' = "leave"

ForgetLocals ==
    /\ ref' = NoRef /\ copy' = "none" /\ at' = 1
    /\ stoppedByUs' = FALSE /\ raised' = FALSE

EndBatch(outcome) ==
    /\ pc' = "idle" /\ result' = outcome
    /\ ForgetLocals
    /\ UNCHANGED <<fate, batches, up, data, history>>

-----------------------------------------------------------------------------
(* restore_apps.                                                           *)

\* Nothing is begun if the listing of the backups raises, or if one of the
\* apps has no backup.
Outcomes(chosen) ==
    {"aborted", IF \E a \in chosen : ArchivesOf(a) = {} THEN "missing"
                ELSE "running"}

BeginBatch(chosen, outcome) ==
    /\ pc = "idle" /\ batches < MaxBatches
    /\ batches' = batches + 1
    /\ result' = outcome
    /\ pc' = IF outcome = "running" THEN "next" ELSE "idle"
    /\ fate' = [a \in Apps |->
           IF a \in chosen /\ outcome = "running" THEN "todo" ELSE "none"]
    /\ before' = [up |-> up, data |-> data]
    /\ extracted' = {} /\ owed' = {} /\ blind' = FALSE
    /\ UNCHANGED <<locals, up, data>>

NextApp ==
    /\ pc = "next"
    /\ \E a \in Apps :
        /\ fate[a] = "todo"
        /\ fate' = [fate EXCEPT ![a] = "begun"]
        /\ ref' = RefOf(a)
    /\ blind' = FALSE
    /\ pc' = "fetch"
    /\ UNCHANGED <<result, batches, copy, at, stoppedByUs, raised, up, data,
                   before, extracted, owed>>

With(outcome) == {a \in Apps : fate[a] = outcome}

BatchDone ==
    /\ pc = "next" /\ With("todo") = {}
    /\ EndBatch(IF With("failed") = {} THEN "done" ELSE "error")

-----------------------------------------------------------------------------
(* restore_backup before its try block.                                    *)

\* The local file is gone, or the download has failed and was unlinked; an
\* archive that is damaged or was cut off on its way is found out later.
Fetch ==
    /\ pc = "fetch"
    /\ \/ copy' \in {"whole", "damaged"} /\ pc' = "confirm" /\ UNCHANGED raised
       \/ Raise /\ UNCHANGED copy
    /\ UNCHANGED <<batch, ref, at, stoppedByUs, up, data, history>>

Confirm ==
    /\ pc = "confirm"
    /\ pc' = "check"
    /\ UNCHANGED <<batch, locals, up, data, history>>

\* restore_apps is done with the app.
Finish(outcome) ==
    /\ fate' = [fate EXCEPT ![ref[1]] = outcome]
    /\ pc' = "next"
    /\ ForgetLocals
    /\ UNCHANGED <<result, batches, up, data, history>>

Decline == pc = "confirm" /\ Finish("skipped")

CheckApp ==
    /\ pc = "check"
    /\ \E seen \in SeenRunning(ref, up) :
        /\ pc' = IF seen.answer THEN "stop" ELSE "extract"
        /\ blind' = seen.blind
    /\ UNCHANGED <<batch, locals, up, data, before, extracted, owed>>

\* For mutation: the error of a stop is ignored altogether.
IgnoreStopError(running) == FALSE

\* A failed stop is an error only if the app is seen to run afterwards.
StopFailed(running) == running

\* A stop that fails may have brought the app down or not; an exit with zero
\* is believed, and with the fault "stop" it may be wrong.
StopApp ==
    /\ pc = "stop"
    /\ \E down \in BOOLEAN : up' = [up EXCEPT ![ref] = @ /\ ~down]
    /\ \E exitsZero \in BOOLEAN, seen \in SeenRunning(ref, up') :
        /\ exitsZero /\ up'[ref] => "stop" \in Faults
        /\ IF ~exitsZero /\ StopFailed(seen.answer)
           THEN Raise /\ UNCHANGED stoppedByUs
           ELSE stoppedByUs' = TRUE /\ pc' = "extract" /\ UNCHANGED raised
        /\ blind' = (blind \/ IF exitsZero THEN up'[ref] ELSE seen.blind)
    /\ owed' = IF up[ref] /\ ~up'[ref] THEN owed \cup {ref} ELSE owed
    /\ UNCHANGED <<batch, ref, copy, at, data, before, extracted>>

-----------------------------------------------------------------------------
(* The try block: extract to a temporary directory, then, for each member  *)
(* of the archive, remove the live directory and move the new one in.      *)

\* For mutation: the live directory makes room before the extraction.
ClearedFirst == [data EXCEPT ![ref]["app"] = Absent]

\* What a failed extraction leaves of the live directories.
AfterFailedExtraction == data

\* A damaged archive is found out, or the temporary directory is full.
Extract ==
    /\ pc = "extract"
    /\ \/ /\ copy = "whole"
          /\ extracted' = extracted \cup {ref}
          /\ pc' = "remove" /\ UNCHANGED <<raised, data>>
       \/ LeaveTry(TRUE) /\ data' = AfterFailedExtraction /\ UNCHANGED extracted
    /\ UNCHANGED <<batch, ref, copy, at, stoppedByUs, up, before, owed, blind>>

Dir == DirOrder[at]
Put(content) == data' = [data EXCEPT ![ref][Dir] = content]

\* shutil.rmtree, if there is anything to remove.
RemoveOld ==
    /\ pc = "remove" /\ at <= Len(DirOrder) /\ Dir \in Holds[Archive]
    /\ \/ Put(Absent) /\ pc' = "move" /\ UNCHANGED raised
       \/ /\ data[ref][Dir] # Absent
          /\ \E left \in {data[ref][Dir], Damaged} : Put(left)
          /\ LeaveTry(TRUE)
    /\ UNCHANGED <<batch, ref, copy, at, stoppedByUs, up, history>>

\* `if not src.exists(): continue`
LeaveAlone ==
    /\ pc = "remove" /\ at <= Len(DirOrder) /\ Dir \notin Holds[Archive]
    /\ at' = at + 1
    /\ UNCHANGED <<pc, batch, ref, copy, stoppedByUs, raised, up, data, history>>

\* For mutation: the error of one directory is passed over.
PassOver == pc' = FinallyPc(raised) /\ UNCHANGED raised

MoveError == LeaveTry(TRUE)

\* shutil.move copies between file systems and may break off.
MoveNew ==
    /\ pc = "move"
    /\ \/ Put(Archive) /\ at' = at + 1 /\ pc' = "remove" /\ UNCHANGED raised
       \/ /\ \E left \in {Absent, Damaged} : Put(left)
          /\ MoveError /\ UNCHANGED at
    /\ UNCHANGED <<batch, ref, copy, stoppedByUs, up, history>>

AllReplaced ==
    /\ pc = "remove" /\ at > Len(DirOrder)
    /\ LeaveTry(FALSE)
    /\ UNCHANGED <<batch, ref, copy, at, stoppedByUs, up, data, history>>

-----------------------------------------------------------------------------
(* The finally block, the post-restore hook and the end of the app.        *)

\* For mutation: the error of the restart is passed over.
DropStartError == pc' = (IF raised THEN "leave" ELSE "settings") /\ UNCHANGED raised

StartError == Raise

\* app_start succeeds, or it raises and the app may come up all the same.
AppStart(nextPc) ==
    \/ up' = [up EXCEPT ![ref] = TRUE] /\ pc' = nextPc /\ UNCHANGED raised
    \/ \E started \in BOOLEAN : up' = [up EXCEPT ![ref] = @ \/ started] /\ StartError

StartApp ==
    /\ pc = "start"
    /\ AppStart(IF raised THEN "leave" ELSE "settings")
    /\ owed' = owed \ {ref}
    /\ UNCHANGED <<batch, ref, copy, at, stoppedByUs, data, before, extracted,
                   blind>>

\* resolve_app_settings; with a restore_command, is_app_running.
ReadSettings ==
    /\ pc = "settings"
    /\ \E labels \in VisibleLabels(ref), seen \in SeenRunning(ref, up) :
        pc' = IF ~HasRestoreCommand(ref, labels) THEN "leave"
              ELSE IF seen.answer THEN "hook" ELSE "boot"
    /\ UNCHANGED <<batch, locals, up, data, history>>

StartForHook ==
    /\ pc = "boot"
    /\ AppStart("hook")
    /\ UNCHANGED <<batch, ref, copy, at, stoppedByUs, data, history>>

RestoreHook ==
    /\ pc = "hook"
    /\ \/ up[ref] /\ pc' = "leave" /\ UNCHANGED raised
       \/ Raise
    /\ UNCHANGED <<batch, ref, copy, at, stoppedByUs, up, data, history>>

\* For mutation: a failure is counted with the restored apps.
FailureReturned == "restored"

\* For mutation: an app that failed is tried again.
FailureRetried == "todo"

\* `except Exception`: the app is recorded and the batch goes on.
FailureRecorded == "failed"

FinishApp == pc = "leave" /\ Finish(IF raised THEN FailureRecorded ELSE "restored")

Crash == "crash" \in Faults /\ pc # "idle" /\ EndBatch("crashed")

-----------------------------------------------------------------------------
\* Steps that end because the code, or a bounded command, ends them.
BoundedStep ==
    \/ NextApp \/ BatchDone \/ Fetch
    \/ Extract \/ RemoveOld \/ LeaveAlone \/ MoveNew \/ AllReplaced
    \/ StartApp \/ StartForHook \/ FinishApp

\* Steps that wait for an answer, for docker or for a stop, without timeout.
UnboundedStep ==
    Confirm \/ Decline \/ CheckApp \/ StopApp \/ ReadSettings \/ RestoreHook

Next ==
    \/ \E chosen \in SUBSET Apps : \E outcome \in Outcomes(chosen) :
        BeginBatch(chosen, outcome)
    \/ BoundedStep \/ UnboundedStep
    \/ Crash

Spec == Init /\ [][Next]_vars

\* The process is scheduled; app_start and the requests to rclone have a
\* timeout, file operations end.
FairSpec == Spec /\ WF_vars(BoundedStep)

-----------------------------------------------------------------------------
(* Safety.                                                                 *)

\* restore.py:245: an app this batch took down is the app in progress, and a
\* call of app_start still lies ahead on whatever path it takes, unless the
\* process is killed.
RestartOwed ==
    result # "crashed" => \A r \in owed :
        /\ r = ref /\ stoppedByUs
        /\ pc \in {"extract", "remove", "move", "start"}

\* restore.py:23, 101-106: a batch that comes to its end has not left out an
\* app because of another's failure, and reports an error exactly if an app
\* failed; an app whose replacement broke off is one that failed.
BatchAccounted ==
    result \in {"done", "error"} =>
        /\ With("todo") = {} /\ With("begun") = {}
        /\ result = "error" <=> With("failed") # {}
        /\ \A r \in Refs, d \in DirNames :
              data[r][d] \in {Absent, Damaged} /\ data[r] # before.data[r]
                  => r[1] \in With("failed") \/ d \notin Holds[Newest(r[1])]

\* restore.py:112, 193, 232: a reference nobody asked for, an app without
\* backup, one whose overwriting was declined, or whose archive could not be
\* fetched or extracted, keeps all its directories as they were.
UntouchedUntilExtracted ==
    \A r \in Refs \ extracted : data[r] = before.data[r]

\* restore.py:235-242: an app reported as restored holds every directory of
\* the archive, and the directories the archive lacks as they were.
RestoredIsWhole ==
    \A a \in With("restored"), d \in DirNames :
        data[RefOf(a)][d] = IF d \in Holds[Newest(a)] THEN Newest(a)
                            ELSE before.data[RefOf(a)][d]

\* restore.py:60: a directory is never filled from the archive of another
\* app or store, nor from one older than another archive of its app and store.
FromNewest ==
    \A r \in Refs, d \in DirNames : data[r][d] \in Archives =>
        /\ <<data[r][d].app, data[r][d].store>> = r
        /\ \A x \in Archives : <<x.app, x.store>> = r => x.date <= data[r][d].date

\* restore.py:198, 220, 259: apart from one that had to run for its
\* restore_command, an app reported as restored or skipped runs exactly if it
\* did when the batch began; with the command it is not left down either.
RunsAsBefore ==
    result # "crashed" =>
        \A a \in With("restored") \cup With("skipped") :
            LET r == RefOf(a)
                needed == fate[a] = "restored" /\ HasRestoreCommand(r, Labels[r])
            IN  /\ before.up[r] => up[r]
                /\ up[r] /\ ~before.up[r] => needed

(* Action properties.                                                      *)

\* restore.py:197-216: no live directory is touched while the app runs,
\* unless docker did not answer whether it does, or a stop exited with zero
\* although the app went on running.
ReplacedWhileDown ==
    [][\A r \in Refs : data'[r] # data[r] => ~up[r] \/ blind]_vars

(* Liveness.                                                               *)

\* A batch comes to its end, or waits for the user, a docker command or a
\* stop, which have no timeout.
BatchEndsOrWaits ==
    []<>(pc = "idle") \/ <>[](pc \in {"confirm", "check", "stop", "settings",
                                      "hook"})
=============================================================================
