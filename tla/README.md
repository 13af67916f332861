# Runtipi Companion in TLA+

Models, model-checking runs and machine-checked proofs for Runtipi Companion
(`src/src/runtipi_companion`), a container that stops, archives, verifies and
restarts the apps of a Runtipi host on a schedule, and copies the archives to
an rclone remote. Paths below are relative to `src/src/runtipi_companion`
unless they start with `src/`.

- `PROJECT.json` lists components, runs, mutants, findings, hazards, theorems
  and, for every definition that models code, the lines it stands for.
- `tlc -config <run>.cfg <MC module>` repeats a run (`StateFile` is its own MC
  module); `tlapm <M>Proofs.tla` repeats the proofs.

## 1. Inventory

| Part | State it keeps | Operations | Talks to |
|---|---|---|---|
| Backup runner, `backup/runner.py` | locals of one run: created files, failures, per app `was_running`, `stopped_by_us`, `restart_error`; the archives on disk; which containers run | `run_backup`, `_backup_one_app`, `_archive_app`, `verify_archive`, `discover_apps` | runtipi-cli, docker, retention, remote, the progress callback |
| Per-app settings, `backup/app_settings.py` | none | labels to overrides, merge, defaults, hook execution | docker labels, config |
| Retention, `backup/retention.py` | none | parse a name, `select_prunable`, `select_latest` | runner (disk and remote), restore |
| Remote synchronisation, `backup/runner.py:387-446`, `backup/rclone.py` | objects on the remote | upload, size check, list, delete, probe, download | rclone's Remote Control API |
| Backup coordinator and scheduler, `container.py` | `lock`, `active_schedule`, threads | `start`, `_run`, `run`, `_due_schedules`, POST handlers | runner, state file, settings |
| State file, `container.py:130-152` | marks per schedule, `last_run`, test results | read; read-modify-write under `STATE_LOCK` | coordinator, dashboard |
| Dashboard settings and managed config, `container.py:36-128, 395-440, 637-655` | `dashboard-settings.json`, `config.yaml` | validate a form, load, save, render | coordinator, runner |
| Config loading and schema, `config/loader.py`, `config/schema.py` | none | `load_config`, defaults, validation | settings, coordinator, runner |
| Restore, `backup/restore.py` | live app directories | `restore_apps`, `restore_backup` | remote, runtipi-cli; nothing in the container calls it yet |
| Runtipi and docker commands, `system/runtipi_cli.py`, `system/docker.py`, `system/shell.py` | none | start, stop, status, labels, exec | the host |
| Notifications, shell rendering, HTML pages, CLI rclone client | none that outlives a call | pure I/O or parsing | everything above |

How they interact: the scheduler loop (main thread) and each POST request
(a thread of the HTTP server) call `BackupCoordinator.start`, which takes one
lock without waiting, writes the state file and spawns a thread for `_run`;
that thread calls `run_backup`, whose progress callback writes the state file
again, stores the outcome and releases the lock it did not take itself. A POST
to `/config` saves the settings and renders `config.yaml` from them; every
backup reads both.
`run_backup` goes through the apps one by one, then sends what lies on disk to
the remote and prunes there.

What is hard here:

- **partial failure**: nearly every line of `_backup_one_app` can raise, in a
  `try`/`except`/`finally` with a restart and a hook in the `finally`, inside a
  loop that isolates some exceptions and not others;
- **outside answers**: a stop that reports an error and happened all the same,
  a status query that matches the wrong container or gets no answer, an upload
  that leaves a short object;
- **a lock taken in one thread and released in another**, with state file
  writes in between that can raise;
- **crash and restart** between the mark of a schedule and its run;
- **time**: one hour a day, several schedules due in it, two readings of the
  clock;
- **errors taken for an answer**: a status query that fails reads as "stopped",
  a settings file that cannot be read as one that was never saved;
- **two files that ought to agree**, the settings and the `config.yaml`
  rendered from them, written one after the other by threads that share a lock
  for the first of them only; the second is truncated and rewritten in place;
- **retention** computed from names on a disk or remote that may hold
  incomplete files.

What makes each part correct:

- runner: what it took down it starts again, on every path; a post hook that
  is due is called; success means every app asked for has a readable archive
  that survived pruning, and the host is as it was found; corrupt archives do
  not survive; good ones go only when enough newer good ones remain; one
  broken app does not end the run; an app marked keep-running is not touched;
- remote: nothing is pruned before everything lies verified on the remote;
  good copies go only when enough good ones remain;
- coordinator: at most one backup or test at a time; the lock comes back;
  `active_schedule` and `last_run` tell the truth; a schedule starts at most
  once a day and is missed only when the lock was taken or the process down;
- state file: concurrent writers lose nothing, readers see whole files, a kill
  leaves the old contents or the new;
- settings: a change that was confirmed is in what the next backup uses,
  `config.yaml` and the saved settings agree, an accepted form gives a
  configuration that loads;
- restore: the newest archive is used, nothing is removed before an archive has
  been extracted, nothing is replaced under a running app, an app reported as
  restored is whole and runs as before, every other is reported as failed.

`PROJECT.json` "hazards" lists each of these where it bites.

## 2. Modules

| Module | Models | Lines stand for |
|---|---|---|
| `AppSettings` | label parsing, merge, defaults (pure operators) | `app_settings.py` |
| `Retention` | `select_prunable` over dates (pure operators) | `retention.py` |
| `BackupRunner` (EXTENDS both) | one run after another: every exit of `_backup_one_app` and `run_backup` | `runner.py:63-385` and the commands it calls |
| `RemoteSync` (EXTENDS `Retention`) | upload, size check, listing, pruning of the remote | `runner.py:387-446`, `rclone.py:110-234` |
| `Coordinator` | scheduler loop, handlers, backup threads, lock, clock, kills | `container.py:154-240, 601-683` |
| `KeyValueStore` | abstract: what threads may expect of the state file | `container.py:130-152` |
| `StateFile` | lock, read, temporary file, rename, of any number of threads | `container.py:130-152` |
| `ManagedConfig` | form to settings to `config.yaml` to loaded configuration (pure operators) | `container.py:36-128, 395-440`, `loader.py`, `schema.py` |
| `SettingsStore` (EXTENDS `ManagedConfig`) | concurrent POST `/config`, start-up, and a backup that reads the files | `container.py:74-128, 189-232, 637-668` |
| `Restore` (EXTENDS `AppSettings`) | batches of `restore_apps`, every exit of `restore_backup` | `restore.py:60-275`, `retention.py` |
| `MCBackupRunner`, `MCRemoteSync`, `MCCoordinator`, `MCSettingsStore`, `MCRestore` | values of the constants for TLC | |
| `RetentionProofs` | lemmas and theorems about `select_prunable`, used by the next three | |
| `BackupRunnerProofs`, `BackupOutcomeProofs` (EXTENDS it), `RemoteSyncProofs`, `RestoreProofs`, `CoordinatorProofs`, `StateFileProofs`, `SettingsStoreProofs` | theorems and their proofs | |

### BackupRunner

`pc` is the place in the code: `discover`, `next` (head of the loop over the
apps), then for one app `check` (settings and status), `pre` (hook), `stop`,
`archive` (report and `tarfile.open`), `write`, `verify`, `prune`, `start` and
`post` (the `finally` block), `leave` (its end, and the handler around the
app), and `sync`. The Python locals are variables of the same names; `exc` is
the exception on its way out of the `try` block. `up` is whether the
containers really run, which the code only sees through `SeenRunning`. `disk`
holds a content per (app, schedule, date): `none`, `partial`, `torn` (readable,
but taken while an app that had to be stopped was running) or `good`.

History variables: `upBefore`, `targets`, `owed` (apps this run took down and
has not tried to start again) and `cleanup` (post hooks due). They occur in no
guard.

A command that fails is always possible. `Faults` adds what may go wrong
besides: `docker` (a query is not answered; `is_app_running` then says
stopped and `read_labels` says no labels), `io` (a file operation raises),
`progress` (the progress callback raises, because it writes the state file),
`stop` (`app stop` exits with zero although the app did not go down; the code
looks at docker again only after a non-zero exit), `crash` (a kill). Nobody else starts or stops apps while a run is under way,
and the date does not go backwards.

### RemoteSync

Files are those of `BackupRunner`; on the remote there may also be a `short`
object. All apps of a run are backed up in one step, each with its own
outcome, and a fault `leftover` lets a run end with an archive half written.
Then come, request by request: each upload, its `stat`, the listing, each
deletion; any of them may fail and end the run. `SpellsAs` captures the one
thing that matters about names here: an app called `my-daily-notes` spells
`daily`, so the include pattern admits its archives of other schedules and
`prune_remote` does not find its daily ones. The managed configuration has
exactly one remote (`container.py:107`), and so has the model.

### Coordinator

Threads: `Main` (scheduler loop), `Clients` (POST handlers), `Workers`
(`_run`). Between taking and releasing the lock each assignment and each state
file write is a step of its own. A state file write is one step: `StateFile`
shows that the file may be used that way. Time is counted in hours; an hour in
which the process is up contains at least one whole pass of the loop, which
sleeps 30 seconds. `Faults`: `state` (a state file write raises), `crash` (a
kill, which also loses the lock; docker restarts the container).

History: `polled`, `runsOn`, `refused`, `died` and `cutOff`; only `polled`
occurs in a guard (of the clock), where it carries the assumption just named.
`cutOff` says what has cut the last backup off, if anything did: `killed`, or
`leaked` when a state file write raised in the backup thread, in which case the
lock stays taken and `last_run` stale. The properties except exactly those
states, so that they say what holds under both faults and not merely without
them.

### KeyValueStore and StateFile

`KeyValueStore` is the promise: a call takes effect at one instant between its
start and its return or raises without effect, and the death of the process
ends calls and loses no value. `StateFile` is the code: `STATE_LOCK`, reading
the file, changing one key, opening and writing the temporary file, the rename,
each a step, any of which may raise, with the process dying anywhere.
`StateFile!Store` is the refinement mapping: the abstract map is the parsed
file; a writer has taken effect once it has renamed, a reader once it has read.
`ActsAsStore` (`Store!Spec`) is checked by `state_file` and proved as
`ImplementsStore`. It is what allows `Coordinator` to write the state file, and
`SettingsStore` to save the settings (which are written in the same way), in
one step each.

### ManagedConfig and SettingsStore

`ManagedConfig` follows a setting through `_settings_from_form`,
`_load_settings`, `write_managed_config`, `load_config` and `validate_config`.
YAML mappings are records whose DOMAIN may lack keys, texts are members of
small sets, and questions asked of a text (is the path absolute, does the
target name a remote) are membership in a constant.

`SettingsStore` numbers the saves: `saves` is every settings file there ever
was, in order. A reading of the settings is the number of the save that was
there and whether the read succeeded: `_load_settings` answers an `OSError` with
the defaults (`container.py:67-68`), which the caller cannot tell from saved
settings. Each of the three readers (start-up, the rendering after a POST, the
exclusions of a backup) may meet it. `config.yaml` is the reading it was
rendered from, or `Empty` (truncated) or `Mixed` (two threads wrote over each
other). A POST handler is
at `save`, `load`, `open` or `write`; opening the file for writing truncates
it. A backup reads `config.yaml`, then the exclusions, then looks for the apps.
`Faults`: `io` (a write raises), `read` (so does a read), `crash` (a kill).
History: `confirmed`, `alone`, `suspect`, `floor`; they occur in no guard.
`suspect` is set by a rendering that failed, overlapped another, or was of
settings that could not be read.

### Restore

`pc` is the place: `next` (the loop of `restore_apps`), `fetch`, `confirm`,
`check`, `stop`, then the `try` block `extract`, `remove`, `move`, then `start`
(the `finally` block), `settings`, `boot` and `hook` (the `restore_command`),
`leave`. `data` says what each of the three live directories of an app holds:
what the app wrote, an archive, nothing, or the remains of a removal or move
that broke off. An app is an <<app, store>> pair where the code uses one and an
app id where it uses that (`_latest_by_app_id`). Every file operation, command
and query may fail. `Faults`: `docker` (a query is not answered), `stop` (a stop
exits with zero although the app did not go down, which `restore.py:199-216`
believes), `crash`. History: `before`, `extracted`, `owed` and `blind` (what
the code last learnt of the app may be wrong, by one of the first two faults);
they occur in no guard.

## 3. Runs

Passing runs:

| Run | Instance | What it shows |
|---|---|---|
| `runner_normal` | `db` (with hooks) and `web`, two schedules (keep 2 and 1), 3 days, no extra faults: about 830,000 states | with every command, hook, verification and sync free to fail: `RestartOwed`, `PostHookOwed`, `SuccessMeansBackedUp`, `NoCorruptSurvives`, `ArchivesConsistent`, `FailureIsolation`, `GoodBackupsKept` |
| `runner_faults` | `db` and `companion` (keep-running in config, the opposite in its labels), one schedule, 2 days, all faults: about 122,000 states | `SuccessRestoresApps`, `SuccessMeansBackedUp`, `NoSpuriousStart`, `PipelineNeverStopped` survive everything; `RunEndsOrHangs` |
| `remote_sync` | one app that spells `weekly`, two schedules, 2 days, disk keeps 2 daily and 1 weekly archives, remote 1; leftovers and short objects: about 165,000 states | `VerifiedBeforePrune`, `SuccessMeansOffSite`, `RemoteRetentionKept`, `SyncEnds` |
| `coordinator` | one client, two workers, two schedules, 2 days of 2 hours, kills and failing state file writes: about 581,000 states | mutual exclusion, no leak, `ActiveShown`, `LastRunTrue`, `AtMostOncePerDay`, `MissedOnlyWhenBusy`, `LockFreeOrWorking`, all under both faults |
| `state_file` | three threads, two keys, two values, every step may raise, kills: about 83,000 states | `ActsAsStore` (the refinement) and `LockComesFree` |
| `settings_store` | two clients, three saves, forms that change the retention, exclude the app, name another path, and one for each reason to refuse; the settings file of an older version at first; failing writes, failing reads and kills: about 264,000 states | `ConfirmedIsUsed`, `ExclusionsNotOlder`, `ExclusionsHonoured`, `ConfigRepaired`, `AcceptedFormsLoad`, `ChangesApplied` |
| `restore` | four references of three apps (one in two stores, one without backup), four archives, one batch over any set of apps, from live data, none, or the remains of an earlier restore; unanswered queries, stops that exit with zero in vain and kills: about 247,000 states | `RestartOwed`, `BatchAccounted`, `UntouchedUntilExtracted`, `RestoredIsWhole`, `FromNewest`, `RunsAsBefore`, `ReplacedWhileDown`, `BatchEndsOrWaits` |

Why the bounds are enough. Apps are independent except for their order, the
failure list and the docker filter: two cover each. Retention interacts over
`keep + 1` dates: three days with keep 2 let an old archive be pruned, and a
second run on the same day is possible on each. `remote_sync` keeps one archive on the
remote and two on disk, so that two days let every archive be sent again and
pruned again; its violation runs keep one on disk and two on the remote, over
three days. Two schedules share one disk
and one hour. Two hours make a day that has an hour with and one without a
backup; two workers are enough to let a second one start while the first is on
its way out, and the theorem `Serialized` removes that bound. One client
suffices for a manual request to race the scheduler in every order; two
requests race like a request and the scheduler. A read-modify-write race takes
two threads, a third sees what the two have done between two of its own calls.
Two clients let one POST overtake another between its save and its rendering,
and three saves (the first is the file found at start) let each have a change
of its own. (The other cfgs of the settings also
begin without a settings file, which would double the states of the passing
run; an absent file reads as the defaults, as one does there whose read fails.)
One batch of restores is enough because a batch keeps nothing but the
directories and the running apps, and begins here with every kind of either.

Violation runs, each a disagreement of the code with its own words
(`PROJECT.json` "findings" quotes them):

| Run | Property | What happens |
|---|---|---|
| `runner_io_isolation` | `FailureIsolation` | an `OSError` while one app is archived ends the run for all apps after it |
| `runner_prefix_left_down` | `RestartOwed` | the docker filter has no `$`: after a cosmetic stop error the status of another app is read and this one stays down |
| `remote_unverified` | `GoodCopiesKept` | the truncated archive of a failed run is uploaded over the good copy on the remote |
| `coord_leak` | `BackupsCanStart` | a state file write that raises in the backup thread leaves the lock taken for ever |
| `settings_race` | `ConfigFollowsSettings` | of two POSTs the older rendering is written last: the page shows one retention and every backup uses another |

Further counterexamples, most of them consequences of the same lines; each has a
cfg of its own beside the runs:

| cfg (module) | Property | What happens |
|---|---|---|
| `runner_io_prune` (`MCBackupRunner`) | `GoodBackupsKept` | the truncated archive an `OSError` leaves behind counts in a later prune, and a good one is deleted in its favour |
| `runner_progress_restart` (`MCBackupRunner`) | `RestartOwed` | the report "starting" raises in the `finally` block before `app_start`: the app stays down |
| `remote_short` (`MCRemoteSync`) | `GoodCopiesKept` | a short object of an earlier failed upload counts as a copy to keep |
| `settings_default_path` (`MCSettingsStore`) | `ConfirmedIsUsed` | with Runtipi mounted at `/opt/runtipi`, a backup that begins while a POST has truncated `config.yaml` reads an empty file, that is the defaults (`schema.py:52`): it finds the apps and backs them up with no remote, keep 3 and nothing kept running. With the default mount at `/runtipi` it finds no apps and fails instead |

| `settings_unread` (`MCSettingsStore`) | `ExclusionsApplied` | the settings file cannot be read (`container.py:67`) when a backup of all apps looks for the exclusions: it finds none, and an excluded app is stopped and archived, against `src/README.md:18-20` |
| `settings_unread_config` (`MCSettingsStore`) | `ChangeInForce` | the settings a POST has just saved cannot be read when it renders them: it is answered as done, `config.yaml` holds the values of the installation form, and the next backup goes by them |

Further limits met on the way; each can be seen by changing one constant or
conjunct:

- `PostHookOwed` fails with the fault `progress`, for the same reason as
  `RestartOwed`.
- `ArchivesConsistent` fails with the fault `docker`: an app whose status
  cannot be read counts as stopped and is archived while it runs. It fails
  with the fault `stop` as well, and so does `GoodBackupsKept`, for which an
  archive of a running app does not count as good.
- `NoCorruptSurvives` and `GoodBackupsKept` fail with the faults `io` and
  `crash`, which leave a truncated archive behind (`runner_io_prune`).
- `MissedOnlyWhenBusy` fails when `BackupHour` is the last hour of the day: a
  start held up until just before midnight is marked with the date of the next
  day, which then counts as done.
- `refused` does happen: a weekly schedule whose hour is taken up by the daily
  backup is not started that day at all, and not later.
- `LastRunTrue` without its exception fails after a kill: `last_run` stays
  `running` until the next run.
- A POST that meets an empty `config.yaml` finds no apps, and drops every
  exclusion of the form as unknown (`container.py:642`) without an error.
- `ReplacedWhileDown` without its exception fails with the faults `docker` and
  `stop`: an app whose status cannot be read counts as stopped, one whose stop
  exits with zero as well, and its directories are replaced while it runs.
- `ConfigRepaired`, `ChangesApplied` and `ExclusionsHonoured` without their
  exceptions fail with the fault `read`, in the way `settings_unread` and
  `settings_unread_config` show.
- A restore that breaks off after its first directory leaves the app with a
  new `app`, and an old or missing `app-data`; it is reported as failed
  (`BatchAccounted`), and nothing is kept to go back to.

### Fairness

- `BackupRunner!FairSpec` is weak fairness of `BoundedStep`: what the code
  does by itself, `app_start` (a timeout of 360 seconds,
  `runtipi_cli.py:8, 97`) and the remote, whose requests have timeouts
  (`rclone.py:140, 172`). There is none for docker queries, hooks and `app
  stop`, which run without a timeout, nor for requests, the date, faults.
  Accordingly `RunEndsOrHangs` says that a run ends or hangs in one of those.
- `Coordinator!FairSpec` is weak fairness of each thread, since threads are
  scheduled; a backup or test itself need not end. `WorkEndsSpec`, used by
  `coord_leak` alone, adds that they do, so that the counterexample is the
  lock and not a long backup.
- `RemoteSync!FairSpec` is weak fairness of the run: each request is answered
  or given up.
- `StateFile!FairSpec` is weak fairness of what a thread does under the lock:
  threads are scheduled, the disk answers or raises. Nothing makes a thread
  that waits for the lock get it.
- `SettingsStore!FairSpec` is weak fairness of each handler and of the start of
  the container, which docker restarts; none for users, backups and faults.
- `Restore!FairSpec` is weak fairness of what the code, a bounded command
  (`app_start`, the requests to rclone) or a file operation ends; none for the
  user's confirmation, docker queries, hooks and `app stop`, in which
  `BatchEndsOrWaits` lets a batch wait.

## 4. Theorems

TLAPS checks these for every number of apps, schedules, days, threads, clients
and archives, every retention and every setting, from the named assumptions in
the modules, which TLC evaluates on every run. Each is proved from an
inductive invariant that strengthens the property; the table names it and says
what the property alone lacks. Every safety invariant and action property of
the passing runs is the subject of a theorem, with the extra assumption the
table names, if any:

- *exact docker filter* (`ExactNameMatches`, `ExactFilter`): the filter
  `name=^/<app>_<store>` finds the containers of that app only.
  `runner_prefix_left_down` shows what happens otherwise.
- *no fault ...*: the kind of fault does not occur. `runner_progress_restart`,
  `runner_io_isolation`, `settings_unread`, `settings_unread_config` and the
  further limits of section 3 show what each does.
- *keeps some* (`RetainsSome`, `KeepsSome`): every retention is at least one,
  as the dashboard's form demands (`container.py:410`); *keeps natural*
  (`KeepsNatural`): none is negative. `select_prunable` treats a
  negative retention as zero, and no remote keeps fewer archives than none.
- `DefaultPathBare`: nothing is installed under the path `load_config` falls
  back to; see `settings_default_path.cfg`.
- `SoundInstallation`: what was there before any form was posted (the
  environment's defaults, the first settings file) gives a configuration that
  loads. A form cannot answer for what it does not touch.
- `NotLastHour`: the backup hour is not the last of the day; see section 3.
- `FiniteHost`: there are finitely many apps, or files.

Retention (`RetentionProofs`), for any set of dates and any retention:

| Theorem | Says | Argument |
|---|---|---|
| `KeptAtMost` | pruning leaves at most as many archives as the retention asks for | the oldest archive kept has fewer newer ones than the retention asks for, and those kept are it and newer ones |
| `PrunableSuperseded` | of every archive pruned, at least as many newer ones are *kept* as the retention asks for | what is prunable is closed downwards, so the newest prunable archive has all its newer ones kept |
| `NewestKept` | a retention of at least one spares the newest archive | it has no newer one |

They count without induction over sets: the oldest (newest, fewest) element
exists because the numbers are well ordered (`SmallestNumber`), and the
cardinality of an interval, of a subset and of a set less one element are facts
of the library.

Runner (`BackupRunnerProofs`):

| Theorem | Says | Extra assumption | Argument |
|---|---|---|---|
| `TypeCorrect` | `[]TypeOK` | | with `RefOK` (inside an app's steps `ref` is an app), which the updates of `[Apps -> ...]` at `ref` need; lemma `SettingsType`: the merged `keep_running` is a Boolean although both layers may leave it open |
| `AppsStartedAgain` | `[]RestartOwed` | no fault `progress` or `crash`, exact docker filter | inductive once types are known: the property names all the places from which `app_start` still lies ahead |
| `PostHooksCalled` | `[]PostHookOwed` | no fault `progress` or `crash` | the same |
| `PipelineSafe` | `PipelineNeverStopped` | | `KeepInv`: for an app that config.yaml keeps running the run's settings say so and it never gets to `stop`; lemma `ConfigKeepsRunning`: config wins over labels, read or not; lemma `OnlyStopsTakeDown` |
| `CorruptRemoved` | `[]NoCorruptSurvives` | no fault `io` or `crash` | inductive once types are known |
| `EveryAppHasItsTurn` | `[]FailureIsolation` | no fault `io` or `progress` | `IsolationInv`: the run goes on (`result` is `running`) in every place but `idle`, `todo` is empty in `discover` and `sync`, and no `OtherError` is ever on its way |
| `NothingStarted` | `NoSpuriousStart` | exact docker filter | `FoundInv`: apps that had not their turn are as they were found, what is about to be stopped really runs, `stopped_by_us` means it ran when the run began |

What a run leaves behind (`BackupOutcomeProofs`):

| Theorem | Says | Extra assumption | Argument |
|---|---|---|---|
| `AppsAsFound` | `[]SuccessRestoresApps` | exact docker filter | `AppsInv`: as long as no app has failed, all apps but the one in progress are as found and owe no hook; that one is down exactly if the run has stopped it and not started it again, and a start or hook that fails has left an error on its way to `failures` |
| `NothingTorn` | `[]ArchivesConsistent` | no fault `docker` or `stop`, exact docker filter | `ConsistentInv`: an app that must be stopped is down from the opening of its archive on; with `FoundInv`, since an app that is not seen to run is not stopped |
| `EveryAppBackedUp` | `[]SuccessMeansBackedUp` | keeps some | `BackedUpInv`: as long as no app has failed, those that had their turn are backed up, the one in progress once it is verified; `RunInv` (no archive is dated after the run) and `NewestKept` spare it when the run prunes |
| `GoodArchivesStay` | `GoodBackupsKept` | no fault `io`, `stop`, `crash` or `docker`, exact docker filter | whatever is on disk when the run prunes is good (`NothingTorn`, `CorruptRemoved`, `WritingInv`), so what supersedes an archive by count does so by content; one unlink at a time, the newest first |
| `RunAdvances` | `[][pc # "idle" /\ today' = today => StepsLeft' < StepsLeft]_vars`, with `StepsLeft` a natural number | finite host | the measure: so many steps for each app to come, then the place in the app, in `prune` the number of archives there are |

Remote (`RemoteSyncProofs`), all under both faults the module has:

| Theorem | Says | Extra assumption | Argument |
|---|---|---|---|
| `TypeCorrect` | `[]TypeOK` | | with `CurrentOK` |
| `RemoteVerifiedFirst` | `[]VerifiedBeforePrune` | | `RemoteInv`. `SentOK`: what the pattern admits and is no longer to be sent lies on the remote as it does on disk. `PruningOK`: while files are deleted, every one deleted or to be deleted is superseded by enough of those that *stay*; `VerifiedBeforePrune` alone counts some that go next, and is not inductive |
| `RemoteSuccess` | `[]SuccessMeansOffSite` | keeps some | `TodayOK`: the run's own archives are on disk while they are sent and on the remote while it is pruned; no file is dated after the run (`DatesOK`), so `NewestKept` spares them |
| `RemoteRetention` | `[]RemoteRetentionKept` | keeps natural | `StayingOK`: those that stay are no more than the retention asks for, by `KeptAtMost` |
| `SyncAdvances` | each step of a sync lowers a natural number | finite host | the measure: two steps for each file to send, one for each to delete, and one each for the backup, the listing and the end; `UnderWayOK`: what is verified is one of the files to send |

Coordinator (`CoordinatorProofs`):

| Theorem | Says | Argument |
|---|---|---|
| `TypeCorrect` | `[]TypeOK` | `CoordInv`: which kind of thread can be where (`RolesOK`), a thread at work has a schedule, the loop does not run ahead of the clock; `runsOn` is capped at 2 and needs nothing |
| `Serialized` | `[]OneBackupAtATime` | `LockInv`: mutual exclusion with the lock taken, the places a thread can be in at all, and which kind of thread can be in which; without the last two a step could leave a place that does not count as holding |
| `NotLeaked` | `[]LockNotLeaked` | on top of `LockInv`: whoever stops holding the lock releases it in that step, or is a thread in which a state file write raised |
| `ActiveIsRunning` | `[]ActiveShown` | `ActiveInv`: `active` is the holder's schedule from the step after it took the lock to the step before it gives it back |
| `OncePerDay` | `[]AtMostOncePerDay` | `OnceInv`: marks do not lie ahead of the clock, a start for a day is marked with that day or a later one, and what the loop is about to start has not been started for its day; the mark is taken from a second reading of the clock, which is why "or a later one" is needed |
| `DueIsStarted` | `[]MissedOnlyWhenBusy`, given `NotLastHour` | `MissInv`: once the loop has passed over the backup hour of a day, each schedule due in it is marked, started, about to be, was refused, or the process had died; a pass of the loop lasts into the next hour at most, and `NotLastHour` keeps that hour in the same day, so that a mark stands for a start on its own day |
| `LastRunKept` | `[]LastRunTrue` | inductive with `CoordInv`: the thread that stored "running" keeps its schedule until it overwrites the entry, is killed or fails to |

State file (`StateFileProofs`):

| Theorem | Says | Argument |
|---|---|---|
| `TypeCorrect` | `[]TypeOK` | with the invariant below |
| `ImplementsStore` | `ActsAsStore` | `Inv`: a thread inside the lock holds it (`LockHeld`), its `state` is the parsed file with its one change (`UpToDate`), and the temporary file is that state when the rename is due (`TmpWritten`); then every step maps to a step of `KeyValueStore` or to a stutter |

Settings (`SettingsStoreProofs`), under all faults the module has unless the
third column names one:

| Theorem | Says | Extra assumption | Argument |
|---|---|---|---|
| `TypeCorrect` | `[]TypeOK` | | `StoreInv`, which the next five rest on |
| `ConfirmedUsed` | `[]ConfirmedIsUsed`: the settings were read for the configuration no earlier than the last confirmed change was saved | `DefaultPathBare` | `RenderInv`: neither `config.yaml` nor a text about to be written to it is older than the last confirmed change, because a change counts as confirmed only if its POST met no other (`AloneInv`); `BackupInv` carries it through the steps of a backup, and `FallbackInv` keeps an empty file from getting as far as an app |
| `ConfirmedInForce` | `[]ChangeInForce`: and that change, or a later one, is in the configuration, not the defaults | `DefaultPathBare`, no fault `read` | with `SureInv`: no reading that is held anywhere has failed |
| `ExclusionsCurrent` | `[]ExclusionsNotOlder` | `DefaultPathBare` | `BackupInv`: the exclusions are read after `config.yaml`, and saves only grow |
| `ExcludedLeftAlone` | `[]ExclusionsHonoured` | | `BackupInv`: the reading a backup goes by is of one of the saves made since it began; lemma `ChosenAdmitted`: if it succeeded, what it did not exclude is what that save admits |
| `ExcludedNeverBackedUp` | `[]ExclusionsApplied` | no fault `read` | `SureInv`: then the reading did succeed. `settings_unread` shows that the assumption cannot be dropped |
| `RenderingRepaired` | `[]ConfigRepaired` | | `RepairInv`: as long as nothing is suspect, a thread that is alone writes the rendering of the last save, and one that is not makes the outcome suspect |
| `SavedFormsLoad` | `[]AcceptedFormsLoad` | `SoundInstallation` | `SoundInv`: every save ever made, and every form on its way to one, loads: the guards of the form are followed through rendering, loading and validation, key by key |

Restore (`RestoreProofs`), all under every fault the module has:

| Theorem | Says | Extra assumption | Argument |
|---|---|---|---|
| `TypeCorrect` | `[]TypeOK` | | `Chosen`: the loop only reaches apps that have archives, and `ref` is the reference of the newest; lemma `NewestFound` |
| `Untouched` | `[]UntouchedUntilExtracted` | | `TouchInv`: the replacing loop is only reached once the archive is extracted |
| `DownWhileReplaced` | `ReplacedWhileDown` | | `DownInv`: it is only reached with the app down, or after a query that failed |
| `RestartTried` | `[]RestartOwed` | exact docker filter | `OwedInv`: before a stop nothing is owed, a batch under way has not crashed |
| `WholeWhenRestored` | `[]RestoredIsWhole` | | `WholeInv`, a loop invariant: directories the loop has passed are replaced, those ahead are as they were, and other references' directories are as they were until their app has its turn |
| `EveryAppAccountedFor` | `[]BatchAccounted` | | `AccountInv`: at most the app in progress is begun and not finished; with `WholeInv`, a directory lost or left in pieces is one of the archive of an app that failed or is in progress |
| `UpAsBefore` | `[]RunsAsBefore` | exact docker filter | `AppInv`, place by place: whether the app is up follows from whether it was, from what this batch stopped, and from whether a start or hook is still to come; lemma `CommandSeen`: a `restore_command` that is found, with the labels or without, is one the app really has |
| `BatchAdvances` | each step of a batch lowers a natural number | finite host | the measure: so many steps for each app to come, then the place in the app, two for each directory |
| `FilledFromNewest` | `[]FromNewest` | | a move fills a directory from `Newest` of the app, which no archive of the app and store is later than |

That an app with an archive has a latest one, which `Newest` picks, is proved
(`LatestExists`) from the finiteness of the archives and the ranks of the
stores and schedules: one with the fewest archives after it has none.

Model-checked only: liveness under fairness (`RunEndsOrHangs`, `SyncEnds`,
`LockFreeOrWorking`, `LockComesFree`, `ChangesApplied`, `BatchEndsOrWaits`),
which, like `ENABLED`, is beyond the prover. The safety half of three of them is
proved: `RunAdvances`, `SyncAdvances` and `BatchAdvances` say that a run, a sync
and a batch are bounded in their steps, whatever fails. What TLC adds is that
a next step is always there and, under the fairness of section 3, taken.

`TypeOK` of `RemoteSync` is both checked and proved, that of the other modules
proved.

## 5. Not modelled, and why

- Notifications: best effort, no state. HTML, favicon, redirects and the live
  rendering of command output: pure output.
- The rclone command line client: the managed configuration always sets
  `api_url`, which selects the Remote Control client.
- The sections of a configuration that are parsed and never acted on
  (`security`, `tailscale`, `updates`), and `notify`.
- `dry_run`, `local_only`, `retention_override`, `remotes=` and the listing
  commands of `restore.py`: no caller in the container uses them.
- The parsing of archive names, apart from what `SpellsAs` and `Later` keep of
  it; the sequence suffix, which nothing in the container writes.
- `probe_remote_upload` is a step of unknown length of `Coordinator`. Its
  result is stored after the lock has been given back (`container.py:622`): of
  two tests the older result may be stored last, which only the page shows.
- A form longer than 4096 bytes is cut off (`container.py:605`); the models take
  a form as a whole.
- A stop that reported an error and completes after the re-check found the app
  running: the app stays down and no code notices. A kill while an app is down:
  nothing records that it is owed a restart, and the next run finds it "already
  stopped". The first step is not modelled; the second is (`crash`), and the
  properties except it, since the code makes no attempt.
- The scheduler's own reading of the settings (`container.py:156`): hour and
  enabled schedules are constants of `Coordinator`. A read that fails there
  gives the hour of the installation form and all four schedules for that pass
  of the loop, by the line `settings_unread` is about.
- Numbers of the environment that are none (`container.py:42-56, 102`): `run()`
  raises before anything is served, on every restart.
- The loss of the machine: what a rename has put in place is kept.

## 6. Plan

Done, in this order: `AppSettings`, `Retention`, `BackupRunner`,
`BackupRunnerProofs`, `Coordinator`, `CoordinatorProofs`, `RemoteSync`,
`KeyValueStore` and `StateFile` with its refinement, `ManagedConfig` and
`SettingsStore`, `Restore`, and the proofs of the last three;
`RetentionProofs`, `RemoteSyncProofs`, `BackupOutcomeProofs`, and the remaining
safety properties of the settings, a restore and the coordinator.

Next modules:

1. `BackupService`, an abstract specification of a backup run (set of apps in,
   archives and failures out, host as before), which `BackupRunner` implements
   under a refinement mapping, and which `RemoteSync` and `Coordinator` can
   build on in place of their one-step runs.
2. `BackupNames`: parsing, splitting and `select_latest` over bounded names,
   checked against a reference definition and against `SpellsAs` and `Later`.

Next theorems: that `BackupRunner` implements `BackupService`; weaker conditions
for `AppsStartedAgain` and `GoodArchivesStay` (for each fault, what it can cost
at most); a measure for the critical section of `Coordinator`.
