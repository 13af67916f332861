--------------------------- MODULE SettingsStore ---------------------------
(***************************************************************************)
(* The dashboard settings and the configuration rendered from them         *)
(* (container.py): the handlers of POST /config save the settings under    *)
(* SETTINGS_LOCK and then, under no lock, load them again and rewrite      *)
(* config.yaml in place; a backup reads first config.yaml, then the        *)
(* settings.  The start of the container renders config.yaml anew.         *)
(*                                                                         *)
(* The settings file is written the way the state file is (StateFile), so  *)
(* a save is one step.  `saves` holds everything ever saved, in order; the *)
(* settings file holds the last of it.  A reading of that file is a save   *)
(* and whether the read succeeded: _load_settings answers one that raised  *)
(* with the defaults, and tells nobody.  config.yaml is represented by the *)
(* reading it was rendered from.                                           *)
(***************************************************************************)
EXTENDS ManagedConfig, FiniteSets

CONSTANTS
    Apps,           \* installed apps
    AppsAt,         \* [paths -> SUBSET Apps]: what discover_apps finds
    Forms,          \* what users post
    FirstSettings,  \* settings files of earlier versions and of none
    Clients,        \* threads that handle a POST /config
    MaxSaves,       \* bound: the number of settings ever saved
    Empty, Mixed,   \* config.yaml truncated; overwritten by a shorter text
    None,
    Faults          \* io: a write may raise; read: so may a read; crash: the
                    \* process may be killed

ASSUME SettingsAssumption ==
    /\ MaxSaves \in Nat \ {0}
    /\ Faults \subseteq {"io", "read", "crash"}
    /\ \A v \in {Empty, Mixed, None} : v \notin [save : Nat, ok : BOOLEAN]
    /\ Empty # Mixed /\ None \notin Clients \cup Apps

VARIABLES
    saves,          \* the settings saved so far
    config,         \* config.yaml: the reading it renders, Empty or Mixed
    up,             \* the process runs and serves requests
    pc, new, doc,   \* [Clients -> handler: where it is; what it is to save;
                    \* the reading it renders]
    bpc, target,    \* a backup: where it is; one app, or None for all
    bconfig, bsettings,     \* what it has read of the two files
    confirmed,      \* history: last save whose POST was answered as done
    alone,          \* history: clients that met no other POST so far
    suspect,        \* history: since the last undisturbed rendering one
                    \* failed, two overlapped, or the settings to render
                    \* could not be read
    floor           \* history: saves and confirmed when the backup began

handlers == <<pc, new, doc>>
backup   == <<bpc, target, bconfig, bsettings, floor>>
vars     == <<saves, config, up, handlers, backup, confirmed, alone, suspect>>

Numbers  == 1 .. MaxSaves
Readings == [save : Numbers, ok : BOOLEAN]
Last     == Len(saves)
Saved    == [save |-> Last, ok |-> TRUE]

\* What a read of the settings file may come to.
SettingsRead ==
    {[save |-> Last, ok |-> ok] :
        ok \in IF "read" \in Faults THEN BOOLEAN ELSE {TRUE}}

\* What _load_settings makes of it.
Settings(reading) ==
    IF reading.ok THEN LoadSettings(saves[reading.save]) ELSE Environment

TypeOK ==
    /\ Len(saves) \in Numbers
    /\ config \in Readings \cup {Empty, Mixed}
    /\ up \in BOOLEAN /\ suspect \in BOOLEAN
    /\ pc \in [Clients -> {"idle", "save", "load", "open", "write"}]
    /\ doc \in [Clients -> Readings \cup {None}]
    /\ bpc \in {"idle", "config", "settings", "discover", "archive"}
    /\ target \in Apps \cup {None}
    /\ bconfig \in Readings \cup {Empty, None}
    /\ bsettings \in Readings \cup {None}
    /\ confirmed \in 0 .. MaxSaves
    /\ alone \subseteq Clients
    /\ floor \in [saved : 0 .. MaxSaves, confirmed : 0 .. MaxSaves]

NoFloor == [saved |-> 0, confirmed |-> 0]

Init ==
    /\ \E first \in FirstSettings : saves = <<first>>
    /\ config = Empty
    /\ up = FALSE
    /\ pc = [c \in Clients |-> "idle"]
    /\ new = [c \in Clients |-> None] /\ doc = [c \in Clients |-> None]
    /\ bpc = "idle" /\ target = None /\ bconfig = None /\ bsettings = None
    /\ confirmed = 0 /\ alone = {} /\ suspect = FALSE /\ floor = NoFloor

\* What load_config makes of contents that are YAML.
Document(contents) ==
    IF contents = Empty THEN NoDocument ELSE RenderConfig(Settings(contents))

\* The file holds what the settings read are rendered to.
Renders(contents, reading) ==
    contents # Mixed /\ Document(contents) = RenderConfig(Settings(reading))

Readable(contents) == contents # Mixed /\ Loads(Document(contents))

Installed(contents) == AppsAt[Loaded(Document(contents)).path]

-----------------------------------------------------------------------------
(* run(): config.yaml is rendered before requests are served.              *)

StartUp ==
    /\ ~up
    /\ up' = TRUE
    /\ config' \in SettingsRead
    /\ suspect' = ~config'.ok
    /\ UNCHANGED <<saves, handlers, backup, confirmed, alone>>

\* write_text raises; the process ends and is started again.
StartUpFails ==
    /\ "io" \in Faults
    /\ ~up
    /\ config' = Empty
    /\ UNCHANGED <<saves, up, handlers, backup, confirmed, alone, suspect>>

Crash ==
    /\ "crash" \in Faults
    /\ up
    /\ up' = FALSE
    /\ pc' = [c \in Clients |-> "idle"]
    /\ new' = [c \in Clients |-> None] /\ doc' = [c \in Clients |-> None]
    /\ bpc' = "idle" /\ target' = None /\ bconfig' = None /\ bsettings' = None
    /\ floor' = NoFloor /\ alone' = {}
    /\ UNCHANGED <<saves, config, confirmed, suspect>>

-----------------------------------------------------------------------------
(* POST /config.  A form that is refused, and one that meets a config.yaml *)
(* that cannot be read, change nothing.                                    *)

Busy == {c \in Clients : pc[c] # "idle"}

Post(c, form) ==
    /\ up /\ pc[c] = "idle"
    /\ Last + Cardinality({d \in Clients : pc[d] = "save"}) < MaxSaves
    /\ Accepts(form)
    /\ Readable(config)
    /\ new' = [new EXCEPT ![c] = SettingsFromForm(form, Installed(config))]
    /\ pc' = [pc EXCEPT ![c] = "save"]
    /\ alone' = IF Busy = {} THEN {c} ELSE {}
    /\ UNCHANGED <<saves, config, up, doc, backup, confirmed, suspect>>

Save(c) ==
    /\ pc[c] = "save"
    /\ Last < MaxSaves
    /\ saves' = Append(saves, new[c])
    /\ new' = [new EXCEPT ![c] = None]
    /\ pc' = [pc EXCEPT ![c] = "load"]
    /\ UNCHANGED <<config, up, doc, backup, confirmed, alone, suspect>>

\* _save_settings raises before its rename.
SaveFails(c) ==
    /\ "io" \in Faults
    /\ pc[c] = "save"
    /\ new' = [new EXCEPT ![c] = None]
    /\ pc' = [pc EXCEPT ![c] = "idle"]
    /\ UNCHANGED <<saves, config, up, doc, backup, confirmed, alone, suspect>>

\* write_managed_config loads the settings that are the last by now, or the
\* defaults if they cannot be read.
LoadToRender(c) ==
    /\ pc[c] = "load"
    /\ \E reading \in SettingsRead : doc' = [doc EXCEPT ![c] = reading]
    /\ pc' = [pc EXCEPT ![c] = "open"]
    /\ UNCHANGED <<saves, config, up, new, backup, confirmed, alone, suspect>>

OpenConfig(c) ==
    /\ pc[c] = "open"
    /\ config' = Empty
    /\ pc' = [pc EXCEPT ![c] = "write"]
    /\ UNCHANGED <<saves, up, new, doc, backup, confirmed, alone, suspect>>

\* The text is written from the beginning of the file: if another thread has
\* written since it was truncated, a longer text sticks out.
Overwritten(reading) ==
    {reading} \cup
    (IF config = Empty \/ Renders(config, reading) THEN {} ELSE {Mixed})

Handled(c) ==
    /\ pc' = [pc EXCEPT ![c] = "idle"]
    /\ doc' = [doc EXCEPT ![c] = None]

\* For mutation: the text stays in the buffer.
WriteNothing(c) ==
    /\ pc[c] = "write"
    /\ confirmed' = doc[c].save
    /\ suspect' = (c \notin alone \/ ~doc[c].ok)
    /\ Handled(c)
    /\ UNCHANGED <<saves, config, up, new, backup, alone>>

\* The POST is answered as done, whether or not the settings could be read.
WriteConfig(c) ==
    /\ pc[c] = "write"
    /\ config' \in Overwritten(doc[c])
    /\ confirmed' = IF c \in alone THEN doc[c].save ELSE confirmed
    /\ suspect' = (c \notin alone \/ ~doc[c].ok)
    /\ Handled(c)
    /\ UNCHANGED <<saves, up, new, backup, alone>>

WriteFails(c) ==
    /\ "io" \in Faults
    /\ pc[c] \in {"open", "write"}
    /\ suspect' = TRUE
    /\ Handled(c)
    /\ UNCHANGED <<saves, config, up, new, backup, confirmed, alone>>

-----------------------------------------------------------------------------
(* A backup: BackupCoordinator.start (which looks up a single app) and     *)
(* _run up to the apps it is going to archive.                             *)

BackupBegins(app) ==
    /\ up /\ bpc = "idle"
    /\ app # None => Readable(config) /\ app \in Installed(config)
    /\ target' = app
    /\ floor' = [saved |-> Last, confirmed |-> confirmed]
    /\ bpc' = "config"
    /\ UNCHANGED <<saves, config, up, handlers, bconfig, bsettings, confirmed,
                   alone, suspect>>

BackupOver ==
    /\ bpc' = "idle"
    /\ target' = None /\ bconfig' = None /\ bsettings' = None
    /\ floor' = NoFloor

\* For mutation: the configuration is loaded once, when the process starts.
LoadedOnce == [save |-> 1, ok |-> TRUE]

\* load_config reads the file anew for every backup.
LoadedNow == config

ReadConfig ==
    /\ bpc = "config"
    /\ Readable(config)
    /\ bconfig' = LoadedNow
    /\ bpc' = IF target = None THEN "settings" ELSE "discover"
    /\ UNCHANGED <<saves, config, up, handlers, target, bsettings, floor,
                   confirmed, alone, suspect>>

\* For mutation: the exclusions are those rendered with config.yaml.
ReadWithConfig ==
    {IF bconfig = Empty THEN [save |-> 1, ok |-> TRUE] ELSE bconfig}

\* For mutation: the exclusions are read first.
ReadAtBegin == {[save |-> floor.saved, ok |-> TRUE]}

\* The settings the backup finds saved, or the defaults, which exclude
\* nothing, if they cannot be read.
ExclusionsRead == SettingsRead

ReadExcluded ==
    /\ bpc = "settings"
    /\ bsettings' \in ExclusionsRead
    /\ bpc' = "discover"
    /\ UNCHANGED <<saves, config, up, handlers, target, bconfig, floor,
                   confirmed, alone, suspect>>

Excluded ==
    IF target = None THEN Settings(bsettings).excluded_apps ELSE {}

\* The apps run_backup goes through.
Chosen ==
    IF target = None THEN Installed(bconfig) \ Excluded
    ELSE Installed(bconfig) \cap {target}

\* With a configuration whose path holds no Runtipi, run_backup raises.
Discover ==
    /\ bpc = "discover"
    /\ Installed(bconfig) # {}
    /\ bpc' = "archive"
    /\ UNCHANGED <<saves, config, up, handlers, target, bconfig, bsettings,
                   floor, confirmed, alone, suspect>>

\* The backup ends, well or not, or the configuration cannot be used: of
\* load_config and discover_apps an error does come out.
BackupEnds ==
    /\ \/ bpc = "config" /\ (~Readable(config) \/ "read" \in Faults)
       \/ bpc = "discover" /\ (Installed(bconfig) = {} \/ "read" \in Faults)
       \/ bpc = "archive"
    /\ BackupOver
    /\ UNCHANGED <<saves, config, up, handlers, confirmed, alone, suspect>>

-----------------------------------------------------------------------------
HandlerStep(c) ==
    \/ Save(c) \/ SaveFails(c) \/ LoadToRender(c) \/ OpenConfig(c)
    \/ WriteConfig(c) \/ WriteFails(c)

BackupStep == ReadConfig \/ ReadExcluded \/ Discover \/ BackupEnds

Next ==
    \/ StartUp \/ StartUpFails \/ Crash
    \/ \E c \in Clients : HandlerStep(c) \/ \E form \in Forms : Post(c, form)
    \/ \E app \in Apps \cup {None} : BackupBegins(app)
    \/ BackupStep

Spec == Init /\ [][Next]_vars

\* Threads are scheduled and docker restarts the container.
FairSpec ==
    /\ Spec
    /\ WF_vars(StartUp)
    /\ \A c \in Clients : WF_vars(HandlerStep(c))

-----------------------------------------------------------------------------
AtRest == up /\ Busy = {}

\* README.md:23-24: with no POST in progress, a readable config.yaml is the
\* rendering of the settings last saved: what the configuration page shows is
\* what a backup uses.
ConfigFollowsSettings == AtRest /\ config # Mixed => Renders(config, Saved)

\* container.py:648-649, 668: the same, unless the last rendering failed,
\* overlapped with another one or was of settings that could not be read; one
\* undisturbed POST, or a restart, repairs it.
ConfigRepaired == AtRest /\ ~suspect => Renders(config, Saved)

\* container.py:207-210: the exclusions of a backup of all apps are read no
\* earlier than the settings its configuration was rendered from.
ExclusionsNotOlder ==
    bpc = "archive" /\ target = None => bsettings.save >= bconfig.save

\* container.py:207, 648-649: a backup goes by a rendering that was loaded no
\* earlier than the last change whose POST was answered before the backup
\* began, and met no other POST; an older config.yaml never gets as far as an
\* app, nor does a truncated one, unless Runtipi lies under the path
\* load_config falls back to.
ConfirmedIsUsed ==
    bpc = "archive" => bconfig # Empty /\ bconfig.save >= floor.confirmed

\* README.md:18-24: such a change, or a later one, is in force: the rendering
\* is of what was saved, and not of the defaults.
ChangeInForce ==
    bpc = "archive" /\ floor.confirmed > 0 =>
        bconfig # Empty /\ bconfig.ok /\ bconfig.save >= floor.confirmed

\* container.py:209-211: an app that was excluded when a backup of all apps
\* began is left alone by it, unless it was admitted again since, or the
\* backup could not read the settings.
ExclusionsHonoured ==
    bpc = "archive" /\ target = None /\ bsettings.ok =>
        \A a \in Chosen : \E n \in floor.saved .. Last :
            a \notin LoadSettings(saves[n]).excluded_apps

\* README.md:18-20: the same, without that last exception: an app that has
\* been excluded is never backed up.
ExclusionsApplied ==
    bpc = "archive" /\ target = None =>
        \A a \in Chosen : \E n \in floor.saved .. Last :
            a \notin LoadSettings(saves[n]).excluded_apps

\* container.py:95-127, loader.py: whatever form the dashboard accepted, the
\* configuration rendered from it, or from the defaults, loads, with their
\* retentions and path, one remote, and both halves of the pipeline kept
\* running.
AcceptedFormsLoad ==
    \A reading \in SettingsRead :
        LET settings == Settings(reading)
            document == RenderConfig(settings)
            cfg == Loaded(document)
        IN  /\ Loads(document)
            /\ cfg.path = settings.runtipi_path
            /\ cfg.schedules = settings.local_retention
            /\ Len(cfg.remotes) = 1
            /\ cfg.remotes[1].schedules = settings.remote_retention
            /\ \A a \in Pipeline : a \in DOMAIN cfg.app_settings
                                   /\ cfg.app_settings[a].keep_running

\* container.py:648-649: a change that was saved reaches config.yaml, itself
\* or superseded by a later one, unless a rendering failed, overlapped or
\* could not read the settings.
ChangesApplied ==
    \A n \in Numbers :
        Last >= n ~> suspect \/ config \in [save : n .. MaxSaves, ok : {TRUE}]
=============================================================================
