--------------------------- MODULE ManagedConfig ---------------------------
(***************************************************************************)
(* The way of a setting from the dashboard's form to the configuration a   *)
(* backup runs with: _settings_from_form, _load_settings and               *)
(* write_managed_config of container.py, load_config of config/loader.py.  *)
(*                                                                         *)
(* A text is a member of a small set; what the code asks of it (is it      *)
(* absolute, does it name a remote) is membership in one of the constants. *)
(* A YAML mapping is a record; a key that is absent is not in its DOMAIN.  *)
(***************************************************************************)
EXTENDS Naturals, Sequences

CONSTANTS
    Schedules,      \* daily, weekly, monthly, yearly
    Environment,    \* _default_settings: what the installation form gave; its
                    \* numbers are numbers, without which run() raises before
                    \* anything is served
    Absolute,       \* paths that are absolute
    Targets,        \* texts of the form remote:path
    Endpoints,      \* http, https and unix URLs
    ApiUsername,    \* RCLONE_API_USERNAME, stripped
    Unset           \* a field of the configuration that is None

ConfigVersion == 4
Pipeline == {"runtipi-companion", "rclone"}
NoDocument == <<>>                          \* what an empty file parses to

Field(mapping, key, default) ==
    IF key \in DOMAIN mapping THEN mapping[key] ELSE default

\* `left.update(right)` for the keys of left.
Updated(left, right) == [k \in DOMAIN left |-> Field(right, k, left[k])]

-----------------------------------------------------------------------------
(* From the form to the settings.                                          *)

\* Trailing slashes are stripped; what is left of "/" is read as "/".
RuntipiPath(form) ==
    IF form.runtipi_path = "" THEN "/" ELSE form.runtipi_path

\* For mutation: the backup target is not looked at.
AnyTarget(form) == TRUE

NamesRemote(form) == form.rclone_remote \in Targets

\* Anything else is answered with 400.
Accepts(form) ==
    /\ form.backup_hour \in 0 .. 23
    /\ \A s \in Schedules : /\ form.local_retention[s] \in 1 .. 1000
                            /\ form.remote_retention[s] \in 1 .. 1000
    /\ NamesRemote(form)
    /\ form.rclone_api_url \in Endpoints
    /\ RuntipiPath(form) \in Absolute

SettingsFromForm(form, installed) ==
    [form EXCEPT !.runtipi_path      = RuntipiPath(form),
                 !.enabled_schedules = @ \cap Schedules,
                 !.excluded_apps     = @ \cap installed]

\* The saved settings over those of the environment, the two retentions
\* schedule by schedule.
LoadSettings(saved) ==
    [Updated(Environment, saved) EXCEPT
        !.local_retention  = Updated(Environment.local_retention,
                                     Field(saved, "local_retention", NoDocument)),
        !.remote_retention = Updated(Environment.remote_retention,
                                     Field(saved, "remote_retention", NoDocument))]

-----------------------------------------------------------------------------
(* From the settings to config.yaml and back.                              *)

RenderConfig(settings) ==
    [version |-> ConfigVersion,
     runtipi |-> [path |-> settings.runtipi_path, apps |-> <<>>],
     backup  |->
        [stop_apps    |-> TRUE,
         schedules    |-> settings.local_retention,
         remotes      |-> <<[name             |-> "rclone-api",
                             rclone_remote    |-> settings.rclone_remote,
                             api_url          |-> settings.rclone_api_url,
                             api_username     |-> ApiUsername,
                             api_password_env |-> "RCLONE_API_PASSWORD",
                             schedules        |-> settings.remote_retention]>>,
         app_settings |-> [a \in Pipeline |-> [keep_running |-> TRUE]]]]

ApiFields == {"api_url", "api_username", "api_password_env"}

\* An empty text counts as not given.
Given(mapping, key) == Field(mapping, key, "") \notin {"", Unset}

SchedulesKnown(schedules) == DOMAIN schedules \subseteq Schedules

RemoteIsSound(remote) ==
    LET schedules == Field(remote, "schedules", NoDocument)
        api == {f \in ApiFields : Given(remote, f)}
    IN  /\ Given(remote, "name") /\ Given(remote, "rclone_remote")
        /\ SchedulesKnown(schedules) /\ DOMAIN schedules # {}
        /\ api \in {{}, ApiFields}

NamesDiffer(remotes) ==
    \A i, j \in DOMAIN remotes : remotes[i].name = remotes[j].name => i = j

\* The defaults of RuntipiConfig, BackupConfig and ScheduleConfig.
DefaultPath == "/opt/runtipi"
DefaultRetention == [s \in Schedules |-> 3]

\* For mutation: the settings of single apps are not read.
NoAppSettings(backup) == NoDocument

AppSettingsOf(backup) == Field(backup, "app_settings", NoDocument)

Loaded(document) ==
    LET runtipi == Field(document, "runtipi", NoDocument)
        backup  == Field(document, "backup", NoDocument)
        local   == Field(backup, "schedules", NoDocument)
    IN  [path         |-> Field(runtipi, "path", DefaultPath),
         stop_apps    |-> Field(backup, "stop_apps", TRUE),
         schedules    |-> IF DOMAIN local = {} THEN DefaultRetention ELSE local,
         remotes      |-> Field(backup, "remotes", <<>>),
         app_settings |-> AppSettingsOf(backup)]

\* load_config returns, and does not raise ConfigError.
Loads(document) ==
    LET cfg == Loaded(document)
    IN  /\ Field(document, "version", 1) <= ConfigVersion
        /\ SchedulesKnown(cfg.schedules)
        /\ \A i \in DOMAIN cfg.remotes : RemoteIsSound(cfg.remotes[i])
        /\ NamesDiffer(cfg.remotes)
        /\ cfg.path \in Absolute
=============================================================================
