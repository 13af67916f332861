---------------------------- MODULE AppSettings ----------------------------
(***************************************************************************)
(* Per-app backup settings (backup/app_settings.py): the docker labels of  *)
(* an app's container are the base layer, backup.app_settings.<app> of     *)
(* config.yaml is the override layer and wins field by field.              *)
(*                                                                         *)
(* A layer is a function from the five fields to a value or Unset.  Text   *)
(* is kept only as far as the code looks at it: a boolean label is its     *)
(* trimmed, lower-cased text; a command is "" or a name; an exclude label  *)
(* is the sequence of its comma-separated parts, <<>> when it is empty.    *)
(***************************************************************************)
LOCAL INSTANCE Functions

CONSTANT Unset      \* Python's None: "not set at this layer"

Fields == {"keep_running", "exclude_patterns", "pre_backup_command",
           "post_backup_command", "restore_command"}

NoOverrides == [f \in Fields |-> Unset]

BoolLabel(value) ==
    IF value = Unset THEN Unset ELSE value \in {"true", "1", "yes"}

\* An empty label is no label; blank parts of a non-empty one are dropped.
ExcludeLabel(parts) ==
    IF parts = Unset \/ parts = <<>> THEN Unset ELSE Range(parts) \ {""}

LabelsToOverrides(labels) ==
    [f \in Fields |->
        CASE f = "keep_running"     -> BoolLabel(labels[f])
          [] f = "exclude_patterns" -> ExcludeLabel(labels[f])
          [] OTHER                  -> labels[f]]

\* For mutation: the layers are swapped.
BaseWins(base, override) ==
    [f \in Fields |-> IF base[f] # Unset THEN base[f] ELSE override[f]]

MergeOverrides(base, override) ==
    [f \in Fields |-> IF override[f] # Unset THEN override[f] ELSE base[f]]

\* The dataclass defaults of ResolvedAppSettings.
Defaults == [NoOverrides EXCEPT !["keep_running"]     = FALSE,
                                !["exclude_patterns"] = {}]

ResolveAppSettings(labels, config) ==
    LET merged == MergeOverrides(LabelsToOverrides(labels), config)
    IN  [f \in Fields |-> IF merged[f] # Unset THEN merged[f] ELSE Defaults[f]]

\* `if settings.pre_backup_command:` -- an empty command switches a hook off.
IsCommand(value) == value \notin {Unset, ""}
=============================================================================
