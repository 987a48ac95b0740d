------------------------------- MODULE Settings -------------------------------
(***************************************************************************)
(* The settings of the daemon, src/src/config.c and src/include/config.h:  *)
(* their names, built-in values and permitted ranges, and the validation   *)
(* that stands between a configuration file and the daemon.                *)
(*                                                                         *)
(* A double is counted in hundredths, and so is every number of a file.    *)
(* A path is one of a set of texts, of which the model knows what          *)
(* is_safe_absolute_path tests.  Nothing yields a double that is not a     *)
(* number (strtod is only given digits, one point and a sign), so the      *)
(* final test of config_validate, which such a value would fail, is left   *)
(* out; so is the flag "loaded", which nothing reads.                      *)
(***************************************************************************)
EXTENDS Integers

CONSTANTS
    Absolute,           \* the texts that start with a slash
    Climbing,           \* the texts that hold "../"
    DefaultDirectory    \* SPIKE_DUMP_DEFAULT_DIR

ASSUME DirectoryAssumption == DefaultDirectory \in Absolute \ Climbing

Doubles == {"cpu_delta_threshold_pct", "new_process_threshold_pct",
            "mem_pressure_threshold_pct", "cooldown_seconds",
            "sampling_interval_seconds", "memory_baseline_alpha",
            "process_baseline_alpha"}
Sizes == {"mem_drop_threshold_kib", "swap_spike_threshold_kib"}
Counts == {"ring_buffer_capacity", "context_snapshots_per_dump",
           "max_processes_tracked", "top_processes_stored", "log_max_age_days",
           "log_max_count", "log_max_total_size_mib", "cleanup_interval_minutes"}
Numbers == Doubles \union Sizes \union Counts
Detections == {"enable_cpu_detection", "enable_memory_detection",
               "enable_swap_detection"}
Toggles == Detections \union {"aggregate_related_processes", "enable_auto_cleanup"}
Texts == {"output_directory", "trigger_scope", "cleanup_policy"}
SettingNames == Numbers \union Toggles \union Texts

Scopes == {"per_process", "process_group", "parent", "system"}
Policies == {"disabled", "by_age", "by_count", "by_size"}

\* MAX_MEM_DROP_THRESHOLD_MIB and MAX_SWAP_SPIKE_THRESHOLD_MIB, 1 TiB
MaxThresholdMib == 1024 * 1024
MaxThresholdKib == MaxThresholdMib * 1024

\* MAX_LOG_MAX_TOTAL_SIZE_MIB, 100 GiB: the largest of any count
MaxTotalMib == 100 * 1024

\* MIN_ and MAX_ of each number
Allowed(s) ==
    CASE s \in {"cpu_delta_threshold_pct", "new_process_threshold_pct"} -> 10..10000
      [] s \in Sizes -> 1024..MaxThresholdKib
      [] s = "mem_pressure_threshold_pct" -> 5000..10000
      [] s = "cooldown_seconds" -> 10..30000
      [] s = "sampling_interval_seconds" -> 10..1000
      [] s = "ring_buffer_capacity" -> 10..600
      [] s = "context_snapshots_per_dump" -> 1..60
      [] s = "max_processes_tracked" -> 10..1024
      [] s = "top_processes_stored" -> 1..50
      [] s \in {"memory_baseline_alpha", "process_baseline_alpha"} -> 1..90
      [] s = "log_max_age_days" -> 1..365
      [] s = "log_max_count" -> 1..10000
      [] s = "log_max_total_size_mib" -> 1..MaxTotalMib
      [] s = "cleanup_interval_minutes" -> 1..1440

\* config_init_defaults, with the DEFAULT_ of each number
DefaultNumber(s) ==
    CASE s = "cpu_delta_threshold_pct" -> 1000
      [] s = "new_process_threshold_pct" -> 500
      [] s = "mem_drop_threshold_kib" -> 512 * 1024
      [] s = "mem_pressure_threshold_pct" -> 9000
      [] s = "swap_spike_threshold_kib" -> 256 * 1024
      [] s = "cooldown_seconds" -> 500
      [] s = "sampling_interval_seconds" -> 100
      [] s = "ring_buffer_capacity" -> 60
      [] s \in {"context_snapshots_per_dump", "top_processes_stored"} -> 10
      [] s = "max_processes_tracked" -> 512
      [] s = "memory_baseline_alpha" -> 20
      [] s \in {"process_baseline_alpha", "log_max_age_days"} -> 30
      [] s = "log_max_count" -> 100
      [] s = "log_max_total_size_mib" -> 512
      [] s = "cleanup_interval_minutes" -> 60

DefaultText(s) ==
    CASE s = "output_directory" -> DefaultDirectory
      [] s = "trigger_scope" -> "per_process"
      [] s = "cleanup_policy" -> "disabled"

Default(s) ==
    IF s \in Numbers THEN DefaultNumber(s)
    ELSE IF s \in Toggles THEN s \in Detections
    ELSE DefaultText(s)

Defaults == [s \in SettingNames |-> Default(s)]

-------------------------------------------------------------------------------
(* config_validate                                                          *)

is_safe_absolute_path(path) == path \in Absolute \ Climbing

\* What a number out of its range becomes: the default, whatever the side.
Repaired(c) ==
    [s \in SettingNames |->
        IF s \in Numbers /\ c[s] \notin Allowed(s) THEN Default(s) ELSE c[s]]

AtMost(c, s, limit) == IF c[s] > c[limit] THEN [c EXCEPT ![s] = c[limit]] ELSE c

\* Mutant: the context is not compared with the history.
CappedTopOnly(c) == AtMost(Repaired(c), "top_processes_stored", "max_processes_tracked")

\* The cross-checks: each comes after the ranges of both its settings.
Capped(c) ==
    LET d == AtMost(Repaired(c), "context_snapshots_per_dump", "ring_buffer_capacity")
    IN  AtMost(d, "top_processes_stored", "max_processes_tracked")

Housed(c) ==
    IF c.output_directory = "" \/ is_safe_absolute_path(c.output_directory)
    THEN c
    ELSE [c EXCEPT !.output_directory = DefaultDirectory]

Detecting(c) ==
    IF \E d \in Detections : c[d] = TRUE
    THEN c
    ELSE [s \in SettingNames |-> IF s \in Detections THEN TRUE ELSE c[s]]

config_validate(c) == Detecting(Housed(Capped(c)))

\* What the daemon may rely on: every number in its range, no larger a context
\* than the history and no more processes stored than tracked, a directory
\* that is none or safe, and something to detect.
Valid(c) ==
    /\ \A s \in Numbers : c[s] \in Allowed(s)
    /\ c.context_snapshots_per_dump <= c.ring_buffer_capacity
    /\ c.top_processes_stored <= c.max_processes_tracked
    /\ c.output_directory = "" \/ is_safe_absolute_path(c.output_directory)
    /\ \E d \in Detections : c[d] = TRUE
==============================================================================
