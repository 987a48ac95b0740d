--------------------------- MODULE AnomalyDetector ---------------------------
(***************************************************************************)
(* The detector from one evaluation to the next: src/src/anomaly_detector.c *)
(* under one configuration, on any samples and readings.                   *)
(*                                                                         *)
(* reported, told and crowded are history: they record what the detector   *)
(* answered, and no action reads them.                                     *)
(***************************************************************************)
EXTENDS Detection, FiniteSets

CONSTANTS
    Config,     \* the anomaly_config_t values
    Inputs,     \* what a collection may bring: process samples, a memory reading
    MaxClock    \* bound: the last instant

ASSUME ConfigAssumption == \A c \in Config : c.cooldown \in Nat /\ c.alpha \in 0..10
ASSUME InputsAssumption ==
    \A input \in Inputs :
        /\ input.samples \in Seq(ProcSample)
        /\ input.mem \in [total : Nat, available : Nat, swap_total : Nat, swap_used : Nat]

VARIABLES
    config,     \* the configuration in force since the last anomaly_state_init
    state,      \* anomaly_state_t
    clock,      \* the timestamp of the snapshot being evaluated
    input,      \* the samples and the reading last evaluated
    result,     \* what anomaly_evaluate returned for them
    reported,   \* history: scope key -> the time of its last CPU anomaly
    told,       \* history: the times of the last memory and swap anomalies, 0
                \* for none
    crowded     \* history: more keys than the table has slots have been inside
                \* their windows at once

detectorVars == <<config, state, clock, input, result, reported, told, crowded>>

CpuTypes == {"CPU_DELTA", "CPU_NEW_PROC"}
MemTypes == {"MEM_DROP", "MEM_PRESSURE"}

\* The keys whose last report is less than a window old.
QuietAt(reports, now) == {k \in DOMAIN reports : now - reports[k] < config.cooldown}
Quiet == QuietAt(reported, clock)

DetectorInit ==
    /\ config \in Config
    /\ state = InitialState
    /\ clock = 1
    /\ input = << >>
    /\ result = None
    /\ reported = << >>
    /\ told = [mem |-> 0, swap |-> 0]
    /\ crowded = FALSE

EvaluateNext(new) ==
    LET e == Evaluate(config, state, new.samples, new.mem, clock + 1)
        key == e.result.scope_key
    IN
    /\ clock < MaxClock
    /\ clock' = clock + 1
    /\ state' = e.state
    /\ result' = e.result
    /\ input' = new
    /\ reported' =
          IF e.result.type \in CpuTypes
          THEN [k \in DOMAIN reported \union {key} |->
                   IF k = key THEN clock + 1 ELSE reported[k]]
          ELSE reported
    /\ told' = [mem |-> IF e.result.type \in MemTypes THEN clock + 1 ELSE told.mem,
                swap |-> IF e.result.type = "SWAP_SPIKE" THEN clock + 1 ELSE told.swap]
    /\ crowded' = (crowded \/ Cardinality(QuietAt(reported', clock')) > TableSize)
    /\ UNCHANGED config

DetectorNext == \E new \in Inputs : EvaluateNext(new)

DetectorSpec == DetectorInit /\ [][DetectorNext]_detectorVars

-------------------------------------------------------------------------------
GaugeState == [baseline : Nat, initialized : BOOLEAN, last_trigger_ns : Nat]

\* The table never outgrows its array.
TypeOK ==
    /\ config \in Config /\ clock \in Nat \ {0} /\ crowded \in BOOLEAN
    /\ state \in [cooldowns : Seq([scope_key : Int, last_trigger_ns : Nat]),
                  mem : GaugeState, swap : GaugeState]
    /\ Len(state.cooldowns) <= TableSize
    /\ DOMAIN reported \subseteq Int /\ \A k \in DOMAIN reported : reported[k] \in Nat
    /\ told \in [mem : Nat, swap : Nat]

\* No key has two entries, so the swap that deletes one never revives an
\* older one and cooldown_find's first match is its only one.
KeysDistinct ==
    \A i, j \in 1..Len(state.cooldowns) :
        state.cooldowns[i].scope_key = state.cooldowns[j].scope_key => i = j

\* A key inside its window has its entry, whatever the loop deletes and moves
\* and whatever a full table evicts: an expired entry always goes before a live
\* one.  Only when more keys than the table holds were inside their windows at
\* once can one be missing.
QuietAreHeld == ~crowded => \A k \in Quiet : Has(state.cooldowns, k)

Spaced ==
    result'.type \in CpuTypes /\ result'.scope_key \in DOMAIN reported /\ ~crowded
        => clock' - reported[result'.scope_key] >= config.cooldown

\* "Minimum time to wait before triggering again for the same
\* anomaly/process" (README.md:201): the CPU anomalies reported for a key are
\* so spaced, until more keys than the table holds were quiet at once.
ReportsSpaced == [][Spaced]_detectorVars

\* The sample an evaluation may report: above its threshold, not in cooldown
\* when the evaluation began.
Eligible(i) ==
    LET s == input'.samples[i] IN
    /\ Exceeds(config, s) /\ Spike(s) > 0
    /\ ~IsActive(state.cooldowns, CooldownKey(config, s), clock', config.cooldown)

ReportsWorst ==
    LET I == {i \in DOMAIN input'.samples : Eligible(i)}
        Cpu == result'.type \in CpuTypes
    IN  /\ Cpu <=> I # {}
        /\ Cpu => \E i \in I :
              /\ input'.samples[i].pid = result'.spike_pid
              /\ \A j \in I : Spike(input'.samples[j]) <= Spike(input'.samples[i])

\* A CPU anomaly is reported exactly when some process outside its cooldown
\* spikes, and then for the worst of those: the deletions and swaps that the
\* loop makes in the table as it goes never hide or reveal another sample.
WorstIsReported == [][ReportsWorst]_detectorVars

Follows ==
    input'.mem.total > 0 =>
        state'.mem.baseline =
            IF state.mem.initialized
            THEN Smoothed(config, input'.mem.available, state.mem.baseline)
            ELSE input'.mem.available

\* "Evaluate ALL anomaly types to ensure baselines are always updated": the
\* memory baseline follows every reading, during its cooldown, beside a CPU
\* anomaly, and after one of its own.
BaselineFollows == [][Follows]_detectorVars

Apart ==
    /\ result'.type \in MemTypes /\ told.mem > 0 => clock' - told.mem >= config.cooldown
    /\ result'.type = "SWAP_SPIKE" /\ told.swap > 0 => clock' - told.swap >= config.cooldown

\* The memory anomalies reported, drop and pressure taken together, are a
\* cooldown apart, and so are those of swap; also across some that a CPU
\* anomaly hid, which start a cooldown too.
MemorySpaced == [][Apart]_detectorVars

Outranked ==
    /\ state'.mem.last_trigger_ns # state.mem.last_trigger_ns =>
           result'.type \in CpuTypes \union MemTypes
    /\ state'.swap.last_trigger_ns # state.swap.last_trigger_ns => result'.type # "NONE"

\* A gauge that starts its cooldown is not silenced for nothing: its anomaly is
\* reported, or one of a higher rank is.
OnlyOutrankedAreLost == [][Outranked]_detectorVars
==============================================================================
