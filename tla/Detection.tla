------------------------------ MODULE Detection -------------------------------
(***************************************************************************)
(* src/src/anomaly_detector.c: one evaluation of the process samples and   *)
(* the memory reading of a snapshot.                                       *)
(*                                                                         *)
(* Percentages, KiB and the clock are integers; the smoothing factor is a  *)
(* number of tenths.  A process is its pid, its group, its parent, how     *)
(* many samples of it were seen, its CPU usage and baseline, and its RSS.  *)
(***************************************************************************)
EXTENDS CooldownTable

ProcSample ==
    [pid : Int, pgid : Int, ppid : Int, valid : BOOLEAN, sample_count : Nat,
     cpu_pct : Int, baseline_cpu_pct : Int, rss : Nat]

None == [type |-> "NONE", spike_pid |-> 0, scope_key |-> 0]

ScopeKey(s, scope) ==
    CASE scope = "process_group" -> s.pgid
      [] scope = "parent" -> s.ppid
      [] scope = "system" -> 0
      [] OTHER -> s.pid

-------------------------------------------------------------------------------
(* evaluate_cpu                                                             *)

IsNew(s) == s.sample_count <= 2

\* The samples whose cooldown is consulted: new processes above the
\* threshold, and every process that is not new.
Consults(cfg, s) ==
    s.valid /\ (IsNew(s) => s.cpu_pct >= cfg.new_process_threshold_pct)

CooldownKey(cfg, s) ==
    IF IsNew(s) /\ cfg.aggregate_related_processes
    THEN s.pgid
    ELSE ScopeKey(s, cfg.trigger_scope)

Spike(s) == IF IsNew(s) THEN s.cpu_pct ELSE s.cpu_pct - s.baseline_cpu_pct

Exceeds(cfg, s) ==
    Consults(cfg, s) /\ (~IsNew(s) => Spike(s) >= cfg.cpu_delta_threshold_pct)

\* Mutant: the last sample above its threshold, not the worst.
ConsiderLast(cfg, at, scan, s) ==
    IF ~Consults(cfg, s) THEN scan
    ELSE [table |-> AfterConsult(scan.table, CooldownKey(cfg, s), at, cfg.cooldown),
          worst |->
              IF /\ ~IsActive(scan.table, CooldownKey(cfg, s), at, cfg.cooldown)
                 /\ Exceeds(cfg, s)
              THEN <<s>> ELSE scan.worst]

\* One pass of the loop.  worst holds the worst sample so far, if any.
Consider(cfg, at, scan, s) ==
    IF ~Consults(cfg, s) THEN scan
    ELSE [table |-> AfterConsult(scan.table, CooldownKey(cfg, s), at, cfg.cooldown),
          worst |->
              IF /\ ~IsActive(scan.table, CooldownKey(cfg, s), at, cfg.cooldown)
                 /\ Exceeds(cfg, s)
                 /\ Spike(s) > (IF scan.worst = << >> THEN 0 ELSE Spike(scan.worst[1]))
              THEN <<s>> ELSE scan.worst]

\* The loop, after its first n samples.
CpuScan(cfg, table, samples, at) ==
    LET scan[n \in 0..Len(samples)] ==
            IF n = 0 THEN [table |-> table, worst |-> << >>]
            ELSE Consider(cfg, at, scan[n - 1], samples[n])
    IN  scan

EvaluateCpu(cfg, table, samples, at) ==
    LET scan == CpuScan(cfg, table, samples, at)[Len(samples)]
    IN  IF scan.worst = << >>
        THEN [table |-> scan.table, result |-> None]
        ELSE LET w == scan.worst[1]
                 key == CooldownKey(cfg, w)
             IN  [table |-> Record(scan.table, key, at),
                  result |->
                      [type |-> IF IsNew(w) THEN "CPU_NEW_PROC" ELSE "CPU_DELTA",
                       spike_pid |-> w.pid, scope_key |-> key]]

-------------------------------------------------------------------------------
(* evaluate_mem and evaluate_swap watch one number against its baseline in  *)
(* the same way.                                                            *)

Smoothed(cfg, value, baseline) ==
    (cfg.alpha * value + (10 - cfg.alpha) * baseline) \div 10

\* Mutant: the cooldown of another unit of time.
InCooldownBriefly(cfg, gauge, at) ==
    /\ gauge.last_trigger_ns > 0 /\ at > gauge.last_trigger_ns
    /\ at - gauge.last_trigger_ns < cfg.cooldown \div 2

InCooldown(cfg, gauge, at) ==
    /\ gauge.last_trigger_ns > 0 /\ at > gauge.last_trigger_ns
    /\ at - gauge.last_trigger_ns < cfg.cooldown

\* Mutant: the baseline stands still during a cooldown.
WatchHoldingBaseline(cfg, gauge, value, type, at) ==
    IF ~gauge.initialized THEN [gauge EXCEPT !.baseline = value, !.initialized = TRUE]
    ELSE IF InCooldown(cfg, gauge, at) THEN gauge
    ELSE [gauge EXCEPT !.baseline = Smoothed(cfg, value, @),
                       !.last_trigger_ns = IF type = "NONE" THEN @ ELSE at]

\* Mutant: the first reading, which nothing can be judged against, starts a
\* cooldown.
WatchFromTheFirst(cfg, gauge, value, type, at) ==
    [gauge EXCEPT !.baseline = IF gauge.initialized THEN Smoothed(cfg, value, @) ELSE value,
                  !.initialized = TRUE,
                  !.last_trigger_ns =
                      IF type = "NONE" \/ InCooldown(cfg, gauge, at) THEN @ ELSE at]

\* The gauge after a reading, type being what the reading shows against the
\* baseline when neither the first sample nor a cooldown hides it.
Watch(cfg, gauge, value, type, at) ==
    IF ~gauge.initialized THEN [gauge EXCEPT !.baseline = value, !.initialized = TRUE]
    ELSE [gauge EXCEPT !.baseline = Smoothed(cfg, value, @),
                       !.last_trigger_ns =
                           IF type = "NONE" \/ InCooldown(cfg, gauge, at) THEN @ ELSE at]

Reported(cfg, gauge, type, at) ==
    IF gauge.initialized /\ ~InCooldown(cfg, gauge, at) THEN type ELSE "NONE"

\* A drop below the baseline outranks pressure.
MemoryType(cfg, gauge, mem) ==
    CASE /\ mem.available < gauge.baseline
         /\ gauge.baseline - mem.available >= cfg.mem_drop_threshold -> "MEM_DROP"
      [] OTHER ->
         IF 100 * (mem.total - mem.available) >= cfg.mem_pressure_threshold_pct * mem.total
         THEN "MEM_PRESSURE" ELSE "NONE"

SwapType(cfg, gauge, mem) ==
    IF /\ mem.swap_used > gauge.baseline
       /\ mem.swap_used - gauge.baseline >= cfg.swap_spike_threshold
    THEN "SWAP_SPIKE" ELSE "NONE"

\* The anomaly is put down to the first process with the largest RSS.
Attributed(cfg, samples, type) ==
    LET Resident == {i \in DOMAIN samples : samples[i].valid /\ samples[i].rss > 0}
        Largest == {i \in Resident : \A j \in Resident :
                       \/ samples[i].rss > samples[j].rss
                       \/ samples[i].rss = samples[j].rss /\ i <= j}
    IN  IF type = "NONE" \/ Largest = {} THEN [None EXCEPT !.type = type]
        ELSE LET top == samples[CHOOSE i \in Largest : TRUE]
             IN  [type |-> type, spike_pid |-> top.pid,
                  scope_key |-> ScopeKey(top, cfg.trigger_scope)]

EvaluateMem(cfg, gauge, samples, mem, at) ==
    IF mem.total = 0 THEN [gauge |-> gauge, result |-> None]
    ELSE LET type == MemoryType(cfg, gauge, mem)
         IN  [gauge |-> Watch(cfg, gauge, mem.available, type, at),
              result |-> Attributed(cfg, samples, Reported(cfg, gauge, type, at))]

EvaluateSwap(cfg, gauge, samples, mem, at) ==
    IF mem.swap_total = 0 THEN [gauge |-> gauge, result |-> None]
    ELSE LET type == SwapType(cfg, gauge, mem)
         IN  [gauge |-> Watch(cfg, gauge, mem.swap_used, type, at),
              result |-> Attributed(cfg, samples, Reported(cfg, gauge, type, at))]

-------------------------------------------------------------------------------
Gauge0 == [baseline |-> 0, initialized |-> FALSE, last_trigger_ns |-> 0]

\* anomaly_state_init.
InitialState == [cooldowns |-> << >>, mem |-> Gauge0, swap |-> Gauge0]

\* anomaly_evaluate: every kind is evaluated, whichever is returned.
Evaluate(cfg, st, samples, mem, at) ==
    LET c == EvaluateCpu(cfg, st.cooldowns, samples, at)
        m == EvaluateMem(cfg, st.mem, samples, mem, at)
        s == EvaluateSwap(cfg, st.swap, samples, mem, at)
    IN  [state |-> [cooldowns |-> c.table, mem |-> m.gauge, swap |-> s.gauge],
         result |-> IF c.result.type # "NONE" THEN c.result
                    ELSE IF m.result.type # "NONE" THEN m.result
                    ELSE s.result]
==============================================================================
