------------------------------- MODULE MCDaemon -------------------------------
(* One process and the memory, each quiet or in trouble; a configuration    *)
(* with everything enabled and one without CPU triggers, another smoothing  *)
(* factor and another context size.                                         *)
EXTENDS Daemon

Everything ==
    [cpu_delta_threshold_pct |-> 5, new_process_threshold_pct |-> 4,
     mem_drop_threshold |-> 30, mem_pressure_threshold_pct |-> 90,
     swap_spike_threshold |-> 20, cooldown |-> 1, alpha |-> 2,
     trigger_scope |-> "per_process", aggregate_related_processes |-> TRUE,
     enable_cpu |-> TRUE, enable_memory |-> TRUE, enable_swap |-> TRUE,
     context_snapshots_per_dump |-> 2]

MemoryOnly ==
    [Everything EXCEPT !.alpha = 10, !.cooldown = 2, !.enable_cpu = FALSE,
                       !.enable_swap = FALSE, !.context_snapshots_per_dump = 3]

MCSettings == {Everything, MemoryOnly}

Sampled(known, cpu, listed, available) ==
    [samples |-> <<[pid |-> 1, pgid |-> 2, ppid |-> 0, valid |-> TRUE,
                    sample_count |-> IF known THEN 3 ELSE 2, cpu_pct |-> cpu,
                    baseline_cpu_pct |-> IF known THEN 1 ELSE 0, rss |-> 1]>>,
     listed |-> listed,
     mem |-> [total |-> 100, available |-> available, swap_total |-> 0, swap_used |-> 0]]

MCCollected ==
    {Sampled(TRUE, 0, {1}, 50), Sampled(TRUE, 9, {1}, 50), Sampled(TRUE, 9, {1}, 5),
     Sampled(FALSE, 4, {}, 5)}
==============================================================================
