-------------------------- MODULE MCAnomalyDetector --------------------------
(* Three processes, absent, quiet or spiking, two of them of one group, and  *)
(* the third always new, over a table of two; or one process and memory and *)
(* swap that drop and fill.  Windows of two and three instants, three scopes.*)
EXTENDS AnomalyDetector

Under(scope, agg, window) ==
    [cpu_delta_threshold_pct |-> 5, new_process_threshold_pct |-> 4,
     mem_drop_threshold |-> 30, mem_pressure_threshold_pct |-> 90,
     swap_spike_threshold |-> 20, cooldown |-> window, alpha |-> 5,
     trigger_scope |-> scope, aggregate_related_processes |-> agg]

MCConfig ==
    {Under("per_process", FALSE, 2), Under("process_group", FALSE, 2), Under("parent", TRUE, 3)}

Sample(p, known, cpu) ==
    [pid |-> p, pgid |-> IF p = 2 THEN 1 ELSE p, ppid |-> p - 1, valid |-> TRUE,
     sample_count |-> IF known THEN 3 ELSE 2,
     cpu_pct |-> cpu, baseline_cpu_pct |-> IF known THEN 1 ELSE 0, rss |-> p]

Seen(p) == {<< >>, <<Sample(p, TRUE, 1)>>, <<Sample(p, TRUE, 9 - p)>>}

MCSamples == {a \o b \o c : a \in Seen(1), b \in Seen(2), c \in {<< >>, <<Sample(3, FALSE, 7)>>}}

Reading(available, swap_used) ==
    [total |-> 100, available |-> available, swap_total |-> 50, swap_used |-> swap_used]

Unreadable == [total |-> 0, available |-> 0, swap_total |-> 0, swap_used |-> 0]

MCInputs ==
    [samples : MCSamples, mem : {Unreadable}]
    \union [samples : {<< >>, <<Sample(1, TRUE, 6)>>},
            mem : {Reading(90, 0), Reading(90, 30), Reading(5, 30)}]
==============================================================================
