------------------------------ MODULE ProcTable -------------------------------
(***************************************************************************)
(* The process table, src/src/proc.c: what one collection remembers of the *)
(* processes so that the next can tell their CPU usage, and what it lists  *)
(* in the snapshot.  Processes run, start and exit at any time, also       *)
(* between the reading of the system's ticks and the scan of /proc, and    *)
(* while the scan goes on.                                                 *)
(*                                                                         *)
(* Usages are rounded down, the smoothing factor is a number of tenths,    *)
(* and a process's resident set grows with its pid.                        *)
(***************************************************************************)
EXTENDS FiniteSets, Functions, Integers, Sequences

CONSTANTS
    Pid,            \* process numbers
    MaxTracked,     \* PROC_MAX_TRACKED, 512 in the code
    MaxProcs,       \* MAX_PROCS, 10 in the code
    MaxSeen,        \* where the uint8 sample_count stops, 255 in the code
    Whole,          \* how fine a usage is: 100% in its units
    Settings,       \* process_baseline_alpha and top_processes_stored
    MaxTotal        \* bound: the system's ticks

ASSUME MaxTrackedAssumption == MaxTracked \in Nat \ {0}
ASSUME MaxProcsAssumption == MaxProcs \in Nat \ {0}
ASSUME PidAssumption == Pid \subseteq Nat \ {0}
ASSUME MaxSeenAssumption == MaxSeen \in Nat \ {0}
ASSUME WholeAssumption == Whole \in Nat
ASSUME SettingsAssumption == \A s \in Settings : s.alpha \in 0..10 /\ s.limit \in Nat

VARIABLES
    ticks,      \* the world: running process -> its ticks
    total,      \*            the ticks of the system
    pc,         \* "idle" between collections, "scan" from the reading of the
                \* system's ticks to the end of the scan of /proc
    curr_total, \* curr_total_ticks of the collection under way
    pid,        \* the process that its scan read last, 0 before the first
    curr_samples,
    samples, last_total_ticks, baseline_alpha, top_processes_limit,
    listed,     \* the pids of the snapshot: by CPU and by RSS
    streak,     \* history: pid -> collections in a row that kept it, up to
                \* MaxSeen
    sampledAt,  \* history: the system's ticks when samples was filled
    emptied,    \* history: since samples was filled, a scan could read nothing
    peak        \* history: the largest usage that the scan has read

world == <<ticks, total>>
collection == <<pc, curr_total, pid, curr_samples, peak>>
context == <<samples, last_total_ticks, baseline_alpha, top_processes_limit>>
history == <<streak, sampledAt, emptied>>
vars == <<world, collection, context, listed, history>>

NothingListed == [cpu |-> << >>, rss |-> << >>]

\* proc_context_init.
Init ==
    /\ ticks = [p \in {} |-> 0] /\ total = 1
    /\ pc = "idle" /\ curr_total = 0 /\ pid = 0 /\ curr_samples = << >> /\ peak = 0
    /\ samples = << >> /\ last_total_ticks = 0
    /\ baseline_alpha = 3 /\ top_processes_limit = MaxProcs
    /\ listed = NothingListed
    /\ streak = [p \in Pid |-> 0]
    /\ sampledAt = 0 /\ emptied = FALSE

-------------------------------------------------------------------------------
(* The world                                                                *)

Runs(p) ==
    /\ p \in DOMAIN ticks /\ total < MaxTotal
    /\ ticks' = [ticks EXCEPT ![p] = @ + 1] /\ total' = total + 1
    /\ UNCHANGED <<collection, context, listed, history>>

Idles ==
    /\ total < MaxTotal /\ total' = total + 1
    /\ UNCHANGED <<ticks, collection, context, listed, history>>

\* A pid may be one that an earlier process had.
Starts(p) ==
    /\ p \notin DOMAIN ticks
    /\ ticks' = [q \in DOMAIN ticks \union {p} |-> IF q = p THEN 0 ELSE ticks[q]]
    /\ UNCHANGED <<total, collection, context, listed, history>>

Exits(p) ==
    /\ p \in DOMAIN ticks
    /\ ticks' = [q \in DOMAIN ticks \ {p} |-> ticks[q]]
    /\ UNCHANGED <<total, collection, context, listed, history>>

-------------------------------------------------------------------------------
(* proc_collect_snapshot                                                    *)

\* read_total_system_ticks, 0 when /proc/stat cannot be read.
ReadTotal ==
    /\ pc = "idle"
    /\ curr_total' \in {total, 0}
    /\ listed' = NothingListed
    /\ pc' = "scan"
    /\ UNCHANGED <<world, pid, curr_samples, peak, context, history>>

TickDelta == IF curr_total > last_total_ticks THEN curr_total - last_total_ticks ELSE 0

\* find_prev_sample: whether the last collection kept the process, and as what.
Known(p) == \E i \in DOMAIN samples : samples[i].pid = p
Previous(p) == samples[CHOOSE i \in DOMAIN samples : samples[i].pid = p]

CpuPct(p) ==
    IF /\ Known(p) /\ last_total_ticks > 0 /\ TickDelta > 0
       /\ ticks[p] >= Previous(p).ticks
    THEN (Whole * (ticks[p] - Previous(p).ticks)) \div TickDelta
    ELSE 0

Baseline(p) ==
    IF Known(p)
    THEN (baseline_alpha * CpuPct(p)
          + (10 - baseline_alpha) * Previous(p).baseline_cpu_pct) \div 10
    ELSE CpuPct(p)

\* Mutant: sample_count wraps.
SampleUnsaturated(p) ==
    [pid |-> p, ticks |-> ticks[p], cpu_pct |-> CpuPct(p), baseline_cpu_pct |-> Baseline(p),
     sample_count |-> IF Known(p) THEN (Previous(p).sample_count + 1) % (MaxSeen + 1) ELSE 1]

\* One more, up to the largest number of its type.
Counted(n) == IF n < MaxSeen THEN n + 1 ELSE MaxSeen

\* One process: against its previous sample, if there is one.
Sample(p) ==
    [pid |-> p, ticks |-> ticks[p], cpu_pct |-> CpuPct(p), baseline_cpu_pct |-> Baseline(p),
     sample_count |-> IF Known(p) THEN Counted(Previous(p).sample_count) ELSE 1]

\* What qsort may make of a table, by CPU share and by resident set.
Reordered(seq) ==
    {[i \in DOMAIN seq |-> seq[order[i]]] : order \in Bijection(DOMAIN seq, DOMAIN seq)}

SortedByCpu(seq) ==
    {q \in Reordered(seq) : \A i, j \in DOMAIN q : i < j =>
        \/ q[i].cpu_pct > q[j].cpu_pct
        \/ q[i].cpu_pct = q[j].cpu_pct /\ q[i].pid > q[j].pid}

SortedByRss(seq) ==
    {q \in Reordered(seq) : \A i, j \in DOMAIN q : i < j => q[i].pid > q[j].pid}

\* Mutant: a full table always replaces its last place.
StoredOver(kept, s) ==
    IF Len(kept) < MaxTracked THEN {Append(kept, s)}
    ELSE SortedByCpu([kept EXCEPT ![MaxTracked] = s])

\* While there is room a sample is stored; then it takes the last place if it
\* is above the sample there, and the table is sorted.
Stored(kept, s) ==
    IF Len(kept) < MaxTracked THEN {Append(kept, s)}
    ELSE IF s.cpu_pct > kept[MaxTracked].cpu_pct
    THEN SortedByCpu([kept EXCEPT ![MaxTracked] = s])
    ELSE {kept}

\* /proc lists processes by their number.  One that has exited, or whose files
\* cannot be read, is passed over.
ScanProcess(p) ==
    /\ pc = "scan" /\ p > pid /\ p \in DOMAIN ticks
    /\ pid' = p
    /\ curr_samples' \in Stored(curr_samples, Sample(p))
    /\ peak' = IF CpuPct(p) > peak THEN CpuPct(p) ELSE peak
    /\ UNCHANGED <<world, pc, curr_total, context, listed, history>>

\* The collection is over, whichever way.
Return == pc' = "idle" /\ curr_total' = 0 /\ pid' = 0 /\ curr_samples' = << >> /\ peak' = 0

Pids(seq, n) == [i \in 1..(IF Len(seq) < n THEN Len(seq) ELSE n) |-> seq[i].pid]

Tracked(p) == \E i \in DOMAIN curr_samples : curr_samples[i].pid = p

\* The scan is over: the busiest and the largest are listed, and the context
\* remembers them all.
ScanEnds ==
    /\ pc = "scan" /\ curr_samples # << >>
    /\ \E byCpu \in SortedByCpu(curr_samples) : \E byRss \in SortedByRss(byCpu) :
        /\ listed' = [cpu |-> Pids(byCpu, top_processes_limit),
                      rss |-> Pids(byRss, top_processes_limit)]
        /\ samples' = byRss
    /\ last_total_ticks' = curr_total
    /\ Return
    /\ streak' = [p \in Pid |-> IF Tracked(p) THEN Counted(streak[p]) ELSE 0]
    /\ sampledAt' = curr_total /\ emptied' = FALSE
    /\ UNCHANGED <<world, baseline_alpha, top_processes_limit>>

\* Nothing could be read: the ticks are taken over, the samples are not.
ScanNothing ==
    /\ pc = "scan" /\ curr_samples = << >>
    /\ last_total_ticks' = curr_total
    /\ Return
    /\ emptied' = TRUE
    /\ UNCHANGED <<world, samples, baseline_alpha, top_processes_limit, listed,
                   streak, sampledAt>>

\* Mutant: a failed collection takes the ticks over.
OpenFailsTakingTicks ==
    /\ pc = "scan" /\ pid = 0
    /\ last_total_ticks' = curr_total
    /\ Return
    /\ UNCHANGED <<world, samples, baseline_alpha, top_processes_limit, listed,
                   streak, sampledAt, emptied>>

\* The scratch table cannot be allocated or /proc not opened: the context
\* stays as it is, and the snapshot lists nothing.
OpenFails ==
    /\ pc = "scan" /\ pid = 0
    /\ Return
    /\ UNCHANGED <<world, context, listed, history>>

\* snapshot_builder_set_baseline_alpha, snapshot_builder_set_top_processes_limit.
Configure(settings) ==
    /\ pc = "idle"
    /\ baseline_alpha' = settings.alpha
    /\ top_processes_limit' = IF settings.limit > MaxProcs THEN MaxProcs
                              ELSE IF settings.limit = 0 THEN 1 ELSE settings.limit
    /\ UNCHANGED <<world, collection, samples, last_total_ticks, listed, history>>

Next ==
    \/ \E p \in Pid : Runs(p) \/ Starts(p) \/ Exits(p) \/ ScanProcess(p)
    \/ Idles
    \/ ReadTotal
    \/ ScanEnds \/ ScanNothing \/ OpenFails
    \/ \E settings \in Settings : Configure(settings)

Spec == Init /\ [][Next]_vars
-------------------------------------------------------------------------------
\* The detector takes a process for new while its sample_count is 1 or 2.
\* That is so only of a process no more than two collections in a row have
\* kept: not of one that has run for ever.
NewMeansNew ==
    \A i \in DOMAIN samples :
        samples[i].sample_count <= 2 => samples[i].sample_count = streak[samples[i].pid]

\* "Scan ALL processes, don't stop early - prevents blind spots": however many
\* there are, and although a full table gives up what stands last before it has
\* ever been sorted, the busiest process that a scan has read is in the table
\* and comes first in the snapshot's list.
Busiest(s) == s.cpu_pct = peak /\ s.pid = listed'.cpu[1]
BusiestIsKept ==
    [][ScanEnds => \E i \in DOMAIN samples' : Busiest(samples'[i])]_vars

\* A usage compares the process's and the system's ticks of the same two
\* collections, unless a scan in between read no process at all.
MeasuredOverOneInterval == emptied \/ sampledAt = last_total_ticks
==============================================================================
