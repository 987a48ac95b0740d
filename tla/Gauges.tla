-------------------------------- MODULE Gauges --------------------------------
(***************************************************************************)
(* The system-wide part of a snapshot: src/src/cpu.c, src/src/mem.c and    *)
(* what src/src/snapshot_builder.c makes of their readings.  Cores come    *)
(* and go, /proc/stat cannot always be read, and what it counts as waiting *)
(* for I/O may go back.                                                    *)
(*                                                                         *)
(* Line 0 of /proc/stat is the whole machine, line i is core i - 1; of its *)
(* ten counters a line keeps three: busy stands for all that are neither   *)
(* idle nor iowait.  Percentages are rounded down.                         *)
(***************************************************************************)
EXTENDS FiniteSets, Functions, Integers

CONSTANTS
    Lines,      \* the lines there may be for cores, from 1 on
    Boot,       \* the counters of every line when the daemon starts
    Width,      \* the size of an unsigned long long, 2^64
    MaxTicks,   \* bound: ticks of the machine
    MaxFalls    \* bound: times that iowait goes back

Counters == [busy : Nat, idle : Nat, iowait : Nat]

\* Excluding guest time, which the kernel counts as user time as well
total_jiffies(j) == j.busy + j.idle + j.iowait
idle_jiffies(j) == j.idle + j.iowait

ASSUME LinesAssumption == Lines \subseteq Nat \ {0} /\ IsFiniteSet(Lines)
\* No machine runs for 2^64 ticks.
ASSUME BootAssumption ==
    /\ Width \in Nat \ {0} /\ MaxTicks \in Nat
    /\ Boot \in [Lines \union {0} -> Counters]
    /\ \A i \in Lines \union {0} : total_jiffies(Boot[i]) + MaxTicks < Width

VARIABLES
    stat, online,   \* the world: /proc/stat, and the cores it lists
    elapsed, falls, \*            how far it has come
    num_cores,      \* the cores online when the daemon started
    prev_jiffies, curr_jiffies,
    cpu, mem,       \* these parts of the last snapshot
    seen,           \* history: a line's counters when a reading last listed it
    collected       \* history: the lines some collection has read

machine == <<stat, online, elapsed, falls>>
builder == <<num_cores, prev_jiffies, curr_jiffies>>
snapshot == <<cpu, mem>>
readings == <<seen, collected>>
gaugesVars == <<machine, builder, snapshot, readings>>

Zero == [busy |-> 0, idle |-> 0, iowait |-> 0]

-------------------------------------------------------------------------------
(* cpu.c                                                                    *)

\* cpu_read_jiffies into an array: the slot of a line that is not there, or
\* beyond the array, is left as it is.  All of a file is read at once.
cpu_read_jiffies(jiffies) ==
    [i \in DOMAIN jiffies |-> IF i = 0 \/ i \in online THEN stat[i] ELSE jiffies[i]]

Minus(x, y) == (x - y) % Width

\* cpu_calc_usage_pct_batch, for one core
Usage(new, old) ==
    LET total_delta == Minus(total_jiffies(new), total_jiffies(old))
        idle_delta == Minus(idle_jiffies(new), idle_jiffies(old))
    IN  IF total_delta = 0 \/ idle_delta > total_delta THEN 0
        ELSE (100 * (total_delta - idle_delta)) \div total_delta

-------------------------------------------------------------------------------
(* snapshot_builder.c                                                       *)

NoCpu == [valid_core_count |-> 0, global_usage_pct |-> 0, iowait_pct |-> 0,
          usage |-> << >>]

\* spktrace.c counts the cores; snapshot_builder_init reads the first baseline.
GaugesInit ==
    /\ stat = Boot /\ elapsed = 0 /\ falls = 0
    /\ online \in SUBSET Lines \ {{}}
    /\ num_cores = Cardinality(online)
    /\ curr_jiffies = [i \in 0..num_cores |-> Zero]
    /\ prev_jiffies = cpu_read_jiffies(curr_jiffies)
    /\ cpu = NoCpu /\ mem = "zero"
    /\ seen = [i \in Lines \union {0} |->
                  IF i = 0 \/ i \in online THEN Boot[i] ELSE Zero]
    /\ collected = {}

IowaitPct(new, old) ==
    LET total_delta == Minus(total_jiffies(new), total_jiffies(old))
    IN  IF total_delta = 0 THEN 0
        ELSE (100 * Minus(new.iowait, old.iowait)) \div total_delta

Mean(shares) == FoldFunction(+, 0, shares) \div Cardinality(DOMAIN shares)

Measured(new, old) ==
    LET per_core_usage == [i \in 1..num_cores |-> Usage(new[i], old[i])]
    IN  [valid_core_count |-> num_cores,
         global_usage_pct |-> Mean(per_core_usage),
         iowait_pct |-> IowaitPct(new[0], old[0]),
         usage |-> per_core_usage]

\* mem_read_kibibytes fills a structure of its own, which is only taken over
\* when every line it looks for could be parsed.
ReadMemory == mem' \in {"zero", "read"}

\* Mutant: the next collection measures from the same baseline.
CollectKeepingBaseline ==
    /\ curr_jiffies' = cpu_read_jiffies(curr_jiffies)
    /\ cpu' = Measured(curr_jiffies', prev_jiffies)
    /\ ReadMemory
    /\ seen' = [i \in DOMAIN seen |-> IF i = 0 \/ i \in online THEN stat[i] ELSE seen[i]]
    /\ collected' = collected \union online \union {0}
    /\ UNCHANGED <<machine, num_cores, prev_jiffies>>

\* snapshot_builder_collect, when /proc/stat can be read
Collect ==
    /\ curr_jiffies' = cpu_read_jiffies(curr_jiffies)
    /\ cpu' = Measured(curr_jiffies', prev_jiffies)
    /\ prev_jiffies' = curr_jiffies'
    /\ ReadMemory
    /\ seen' = [i \in DOMAIN seen |-> IF i = 0 \/ i \in online THEN stat[i] ELSE seen[i]]
    /\ collected' = collected \union online \union {0}
    /\ UNCHANGED <<machine, num_cores>>

\* and when it cannot: the snapshot shows no cores and the baseline stays.
CollectBlind ==
    /\ cpu' = NoCpu
    /\ ReadMemory
    /\ UNCHANGED <<machine, builder, readings>>

-------------------------------------------------------------------------------
(* The world                                                                *)

Tick(i, counter) ==
    /\ i \in online /\ elapsed < MaxTicks
    /\ stat' = [stat EXCEPT ![i][counter] = @ + 1, ![0][counter] = @ + 1]
    /\ elapsed' = elapsed + 1
    /\ UNCHANGED <<online, falls, builder, snapshot, readings>>

IowaitFalls(i) ==
    /\ i \in online /\ falls < MaxFalls /\ stat[i].iowait > 0 /\ stat[0].iowait > 0
    /\ stat' = [stat EXCEPT ![i].iowait = @ - 1, ![0].iowait = @ - 1]
    /\ falls' = falls + 1
    /\ UNCHANGED <<online, elapsed, builder, snapshot, readings>>

Plug(i) ==
    /\ online' = online \union {i} /\ i \notin online
    /\ UNCHANGED <<stat, elapsed, falls, builder, snapshot, readings>>

Unplug(i) ==
    /\ online' = online \ {i} /\ i \in online /\ online' # {}
    /\ UNCHANGED <<stat, elapsed, falls, builder, snapshot, readings>>

GaugesNext ==
    \/ Collect \/ CollectBlind
    \/ \E i \in Lines :
        \/ \E counter \in {"busy", "idle", "iowait"} : Tick(i, counter)
        \/ IowaitFalls(i) \/ Plug(i) \/ Unplug(i)

GaugesSpec == GaugesInit /\ [][GaugesNext]_gaugesVars
-------------------------------------------------------------------------------
(* Properties                                                               *)

Forward(new, old) ==
    new.busy >= old.busy /\ new.idle >= old.idle /\ new.iowait >= old.iowait

\* The part, in per cent, of the time between two readings of a line.
Share(part, new, old) ==
    LET time == total_jiffies(new) - total_jiffies(old)
    IN  IF time = 0 THEN 0 ELSE (100 * part) \div time

BusyShare(new, old) == Share(new.busy - old.busy, new, old)

\* What a collection tells of the cores it finds and of the whole machine.
CollectMeasures ==
    Collect =>
        /\ \A i \in 1..num_cores : i \in online =>
            \/ Forward(stat[i], seen[i]) /\ cpu'.usage[i] = BusyShare(stat[i], seen[i])
            \/ i \notin collected /\ cpu'.usage[i] = BusyShare(stat[i], Zero)
            \/ ~Forward(stat[i], seen[i])
        /\ Forward(stat[0], seen[0]) =>
            cpu'.iowait_pct = Share(stat[0].iowait - seen[0].iowait, stat[0], seen[0])

\* Every tick is measured once: the usage of a core is its busy share since a
\* reading last listed it, however many collections could not read /proc/stat
\* and whatever time it spent offline; or since boot, when no collection had
\* listed it before (the reading made at start then does not always count).
\* The share of iowait is measured since the last reading.  Both are so unless
\* the kernel's counters went back.
MeasuredSinceLastSeen == [][CollectMeasures]_gaugesVars
==============================================================================
