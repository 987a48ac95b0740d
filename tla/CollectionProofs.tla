--------------------------- MODULE CollectionProofs ---------------------------
(***************************************************************************)
(* The two parts of a collection, Gauges and ProcTable, for any cores and  *)
(* processes, sizes of the tables and bounds.                              *)
(*                                                                         *)
(* Gauges: every tick is measured once, for any number of cores, plugged   *)
(* and unplugged in any order, and any failed readings.  Each slot of      *)
(* prev_jiffies holds what a reading last found on its line, or zero as    *)
(* long as no collection has found it.                                     *)
(*                                                                         *)
(* ProcTable: what a collection counts, keeps and measures.  The sorts     *)
(* enter only as reorderings, of which they are all one needs to know but  *)
(* for the first place.                                                    *)
(***************************************************************************)
EXTENDS Gauges, ProcTable, FiniteSetTheorems, SequenceTheorems, TLAPS

-------------------------------------------------------------------------------
(* The CPU and memory gauges                                                *)

All == Lines \union {0}

\* The world: counters of every line, none past what the ticks allow.
InBounds ==
    /\ stat \in [All -> Counters]
    /\ elapsed \in Nat /\ elapsed <= MaxTicks
    /\ \A i \in All : total_jiffies(stat[i]) <= total_jiffies(Boot[i]) + elapsed
    /\ online \subseteq Lines

\* The builder: which reading the slot of a line holds.
SlotsHold ==
    /\ num_cores \in Nat
    /\ DOMAIN prev_jiffies = 0..num_cores /\ DOMAIN curr_jiffies = 0..num_cores
    /\ seen \in [All -> Counters]
    /\ prev_jiffies[0] = seen[0]
    /\ \A i \in All \intersect (0..num_cores) :
        \/ i \in collected /\ prev_jiffies[i] = seen[i] /\ curr_jiffies[i] = seen[i]
        \/ /\ i \notin collected /\ curr_jiffies[i] = Zero
           /\ prev_jiffies[i] \in {seen[i], Zero}

GaugesInv == InBounds /\ SlotsHold

LEMMA ZeroCounts == Zero \in Counters
  BY DEF Zero, Counters

\* A difference of unsigned numbers is their difference when neither wraps.
LEMMA MinusExact ==
    ASSUME NEW x \in Nat, NEW y \in Nat, y <= x, x < Width
    PROVE  Minus(x, y) = x - y
<1>1. x - y \in 0..(Width - 1) /\ Width \in Nat \ {0}
  BY BootAssumption, SMT
<1> QED BY <1>1, SMT DEF Minus

\* When the counters have only gone forward, cpu_calc_usage_pct_batch gives the
\* share of the ticks that were busy.
LEMMA UsageIsShare ==
    ASSUME NEW new \in Counters, NEW old \in Counters, Forward(new, old),
           total_jiffies(new) < Width
    PROVE  Usage(new, old) = BusyShare(new, old)
<1> DEFINE time == total_jiffies(new) - total_jiffies(old)
           idle == idle_jiffies(new) - idle_jiffies(old)
<1>1. /\ new.busy \in Nat /\ new.idle \in Nat /\ new.iowait \in Nat
      /\ old.busy \in Nat /\ old.idle \in Nat /\ old.iowait \in Nat
  BY DEF Counters
<1>2. Minus(total_jiffies(new), total_jiffies(old)) = time
  <2>1. /\ total_jiffies(new) \in Nat /\ total_jiffies(old) \in Nat
        /\ total_jiffies(old) <= total_jiffies(new)
    BY <1>1 DEF Forward, total_jiffies
  <2> QED BY <2>1, MinusExact
<1>3. Minus(idle_jiffies(new), idle_jiffies(old)) = idle
  <2>1. /\ idle_jiffies(new) \in Nat /\ idle_jiffies(old) \in Nat
        /\ idle_jiffies(old) <= idle_jiffies(new) /\ idle_jiffies(new) < Width
    BY <1>1, BootAssumption DEF Forward, idle_jiffies, total_jiffies
  <2> QED BY <2>1, MinusExact
<1>4. time - idle = new.busy - old.busy /\ ~(idle > time) /\ time \in Nat
  BY <1>1 DEF Forward, total_jiffies, idle_jiffies
<1> QED BY <1>2, <1>3, <1>4 DEF Usage, BusyShare, Share

LEMMA IowaitIsShare ==
    ASSUME NEW new \in Counters, NEW old \in Counters, Forward(new, old),
           total_jiffies(new) < Width
    PROVE  IowaitPct(new, old) = Share(new.iowait - old.iowait, new, old)
<1>1. /\ new.busy \in Nat /\ new.idle \in Nat /\ new.iowait \in Nat
      /\ old.busy \in Nat /\ old.idle \in Nat /\ old.iowait \in Nat
  BY DEF Counters
<1>2. Minus(total_jiffies(new), total_jiffies(old)) = total_jiffies(new) - total_jiffies(old)
  <2>1. /\ total_jiffies(new) \in Nat /\ total_jiffies(old) \in Nat
        /\ total_jiffies(old) <= total_jiffies(new)
    BY <1>1 DEF Forward, total_jiffies
  <2> QED BY <2>1, MinusExact
<1>3. Minus(new.iowait, old.iowait) = new.iowait - old.iowait
  <2>1. old.iowait <= new.iowait /\ new.iowait < Width
    BY <1>1, BootAssumption DEF Forward, total_jiffies
  <2> QED BY <1>1, <2>1, MinusExact
<1> QED BY <1>2, <1>3 DEF IowaitPct, Share

LEMMA GaugesInitHolds == GaugesInit => GaugesInv
<1> SUFFICES ASSUME GaugesInit PROVE GaugesInv
  OBVIOUS
<1>1. stat \in [All -> Counters] /\ online \subseteq Lines
  BY BootAssumption DEF GaugesInit, All
<1>2. elapsed \in Nat /\ elapsed <= MaxTicks
  BY BootAssumption DEF GaugesInit
<1>3. \A i \in All : total_jiffies(stat[i]) <= total_jiffies(Boot[i]) + elapsed
  BY BootAssumption DEF GaugesInit, All, Counters, total_jiffies
<1>4. num_cores \in Nat
  <2>1. IsFiniteSet(online)
    BY LinesAssumption, FS_Subset DEF GaugesInit
  <2> QED BY <2>1, FS_CardinalityType DEF GaugesInit
<1>5. DOMAIN prev_jiffies = 0..num_cores /\ DOMAIN curr_jiffies = 0..num_cores
  BY DEF GaugesInit, cpu_read_jiffies
<1>6. seen \in [All -> Counters]
  BY BootAssumption, ZeroCounts DEF GaugesInit, All
<1>7. \A i \in All \intersect (0..num_cores) :
        /\ curr_jiffies[i] = Zero
        /\ prev_jiffies[i] = seen[i]
  BY <1>4 DEF GaugesInit, All, cpu_read_jiffies
<1>8. prev_jiffies[0] = seen[0]
  BY <1>4, <1>7 DEF All
<1> QED BY <1>1, <1>2, <1>3, <1>4, <1>5, <1>6, <1>7, <1>8 DEF GaugesInv, InBounds, SlotsHold, GaugesInit

\* The world's counters after one of them has moved by one.
LEMMA CountersMove ==
    ASSUME InBounds, NEW i \in Lines, NEW counter \in {"busy", "idle", "iowait"},
           stat' = [stat EXCEPT ![i][counter] = @ + 1, ![0][counter] = @ + 1]
    PROVE  /\ stat' \in [All -> Counters]
           /\ \A j \in All : total_jiffies(stat'[j]) <= total_jiffies(stat[j]) + 1
<1>1. i \in All /\ 0 \in All /\ i # 0
  BY LinesAssumption DEF All
<1>2. \A j \in All : stat[j] \in Counters
  BY DEF InBounds
<1>3. ASSUME NEW c \in Counters
      PROVE  /\ [c EXCEPT ![counter] = @ + 1] \in Counters
             /\ total_jiffies([c EXCEPT ![counter] = @ + 1]) = total_jiffies(c) + 1
             /\ total_jiffies(c) <= total_jiffies(c) + 1
  BY DEF Counters, total_jiffies
<1>4. /\ stat'[i] = [stat[i] EXCEPT ![counter] = @ + 1]
      /\ stat'[0] = [stat[0] EXCEPT ![counter] = @ + 1]
      /\ \A j \in All \ {i, 0} : stat'[j] = stat[j]
  BY <1>1 DEF InBounds
<1>5. \A j \in All : /\ stat'[j] \in Counters
                     /\ total_jiffies(stat'[j]) <= total_jiffies(stat[j]) + 1
  <2> SUFFICES ASSUME NEW j \in All
               PROVE  /\ stat'[j] \in Counters
                      /\ total_jiffies(stat'[j]) <= total_jiffies(stat[j]) + 1
    OBVIOUS
  <2>1. total_jiffies(stat[j]) \in Nat
    BY <1>2 DEF Counters, total_jiffies
  <2>2. CASE j \in {i, 0}
    <3>1. stat'[j] = [stat[j] EXCEPT ![counter] = @ + 1]
      BY <1>4, <2>2
    <3>2. stat[j] \in Counters
      BY <1>2
    <3> QED BY <1>3, <3>1, <3>2, <2>1
  <2>3. CASE j \notin {i, 0}
    <3>1. stat'[j] = stat[j]
      BY <1>4, <2>3
    <3>2. total_jiffies(stat'[j]) = total_jiffies(stat[j])
      BY <3>1
    <3> QED BY <1>2, <2>1, <3>1, <3>2
  <2> QED BY <2>2, <2>3
<1>6. stat' \in [All -> Counters]
  BY <1>5 DEF InBounds
<1> QED BY <1>5, <1>6

LEMMA TickCounts == ASSUME InBounds, NEW i, NEW counter \in {"busy", "idle", "iowait"},
                           i \in Lines, Tick(i, counter)
                    PROVE  InBounds'
<1>1. /\ stat' = [stat EXCEPT ![i][counter] = @ + 1, ![0][counter] = @ + 1]
      /\ elapsed' = elapsed + 1 /\ elapsed < MaxTicks /\ online' = online
  BY DEF Tick
<1>2. /\ stat' \in [All -> Counters]
      /\ \A j \in All : total_jiffies(stat'[j]) <= total_jiffies(stat[j]) + 1
  BY <1>1, CountersMove
<1>3. \A j \in All : total_jiffies(stat'[j]) <= total_jiffies(Boot[j]) + elapsed'
  <2> SUFFICES ASSUME NEW j \in All
               PROVE  total_jiffies(stat'[j]) <= total_jiffies(Boot[j]) + elapsed'
    OBVIOUS
  <2>1. /\ total_jiffies(stat'[j]) \in Nat /\ total_jiffies(stat[j]) \in Nat
        /\ total_jiffies(Boot[j]) \in Nat
    BY <1>2, BootAssumption DEF InBounds, Counters, total_jiffies, All
  <2>2. total_jiffies(stat'[j]) <= total_jiffies(stat[j]) + 1
    BY <1>2, <2>1
  <2> QED BY <1>1, <2>1, <2>2 DEF InBounds
<1> QED BY <1>1, <1>2, <1>3, BootAssumption DEF InBounds

LEMMA FallCounts == ASSUME InBounds, NEW i \in Lines, IowaitFalls(i) PROVE InBounds'
<1>1. /\ stat' = [stat EXCEPT ![i].iowait = @ - 1, ![0].iowait = @ - 1]
      /\ stat[i].iowait > 0 /\ stat[0].iowait > 0
      /\ elapsed' = elapsed /\ online' = online
  BY DEF IowaitFalls
<1>2. i \in All /\ 0 \in All /\ i # 0 /\ stat \in [All -> Counters]
  BY LinesAssumption DEF All, InBounds
<1>3. \A j \in {i, 0} : stat'[j] = [stat[j] EXCEPT !.iowait = @ - 1]
  BY <1>1, <1>2
<1>4. \A j \in All \ {i, 0} : stat'[j] = stat[j]
  BY <1>1, <1>2
<1>5. \A j \in All : /\ stat'[j] \in Counters
                     /\ total_jiffies(stat'[j]) <= total_jiffies(stat[j])
  BY <1>1, <1>2, <1>3, <1>4 DEF Counters, total_jiffies
<1>6. stat' \in [All -> Counters]
  BY <1>1, <1>2, <1>5
<1>7. \A j \in All : total_jiffies(stat'[j]) <= total_jiffies(Boot[j]) + elapsed'
  <2> SUFFICES ASSUME NEW j \in All
               PROVE  total_jiffies(stat'[j]) <= total_jiffies(Boot[j]) + elapsed'
    OBVIOUS
  <2>1. /\ total_jiffies(stat'[j]) \in Nat /\ total_jiffies(stat[j]) \in Nat
        /\ total_jiffies(Boot[j]) \in Nat
    BY <1>2, <1>6, BootAssumption DEF Counters, total_jiffies, All
  <2> QED BY <1>1, <1>5, <2>1 DEF InBounds
<1> QED BY <1>1, <1>6, <1>7 DEF InBounds

\* After a collection each slot of a listed line holds what was read, and the
\* others what they held.
LEMMA CollectHolds == ASSUME GaugesInv, Collect PROVE GaugesInv'
<1>1. InBounds'
  BY DEF GaugesInv, InBounds, Collect, machine
<1>2. /\ num_cores' = num_cores /\ num_cores \in Nat
      /\ DOMAIN curr_jiffies' = 0..num_cores /\ prev_jiffies' = curr_jiffies'
      /\ \A i \in 0..num_cores :
            curr_jiffies'[i] = IF i = 0 \/ i \in online THEN stat[i] ELSE curr_jiffies[i]
  BY DEF GaugesInv, SlotsHold, Collect, cpu_read_jiffies
<1>3. \A i \in All : seen'[i] = IF i = 0 \/ i \in online THEN stat[i] ELSE seen[i]
  BY DEF GaugesInv, SlotsHold, Collect
<1>4. seen' \in [All -> Counters]
  BY <1>3 DEF GaugesInv, SlotsHold, InBounds, Collect
<1>5. collected' = collected \union online \union {0}
  BY DEF Collect
<1>6. prev_jiffies'[0] = seen'[0]
  BY <1>2, <1>3 DEF All
<1>7. ASSUME NEW i \in All \intersect (0..num_cores)
      PROVE  \/ i \in collected' /\ prev_jiffies'[i] = seen'[i] /\ curr_jiffies'[i] = seen'[i]
             \/ /\ i \notin collected' /\ curr_jiffies'[i] = Zero
                /\ prev_jiffies'[i] \in {seen'[i], Zero}
  <2>1. CASE i = 0 \/ i \in online
    BY <1>2, <1>3, <1>5, <2>1
  <2>2. CASE ~(i = 0 \/ i \in online)
    BY <1>2, <1>3, <1>5, <2>2 DEF GaugesInv, SlotsHold
  <2> QED BY <2>1, <2>2
<1>8. DOMAIN prev_jiffies' = 0..num_cores' /\ DOMAIN curr_jiffies' = 0..num_cores'
  BY <1>2
<1> QED BY <1>1, <1>2, <1>4, <1>6, <1>7, <1>8 DEF GaugesInv, SlotsHold

LEMMA GaugesStepHolds == GaugesInv /\ [GaugesNext]_gaugesVars => GaugesInv'
<1> SUFFICES ASSUME GaugesInv, [GaugesNext]_gaugesVars PROVE GaugesInv'
  OBVIOUS
<1> USE DEF gaugesVars, machine, builder, snapshot, readings
<1>1. CASE Collect
  BY <1>1, CollectHolds
<1>2. CASE CollectBlind
  BY <1>2 DEF CollectBlind, GaugesInv, InBounds, SlotsHold
<1>3. ASSUME NEW i \in Lines, NEW counter \in {"busy", "idle", "iowait"}, Tick(i, counter)
      PROVE  GaugesInv'
  <2>1. InBounds'
    BY <1>3, TickCounts DEF GaugesInv
  <2>2. SlotsHold'
    BY <1>3 DEF Tick, GaugesInv, SlotsHold
  <2> QED BY <2>1, <2>2 DEF GaugesInv
<1>4. ASSUME NEW i \in Lines, IowaitFalls(i)
      PROVE  GaugesInv'
  <2>1. InBounds'
    BY <1>4, FallCounts DEF GaugesInv
  <2>2. SlotsHold'
    BY <1>4 DEF IowaitFalls, GaugesInv, SlotsHold
  <2> QED BY <2>1, <2>2 DEF GaugesInv
<1>5. ASSUME NEW i \in Lines, Plug(i) \/ Unplug(i)
      PROVE  GaugesInv'
  BY <1>5 DEF Plug, Unplug, GaugesInv, InBounds, SlotsHold
<1>6. CASE UNCHANGED gaugesVars
  BY <1>6 DEF GaugesInv, InBounds, SlotsHold
<1> QED BY <1>1, <1>2, <1>3, <1>4, <1>5, <1>6 DEF GaugesNext

\* Every tick is measured once (cpu.c:96-143, snapshot_builder.c:65-97): a
\* collection tells, of each core it finds, the share of its ticks that were
\* busy since a reading last found it, or since boot when none has.
THEOREM EveryTickOnce == GaugesSpec => MeasuredSinceLastSeen
<1>1. ASSUME GaugesInv, Collect
      PROVE  CollectMeasures
  <2>1. /\ num_cores \in Nat
        /\ DOMAIN curr_jiffies = 0..num_cores
        /\ prev_jiffies[0] = seen[0]
    BY <1>1 DEF GaugesInv, SlotsHold
  <2>2. \A i \in All : stat[i] \in Counters /\ seen[i] \in Counters
    BY <1>1 DEF GaugesInv, InBounds, SlotsHold
  <2>3. \A i \in All : total_jiffies(stat[i]) < Width
    <3> SUFFICES ASSUME NEW i \in All PROVE total_jiffies(stat[i]) < Width
      OBVIOUS
    <3>1. total_jiffies(stat[i]) \in Nat /\ total_jiffies(Boot[i]) \in Nat
      BY <2>2, BootAssumption DEF Counters, total_jiffies, All
    <3>2. /\ total_jiffies(stat[i]) <= total_jiffies(Boot[i]) + elapsed
          /\ elapsed \in Nat /\ elapsed <= MaxTicks
      BY <1>1 DEF GaugesInv, InBounds
    <3>3. /\ total_jiffies(Boot[i]) + MaxTicks < Width
          /\ MaxTicks \in Nat /\ Width \in Nat
      BY BootAssumption DEF All
    <3> QED BY <3>1, <3>2, <3>3, SMT
  <2>4. /\ cpu' = Measured(curr_jiffies', prev_jiffies)
        /\ \A i \in 0..num_cores :
              i = 0 \/ i \in online => curr_jiffies'[i] = stat[i]
    BY <1>1, <2>1 DEF Collect, cpu_read_jiffies
  <2>5. ASSUME NEW i \in 1..num_cores, i \in online
        PROVE  \/ Forward(stat[i], seen[i]) /\ cpu'.usage[i] = BusyShare(stat[i], seen[i])
               \/ i \notin collected /\ cpu'.usage[i] = BusyShare(stat[i], Zero)
               \/ ~Forward(stat[i], seen[i])
    <3>1. i \in All \intersect (0..num_cores)
      BY <1>1, <2>1, <2>5 DEF GaugesInv, InBounds, All
    <3>2. cpu'.usage[i] = Usage(stat[i], prev_jiffies[i])
      BY <2>1, <2>4, <2>5 DEF Measured
    <3>3. \/ prev_jiffies[i] = seen[i]
          \/ i \notin collected /\ prev_jiffies[i] = Zero
      BY <1>1, <3>1 DEF GaugesInv, SlotsHold
    <3>4. CASE prev_jiffies[i] = seen[i]
      BY <2>2, <2>3, <3>1, <3>2, <3>4, UsageIsShare
    <3>5. CASE i \notin collected /\ prev_jiffies[i] = Zero
      <4>1. Forward(stat[i], Zero)
        BY <2>2, <3>1 DEF Forward, Zero, Counters
      <4> QED BY <2>2, <2>3, <3>1, <3>2, <3>5, <4>1, UsageIsShare, ZeroCounts
    <3> QED BY <3>3, <3>4, <3>5
  <2>6. ASSUME Forward(stat[0], seen[0])
        PROVE  cpu'.iowait_pct = Share(stat[0].iowait - seen[0].iowait, stat[0], seen[0])
    <3>1. cpu'.iowait_pct = IowaitPct(stat[0], seen[0])
      BY <2>1, <2>4 DEF Measured
    <3>2. 0 \in All
      BY DEF All
    <3> QED BY <2>2, <2>3, <2>6, <3>1, <3>2, IowaitIsShare
  <2> QED BY <2>5, <2>6 DEF CollectMeasures
<1>2. GaugesInv /\ [GaugesNext]_gaugesVars => [CollectMeasures]_gaugesVars
  BY <1>1 DEF CollectMeasures
<1> QED BY <1>2, GaugesInitHolds, GaugesStepHolds, PTL DEF GaugesSpec, MeasuredSinceLastSeen

-------------------------------------------------------------------------------
(* The process table                                                        *)

SampleOf == [pid : Pid, ticks : Nat, cpu_pct : Nat, baseline_cpu_pct : Nat,
             sample_count : Nat]

TypeOK ==
    /\ ticks \in [DOMAIN ticks -> Nat] /\ DOMAIN ticks \subseteq Pid
    /\ total \in Nat /\ curr_total \in Nat /\ last_total_ticks \in Nat
    /\ pc \in {"idle", "scan"} /\ pid \in Nat /\ peak \in Nat
    /\ samples \in Seq(SampleOf) /\ curr_samples \in Seq(SampleOf)
    /\ Len(curr_samples) <= MaxTracked
    /\ baseline_alpha \in 0..10 /\ top_processes_limit \in Nat \ {0}
    /\ streak \in [Pid -> Nat]

\* No process is twice in a table.
Apart(seq) == \A i, j \in DOMAIN seq : seq[i].pid = seq[j].pid => i = j

\* The scan has not yet reached what it will still read.
Behind == \A i \in DOMAIN curr_samples : curr_samples[i].pid <= pid

\* The counts are the streaks, those of the next table one ahead of them; a
\* process that is in no table has none.
CountsAreStreaks ==
    /\ \A i \in DOMAIN samples : samples[i].sample_count = streak[samples[i].pid]
    /\ \A p \in Pid : streak[p] # 0 => Known(p)
    /\ \A i \in DOMAIN curr_samples :
          curr_samples[i].sample_count = Counted(streak[curr_samples[i].pid])

\* The largest usage read is in the table, and none that is larger.
PeakIsKept ==
    /\ curr_samples = << >> => peak = 0
    /\ curr_samples # << >> =>
          \E i \in DOMAIN curr_samples : curr_samples[i].cpu_pct = peak
    /\ \A i \in DOMAIN curr_samples : curr_samples[i].cpu_pct <= peak

IndInv ==
    /\ TypeOK /\ Apart(samples) /\ Apart(curr_samples) /\ Behind
    /\ CountsAreStreaks /\ PeakIsKept /\ MeasuredOverOneInterval

-------------------------------------------------------------------------------
(* Reordering                                                               *)

(* A table sorted has the same samples as before, each where it was once.   *)
LEMMA ReorderedKeeps ==
  ASSUME NEW S, NEW seq \in Seq(S), NEW q \in Reordered(seq)
  PROVE  /\ q \in Seq(S) /\ Len(q) = Len(seq) /\ DOMAIN q = DOMAIN seq
         /\ \A i \in DOMAIN q : \E j \in DOMAIN seq : q[i] = seq[j]
         /\ \A j \in DOMAIN seq : \E i \in DOMAIN q : q[i] = seq[j]
         /\ Apart(seq) => Apart(q)
<1>1. PICK order \in Bijection(DOMAIN seq, DOMAIN seq) :
          q = [i \in DOMAIN seq |-> seq[order[i]]]
  BY DEF Reordered
<1>2. /\ order \in [DOMAIN seq -> DOMAIN seq]
      /\ \A i, j \in DOMAIN seq : order[i] = order[j] => i = j
      /\ \A j \in DOMAIN seq : \E i \in DOMAIN seq : order[i] = j
  BY DEF Bijection, Injection, Surjection, IsInjective
<1>3. Len(seq) \in Nat /\ DOMAIN seq = 1..Len(seq)
  BY LenProperties
<1>4. q \in Seq(S) /\ Len(q) = Len(seq) /\ DOMAIN q = DOMAIN seq
  <2>1. q \in [1..Len(seq) -> S]
    BY <1>1, <1>2, <1>3, ElementOfSeq
  <2> QED BY <2>1, <1>1, <1>3, SeqDef, LenProperties
<1>5. \A i \in DOMAIN seq : q[i] = seq[order[i]]
  BY <1>1
<1>6. Apart(seq) => Apart(q)
  <2> SUFFICES ASSUME Apart(seq), NEW i \in DOMAIN seq, NEW j \in DOMAIN seq,
                      q[i].pid = q[j].pid
               PROVE  i = j
    BY <1>4 DEF Apart
  <2>1. order[i] \in DOMAIN seq /\ order[j] \in DOMAIN seq
    BY <1>2
  <2>2. order[i] = order[j]
    BY <2>1, <1>5 DEF Apart
  <2> QED BY <2>2, <1>2
<1>7. \A i \in DOMAIN q : \E j \in DOMAIN seq : q[i] = seq[j]
  BY <1>2, <1>4, <1>5
<1>8. \A j \in DOMAIN seq : \E i \in DOMAIN q : q[i] = seq[j]
  <2> TAKE j \in DOMAIN seq
  <2>1. PICK i \in DOMAIN seq : order[i] = j
    BY <1>2
  <2> QED BY <2>1, <1>4, <1>5
<1> QED BY <1>4, <1>6, <1>7, <1>8

(* Sorted by CPU share, the first sample has the largest.                   *)
LEMMA FirstIsBusiest ==
  ASSUME NEW seq \in Seq(SampleOf), NEW q \in SortedByCpu(seq), NEW i \in DOMAIN q
  PROVE  1 \in DOMAIN q /\ q[1].cpu_pct >= q[i].cpu_pct
<1>1. q \in Seq(SampleOf) /\ Len(q) \in Nat /\ DOMAIN q = 1..Len(q)
  BY ReorderedKeeps, LenProperties DEF SortedByCpu
<1>2. 1 \in DOMAIN q /\ q[1] \in SampleOf /\ q[i] \in SampleOf /\ (i = 1 \/ 1 < i)
  BY <1>1, ElementOfSeq
<1>3. 1 < i => q[1].cpu_pct >= q[i].cpu_pct
  <2>1. 1 < i => q[1].cpu_pct > q[i].cpu_pct \/ q[1].cpu_pct = q[i].cpu_pct
    BY <1>2 DEF SortedByCpu
  <2>2. q[1].cpu_pct \in Nat /\ q[i].cpu_pct \in Nat
    BY <1>2 DEF SampleOf
  <2> QED BY <2>1, <2>2
<1> QED BY <1>2, <1>3 DEF SampleOf

(* What storing a sample of another process leaves of a table: never more   *)
(* than the table holds, each sample once, and whoever it gives up has a    *)
(* lower share than the one stored.                                         *)
LEMMA StoredKeeps ==
  ASSUME NEW kept \in Seq(SampleOf), Len(kept) <= MaxTracked, Apart(kept),
         NEW s \in SampleOf, \A i \in DOMAIN kept : kept[i].pid # s.pid,
         NEW after \in Stored(kept, s)
  PROVE  /\ after \in Seq(SampleOf) /\ Len(after) <= MaxTracked /\ Apart(after)
         /\ after # << >>
         /\ \A i \in DOMAIN after :
               after[i] = s \/ \E j \in DOMAIN kept : after[i] = kept[j]
         /\ \/ \E i \in DOMAIN after : after[i] = s
            \/ \E i \in DOMAIN kept : kept[i].cpu_pct >= s.cpu_pct
         /\ \A j \in DOMAIN kept :
               \/ \E i \in DOMAIN after : after[i] = kept[j]
               \/ s.cpu_pct > kept[j].cpu_pct
<1>1. /\ Len(kept) \in Nat /\ DOMAIN kept = 1..Len(kept)
      /\ \A i \in DOMAIN kept : kept[i] \in SampleOf
  BY LenProperties, ElementOfSeq
<1>2. CASE Len(kept) < MaxTracked
  <2>1. after = Append(kept, s)
    BY <1>2 DEF Stored
  <2>2. /\ after \in Seq(SampleOf) /\ after # << >> /\ Len(after) = Len(kept) + 1
        /\ DOMAIN after = 1..(Len(kept) + 1)
        /\ \A i \in DOMAIN kept : after[i] = kept[i]
        /\ after[Len(kept) + 1] = s
    BY <2>1, <1>1, AppendProperties, LenProperties
  <2>3. \A i \in DOMAIN after : i = Len(kept) + 1 \/ i \in DOMAIN kept
    BY <2>2, <1>1
  <2>4. Apart(after)
    BY <2>2, <2>3 DEF Apart
  <2>5. Len(after) <= MaxTracked
    BY <2>2, <1>1, <1>2, MaxTrackedAssumption
  <2>6. DOMAIN kept \subseteq DOMAIN after /\ Len(kept) + 1 \in DOMAIN after
    BY <2>2, <1>1
  <2> QED BY <2>2, <2>3, <2>4, <2>5, <2>6
<1>3. CASE Len(kept) >= MaxTracked
  <2> DEFINE put == [kept EXCEPT ![MaxTracked] = s]
  <2>1. MaxTracked \in 1..Len(kept) /\ Len(kept) = MaxTracked /\ kept # << >>
    <3>1. << >> \in Seq(SampleOf) /\ Len(<< >>) = 0
      BY EmptySeq
    <3>2. Len(kept) = MaxTracked /\ Len(kept) # 0
      <4>1. Len(kept) \in Nat /\ MaxTracked \in Nat \ {0}
        BY <1>1, MaxTrackedAssumption
      <4> QED BY <4>1, <1>3
    <3>3. kept # << >>
      BY <3>1, <3>2
    <3>4. MaxTracked \in 1..Len(kept)
      BY <3>2, <1>1
    <3> QED BY <3>2, <3>3, <3>4
  <2>2. /\ put \in Seq(SampleOf) /\ Len(put) = Len(kept) /\ DOMAIN put = DOMAIN kept
        /\ \A j \in DOMAIN kept : put[j] = IF j = MaxTracked THEN s ELSE kept[j]
    BY <2>1, <1>1, ExceptSeq, LenProperties
  <2>3. Apart(put)
    BY <2>2 DEF Apart
  <2> HIDE DEF put
  <2>4. CASE s.cpu_pct > kept[MaxTracked].cpu_pct
    <3>1. after \in SortedByCpu(put)
      BY <2>4, <1>3, <1>1, MaxTrackedAssumption DEF Stored, put
    <3>2. /\ after \in Seq(SampleOf) /\ Len(after) = Len(put) /\ Apart(after)
          /\ DOMAIN after = DOMAIN put
          /\ \A i \in DOMAIN after : \E j \in DOMAIN put : after[i] = put[j]
          /\ \A j \in DOMAIN put : \E i \in DOMAIN after : after[i] = put[j]
      BY <3>1, <2>2, <2>3, ReorderedKeeps DEF SortedByCpu
    <3>3. after # << >>
      BY <3>2, <2>1, <2>2, EmptySeq
    <3>4. \E i \in DOMAIN after : after[i] = s
      <4>1. MaxTracked \in DOMAIN put /\ put[MaxTracked] = s
        BY <2>1, <2>2, <1>1
      <4> QED BY <4>1, <3>2
    <3>5. \A i \in DOMAIN after : after[i] = s \/ \E j \in DOMAIN kept : after[i] = kept[j]
      <4> TAKE i \in DOMAIN after
      <4>1. PICK j \in DOMAIN put : after[i] = put[j]
        BY <3>2
      <4> QED BY <4>1, <2>2
    <3>6. \A j \in DOMAIN kept : \/ \E i \in DOMAIN after : after[i] = kept[j]
                               \/ s.cpu_pct > kept[j].cpu_pct
      <4> TAKE j \in DOMAIN kept
      <4>1. PICK i \in DOMAIN after : after[i] = put[j]
        BY <3>2, <2>2
      <4> QED BY <4>1, <2>2, <2>4
    <3>7. Len(after) <= MaxTracked
      BY <3>2, <2>1, <2>2, <1>1
    <3> QED BY <3>2, <3>3, <3>4, <3>5, <3>6, <3>7
  <2>5. CASE ~(s.cpu_pct > kept[MaxTracked].cpu_pct)
    <3>1. after = kept
      BY <2>5, <1>3, <1>1, MaxTrackedAssumption DEF Stored
    <3>2. MaxTracked \in DOMAIN kept /\ kept[MaxTracked].cpu_pct >= s.cpu_pct
      <4>1. MaxTracked \in DOMAIN kept
        BY <2>1, <1>1
      <4>2. kept[MaxTracked].cpu_pct \in Nat /\ s.cpu_pct \in Nat
        BY <4>1, <1>1 DEF SampleOf
      <4> QED BY <4>1, <4>2, <2>5
    <3> QED BY <3>1, <3>2, <2>1
  <2> QED BY <2>4, <2>5
<1> QED BY <1>1, <1>2, <1>3, MaxTrackedAssumption

-------------------------------------------------------------------------------
(* One sample                                                               *)

(* The previous sample of a process is one of the last collection's.        *)
LEMMA PreviousIs ==
  ASSUME TypeOK, NEW p, Known(p)
  PROVE  /\ Previous(p) \in SampleOf
         /\ \E i \in DOMAIN samples : samples[i].pid = p /\ Previous(p) = samples[i]
<1> DEFINE i == CHOOSE i \in DOMAIN samples : samples[i].pid = p
<1>1. i \in DOMAIN samples /\ samples[i].pid = p
  BY DEF Known
<1>2. Previous(p) = samples[i]
  BY DEF Previous
<1> HIDE DEF i
<1>3. samples[i] \in SampleOf
  BY <1>1, ElementOfSeq, LenProperties DEF TypeOK
<1> QED BY <1>1, <1>2, <1>3

(* A quotient of naturals is one.                                           *)
LEMMA QuotientIsNatural ==
  ASSUME NEW m \in Nat, NEW n \in Nat, n > 0
  PROVE  m \div n \in Nat
OBVIOUS

LEMMA ProductIsNatural ==
  ASSUME NEW m \in Nat, NEW n \in Nat
  PROVE  m * n \in Nat
OBVIOUS

(* What one pass of the scan makes of a process is a sample, whose count is *)
(* one more than the previous one's.                                        *)
LEMMA SampleTyped ==
  ASSUME TypeOK, NEW p \in DOMAIN ticks
  PROVE  Sample(p) \in SampleOf /\ CpuPct(p) \in Nat
<1>1. p \in Pid /\ ticks[p] \in Nat
  BY DEF TypeOK
<1>2. Known(p) => Previous(p) \in SampleOf
  BY PreviousIs
<1>3. TickDelta \in Nat
  BY DEF TickDelta, TypeOK
<1>4. CpuPct(p) \in Nat
  <2>1. CASE /\ Known(p) /\ last_total_ticks > 0 /\ TickDelta > 0
             /\ ticks[p] >= Previous(p).ticks
    <3> DEFINE d == ticks[p] - Previous(p).ticks
    <3>1. d \in Nat
      BY <2>1, <1>1, <1>2 DEF SampleOf
    <3> HIDE DEF d
    <3>2. Whole * d \in Nat
      BY <3>1, WholeAssumption, ProductIsNatural
    <3>3. (Whole * d) \div TickDelta \in Nat
      BY <3>2, <1>3, <2>1, QuotientIsNatural
    <3> QED BY <3>3, <2>1 DEF CpuPct, d
  <2> QED BY <2>1 DEF CpuPct
<1>5. Baseline(p) \in Nat
  <2>1. CASE Known(p)
    <3> DEFINE old == Previous(p).baseline_cpu_pct
               a == baseline_alpha * CpuPct(p)
               b == (10 - baseline_alpha) * old
    <3>1. old \in Nat /\ baseline_alpha \in Nat /\ 10 - baseline_alpha \in Nat
      <4>1. old \in Nat
        BY <2>1, <1>2 DEF SampleOf
      <4>2. baseline_alpha \in 0..10
        BY DEF TypeOK
      <4> QED BY <4>1, <4>2
    <3>2. a \in Nat /\ b \in Nat
      BY <3>1, <1>4, ProductIsNatural
    <3>3. Baseline(p) = (a + b) \div 10
      BY <2>1 DEF Baseline
    <3> HIDE DEF a, b
    <3> QED BY <3>2, <3>3, QuotientIsNatural
  <2> QED BY <2>1, <1>4 DEF Baseline
<1>6. (IF Known(p) THEN Counted(Previous(p).sample_count) ELSE 1) \in Nat
  BY <1>2, MaxSeenAssumption DEF Counted, SampleOf
<1> QED BY <1>1, <1>4, <1>5, <1>6 DEF Sample, SampleOf

-------------------------------------------------------------------------------
(* The steps                                                                *)

(* The world, and what is between two collections.                          *)
LEMMA InitIndInv == Init => IndInv
<1> SUFFICES ASSUME Init PROVE IndInv
  OBVIOUS
<1>1. /\ samples = << >> /\ curr_samples = << >> /\ << >> \in Seq(SampleOf)
      /\ Len(<< >>) = 0 /\ DOMAIN samples = {} /\ DOMAIN curr_samples = {}
  BY EmptySeq DEF Init
<1>2. TypeOK
  <2>1. ticks \in [DOMAIN ticks -> Nat] /\ DOMAIN ticks = {}
    BY DEF Init
  <2> QED BY <1>1, <2>1, MaxTrackedAssumption, MaxProcsAssumption DEF Init, TypeOK
<1>3. Apart(samples) /\ Apart(curr_samples) /\ Behind
  BY <1>1 DEF Apart, Behind
<1>4. CountsAreStreaks
  BY <1>1 DEF CountsAreStreaks, Init
<1>5. PeakIsKept
  BY <1>1 DEF PeakIsKept, Init
<1> QED BY <1>2, <1>3, <1>4, <1>5 DEF IndInv, MeasuredOverOneInterval, Init

(* The world and the settings change nothing of the tables.                 *)
LEMMA TablesStay ==
  ASSUME IndInv, TypeOK',
         UNCHANGED <<samples, curr_samples, pid, peak, streak, sampledAt,
                     last_total_ticks, emptied>>
  PROVE  IndInv'
<1>1. Apart(samples)' /\ Apart(curr_samples)' /\ Behind'
  BY DEF IndInv, Apart, Behind
<1>2. CountsAreStreaks'
  BY DEF IndInv, CountsAreStreaks, Known
<1>3. PeakIsKept'
  BY DEF IndInv, PeakIsKept
<1> QED BY <1>1, <1>2, <1>3 DEF IndInv, MeasuredOverOneInterval

LEMMA WorldStep ==
  ASSUME IndInv, (\E p \in Pid : Runs(p) \/ Starts(p) \/ Exits(p)) \/ Idles
  PROVE  IndInv'
<1>1. /\ UNCHANGED <<collection, context, listed, history>>
      /\ ticks' \in [DOMAIN ticks' -> Nat] /\ DOMAIN ticks' \subseteq Pid
      /\ total' \in Nat
  <2>1. ticks \in [DOMAIN ticks -> Nat] /\ DOMAIN ticks \subseteq Pid /\ total \in Nat
    BY DEF IndInv, TypeOK
  <2>2. ASSUME NEW p \in Pid, Runs(p)
        PROVE  <1>1!:
    BY <2>1, <2>2 DEF Runs
  <2>3. ASSUME NEW p \in Pid, Starts(p)
        PROVE  <1>1!:
    BY <2>1, <2>3 DEF Starts
  <2>4. ASSUME NEW p \in Pid, Exits(p)
        PROVE  <1>1!:
    BY <2>1, <2>4 DEF Exits
  <2>5. CASE Idles
    BY <2>1, <2>5 DEF Idles
  <2> QED BY <2>2, <2>3, <2>4, <2>5
<1>2. TypeOK'
  BY <1>1 DEF IndInv, TypeOK, collection, context, history
<1> QED BY <1>1, <1>2, TablesStay DEF collection, context, history

LEMMA ReadTotalStep ==
  ASSUME IndInv, ReadTotal
  PROVE  IndInv'
<1>1. TypeOK'
  BY DEF IndInv, TypeOK, ReadTotal, world, context, history
<1> QED BY <1>1, TablesStay DEF ReadTotal, context, history

LEMMA ConfigureStep ==
  ASSUME IndInv, NEW settings \in Settings, Configure(settings)
  PROVE  IndInv'
<1>1. settings.alpha \in 0..10 /\ settings.limit \in Nat
  BY SettingsAssumption
<1>2. top_processes_limit' \in Nat \ {0}
  BY <1>1, MaxProcsAssumption DEF Configure
<1>3. TypeOK'
  BY <1>1, <1>2 DEF IndInv, TypeOK, Configure, world, collection, history
<1> QED BY <1>3, TablesStay DEF Configure, collection, history

(* A sample is counted one ahead of its streak, whether it is known or new. *)
LEMMA SampleCounts ==
  ASSUME IndInv, NEW p \in DOMAIN ticks
  PROVE  Sample(p).sample_count = Counted(streak[p])
<1>1. p \in Pid /\ streak[p] \in Nat
  BY DEF IndInv, TypeOK
<1>2. CASE Known(p)
  <2>1. PICK i \in DOMAIN samples : samples[i].pid = p /\ Previous(p) = samples[i]
    BY <1>2, PreviousIs DEF IndInv
  <2>2. Previous(p).sample_count = streak[p]
    BY <2>1 DEF IndInv, CountsAreStreaks
  <2> QED BY <1>2, <2>2 DEF Sample
<1>3. CASE ~Known(p)
  <2>1. streak[p] = 0
    BY <1>1, <1>3 DEF IndInv, CountsAreStreaks
  <2>2. Counted(0) = 1
    BY MaxSeenAssumption DEF Counted
  <2> QED BY <1>3, <2>1, <2>2 DEF Sample
<1> QED BY <1>2, <1>3

LEMMA ScanProcessStep ==
  ASSUME IndInv, NEW p \in Pid, ScanProcess(p)
  PROVE  IndInv'
<1> DEFINE s == Sample(p)
<1>1. /\ p \in DOMAIN ticks /\ p > pid /\ pid' = p /\ p \in Nat /\ pid \in Nat
      /\ curr_samples' \in Stored(curr_samples, s)
      /\ peak' = IF CpuPct(p) > peak THEN CpuPct(p) ELSE peak
      /\ UNCHANGED <<world, pc, curr_total, context, listed, history>>
  BY PidAssumption DEF ScanProcess, IndInv, TypeOK
<1>2. s \in SampleOf /\ s.pid = p /\ s.cpu_pct = CpuPct(p) /\ s.cpu_pct \in Nat
  BY <1>1, SampleTyped DEF IndInv, Sample
<1>3. s.sample_count = Counted(streak[p])
  BY <1>1, SampleCounts
<1> HIDE DEF s
<1>4. /\ curr_samples \in Seq(SampleOf) /\ Len(curr_samples) <= MaxTracked
      /\ Apart(curr_samples)
      /\ \A i \in DOMAIN curr_samples :
            curr_samples[i] \in SampleOf /\ curr_samples[i].pid # s.pid
  <2>1. curr_samples \in Seq(SampleOf) /\ Len(curr_samples) <= MaxTracked
        /\ Apart(curr_samples)
    BY DEF IndInv, TypeOK
  <2>2. \A i \in DOMAIN curr_samples : curr_samples[i] \in SampleOf
    BY <2>1, LenProperties, ElementOfSeq
  <2>3. \A i \in DOMAIN curr_samples : curr_samples[i].pid # s.pid
    <3> TAKE i \in DOMAIN curr_samples
    <3>1. curr_samples[i].pid <= pid /\ curr_samples[i].pid \in Nat
      BY <2>2, PidAssumption DEF IndInv, Behind, SampleOf
    <3> QED BY <3>1, <1>1, <1>2
  <2> QED BY <2>1, <2>2, <2>3
<1>5. /\ curr_samples' \in Seq(SampleOf) /\ Len(curr_samples') <= MaxTracked
      /\ Apart(curr_samples') /\ curr_samples' # << >>
      /\ \A i \in DOMAIN curr_samples' : \/ curr_samples'[i] = s
            \/ \E j \in DOMAIN curr_samples : curr_samples'[i] = curr_samples[j]
      /\ \/ \E i \in DOMAIN curr_samples' : curr_samples'[i] = s
         \/ \E i \in DOMAIN curr_samples : curr_samples[i].cpu_pct >= s.cpu_pct
      /\ \A j \in DOMAIN curr_samples :
            \/ \E i \in DOMAIN curr_samples' : curr_samples'[i] = curr_samples[j]
            \/ s.cpu_pct > curr_samples[j].cpu_pct
  BY <1>1, <1>2, <1>4, StoredKeeps
<1>6. peak \in Nat /\ peak' \in Nat /\ peak <= peak' /\ s.cpu_pct <= peak'
      /\ peak' \in {peak, s.cpu_pct} /\ (s.cpu_pct > peak => peak' = s.cpu_pct)
      /\ (~(s.cpu_pct > peak) => peak' = peak)
  BY <1>1, <1>2 DEF IndInv, TypeOK
<1>7. TypeOK'
  BY <1>1, <1>5, <1>6 DEF IndInv, TypeOK, world, context, history
<1>8. Behind'
  <2> SUFFICES ASSUME NEW i \in DOMAIN curr_samples'
               PROVE  curr_samples'[i].pid <= p
    BY <1>1 DEF Behind
  <2>1. ASSUME NEW j \in DOMAIN curr_samples PROVE curr_samples[j].pid <= p
    <3>1. curr_samples[j].pid <= pid /\ curr_samples[j].pid \in Nat
      BY <1>4, PidAssumption DEF IndInv, Behind, SampleOf
    <3> QED BY <3>1, <1>1
  <2> QED BY <2>1, <1>1, <1>2, <1>5
<1>9. CountsAreStreaks'
  <2>1. \A i \in DOMAIN curr_samples' :
            curr_samples'[i].sample_count = Counted(streak[curr_samples'[i].pid])
    <3> TAKE i \in DOMAIN curr_samples'
    <3>1. \A j \in DOMAIN curr_samples :
              curr_samples[j].sample_count = Counted(streak[curr_samples[j].pid])
      BY DEF IndInv, CountsAreStreaks
    <3> QED BY <3>1, <1>2, <1>3, <1>5
  <2>2. UNCHANGED <<samples, streak>>
    BY <1>1 DEF context, history
  <2> QED BY <2>1, <2>2 DEF IndInv, CountsAreStreaks, Known, Counted
<1>10. PeakIsKept'
  <2>1. \A i \in DOMAIN curr_samples' : curr_samples'[i].cpu_pct <= peak'
    <3> TAKE i \in DOMAIN curr_samples'
    <3>1. \A j \in DOMAIN curr_samples :
              curr_samples[j].cpu_pct <= peak /\ curr_samples[j].cpu_pct \in Nat
      BY <1>4 DEF IndInv, PeakIsKept, SampleOf
    <3> QED BY <3>1, <1>5, <1>6
  <2>2. \E i \in DOMAIN curr_samples' : curr_samples'[i].cpu_pct = peak'
    <3>1. CASE \E i \in DOMAIN curr_samples' : curr_samples'[i] = s /\ peak' = s.cpu_pct
      BY <3>1
    <3>2. CASE /\ curr_samples # << >>
               /\ peak' = peak
      <4>1. PICK j \in DOMAIN curr_samples : curr_samples[j].cpu_pct = peak
        BY <3>2 DEF IndInv, PeakIsKept
      <4>2. ~(s.cpu_pct > curr_samples[j].cpu_pct)
        BY <4>1, <3>2, <1>6, <1>2
      <4>3. PICK i \in DOMAIN curr_samples' : curr_samples'[i] = curr_samples[j]
        BY <4>2, <1>5
      <4> QED BY <4>1, <4>3, <3>2
    <3>3. CASE curr_samples = << >>
      <4>1. peak = 0 /\ DOMAIN curr_samples = {}
        BY <3>3 DEF IndInv, PeakIsKept
      <4>2. peak' = s.cpu_pct
        BY <4>1, <1>6, <1>2
      <4> QED BY <4>1, <4>2, <1>5
    <3>4. CASE s.cpu_pct > peak
      <4>1. \A j \in DOMAIN curr_samples :
                curr_samples[j].cpu_pct <= peak /\ curr_samples[j].cpu_pct \in Nat
        BY <1>4 DEF IndInv, PeakIsKept, SampleOf
      <4>2. \E i \in DOMAIN curr_samples' : curr_samples'[i] = s
        BY <4>1, <3>4, <1>2, <1>5, <1>6
      <4> QED BY <4>2, <3>4, <1>6
    <3> QED BY <3>1, <3>2, <3>3, <3>4, <1>6
  <2> QED BY <2>1, <2>2, <1>5 DEF PeakIsKept
<1>11. Apart(samples)' /\ Apart(curr_samples)'
  BY <1>1, <1>5 DEF IndInv, Apart, context
<1>12. MeasuredOverOneInterval'
  BY <1>1 DEF IndInv, MeasuredOverOneInterval, context, history
<1> QED BY <1>7, <1>8, <1>9, <1>10, <1>11, <1>12 DEF IndInv

(* A collection that is over leaves an empty scratch table.                 *)
LEMMA ReturnLeaves ==
  ASSUME Return
  PROVE  /\ curr_samples' = << >> /\ curr_samples' \in Seq(SampleOf)
         /\ Len(curr_samples') <= MaxTracked /\ DOMAIN curr_samples' = {}
         /\ Apart(curr_samples') /\ Behind' /\ PeakIsKept'
         /\ pc' = "idle" /\ curr_total' = 0 /\ pid' = 0 /\ peak' = 0
<1>1. /\ curr_samples' = << >> /\ DOMAIN curr_samples' = {}
      /\ pc' = "idle" /\ curr_total' = 0 /\ pid' = 0 /\ peak' = 0
  BY DEF Return
<1>2. << >> \in Seq(SampleOf) /\ Len(<< >>) = 0
  BY EmptySeq
<1> QED BY <1>1, <1>2, MaxTrackedAssumption DEF Apart, Behind, PeakIsKept

(* What the last scan's table becomes: the same samples, by resident set.   *)
LEMMA ScanEndsKeeps ==
  ASSUME IndInv, ScanEnds
  PROVE  /\ samples' \in Seq(SampleOf) /\ Apart(samples')
         /\ \A i \in DOMAIN samples' : \E j \in DOMAIN curr_samples :
               samples'[i] = curr_samples[j]
         /\ \A j \in DOMAIN curr_samples : \E i \in DOMAIN samples' :
               samples'[i] = curr_samples[j]
         /\ \E i \in DOMAIN samples' : samples'[i].cpu_pct = peak
               /\ samples'[i].pid = listed'.cpu[1]
<1>1. PICK byCpu \in SortedByCpu(curr_samples) : \E byRss \in SortedByRss(byCpu) :
        /\ listed' = [cpu |-> Pids(byCpu, top_processes_limit),
                      rss |-> Pids(byRss, top_processes_limit)]
        /\ samples' = byRss
  BY DEF ScanEnds
<1>2. samples' \in SortedByRss(byCpu) /\ listed'.cpu = Pids(byCpu, top_processes_limit)
  BY <1>1
<1>3. curr_samples \in Seq(SampleOf) /\ Apart(curr_samples) /\ curr_samples # << >>
  BY DEF IndInv, TypeOK, ScanEnds
<1>4. /\ byCpu \in Seq(SampleOf) /\ Apart(byCpu)
      /\ \A i \in DOMAIN byCpu : \E j \in DOMAIN curr_samples : byCpu[i] = curr_samples[j]
      /\ \A j \in DOMAIN curr_samples : \E i \in DOMAIN byCpu : byCpu[i] = curr_samples[j]
  BY <1>3, ReorderedKeeps DEF SortedByCpu
<1>5. /\ samples' \in Seq(SampleOf) /\ Apart(samples')
      /\ \A i \in DOMAIN samples' : \E j \in DOMAIN byCpu : samples'[i] = byCpu[j]
      /\ \A j \in DOMAIN byCpu : \E i \in DOMAIN samples' : samples'[i] = byCpu[j]
  BY <1>2, <1>4, ReorderedKeeps DEF SortedByRss
<1>6. \A i \in DOMAIN samples' : \E j \in DOMAIN curr_samples : samples'[i] = curr_samples[j]
  BY <1>4, <1>5
<1>7. \A j \in DOMAIN curr_samples : \E i \in DOMAIN samples' : samples'[i] = curr_samples[j]
  BY <1>4, <1>5
<1>8. 1 \in DOMAIN byCpu /\ byCpu[1].cpu_pct = peak
  <2>1. PICK j \in DOMAIN curr_samples : curr_samples[j].cpu_pct = peak
    BY <1>3 DEF IndInv, PeakIsKept
  <2>2. PICK i \in DOMAIN byCpu : byCpu[i] = curr_samples[j]
    BY <1>4
  <2>3. 1 \in DOMAIN byCpu /\ byCpu[1].cpu_pct >= peak
    BY <1>3, <2>1, <2>2, FirstIsBusiest
  <2>4. byCpu[1].cpu_pct <= peak /\ byCpu[1].cpu_pct \in Nat /\ peak \in Nat
    <3>1. byCpu[1] \in SampleOf
      BY <2>3, <1>4, LenProperties, ElementOfSeq
    <3> QED BY <2>3, <1>4, <3>1 DEF IndInv, PeakIsKept, TypeOK, SampleOf
  <2> QED BY <2>3, <2>4
<1>9. listed'.cpu[1] = byCpu[1].pid
  <2>1. Len(byCpu) \in Nat /\ Len(byCpu) >= 1
    BY <1>4, <1>8, LenProperties
  <2>2. top_processes_limit \in Nat \ {0}
    BY DEF IndInv, TypeOK
  <2> QED BY <1>2, <2>1, <2>2 DEF Pids
<1>10. \E i \in DOMAIN samples' : samples'[i].cpu_pct = peak /\ samples'[i].pid = listed'.cpu[1]
  BY <1>5, <1>8, <1>9
<1> QED BY <1>5, <1>6, <1>7, <1>10

LEMMA ScanEndsStep ==
  ASSUME IndInv, ScanEnds
  PROVE  IndInv'
<1>1. /\ samples' \in Seq(SampleOf) /\ Apart(samples')
      /\ \A i \in DOMAIN samples' : \E j \in DOMAIN curr_samples :
            samples'[i] = curr_samples[j]
      /\ \A j \in DOMAIN curr_samples : \E i \in DOMAIN samples' :
            samples'[i] = curr_samples[j]
  BY ScanEndsKeeps
<1>2. /\ Return /\ last_total_ticks' = curr_total /\ sampledAt' = curr_total
      /\ streak' = [p \in Pid |-> IF Tracked(p) THEN Counted(streak[p]) ELSE 0]
      /\ UNCHANGED <<world, baseline_alpha, top_processes_limit>>
  BY DEF ScanEnds
<1>3. \A p \in Pid : streak[p] \in Nat /\ Counted(streak[p]) \in Nat
  BY MaxSeenAssumption DEF IndInv, TypeOK, Counted
<1>4. TypeOK'
  <2>1. streak' \in [Pid -> Nat]
    BY <1>2, <1>3
  <2>2. UNCHANGED <<ticks, total>>
    BY <1>2 DEF world
  <2> QED BY <1>1, <1>2, <2>1, <2>2, ReturnLeaves DEF IndInv, TypeOK
<1>5. CountsAreStreaks'
  <2>1. \A i \in DOMAIN samples' : samples'[i].sample_count = streak'[samples'[i].pid]
    <3> TAKE i \in DOMAIN samples'
    <3>1. PICK j \in DOMAIN curr_samples : samples'[i] = curr_samples[j]
      BY <1>1
    <3>2. samples'[i].pid \in Pid
      <4>1. samples'[i] \in SampleOf
        BY <1>1, LenProperties, ElementOfSeq
      <4> QED BY <4>1 DEF SampleOf
    <3>3. Tracked(samples'[i].pid)
      BY <3>1 DEF Tracked
    <3>4. curr_samples[j].sample_count = Counted(streak[curr_samples[j].pid])
      BY DEF IndInv, CountsAreStreaks
    <3> QED BY <3>1, <3>2, <3>3, <3>4, <1>2
  <2>2. \A p \in Pid : streak'[p] # 0 => \E i \in DOMAIN samples' : samples'[i].pid = p
    BY <1>1, <1>2 DEF Tracked
  <2>3. DOMAIN curr_samples' = {}
    BY <1>2, ReturnLeaves
  <2> QED BY <2>1, <2>2, <2>3 DEF CountsAreStreaks, Known
<1>6. MeasuredOverOneInterval'
  BY <1>2 DEF MeasuredOverOneInterval
<1>7. Apart(samples)' /\ Apart(curr_samples)' /\ Behind' /\ PeakIsKept'
  BY <1>1, <1>2, ReturnLeaves DEF Apart
<1> QED BY <1>4, <1>5, <1>6, <1>7 DEF IndInv

LEMMA ScanGivesUpStep ==
  ASSUME IndInv, ScanNothing \/ OpenFails
  PROVE  IndInv'
<1>1. /\ Return /\ UNCHANGED <<samples, streak, world, baseline_alpha, top_processes_limit>>
      /\ last_total_ticks' \in {last_total_ticks, curr_total}
      /\ \/ emptied'
         \/ UNCHANGED <<last_total_ticks, sampledAt, emptied>>
  BY DEF ScanNothing, OpenFails, context, history
<1>2. TypeOK'
  <2>1. UNCHANGED <<ticks, total>>
    BY <1>1 DEF world
  <2> QED BY <1>1, <2>1, ReturnLeaves DEF IndInv, TypeOK
<1>3. CountsAreStreaks'
  <2>1. DOMAIN curr_samples' = {}
    BY <1>1, ReturnLeaves
  <2> QED BY <1>1, <2>1 DEF IndInv, CountsAreStreaks, Known
<1>4. MeasuredOverOneInterval'
  BY <1>1 DEF IndInv, MeasuredOverOneInterval
<1>5. Apart(samples)' /\ Apart(curr_samples)' /\ Behind' /\ PeakIsKept'
  BY <1>1, ReturnLeaves DEF IndInv, Apart
<1> QED BY <1>2, <1>3, <1>4, <1>5 DEF IndInv

LEMMA IndInvStep == IndInv /\ [Next]_vars => IndInv'
<1> SUFFICES ASSUME IndInv, [Next]_vars PROVE IndInv'
  OBVIOUS
<1>1. CASE (\E p \in Pid : Runs(p) \/ Starts(p) \/ Exits(p)) \/ Idles
  BY <1>1, WorldStep
<1>2. ASSUME NEW p \in Pid, ScanProcess(p) PROVE IndInv'
  BY <1>2, ScanProcessStep
<1>3. CASE ReadTotal
  BY <1>3, ReadTotalStep
<1>4. CASE ScanEnds
  BY <1>4, ScanEndsStep
<1>5. CASE ScanNothing \/ OpenFails
  BY <1>5, ScanGivesUpStep
<1>6. ASSUME NEW settings \in Settings, Configure(settings) PROVE IndInv'
  BY <1>6, ConfigureStep
<1>7. CASE UNCHANGED vars
  <2>1. UNCHANGED <<world, collection, context, listed, history>>
    BY <1>7 DEF vars
  <2>2. TypeOK'
    BY <2>1 DEF IndInv, TypeOK, world, collection, context, history
  <2> QED BY <2>1, <2>2, TablesStay DEF collection, context, history
<1> QED BY <1>1, <1>2, <1>3, <1>4, <1>5, <1>6, <1>7 DEF Next

LEMMA AlwaysIndInv == Spec => []IndInv
  BY InitIndInv, IndInvStep, PTL DEF Spec

-------------------------------------------------------------------------------
(* What follows                                                             *)

(* Ticks, tables and settings keep to their ranges; the table of a scan     *)
(* never outgrows its array.                                                *)
THEOREM TypeCorrect == Spec => []TypeOK
<1>1. IndInv => TypeOK
  BY DEF IndInv
<1> QED BY <1>1, AlwaysIndInv, PTL

(* The detector's "new" is said of no process that more than two            *)
(* collections in a row have kept, however long the daemon has run.         *)
THEOREM NewIsAlwaysNew == Spec => []NewMeansNew
<1>1. IndInv => NewMeansNew
  BY DEF IndInv, CountsAreStreaks, NewMeansNew
<1> QED BY <1>1, AlwaysIndInv, PTL

(* The ticks of a process and those of the system that a usage compares are *)
(* of the same two collections.                                             *)
THEOREM AlwaysMeasuredOverOneInterval == Spec => []MeasuredOverOneInterval
<1>1. IndInv => MeasuredOverOneInterval
  BY DEF IndInv
<1> QED BY <1>1, AlwaysIndInv, PTL

(* The busiest process that a scan has read is remembered and listed first. *)
THEOREM BusiestIsAlwaysKept == Spec => BusiestIsKept
<1>1. IndInv /\ [Next]_vars =>
          [ScanEnds => \E i \in DOMAIN samples' : Busiest(samples'[i])]_vars
  BY ScanEndsKeeps DEF Busiest
<1> QED BY <1>1, AlwaysIndInv, PTL DEF Spec, BusiestIsKept
==============================================================================
