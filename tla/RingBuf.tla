------------------------------- MODULE RingBuf -------------------------------
(***************************************************************************)
(* The snapshot ring buffer, src/src/ringbuf.c.  The lock is not modelled: *)
(* every function takes it on entry and drops it on return, and the daemon *)
(* has one thread, so each call is one step.  A snapshot keeps its         *)
(* timestamp and, for each process it lists, the CPU usage.                *)
(***************************************************************************)
EXTENDS Integers, Sequences

CONSTANTS
    Capacity,   \* SPKT_RINGBUF_CAPACITY, 60 in the code
    Pid,        \* processes that may appear in a snapshot
    Usage,      \* the CPU percentages, and the thresholds compared with them
    MaxClock    \* bound: the last instant of the monotonic clock

ASSUME CapacityAssumption == Capacity \in Nat \ {0}
ASSUME UsageAssumption == Usage \subseteq Nat
ASSUME MaxClockAssumption == MaxClock \in Nat \ {0}

VARIABLES
    snapshots,  \* slot -> snapshot
    head, tail, count,
    clock,      \* what spkt_get_monotonic_ns reads
    reply       \* what the last call returned: a window of snapshots, an offset

vars == <<snapshots, head, tail, count, clock, reply>>

Slot == 0..(Capacity - 1)
Absent == -1     \* the usage of a process the snapshot does not list
Listing == [Pid -> Usage \union {Absent}]
Snapshot == [at : 0..MaxClock, cpu : Listing]
ZeroSnapshot == [at |-> 0, cpu |-> [p \in Pid |-> Absent]]

\* What a call leaves in reply: the call itself, the snapshots it copied out
\* and the offset it returned.
Answer(call, window, origin) ==
    [call |-> call, window |-> window, origin |-> origin]

\* The slot of the snapshot that is i places older than the newest.
SlotOf(i) == (tail + Capacity - i - 1) % Capacity

-------------------------------------------------------------------------------
Init ==
    /\ snapshots = [i \in Slot |-> ZeroSnapshot]
    /\ head = 0 /\ tail = 0 /\ count = 0
    /\ clock = 1
    /\ reply = Answer(<<"init">>, << >>, -1)

Stamped(s) == IF s.at = 0 THEN [s EXCEPT !.at = clock] ELSE s

\* Mutant: a full buffer keeps its head.
PushHeadStuck(s) ==
    /\ snapshots' = [snapshots EXCEPT ![tail] = Stamped(s)]
    /\ count' = IF count = Capacity THEN count ELSE count + 1
    /\ tail' = (tail + 1) % Capacity
    /\ reply' = Answer(<<"push", Stamped(s)>>, << >>, -1)
    /\ UNCHANGED <<head, clock>>

\* Mutant: a snapshot without a timestamp stays so.
PushUnstamped(s) ==
    /\ snapshots' = [snapshots EXCEPT ![tail] = s]
    /\ IF count = Capacity
       THEN head' = (head + 1) % Capacity /\ UNCHANGED count
       ELSE count' = count + 1 /\ UNCHANGED head
    /\ tail' = (tail + 1) % Capacity
    /\ reply' = Answer(<<"push", Stamped(s)>>, << >>, -1)
    /\ UNCHANGED clock

\* Mutant: count goes on past the capacity.
PushPastFull(s) ==
    /\ snapshots' = [snapshots EXCEPT ![tail] = Stamped(s)]
    /\ count' = count + 1
    /\ tail' = (tail + 1) % Capacity
    /\ reply' = Answer(<<"push", Stamped(s)>>, << >>, -1)
    /\ UNCHANGED <<head, clock>>

\* ringbuf_push: the snapshot goes to slot tail, over the oldest one when the
\* buffer is full.
Push(s) ==
    /\ snapshots' = [snapshots EXCEPT ![tail] = Stamped(s)]
    /\ IF count = Capacity
       THEN head' = (head + 1) % Capacity /\ UNCHANGED count
       ELSE count' = count + 1 /\ UNCHANGED head
    /\ tail' = (tail + 1) % Capacity
    /\ reply' = Answer(<<"push", Stamped(s)>>, << >>, -1)
    /\ UNCHANGED clock

\* ringbuf_get_recent.
GetRecent(n) ==
    /\ LET copied == IF n < count THEN n ELSE count IN
       reply' = Answer(<<"recent", n>>,
                       [i \in 1..copied |-> snapshots[SlotOf(i - 1)]], -1)
    /\ UNCHANGED <<snapshots, head, tail, count, clock>>

Hot(snap, pid, threshold) == snap.cpu[pid] >= threshold

\* Mutant: the search does not stop at the first snapshot below.
FindSkippingGaps(pid, threshold) ==
    /\ \E k \in 0..count :
          /\ k > 0 => Hot(snapshots[SlotOf(k - 1)], pid, threshold)
          /\ \A i \in k..(count - 1) : ~Hot(snapshots[SlotOf(i)], pid, threshold)
          /\ reply' = Answer(<<"origin", pid, threshold>>, << >>, k - 1)
    /\ UNCHANGED <<snapshots, head, tail, count, clock>>

\* ringbuf_find_spike_origin: the loop leaves at the first snapshot k, from
\* the newest, in which the process is below the threshold, or past the last.
FindSpikeOrigin(pid, threshold) ==
    /\ \E k \in 0..count :
          /\ \A i \in 0..(k - 1) : Hot(snapshots[SlotOf(i)], pid, threshold)
          /\ k < count => ~Hot(snapshots[SlotOf(k)], pid, threshold)
          /\ reply' = Answer(<<"origin", pid, threshold>>, << >>, k - 1)
    /\ UNCHANGED <<snapshots, head, tail, count, clock>>

Tick ==
    /\ clock < MaxClock
    /\ clock' = clock + 1
    /\ UNCHANGED <<snapshots, head, tail, count, reply>>

\* The daemon stamps a snapshot when it collects it; a snapshot that carries
\* no timestamp is stamped by Push.
Next ==
    \/ \E at \in {0, clock}, cpu \in Listing : Push([at |-> at, cpu |-> cpu])
    \/ \E n \in 0..(Capacity + 1) : GetRecent(n)
    \/ \E pid \in Pid, threshold \in Usage : FindSpikeOrigin(pid, threshold)
    \/ Tick

Call == {<<"init">>}
        \union {<<"push", s>> : s \in Snapshot}
        \union {<<"recent", n>> : n \in 0..(Capacity + 1)}
        \union {<<"origin", p, t>> : p \in Pid, t \in Usage}

Spec == Init /\ [][Next]_vars

-------------------------------------------------------------------------------
\* Every variable has its type: in particular the three indices stay inside
\* the array (ringbuf.c computes them modulo the capacity, in size_t).
TypeOK ==
    /\ snapshots \in [Slot -> Snapshot]
    /\ head \in Slot /\ tail \in Slot /\ count \in 0..Capacity
    /\ clock \in 1..MaxClock
    /\ reply \in [call : Call, window : Seq(Snapshot), origin : -1..(Capacity - 1)]

\* head is redundant (no function reads it) and must still agree with tail
\* and count across every wrap: the live slots are those from head to tail.
HeadAgrees == tail = (head + count) % Capacity

\* Reading back from the newest never goes forward in time, and never runs
\* into a slot that was not written: what a dump calls its context is a
\* contiguous past, whichever slots it wrapped over.
NewestFirst ==
    \A i \in 0..(count - 1) :
        /\ snapshots[SlotOf(i)].at > 0
        /\ i + 1 < count =>
              snapshots[SlotOf(i)].at >= snapshots[SlotOf(i + 1)].at

Retained == [i \in 1..count |-> snapshots[SlotOf(i - 1)]]

History == INSTANCE SnapshotHistory
    WITH recent <- Retained, Snapshot <- {s \in Snapshot : s.at > 0}

\* The circular array implements a list of the newest Capacity snapshots:
\* whatever the wrap, each call stores and answers as the list would.
ImplementsHistory == History!Spec
==============================================================================
