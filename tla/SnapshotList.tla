----------------------------- MODULE SnapshotList -----------------------------
(***************************************************************************)
(* The list of retained snapshots, newest first, as a value: what the      *)
(* buffer's operations mean, for SnapshotHistory and for the daemon.       *)
(***************************************************************************)
EXTENDS Integers, Sequences

CONSTANT Capacity   \* SPKT_RINGBUF_CAPACITY

Smaller(m, n) == IF m <= n THEN m ELSE n

\* s in front, the oldest dropped when Capacity are already held.
Remember(list, s) ==
    [i \in 1..Smaller(Len(list) + 1, Capacity) |->
        IF i = 1 THEN s ELSE list[i - 1]]

\* The n newest, or all when there are fewer.
Newest(list, n) == [i \in 1..Smaller(n, Len(list)) |-> list[i]]

\* The k newest are hot and the next, if there is one, is not.
IsStreak(list, Hot(_), k) ==
    /\ k \in 0..Len(list)
    /\ \A i \in 1..k : Hot(list[i])
    /\ k < Len(list) => ~Hot(list[k + 1])
==============================================================================
