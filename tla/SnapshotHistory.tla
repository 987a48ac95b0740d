--------------------------- MODULE SnapshotHistory ---------------------------
(***************************************************************************)
(* What the daemon relies on its snapshot buffer for: the Capacity most    *)
(* recent snapshots, newest first, and two questions about them.  Nothing  *)
(* here says how they are stored; RingBuf does, and implements this.       *)
(***************************************************************************)
EXTENDS SnapshotList

CONSTANTS
    Snapshot,   \* the snapshots that may be remembered
    Pid, Usage  \* processes, and the usages a threshold may have

VARIABLES
    recent,     \* the retained snapshots, newest first
    reply       \* the last call, and what it returned

Answer(call, window, origin) ==
    [call |-> call, window |-> window, origin |-> origin]

Init == recent = << >> /\ reply = Answer(<<"init">>, << >>, -1)

Push(s) ==
    /\ recent' = Remember(recent, s)
    /\ reply' = Answer(<<"push", s>>, << >>, -1)

Recent(n) ==
    /\ reply' = Answer(<<"recent", n>>, Newest(recent, n), -1)
    /\ UNCHANGED recent

\* The offset from the newest snapshot where the spike began, -1 when the
\* newest does not show it.
Origin(pid, threshold) ==
    LET Hot(s) == s.cpu[pid] >= threshold IN
    /\ \E k \in 0..Len(recent) :
          /\ IsStreak(recent, Hot, k)
          /\ reply' = Answer(<<"origin", pid, threshold>>, << >>, k - 1)
    /\ UNCHANGED recent

Next ==
    \/ \E s \in Snapshot : Push(s)
    \/ \E n \in 0..(Capacity + 1) : Recent(n)
    \/ \E pid \in Pid, threshold \in Usage : Origin(pid, threshold)

Spec == Init /\ [][Next]_<<recent, reply>>
==============================================================================
