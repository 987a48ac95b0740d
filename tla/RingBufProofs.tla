---------------------------- MODULE RingBufProofs ----------------------------
(***************************************************************************)
(* For every capacity, every set of processes and usages and every bound   *)
(* on the clock: the ring buffer's types, the agreement of its indices,    *)
(* the order of what it retains, and its implementation of                 *)
(* SnapshotHistory.                                                        *)
(***************************************************************************)
EXTENDS RingBuf, SequenceTheorems, TLAPS

(* A number the code reduces modulo the capacity is below twice it.         *)
LEMMA ModBelow == \A a \in 0..(Capacity - 1) : a % Capacity = a
  BY CapacityAssumption

(* From there up to twice the capacity, the modulo subtracts it once.       *)
LEMMA ModAbove ==
  \A a \in Capacity..(2 * Capacity - 1) : a % Capacity = a - Capacity
  BY CapacityAssumption

(* Where the snapshot i places older than the newest lies, in an array      *)
(* whose next free slot is t: SlotOf without the modulo.                    *)
BackFrom(t, i) == IF i < t THEN t - i - 1 ELSE t + Capacity - i - 1

LEMMA SlotOfIsBack ==
  ASSUME NEW t \in Slot, NEW i \in 0..(Capacity - 1)
  PROVE  /\ (t + Capacity - i - 1) % Capacity = BackFrom(t, i)
         /\ BackFrom(t, i) \in Slot
<1>1. CASE i < t
  <2>1. t + Capacity - i - 1 \in Capacity..(2 * Capacity - 1)
    BY <1>1, CapacityAssumption DEF Slot
  <2>. QED BY <1>1, <2>1, ModAbove, CapacityAssumption DEF BackFrom, Slot
<1>2. CASE ~(i < t)
  <2>1. t + Capacity - i - 1 \in 0..(Capacity - 1)
    BY <1>2, CapacityAssumption DEF Slot
  <2>. QED BY <1>2, <2>1, ModBelow, CapacityAssumption DEF BackFrom, Slot
<1>. QED BY <1>1, <1>2

(* The slot after t, as both indices advance.                               *)
LEMMA NextSlot ==
  ASSUME NEW t \in Slot
  PROVE  /\ (t + 1) % Capacity = IF t = Capacity - 1 THEN 0 ELSE t + 1
         /\ (t + 1) % Capacity \in Slot
<1>1. CASE t = Capacity - 1
  BY <1>1, ModAbove, CapacityAssumption DEF Slot
<1>2. CASE t # Capacity - 1
  <2>1. t + 1 \in 0..(Capacity - 1)
    BY <1>2, CapacityAssumption DEF Slot
  <2>. QED BY <1>2, <2>1, ModBelow, CapacityAssumption DEF Slot
<1>. QED BY <1>1, <1>2

(* A full buffer advances both indices, one that is not advances tail and   *)
(* counts the slot: in both cases the indices agree again.                  *)
LEMMA AdvanceBoth ==
  ASSUME NEW h \in Slot, NEW t \in Slot, t = (h + Capacity) % Capacity
  PROVE  (t + 1) % Capacity = (((h + 1) % Capacity) + Capacity) % Capacity
<1>1. t = h
  BY ModAbove, CapacityAssumption DEF Slot
<1>2. (h + 1) % Capacity \in Slot
  BY NextSlot
<1>3. ASSUME NEW a \in Slot PROVE (a + Capacity) % Capacity = a
  BY ModAbove, CapacityAssumption DEF Slot
<1>. QED BY <1>1, <1>2, <1>3

(* tail is count places after head, and stays so when it advances alone.    *)
LEMMA AdvanceTail ==
  ASSUME NEW h \in Slot, NEW t \in Slot, NEW c \in 0..(Capacity - 1),
         t = (h + c) % Capacity
  PROVE  (t + 1) % Capacity = (h + (c + 1)) % Capacity
<1>1. CASE h + c < Capacity
  <2>1. t = h + c
    BY <1>1, ModBelow, CapacityAssumption DEF Slot
  <2>. QED BY <2>1, CapacityAssumption DEF Slot
<1>2. CASE h + c >= Capacity
  <2>1. h + c \in Capacity..(2 * Capacity - 1)
    BY <1>2, CapacityAssumption DEF Slot
  <2>2. t = h + c - Capacity
    BY <2>1, ModAbove, CapacityAssumption DEF Slot
  <2>3. t + 1 \in 0..(Capacity - 1) /\ h + (c + 1) \in Capacity..(2 * Capacity - 1)
    BY <2>1, <2>2, CapacityAssumption DEF Slot
  <2>4. (t + 1) % Capacity = t + 1
    BY <2>3, ModBelow, CapacityAssumption DEF Slot
  <2>5. (h + (c + 1)) % Capacity = h + (c + 1) - Capacity
    BY <2>3, ModAbove, CapacityAssumption DEF Slot
  <2>. QED BY <2>2, <2>4, <2>5, CapacityAssumption DEF Slot
<1>. QED BY <1>1, <1>2, CapacityAssumption DEF Slot

(* Once tail has advanced, the newest is in the old tail's slot and every   *)
(* other snapshot is one place further back; none of the places that are    *)
(* still live is the slot just written.                                     *)
LEMMA BackAfterPush ==
  ASSUME NEW t \in Slot, NEW i \in 0..(Capacity - 1)
  PROVE  LET u == (t + 1) % Capacity IN
         /\ BackFrom(u, 0) = t
         /\ i > 0 => /\ BackFrom(u, i) = BackFrom(t, i - 1)
                     /\ BackFrom(u, i) # t
  BY NextSlot, CapacityAssumption DEF Slot, BackFrom

(* The places of a list that grew from m to n elements, n <= m + 1.          *)
LEMMA Shifted ==
  ASSUME NEW m \in Nat, NEW n \in Nat, n <= m + 1, NEW i \in 0..(n - 1)
  PROVE  /\ i > 0 => i - 1 \in 0..(m - 1) /\ (i - 1) + 1 = i
         /\ i + 1 < n => i + 1 \in 0..(n - 1) /\ i + 1 # 0 /\ (i + 1) - 1 = i
         /\ i = 0 \/ i > 0
  OBVIOUS

(* A function on 1..n is a sequence.                                        *)
LEMMA FunctionIsSeq ==
  ASSUME NEW S, NEW n \in Nat, NEW f \in [1..n -> S]
  PROVE  f \in Seq(S) /\ Len(f) = n
  BY SeqDef

-------------------------------------------------------------------------------
(* The clock is a time a snapshot can carry.                                *)
LEMMA StampedIsSnapshot ==
  ASSUME TypeOK, NEW s \in Snapshot
  PROVE  Stamped(s) \in Snapshot /\ Stamped(s).at > 0
  BY MaxClockAssumption DEF TypeOK, Stamped, Snapshot

(* ringbuf_push writes a snapshot to a slot and keeps its indices in range. *)
LEMMA PushTypeOK ==
  ASSUME TypeOK, NEW s \in Snapshot, Push(s)
  PROVE  TypeOK'
<1>1. snapshots' \in [Slot -> Snapshot]
  BY StampedIsSnapshot DEF TypeOK, Push
<1>2. tail' \in Slot /\ head' \in Slot
  BY NextSlot DEF TypeOK, Push
<1>3. count' \in 0..Capacity
  BY CapacityAssumption DEF TypeOK, Push
<1>4. reply' \in [call : Call, window : Seq(Snapshot), origin : -1..(Capacity - 1)]
  <2>1. <<"push", Stamped(s)>> \in Call
    BY StampedIsSnapshot DEF Call
  <2>. QED
    BY <2>1, CapacityAssumption, EmptySeq DEF Push, Answer
<1>. QED BY <1>1, <1>2, <1>3, <1>4 DEF TypeOK, Push

(* ringbuf_get_recent copies what the slots hold and writes none.           *)
LEMMA GetRecentTypeOK ==
  ASSUME TypeOK, NEW n \in 0..(Capacity + 1), GetRecent(n)
  PROVE  TypeOK'
<1> DEFINE copied == IF n < count THEN n ELSE count
           window == [i \in 1..copied |-> snapshots[SlotOf(i - 1)]]
<1>1. copied \in 0..Capacity
  BY CapacityAssumption DEF TypeOK
<1>2. \A i \in 1..copied : SlotOf(i - 1) \in Slot
  BY <1>1, SlotOfIsBack, CapacityAssumption DEF SlotOf, TypeOK
<1>3. window \in [1..copied -> Snapshot]
  BY <1>2 DEF TypeOK
<1> HIDE DEF copied
<1>4. window \in Seq(Snapshot)
  BY <1>1, <1>3, FunctionIsSeq, CapacityAssumption
<1>5. <<"recent", n>> \in Call
  BY DEF Call
<1>6. reply' = Answer(<<"recent", n>>, window, -1)
  BY DEF GetRecent, copied
<1> HIDE DEF window
<1>7. reply' \in [call : Call, window : Seq(Snapshot), origin : -1..(Capacity - 1)]
  BY <1>4, <1>5, <1>6, CapacityAssumption DEF Answer
<1>8. UNCHANGED <<snapshots, head, tail, count, clock>>
  BY DEF GetRecent
<1>. QED BY <1>7, <1>8 DEF TypeOK

(* ringbuf_find_spike_origin writes none either.                            *)
LEMMA FindSpikeOriginTypeOK ==
  ASSUME TypeOK, NEW pid \in Pid, NEW threshold \in Usage,
         FindSpikeOrigin(pid, threshold)
  PROVE  TypeOK'
<1>1. <<"origin", pid, threshold>> \in Call
  BY DEF Call
<1>2. PICK k \in 0..count :
        reply' = Answer(<<"origin", pid, threshold>>, << >>, k - 1)
  BY DEF FindSpikeOrigin
<1>. QED
  BY <1>1, <1>2, CapacityAssumption, EmptySeq DEF TypeOK, FindSpikeOrigin, Answer

(* What the daemon pushes is a snapshot.                                    *)
LEMMA InputIsSnapshot ==
  ASSUME TypeOK, NEW at \in {0, clock}, NEW cpu \in Listing
  PROVE  [at |-> at, cpu |-> cpu] \in Snapshot
  BY MaxClockAssumption DEF TypeOK, Snapshot

(* The buffer starts zeroed.                                                *)
LEMMA InitTypeOK == Init => TypeOK
  BY CapacityAssumption, MaxClockAssumption, EmptySeq
  DEF Init, TypeOK, Snapshot, ZeroSnapshot, Listing, Absent, Answer, Call, Slot

(* Every operation keeps the types.                                         *)
LEMMA TypeOKStep == TypeOK /\ [Next]_vars => TypeOK'
<1>1. ASSUME TypeOK, [Next]_vars PROVE TypeOK'
  <2>1. ASSUME NEW at \in {0, clock}, NEW cpu \in Listing,
               Push([at |-> at, cpu |-> cpu])
        PROVE  TypeOK'
    BY <1>1, <2>1, PushTypeOK, InputIsSnapshot
  <2>2. ASSUME NEW n \in 0..(Capacity + 1), GetRecent(n) PROVE TypeOK'
    BY <1>1, <2>2, GetRecentTypeOK
  <2>3. ASSUME NEW pid \in Pid, NEW threshold \in Usage,
               FindSpikeOrigin(pid, threshold)
        PROVE  TypeOK'
    BY <1>1, <2>3, FindSpikeOriginTypeOK
  <2>4. ASSUME Tick PROVE TypeOK'
    BY <1>1, <2>4, MaxClockAssumption DEF TypeOK, Tick
  <2>5. ASSUME UNCHANGED vars PROVE TypeOK'
    BY <1>1, <2>5 DEF TypeOK, vars
  <2>. QED BY <1>1, <2>1, <2>2, <2>3, <2>4, <2>5 DEF Next
<1>. QED BY <1>1

(* Every variable keeps its type: the indices never leave the array.        *)
THEOREM TypeCorrect == Spec => []TypeOK
  BY InitTypeOK, TypeOKStep, PTL DEF Spec

-------------------------------------------------------------------------------
(* The indices agree and the live slots are in order.  NewestFirst is not   *)
(* inductive alone: that a pushed snapshot is not older than those retained *)
(* needs the clock to be ahead of all of them.                              *)
NoneAhead == \A i \in 0..(count - 1) : snapshots[SlotOf(i)].at <= clock

IndInv == TypeOK /\ HeadAgrees /\ NewestFirst /\ NoneAhead

(* ringbuf_push keeps head, tail and count in agreement.                    *)
LEMMA PushIndices ==
  ASSUME TypeOK, HeadAgrees, NEW s \in Snapshot, Push(s)
  PROVE  HeadAgrees'
<1>1. /\ head \in Slot /\ tail \in Slot /\ count \in 0..Capacity
      /\ tail = (head + count) % Capacity
      /\ tail' = (tail + 1) % Capacity
  BY DEF TypeOK, HeadAgrees, Push
<1>2. CASE count = Capacity
  BY <1>1, <1>2, AdvanceBoth DEF HeadAgrees, Push
<1>3. CASE count # Capacity
  <2>1. count \in 0..(Capacity - 1)
    BY <1>1, <1>3, CapacityAssumption
  <2>2. head' = head /\ count' = count + 1
    BY <1>3 DEF Push
  <2>. QED BY <1>1, <2>1, <2>2, AdvanceTail DEF HeadAgrees
<1>. QED BY <1>2, <1>3

(* After a push the newest place holds the stamped snapshot and the place i *)
(* holds what the place i - 1 held.                                         *)
LEMMA PushShifts ==
  ASSUME TypeOK, NEW s \in Snapshot, Push(s), NEW i \in 0..(count' - 1)
  PROVE  snapshots'[SlotOf(i)'] =
            IF i = 0 THEN Stamped(s) ELSE snapshots[SlotOf(i - 1)]
<1>1. /\ tail \in Slot /\ tail' = (tail + 1) % Capacity /\ tail' \in Slot
      /\ snapshots' = [snapshots EXCEPT ![tail] = Stamped(s)]
      /\ snapshots \in [Slot -> Snapshot]
  BY NextSlot DEF TypeOK, Push
<1>2. i \in 0..(Capacity - 1)
  BY CapacityAssumption DEF TypeOK, Push
<1>3. SlotOf(i)' = BackFrom(tail', i) /\ BackFrom(tail', i) \in Slot
  BY <1>1, <1>2, SlotOfIsBack DEF SlotOf
<1>4. CASE i = 0
  BY <1>1, <1>2, <1>3, <1>4, BackAfterPush
<1>5. CASE i > 0
  <2>1. BackFrom(tail', i) = BackFrom(tail, i - 1) /\ BackFrom(tail', i) # tail
    BY <1>1, <1>2, <1>5, BackAfterPush
  <2>2. SlotOf(i - 1) = BackFrom(tail, i - 1)
    BY <1>1, <1>2, <1>5, SlotOfIsBack, CapacityAssumption DEF SlotOf
  <2>. QED BY <1>1, <1>3, <1>5, <2>1, <2>2
<1>. QED BY <1>2, <1>4, <1>5

(* The snapshot pushed is no older than any other, and the others keep      *)
(* their order.                                                             *)
LEMMA PushOrder ==
  ASSUME IndInv, NEW at \in {0, clock}, NEW cpu \in Listing,
         Push([at |-> at, cpu |-> cpu])
  PROVE  NewestFirst' /\ NoneAhead'
<1> DEFINE s == [at |-> at, cpu |-> cpu]
<1>1. s \in Snapshot /\ Stamped(s).at = clock
  BY InputIsSnapshot DEF IndInv, Stamped
<1>2. clock' = clock /\ clock \in Nat /\ clock > 0
  BY MaxClockAssumption DEF IndInv, TypeOK, Push
<1>3. \A i \in 0..(count' - 1) :
        snapshots'[SlotOf(i)'] =
            IF i = 0 THEN Stamped(s) ELSE snapshots[SlotOf(i - 1)]
  BY <1>1, PushShifts DEF IndInv
<1>4. count \in Nat /\ count' \in Nat /\ count' <= count + 1
  BY CapacityAssumption DEF IndInv, TypeOK, Push
<1>5. \A i \in 0..(count - 1) :
        /\ SlotOf(i) \in Slot
        /\ snapshots[SlotOf(i)].at \in Nat
  <2> SUFFICES ASSUME NEW i \in 0..(count - 1)
               PROVE  SlotOf(i) \in Slot /\ snapshots[SlotOf(i)].at \in Nat
    OBVIOUS
  <2>1. i \in 0..(Capacity - 1) /\ tail \in Slot
    BY CapacityAssumption DEF IndInv, TypeOK
  <2>2. SlotOf(i) \in Slot
    BY <2>1, SlotOfIsBack DEF SlotOf
  <2>. QED BY <2>2, MaxClockAssumption DEF IndInv, TypeOK, Snapshot
<1> HIDE DEF s
<1>6. NoneAhead'
  <2> SUFFICES ASSUME NEW i \in 0..(count' - 1)
               PROVE  snapshots'[SlotOf(i)'].at <= clock
    BY <1>2 DEF NoneAhead
  <2>1. CASE i = 0
    BY <1>1, <1>2, <1>3, <2>1
  <2>2. CASE i > 0
    <3>1. i - 1 \in 0..(count - 1)
      BY <1>4, <2>2, Shifted
    <3>. QED BY <1>3, <2>2, <3>1 DEF IndInv, NoneAhead
  <2>. QED BY <1>4, <2>1, <2>2, Shifted
<1>7. NewestFirst'
  <2> SUFFICES ASSUME NEW i \in 0..(count' - 1)
               PROVE  /\ snapshots'[SlotOf(i)'].at > 0
                      /\ i + 1 < count' =>
                            snapshots'[SlotOf(i)'].at >= snapshots'[SlotOf(i + 1)'].at
    BY DEF NewestFirst
  <2>1. i + 1 < count' => snapshots'[SlotOf(i + 1)'] = snapshots[SlotOf(i)]
    <3>1. ASSUME i + 1 < count' PROVE i + 1 \in 0..(count' - 1) /\ i + 1 # 0 /\ (i + 1) - 1 = i
      BY <1>4, <3>1, Shifted
    <3>. QED BY <1>3, <3>1
  <2>2. CASE i = 0
    <3>1. snapshots'[SlotOf(i)'].at = clock
      BY <1>1, <1>3, <2>2
    <3>2. i + 1 < count' => snapshots[SlotOf(i)].at <= clock
      BY <1>4, <2>2 DEF IndInv, NoneAhead
    <3>3. i + 1 < count' => snapshots[SlotOf(i)].at \in Nat
      BY <1>4, <1>5, <2>2
    <3>. QED BY <1>2, <2>1, <3>1, <3>2, <3>3
  <2>3. CASE i > 0
    <3>1. i - 1 \in 0..(count - 1) /\ (i - 1) + 1 = i
      BY <1>4, <2>3, Shifted
    <3>2. snapshots'[SlotOf(i)'] = snapshots[SlotOf(i - 1)]
      BY <1>3, <2>3
    <3>3. snapshots[SlotOf(i - 1)].at > 0
      BY <3>1 DEF IndInv, NewestFirst
    <3>4. i + 1 < count' => snapshots[SlotOf(i - 1)].at >= snapshots[SlotOf(i)].at
      BY <1>4, <3>1 DEF IndInv, NewestFirst
    <3>. QED BY <2>1, <3>2, <3>3, <3>4
  <2>. QED BY <1>4, <2>2, <2>3, Shifted
<1>. QED BY <1>6, <1>7

(* Every operation, and time passing, preserves the invariant.              *)
LEMMA IndInvStep == IndInv /\ [Next]_vars => IndInv'
<1> SUFFICES ASSUME IndInv, [Next]_vars PROVE IndInv'
  OBVIOUS
<1>0. TypeOK'
  BY TypeOKStep DEF IndInv
<1>1. ASSUME NEW at \in {0, clock}, NEW cpu \in Listing,
             Push([at |-> at, cpu |-> cpu])
      PROVE  IndInv'
  <2>1. HeadAgrees'
    BY <1>1, InputIsSnapshot, PushIndices DEF IndInv
  <2>2. NewestFirst' /\ NoneAhead'
    BY <1>1, PushOrder
  <2>. QED BY <1>0, <2>1, <2>2 DEF IndInv
<1>2. ASSUME UNCHANGED <<snapshots, head, tail, count, clock>> PROVE IndInv'
  BY <1>0, <1>2 DEF IndInv, HeadAgrees, NewestFirst, NoneAhead, SlotOf
<1>3. ASSUME Tick PROVE IndInv'
  <2>1. /\ clock' = clock + 1 /\ clock \in Nat
        /\ UNCHANGED <<snapshots, head, tail, count>>
    BY <1>3, MaxClockAssumption DEF IndInv, Tick, TypeOK
  <2>2. HeadAgrees' /\ NewestFirst'
    BY <2>1 DEF IndInv, HeadAgrees, NewestFirst, SlotOf
  <2>3. NoneAhead'
    <3> SUFFICES ASSUME NEW i \in 0..(count - 1)
                 PROVE  snapshots[SlotOf(i)].at <= clock + 1
      BY <2>1 DEF NoneAhead, SlotOf
    <3>1. SlotOf(i) \in Slot
      BY SlotOfIsBack, CapacityAssumption DEF SlotOf, IndInv, TypeOK
    <3>2. snapshots[SlotOf(i)].at \in Nat
      BY <3>1, MaxClockAssumption DEF IndInv, TypeOK, Snapshot
    <3>. QED BY <2>1, <3>2 DEF IndInv, NoneAhead
  <2>. QED BY <1>0, <2>2, <2>3 DEF IndInv
<1>. QED
  BY <1>1, <1>2, <1>3 DEF Next, GetRecent, FindSpikeOrigin, vars

(* The empty buffer has it.                                                 *)
LEMMA InitIndInv == Init => IndInv
<1> SUFFICES ASSUME Init PROVE IndInv
  OBVIOUS
<1>1. TypeOK
  BY InitTypeOK
<1>2. HeadAgrees
  BY ModBelow, CapacityAssumption DEF Init, HeadAgrees
<1>. QED BY <1>1, <1>2 DEF Init, IndInv, NewestFirst, NoneAhead

(* The slot written next stays count places after the oldest, round the     *)
(* array, through every push and wrap.                                      *)
THEOREM HeadAlwaysAgrees == Spec => []HeadAgrees
  BY InitIndInv, IndInvStep, PTL DEF Spec, IndInv

(* What the buffer retains is always stamped and in order of time.          *)
THEOREM AlwaysNewestFirst == Spec => []NewestFirst
  BY InitIndInv, IndInvStep, PTL DEF Spec, IndInv

-------------------------------------------------------------------------------
(* The refinement.                                                          *)
LEMMA RetainedIsSeq ==
  ASSUME TypeOK
  PROVE  /\ Retained \in [1..count -> Snapshot]
         /\ Len(Retained) = count
         /\ \A i \in 1..count : Retained[i] = snapshots[SlotOf(i - 1)]
<1>1. count \in Nat /\ count <= Capacity
  BY CapacityAssumption DEF TypeOK
<1>2. ASSUME NEW i \in 1..count PROVE SlotOf(i - 1) \in Slot
  <2>1. i - 1 \in 0..(Capacity - 1)
    BY <1>1, CapacityAssumption
  <2>2. tail \in Slot
    BY DEF TypeOK
  <2>. QED BY <2>1, <2>2, SlotOfIsBack DEF SlotOf
<1>3. Retained \in [1..count -> Snapshot]
  BY <1>2 DEF Retained, TypeOK
<1>. QED BY <1>1, <1>3, FunctionIsSeq DEF Retained

(* A push puts the new snapshot before the retained ones.                   *)
LEMMA PushRefines ==
  ASSUME TypeOK, TypeOK', NEW s \in Snapshot, Push(s)
  PROVE  History!Next
<1>1. /\ count \in 0..Capacity /\ count' \in 0..Capacity
      /\ count' = History!Smaller(Len(Retained) + 1, Capacity)
  <2>1. count \in 0..Capacity /\ Len(Retained) = count
    BY RetainedIsSeq DEF TypeOK
  <2>. QED BY <2>1, CapacityAssumption DEF Push, History!Smaller
<1>2. Retained' = [i \in 1..count' |->
                      IF i = 1 THEN Stamped(s) ELSE Retained[i - 1]]
  <2>1. Retained' = [i \in 1..count' |-> snapshots'[SlotOf(i - 1)']]
    BY DEF Retained
  <2>2. ASSUME NEW i \in 1..count'
        PROVE  snapshots'[SlotOf(i - 1)'] =
                  IF i = 1 THEN Stamped(s) ELSE Retained[i - 1]
    <3>1. i - 1 \in 0..(count' - 1) /\ (i # 1 => i - 1 \in 1..count)
      BY <1>1, CapacityAssumption DEF Push
    <3>2. snapshots'[SlotOf(i - 1)'] =
             IF i - 1 = 0 THEN Stamped(s) ELSE snapshots[SlotOf((i - 1) - 1)]
      BY <3>1, PushShifts
    <3>. QED BY <1>1, <3>1, <3>2, RetainedIsSeq
  <2>. QED BY <2>1, <2>2
<1>3. Stamped(s) \in {t \in Snapshot : t.at > 0}
  BY StampedIsSnapshot
<1>4. reply' = History!Answer(<<"push", Stamped(s)>>, << >>, -1)
  BY DEF Push, Answer, History!Answer
<1>5. History!Push(Stamped(s))
  BY <1>1, <1>2, <1>4 DEF History!Push, History!Remember
<1>. QED BY <1>3, <1>5 DEF History!Next

(* What writes neither slots nor indices leaves the list as it is.          *)
LEMMA RetainedUnchanged ==
  UNCHANGED <<snapshots, tail, count>> => UNCHANGED Retained
  BY DEF Retained, SlotOf

(* ringbuf_get_recent returns a prefix of the list.                         *)
LEMMA GetRecentRefines ==
  ASSUME TypeOK, NEW n \in 0..(Capacity + 1), GetRecent(n)
  PROVE  History!Next
<1>1. count \in 0..Capacity /\ Len(Retained) = count
  BY RetainedIsSeq DEF TypeOK
<1> DEFINE copied == IF n < count THEN n ELSE count
<1>2. copied = History!Smaller(n, Len(Retained)) /\ copied \in 0..count
  BY <1>1, CapacityAssumption DEF History!Smaller
<1>3. reply' = Answer(<<"recent", n>>,
                      [i \in 1..copied |-> snapshots[SlotOf(i - 1)]], -1)
  BY DEF GetRecent
<1> HIDE DEF copied
<1>4. \A i \in 1..copied : snapshots[SlotOf(i - 1)] = Retained[i]
  BY <1>1, <1>2, RetainedIsSeq, CapacityAssumption
<1>5. [i \in 1..copied |-> snapshots[SlotOf(i - 1)]] = [i \in 1..copied |-> Retained[i]]
  BY <1>4
<1>6. UNCHANGED Retained
  BY RetainedUnchanged DEF GetRecent
<1>7. History!Recent(n)
  BY <1>2, <1>3, <1>5, <1>6 DEF History!Recent, History!Newest, History!Answer, Answer
<1>. QED BY <1>7 DEF History!Next

(* ringbuf_find_spike_origin measures a streak of the list.                 *)
LEMMA FindSpikeOriginRefines ==
  ASSUME TypeOK, NEW pid \in Pid, NEW threshold \in Usage,
         FindSpikeOrigin(pid, threshold)
  PROVE  History!Next
<1>1. count \in 0..Capacity /\ Len(Retained) = count
  BY RetainedIsSeq DEF TypeOK
<1>2. PICK k \in 0..count :
        /\ \A i \in 0..(k - 1) : Hot(snapshots[SlotOf(i)], pid, threshold)
        /\ k < count => ~Hot(snapshots[SlotOf(k)], pid, threshold)
        /\ reply' = Answer(<<"origin", pid, threshold>>, << >>, k - 1)
  BY DEF FindSpikeOrigin
<1>3. \A i \in 0..(count - 1) : snapshots[SlotOf(i)] = Retained[i + 1]
  <2>1. ASSUME NEW i \in 0..(count - 1)
        PROVE  i + 1 \in 1..count /\ (i + 1) - 1 = i
    BY <1>1, CapacityAssumption
  <2>. QED BY <2>1, RetainedIsSeq
<1>4. \A i \in 1..k : Retained[i].cpu[pid] >= threshold
  <2> SUFFICES ASSUME NEW i \in 1..k PROVE Retained[i].cpu[pid] >= threshold
    OBVIOUS
  <2>1. i - 1 \in 0..(k - 1) /\ i - 1 \in 0..(count - 1) /\ (i - 1) + 1 = i
    BY <1>1, CapacityAssumption
  <2>. QED BY <1>2, <1>3, <2>1 DEF Hot
<1>5. ASSUME k < count PROVE ~(Retained[k + 1].cpu[pid] >= threshold)
  <2>1. k \in 0..(count - 1)
    BY <1>1, <1>5, CapacityAssumption
  <2>. QED BY <1>2, <1>3, <1>5, <2>1 DEF Hot
<1>6. UNCHANGED Retained
  BY RetainedUnchanged DEF FindSpikeOrigin
<1>7. reply' = History!Answer(<<"origin", pid, threshold>>, << >>, k - 1)
  BY <1>2 DEF Answer, History!Answer
<1>8. History!Origin(pid, threshold)
  BY <1>1, <1>4, <1>5, <1>6, <1>7 DEF History!Origin, History!IsStreak
<1>. QED BY <1>8 DEF History!Next

(* The ring buffer is a list of the newest snapshots: whatever the capacity *)
(* and however often the array has wrapped, what is stored and what is      *)
(* answered is what SnapshotHistory allows.                                 *)
THEOREM RingBufImplementsHistory == Spec => ImplementsHistory
<1>1. Init => History!Init
  <2> SUFFICES ASSUME Init PROVE History!Init
    OBVIOUS
  <2>1. Retained = << >>
    BY DEF Init, Retained
  <2>. QED BY <2>1 DEF Init, History!Init, Answer, History!Answer
<1>2. ASSUME TypeOK, TypeOK', [Next]_vars
      PROVE  [History!Next]_<<Retained, reply>>
  <2>1. ASSUME NEW at \in {0, clock}, NEW cpu \in Listing,
               Push([at |-> at, cpu |-> cpu])
        PROVE  History!Next
    BY <1>2, <2>1, PushRefines, InputIsSnapshot
  <2>2. ASSUME NEW n \in 0..(Capacity + 1), GetRecent(n) PROVE History!Next
    BY <1>2, <2>2, GetRecentRefines
  <2>3. ASSUME NEW pid \in Pid, NEW threshold \in Usage,
               FindSpikeOrigin(pid, threshold)
        PROVE  History!Next
    BY <1>2, <2>3, FindSpikeOriginRefines
  <2>4. ASSUME Tick \/ UNCHANGED vars PROVE UNCHANGED <<Retained, reply>>
    BY <2>4, RetainedUnchanged DEF Tick, vars
  <2>. QED BY <1>2, <2>1, <2>2, <2>3, <2>4 DEF Next
<1>. QED
  BY <1>1, <1>2, TypeCorrect, PTL DEF Spec, ImplementsHistory, History!Spec
==============================================================================
