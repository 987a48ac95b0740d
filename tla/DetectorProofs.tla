---------------------------- MODULE DetectorProofs ---------------------------
(***************************************************************************)
(* The cooldown table and the detector that drives it.                     *)
(*                                                                         *)
(* For every size of the table, every configuration and any samples and    *)
(* readings: no key has two entries; until more keys than the table holds  *)
(* have been inside their windows at once, a key inside its window has its *)
(* entry and its reports are a window apart; an evaluation reports the     *)
(* worst process outside its cooldown; the memory baseline follows every   *)
(* reading; reports of memory and of swap are a cooldown apart; and none   *)
(* is lost but behind another.                                             *)
(***************************************************************************)
EXTENDS AnomalyDetector, FiniteSetTheorems, SequenceTheorems, TLAPS

-------------------------------------------------------------------------------
(* The operations of the table, for every table of entries whatever its     *)
(* size.                                                                    *)

(* Entries of keys in K.                                                    *)
EntryOf(K) == [scope_key : K, last_trigger_ns : Nat]

Distinct(table) ==
    \A i, j \in 1..Len(table) : table[i].scope_key = table[j].scope_key => i = j

(* Every set of naturals has a least element: of the intervals from 0 up to *)
(* its members, one includes none of the others.                            *)
LEMMA LeastNatural ==
  ASSUME NEW T \in SUBSET Nat, T # {}
  PROVE  \E m \in T : \A n \in T : m <= n
<1> DEFINE U == {0..t : t \in T}
<1>1. U \subseteq FiniteSubsetsOf(Nat)
  <2> SUFFICES ASSUME NEW t \in T PROVE 0..t \in SUBSET Nat /\ IsFiniteSet(0..t)
    BY DEF FiniteSubsetsOf
  <2>. QED BY FS_Interval
<1>2. U # {}
  OBVIOUS
<1>3. PICK x \in U : \A y \in U : ~(<<y, x>> \in StrictSubsetOrdering(Nat))
  <2> HIDE DEF U
  <2>. QED BY <1>1, <1>2, FS_StrictSubsetOrderingWellFounded, WFMin
<1>4. PICK m \in T : x = 0..m
  BY <1>3
<1>5. ASSUME NEW n \in T PROVE m <= n
  <2> SUFFICES ASSUME n < m PROVE FALSE
    OBVIOUS
  <2>1. 0..n \subseteq 0..m /\ m \in 0..m /\ m \notin 0..n
    OBVIOUS
  <2>2. <<0..n, 0..m>> \in StrictSubsetOrdering(Nat)
    BY <2>1 DEF StrictSubsetOrdering
  <2>. QED BY <1>3, <1>4, <2>2
<1>. QED BY <1>4, <1>5

(* cooldown_find stops at the first entry of the key.                       *)
LEMMA FindFinds ==
  ASSUME NEW K, NEW table \in Seq(EntryOf(K)), NEW key, Has(table, key)
  PROVE  /\ Find(table, key) \in 1..Len(table)
         /\ table[Find(table, key)].scope_key = key
<1> DEFINE T == {i \in 1..Len(table) : table[i].scope_key = key}
<1>1. T \in SUBSET Nat /\ T # {}
  BY LenProperties DEF Has
<1>2. PICK m \in T : \A n \in T : m <= n
  BY <1>1, LeastNatural
<1>3. \A j \in 1..(m - 1) : table[j].scope_key # key
  <2> SUFFICES ASSUME NEW j \in 1..(m - 1), table[j].scope_key = key PROVE FALSE
    OBVIOUS
  <2>1. j \in T
    BY LenProperties
  <2>. QED BY <1>2, <2>1, LenProperties
<1>4. /\ m \in 1..Len(table) /\ table[m].scope_key = key
      /\ \A j \in 1..(m - 1) : table[j].scope_key # key
  BY <1>3
<1>. QED BY <1>4 DEF Find

(* The entry cooldown_record evicts has the oldest timestamp.               *)
LEMMA OldestIsOldest ==
  ASSUME NEW K, NEW table \in Seq(EntryOf(K)), Len(table) > 0
  PROVE  /\ Oldest(table) \in 1..Len(table)
         /\ \A j \in 1..Len(table) :
               table[Oldest(table)].last_trigger_ns <= table[j].last_trigger_ns
<1>0. /\ Len(table) \in Nat
      /\ \A i \in 1..Len(table) : table[i].last_trigger_ns \in Nat
  <2>1. \A i \in 1..Len(table) : table[i] \in EntryOf(K)
    BY ElementOfSeq
  <2>. QED BY <2>1, LenProperties DEF EntryOf
<1> DEFINE S == {table[i].last_trigger_ns : i \in 1..Len(table)}
<1>1. PICK s \in S : \A n \in S : s <= n
  <2>1. S \in SUBSET Nat
    BY <1>0
  <2>2. table[1].last_trigger_ns \in S
    BY <1>0
  <2>. QED BY <2>1, <2>2, LeastNatural
<1> DEFINE T == {i \in 1..Len(table) : table[i].last_trigger_ns = s}
<1>2. PICK m \in T : \A n \in T : m <= n
  <2>1. T \in SUBSET Nat /\ T # {}
    BY <1>0, <1>1
  <2>. QED BY <2>1, LeastNatural
<1>3. m \in 1..Len(table) /\ table[m].last_trigger_ns = s
  BY <1>2
<1>4. \A j \in 1..Len(table) :
         table[m].last_trigger_ns <= table[j].last_trigger_ns
  BY <1>1, <1>3
<1>5. \A j \in 1..(m - 1) : table[m].last_trigger_ns < table[j].last_trigger_ns
  <2> SUFFICES ASSUME NEW j \in 1..(m - 1)
               PROVE  table[m].last_trigger_ns < table[j].last_trigger_ns
    OBVIOUS
  <2>1. j \in 1..Len(table) /\ j < m
    BY <1>0, <1>3
  <2>2. table[j].last_trigger_ns # s
    BY <1>2, <1>3, <2>1
  <2>. QED BY <1>0, <1>3, <1>4, <2>1, <2>2
<1>. QED BY <1>3, <1>4, <1>5 DEF Oldest

-------------------------------------------------------------------------------
(* cooldown_is_active: what is left is a part of what was there, each key   *)
(* once, and only the key asked about can be gone, when its window is over. *)
LEMMA AfterConsultKeeps ==
  ASSUME NEW K, NEW table \in Seq(EntryOf(K)), Distinct(table),
         NEW key, NEW at, NEW window
  PROVE  LET left == AfterConsult(table, key, at, window) IN
         /\ left \in Seq(EntryOf(K)) /\ Len(left) <= Len(table) /\ Distinct(left)
         /\ \A i \in 1..Len(left) : \E j \in 1..Len(table) : left[i] = table[j]
         /\ \A k : Has(table, k) /\ ~Has(left, k)
                 => k = key /\ ~IsActive(table, key, at, window)
<1> DEFINE left == AfterConsult(table, key, at, window)
           f == Find(table, key)
           n == Len(table)
<1>0. n \in Nat /\ \A i \in 1..n : table[i] \in EntryOf(K)
  BY LenProperties, ElementOfSeq
<1>1. CASE Has(table, key) /\ ~Fresh(table[f], at, window)
  <2>1. f \in 1..n /\ table[f].scope_key = key
    BY <1>1, FindFinds
  <2>2. left = [j \in 1..(n - 1) |-> IF j = f THEN table[n] ELSE table[j]]
    BY <1>1 DEF AfterConsult, SwapOut
  <2> HIDE DEF left
  <2>3. n - 1 \in Nat /\ n \in 1..n
    BY <1>0, <2>1
  <2>4. left \in Seq(EntryOf(K)) /\ Len(left) = n - 1
    <3>1. left \in [1..(n - 1) -> EntryOf(K)]
      BY <1>0, <2>2, <2>3
    <3>. QED BY <2>3, <3>1
  <2>5. ASSUME NEW i \in 1..(n - 1)
        PROVE  left[i] = table[IF i = f THEN n ELSE i]
    BY <2>2
  <2>6. \A i \in 1..Len(left) : \E j \in 1..n : left[i] = table[j]
    BY <2>3, <2>4, <2>5, <1>0
  <2>7. Distinct(left)
    <3> SUFFICES ASSUME NEW i \in 1..(n - 1), NEW j \in 1..(n - 1),
                        left[i].scope_key = left[j].scope_key
                 PROVE  i = j
      BY <2>4 DEF Distinct
    <3>1. /\ (IF i = f THEN n ELSE i) \in 1..n /\ (IF j = f THEN n ELSE j) \in 1..n
          /\ left[i] = table[IF i = f THEN n ELSE i]
          /\ left[j] = table[IF j = f THEN n ELSE j]
      BY <2>3, <2>5, <1>0
    <3>2. (IF i = f THEN n ELSE i) = (IF j = f THEN n ELSE j)
      BY <3>1 DEF Distinct
    <3>. QED BY <3>2, <1>0
  <2>8. ASSUME NEW k, Has(table, k), k # key PROVE Has(left, k)
    <3>1. PICK j \in 1..n : table[j].scope_key = k
      BY <2>8 DEF Has
    <3>2. j # f
      BY <2>1, <2>8, <3>1
    <3>3. CASE j = n
      <4>1. f \in 1..(n - 1) /\ left[f] = table[n]
        BY <1>0, <2>1, <2>5, <3>2, <3>3
      <4>. QED BY <2>4, <3>1, <3>3, <4>1 DEF Has
    <3>4. CASE j # n
      <4>1. j \in 1..(n - 1) /\ left[j] = table[j]
        BY <1>0, <2>5, <3>2, <3>4
      <4>. QED BY <2>4, <3>1, <4>1 DEF Has
    <3>. QED BY <3>3, <3>4
  <2>9. ~IsActive(table, key, at, window)
    BY <1>1 DEF IsActive
  <2>10. Len(left) <= n
    BY <1>0, <2>4
  <2>. QED BY <2>4, <2>6, <2>7, <2>8, <2>9, <2>10 DEF left
<1>2. CASE ~(Has(table, key) /\ ~Fresh(table[f], at, window))
  <2>1. left = table
    BY <1>2 DEF AfterConsult
  <2>. QED BY <1>0, <2>1
<1>. QED BY <1>1, <1>2

(* cooldown_record: the key has its one entry, at the new time; the others  *)
(* are where they were, but for the one evicted from a full table.          *)
Recorded(table, key, at, after) ==
    /\ Has(after, key)
    /\ \A i \in 1..Len(after) :
          \/ after[i] = Entry(key, at)
          \/ \E j \in 1..Len(table) :
                after[i] = table[j] /\ table[j].scope_key # key
    /\ \A k : Has(table, k) /\ ~Has(after, k)
            => /\ ~Has(table, key) /\ Len(table) = TableSize
               /\ table[Oldest(table)].scope_key = k

LEMMA RecordKeeps ==
  ASSUME NEW K, NEW table \in Seq(EntryOf(K)), Distinct(table),
         Len(table) <= TableSize, NEW key \in K, NEW at \in Nat
  PROVE  LET after == Record(table, key, at) IN
         /\ after \in Seq(EntryOf(K)) /\ Len(after) <= TableSize /\ Distinct(after)
         /\ Recorded(table, key, at, after)
<1> DEFINE after == Record(table, key, at)
           n == Len(table)
<1>0. n \in Nat /\ \A i \in 1..n : table[i] \in EntryOf(K)
  BY LenProperties, ElementOfSeq
<1>e. Entry(key, at) \in EntryOf(K) /\ Entry(key, at).scope_key = key
  BY DEF Entry, EntryOf
<1>r. ASSUME NEW f \in 1..n,
             after = [table EXCEPT ![f] = Entry(key, at)],
             \A j \in 1..n : table[j].scope_key = key => j = f
      PROVE  /\ after \in Seq(EntryOf(K)) /\ Len(after) = n /\ Distinct(after)
             /\ Has(after, key)
             /\ \A i \in 1..n :
                   \/ after[i] = Entry(key, at)
                   \/ after[i] = table[i] /\ table[i].scope_key # key
             /\ \A k : Has(table, k) /\ k # table[f].scope_key => Has(after, k)
  <2> HIDE DEF after
  <2>1. /\ after \in Seq(EntryOf(K)) /\ Len(after) = n
        /\ \A j \in 1..n : after[j] = IF j = f THEN Entry(key, at) ELSE table[j]
    BY <1>r, <1>e, ExceptSeq
  <2>2. Distinct(after)
    <3> SUFFICES ASSUME NEW i \in 1..n, NEW j \in 1..n,
                        after[i].scope_key = after[j].scope_key
                 PROVE  i = j
      BY <2>1 DEF Distinct
    <3>. QED BY <1>r, <1>e, <2>1 DEF Distinct
  <2>3. Has(after, key)
    BY <1>e, <2>1 DEF Has
  <2>4. \A i \in 1..n : \/ after[i] = Entry(key, at)
                        \/ after[i] = table[i] /\ table[i].scope_key # key
    BY <1>r, <2>1
  <2>5. ASSUME NEW k, Has(table, k), k # table[f].scope_key PROVE Has(after, k)
    BY <2>1, <2>5 DEF Has
  <2>. QED BY <2>1, <2>2, <2>3, <2>4, <2>5
<1>1. CASE Has(table, key)
  <2>1. /\ Find(table, key) \in 1..n
        /\ table[Find(table, key)].scope_key = key
    BY <1>1, FindFinds
  <2>2. after = [table EXCEPT ![Find(table, key)] = Entry(key, at)]
    <3>1. table[Find(table, key)] = [scope_key |-> key,
             last_trigger_ns |-> table[Find(table, key)].last_trigger_ns]
      BY <1>0, <2>1 DEF EntryOf
    <3>2. [table[Find(table, key)] EXCEPT !.last_trigger_ns = at] = Entry(key, at)
      BY <3>1 DEF Entry
    <3>. QED BY <1>1, <3>2 DEF Record
  <2>3. \A j \in 1..n : table[j].scope_key = key => j = Find(table, key)
    BY <2>1 DEF Distinct
  <2> HIDE DEF after
  <2>4. \A k : Has(table, k) => Has(after, k)
    BY <1>r, <2>1, <2>2, <2>3
  <2>. QED BY <1>r, <2>1, <2>2, <2>3, <2>4 DEF after, Recorded
<1>2. CASE ~Has(table, key) /\ n >= TableSize
  <2>1. n = TableSize /\ n > 0
    BY <1>0, <1>2, TableSizeAssumption
  <2>2. Oldest(table) \in 1..n
    BY <2>1, OldestIsOldest
  <2>3. after = [table EXCEPT ![Oldest(table)] = Entry(key, at)]
    BY <1>2 DEF Record
  <2>4. \A j \in 1..n : table[j].scope_key = key => j = Oldest(table)
    BY <1>2 DEF Has
  <2> HIDE DEF after
  <2>. QED BY <1>2, <1>r, <2>1, <2>2, <2>3, <2>4 DEF after, Recorded
<1>3. CASE ~Has(table, key) /\ ~(n >= TableSize)
  <2>1. after = Append(table, Entry(key, at))
    BY <1>3 DEF Record
  <2> HIDE DEF after
  <2>2. /\ after \in Seq(EntryOf(K)) /\ Len(after) = n + 1
        /\ after[n + 1] = Entry(key, at)
        /\ \A i \in 1..n : after[i] = table[i]
    BY <1>e, <2>1, AppendProperties
  <2>3. Distinct(after)
    <3> SUFFICES ASSUME NEW i \in 1..(n + 1), NEW j \in 1..(n + 1),
                        after[i].scope_key = after[j].scope_key
                 PROVE  i = j
      BY <2>2 DEF Distinct
    <3>1. \A l \in 1..n : after[l].scope_key # key
      BY <1>3, <2>2 DEF Has
    <3>2. after[n + 1].scope_key = key
      BY <1>e, <2>2
    <3>3. (i \in 1..n \/ i = n + 1) /\ (j \in 1..n \/ j = n + 1)
      BY <1>0
    <3>. QED BY <2>2, <3>1, <3>2, <3>3 DEF Distinct
  <2>4. \A k : Has(table, k) => Has(after, k)
    <3> SUFFICES ASSUME NEW j \in 1..n
                 PROVE  j \in 1..Len(after) /\ after[j] = table[j]
      BY DEF Has
    <3>. QED BY <1>0, <2>2
  <2>5. n + 1 \in 1..Len(after) /\ Has(after, key)
    BY <1>0, <1>e, <2>2 DEF Has
  <2>6. \A i \in 1..Len(after) : \/ after[i] = Entry(key, at)
                                 \/ \E j \in 1..n : after[i] = table[j] /\ table[j].scope_key # key
    <3> SUFFICES ASSUME NEW i \in 1..(n + 1), i # n + 1
                 PROVE  i \in 1..n /\ after[i] = table[i] /\ table[i].scope_key # key
      BY <2>2
    <3>1. i \in 1..n
      BY <1>0
    <3>. QED BY <1>3, <2>2, <3>1 DEF Has
  <2>7. Len(after) <= TableSize
    BY <1>0, <1>3, <2>2, TableSizeAssumption
  <2>. QED BY <2>2, <2>3, <2>4, <2>5, <2>6, <2>7 DEF after, Recorded
<1>. QED BY <1>1, <1>2, <1>3

-------------------------------------------------------------------------------
(* The loop of evaluate_cpu                                                 *)

(* Consulting one key changes no answer about any, at the same time.        *)
LEMMA ConsultHidesNothing ==
  ASSUME NEW K, NEW table \in Seq(EntryOf(K)), Distinct(table),
         NEW key, NEW at, NEW window, NEW k
  PROVE  LET left == AfterConsult(table, key, at, window) IN
         IsActive(left, k, at, window) <=> IsActive(table, k, at, window)
<1> DEFINE left == AfterConsult(table, key, at, window)
<1>1. /\ left \in Seq(EntryOf(K)) /\ Distinct(left)
      /\ \A i \in 1..Len(left) : \E j \in 1..Len(table) : left[i] = table[j]
      /\ Has(table, k) /\ ~Has(left, k) => k = key /\ ~IsActive(table, key, at, window)
  BY AfterConsultKeeps
<1> HIDE DEF left
<1>2. ASSUME Has(left, k)
      PROVE  Has(table, k) /\ left[Find(left, k)] = table[Find(table, k)]
  <2>1. Find(left, k) \in 1..Len(left) /\ left[Find(left, k)].scope_key = k
    BY <1>1, <1>2, FindFinds
  <2>2. PICK j \in 1..Len(table) : left[Find(left, k)] = table[j]
    BY <1>1, <2>1
  <2>3. Has(table, k)
    BY <2>1, <2>2 DEF Has
  <2>4. Find(table, k) \in 1..Len(table) /\ table[Find(table, k)].scope_key = k
    BY <2>3, FindFinds
  <2>5. Find(table, k) = j
    BY <2>1, <2>2, <2>4 DEF Distinct
  <2> QED BY <2>2, <2>3, <2>5
<1>3. ASSUME IsActive(table, k, at, window)
      PROVE  Has(left, k)
  BY <1>1, <1>3 DEF IsActive
<1> QED BY <1>2, <1>3 DEF IsActive, left

(* A recursion over the first N numbers has a solution: of the lengths up   *)
(* to which it has none there would be a least.                             *)
Solutions(T, N, base, step) ==
    {f \in [0..N -> T] : f[0] = base /\ \A n \in 1..N : f[n] = step[n][f[n - 1]]}

LEMMA RecursionHasSolution ==
  ASSUME NEW T, NEW N \in Nat, NEW base \in T, NEW step \in [1..N -> [T -> T]]
  PROVE  Solutions(T, N, base, step) # {}
<1> DEFINE Solves(f, m) ==
             f[0] = base /\ \A n \in 1..m : f[n] = step[n][f[n - 1]]
           Unsolved == {m \in 0..N : ~\E f \in [0..m -> T] : Solves(f, m)}
<1>1. SUFFICES ASSUME N \in Unsolved PROVE FALSE
  BY DEF Solutions
<1>2. PICK m \in Unsolved : \A n \in Unsolved : m <= n
  <2>1. Unsolved \in SUBSET Nat
    <3> HIDE DEF Solves
    <3> QED OBVIOUS
  <2>2. Unsolved # {}
    BY <1>1
  <2> HIDE DEF Unsolved
  <2> QED BY <2>1, <2>2, LeastNatural
<1>3. m # 0
  <2> SUFFICES ASSUME m = 0 PROVE FALSE
    OBVIOUS
  <2>1. [n \in 0..0 |-> base] \in [0..0 -> T] /\ Solves([n \in 0..0 |-> base], 0)
    OBVIOUS
  <2> QED BY <2>1
<1>4. m \in 1..N /\ m - 1 \in 0..N /\ m - 1 \notin Unsolved
  <2> HIDE DEF Solves
  <2>1. m \in 0..N
    OBVIOUS
  <2>2. m \in 1..N /\ m - 1 \in 0..N /\ ~(m <= m - 1)
    BY <2>1, <1>3
  <2> HIDE DEF Unsolved
  <2> QED BY <1>2, <2>2
<1>5. PICK f \in [0..(m - 1) -> T] : Solves(f, m - 1)
  BY <1>4
<1> DEFINE g == [n \in 0..m |-> IF n = m THEN step[m][f[m - 1]] ELSE f[n]]
<1>6. step[m][f[m - 1]] \in T
  <2>1. f[m - 1] \in T /\ step[m] \in [T -> T]
    BY <1>4, <1>5
  <2> QED BY <2>1
<1>7. g \in [0..m -> T]
  BY <1>4, <1>6
<1>8. Solves(g, m)
  <2>1. g[0] = base
    BY <1>4, <1>5
  <2>2. ASSUME NEW n \in 1..m PROVE g[n] = step[n][g[n - 1]]
    <3>1. g[n - 1] = f[n - 1]
      BY <1>4
    <3>2. CASE n = m
      BY <3>1, <3>2, <1>4
    <3>3. CASE n # m
      <4>1. n \in 1..(m - 1)
        BY <3>3, <1>4
      <4> QED BY <3>1, <3>3, <4>1, <1>4, <1>5
    <3> QED BY <3>2, <3>3
  <2> QED BY <2>1, <2>2
<1>9. m \notin Unsolved
  <2> HIDE DEF g, Solves
  <2> QED BY <1>7, <1>8
<1> QED BY <1>9

(* What the loop holds: a table and the worst sample so far, if any.        *)
ScanState ==
    {scan \in [table : Seq(EntryOf(Int)), worst : Seq(ProcSample)] : Distinct(scan.table)}

LEMMA KeyIsInteger ==
  ASSUME NEW cfg, NEW s \in ProcSample
  PROVE  CooldownKey(cfg, s) \in Int /\ Spike(s) \in Int
BY DEF CooldownKey, ScopeKey, Spike, ProcSample

LEMMA ConsiderTyped ==
  ASSUME NEW cfg, NEW at, NEW scan \in ScanState, NEW s \in ProcSample
  PROVE  Consider(cfg, at, scan, s) \in ScanState
<1> DEFINE left == AfterConsult(scan.table, CooldownKey(cfg, s), at, cfg.cooldown)
<1>1. scan.table \in Seq(EntryOf(Int)) /\ scan.worst \in Seq(ProcSample) /\ Distinct(scan.table)
  BY DEF ScanState
<1>2. left \in Seq(EntryOf(Int)) /\ Distinct(left)
  BY <1>1, AfterConsultKeeps
<1>3. <<s>> \in Seq(ProcSample)
  OBVIOUS
<1> HIDE DEF left
<1>4. \A worst \in Seq(ProcSample) : [table |-> left, worst |-> worst] \in ScanState
  BY <1>2 DEF ScanState
<1>5. CASE ~Consults(cfg, s)
  BY <1>5 DEF Consider
<1>6. CASE Consults(cfg, s)
  <2>1. Consider(cfg, at, scan, s) = [table |-> left, worst |-> Consider(cfg, at, scan, s).worst]
    BY <1>6 DEF Consider, left
  <2>2. Consider(cfg, at, scan, s).worst \in {<<s>>, scan.worst}
    BY <1>6 DEF Consider
  <2> QED BY <1>1, <1>3, <1>4, <2>1, <2>2
<1> QED BY <1>5, <1>6

(* The loop is what its passes make it.                                     *)
LEMMA ScanProceeds ==
  ASSUME NEW cfg, NEW table \in Seq(EntryOf(Int)), Distinct(table),
         NEW samples \in Seq(ProcSample), NEW at
  PROVE  LET scan == CpuScan(cfg, table, samples, at) IN
         /\ scan[0] = [table |-> table, worst |-> << >>]
         /\ \A n \in 1..Len(samples) : scan[n] = Consider(cfg, at, scan[n - 1], samples[n])
<1> DEFINE N == Len(samples)
           base == [table |-> table, worst |-> << >>]
           step == [n \in 1..N |-> [scan \in ScanState |-> Consider(cfg, at, scan, samples[n])]]
           Is(f) == f = [n \in 0..N |->
                            IF n = 0 THEN base ELSE Consider(cfg, at, f[n - 1], samples[n])]
<1>1. N \in Nat /\ \A n \in 1..N : samples[n] \in ProcSample
  BY LenProperties, ElementOfSeq
<1>2. base \in ScanState
  <2>1. << >> \in Seq(ProcSample)
    BY EmptySeq
  <2> QED BY <2>1 DEF ScanState
<1> HIDE DEF base, N
<1>3. step \in [1..N -> [ScanState -> ScanState]]
  <2> SUFFICES ASSUME NEW n \in 1..N, NEW scan \in ScanState
               PROVE  Consider(cfg, at, scan, samples[n]) \in ScanState
    OBVIOUS
  <2> QED BY <1>1, ConsiderTyped
<1>4. Solutions(ScanState, N, base, step) # {}
  <2> HIDE DEF step
  <2> QED BY <1>1, <1>2, <1>3, RecursionHasSolution
<1>5. PICK f \in [0..N -> ScanState] :
         f[0] = base /\ \A n \in 1..N : f[n] = step[n][f[n - 1]]
  <2> HIDE DEF step
  <2> QED BY <1>4 DEF Solutions
<1>6. ASSUME NEW n \in 1..N PROVE f[n] = Consider(cfg, at, f[n - 1], samples[n])
  <2>1. n - 1 \in 0..N
    BY <1>1
  <2> QED BY <1>5, <2>1
<1>7. Is(f)
  <2> HIDE DEF step
  <2>1. ASSUME NEW n \in 0..N
        PROVE  f[n] = IF n = 0 THEN base ELSE Consider(cfg, at, f[n - 1], samples[n])
    <3>1. CASE n = 0
      BY <3>1, <1>5
    <3>2. CASE n # 0
      <4>1. n \in 1..N
        BY <3>2, <1>1
      <4> QED BY <3>2, <4>1, <1>6
    <3> QED BY <3>1, <3>2
  <2> QED BY <2>1, <1>5
<1>8. CpuScan(cfg, table, samples, at) = CHOOSE h : Is(h)
  BY DEF CpuScan, base, N
<1> DEFINE scan == CpuScan(cfg, table, samples, at)
<1>9. Is(scan)
  <2> HIDE DEF Is
  <2> QED BY <1>7, <1>8
<1> HIDE DEF scan
<1>10. scan[0] = base
  <2>1. 0 \in 0..N
    BY <1>1
  <2> QED BY <1>9, <2>1
<1>11. ASSUME NEW n \in 1..N PROVE scan[n] = Consider(cfg, at, scan[n - 1], samples[n])
  <2>1. n \in 0..N /\ n # 0
    BY <1>1
  <2> QED BY <1>9, <2>1
<1> QED BY <1>10, <1>11 DEF scan, base, N

(* A sample that an evaluation may report, and what the loop knows after n  *)
(* samples: the worst of those among them, whatever it removed from the     *)
(* table.                                                                   *)
Reportable(cfg, table, s, at) ==
    /\ Exceeds(cfg, s) /\ Spike(s) > 0
    /\ ~IsActive(table, CooldownKey(cfg, s), at, cfg.cooldown)

WorstOf(cfg, table, samples, at, n, worst) ==
    /\ worst = << >> =>
          \A j \in 1..n : ~Reportable(cfg, table, samples[j], at)
    /\ worst # << >> =>
          \E i \in 1..n :
             /\ worst = <<samples[i]>> /\ Reportable(cfg, table, samples[i], at)
             /\ \A j \in 1..n : Reportable(cfg, table, samples[j], at)
                                   => Spike(samples[j]) <= Spike(samples[i])

SameAnswers(table, left, at, window) ==
    \A k : IsActive(left, k, at, window) <=> IsActive(table, k, at, window)

\* Every entry of what is left was in the table.
PartOf(left, table) ==
    \A i \in 1..Len(left) : \E j \in 1..Len(table) : left[i] = table[j]

ScanKnows(cfg, table, samples, at, n, scan) ==
    /\ scan \in ScanState /\ Len(scan.table) <= Len(table) /\ PartOf(scan.table, table)
    /\ SameAnswers(table, scan.table, at, cfg.cooldown)
    /\ WorstOf(cfg, table, samples, at, n, scan.worst)

LEMMA ScanKnowsNext ==
  ASSUME NEW cfg, NEW table \in Seq(EntryOf(Int)),
         NEW samples \in Seq(ProcSample), NEW at, NEW n \in 1..Len(samples),
         NEW scan, ScanKnows(cfg, table, samples, at, n - 1, scan)
  PROVE  ScanKnows(cfg, table, samples, at, n, Consider(cfg, at, scan, samples[n]))
<1> DEFINE s == samples[n]
           next == Consider(cfg, at, scan, s)
           left == AfterConsult(scan.table, CooldownKey(cfg, s), at, cfg.cooldown)
           active == IsActive(scan.table, CooldownKey(cfg, s), at, cfg.cooldown)
           Can(t) == Reportable(cfg, table, t, at)
<1>1. /\ n \in Nat \ {0} /\ Len(samples) \in Nat
      /\ \A i \in 1..n : samples[i] \in ProcSample /\ Spike(samples[i]) \in Int
  <2>1. Len(samples) \in Nat /\ n \in Nat \ {0}
    BY LenProperties
  <2>2. ASSUME NEW i \in 1..n PROVE samples[i] \in ProcSample
    <3>1. i \in 1..Len(samples)
      BY <2>1
    <3> QED BY <3>1, ElementOfSeq
  <2> QED BY <2>1, <2>2, KeyIsInteger
<1>2. /\ scan.table \in Seq(EntryOf(Int)) /\ Distinct(scan.table) /\ scan \in ScanState
      /\ Len(scan.table) <= Len(table) /\ Len(scan.table) \in Nat /\ Len(table) \in Nat
  BY LenProperties DEF ScanKnows, ScanState
<1>3. active <=> IsActive(table, CooldownKey(cfg, s), at, cfg.cooldown)
  BY DEF ScanKnows, SameAnswers
<1>4. s \in ProcSample /\ next \in ScanState
  BY <1>1, <1>2, ConsiderTyped
<1>5. next.table = IF Consults(cfg, s) THEN left ELSE scan.table
  BY DEF Consider
<1>6. /\ Len(next.table) <= Len(table) /\ PartOf(next.table, table)
      /\ SameAnswers(table, next.table, at, cfg.cooldown)
  <2>1. Len(left) <= Len(scan.table) /\ left \in Seq(EntryOf(Int)) /\ Len(left) \in Nat
        /\ \A i \in 1..Len(left) : \E j \in 1..Len(scan.table) : left[i] = scan.table[j]
    <3> DEFINE before == scan.table
    <3>1. before \in Seq(EntryOf(Int)) /\ Distinct(before)
      BY <1>2
    <3> HIDE DEF before
    <3>2. \A key, window :
             LET after == AfterConsult(before, key, at, window) IN
             /\ after \in Seq(EntryOf(Int)) /\ Len(after) <= Len(before)
             /\ \A i \in 1..Len(after) : \E j \in 1..Len(before) : after[i] = before[j]
      BY <3>1, AfterConsultKeeps
    <3>3. left = AfterConsult(before, CooldownKey(cfg, s), at, cfg.cooldown)
      BY DEF before
    <3> HIDE DEF left, s
    <3>4. /\ left \in Seq(EntryOf(Int)) /\ Len(left) <= Len(before)
          /\ \A i \in 1..Len(left) : \E j \in 1..Len(before) : left[i] = before[j]
      BY <3>2, <3>3
    <3> QED BY <3>4, LenProperties DEF before
  <2>2. SameAnswers(scan.table, left, at, cfg.cooldown)
    BY <1>2, ConsultHidesNothing DEF SameAnswers
  <2> HIDE DEF left
  <2>3. Len(next.table) <= Len(table)
    BY <1>2, <1>5, <2>1
  <2>4. SameAnswers(table, next.table, at, cfg.cooldown)
    BY <1>5, <2>2 DEF ScanKnows, SameAnswers
  <2>5. PartOf(next.table, table)
    <3>1. PartOf(scan.table, table)
      BY DEF ScanKnows
    <3> HIDE DEF next
    <3> QED BY <1>5, <2>1, <3>1 DEF PartOf
  <2> QED BY <2>3, <2>4, <2>5
<1>7. next.worst = IF /\ Can(s)
                      /\ Spike(s) > (IF scan.worst = << >> THEN 0 ELSE Spike(scan.worst[1]))
                   THEN <<s>> ELSE scan.worst
  <2>1. scan.worst # << >> => Spike(scan.worst[1]) \in Int /\ Spike(scan.worst[1]) > 0
    BY <1>1 DEF ScanKnows, WorstOf, Reportable
  <2>2. Spike(s) \in Int
    BY <1>1
  <2>3. Can(s) <=> Exceeds(cfg, s) /\ Spike(s) > 0 /\ ~active
    BY <1>3 DEF Reportable
  <2>4. Exceeds(cfg, s) => Consults(cfg, s)
    BY DEF Exceeds
  <2> HIDE DEF Can, s
  <2>5. CASE Consults(cfg, s)
    <3>1. next.worst = IF /\ ~active /\ Exceeds(cfg, s)
                          /\ Spike(s) > (IF scan.worst = << >> THEN 0 ELSE Spike(scan.worst[1]))
                       THEN <<s>> ELSE scan.worst
      BY <2>5 DEF Consider
    <3> HIDE DEF next, active
    <3> QED BY <2>1, <2>2, <2>3, <3>1
  <2>6. CASE ~Consults(cfg, s)
    <3>1. next.worst = scan.worst
      BY <2>6 DEF Consider
    <3> HIDE DEF next, active
    <3> QED BY <2>3, <2>4, <2>6, <3>1
  <2> QED BY <2>5, <2>6
<1>8. WorstOf(cfg, table, samples, at, n, next.worst)
  <2> HIDE DEF next, Can
  <2>0. \A t : Can(t) <=> Reportable(cfg, table, t, at)
    BY DEF Can
  <2>1. /\ scan.worst = << >> => \A j \in 1..(n - 1) : ~Can(samples[j])
        /\ scan.worst # << >> =>
              \E i \in 1..(n - 1) :
                 /\ scan.worst = <<samples[i]>> /\ Can(samples[i])
                 /\ \A j \in 1..(n - 1) :
                       Can(samples[j]) => Spike(samples[j]) <= Spike(samples[i])
    BY DEF ScanKnows, WorstOf, Can
  <2>2. \A t : Can(t) => Spike(t) > 0
    BY DEF Can, Reportable
  <2>3. CASE next.worst = << >>
    <3>1. scan.worst = << >> /\ ~Can(s)
      <4>e. <<s>> # << >>
        <5>1. Len(<<s>>) = 1 /\ Len(<< >>) = 0
          BY EmptySeq
        <5> QED BY <5>1
      <4>1. scan.worst = << >>
        BY <2>3, <1>7, <4>e
      <4> QED BY <2>2, <2>3, <1>7, <4>1, <4>e
    <3>2. \A j \in 1..n : ~Can(samples[j])
      BY <1>1, <2>1, <3>1
    <3> QED BY <2>0, <2>3, <3>2 DEF WorstOf
  <2>4. CASE next.worst # << >>
    <3> SUFFICES \E i \in 1..n :
                    /\ next.worst = <<samples[i]>> /\ Can(samples[i])
                    /\ \A j \in 1..n : Can(samples[j]) => Spike(samples[j]) <= Spike(samples[i])
      BY <2>0, <2>4 DEF WorstOf
    <3>1. CASE scan.worst = << >>
      <4>1. next.worst = <<s>> /\ Can(s)
        BY <1>7, <2>4, <3>1
      <4>2. \A j \in 1..n : Can(samples[j]) => j = n
        BY <1>1, <2>1, <3>1
      <4> QED BY <1>1, <4>1, <4>2
    <3>2. CASE scan.worst # << >>
      <4>1. PICK i \in 1..(n - 1) :
               /\ scan.worst = <<samples[i]>> /\ Can(samples[i])
               /\ \A j \in 1..(n - 1) :
                     Can(samples[j]) => Spike(samples[j]) <= Spike(samples[i])
        BY <2>1, <3>2
      <4>2. /\ i \in 1..n /\ n \in 1..n /\ scan.worst[1] = samples[i]
            /\ \A j \in 1..n : j # n => j \in 1..(n - 1)
            /\ \A j \in 1..n : Spike(samples[j]) \in Int
        BY <1>1, <4>1
      <4>3. CASE Can(s) /\ Spike(s) > Spike(samples[i])
        <5>1. next.worst = <<s>>
          BY <1>7, <3>2, <4>2, <4>3
        <5>2. \A j \in 1..n : Can(samples[j]) => Spike(samples[j]) <= Spike(s)
          BY <4>1, <4>2, <4>3
        <5> QED BY <4>2, <4>3, <5>1, <5>2
      <4>4. CASE ~(Can(s) /\ Spike(s) > Spike(samples[i]))
        <5>1. next.worst = <<samples[i]>>
          BY <1>7, <3>2, <4>1, <4>2, <4>4
        <5>2. \A j \in 1..n : Can(samples[j]) => Spike(samples[j]) <= Spike(samples[i])
          BY <4>1, <4>2, <4>4
        <5> QED BY <4>1, <4>2, <5>1, <5>2
      <4> QED BY <4>3, <4>4
    <3> QED BY <3>1, <3>2
  <2> QED BY <2>3, <2>4
<1> QED BY <1>4, <1>6, <1>8 DEF ScanKnows

(* At the end of the loop the worst of all the samples is known.            *)
LEMMA ScanFindsWorst ==
  ASSUME NEW cfg, NEW table \in Seq(EntryOf(Int)), Distinct(table),
         NEW samples \in Seq(ProcSample), NEW at
  PROVE  ScanKnows(cfg, table, samples, at, Len(samples),
                   CpuScan(cfg, table, samples, at)[Len(samples)])
<1> DEFINE N == Len(samples)
           scan == CpuScan(cfg, table, samples, at)
           Knows(n) == ScanKnows(cfg, table, samples, at, n, scan[n])
           Wrong == {n \in 0..N : ~Knows(n)}
<1>1. N \in Nat /\ Len(table) \in Nat
  BY LenProperties
<1>2. /\ scan[0] = [table |-> table, worst |-> << >>]
      /\ \A n \in 1..N : scan[n] = Consider(cfg, at, scan[n - 1], samples[n])
  BY ScanProceeds
<1> HIDE DEF scan
<1>3. Knows(0)
  <2>1. << >> \in Seq(ProcSample)
    BY EmptySeq
  <2>2. scan[0] \in ScanState /\ scan[0].worst = << >> /\ scan[0].table = table
    BY <1>2, <2>1 DEF ScanState
  <2> QED BY <1>1, <2>2 DEF ScanKnows, SameAnswers, WorstOf, PartOf
<1>4. ASSUME NEW n \in 1..N, Knows(n - 1) PROVE Knows(n)
  BY <1>2, <1>4, ScanKnowsNext
<1> HIDE DEF Knows
<1>5. Wrong = {}
  <2> SUFFICES ASSUME Wrong # {} PROVE FALSE
    OBVIOUS
  <2>1. PICK m \in Wrong : \A n \in Wrong : m <= n
    <3>1. Wrong \in SUBSET Nat
      BY <1>1
    <3> HIDE DEF Wrong
    <3> QED BY <3>1, LeastNatural
  <2>2. m \in 1..N /\ m - 1 \in 0..N /\ ~(m <= m - 1)
    BY <1>1, <1>3, <2>1
  <2>3. Knows(m - 1)
    BY <2>1, <2>2
  <2> QED BY <1>4, <2>1, <2>2, <2>3
<1> QED BY <1>1, <1>5 DEF Knows, scan

(* evaluate_cpu leaves a part of the table that answers for every key as the *)
(* table did, and records in it the key of what it reports: the worst sample *)
(* that may be reported, if there is one.                                    *)
TableOK(table) ==
    table \in Seq(EntryOf(Int)) /\ Distinct(table) /\ Len(table) <= TableSize

ReportsWorstOf(cfg, table, samples, at, report) ==
    LET I == {i \in 1..Len(samples) : Reportable(cfg, table, samples[i], at)}
    IN  \/ report.type = "NONE" /\ I = {}
        \/ /\ report.type \in {"CPU_DELTA", "CPU_NEW_PROC"}
           /\ \E i \in I :
                 /\ samples[i].pid = report.spike_pid
                 /\ \A j \in I : Spike(samples[j]) <= Spike(samples[i])

Leaves(cfg, table, at, left) ==
    TableOK(left) /\ PartOf(left, table) /\ SameAnswers(table, left, at, cfg.cooldown)

RecordsKey(cfg, table, left, at, e) ==
    \/ e.result.type = "NONE" /\ e.table = left
    \/ /\ e.result.type \in CpuTypes /\ e.result.scope_key \in Int
       /\ ~IsActive(table, e.result.scope_key, at, cfg.cooldown)
       /\ e.table = Record(left, e.result.scope_key, at)

LEMMA EvaluateCpuReports ==
  ASSUME NEW cfg, NEW table, TableOK(table),
         NEW samples \in Seq(ProcSample), NEW at \in Nat
  PROVE  LET e == EvaluateCpu(cfg, table, samples, at) IN
         /\ TableOK(e.table) /\ ReportsWorstOf(cfg, table, samples, at, e.result)
         /\ \E left : Leaves(cfg, table, at, left) /\ RecordsKey(cfg, table, left, at, e)
<1> DEFINE e == EvaluateCpu(cfg, table, samples, at)
           N == Len(samples)
           scan == CpuScan(cfg, table, samples, at)[N]
<1>1. table \in Seq(EntryOf(Int)) /\ Distinct(table) /\ Len(table) <= TableSize
  BY DEF TableOK
<1>2. ScanKnows(cfg, table, samples, at, N, scan)
  BY <1>1, ScanFindsWorst
<1>3. TableOK(scan.table)
  <2>1. scan.table \in Seq(EntryOf(Int)) /\ Distinct(scan.table)
        /\ Len(scan.table) <= Len(table)
    BY <1>2 DEF ScanKnows, ScanState
  <2>2. Len(table) \in Nat /\ Len(scan.table) \in Nat /\ TableSize \in Nat
    BY <1>1, <2>1, LenProperties, TableSizeAssumption
  <2> QED BY <1>1, <2>1, <2>2 DEF TableOK
<1>l. Leaves(cfg, table, at, scan.table)
  BY <1>2, <1>3 DEF Leaves, ScanKnows
<1> HIDE DEF scan
<1>4. CASE scan.worst = << >>
  <2>1. e.table = scan.table /\ e.result.type = "NONE"
    BY <1>4 DEF EvaluateCpu, scan, None
  <2>2. \A j \in 1..N : ~Reportable(cfg, table, samples[j], at)
    BY <1>2, <1>4 DEF ScanKnows, WorstOf
  <2>3. RecordsKey(cfg, table, scan.table, at, e)
    BY <2>1 DEF RecordsKey
  <2> HIDE DEF e
  <2> QED BY <1>3, <1>l, <2>1, <2>2, <2>3 DEF ReportsWorstOf, e
<1>5. CASE scan.worst # << >>
  <2>1. PICK i \in 1..N :
           /\ scan.worst = <<samples[i]>> /\ Reportable(cfg, table, samples[i], at)
           /\ \A j \in 1..N : Reportable(cfg, table, samples[j], at)
                                 => Spike(samples[j]) <= Spike(samples[i])
    BY <1>2, <1>5 DEF ScanKnows, WorstOf
  <2> DEFINE w == samples[i]
             key == CooldownKey(cfg, w)
  <2>2. w \in ProcSample /\ key \in Int /\ scan.worst[1] = w
    BY <2>1, ElementOfSeq, KeyIsInteger
  <2>3. /\ e.table = Record(scan.table, key, at)
        /\ e.result = [type |-> IF IsNew(w) THEN "CPU_NEW_PROC" ELSE "CPU_DELTA",
                       spike_pid |-> w.pid, scope_key |-> key]
    <3>1. e = LET v == scan.worst[1]
                  k == CooldownKey(cfg, v)
              IN  [table |-> Record(scan.table, k, at),
                   result |->
                      [type |-> IF IsNew(v) THEN "CPU_NEW_PROC" ELSE "CPU_DELTA",
                       spike_pid |-> v.pid, scope_key |-> k]]
      BY <1>5 DEF EvaluateCpu, scan
    <3> HIDE DEF e
    <3> QED BY <2>2, <3>1
  <2>4. TableOK(e.table)
    <3> HIDE DEF e, key
    <3>1. /\ scan.table \in Seq(EntryOf(Int)) /\ Distinct(scan.table)
          /\ Len(scan.table) <= TableSize
      BY <1>3 DEF TableOK
    <3>2. TableOK(Record(scan.table, key, at))
      BY <3>1, <2>2, RecordKeeps DEF TableOK
    <3> QED BY <3>2, <2>3
  <2>5. e.result.type \in {"CPU_DELTA", "CPU_NEW_PROC"} /\ e.result.spike_pid = w.pid
    <3> HIDE DEF e, key
    <3> QED BY <2>3
  <2>6. ReportsWorstOf(cfg, table, samples, at, e.result)
    <3> HIDE DEF e
    <3> DEFINE I == {j \in 1..N : Reportable(cfg, table, samples[j], at)}
    <3>1. i \in I /\ \A j \in I : Spike(samples[j]) <= Spike(samples[i])
      BY <2>1
    <3> HIDE DEF I
    <3>2. \E j \in I : /\ samples[j].pid = e.result.spike_pid
                       /\ \A l \in I : Spike(samples[l]) <= Spike(samples[j])
      BY <2>5, <3>1
    <3> QED BY <2>5, <3>2 DEF ReportsWorstOf, I
  <2>7. RecordsKey(cfg, table, scan.table, at, e)
    <3>1. e.result.scope_key = key
      <4> HIDE DEF e, key
      <4> QED BY <2>3
    <3>2. ~IsActive(table, key, at, cfg.cooldown)
      BY <2>1 DEF Reportable
    <3> HIDE DEF e, key
    <3> QED BY <2>2, <2>3, <2>5, <3>1, <3>2 DEF RecordsKey, CpuTypes
  <2> HIDE DEF e
  <2> QED BY <1>l, <2>4, <2>6, <2>7 DEF e
<1> QED BY <1>4, <1>5

-------------------------------------------------------------------------------
(* evaluate_mem and evaluate_swap                                           *)

MemoryReading == [total : Nat, available : Nat, swap_total : Nat, swap_used : Nat]

DetectorConfig(cfg) == cfg.cooldown \in Nat /\ cfg.alpha \in 0..10

(* A smoothed baseline lies between naturals.                               *)
LEMMA SmoothedIsNatural ==
  ASSUME NEW cfg, DetectorConfig(cfg), NEW value \in Nat, NEW baseline \in Nat
  PROVE  Smoothed(cfg, value, baseline) \in Nat
<1>1. cfg.alpha \in Nat /\ 10 - cfg.alpha \in Nat
  BY DEF DetectorConfig
<1>2. \A a, b \in Nat : a * b \in Nat
  OBVIOUS
<1>3. cfg.alpha * value \in Nat /\ (10 - cfg.alpha) * baseline \in Nat
  BY <1>1, <1>2
<1>4. \A a, b \in Nat : (a + b) \div 10 \in Nat
  OBVIOUS
<1> HIDE DEF DetectorConfig
<1> QED BY <1>3, <1>4 DEF Smoothed

(* One reading: the baseline follows it, and a report is made outside the   *)
(* cooldown only.                                                           *)
LEMMA WatchFollows ==
  ASSUME NEW cfg, DetectorConfig(cfg), NEW gauge \in GaugeState, NEW value \in Nat,
         NEW type, NEW at \in Nat
  PROVE  LET after == Watch(cfg, gauge, value, type, at) IN
         /\ after \in GaugeState
         /\ after.baseline = IF gauge.initialized
                             THEN Smoothed(cfg, value, gauge.baseline) ELSE value
         /\ after.last_trigger_ns = IF Reported(cfg, gauge, type, at) = "NONE"
                                    THEN gauge.last_trigger_ns ELSE at
<1>1. Smoothed(cfg, value, gauge.baseline) \in Nat
  <2>1. gauge.baseline \in Nat
    BY DEF GaugeState
  <2> QED BY <2>1, SmoothedIsNatural
<1> QED BY <1>1 DEF Watch, GaugeState, Reported

LEMMA ReportedOutside ==
  ASSUME NEW cfg, NEW gauge, NEW type, NEW at, Reported(cfg, gauge, type, at) # "NONE"
  PROVE  Reported(cfg, gauge, type, at) = type /\ ~InCooldown(cfg, gauge, at)
BY DEF Reported

LEMMA AttributedType ==
  ASSUME NEW cfg, NEW samples, NEW type
  PROVE  Attributed(cfg, samples, type).type = type
BY DEF Attributed, None

LEMMA EvaluateMemFollows ==
  ASSUME NEW cfg, DetectorConfig(cfg), NEW gauge \in GaugeState, NEW samples,
         NEW mem \in MemoryReading, NEW at \in Nat
  PROVE  LET e == EvaluateMem(cfg, gauge, samples, mem, at) IN
         /\ e.gauge \in GaugeState
         /\ e.gauge.last_trigger_ns = IF e.result.type = "NONE"
                                      THEN gauge.last_trigger_ns ELSE at
         /\ mem.total > 0 =>
               e.gauge.baseline = IF gauge.initialized
                                  THEN Smoothed(cfg, mem.available, gauge.baseline)
                                  ELSE mem.available
         /\ e.result.type \in {"NONE", "MEM_DROP", "MEM_PRESSURE"}
         /\ e.result.type # "NONE" => ~InCooldown(cfg, gauge, at)
<1> DEFINE e == EvaluateMem(cfg, gauge, samples, mem, at)
           type == MemoryType(cfg, gauge, mem)
<1>1. mem.total \in Nat /\ mem.available \in Nat
  BY DEF MemoryReading
<1>2. type \in {"NONE", "MEM_DROP", "MEM_PRESSURE"}
  BY DEF MemoryType
<1> HIDE DEF type
<1>3. CASE mem.total = 0
  <2>1. e = [gauge |-> gauge, result |-> None]
    BY <1>3 DEF EvaluateMem
  <2>2. None.type = "NONE"
    BY DEF None
  <2> HIDE DEF e
  <2>3. ~(mem.total > 0)
    BY <1>3
  <2>4. e.gauge = gauge /\ e.result.type = "NONE"
    BY <2>1, <2>2
  <2> QED BY <2>3, <2>4 DEF e
<1>4. CASE mem.total # 0
  <2>1. /\ e.gauge = Watch(cfg, gauge, mem.available, type, at)
        /\ e.result = Attributed(cfg, samples, Reported(cfg, gauge, type, at))
    BY <1>4 DEF EvaluateMem, type
  <2>2. e.result.type = Reported(cfg, gauge, type, at)
    <3> HIDE DEF e
    <3> QED BY <2>1, AttributedType
  <2>3. /\ e.result.type \in {"NONE", "MEM_DROP", "MEM_PRESSURE"}
        /\ e.result.type # "NONE" => ~InCooldown(cfg, gauge, at)
    <3> HIDE DEF e
    <3> QED BY <1>2, <2>2, ReportedOutside
  <2>4. /\ e.gauge \in GaugeState
        /\ e.gauge.last_trigger_ns = IF Reported(cfg, gauge, type, at) = "NONE"
                                     THEN gauge.last_trigger_ns ELSE at
        /\ e.gauge.baseline = IF gauge.initialized
                              THEN Smoothed(cfg, mem.available, gauge.baseline)
                              ELSE mem.available
    <3> HIDE DEF e
    <3> QED BY <1>1, <2>1, WatchFollows
  <2> HIDE DEF e
  <2> QED BY <2>2, <2>3, <2>4 DEF e
<1> QED BY <1>3, <1>4

LEMMA EvaluateSwapFollows ==
  ASSUME NEW cfg, DetectorConfig(cfg), NEW gauge \in GaugeState, NEW samples,
         NEW mem \in MemoryReading, NEW at \in Nat
  PROVE  LET e == EvaluateSwap(cfg, gauge, samples, mem, at) IN
         /\ e.gauge \in GaugeState
         /\ e.gauge.last_trigger_ns = IF e.result.type = "NONE"
                                      THEN gauge.last_trigger_ns ELSE at
         /\ e.result.type \in {"NONE", "SWAP_SPIKE"}
         /\ e.result.type # "NONE" => ~InCooldown(cfg, gauge, at)
<1> DEFINE e == EvaluateSwap(cfg, gauge, samples, mem, at)
           type == SwapType(cfg, gauge, mem)
<1>1. mem.swap_used \in Nat
  BY DEF MemoryReading
<1>2. type \in {"NONE", "SWAP_SPIKE"}
  BY DEF SwapType
<1> HIDE DEF type
<1>3. CASE mem.swap_total = 0
  <2>1. e = [gauge |-> gauge, result |-> None] /\ None.type = "NONE"
    BY <1>3 DEF EvaluateSwap, None
  <2> HIDE DEF e
  <2>2. e.gauge = gauge /\ e.result.type = "NONE"
    BY <2>1
  <2> QED BY <2>2 DEF e
<1>4. CASE mem.swap_total # 0
  <2>1. /\ e.gauge = Watch(cfg, gauge, mem.swap_used, type, at)
        /\ e.result = Attributed(cfg, samples, Reported(cfg, gauge, type, at))
    BY <1>4 DEF EvaluateSwap, type
  <2> HIDE DEF e
  <2>2. e.result.type = Reported(cfg, gauge, type, at)
    BY <2>1, AttributedType
  <2>3. /\ e.result.type \in {"NONE", "SWAP_SPIKE"}
        /\ e.result.type # "NONE" => ~InCooldown(cfg, gauge, at)
    BY <1>2, <2>2, ReportedOutside
  <2>4. /\ e.gauge \in GaugeState
        /\ e.gauge.last_trigger_ns = IF Reported(cfg, gauge, type, at) = "NONE"
                                     THEN gauge.last_trigger_ns ELSE at
    BY <1>1, <2>1, WatchFollows
  <2> QED BY <2>2, <2>3, <2>4 DEF e
<1> QED BY <1>3, <1>4
-------------------------------------------------------------------------------
(* The detector from one evaluation to the next                             *)

(* An entry holds the time of its key's last report.                        *)
EntriesAgree ==
    \A i \in 1..Len(state.cooldowns) :
        LET entry == state.cooldowns[i] IN
        /\ entry.scope_key \in DOMAIN reported
        /\ reported[entry.scope_key] = entry.last_trigger_ns

(* No report is from the future, and there are finitely many keys.          *)
ReportsArePast ==
    IsFiniteSet(DOMAIN reported) /\ \A k \in DOMAIN reported : reported[k] <= clock

(* A gauge that was reported started its cooldown then, or later.           *)
ToldIsTriggered ==
    /\ told.mem <= state.mem.last_trigger_ns /\ state.mem.last_trigger_ns <= clock
    /\ told.swap <= state.swap.last_trigger_ns /\ state.swap.last_trigger_ns <= clock

DetectorInv ==
    /\ TypeOK /\ KeysDistinct /\ QuietAreHeld
    /\ EntriesAgree /\ ReportsArePast /\ ToldIsTriggered

(* The invariant in the terms of the lemmas on the table.                   *)
LEMMA TableTyped ==
  ASSUME DetectorInv
  PROVE  TableOK(state.cooldowns) /\ Len(state.cooldowns) \in Nat
<1>1. state.cooldowns \in Seq(EntryOf(Int)) /\ Len(state.cooldowns) <= TableSize
  BY DEF DetectorInv, TypeOK, EntryOf
<1>2. Distinct(state.cooldowns)
  BY DEF DetectorInv, KeysDistinct, Distinct
<1>3. Len(state.cooldowns) \in Nat
  BY <1>1, LenProperties
<1> QED BY <1>1, <1>2, <1>3 DEF TableOK

LEMMA DetectorInitInv == DetectorInit => DetectorInv
<1> SUFFICES ASSUME DetectorInit PROVE DetectorInv
  OBVIOUS
<1>1. Gauge0 \in GaugeState /\ Gauge0.last_trigger_ns = 0
  BY DEF Gauge0, GaugeState
<1>2. << >> \in Seq([scope_key : Int, last_trigger_ns : Nat]) /\ Len(<< >>) = 0
  BY EmptySeq
<1>3. state = [cooldowns |-> << >>, mem |-> Gauge0, swap |-> Gauge0] /\ clock = 1
      /\ config \in Config /\ told = [mem |-> 0, swap |-> 0] /\ crowded = FALSE
  BY DEF DetectorInit, InitialState
<1>4. DOMAIN reported = {}
  BY DEF DetectorInit
<1>5. TypeOK
  <2>1. state \in [cooldowns : Seq([scope_key : Int, last_trigger_ns : Nat]),
                  mem : GaugeState, swap : GaugeState]
    BY <1>1, <1>2, <1>3
  <2>2. Len(state.cooldowns) <= TableSize
    BY <1>2, <1>3, TableSizeAssumption
  <2>3. DOMAIN reported \subseteq Int /\ \A k \in DOMAIN reported : reported[k] \in Nat
    BY <1>4
  <2>4. clock \in Nat \ {0} /\ told \in [mem : Nat, swap : Nat]
    BY <1>3
  <2>5. crowded \in BOOLEAN
    BY <1>3
  <2> QED BY <1>3, <2>1, <2>2, <2>3, <2>4, <2>5 DEF TypeOK
<1>6. KeysDistinct /\ EntriesAgree
  BY <1>2, <1>3 DEF KeysDistinct, EntriesAgree
<1>7. QuietAreHeld
  BY <1>4 DEF QuietAreHeld, Quiet, QuietAt
<1>8. ReportsArePast
  BY <1>4, FS_EmptySet DEF ReportsArePast
<1>9. ToldIsTriggered
  BY <1>1, <1>3 DEF ToldIsTriggered
<1> QED BY <1>5, <1>6, <1>7, <1>8, <1>9 DEF DetectorInv

CpuOf(new) == EvaluateCpu(config, state.cooldowns, new.samples, clock')
MemOf(new) == EvaluateMem(config, state.mem, new.samples, new.mem, clock')
SwapOf(new) == EvaluateSwap(config, state.swap, new.samples, new.mem, clock')

(* What one evaluation does to the state and what it reports.               *)
LEMMA EvaluationDoes ==
  ASSUME DetectorInv, NEW new \in Inputs, EvaluateNext(new)
  PROVE  /\ clock' = clock + 1 /\ clock \in Nat /\ clock' \in Nat \ {0}
         /\ config' = config /\ config \in Config /\ DetectorConfig(config)
         /\ input' = new /\ new.samples \in Seq(ProcSample) /\ new.mem \in MemoryReading
         /\ state.mem \in GaugeState /\ state.swap \in GaugeState
         /\ state' = [cooldowns |-> CpuOf(new).table, mem |-> MemOf(new).gauge,
                      swap |-> SwapOf(new).gauge]
         /\ result' = IF CpuOf(new).result.type # "NONE" THEN CpuOf(new).result
                      ELSE IF MemOf(new).result.type # "NONE" THEN MemOf(new).result
                      ELSE SwapOf(new).result
<1>1. clock' = clock + 1 /\ config' = config /\ input' = new
  BY DEF EvaluateNext
<1>2. /\ clock \in Nat /\ config \in Config /\ DetectorConfig(config)
      /\ new.samples \in Seq(ProcSample) /\ new.mem \in MemoryReading
      /\ state.mem \in GaugeState /\ state.swap \in GaugeState
  BY ConfigAssumption, InputsAssumption
     DEF DetectorInv, TypeOK, DetectorConfig, MemoryReading
<1>3. /\ state' = Evaluate(config, state, new.samples, new.mem, clock').state
      /\ result' = Evaluate(config, state, new.samples, new.mem, clock').result
  BY <1>1 DEF EvaluateNext
<1>4. clock' \in Nat \ {0}
  BY <1>1, <1>2
<1> QED BY <1>1, <1>2, <1>3, <1>4 DEF Evaluate, CpuOf, MemOf, SwapOf

(* Whichever is returned, its rank is that of its kind.                     *)
LEMMA EvaluationRanks ==
  ASSUME DetectorInv, NEW new \in Inputs, EvaluateNext(new)
  PROVE  /\ CpuOf(new).result.type \in CpuTypes \union {"NONE"}
         /\ MemOf(new).result.type \in MemTypes \union {"NONE"}
         /\ SwapOf(new).result.type \in {"SWAP_SPIKE", "NONE"}
         /\ result'.type \in CpuTypes => result' = CpuOf(new).result
         /\ result'.type \notin CpuTypes => CpuOf(new).result.type = "NONE"
         /\ result'.type \in MemTypes => MemOf(new).result.type # "NONE"
         /\ result'.type = "SWAP_SPIKE" => SwapOf(new).result.type # "NONE"
         /\ MemOf(new).result.type # "NONE" => result'.type \in CpuTypes \union MemTypes
         /\ SwapOf(new).result.type # "NONE" => result'.type # "NONE"
<1> DEFINE c == CpuOf(new).result
           m == MemOf(new).result
           s == SwapOf(new).result
<1>1. result' = IF c.type # "NONE" THEN c ELSE IF m.type # "NONE" THEN m ELSE s
  BY EvaluationDoes
<1>2. c.type \in CpuTypes \union {"NONE"}
  <2>1. ReportsWorstOf(config, state.cooldowns, new.samples, clock', c)
    BY EvaluationDoes, TableTyped, EvaluateCpuReports DEF CpuOf
  <2> HIDE DEF c
  <2> QED BY <2>1 DEF ReportsWorstOf, CpuTypes
<1>3. m.type \in MemTypes \union {"NONE"}
  BY EvaluationDoes, EvaluateMemFollows DEF MemOf, MemTypes
<1>4. s.type \in {"SWAP_SPIKE", "NONE"}
  BY EvaluationDoes, EvaluateSwapFollows DEF SwapOf
<1> HIDE DEF c, m, s
<1>5. /\ c.type \in CpuTypes \union {"NONE"} /\ m.type \in MemTypes \union {"NONE"}
      /\ s.type \in {"SWAP_SPIKE", "NONE"}
      /\ result'.type \in CpuTypes => result' = c
      /\ result'.type \notin CpuTypes => c.type = "NONE"
      /\ result'.type \in MemTypes => m.type # "NONE"
      /\ result'.type = "SWAP_SPIKE" => s.type # "NONE"
      /\ m.type # "NONE" => result'.type \in CpuTypes \union MemTypes
      /\ s.type # "NONE" => result'.type # "NONE"
  BY <1>1, <1>2, <1>3, <1>4 DEF CpuTypes, MemTypes
<1> QED BY <1>5 DEF c, m, s

(* What becomes of the reports: those of before, but for the one made now.  *)
LEMMA HistoryAfter ==
  ASSUME DetectorInv, NEW new \in Inputs, EvaluateNext(new)
  PROVE  LET key == result'.scope_key IN
         /\ result'.type \in CpuTypes =>
               /\ DOMAIN reported' = DOMAIN reported \union {key}
               /\ reported'[key] = clock'
               /\ \A k \in DOMAIN reported \ {key} : reported'[k] = reported[k]
         /\ result'.type \notin CpuTypes => reported' = reported
         /\ told' = [mem |-> IF result'.type \in MemTypes THEN clock' ELSE told.mem,
                     swap |-> IF result'.type = "SWAP_SPIKE" THEN clock' ELSE told.swap]
         /\ crowded' = (crowded \/ Cardinality(Quiet') > TableSize)
<1> DEFINE e == Evaluate(config, state, new.samples, new.mem, clock + 1)
<1>1. /\ clock' = clock + 1 /\ result' = e.result /\ config' = config
      /\ reported' = IF e.result.type \in CpuTypes
                     THEN [k \in DOMAIN reported \union {e.result.scope_key} |->
                              IF k = e.result.scope_key THEN clock + 1 ELSE reported[k]]
                     ELSE reported
      /\ told' = [mem |-> IF e.result.type \in MemTypes THEN clock + 1 ELSE told.mem,
                  swap |-> IF e.result.type = "SWAP_SPIKE" THEN clock + 1 ELSE told.swap]
      /\ crowded' = (crowded \/ Cardinality(QuietAt(reported', clock')) > TableSize)
  BY DEF EvaluateNext
<1> HIDE DEF e
<1>2. Quiet' = QuietAt(reported', clock')
  BY <1>1 DEF Quiet, QuietAt
<1> QED BY <1>1, <1>2

(* A key inside its window as the next evaluation sees it was so before, and *)
(* consulting the table finds it.                                            *)
LEMMA QuietIsActive ==
  ASSUME DetectorInv, ~crowded, NEW k \in DOMAIN reported,
         clock + 1 - reported[k] < config.cooldown
  PROVE  IsActive(state.cooldowns, k, clock + 1, config.cooldown)
<1>1. clock \in Nat /\ reported[k] \in Nat /\ config.cooldown \in Nat
  BY ConfigAssumption DEF DetectorInv, TypeOK
<1>2. k \in Quiet
  BY <1>1 DEF Quiet, QuietAt
<1>3. Has(state.cooldowns, k)
  BY <1>2 DEF DetectorInv, QuietAreHeld
<1>4. /\ Find(state.cooldowns, k) \in 1..Len(state.cooldowns)
      /\ state.cooldowns[Find(state.cooldowns, k)].scope_key = k
  BY <1>3, TableTyped, FindFinds DEF TableOK
<1>5. state.cooldowns[Find(state.cooldowns, k)].last_trigger_ns = reported[k]
  BY <1>4 DEF DetectorInv, EntriesAgree
<1>6. Fresh(state.cooldowns[Find(state.cooldowns, k)], clock + 1, config.cooldown)
  BY <1>1, <1>5 DEF Fresh
<1> QED BY <1>3, <1>6 DEF IsActive

(* The table the loop leaves, before any report is recorded.                *)
LEMMA LoopLeaves ==
  ASSUME DetectorInv, NEW new \in Inputs, EvaluateNext(new)
  PROVE  /\ TableOK(CpuOf(new).table)
         /\ ReportsWorstOf(config, state.cooldowns, new.samples, clock', CpuOf(new).result)
         /\ \E left : /\ Leaves(config, state.cooldowns, clock', left)
                      /\ RecordsKey(config, state.cooldowns, left, clock', CpuOf(new))
<1>1. new.samples \in Seq(ProcSample) /\ clock' \in Nat
  BY EvaluationDoes
<1> QED BY <1>1, TableTyped, EvaluateCpuReports DEF CpuOf

(* A table that holds part of what was recorded agrees with the reports.    *)
Agrees(table) ==
    \A i \in 1..Len(table) :
        /\ table[i].scope_key \in DOMAIN reported
        /\ reported[table[i].scope_key] = table[i].last_trigger_ns

LEMMA LeftAgrees ==
  ASSUME DetectorInv, NEW at, NEW left, Leaves(config, state.cooldowns, at, left)
  PROVE  Agrees(left)
<1> SUFFICES ASSUME NEW i \in 1..Len(left)
             PROVE  /\ left[i].scope_key \in DOMAIN reported
                    /\ reported[left[i].scope_key] = left[i].last_trigger_ns
  BY DEF Agrees
<1>1. PICK j \in 1..Len(state.cooldowns) : left[i] = state.cooldowns[j]
  BY DEF Leaves, PartOf
<1> QED BY <1>1 DEF DetectorInv, EntriesAgree

(* A key that is quiet after the evaluation without being reported by it is *)
(* still in the table the loop leaves.                                      *)
LEMMA QuietIsLeft ==
  ASSUME DetectorInv, NEW new \in Inputs, EvaluateNext(new), ~crowded,
         NEW left, Leaves(config, state.cooldowns, clock', left),
         NEW k \in DOMAIN reported, clock' - reported[k] < config.cooldown
  PROVE  Has(left, k)
<1>1. clock' = clock + 1
  BY EvaluationDoes
<1>2. IsActive(state.cooldowns, k, clock + 1, config.cooldown)
  <2>1. clock \in Nat /\ reported[k] \in Nat /\ config.cooldown \in Nat
    BY EvaluationDoes DEF DetectorInv, TypeOK, DetectorConfig
  <2>2. clock + 1 - reported[k] < config.cooldown
    BY <1>1, <2>1
  <2> QED BY <2>2, QuietIsActive
<1>3. IsActive(left, k, clock + 1, config.cooldown)
  BY <1>1, <1>2 DEF Leaves, SameAnswers
<1> QED BY <1>3 DEF IsActive

(* When a full table gives up a live key for one it does not hold, all of   *)
(* its keys and the new one are quiet, and they are more than its slots.    *)
LEMMA EvictedWhenCrowded ==
  ASSUME DetectorInv, NEW new \in Inputs, EvaluateNext(new),
         result'.type \in CpuTypes,
         NEW left, Leaves(config, state.cooldowns, clock', left),
         Len(left) = TableSize, ~Has(left, result'.scope_key),
         left[Oldest(left)].scope_key \in DOMAIN reported,
         clock' - reported[left[Oldest(left)].scope_key] < config.cooldown
  PROVE  crowded'
<1> DEFINE key == result'.scope_key
           old == left[Oldest(left)]
           held == {left[i].scope_key : i \in 1..TableSize}
           f == [i \in 1..TableSize |-> left[i].scope_key]
<1>1. /\ left \in Seq(EntryOf(Int)) /\ Distinct(left) /\ Agrees(left)
      /\ TableSize \in Nat \ {0}
  BY LeftAgrees, TableSizeAssumption DEF Leaves, TableOK
<1>2. /\ config.cooldown \in Nat /\ clock \in Nat /\ clock' = clock + 1 /\ config' = config
  BY EvaluationDoes DEF DetectorConfig
<1>3. /\ Oldest(left) \in 1..TableSize
      /\ \A i \in 1..TableSize : old.last_trigger_ns <= left[i].last_trigger_ns
  BY <1>1, OldestIsOldest
<1>4. /\ \A k \in DOMAIN reported : reported[k] \in Nat /\ reported[k] <= clock
      /\ IsFiniteSet(DOMAIN reported)
  BY DEF DetectorInv, TypeOK, ReportsArePast
<1>5. /\ DOMAIN reported' = DOMAIN reported \union {key} /\ reported'[key] = clock'
      /\ \A k \in DOMAIN reported \ {key} : reported'[k] = reported[k]
      /\ crowded' = (crowded \/ Cardinality(Quiet') > TableSize)
  BY HistoryAfter
<1> HIDE DEF key
<1>6. \A k : k \in Quiet' <=> k \in DOMAIN reported' /\ clock' - reported'[k] < config.cooldown
  BY <1>2 DEF Quiet, QuietAt
<1>7. ASSUME NEW i \in 1..TableSize
      PROVE  left[i].scope_key # key /\ left[i].scope_key \in Quiet'
  <2>1. left[i].scope_key # key
    BY DEF Has, key
  <2>2. /\ left[i].scope_key \in DOMAIN reported
        /\ reported[left[i].scope_key] = left[i].last_trigger_ns
        /\ reported[old.scope_key] = old.last_trigger_ns
    BY <1>1, <1>3 DEF Agrees
  <2>3. reported[old.scope_key] <= reported[left[i].scope_key]
    BY <1>3, <2>2
  <2>4. clock' - reported[left[i].scope_key] < config.cooldown
    BY <1>2, <1>4, <2>2, <2>3
  <2> QED BY <1>5, <1>6, <2>1, <2>2, <2>4
<1>8. key \in Quiet'
  <2>1. 0 < config.cooldown
    BY <1>2, <1>4
  <2> QED BY <1>2, <1>5, <1>6, <2>1
<1>9. IsFiniteSet(held) /\ Cardinality(held) = TableSize
  <2>1. f \in Bijection(1..TableSize, held)
    <3>1. \A i, j \in 1..TableSize : f[i] = f[j] => i = j
      BY <1>1 DEF Distinct
    <3> QED BY <3>1 DEF Bijection, Injection, Surjection, IsInjective
  <2>2. IsFiniteSet(1..TableSize) /\ Cardinality(1..TableSize) = TableSize
    BY <1>1, FS_Interval
  <2>3. ExistsBijection(1..TableSize, held)
    BY <2>1 DEF ExistsBijection
  <2> HIDE DEF held
  <2> QED BY <2>2, <2>3, FS_Bijection
<1>10. key \notin held /\ held \union {key} \subseteq Quiet'
  BY <1>7, <1>8
<1>11. IsFiniteSet(Quiet')
  <2>1. IsFiniteSet(DOMAIN reported')
    BY <1>4, <1>5, FS_AddElement
  <2>2. Quiet' \subseteq DOMAIN reported'
    BY <1>6
  <2> QED BY <2>1, <2>2, FS_Subset
<1> HIDE DEF held
<1>12. /\ Cardinality(held \union {key}) = TableSize + 1
       /\ Cardinality(held \union {key}) <= Cardinality(Quiet')
       /\ Cardinality(Quiet') \in Nat
  BY <1>9, <1>10, <1>11, FS_AddElement, FS_Subset, FS_CardinalityType
<1>13. Cardinality(Quiet') > TableSize
  BY <1>1, <1>12
<1> QED BY <1>5, <1>13

(* The table after an evaluation, against the reports after it.             *)
LEMMA TableFollowsReports ==
  ASSUME DetectorInv, NEW new \in Inputs, EvaluateNext(new)
  PROVE  TableOK(state'.cooldowns) /\ EntriesAgree' /\ QuietAreHeld'
<1> DEFINE c == CpuOf(new)
           key == result'.scope_key
<1>1. PICK left : /\ Leaves(config, state.cooldowns, clock', left)
                  /\ RecordsKey(config, state.cooldowns, left, clock', c)
  BY LoopLeaves
<1>2. state'.cooldowns = c.table /\ TableOK(c.table)
  BY EvaluationDoes, LoopLeaves
<1>3. /\ clock \in Nat /\ clock' = clock + 1 /\ config' = config
      /\ TableSize \in Nat \ {0} /\ TableOK(left) /\ Agrees(left)
  BY <1>1, EvaluationDoes, LeftAgrees, TableSizeAssumption DEF Leaves
<1>4. \A k : k \in Quiet' <=> k \in DOMAIN reported' /\ clock' - reported'[k] < config.cooldown
  BY <1>3 DEF Quiet, QuietAt
<1>5. ~crowded' => ~crowded
  BY HistoryAfter
<1>6. CASE result'.type \notin CpuTypes
  <2>1. c.result.type = "NONE" /\ reported' = reported
    BY <1>6, EvaluationRanks, HistoryAfter
  <2>2. state'.cooldowns = left
    BY <1>1, <1>2, <2>1 DEF RecordsKey, CpuTypes
  <2> HIDE DEF c
  <2>3. EntriesAgree'
    BY <1>3, <2>1, <2>2 DEF EntriesAgree, Agrees
  <2>4. QuietAreHeld'
    <3> SUFFICES ASSUME ~crowded', NEW k \in Quiet' PROVE Has(state'.cooldowns, k)
      BY DEF QuietAreHeld
    <3>1. ~crowded /\ k \in DOMAIN reported /\ clock' - reported[k] < config.cooldown
      BY <1>4, <1>5, <2>1
    <3>2. Has(left, k)
      BY <1>1, <3>1, QuietIsLeft
    <3> QED BY <2>2, <3>2
  <2> QED BY <1>2, <2>3, <2>4
<1>7. CASE result'.type \in CpuTypes
  <2>1. c.result = result'
    BY <1>7, EvaluationRanks
  <2>2. key \in Int /\ state'.cooldowns = Record(left, key, clock')
    BY <1>1, <1>2, <1>7, <2>1 DEF RecordsKey, CpuTypes
  <2> HIDE DEF c
  <2>3. /\ DOMAIN reported' = DOMAIN reported \union {key} /\ reported'[key] = clock'
        /\ \A k \in DOMAIN reported \ {key} : reported'[k] = reported[k]
    BY <1>7, HistoryAfter
  <2>4. /\ left \in Seq(EntryOf(Int)) /\ Distinct(left) /\ Len(left) <= TableSize
        /\ key \in Int /\ clock' \in Nat
    BY <1>3, <2>2 DEF TableOK
  <2> DEFINE after == Record(left, key, clock')
  <2> HIDE DEF key
  <2>5. /\ Has(after, key)
        /\ \A i \in 1..Len(after) :
              \/ after[i] = Entry(key, clock')
              \/ \E j \in 1..Len(left) :
                    after[i] = left[j] /\ left[j].scope_key # key
        /\ \A k : Has(left, k) /\ ~Has(after, k)
                => /\ ~Has(left, key) /\ Len(left) = TableSize
                   /\ left[Oldest(left)].scope_key = k
    <3>1. Recorded(left, key, clock', after)
      BY <2>4, RecordKeeps
    <3> QED BY <3>1 DEF Recorded
  <2>6. EntriesAgree'
    <3> SUFFICES ASSUME NEW i \in 1..Len(state'.cooldowns)
                 PROVE  /\ state'.cooldowns[i].scope_key \in DOMAIN reported'
                        /\ reported'[state'.cooldowns[i].scope_key]
                              = state'.cooldowns[i].last_trigger_ns
      BY DEF EntriesAgree
    <3>1. CASE state'.cooldowns[i] = Entry(key, clock')
      BY <2>3, <3>1 DEF Entry
    <3>2. CASE \E j \in 1..Len(left) :
                  state'.cooldowns[i] = left[j] /\ left[j].scope_key # key
      <4>1. PICK j \in 1..Len(left) :
                  state'.cooldowns[i] = left[j] /\ left[j].scope_key # key
        BY <3>2
      <4>2. /\ left[j].scope_key \in DOMAIN reported
            /\ reported[left[j].scope_key] = left[j].last_trigger_ns
        BY <1>3 DEF Agrees
      <4> QED BY <2>3, <4>1, <4>2
    <3> QED BY <2>2, <2>5, <3>1, <3>2
  <2>7. QuietAreHeld'
    <3> SUFFICES ASSUME ~crowded', NEW k \in Quiet', ~Has(state'.cooldowns, k) PROVE FALSE
      BY DEF QuietAreHeld
    <3>1. k # key
      BY <2>2, <2>5
    <3>2. k \in DOMAIN reported /\ clock' - reported[k] < config.cooldown
      BY <1>4, <2>3, <3>1
    <3>3. Has(left, k)
      BY <1>1, <1>5, <3>2, QuietIsLeft
    <3>4. ~Has(left, key) /\ Len(left) = TableSize /\ left[Oldest(left)].scope_key = k
      BY <2>2, <2>5, <3>3
    <3> QED BY <1>1, <1>7, <3>2, <3>4, EvictedWhenCrowded DEF key
  <2> QED BY <1>2, <2>6, <2>7
<1> QED BY <1>6, <1>7

(* One evaluation keeps the invariant.                                      *)
LEMMA EvaluateInv ==
  ASSUME DetectorInv, NEW new \in Inputs, EvaluateNext(new)
  PROVE  DetectorInv'
<1> DEFINE key == result'.scope_key
<1>1. TableOK(state'.cooldowns) /\ EntriesAgree' /\ QuietAreHeld'
  BY TableFollowsReports
<1>2. KeysDistinct'
  BY <1>1 DEF TableOK, Distinct, KeysDistinct
<1>3. /\ clock \in Nat /\ clock' = clock + 1 /\ clock' \in Nat \ {0}
      /\ config' \in Config /\ told \in [mem : Nat, swap : Nat]
      /\ DetectorConfig(config) /\ new.mem \in MemoryReading
      /\ state.mem \in GaugeState /\ state.swap \in GaugeState
      /\ state' = [cooldowns |-> state'.cooldowns, mem |-> MemOf(new).gauge,
                   swap |-> SwapOf(new).gauge]
  <2>1. told \in [mem : Nat, swap : Nat]
    BY DEF DetectorInv, TypeOK
  <2> QED BY <2>1, EvaluationDoes
<1>4. result'.type \in CpuTypes => key \in Int
  <2> SUFFICES ASSUME result'.type \in CpuTypes PROVE key \in Int
    OBVIOUS
  <2>1. CpuOf(new).result = result'
    BY EvaluationRanks
  <2>2. PICK left : RecordsKey(config, state.cooldowns, left, clock', CpuOf(new))
    BY LoopLeaves
  <2> QED BY <2>1, <2>2 DEF RecordsKey, CpuTypes
<1>5. /\ result'.type \in CpuTypes =>
             /\ DOMAIN reported' = DOMAIN reported \union {key}
             /\ reported'[key] = clock'
             /\ \A k \in DOMAIN reported \ {key} : reported'[k] = reported[k]
      /\ result'.type \notin CpuTypes => reported' = reported
      /\ told' = [mem |-> IF result'.type \in MemTypes THEN clock' ELSE told.mem,
                  swap |-> IF result'.type = "SWAP_SPIKE" THEN clock' ELSE told.swap]
      /\ crowded' = (crowded \/ Cardinality(Quiet') > TableSize)
  BY HistoryAfter
<1>6. /\ MemOf(new).gauge \in GaugeState
      /\ MemOf(new).gauge.last_trigger_ns = IF MemOf(new).result.type = "NONE"
                                            THEN state.mem.last_trigger_ns ELSE clock'
      /\ result'.type \in MemTypes => MemOf(new).result.type # "NONE"
  BY <1>3, EvaluateMemFollows, EvaluationRanks DEF MemOf
<1>7. /\ SwapOf(new).gauge \in GaugeState
      /\ SwapOf(new).gauge.last_trigger_ns = IF SwapOf(new).result.type = "NONE"
                                             THEN state.swap.last_trigger_ns ELSE clock'
      /\ result'.type = "SWAP_SPIKE" => SwapOf(new).result.type # "NONE"
  BY <1>3, EvaluateSwapFollows, EvaluationRanks DEF SwapOf
<1>8. /\ DOMAIN reported \subseteq Int /\ IsFiniteSet(DOMAIN reported)
      /\ \A k \in DOMAIN reported : reported[k] \in Nat /\ reported[k] <= clock
  BY DEF DetectorInv, TypeOK, ReportsArePast
<1> HIDE DEF key
<1>9. /\ DOMAIN reported' \subseteq Int /\ IsFiniteSet(DOMAIN reported')
      /\ \A k \in DOMAIN reported' : reported'[k] \in Nat /\ reported'[k] <= clock'
  <2>1. CASE result'.type \in CpuTypes
    <3>1. IsFiniteSet(DOMAIN reported')
      BY <1>5, <1>8, <2>1, FS_AddElement
    <3>2. ASSUME NEW k \in DOMAIN reported'
          PROVE  k \in Int /\ reported'[k] \in Nat /\ reported'[k] <= clock'
      BY <1>3, <1>4, <1>5, <1>8, <2>1
    <3> QED BY <3>1, <3>2
  <2>2. CASE result'.type \notin CpuTypes
    BY <1>3, <1>5, <1>8, <2>2
  <2> QED BY <2>1, <2>2
<1>10. TypeOK'
  <2>1. /\ state'.cooldowns \in Seq([scope_key : Int, last_trigger_ns : Nat])
        /\ Len(state'.cooldowns) <= TableSize
    BY <1>1 DEF TableOK, EntryOf
  <2>2. state' \in [cooldowns : Seq([scope_key : Int, last_trigger_ns : Nat]),
                    mem : GaugeState, swap : GaugeState]
    BY <1>3, <1>6, <1>7, <2>1
  <2>3. told' \in [mem : Nat, swap : Nat]
    BY <1>3, <1>5
  <2>4. crowded' \in BOOLEAN
    <3>1. crowded \in BOOLEAN
      BY DEF DetectorInv, TypeOK
    <3> QED BY <1>5, <3>1
  <2> QED BY <1>3, <1>9, <2>1, <2>2, <2>3, <2>4 DEF TypeOK
<1>11. ReportsArePast'
  BY <1>9 DEF ReportsArePast
<1>12. ToldIsTriggered'
  <2>1. /\ told.mem <= state.mem.last_trigger_ns /\ state.mem.last_trigger_ns <= clock
        /\ told.swap <= state.swap.last_trigger_ns /\ state.swap.last_trigger_ns <= clock
        /\ told.mem \in Nat /\ told.swap \in Nat
        /\ state.mem.last_trigger_ns \in Nat /\ state.swap.last_trigger_ns \in Nat
    BY <1>3 DEF DetectorInv, ToldIsTriggered, GaugeState
  <2>2. /\ state'.mem = MemOf(new).gauge /\ state'.swap = SwapOf(new).gauge
        /\ told'.mem = IF result'.type \in MemTypes THEN clock' ELSE told.mem
        /\ told'.swap = IF result'.type = "SWAP_SPIKE" THEN clock' ELSE told.swap
    BY <1>3, <1>5
  <2>3. told'.mem <= state'.mem.last_trigger_ns /\ state'.mem.last_trigger_ns <= clock'
    BY <1>3, <1>6, <2>1, <2>2
  <2>4. told'.swap <= state'.swap.last_trigger_ns /\ state'.swap.last_trigger_ns <= clock'
    BY <1>3, <1>7, <2>1, <2>2
  <2> QED BY <2>3, <2>4 DEF ToldIsTriggered
<1> QED BY <1>1, <1>2, <1>10, <1>11, <1>12 DEF DetectorInv

LEMMA DetectorStepInv == DetectorInv /\ [DetectorNext]_detectorVars => DetectorInv'
<1> SUFFICES ASSUME DetectorInv, [DetectorNext]_detectorVars PROVE DetectorInv'
  OBVIOUS
<1>1. CASE DetectorNext
  BY <1>1, EvaluateInv DEF DetectorNext
<1>2. CASE UNCHANGED detectorVars
  BY <1>2 DEF detectorVars, DetectorInv, TypeOK, KeysDistinct, QuietAreHeld, Quiet, QuietAt,
              EntriesAgree, ReportsArePast, ToldIsTriggered
<1> QED BY <1>1, <1>2

LEMMA DetectorAlwaysInv == DetectorSpec => []DetectorInv
<1>1. DetectorInit => DetectorInv
  BY DetectorInitInv
<1>2. DetectorInv /\ [DetectorNext]_detectorVars => DetectorInv'
  BY DetectorStepInv
<1> QED BY <1>1, <1>2, PTL DEF DetectorSpec

(* Type correctness: the table stays within its array.                      *)
THEOREM TypeCorrect == DetectorSpec => []TypeOK
<1>1. DetectorInv => TypeOK
  BY DEF DetectorInv
<1> QED BY <1>1, DetectorAlwaysInv, PTL

(* No key has two entries, however many the loop consults, deletes and      *)
(* records.                                                                 *)
THEOREM KeysAreDistinct == DetectorSpec => []KeysDistinct
<1>1. DetectorInv => KeysDistinct
  BY DEF DetectorInv
<1> QED BY <1>1, DetectorAlwaysInv, PTL

(* Until more keys than the table holds were inside their windows at once, a *)
(* key inside its window has its entry.                                     *)
THEOREM QuietAreAlwaysHeld == DetectorSpec => []QuietAreHeld
<1>1. DetectorInv => QuietAreHeld
  BY DEF DetectorInv
<1> QED BY <1>1, DetectorAlwaysInv, PTL

-------------------------------------------------------------------------------
(* What a step reports                                                      *)

LEMMA SpacedStep == DetectorInv /\ [DetectorNext]_detectorVars => [Spaced]_detectorVars
<1> SUFFICES ASSUME DetectorInv, DetectorNext, result'.type \in CpuTypes,
                    result'.scope_key \in DOMAIN reported, ~crowded,
                    ~(clock' - reported[result'.scope_key] >= config.cooldown)
             PROVE  FALSE
  BY DEF Spaced
<1> DEFINE key == result'.scope_key
<1>1. PICK new \in Inputs : EvaluateNext(new)
  BY DEF DetectorNext
<1>2. CpuOf(new).result = result'
  BY <1>1, EvaluationRanks
<1>3. ~IsActive(state.cooldowns, key, clock', config.cooldown)
  <2>1. PICK left : RecordsKey(config, state.cooldowns, left, clock', CpuOf(new))
    BY <1>1, LoopLeaves
  <2> QED BY <1>2, <2>1 DEF RecordsKey, CpuTypes
<1>4. /\ clock' = clock + 1 /\ clock \in Nat /\ config.cooldown \in Nat
      /\ reported[key] \in Nat
  BY <1>1, EvaluationDoes DEF DetectorInv, TypeOK, DetectorConfig
<1>5. clock + 1 - reported[key] < config.cooldown
  BY <1>4
<1>6. IsActive(state.cooldowns, key, clock + 1, config.cooldown)
  BY <1>5, QuietIsActive
<1> QED BY <1>3, <1>4, <1>6

(* The CPU anomalies reported for a key are a window apart, until more keys *)
(* than the table holds were inside their windows at once.                  *)
THEOREM ReportsAreSpaced == DetectorSpec => ReportsSpaced
  BY DetectorAlwaysInv, SpacedStep, PTL DEF DetectorSpec, ReportsSpaced

LEMMA WorstStep == DetectorInv /\ [DetectorNext]_detectorVars => [ReportsWorst]_detectorVars
<1> SUFFICES ASSUME DetectorInv, DetectorNext PROVE ReportsWorst
  OBVIOUS
<1>1. PICK new \in Inputs : EvaluateNext(new)
  BY DEF DetectorNext
<1> DEFINE c == CpuOf(new).result
           samples == new.samples
           I == {i \in 1..Len(samples) :
                    Reportable(config, state.cooldowns, samples[i], clock')}
<1>2. input' = new /\ samples \in Seq(ProcSample)
  BY <1>1, EvaluationDoes
<1>3. ReportsWorstOf(config, state.cooldowns, samples, clock', c)
  BY <1>1, LoopLeaves
<1>4. /\ c.type \in CpuTypes \union {"NONE"}
      /\ result'.type \in CpuTypes => result' = c
      /\ result'.type \notin CpuTypes => c.type = "NONE"
  BY <1>1, EvaluationRanks
<1> HIDE DEF c
<1>5. \/ c.type = "NONE" /\ I = {} /\ result'.type \notin CpuTypes
      \/ /\ result' = c /\ result'.type \in CpuTypes
         /\ \E i \in I : /\ samples[i].pid = c.spike_pid
                         /\ \A j \in I : Spike(samples[j]) <= Spike(samples[i])
  <2>1. c.type = "NONE" => result'.type \notin CpuTypes
    BY <1>4 DEF CpuTypes
  <2>2. c.type # "NONE" => result' = c /\ result'.type \in CpuTypes
    BY <1>4
  <2>3. \/ c.type = "NONE" /\ I = {}
        \/ /\ c.type # "NONE"
           /\ \E i \in I : /\ samples[i].pid = c.spike_pid
                           /\ \A j \in I : Spike(samples[j]) <= Spike(samples[i])
    BY <1>3 DEF ReportsWorstOf
  <2> HIDE DEF I
  <2> QED BY <2>1, <2>2, <2>3
<1>6. input'.samples = samples /\ DOMAIN samples = 1..Len(samples)
  BY <1>2, LenProperties
<1>7. {i \in DOMAIN input'.samples : Eligible(i)} = I
  BY <1>6 DEF Eligible, Reportable
<1> HIDE DEF I
<1>8. result'.type \in CpuTypes <=> I # {}
  BY <1>5
<1>9. result'.type \in CpuTypes =>
          \E i \in I : /\ input'.samples[i].pid = result'.spike_pid
                       /\ \A j \in I : Spike(input'.samples[j]) <= Spike(input'.samples[i])
  BY <1>5, <1>6
<1> QED BY <1>7, <1>8, <1>9 DEF ReportsWorst

(* A CPU anomaly is reported exactly when some process outside its cooldown *)
(* spikes, for the worst of those: deleting expired entries in the loop     *)
(* neither hides nor reveals a sample.                                      *)
THEOREM WorstIsAlwaysReported == DetectorSpec => WorstIsReported
  BY DetectorAlwaysInv, WorstStep, PTL DEF DetectorSpec, WorstIsReported

LEMMA FollowsStep == DetectorInv /\ [DetectorNext]_detectorVars => [Follows]_detectorVars
<1> SUFFICES ASSUME DetectorInv, DetectorNext PROVE Follows
  OBVIOUS
<1>1. PICK new \in Inputs : EvaluateNext(new)
  BY DEF DetectorNext
<1>2. /\ clock' \in Nat /\ input' = new /\ new.mem \in MemoryReading
      /\ DetectorConfig(config) /\ state.mem \in GaugeState
      /\ state'.mem = MemOf(new).gauge
  BY <1>1, EvaluationDoes
<1>3. new.mem.total > 0 =>
         MemOf(new).gauge.baseline =
             IF state.mem.initialized
             THEN Smoothed(config, new.mem.available, state.mem.baseline)
             ELSE new.mem.available
  BY <1>2, EvaluateMemFollows DEF MemOf
<1> QED BY <1>2, <1>3 DEF Follows

(* The memory baseline follows every reading, whatever is reported or held  *)
(* back.                                                                    *)
THEOREM BaselineAlwaysFollows == DetectorSpec => BaselineFollows
  BY DetectorAlwaysInv, FollowsStep, PTL DEF DetectorSpec, BaselineFollows

(* What memory or swap reports is outside the cooldown of its gauge, whose   *)
(* last trigger is never earlier than the last report.                      *)
LEMMA ApartStep == DetectorInv /\ [DetectorNext]_detectorVars => [Apart]_detectorVars
<1> SUFFICES ASSUME DetectorInv, DetectorNext PROVE Apart
  OBVIOUS
<1>1. PICK new \in Inputs : EvaluateNext(new)
  BY DEF DetectorNext
<1>2. /\ clock' = clock + 1 /\ clock \in Nat /\ clock' \in Nat /\ DetectorConfig(config)
      /\ new.mem \in MemoryReading /\ state.mem \in GaugeState /\ state.swap \in GaugeState
      /\ config.cooldown \in Nat
  BY <1>1, EvaluationDoes DEF DetectorConfig
<1>3. /\ told.mem <= state.mem.last_trigger_ns /\ state.mem.last_trigger_ns <= clock
      /\ told.swap <= state.swap.last_trigger_ns /\ state.swap.last_trigger_ns <= clock
      /\ told.mem \in Nat /\ told.swap \in Nat
      /\ state.mem.last_trigger_ns \in Nat /\ state.swap.last_trigger_ns \in Nat
  BY <1>2 DEF DetectorInv, TypeOK, ToldIsTriggered, GaugeState
<1>4. /\ result'.type \in MemTypes => MemOf(new).result.type # "NONE"
      /\ result'.type = "SWAP_SPIKE" => SwapOf(new).result.type # "NONE"
  BY <1>1, EvaluationRanks
<1>5. ASSUME result'.type \in MemTypes, told.mem > 0
      PROVE  clock' - told.mem >= config.cooldown
  <2>1. ~InCooldown(config, state.mem, clock')
    BY <1>2, <1>4, <1>5, EvaluateMemFollows DEF MemOf
  <2>2. clock' - state.mem.last_trigger_ns >= config.cooldown
    BY <1>2, <1>3, <1>5, <2>1 DEF InCooldown
  <2> QED BY <1>2, <1>3, <2>2
<1>6. ASSUME result'.type = "SWAP_SPIKE", told.swap > 0
      PROVE  clock' - told.swap >= config.cooldown
  <2>1. ~InCooldown(config, state.swap, clock')
    BY <1>2, <1>4, <1>6, EvaluateSwapFollows DEF SwapOf
  <2>2. clock' - state.swap.last_trigger_ns >= config.cooldown
    BY <1>2, <1>3, <1>6, <2>1 DEF InCooldown
  <2> QED BY <1>2, <1>3, <2>2
<1> QED BY <1>5, <1>6 DEF Apart

(* The memory anomalies reported are a cooldown apart, and so are those of  *)
(* swap, whatever a CPU anomaly or each other hid between two of them.      *)
THEOREM MemoryIsAlwaysSpaced == DetectorSpec => MemorySpaced
  BY DetectorAlwaysInv, ApartStep, PTL DEF DetectorSpec, MemorySpaced

LEMMA OutrankedStep == DetectorInv /\ [DetectorNext]_detectorVars => [Outranked]_detectorVars
<1> SUFFICES ASSUME DetectorInv, DetectorNext PROVE Outranked
  OBVIOUS
<1>1. PICK new \in Inputs : EvaluateNext(new)
  BY DEF DetectorNext
<1>2. /\ clock' \in Nat /\ DetectorConfig(config) /\ new.mem \in MemoryReading
      /\ state.mem \in GaugeState /\ state.swap \in GaugeState
      /\ state'.mem = MemOf(new).gauge /\ state'.swap = SwapOf(new).gauge
  BY <1>1, EvaluationDoes
<1>3. /\ MemOf(new).result.type # "NONE" => result'.type \in CpuTypes \union MemTypes
      /\ SwapOf(new).result.type # "NONE" => result'.type # "NONE"
  BY <1>1, EvaluationRanks
<1>4. MemOf(new).result.type = "NONE"
         => MemOf(new).gauge.last_trigger_ns = state.mem.last_trigger_ns
  BY <1>2, EvaluateMemFollows DEF MemOf
<1>5. SwapOf(new).result.type = "NONE"
         => SwapOf(new).gauge.last_trigger_ns = state.swap.last_trigger_ns
  BY <1>2, EvaluateSwapFollows DEF SwapOf
<1> QED BY <1>2, <1>3, <1>4, <1>5 DEF Outranked

(* A gauge starts its cooldown only when its anomaly, or one that outranks  *)
(* it, is what the evaluation returns.                                      *)
THEOREM OnlyOutrankedAreEverLost == DetectorSpec => OnlyOutrankedAreLost
  BY DetectorAlwaysInv, OutrankedStep, PTL DEF DetectorSpec, OnlyOutrankedAreLost

==============================================================================
