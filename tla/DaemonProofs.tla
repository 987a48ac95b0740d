----------------------------- MODULE DaemonProofs -----------------------------
(***************************************************************************)
(* Theorems about the daemon's main loop, for any settings, collections,   *)
(* buffer and bounds, with signals and edits between any two steps.        *)
(***************************************************************************)
EXTENDS Daemon, WellFoundedInduction, TLAPS

-------------------------------------------------------------------------------

(* Reloads.                                                                 *)

\* Where the loop can be while a SIGHUP that a sample was taken past is not
\* yet served.
Waiting ==
    /\ sinceHup \in {0, 1}
    /\ sinceHup = 1 =>
          \/ pc \in {"while", "check_reload"} /\ config_reload_requested
          \/ pc \in {"reload", "stopped"}

\* Between the file being loaded and the detector being reset the detector is
\* of the old configuration; otherwise of the active one, which is the one an
\* iteration has copied.
OfActive ==
    /\ \A a, b \in basis : a = b
    /\ pc = "load_config" => basis = {}
    /\ pc # "reset" => basis \subseteq {active}
    /\ pc \in {"sleep", "sample"} => captured = active

ReloadInv == Waiting /\ OfActive

LEMMA InitReloads == Init => ReloadInv
  BY DEF Init, ReloadInv, Waiting, OfActive

LEMMA StepReloads == ReloadInv /\ [Next]_vars => ReloadInv'
<1> SUFFICES ASSUME ReloadInv, [Next]_vars PROVE ReloadInv'
  OBVIOUS
<1> USE DEF ReloadInv, Waiting, OfActive, flags, loop, history
<1>1. CASE Start
  BY <1>1 DEF Start
<1>2. CASE CheckShutdown
  BY <1>2 DEF CheckShutdown
<1>3. CASE CheckReload(TRUE)
  BY <1>3 DEF CheckReload
<1>4. CASE LoadFile
  BY <1>4 DEF LoadFile
<1>5. CASE Reset(InitialState, FALSE)
  BY <1>5 DEF Reset
<1>6. CASE Capture
  BY <1>6 DEF Capture
<1>7. CASE Wake
  BY <1>7 DEF Wake
<1>8. ASSUME NEW collected \in Collected, Sample(collected) PROVE ReloadInv'
  BY <1>8 DEF Sample, AfterSample
<1>9. CASE SampleBeyondBound
  BY <1>9 DEF SampleBeyondBound
<1>10. CASE Terminate
  BY <1>10 DEF Terminate
<1>11. CASE Hup
  BY <1>11 DEF Hup
<1>12. ASSUME NEW settings \in Settings, Edit(settings) PROVE ReloadInv'
  BY <1>12 DEF Edit
<1>13. CASE UNCHANGED vars
  BY <1>13 DEF vars
<1> QED
  BY <1>1, <1>2, <1>3, <1>4, <1>5, <1>6, <1>7, <1>8, <1>9, <1>10, <1>11, <1>12, <1>13
  DEF Next, Step, Reload, Stopped

LEMMA ReloadInvHolds == Spec => []ReloadInv
  BY InitReloads, StepReloads, PTL DEF Spec

\* At most one sample is taken after a SIGHUP with the configuration that was
\* active before it (spktrace.c:266-305), wherever in the loop it arrives.
THEOREM ReloadsArePrompt == Spec => []ReloadIsPrompt
<1>1. ReloadInv => ReloadIsPrompt
  BY DEF ReloadInv, Waiting, ReloadIsPrompt
<1> QED BY <1>1, ReloadInvHolds, PTL

\* What the detector judges by was built under one configuration, the one it
\* judges under (spktrace.c:268-289).
THEOREM DetectorsAreOfOneConfig == Spec => []DetectorOfOneConfig
<1>1. ReloadInv => DetectorOfOneConfig
  BY DEF ReloadInv, OfActive, DetectorOfOneConfig
<1> QED BY <1>1, ReloadInvHolds, PTL

-------------------------------------------------------------------------------
(* Dumps.                                                                   *)

LEMMA LeastOf ==
    ASSUME NEW S, S \subseteq Nat, S # {}
    PROVE  \E i \in S : \A j \in S : i <= j
<1>1. PICK i \in S : \A j \in S : <<j, i>> \notin OpToRel(<, Nat)
  BY NatLessThanWellFounded, WFMin, Zenon
<1>2. \A j \in S : ~(j < i)
  BY <1>1 DEF OpToRel
<1> QED BY <1>2, SMT

\* However the hot snapshots lie, some number of the newest are hot and the
\* next is not.
LEMMA StreakExists ==
    ASSUME NEW n \in Nat, NEW hot
    PROVE  \E k \in 0..n : (\A i \in 1..k : i \in hot) /\ (k < n => k + 1 \notin hot)
<1> DEFINE S == {k \in 0..n : k = n \/ k + 1 \notin hot}
<1>1. n \in S /\ S \subseteq Nat
  OBVIOUS
<1>2. PICK k \in S : \A j \in S : k <= j
  BY <1>1, LeastOf, Zenon
<1>3. \A i \in 1..k : i \in hot
  <2> SUFFICES ASSUME NEW i \in 1..k PROVE i \in hot
    OBVIOUS
  <2>1. i - 1 \in 0..n /\ i - 1 # n /\ ~(k <= i - 1)
    BY <1>2
  <2>2. i - 1 \notin S
    BY <1>2, <2>1
  <2> QED BY <2>1, <2>2
<1> QED BY <1>2, <1>3

LEMMA OriginFromStreak ==
    ASSUME NEW ring, Len(ring) \in Nat, NEW result, NEW cfg
    PROVE  LET o == OriginFrom(ring, result, cfg)
           IN  o \in -1..(Len(ring) - 1) /\ \A j \in 1..(o + 1) : BurnsIn(ring[j], result, cfg)
<1> DEFINE hot == {i \in 1..Len(ring) : BurnsIn(ring[i], result, cfg)}
           Fits(k) == /\ k \in 0..Len(ring)
                      /\ \A i \in 1..k : BurnsIn(ring[i], result, cfg)
                      /\ k < Len(ring) => ~BurnsIn(ring[k + 1], result, cfg)
           first == CHOOSE k \in 0..Len(ring) : Fits(k)
<1>1. \E k \in 0..Len(ring) : (\A i \in 1..k : i \in hot) /\ (k < Len(ring) => k + 1 \notin hot)
  BY StreakExists
<1>2. \E k \in 0..Len(ring) : Fits(k)
  BY <1>1, SMT
<1>3. Fits(first)
  BY <1>2, Zenon
<1>4. OriginFrom(ring, result, cfg) = first - 1
  BY DEF OriginFrom, IsStreak
<1> HIDE DEF first
<1>5. first \in 0..Len(ring) /\ \A i \in 1..first : BurnsIn(ring[i], result, cfg)
  BY <1>3, Zenon
<1>6. first - 1 \in -1..(Len(ring) - 1) /\ first - 1 + 1 = first
  BY <1>5, SMT
<1> QED BY <1>4, <1>5, <1>6, Zenon

OriginFits(d) ==
    /\ ContextSize(d.config) <= MaxWritten => d.origin \in 0..(Len(d.window) - 1)
    /\ d.origin > 0 =>
          \A j \in 1..Smaller(d.origin + 1, Len(d.window)) :
              BurnsIn(d.window[j], d.result, d.config)

LEMMA WindowIsNewest ==
    ASSUME NEW ring, Len(ring) \in Nat \ {0}, NEW n \in Nat \ {0}
    PROVE  /\ Len(Newest(ring, n)) = Smaller(n, Len(ring))
           /\ Len(Newest(ring, n)) \in 1..Len(ring)
           /\ \A j \in 1..Len(Newest(ring, n)) : Newest(ring, n)[j] = ring[j]
<1>1. Smaller(n, Len(ring)) \in 1..Len(ring)
  BY DEF Smaller
<1>2. Len(Newest(ring, n)) = Smaller(n, Len(ring))
  BY <1>1 DEF Newest
<1> QED BY <1>1, <1>2 DEF Newest

LEMMA DumpFits ==
    ASSUME NEW ring, Len(ring) \in Nat \ {0}, NEW result, NEW cfg \in Settings
    PROVE  LET d == DumpOf(ring, result, cfg)
           IN  /\ OriginFits(d)
               /\ d.result = result /\ d.config = cfg
               /\ Len(d.window) \in Nat \ {0} /\ d.window[1] = ring[1]
<1> DEFINE n == ContextSize(cfg)
           c == Newest(ring, n)
           w == Newest(c, MaxWritten)
           o == OriginFrom(ring, result, cfg)
           d == DumpOf(ring, result, cfg)
<1>1. n \in Nat \ {0}
  BY CapacityAssumption, SettingsAssumption DEF ContextSize, Smaller
<1>2. /\ Len(c) = Smaller(n, Len(ring)) /\ Len(c) \in 1..Len(ring)
      /\ \A j \in 1..Len(c) : c[j] = ring[j]
  BY <1>1, WindowIsNewest
<1>3. /\ Len(w) = Smaller(MaxWritten, Len(c)) /\ Len(w) \in 1..Len(c)
      /\ \A j \in 1..Len(w) : w[j] = c[j]
  <2>1. Len(c) \in Nat \ {0}
    BY <1>2
  <2> HIDE DEF c
  <2> QED BY <2>1, WrittenAssumption, WindowIsNewest
<1>4. o \in -1..(Len(ring) - 1) /\ \A j \in 1..(o + 1) : BurnsIn(ring[j], result, cfg)
  BY OriginFromStreak
<1>5. o \in Int
  BY <1>4
<1>6. d = [result |-> result, config |-> cfg, window |-> w,
           origin |-> IF o >= 0 /\ o < Len(c) THEN o ELSE 0]
  BY DEF DumpOf, Origin
<1> DEFINE at == IF o >= 0 /\ o < Len(c) THEN o ELSE 0
<1> HIDE DEF n, c, w, o, d
<1>7. d.result = result /\ d.config = cfg /\ d.window = w /\ d.origin = at
  BY <1>6
<1>8. at \in 0..(Len(c) - 1) /\ (at > 0 => at = o)
  BY <1>2, <1>5
<1>9. n <= MaxWritten => Len(w) = Len(c)
  <2>1. Len(ring) \in Nat /\ Len(c) \in Nat /\ Len(w) \in Nat /\ MaxWritten \in Nat
    BY <1>2, <1>3, WrittenAssumption
  <2> QED BY <1>1, <1>2, <1>3, <2>1 DEF Smaller
<1>10. n <= MaxWritten => at \in 0..(Len(w) - 1)
  BY <1>8, <1>9
<1>11. at > 0 => \A j \in 1..Smaller(at + 1, Len(w)) : BurnsIn(w[j], result, cfg)
  <2> SUFFICES ASSUME at > 0, NEW j \in 1..Smaller(at + 1, Len(w))
               PROVE  BurnsIn(w[j], result, cfg)
    OBVIOUS
  <2>1. j \in 1..(o + 1) /\ j \in 1..Len(w) /\ j \in 1..Len(c)
    <3>1. at \in Nat /\ Len(w) \in Nat /\ Len(c) \in Nat /\ Len(w) <= Len(c) /\ at = o
      BY <1>2, <1>3, <1>8
    <3> HIDE DEF at
    <3> QED BY <3>1, <1>5 DEF Smaller
  <2> HIDE DEF at
  <2>2. w[j] = ring[j]
    BY <1>2, <1>3, <2>1
  <2>3. BurnsIn(ring[j], result, cfg)
    BY <1>4, <2>1
  <2> QED BY <2>2, <2>3
<1>12. n = ContextSize(cfg)
  BY DEF n
<1>13. OriginFits(d)
  <2> HIDE DEF at
  <2> QED BY <1>7, <1>10, <1>11, <1>12 DEF OriginFits
<1>14. Len(w) \in Nat \ {0} /\ w[1] = ring[1]
  BY <1>2, <1>3
<1> QED BY <1>7, <1>13, <1>14 DEF d

\* Every dump there has been fits, and the ring is a list.
DumpInv ==
    /\ Len(recent) \in Nat
    /\ Len(dump) \in {0, 1} /\ \A i \in 1..Len(dump) : OriginFits(dump[i])
    /\ {file, active, captured} \subseteq Settings

LEMMA RememberGrows ==
    ASSUME NEW list, Len(list) \in Nat, NEW s
    PROVE  Len(Remember(list, s)) \in Nat \ {0} /\ Remember(list, s)[1] = s
<1>1. Smaller(Len(list) + 1, Capacity) \in Nat \ {0}
  BY CapacityAssumption DEF Smaller
<1>2. Len(Remember(list, s)) = Smaller(Len(list) + 1, Capacity)
  BY <1>1 DEF Remember
<1> QED BY <1>1, <1>2 DEF Remember

\* What the step that takes a sample does to the ring and the dump.
LEMMA SampleDumps ==
    ASSUME DumpInv, ReloadInv, NEW collected \in Collected, Sample(collected)
    PROVE  /\ DumpInv'
           /\ dump' # dump =>
                 /\ dump'[1].result.type \in Enabled(active)
                 /\ dump'[1].window # << >> /\ dump'[1].window[1].at = now'
<1> DEFINE snapshot == SnapshotOf(collected, now + 1)
           ring == Remember(recent, snapshot)
           e == Evaluated(collected)
           d == DumpOf(ring, e.result, captured)
<1>1. Len(ring) \in Nat \ {0} /\ ring[1] = snapshot
  BY RememberGrows DEF DumpInv
<1>2. snapshot.at = now + 1
  BY DEF SnapshotOf
<1>3. captured \in Settings /\ captured = active
  BY DEF DumpInv, ReloadInv, OfActive, Sample
<1>4. /\ recent' = ring /\ now' = now + 1
      /\ dump' = IF e.result.type \in Enabled(captured) THEN <<d>> ELSE dump
      /\ UNCHANGED <<file, active, captured>>
  BY DEF Sample, Process, AfterSample
<1>5. /\ OriginFits(d) /\ d.result = e.result
      /\ Len(d.window) \in Nat \ {0} /\ d.window[1] = ring[1]
  BY <1>1, <1>3, DumpFits
<1> HIDE DEF snapshot, ring, e, d
<1>6. CASE dump' = dump
  BY <1>1, <1>4, <1>6 DEF DumpInv, OriginFits
<1>7. CASE dump' # dump
  <2>1. dump' = <<d>> /\ e.result.type \in Enabled(active)
    BY <1>3, <1>4, <1>7
  <2>2. Len(dump') = 1 /\ dump'[1] = d
    BY <2>1
  <2>3. d.window # << >>
    BY <1>5
  <2>4. DumpInv'
    <3>1. \A i \in 1..Len(dump') : OriginFits(dump'[i])
      BY <1>5, <2>2
    <3> QED BY <1>1, <1>4, <2>2, <3>1 DEF DumpInv, OriginFits
  <2> QED BY <1>1, <1>2, <1>4, <1>5, <2>1, <2>2, <2>3, <2>4
<1> QED BY <1>6, <1>7

LEMMA InitDumps == Init => DumpInv
  BY DEF Init, DumpInv

LEMMA StepDumps ==
    ASSUME DumpInv, ReloadInv, [Next]_vars
    PROVE  /\ DumpInv'
           /\ dump' # dump =>
                 /\ dump'[1].result.type \in Enabled(active)
                 /\ dump'[1].window # << >> /\ dump'[1].window[1].at = now'
<1> DEFINE Kept == UNCHANGED <<recent, dump>> /\ {file, active, captured}' \subseteq Settings
<1>1. Kept => DumpInv' /\ dump' = dump
  BY DEF DumpInv, OriginFits
<1>2. CASE \E collected \in Collected : Sample(collected)
  BY <1>2, SampleDumps
<1>3. CASE ~\E collected \in Collected : Sample(collected)
  <2>1. CASE Start \/ CheckShutdown \/ Capture \/ Wake
    BY <1>1, <2>1 DEF DumpInv, Start, CheckShutdown, Capture, Wake, loop
  <2>2. CASE CheckReload(TRUE) \/ LoadFile \/ Reset(InitialState, FALSE)
    BY <1>1, <2>2 DEF DumpInv, CheckReload, LoadFile, Reset, loop
  <2>3. CASE SampleBeyondBound \/ Terminate \/ Hup \/ UNCHANGED vars
    BY <1>1, <2>3 DEF DumpInv, SampleBeyondBound, Terminate, Hup, loop, vars
  <2>4. ASSUME NEW settings \in Settings, Edit(settings) PROVE Kept
    BY <2>4 DEF DumpInv, Edit, loop
  <2> QED BY <1>1, <1>3, <2>1, <2>2, <2>3, <2>4 DEF Next, Step, Reload, Stopped
<1> QED BY <1>2, <1>3

LEMMA DumpInvHolds == Spec => [](DumpInv /\ ReloadInv)
<1>1. Init => DumpInv /\ ReloadInv
  BY InitReloads, InitDumps
<1>2. DumpInv /\ ReloadInv /\ [Next]_vars => (DumpInv /\ ReloadInv)'
  BY StepReloads, StepDumps
<1> QED BY <1>1, <1>2, PTL DEF Spec

\* Every snapshot written from the named origin to the newest shows the process
\* burning, however the search ran past the context, and the origin is one of
\* those written when the context is (ringbuf.c:111-140, spktrace.c:398-418,
\* spike_dump.c:814-817).
THEOREM OriginsAreStreaks == Spec => []OriginIsStreak
<1>1. DumpInv => OriginIsStreak
  BY DEF DumpInv, OriginFits, OriginIsStreak
<1> QED BY <1>1, DumpInvHolds, PTL

\* A dump is written only by the sample that found the anomaly, of a type that
\* the settings in force enable, with that sample as its newest snapshot
\* (spktrace.c:307-425).
THEOREM EveryDumpIsAskedFor == Spec => DumpsAreAskedFor
<1>1. DumpInv /\ ReloadInv /\ [Next]_vars
      => [dump' # dump => LET d == dump'[1]
                          IN  /\ d.result.type \in Enabled(active)
                              /\ d.window # << >> /\ d.window[1].at = now']_vars
  BY StepDumps
<1> QED BY <1>1, DumpInvHolds, PTL DEF Spec, DumpsAreAskedFor
==============================================================================
