--------------------------- MODULE ConfigFileProofs ---------------------------
(***************************************************************************)
(* Theorems about ConfigFile, for any files, any directories and any sizes *)
(* of the unsigned types.  config_validate makes valid settings of whatever*)
(* it is given, so the daemon always runs with valid ones; and what is     *)
(* valid it leaves alone.  The lemmas follow config_validate in its order: *)
(* numbers, cross-checks, directory, detections.                           *)
(*                                                                         *)
(* Then the reading itself: every setting keeps its type, and in a file    *)
(* written line by line it is what the last key for it says, by the second *)
(* lexeme after the equals sign.                                           *)
(***************************************************************************)
EXTENDS ConfigFile, WellFoundedInduction, TLAPS

LEMMA LargestThreshold == MaxThresholdKib \in Nat /\ MaxThresholdKib > 512 * 1024
<1>1. MaxThresholdMib \in Nat /\ MaxThresholdMib > 512
  BY SMT DEF MaxThresholdMib
<1> QED BY <1>1, SMT DEF MaxThresholdKib

LEMMA LargestCount == MaxTotalMib \in Nat /\ MaxTotalMib > 10000
  BY SMT DEF MaxTotalMib

LEMMA DefaultsAllowed == \A s \in Numbers : DefaultNumber(s) \in Allowed(s)
<1> DEFINE Fits(s) == DefaultNumber(s) \in Allowed(s)
<1>1. Fits("cpu_delta_threshold_pct") BY SMT DEF DefaultNumber, Allowed, Sizes
<1>2. Fits("new_process_threshold_pct") BY SMT DEF DefaultNumber, Allowed, Sizes
<1>3. Fits("mem_pressure_threshold_pct") BY SMT DEF DefaultNumber, Allowed, Sizes
<1>4. Fits("cooldown_seconds") BY SMT DEF DefaultNumber, Allowed, Sizes
<1>5. Fits("sampling_interval_seconds") BY SMT DEF DefaultNumber, Allowed, Sizes
<1>6. Fits("memory_baseline_alpha") BY SMT DEF DefaultNumber, Allowed, Sizes
<1>7. Fits("process_baseline_alpha") BY SMT DEF DefaultNumber, Allowed, Sizes
<1>8. Fits("mem_drop_threshold_kib") BY LargestThreshold, SMT DEF DefaultNumber, Allowed, Sizes
<1>9. Fits("swap_spike_threshold_kib") BY LargestThreshold, SMT DEF DefaultNumber, Allowed, Sizes
<1>10. Fits("ring_buffer_capacity") BY SMT DEF DefaultNumber, Allowed, Sizes
<1>11. Fits("context_snapshots_per_dump") BY SMT DEF DefaultNumber, Allowed, Sizes
<1>12. Fits("max_processes_tracked") BY SMT DEF DefaultNumber, Allowed, Sizes
<1>13. Fits("top_processes_stored") BY SMT DEF DefaultNumber, Allowed, Sizes
<1>14. Fits("log_max_age_days") BY SMT DEF DefaultNumber, Allowed, Sizes
<1>15. Fits("log_max_count") BY SMT DEF DefaultNumber, Allowed, Sizes
<1>16. Fits("log_max_total_size_mib") BY LargestCount, SMT DEF DefaultNumber, Allowed, Sizes
<1>17. Fits("cleanup_interval_minutes") BY SMT DEF DefaultNumber, Allowed, Sizes
<1> HIDE DEF Fits
<1>20. \A s \in Numbers : Fits(s)
  BY <1>1, <1>2, <1>3, <1>4, <1>5, <1>6, <1>7, <1>8, <1>9, <1>10, <1>11, <1>12, <1>13, <1>14, <1>15, <1>16, <1>17
     DEF Numbers, Doubles, Sizes, Counts
<1> QED BY <1>20 DEF Fits

(* Validation                                                               *)

IsConfig(c) == c = [s \in SettingNames |-> c[s]]
InRange(c) == \A s \in Numbers : c[s] \in Allowed(s)

LEMMA RepairedFits ==
    ASSUME NEW c
    PROVE  IsConfig(Repaired(c)) /\ InRange(Repaired(c))
<1>1. \A s \in Numbers : s \in SettingNames /\ Default(s) \in Allowed(s)
  BY DefaultsAllowed, Zenon DEF SettingNames, Default
<1>2. InRange(Repaired(c))
  BY <1>1, Zenon DEF InRange, Repaired
<1>3. IsConfig(Repaired(c))
  BY Zenon DEF IsConfig, Repaired
<1> QED BY <1>2, <1>3

Lesser(x, y) == IF x > y THEN y ELSE x

LEMMA AtMostLimits ==
    ASSUME NEW c, IsConfig(c), NEW s \in SettingNames, NEW limit \in SettingNames,
           s # limit, c[s] \in Int, c[limit] \in Int
    PROVE  LET d == AtMost(c, s, limit)
           IN  /\ IsConfig(d)
               /\ d[s] = Lesser(c[s], c[limit])
               /\ d[s] <= d[limit]
               /\ \A t \in SettingNames \ {s} : d[t] = c[t]
<1> DEFINE d == AtMost(c, s, limit)
<1>1. CASE c[s] > c[limit]
  <2>1. d = [c EXCEPT ![s] = c[limit]]
    BY <1>1 DEF AtMost
  <2>2. DOMAIN c = SettingNames
    BY DEF IsConfig
  <2>3. IsConfig(d)
    BY <2>1, <2>2 DEF IsConfig
  <2>4. d[s] = c[limit] /\ \A t \in SettingNames \ {s} : d[t] = c[t]
    BY <2>1, <2>2
  <2> QED BY <1>1, <2>3, <2>4 DEF Lesser
<1>2. CASE ~(c[s] > c[limit])
  <2>1. d = c
    BY <1>2 DEF AtMost
  <2> QED BY <1>2, <2>1 DEF Lesser
<1> QED BY <1>1, <1>2

\* The larger setting of each cross-check can only cap the smaller one within
\* the range of the smaller: its least value is no less than 10.
LEMMA CapsFit ==
    ASSUME NEW s, NEW limit,
           \/ s = "context_snapshots_per_dump" /\ limit = "ring_buffer_capacity"
           \/ s = "top_processes_stored" /\ limit = "max_processes_tracked",
           NEW x \in Allowed(s), NEW y \in Allowed(limit)
    PROVE  x \in Int /\ y \in Int /\ Lesser(x, y) \in Allowed(s)
<1>1. CASE s = "context_snapshots_per_dump" /\ limit = "ring_buffer_capacity"
  <2>1. Allowed(limit) = 10..600 /\ Allowed(s) = 1..60
    BY <1>1, SMT DEF Allowed, Sizes
  <2>2. x \in 1..60 /\ y \in 10..600
    BY <2>1, SMT
  <2>3. x \in Int /\ y \in Int /\ Lesser(x, y) \in 1..60
    BY <2>2, SMT DEF Lesser
  <2> QED BY <2>1, <2>3, SMT
<1>2. CASE s = "top_processes_stored" /\ limit = "max_processes_tracked"
  <2>1. Allowed(limit) = 10..1024 /\ Allowed(s) = 1..50
    BY <1>2, SMT DEF Allowed, Sizes
  <2>2. x \in 1..50 /\ y \in 10..1024
    BY <2>1, SMT
  <2>3. x \in Int /\ y \in Int /\ Lesser(x, y) \in 1..50
    BY <2>2, SMT DEF Lesser
  <2> QED BY <2>1, <2>3, SMT
<1> QED BY <1>1, <1>2

\* One cross-check leaves every number in its range and settles its pair.
LEMMA CapKeeps ==
    ASSUME NEW c, IsConfig(c), InRange(c), NEW s \in Numbers, NEW limit \in Numbers,
           \/ s = "context_snapshots_per_dump" /\ limit = "ring_buffer_capacity"
           \/ s = "top_processes_stored" /\ limit = "max_processes_tracked"
    PROVE  LET d == AtMost(c, s, limit)
           IN  /\ IsConfig(d) /\ InRange(d) /\ d[s] <= d[limit]
               /\ \A t \in SettingNames \ {s} : d[t] = c[t]
<1> DEFINE d == AtMost(c, s, limit)
<1>1. c[s] \in Allowed(s) /\ c[limit] \in Allowed(limit)
  BY Zenon DEF InRange
<1>2. c[s] \in Int /\ c[limit] \in Int /\ Lesser(c[s], c[limit]) \in Allowed(s)
  BY <1>1, CapsFit, Zenon
<1>3. s \in SettingNames /\ limit \in SettingNames /\ s # limit
  BY SMT DEF SettingNames
<1>4. /\ IsConfig(d) /\ d[s] = Lesser(c[s], c[limit]) /\ d[s] <= d[limit]
      /\ \A t \in SettingNames \ {s} : d[t] = c[t]
  BY <1>2, <1>3, AtMostLimits, Zenon
<1> HIDE DEF d
<1>5. InRange(d)
  <2> SUFFICES ASSUME NEW t \in Numbers PROVE d[t] \in Allowed(t)
    BY DEF InRange
  <2>1. CASE t = s
    BY <2>1, <1>2, <1>4, Zenon
  <2>2. CASE t # s
    <3>1. t \in SettingNames \ {s}
      BY <2>2, Zenon DEF SettingNames
    <3> QED BY <3>1, <1>4, Zenon DEF InRange
  <2> QED BY <2>1, <2>2
<1> QED BY <1>4, <1>5 DEF d

Agrees(c) ==
    /\ c["context_snapshots_per_dump"] <= c["ring_buffer_capacity"]
    /\ c["top_processes_stored"] <= c["max_processes_tracked"]

LEMMA CappedAgrees ==
    ASSUME NEW c
    PROVE  LET d == Capped(c) IN IsConfig(d) /\ InRange(d) /\ Agrees(d)
<1> DEFINE ctx == "context_snapshots_per_dump"
           ring == "ring_buffer_capacity"
           top == "top_processes_stored"
           most == "max_processes_tracked"
           r == Repaired(c)
           d == AtMost(r, ctx, ring)
           e == AtMost(d, top, most)
<1>1. ctx \in Numbers /\ ring \in Numbers /\ top \in Numbers /\ most \in Numbers
  BY Zenon DEF Numbers, Counts
<1>2. {ctx, ring} \subseteq SettingNames \ {top}
  BY <1>1, SMT DEF SettingNames
<1>3. IsConfig(r) /\ InRange(r)
  BY RepairedFits
<1> HIDE DEF r
<1>4. IsConfig(d) /\ InRange(d) /\ d[ctx] <= d[ring]
  BY <1>1, <1>3, CapKeeps, Zenon
<1> HIDE DEF d
<1>5. /\ IsConfig(e) /\ InRange(e) /\ e[top] <= e[most]
      /\ \A t \in SettingNames \ {top} : e[t] = d[t]
  BY <1>1, <1>4, CapKeeps, Zenon
<1> HIDE DEF e
<1>6. Agrees(e)
  BY <1>2, <1>4, <1>5, Zenon DEF Agrees
<1>7. Capped(c) = e
  BY DEF Capped, r, d, e
<1> QED BY <1>5, <1>6, <1>7

Safe(c) == c["output_directory"] = "" \/ is_safe_absolute_path(c["output_directory"])
Detects(c) == \E d \in Detections : c[d] = TRUE

LEMMA NamesApart ==
    /\ "output_directory" \in SettingNames \ (Numbers \union Detections)
    /\ Numbers \subseteq SettingNames \ Detections
    /\ Detections \subseteq SettingNames
    /\ {"context_snapshots_per_dump", "ring_buffer_capacity",
        "top_processes_stored", "max_processes_tracked"} \subseteq Numbers
<1>1. "output_directory" \notin Numbers \union Detections
  BY SMT DEF Numbers, Doubles, Sizes, Counts, Detections
<1>2. \A d \in Detections : d \notin Numbers
  BY SMT DEF Numbers, Doubles, Sizes, Counts, Detections
<1>3. /\ "output_directory" \in SettingNames /\ Numbers \subseteq SettingNames
      /\ Detections \subseteq SettingNames
  BY Zenon DEF SettingNames, Toggles, Texts
<1>4. {"context_snapshots_per_dump", "ring_buffer_capacity",
       "top_processes_stored", "max_processes_tracked"} \subseteq Numbers
  BY Zenon DEF Numbers, Counts
<1> QED BY <1>1, <1>2, <1>3, <1>4, Zenon

\* Two configurations with the same numbers are in range, and agree, together.
LEMMA NumbersDecide ==
    ASSUME NEW c, NEW d, \A s \in Numbers : d[s] = c[s], InRange(c), Agrees(c)
    PROVE  InRange(d) /\ Agrees(d)
<1>1. InRange(d)
  BY Zenon DEF InRange
<1>2. Agrees(d)
  BY NamesApart, Zenon DEF Agrees
<1> QED BY <1>1, <1>2

LEMMA HousedIsSafe ==
    ASSUME NEW c, IsConfig(c)
    PROVE  LET d == Housed(c)
           IN  IsConfig(d) /\ Safe(d) /\ \A s \in Numbers \union Detections : d[s] = c[s]
<1> DEFINE d == Housed(c)
<1>1. CASE Safe(c)
  BY <1>1, Zenon DEF Safe, Housed
<1>2. CASE ~Safe(c)
  <2>1. d = [c EXCEPT !.output_directory = DefaultDirectory]
    BY <1>2, Zenon DEF Safe, Housed
  <2>2. DOMAIN c = SettingNames /\ "output_directory" \in SettingNames
    BY NamesApart, Zenon DEF IsConfig
  <2>3. IsConfig(d)
    BY <2>1, <2>2 DEF IsConfig
  <2>4. d["output_directory"] = DefaultDirectory
    BY <2>1, <2>2
  <2>5. Safe(d)
    BY <2>4, DirectoryAssumption DEF Safe, is_safe_absolute_path
  <2>6. \A s \in Numbers \union Detections : d[s] = c[s]
    BY <2>1, <2>2, NamesApart
  <2> QED BY <2>3, <2>5, <2>6
<1> QED BY <1>1, <1>2

LEMMA DetectingDetects ==
    ASSUME NEW c, IsConfig(c)
    PROVE  LET d == Detecting(c)
           IN  IsConfig(d) /\ Detects(d) /\ \A s \in SettingNames \ Detections : d[s] = c[s]
<1> DEFINE d == Detecting(c)
<1>1. CASE Detects(c)
  BY <1>1, Zenon DEF Detects, Detecting
<1>2. CASE ~Detects(c)
  <2>1. d = [s \in SettingNames |-> IF s \in Detections THEN TRUE ELSE c[s]]
    BY <1>2, Zenon DEF Detects, Detecting
  <2>2. IsConfig(d) /\ \A s \in SettingNames \ Detections : d[s] = c[s]
    BY <2>1, Zenon DEF IsConfig
  <2>3. "enable_cpu_detection" \in Detections
    BY Zenon DEF Detections
  <2>4. Detects(d)
    BY <2>1, <2>3, NamesApart, Zenon DEF Detects
  <2> QED BY <2>2, <2>4
<1> QED BY <1>1, <1>2

LEMMA ValidParts ==
    ASSUME NEW c
    PROVE  Valid(c) <=> InRange(c) /\ Agrees(c) /\ Safe(c) /\ Detects(c)
  BY Zenon DEF Valid, InRange, Agrees, Safe, Detects

\* config_validate (config.c:827-1067) makes valid settings of any values at
\* all, in whatever way they came about.
THEOREM ValidationRepairs ==
    ASSUME NEW c
    PROVE  Valid(config_validate(c))
<1> DEFINE k == Capped(c)
           h == Housed(k)
           d == Detecting(h)
<1>1. IsConfig(k) /\ InRange(k) /\ Agrees(k)
  BY CappedAgrees
<1> HIDE DEF k
<1>2. IsConfig(h) /\ Safe(h) /\ \A s \in Numbers \union Detections : h[s] = k[s]
  BY <1>1, HousedIsSafe
<1> HIDE DEF h
<1>3. IsConfig(d) /\ Detects(d) /\ \A s \in SettingNames \ Detections : d[s] = h[s]
  BY <1>2, DetectingDetects
<1> HIDE DEF d
<1>4. Safe(d)
  BY <1>2, <1>3, NamesApart, Zenon DEF Safe
<1>5. \A s \in Numbers : d[s] = k[s]
  BY <1>2, <1>3, NamesApart, Zenon
<1>6. InRange(d) /\ Agrees(d)
  BY <1>1, <1>5, NumbersDecide, Zenon
<1>7. config_validate(c) = d
  BY DEF config_validate, k, h, d
<1> QED BY <1>3, <1>4, <1>6, <1>7, ValidParts

\* It changes nothing of settings that are valid: a repair is never a surprise
\* to who wrote a valid file, and validating twice is validating once.
THEOREM ValidationKeeps ==
    ASSUME NEW c, IsConfig(c), Valid(c)
    PROVE  config_validate(c) = c
<1>1. InRange(c) /\ Agrees(c) /\ Safe(c) /\ Detects(c)
  BY ValidParts
<1>2. Repaired(c) = c
  <2>1. Repaired(c) = [s \in SettingNames |-> c[s]]
    BY <1>1, Zenon DEF Repaired, InRange
  <2> QED BY <2>1 DEF IsConfig
<1>3. {"context_snapshots_per_dump", "ring_buffer_capacity",
       "top_processes_stored", "max_processes_tracked"} \subseteq Numbers
  BY NamesApart
<1>4. Capped(c) = c
  <2>1. /\ c["context_snapshots_per_dump"] \in Int /\ c["ring_buffer_capacity"] \in Int
        /\ c["top_processes_stored"] \in Int /\ c["max_processes_tracked"] \in Int
    BY <1>1, <1>3, CapsFit, Zenon DEF InRange
  <2>2. AtMost(c, "context_snapshots_per_dump", "ring_buffer_capacity") = c
    BY <1>1, <2>1, SMT DEF AtMost, Agrees
  <2>3. AtMost(c, "top_processes_stored", "max_processes_tracked") = c
    BY <1>1, <2>1, SMT DEF AtMost, Agrees
  <2> QED BY <1>2, <2>2, <2>3 DEF Capped
<1>5. Housed(c) = c
  BY <1>1, Zenon DEF Housed, Safe
<1>6. Detecting(c) = c
  BY <1>1, Zenon DEF Detecting, Detects
<1> QED BY <1>4, <1>5, <1>6 DEF config_validate

-------------------------------------------------------------------------------
(* The running configuration                                                *)

LEMMA DefaultsAreValid == Valid(Defaults)
<1>1. \A s \in SettingNames : Defaults[s] = Default(s)
  BY DEF Defaults
<1>2. InRange(Defaults)
  BY <1>1, DefaultsAllowed, NamesApart, Zenon DEF InRange, Default
<1>3. Agrees(Defaults)
  <2>1. /\ DefaultNumber("context_snapshots_per_dump") = 10
        /\ DefaultNumber("ring_buffer_capacity") = 60
        /\ DefaultNumber("top_processes_stored") = 10
        /\ DefaultNumber("max_processes_tracked") = 512
    BY SMT DEF DefaultNumber
  <2>2. \A s \in Numbers : Defaults[s] = DefaultNumber(s)
    BY <1>1, NamesApart, Zenon DEF Default
  <2>3. /\ Defaults["context_snapshots_per_dump"] = DefaultNumber("context_snapshots_per_dump")
        /\ Defaults["ring_buffer_capacity"] = DefaultNumber("ring_buffer_capacity")
        /\ Defaults["top_processes_stored"] = DefaultNumber("top_processes_stored")
        /\ Defaults["max_processes_tracked"] = DefaultNumber("max_processes_tracked")
    BY <2>2, NamesApart, Zenon
  <2> QED BY <2>1, <2>3, SMT DEF Agrees
<1>4. Safe(Defaults)
  <2>1. "output_directory" \notin Numbers \union Toggles
    BY SMT DEF Numbers, Doubles, Sizes, Counts, Toggles, Detections
  <2>2. Default("output_directory") = DefaultText("output_directory")
    BY <2>1, Zenon DEF Default
  <2>3. DefaultText("output_directory") = DefaultDirectory
    BY SMT DEF DefaultText
  <2>4. Defaults["output_directory"] = DefaultDirectory
    BY <1>1, <2>2, <2>3, NamesApart, Zenon
  <2> QED BY <2>4, DirectoryAssumption DEF Safe, is_safe_absolute_path
<1>5. Detects(Defaults)
  <2>1. "enable_cpu_detection" \in Detections
    BY Zenon DEF Detections
  <2>2. Default("enable_cpu_detection") = ("enable_cpu_detection" \in Detections)
    BY <2>1, NamesApart, Zenon DEF Default, Toggles
  <2> QED BY <1>1, <2>1, <2>2, NamesApart, Zenon DEF Detects
<1> QED BY <1>2, <1>3, <1>4, <1>5, ValidParts

\* Whatever files there are at start and at each reload, the daemon runs with
\* valid settings (spktrace.c:81-107, 152-156).
THEOREM ActiveAlwaysValid == Spec => []ActiveIsValid
<1>1. Init => ActiveIsValid
  BY DefaultsAreValid DEF Init, ActiveIsValid
<1>2. ActiveIsValid /\ [Next]_vars => ActiveIsValid'
  <2> SUFFICES ASSUME ActiveIsValid, [Next]_vars
               PROVE  ActiveIsValid'
    OBVIOUS
  <2>1. CASE Adopt
    <3>1. active' = config_validate(config)
      BY <2>1 DEF Adopt
    <3>2. Valid(active')
      BY <3>1, ValidationRepairs
    <3> QED BY <3>2 DEF ActiveIsValid, Valid
  <2>2. CASE ~Adopt
    <3>1. active' = active
      BY <2>2 DEF Next, Step, LoadAny, Load, First, Header, HeaderWord, HeaderEnd, Key, Equals,
         Value, Assign, Other, Parsed, OpenDirectories, running, vars
    <3> QED BY <3>1 DEF ActiveIsValid, Valid
  <2> QED BY <2>1, <2>2
<1> QED BY <1>1, <1>2, PTL DEF Spec

\* The log manager never deletes outside the directory dumps are written to:
\* both are opened once, from the same settings (spktrace.c:199-233).
THEOREM CleanupStays == Spec => []CleanupWhereWritten
<1>1. Init => CleanupWhereWritten
  BY DEF Init, CleanupWhereWritten
<1>2. CleanupWhereWritten /\ [Next]_vars => CleanupWhereWritten'
  <2> SUFFICES ASSUME CleanupWhereWritten, [Next]_vars
               PROVE  CleanupWhereWritten'
    OBVIOUS
  <2>1. CASE OpenDirectories
    BY <2>1 DEF OpenDirectories, DumpTarget, CleanupWhereWritten
  <2>2. CASE ~OpenDirectories
    <3>1. dump_dir' = dump_dir /\ log_dir' = log_dir
      BY <2>2 DEF Next, Step, LoadAny, Load, First, Header, HeaderWord, HeaderEnd, Key, Equals,
         Value, Assign, Other, Parsed, Adopt, running, vars
    <3> QED BY <3>1 DEF CleanupWhereWritten
  <2> QED BY <2>1, <2>2
<1> QED BY <1>1, <1>2, PTL DEF Spec

-------------------------------------------------------------------------------
(* Types                                                                    *)

\* A set of numbers that is not empty has a least one.
LEMMA LeastOf ==
    ASSUME NEW S, S \subseteq Nat, S # {}
    PROVE  \E i \in S : \A j \in S : i <= j
<1>1. PICK i \in S : \A j \in S : <<j, i>> \notin OpToRel(<, Nat)
  BY NatLessThanWellFounded, WFMin, Zenon
<1>2. \A j \in S : ~(j < i)
  BY <1>1 DEF OpToRel
<1> QED BY <1>2, SMT

\* The lexeme that a parser comes to next, past closing brackets.
LEMMA LexemeFound ==
    ASSUME NEW pos, Len(text) \in Nat, pos \in 1..(Len(text) + 1)
    PROVE  /\ NextLexeme(pos) \in pos..(Len(text) + 1)
           /\ \A j \in pos..(NextLexeme(pos) - 1) : text[j].kind = "close"
           /\ NextLexeme(pos) <= Len(text) => text[NextLexeme(pos)].kind # "close"
<1> DEFINE stops == {i \in pos..(Len(text) + 1) : i > Len(text) \/ text[i].kind # "close"}
<1>1. stops \subseteq Nat
  BY SMT
<1>2. Len(text) + 1 \in stops
  BY SMT
<1>3. PICK i \in stops : \A j \in stops : i <= j
  BY <1>1, <1>2, LeastOf, Zenon
<1>4. \A j \in pos..(i - 1) : text[j].kind = "close"
  BY <1>3, SMT
<1>5. i <= Len(text) => text[i].kind # "close"
  BY <1>3, SMT
<1>6. \E k \in pos..(Len(text) + 1) :
        /\ \A j \in pos..(k - 1) : text[j].kind = "close"
        /\ k <= Len(text) => text[k].kind # "close"
  BY <1>3, <1>4, <1>5, Zenon
<1> QED BY <1>6, Zenon DEF NextLexeme

TokenTyped(t) ==
    /\ t.kind = "number" => t.number \in Int
    /\ t.kind = "flag" => t.flag \in BOOLEAN

ParserTyped(p) ==
    /\ p = [pos |-> p.pos, token |-> p.token, key |-> p.key]
    /\ p.pos \in 1..(Len(text) + 1)
    /\ TokenTyped(p.token)

LEMMA NextTokenTyped ==
    ASSUME IsFile(text), ParserTyped(parser)
    PROVE  ParserTyped(NextToken(parser))
<1> DEFINE i == NextLexeme(parser.pos)
           n == NextToken(parser)
<1>1. Len(text) \in Nat /\ i \in 1..(Len(text) + 1)
  <2>1. Len(text) \in Nat /\ parser.pos \in 1..(Len(text) + 1)
    BY DEF IsFile, ParserTyped
  <2>2. i \in parser.pos..(Len(text) + 1)
    BY <2>1, LexemeFound
  <2> QED BY <2>1, <2>2, SMT
<1>2. i <= Len(text) => TokenTyped(text[i])
  BY <1>1, SMT DEF IsFile, TokenTyped
<1>3. CASE i > Len(text)
  <2>1. n = [parser EXCEPT !.pos = i, !.token = [kind |-> "eof"]]
    BY <1>3, Zenon DEF NextToken
  <2>2. n = [pos |-> i, token |-> [kind |-> "eof"], key |-> parser.key]
    BY <2>1 DEF ParserTyped
  <2> QED BY <1>1, <2>2 DEF ParserTyped, TokenTyped
<1>4. CASE ~(i > Len(text)) /\ text[i].kind = "junk"
  <2>1. n = [parser EXCEPT !.pos = i, !.token = [kind |-> "error"]]
    BY <1>4, Zenon DEF NextToken
  <2>2. n = [pos |-> i, token |-> [kind |-> "error"], key |-> parser.key]
    BY <2>1 DEF ParserTyped
  <2> QED BY <1>1, <2>2 DEF ParserTyped, TokenTyped
<1>5. CASE ~(i > Len(text)) /\ text[i].kind = "word"
  <2>1. "word" # "junk"
    OBVIOUS
  <2>2. n = WordAt(parser, i)
    BY <1>5, <2>1, Zenon DEF NextToken
  <2>3. n.token.kind \in {"key", "string"} /\ n.pos = i + 1
        /\ n = [pos |-> n.pos, token |-> n.token, key |-> n.key]
    BY <2>2 DEF WordAt
  <2>4. i + 1 \in 1..(Len(text) + 1)
    BY <1>1, <1>5, SMT
  <2> QED BY <2>3, <2>4 DEF ParserTyped, TokenTyped
<1>6. CASE ~(i > Len(text)) /\ text[i].kind \notin {"junk", "word"}
  <2>1. n = [parser EXCEPT !.pos = i + 1, !.token = text[i]]
    BY <1>6, Zenon DEF NextToken
  <2>2. n = [pos |-> i + 1, token |-> text[i], key |-> parser.key]
    BY <2>1 DEF ParserTyped
  <2>3. i + 1 \in 1..(Len(text) + 1) /\ i <= Len(text)
    BY <1>1, <1>6, SMT
  <2> QED BY <1>2, <2>2, <2>3 DEF ParserTyped
<1> QED BY <1>3, <1>4, <1>5, <1>6

\* A value of the type of a setting.
Fits(s, v) ==
    /\ s \in Counts => v \in 0..(UInt32 - 1)
    /\ s \in Sizes => v \in 0..(UInt64 - 1)
    /\ s \in Doubles => v \in Int
    /\ s \in Toggles => v \in BOOLEAN
    /\ s = "trigger_scope" => v \in Scopes
    /\ s = "cleanup_policy" => v \in Policies

ConfigTyped(c) == IsConfig(c) /\ \A s \in SettingNames : Fits(s, c[s])

LEMMA CastIsWhole ==
    ASSUME NEW n \in Int, NEW size \in Nat
    PROVE  Cast(n, size) \subseteq Int
<1>1. Whole(n) \in Int
  BY SMT DEF Whole
<1> QED BY <1>1, SMT DEF Cast

LEMMA ConvertedFits ==
    ASSUME NEW s \in Numbers, NEW n \in Int, NEW v \in Converted(s, n)
    PROVE  Fits(s, v)
<1>1. UInt32 \in Nat \ {0} /\ UInt64 \in Nat \ {0}
  BY WidthAssumption, LargestThreshold, LargestCount, SMT
<1>2. s \notin Toggles /\ s # "trigger_scope" /\ s # "cleanup_policy"
  BY SMT DEF Numbers, Doubles, Sizes, Counts, Toggles, Detections
<1>3. CASE s \in Doubles
  <2>1. s \notin Counts /\ s \notin Sizes
    BY <1>3, SMT DEF Doubles, Sizes, Counts
  <2>2. Converted(s, n) = {n}
    BY <1>3, <2>1, SMT DEF Converted
  <2> QED BY <1>2, <2>1, <2>2 DEF Fits
<1>4. CASE s \in Counts
  <2>1. s \notin Doubles /\ s \notin Sizes
    BY <1>4, SMT DEF Doubles, Sizes, Counts
  <2>2. Converted(s, n) = {w % UInt32 : w \in Cast(n, UInt32)}
    BY <1>4, <2>1, SMT DEF Converted
  <2>3. PICK w \in Int : v = w % UInt32
    BY <1>1, <2>2, CastIsWhole
  <2>4. v \in 0..(UInt32 - 1)
    BY <1>1, <2>3, SMT
  <2> QED BY <1>2, <2>1, <2>4, Zenon DEF Fits
<1>5. CASE s \in Sizes
  <2>1. s \notin Doubles /\ s \notin Counts
    BY <1>5, SMT DEF Doubles, Sizes, Counts
  <2>2. Converted(s, n) = {(w * 1024) % UInt64 : w \in Cast(n, UInt64)}
    BY <1>5, <2>1, SMT DEF Converted
  <2>3. PICK w \in Int : v = (w * 1024) % UInt64
    BY <1>1, <2>2, CastIsWhole
  <2>4. v \in 0..(UInt64 - 1)
    BY <1>1, <2>3, SMT
  <2> QED BY <1>2, <2>1, <2>4, Zenon DEF Fits
<1> QED BY <1>3, <1>4, <1>5 DEF Numbers

LEMMA ValueFits ==
    ASSUME NEW s \in SettingNames, NEW token, TokenTyped(token), NEW v \in Values(s, token)
    PROVE  Fits(s, v)
<1>1. /\ Numbers \intersect Toggles = {} /\ Numbers \intersect Texts = {}
      /\ Toggles \intersect Texts = {}
  BY SMT DEF Numbers, Doubles, Sizes, Counts, Toggles, Detections, Texts
<1>2. CASE s \in Numbers
  <2>1. s \notin Toggles /\ s # "output_directory" /\ s # "trigger_scope"
        /\ s # "cleanup_policy"
    BY <1>1, <1>2, Zenon DEF Texts
  <2>2. token.kind = "number" /\ v \in Converted(s, token.number)
    BY <1>2, <2>1, SMT DEF Values
  <2>3. token.number \in Int
    BY <2>2 DEF TokenTyped
  <2> QED BY <1>2, <2>2, <2>3, ConvertedFits, Zenon
<1>3. CASE s \in Toggles
  <2>1. s \notin Numbers /\ s # "output_directory" /\ s # "trigger_scope"
        /\ s # "cleanup_policy"
    BY <1>1, <1>3, Zenon DEF Texts
  <2>2. token.kind = "flag" /\ v = token.flag
    BY <1>3, <2>1, SMT DEF Values
  <2>3. token.flag \in BOOLEAN
    BY <2>2 DEF TokenTyped
  <2>4. v \in BOOLEAN
    BY <2>2, <2>3, Zenon
  <2> QED BY <2>1, <2>4, Zenon DEF Fits, Numbers
<1>4. CASE s \in Texts
  <2>1. s \notin Numbers /\ s \notin Toggles
    BY <1>1, <1>4, Zenon
  <2>2. s = "trigger_scope" => v \in Scopes
    BY <2>1, SMT DEF Values
  <2>3. s = "cleanup_policy" => v \in Policies
    BY <2>1, SMT DEF Values, Policies
  <2> QED BY <2>1, <2>2, <2>3, Zenon DEF Fits, Numbers
<1> QED BY <1>2, <1>3, <1>4, Zenon DEF SettingNames

LEMMA ApplyTyped ==
    ASSUME NEW c, ConfigTyped(c), NEW words, NEW k, NEW token, TokenTyped(token),
           NEW d \in Apply(c, words, k, token)
    PROVE  ConfigTyped(d)
<1>1. CASE d = c
  BY <1>1
<1>2. CASE d # c
  <2>0. PICK s \in Named(words, k) : \E v \in Values(s, token) : d = [c EXCEPT ![s] = v]
    <3> DEFINE set == UNION {{[c EXCEPT ![s] = v] : v \in Values(s, token)} :
                                s \in Named(words, k)}
    <3>1. Apply(c, words, k, token) = IF set = {} THEN {c} ELSE set
      BY DEF Apply
    <3>2. d \in set
      BY <1>2, <3>1
    <3> QED BY <3>2
  <2>1. PICK v \in Values(s, token) : d = [c EXCEPT ![s] = v]
    BY <2>0
  <2>2. DOMAIN c = SettingNames
    BY DEF ConfigTyped, IsConfig
  <2>3. s \in SettingNames
    BY <1>2, <2>1, <2>2 DEF ConfigTyped, IsConfig
  <2>4. Fits(s, v)
    BY <2>1, <2>3, ValueFits, Zenon
  <2>5. IsConfig(d)
    BY <2>1, <2>2 DEF IsConfig
  <2>6. d[s] = v /\ \A t \in SettingNames \ {s} : d[t] = c[t]
    BY <2>1, <2>2, <2>3
  <2> QED BY <2>4, <2>5, <2>6, Zenon DEF ConfigTyped
<1> QED BY <1>1, <1>2

\* The ranges are narrower than the types.
LEMMA DoublesNarrow == \A s \in Doubles : Allowed(s) \subseteq Int
<1> DEFINE Integral(s) == Allowed(s) \subseteq Int
<1>1. Integral("cpu_delta_threshold_pct") BY SMT DEF Allowed, Sizes
<1>2. Integral("new_process_threshold_pct") BY SMT DEF Allowed, Sizes
<1>3. Integral("mem_pressure_threshold_pct") BY SMT DEF Allowed, Sizes
<1>4. Integral("cooldown_seconds") BY SMT DEF Allowed, Sizes
<1>5. Integral("sampling_interval_seconds") BY SMT DEF Allowed, Sizes
<1>6. Integral("memory_baseline_alpha") BY SMT DEF Allowed, Sizes
<1>7. Integral("process_baseline_alpha") BY SMT DEF Allowed, Sizes
<1> HIDE DEF Integral
<1>8. \A s \in Doubles : Integral(s)
  BY <1>1, <1>2, <1>3, <1>4, <1>5, <1>6, <1>7, Zenon DEF Doubles
<1> QED BY <1>8 DEF Integral

LEMMA SizesNarrow == \A s \in Sizes : Allowed(s) = 1024..MaxThresholdKib
<1>1. Allowed("mem_drop_threshold_kib") = 1024..MaxThresholdKib
  BY SMT DEF Allowed, Sizes
<1>2. Allowed("swap_spike_threshold_kib") = 1024..MaxThresholdKib
  BY SMT DEF Allowed, Sizes
<1> QED BY <1>1, <1>2 DEF Sizes

LEMMA CountsNarrow ==
    \A s \in Counts : \A v \in Allowed(s) : v \in Nat /\ v <= MaxTotalMib
<1> DEFINE Small(s) == \A v \in Allowed(s) : v \in Nat /\ v <= MaxTotalMib
<1>1. Small("ring_buffer_capacity")
  <2>1. Allowed("ring_buffer_capacity") = 10..600 BY SMT DEF Allowed, Sizes
  <2> QED BY <2>1, LargestCount, SMT
<1>2. Small("context_snapshots_per_dump")
  <2>1. Allowed("context_snapshots_per_dump") = 1..60 BY SMT DEF Allowed, Sizes
  <2> QED BY <2>1, LargestCount, SMT
<1>3. Small("max_processes_tracked")
  <2>1. Allowed("max_processes_tracked") = 10..1024 BY SMT DEF Allowed, Sizes
  <2> QED BY <2>1, LargestCount, SMT
<1>4. Small("top_processes_stored")
  <2>1. Allowed("top_processes_stored") = 1..50 BY SMT DEF Allowed, Sizes
  <2> QED BY <2>1, LargestCount, SMT
<1>5. Small("log_max_age_days")
  <2>1. Allowed("log_max_age_days") = 1..365 BY SMT DEF Allowed, Sizes
  <2> QED BY <2>1, LargestCount, SMT
<1>6. Small("log_max_count")
  <2> DEFINE most == 10000
  <2>1. Allowed("log_max_count") = 1..most BY SMT DEF Allowed, Sizes
  <2>2. most \in Nat /\ most < MaxTotalMib BY LargestCount, SMT
  <2> HIDE DEF most
  <2> QED BY <2>1, <2>2, LargestCount, SMT
<1>7. Small("log_max_total_size_mib")
  <2>1. Allowed("log_max_total_size_mib") = 1..MaxTotalMib BY SMT DEF Allowed, Sizes
  <2> QED BY <2>1, LargestCount, SMT
<1>8. Small("cleanup_interval_minutes")
  <2>1. Allowed("cleanup_interval_minutes") = 1..1440 BY SMT DEF Allowed, Sizes
  <2> QED BY <2>1, LargestCount, SMT
<1> HIDE DEF Small
<1>9. \A s \in Counts : Small(s)
  BY <1>1, <1>2, <1>3, <1>4, <1>5, <1>6, <1>7, <1>8, Zenon DEF Counts
<1> QED BY <1>9 DEF Small

\* What is in range is of its type.
LEMMA RangeFits ==
    ASSUME NEW s \in Numbers, NEW v \in Allowed(s)
    PROVE  Fits(s, v)
<1>1. s \notin Toggles /\ s # "trigger_scope" /\ s # "cleanup_policy"
  BY SMT DEF Numbers, Doubles, Sizes, Counts, Toggles, Detections
<1>2. s \in Doubles => v \in Int
  BY DoublesNarrow
<1>3. s \in Sizes => v \in 0..(UInt64 - 1)
  <2>1. MaxThresholdKib \in Nat /\ MaxThresholdKib < UInt64 /\ UInt64 \in Nat
    BY WidthAssumption, LargestThreshold, SMT
  <2>2. s \in Sizes => v \in 1024..MaxThresholdKib
    BY SizesNarrow
  <2> QED BY <2>1, <2>2, SMT
<1>4. s \in Counts => v \in 0..(UInt32 - 1)
  <2>1. UInt32 \in Nat /\ UInt32 > MaxTotalMib /\ MaxTotalMib \in Nat
    BY WidthAssumption, LargestCount, SMT
  <2>2. s \in Counts => v \in Nat /\ v <= MaxTotalMib
    BY CountsNarrow
  <2> QED BY <2>1, <2>2, SMT
<1> QED BY <1>1, <1>2, <1>3, <1>4, Zenon DEF Fits

\* Validation leaves the settings that are no numbers with a value they had,
\* or with one of their type.
LEMMA ValidateTyped ==
    ASSUME NEW c, ConfigTyped(c)
    PROVE  ConfigTyped(config_validate(c))
<1> DEFINE r == Repaired(c)
           d == AtMost(r, "context_snapshots_per_dump", "ring_buffer_capacity")
           k == AtMost(d, "top_processes_stored", "max_processes_tracked")
           h == Housed(k)
           e == Detecting(h)
<1>1. IsConfig(r) /\ InRange(r)
  BY RepairedFits
<1>2. \A t \in SettingNames \ Numbers : r[t] = c[t]
  BY Zenon DEF Repaired
<1> HIDE DEF r
<1>3. IsConfig(d) /\ InRange(d) /\ \A t \in SettingNames \ Numbers : d[t] = r[t]
  <2>1. /\ IsConfig(d) /\ InRange(d)
        /\ \A t \in SettingNames \ {"context_snapshots_per_dump"} : d[t] = r[t]
    <3>1. /\ "context_snapshots_per_dump" \in Numbers
          /\ "ring_buffer_capacity" \in Numbers
      BY NamesApart, Zenon
    <3> QED BY <1>1, <3>1, CapKeeps, Zenon
  <2> QED BY <2>1, NamesApart, Zenon
<1> HIDE DEF d
<1>4. IsConfig(k) /\ \A t \in SettingNames \ Numbers : k[t] = d[t]
  <2>1. /\ IsConfig(k)
        /\ \A t \in SettingNames \ {"top_processes_stored"} : k[t] = d[t]
    <3>1. /\ "top_processes_stored" \in Numbers
          /\ "max_processes_tracked" \in Numbers
      BY NamesApart, Zenon
    <3> QED BY <1>3, <3>1, CapKeeps, Zenon
  <2> QED BY <2>1, NamesApart, Zenon
<1> HIDE DEF k
<1>5. IsConfig(h) /\ \A t \in SettingNames \ {"output_directory"} : h[t] = k[t]
  BY <1>4, NamesApart DEF IsConfig, Housed
<1> HIDE DEF h
<1>6. IsConfig(e) /\ \A t \in SettingNames \ Detections : e[t] = h[t]
  BY <1>5, DetectingDetects
<1>7. \A t \in Detections : e[t] = TRUE \/ e[t] = h[t]
  BY <1>5, NamesApart, Zenon DEF Detecting
<1> HIDE DEF e
<1>8. config_validate(c) = e
  BY DEF config_validate, Capped, r, d, k, h, e
<1>9. \A s \in Numbers : e[s] \in Allowed(s)
  BY <1>8, ValidationRepairs, ValidParts, Zenon DEF InRange
<1>10. ASSUME NEW s \in SettingNames PROVE Fits(s, e[s])
  <2>1. CASE s \in Numbers
    BY <1>9, <2>1, RangeFits, Zenon
  <2>2. CASE s = "output_directory"
    <3>1. /\ s \notin Counts /\ s \notin Sizes /\ s \notin Doubles /\ s \notin Toggles
          /\ s # "trigger_scope" /\ s # "cleanup_policy"
      BY <2>2, SMT DEF Doubles, Sizes, Counts, Toggles, Detections
    <3> QED BY <3>1, Zenon DEF Fits
  <2>3. CASE s \notin Numbers /\ s # "output_directory"
    <3>1. h[s] = c[s] /\ Fits(s, c[s])
      BY <1>2, <1>3, <1>4, <1>5, <2>3, Zenon DEF ConfigTyped
    <3>2. CASE s \notin Detections
      BY <1>6, <3>1, <3>2, Zenon
    <3>3. CASE s \in Detections
      <4>1. e[s] = TRUE \/ e[s] = c[s]
        BY <1>7, <3>1, <3>3, Zenon
      <4>2. CASE e[s] = TRUE
        <5>1. s # "trigger_scope" /\ s # "cleanup_policy"
          BY <3>3, SMT DEF Detections
        <5> QED BY <2>3, <4>2, <5>1, Zenon DEF Fits, Numbers
      <4>3. CASE e[s] = c[s]
        BY <3>1, <4>3, Zenon
      <4> QED BY <4>1, <4>2, <4>3
    <3> QED BY <3>2, <3>3
  <2> QED BY <2>1, <2>2, <2>3
<1> QED BY <1>6, <1>8, <1>10 DEF ConfigTyped, IsConfig

LEMMA DefaultsTyped == ConfigTyped(Defaults)
<1>1. ASSUME NEW s \in SettingNames PROVE Fits(s, Default(s))
  <2>1. /\ Numbers \intersect Toggles = {} /\ Numbers \intersect Texts = {}
        /\ Toggles \intersect Texts = {}
    BY SMT DEF Numbers, Doubles, Sizes, Counts, Toggles, Detections, Texts
  <2>2. CASE s \in Numbers
    BY <2>2, DefaultsAllowed, RangeFits, Zenon DEF Default
  <2>3. CASE s \in Toggles
    <3>1. Default(s) = (s \in Detections) /\ s # "trigger_scope" /\ s # "cleanup_policy"
      BY <2>1, <2>3, Zenon DEF Default, Texts
    <3>2. Default(s) \in BOOLEAN
      BY <3>1
    <3> HIDE DEF Default
    <3>3. s \notin Counts /\ s \notin Sizes /\ s \notin Doubles
      BY <2>1, <2>3, Zenon DEF Numbers
    <3> QED BY <3>1, <3>2, <3>3 DEF Fits
  <2>4. CASE s \in Texts
    <3>1. Default(s) = DefaultText(s)
      BY <2>1, <2>4, Zenon DEF Default
    <3>2. s = "trigger_scope" => Default(s) \in Scopes
      BY <3>1, SMT DEF DefaultText, Scopes
    <3>3. s = "cleanup_policy" => Default(s) \in Policies
      BY <3>1, SMT DEF DefaultText, Policies
    <3> QED BY <2>1, <2>4, <3>2, <3>3, Zenon DEF Fits, Numbers
  <2> QED BY <2>2, <2>3, <2>4, Zenon DEF SettingNames
<1>2. \A s \in SettingNames : Defaults[s] = Default(s)
  BY DEF Defaults
<1>3. IsConfig(Defaults)
  BY DEF IsConfig, Defaults
<1> QED BY <1>1, <1>2, <1>3, Zenon DEF ConfigTyped

\* What TypeOK rests on: the text is a file, and the parser stands in it.
TypeInv ==
    /\ TypeOK
    /\ IsConfig(config) /\ IsConfig(active)
    /\ IsFile(text)
    /\ ParserTyped(parser)

LEMMA TypedParts ==
    ASSUME NEW c, ConfigTyped(c)
    PROVE  /\ DOMAIN c = SettingNames
           /\ \A s \in Counts : c[s] \in 0..(UInt32 - 1)
           /\ \A s \in Sizes : c[s] \in 0..(UInt64 - 1)
           /\ \A s \in Doubles : c[s] \in Int
           /\ \A s \in Toggles : c[s] \in BOOLEAN
           /\ c.trigger_scope \in Scopes /\ c.cleanup_policy \in Policies
<1>1. DOMAIN c = SettingNames
  BY DEF ConfigTyped, IsConfig
<1> QED BY <1>1, Zenon DEF ConfigTyped, Fits, SettingNames, Numbers, Texts

LEMMA TypedConfigs ==
    ASSUME TypeOK, NEW c \in {config, active}, IsConfig(c)
    PROVE  ConfigTyped(c)
  BY Zenon DEF TypeOK, ConfigTyped, Fits

LEMMA NoTextIsFile == IsFile(<< >>)
<1>1. Len(<< >>) = 0
  OBVIOUS
<1>2. 1..0 = {}
  BY SMT
<1> QED BY <1>1, <1>2, Zenon DEF IsFile

LEMMA NewParserTyped ==
    ASSUME Len(text) \in Nat, parser = NewParser
    PROVE  ParserTyped(parser)
<1>1. 1 \in 1..(Len(text) + 1)
  BY SMT
<1> QED BY <1>1 DEF ParserTyped, NewParser, TokenTyped

LEMMA InitTyped == Init => TypeInv
<1> SUFFICES ASSUME Init PROVE TypeInv
  OBVIOUS
<1>1. IsFile(text) /\ Len(text) \in Nat
  BY NoTextIsFile DEF Init, IsFile
<1>2. ParserTyped(parser)
  BY <1>1, NewParserTyped DEF Init
<1>3. ConfigTyped(config) /\ ConfigTyped(active)
  BY DefaultsTyped DEF Init
<1>4. TypeOK
  BY <1>3, TypedParts DEF Init, TypeOK
<1> QED BY <1>1, <1>2, <1>3, <1>4 DEF TypeInv, ConfigTyped

LEMMA StepTyped == TypeInv /\ [Next]_vars => TypeInv'
<1> SUFFICES ASSUME TypeInv, [Next]_vars PROVE TypeInv'
  OBVIOUS
<1>1. ConfigTyped(config) /\ ConfigTyped(active)
  BY TypedConfigs DEF TypeInv
<1>2. ParserTyped(NextToken(parser)) /\ TokenTyped(parser.token)
  BY NextTokenTyped DEF TypeInv, ParserTyped
<1> DEFINE advances == parser' = NextToken(parser) /\ text' = text
           resets == parser' = NewParser /\ IsFile(text')
<1> DEFINE Kept == /\ ConfigTyped(config)' /\ ConfigTyped(active)'
                   /\ started' \in BOOLEAN
                   /\ pc' \in {"start", "first", "line", "header", "equal", "value",
                               "apply", "validate", "open", "run"}
                   /\ advances \/ resets \/ UNCHANGED <<text, parser>>
<1>3. Kept
  <2> USE DEF vars, reading, running
  <2>1. /\ started \in BOOLEAN
        /\ pc \in {"start", "first", "line", "header", "equal", "value", "apply",
                   "validate", "open", "run"}
    BY DEF TypeInv, TypeOK
  <2>2. ASSUME NEW file \in StartFiles \union ReloadFiles, Load(file)
        PROVE  Kept
    <3>1. config' = Defaults /\ ConfigTyped(config')
      BY <2>2, DefaultsTyped DEF Load
    <3>2. active' = active /\ started' = started
      BY <2>2 DEF Load
    <3>3. CASE file = Unreadable
      BY <1>1, <2>1, <2>2, <3>1, <3>2, <3>3 DEF Load
    <3>4. CASE file # Unreadable
      <4>1. IsFile(file)
        BY <3>4, FileAssumption
      <4> QED BY <1>1, <2>1, <2>2, <3>1, <3>2, <3>4, <4>1 DEF Load
    <3> QED BY <3>3, <3>4
  <2>3. CASE LoadAny
    BY <2>2, <2>3 DEF LoadAny
  <2>4. CASE First
    BY <1>1, <2>1, <2>4 DEF First
  <2>5. CASE Header
    BY <1>1, <2>1, <2>5 DEF Header
  <2>6. CASE HeaderWord
    BY <1>1, <2>1, <2>6 DEF HeaderWord
  <2>7. CASE HeaderEnd
    BY <1>1, <2>1, <2>7 DEF HeaderEnd
  <2>8. CASE Key
    BY <1>1, <2>1, <2>8 DEF Key
  <2>9. CASE Equals
    BY <1>1, <2>1, <2>9 DEF Equals
  <2>10. CASE Value
    BY <1>1, <2>1, <2>10 DEF Value
  <2>11. CASE Other
    BY <1>1, <2>1, <2>11 DEF Other
  <2>12. CASE Assign
    <3>1. ConfigTyped(config')
      BY <1>1, <1>2, <2>12, ApplyTyped DEF Assign
    <3> QED BY <1>1, <2>1, <2>12, <3>1 DEF Assign
  <2>13. CASE Parsed
    BY <1>1, <2>1, <2>13 DEF Parsed
  <2>14. CASE Adopt
    <3>1. ConfigTyped(config') /\ ConfigTyped(active')
      BY <1>1, <2>14, DefaultsTyped, ValidateTyped DEF Adopt
    <3>2. IsFile(text')
      BY <2>14, NoTextIsFile DEF Adopt
    <3> QED BY <2>1, <2>14, <3>1, <3>2 DEF Adopt
  <2>15. CASE OpenDirectories
    BY <1>1, <2>1, <2>15 DEF OpenDirectories
  <2>16. CASE UNCHANGED vars
    BY <1>1, <2>1, <2>16
  <2> QED BY <2>3, <2>4, <2>5, <2>6, <2>7, <2>8, <2>9, <2>10, <2>11, <2>12, <2>13, <2>14, <2>15, <2>16 DEF Next, Step
<1>4. IsFile(text)'
  BY <1>3 DEF TypeInv, IsFile
<1>5. ParserTyped(parser)'
  <2>1. CASE advances
    BY <1>2, <2>1 DEF ParserTyped
  <2>2. CASE resets
    <3>1. Len(text') \in Nat
      BY <1>4 DEF IsFile
    <3>2. 1 \in 1..(Len(text') + 1)
      BY <3>1, SMT
    <3> QED BY <2>2, <3>2 DEF ParserTyped, NewParser, TokenTyped
  <2>3. CASE UNCHANGED <<text, parser>>
    BY <2>3 DEF TypeInv, ParserTyped
  <2> QED BY <1>3, <2>1, <2>2, <2>3
<1>6. TypeOK'
  <2>1. \A c \in {config', active'} :
          /\ DOMAIN c = SettingNames
          /\ \A s \in Counts : c[s] \in 0..(UInt32 - 1)
          /\ \A s \in Sizes : c[s] \in 0..(UInt64 - 1)
          /\ \A s \in Doubles : c[s] \in Int
          /\ \A s \in Toggles : c[s] \in BOOLEAN
          /\ c.trigger_scope \in Scopes /\ c.cleanup_policy \in Policies
    BY <1>3, TypedParts
  <2> QED BY <1>3, <2>1 DEF TypeOK
<1> QED BY <1>3, <1>4, <1>5, <1>6 DEF TypeInv, ConfigTyped, IsConfig

\* A setting never holds a value its type cannot (config.c:470-587): text of the
\* file is only stored after its token's kind was looked at, and a number only
\* by a conversion to the type of the field.
THEOREM SettingsTyped == Spec => []TypeOK
<1>1. TypeInv => TypeOK
  BY DEF TypeInv
<1> QED BY <1>1, InitTyped, StepTyped, PTL DEF Spec

-------------------------------------------------------------------------------
(* What a file is read as                                                   *)

Latest(S) == CHOOSE k \in S : \A j \in S : j <= k

\* Where a parser is in the text: at the token it has read last, or before
\* what it cannot get past.  Nothing it has passed is junk, and its buffer
\* holds the last short key.
TokenAt(t) ==
    IF text[t].kind = "word"
    THEN [kind |-> IF BeforeEqual(t) THEN "key" ELSE "string", text |-> text[t].text]
    ELSE text[t]

Standing(p, t) ==
    /\ t \in 1..Len(text) /\ text[t].kind \notin {"close", "junk"}
    /\ p.pos = t + 1 /\ p.token = TokenAt(t)

Stopped(p, t) ==
    /\ t \in 1..(Len(text) + 1) /\ (t <= Len(text) => text[t].kind = "junk")
    /\ p.pos = t /\ p.token.kind \in {"eof", "error"}

Passed(p) ==
    /\ p.key = KeyAt(p.pos - 1)
    /\ \A j \in 1..(p.pos - 1) : text[j].kind # "junk"

\* The keys before a place have given the settings their values.
GivenBefore(s, m) == {k \in 1..Len(text) : k < m /\ Given(s, k, k + 3) # {}}

ReadBefore(c, m) ==
    \A s \in SettingNames :
        IF GivenBefore(s, m) = {} THEN c[s] = Default(s)
        ELSE c[s] \in Given(s, Latest(GivenBefore(s, m)), Latest(GivenBefore(s, m)) + 3)

LEMMA LatestIs ==
    ASSUME NEW S, S \subseteq Int, NEW k \in S, \A j \in S : j <= k
    PROVE  Latest(S) = k
<1>1. Latest(S) \in S /\ \A j \in S : j <= Latest(S)
  BY Zenon DEF Latest
<1>2. k <= Latest(S) /\ Latest(S) <= k /\ k \in Int /\ Latest(S) \in Int
  BY <1>1
<1> QED BY <1>2, SMT

\* The headers and the short keys up to a place; the latest count.
Opens(k) == {j \in 1..(k - 1) : text[j].kind = "open"}
Shorts(k) == {j \in 1..k : IsKey(j) /\ ~text[j].long}

LEMMA LatestCount ==
    ASSUME NEW k
    PROVE  /\ SectionAt(k) = IF Opens(k) = {} THEN << >>
                             ELSE <<text[Latest(Opens(k)) + 1].text>>
           /\ KeyAt(k) = IF Shorts(k) = {} THEN "" ELSE text[Latest(Shorts(k))].text
  BY Zenon DEF SectionAt, KeyAt, Opens, Shorts, Latest

\* The buffer after one more lexeme.
LEMMA KeyAtKey ==
    ASSUME Len(text) \in Nat, NEW t \in 1..Len(text), IsKey(t), ~text[t].long
    PROVE  KeyAt(t) = text[t].text
<1>1. t \in Shorts(t) /\ Shorts(t) \subseteq Int /\ \A j \in Shorts(t) : j <= t
  BY SMT DEF Shorts
<1>2. Latest(Shorts(t)) = t
  BY <1>1, LatestIs
<1> QED BY <1>1, <1>2, LatestCount

LEMMA KeyAtSame ==
    ASSUME NEW a \in Nat, NEW b \in Nat, a <= b,
           \A j \in (a + 1)..b : ~(IsKey(j) /\ ~text[j].long)
    PROVE  KeyAt(a) = KeyAt(b)
<1>1. Shorts(a) = Shorts(b)
  <2>1. \A j \in 1..b : IsKey(j) /\ ~text[j].long => j \in 1..a
    BY SMT
  <2>2. 1..a \subseteq 1..b
    BY SMT
  <2> QED BY <2>1, <2>2, Zenon DEF Shorts
<1> QED BY <1>1, LatestCount, Zenon

LEMMA SectionSame ==
    ASSUME NEW a \in Nat, NEW b \in Nat, a <= b, \A j \in a..(b - 1) : text[j].kind # "open"
    PROVE  SectionAt(a) = SectionAt(b)
<1>1. Opens(a) = Opens(b)
  <2>1. \A j \in 1..(b - 1) : text[j].kind = "open" => j \in 1..(a - 1)
    BY SMT
  <2>2. 1..(a - 1) \subseteq 1..(b - 1)
    BY SMT
  <2> QED BY <2>1, <2>2, Zenon DEF Opens
<1> QED BY <1>1, LatestCount, Zenon

LEMMA SectionAfter ==
    ASSUME Len(text) \in Nat, NEW j \in 1..Len(text), text[j].kind = "open"
    PROVE  SectionAt(j + 1) = <<text[j + 1].text>>
<1>1. /\ j \in Opens(j + 1) /\ Opens(j + 1) \subseteq Int
      /\ \A i \in Opens(j + 1) : i <= j
  BY SMT DEF Opens
<1>2. Latest(Opens(j + 1)) = j
  BY <1>1, LatestIs
<1> QED BY <1>1, <1>2, LatestCount

LEMMA SectionFirst == SectionAt(1) = << >>
<1>1. Opens(1) = {}
  BY SMT DEF Opens
<1> QED BY <1>1, LatestCount, Zenon

LEMMA GivenIsByKey ==
    ASSUME NEW s, NEW k, NEW v, Given(s, k, v) # {}
    PROVE  IsKey(k) /\ v <= Len(text) /\ \A j \in 1..v : text[j].kind # "junk"
  BY Zenon DEF Given

LEMMA ReadSame ==
    ASSUME Len(text) \in Nat, NEW c, NEW a \in Nat, NEW b \in Nat, a <= b, ReadBefore(c, a),
           \A s \in SettingNames, k \in 1..Len(text) :
               a <= k /\ k < b => Given(s, k, k + 3) = {}
    PROVE  ReadBefore(c, b)
<1>1. ASSUME NEW s \in SettingNames PROVE GivenBefore(s, a) = GivenBefore(s, b)
  <2>1. ASSUME NEW k \in 1..Len(text)
        PROVE  (k < a /\ Given(s, k, k + 3) # {}) <=> (k < b /\ Given(s, k, k + 3) # {})
    <3>1. k \in Int /\ a \in Int /\ b \in Int
      BY SMT
    <3>2. k < a => k < b
      BY <3>1, SMT
    <3>3. k < b /\ ~(k < a) => a <= k
      BY <3>1, SMT
    <3> QED BY <3>2, <3>3, Zenon
  <2> QED BY <2>1, Zenon DEF GivenBefore
<1> QED BY <1>1, Zenon DEF ReadBefore

\* One call of toml_next_token.
LEMMA Advance ==
    ASSUME IsFile(text), ParserTyped(parser), Passed(parser)
    PROVE  LET n == NextToken(parser)
           IN  \E i \in parser.pos..(Len(text) + 1) :
                   /\ \A j \in parser.pos..(i - 1) : text[j].kind = "close"
                   /\ i <= Len(text) => text[i].kind # "close"
                   /\ Standing(n, i) \/ Stopped(n, i)
                   /\ Passed(n)
<1> DEFINE i == NextLexeme(parser.pos)
           n == NextToken(parser)
<1>1. /\ Len(text) \in Nat /\ parser.pos \in 1..(Len(text) + 1)
      /\ parser = [pos |-> parser.pos, token |-> parser.token, key |-> parser.key]
  BY DEF IsFile, ParserTyped
<1>2. /\ i \in parser.pos..(Len(text) + 1)
      /\ \A j \in parser.pos..(i - 1) : text[j].kind = "close"
      /\ i <= Len(text) => text[i].kind # "close"
  BY <1>1, LexemeFound
<1>3. i \in Nat /\ i >= 1 /\ i - 1 \in Nat /\ parser.pos - 1 \in Nat /\ parser.pos - 1 <= i - 1
  BY <1>1, <1>2, SMT
<1>4. \A j \in 1..(i - 1) : text[j].kind # "junk"
  <2>1. \A j \in 1..(i - 1) : j \in 1..(parser.pos - 1) \/ j \in parser.pos..(i - 1)
    BY <1>1, <1>2, SMT
  <2>2. "close" # "junk"
    OBVIOUS
  <2> QED BY <1>2, <2>1, <2>2, Zenon DEF Passed
<1>5. KeyAt(i - 1) = parser.key
  <2>1. \A j \in (parser.pos - 1 + 1)..(i - 1) : text[j].kind = "close"
    BY <1>1, <1>2, SMT
  <2>2. \A j \in (parser.pos - 1 + 1)..(i - 1) : ~(IsKey(j) /\ ~text[j].long)
    BY <2>1 DEF IsKey
  <2>3. KeyAt(parser.pos - 1) = KeyAt(i - 1)
    BY <1>3, <2>2, KeyAtSame
  <2> QED BY <2>3 DEF Passed
<1> HIDE DEF i
<1>6. CASE i > Len(text) \/ text[i].kind = "junk"
  <2>1. \E kind \in {"eof", "error"} :
            n = [parser EXCEPT !.pos = i, !.token = [kind |-> kind]]
    BY <1>6, Zenon DEF NextToken, i
  <2>2. PICK kind \in {"eof", "error"} :
            n = [parser EXCEPT !.pos = i, !.token = [kind |-> kind]]
    BY <2>1
  <2> HIDE DEF n
  <2>3. n.pos = i /\ n.token.kind = kind /\ n.key = parser.key
    BY <1>1, <2>2
  <2>4. i \in 1..(Len(text) + 1) /\ (i <= Len(text) => text[i].kind = "junk")
    BY <1>1, <1>2, <1>6, SMT
  <2>5. Stopped(n, i)
    BY <2>3, <2>4 DEF Stopped
  <2>6. Passed(n)
    BY <1>4, <1>5, <2>3 DEF Passed
  <2> QED BY <1>2, <2>5, <2>6 DEF n
<1>7. CASE ~(i > Len(text)) /\ text[i].kind # "junk"
  <2>1. i \in 1..Len(text) /\ i <= Len(text)
    BY <1>1, <1>2, <1>7, SMT
  <2>2. /\ n.pos = i + 1 /\ n.token = TokenAt(i)
        /\ n.key = IF IsKey(i) /\ ~text[i].long THEN text[i].text ELSE parser.key
    <3>1. CASE text[i].kind = "word"
      <4>1. n = WordAt(parser, i)
        BY <1>7, <3>1, Zenon DEF NextToken, i
      <4> HIDE DEF n
      <4> QED BY <3>1, <4>1 DEF WordAt, TokenAt, IsKey
    <3>2. CASE text[i].kind # "word"
      <4>1. n = [parser EXCEPT !.pos = i + 1, !.token = text[i]]
        BY <1>7, <3>2, Zenon DEF NextToken, i
      <4> HIDE DEF n
      <4>2. n.pos = i + 1 /\ n.token = text[i] /\ n.key = parser.key
        BY <1>1, <4>1
      <4> QED BY <3>2, <4>2 DEF TokenAt, IsKey
    <3> QED BY <3>1, <3>2
  <2> HIDE DEF n
  <2>3. Standing(n, i)
    BY <1>2, <1>7, <2>1, <2>2 DEF Standing
  <2>4. n.key = KeyAt(i)
    <3>1. CASE IsKey(i) /\ ~text[i].long
      BY <1>1, <2>1, <2>2, <3>1, KeyAtKey
    <3>2. CASE ~(IsKey(i) /\ ~text[i].long)
      <4>1. \A j \in (i - 1 + 1)..i : j = i
        BY <1>3, SMT
      <4>2. i - 1 <= i
        BY <1>3, SMT
      <4>3. KeyAt(i - 1) = KeyAt(i)
        BY <1>3, <3>2, <4>1, <4>2, KeyAtSame
      <4> QED BY <1>5, <2>2, <3>2, <4>3
    <3> QED BY <3>1, <3>2
  <2>5. n.pos - 1 = i
    BY <1>3, <2>2, SMT
  <2>6. \A j \in 1..i : text[j].kind # "junk"
    <3>1. \A j \in 1..i : j = i \/ j \in 1..(i - 1)
      BY <1>3, SMT
    <3> QED BY <1>4, <1>7, <3>1
  <2>7. Passed(n)
    BY <2>4, <2>5, <2>6 DEF Passed
  <2> QED BY <1>2, <2>3, <2>7 DEF n
<1> QED BY <1>6, <1>7

\* What a key and a header leave no room for.
LEMMA KeySpan ==
    ASSUME IsFile(text), LineByLine, NEW k \in 1..Len(text), IsKey(k)
    PROVE  /\ k + 1 \in 1..Len(text) /\ text[k + 1].kind = "equal"
           /\ \A i \in k..(k + 3) : i <= Len(text) =>
                  text[i].kind \notin {"open", "close"} /\ (i # k => ~IsKey(i))
<1>1. Len(text) \in Nat /\ k \in Nat /\ text[k].kind = "word"
  BY SMT DEF IsFile, IsKey
<1>2. k < Len(text) /\ text[k + 1].kind = "equal"
  BY Zenon DEF IsKey, BeforeEqual
<1>3. k + 1 \in 1..Len(text)
  BY <1>1, <1>2, SMT
<1>4. ASSUME NEW i \in (k + 1)..(k + 3), i <= Len(text)
      PROVE  ~IsKey(i) /\ text[i].kind # "open" /\ text[i].kind # "close"
  <2>1. ~IsKey(i) /\ text[i].kind # "open"
    BY <1>4, Zenon DEF LineByLine
  <2>2. i \in 1..Len(text)
    BY <1>1, <1>4, SMT
  <2>3. ASSUME text[i].kind = "close" PROVE FALSE
    <3>1. text[i - 2].kind = "open" /\ i > 2
      BY <2>2, <2>3, Zenon DEF LineByLine
    <3>2. i = k + 1 \/ i - 2 = k \/ i - 2 = k + 1
      BY <1>1, SMT
    <3>3. text[k + 1].kind # "close" /\ text[k + 1].kind # "open" /\ text[k].kind # "open"
      BY <1>1, <1>2
    <3> QED BY <2>3, <3>1, <3>2, <3>3, Zenon
  <2> QED BY <2>1, <2>3
<1>5. \A i \in k..(k + 3) : i = k \/ i \in (k + 1)..(k + 3)
  BY <1>1, SMT
<1>6. text[k].kind # "open" /\ text[k].kind # "close"
  BY <1>1
<1> QED BY <1>2, <1>3, <1>4, <1>5, <1>6, Zenon

LEMMA HeaderSpan ==
    ASSUME IsFile(text), LineByLine, NEW j \in 1..Len(text), text[j].kind = "open"
    PROVE  /\ j + 3 <= Len(text)
           /\ text[j + 1].kind = "word" /\ text[j + 2].kind = "close"
           /\ text[j + 3].kind = "newline" /\ ~BeforeEqual(j + 1)
           /\ \A i \in j..(j + 3) : ~IsKey(i) /\ (i # j => text[i].kind # "open")
<1>1. Len(text) \in Nat /\ j \in Nat
  BY SMT DEF IsFile
<1>2. /\ j + 3 <= Len(text)
      /\ text[j + 1].kind = "word" /\ text[j + 2].kind = "close"
      /\ text[j + 3].kind = "newline"
  BY Zenon DEF LineByLine
<1>3. ~BeforeEqual(j + 1)
  <2>1. j + 1 + 1 = j + 2
    BY <1>1, SMT
  <2> QED BY <1>2, <2>1 DEF BeforeEqual
<1>4. ~IsKey(j) /\ ~IsKey(j + 1) /\ ~IsKey(j + 2) /\ ~IsKey(j + 3)
  BY <1>2, <1>3 DEF IsKey
<1>5. text[j + 1].kind # "open" /\ text[j + 2].kind # "open" /\ text[j + 3].kind # "open"
  BY <1>2
<1>6. \A i \in j..(j + 3) : i = j \/ i = j + 1 \/ i = j + 2 \/ i = j + 3
  BY <1>1, SMT
<1> QED BY <1>2, <1>3, <1>4, <1>5, <1>6, Zenon

\* Past lexemes that are neither, the section stays and so does what was read.
LEMMA PassOver ==
    ASSUME IsFile(text), NEW a \in Nat, NEW b \in Nat, a <= b, NEW c, ReadBefore(c, a),
           \A i \in a..(b - 1) : ~IsKey(i)
    PROVE  ReadBefore(c, b)
<1>1. ASSUME NEW s \in SettingNames, NEW k \in 1..Len(text), a <= k, k < b
      PROVE  Given(s, k, k + 3) = {}
  <2>1. k \in a..(b - 1)
    BY <1>1, SMT DEF IsFile
  <2> QED BY <2>1, GivenIsByKey
<1>2. Len(text) \in Nat
  BY DEF IsFile
<1> QED BY <1>1, <1>2, ReadSame

\* The settings of a section have different keys.
LEMMA NamedOnce ==
    ASSUME NEW words, NEW k, NEW s \in Named(words, k), NEW t \in Named(words, k)
    PROVE  s = t
<1> DEFINE ended == {"mem_drop_threshold_mib", "swap_spike_threshold_mib", "scope"}
<1>1. \A name : SettingsOf(name) \intersect ended = {}
  BY SMT DEF SettingsOf, Sizes, Toggles, Detections
<1>2. s \notin ended /\ t \notin ended
  BY <1>1 DEF Named, SectionSettings
<1>3. KeyOf(s) = k /\ KeyOf(t) = k
  BY DEF Named
<1> QED BY <1>2, <1>3, SMT DEF KeyOf

\* What apply_config_value does with a token: the one setting that the key
\* names has a value of the token, if there is one.
LEMMA ApplyReads ==
    ASSUME NEW c, DOMAIN c = SettingNames, NEW words, NEW k, NEW token,
           NEW d \in Apply(c, words, k, token), NEW s \in SettingNames
    PROVE  IF s \in Named(words, k) /\ Values(s, token) # {}
           THEN d[s] \in Values(s, token) ELSE d[s] = c[s]
<1> DEFINE set == UNION {{[c EXCEPT ![t] = v] : v \in Values(t, token)} :
                            t \in Named(words, k)}
<1>1. d \in IF set = {} THEN {c} ELSE set
  BY DEF Apply
<1>2. CASE set = {}
  <2>1. d = c
    BY <1>1, <1>2
  <2>2. ~(s \in Named(words, k) /\ Values(s, token) # {})
    <3> SUFFICES ASSUME s \in Named(words, k), NEW v \in Values(s, token) PROVE FALSE
      OBVIOUS
    <3>1. [c EXCEPT ![s] = v] \in {[c EXCEPT ![s] = w] : w \in Values(s, token)}
      BY Zenon
    <3>2. {[c EXCEPT ![s] = w] : w \in Values(s, token)} \in
              {{[c EXCEPT ![t] = w] : w \in Values(t, token)} : t \in Named(words, k)}
      BY Zenon
    <3>3. set # {}
      BY <3>1, <3>2
    <3> QED BY <1>2, <3>3
  <2> QED BY <2>1, <2>2
<1>3. CASE set # {}
  <2>1. PICK t \in Named(words, k) : \E v \in Values(t, token) : d = [c EXCEPT ![t] = v]
    BY <1>1, <1>3
  <2>2. PICK v \in Values(t, token) : d = [c EXCEPT ![t] = v]
    BY <2>1
  <2>3. CASE s = t
    BY <2>2, <2>3
  <2>4. CASE s # t
    <3>1. s \notin Named(words, k)
      BY <2>4, NamedOnce
    <3>2. d[s] = c[s]
      BY <2>2, <2>4
    <3> QED BY <3>1, <3>2
  <2> QED BY <2>3, <2>4
<1> QED BY <1>2, <1>3

LEMMA NothingApplied ==
    ASSUME NEW c, NEW words, NEW k, NEW token, token.kind \in {"eof", "error"},
           NEW d \in Apply(c, words, k, token)
    PROVE  d = c
<1>1. \A s : Values(s, token) = {}
  BY SMT DEF Values
<1> DEFINE set == UNION {{[c EXCEPT ![t] = v] : v \in Values(t, token)} :
                            t \in Named(words, k)}
<1>2. set = {}
  BY <1>1
<1>3. d \in IF set = {} THEN {c} ELSE set
  BY DEF Apply
<1> QED BY <1>2, <1>3

\* The value that the parser has before it is the one the rule names.
LEMMA ValueRead ==
    ASSUME NEW k, IsKey(k), NEW v, v <= Len(text), ~IsKey(v),
           \A j \in 1..v : text[j].kind # "junk", NEW s
    PROVE  Given(s, k, v) = IF s \in Named(SectionAt(k), KeyAt(k))
                            THEN Values(s, TokenAt(v)) ELSE {}
<1>1. TokenAt(v) = IF text[v].kind = "word" THEN [kind |-> "string", text |-> text[v].text]
                   ELSE text[v]
  BY Zenon DEF TokenAt, IsKey
<1> QED BY <1>1, Zenon DEF Given

LEMMA AssignReads ==
    ASSUME IsFile(text), LineByLine, NEW k \in 1..Len(text), IsKey(k),
           k + 3 \in 1..Len(text), \A j \in 1..(k + 3) : text[j].kind # "junk",
           NEW c, DOMAIN c = SettingNames, ReadBefore(c, k),
           NEW d \in Apply(c, SectionAt(k), KeyAt(k), TokenAt(k + 3))
    PROVE  ReadBefore(d, k + 1)
<1>1. Len(text) \in Nat /\ k \in Nat
  BY SMT DEF IsFile
<1>2. ~IsKey(k + 3)
  <2>1. k + 3 \in k..(k + 3) /\ k + 3 <= Len(text) /\ k + 3 # k
    BY <1>1, SMT
  <2> QED BY <2>1, KeySpan
<1>3. SUFFICES ASSUME NEW s \in SettingNames
               PROVE  IF GivenBefore(s, k + 1) = {} THEN d[s] = Default(s)
                      ELSE d[s] \in Given(s, Latest(GivenBefore(s, k + 1)),
                                          Latest(GivenBefore(s, k + 1)) + 3)
  BY Zenon DEF ReadBefore
<1>4. IF Given(s, k, k + 3) # {} THEN d[s] \in Given(s, k, k + 3) ELSE d[s] = c[s]
  <2>1. IF s \in Named(SectionAt(k), KeyAt(k)) /\ Values(s, TokenAt(k + 3)) # {}
        THEN d[s] \in Values(s, TokenAt(k + 3)) ELSE d[s] = c[s]
    BY ApplyReads
  <2>2. k + 3 <= Len(text)
    BY SMT
  <2>3. Given(s, k, k + 3) = IF s \in Named(SectionAt(k), KeyAt(k))
                             THEN Values(s, TokenAt(k + 3)) ELSE {}
    BY <1>2, <2>2, ValueRead
  <2> QED BY <2>1, <2>3
<1>5. \A i \in 1..Len(text) : i < k + 1 <=> i < k \/ i = k
  BY <1>1, SMT
<1>6. CASE Given(s, k, k + 3) = {}
  <2>1. GivenBefore(s, k + 1) = GivenBefore(s, k)
    BY <1>5, <1>6, Zenon DEF GivenBefore
  <2> QED BY <1>4, <1>6, <2>1, Zenon DEF ReadBefore
<1>7. CASE Given(s, k, k + 3) # {}
  <2>1. k \in GivenBefore(s, k + 1)
    BY <1>5, <1>7, Zenon DEF GivenBefore
  <2>2. GivenBefore(s, k + 1) \subseteq Int /\ \A j \in GivenBefore(s, k + 1) : j <= k
    BY <1>1, SMT DEF GivenBefore
  <2>3. Latest(GivenBefore(s, k + 1)) = k
    BY <2>1, <2>2, LatestIs
  <2> QED BY <1>4, <1>7, <2>1, <2>3, Zenon
<1> QED BY <1>6, <1>7

-------------------------------------------------------------------------------
(* Where the parser is, and what the keys before that have given            *)

StandsOrStops(p, t) == Standing(p, t) \/ Stopped(p, t)

AtLine(p, words, c) ==
    \E t \in 1..(Len(text) + 1) :
        StandsOrStops(p, t) /\ words = SectionAt(t) /\ ReadBefore(c, t)

InHeader(p, words, c) ==
    \E j \in 1..Len(text) :
        /\ text[j].kind = "open" /\ ReadBefore(c, j)
        /\ \/ Standing(p, j + 1) /\ words = << >>
           \/ Standing(p, j + 3) /\ words = <<text[j + 1].text>>

AtKey(p, words, name, c, places) ==
    \E k \in 1..Len(text) :
        /\ IsKey(k) /\ words = SectionAt(k) /\ name = KeyAt(k) /\ ReadBefore(c, k)
        /\ \/ "equal" \in places /\ Standing(p, k + 1)
           \/ "value" \in places /\ StandsOrStops(p, k + 2)
           \/ "apply" \in places /\ (StandsOrStops(p, k + 3) \/ Stopped(p, k + 2))

Course(q, p, words, name, c) ==
    /\ q \in {"first", "line", "header", "equal", "value", "apply"} => Passed(p)
    /\ q = "first" => p.pos = 1 /\ words = << >> /\ c = Defaults
    /\ q = "line" => AtLine(p, words, c)
    /\ q = "header" => InHeader(p, words, c)
    /\ q \in {"equal", "value", "apply"} => AtKey(p, words, name, c, {q})
    /\ q = "validate" => ReadBefore(c, Len(text) + 1)

\* What holds of the parser at every place of a load.
Loading ==
    /\ IsFile(text) /\ ParserTyped(parser) /\ LineByLine
    /\ DOMAIN config = SettingNames
    /\ Course(pc, parser, section, key, config)

\* No token has the kind that stands for an error or the end.
LEMMA StandingKinds ==
    ASSUME IsFile(text), NEW p, NEW t, Standing(p, t)
    PROVE  /\ p.token.kind \notin {"eof", "error"}
           /\ p.token.kind = "open" <=> text[t].kind = "open"
           /\ p.token.kind = "key" <=> IsKey(t)
           /\ p.token.kind = "string" <=> text[t].kind = "word" /\ ~BeforeEqual(t)
<1>1. text[t].kind \in Kinds /\ t \in 1..Len(text)
  BY DEF IsFile, Standing
<1>2. p.token = TokenAt(t)
  BY DEF Standing
<1>3. CASE text[t].kind = "word"
  <2>1. p.token.kind = IF BeforeEqual(t) THEN "key" ELSE "string"
    BY <1>2, <1>3 DEF TokenAt
  <2> QED BY <1>3, <2>1 DEF IsKey
<1>4. CASE text[t].kind # "word"
  <2>1. p.token.kind = text[t].kind
    BY <1>2, <1>4 DEF TokenAt
  <2> QED BY <1>1, <1>4, <2>1 DEF IsKey, Kinds
<1> QED BY <1>3, <1>4

\* One token further from a place, and from where it cannot get on.
LEMMA AdvanceFrom ==
    ASSUME IsFile(text), ParserTyped(parser), Passed(parser), NEW t, Standing(parser, t)
    PROVE  LET n == NextToken(parser)
           IN  /\ Passed(n)
               /\ \E i \in (t + 1)..(Len(text) + 1) :
                      /\ StandsOrStops(n, i)
                      /\ \A j \in (t + 1)..(i - 1) : text[j].kind = "close"
                      /\ i <= Len(text) => text[i].kind # "close"
  BY Advance, Zenon DEF Standing, StandsOrStops

LEMMA AdvanceTo ==
    ASSUME IsFile(text), ParserTyped(parser), Passed(parser), NEW t, Standing(parser, t),
           t + 1 <= Len(text) => text[t + 1].kind # "close"
    PROVE  Passed(NextToken(parser)) /\ StandsOrStops(NextToken(parser), t + 1)
<1> DEFINE n == NextToken(parser)
<1>1. PICK i \in (t + 1)..(Len(text) + 1) :
        /\ StandsOrStops(n, i)
        /\ \A j \in (t + 1)..(i - 1) : text[j].kind = "close"
  BY AdvanceFrom, Zenon
<1>2. t \in Nat /\ Len(text) \in Nat
  BY SMT DEF IsFile, Standing
<1>3. i = t + 1
  <2> SUFFICES ASSUME i # t + 1 PROVE FALSE
    OBVIOUS
  <2>1. t + 1 \in (t + 1)..(i - 1) /\ t + 1 <= Len(text)
    BY <1>1, <1>2, SMT
  <2> QED BY <1>1, <2>1
<1>4. Passed(n)
  BY AdvanceFrom, Zenon
<1> QED BY <1>1, <1>3, <1>4

LEMMA AdvanceNowhere ==
    ASSUME IsFile(text), ParserTyped(parser), Passed(parser), NEW t, Stopped(parser, t)
    PROVE  Passed(NextToken(parser)) /\ Stopped(NextToken(parser), t)
<1> DEFINE n == NextToken(parser)
<1>1. PICK i \in parser.pos..(Len(text) + 1) :
        /\ \A j \in parser.pos..(i - 1) : text[j].kind = "close"
        /\ Standing(n, i) \/ Stopped(n, i)
        /\ Passed(n)
  BY Advance, Zenon
<1>2. /\ t \in Nat /\ Len(text) \in Nat /\ parser.pos = t /\ t <= Len(text) + 1
      /\ t <= Len(text) => text[t].kind = "junk"
  BY SMT DEF IsFile, Stopped
<1>3. i = t
  <2> SUFFICES ASSUME i # t PROVE FALSE
    OBVIOUS
  <2>1. t \in parser.pos..(i - 1) /\ t <= Len(text)
    BY <1>1, <1>2, SMT
  <2>2. text[t].kind = "close" /\ text[t].kind = "junk"
    BY <1>1, <1>2, <2>1
  <2> QED BY <2>2
<1>4. ~Standing(n, t)
  BY <1>2, SMT DEF Standing
<1> QED BY <1>1, <1>3, <1>4

\* The parser has come to a line, past what is neither a key nor a header.
LEMMA LineReached ==
    ASSUME IsFile(text), NEW p, NEW words, NEW c, Passed(p),
           NEW i \in 1..(Len(text) + 1), StandsOrStops(p, i),
           NEW a \in Nat, a <= i, words = SectionAt(a),
           \A j \in a..(i - 1) : text[j].kind # "open",
           NEW b \in Nat, b <= i, ReadBefore(c, b), \A j \in b..(i - 1) : ~IsKey(j)
    PROVE  \A name : Course("line", p, words, name, c)
<1>1. i \in Nat
  BY SMT DEF IsFile
<1>2. words = SectionAt(i)
  BY <1>1, SectionSame
<1>3. ReadBefore(c, i)
  BY <1>1, PassOver
<1>4. AtLine(p, words, c)
  BY <1>2, <1>3, Zenon DEF AtLine
<1> QED BY <1>4, Zenon DEF Course

LEMMA FirstCourse ==
    ASSUME Loading, First
    PROVE  Course(pc', parser', section', key', config')
<1> DEFINE n == NextToken(parser)
<1>1. /\ Passed(parser) /\ parser.pos = 1 /\ section = << >> /\ config = Defaults
      /\ IsFile(text) /\ ParserTyped(parser)
  BY DEF Loading, Course, First
<1>2. PICK i \in 1..(Len(text) + 1) :
        /\ \A j \in 1..(i - 1) : text[j].kind = "close"
        /\ StandsOrStops(n, i) /\ Passed(n)
  BY <1>1, Advance, Zenon DEF StandsOrStops
<1>3. \A j \in 1..(i - 1) : text[j].kind # "open" /\ ~IsKey(j)
  BY <1>2 DEF IsKey
<1>4. ReadBefore(Defaults, 1)
  <2>1. \A s : GivenBefore(s, 1) = {}
    BY SMT DEF GivenBefore
  <2> QED BY <2>1 DEF ReadBefore, Defaults
<1>5. 1 \in Nat /\ 1 <= i
  BY <1>1, SMT DEF IsFile
<1> HIDE DEF n
<1>6. Course("line", n, << >>, key, Defaults)
  BY <1>1, <1>2, <1>3, <1>4, <1>5, SectionFirst, LineReached
<1> QED BY <1>1, <1>6 DEF First, n, running

LEMMA HeaderCourse ==
    ASSUME Loading, Header
    PROVE  Course(pc', parser', section', key', config')
<1> DEFINE n == NextToken(parser)
<1>1. /\ Passed(parser) /\ AtLine(parser, section, config) /\ LineByLine
      /\ IsFile(text) /\ ParserTyped(parser) /\ parser.token.kind = "open"
  BY DEF Loading, Course, Header
<1>2. PICK j \in 1..(Len(text) + 1) : StandsOrStops(parser, j) /\ ReadBefore(config, j)
  BY <1>1, Zenon DEF AtLine
<1>3. Standing(parser, j) /\ j \in 1..Len(text)
  BY <1>1, <1>2 DEF StandsOrStops, Standing, Stopped
<1>4. text[j].kind = "open"
  BY <1>1, <1>3, StandingKinds
<1>5. j + 3 <= Len(text) /\ text[j + 1].kind = "word"
  BY <1>1, <1>3, <1>4, HeaderSpan
<1>6. Passed(n) /\ StandsOrStops(n, j + 1)
  BY <1>1, <1>3, <1>5, AdvanceTo
<1> HIDE DEF n
<1>7. ~Stopped(n, j + 1)
  <2>1. j + 1 <= Len(text)
    BY <1>1, <1>3, <1>5, SMT DEF IsFile
  <2> QED BY <1>5, <2>1 DEF Stopped
<1>8. InHeader(n, << >>, config)
  BY <1>2, <1>3, <1>4, <1>6, <1>7 DEF InHeader, StandsOrStops
<1>9. Course("header", n, << >>, key, config)
  BY <1>6, <1>8, Zenon DEF Course
<1> QED BY <1>9 DEF Header, n, running

\* The places that a header's parsing is at.
LEMMA HeaderPlaces ==
    ASSUME Loading, pc = "header"
    PROVE  \E j \in 1..Len(text) :
               /\ text[j].kind = "open" /\ ReadBefore(config, j)
               /\ \/ /\ Standing(parser, j + 1) /\ section = << >>
                     /\ parser.token.kind = "string"
                     /\ parser.token.text = text[j + 1].text
                  \/ /\ Standing(parser, j + 3) /\ section = <<text[j + 1].text>>
                     /\ parser.token.kind \notin {"string", "key"}
<1>1. /\ InHeader(parser, section, config) /\ LineByLine /\ IsFile(text)
  BY DEF Loading, Course
<1>2. PICK j \in 1..Len(text) :
        /\ text[j].kind = "open" /\ ReadBefore(config, j)
        /\ \/ Standing(parser, j + 1) /\ section = << >>
           \/ Standing(parser, j + 3) /\ section = <<text[j + 1].text>>
  BY <1>1, Zenon DEF InHeader
<1>3. /\ j + 3 <= Len(text)
      /\ text[j + 1].kind = "word" /\ text[j + 2].kind = "close"
      /\ text[j + 3].kind = "newline" /\ ~BeforeEqual(j + 1)
  BY <1>1, <1>2, HeaderSpan
<1>4. CASE Standing(parser, j + 1) /\ section = << >>
  <2>1. parser.token = [kind |-> "string", text |-> text[j + 1].text]
    BY <1>3, <1>4 DEF Standing, TokenAt
  <2> QED BY <1>2, <1>4, <2>1
<1>5. CASE Standing(parser, j + 3) /\ section = <<text[j + 1].text>>
  <2>1. parser.token = text[j + 3]
    BY <1>3, <1>5 DEF Standing, TokenAt
  <2> QED BY <1>2, <1>3, <1>5, <2>1
<1> QED BY <1>2, <1>4, <1>5

LEMMA HeaderWordCourse ==
    ASSUME Loading, HeaderWord
    PROVE  Course(pc', parser', section', key', config')
<1> DEFINE n == NextToken(parser)
<1>1. /\ Passed(parser) /\ LineByLine /\ IsFile(text) /\ ParserTyped(parser)
      /\ pc = "header" /\ parser.token.kind \in {"string", "key"}
  BY DEF Loading, Course, HeaderWord
<1>2. PICK j \in 1..Len(text) :
        /\ text[j].kind = "open" /\ ReadBefore(config, j)
        /\ Standing(parser, j + 1) /\ section = << >>
        /\ parser.token.text = text[j + 1].text
  BY <1>1, HeaderPlaces
<1>3. /\ j + 3 <= Len(text) /\ text[j + 2].kind = "close" /\ text[j + 3].kind = "newline"
  BY <1>1, <1>2, HeaderSpan
<1>4. PICK i \in (j + 1 + 1)..(Len(text) + 1) :
        /\ StandsOrStops(n, i) /\ Passed(n)
        /\ \A l \in (j + 1 + 1)..(i - 1) : text[l].kind = "close"
        /\ i <= Len(text) => text[i].kind # "close"
  BY <1>1, <1>2, AdvanceFrom, Zenon
<1>5. Len(text) \in Nat /\ j \in Nat
  BY SMT, <1>1 DEF IsFile
<1>6. i # j + 2
  <2>1. j + 2 <= Len(text)
    BY <1>3, <1>5, SMT
  <2> QED BY <1>3, <1>4, <2>1
<1>7. ~(i > j + 3)
  <2>1. ~(j + 3 \in (j + 1 + 1)..(i - 1))
    BY <1>3, <1>4
  <2> QED BY <1>5, <2>1, SMT
<1>8. i = j + 3
  BY <1>4, <1>5, <1>6, <1>7, SMT
<1> HIDE DEF n
<1>9. Standing(n, j + 3)
  BY <1>3, <1>4, <1>8 DEF StandsOrStops, Stopped
<1>10. InHeader(n, <<text[j + 1].text>>, config)
  BY <1>2, <1>9, Zenon DEF InHeader
<1>11. Course("header", n, <<text[j + 1].text>>, key, config)
  BY <1>4, <1>10, Zenon DEF Course
<1>12. section' = <<text[j + 1].text>>
  BY <1>2 DEF HeaderWord
<1> QED BY <1>1, <1>11, <1>12 DEF HeaderWord, n, running

LEMMA HeaderEndCourse ==
    ASSUME Loading, HeaderEnd
    PROVE  Course(pc', parser', section', key', config')
<1> DEFINE n == NextToken(parser)
<1>1. /\ Passed(parser) /\ LineByLine /\ IsFile(text) /\ ParserTyped(parser)
      /\ pc = "header" /\ parser.token.kind \notin {"string", "key"}
  BY DEF Loading, Course, HeaderEnd
<1>2. PICK j \in 1..Len(text) :
        /\ text[j].kind = "open" /\ ReadBefore(config, j)
        /\ Standing(parser, j + 3) /\ section = <<text[j + 1].text>>
  BY <1>1, HeaderPlaces
<1>3. PICK i \in (j + 3 + 1)..(Len(text) + 1) :
        /\ StandsOrStops(n, i) /\ Passed(n)
        /\ \A l \in (j + 3 + 1)..(i - 1) : text[l].kind = "close"
  BY <1>1, <1>2, AdvanceFrom, Zenon
<1>4. Len(text) \in Nat /\ j \in Nat
  BY SMT, <1>1 DEF IsFile
<1>5. \A l \in j..(i - 1) : ~IsKey(l) /\ (l # j => text[l].kind # "open")
  <2>1. \A l \in j..(i - 1) : l \in j..(j + 3) \/ l \in (j + 3 + 1)..(i - 1)
    BY <1>3, <1>4, SMT
  <2>2. \A l \in j..(j + 3) : ~IsKey(l) /\ (l # j => text[l].kind # "open")
    BY <1>1, <1>2, HeaderSpan
  <2>3. \A l \in (j + 3 + 1)..(i - 1) : ~IsKey(l) /\ text[l].kind # "open"
    BY <1>3 DEF IsKey
  <2> QED BY <2>1, <2>2, <2>3, Zenon
<1>6. section = SectionAt(j + 1)
  BY <1>2, <1>4, SectionAfter
<1>7. /\ i \in 1..(Len(text) + 1) /\ j + 1 \in Nat /\ j + 1 <= i /\ j <= i
      /\ \A l \in (j + 1)..(i - 1) : l \in j..(i - 1) /\ l # j
  BY <1>3, <1>4, SMT
<1> HIDE DEF n
<1>8. Course("line", n, section, key, config)
  BY <1>1, <1>2, <1>3, <1>4, <1>5, <1>6, <1>7, LineReached
<1> QED BY <1>8 DEF HeaderEnd, n, running

LEMMA KeyCourse ==
    ASSUME Loading, Key
    PROVE  Course(pc', parser', section', key', config')
<1> DEFINE n == NextToken(parser)
<1>1. /\ Passed(parser) /\ AtLine(parser, section, config) /\ LineByLine
      /\ IsFile(text) /\ ParserTyped(parser) /\ parser.token.kind = "key"
  BY DEF Loading, Course, Key
<1>2. PICK k \in 1..(Len(text) + 1) :
        StandsOrStops(parser, k) /\ section = SectionAt(k) /\ ReadBefore(config, k)
  BY <1>1, Zenon DEF AtLine
<1>3. Standing(parser, k) /\ k \in 1..Len(text)
  BY <1>1, <1>2 DEF StandsOrStops, Standing, Stopped
<1>4. IsKey(k)
  BY <1>1, <1>3, StandingKinds
<1>5. k + 1 \in 1..Len(text) /\ text[k + 1].kind = "equal"
  BY <1>1, <1>3, <1>4, KeySpan
<1>6. Passed(n) /\ StandsOrStops(n, k + 1)
  BY <1>1, <1>3, <1>5, AdvanceTo
<1>7. parser.key = KeyAt(k)
  <2>1. parser.pos - 1 = k
    BY <1>1, <1>3, SMT DEF Standing, IsFile
  <2> QED BY <1>1, <2>1 DEF Passed
<1> HIDE DEF n
<1>8. Standing(n, k + 1)
  <2>1. k + 1 <= Len(text)
    BY <1>1, <1>5, SMT DEF IsFile
  <2> QED BY <1>5, <1>6, <2>1 DEF Stopped, StandsOrStops
<1>9. AtKey(n, section, parser.key, config, {"equal"})
  BY <1>2, <1>3, <1>4, <1>7, <1>8, Zenon DEF AtKey
<1>10. Course("equal", n, section, parser.key, config)
  BY <1>6, <1>9, Zenon DEF Course
<1> QED BY <1>10 DEF Key, n, running

\* What a key's value is looked for with.
LEMMA KeyPlaces ==
    ASSUME Loading, pc \in {"equal", "value", "apply"}
    PROVE  /\ Passed(parser) /\ LineByLine /\ IsFile(text) /\ ParserTyped(parser)
           /\ \E k \in 1..Len(text) :
                  /\ IsKey(k) /\ section = SectionAt(k) /\ key = KeyAt(k)
                  /\ ReadBefore(config, k)
                  /\ pc = "equal" => Standing(parser, k + 1)
                  /\ pc = "value" => StandsOrStops(parser, k + 2)
                  /\ pc = "apply" => StandsOrStops(parser, k + 3) \/ Stopped(parser, k + 2)
<1>1. /\ Passed(parser) /\ LineByLine /\ IsFile(text) /\ ParserTyped(parser)
      /\ AtKey(parser, section, key, config, {pc})
  BY DEF Loading, Course
<1>2. PICK k \in 1..Len(text) :
        /\ IsKey(k) /\ section = SectionAt(k) /\ key = KeyAt(k) /\ ReadBefore(config, k)
        /\ \/ "equal" \in {pc} /\ Standing(parser, k + 1)
           \/ "value" \in {pc} /\ StandsOrStops(parser, k + 2)
           \/ "apply" \in {pc} /\ (StandsOrStops(parser, k + 3) \/ Stopped(parser, k + 2))
  BY <1>1, Zenon DEF AtKey
<1> QED BY <1>1, <1>2

\* From a lexeme read with a key to the next.
LEMMA WithinKey ==
    ASSUME IsFile(text), ParserTyped(parser), LineByLine, Passed(parser),
           NEW k \in 1..Len(text), IsKey(k), NEW t \in {k + 1, k + 2}, Standing(parser, t)
    PROVE  Passed(NextToken(parser)) /\ StandsOrStops(NextToken(parser), t + 1)
<1>1. Len(text) \in Nat /\ k \in Nat
  BY SMT DEF IsFile
<1>2. t + 1 \in k..(k + 3)
  BY <1>1, SMT
<1>3. t + 1 <= Len(text) => text[t + 1].kind # "close"
  BY <1>2, KeySpan
<1> QED BY <1>3, AdvanceTo

LEMMA EqualsCourse ==
    ASSUME Loading, Equals
    PROVE  Course(pc', parser', section', key', config')
<1> DEFINE n == NextToken(parser)
<1>1. pc = "equal" /\ Passed(parser) /\ LineByLine /\ IsFile(text) /\ ParserTyped(parser)
  BY KeyPlaces DEF Equals
<1>2. PICK k \in 1..Len(text) :
        /\ IsKey(k) /\ section = SectionAt(k) /\ key = KeyAt(k) /\ ReadBefore(config, k)
        /\ Standing(parser, k + 1)
  BY <1>1, KeyPlaces
<1>3. k + 1 + 1 = k + 2
  BY <1>1, SMT DEF IsFile
<1>4. Passed(n) /\ StandsOrStops(n, k + 2)
  BY <1>1, <1>2, <1>3, WithinKey
<1> HIDE DEF n
<1>5. AtKey(n, section, key, config, {"value"})
  BY <1>2, <1>4, Zenon DEF AtKey
<1>6. Course("value", n, section, key, config)
  BY <1>4, <1>5, Zenon DEF Course
<1> QED BY <1>6 DEF Equals, n, running

LEMMA ValueCourse ==
    ASSUME Loading, Value
    PROVE  Course(pc', parser', section', key', config')
<1> DEFINE n == NextToken(parser)
<1>1. pc = "value" /\ Passed(parser) /\ LineByLine /\ IsFile(text) /\ ParserTyped(parser)
  BY KeyPlaces DEF Value
<1>2. PICK k \in 1..Len(text) :
        /\ IsKey(k) /\ section = SectionAt(k) /\ key = KeyAt(k) /\ ReadBefore(config, k)
        /\ StandsOrStops(parser, k + 2)
  BY <1>1, KeyPlaces
<1>3. k + 2 + 1 = k + 3
  BY <1>1, SMT DEF IsFile
<1>4. Passed(n) /\ (StandsOrStops(n, k + 3) \/ Stopped(n, k + 2))
  <2>1. CASE Standing(parser, k + 2)
    BY <1>1, <1>2, <1>3, <2>1, WithinKey
  <2>2. CASE Stopped(parser, k + 2)
    BY <1>1, <2>2, AdvanceNowhere
  <2> QED BY <1>2, <2>1, <2>2 DEF StandsOrStops
<1> HIDE DEF n
<1>5. AtKey(n, section, key, config, {"apply"})
  BY <1>2, <1>4, Zenon DEF AtKey
<1>6. Course("apply", n, section, key, config)
  BY <1>4, <1>5, Zenon DEF Course
<1> QED BY <1>6 DEF Value, n, running

\* A key whose value is not reached gives no setting a value.
LEMMA ValueMissing ==
    ASSUME IsFile(text), NEW p, NEW t, Stopped(p, t), NEW k \in 1..Len(text), t <= k + 3, NEW s
    PROVE  Given(s, k, k + 3) = {}
<1>1. t \in 1..(Len(text) + 1) /\ (t <= Len(text) => text[t].kind = "junk")
  BY DEF Stopped
<1>2. Len(text) \in Nat /\ k \in Nat /\ t \in Nat
  BY <1>1, SMT DEF IsFile
<1>3. SUFFICES ASSUME Given(s, k, k + 3) # {} PROVE FALSE
  OBVIOUS
<1>4. k + 3 <= Len(text) /\ \A j \in 1..(k + 3) : text[j].kind # "junk"
  BY <1>3, GivenIsByKey, Zenon
<1>5. t \in 1..(k + 3) /\ t <= Len(text)
  BY <1>1, <1>2, <1>4, SMT
<1> QED BY <1>1, <1>4, <1>5

LEMMA AssignCourse ==
    ASSUME Loading, Assign
    PROVE  Course(pc', parser', section', key', config')
<1> DEFINE n == NextToken(parser)
<1>1. /\ pc = "apply" /\ Passed(parser) /\ LineByLine /\ IsFile(text) /\ ParserTyped(parser)
      /\ DOMAIN config = SettingNames /\ config' \in Apply(config, section, key, parser.token)
      /\ Len(text) \in Nat
  BY KeyPlaces DEF Assign, Loading, IsFile
<1>2. PICK k \in 1..Len(text) :
        /\ IsKey(k) /\ section = SectionAt(k) /\ key = KeyAt(k) /\ ReadBefore(config, k)
        /\ StandsOrStops(parser, k + 3) \/ Stopped(parser, k + 2)
  BY <1>1, KeyPlaces
<1>3. k \in Nat
  BY <1>1, SMT
<1>4. \A i \in k..(k + 3) : i <= Len(text) =>
          text[i].kind # "open" /\ (i # k => ~IsKey(i))
  BY <1>1, <1>2, KeySpan
<1>5. Course("line", n, section, key, config')
  <2>1. CASE Standing(parser, k + 3)
    <3>1. k + 3 \in 1..Len(text) /\ parser.token = TokenAt(k + 3) /\ parser.pos - 1 = k + 3
      BY <1>3, <2>1, SMT DEF Standing
    <3>2. \A j \in 1..(k + 3) : text[j].kind # "junk"
      BY <1>1, <3>1 DEF Passed
    <3>3. ReadBefore(config', k + 1)
      BY <1>1, <1>2, <3>1, <3>2, AssignReads
    <3>4. PICK i \in (k + 3 + 1)..(Len(text) + 1) :
            /\ StandsOrStops(n, i) /\ Passed(n)
            /\ \A l \in (k + 3 + 1)..(i - 1) : text[l].kind = "close"
      BY <1>1, <2>1, AdvanceFrom, Zenon
    <3>5. \A l \in k..(i - 1) : text[l].kind # "open" /\ (l # k => ~IsKey(l))
      <4>1. \A l \in k..(i - 1) :
                l <= Len(text) /\ (l \in k..(k + 3) \/ l \in (k + 3 + 1)..(i - 1))
        BY <1>1, <1>3, <3>4, SMT
      <4>2. \A l \in (k + 3 + 1)..(i - 1) : ~IsKey(l) /\ text[l].kind # "open"
        BY <3>4 DEF IsKey
      <4> QED BY <1>4, <4>1, <4>2, Zenon
    <3>6. /\ i \in 1..(Len(text) + 1) /\ k + 1 \in Nat /\ k <= i /\ k + 1 <= i
          /\ \A l \in (k + 1)..(i - 1) : l \in k..(i - 1) /\ l # k
      BY <1>1, <1>3, <3>4, SMT
    <3> HIDE DEF n
    <3> QED BY <1>1, <1>2, <1>3, <3>3, <3>4, <3>5, <3>6, LineReached
  <2>2. ASSUME NEW t \in {k + 2, k + 3}, Stopped(parser, t)
        PROVE  Course("line", n, section, key, config')
    <3>1. config' = config
      BY <1>1, <2>2, NothingApplied DEF Stopped
    <3>2. Passed(n) /\ Stopped(n, t)
      BY <1>1, <2>2, AdvanceNowhere
    <3>3. /\ t \in 1..(Len(text) + 1) /\ t \in Nat /\ k <= t /\ t <= k + 3
          /\ \A l \in k..(t - 1) : l \in k..(k + 3) /\ l <= Len(text)
      BY <1>1, <1>3, <2>2, SMT DEF Stopped
    <3>4. \A l \in k..(t - 1) : text[l].kind # "open"
      BY <1>4, <3>3
    <3>5. ASSUME NEW s \in SettingNames, NEW l \in 1..Len(text), k <= l, l < t
          PROVE  Given(s, l, l + 3) = {}
      <4>1. t <= l + 3
        BY <1>1, <3>3, <3>5, SMT
      <4> QED BY <1>1, <2>2, <4>1, ValueMissing
    <3>6. ReadBefore(config, t)
      BY <1>1, <1>2, <1>3, <3>3, <3>5, ReadSame
    <3>7. section = SectionAt(t)
      BY <1>2, <1>3, <3>3, <3>4, SectionSame
    <3> HIDE DEF n
    <3>8. AtLine(n, section, config)
      BY <3>2, <3>3, <3>6, <3>7, Zenon DEF AtLine, StandsOrStops
    <3> QED BY <3>1, <3>2, <3>8 DEF Course
  <2> QED BY <1>2, <2>1, <2>2 DEF StandsOrStops
<1> HIDE DEF n
<1> QED BY <1>5 DEF Assign, n, running

LEMMA OtherCourse ==
    ASSUME Loading, Other
    PROVE  Course(pc', parser', section', key', config')
<1> DEFINE n == NextToken(parser)
<1>1. /\ Passed(parser) /\ AtLine(parser, section, config)
      /\ IsFile(text) /\ ParserTyped(parser) /\ Len(text) \in Nat
      /\ parser.token.kind \notin {"open", "key", "eof", "error"}
  BY DEF Loading, Course, Other, IsFile
<1>2. PICK t \in 1..(Len(text) + 1) :
        StandsOrStops(parser, t) /\ section = SectionAt(t) /\ ReadBefore(config, t)
  BY <1>1, Zenon DEF AtLine
<1>3. Standing(parser, t) /\ t \in Nat
  BY <1>1, <1>2, SMT DEF StandsOrStops, Stopped
<1>4. text[t].kind # "open" /\ ~IsKey(t)
  BY <1>1, <1>3, StandingKinds
<1>5. PICK i \in (t + 1)..(Len(text) + 1) :
        /\ StandsOrStops(n, i) /\ Passed(n)
        /\ \A l \in (t + 1)..(i - 1) : text[l].kind = "close"
  BY <1>1, <1>3, AdvanceFrom, Zenon
<1>6. \A l \in t..(i - 1) : text[l].kind # "open" /\ ~IsKey(l)
  <2>1. \A l \in t..(i - 1) : l = t \/ l \in (t + 1)..(i - 1)
    BY <1>1, <1>3, <1>5, SMT
  <2>2. \A l \in (t + 1)..(i - 1) : text[l].kind # "open" /\ ~IsKey(l)
    BY <1>5 DEF IsKey
  <2> QED BY <1>4, <2>1, <2>2, Zenon
<1>7. i \in 1..(Len(text) + 1) /\ t <= i
  BY <1>1, <1>3, <1>5, SMT
<1> HIDE DEF n
<1>8. Course("line", n, section, key, config)
  BY <1>1, <1>2, <1>3, <1>5, <1>6, <1>7, LineReached
<1> QED BY <1>8 DEF Other, n, running

\* No key behind the place where the parser cannot get on gives a value.
LEMMA ParsedCourse ==
    ASSUME Loading, Parsed
    PROVE  Course(pc', parser', section', key', config')
<1>1. /\ AtLine(parser, section, config) /\ IsFile(text) /\ Len(text) \in Nat
      /\ parser.token.kind \in {"eof", "error"}
  BY DEF Loading, Course, Parsed, IsFile
<1>2. PICK t \in 1..(Len(text) + 1) : StandsOrStops(parser, t) /\ ReadBefore(config, t)
  BY <1>1, Zenon DEF AtLine
<1>3. Stopped(parser, t)
  BY <1>1, <1>2, StandingKinds DEF StandsOrStops
<1>4. ASSUME NEW s \in SettingNames, NEW k \in 1..Len(text), t <= k, k < Len(text) + 1
      PROVE  Given(s, k, k + 3) = {}
  <2>1. t <= k + 3
    BY <1>1, <1>4, SMT
  <2> QED BY <1>1, <1>3, <2>1, ValueMissing
<1>5. t \in Nat /\ Len(text) + 1 \in Nat /\ t <= Len(text) + 1
  BY <1>1, SMT
<1>6. ReadBefore(config, Len(text) + 1)
  BY <1>1, <1>2, <1>4, <1>5, ReadSame
<1> QED BY <1>6 DEF Parsed, Course, reading, running

-------------------------------------------------------------------------------
(* SecondLexemeCounts                                                       *)

\* A file is read the same way as long as it stays.
LEMMA SameKeys ==
    ASSUME UNCHANGED text
    PROVE  /\ \A k : BeforeEqual(k)' <=> BeforeEqual(k)
           /\ \A k : IsKey(k)' <=> IsKey(k)
           /\ \A k : TokenAt(k)' = TokenAt(k)
           /\ LineByLine' <=> LineByLine
<1>1. \A k : BeforeEqual(k)' <=> BeforeEqual(k)
  BY Zenon DEF BeforeEqual
<1>2. \A k : IsKey(k)' <=> IsKey(k)
  BY <1>1, Zenon DEF IsKey
<1>3. \A k : TokenAt(k)' = TokenAt(k)
  BY <1>1, Zenon DEF TokenAt
<1>4. LineByLine' <=> LineByLine
  BY <1>2, Zenon DEF LineByLine
<1> QED BY <1>1, <1>2, <1>3, <1>4

LEMMA SameSection ==
    ASSUME UNCHANGED text, NEW k
    PROVE  SectionAt(k)' = SectionAt(k) /\ KeyAt(k)' = KeyAt(k)
<1>1. Opens(k)' = Opens(k)
  BY Zenon DEF Opens
<1>2. Shorts(k)' = Shorts(k)
  BY SameKeys, Zenon DEF Shorts
<1>3. /\ SectionAt(k)' = IF Opens(k)' = {} THEN << >>
                         ELSE <<text'[Latest(Opens(k)') + 1].text>>
      /\ KeyAt(k)' = IF Shorts(k)' = {} THEN "" ELSE text'[Latest(Shorts(k)')].text
  BY Zenon DEF SectionAt, KeyAt, Opens, Shorts, Latest
<1> QED BY <1>1, <1>2, <1>3, LatestCount

LEMMA SameGiven ==
    ASSUME UNCHANGED text
    PROVE  /\ \A s, k, v : Given(s, k, v)' = Given(s, k, v)
           /\ \A s, m : GivenBefore(s, m)' = GivenBefore(s, m)
           /\ \A c, m : ReadBefore(c, m)' <=> ReadBefore(c, m)
<1>1. ASSUME NEW s, NEW k, NEW v PROVE Given(s, k, v)' = Given(s, k, v)
  <2>1. SectionAt(k)' = SectionAt(k) /\ KeyAt(k)' = KeyAt(k) /\ (IsKey(k)' <=> IsKey(k))
    BY SameSection, SameKeys
  <2> QED BY <2>1, Zenon DEF Given
<1>2. ASSUME NEW s, NEW m PROVE GivenBefore(s, m)' = GivenBefore(s, m)
  BY <1>1, Zenon DEF GivenBefore
<1>3. ASSUME NEW c, NEW m PROVE ReadBefore(c, m)' <=> ReadBefore(c, m)
  BY <1>1, <1>2, Zenon DEF ReadBefore
<1> QED BY <1>1, <1>2, <1>3

LEMMA SamePlaces ==
    ASSUME UNCHANGED text
    PROVE  /\ \A p, t : Standing(p, t)' <=> Standing(p, t)
           /\ \A p, t : Stopped(p, t)' <=> Stopped(p, t)
           /\ \A p, t : StandsOrStops(p, t)' <=> StandsOrStops(p, t)
           /\ \A p : Passed(p)' <=> Passed(p)
<1>1. \A p, t : Standing(p, t)' <=> Standing(p, t)
  BY SameKeys, Zenon DEF Standing
<1>2. \A p, t : Stopped(p, t)' <=> Stopped(p, t)
  BY Zenon DEF Stopped
<1>3. \A p, t : StandsOrStops(p, t)' <=> StandsOrStops(p, t)
  BY <1>1, <1>2, Zenon DEF StandsOrStops
<1>4. ASSUME NEW p PROVE Passed(p)' <=> Passed(p)
  <2>1. KeyAt(p.pos - 1)' = KeyAt(p.pos - 1)
    BY SameSection
  <2> QED BY <2>1, Zenon DEF Passed
<1> QED BY <1>1, <1>2, <1>3, <1>4

LEMMA SameCourse ==
    ASSUME UNCHANGED text, Course(pc', parser', section', key', config')
    PROVE  Course(pc, parser, section, key, config)'
<1>1. \A k : SectionAt(k)' = SectionAt(k) /\ KeyAt(k)' = KeyAt(k)
  BY SameSection
<1>2. AtLine(parser', section', config') => AtLine(parser, section, config)'
  BY <1>1, SameGiven, SamePlaces, Zenon DEF AtLine
<1>3. InHeader(parser', section', config') => InHeader(parser, section, config)'
  BY SameGiven, SamePlaces, Zenon DEF InHeader
<1>4. AtKey(parser', section', key', config', {pc'})
          => AtKey(parser, section, key, config, {pc})'
  BY <1>1, SameKeys, SameGiven, SamePlaces, Zenon DEF AtKey
<1>5. Passed(parser') => Passed(parser)'
  BY SamePlaces
<1>6. ReadBefore(config', Len(text) + 1) => ReadBefore(config, Len(text) + 1)'
  BY SameGiven
<1> QED BY <1>2, <1>3, <1>4, <1>5, <1>6 DEF Course

\* Before a file is there every setting has its default.
LEMMA DefaultsRead == \A m : text = << >> => ReadBefore(Defaults, m)
<1> SUFFICES ASSUME text = << >>, NEW m, NEW s \in SettingNames
             PROVE  GivenBefore(s, m) = {} /\ Defaults[s] = Default(s)
  BY Zenon DEF ReadBefore
<1>1. 1..Len(text) = {}
  BY SMT
<1> QED BY <1>1 DEF GivenBefore, Defaults

\* The parser is where its state says, and the keys before that place have
\* given the settings their values.
ReadInv ==
    /\ TypeInv
    /\ pc \in {"start", "open", "run"} => text = << >>
    /\ LineByLine => Course(pc, parser, section, key, config)

LEMMA ReadInvInit == Init => ReadInv
  BY InitTyped DEF Init, ReadInv, Course

LEMMA ReadInvStep == ReadInv /\ [Next]_vars => ReadInv'
<1> SUFFICES ASSUME ReadInv, [Next]_vars PROVE ReadInv'
  OBVIOUS
<1>1. TypeInv'
  BY StepTyped DEF ReadInv
<1> DEFINE Kept == /\ pc' \in {"start", "open", "run"} => text' = << >>
                   /\ LineByLine' => Course(pc, parser, section, key, config)'
<1> SUFFICES Kept
  BY <1>1 DEF ReadInv
<1>2. ASSUME NEW file, Load(file), pc \in {"start", "run"}
      PROVE  Kept
  <2>1. CASE file = Unreadable
    <3>1. /\ pc' = "validate" /\ config' = Defaults /\ UNCHANGED text /\ text = << >>
      BY <1>2, <2>1 DEF Load, reading, ReadInv
    <3>2. ReadBefore(config', Len(text) + 1)
      BY <3>1, DefaultsRead
    <3>3. Course(pc', parser', section', key', config')
      BY <3>1, <3>2 DEF Course
    <3> QED BY <3>1, <3>3, SameCourse
  <2>2. CASE file # Unreadable
    <3>1. /\ pc' = "first" /\ config' = Defaults
          /\ parser' = NewParser /\ section' = << >> /\ key' = ""
      BY <1>2, <2>2 DEF Load
    <3>2. parser'.pos = 1 /\ parser'.key = ""
      BY <3>1 DEF NewParser
    <3>3. KeyAt(0)' = ""
      BY SMT DEF KeyAt
    <3>4. Passed(parser)'
      <4>1. 1 - 1 = 0 /\ 1..0 = {}
        BY SMT
      <4> QED BY <3>2, <3>3, <4>1 DEF Passed
    <3> QED BY <3>1, <3>2, <3>4 DEF Course
  <2> QED BY <2>1, <2>2
<1>3. CASE LoadAny
  BY <1>2, <1>3 DEF LoadAny
<1>4. ASSUME UNCHANGED text, pc \notin {"start", "open", "run"},
             pc' \notin {"start", "open", "run"},
             Loading => Course(pc', parser', section', key', config')
      PROVE  Kept
  <2>1. ASSUME LineByLine' PROVE Course(pc, parser, section, key, config)'
    <3>1. LineByLine
      BY <1>4, <2>1, SameKeys
    <3>2. Loading
      <4>1. DOMAIN config = SettingNames
        BY TypedConfigs, TypedParts DEF ReadInv, TypeInv
      <4> QED BY <3>1, <4>1 DEF ReadInv, TypeInv, Loading
    <3> QED BY <1>4, <3>2, SameCourse
  <2> QED BY <1>4, <2>1
<1>5. CASE First
  BY <1>4, <1>5, FirstCourse DEF First
<1>6. CASE Header
  BY <1>4, <1>6, HeaderCourse DEF Header
<1>7. CASE HeaderWord
  BY <1>4, <1>7, HeaderWordCourse DEF HeaderWord
<1>8. CASE HeaderEnd
  BY <1>4, <1>8, HeaderEndCourse DEF HeaderEnd
<1>9. CASE Key
  BY <1>4, <1>9, KeyCourse DEF Key
<1>10. CASE Equals
  BY <1>4, <1>10, EqualsCourse DEF Equals
<1>11. CASE Value
  BY <1>4, <1>11, ValueCourse DEF Value
<1>12. CASE Assign
  BY <1>4, <1>12, AssignCourse DEF Assign
<1>13. CASE Other
  BY <1>4, <1>13, OtherCourse DEF Other
<1>14. CASE Parsed
  BY <1>4, <1>14, ParsedCourse DEF Parsed, reading
<1>15. CASE Adopt
  BY <1>15 DEF Adopt, Course
<1>16. CASE OpenDirectories
  BY <1>16 DEF OpenDirectories, reading, Course, ReadInv
<1>17. CASE UNCHANGED vars
  <2>1. UNCHANGED <<text, pc, parser, section, key, config>>
    BY <1>17 DEF vars, reading
  <2>2. LineByLine' => Course(pc', parser', section', key', config')
    BY <2>1, SameKeys DEF ReadInv
  <2> QED BY <2>1, <2>2, SameCourse DEF ReadInv
<1> QED
  BY <1>3, <1>5, <1>6, <1>7, <1>8, <1>9, <1>10, <1>11, <1>12, <1>13, <1>14, <1>15, <1>16, <1>17
     DEF Next, Step

\* Read to the end, a file has given each setting what its last key gives it.
LEMMA ReadInvCounts == ReadInv => SecondLexemeCounts
<1> SUFFICES ASSUME ReadInv, pc = "validate", LineByLine PROVE ReadsAhead(3)
  BY DEF SecondLexemeCounts
<1>1. ReadBefore(config, Len(text) + 1) /\ Len(text) \in Nat
  BY DEF ReadInv, Course, TypeInv, IsFile
<1>2. SUFFICES ASSUME NEW s \in SettingNames
               PROVE  LET keys == {k \in 1..Len(text) : Given(s, k, k + 3) # {}}
                      IN  IF keys = {} THEN config[s] = Default(s)
                          ELSE config[s] \in Given(s, Latest(keys), Latest(keys) + 3)
  BY Zenon DEF ReadsAhead, Latest
<1>3. \A k \in 1..Len(text) : k < Len(text) + 1
  BY <1>1, SMT
<1>4. GivenBefore(s, Len(text) + 1) = {k \in 1..Len(text) : Given(s, k, k + 3) # {}}
  BY <1>3, Zenon DEF GivenBefore
<1> QED BY <1>1, <1>4, Zenon DEF ReadBefore

\* In a file written line by line, whatever it holds and wherever its first
\* error is, a key's value is the second lexeme after its equals sign
\* (config_load, config.c:807, reads on from what parse_key_value, config.c:463,
\* has read already): each setting is what its last key before the error gives
\* it, or its default.
THEOREM ValueIsSecondLexeme == Spec => []SecondLexemeCounts
<1> QED BY ReadInvInit, ReadInvStep, ReadInvCounts, PTL DEF Spec
==============================================================================
