---------------------------- MODULE DocumentProofs ----------------------------
(***************************************************************************)
(* Theorems about the writer of Document, for any dumps whose command      *)
(* lines fit in an empty buffer, any number of snapshots and processes,    *)
(* and any buffer at which realloc gives up.                               *)
(*                                                                         *)
(* A serializer is a sequence of calls to the writer.  Those of a value    *)
(* take JSON from any point where a value may stand to the point after it; *)
(* those of a body, from inside a bracket to inside the same bracket.      *)
(***************************************************************************)
EXTENDS Document, FiniteSetTheorems, SequenceTheorems, WellFoundedInduction, TLAPS

Kinds == {"object_start", "object_end", "array_start", "array_end", "comma", "colon",
          "string", "number", "nan"}
Names == {"pid", "cmdline", "rss_mib", "timestamp_ns", "per_core_pct", "cpu", "used_pct",
          "mem", "procs", "top_rss_procs", "scope_key", "type", "policy",
          "origin_snapshot_index", "created_at", "dump_timestamp_ns", "trigger",
          "snapshots"}
\* The names, and the words among the values.
Words == Names \cup {"date"} \cup {d.trigger.type : d \in Dumps}
Contents == Text \cup Int \cup {Word(k) : k \in Words}
Lexeme == [t : Kinds, v : Contents, size : 1..(InitialCapacity - 1)]
CallSet == [op : {"begin", "end", "key", "value"}, lexeme : Lexeme]
Calls == Seq(CallSet)

\* The smallest buffer, doubled up to four times.
Capacities == {InitialCapacity, 2 * InitialCapacity, 4 * InitialCapacity,
               8 * InitialCapacity, 16 * InitialCapacity}

Writer == [text : Seq(Lexeme), length : Nat, capacity : Capacities,
           needs_comma : BOOLEAN, error : BOOLEAN]

-------------------------------------------------------------------------------
(* Growing                                                                 *)

\* A lexeme smaller than an empty buffer always has the buffer exactly
\* doubled, and fits in it then: the cap is never what it grows to short of
\* what is needed.
LEMMA PutFits ==
  ASSUME NEW w \in Writer, NEW lexeme \in Lexeme, w.length < w.capacity
  PROVE  /\ Put(w, lexeme) \in Writer
         /\ Put(w, lexeme).length < Put(w, lexeme).capacity
<1> DEFINE full == w.length + lexeme.size >= w.capacity
           lost == w.error \/ (full /\ (w.capacity >= MaxCapacity \/ w.capacity >= limit))
           capacity == IF full THEN Grown(w, lexeme.size) ELSE w.capacity
<1>1. /\ w.text \in Seq(Lexeme) /\ w.length \in Nat /\ w.capacity \in Capacities
      /\ w.needs_comma \in BOOLEAN /\ w.error \in BOOLEAN
      /\ lexeme.size \in 1..(InitialCapacity - 1)
  BY DEF Writer, Lexeme
<1>2. InitialCapacity \in Nat /\ InitialCapacity > 4 /\ MaxCapacity = 16 * InitialCapacity
  BY CapacityAssumption
<1>3. CASE lost
  <2>1. Put(w, lexeme) = [w EXCEPT !.error = TRUE]
    BY <1>3 DEF Put
  <2> QED BY <2>1 DEF Writer
<1>4. CASE ~lost
  <2>1. Put(w, lexeme) = [[w EXCEPT !.capacity = capacity]
                             EXCEPT !.text = Append(@, lexeme), !.length = @ + lexeme.size]
    BY <1>4 DEF Put
  <2>2. capacity \in Capacities /\ w.length + lexeme.size < capacity
    <3>1. CASE ~full
      BY <3>1, <1>1, <1>2 DEF Capacities
    <3>2. CASE full
      <4>1. w.capacity < MaxCapacity
        BY <3>2, <1>4, <1>1, <1>2 DEF Capacities
      <4>2. 2 * w.capacity \in Capacities /\ 2 * w.capacity <= MaxCapacity
        BY <4>1, <1>1, <1>2 DEF Capacities
      <4>3. w.length + lexeme.size + 1 < 2 * w.capacity
        BY <1>1, <1>2 DEF Capacities
      <4>4. Grown(w, lexeme.size) = 2 * w.capacity
        BY <4>2, <4>3, <1>1, <1>2 DEF Grown, Capacities
      <4> QED BY <4>2, <4>3, <4>4, <3>2, <1>1, <1>2 DEF Capacities
    <3> QED BY <3>1, <3>2
  <2>3. Append(w.text, lexeme) \in Seq(Lexeme)
    BY <1>1, AppendProperties
  <2>4. w.length + lexeme.size \in Nat
    BY <1>1, <1>2
  <2> HIDE DEF capacity, full, lost
  <2>5. Put(w, lexeme) = [w EXCEPT !.capacity = capacity, !.text = Append(w.text, lexeme),
                                   !.length = w.length + lexeme.size]
    BY <2>1 DEF Writer
  <2> QED BY <2>2, <2>3, <2>4, <2>5, <1>1 DEF Writer
<1> QED BY <1>3, <1>4

LEMMA EscapedIsNat ==
  ASSUME NEW s \in Text
  PROVE  Escaped(s) \in Nat
<1>1. s.plain \in Nat /\ s.quoted \in Nat /\ s.lettered \in Nat /\ s.control \in Nat
  BY DEF Text
<1> QED BY <1>1 DEF Escaped

LEMMA WordEscaped ==
  ASSUME NEW k
  PROVE  Escaped(Word(k)) = 1
<1> DEFINE s == Word(k)
<1>1. s.plain = 1 /\ s.quoted = 0 /\ s.lettered = 0 /\ s.control = 0
  BY DEF Word, Empty
<1> HIDE DEF s
<1>2. Escaped(s) = 1
  BY <1>1 DEF Escaped
<1> QED BY <1>2 DEF s

LEMMA LexemesFit ==
  /\ \A t \in Kinds : Punct(t) \in Lexeme
  /\ \A k \in Names : Name(k) \in Lexeme
  /\ \A v \in Int : Num(v) \in Lexeme
  /\ \A k \in Words : Str(Word(k)) \in Lexeme
  /\ \A s \in Text : Escaped(s) <= InitialCapacity - 3 => Str(s) \in Lexeme
  /\ NotANumber \in Lexeme
<1>1. 1 \in 1..(InitialCapacity - 1) /\ 4 \in 1..(InitialCapacity - 1)
  BY CapacityAssumption
<1>2. 0 \in Int
  OBVIOUS
<1>3. Int \subseteq Contents /\ Text \subseteq Contents
  BY DEF Contents
<1>4. "string" \in Kinds /\ "number" \in Kinds /\ "nan" \in Kinds
  BY DEF Kinds
<1>5. \A t \in Kinds, v \in Contents, size \in 1..(InitialCapacity - 1) :
         [t |-> t, v |-> v, size |-> size] \in Lexeme
  BY DEF Lexeme
<1>6. \A t \in Kinds : Punct(t) \in Lexeme
  BY <1>1, <1>2, <1>3, <1>5, Zenon DEF Punct
<1>7. ASSUME NEW s \in Text, Escaped(s) <= InitialCapacity - 3 PROVE Str(s) \in Lexeme
  <2>1. Escaped(s) + 2 \in 1..(InitialCapacity - 1)
    BY <1>7, EscapedIsNat, CapacityAssumption
  <2> QED BY <2>1, <1>3, <1>4, <1>5, Zenon DEF Str
<1>8. ASSUME NEW k \in Words PROVE Str(Word(k)) \in Lexeme
  <2>1. Word(k) \in Contents
    BY DEF Contents
  <2>2. Escaped(Word(k)) + 2 \in 1..(InitialCapacity - 1)
    BY WordEscaped, CapacityAssumption
  <2> QED BY <2>1, <2>2, <1>4, <1>5, Zenon DEF Str
<1>9. \A k \in Names : Name(k) \in Lexeme
  BY <1>8, Zenon DEF Name, Words
<1>10. \A v \in Int : Num(v) \in Lexeme
  BY <1>1, <1>3, <1>4, <1>5, Zenon DEF Num
<1>11. NotANumber \in Lexeme
  BY <1>1, <1>2, <1>3, <1>4, <1>5, Zenon DEF NotANumber
<1>12. \A s \in Text : Escaped(s) <= InitialCapacity - 3 => Str(s) \in Lexeme
  BY <1>7
<1>13. \A k \in Words : Str(Word(k)) \in Lexeme
  BY <1>8
<1> QED BY <1>6, <1>9, <1>10, <1>11, <1>12, <1>13, Zenon

Sound(w) == w \in Writer /\ w.length < w.capacity

LEMMA SoundParts ==
  /\ \A w, lexeme : Sound(w) /\ lexeme \in Lexeme => Sound(Put(w, lexeme))
  /\ \A w, b : Sound(w) /\ b \in BOOLEAN => Sound(Needs(w, b))
  /\ \A w : Sound(w) => Sound(Comma(w))
<1>1. ASSUME NEW w, NEW lexeme, Sound(w), lexeme \in Lexeme PROVE Sound(Put(w, lexeme))
  BY <1>1, PutFits DEF Sound
<1>2. ASSUME NEW w, NEW b, Sound(w), b \in BOOLEAN PROVE Sound(Needs(w, b))
  BY <1>2 DEF Sound, Needs, Writer
<1>3. ASSUME NEW w, Sound(w) PROVE Sound(Comma(w))
  <2>1. Punct("comma") \in Lexeme
    BY LexemesFit DEF Kinds
  <2> QED BY <2>1, <1>1, <1>3 DEF Comma
<1> QED BY <1>1, <1>2, <1>3

LEMMA CallFits ==
  ASSUME NEW w, NEW c \in CallSet, Sound(w)
  PROVE  Sound(Call(w, c))
<1>1. c.lexeme \in Lexeme /\ c.op \in {"begin", "end", "key", "value"}
  BY DEF CallSet
<1>2. Punct("colon") \in Lexeme
  BY LexemesFit DEF Kinds
<1>3. CASE c.op = "begin"
  BY <1>1, <1>3, SoundParts DEF Call
<1>4. CASE c.op = "end"
  BY <1>1, <1>4, SoundParts DEF Call
<1>5. CASE c.op = "key"
  <2>1. Sound(Needs(Put(Comma(w), c.lexeme), FALSE))
    BY <1>1, SoundParts
  <2> QED BY <1>2, <1>5, <2>1, SoundParts DEF Call
<1>6. CASE c.op = "value"
  BY <1>1, <1>6, SoundParts DEF Call
<1> QED BY <1>1, <1>3, <1>4, <1>5, <1>6

-------------------------------------------------------------------------------
(* What the calls do to the state of a parser that reads along             *)

State(p, comma) == [p |-> p, comma |-> comma]
Separated(st) == IF st.comma THEN Accept(st.p, Punct("comma")) ELSE st.p

AfterCall(st, c) ==
    CASE c.op = "begin" -> State(Accept(Separated(st), c.lexeme), FALSE)
      [] c.op = "end" -> State(Accept(st.p, c.lexeme), TRUE)
      [] c.op = "key" ->
            State(Accept(Accept(Separated(st), c.lexeme), Punct("colon")), FALSE)
      [] c.op = "value" -> State(Accept(Separated(st), c.lexeme), TRUE)

\* The calls take the parser from x to y.
Passage(cs, x, y, f) ==
    /\ f[0] = x /\ f[Len(cs)] = y
    /\ \A i \in 1..Len(cs) : f[i] = AfterCall(f[i - 1], cs[i])
Leads(cs, x, y) == \E f : Passage(cs, x, y, f)

LEMMA NoCalls ==
  ASSUME NEW x
  PROVE  Leads(<< >>, x, x)
<1>1. Passage(<< >>, x, x, [i \in 0..0 |-> x])
  <2>1. Len(<< >>) = 0
    OBVIOUS
  <2> QED BY <2>1 DEF Passage
<1> QED BY <1>1 DEF Leads

LEMMA OneCall ==
  ASSUME NEW c, NEW x
  PROVE  Leads(<<c>>, x, AfterCall(x, c))
<1> DEFINE y == AfterCall(x, c)
           f == [i \in 0..1 |-> IF i = 0 THEN x ELSE y]
<1> HIDE DEF y
<1>1. Len(<<c>>) = 1 /\ <<c>>[1] = c
  OBVIOUS
<1>2. f[0] = x /\ f[1] = y
  OBVIOUS
<1>3. Passage(<<c>>, x, y, f)
  <2> HIDE DEF f
  <2>1. ASSUME NEW i \in 1..1 PROVE f[i] = AfterCall(f[i - 1], <<c>>[i])
    <3>1. i = 1 /\ i - 1 = 0
      OBVIOUS
    <3>2. f[1] = AfterCall(f[0], <<c>>[1])
      BY <1>1, <1>2 DEF y
    <3> QED BY <3>1, <3>2
  <2> QED BY <1>1, <1>2, <2>1 DEF Passage
<1> QED BY <1>3 DEF Leads, y

LEMMA CallsAfterCalls ==
  ASSUME NEW S, NEW a \in Seq(S), NEW b \in Seq(S), NEW x, NEW y, NEW z,
         Leads(a, x, y), Leads(b, y, z)
  PROVE  Leads(a \o b, x, z)
<1>1. PICK f : Passage(a, x, y, f)
  BY DEF Leads
<1>2. PICK g : Passage(b, y, z, g)
  BY DEF Leads
<1> DEFINE m == Len(a)
           n == Len(b)
           h == [i \in 0..(m + n) |-> IF i <= m THEN f[i] ELSE g[i - m]]
<1>3. /\ m \in Nat /\ n \in Nat /\ Len(a \o b) = m + n
      /\ \A i \in 1..m : (a \o b)[i] = a[i]
      /\ \A i \in 1..n : (a \o b)[m + i] = b[i]
  BY ConcatProperties, LenProperties
<1>4. /\ f[0] = x /\ f[m] = y /\ \A i \in 1..m : f[i] = AfterCall(f[i - 1], a[i])
      /\ g[0] = y /\ g[n] = z /\ \A i \in 1..n : g[i] = AfterCall(g[i - 1], b[i])
  BY <1>1, <1>2 DEF Passage
<1>5. /\ \A i \in 0..m : h[i] = f[i]
      /\ \A k \in m..(m + n) : h[k] = g[k - m]
  <2> HIDE DEF m, n
  <2>1. \A i \in 0..m : h[i] = f[i]
    BY <1>3
  <2>2. ASSUME NEW k \in m..(m + n) PROVE h[k] = g[k - m]
    <3>1. CASE k = m
      <4>1. k - m = 0 /\ k \in 0..m
        BY <3>1, <1>3
      <4> QED BY <4>1, <3>1, <2>1, <1>4
    <3>2. CASE k # m
      <4>1. k \in 0..(m + n) /\ ~(k <= m)
        BY <3>2, <1>3
      <4> QED BY <4>1
    <3> QED BY <3>1, <3>2
  <2> QED BY <2>1, <2>2
<1> HIDE DEF h
<1>6. ASSUME NEW i \in 1..(m + n) PROVE h[i] = AfterCall(h[i - 1], (a \o b)[i])
  <2>1. CASE i <= m
    <3>1. i \in 1..m /\ i \in 0..m /\ i - 1 \in 0..m
      BY <2>1, <1>3
    <3>2. h[i] = f[i] /\ h[i - 1] = f[i - 1] /\ (a \o b)[i] = a[i]
      BY <3>1, <1>3, <1>5
    <3> QED BY <3>1, <3>2, <1>4
  <2>2. CASE ~(i <= m)
    <3> DEFINE j == i - m
    <3>1. /\ j \in 1..n /\ i = m + j /\ i - 1 - m = j - 1
          /\ i \in m..(m + n) /\ i - 1 \in m..(m + n)
      BY <2>2, <1>3
    <3>2. h[i] = g[j] /\ h[i - 1] = g[j - 1]
      BY <3>1, <1>5
    <3> HIDE DEF j
    <3>3. (a \o b)[i] = b[j]
      BY <3>1, <1>3
    <3> QED BY <3>1, <3>2, <3>3, <1>4
  <2> QED BY <2>1, <2>2
<1>7. h[0] = x /\ h[m + n] = z
  <2>1. 0 \in 0..m /\ m + n \in m..(m + n) /\ m + n - m = n
    BY <1>3
  <2> QED BY <2>1, <1>4, <1>5
<1> QED BY <1>3, <1>6, <1>7 DEF Leads, Passage

LEMMA CallsLeft ==
  ASSUME NEW S, NEW cs \in Seq(S), cs # << >>, NEW x, NEW y, Leads(cs, x, y)
  PROVE  Leads(Tail(cs), AfterCall(x, Head(cs)), y)
<1>1. PICK f : Passage(cs, x, y, f)
  BY DEF Leads
<1> DEFINE n == Len(cs)
           g == [i \in 0..(n - 1) |-> f[i + 1]]
<1>2. /\ n \in Nat /\ n >= 1 /\ Head(cs) = cs[1] /\ Len(Tail(cs)) = n - 1
      /\ \A i \in 1..(n - 1) : Tail(cs)[i] = cs[i + 1]
  BY HeadTailProperties, EmptySeq, LenProperties
<1>3. f[0] = x /\ f[n] = y /\ \A i \in 1..n : f[i] = AfterCall(f[i - 1], cs[i])
  BY <1>1 DEF Passage
<1> HIDE DEF n
<1>4. g[0] = AfterCall(x, Head(cs))
  <2>1. g[0] = f[1] /\ 1 \in 1..n /\ 1 - 1 = 0
    BY <1>2
  <2> QED BY <2>1, <1>2, <1>3
<1>5. g[n - 1] = y
  <2>1. n - 1 \in 0..(n - 1) /\ n - 1 + 1 = n
    BY <1>2
  <2> QED BY <2>1, <1>3
<1>6. ASSUME NEW i \in 1..(n - 1) PROVE g[i] = AfterCall(g[i - 1], Tail(cs)[i])
  <2>1. /\ i \in 0..(n - 1) /\ i - 1 \in 0..(n - 1) /\ i - 1 + 1 = i
        /\ i + 1 \in 1..n /\ i + 1 - 1 = i
    BY <1>2
  <2>2. g[i] = f[i + 1] /\ g[i - 1] = f[i]
    BY <2>1
  <2>3. f[i + 1] = AfterCall(f[i], cs[i + 1])
    BY <2>1, <1>3
  <2> QED BY <2>2, <2>3, <1>2
<1> HIDE DEF g
<1> QED BY <1>2, <1>4, <1>5, <1>6 DEF Leads, Passage

-------------------------------------------------------------------------------
(* Values and bodies                                                       *)

Brackets == {"object_start", "array_start"}
Stacks == Seq(Brackets)

\* Where a value is due, inside a bracket as it was opened, and after a value.
Awaiting(stack) == State(At(stack, {"value"}), FALSE)
Fresh(stack) == State(Within(stack), FALSE)
Done(stack) == State(Beyond(stack), TRUE)
In(stack) == {Fresh(stack), Done(stack)}
Inside(stack, bracket) == stack # << >> /\ Last(stack) = bracket
Ready(stack) ==
    {Awaiting(stack)} \cup (IF Inside(stack, "array_start") THEN In(stack) ELSE {})

Values ==
    {cs \in Calls : \A stack \in Stacks : \A x \in Ready(stack) : Leads(cs, x, Done(stack))}
Bodies(bracket) ==
    {cs \in Calls : \A stack \in Stacks : Inside(stack, bracket) =>
         \A x \in In(stack) : \E y \in In(stack) : Leads(cs, x, y)}

LEMMA Accepted ==
  ASSUME NEW stack, NEW next
  PROVE  /\ \A b \in Brackets : "value" \in next =>
                Accept(At(stack, next), Punct(b)) = Within(Append(stack, b))
         /\ \A b \in {"object_end", "array_end"} : b \in next =>
                Accept(At(stack, next), Punct(b)) = Beyond(Front(stack))
         /\ "comma" \in next =>
                Accept(At(stack, next), Punct("comma")) = At(stack, {Item(Last(stack))})
         /\ "colon" \in next =>
                Accept(At(stack, next), Punct("colon")) = At(stack, {"value"})
         /\ \A k : "name" \in next /\ "value" \notin next =>
                Accept(At(stack, next), Name(k)) = At(stack, {"colon"})
         /\ \A c : c.t \in {"string", "number"} /\ "value" \in next /\ "name" \notin next =>
                Accept(At(stack, next), c) = Beyond(stack)
<1>1. ASSUME NEW b \in Brackets, "value" \in next
      PROVE  Accept(At(stack, next), Punct(b)) = Within(Append(stack, b))
  BY <1>1 DEF Brackets, Accept, At, Punct
<1>2. ASSUME NEW b \in {"object_end", "array_end"}, b \in next
      PROVE  Accept(At(stack, next), Punct(b)) = Beyond(Front(stack))
  BY <1>2 DEF Accept, At, Punct
<1>3. ASSUME "comma" \in next
      PROVE  Accept(At(stack, next), Punct("comma")) = At(stack, {Item(Last(stack))})
  BY <1>3 DEF Accept, At, Punct
<1>4. ASSUME "colon" \in next
      PROVE  Accept(At(stack, next), Punct("colon")) = At(stack, {"value"})
  BY <1>4 DEF Accept, At, Punct
<1>5. ASSUME NEW k, "name" \in next, "value" \notin next
      PROVE  Accept(At(stack, next), Name(k)) = At(stack, {"colon"})
  BY <1>5 DEF Accept, At, Name, Str
<1>6. ASSUME NEW c, c.t \in {"string", "number"}, "value" \in next, "name" \notin next
      PROVE  Accept(At(stack, next), c) = Beyond(stack)
  <2>1. CASE c.t = "string"
    BY <2>1, <1>6 DEF Accept, At
  <2>2. CASE c.t = "number"
    BY <2>2, <1>6 DEF Accept, At
  <2> QED BY <2>1, <2>2, <1>6
<1> QED BY <1>1, <1>2, <1>3, <1>4, <1>5, <1>6

LEMMA Pushed ==
  ASSUME NEW stack \in Stacks, NEW b \in Brackets
  PROVE  /\ Append(stack, b) \in Stacks
         /\ Append(stack, b) # << >>
         /\ Last(Append(stack, b)) = b
         /\ Front(Append(stack, b)) = stack
<1> DEFINE s == Append(stack, b)
           n == Len(stack)
<1>1. /\ stack \in Seq(Brackets) /\ n \in Nat /\ s \in Seq(Brackets) /\ Len(s) = n + 1
      /\ \A i \in 1..n : s[i] = stack[i]
      /\ s[n + 1] = b
  BY AppendProperties, LenProperties DEF Stacks
<1> HIDE DEF s
<1>2. s # << >>
  BY <1>1, EmptySeq
<1>3. Last(s) = b
  BY <1>1 DEF Last
<1>4. Front(s) = stack
  <2>1. Front(s) = SubSeq(s, 1, n)
    BY <1>1 DEF Front
  <2>2. /\ SubSeq(s, 1, n) \in Seq(Brackets) /\ Len(SubSeq(s, 1, n)) = n
        /\ \A i \in 1..n : SubSeq(s, 1, n)[i] = s[i]
    BY <1>1, SubSeqProperties
  <2> QED BY <1>1, <2>1, <2>2, SeqEqual
<1> QED BY <1>1, <1>2, <1>3, <1>4 DEF s, Stacks

(* Where a value may stand, the parser is ready for it once the writer has  *)
(* put its comma.                                                           *)
LEMMA ReadyForValue ==
  ASSUME NEW stack \in Stacks, NEW x \in Ready(stack)
  PROVE  \E next : /\ Separated(x) = At(stack, next)
                   /\ "value" \in next /\ "name" \notin next
<1>1. CASE x = Awaiting(stack)
  <2>1. Separated(x) = At(stack, {"value"})
    BY <1>1 DEF Awaiting, Separated, State
  <2> QED BY <2>1
<1>2. CASE x = Fresh(stack) /\ Inside(stack, "array_start")
  <2>1. Separated(x) = At(stack, {"value", "array_end"})
    BY <1>2 DEF Fresh, Separated, State, Inside, Within, Item, Closing
  <2> QED BY <2>1
<1>3. CASE x = Done(stack) /\ Inside(stack, "array_start")
  <2>1. x.comma = TRUE /\ x.p = At(stack, {"comma", "array_end"})
    BY <1>3 DEF Done, State, Inside, Beyond, Closing
  <2>2. Separated(x) = Accept(At(stack, {"comma", "array_end"}), Punct("comma"))
    BY <2>1 DEF Separated
  <2>3. Separated(x) = At(stack, {Item(Last(stack))})
    BY <2>2, Accepted
  <2>4. Item(Last(stack)) = "value"
    BY <1>3 DEF Inside, Item
  <2>5. Separated(x) = At(stack, {"value"})
    BY <2>3, <2>4
  <2> QED BY <2>5
<1> QED BY <1>1, <1>2, <1>3 DEF Ready, In

(* Inside an object, likewise for a name.                                  *)
LEMMA ReadyForName ==
  ASSUME NEW stack \in Stacks, Inside(stack, "object_start"), NEW x \in In(stack)
  PROVE  \E next : /\ Separated(x) = At(stack, next)
                   /\ "name" \in next /\ "value" \notin next
<1>1. CASE x = Fresh(stack)
  <2>1. Separated(x) = At(stack, {"name", "object_end"})
    BY <1>1 DEF Fresh, Separated, State, Inside, Within, Item, Closing
  <2> QED BY <2>1
<1>2. CASE x = Done(stack)
  <2>1. x.comma = TRUE /\ x.p = At(stack, {"comma", "object_end"})
    BY <1>2 DEF Done, State, Inside, Beyond, Closing
  <2>2. Separated(x) = Accept(At(stack, {"comma", "object_end"}), Punct("comma"))
    BY <2>1 DEF Separated
  <2>3. Separated(x) = At(stack, {Item(Last(stack))})
    BY <2>2, Accepted
  <2>4. Item(Last(stack)) = "name"
    BY DEF Inside, Item
  <2>5. Separated(x) = At(stack, {"name"})
    BY <2>3, <2>4
  <2> QED BY <2>5
<1> QED BY <1>1, <1>2 DEF In

LEMMA ScalarIsValue ==
  ASSUME NEW lexeme \in Lexeme, lexeme.t \in {"string", "number"}
  PROVE  Value(lexeme) \in Values
<1> DEFINE c == Do("value", lexeme)
<1>1. c \in CallSet /\ Value(lexeme) = <<c>>
  BY DEF CallSet, Do, Value
<1>2. ASSUME NEW stack \in Stacks, NEW x \in Ready(stack)
      PROVE  AfterCall(x, c) = Done(stack)
  <2>1. PICK next : /\ Separated(x) = At(stack, next)
                    /\ "value" \in next /\ "name" \notin next
    BY ReadyForValue
  <2>2. Accept(At(stack, next), lexeme) = Beyond(stack)
    BY <2>1, Accepted
  <2>3. AfterCall(x, c) = State(Accept(Separated(x), lexeme), TRUE)
    BY DEF AfterCall, Do
  <2> QED BY <2>1, <2>2, <2>3 DEF Done
<1> HIDE DEF c
<1>3. <<c>> \in Calls
  BY <1>1 DEF Calls
<1>4. ASSUME NEW stack \in Stacks, NEW x \in Ready(stack)
      PROVE  Leads(<<c>>, x, Done(stack))
  BY <1>2, OneCall, Zenon
<1> QED BY <1>1, <1>3, <1>4 DEF Values

LEMMA BracketedIsValue ==
  ASSUME NEW b \in Brackets, NEW body \in Bodies(b)
  PROVE  Begin(b) \o body \o End(Closing(b)) \in Values
<1> DEFINE c == Do("begin", Punct(b))
           d == Do("end", Punct(Closing(b)))
<1>1. Closing(b) \in {"object_end", "array_end"}
  BY DEF Closing
<1>2. c \in CallSet /\ d \in CallSet /\ Begin(b) = <<c>> /\ End(Closing(b)) = <<d>>
  <2>1. Punct(b) \in Lexeme /\ Punct(Closing(b)) \in Lexeme
    <3>1. b \in Kinds /\ Closing(b) \in Kinds
      BY <1>1 DEF Kinds, Brackets
    <3> QED BY <3>1, LexemesFit
  <2> QED BY <2>1 DEF CallSet, Do, Begin, End
<1>3. ASSUME NEW stack \in Stacks, NEW x \in Ready(stack)
      PROVE  AfterCall(x, c) = Fresh(Append(stack, b))
  <2>1. PICK next : /\ Separated(x) = At(stack, next)
                    /\ "value" \in next /\ "name" \notin next
    BY ReadyForValue
  <2>2. Accept(At(stack, next), Punct(b)) = Within(Append(stack, b))
    BY <2>1, Accepted
  <2>3. AfterCall(x, c) = State(Accept(Separated(x), Punct(b)), FALSE)
    BY DEF AfterCall, Do
  <2> QED BY <2>1, <2>2, <2>3 DEF Fresh
<1>4. ASSUME NEW stack \in Stacks, NEW y \in In(Append(stack, b))
      PROVE  AfterCall(y, d) = Done(stack)
  <2> DEFINE s == Append(stack, b)
  <2>1. s # << >> /\ Last(s) = b /\ Front(s) = stack
    BY Pushed
  <2> HIDE DEF s
  <2>2. PICK next : y.p = At(s, next) /\ Closing(b) \in next
    <3>1. CASE y = Fresh(s)
      <4>1. y.p = At(s, {Item(b), Closing(b)})
        BY <3>1, <2>1 DEF Fresh, State, Within
      <4> QED BY <4>1
    <3>2. CASE y = Done(s)
      <4>1. y.p = At(s, {"comma", Closing(b)})
        BY <3>2, <2>1 DEF Done, State, Beyond
      <4> QED BY <4>1
    <3> QED BY <3>1, <3>2 DEF In, s
  <2>3. Accept(At(s, next), Punct(Closing(b))) = Beyond(Front(s))
    BY <1>1, <2>2, Accepted
  <2>4. AfterCall(y, d) = State(Accept(y.p, Punct(Closing(b))), TRUE)
    BY DEF AfterCall, Do
  <2> QED BY <2>1, <2>2, <2>3, <2>4 DEF Done
<1> HIDE DEF c, d
<1>5. /\ body \in Seq(CallSet) /\ <<c>> \in Seq(CallSet) /\ <<d>> \in Seq(CallSet)
      /\ <<c>> \o body \in Seq(CallSet) /\ <<c>> \o body \o <<d>> \in Seq(CallSet)
  <2>1. body \in Seq(CallSet) /\ <<c>> \in Seq(CallSet) /\ <<d>> \in Seq(CallSet)
    BY <1>2 DEF Bodies, Calls
  <2> QED BY <2>1, ConcatProperties
<1>6. ASSUME NEW stack \in Stacks, NEW x \in Ready(stack)
      PROVE  Leads(<<c>> \o body \o <<d>>, x, Done(stack))
  <2> DEFINE s == Append(stack, b)
  <2>1. s \in Stacks /\ Inside(s, b)
    BY Pushed DEF Inside
  <2> HIDE DEF s
  <2>2. Fresh(s) \in In(s)
    BY DEF In
  <2>3. PICK y \in In(s) : Leads(body, Fresh(s), y)
    BY <2>1, <2>2 DEF Bodies
  <2>4. Leads(<<c>>, x, Fresh(s)) /\ Leads(<<d>>, y, Done(stack))
    <3>1. AfterCall(x, c) = Fresh(s) /\ AfterCall(y, d) = Done(stack)
      BY <1>3, <1>4 DEF s
    <3> QED BY <3>1, OneCall, Zenon
  <2>5. Leads(<<c>> \o body, x, y)
    BY <1>5, <2>3, <2>4, CallsAfterCalls
  <2> QED BY <1>5, <2>4, <2>5, CallsAfterCalls
<1> QED BY <1>2, <1>5, <1>6 DEF Values, Calls

LEMMA FieldIsBody ==
  ASSUME NEW k \in Names, NEW value \in Values
  PROVE  Field(k, value) \in Bodies("object_start")
<1> DEFINE c == Do("key", Name(k))
<1>1. c \in CallSet /\ Field(k, value) = <<c>> \o value
  <2>1. Name(k) \in Lexeme
    BY LexemesFit
  <2> QED BY <2>1 DEF CallSet, Do, Field
<1>2. ASSUME NEW stack \in Stacks, Inside(stack, "object_start"), NEW x \in In(stack)
      PROVE  AfterCall(x, c) = Awaiting(stack)
  <2>1. PICK next : /\ Separated(x) = At(stack, next)
                    /\ "name" \in next /\ "value" \notin next
    BY <1>2, ReadyForName
  <2>2. Accept(At(stack, next), Name(k)) = At(stack, {"colon"})
    BY <2>1, Accepted
  <2>3. Accept(At(stack, {"colon"}), Punct("colon")) = At(stack, {"value"})
    BY Accepted
  <2>4. AfterCall(x, c) =
            State(Accept(Accept(Separated(x), Name(k)), Punct("colon")), FALSE)
    BY DEF AfterCall, Do
  <2> QED BY <2>1, <2>2, <2>3, <2>4 DEF Awaiting
<1> HIDE DEF c
<1>3. value \in Seq(CallSet) /\ <<c>> \in Seq(CallSet) /\ <<c>> \o value \in Seq(CallSet)
  <2>1. value \in Seq(CallSet) /\ <<c>> \in Seq(CallSet)
    BY <1>1 DEF Values, Calls
  <2> QED BY <2>1, ConcatProperties
<1>4. ASSUME NEW stack \in Stacks, Inside(stack, "object_start"), NEW x \in In(stack)
      PROVE  Leads(<<c>> \o value, x, Done(stack))
  <2>1. Leads(<<c>>, x, Awaiting(stack))
    BY <1>2, <1>4, OneCall, Zenon
  <2>2. Leads(value, Awaiting(stack), Done(stack))
    BY DEF Values, Ready
  <2> QED BY <1>3, <2>1, <2>2, CallsAfterCalls
<1> QED BY <1>1, <1>3, <1>4 DEF Bodies, Calls, In

LEMMA ValueIsBody ==
  Values \subseteq Bodies("array_start")
<1> SUFFICES ASSUME NEW value \in Values, NEW stack \in Stacks,
                    Inside(stack, "array_start"), NEW x \in In(stack)
             PROVE  \E y \in In(stack) : Leads(value, x, y)
  BY DEF Bodies, Values
<1>1. x \in Ready(stack) /\ Done(stack) \in In(stack)
  BY DEF Ready, In
<1> QED BY <1>1 DEF Values

LEMMA BodiesJoin ==
  ASSUME NEW bracket
  PROVE  /\ << >> \in Bodies(bracket)
         /\ \A a, b \in Bodies(bracket) : a \o b \in Bodies(bracket)
<1>1. << >> \in Bodies(bracket)
  <2>1. << >> \in Calls
    BY EmptySeq DEF Calls
  <2> QED BY <2>1, NoCalls, Zenon DEF Bodies
<1>2. ASSUME NEW a \in Bodies(bracket), NEW b \in Bodies(bracket)
      PROVE  a \o b \in Bodies(bracket)
  <2>1. a \in Seq(CallSet) /\ b \in Seq(CallSet)
    BY DEF Bodies, Calls
  <2>2. a \o b \in Calls
    BY <2>1, ConcatProperties DEF Calls
  <2>3. ASSUME NEW stack \in Stacks, Inside(stack, bracket), NEW x \in In(stack)
        PROVE  \E z \in In(stack) : Leads(a \o b, x, z)
    <3>1. PICK y \in In(stack) : Leads(a, x, y)
      BY <2>3 DEF Bodies
    <3>2. PICK z \in In(stack) : Leads(b, y, z)
      BY <2>3 DEF Bodies
    <3> QED BY <2>1, <3>1, <3>2, CallsAfterCalls
  <2> QED BY <2>2, <2>3 DEF Bodies
<1> QED BY <1>1, <1>2

-------------------------------------------------------------------------------
(* Loops of serializers                                                    *)

(* A set of numbers has a least one; what holds of every number is shown by *)
(* way of the least of those it would not hold of.                          *)
LEMMA LeastNatural ==
  ASSUME NEW T \in SUBSET Nat, T # {}
  PROVE  \E m \in T : \A n \in T : m <= n
<1> DEFINE U == {0..t : t \in T}
<1>1. U \subseteq FiniteSubsetsOf(Nat)
  <2> SUFFICES ASSUME NEW t \in T PROVE 0..t \in SUBSET Nat /\ IsFiniteSet(0..t)
    BY DEF FiniteSubsetsOf
  <2>. QED BY FS_Interval
<1>2. U # {}
  OBVIOUS
<1>3. PICK x \in U : \A y \in U : ~(<<y, x>> \in StrictSubsetOrdering(Nat))
  <2> HIDE DEF U
  <2>. QED BY <1>1, <1>2, FS_StrictSubsetOrderingWellFounded, WFMin
<1>4. PICK m \in T : x = 0..m
  BY <1>3
<1>5. ASSUME NEW n \in T PROVE m <= n
  <2> SUFFICES ASSUME n < m PROVE FALSE
    OBVIOUS
  <2>1. 0..n \subseteq 0..m /\ m \in 0..m /\ m \notin 0..n
    OBVIOUS
  <2>2. <<0..n, 0..m>> \in StrictSubsetOrdering(Nat)
    BY <2>1 DEF StrictSubsetOrdering
  <2>. QED BY <1>3, <1>4, <2>2
<1>. QED BY <1>4, <1>5

LEMMA JoinedIn ==
  ASSUME NEW X, << >> \in X, \A a, b \in X : a \o b \in X,
         NEW parts, Len(parts) \in Nat, \A i \in 1..Len(parts) : parts[i] \in X
  PROVE  Joined(parts) \in X
<1> DEFINE N == Len(parts)
           Upto(f, m) == f[0] = << >> /\ \A n \in 1..m : f[n] = f[n - 1] \o parts[n]
           Is(f) == f = [n \in 0..N |-> IF n = 0 THEN << >> ELSE f[n - 1] \o parts[n]]
           Undone == {m \in 0..N : ~\E f \in [0..m -> X] : Upto(f, m)}
<1>1. N \in Nat /\ \A i \in 1..N : parts[i] \in X
  OBVIOUS
<1>2. Joined(parts) = (CHOOSE f : Is(f))[N]
  BY DEF Joined
<1> HIDE DEF N
<1>3. N \notin Undone
  <2> SUFFICES ASSUME N \in Undone PROVE FALSE
    OBVIOUS
  <2>1. PICK m \in Undone : \A n \in Undone : m <= n
    <3>1. Undone \in SUBSET Nat /\ Undone # {}
      <4> HIDE DEF Upto
      <4>1. Undone \subseteq 0..N
        OBVIOUS
      <4> QED BY <4>1, <1>1
    <3> HIDE DEF Undone
    <3> QED BY <3>1, LeastNatural
  <2>2. m # 0
    <3> SUFFICES ASSUME m = 0 PROVE FALSE
      OBVIOUS
    <3>1. [n \in 0..0 |-> << >>] \in [0..0 -> X] /\ Upto([n \in 0..0 |-> << >>], 0)
      OBVIOUS
    <3> QED BY <3>1
  <2>3. m \in 1..N /\ m - 1 \in 0..N /\ m - 1 \notin Undone
    <3> HIDE DEF Upto
    <3>1. m \in 0..N
      OBVIOUS
    <3>2. m \in 1..N /\ m - 1 \in 0..N /\ ~(m <= m - 1)
      BY <3>1, <2>2, <1>1
    <3> HIDE DEF Undone
    <3> QED BY <3>2, <2>1
  <2>4. PICK f \in [0..(m - 1) -> X] : Upto(f, m - 1)
    <3> HIDE DEF Upto
    <3> QED BY <2>3
  <2> DEFINE last == f[m - 1] \o parts[m]
             g == [n \in 0..m |-> IF n = m THEN last ELSE f[n]]
  <2>5. last \in X
    <3>1. f[m - 1] \in X /\ parts[m] \in X
      BY <2>3, <2>4, <1>1
    <3> QED BY <3>1
  <2> HIDE DEF last
  <2>6. g \in [0..m -> X]
    BY <2>3, <2>5, <1>1
  <2>7. Upto(g, m)
    <3>1. g[0] = << >>
      BY <2>2, <2>3, <2>4, <1>1
    <3>2. ASSUME NEW n \in 1..m PROVE g[n] = g[n - 1] \o parts[n]
      <4>1. g[n - 1] = f[n - 1]
        BY <2>3, <1>1
      <4>2. CASE n = m
        BY <4>1, <4>2, <2>3, <1>1 DEF last
      <4>3. CASE n # m
        <5>1. n \in 1..(m - 1) /\ g[n] = f[n]
          BY <4>3, <2>3, <1>1
        <5> QED BY <5>1, <4>1, <2>4
      <4> QED BY <4>2, <4>3
    <3> QED BY <3>1, <3>2
  <2>8. m \notin Undone
    BY <2>6, <2>7
  <2> QED BY <2>1, <2>8
<1>4. PICK f \in [0..N -> X] : Upto(f, N)
  <2>1. N \in 0..N
    BY <1>1
  <2> HIDE DEF Upto
  <2> QED BY <1>3, <2>1
<1>5. Is(f)
  <2>1. ASSUME NEW n \in 0..N
        PROVE  f[n] = IF n = 0 THEN << >> ELSE f[n - 1] \o parts[n]
    <3>1. CASE n = 0
      BY <3>1, <1>4
    <3>2. CASE n # 0
      <4>1. n \in 1..N
        BY <3>2, <1>1
      <4> QED BY <3>2, <4>1, <1>4
    <3> QED BY <3>1, <3>2
  <2> QED BY <2>1, <1>4
<1> DEFINE h == CHOOSE u : Is(u)
<1>6. Is(h)
  <2> HIDE DEF Is
  <2> QED BY <1>5
<1> HIDE DEF h
<1>7. h[0] = << >> /\ \A n \in 1..N : h[n] = h[n - 1] \o parts[n]
  <2>1. h[0] = << >>
    <3>1. 0 \in 0..N
      BY <1>1
    <3> QED BY <3>1, <1>6
  <2>2. ASSUME NEW n \in 1..N PROVE h[n] = h[n - 1] \o parts[n]
    <3>1. n \in 0..N /\ n # 0
      BY <1>1
    <3> QED BY <3>1, <1>6
  <2> QED BY <2>1, <2>2
<1> HIDE DEF Is
<1> DEFINE Outside == {n \in 0..N : h[n] \notin X}
<1>8. N \notin Outside
  <2> SUFFICES ASSUME N \in Outside PROVE FALSE
    OBVIOUS
  <2>1. PICK m \in Outside : \A n \in Outside : m <= n
    <3>1. Outside \in SUBSET Nat /\ Outside # {}
      BY <1>1
    <3> HIDE DEF Outside
    <3> QED BY <3>1, LeastNatural
  <2>2. m # 0
    BY <1>7
  <2>3. m \in 1..N /\ m - 1 \in 0..N /\ ~(m <= m - 1)
    BY <2>1, <2>2, <1>1
  <2>4. h[m - 1] \in X
    BY <2>1, <2>3
  <2>5. h[m] \in X
    BY <2>3, <2>4, <1>1, <1>7
  <2> QED BY <2>5
<1>9. h[N] \in X
  BY <1>1, <1>8
<1> QED BY <1>2, <1>9 DEF h

-------------------------------------------------------------------------------
(* The serializers                                                         *)

ObjBodies == Bodies("object_start")
ArrBodies == Bodies("array_start")

LEMMA ObjAndArr ==
  /\ \A body \in ObjBodies : Obj(body) \in Values
  /\ \A body \in ArrBodies : Arr(body) \in Values
  /\ \A body \in Calls : Obj(body) \in Calls /\ Arr(body) \in Calls
<1>1. ASSUME NEW body \in ObjBodies PROVE Obj(body) \in Values
  <2>1. Closing("object_start") = "object_end" /\ "object_start" \in Brackets
    BY DEF Closing, Brackets
  <2>2. Begin("object_start") \o body \o End(Closing("object_start")) \in Values
    BY <2>1, BracketedIsValue DEF ObjBodies
  <2> QED BY <2>1, <2>2 DEF Obj
<1>2. ASSUME NEW body \in ArrBodies PROVE Arr(body) \in Values
  <2>1. Closing("array_start") = "array_end" /\ "array_start" \in Brackets
    BY DEF Closing, Brackets
  <2>2. Begin("array_start") \o body \o End(Closing("array_start")) \in Values
    BY <2>1, BracketedIsValue DEF ArrBodies
  <2> QED BY <2>1, <2>2 DEF Arr
<1>3. ASSUME NEW body \in Calls PROVE Obj(body) \in Calls /\ Arr(body) \in Calls
  <2>1. ASSUME NEW t \in Kinds PROVE Begin(t) \in Seq(CallSet) /\ End(t) \in Seq(CallSet)
    <3>1. Punct(t) \in Lexeme
      BY LexemesFit
    <3> QED BY <3>1 DEF CallSet, Do, Begin, End
  <2>2. ASSUME NEW t \in Kinds, NEW u \in Kinds
        PROVE  Begin(t) \o body \o End(u) \in Seq(CallSet)
    <3>1. Begin(t) \in Seq(CallSet) /\ End(u) \in Seq(CallSet) /\ body \in Seq(CallSet)
      BY <2>1 DEF Calls
    <3>2. Begin(t) \o body \in Seq(CallSet)
      BY <3>1, ConcatProperties
    <3> QED BY <3>1, <3>2, ConcatProperties
  <2>3. /\ "object_start" \in Kinds /\ "object_end" \in Kinds
        /\ "array_start" \in Kinds /\ "array_end" \in Kinds
    BY DEF Kinds
  <2> QED BY <2>2, <2>3 DEF Obj, Arr, Calls
<1> QED BY <1>1, <1>2, <1>3

LEMMA Scalars ==
  /\ \A v \in Int : Value(Num(v)) \in Values
  /\ \A k \in Words : Value(Str(Word(k))) \in Values
  /\ \A s \in Text : Escaped(s) <= InitialCapacity - 3 => Value(Str(s)) \in Values
<1>1. ASSUME NEW v PROVE Num(v).t = "number" /\ Str(v).t = "string"
  BY DEF Num, Str
<1>2. \A v \in Int : Value(Num(v)) \in Values
  BY <1>1, LexemesFit, ScalarIsValue
<1>3. \A k \in Words : Value(Str(Word(k))) \in Values
  BY <1>1, LexemesFit, ScalarIsValue
<1>4. \A s \in Text : Escaped(s) <= InitialCapacity - 3 => Value(Str(s)) \in Values
  BY <1>1, LexemesFit, ScalarIsValue
<1> QED BY <1>2, <1>3, <1>4

LEMMA Fields ==
  /\ \A k \in Names, value \in Values : Field(k, value) \in ObjBodies
  /\ \A a, b \in ObjBodies : a \o b \in ObjBodies
  /\ \A k \in Names, value \in Calls : Field(k, value) \in Calls
  /\ \A a, b \in Calls : a \o b \in Calls
  /\ Values \subseteq Calls /\ ObjBodies \subseteq Calls /\ ArrBodies \subseteq Calls
<1>1. \A k \in Names, value \in Values : Field(k, value) \in ObjBodies
  BY FieldIsBody DEF ObjBodies
<1>2. \A a, b \in ObjBodies : a \o b \in ObjBodies
  BY BodiesJoin DEF ObjBodies
<1>3. \A a, b \in Calls : a \o b \in Calls
  BY ConcatProperties DEF Calls
<1>4. ASSUME NEW k \in Names, NEW value \in Calls PROVE Field(k, value) \in Calls
  <2>1. Name(k) \in Lexeme
    BY LexemesFit
  <2>2. <<Do("key", Name(k))>> \in Calls
    BY <2>1 DEF CallSet, Do, Calls
  <2> QED BY <2>2, <1>3 DEF Field
<1>5. Values \subseteq Calls /\ ObjBodies \subseteq Calls /\ ArrBodies \subseteq Calls
  BY DEF Values, ObjBodies, ArrBodies, Bodies
<1> QED BY <1>1, <1>2, <1>3, <1>4, <1>5

LEMMA ProcIsValue ==
  ASSUME NEW p \in ProcEntry
  PROVE  serialize_proc_entry(p) \in Values
<1>1. /\ p.pid \in Int /\ p.cmdline \in Text /\ Escaped(p.cmdline) <= InitialCapacity - 3
      /\ 1 \in Int
  BY DEF ProcEntry
<1>2. "pid" \in Names /\ "cmdline" \in Names /\ "rss_mib" \in Names
  BY DEF Names
<1>3. /\ Field("pid", Value(Num(p.pid))) \in ObjBodies
      /\ Field("cmdline", Value(Str(p.cmdline))) \in ObjBodies
      /\ Field("rss_mib", Value(Num(1))) \in ObjBodies
  BY <1>1, <1>2, Scalars, Fields, Zenon
<1> QED BY <1>3, Fields, ObjAndArr, Zenon DEF serialize_proc_entry

LEMMA ProcsAreValue ==
  ASSUME NEW procs \in Seq(ProcEntry)
  PROVE  serialize_procs(procs) \in Values
<1> DEFINE parts == [i \in 1..Len(procs) |-> serialize_proc_entry(procs[i])]
<1>1. /\ Len(procs) \in Nat
      /\ \A i \in 1..Len(procs) : serialize_proc_entry(procs[i]) \in Values
  <2>1. \A i \in 1..Len(procs) : procs[i] \in ProcEntry
    BY ElementOfSeq
  <2> QED BY <2>1, ProcIsValue, LenProperties
<1>2. parts \in Seq(Values) /\ Len(parts) = Len(procs)
  <2>1. parts \in [1..Len(procs) -> Values]
    BY <1>1
  <2> HIDE DEF parts
  <2> QED BY <2>1, <1>1
<1>3. Len(parts) \in Nat /\ \A i \in 1..Len(parts) : parts[i] \in ArrBodies
  <2> HIDE DEF parts
  <2>1. \A i \in 1..Len(parts) : parts[i] \in Values
    BY <1>2, ElementOfSeq
  <2> QED BY <2>1, <1>1, <1>2, ValueIsBody DEF ArrBodies
<1> HIDE DEF parts
<1>4. Joined(parts) \in ArrBodies
  <2>1. << >> \in ArrBodies /\ \A a, b \in ArrBodies : a \o b \in ArrBodies
    BY BodiesJoin DEF ArrBodies
  <2> QED BY <2>1, <1>3, JoinedIn
<1>5. Arr(Joined(parts)) \in Values
  BY <1>4, ObjAndArr
<1> QED BY <1>5 DEF serialize_procs, parts

LEMMA AnomalyIsValue ==
  ASSUME NEW a, a.type \in Words, a.pid \in Int
  PROVE  serialize_anomaly(a) \in Values
<1>1. /\ "type" \in Names /\ "pid" \in Names /\ "policy" \in Names
      /\ "origin_snapshot_index" \in Names /\ "scope_key" \in Names /\ 0 \in Int
  BY DEF Names
<1>2. Field("scope_key", Value(Num(a.pid))) \in ObjBodies
  BY <1>1, Scalars, Fields, Zenon
<1>3. serialize_policy(a) \in Values
  BY <1>2, ObjAndArr, Zenon DEF serialize_policy
<1>4. /\ Field("type", Value(Str(Word(a.type)))) \in ObjBodies
      /\ Field("pid", Value(Num(a.pid))) \in ObjBodies
      /\ Field("policy", serialize_policy(a)) \in ObjBodies
      /\ Field("origin_snapshot_index", Value(Num(0))) \in ObjBodies
  BY <1>1, <1>3, Scalars, Fields, Zenon
<1> QED BY <1>4, Fields, ObjAndArr, Zenon DEF serialize_anomaly

(* Used memory of a snapshot without any total prints as nan, which makes  *)
(* calls to the writer, but not a value.                                   *)
LEMMA SnapshotCalls ==
  ASSUME NEW s \in Snapshot
  PROVE  /\ serialize_snapshot(s) \in Calls
         /\ s.mem => serialize_snapshot(s) \in Values
<1> DEFINE cpu == Arr(Value(Num(1)) \o Value(Num(2)))
           used == Value(IF s.mem THEN Num(1) ELSE NotANumber)
           before == Field("timestamp_ns", Value(Num(1))) \o
                     Field("cpu", Obj(Field("per_core_pct", cpu)))
           mem == Field("mem", Obj(Field("used_pct", used)))
           procs == Field("procs", serialize_procs(s.procs))
           top == Field("top_rss_procs", serialize_procs(s.top_rss_procs))
<1>1. /\ "timestamp_ns" \in Names /\ "cpu" \in Names /\ "per_core_pct" \in Names
      /\ "mem" \in Names /\ "used_pct" \in Names /\ "procs" \in Names
      /\ "top_rss_procs" \in Names /\ 1 \in Int /\ 2 \in Int
  BY DEF Names
<1>2. cpu \in Values
  <2>1. Value(Num(1)) \in Values /\ Value(Num(2)) \in Values
    BY <1>1, Scalars, Zenon
  <2>2. Value(Num(1)) \o Value(Num(2)) \in ArrBodies
    BY <2>1, ValueIsBody, BodiesJoin DEF ArrBodies
  <2> QED BY <2>2, ObjAndArr
<1> HIDE DEF cpu
<1>3. before \in ObjBodies
  <2>1. Obj(Field("per_core_pct", cpu)) \in Values
    BY <1>1, <1>2, Fields, ObjAndArr, Zenon
  <2>2. /\ Field("timestamp_ns", Value(Num(1))) \in ObjBodies
        /\ Field("cpu", Obj(Field("per_core_pct", cpu))) \in ObjBodies
    BY <1>1, <2>1, Scalars, Fields, Zenon
  <2> QED BY <2>2, Fields, Zenon
<1>4. procs \in ObjBodies /\ top \in ObjBodies
  <2>1. s.procs \in Seq(ProcEntry) /\ s.top_rss_procs \in Seq(ProcEntry)
    BY DEF Snapshot
  <2>2. serialize_procs(s.procs) \in Values /\ serialize_procs(s.top_rss_procs) \in Values
    BY <2>1, ProcsAreValue
  <2> QED BY <1>1, <2>2, Fields, Zenon
<1>5. used \in Calls
  <2>1. ASSUME NEW lexeme \in Lexeme PROVE Value(lexeme) \in Calls
    BY DEF Value, Do, Calls, CallSet
  <2>2. Num(1) \in Lexeme /\ NotANumber \in Lexeme
    BY <1>1, LexemesFit, Zenon
  <2> QED BY <2>1, <2>2
<1>6. s.mem => used \in Values
  BY <1>1, Scalars, Zenon
<1> HIDE DEF used
<1>7. mem \in Calls
  BY <1>1, <1>5, Fields, ObjAndArr, Zenon
<1>8. ASSUME s.mem PROVE mem \in ObjBodies
  <2>1. Obj(Field("used_pct", used)) \in Values
    BY <1>1, <1>6, <1>8, Fields, ObjAndArr, Zenon
  <2> QED BY <1>1, <2>1, Fields, Zenon
<1>9. serialize_snapshot(s) = Obj(before \o mem \o procs \o top)
  BY DEF serialize_snapshot, cpu, used
<1> HIDE DEF before, mem, procs, top
<1>10. before \o mem \o procs \o top \in Calls
  <2>1. before \in Calls /\ procs \in Calls /\ top \in Calls
    BY <1>3, <1>4, Fields
  <2> QED BY <2>1, <1>7, Fields, Zenon
<1>11. s.mem => before \o mem \o procs \o top \in ObjBodies
  BY <1>3, <1>4, <1>8, Fields, Zenon
<1> QED BY <1>9, <1>10, <1>11, ObjAndArr, Zenon

Readable(d) == \A i \in DOMAIN d.snapshots : d.snapshots[i].mem

LEMMA SnapshotsCalls ==
  ASSUME NEW snapshots \in Seq(Snapshot)
  PROVE  LET joined == Joined([i \in 1..Written(snapshots) |-> serialize_snapshot(snapshots[i])])
         IN  /\ joined \in Calls
             /\ (\A i \in DOMAIN snapshots : snapshots[i].mem) => joined \in ArrBodies
<1> DEFINE n == Written(snapshots)
           parts == [i \in 1..n |-> serialize_snapshot(snapshots[i])]
<1>1. n \in Nat /\ \A i \in 1..n : i \in DOMAIN snapshots /\ snapshots[i] \in Snapshot
  <2>1. /\ Len(snapshots) \in Nat /\ DOMAIN snapshots = 1..Len(snapshots)
        /\ \A i \in 1..Len(snapshots) : snapshots[i] \in Snapshot
    BY LenProperties, ElementOfSeq
  <2>2. n \in Nat /\ n <= Len(snapshots)
    BY <2>1, MaxSnapshotsAssumption DEF Written
  <2> HIDE DEF n
  <2> QED BY <2>1, <2>2
<1> HIDE DEF n
<1>2. \A i \in 1..n : parts[i] \in Calls
  BY <1>1, SnapshotCalls
<1>3. Len(parts) = n
  <2>1. parts \in [1..n -> Calls]
    BY <1>2
  <2> HIDE DEF parts
  <2> QED BY <2>1, <1>1
<1>6. \A i \in 1..n : parts[i] = serialize_snapshot(snapshots[i])
  OBVIOUS
<1> HIDE DEF parts
<1>4. Joined(parts) \in Calls
  <2>1. << >> \in Calls /\ \A a, b \in Calls : a \o b \in Calls
    BY EmptySeq, Fields DEF Calls
  <2> QED BY <2>1, <1>1, <1>2, <1>3, JoinedIn
<1>5. ASSUME \A i \in DOMAIN snapshots : snapshots[i].mem
      PROVE  Joined(parts) \in ArrBodies
  <2>1. ASSUME NEW i \in 1..n PROVE parts[i] \in ArrBodies
    <3>1. serialize_snapshot(snapshots[i]) \in Values
      BY <1>1, <1>5, SnapshotCalls, Zenon
    <3> QED BY <3>1, <1>6, ValueIsBody DEF ArrBodies
  <2>2. << >> \in ArrBodies /\ \A a, b \in ArrBodies : a \o b \in ArrBodies
    BY BodiesJoin DEF ArrBodies
  <2> QED BY <2>1, <2>2, <1>1, <1>3, JoinedIn
<1> QED BY <1>4, <1>5 DEF parts, n

(* A dump makes calls to the writer, and those of one value if memory could *)
(* be read for its snapshots.                                              *)
LEMMA DumpCalls ==
  ASSUME NEW d \in Dumps
  PROVE  /\ spike_dump_write(d) \in Calls
         /\ Readable(d) => spike_dump_write(d) \in Values
<1> DEFINE joined == Joined([i \in 1..Written(d.snapshots) |-> serialize_snapshot(d.snapshots[i])])
           date == IF d.dated THEN Field("created_at", Value(Str(Word("date")))) ELSE << >>
           before == date \o Field("dump_timestamp_ns", Value(Num(d.timestamp))) \o
                     Field("trigger", serialize_anomaly(d.trigger))
           list == Field("snapshots", Arr(joined))
<1>1. /\ "created_at" \in Names /\ "dump_timestamp_ns" \in Names /\ "trigger" \in Names
      /\ "snapshots" \in Names
  BY DEF Names
<1>2. /\ d.timestamp \in Int /\ d.trigger.pid \in Int /\ d.snapshots \in Seq(Snapshot)
      /\ d.trigger.type \in Words /\ "date" \in Words
  <2>1. d \in Dump
    BY DumpsAssumption
  <2>2. d.timestamp \in Int /\ d.snapshots \in Seq(Snapshot)
    BY <2>1 DEF Dump
  <2>3. d.trigger \in [type : STRING, pid : Nat]
    BY <2>1 DEF Dump
  <2>4. d.trigger.pid \in Int
    BY <2>3
  <2>5. d.trigger.type \in Words /\ "date" \in Words
    BY Zenon DEF Words
  <2> QED BY <2>2, <2>4, <2>5
<1>3. date \in ObjBodies
  <2>1. Field("created_at", Value(Str(Word("date")))) \in ObjBodies
    BY <1>1, <1>2, Scalars, Fields, Zenon
  <2>2. << >> \in ObjBodies
    BY BodiesJoin DEF ObjBodies
  <2> QED BY <2>1, <2>2
<1> HIDE DEF date
<1>4. before \in ObjBodies
  <2>1. serialize_anomaly(d.trigger) \in Values
    BY <1>2, AnomalyIsValue
  <2>2. /\ Field("dump_timestamp_ns", Value(Num(d.timestamp))) \in ObjBodies
        /\ Field("trigger", serialize_anomaly(d.trigger)) \in ObjBodies
    BY <1>1, <1>2, <2>1, Scalars, Fields, Zenon
  <2> QED BY <1>3, <2>2, Fields, Zenon
<1>5. joined \in Calls /\ (Readable(d) => joined \in ArrBodies)
  BY <1>2, SnapshotsCalls DEF Readable
<1> HIDE DEF joined
<1>6. list \in Calls /\ (Readable(d) => list \in ObjBodies)
  BY <1>1, <1>5, Fields, ObjAndArr, Zenon
<1>7. spike_dump_write(d) = Obj(before \o list)
  BY DEF spike_dump_write, date, joined
<1> HIDE DEF before, list
<1>8. before \o list \in Calls /\ (Readable(d) => before \o list \in ObjBodies)
  BY <1>4, <1>6, Fields, Zenon
<1> QED BY <1>7, <1>8, ObjAndArr, Zenon

-------------------------------------------------------------------------------
(* Reading along                                                           *)

Step(p, c) == IF p = Bad THEN Bad ELSE Accept(p, c)
Trace(lexemes, f) ==
    f = [n \in 0..Len(lexemes) |-> IF n = 0 THEN At(<< >>, {"value"})
                                   ELSE Step(f[n - 1], lexemes[n])]
ParsesTo(lexemes, p) ==
    /\ \E f : Trace(lexemes, f)
    /\ \A f : Trace(lexemes, f) => f[Len(lexemes)] = p

LEMMA ParseIs ==
  ASSUME NEW lexemes, NEW p, ParsesTo(lexemes, p)
  PROVE  Parse(lexemes) = p
<1>1. Parse(lexemes) = (CHOOSE f : Trace(lexemes, f))[Len(lexemes)]
  BY Zenon DEF Parse, Trace, Step
<1>2. Trace(lexemes, CHOOSE f : Trace(lexemes, f))
  BY DEF ParsesTo
<1> QED BY <1>1, <1>2 DEF ParsesTo

LEMMA ParseNothing == ParsesTo(<< >>, At(<< >>, {"value"}))
<1> DEFINE start == At(<< >>, {"value"})
<1> HIDE DEF start
<1>1. Len(<< >>) = 0 /\ 0..0 = {0}
  OBVIOUS
<1>2. Trace(<< >>, [n \in 0..0 |-> start])
  BY <1>1 DEF Trace, start
<1>3. ASSUME NEW f, Trace(<< >>, f) PROVE f[Len(<< >>)] = start
  BY <1>1, <1>3 DEF Trace, start
<1> QED BY <1>2, <1>3 DEF ParsesTo, start

LEMMA ParseMore ==
  ASSUME NEW S, NEW lexemes \in Seq(S), NEW c \in S, NEW p, ParsesTo(lexemes, p)
  PROVE  ParsesTo(Append(lexemes, c), Accept(p, c))
<1> DEFINE n == Len(lexemes)
           more == Append(lexemes, c)
           start == At(<< >>, {"value"})
<1>1. /\ n \in Nat /\ Len(more) = n + 1 /\ more[n + 1] = c
      /\ \A i \in 1..n : more[i] = lexemes[i]
  BY AppendProperties, LenProperties
<1>2. Step(p, c) = Accept(p, c)
  <2>1. Accept(Bad, c) = Bad
    BY DEF Accept, Bad, At
  <2> QED BY <2>1 DEF Step
<1> HIDE DEF more, n, start
<1> DEFINE Goes(s, m, f) == \A i \in 0..m : f[i] = IF i = 0 THEN start ELSE Step(f[i - 1], s[i])
<1>3. PICK f : Trace(lexemes, f)
  BY DEF ParsesTo
<1>4. f[n] = p /\ Goes(lexemes, n, f)
  <2>1. f[n] = p
    BY <1>3 DEF ParsesTo, n
  <2>2. Goes(lexemes, n, f)
    BY <1>3 DEF Trace, n, start
  <2> QED BY <2>1, <2>2
<1> DEFINE g == [i \in 0..(n + 1) |-> IF i = n + 1 THEN Step(p, c) ELSE f[i]]
<1>5. Trace(more, g)
  <2>1. ASSUME NEW i \in 0..(n + 1)
        PROVE  g[i] = IF i = 0 THEN start ELSE Step(g[i - 1], more[i])
    <3>1. CASE i = n + 1
      <4>1. i # 0 /\ i - 1 = n /\ n \in 0..(n + 1) /\ n # n + 1
        BY <3>1, <1>1
      <4>2. g[i - 1] = p
        BY <4>1, <1>4
      <4>3. g[i] = Step(p, c)
        BY <3>1
      <4> HIDE DEF g
      <4> QED BY <4>1, <4>2, <4>3, <3>1, <1>1
    <3>2. CASE i # n + 1 /\ i # 0
      <4>1. i \in 1..n /\ i \in 0..n /\ i - 1 \in 0..(n + 1) /\ i - 1 # n + 1
        BY <3>2, <1>1
      <4>2. g[i] = f[i] /\ g[i - 1] = f[i - 1]
        BY <4>1, <3>2
      <4> HIDE DEF g
      <4> QED BY <4>1, <4>2, <3>2, <1>1, <1>4
    <3>3. CASE i = 0
      <4>1. 0 # n + 1 /\ 0 \in 0..n
        BY <1>1
      <4>2. g[i] = f[0]
        BY <3>3, <4>1
      <4> HIDE DEF g
      <4> QED BY <3>3, <4>1, <4>2, <1>4
    <3> QED BY <3>1, <3>2, <3>3
  <2>2. g = [i \in 0..(n + 1) |-> g[i]]
    OBVIOUS
  <2> HIDE DEF g
  <2>3. g = [i \in 0..(n + 1) |-> IF i = 0 THEN start ELSE Step(g[i - 1], more[i])]
    BY <2>1, <2>2
  <2> QED BY <2>3, <1>1 DEF Trace, start
<1>6. ASSUME NEW h, Trace(more, h) PROVE h[n + 1] = Step(p, c)
  <2>1. Goes(more, n + 1, h)
    BY <1>1, <1>6 DEF Trace, start
  <2> DEFINE k == [i \in 0..n |-> h[i]]
  <2>2. Trace(lexemes, k)
    <3>1. ASSUME NEW i \in 0..n
          PROVE  k[i] = IF i = 0 THEN start ELSE Step(k[i - 1], lexemes[i])
      <4>1. CASE i = 0
        <5>1. i \in 0..(n + 1)
          BY <1>1
        <5>2. k[i] = h[i]
          OBVIOUS
        <5> HIDE DEF k
        <5> QED BY <4>1, <5>1, <5>2, <2>1
      <4>2. CASE i # 0
        <5>1. i \in 1..n /\ i - 1 \in 0..n /\ i \in 0..(n + 1)
          BY <4>2, <1>1
        <5>2. k[i] = h[i] /\ k[i - 1] = h[i - 1]
          BY <5>1
        <5> HIDE DEF k
        <5> QED BY <4>2, <5>1, <5>2, <2>1, <1>1
      <4> QED BY <4>1, <4>2
    <3>2. k = [i \in 0..n |-> k[i]]
      OBVIOUS
    <3> HIDE DEF k
    <3>3. k = [i \in 0..n |-> IF i = 0 THEN start ELSE Step(k[i - 1], lexemes[i])]
      BY <3>1, <3>2
    <3> QED BY <3>3 DEF Trace, n, start
  <2>3. h[n] = p
    <3>1. k[n] = p
      BY <2>2 DEF ParsesTo, n
    <3>2. n \in 0..n
      BY <1>1
    <3> QED BY <3>1, <3>2
  <2>4. n + 1 \in 0..(n + 1) /\ n + 1 # 0 /\ n + 1 - 1 = n
    BY <1>1
  <2> QED BY <2>1, <2>3, <2>4, <1>1
<1> HIDE DEF g
<1> QED BY <1>1, <1>2, <1>5, <1>6 DEF ParsesTo, more

\* What was written so far has the parser in this state.
Reads(w, st) == ParsesTo(w.text, st.p) /\ st.comma = w.needs_comma

(* An append that succeeds is one, and was not preceded by one that failed.*)
LEMMA PutReads ==
  ASSUME NEW w, Sound(w), NEW lexeme \in Lexeme, ~Put(w, lexeme).error
  PROVE  /\ ~w.error
         /\ Put(w, lexeme).needs_comma = w.needs_comma
         /\ \A p : ParsesTo(w.text, p) => ParsesTo(Put(w, lexeme).text, Accept(p, lexeme))
<1> DEFINE full == w.length + lexeme.size >= w.capacity
           lost == w.error \/ (full /\ (w.capacity >= MaxCapacity \/ w.capacity >= limit))
           room == [w EXCEPT !.capacity = IF full THEN Grown(w, lexeme.size) ELSE @]
<1>1. w \in Writer /\ w.text \in Seq(Lexeme)
  BY DEF Sound, Writer
<1>2. Put(w, lexeme) = IF lost THEN [w EXCEPT !.error = TRUE]
                       ELSE [room EXCEPT !.text = Append(@, lexeme), !.length = @ + lexeme.size]
  BY DEF Put
<1>3. ~lost
  <2> SUFFICES ASSUME lost PROVE FALSE
    OBVIOUS
  <2>1. Put(w, lexeme) = [w EXCEPT !.error = TRUE]
    BY <1>2
  <2>2. Put(w, lexeme).error = TRUE
    BY <1>1, <2>1 DEF Writer
  <2> QED BY <2>2
<1>4. room.text = w.text /\ room.needs_comma = w.needs_comma
  BY <1>1 DEF Writer
<1>5. /\ Put(w, lexeme).text = Append(w.text, lexeme)
      /\ Put(w, lexeme).needs_comma = w.needs_comma
  <2>1. room \in [text : Seq(Lexeme), length : Nat, capacity : {room.capacity},
                  needs_comma : BOOLEAN, error : BOOLEAN]
    BY <1>1 DEF Writer
  <2> HIDE DEF full, room, lost
  <2>2. Put(w, lexeme) =
            [room EXCEPT !.text = Append(@, lexeme), !.length = @ + lexeme.size]
    BY <1>2, <1>3
  <2> QED BY <1>4, <2>1, <2>2
<1>6. \A p : ParsesTo(w.text, p) => ParsesTo(Append(w.text, lexeme), Accept(p, lexeme))
  BY <1>1, ParseMore
<1> QED BY <1>3, <1>5, <1>6

LEMMA NeedsReads ==
  ASSUME NEW w, Sound(w), NEW b \in BOOLEAN
  PROVE  /\ Needs(w, b).text = w.text /\ Needs(w, b).error = w.error
         /\ Needs(w, b).needs_comma = b
  BY DEF Needs, Sound, Writer

(* A call that succeeds takes the parser where AfterCall says.             *)
LEMMA CallReads ==
  ASSUME NEW w, Sound(w), NEW c \in CallSet, ~Call(w, c).error,
         NEW st, Reads(w, st)
  PROVE  ~w.error /\ Reads(Call(w, c), AfterCall(st, c))
<1>1. /\ c.lexeme \in Lexeme /\ c.op \in {"begin", "end", "key", "value"}
      /\ Punct("comma") \in Lexeme /\ Punct("colon") \in Lexeme
  BY LexemesFit DEF CallSet, Kinds
<1>2. ASSUME ~Comma(w).error
      PROVE  ~w.error /\ ParsesTo(Comma(w).text, Separated(st))
  <2>1. CASE w.needs_comma
    <3>1. Comma(w) = Put(w, Punct("comma")) /\ Separated(st) = Accept(st.p, Punct("comma"))
      BY <2>1 DEF Comma, Separated, Reads
    <3> QED BY <1>1, <1>2, <3>1, PutReads DEF Reads
  <2>2. CASE ~w.needs_comma
    <3>1. Comma(w) = w /\ Separated(st) = st.p
      BY <2>2 DEF Comma, Separated, Reads
    <3> QED BY <1>2, <3>1 DEF Reads
  <2> QED BY <2>1, <2>2
\* The comma, then the flag, then the lexeme.
<1>3. ASSUME NEW b \in BOOLEAN, ~Put(Needs(Comma(w), b), c.lexeme).error
      PROVE  /\ ~w.error
             /\ Reads(Put(Needs(Comma(w), b), c.lexeme),
                      State(Accept(Separated(st), c.lexeme), b))
  <2> DEFINE u == Comma(w)
             v == Needs(u, b)
  <2>1. Sound(u) /\ Sound(v)
    BY SoundParts
  <2>2. v.text = u.text /\ v.error = u.error /\ v.needs_comma = b
    BY <2>1, NeedsReads
  <2>3. /\ ~v.error /\ Put(v, c.lexeme).needs_comma = b
        /\ \A p : ParsesTo(v.text, p) => ParsesTo(Put(v, c.lexeme).text, Accept(p, c.lexeme))
    BY <1>1, <1>3, <2>1, <2>2, PutReads
  <2>4. ~w.error /\ ParsesTo(u.text, Separated(st))
    BY <1>2, <2>2, <2>3
  <2> QED BY <2>2, <2>3, <2>4 DEF Reads, State
<1>4. CASE c.op = "begin"
  <2>1. /\ Call(w, c) = Put(Needs(Comma(w), FALSE), c.lexeme)
        /\ AfterCall(st, c) = State(Accept(Separated(st), c.lexeme), FALSE)
    BY <1>4 DEF Call, AfterCall
  <2> QED BY <1>3, <2>1
<1>5. CASE c.op = "value"
  <2>1. /\ Call(w, c) = Put(Needs(Comma(w), TRUE), c.lexeme)
        /\ AfterCall(st, c) = State(Accept(Separated(st), c.lexeme), TRUE)
    BY <1>5 DEF Call, AfterCall
  <2> QED BY <1>3, <2>1
<1>6. CASE c.op = "end"
  <2> DEFINE v == Needs(w, TRUE)
  <2>1. /\ Call(w, c) = Put(v, c.lexeme)
        /\ AfterCall(st, c) = State(Accept(st.p, c.lexeme), TRUE)
    BY <1>6 DEF Call, AfterCall
  <2>2. Sound(v)
    BY SoundParts
  <2>3. v.text = w.text /\ v.error = w.error /\ v.needs_comma = TRUE
    BY NeedsReads
  <2> HIDE DEF v
  <2>4. ~Put(v, c.lexeme).error
    BY <2>1
  <2>5. /\ ~v.error /\ Put(v, c.lexeme).needs_comma = TRUE
        /\ \A p : ParsesTo(v.text, p) => ParsesTo(Put(v, c.lexeme).text, Accept(p, c.lexeme))
    BY <1>1, <2>2, <2>3, <2>4, PutReads
  <2>6. ParsesTo(Put(v, c.lexeme).text, Accept(st.p, c.lexeme))
    BY <2>3, <2>5 DEF Reads
  <2>7. ~w.error
    BY <2>3, <2>5
  <2> DEFINE to == State(Accept(st.p, c.lexeme), TRUE)
  <2>8. to.p = Accept(st.p, c.lexeme) /\ to.comma = TRUE
    BY DEF State
  <2> HIDE DEF to
  <2>9. Reads(Put(v, c.lexeme), to)
    BY <2>5, <2>6, <2>8, Zenon DEF Reads
  <2> QED BY <2>1, <2>7, <2>9 DEF to
<1>7. CASE c.op = "key"
  <2> DEFINE u == Comma(w)
             k == Put(u, c.lexeme)
             v == Needs(k, FALSE)
             p == Accept(Separated(st), c.lexeme)
  <2>1. /\ Call(w, c) = Put(v, Punct("colon"))
        /\ AfterCall(st, c) = State(Accept(p, Punct("colon")), FALSE)
    BY <1>7 DEF Call, AfterCall
  <2>2. Sound(u) /\ Sound(k) /\ Sound(v)
    BY <1>1, SoundParts
  <2>3. v.text = k.text /\ v.error = k.error /\ v.needs_comma = FALSE
    BY <2>2, NeedsReads
  <2>4. ~Put(v, Punct("colon")).error
    BY <2>1
  <2>5. /\ ~v.error /\ Put(v, Punct("colon")).needs_comma = FALSE
        /\ \A q : ParsesTo(v.text, q) =>
                ParsesTo(Put(v, Punct("colon")).text, Accept(q, Punct("colon")))
    <3> HIDE DEF v
    <3> QED BY <1>1, <2>2, <2>3, <2>4, PutReads
  <2>6. ~k.error
    BY <2>3, <2>5
  <2>7. ~u.error /\ \A q : ParsesTo(u.text, q) => ParsesTo(k.text, Accept(q, c.lexeme))
    <3> HIDE DEF u
    <3> QED BY <1>1, <2>2, <2>6, PutReads
  <2>8. ~w.error /\ ParsesTo(u.text, Separated(st))
    BY <1>2, <2>7
  <2> HIDE DEF u
  <2>9. ParsesTo(k.text, p)
    BY <2>7, <2>8
  <2> HIDE DEF k, p
  <2>10. ParsesTo(Put(v, Punct("colon")).text, Accept(p, Punct("colon")))
    BY <2>3, <2>5, <2>9
  <2> HIDE DEF v
  <2> DEFINE to == State(Accept(p, Punct("colon")), FALSE)
  <2>11. to.p = Accept(p, Punct("colon")) /\ to.comma = FALSE
    BY DEF State
  <2> HIDE DEF to
  <2>12. Reads(Put(v, Punct("colon")), to)
    BY <2>5, <2>10, <2>11, Zenon DEF Reads
  <2> QED BY <2>1, <2>8, <2>12 DEF to
<1> QED BY <1>1, <1>4, <1>5, <1>6, <1>7

-------------------------------------------------------------------------------
(* The invariant and the theorems                                          *)

\* Where the parser is, what is left to write takes it to the end.
OnCourse == \E st : Reads(writer, st) /\ Leads(calls, st, Done(<< >>))

Inv ==
    /\ dump \in Dumps
    /\ phase \in {"writing", "failed", "reading", "read"}
    /\ calls \in Calls
    /\ Sound(writer)
    /\ Readable(dump) =>
          /\ phase = "writing" => OnCourse
          /\ phase \in {"reading", "read"} => ParsesTo(writer.text, Beyond(<< >>))

LEMMA InitInv == Init => Inv
<1> SUFFICES ASSUME Init PROVE Inv
  OBVIOUS
<1>1. /\ dump \in Dumps /\ phase = "writing" /\ calls = spike_dump_write(dump)
      /\ writer = NewWriter
  BY DEF Init
<1>2. calls \in Calls /\ (Readable(dump) => calls \in Values)
  BY <1>1, DumpCalls
<1>3. Sound(writer)
  <2>1. << >> \in Seq(Lexeme) /\ InitialCapacity \in Nat /\ InitialCapacity > 0
    BY EmptySeq, CapacityAssumption
  <2> QED BY <1>1, <2>1 DEF NewWriter, Sound, Writer, Capacities
<1>4. ASSUME Readable(dump) PROVE OnCourse
  <2> DEFINE st == Awaiting(<< >>)
  <2>1. << >> \in Stacks /\ st \in Ready(<< >>)
    BY EmptySeq DEF Stacks, Ready
  <2>2. Leads(calls, st, Done(<< >>))
    BY <1>2, <1>4, <2>1 DEF Values
  <2>3. Reads(writer, st)
    <3>1. st.p = At(<< >>, {"value"}) /\ st.comma = FALSE
      BY DEF Awaiting, State
    <3>2. writer.text = << >> /\ writer.needs_comma = FALSE
      BY <1>1 DEF NewWriter
    <3> QED BY <3>1, <3>2, ParseNothing DEF Reads
  <2> QED BY <2>2, <2>3 DEF OnCourse
<1> HIDE DEF OnCourse
<1> QED BY <1>1, <1>2, <1>3, <1>4 DEF Inv

LEMMA NextInv == Inv /\ [Next]_vars => Inv'
<1> SUFFICES ASSUME Inv, [Next]_vars PROVE Inv'
  OBVIOUS
<1>1. CASE Write
  <2>1. /\ phase = "writing" /\ calls # << >> /\ writer' = Call(writer, Head(calls))
        /\ calls' = Tail(calls) /\ dump' = dump
        /\ phase' = IF writer'.error THEN "failed" ELSE "writing"
    BY <1>1 DEF Write
  <2>2. calls \in Seq(CallSet) /\ Head(calls) \in CallSet /\ Tail(calls) \in Seq(CallSet)
    BY <2>1, HeadTailProperties DEF Inv, Calls
  <2>3. Sound(writer')
    BY <2>1, <2>2, CallFits DEF Inv
  <2>4. ASSUME Readable(dump'), phase' = "writing" PROVE OnCourse'
    <3>1. ~writer'.error
      BY <2>1, <2>4
    <3>2. Readable(dump)
      BY <2>1, <2>4
    <3>3. PICK st : Reads(writer, st) /\ Leads(calls, st, Done(<< >>))
      BY <2>1, <3>2 DEF Inv, OnCourse
    <3> DEFINE next == AfterCall(st, Head(calls))
    <3>4. Reads(writer', next)
      <4>1. ~Call(writer, Head(calls)).error /\ Sound(writer)
        BY <2>1, <3>1 DEF Inv
      <4> QED BY <2>1, <2>2, <3>3, <4>1, CallReads
    <3>5. Leads(calls', next, Done(<< >>))
      BY <2>1, <2>2, <3>3, CallsLeft
    <3> HIDE DEF next
    <3> QED BY <3>4, <3>5 DEF OnCourse
  <2>5. phase' \in {"failed", "writing"}
    BY <2>1
  <2> QED BY <2>1, <2>2, <2>3, <2>4, <2>5 DEF Inv, Calls
<1>2. CASE View
  <2>1. /\ phase = "writing" /\ calls = << >> /\ phase' = "reading"
        /\ dump' = dump /\ calls' = calls /\ writer' = writer
    BY <1>2 DEF View
  <2>2. ASSUME Readable(dump) PROVE ParsesTo(writer.text, Beyond(<< >>))
    <3>1. PICK st : Reads(writer, st) /\ Leads(<< >>, st, Done(<< >>))
      BY <2>1, <2>2 DEF Inv, OnCourse
    <3>2. st = Done(<< >>)
      BY <3>1, EmptySeq DEF Leads, Passage
    <3>3. st.p = Beyond(<< >>)
      BY <3>2 DEF Done, State
    <3> QED BY <3>1, <3>3 DEF Reads
  <2>3. Sound(writer') /\ calls' \in Calls
    BY <2>1 DEF Inv
  <2> QED BY <2>1, <2>2, <2>3 DEF Inv
<1>3. CASE Read
  <2>1. /\ phase = "reading" /\ dump' = dump /\ calls' = calls /\ writer' = writer
    BY <1>3 DEF Read
  <2>2. phase' \in {"reading", "read"}
    <3>1. phase' = phase \/ phase' = "read"
      BY <1>3 DEF Read, Fetch, Skip, Iterate, Leave
    <3> QED BY <2>1, <3>1
  <2>3. Sound(writer') /\ calls' \in Calls
    BY <2>1 DEF Inv
  <2> QED BY <2>1, <2>2, <2>3 DEF Inv
<1>4. CASE UNCHANGED vars
  <2>1. dump' = dump /\ phase' = phase /\ calls' = calls /\ writer' = writer
    BY <1>4 DEF vars
  <2>2. Sound(writer') /\ calls' \in Calls /\ (OnCourse => OnCourse')
    BY <2>1 DEF Inv, OnCourse
  <2> QED BY <2>1, <2>2 DEF Inv
<1> QED BY <1>1, <1>2, <1>3, <1>4 DEF Next

(* Whatever is appended fits in a buffer that never grows past its limit.  *)
THEOREM BufferAlwaysFits == Spec => []BufferFits
<1>1. Inv => BufferFits
  <2> SUFFICES ASSUME Inv PROVE BufferFits
    OBVIOUS
  <2>1. /\ writer.length < writer.capacity /\ writer.capacity \in Capacities
        /\ InitialCapacity \in Nat /\ MaxCapacity = 16 * InitialCapacity
    BY CapacityAssumption DEF Inv, Sound, Writer
  <2>2. writer.capacity <= MaxCapacity
    BY <2>1 DEF Capacities
  <2> QED BY <2>1, <2>2 DEF BufferFits
<1> QED BY <1>1, InitInv, NextInv, PTL DEF Spec

(* A document that is kept, of snapshots for which memory could be read, is *)
(* JSON, however many snapshots and processes it has.                      *)
THEOREM KeptIsAlwaysJson == Spec => []KeptIsJson
<1>1. Inv => KeptIsJson
  <2> SUFFICES ASSUME Inv, phase = "reading", Readable(dump) PROVE IsJson(text)
    BY DEF KeptIsJson, Readable
  <2>1. ParsesTo(writer.text, Beyond(<< >>))
    BY DEF Inv
  <2>2. Parse(text) = Beyond(<< >>)
    BY <2>1, ParseIs DEF text
  <2> QED BY <2>2 DEF IsJson
<1> QED BY <1>1, InitInv, NextInv, PTL DEF Spec
===============================================================================
