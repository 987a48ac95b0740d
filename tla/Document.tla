------------------------------- MODULE Document -------------------------------
(***************************************************************************)
(* A dump as text: written by src/src/json_writer.c at the calls of the    *)
(* serializers of src/src/spike_dump.c, and read back by                   *)
(* src/src/json_reader.c for the loops of src/src/spktrace_view.c.         *)
(*                                                                         *)
(* The text is a sequence of lexemes with the bytes each takes.  Objects   *)
(* keep the fields the reader looks for, one it passes over, and those     *)
(* whose value decides something; the rest are more of the same.  Of the   *)
(* contents of a string it counts the bytes of each kind the two programs  *)
(* treat apart.                                                            *)
(***************************************************************************)
EXTENDS Integers, SequencesExt, FiniteSets

CONSTANTS
    InitialCapacity,    \* SPKT_JSON_DEFAULT_BUFFER_SIZE
    MaxCapacity,        \* SPKT_JSON_MAX_BUFFER_SIZE
    MaxSnapshots,       \* SPIKE_DUMP_MAX_SNAPSHOTS
    MaxProcs,           \* MAX_PROCS of the reader
    MaxString,          \* JSON_READER_MAX_STRING
    Exact,              \* 2^53, up to which a double has every integer
    Dumps,              \* the contents a dump may have
    Limits              \* the largest buffers realloc may give

\* 64 KiB and 1 MiB: doubled four times, a buffer has the largest size.
ASSUME CapacityAssumption ==
    InitialCapacity \in Nat /\ InitialCapacity > 4 /\ MaxCapacity = 16 * InitialCapacity

ASSUME ExactAssumption == Exact \in Nat \ {0}

\* Bytes that are written as they are; those with an escape both programs know
\* (a quote, a backslash, \n, \r, \t); \b and \f, which only the writer knows;
\* and the other control characters, which it writes as \u00XX.  A name or a
\* type is one of a few words.
Text == [word : STRING, plain : Nat, quoted : Nat, lettered : Nat, control : Nat]
Empty == [word |-> "", plain |-> 0, quoted |-> 0, lettered |-> 0, control |-> 0]
Word(k) == [Empty EXCEPT !.word = k, !.plain = 1]

\* What json_append_escaped writes for it, and what parse_string makes of that:
\* after a backslash it does not know, it keeps what comes next.
Escaped(s) == s.plain + 2 * (s.quoted + s.lettered) + 6 * s.control
Unescaped(s) ==
    [s EXCEPT !.plain = s.plain + s.lettered + 5 * s.control, !.lettered = 0, !.control = 0]
Bytes(s) == s.plain + s.quoted + s.lettered + s.control

\* A command line, of 255 bytes at most, fits in an empty buffer.
ProcEntry == [pid : Nat, cmdline : {s \in Text : Escaped(s) <= InitialCapacity - 3}]
Snapshot == [mem : BOOLEAN, procs : Seq(ProcEntry), top_rss_procs : Seq(ProcEntry)]
Dump == [dated : BOOLEAN, timestamp : Nat, trigger : [type : STRING, pid : Nat],
         snapshots : Seq(Snapshot)]

ASSUME DumpsAssumption == Dumps \subseteq Dump
ASSUME MaxSnapshotsAssumption == MaxSnapshots \in Nat

VARIABLES
    dump,       \* what is written
    limit,      \* the buffer at which realloc gives up
    phase,      \* "writing", "failed", "reading" or "read"
    calls,      \* the calls to the writer still to come
    writer,
    reader,
    loops,      \* the reader's nested loops, the innermost last
    want,       \* the key whose value the reader fetches next
    out         \* what the reader has stored

vars == <<dump, limit, phase, calls, writer, reader, loops, want, out>>

-------------------------------------------------------------------------------
(* json_writer.c *)

Punct(c) == [t |-> c, v |-> 0, size |-> 1]
Str(s) == [t |-> "string", v |-> s, size |-> Escaped(s) + 2]
Name(k) == Str(Word(k))
Num(v) == [t |-> "number", v |-> v, size |-> 1]
\* What "%.2f" prints for 0.0 / 0.0; a sign before it reads as a number.
NotANumber == [t |-> "nan", v |-> 0, size |-> 4]

Grown(w, needed) ==
    LET enough == w.length + needed + 1
        new == IF 2 * w.capacity < enough THEN enough ELSE 2 * w.capacity
    IN  IF new > MaxCapacity THEN MaxCapacity ELSE new

\* Mutant: the terminator is forgotten.
PutUnterminated(w, lexeme) ==
    LET full == w.length + lexeme.size > w.capacity
        room == [w EXCEPT !.capacity = IF full THEN Grown(w, lexeme.size) ELSE @]
    IN  IF w.error \/ (full /\ (w.capacity >= MaxCapacity \/ w.capacity >= limit))
        THEN [w EXCEPT !.error = TRUE]
        ELSE [room EXCEPT !.text = Append(@, lexeme), !.length = @ + lexeme.size]

Put(w, lexeme) ==
    LET full == w.length + lexeme.size >= w.capacity
        room == [w EXCEPT !.capacity = IF full THEN Grown(w, lexeme.size) ELSE @]
    IN  IF w.error \/ (full /\ (w.capacity >= MaxCapacity \/ w.capacity >= limit))
        THEN [w EXCEPT !.error = TRUE]
        ELSE [room EXCEPT !.text = Append(@, lexeme), !.length = @ + lexeme.size]

NewWriter == [text |-> << >>, length |-> 0, capacity |-> InitialCapacity,
              needs_comma |-> FALSE, error |-> FALSE]

Comma(w) == IF w.needs_comma THEN Put(w, Punct("comma")) ELSE w

Needs(w, comma) == [w EXCEPT !.needs_comma = comma]

\* Mutant: opening an object or an array leaves needs_comma as it was.
CallKeepingComma(w, c) ==
    CASE c.op = "begin" -> Put(Comma(w), c.lexeme)
      [] c.op = "end" -> Put(Needs(w, TRUE), c.lexeme)
      [] c.op = "key" -> Put(Needs(Put(Comma(w), c.lexeme), FALSE), Punct("colon"))
      [] c.op = "value" -> Put(Needs(Comma(w), TRUE), c.lexeme)

Call(w, c) ==
    CASE c.op = "begin" -> Put(Needs(Comma(w), FALSE), c.lexeme)
      [] c.op = "end" -> Put(Needs(w, TRUE), c.lexeme)
      [] c.op = "key" -> Put(Needs(Put(Comma(w), c.lexeme), FALSE), Punct("colon"))
      [] c.op = "value" -> Put(Needs(Comma(w), TRUE), c.lexeme)

-------------------------------------------------------------------------------
(* The serializers of spike_dump.c, as the calls they make. *)

Do(op, lexeme) == [op |-> op, lexeme |-> lexeme]
Begin(bracket) == <<Do("begin", Punct(bracket))>>
End(bracket) == <<Do("end", Punct(bracket))>>
Obj(body) == Begin("object_start") \o body \o End("object_end")
Arr(body) == Begin("array_start") \o body \o End("array_end")
Field(k, value) == <<Do("key", Name(k))>> \o value
Value(lexeme) == <<Do("value", lexeme)>>

\* A loop of serializers.
Joined(parts) ==
    LET upto[n \in 0..Len(parts)] == IF n = 0 THEN << >> ELSE upto[n - 1] \o parts[n]
    IN  upto[Len(parts)]

serialize_proc_entry(p) ==
    Obj(Field("pid", Value(Num(p.pid))) \o
        Field("cmdline", Value(Str(p.cmdline))) \o
        Field("rss_mib", Value(Num(1))))

serialize_procs(procs) ==
    Arr(Joined([i \in 1..Len(procs) |-> serialize_proc_entry(procs[i])]))

serialize_snapshot(s) ==
    Obj(Field("timestamp_ns", Value(Num(1))) \o
        Field("cpu", Obj(Field("per_core_pct", Arr(Value(Num(1)) \o Value(Num(2)))))) \o
        Field("mem", Obj(Field("used_pct", Value(IF s.mem THEN Num(1) ELSE NotANumber)))) \o
        Field("procs", serialize_procs(s.procs)) \o
        Field("top_rss_procs", serialize_procs(s.top_rss_procs)))

serialize_policy(a) == Obj(Field("scope_key", Value(Num(a.pid))))

\* Mutant: the policy comes first.
AnomalyPolicyFirst(a) ==
    Obj(Field("policy", serialize_policy(a)) \o
        Field("type", Value(Str(Word(a.type)))) \o
        Field("pid", Value(Num(a.pid))) \o
        Field("origin_snapshot_index", Value(Num(0))))

serialize_anomaly(a) ==
    Obj(Field("type", Value(Str(Word(a.type)))) \o
        Field("pid", Value(Num(a.pid))) \o
        Field("policy", serialize_policy(a)) \o
        Field("origin_snapshot_index", Value(Num(0))))

\* The snapshots that are written, the newest first.
Written(snapshots) ==
    IF Len(snapshots) > MaxSnapshots THEN MaxSnapshots ELSE Len(snapshots)

spike_dump_write(d) ==
    Obj((IF d.dated THEN Field("created_at", Value(Str(Word("date")))) ELSE << >>) \o
        Field("dump_timestamp_ns", Value(Num(d.timestamp))) \o
        Field("trigger", serialize_anomaly(d.trigger)) \o
        Field("snapshots", Arr(Joined([i \in 1..Written(d.snapshots) |->
                                           serialize_snapshot(d.snapshots[i])]))))

-------------------------------------------------------------------------------
(* json_reader.c *)

text == writer.text

NewReader == [pos |-> 1, inside |-> "none", token |-> "none", str_val |-> Empty,
              num_val |-> 0, key |-> "none", depth |-> 0]

\* strtod: to the nearest double, which of the numbers from Exact on has only
\* the multiples of some power of two; the even one of two that are as near.
Double(v) ==
    LET unit == CHOOSE u \in {2^k : k \in 0..11} : v < Exact * u /\ (u = 1 \/ Exact * u <= 2 * v)
        down == v \div unit
        Up == 2 * (v % unit) > unit \/ (2 * (v % unit) = unit /\ down % 2 = 1)
    IN  unit * (IF Up THEN down + 1 ELSE down)

\* The lexeme at or after the reader's, past commas and colons.
Ahead(r) ==
    CHOOSE p \in r.pos..Len(text) + 1 :
        /\ p <= Len(text) => text[p].t \notin {"comma", "colon"}
        /\ \A q \in r.pos..p - 1 : text[q].t \in {"comma", "colon"}

\* parse_string stops at max_len - 1 bytes, before it sees the closing quote.
Fits(lexeme) == Bytes(Unescaped(lexeme.v)) < MaxString - 1

\* json_reader_next.  Left before a closing quote, the reader takes what
\* follows up to the next quote for a string, and then stands at the letters
\* of a name, where it stays.  (No string here is longer than that, unescaped:
\* the reader would go on at whatever byte comes next.)
Token(r) ==
    LET p == Ahead(r)
        c == text[p]
        Pass(token) == [r EXCEPT !.pos = p + 1, !.token = token]
    IN  CASE r.inside = "string" -> [r EXCEPT !.token = "string", !.inside = "name"]
          [] r.inside = "name" -> [r EXCEPT !.token = "error"]
          [] r.inside = "none" /\ p > Len(text) -> [r EXCEPT !.token = "eof"]
          [] OTHER ->
            CASE c.t \in {"object_start", "array_start"} -> [Pass(c.t) EXCEPT !.depth = @ + 1]
              [] c.t \in {"object_end", "array_end"} -> [Pass(c.t) EXCEPT !.depth = @ - 1]
              [] c.t = "string" /\ ~Fits(c) ->
                    [r EXCEPT !.pos = p, !.token = "error", !.inside = "string"]
              [] c.t = "string" /\ Fits(c) ->
                    LET s == Unescaped(c.v)
                    IN  IF text[p + 1].t = "colon"
                        THEN [Pass("key") EXCEPT !.key = s.word, !.str_val = s]
                        ELSE [Pass("string") EXCEPT !.str_val = s]
              [] c.t = "number" -> [Pass("number") EXCEPT !.num_val = Double(c.v)]
              [] c.t = "nan" -> [r EXCEPT !.pos = p, !.token = "error"]

-------------------------------------------------------------------------------
(* spktrace_view.c: the loops of main, parse_trigger, parse_procs_array and  *)
(* parse_proc_entry, and that of json_reader_skip.  Each turn of a loop asks *)
(* for a token; a key it knows has it ask for one more, the value.           *)

Ends == [main |-> {"eof"},
         snapshots |-> {"array_end", "eof"}, procs |-> {"array_end", "eof"},
         top_rss_procs |-> {"array_end", "eof"}, trigger |-> {"object_end", "eof"},
         snapshot |-> {"object_end", "eof"}, proc |-> {"object_end", "eof"}]

Known == [main |-> {"dump_timestamp_ns", "trigger", "snapshots"},
          trigger |-> {"type", "pid"},
          snapshot |-> {"procs", "top_rss_procs"},
          proc |-> {"pid", "cmdline"},
          snapshots |-> {}, procs |-> {}, top_rss_procs |-> {}]

Inner == Last(loops)
Outer == loops[Len(loops) - 1]
Loop(name, floor) == [name |-> name, floor |-> floor]
Open(name) == loops' = Append(loops, Loop(name, 0))
Close == loops' = Front(loops)

\* What json_reader_get_string and the other getters return.
Got(r, k) == IF k \in {"type", "cmdline"} THEN r.str_val ELSE r.num_val

\* The token after a key: a value to keep, an object or array to enter, or
\* something to pass over.
Fetch(r) ==
    /\ want' = "none"
    /\ \/ /\ want \in {"trigger", "snapshots", "procs", "top_rss_procs"}
          /\ IF r.token = (IF want = "trigger" THEN "object_start" ELSE "array_start")
             THEN Open(want) ELSE UNCHANGED loops
          /\ UNCHANGED out
       \/ /\ want = "skip"
          /\ IF r.token \in {"object_start", "array_start"}
             THEN loops' = Append(loops, Loop("skip", r.depth))
             ELSE UNCHANGED loops
          /\ UNCHANGED out
       \/ /\ want = "dump_timestamp_ns"
          /\ out' = [out EXCEPT !.timestamp = Got(r, want)]
          /\ UNCHANGED loops
       \/ /\ want \in Known.trigger /\ Inner.name = "trigger"
          /\ out' = [out EXCEPT !.trigger[want] = Got(r, want)]
          /\ UNCHANGED loops
       \/ /\ want \in Known.proc /\ Inner.name = "proc"
          /\ out' = [out EXCEPT ![Outer.name][Len(out[Outer.name])][want] = Got(r, want)]
          /\ UNCHANGED loops
    /\ UNCHANGED phase

SkipEnded(r) == r.depth < Inner.floor \/ r.token \in {"eof", "error"}

Skip(r) ==
    /\ IF SkipEnded(r) THEN Close ELSE UNCHANGED loops
    /\ UNCHANGED <<want, out, phase>>

Leave ==
    IF Inner.name = "main" THEN phase' = "read" /\ UNCHANGED <<loops, out>>
    ELSE /\ Close /\ UNCHANGED phase
         /\ out' = IF Inner.name = "snapshot" THEN [out EXCEPT !.first = TRUE] ELSE out

Enters(r) ==
    /\ r.token = "object_start"
    /\ \/ Inner.name = "snapshots" /\ ~out.first
       \/ Inner.name \in {"procs", "top_rss_procs"} /\ Len(out[Inner.name]) < MaxProcs

Enter ==
    IF Inner.name = "snapshots" THEN Open("snapshot") /\ UNCHANGED out
    ELSE /\ Open("proc")
         /\ out' = [out EXCEPT ![Inner.name] = Append(@, [pid |-> 0, cmdline |-> Empty])]

\* Keys that main and parse_trigger do not know are let go by, value and all.
Iterate(r) ==
    \/ r.token \in Ends[Inner.name] /\ Leave /\ UNCHANGED want
    \/ Enters(r) /\ Enter /\ UNCHANGED <<want, phase>>
    \/ /\ r.token \notin Ends[Inner.name] /\ ~Enters(r)
       /\ want' = IF r.token # "key" THEN "none"
                  ELSE IF r.key \in Known[Inner.name] THEN r.key
                  ELSE IF Inner.name \in {"snapshot", "proc"} THEN "skip"
                  ELSE "none"
       /\ UNCHANGED <<loops, out, phase>>

-------------------------------------------------------------------------------

Init ==
    /\ dump \in Dumps /\ limit \in Limits
    /\ phase = "writing"
    /\ calls = spike_dump_write(dump)
    /\ writer = NewWriter
    /\ reader = NewReader
    /\ loops = <<Loop("main", 0)>> /\ want = "none"
    /\ out = [timestamp |-> 0, trigger |-> [type |-> Empty, pid |-> 0], first |-> FALSE,
              procs |-> << >>, top_rss_procs |-> << >>]

\* One call of the serializers; the first that fails is the last.
Write ==
    /\ phase = "writing" /\ calls # << >>
    /\ writer' = Call(writer, Head(calls))
    /\ calls' = Tail(calls)
    /\ phase' = IF writer'.error THEN "failed" ELSE "writing"
    /\ UNCHANGED <<dump, limit, reader, loops, want, out>>

\* The file is in place, and somebody looks at it.
View ==
    /\ phase = "writing" /\ calls = << >>
    /\ phase' = "reading"
    /\ UNCHANGED <<dump, limit, calls, writer, reader, loops, want, out>>

Read ==
    /\ phase = "reading"
    /\ reader' = Token(reader)
    /\ \/ want # "none" /\ Fetch(reader')
       \/ want = "none" /\ Inner.name = "skip" /\ Skip(reader')
       \/ want = "none" /\ Inner.name # "skip" /\ Iterate(reader')
    /\ UNCHANGED <<dump, limit, calls, writer>>

Next == Write \/ View \/ Read

\* Both programs only ever wait for themselves.  Reading one token again and
\* again changes nothing, and so is no step.
Spec == Init /\ [][Next]_vars /\ WF_vars(Next)

-------------------------------------------------------------------------------
(* JSON, for reference: a stack of open brackets and what may come next. *)

At(stack, next) == [stack |-> stack, next |-> next]
Closing(bracket) == IF bracket = "object_start" THEN "object_end" ELSE "array_end"
Item(bracket) == IF bracket = "object_start" THEN "name" ELSE "value"

\* Right after the innermost open bracket, and after a value in it.
Within(stack) == At(stack, {Item(Last(stack)), Closing(Last(stack))})
Beyond(stack) ==
    At(stack, IF stack = << >> THEN {} ELSE {"comma", Closing(Last(stack))})
Bad == At(<<"bad">>, {})

Accept(p, c) ==
    CASE c.t \in {"object_start", "array_start"} /\ "value" \in p.next ->
            Within(Append(p.stack, c.t))
      [] c.t \in {"object_end", "array_end"} /\ c.t \in p.next -> Beyond(Front(p.stack))
      [] c.t = "comma" /\ "comma" \in p.next -> At(p.stack, {Item(Last(p.stack))})
      [] c.t = "colon" /\ "colon" \in p.next -> At(p.stack, {"value"})
      [] c.t = "string" /\ "name" \in p.next -> At(p.stack, {"colon"})
      [] c.t \in {"string", "number"} /\ "value" \in p.next -> Beyond(p.stack)
      [] OTHER -> Bad

\* What comes of a text, from the beginning of a document.
Parse(lexemes) ==
    LET after[n \in 0..Len(lexemes)] ==
            IF n = 0 THEN At(<< >>, {"value"})
            ELSE LET before == after[n - 1]
                 IN  IF before = Bad THEN Bad ELSE Accept(before, lexemes[n])
    IN  after[Len(lexemes)]

IsJson(lexemes) == Parse(lexemes) = Beyond(<< >>)

\* Contents that are the same once written and read.
Survives(s) == Unescaped(s) = s

\* The trigger, and the processes of the first snapshot as far as there is
\* room, each number and string with the field it was written for, and the
\* same as long as a double and the reader's escapes have it.
Same(number, v) == v <= Exact => number = v
Recovered ==
    /\ Same(out.timestamp, dump.timestamp)
    /\ out.trigger.type = Word(dump.trigger.type) /\ Same(out.trigger.pid, dump.trigger.pid)
    /\ \A list \in {"procs", "top_rss_procs"} :
           LET written == dump.snapshots[1][list]
           IN  /\ Len(out[list]) = (IF Len(written) < MaxProcs THEN Len(written) ELSE MaxProcs)
               /\ \A i \in DOMAIN out[list] :
                      /\ Same(out[list][i].pid, written[i].pid)
                      /\ Survives(written[i].cmdline) =>
                             out[list][i].cmdline = written[i].cmdline

-------------------------------------------------------------------------------

\* Whatever is appended fits, with the terminator, in a buffer that never
\* grows past its limit, although the growth is capped after it was computed
\* and not compared again with what is needed (json_writer.c:15-58).
BufferFits ==
    /\ writer.length < writer.capacity
    /\ writer.capacity <= MaxCapacity

\* A document that is kept is JSON: brackets that match, commas where one
\* flag per writer puts them and nowhere else, and no value that JSON has not,
\* provided memory could be read (json_writer.c:66-71, 174-296).
KeptIsJson ==
    phase = "reading" /\ reader = NewReader =>
        \/ IsJson(text)
        \/ \E i \in DOMAIN dump.snapshots : ~dump.snapshots[i].mem

\* Every kept document that is JSON is read to its end, and the reader has then
\* the trigger and the processes of the newest snapshot, although its loops
\* for them end at the first bracket of their kind (spktrace_view.c:85-191,
\* 270-314).  A command line with control characters that the reader does not
\* unescape (json_reader.c:36-57) comes back as another one, and a number beyond
\* 2^53 (json_reader.c:108) as the nearest double, but neither shifts a field.
ReadBack ==
    (phase = "reading" /\ reader = NewReader /\ IsJson(text))
        ~> (phase = "read" /\ Recovered)
===============================================================================
