------------------------------ MODULE ConfigFile ------------------------------
(***************************************************************************)
(* From the configuration file to the running daemon: config_load of       *)
(* src/src/config.c token by token, config_validate, and what main and     *)
(* reload_config of src/src/spktrace.c do with the outcome at start and at *)
(* each SIGHUP.                                                            *)
(*                                                                         *)
(* A file is a sequence of lexemes: "open" and "close" brackets, "equal",  *)
(* "newline", "number", "flag" and "word", the last with a mark when it is *)
(* longer than the parser's key buffer, and "junk" for what no token       *)
(* starts with or a string that does not end.  White space and comments    *)
(* leave no lexeme.                                                        *)
(***************************************************************************)
EXTENDS Settings, Sequences

CONSTANTS
    StartFiles,     \* the files there may be when the daemon starts
    ReloadFiles,    \* and at each reload
    Unreadable,     \* no such file, or one that cannot be read or is too large
    None,           \* no directory
    UInt32, UInt64  \* the sizes of the two unsigned types, 2^32 and 2^64

ASSUME WidthAssumption ==
    /\ UInt32 \in Nat /\ UInt64 \in Nat
    /\ UInt32 > MaxTotalMib /\ UInt64 > MaxThresholdKib

Kinds == {"open", "close", "equal", "newline", "number", "flag", "word", "junk"}

IsFile(file) ==
    /\ Len(file) \in Nat
    /\ \A i \in 1..Len(file) :
        /\ file[i].kind \in Kinds
        /\ file[i].kind = "number" => file[i].number \in Int
        /\ file[i].kind = "flag" => file[i].flag \in BOOLEAN

ASSUME FileAssumption ==
    \A file \in (StartFiles \union ReloadFiles) \ {Unreadable} : IsFile(file)

VARIABLES
    started,    \* whether the directories have been opened
    pc,         \* where config_load and its callers stand
    text,       \* file_data
    parser,     \* toml_parser_t: pos, token and key_buf
    section,    \* current_section, as the words its header holds
    key,        \* the key whose value is being read
    config,     \* the configuration being loaded
    active,     \* active_config
    dump_dir,   \* the directory of dump_ctx
    log_dir     \* the directory of log_ctx

reading == <<text, parser, section, key>>
running == <<started, active, dump_dir, log_dir>>
vars == <<pc, reading, config, running>>

NewParser == [pos |-> 1, token |-> [kind |-> "none"], key |-> ""]

Init ==
    /\ pc = "start" /\ started = FALSE
    /\ text = << >> /\ parser = NewParser /\ section = << >> /\ key = ""
    /\ config = Defaults /\ active = Defaults
    /\ dump_dir = None /\ log_dir = None

-------------------------------------------------------------------------------
(* toml_next_token                                                          *)

\* Closing brackets are passed over.
NextLexeme(pos) ==
    CHOOSE i \in pos..(Len(text) + 1) :
        /\ \A j \in pos..(i - 1) : text[j].kind = "close"
        /\ i <= Len(text) => text[i].kind # "close"

BeforeEqual(i) == i < Len(text) /\ text[i + 1].kind = "equal"

\* A word before an equals sign is a key, any other word a string.  A key too
\* long for the buffer leaves the key read before it there.
WordAt(p, i) ==
    [pos |-> i + 1,
     token |-> [kind |-> IF BeforeEqual(i) THEN "key" ELSE "string",
                text |-> text[i].text],
     key |-> IF BeforeEqual(i) /\ ~text[i].long THEN text[i].text ELSE p.key]

\* Junk and the end of the file are not left again.
NextToken(p) ==
    LET i == NextLexeme(p.pos)
    IN  IF i > Len(text)
        THEN [p EXCEPT !.pos = i, !.token = [kind |-> "eof"]]
        ELSE IF text[i].kind = "junk"
        THEN [p EXCEPT !.pos = i, !.token = [kind |-> "error"]]
        ELSE IF text[i].kind = "word"
        THEN WordAt(p, i)
        ELSE [p EXCEPT !.pos = i + 1, !.token = text[i]]

-------------------------------------------------------------------------------
(* apply_config_value                                                       *)

SettingsOf(name) ==
    CASE name = "anomaly_detection" ->
            Sizes \union {"cpu_delta_threshold_pct", "new_process_threshold_pct",
                          "mem_pressure_threshold_pct", "cooldown_seconds"}
      [] name = "sampling" -> {"sampling_interval_seconds", "ring_buffer_capacity",
                               "context_snapshots_per_dump"}
      [] name = "process_collection" -> {"max_processes_tracked", "top_processes_stored"}
      [] name = "output" -> {"output_directory"}
      [] name = "features" -> Toggles \ {"enable_auto_cleanup"}
      [] name = "advanced" -> {"memory_baseline_alpha", "process_baseline_alpha"}
      [] name = "trigger" -> {"trigger_scope"}
      [] name = "log_management" ->
            {"enable_auto_cleanup", "cleanup_policy", "log_max_age_days",
             "log_max_count", "log_max_total_size_mib", "cleanup_interval_minutes"}
      [] OTHER -> {}

KeyOf(s) ==
    CASE s = "mem_drop_threshold_kib" -> "mem_drop_threshold_mib"
      [] s = "swap_spike_threshold_kib" -> "swap_spike_threshold_mib"
      [] s = "trigger_scope" -> "scope"
      [] OTHER -> s

\* Header words are joined with dots, which no section's name has; an empty one
\* that comes first leaves nothing to join.
SectionSettings(words) ==
    IF words # << >> /\ \A i \in 1..(Len(words) - 1) : words[i] = ""
    THEN SettingsOf(words[Len(words)]) ELSE {}

Named(words, k) == {s \in SectionSettings(words) : KeyOf(s) = k}

\* A double converted to an unsigned type drops its fraction.  When the type
\* cannot hold it the conversion is undefined: it may wrap, or give either end.
Whole(n) == IF n >= 0 THEN n \div 100 ELSE -((-n) \div 100)
Cast(n, size) == IF Whole(n) \in 0..(size - 1) THEN {Whole(n)} ELSE {Whole(n), 0, -1}

Converted(s, n) ==
    CASE s \in Doubles -> {n}
      [] s \in Counts -> {w % UInt32 : w \in Cast(n, UInt32)}
      [] s \in Sizes -> {(w * 1024) % UInt64 : w \in Cast(n, UInt64)}

\* Mutant: a policy is taken as it is spelled.
ValuesAsSpelled(s, token) ==
    CASE s \in Numbers /\ token.kind = "number" -> Converted(s, token.number)
      [] s \in Toggles /\ token.kind = "flag" -> {token.flag}
      [] s \in Texts /\ token.kind = "string" -> {token.text}
      [] OTHER -> {}

\* What a token may set a setting to: nothing, when it is of the wrong kind.
\* An unknown scope is ignored too, an unknown policy disables the cleanup.
Values(s, token) ==
    CASE s \in Numbers /\ token.kind = "number" -> Converted(s, token.number)
      [] s \in Toggles /\ token.kind = "flag" -> {token.flag}
      [] s = "output_directory" /\ token.kind = "string" -> {token.text}
      [] s = "trigger_scope" /\ token.kind = "string" -> {token.text} \intersect Scopes
      [] s = "cleanup_policy" /\ token.kind = "string" ->
            {IF token.text \in Policies THEN token.text ELSE "disabled"}
      [] OTHER -> {}

Apply(c, words, k, token) ==
    LET set == UNION {{[c EXCEPT ![s] = v] : v \in Values(s, token)} :
                         s \in Named(words, k)}
    IN  IF set = {} THEN {c} ELSE set

-------------------------------------------------------------------------------
(* config_load                                                              *)

\* Whatever the active configuration is, a load begins with the defaults; they
\* are its outcome, and a success, when the file cannot be read.
Load(file) ==
    /\ config' = Defaults
    /\ IF file = Unreadable
       THEN pc' = "validate" /\ UNCHANGED reading
       ELSE /\ pc' = "first"
            /\ text' = file /\ parser' = NewParser /\ section' = << >> /\ key' = ""
    /\ UNCHANGED running

First ==
    /\ pc = "first"
    /\ parser' = NextToken(parser)
    /\ pc' = "line"
    /\ UNCHANGED <<text, section, key, config, running>>

\* parse_table_header
Header ==
    /\ pc = "line" /\ parser.token.kind = "open"
    /\ section' = << >>
    /\ parser' = NextToken(parser)
    /\ pc' = "header"
    /\ UNCHANGED <<text, key, config, running>>

HeaderWord ==
    /\ pc = "header" /\ parser.token.kind \in {"string", "key"}
    /\ section' = Append(section, parser.token.text)
    /\ parser' = NextToken(parser)
    /\ UNCHANGED <<pc, text, key, config, running>>

HeaderEnd ==
    /\ pc = "header" /\ parser.token.kind \notin {"string", "key"}
    /\ parser' = NextToken(parser)
    /\ pc' = "line"
    /\ UNCHANGED <<text, section, key, config, running>>

\* parse_key_value, whose key survives the reading of the value
Key ==
    /\ pc = "line" /\ parser.token.kind = "key"
    /\ key' = parser.key
    /\ parser' = NextToken(parser)
    /\ pc' = "equal"
    /\ UNCHANGED <<text, section, config, running>>

\* Mutant: the token after the equals sign is the value.
EqualAsCommented ==
    /\ pc = "equal"
    /\ parser' = NextToken(parser)
    /\ pc' = "apply"
    /\ UNCHANGED <<text, section, key, config, running>>

\* It moves past the equals sign to the token after it ...
Equals ==
    /\ pc = "equal"
    /\ parser' = NextToken(parser)
    /\ pc' = "value"
    /\ UNCHANGED <<text, section, key, config, running>>

\* ... and config_load, to "get value token", moves on to the next.
Value ==
    /\ pc = "value"
    /\ parser' = NextToken(parser)
    /\ pc' = "apply"
    /\ UNCHANGED <<text, section, key, config, running>>

Assign ==
    /\ pc = "apply"
    /\ config' \in Apply(config, section, key, parser.token)
    /\ parser' = NextToken(parser)
    /\ pc' = "line"
    /\ UNCHANGED <<text, section, key, running>>

Other ==
    /\ pc = "line" /\ parser.token.kind \notin {"open", "key", "eof", "error"}
    /\ parser' = NextToken(parser)
    /\ UNCHANGED <<pc, text, section, key, config, running>>

\* Mutant: the loop only ends with the file.
ParsedAtEnd ==
    /\ pc = "line" /\ parser.token.kind = "eof"
    /\ pc' = "validate"
    /\ UNCHANGED <<reading, config, running>>

\* The file is read to its end or to the first error; what the lines before it
\* have set stays set.
Parsed ==
    /\ pc = "line" /\ parser.token.kind \in {"eof", "error"}
    /\ pc' = "validate"
    /\ UNCHANGED <<reading, config, running>>

-------------------------------------------------------------------------------
(* main and reload_config                                                   *)

\* Where dumps go: an empty name stands for the built-in directory.
DumpTarget(c) == IF c.output_directory = "" THEN DefaultDirectory ELSE c.output_directory

\* Mutant: a reload moves the dumps to the directory it names.
AdoptMovingDumps ==
    /\ pc = "validate"
    /\ active' = config_validate(config)
    /\ text' = << >> /\ parser' = NewParser /\ section' = << >> /\ key' = ""
    /\ config' = Defaults
    /\ pc' = IF started THEN "run" ELSE "open"
    /\ dump_dir' = IF dump_dir # None THEN DumpTarget(active') ELSE None
    /\ UNCHANGED <<started, log_dir>>

\* Validation repairs whatever was read and reports no failure, so that the
\* outcome is always adopted.  (What parsing worked with is gone by then.)
Adopt ==
    /\ pc = "validate"
    /\ active' = config_validate(config)
    /\ text' = << >> /\ parser' = NewParser /\ section' = << >> /\ key' = ""
    /\ config' = Defaults
    /\ pc' = IF started THEN "run" ELSE "open"
    /\ UNCHANGED <<started, dump_dir, log_dir>>

\* spike_dump_init and log_manager_init, each of which may be refused its
\* directory; the log manager does without one that has no name.
OpenDirectories ==
    /\ pc = "open"
    /\ started' = TRUE
    /\ dump_dir' \in {DumpTarget(active), None}
    /\ log_dir' \in {IF active.output_directory = "" THEN None
                     ELSE active.output_directory, None}
    /\ pc' = "run"
    /\ UNCHANGED <<reading, config, active>>

\* At start, and at each SIGHUP that the main loop serves: any file may be
\* there by then.
LoadAny ==
    \/ pc = "start" /\ \E file \in StartFiles : Load(file)
    \/ pc = "run" /\ \E file \in ReloadFiles : Load(file)

Step ==
    \/ First \/ Header \/ HeaderWord \/ HeaderEnd
    \/ Key \/ Equals \/ Value \/ Assign \/ Other \/ Parsed
    \/ Adopt \/ OpenDirectories

Next == LoadAny \/ Step

\* The loading thread runs until it is done; nothing makes a reload happen.
Spec == Init /\ [][Next]_vars /\ WF_vars(Step)
-------------------------------------------------------------------------------
(* Properties                                                               *)

\* A parsed configuration has a value of its type for every setting, even
\* after a conversion whose result is undefined.
TypeOK ==
    /\ started \in BOOLEAN
    /\ pc \in {"start", "first", "line", "header", "equal", "value", "apply", "validate", "open", "run"}
    /\ \A c \in {config, active} :
        /\ DOMAIN c = SettingNames
        /\ \A s \in Counts : c[s] \in 0..(UInt32 - 1)
        /\ \A s \in Sizes : c[s] \in 0..(UInt64 - 1)
        /\ \A s \in Doubles : c[s] \in Int
        /\ \A s \in Toggles : c[s] \in BOOLEAN
        /\ c.trigger_scope \in Scopes /\ c.cleanup_policy \in Policies

\* Whatever the file holds, and even if it cannot be read, what the daemon
\* runs with is within its ranges and its settings agree with each other.
ActiveIsValid == Valid(active)

\* Cleanup deletes nowhere but where the dumps are written, also after a
\* reload has named another directory.
CleanupWhereWritten == log_dir # None => dump_dir \in {log_dir, None}

\* Every load ends, whatever the file holds.
LoadEnds == pc \notin {"start", "run"} ~> pc = "run"

\* The reading of a file from its lexemes alone.  The section at a place is
\* the last header's before it; a key longer than the buffer stands for the
\* last shorter one; nothing counts after junk.
IsKey(k) == text[k].kind = "word" /\ BeforeEqual(k)

SectionAt(k) ==
    LET opens == {j \in 1..(k - 1) : text[j].kind = "open"}
    IN  IF opens = {} THEN << >>
        ELSE <<text[(CHOOSE j \in opens : \A i \in opens : i <= j) + 1].text>>

KeyAt(k) ==
    LET short == {j \in 1..k : IsKey(j) /\ ~text[j].long}
    IN  IF short = {} THEN ""
        ELSE text[CHOOSE j \in short : \A i \in short : i <= j].text

\* The value that the lexeme at place v gives a setting, for the key at k.
Given(s, k, v) ==
    IF /\ IsKey(k) /\ v <= Len(text) /\ s \in Named(SectionAt(k), KeyAt(k))
       /\ \A j \in 1..v : text[j].kind # "junk"
    THEN Values(s, IF text[v].kind = "word" THEN [kind |-> "string", text |-> text[v].text]
                   ELSE text[v])
    ELSE {}

\* Every setting is what the last key that gives it a value gives it, where
\* the value of a key at k stands at k + ahead.
ReadsAhead(ahead) ==
    \A s \in SettingNames :
        LET keys == {k \in 1..Len(text) : Given(s, k, k + ahead) # {}}
        IN  IF keys = {} THEN config[s] = Default(s)
            ELSE config[s] \in
                Given(s, CHOOSE k \in keys : \A j \in keys : j <= k,
                         (CHOOSE k \in keys : \A j \in keys : j <= k) + ahead)

\* A header is one word, and a line; what is read with a key holds neither
\* another key nor a header.
LineByLine ==
    /\ \A j \in 1..Len(text) : text[j].kind = "open" =>
        /\ j + 3 <= Len(text)
        /\ text[j + 1].kind = "word" /\ text[j + 2].kind = "close"
        /\ text[j + 3].kind = "newline"
    /\ \A j \in 1..Len(text) : text[j].kind = "close" =>
        j > 2 /\ text[j - 2].kind = "open"
    /\ \A k \in 1..Len(text) : IsKey(k) =>
        \A i \in (k + 1)..(k + 3) : i <= Len(text) => ~IsKey(i) /\ text[i].kind # "open"

\* What config_load makes of a file: a key takes effect by the second lexeme
\* after its equals sign, with the section and the key last read, up to the
\* first error.
SecondLexemeCounts == pc = "validate" /\ LineByLine => ReadsAhead(3)

\* examples/config.toml:6 sets "cpu_delta_threshold_pct = 10.0", and so every
\* setting of the file: the value follows the equals sign.
AssignmentsTakeEffect == pc = "validate" => ReadsAhead(2)
==============================================================================
