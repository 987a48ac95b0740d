----------------------------- MODULE MCConfigFile -----------------------------
(* Instances of ConfigFile: files of a few lines, each line of a form of its *)
(* own.  A number is written in hundredths.                                  *)
EXTENDS ConfigFile, TLC

CONSTANT MaxLines   \* bound: lines of a file

Newline == [kind |-> "newline"]
Equal == [kind |-> "equal"]
Num(n) == [kind |-> "number", number |-> n]
Flag(b) == [kind |-> "flag", flag |-> b]
Word(w) == [kind |-> "word", text |-> w, long |-> FALSE]
LongWord == [kind |-> "word", text |-> "long", long |-> TRUE]
Junk == [kind |-> "junk"]

Section(name) == <<[kind |-> "open"], Word(name), [kind |-> "close"], Newline>>
Inline(k, value) == <<Word(k), Equal, value, Newline>>
Split(k, value) == <<Word(k), Equal, Newline, value, Newline>>
Double(k, one, other) == <<Word(k), Equal, one, other, Newline>>

AllDisabled ==
    Split("enable_cpu_detection", Flag(FALSE))
    \o Split("enable_memory_detection", Flag(FALSE))
    \o Split("enable_swap_detection", Flag(FALSE))

MCLines ==
    {Section("sampling"), <<[kind |-> "open"], Word("")>> \o Tail(Section("sampling")),
     Section("output"), Section("log_management"),
     Section("features") \o AllDisabled,
     Section("trigger") \o Split("scope", Word("parent")),
     Section("anomaly_detection") \o Split("mem_drop_threshold_mib", Num(-100)),
     Split("ring_buffer_capacity", Num(1290)),
     Split("ring_buffer_capacity", Num(104859200)),
     Double("ring_buffer_capacity", Num(3000), Num(500)),
     Split("context_snapshots_per_dump", Num(4000)),
     Inline("context_snapshots_per_dump", Num(2000)),
     Split("output_directory", Word("/data")),
     Split("output_directory", Word("data")),
     Split("output_directory", Word("/data/../etc")),
     Split("output_directory", Word("")),
     Split("cleanup_policy", Word("by_agee")),
     <<LongWord, Equal, Newline, Num(5000), Newline>>,
     <<Junk, Newline>>}

Text(lines) ==
    LET upto[i \in 0..Len(lines)] == IF i = 0 THEN << >> ELSE upto[i - 1] \o lines[i]
    IN  upto[Len(lines)]

FilesOf(lines, max) == UNION {{Text(f) : f \in [1..n -> lines]} : n \in 0..max}

MCStartFiles == FilesOf(MCLines, MaxLines) \union {Unreadable}
MCReloadFiles ==
    {Unreadable, Section("sampling") \o Split("context_snapshots_per_dump", Num(4000))}
    \union {Section("output") \o Split("output_directory", Word(w)) :
               w \in {"/data", "", "/spool"}}
MCAbsolute == {"/var/lib/spiketrace", "/data", "/data/../etc", "/spool"}
MCPlainFiles ==
    FilesOf({Section("sampling"), Inline("context_snapshots_per_dump", Num(2000)),
             Inline("ring_buffer_capacity", Num(3000))}, 3)
==============================================================================
