# spiketrace: models, checks and proofs

spiketrace is a daemon that samples CPU, memory, swap and processes once a
second, keeps the recent samples in a ring buffer, decides whether a sample is
anomalous and, when it is, writes the sample and its context to a JSON file.
Two viewers read those files: a command-line one in C and a terminal interface
in Go. This directory specifies the parts of it that decide something, checks
them with TLC and proves some of what TLC finds with TLAPS.

Paths below are relative to the repository; `spktrace.c` is `src/spktrace.c`,
`app.go` is `internal/ui/bubbletea/app.go`, and so on.

## The system

| Part | State it keeps | Operations | Hard part |
|---|---|---|---|
| main loop, signals (`spktrace.c`) | two flags set by handlers, active configuration, copies made each iteration | load, reload, sleep, sample, dump, clean up, stop | signals between any two statements |
| process table (`proc.c`) | last collection's ticks, baselines, sample counts | collect one snapshot of /proc | processes come and go; any read may fail; the table is bounded |
| snapshot builder, gauges (`snapshot_builder.c`, `cpu.c`, `mem.c`) | counters of each core at the last reading, the builder's settings | read /proc/stat and /proc/meminfo, take shares | cores that come and go, readings that fail, unsigned differences |
| ring buffer (`ringbuf.c`) | slots, head, tail, count | push, recent, find the start of a spike | wrap-around |
| detector (`anomaly_detector.c`) | moving averages of memory and swap, last triggers, cooldown table | evaluate one sample | table full, entries expiring during the scan |
| dump writer (`spike_dump.c`) | directory, counter | write a document to a temporary file, sync, rename | crash or failing call between two steps |
| log manager (`log_manager.c`) | policy, time of the last cleanup | scan, sort, delete | a list that is stale, a scan that stops at 1024 files |
| document (`json_writer.c`, `spike_dump.c`, `json_reader.c`, `spktrace_view.c`) | growing buffer, comma flag; reader position | serialize, tokenize, parse | size limits, strings at the limit, loops that end only at a bracket |
| terminal viewer (`app.go`, panels, `internal/processor`) | files, cursor, loaded dump in two panels, dialog | keys, clicks, asynchronous load, list and delete | answers in any order, beside a daemon that writes and deletes |
| configuration (`config.c`, `config.h`) | parser position and token, section, key; the settings | tokenize, assign, validate, at start and at each reload | any file: wrong types, numbers out of range, settings that depend on each other, errors half-way |

They are connected as follows. The main loop loads the configuration at start and
after a SIGHUP, and hands parts of it to the others. It calls the builder, which calls
the process table; pushes the snapshot in the ring buffer; gives the process
samples to the detector; drops a result whose kind is disabled; asks the ring
buffer for the context and the start of the spike; and hands both to the dump
writer. The log manager runs at the end of the same iteration. The daemon is
one thread; its only concurrency is its signal handlers, the administrator's
editor and the kernel. The viewers share nothing with it but the directory,
which both of them and the daemon may change at any time.

What makes each part correct is stated by its properties (below). What can go
wrong with it is listed, at its line, under "hazards" in `PROJECT.json`.

## Modules

| Module | Models | Checked by |
|---|---|---|
| `SnapshotList`, `SnapshotHistory` | what the ring buffer promises: a list of the last `Capacity` snapshots | |
| `RingBuf` | `ringbuf.c` as it stores them | `MCRingBuf`, `RingBufProofs` |
| `CooldownTable` | the operations of the cooldown table, as operators | `DetectorProofs` |
| `Detection` | one evaluation: CPU, memory, swap, and which one is returned | `DetectorProofs` |
| `AnomalyDetector` | evaluations in sequence under one configuration | `MCAnomalyDetector`, `DetectorProofs` |
| `Daemon` | the main loop, composed of `Detection` and `SnapshotList` | `MCDaemon`, `DaemonProofs` |
| `ProcTable` | `proc.c` over a changing /proc | `MCProcTable`, `CollectionProofs` |
| `Spool` | the dump directory: writer, cleanup, viewer, crashes | `MCSpool`, `SpoolProofs` |
| `Document` | a dump as text, written and read back | `MCDocument`, `DocumentProofs` |
| `Viewer` | the terminal viewer | `MCViewer`, `ViewerProofs` |
| `Settings` | names, ranges and defaults of the settings, and `config_validate`, as operators | `ConfigFileProofs` |
| `ConfigFile` | `config_load` over a file of lexemes, and what `main` and `reload_config` do with it | `MCConfigFile`, `ConfigFileProofs` |
| `Gauges` | the processor and memory part of a snapshot, over a changing /proc/stat | `MCGauges`, `CollectionProofs` |
| `DetectorProofs` | theorems about `CooldownTable`, `Detection`, `AnomalyDetector` | |
| `CollectionProofs` | theorems about `Gauges` and `ProcTable` | |
| the other `*Proofs` | theorems about the module they are named after | |

Names are the source's where TLA+ allows it. Variables whose comment says
"history" are read by no guard; they exist so that a property can be stated.
Definitions commented "Mutant" are plausible bugs of the definition that
follows them; nothing of the specifications uses them. `PROJECT.json` says
which property detects each of them, and maps every other definition to lines
of the source.

### RingBuf

`snapshots`, `head`, `tail` and `count` are the fields of `ringbuffer_t`. A
call and its answer are one step and `reply` holds them, so that refinement
compares what callers see. A snapshot is its timestamp and the CPU usage of
each process, -1 for one that is not listed. `Push` stamps a snapshot that
carries no time, as the code does. The slots and the modulo arithmetic are the
code's. `SnapshotHistory` knows nothing of either: `ImplementsHistory` says
that each answer is the one the list would give.

### CooldownTable, Detection, AnomalyDetector

The table is the array up to `cooldown_count`. `cooldown_is_active` both
answers and deletes, so it is two operators. `Detection` has the whole of
`anomaly_evaluate`: new processes under their own threshold, the scope of the
key, the aggregation of related processes, the two moving averages, pressure,
spikes, and the order CPU, memory, swap in which the first found is returned
after all three were evaluated. The loop over the samples is a recursive function
of the number of passes made (`CpuScan`): each pass has the table and the worst
sample that the pass before left. Percentages and KiB are small integers and the
smoothing factor is in tenths. The averages are thus rounded down; no property
relies on the rounding.

`AnomalyDetector` is one evaluation after another. Three histories record what
was answered, none of which the detector keeps: when each key last had a CPU
anomaly (`reported`), when memory and swap last had theirs (`told`), and whether
more keys than the table has slots were ever inside their windows at once
(`crowded`), which is when a full table may give up a live entry.

### Daemon

The loop is cut where it reads or writes a flag, the file or the active
configuration: between any two of those a signal may be handled or the file
edited. Everything from collecting to dumping is one step, because nothing
in it reads what a handler writes. Loading does not fail: what cannot be read is
replaced by defaults and `config_validate` repairs the rest. So `Settings` is
here a set of valid configurations, of which the model knows that the context
is at least one snapshot; `ConfigFile` says how a file becomes one, and that
what it becomes is valid. The snapshot buffer is the list that `RingBuf`
implements. A dump is what the document holds: of the context at most
`MaxWritten` snapshots, as `spike_dump_write` cuts it.

### ProcTable

A collection reads the system's ticks and then scans /proc, one process to a step,
in the order of their numbers. Processes run, start and exit before, between and
after those steps. A scan passes over any process (it has exited, or its files
cannot be read), may read none, or fail to open the directory. The table is
bounded (`MaxTracked`), and the sample count saturates (`MaxSeen`), as the byte in
the code does. What `qsort` makes of a table is one of its reorderings that are in
order. CPU shares are integers, `Whole` standing for 100%.

### Spool

A name and a document are different things: a name is the local second, the
daemon's counter and the suffix that `mkstemp` adds; a document is what was
written by one attempt. `write_atomic` is one action for each system call that
may fail or be the last; a fault leads to its `cleanup` label, where the unlink
may fail too without anyone looking. A file is synced before it is renamed, the
directory never is. So there are two directories, the one the programs see and
the one on the disk, which the file system brings up to date when it likes
(`Writeback`). Power loss takes of the files what was not synced, and puts the
directory back to what the disk had: a rename, a removal or a deletion since then
is undone, in the order they were made, which is what a journal gives. The local
clock goes back once
(`Fold`, `Shift`), which is when a second-resolution name repeats. The scan
returns any `MaxFiles` of the files when there are more, because `readdir`
promises no order. Cleanup by each policy works from its list while the viewer
removes files.

### Document

The text is a sequence of lexemes, each with the bytes it takes; their kinds are
the reader's token types. Objects keep the fields that the reader looks for, one it
passes over and those that decide something. A serializer is the sequence of calls
it makes to the writer, and one step is one call. The writer's growth, its cap and
its error flag are the code's; its sizes are a first one, doubled four times to the
last, as 64 KiB and 1 MiB are, and a command line fits in an empty buffer. The
contents of a string are counts of four kinds of byte: those written as they are,
those with an escape that both programs know, `\b` and `\f`, which only the writer
knows, and the control characters that it writes as `\u00XX`. `Escaped` is what
they take in the file and `Unescaped` what the reader makes of them: it drops a
backslash it does not know and keeps what follows. A number is read as the nearest
double (`Double`). What
JSON is, `Parse` says for reference: a stack of open brackets and what may come
next. The
reader is `read_token`, `skip_value` and the four nested loops of
`spktrace_view.c`, one iteration to a step; a document that makes them turn for
ever is one where the reader does not end.

### Viewer

`Update` takes one message at a time; a command runs by itself (`Perform`) and
its answer waits in a bag until it is delivered, in any order. The daemon may
write and remove dumps at any time. A listing is one directory after the other, each
newest first, or nothing of one that cannot be read (`Found`). A nil dereference in
`viewer.go` is an outcome (`status = "panicked"`).

`selectedFile` is the file named above the timeline; `currentFile`, which the
viewer never shows, is what a deletion is compared with. The overlay (`detail`) is
the place of the process it was opened on: dump, snapshot, list and row. It keeps
every key but Esc from the list, and `SetState` does not close it.

### Settings, ConfigFile

A configuration is a function from the names of the settings. A number is an
integer in hundredths, so that a double is exact to two digits; a path is one of
a few texts, of which the model knows what `is_safe_absolute_path` tests: that
it starts with a slash and that it holds no "../". (A trailing "/.." passes that
test. The model keeps the code's test.) `config_validate` is the composition of
its blocks in their order: directory, ranges, the caps of one setting by another,
the sections that must not all be off.

A file is a sequence of lexemes: what `next_token` recognises, with white space
and comments dropped. Where no token starts, or a string does not end, stands
`junk`. The words of a header are joined with dots, unless nothing stands before
them: `["" sampling]` names the section `sampling` (`SectionSettings`). One step of `ConfigFile` is one call of the parser's loop: `first`,
`line`, `header`, `equal`, `value`, `apply`, then `validate`. The key buffer, the
section and the token are the parser's own and survive lines as they do in the
code: a key too long for its buffer leaves the key read before it. A conversion of a
double that does not fit the unsigned type has any value of that type, because
C leaves it undefined. Start and reload differ as in `spktrace.c`: at start the
directories are opened, at a reload they are kept.

### Gauges

Of the ten counters of a line of /proc/stat the model keeps idle, iowait and the
sum of the others. `cpu_read_jiffies` fills an array with one place per core
online at start: a line without a place is passed over, a place without a line
keeps what it holds. Differences are modulo `Width`. The world ticks, takes
cores offline and brings them back, and may set iowait back, which the kernel's
documentation allows. A reading can fail as a whole. That a single line does not
parse (cpu.c:83) is left out: the code asks for fields that every kernel has
written on every such line. `seen` is a history of
what a reading last found on each line; the property compares with it.

## Runs

| Run | Question | Bounds |
|---|---|---|
| `ring_buffer` | does the array answer like a list? | 3 slots, wrapped as often as wanted, 2 usages and absence, 3 instants |
| `detector` | is the worst process reported, are reports of a key, of memory and of swap spaced, does the baseline follow? | table of 2; 18 lists of up to 3 processes; 3 readings and none; 3 configurations, windows of 2 and 3; 6 instants |
| `daemon` | signals, reloads and dumps | 2 configurations, 4 kinds of sample, 3 snapshots, ring of 3, 2 written, 1 edit |
| `process_table` | new, kept, measured | 3 processes, table of 2, 2 ticks of the system |
| `spool` | whole, kept, cleaned up | 3 dumps, 1 fault and an unlink that fails after it, scan of 2 files, limit of 1, clock back once |
| `document` | valid JSON, read back | up to 3 snapshots, 2 written, lists of up to 2, every kind of byte, a number past the exact ones, two sizes of buffer |
| `viewer` | panels, dialog, crash, loading | 2 dumps in 2 directories, 2 commands at once |
| `config_file` | does every file load, to consistent settings, by the parser's own rule? | files of up to 3 lines of 19 forms, unreadable ones, 5 files at reload; unsigned types of 2^20 and 2^30 and a little |
| `gauges` | is every tick measured once? | 2 places for cores, 3 ticks, iowait set back once |
| `document_full`, `config_assigned`, `origin_unwritten` | the code against its own documents | as their component; files of up to 3 lines in the form of the example |

Why these are enough. A slot array shows wrap-around once it has more than one
slot and is pushed into more often than it has; 3 gives a middle. Eviction and
expiry need one key more than there are slots, and in a table of two the
swap-delete of one entry moves the other, while the third process is still to be
consulted; six instants are two windows of three. In `daemon`, three samples span a
reload between two of them, fill the ring and leave a streak that begins before the
window; one context is as long as what is written and the other longer. In
`spool`, three dumps exceed both the scan (2) and the count (1); one fault at any
place is a crash, a power loss or a failing call with its unlink; the proofs have
any number of them. In `document`, three snapshots
exceed those written (2) and two processes those read (1); the smaller limit
makes growth fail in the middle of a document, and a string of six bytes is the
longest the reader takes. In `viewer`, two commands
are what it takes for answers to cross. In `config_file`, three lines are a header, a
key and one that disturbs either; the widths are the smallest that hold every
permitted range, so that a number can still lie beyond them. In `gauges`, the core
online at start may be the second alone, which has a line and no place; three ticks
allow a core to go, miss a reading and come back.

What the properties say:

- **ring_buffer** `HeadAgrees`: the three indices agree about where the oldest
  is. `NewestFirst`: what is retained is in order of its stamps.
  `ImplementsHistory`: each call is one of the abstract history.
- **detector** `KeysDistinct`: a key has one entry in the table. `QuietAreHeld`:
  a key inside its window has one, unless more keys than slots were inside theirs
  at once. `ReportsSpaced`: until then its reports are a window apart.
  `WorstIsReported`: the process reported is the worst of those
  above their thresholds and outside a cooldown when the evaluation began,
  however the table changes during it. `BaselineFollows`: the memory average
  moves with every reading, also with one that is reported or suppressed.
  `MemorySpaced`: the memory anomalies that were returned are a cooldown apart,
  and so are those of swap. `OnlyOutrankedAreLost`: a gauge that starts its cooldown
  has its anomaly returned, or one of a higher rank is.
- **daemon** `ReloadIsPrompt`: at most one sample is taken between a SIGHUP and
  the reload. `DetectorOfOneConfig`: no baseline or cooldown outlives the
  configuration it was built under. `DumpsAreAskedFor`: a dump is of a type
  that the settings in force enable, and its newest snapshot is the one just
  collected. `OriginIsStreak`: every snapshot written up to the origin shows the
  process, and the origin is one of those written if the context is no longer than
  that (`origin_unwritten` shows that otherwise it need not be). `NoLostReload`: a SIGHUP leads to the file as it
  was when it came, unless it changed again. `ShutdownTerminates`.
- **process_table** `NewMeansNew`: a sample count of 1 or 2 means that no more
  collections in a row kept the process. `BusiestIsKept`: of the
  processes that a scan has read the busiest is in the table and first in the list.
  `MeasuredOverOneInterval`: process ticks and system ticks are of the same two
  collections, unless a scan opened /proc and read no process, after which the
  code keeps the ticks and no table (proc.c:381-385).
- **spool** `FinalsAreWhole`: a final name is a whole document, whatever directory
  the machine comes back with. `OrphansAreCounted`: beside the temporary file in
  hand there is one at most for each power loss, crash during a dump or failed
  unlink. `DumpsAreKept`: no dump of one run of the daemon replaces another.
  `NewestAreSpared`: by-count cleanup deletes a dump only where the limit's number
  of others, none older, stays in the directory, less what the viewer has removed
  since the scan. `CleanupConverges`: when dumps cease it reaches its limit,
  although each scan sees only part of the directory, if the limit is below what a
  scan can see.
- **document** `BufferFits`: length and terminator stay inside what was
  allocated. `KeptIsJson`: a document that is not refused is JSON if memory was
  readable. `ReadBack`: a kept document that is JSON is read to its end, every
  number and string into its own field; a number is the same up to 2^53, a string if
  it has no character whose escape the reader does not know.
- **viewer** `PanelsAgree`: timeline and processes are of one snapshot of one dump,
  the one a deletion is compared with; the file named above them is the selection;
  the overlay covers the row it was opened from. `DialogIsAboutTheSelection`: what the question names is
  what is selected. `PanicFollowsDeletion`: the nil dereference is reachable
  only after a deletion emptied the panels. `LoadingEnds`: loading ends unless
  its answer was discarded by an open dialog.

- **config_file** `ActiveIsValid`: whatever the file, even unreadable, the daemon
  runs with settings in their ranges that agree with each other.
  `CleanupWhereWritten`: the cleanup deletes nowhere but where the dumps are
  written, although a reload may name another directory. `SecondLexemeCounts`:
  the outcome of the parser is told from the lexemes alone (the last key that
  gives a setting a value decides, in the section of the last header, with the
  last key that fitted its buffer, before the first error). It speaks of files
  written line by line, as all those of the run are: a header is one word on a line,
  and what is read with a key holds no other key or header. Of `k = a = b` the
  parser makes something else. `LoadEnds`: every load ends.
- **gauges** `MeasuredSinceLastSeen`: the usage of a core is its busy share
  since a reading last listed it, so no tick is counted twice or left out, and
  the share of iowait is that since the last reading, unless counters went
  back.

`CHECK_DEADLOCK FALSE` stands where the system may stop: a clock bound reached
(`detector`), a document read (`document`), a viewer that was
quit or crashed (`viewer`).

### What the code does otherwise than its documents say

Three runs expect a violation. Each quotes the statement it refutes in
`PROJECT.json`.

- `config_assigned`: a value on the line of its key, as every line of
  `examples/config.toml` has it, is passed over. `parse_key_value` has already
  moved to the value (config.c:463) when `config_load` moves on again (:807). The
  setting keeps its default without a message. Only a value on the line below its
  key takes effect. `SecondLexemeCounts` is the same fact as the rule the code
  follows. The settings other than the defaults that `Daemon` and the detector's
  runs use are reached through such files only.
- `document_full`: a command line of 255 characters, which a snapshot can hold,
  does not fit the reader's string, and the parse loops never end on the error
  token.
- `origin_unwritten`: `anomaly_detector.h:102` has the origin be an index in the
  dump's array. The index is bounded by the context collected (spktrace.c:413), but
  at most `SPIKE_DUMP_MAX_SNAPSHOTS` (10) snapshots are written (spike_dump.c:815):
  with a larger context (up to 60) it can lie past the array in the file.

One more is a finding without a run of its own. `examples/config.toml:66,73-74`
promises to keep only `log_max_count` files, from 1 to 10000. A scan ends at 1024
files (log_manager.h:22) and `cleanup_by_count` returns when it has no more than the
limit: with `log_max_count` from 1024 on nothing is ever deleted.
`CleanupConverges` is checked with `MaxCount` below `MaxFiles`; with both 2 TLC finds
it violated.

Seen while modelling, where a document or a comment says otherwise, and kept in
the models as the code has it:

- `README.md:219` offers to disable one kind of detection. A CPU anomaly takes the
  place of a memory anomaly of the same sample (anomaly_detector.c:381-384) and
  is dropped afterwards if CPU detection is off: the memory anomaly is not
  reported, and its cooldown has begun.
- `proc.c:365` says that a full table replaces its lowest entry. It compares with
  the last (:370), which is the lowest only once the table has been sorted.
- After a parse error `config_load` keeps what it has read so far, under the
  comment "Continue with defaults" (config.c:817-820).
- `reload_config` reports "keeping current config" (spktrace.c:93) when loading
  fails. A file that cannot be read is no failure: the daemon then runs with the
  defaults.
- `README.md:175` has the details panel show the "selected snapshot". The overlay
  keeps the process it was opened on when another snapshot is chosen, another dump
  arrives or the dump is deleted (viewer.go:127-158). And the file named on top is
  the one under the explorer's cursor (app.go:252,274), whichever dump is shown
  below it.
- `app.go:271` reports the files "sorted by date". Each directory's are, one
  directory after the other (loader.go:46-58).
- The reader does not decode `\b`, `\f` and `\u00XX`, which the writer writes
  (json_writer.c:93-119, json_reader.c:54-56): the command-line viewer shows the
  letters. Numbers pass through a double (json_reader.c:108), so a time stamp in
  nanoseconds beyond 2^53 loses its last digits.
- `ring_buffer_capacity` and `max_processes_tracked` are read and validated, and
  nothing outside `config.c` uses them.

With no document that promises otherwise: a temporary file left by a crash, a power
loss or a failed unlink matches no cleanup pattern and stays; a dump reported written
may be gone after a power loss, since the directory is never synced; the dump counter restarts with the
daemon, so two runs in the same local second write the same name
(`DumpsAreKept` is about one run); the answer to a load is discarded while a
dialog is open and the viewer stays "loading" until the next command; memory
that cannot be read makes the JSON invalid (the share is 0/0, printed as a
word); an iowait counter that goes back makes `iowait_pct` astronomical
(snapshot_builder.c:76); a core numbered beyond those online at start is never
read.

## Fairness

- `Daemon`: weak fairness of the loop's steps. The process is scheduled and its
  sleep is bounded by `sampling_interval_seconds`. Nothing is assumed of
  signals and edits.
- `Spool`: weak fairness of the daemon's steps and of the cleanup interval
  passing. Nothing obliges anybody to reload, delete, fail or restart.
- `Document`: weak fairness of the only process.
- `Viewer`: of the commands that "loading" waits for, some one is run and some one
  answered as long as there are any; bubbletea runs every command in a goroutine and
  queues its message. Nothing is assumed of keys, nor that an answer comes
  before later ones.
- `ConfigFile`: weak fairness of the parser's steps: it is a sequential program.
  Nothing obliges anybody to reload.
- The other specifications state safety only.

## Proofs

`RingBufProofs` proves, for every capacity, set of processes, set of usages and
bound of the clock, `TypeOK`, `HeadAgrees`, `NewestFirst` and
`ImplementsHistory`. `HeadAgrees` relates `head`, `tail` and `count`;
`NewestFirst` needs in addition that no stamp is ahead of the clock, since the
next push is stamped with it (`NoneAhead`). Those with `TypeOK` are the inductive
invariant `IndInv`. The arithmetic modulo the capacity is isolated in lemmas that
replace it by a case split (`BackFrom`). The refinement then has one lemma per
operation: the retained snapshots after a push are the new one before the old
ones (`PushRefines`), and the two queries answer over the same list. It assumes
`CapacityAssumption` and what `RingBuf` assumes of its clock and usages.

`DetectorProofs` begins with what the table's operations return, for tables of
any keys: what is found, what is evicted, what a consultation or a record leaves.
The first index and the oldest entry exist by `LeastNatural`, which is obtained
from the library's theorem that strict inclusion of finite sets is well-founded.
From them it proves all the properties of `AnomalyDetector`, for every table size
and any samples, readings and configurations.
`CpuScan` is a recursive function, so it is first shown to have a value at every
pass (`CHOOSE` gives one only if some function solves the equation). What a
pass knows is then shown by way of the first pass that would not know it: the
table is still one, a key is active in it exactly if it was when the loop began,
and `worst` is the worst of the eligible samples up to there. The middle part is
what makes the deletions in the loop harmless: a consultation deletes only
what is over, and a key that is over stays over for the rest of the evaluation.
The state between evaluations is held by `DetectorInv`: the keys are distinct, an
entry holds the time of its key's last report (`EntriesAgree`), reports are past
(`ReportsArePast`), and a gauge's stamp is no earlier than what was last told of it
(`ToldIsTriggered`). The last is why `MemorySpaced` follows, which speaks of the
history of what was told while the detector has only its own stamp. What a loop leaves
of the table keeps every key inside its window (`QuietIsLeft`, `LoopLeaves`). A live
entry is evicted only if more keys than slots are inside their windows
(`EvictedWhenCrowded`): the table is full of distinct keys, all of them fresh
because the oldest is, and none of them is the reported key. `OnlyOutrankedAreLost`
is what the ranking of the three detectors leaves unsaid (`EvaluationRanks`).

`ConfigFileProofs` has two parts. The validation is about operators: each block of
`config_validate` is shown to establish its part of `Valid` and to keep the parts
the blocks before it established, in their order (`RepairedFits`, `CapsFit`,
`HousedIsSafe`, `DetectingDetects`), so that whatever a parser leaves is repaired
(`ValidationRepairs`) and what was valid is left alone (`ValidationKeeps`).
`ActiveIsValid` and `CleanupWhereWritten` follow. `TypeOK` needs in addition what
the parser's token holds between steps; a conversion with an undefined result
still has a result of its type, and the permitted ranges fit their types, from
`WidthAssumption`.

The second part is `SecondLexemeCounts`, for files of any length. The invariant
(`ReadInv`) says at each state of the loop where in the file the parser is: at a
token it has read, or before what it cannot get past (`StandsOrStops`). Up to there
nothing is junk, the buffer holds the last key that fitted it (`Passed`), the section is
that of the last header, and the settings are what the keys before have given
(`ReadBefore`). One call of `toml_next_token` moves it past closing brackets to the next
place (`Advance`), and each action has a lemma of its own. The places are what makes
the property inductive: between a key and its value the parser stands one, two or
three lexemes behind it (`AtKey`), and only there does it matter that nothing else is
a key or a header (`LineByLine`). A file that ends, or has its first error, within
those three gives the key no value (`ValueMissing`).

`CollectionProofs` proves, of `Gauges`, `MeasuredSinceLastSeen` for any number of
cores, any counters at
boot and any width. The invariant says of each place which reading it holds: of a
line that a collection has read, both arrays hold what was last seen; of
another, the current array is still zero, and the previous one holds the reading
at start or zero. It also bounds every counter below the width, so that a
modular difference is a difference as long as counters go forward. `BootAssumption`
is that no machine runs for 2^64 ticks.

Of `ProcTable` it proves `NewMeansNew`, `MeasuredOverOneInterval` and
`BusiestIsKept`, for any processes, any table size and any saturation of the
count. `NewMeansNew` holds because the count of every sample is its process's
streak, which is inductive only with three more facts: a process has one sample in
a table (`Apart`), since `find_prev_sample` takes the first; the scan never returns
to a number (`Behind`); and a process without a sample has no streak. `BusiestIsKept`
needs that while the scan goes on, the largest usage read is in the table
(`PeakIsKept`). A full table gives up its last place for a larger usage only, so
the sample given up is never the largest; that the table need not be sorted the
first time it is full, which the comment at proc.c:365 overlooks, does not matter to
that.

`DocumentProofs` proves `BufferFits` and `KeptIsJson` for any number of snapshots
and processes, any command lines that fit in an empty buffer, and any buffer at which
memory runs out. For `BufferFits`: capacities are the first one doubled, so the
largest is reached exactly, and no lexeme is longer than the first, so that
doubling once is enough and the two other cases of the code's computation never
decide. For `KeptIsJson`: the calls of a value take a parser from any point where a
value may stand to the point after it, and the calls of a body from inside a
bracket to inside it, with the comma flag right at both ends (`Leads`). These
compose (`CallsAfterCalls`, `BodiesJoin`), so that each serializer needs one short
lemma. A loop of serializers is a recursive function over its elements; `JoinedIn`
goes by way of the first element it would fail for. The invariant (`OnCourse`) is
that the calls still to be made lead from where the parser is to the end.

`DaemonProofs` proves the four safety properties of `Daemon` for every set of
settings, collections and bounds. `Waiting` says where the loop can be while a
SIGHUP that a sample was taken past is unserved: before the test of the flag, with
the flag set, or in the reload. `OfActive` relates what the detector was built
under, the active configuration and the copy an iteration took, at each place of
the loop. The origin is shown to be a streak for any snapshots: the
longest streak exists because the naturals are well-founded (`StreakExists`), and
the window is a prefix of the history the search ran over.

`SpoolProofs` proves `FinalsAreWhole`, `OrphansAreCounted`, `DumpsAreKept` and
`NewestAreSpared` for any number of dumps, crashes, power losses and failing calls.
None of the four is inductive. What is said of the directory is therefore said of
the disk as well (`DirInv`): names belong to documents that were begun, the last one
is only where the attempt has got to (`Places`), and a final name means a document
that is whole and synced, so that no power loss takes it back. `OrphanInv` allows the disk
one temporary file more than the directory, the one whose removal has not reached
it; `KeptInv` keeps the names of a run below the daemon's count, and `ListInv`
types what a scan found. `NewestAreSpared` needs `PlanInv` besides: the list being
deleted is a stretch of the findings by age that stops `MaxCount` before their end,
and each of those spared is still in the directory or was removed by the viewer
(`Spared`). Counting them is an injection into the files that are left.

`ViewerProofs` proves `DialogIsAboutTheSelection`, `PanelsAgree`,
`PanicFollowsDeletion` and `TypeOK` for any dumps, directories and commands in
flight. Every step either gives the panels one document, or empties all of them, or
touches none (`ShowInv`, `KeepInv`); `Aligned` says the panels are of one document,
`EmptiedByDeletion` that a cursor in the second list with no snapshot means a deletion, and
`Named` that the name shown is the selection's. For `TypeOK` the lists hold only
dumps that were written, as the joined listings of two directories do
(`JoinedTyped`, `FoundTyped`), and the cursor is on one of them.

The assumptions are the named ones of the modules, which TLC evaluates on every
run: sizes are positive, bounds are numbers, sets are finite, settings are of the kind
that validation leaves.

Only model-checked are the liveness properties, for which the prover has no rule
that would use fairness: `NoLostReload`, `ShutdownTerminates`, `CleanupConverges`,
`LoadingEnds` and `LoadEnds`; and `ReadBack`, which says in addition what a
reader's recursion makes of a whole document. Where a model is recursive (`CpuScan`,
the calls of a serializer) it is a recursive function. What is proved of it goes by way of
the first argument for which it would fail, because the induction theorems cannot be
instantiated.

## Not modelled

- `log_manager_delete_manual` and `log_manager_get_stats` have no caller.
- A line of /proc/stat that alone does not parse: no kernel writes one.
- Exponents in JSON numbers, and the layout of a document.
- Of `config.c`: which of the two search paths holds the file, the wording of
  messages, and the position (line, column) they quote.
- The fields of /proc/meminfo, from which nothing is computed, are one value.
- The user and command line of a process, on which nothing decides, except their
  length in `Document`.
- A process number that is used again between two samples: the successor inherits
  the baseline. The code has nothing to tell the two apart by; the model
  performs it, and no property is stated about it.
- `delete all` removes what the directory holds when it runs. The model performs
  it; no document says which files "all" are.
- The viewer's rendering, analysis and widgets, its configuration at startup, mouse
  drags; and the gocui front end, which nothing starts.
- Vendored code.

## What could follow

1. A refinement from `Spool` to an abstract store of dumps (written, kept, deleted),
   for the viewer to be composed with.
2. A scheduler between `Daemon` and `Spool`, which today meet in the interval of
   the cleanup only.
