-------------------------------- MODULE Spool --------------------------------
(***************************************************************************)
(* The dump directory: the daemon writes dumps into it                     *)
(* (src/src/spike_dump.c) and cleans it up (src/src/log_manager.c), the    *)
(* viewer deletes from it (src/internal/processor/delete.go), and the      *)
(* daemon or the machine may stop between any two system calls.  A file is *)
(* synced before it is renamed; the directory never is, so the machine may *)
(* come back with the directory of an earlier moment.                      *)
(*                                                                         *)
(* A document is the number of the attempt that wrote it; a name is the    *)
(* local second and the counter it is made of, and the random suffix that  *)
(* mkstemp adds, 0 for a final name.                                       *)
(***************************************************************************)
EXTENDS FiniteSets, Functions, Integers, SequencesExt

CONSTANTS
    MaxFiles,       \* LOG_MANAGER_MAX_FILES, 1024 in the code
    MaxCount,       \* log_max_count
    MaxAge,         \* log_max_age_days
    MaxSize,        \* log_max_total_size_mib
    Policies,       \* the cleanup policies a reload may set
    Fold, Shift,    \* at Fold the local clock goes back by Shift
    MaxDumps,       \* bound: dumps attempted
    MaxNow,         \* bound: the last second
    MaxFaults       \* bound: crashes, power losses, calls that fail (but for the
                    \* unlink after one of them)

ASSUME MaxFilesAssumption == MaxFiles \in Nat \ {0}
ASSUME MaxCountAssumption == MaxCount \in Nat \ {0}
ASSUME PoliciesAssumption == Policies \subseteq {"disabled", "by_age", "by_count", "by_size"}
ASSUME ClockAssumption == {Fold, Shift} \subseteq Nat
ASSUME BoundsAssumption == {MaxDumps, MaxNow} \subseteq Nat

VARIABLES
    pc,         \* where the daemon is in writing and cleaning up
    dir,        \* the directory: name -> document
    disk,       \* the directory as a power loss would leave it
    files,      \* document -> what was written of it and when
    doc,        \* the document being written, the last one otherwise
    name,       \* its final name
    dump_count,
    policy,     \* enable_auto_cleanup and cleanup_policy
    due,        \* cleanup_interval_minutes have passed since last_cleanup_ns
    seen,       \* what the scan of this cleanup found: names and documents
    list,       \* those it has still to try, in order
    bytes_freed,
    now,        \* time(NULL)
    faults,     \* faults so far, for the bound
    stops,      \* history: what may have left a temporary file: power losses,
                \* crashes in the middle of a dump, unlinks that failed
    kept,       \* history: documents this run of the daemon has reported
                \* written and nobody has deleted
    removed     \* history: names the viewer has removed since the scan

writer == <<files, doc, name, dump_count>>
cleaner == <<due, seen, list, bytes_freed>>
history == <<stops, kept, removed>>
vars == <<pc, dir, disk, writer, policy, cleaner, now, faults, history>>

LocalTime(t) == IF t < Fold THEN t ELSE t - Shift

FinalName(at, n) == [at |-> at, n |-> n, suffix |-> 0]
TempName == [name EXCEPT !.suffix = doc]

Without(names) == Restrict(dir, DOMAIN dir \ names)

\* x names the document being written, whatever it named before; beside it
\* stay the other names.
Naming(x, others) == [y \in {x} \union others |-> IF y = x THEN doc ELSE dir[y]]

\* spike_*.json: a temporary name ends otherwise.
Finals == {x \in DOMAIN dir : x.suffix = 0}
TempsOf(d) == {x \in DOMAIN d : x.suffix # 0}

Size(d) == 1 + (d % 2)

Fault == faults < MaxFaults /\ faults' = faults + 1

Init ==
    /\ pc = "idle"
    /\ dir = << >> /\ disk = << >>
    /\ files = [d \in 1..MaxDumps |-> [data |-> "none", synced |-> FALSE, mtime |-> 0]]
    /\ doc = 0 /\ name = FinalName(0, 0) /\ dump_count = 0
    /\ policy \in Policies /\ due = TRUE
    /\ seen = {} /\ list = << >> /\ bytes_freed = 0
    /\ now = 0 /\ faults = 0
    /\ stops = 0 /\ kept = {} /\ removed = {}

-------------------------------------------------------------------------------
(* spike_dump_write and write_atomic, one action per system call that can   *)
(* fail or be the last.                                                     *)

NewDump ==
    /\ pc = "idle" /\ doc < MaxDumps
    /\ doc' = doc + 1
    /\ name' = FinalName(LocalTime(now), dump_count)
    /\ pc' = "create"
    /\ UNCHANGED <<dir, disk, files, dump_count, policy, cleaner, now, faults, history>>

Create ==
    /\ pc = "create"
    /\ \/ /\ dir' = Naming(TempName, DOMAIN dir)
          /\ files' = [files EXCEPT ![doc].data = "partial"]
          /\ pc' = "write"
          /\ UNCHANGED faults
       \/ /\ Fault /\ pc' = "clean" /\ UNCHANGED <<dir, files>>
    /\ UNCHANGED <<disk, doc, name, dump_count, policy, cleaner, now, history>>

WriteTo(next) ==
    /\ pc = "write"
    /\ \/ /\ files' = [files EXCEPT ![doc].data = "whole", ![doc].mtime = now]
          /\ pc' = next
          /\ UNCHANGED faults
       \/ Fault /\ pc' = "unlink" /\ UNCHANGED files
    /\ UNCHANGED <<dir, disk, doc, name, dump_count, policy, cleaner, now, history>>

\* Mutant: the temporary file is not synced before the rename.
WriteNoSync == WriteTo("rename")
Write == WriteTo("sync")

\* fsync, then close.
Sync ==
    /\ pc = "sync"
    /\ \/ /\ files' = [files EXCEPT ![doc].synced = TRUE]
          /\ pc' = "rename"
          /\ UNCHANGED faults
       \/ Fault /\ pc' = "unlink" /\ UNCHANGED files
    /\ UNCHANGED <<dir, disk, doc, name, dump_count, policy, cleaner, now, history>>

RenameCounting(count) ==
    /\ pc = "rename"
    /\ \/ /\ dir' = Naming(name, DOMAIN dir \ {TempName})
          /\ dump_count' = count
          /\ kept' = kept \union {doc}
          /\ pc' = "clean"
          /\ UNCHANGED faults
       \/ Fault /\ pc' = "unlink" /\ UNCHANGED <<dir, dump_count, kept>>
    /\ UNCHANGED <<disk, files, doc, name, policy, cleaner, now, stops, removed>>

\* Mutant: dump_count is not advanced.
RenameUncounted == RenameCounting(dump_count)

\* rename replaces whatever had the name; dump_count goes on only on success.
Rename == RenameCounting(dump_count + 1)

\* Mutant: a failed write leaves its temporary file.
UnlinkForgotten ==
    /\ pc = "unlink"
    /\ pc' = "clean"
    /\ UNCHANGED <<dir, disk, writer, policy, cleaner, now, faults, history>>

\* The cleanup label of write_atomic: whether unlink worked is not looked at.  The
\* fault that led here is already counted.
Unlink ==
    /\ pc = "unlink"
    /\ \/ dir' = Without({TempName}) /\ UNCHANGED <<faults, stops>>
       \/ stops' = stops + 1 /\ UNCHANGED <<dir, faults>>
    /\ pc' = "clean"
    /\ UNCHANGED <<disk, writer, policy, cleaner, now, kept, removed>>

NoDump ==
    /\ pc = "idle"
    /\ pc' = "clean"
    /\ UNCHANGED <<dir, disk, writer, policy, cleaner, now, faults, history>>

-------------------------------------------------------------------------------
(* log_manager_auto_cleanup, at the end of every iteration                  *)

SkipCleanup ==
    /\ pc = "clean"
    /\ policy = "disabled" \/ ~due
    /\ pc' = "idle"
    /\ UNCHANGED <<dir, disk, writer, policy, cleaner, now, faults, history>>

Mtime(x) == files[x.doc].mtime
Total(found) == MapThenSumSet(LAMBDA x : Size(x.doc), found)

Orders(found) == SetToSeqs(found)
OldestFirst(found) ==
    {q \in Orders(found) : \A i, j \in DOMAIN q : i < j => Mtime(q[i]) <= Mtime(q[j])}

\* Mutant: by_count takes the newest instead of the oldest.
CandidatesNewestFirst(found) ==
    CASE policy = "by_age" -> Orders({x \in found : now - Mtime(x) > MaxAge})
      [] policy = "by_count" ->
            {SubSeq(Reverse(q), 1, Len(q) - MaxCount) : q \in OldestFirst(found)}
      [] policy = "by_size" ->
            IF Total(found) <= MaxSize THEN {<< >>} ELSE OldestFirst(found)

\* Mutant: by_count keeps one more than log_max_count.
CandidatesSparingOneMore(found) ==
    CASE policy = "by_age" -> Orders({x \in found : now - Mtime(x) > MaxAge})
      [] policy = "by_count" ->
            {SubSeq(q, 1, Len(q) - MaxCount - 1) : q \in OldestFirst(found)}
      [] policy = "by_size" ->
            IF Total(found) <= MaxSize THEN {<< >>} ELSE OldestFirst(found)

\* What a policy will try to delete of what the scan found, in which orders:
\* the over-aged as the directory lists them, the oldest beyond log_max_count,
\* or the oldest until enough is freed.  Equal mtimes sort either way.
Candidates(found) ==
    CASE policy = "by_age" -> Orders({x \in found : now - Mtime(x) > MaxAge})
      [] policy = "by_count" ->
            {SubSeq(q, 1, Len(q) - MaxCount) : q \in OldestFirst(found)}
      [] policy = "by_size" ->
            IF Total(found) <= MaxSize THEN {<< >>} ELSE OldestFirst(found)

\* scan_log_files stops at MaxFiles; which files those are is the directory's
\* affair.
Scans ==
    {listed \in SUBSET Finals :
        \/ listed = Finals /\ Cardinality(Finals) < MaxFiles
        \/ Cardinality(listed) = MaxFiles}

\* A directory that cannot be opened ends the cleanup.
Scan ==
    /\ pc = "clean" /\ policy # "disabled" /\ due
    /\ \/ \E listed \in Scans :
             /\ seen' = {[name |-> x, doc |-> dir[x]] : x \in listed}
             /\ list' \in Candidates(seen')
          /\ pc' = "delete"
          /\ UNCHANGED <<due, faults>>
       \/ /\ Fault /\ pc' = "idle" /\ due' = FALSE
          /\ UNCHANGED <<seen, list>>
    /\ bytes_freed' = 0
    /\ UNCHANGED <<dir, disk, writer, policy, now, history>>

Finished ==
    \/ list = << >>
    \/ policy = "by_size" /\ bytes_freed >= Total(seen) - MaxSize

\* safe_delete_file: a file that has gone counts as deleted, one that is locked
\* or cannot be unlinked is passed over.
Delete ==
    /\ pc = "delete" /\ ~Finished
    /\ LET x == Head(list) IN
       \/ /\ dir' = Without({x.name})
          /\ kept' = kept \ {x.doc}
          /\ bytes_freed' = bytes_freed + Size(x.doc)
          /\ UNCHANGED faults
       \/ /\ x.name \in DOMAIN dir
          /\ Fault
          /\ UNCHANGED <<dir, kept, bytes_freed>>
    /\ list' = Tail(list)
    /\ UNCHANGED <<pc, disk, writer, policy, due, seen, now, stops, removed>>

FinishCleanup ==
    /\ pc = "delete" /\ Finished
    /\ pc' = "idle"
    /\ due' = FALSE /\ seen' = {} /\ list' = << >> /\ bytes_freed' = 0 /\ removed' = {}
    /\ UNCHANGED <<dir, disk, writer, policy, now, faults, stops, kept>>

-------------------------------------------------------------------------------
(* The rest of the world                                                    *)

Reload(p) ==
    /\ pc = "idle" /\ policy' = p
    /\ UNCHANGED <<pc, dir, disk, writer, cleaner, now, faults, history>>

IntervalPasses ==
    /\ due' = TRUE
    /\ UNCHANGED <<pc, dir, disk, writer, policy, seen, list, bytes_freed, now,
                   faults, history>>

Tick ==
    /\ now < MaxNow /\ now' = now + 1
    /\ UNCHANGED <<pc, dir, disk, writer, policy, cleaner, faults, history>>

\* os.Remove in the viewer, of a file it lists.
ViewerRemoves(x) ==
    /\ dir' = Without({x}) /\ kept' = kept \ {dir[x]}
    /\ removed' = IF pc = "delete" THEN removed \union {x} ELSE removed
    /\ UNCHANGED <<pc, disk, writer, policy, cleaner, now, faults, stops>>

\* The file system writes the directory back when it likes, its changes in
\* their order: nothing in the program syncs a directory.
Writeback ==
    /\ disk' = dir
    /\ UNCHANGED <<pc, dir, writer, policy, cleaner, now, faults, history>>

\* The daemon is gone, and with it the cleanup it was at.
Stopped ==
    /\ pc # "stopped" /\ Fault
    /\ pc' = "stopped"
    /\ seen' = {} /\ list' = << >> /\ bytes_freed' = 0 /\ removed' = {}
    /\ UNCHANGED <<disk, doc, name, dump_count, policy, due, now>>

\* Where the document being written has its temporary name.
Writing == {"write", "sync", "rename", "unlink"}

Crash ==
    /\ Stopped
    /\ stops' = IF pc \in Writing THEN stops + 1 ELSE stops
    /\ UNCHANGED <<dir, files, kept>>

\* With the machine goes what the disk had not: of a file whatever was not
\* synced, of the directory its changes since the last writeback.  Renames,
\* removals and deletions are undone, a dump already reported among them.
PowerLoss ==
    /\ Stopped
    /\ dir' = disk
    /\ files' = [d \in DOMAIN files |->
                     IF files[d].synced THEN files[d] ELSE [files[d] EXCEPT !.data = "partial"]]
    /\ stops' = stops + 1
    /\ kept' = {}

\* spike_dump_init, log_manager_init.
Restart ==
    /\ pc = "stopped"
    /\ pc' = "idle"
    /\ dump_count' = 0 /\ due' = TRUE /\ kept' = {}
    /\ UNCHANGED <<dir, disk, files, doc, name, policy, seen, list, bytes_freed, now,
                   faults, stops, removed>>

Daemon ==
    \/ NewDump \/ Create \/ Write \/ Sync \/ Rename \/ Unlink \/ NoDump
    \/ SkipCleanup \/ Scan \/ Delete \/ FinishCleanup

Next ==
    \/ Daemon
    \/ IntervalPasses \/ Tick \/ Writeback
    \/ \E p \in Policies : Reload(p)
    \/ \E x \in Finals : ViewerRemoves(x)
    \/ Crash \/ PowerLoss \/ Restart

\* The scheduler runs the daemon and time passes; nobody need reload, delete,
\* fail, restart it or write a directory back.
Spec == Init /\ [][Next]_vars /\ WF_vars(Daemon) /\ WF_vars(IntervalPasses)
-------------------------------------------------------------------------------
\* What the atomic write is for: a file with a final name is a whole document,
\* whenever the daemon crashed, the machine lost power or a call failed, and
\* whatever the directory was when the machine came back.
FinalsAreWhole == \A x \in Finals : files[dir[x]].data = "whole"

\* The temporary name of the document being written.
InHand == IF pc \in Writing THEN {TempName} ELSE {}

\* Beside the temporary file in hand there is at most one for each power loss,
\* crash during a dump or failed unlink (no cleanup matches their names: they
\* stay for ever).  In particular a dump that fails before them leaves none.
OrphansAreCounted == Cardinality(TempsOf(dir) \ InHand) <= stops

\* Within one run of the daemon no dump takes another's name, though the local
\* clock goes back and several dumps fall in a second: what was reported
\* written is there until somebody deletes it or the machine stops.
DumpsAreKept == \A d \in kept : \E x \in Finals : dir[x] = d

\* The dumps there are, but for x, that are at least as new as it.
NotOlder(x) == {y \in Finals \ {x.name} : files[dir[y]].mtime >= Mtime(x)}

\* Cleanup by count deletes a dump only where MaxCount others, none older, stay
\* in the directory, though its scan saw only a part of that; but those the
\* viewer removed since the scan are missed: as many fewer may stay.
NewestAreSpared ==
    [][policy = "by_count" /\ pc = "delete" /\ list' # list /\ pc' = "delete" =>
          Cardinality(NotOlder(Head(list)) \union removed) >= MaxCount]_vars

\* A daemon that stays up under by_count brings the directory down to
\* log_max_count dumps once dumps cease, however the deletions of one cleanup
\* failed, and though one scan sees only MaxFiles of them.  This holds where
\* MaxCount < MaxFiles: a larger log_max_count is never enforced.
CleanupConverges ==
    <>[](policy = "by_count" /\ pc # "stopped") => <>[](Cardinality(Finals) <= MaxCount)
==============================================================================
