------------------------------ MODULE MCDocument ------------------------------
(* Up to three snapshots, one more than is kept, with up to two processes in *)
(* each list, one more than the reader has room for; memory read or not;     *)
(* command lines with every kind of byte; a timestamp no double has.         *)
EXTENDS Document

Plain(n) == [Empty EXCEPT !.plain = n]
Lines == {Plain(1), [Empty EXCEPT !.quoted = 1, !.lettered = 1], [Empty EXCEPT !.control = 1]}
Proc(n, lines) == [pid : {n}, cmdline : lines]
Procs(lines) ==
    {<< >>} \cup {<<p>> : p \in Proc(3, lines)}
            \cup {<<p, q>> : p \in Proc(3, lines), q \in Proc(4, {Plain(1)})}
Snapshots(lines) ==
    [mem : BOOLEAN, procs : Procs(lines), top_rss_procs : Procs(lines)]
Later == [mem |-> TRUE, procs |-> << >>,
          top_rss_procs |-> <<[pid |-> 4, cmdline |-> Plain(1)]>>]

Of(timestamps, snapshots) ==
    [dated : BOOLEAN, timestamp : timestamps,
     trigger : {[type |-> "cpu_delta", pid |-> 3]}, snapshots : snapshots]

MCDumps ==
    Of({7}, {<<s>> : s \in Snapshots(Lines)} \cup {<<s, Later>> : s \in Snapshots({Plain(1)})})
    \cup Of({9}, {<<Later, Later, Later>>})

\* A command line that fills its field.
MCDumpsFull == Of({7}, {<<s>> : s \in Snapshots({Plain(1), Plain(7)})})
===============================================================================
