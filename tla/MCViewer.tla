------------------------------- MODULE MCViewer -------------------------------
(* Two dumps in two directories: the origin of the first is outside it, and  *)
(* the other's collection of processes had failed.                           *)
EXTENDS Viewer

MCDump ==
    << [snapshots |-> 2, trigger |-> 0, origin |-> 2, cpu |-> 2, rss |-> 1],
       [snapshots |-> 1, trigger |-> 0, origin |-> 0, cpu |-> 0, rss |-> 0] >>
===============================================================================
