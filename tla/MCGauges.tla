------------------------------- MODULE MCGauges -------------------------------
(* Instances of Gauges: two places for cores; those that are online at start *)
(* may be the second alone.                                                  *)
EXTENDS Gauges

MCBoot == [i \in Lines \union {0} |->
              IF i = 0 THEN [busy |-> 3, idle |-> 2, iowait |-> 1]
              ELSE IF i = 1 THEN [busy |-> 1, idle |-> 2, iowait |-> 0]
              ELSE [busy |-> 2, idle |-> 0, iowait |-> 1]]
==============================================================================
