------------------------------- MODULE MCSpool --------------------------------
(* Three dumps of two sizes over three seconds in which the local clock     *)
(* goes back once; one crash, power loss or failing call, anywhere, and     *)
(* after a failing call the unlink may fail too.                            *)
EXTENDS Spool
==============================================================================
