------------------------------ MODULE MCRingBuf ------------------------------
(* A ring of three slots over a clock of three instants; the array wraps as   *)
(* often as it is pushed to.                                                *)
EXTENDS RingBuf
==============================================================================
