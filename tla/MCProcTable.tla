----------------------------- MODULE MCProcTable ------------------------------
(* Three processes over a table of two.                                     *)
EXTENDS ProcTable

MCSettings == {[alpha |-> 3, limit |-> 0]}
==============================================================================
