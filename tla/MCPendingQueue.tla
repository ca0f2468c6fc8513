---------------------------- MODULE MCPendingQueue ----------------------------
(***************************************************************************)
(* Instances of PendingQueue for TLC: heaps of up to three levels, with    *)
(* equal and distinct expiry times.                                        *)
(***************************************************************************)
EXTENDS PendingQueue

===============================================================================
