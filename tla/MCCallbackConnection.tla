------------------------- MODULE MCCallbackConnection -------------------------
(***************************************************************************)
(* Instances of CallbackConnection for TLC.  Three callers: one that keeps *)
(* the callback alive, one that slips in while it does, and one that       *)
(* arrives late.                                                           *)
(***************************************************************************)
EXTENDS CallbackConnection

===============================================================================
