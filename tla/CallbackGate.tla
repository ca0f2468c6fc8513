----------------------------- MODULE CallbackGate -----------------------------
(***************************************************************************)
(* What a callback connection promises its owner, without saying how.      *)
(*                                                                         *)
(* A gate is open until its owner either closes it (the handle is reset or *)
(* destroyed) or drops it (the handle is overwritten by a move            *)
(* assignment).  Callers enter the callback while the gate is open.  Once  *)
(* the owner has started to close, a caller may still slip in as long as   *)
(* another one is inside: the callback object is kept alive by the calls   *)
(* that use it.  Closing ends only when nobody is inside, and from then on *)
(* nobody enters any more.  A dropped gate gives its owner no such moment. *)
(***************************************************************************)
CONSTANT Callers        \* the threads that may call the callback

VARIABLES
    gate,               \* "open", "closing", "closed" or "dropped"
    active              \* the callers that are inside the callback

vars == <<gate, active>>

GateStates == {"open", "closing", "closed", "dropped"}

TypeOK ==
    /\ gate \in GateStates
    /\ active \in SUBSET Callers

Init ==
    /\ gate = "open"
    /\ active = {}

-------------------------------------------------------------------------------

\* Some strong reference to the callback object is left.
Alive == gate = "open" \/ active # {}

Enter(c) ==
    /\ c \notin active
    /\ Alive
    /\ active' = active \union {c}
    /\ UNCHANGED gate

Leave(c) ==
    /\ c \in active
    /\ active' = active \ {c}
    /\ UNCHANGED gate

BeginClose ==
    /\ gate = "open"
    /\ gate' = "closing"
    /\ UNCHANGED active

EndClose ==
    /\ gate = "closing"
    /\ active = {}
    /\ gate' = "closed"
    /\ UNCHANGED active

Drop ==
    /\ gate = "open"
    /\ gate' = "dropped"
    /\ UNCHANGED active

Next ==
    \/ \E c \in Callers : Enter(c) \/ Leave(c)
    \/ BeginClose
    \/ EndClose
    \/ Drop

Spec == Init /\ [][Next]_vars

===============================================================================
