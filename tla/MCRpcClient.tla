----------------------------- MODULE MCRpcClient -----------------------------
(***************************************************************************)
(* Instances of RpcClient for TLC.                                         *)
(***************************************************************************)
EXTENDS RpcClient, TLC

CONSTANTS k1, k2, r1, r2

\* One client.
OneClient == {k1}
TwoRequests == {r1, r2}
BothOnOne == [r \in {r1, r2} |-> k1]
NoNesting == [r \in Requests |-> {}]
RequestSymmetry == Permutations(Requests)
TtlOne == [k \in Clients |-> 1]

\* Two clients, one request each.
TwoClients == {k1, k2}
OneOnEach == [r \in {r1, r2} |-> IF r = r1 THEN k1 ELSE k2]
TtlTwo == [k \in Clients |-> IF k = k1 THEN 1 ELSE 2]

\* The callback of r1 invokes r2 on the other client.
Follow == [r \in {r1, r2} |-> IF r = r1 THEN {r2} ELSE {}]

===============================================================================
