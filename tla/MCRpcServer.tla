------------------------------ MODULE MCRpcServer ------------------------------
(***************************************************************************)
(* Instances of RpcServer for TLC.                                         *)
(***************************************************************************)
EXTENDS RpcServer, TLC

Uri(service, version, resource) ==
    [authority |-> "a", instance |-> 0, service |-> service,
     version |-> version, resource |-> resource]

MCMethod == Uri(1, 1, 32767)

\* A method that can be registered, one whose reserved version only the filter
\* check notices, and a topic.
MCMethods == {MCMethod, Uri(1, 0, 1), Uri(1, 1, 32768)}

Query(id, ttl) == Built(request(MCMethod, Uri(2, 1, 0), CS4, ttl), id)

\* A request; one from a clock that is ahead; one of too low a priority.
MCIncoming ==
    {Query(NewUuid(0, 1), 1), Query(NewUuid(TicksPerMs, 2), 1),
     [Query(NewUuid(0, 3), 2) EXCEPT !.priority = CS1]}

ThreadSymmetry == Permutations(Threads)

===============================================================================
