------------------------------- MODULE MCSenders -------------------------------
(***************************************************************************)
(* An instance of Senders for TLC.                                         *)
(***************************************************************************)
EXTENDS Senders

MCUri(authority, instance, service, version, resource) ==
    [authority |-> authority, instance |-> instance, service |-> service,
     version |-> version, resource |-> resource]

MCMethod == MCUri("a", 0, 1, 1, 32767)
MCEntity == MCUri("a", 0, 2, 1, 0)

\* Both ends of the ranges of resource ids, a local authority with an instance, and
\* wildcards.
MCUris == {MCMethod, MCEntity, MCUri("", 1, 10, 254, 32768), MCUri("a", 65535, 1, 1, 65535)}

\* A request from an entity whose clock is one millisecond ahead.
MCForeign ==
    {Built(request(MCMethod, MCEntity, CS4, 1), NewUuid(StartTime + TicksPerMs, 0))}

\* Words of 16 bits, and random bits with and without leading zeros.
MCWidths == <<1, 1, 2, 2, 2>>
MCRandoms == {1, RandomA * RandomB - 2^9}

ObjectSymmetry == Permutations(Objects)

===============================================================================
