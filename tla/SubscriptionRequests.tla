------------------------- MODULE SubscriptionRequests -------------------------
(***************************************************************************)
(* The requests that a Consumer sends to the uSubscription service, as     *)
(* ProtoConverter.cpp builds them.  An optional field is a set of at most  *)
(* one element.  A point in time is a number of nanoseconds since the      *)
(* epoch, which a negative number precedes.                                *)
(***************************************************************************)
EXTENDS USubscription, Integers

CONSTANTS
    NANOSECONDS_PER_SECOND,
    UInt32Size          \* one more than the largest uint32_t

ASSUME RequestAssumption ==
    /\ NANOSECONDS_PER_SECOND \in Nat \ {0}
    /\ UInt32Size \in Nat \ {0}

\* C++ division, which rounds towards zero, and the remainder that goes with it
Quotient(a, b)  == IF a >= 0 THEN a \div b ELSE -((-a) \div b)
Remainder(a, b) == a - b * Quotient(a, b)

\* Faulty variant: the nanoseconds since the epoch instead of those in the second.
ConvertToProtoTimestampTotal(time) ==
    [seconds |-> Quotient(time, NANOSECONDS_PER_SECOND), nanos |-> time]

ConvertToProtoTimestamp(time) ==
    [seconds |-> Quotient(time, NANOSECONDS_PER_SECOND),
     nanos   |-> Remainder(time, NANOSECONDS_PER_SECOND)]

\* Faulty variant: the period is not cast.
BuildSubscribeAttributesWide(options) ==
    [expire           |-> {ConvertToProtoTimestamp(time) : time \in options.when_expire},
     details          |-> options.subscription_details,
     sample_period_ms |-> options.sample_period_ms]

\* The period is cast to uint32_t.
BuildSubscribeAttributes(options) ==
    [expire           |-> {ConvertToProtoTimestamp(time) : time \in options.when_expire},
     details          |-> options.subscription_details,
     sample_period_ms |-> {period % UInt32Size : period \in options.sample_period_ms}]

BuildSubscriptionRequest(topic, options) ==
    [method |-> RESOURCE_ID_SUBSCRIBE, topic |-> topic,
     attributes |-> {BuildSubscribeAttributes(options)}]

BuildUnSubscribeRequest(topic) ==
    [method |-> RESOURCE_ID_UNSUBSCRIBE, topic |-> topic, attributes |-> {}]

===============================================================================
