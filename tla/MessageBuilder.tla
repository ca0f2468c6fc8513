----------------------------- MODULE MessageBuilder -----------------------------
(***************************************************************************)
(* One UMessageBuilder in the hands of an application: created by one of   *)
(* the factories, configured by any sequence of with...() calls, used      *)
(* again and again to build messages, while time passes and Payload        *)
(* objects (src/datamodel/builder/Payload.cpp) are copied, moved and       *)
(* consumed.  A call that throws leaves everything as it was and is not a  *)
(* step, except build(payload), which consumes the payload first.  The     *)
(* specification that combines these steps is in module Senders.           *)
(***************************************************************************)
EXTENDS Messages, FiniteSets

CONSTANTS
    Uris,               \* UUris that applications pass to the builder
    Ttls,               \* TTLs, in milliseconds
    Levels,             \* priorities
    Formats,            \* payload formats
    Foreign,            \* requests received from elsewhere
    Objects,            \* Payload objects
    Randoms,            \* random bits that UuidBuilder draws
    StartTime,          \* the clock at the beginning, in ticks
    MaxTime             \* bound on the clock, in ticks

ASSUME InputsAssumption ==
    /\ Ttls \subseteq Nat
    /\ Levels \subseteq Nat
    /\ Formats \subseteq Nat
    /\ Randoms \subseteq Nat
    /\ MaxTime \in Nat
    /\ StartTime \in 0..MaxTime

\* What was received is a protobuf message: its id holds a number of milliseconds
\* and its URIs are optional fields.
ASSUME ForeignAssumption ==
    \A m \in Foreign :
        /\ m.id.ms \in Nat
        /\ \A u, v \in m.source : u = v
        /\ \A u, v \in m.sink : u = v

VARIABLES
    now,                \* the system clock
    builder,            \* the UMessageBuilder, if one exists
    answered,           \* the request given to response(), if any
    built,              \* the message built last, if any, and when
    payload             \* the Payload objects that exist

vars == <<now, builder, answered, built, payload>>

\* Payload::payload_ and moved_
Payloads == [content : {"data", "emptied"}, format : Formats, moved : BOOLEAN]

TypeOK ==
    /\ now \in StartTime..MaxTime
    /\ Cardinality(builder) <= 1 /\ Cardinality(answered) <= 1 /\ Cardinality(built) <= 1
    /\ \A b \in builder :
          /\ b.type \in Types
          /\ b.ttl \subseteq 1..MaxTtl
          /\ b.priority \in Priorities
          /\ b.expected \subseteq PayloadFormats
    /\ \A r \in built : r.at \in StartTime..now
    /\ payload \in [Objects -> SUBSET Payloads]
    /\ \A p \in Objects : Cardinality(payload[p]) <= 1

Init ==
    /\ now = StartTime
    /\ builder = {}
    /\ answered = {}
    /\ built = {}
    /\ payload = [p \in Objects |-> {}]

Tick == now < MaxTime /\ now' = now + 1 /\ UNCHANGED <<builder, answered, built, payload>>

\* uuidBuilder_.build(): the id is stamped with the current time; its random bits
\* are assumed to differ from those of the request that is answered.
FreshIds ==
    {NewUuid(now, n) : n \in Randoms \ {m.id.random : m \in Foreign \union answered}}

-------------------------------------------------------------------------------
(* The factories. *)

Start(b, to) ==
    /\ builder' = {b}
    /\ answered' = to
    /\ built' = {}
    /\ UNCHANGED <<now, payload>>

StartPublish ==
    \E topic \in Uris : CanPublish(topic) /\ Start(publish(topic), {})

StartNotification ==
    \E source, sink \in Uris :
        CanNotify(source, sink) /\ Start(notification(source, sink), {})

StartRequest ==
    \E method, source \in Uris, level \in Levels, ttl \in Ttls :
        /\ CanRequest(method, source, level, ttl)
        /\ Start(request(method, source, level, ttl), {})

\* What a response has to match: see isValidRpcResponseFor().
Essence(m) == [id |-> m.id, source |-> m.source, sink |-> m.sink, priority |-> m.priority]

\* Faulty variant: the response refers to an id of its own.
StartResponseNewId ==
    \E to \in Foreign \union {r.msg : r \in built} :
        \E method \in to.sink, sink \in to.source, id \in FreshIds :
            /\ CanRespond(sink, to.id, to.priority, method, now)
            /\ Start(response(sink, id, to.priority, method), {Essence(to)})

\* response(request), for a message built here or received
StartResponse ==
    \E to \in Foreign \union {r.msg : r \in built} :
        \E method \in to.sink, sink \in to.source :
            /\ CanRespond(sink, to.id, to.priority, method, now)
            /\ Start(response(sink, to.id, to.priority, method), {Essence(to)})

-------------------------------------------------------------------------------
(* The fluent interface.  A message built earlier is not followed further. *)

Configure(b) ==
    /\ builder' = {b}
    /\ built' = {}
    /\ UNCHANGED <<now, answered, payload>>

WithPriority ==
    \E b \in builder, level \in Levels :
        CanSetPriority(b, level) /\ Configure(withPriority(b, level))

WithTtl ==
    \E b \in builder, ttl \in Ttls : CanSetTtl(ttl) /\ Configure(withTtl(b, ttl))

WithMethod ==
    \E b \in builder, method \in Uris :
        CanSetMethod(method) /\ Configure(withMethod(b, method))

WithToken ==
    \E b \in builder : CanSetToken(b) /\ Configure(withToken(b, "token"))

WithPermissionLevel ==
    \E b \in builder : CanSetToken(b) /\ Configure(withPermissionLevel(b, 1))

WithCommStatus ==
    \E b \in builder, code \in UCodes \union {"no code"} :
        CanSetCommStatus(b, code) /\ Configure(withCommStatus(b, code))

WithPayloadFormat ==
    \E b \in builder, format \in Formats :
        CanSetFormat(format) /\ Configure(withPayloadFormat(b, format))

-------------------------------------------------------------------------------
(* Building. *)

\* build(), with what Addressed makes of the sink
BuildTo(Addressed(_)) ==
    \E b \in builder, id \in FreshIds :
        /\ CanBuild(b)
        /\ \E m \in Addressed(Built(b, id)) : built' = {[msg |-> m, at |-> now]}
        /\ UNCHANGED <<now, builder, answered, payload>>

\* Payload::buildMove()
CanMove(o) == ~o.moved
\* Faulty variant: moved_ is not set.
buildMoveNoFlag(o) == [o EXCEPT !.content = "emptied"]
buildMove(o) == [o EXCEPT !.content = "emptied", !.moved = TRUE]

\* build(payload), which consumes the payload before it looks at the format
BuildWithPayloadTo(Addressed(_)) ==
    \E b \in builder, p \in Objects, id \in FreshIds : \E o \in payload[p] :
        /\ CanMove(o)
        /\ payload' = [payload EXCEPT ![p] = {buildMove(o)}]
        /\ IF CanBuildWith(b, o.format)
           THEN \E m \in Addressed(BuiltWith(b, id, o.format, o.content)) :
                    built' = {[msg |-> m, at |-> now]}
           ELSE UNCHANGED built
        /\ UNCHANGED <<now, builder, answered>>

\* The message as it is, or with its sink replaced by build(method, ...)
AsIs(m) == {m}
ToMethod(m) == {AtMethod(m, u) : u \in Uris}
Anywhere(m) == AsIs(m) \union ToMethod(m)

Build == BuildTo(Anywhere)
BuildWithPayload == BuildWithPayloadTo(Anywhere)

-------------------------------------------------------------------------------
(* Payload objects.  An object that was moved from by move construction or *)
(* assignment is not used again before something is assigned to it.        *)

SetPayload(to, o, from) ==
    /\ payload' = [p \in Objects |-> IF p = to THEN {o}
                                     ELSE IF p \in from THEN {} ELSE payload[p]]
    /\ UNCHANGED <<now, builder, answered, built>>

\* Any of the constructors with contents
Construct ==
    \E p \in Objects, format \in Formats :
        /\ payload[p] = {}
        /\ CanSetFormat(format)
        /\ SetPayload(p, [content |-> "data", format |-> format, moved |-> FALSE], {})

CopyPayload ==
    \E p, q \in Objects : \E o \in payload[q] : p # q /\ SetPayload(p, o, {})

MovePayload ==
    \E p, q \in Objects : \E o \in payload[q] : p # q /\ SetPayload(p, o, {q})

\* What an application does with a builder
Use ==
    \/ StartPublish \/ StartNotification \/ StartRequest \/ StartResponse
    \/ WithPriority \/ WithTtl \/ WithMethod \/ WithToken
    \/ WithPermissionLevel \/ WithCommStatus \/ WithPayloadFormat
    \/ Build \/ BuildWithPayload

\* What goes on besides
Environment == Tick \/ Construct \/ CopyPayload \/ MovePayload

-------------------------------------------------------------------------------
(* Properties. *)

\* The sink is of the kind that the type of the message calls for.  withMethod()
\* and build(method) do not check that, so it is the application's duty.
SinkFits(m) ==
    CASE m.type = "publish" -> m.sink = {}
      [] m.type = "request" -> \A u \in m.sink : isMethod(u)
      [] OTHER              -> \A u \in m.sink : isEntity(u)

\* Whatever the sequence of calls that configured the builder, and however late
\* the message is sent, UTransport::send() accepts a built message whose sink
\* fits, for at least its TTL less the millisecond that the UUID rounds away.  For
\* a response, the TTL is counted from the id of the request.
BuiltIsAccepted ==
    \A r \in built :
        (/\ SinkFits(r.msg)
         /\ \A ttl \in r.msg.ttl :
               /\ now - r.at <= (ttl - 1) * TicksPerMs
               /\ \A id \in r.msg.reqid : now - id.ms * TicksPerMs <= ttl * TicksPerMs)
        => isValid(r.msg, now)

\* A message with a TTL is refused once more than its TTL has passed since build().
StaleIsRefused ==
    \A r \in built :
        (\E ttl \in r.msg.ttl : now - r.at > ttl * TicksPerMs) => ~isValid(r.msg, now)

\* A response made by response(request) passes the requester's check
\* isValidRpcResponseFor() whenever it is valid at all, unless the application
\* changed its priority or its sink.
ResponseMatchesRequest ==
    \A r \in built, to \in answered :
        (/\ isValid(r.msg, now)
         /\ r.msg.priority = to.priority
         /\ r.msg.sink = to.source)
        => isValidRpcResponseFor(to, r.msg, now)

\* getRemainingTime() agrees with the expiry check although it rounds to whole
\* milliseconds: a message with time remaining is not expired, and none runs out of
\* time before its TTL less the millisecond that the UUID rounds away.
RemainingTime ==
    \A r \in built : \A ttl \in r.msg.ttl :
        /\ getRemainingTime(r.msg.id, ttl, now) > 0 => ~isExpired(r.msg.id, ttl, now)
        /\ getRemainingTime(r.msg.id, ttl, now) = 0 => now - r.at > (ttl - 1) * TicksPerMs

\* No message carries the contents of a Payload that was consumed before, however
\* the object was copied or moved in between: moved_ travels along.
PayloadIntact ==
    \A r \in built : "emptied" \notin r.msg.payload

===============================================================================
