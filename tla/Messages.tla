-------------------------------- MODULE Messages --------------------------------
(***************************************************************************)
(* UUIDs and UMessages: their validators (src/datamodel/validator/Uuid.cpp *)
(* and UMessage.cpp) and the operations of UMessageBuilder                 *)
(* (src/datamodel/builder/UMessage.cpp) as operators.                      *)
(*                                                                         *)
(* An optional protobuf field is a set of at most one element, so has_x()  *)
(* is x # {}.  Time is the system clock, counted in ticks; there are       *)
(* TicksPerMs ticks in a millisecond, because a UUID holds whole           *)
(* milliseconds while the clock it is compared with is finer.              *)
(***************************************************************************)
EXTENDS UUris

CONSTANTS
    TicksPerMs,         \* resolution of the system clock
    MaxTtl              \* the largest uint32_t

ASSUME ClockAssumption == TicksPerMs \in Nat \ {0}
ASSUME TtlAssumption == MaxTtl \in Nat \ {0}

Types == {"publish", "notification", "request", "response"}

\* UPriority: 0 is UNSPECIFIED, CS0 to CS6 follow.  UPayloadFormat likewise.
Priorities     == 0..7
CS1            == 2
CS4            == 5
PayloadFormats == 0..8

-------------------------------------------------------------------------------
(* UUIDs.  random stands for the random bits that make an id unique. *)

\* UuidBuilder::build()
NewUuid(time, random) ==
    [version |-> 7, variant |-> 2, ms |-> time \div TicksPerMs, random |-> random]

isUuid(id, time) ==
    /\ id.version = 7
    /\ id.variant = 2
    /\ id.ms * TicksPerMs <= time

\* Faulty variant: one millisecond too many.
isExpiredLate(id, ttl, time) ==
    isUuid(id, time) /\ time - id.ms * TicksPerMs > (ttl + 1) * TicksPerMs

isExpired(id, ttl, time) ==
    isUuid(id, time) /\ time - id.ms * TicksPerMs > ttl * TicksPerMs

\* Faulty variant: rounded up.
getElapsedTimeUp(id, time) == (time - id.ms * TicksPerMs + TicksPerMs - 1) \div TicksPerMs

\* For a valid UUID, in whole milliseconds; the code throws for others.
getElapsedTime(id, time) == (time - id.ms * TicksPerMs) \div TicksPerMs

getRemainingTime(id, ttl, time) ==
    IF getElapsedTime(id, time) < ttl THEN ttl - getElapsedTime(id, time) ELSE 0

-------------------------------------------------------------------------------
(* The validators of a message m, at a time. *)

areCommonAttributesValid(m, time) ==
    /\ isUuid(m.id, time)
    /\ \A ttl \in m.ttl : ttl > 0 => ~isExpired(m.id, ttl, time)
    /\ m.priority \in Priorities
    /\ m.format \in PayloadFormats

isValidRpcRequest(m, time) ==
    /\ areCommonAttributesValid(m, time)
    /\ m.type = "request"
    /\ m.source # {} /\ m.sink # {}
    /\ \A u \in m.source : isEntity(u)
    /\ \A u \in m.sink : isMethod(u)
    /\ m.priority >= CS4
    /\ m.ttl # {} /\ 0 \notin m.ttl
    /\ m.commstatus = {} /\ m.reqid = {}

isValidRpcResponse(m, time) ==
    /\ areCommonAttributesValid(m, time)
    /\ m.type = "response"
    /\ m.source # {} /\ m.sink # {}
    /\ \A u \in m.source : isMethod(u)
    /\ \A u \in m.sink : isEntity(u)
    /\ m.reqid # {}
    /\ \A id \in m.reqid :
          /\ isUuid(id, time)
          /\ \A ttl \in m.ttl : ttl > 0 => ~isExpired(id, ttl, time)
    /\ m.priority >= CS4
    /\ m.permission = {} /\ m.token = {}

isValidRpcResponseFor(request, m, time) ==
    /\ isValidRpcResponse(m, time)
    /\ m.source = request.sink
    /\ m.sink = request.source
    /\ m.reqid = {request.id}
    /\ m.priority = request.priority

isValidPublish(m, time) ==
    /\ areCommonAttributesValid(m, time)
    /\ m.type = "publish"
    /\ m.source # {} /\ \A u \in m.source : isTopic(u)
    /\ m.sink = {}
    /\ m.commstatus = {} /\ m.reqid = {} /\ m.permission = {} /\ m.token = {}

isValidNotification(m, time) ==
    /\ areCommonAttributesValid(m, time)
    /\ m.type = "notification"
    /\ m.source # {} /\ m.sink # {}
    /\ \A u \in m.source : isTopic(u)
    /\ \A u \in m.sink : isEntity(u)
    /\ m.commstatus = {} /\ m.reqid = {} /\ m.permission = {} /\ m.token = {}

\* isValid() of a message, which UTransport::send() applies
isValid(m, time) ==
    \/ m.type = "request" /\ isValidRpcRequest(m, time)
    \/ m.type = "response" /\ isValidRpcResponse(m, time)
    \/ m.type = "publish" /\ isValidPublish(m, time)
    \/ m.type = "notification" /\ isValidNotification(m, time)

-------------------------------------------------------------------------------
(* UMessageBuilder.  A builder is the attributes it has collected and the  *)
(* expected payload format.  Each operation has a condition Can..., under  *)
(* which the code does not throw, and a result.  The code checks before it *)
(* changes anything, so an operation that throws leaves the builder alone. *)

\* The constructor of UMessageBuilder
Builder(type, source, sink, reqid) ==
    [type |-> type, source |-> {source}, sink |-> sink, reqid |-> reqid,
     priority |-> 0, ttl |-> {}, token |-> {}, permission |-> {},
     commstatus |-> {}, format |-> 0, expected |-> {}]

\* Faulty variant: the upper bound is off by one.
CanSetTtlOffByOne(ttl) == 0 < ttl /\ ttl <= MaxTtl + 1

CanSetTtl(ttl) == 0 < ttl /\ ttl <= MaxTtl
withTtl(b, ttl) == [b EXCEPT !.ttl = {ttl}]

CanSetPriority(b, priority) ==
    /\ priority \in Priorities
    /\ b.type \in {"request", "response"} => priority >= CS4
withPriority(b, priority) == [b EXCEPT !.priority = priority]

CanSetMethod(method) == isMethod(method)
withMethod(b, method) == [b EXCEPT !.sink = {method}]

\* Faulty variant: any RPC message may carry a token.
CanSetTokenRpc(b) == b.type \in {"request", "response"}

CanSetToken(b) == b.type = "request"
withToken(b, token) == [b EXCEPT !.token = {token}]
withPermissionLevel(b, level) == [b EXCEPT !.permission = {level}]

\* Some values of the enumeration UCode
UCodes == {"OK", "NOT_FOUND"}

CanSetCommStatus(b, code) == b.type = "response" /\ code \in UCodes
withCommStatus(b, code) == IF code = "OK" THEN b ELSE [b EXCEPT !.commstatus = {code}]

CanSetFormat(format) == format \in PayloadFormats
withPayloadFormat(b, format) == [b EXCEPT !.format = format, !.expected = {format}]

CanPublish(topic) == isTopic(topic)
publish(topic) == Builder("publish", topic, {}, {})

\* Faulty variant: the sink is not checked.
CanNotifyAnywhere(source, sink) == isTopic(source)

CanNotify(source, sink) == isTopic(source) /\ isEntity(sink)
notification(source, sink) == Builder("notification", source, {sink}, {})

CanRequest(method, source, priority, ttl) ==
    /\ isMethod(method)
    /\ isEntity(source)
    /\ CanSetTtl(ttl)
    /\ priority \in Priorities /\ priority >= CS4
request(method, source, priority, ttl) ==
    withTtl(withPriority(Builder("request", source, {method}, {}), priority), ttl)

CanRespond(sink, id, priority, method, time) ==
    /\ isMethod(method)
    /\ isEntity(sink)
    /\ isUuid(id, time)
    /\ priority \in Priorities /\ priority >= CS4
\* Faulty variant: the wrong message type.
responseAsRequest(sink, id, priority, method) ==
    withPriority(Builder("request", method, {sink}, {id}), priority)

response(sink, id, priority, method) ==
    withPriority(Builder("response", method, {sink}, {id}), priority)

\* What build() makes of a builder: attributes and a new id, no payload.  The
\* format is the one the builder holds.
Built(b, id) ==
    [type |-> b.type, id |-> id, source |-> b.source, sink |-> b.sink,
     reqid |-> b.reqid, priority |-> b.priority, ttl |-> b.ttl, token |-> b.token,
     permission |-> b.permission, commstatus |-> b.commstatus, format |-> b.format,
     payload |-> {}]

CanBuild(b) == b.expected = {}

\* build(payload): the payload brings its own format
CanBuildWith(b, format) == b.expected \in {{}, {format}}
BuiltWith(b, id, format, content) ==
    [Built(b, id) EXCEPT !.format = format, !.payload = {content}]

\* build(method, ...): the sink is replaced without a check
AtMethod(m, method) == [m EXCEPT !.sink = {method}]

===============================================================================
