----------------------------- MODULE SendersProofs -----------------------------
(***************************************************************************)
(* Proofs about UMessageBuilder and the classes that use one, for any      *)
(* URIs, TTLs, priorities, formats, received requests, payload objects and *)
(* clock.                                                                  *)
(***************************************************************************)
EXTENDS Senders, UuidProofs, FunctionTheorems, FiniteSetTheorems, SequenceTheorems, TLAPS

-------------------------------------------------------------------------------
(* The invariant. *)

\* A set that stands for an optional value
Single(S) == \A x, y \in S : x = y

\* A record with the fields of a builder.
IsBuilder(b) ==
    {"type", "source", "sink", "reqid", "priority", "ttl", "token", "permission",
     "commstatus", "format", "expected"} \subseteq DOMAIN b

\* What the factories and every with...() call see to, for the attributes of a
\* builder or of a message: all that the validator asks for at a time, except that the
\* sink fits and that the message has not expired.
ForType(a, time) ==
    /\ a.type = "publish" =>
          /\ a.source # {} /\ \A u \in a.source : isTopic(u)
          /\ a.commstatus = {} /\ a.reqid = {} /\ a.permission = {} /\ a.token = {}
    /\ a.type = "notification" =>
          /\ a.source # {} /\ \A u \in a.source : isTopic(u)
          /\ a.sink # {}
          /\ a.commstatus = {} /\ a.reqid = {} /\ a.permission = {} /\ a.token = {}
    /\ a.type = "request" =>
          /\ a.source # {} /\ \A u \in a.source : isEntity(u)
          /\ a.sink # {}
          /\ a.ttl # {} /\ a.priority >= CS4
          /\ a.commstatus = {} /\ a.reqid = {}
    /\ a.type = "response" =>
          /\ a.source # {} /\ \A u \in a.source : isMethod(u)
          /\ a.sink # {} /\ a.priority >= CS4
          /\ a.reqid # {} /\ \A id \in a.reqid : Stamped(id, time)
          /\ a.permission = {} /\ a.token = {}

Attributes(a, time) ==
    /\ a.type \in Types
    /\ a.priority \in Priorities
    /\ a.ttl \subseteq 1..MaxTtl
    /\ a.format \in PayloadFormats
    /\ Single(a.source) /\ Single(a.sink)
    /\ ForType(a, time)

\* The builder of a Publisher, a NotificationSource or an RpcClient makes messages of
\* one type, and the first two never change the sink.
Owned(kind, a) ==
    /\ kind = "publisher" => a.type = "publish" /\ SinkFits(a)
    /\ kind = "source" => a.type = "notification" /\ SinkFits(a)
    /\ kind \in {"client", "usubscription"} => a.type = "request"

\* A response keeps the id and the method of the request it was made for.
Answers(a, to) == a.type = "response" /\ a.source = to.sink /\ a.reqid = {to.id}

BuilderInv ==
    /\ now \in StartTime..MaxTime
    /\ sender = [kind |-> sender.kind, service |-> sender.service]
    /\ sender.kind \in Kinds
    /\ Single(builder) /\ Single(answered)
    /\ builder = {} => built = {} /\ answered = {}
    /\ \A b \in builder :
          /\ IsBuilder(b)
          /\ b.expected \subseteq PayloadFormats
          /\ Attributes(b, now)
          /\ Owned(sender.kind, b)
          /\ \A to \in answered : Answers(b, to)

\* A message that was built keeps what the builder promised at that time, and carries
\* the stamp of that time.
BuiltInv ==
    /\ Single(built)
    /\ \A r \in built :
          /\ r.at \in StartTime..now
          /\ Attributes(r.msg, r.at)
          /\ Stamped(r.msg.id, r.at)
          /\ r.msg.id.ms = r.at \div TicksPerMs
          /\ Owned(sender.kind, r.msg)
          /\ sender.kind = "usubscription" => SinkFits(r.msg)
          /\ \A to \in answered : Answers(r.msg, to)
          /\ "emptied" \notin r.msg.payload

\* A Payload object without contents knows that it was consumed.
PayloadInv ==
    /\ payload \in [Objects -> SUBSET Payloads]
    /\ \A p \in Objects :
          /\ Single(payload[p])
          /\ \A o \in payload[p] :
                o.format \in PayloadFormats /\ (o.content = "emptied" => o.moved)

SendersInv == BuilderInv /\ BuiltInv /\ PayloadInv

-------------------------------------------------------------------------------
(* What the invariant implies.                                             *)

\* The clock and what is measured with it are numbers.
LEMMA Numbers ==
  ASSUME BuilderInv, BuiltInv, NEW r \in built
  PROVE  /\ now \in Nat /\ r.at \in Nat /\ r.at <= now
         /\ r.msg.id.ms \in Nat
         /\ r.at - r.msg.id.ms * TicksPerMs \in 0 .. TicksPerMs - 1
         /\ r.msg.id.ms * TicksPerMs \in Nat
         /\ \A ttl \in r.msg.ttl : ttl \in Nat /\ ttl >= 1 /\ ttl * TicksPerMs \in Nat
                                   /\ (ttl - 1) * TicksPerMs = ttl * TicksPerMs - TicksPerMs
<1>1. now \in Nat /\ r.at \in Nat /\ r.at <= now
  BY InputsAssumption DEF BuilderInv, BuiltInv
<1>2. r.msg.id.ms = r.at \div TicksPerMs /\ r.msg.id.ms \in Nat
  BY DEF BuiltInv, Stamped
<1>3. r.at - r.msg.id.ms * TicksPerMs \in 0 .. TicksPerMs - 1
  BY <1>1, <1>2, StampLags
<1>4. r.msg.id.ms * TicksPerMs \in Nat
  BY <1>2, ClockAssumption
<1>5. ASSUME NEW ttl \in r.msg.ttl
      PROVE  ttl \in Nat /\ ttl >= 1 /\ ttl * TicksPerMs \in Nat
             /\ (ttl - 1) * TicksPerMs = ttl * TicksPerMs - TicksPerMs
  <2>1. ttl \in Nat /\ ttl >= 1
    BY TtlAssumption DEF BuiltInv, Attributes
  <2> QED
    BY <2>1, ClockAssumption
<1> QED
  BY <1>1, <1>2, <1>3, <1>4, <1>5

\* A message with the attributes of its type, and a sink that fits, passes the
\* validator unless it has expired.
LEMMA AcceptedUnlessExpired ==
  ASSUME NEW m, NEW time, Attributes(m, time), Stamped(m.id, time), SinkFits(m),
         \A ttl \in m.ttl : ~isExpired(m.id, ttl, time),
         \A ttl \in m.ttl, id \in m.reqid : ~isExpired(id, ttl, time)
  PROVE  isValid(m, time)
<1>1. areCommonAttributesValid(m, time)
  BY StampedIsUuid DEF Attributes, areCommonAttributesValid
<1>2. m.type \in Types /\ ForType(m, time)
  BY DEF Attributes
<1>3. CASE m.type = "publish"
  BY <1>1, <1>2, <1>3 DEF ForType, SinkFits, isValid, isValidPublish
<1>4. CASE m.type = "notification"
  BY <1>1, <1>2, <1>4 DEF ForType, SinkFits, isValid, isValidNotification
<1>5. CASE m.type = "request"
  <2>1. 0 \notin m.ttl
    BY TtlAssumption DEF Attributes
  <2> QED
    BY <1>1, <1>2, <1>5, <2>1 DEF ForType, SinkFits, isValid, isValidRpcRequest
<1>6. CASE m.type = "response"
  <2>1. \A id \in m.reqid : isUuid(id, time)
    BY <1>2, <1>6, StampedIsUuid DEF ForType
  <2> QED
    BY <1>1, <1>2, <1>6, <2>1 DEF ForType, SinkFits, isValid, isValidRpcResponse
<1> QED
  BY <1>2, <1>3, <1>4, <1>5, <1>6 DEF Types

\* A message that the validator accepts has a sink that fits.
LEMMA AcceptedFits ==
  ASSUME NEW m, NEW time, isValid(m, time)
  PROVE  SinkFits(m)
  BY DEF isValid, isValidPublish, isValidNotification, isValidRpcRequest,
         isValidRpcResponse, SinkFits

\* The attributes stay good as the clock advances.
LEMMA AttributesLater ==
  ASSUME NEW a, NEW n \in Nat, NEW n2 \in Nat, n <= n2, Attributes(a, n)
  PROVE  Attributes(a, n2)
<1>1. \A id \in a.reqid : Stamped(id, n) => Stamped(id, n2)
  BY StampedLater
<1> QED
  BY <1>1 DEF Attributes, ForType

\* The invariant gives BuiltIsAccepted: until then neither id has expired.
LEMMA InvAccepted == SendersInv => BuiltIsAccepted
<1> SUFFICES ASSUME SendersInv, NEW r \in built, SinkFits(r.msg),
                    \A ttl \in r.msg.ttl :
                       /\ now - r.at <= (ttl - 1) * TicksPerMs
                       /\ \A id \in r.msg.reqid :
                             now - id.ms * TicksPerMs <= ttl * TicksPerMs
             PROVE  isValid(r.msg, now)
  BY DEF BuiltIsAccepted
<1>1. /\ now \in Nat /\ r.at \in Nat /\ r.at <= now
      /\ r.at - r.msg.id.ms * TicksPerMs \in 0 .. TicksPerMs - 1
      /\ r.msg.id.ms * TicksPerMs \in Nat
      /\ \A ttl \in r.msg.ttl : ttl * TicksPerMs \in Nat
                                /\ (ttl - 1) * TicksPerMs = ttl * TicksPerMs - TicksPerMs
  BY Numbers DEF SendersInv
<1>2. Attributes(r.msg, now) /\ Stamped(r.msg.id, now)
  BY <1>1, AttributesLater, StampedLater DEF SendersInv, BuiltInv
<1>3. ASSUME NEW ttl \in r.msg.ttl PROVE ~isExpired(r.msg.id, ttl, now)
  BY <1>1, ClockAssumption DEF isExpired
<1>4. ASSUME NEW ttl \in r.msg.ttl, NEW id \in r.msg.reqid PROVE ~isExpired(id, ttl, now)
  <2>1. Stamped(id, now)
    BY <1>2 DEF Attributes, ForType, Types
  <2>2. id.ms * TicksPerMs \in Nat
    BY <2>1, ClockAssumption DEF Stamped
  <2> QED
    BY <1>1, <2>2 DEF isExpired
<1> QED
  BY <1>2, <1>3, <1>4, AcceptedUnlessExpired

\* The invariant gives StaleIsRefused: the stamp is not later than the time of build().
LEMMA InvStale == SendersInv => StaleIsRefused
<1> SUFFICES ASSUME SendersInv, NEW r \in built, NEW ttl \in r.msg.ttl,
                    now - r.at > ttl * TicksPerMs, isValid(r.msg, now)
             PROVE  FALSE
  BY DEF StaleIsRefused
<1>1. /\ now \in Nat /\ r.at \in Nat /\ r.at <= now
      /\ r.at - r.msg.id.ms * TicksPerMs \in 0 .. TicksPerMs - 1
      /\ r.msg.id.ms * TicksPerMs \in Nat
      /\ ttl \in Nat /\ ttl >= 1 /\ ttl * TicksPerMs \in Nat
  BY Numbers DEF SendersInv
<1>2. areCommonAttributesValid(r.msg, now)
  BY DEF isValid, isValidPublish, isValidNotification, isValidRpcRequest, isValidRpcResponse
<1>3. isUuid(r.msg.id, now) /\ ~isExpired(r.msg.id, ttl, now)
  BY <1>1, <1>2 DEF areCommonAttributesValid
<1> QED
  BY <1>1, <1>3, ClockAssumption DEF isExpired

\* e whole milliseconds are between d ticks and d ticks less one millisecond.
LEMMA WholeMilliseconds ==
  ASSUME NEW d \in Nat
  PROVE  LET e == d \div TicksPerMs
         IN  e \in Nat /\ \A k \in Nat : /\ e < k => d <= k * TicksPerMs
                                         /\ e >= k => d >= k * TicksPerMs
<1> DEFINE e == d \div TicksPerMs
<1>1. TicksPerMs \in Nat /\ TicksPerMs > 0
  BY ClockAssumption
<1>2. e \in Nat /\ e * TicksPerMs <= d /\ d < (e + 1) * TicksPerMs
  BY <1>1
<1> HIDE DEF e
<1>3. ASSUME NEW k \in Nat, e < k PROVE d <= k * TicksPerMs
  <2>1. (e + 1) * TicksPerMs <= k * TicksPerMs
    BY <1>1, <1>2, <1>3
  <2> QED
    BY <1>1, <1>2, <2>1
<1>4. ASSUME NEW k \in Nat, e >= k PROVE d >= k * TicksPerMs
  <2>1. e * TicksPerMs >= k * TicksPerMs
    BY <1>1, <1>2, <1>4
  <2> QED
    BY <1>1, <1>2, <2>1
<1> QED
  BY <1>2, <1>3, <1>4 DEF e

\* The invariant gives RemainingTime.
LEMMA InvRemaining == SendersInv => RemainingTime
<1> SUFFICES ASSUME SendersInv, NEW r \in built, NEW ttl \in r.msg.ttl
             PROVE  /\ getRemainingTime(r.msg.id, ttl, now) > 0
                          => ~isExpired(r.msg.id, ttl, now)
                    /\ getRemainingTime(r.msg.id, ttl, now) = 0
                          => now - r.at > (ttl - 1) * TicksPerMs
  BY DEF RemainingTime
<1>1. /\ now \in Nat /\ r.at \in Nat /\ r.at <= now
      /\ r.at - r.msg.id.ms * TicksPerMs \in 0 .. TicksPerMs - 1
      /\ r.msg.id.ms * TicksPerMs \in Nat
      /\ ttl \in Nat /\ ttl >= 1 /\ ttl * TicksPerMs \in Nat
      /\ (ttl - 1) * TicksPerMs = ttl * TicksPerMs - TicksPerMs
  BY Numbers DEF SendersInv
<1> DEFINE d == now - r.msg.id.ms * TicksPerMs
           e == d \div TicksPerMs
<1>2. d \in Nat
  BY <1>1, ClockAssumption
<1>3. e \in Nat /\ (e < ttl => d <= ttl * TicksPerMs) /\ (e >= ttl => d >= ttl * TicksPerMs)
  BY <1>1, <1>2, WholeMilliseconds
<1>4. getElapsedTime(r.msg.id, now) = e
  BY DEF getElapsedTime
<1> HIDE DEF e
<1>5. CASE e < ttl
  <2>1. getRemainingTime(r.msg.id, ttl, now) = ttl - e
    BY <1>4, <1>5 DEF getRemainingTime
  <2>2. ~isExpired(r.msg.id, ttl, now)
    BY <1>1, <1>2, <1>3, <1>5 DEF isExpired
  <2> QED
    BY <2>1, <2>2, <1>1, <1>3, <1>5
<1>6. CASE e >= ttl
  <2>1. getRemainingTime(r.msg.id, ttl, now) = 0
    BY <1>1, <1>3, <1>4, <1>6 DEF getRemainingTime
  <2>2. now - r.at > (ttl - 1) * TicksPerMs
    BY <1>1, <1>2, <1>3, <1>6, ClockAssumption
  <2> QED
    BY <2>1, <2>2
<1> QED
  BY <1>1, <1>3, <1>5, <1>6

\* The invariant gives ResponseMatchesRequest.
LEMMA InvMatches == SendersInv => ResponseMatchesRequest
<1> SUFFICES ASSUME SendersInv, NEW r \in built, NEW to \in answered,
                    isValid(r.msg, now), r.msg.priority = to.priority,
                    r.msg.sink = to.source
             PROVE  isValidRpcResponseFor(to, r.msg, now)
  BY DEF ResponseMatchesRequest
<1>1. Answers(r.msg, to)
  BY DEF SendersInv, BuiltInv
<1>2. isValidRpcResponse(r.msg, now)
  BY <1>1 DEF isValid, Answers
<1> QED
  BY <1>1, <1>2 DEF Answers, isValidRpcResponseFor

\* The invariant gives AcceptedAtOnce: at the very time of build() nothing that is not
\* a response can have expired.
LEMMA InvAtOnce == SendersInv => AcceptedAtOnce
<1> SUFFICES ASSUME SendersInv PROVE AcceptedAtOnce
  OBVIOUS
<1>1. ASSUME sender.kind # "application", NEW r \in built
      PROVE  /\ isValid(r.msg, r.at) <=> SinkFits(r.msg)
             /\ sender.kind # "client" => SinkFits(r.msg)
  <2>1. /\ r.at \in Nat
        /\ r.at - r.msg.id.ms * TicksPerMs \in 0 .. TicksPerMs - 1
        /\ r.msg.id.ms * TicksPerMs \in Nat
        /\ \A ttl \in r.msg.ttl : ttl \in Nat /\ ttl >= 1 /\ ttl * TicksPerMs \in Nat
                                  /\ (ttl - 1) * TicksPerMs = ttl * TicksPerMs - TicksPerMs
    BY Numbers DEF SendersInv
  <2>2. Attributes(r.msg, r.at) /\ Stamped(r.msg.id, r.at)
    BY DEF SendersInv, BuiltInv
  <2>3. sender.kind \in Kinds /\ Owned(sender.kind, r.msg)
        /\ (sender.kind = "usubscription" => SinkFits(r.msg))
    BY DEF SendersInv, BuilderInv, BuiltInv
  <2>4. r.msg.type \in {"publish", "notification", "request"}
    BY <1>1, <2>3 DEF Kinds, Owned
  <2>5. r.msg.reqid = {}
    BY <2>2, <2>4 DEF Attributes, ForType
  <2>6. ASSUME NEW ttl \in r.msg.ttl PROVE ~isExpired(r.msg.id, ttl, r.at)
    <3>1. ttl * TicksPerMs >= TicksPerMs
      BY <2>1, ClockAssumption
    <3> QED
      BY <2>1, <3>1, ClockAssumption DEF isExpired
  <2>7. isValid(r.msg, r.at) <=> SinkFits(r.msg)
    BY <2>2, <2>5, <2>6, AcceptedUnlessExpired, AcceptedFits
  <2> QED
    BY <2>3, <2>7, <1>1 DEF Kinds, Owned
<1>2. ASSUME NEW m \in JustBuilt, isValid(m, now), NEW u \in UrisOf(m)
      PROVE  isValidUri(u)
  <2>1. CASE u \in m.source
    BY <1>2, <2>1 DEF isValid, isValidPublish, isValidNotification, isValidRpcRequest,
                      isValidRpcResponse, isValidUri
  <2>2. CASE u \in m.sink
    BY <1>2, <2>2 DEF isValid, isValidPublish, isValidNotification, isValidRpcRequest,
                      isValidRpcResponse, isValidUri
  <2> QED
    BY <2>1, <2>2 DEF UrisOf
<1> QED
  BY <1>1, <1>2 DEF AcceptedAtOnce

\* The invariant gives PayloadIntact.
LEMMA InvIntact == SendersInv => PayloadIntact
  BY DEF SendersInv, BuiltInv, PayloadIntact

\* A set that stands for an optional value has at most one element.
LEMMA SingleCardinality ==
  ASSUME NEW S, Single(S)
  PROVE  Cardinality(S) <= 1
<1>1. CASE S = {}
  BY <1>1, FS_EmptySet
<1>2. CASE S # {}
  <2>1. PICK x : S = {x}
    BY <1>2 DEF Single
  <2> QED
    BY <2>1, FS_Singleton
<1> QED
  BY <1>1, <1>2

\* The invariant gives the type invariant.
LEMMA InvType == SendersInv => TypeOK
<1> SUFFICES ASSUME SendersInv PROVE TypeOK
  OBVIOUS
<1>1. Cardinality(builder) <= 1 /\ Cardinality(answered) <= 1 /\ Cardinality(built) <= 1
  BY SingleCardinality DEF SendersInv, BuilderInv, BuiltInv
<1>2. \A p \in Objects : Cardinality(payload[p]) <= 1
  BY SingleCardinality DEF SendersInv, PayloadInv
<1>3. \A b \in builder :
          /\ b.type \in Types
          /\ b.ttl \subseteq 1..MaxTtl
          /\ b.priority \in Priorities
          /\ b.expected \subseteq PayloadFormats
  BY DEF SendersInv, BuilderInv, Attributes
<1> QED
  BY <1>1, <1>2, <1>3 DEF TypeOK, SendersInv, BuilderInv, BuiltInv, PayloadInv

-------------------------------------------------------------------------------
(* The steps.  The builder that a step leaves behind, and the message that *)
(* it builds, have to satisfy these conditions.                            *)

GoodBuilder(b, kind, to, time) ==
    /\ IsBuilder(b)
    /\ b.expected \subseteq PayloadFormats
    /\ Attributes(b, time)
    /\ Owned(kind, b)
    /\ \A x \in to : Answers(b, x)

GoodMessage(m, kind, to, time) ==
    /\ Attributes(m, time)
    /\ Stamped(m.id, time)
    /\ m.id.ms = time \div TicksPerMs
    /\ Owned(kind, m)
    /\ kind = "usubscription" => SinkFits(m)
    /\ \A x \in to : Answers(m, x)
    /\ "emptied" \notin m.payload

\* A step that makes or changes a builder and forgets what was built before.
LEMMA NewBuilder ==
  ASSUME SendersInv, NEW b, builder' = {b}, built' = {}, UNCHANGED <<now, payload>>,
         sender' = [kind |-> sender'.kind, service |-> sender'.service],
         sender'.kind \in Kinds, Single(answered'),
         GoodBuilder(b, sender'.kind, answered', now)
  PROVE  SendersInv'
<1>1. BuilderInv'
  BY DEF SendersInv, BuilderInv, GoodBuilder, Single
<1>2. BuiltInv'
  BY DEF BuiltInv, Single
<1>3. PayloadInv'
  BY DEF SendersInv, PayloadInv
<1> QED
  BY <1>1, <1>2, <1>3 DEF SendersInv

\* A step that builds a message, from the builder as it is or with another method.
LEMMA NewMessage ==
  ASSUME SendersInv, PayloadInv', NEW b, NEW m,
         builder' = {b}, built' = {[msg |-> m, at |-> now]},
         UNCHANGED <<now, answered, sender>>,
         GoodBuilder(b, sender.kind, answered, now),
         GoodMessage(m, sender.kind, answered, now)
  PROVE  SendersInv'
<1>1. BuilderInv'
  BY DEF SendersInv, BuilderInv, GoodBuilder, Single
<1>2. BuiltInv'
  <2> DEFINE r == [msg |-> m, at |-> now]
  <2>1. r.msg = m /\ r.at = now
    OBVIOUS
  <2>2. now \in StartTime..now
    BY InputsAssumption DEF SendersInv, BuilderInv
  <2> HIDE DEF r
  <2>3. built' = {r}
    BY DEF r
  <2> QED
    BY <2>1, <2>2, <2>3 DEF BuiltInv, GoodMessage, Single
<1> QED
  BY <1>1, <1>2 DEF SendersInv

\* A step that changes nothing but a payload.
LEMMA NewPayload ==
  ASSUME SendersInv, PayloadInv', UNCHANGED <<now, builder, answered, built, sender>>
  PROVE  SendersInv'
<1>1. BuilderInv'
  BY DEF SendersInv, BuilderInv
<1>2. BuiltInv'
  BY DEF SendersInv, BuiltInv
<1> QED
  BY <1>1, <1>2 DEF SendersInv

\* A step that changes the builder but not the message built last.
LEMMA OtherBuilder ==
  ASSUME SendersInv, NEW b, builder' = {b}, UNCHANGED <<now, answered, built, payload, sender>>,
         GoodBuilder(b, sender.kind, answered, now)
  PROVE  SendersInv'
<1>1. BuilderInv'
  BY DEF SendersInv, BuilderInv, GoodBuilder, Single
<1>2. BuiltInv' /\ PayloadInv'
  BY DEF SendersInv, BuiltInv, PayloadInv
<1> QED
  BY <1>1, <1>2 DEF SendersInv

-------------------------------------------------------------------------------
(* The fluent interface keeps a builder good. *)

\* withTtl() checks the TTL against both limits.
LEMMA GoodTtl ==
  ASSUME NEW b, NEW kind, NEW to, NEW time, GoodBuilder(b, kind, to, time),
         NEW ttl \in Nat, CanSetTtl(ttl)
  PROVE  GoodBuilder(withTtl(b, ttl), kind, to, time)
<1> DEFINE c == withTtl(b, ttl)
<1>1. /\ IsBuilder(c) /\ c.ttl = {ttl}
      /\ c.type = b.type /\ c.source = b.source /\ c.sink = b.sink /\ c.reqid = b.reqid
      /\ c.priority = b.priority /\ c.token = b.token /\ c.permission = b.permission
      /\ c.commstatus = b.commstatus /\ c.format = b.format /\ c.expected = b.expected
  BY DEF GoodBuilder, IsBuilder, withTtl
<1>2. c.ttl \subseteq 1..MaxTtl
  BY <1>1, TtlAssumption DEF CanSetTtl
<1> HIDE DEF c
<1>3. Attributes(c, time)
  BY <1>1, <1>2 DEF GoodBuilder, Attributes, ForType
<1>4. Owned(kind, c) /\ \A x \in to : Answers(c, x)
  BY <1>1 DEF GoodBuilder, Owned, SinkFits, Answers
<1> QED
  BY <1>1, <1>3, <1>4 DEF GoodBuilder, c

\* withPriority() refuses a priority below CS4 for requests and responses.
LEMMA GoodPriority ==
  ASSUME NEW b, NEW kind, NEW to, NEW time, GoodBuilder(b, kind, to, time),
         NEW level, CanSetPriority(b, level)
  PROVE  GoodBuilder(withPriority(b, level), kind, to, time)
<1> DEFINE c == withPriority(b, level)
<1>1. /\ IsBuilder(c) /\ c.priority = level
      /\ c.type = b.type /\ c.source = b.source /\ c.sink = b.sink /\ c.reqid = b.reqid
      /\ c.ttl = b.ttl /\ c.token = b.token /\ c.permission = b.permission
      /\ c.commstatus = b.commstatus /\ c.format = b.format /\ c.expected = b.expected
  BY DEF GoodBuilder, IsBuilder, withPriority
<1> HIDE DEF c
<1>2. Attributes(c, time)
  BY <1>1 DEF GoodBuilder, Attributes, ForType, CanSetPriority
<1>3. Owned(kind, c) /\ \A x \in to : Answers(c, x)
  BY <1>1 DEF GoodBuilder, Owned, SinkFits, Answers
<1> QED
  BY <1>1, <1>2, <1>3 DEF GoodBuilder, c

\* withPayloadFormat() changes nothing that the type of the message depends on.
LEMMA GoodFormat ==
  ASSUME NEW b, NEW kind, NEW to, NEW time, GoodBuilder(b, kind, to, time),
         NEW format, CanSetFormat(format)
  PROVE  GoodBuilder(withPayloadFormat(b, format), kind, to, time)
<1> DEFINE c == withPayloadFormat(b, format)
<1>1. /\ IsBuilder(c) /\ c.format = format /\ c.expected = {format}
      /\ c.type = b.type /\ c.source = b.source /\ c.sink = b.sink /\ c.reqid = b.reqid
      /\ c.ttl = b.ttl /\ c.token = b.token /\ c.permission = b.permission
      /\ c.commstatus = b.commstatus /\ c.priority = b.priority
  BY DEF GoodBuilder, IsBuilder, withPayloadFormat
<1> HIDE DEF c
<1>2. Attributes(c, time)
  BY <1>1 DEF GoodBuilder, Attributes, ForType, CanSetFormat
<1>3. Owned(kind, c) /\ \A x \in to : Answers(c, x)
  BY <1>1 DEF GoodBuilder, Owned, SinkFits, Answers
<1> QED
  BY <1>1, <1>2, <1>3 DEF GoodBuilder, CanSetFormat, c

\* withToken() and withPermissionLevel() are for requests only.
LEMMA GoodToken ==
  ASSUME NEW b, NEW kind, NEW to, NEW time, GoodBuilder(b, kind, to, time),
         CanSetToken(b), NEW x
  PROVE  /\ GoodBuilder(withToken(b, x), kind, to, time)
         /\ GoodBuilder(withPermissionLevel(b, x), kind, to, time)
<1>1. ASSUME NEW c, IsBuilder(c),
             c.type = b.type, c.source = b.source, c.sink = b.sink, c.reqid = b.reqid,
             c.ttl = b.ttl, c.priority = b.priority, c.format = b.format,
             c.expected = b.expected, c.commstatus = b.commstatus
      PROVE  GoodBuilder(c, kind, to, time)
  <2>1. Attributes(c, time)
    BY <1>1 DEF GoodBuilder, Attributes, ForType, CanSetToken
  <2>2. Owned(kind, c) /\ \A y \in to : Answers(c, y)
    BY <1>1 DEF GoodBuilder, Owned, SinkFits, Answers
  <2> QED
    BY <1>1, <2>1, <2>2 DEF GoodBuilder
<1>2. GoodBuilder(withToken(b, x), kind, to, time)
  BY <1>1 DEF GoodBuilder, IsBuilder, withToken
<1>3. GoodBuilder(withPermissionLevel(b, x), kind, to, time)
  BY <1>1 DEF GoodBuilder, IsBuilder, withPermissionLevel
<1> QED
  BY <1>2, <1>3

\* withCommStatus() is for responses only.
LEMMA GoodCommStatus ==
  ASSUME NEW b, NEW kind, NEW to, NEW time, GoodBuilder(b, kind, to, time),
         NEW code, CanSetCommStatus(b, code)
  PROVE  GoodBuilder(withCommStatus(b, code), kind, to, time)
<1> DEFINE c == withCommStatus(b, code)
<1>1. /\ IsBuilder(c)
      /\ c.type = b.type /\ c.source = b.source /\ c.sink = b.sink /\ c.reqid = b.reqid
      /\ c.ttl = b.ttl /\ c.token = b.token /\ c.permission = b.permission
      /\ c.priority = b.priority /\ c.format = b.format /\ c.expected = b.expected
  BY DEF GoodBuilder, IsBuilder, withCommStatus
<1> HIDE DEF c
<1>2. Attributes(c, time)
  BY <1>1 DEF GoodBuilder, Attributes, ForType, CanSetCommStatus
<1>3. Owned(kind, c) /\ \A x \in to : Answers(c, x)
  BY <1>1 DEF GoodBuilder, Owned, SinkFits, Answers
<1> QED
  BY <1>1, <1>2, <1>3 DEF GoodBuilder, c

\* withMethod() changes the sink, which only a Publisher and a NotificationSource need
\* as it was.
LEMMA GoodMethod ==
  ASSUME NEW b, NEW kind, NEW to, NEW time, GoodBuilder(b, kind, to, time),
         kind \notin {"publisher", "source"}, NEW method
  PROVE  GoodBuilder(withMethod(b, method), kind, to, time)
<1> DEFINE c == withMethod(b, method)
<1>1. /\ IsBuilder(c) /\ c.sink = {method}
      /\ c.type = b.type /\ c.source = b.source /\ c.reqid = b.reqid
      /\ c.ttl = b.ttl /\ c.token = b.token /\ c.permission = b.permission
      /\ c.commstatus = b.commstatus
      /\ c.priority = b.priority /\ c.format = b.format /\ c.expected = b.expected
  BY DEF GoodBuilder, IsBuilder, withMethod
<1> HIDE DEF c
<1>2. Attributes(c, time)
  BY <1>1 DEF GoodBuilder, Attributes, ForType, Single
<1>3. Owned(kind, c) /\ \A x \in to : Answers(c, x)
  BY <1>1 DEF GoodBuilder, Owned, Answers
<1> QED
  BY <1>1, <1>2, <1>3 DEF GoodBuilder, c

-------------------------------------------------------------------------------
(* The factories make good builders. *)

\* publish() makes a builder with a topic and no sink.
LEMMA GoodPublish ==
  ASSUME NEW topic, CanPublish(topic), NEW time, NEW kind \in {"application", "publisher"}
  PROVE  GoodBuilder(publish(topic), kind, {}, time)
<1> DEFINE b == publish(topic)
<1>1. /\ IsBuilder(b) /\ b.type = "publish" /\ b.source = {topic} /\ b.sink = {}
      /\ b.reqid = {} /\ b.priority = 0 /\ b.ttl = {} /\ b.token = {} /\ b.permission = {}
      /\ b.commstatus = {} /\ b.format = 0 /\ b.expected = {}
  BY DEF publish, Builder, IsBuilder
<1> HIDE DEF b
<1>2. Attributes(b, time)
  BY <1>1 DEF CanPublish, Attributes, ForType, Types, Priorities, PayloadFormats, Single
<1>3. Owned(kind, b)
  BY <1>1 DEF Owned, SinkFits
<1> QED
  BY <1>1, <1>2, <1>3 DEF GoodBuilder, b

\* notification() makes a builder with a topic and an entity.
LEMMA GoodNotification ==
  ASSUME NEW source, NEW sink, CanNotify(source, sink), NEW time,
         NEW kind \in {"application", "source"}
  PROVE  GoodBuilder(notification(source, sink), kind, {}, time)
<1> DEFINE b == notification(source, sink)
<1>1. /\ IsBuilder(b) /\ b.type = "notification" /\ b.source = {source} /\ b.sink = {sink}
      /\ b.reqid = {} /\ b.priority = 0 /\ b.ttl = {} /\ b.token = {} /\ b.permission = {}
      /\ b.commstatus = {} /\ b.format = 0 /\ b.expected = {}
  BY DEF notification, Builder, IsBuilder
<1> HIDE DEF b
<1>2. Attributes(b, time)
  BY <1>1 DEF CanNotify, Attributes, ForType, Types, Priorities, PayloadFormats, Single
<1>3. Owned(kind, b)
  BY <1>1 DEF CanNotify, Owned, SinkFits
<1> QED
  BY <1>1, <1>2, <1>3 DEF GoodBuilder, b

\* A request has an entity, a priority and a TTL, whatever the sink: the builder of an
\* RpcClient starts without a method.
LEMMA GoodRequest ==
  ASSUME NEW source, isEntity(source), NEW sink, NEW level \in Priorities, level >= CS4,
         NEW ttl \in Nat, CanSetTtl(ttl), NEW time,
         NEW kind \in {"application", "client", "usubscription"}
  PROVE  GoodBuilder(withTtl(withPriority(Builder("request", source, {sink}, {}), level), ttl),
                     kind, {}, time)
<1> DEFINE b == withTtl(withPriority(Builder("request", source, {sink}, {}), level), ttl)
<1>1. /\ IsBuilder(b) /\ b.type = "request" /\ b.source = {source} /\ b.sink = {sink}
      /\ b.reqid = {} /\ b.priority = level /\ b.ttl = {ttl} /\ b.token = {}
      /\ b.permission = {} /\ b.commstatus = {} /\ b.format = 0 /\ b.expected = {}
  BY DEF withTtl, withPriority, Builder, IsBuilder
<1>2. b.ttl \subseteq 1..MaxTtl
  BY <1>1, TtlAssumption DEF CanSetTtl
<1> HIDE DEF b
<1>3. Attributes(b, time)
  BY <1>1, <1>2 DEF Attributes, ForType, Types, Priorities, PayloadFormats, Single
<1>4. Owned(kind, b)
  BY <1>1 DEF Owned
<1> QED
  BY <1>1, <1>3, <1>4 DEF GoodBuilder, b

\* response(request) makes a builder that answers the request, which had a valid id.
LEMMA GoodResponse ==
  ASSUME NEW to, NEW method \in to.sink, NEW sink \in to.source, NEW time,
         to.id.ms \in Nat, Single(to.sink),
         CanRespond(sink, to.id, to.priority, method, time)
  PROVE  GoodBuilder(response(sink, to.id, to.priority, method), "application",
                     {Essence(to)}, time)
<1> DEFINE b == response(sink, to.id, to.priority, method)
<1>1. /\ IsBuilder(b) /\ b.type = "response" /\ b.source = {method} /\ b.sink = {sink}
      /\ b.reqid = {to.id} /\ b.priority = to.priority /\ b.ttl = {} /\ b.token = {}
      /\ b.permission = {} /\ b.commstatus = {} /\ b.format = 0 /\ b.expected = {}
  BY DEF response, withPriority, Builder, IsBuilder
<1> HIDE DEF b
<1>2. Stamped(to.id, time)
  BY DEF CanRespond, isUuid, Stamped
<1>3. Attributes(b, time)
  BY <1>1, <1>2 DEF CanRespond, Attributes, ForType, Types, PayloadFormats, Single
<1>4. b.source = to.sink
  BY <1>1 DEF Single
<1>5. Answers(b, Essence(to))
  BY <1>1, <1>4 DEF Answers, Essence
<1>6. Owned("application", b)
  BY DEF Owned
<1> QED
  BY <1>1, <1>3, <1>5, <1>6 DEF GoodBuilder, b

-------------------------------------------------------------------------------
(* A good builder makes good messages. *)

IsMessage(m) ==
    {"type", "id", "source", "sink", "reqid", "priority", "ttl", "token", "permission",
     "commstatus", "format", "payload"} \subseteq DOMAIN m

\* A new id carries the stamp of the present.
LEMMA FreshStamp ==
  ASSUME now \in Nat, NEW id \in FreshIds
  PROVE  Stamped(id, now) /\ id.ms = now \div TicksPerMs
<1>1. PICK n : id = NewUuid(now, n)
  BY DEF FreshIds
<1>2. id.version = 7 /\ id.variant = 2 /\ id.ms = now \div TicksPerMs
  BY <1>1 DEF NewUuid
<1> QED
  BY <1>2, StampBounds DEF Stamped

\* build() takes over the attributes.
LEMMA GoodBuilt ==
  ASSUME now \in Nat, NEW b, NEW kind, NEW to, GoodBuilder(b, kind, to, now),
         kind = "usubscription" => SinkFits(b),
         NEW id \in FreshIds
  PROVE  IsMessage(Built(b, id)) /\ GoodMessage(Built(b, id), kind, to, now)
<1> DEFINE m == Built(b, id)
<1>1. /\ IsMessage(m) /\ m.id = id /\ m.payload = {}
      /\ m.type = b.type /\ m.source = b.source /\ m.sink = b.sink /\ m.reqid = b.reqid
      /\ m.ttl = b.ttl /\ m.token = b.token /\ m.permission = b.permission
      /\ m.commstatus = b.commstatus /\ m.priority = b.priority /\ m.format = b.format
  BY DEF Built, IsMessage
<1> HIDE DEF m
<1>2. Attributes(m, now)
  BY <1>1 DEF GoodBuilder, Attributes, ForType
<1>3. Owned(kind, m) /\ (kind = "usubscription" => SinkFits(m)) /\ \A x \in to : Answers(m, x)
  BY <1>1 DEF GoodBuilder, Owned, SinkFits, Answers
<1>4. Stamped(m.id, now) /\ m.id.ms = now \div TicksPerMs
  BY <1>1, FreshStamp
<1> QED
  BY <1>1, <1>2, <1>3, <1>4 DEF GoodMessage, m

\* build(payload) changes the format and the payload of what build() makes.
LEMMA GoodBuiltWith ==
  ASSUME now \in Nat, NEW b, NEW kind, NEW to, GoodBuilder(b, kind, to, now),
         kind = "usubscription" => SinkFits(b),
         NEW id \in FreshIds, NEW format \in PayloadFormats, NEW content, content # "emptied"
  PROVE  /\ IsMessage(BuiltWith(b, id, format, content))
         /\ GoodMessage(BuiltWith(b, id, format, content), kind, to, now)
<1> DEFINE k == Built(b, id)
           m == BuiltWith(b, id, format, content)
<1>1. IsMessage(k) /\ GoodMessage(k, kind, to, now)
  BY GoodBuilt
<1>2. m = [k EXCEPT !.format = format, !.payload = {content}]
  BY DEF BuiltWith
<1> HIDE DEF k, m
<1>3. /\ IsMessage(m) /\ m.id = k.id /\ m.payload = {content} /\ m.format = format
      /\ m.type = k.type /\ m.source = k.source /\ m.sink = k.sink /\ m.reqid = k.reqid
      /\ m.ttl = k.ttl /\ m.token = k.token /\ m.permission = k.permission
      /\ m.commstatus = k.commstatus /\ m.priority = k.priority
  BY <1>1, <1>2 DEF IsMessage
<1>4. Attributes(m, now)
  BY <1>1, <1>3 DEF GoodMessage, Attributes, ForType
<1>5. Owned(kind, m) /\ (kind = "usubscription" => SinkFits(m)) /\ \A x \in to : Answers(m, x)
  BY <1>1, <1>3 DEF GoodMessage, Owned, SinkFits, Answers
<1> QED
  BY <1>1, <1>3, <1>4, <1>5 DEF GoodMessage, m

\* build(method, ...) replaces the sink; applications and RpcClients do that.
LEMMA GoodAtMethod ==
  ASSUME NEW m, NEW kind \in {"application", "client"}, NEW to, NEW time, IsMessage(m),
         GoodMessage(m, kind, to, time), NEW method
  PROVE  GoodMessage(AtMethod(m, method), kind, to, time)
<1> DEFINE k == AtMethod(m, method)
<1>1. /\ k.id = m.id /\ k.payload = m.payload /\ k.format = m.format
      /\ k.type = m.type /\ k.source = m.source /\ k.sink = {method} /\ k.reqid = m.reqid
      /\ k.ttl = m.ttl /\ k.token = m.token /\ k.permission = m.permission
      /\ k.commstatus = m.commstatus /\ k.priority = m.priority
  BY DEF AtMethod, IsMessage
<1> HIDE DEF k
<1>2. Attributes(k, time)
  BY <1>1 DEF GoodMessage, Attributes, ForType, Single
<1>3. Owned(kind, k) /\ \A x \in to : Answers(k, x)
  BY <1>1 DEF GoodMessage, Owned, Answers
<1> QED
  BY <1>1, <1>2, <1>3 DEF GoodMessage, k

-------------------------------------------------------------------------------
(* Payload objects. *)

\* Every constructor, copy and move keeps PayloadInv: moved_ travels along.
LEMMA SetPayloadKeeps ==
  ASSUME PayloadInv, NEW to \in Objects, NEW o \in Payloads, NEW from,
         o.format \in PayloadFormats, o.content = "emptied" => o.moved,
         SetPayload(to, o, from)
  PROVE  PayloadInv'
<1>1. payload' = [p \in Objects |-> IF p = to THEN {o}
                                    ELSE IF p \in from THEN {} ELSE payload[p]]
  BY DEF SetPayload
<1>2. payload' \in [Objects -> SUBSET Payloads]
  BY <1>1 DEF PayloadInv
<1>3. ASSUME NEW p \in Objects
      PROVE  payload'[p] = {o} \/ payload'[p] = {} \/ payload'[p] = payload[p]
  BY <1>1
<1> QED
  BY <1>2, <1>3 DEF PayloadInv, Single

\* buildMove() empties the object and sets moved_.
LEMMA ConsumeKeeps ==
  ASSUME PayloadInv, NEW p \in Objects, NEW o \in payload[p],
         payload' = [payload EXCEPT ![p] = {buildMove(o)}]
  PROVE  PayloadInv'
<1> DEFINE c == buildMove(o)
<1>1. o \in Payloads /\ o.format \in PayloadFormats
  BY DEF PayloadInv
<1>2. c \in Payloads
  BY <1>1 DEF buildMove, Payloads
<1>3. c.format = o.format /\ c.moved
  BY <1>1 DEF buildMove, Payloads
<1> HIDE DEF c
<1>4. payload' \in [Objects -> SUBSET Payloads]
  BY <1>2 DEF PayloadInv, c
<1>5. ASSUME NEW q \in Objects PROVE payload'[q] = {c} \/ payload'[q] = payload[q]
  BY DEF PayloadInv, c
<1> QED
  BY <1>1, <1>3, <1>4, <1>5 DEF PayloadInv, Single

-------------------------------------------------------------------------------
(* Every step keeps the invariant. *)

\* The builder that exists is good, for its owner and the request it answers.
LEMMA TheBuilder ==
  ASSUME SendersInv, NEW b \in builder
  PROVE  /\ now \in Nat
         /\ builder = {b}
         /\ GoodBuilder(b, sender.kind, answered, now)
         /\ sender = [kind |-> sender.kind, service |-> sender.service]
         /\ sender.kind \in Kinds /\ Single(answered)
<1>1. now \in Nat
  BY InputsAssumption DEF SendersInv, BuilderInv
<1> QED
  BY <1>1 DEF SendersInv, BuilderInv, Single, GoodBuilder

\* Time passes: no attribute depends on when the builder is used.
LEMMA TickKeeps ==
  ASSUME SendersInv, Tick, UNCHANGED sender
  PROVE  SendersInv'
<1>1. now \in Nat /\ now' \in Nat /\ now <= now' /\ now' \in StartTime..MaxTime
  BY InputsAssumption DEF SendersInv, BuilderInv, Tick
<1>2. UNCHANGED <<builder, answered, built, payload, sender>>
  BY DEF Tick
<1>3. \A b \in builder : Attributes(b, now')
  BY <1>1, AttributesLater DEF SendersInv, BuilderInv
<1>4. BuilderInv'
  BY <1>1, <1>2, <1>3 DEF SendersInv, BuilderInv
<1>5. \A r \in built : r.at \in StartTime..now'
  BY <1>1, InputsAssumption DEF SendersInv, BuilderInv, BuiltInv
<1>6. BuiltInv'
  BY <1>2, <1>5 DEF SendersInv, BuiltInv
<1>7. PayloadInv'
  BY <1>2 DEF SendersInv, PayloadInv
<1> QED
  BY <1>4, <1>6, <1>7 DEF SendersInv

\* What goes on besides: the clock, and Payload objects made, copied and moved.
LEMMA EnvironmentKeeps ==
  ASSUME SendersInv, Environment, UNCHANGED sender
  PROVE  SendersInv'
<1>1. CASE Tick
  BY <1>1, TickKeeps
<1>2. ASSUME NEW to \in Objects, NEW o \in Payloads, NEW from,
             o.format \in PayloadFormats, o.content = "emptied" => o.moved,
             SetPayload(to, o, from)
      PROVE  SendersInv'
  <2>1. PayloadInv'
    BY <1>2, SetPayloadKeeps DEF SendersInv
  <2> QED
    BY <1>2, <2>1, NewPayload DEF SetPayload
<1>3. CASE Construct
  <2>1. PICK p \in Objects, format \in Formats :
           /\ CanSetFormat(format)
           /\ SetPayload(p, [content |-> "data", format |-> format, moved |-> FALSE], {})
    BY <1>3 DEF Construct
  <2> DEFINE o == [content |-> "data", format |-> format, moved |-> FALSE]
  <2>2. o \in Payloads
    BY DEF Payloads
  <2>3. o.format \in PayloadFormats /\ o.content # "emptied"
    BY <2>1 DEF CanSetFormat
  <2> HIDE DEF o
  <2> QED
    BY <2>1, <2>2, <2>3, <1>2 DEF o
<1>4. CASE CopyPayload
  <2>1. PICK p \in Objects, q \in Objects : \E o \in payload[q] : SetPayload(p, o, {})
    BY <1>4 DEF CopyPayload
  <2> QED
    BY <2>1, <1>2 DEF SendersInv, PayloadInv
<1>5. CASE MovePayload
  <2>1. PICK p \in Objects, q \in Objects : \E o \in payload[q] : SetPayload(p, o, {q})
    BY <1>5 DEF MovePayload
  <2> QED
    BY <2>1, <1>2 DEF SendersInv, PayloadInv
<1> QED
  BY <1>1, <1>3, <1>4, <1>5 DEF Environment

\* The factories, called by an application.
LEMMA FactoriesKeep ==
  ASSUME SendersInv, sender.kind = "application", UNCHANGED sender,
         StartPublish \/ StartNotification \/ StartRequest \/ StartResponse
  PROVE  SendersInv'
<1>1. ASSUME NEW b, NEW to, Start(b, to), Single(to), GoodBuilder(b, "application", to, now)
      PROVE  SendersInv'
  <2>1. builder' = {b} /\ answered' = to /\ built' = {} /\ UNCHANGED <<now, payload>>
    BY <1>1 DEF Start
  <2>2. sender' = [kind |-> sender'.kind, service |-> sender'.service]
        /\ sender'.kind = "application"
    BY DEF SendersInv, BuilderInv
  <2> QED
    BY <1>1, <2>1, <2>2, NewBuilder DEF Kinds
<1>2. Single({})
  BY DEF Single
<1>3. CASE StartPublish
  BY <1>1, <1>2, <1>3, GoodPublish DEF StartPublish
<1>4. CASE StartNotification
  BY <1>1, <1>2, <1>4, GoodNotification DEF StartNotification
<1>5. CASE StartRequest
  <2>1. PICK method \in Uris, source \in Uris, level \in Levels, ttl \in Ttls :
           /\ CanRequest(method, source, level, ttl)
           /\ Start(request(method, source, level, ttl), {})
    BY <1>5 DEF StartRequest
  <2>2. ttl \in Nat
    BY InputsAssumption
  <2>3. GoodBuilder(request(method, source, level, ttl), "application", {}, now)
    BY <2>1, <2>2, GoodRequest DEF CanRequest, request
  <2> QED
    BY <1>1, <1>2, <2>1, <2>3
<1>6. CASE StartResponse
  <2>1. PICK to \in Foreign \union {r.msg : r \in built} :
           \E method \in to.sink, sink \in to.source :
            /\ CanRespond(sink, to.id, to.priority, method, now)
            /\ Start(response(sink, to.id, to.priority, method), {Essence(to)})
    BY <1>6 DEF StartResponse
  <2>2. PICK method \in to.sink, sink \in to.source :
            /\ CanRespond(sink, to.id, to.priority, method, now)
            /\ Start(response(sink, to.id, to.priority, method), {Essence(to)})
    BY <2>1
  <2>3. to.id.ms \in Nat /\ Single(to.sink)
    BY ForeignAssumption DEF Single, SendersInv, BuiltInv, Stamped, Attributes
  <2>4. GoodBuilder(response(sink, to.id, to.priority, method), "application",
                    {Essence(to)}, now)
    BY <2>2, <2>3, GoodResponse
  <2>5. Single({Essence(to)})
    BY DEF Single
  <2> QED
    BY <1>1, <2>2, <2>4, <2>5
<1> QED
  BY <1>3, <1>4, <1>5, <1>6

\* The with...() calls of an application.
LEMMA FluentKeeps ==
  ASSUME SendersInv, sender.kind = "application", UNCHANGED sender,
         \/ WithPriority \/ WithTtl \/ WithMethod \/ WithToken
         \/ WithPermissionLevel \/ WithCommStatus \/ WithPayloadFormat
  PROVE  SendersInv'
<1>1. ASSUME NEW b \in builder, NEW c, Configure(c),
             GoodBuilder(c, "application", answered, now)
      PROVE  SendersInv'
  <2>1. builder' = {c} /\ built' = {} /\ UNCHANGED <<now, answered, payload>>
    BY <1>1 DEF Configure
  <2> QED
    BY <1>1, <2>1, TheBuilder, NewBuilder
<1>2. ASSUME NEW b \in builder PROVE GoodBuilder(b, "application", answered, now)
  BY TheBuilder
<1>3. CASE WithPriority
  BY <1>1, <1>2, <1>3, GoodPriority DEF WithPriority
<1>4. CASE WithTtl
  BY <1>1, <1>2, <1>4, GoodTtl, InputsAssumption DEF WithTtl
<1>5. CASE WithMethod
  BY <1>1, <1>2, <1>5, GoodMethod DEF WithMethod
<1>6. CASE WithToken
  BY <1>1, <1>2, <1>6, GoodToken DEF WithToken
<1>7. CASE WithPermissionLevel
  BY <1>1, <1>2, <1>7, GoodToken DEF WithPermissionLevel
<1>8. CASE WithCommStatus
  BY <1>1, <1>2, <1>8, GoodCommStatus DEF WithCommStatus
<1>9. CASE WithPayloadFormat
  BY <1>1, <1>2, <1>9, GoodFormat DEF WithPayloadFormat
<1> QED
  BY <1>3, <1>4, <1>5, <1>6, <1>7, <1>8, <1>9

\* build() of the builder b: the message as it is, or at another method.
LEMMA BuildKeeps ==
  ASSUME SendersInv, sender.kind # "usubscription", UNCHANGED sender,
         NEW b \in builder, NEW id \in FreshIds, NEW m,
         \/ m = Built(b, id)
         \/ /\ sender.kind \in {"application", "client"}
            /\ \E u \in Uris : m = AtMethod(Built(b, id), u),
         built' = {[msg |-> m, at |-> now]},
         UNCHANGED <<now, builder, answered, payload>>
  PROVE  SendersInv'
<1>1. now \in Nat /\ builder = {b} /\ GoodBuilder(b, sender.kind, answered, now)
  BY TheBuilder
<1>2. IsMessage(Built(b, id)) /\ GoodMessage(Built(b, id), sender.kind, answered, now)
  BY <1>1, GoodBuilt
<1>3. GoodMessage(m, sender.kind, answered, now)
  BY <1>2, GoodAtMethod
<1>4. PayloadInv'
  BY DEF SendersInv, PayloadInv
<1> QED
  BY <1>1, <1>3, <1>4, NewMessage

\* build(payload) consumes the payload, and then builds a message or throws.
LEMMA BuildWithPayloadKeeps ==
  ASSUME SendersInv, sender.kind # "usubscription", UNCHANGED sender,
         NEW b \in builder, NEW p \in Objects, NEW id \in FreshIds, NEW o \in payload[p],
         CanMove(o), payload' = [payload EXCEPT ![p] = {buildMove(o)}],
         UNCHANGED <<now, builder, answered>>,
         \/ UNCHANGED built
         \/ \E m : /\ built' = {[msg |-> m, at |-> now]}
                   /\ \/ m = BuiltWith(b, id, o.format, o.content)
                      \/ /\ sender.kind \in {"application", "client"}
                         /\ \E u \in Uris :
                               m = AtMethod(BuiltWith(b, id, o.format, o.content), u)
  PROVE  SendersInv'
<1>1. PayloadInv'
  BY ConsumeKeeps DEF SendersInv
<1>2. CASE UNCHANGED built
  BY <1>1, <1>2, NewPayload
<1>3. ASSUME NEW m, built' = {[msg |-> m, at |-> now]},
             \/ m = BuiltWith(b, id, o.format, o.content)
             \/ /\ sender.kind \in {"application", "client"}
                /\ \E u \in Uris : m = AtMethod(BuiltWith(b, id, o.format, o.content), u)
      PROVE  SendersInv'
  <2>1. now \in Nat /\ builder = {b} /\ GoodBuilder(b, sender.kind, answered, now)
    BY TheBuilder
  <2>2. o.format \in PayloadFormats /\ o.content # "emptied"
    BY DEF SendersInv, PayloadInv, CanMove
  <2> DEFINE k == BuiltWith(b, id, o.format, o.content)
  <2>3. IsMessage(k) /\ GoodMessage(k, sender.kind, answered, now)
    BY <2>1, <2>2, GoodBuiltWith
  <2> HIDE DEF k
  <2>4. GoodMessage(m, sender.kind, answered, now)
    BY <1>3, <2>3, GoodAtMethod DEF k
  <2> QED
    BY <1>1, <1>3, <2>1, <2>4, NewMessage
<1> QED
  BY <1>2, <1>3

\* What an application does.
LEMMA UseKeeps ==
  ASSUME SendersInv, Sends("application", Use)
  PROVE  SendersInv'
<1>1. sender.kind = "application" /\ Use /\ UNCHANGED sender
  BY DEF Sends
<1>2. CASE Build
  <2>1. PICK b \in builder, id \in FreshIds :
           /\ \E m \in Anywhere(Built(b, id)) : built' = {[msg |-> m, at |-> now]}
           /\ UNCHANGED <<now, builder, answered, payload>>
    BY <1>2 DEF Build, BuildTo
  <2> QED
    BY <1>1, <2>1, BuildKeeps DEF Anywhere, AsIs, ToMethod
<1>3. CASE BuildWithPayload
  <2>1. PICK b \in builder, p \in Objects, id \in FreshIds : \E o \in payload[p] :
           /\ CanMove(o)
           /\ payload' = [payload EXCEPT ![p] = {buildMove(o)}]
           /\ \/ \E m \in Anywhere(BuiltWith(b, id, o.format, o.content)) :
                    built' = {[msg |-> m, at |-> now]}
              \/ UNCHANGED built
           /\ UNCHANGED <<now, builder, answered>>
    BY <1>3 DEF BuildWithPayload, BuildWithPayloadTo
  <2> QED
    BY <1>1, <2>1, BuildWithPayloadKeeps DEF Anywhere, AsIs, ToMethod
<1> QED
  BY <1>1, <1>2, <1>3, FactoriesKeep, FluentKeeps DEF Use

\* What a Publisher, a NotificationSource and an RpcClient send.
LEMMA SendKeeps ==
  ASSUME SendersInv, Publish \/ NotifyWithPayload \/ Notify \/ Invoke \/ InvokeWithPayload
  PROVE  SendersInv'
<1>1. CASE Publish \/ NotifyWithPayload
  <2>1. sender.kind \in {"publisher", "source"} /\ UNCHANGED sender
    BY <1>1 DEF Publish, NotifyWithPayload, Sends
  <2>2. PICK b \in builder, p \in Objects, id \in FreshIds : \E o \in payload[p] :
           /\ CanMove(o)
           /\ payload' = [payload EXCEPT ![p] = {buildMove(o)}]
           /\ \/ \E m \in AsIs(BuiltWith(b, id, o.format, o.content)) :
                    built' = {[msg |-> m, at |-> now]}
              \/ UNCHANGED built
           /\ UNCHANGED <<now, builder, answered>>
    BY <1>1 DEF Publish, NotifyWithPayload, Sends, BuildWithPayloadTo
  <2> QED
    BY <2>1, <2>2, BuildWithPayloadKeeps DEF AsIs
<1>2. CASE Notify
  <2>1. sender.kind = "source" /\ UNCHANGED sender
    BY <1>2 DEF Notify, Sends
  <2>2. PICK b \in builder, id \in FreshIds :
           /\ \E m \in AsIs(Built(b, id)) : built' = {[msg |-> m, at |-> now]}
           /\ UNCHANGED <<now, builder, answered, payload>>
    BY <1>2 DEF Notify, Sends, BuildTo
  <2> QED
    BY <2>1, <2>2, BuildKeeps DEF AsIs
<1>3. CASE Invoke
  <2>1. sender.kind = "client" /\ UNCHANGED sender
    BY <1>3 DEF Invoke, Sends
  <2>2. PICK b \in builder, id \in FreshIds :
           /\ \E m \in ToMethod(Built(b, id)) : built' = {[msg |-> m, at |-> now]}
           /\ UNCHANGED <<now, builder, answered, payload>>
    BY <1>3 DEF Invoke, Sends, BuildTo
  <2> QED
    BY <2>1, <2>2, BuildKeeps DEF ToMethod
<1>4. CASE InvokeWithPayload
  <2>1. sender.kind = "client" /\ UNCHANGED sender
    BY <1>4 DEF InvokeWithPayload, Sends
  <2>2. PICK b \in builder, p \in Objects, id \in FreshIds : \E o \in payload[p] :
           /\ CanMove(o)
           /\ payload' = [payload EXCEPT ![p] = {buildMove(o)}]
           /\ \/ \E m \in ToMethod(BuiltWith(b, id, o.format, o.content)) :
                    built' = {[msg |-> m, at |-> now]}
              \/ UNCHANGED built
           /\ UNCHANGED <<now, builder, answered>>
    BY <1>4 DEF InvokeWithPayload, Sends, BuildWithPayloadTo
  <2> QED
    BY <2>1, <2>2, BuildWithPayloadKeeps DEF ToMethod
<1> QED
  BY <1>1, <1>2, <1>3, <1>4

\* invokeMethodToProto() and the operations of RpcClientUSubscription: the method has
\* passed withMethod(), so the sink of the message fits.
LEMMA InvokeToProtoKeeps ==
  ASSUME SendersInv, NEW methods, InvokeToProto(methods),
         sender.kind \in {"client", "usubscription"}, UNCHANGED sender
  PROVE  SendersInv'
<1>1. PICK b \in builder, method \in methods, id \in FreshIds :
         \E o \in {protoToPayload("data")} :
        /\ CanSetMethod(method)
        /\ builder' = {withMethod(b, method)}
        /\ \/ built' = {[msg |-> BuiltWith(withMethod(b, method), id, o.format, o.content),
                         at |-> now]}
           \/ UNCHANGED built
        /\ UNCHANGED <<now, answered, payload>>
  BY DEF InvokeToProto
<1> DEFINE c == withMethod(b, method)
           o == protoToPayload("data")
           m == BuiltWith(c, id, o.format, o.content)
<1>2. now \in Nat /\ GoodBuilder(b, sender.kind, answered, now)
  BY TheBuilder
<1>3. GoodBuilder(c, sender.kind, answered, now)
  BY <1>2, GoodMethod
<1>4. c.sink = {method} /\ c.type = "request"
  BY <1>2 DEF GoodBuilder, IsBuilder, Owned, withMethod
<1>5. SinkFits(c)
  BY <1>1, <1>4 DEF SinkFits, CanSetMethod
<1>6. o.format \in PayloadFormats /\ o.content # "emptied"
  BY DEF protoToPayload, WRAPPED_IN_ANY, PayloadFormats
<1> HIDE DEF c, o
<1>7. GoodMessage(m, sender.kind, answered, now)
  BY <1>2, <1>3, <1>5, <1>6, GoodBuiltWith
<1> HIDE DEF m
<1>8. builder' = {c} /\ (built' = {[msg |-> m, at |-> now]} \/ UNCHANGED built)
      /\ UNCHANGED <<now, answered, payload>>
  BY <1>1 DEF c, o, m
<1>9. PayloadInv'
  BY <1>8 DEF SendersInv, PayloadInv
<1> QED
  BY <1>3, <1>7, <1>8, <1>9, NewMessage, OtherBuilder

\* The constructors of the senders.
LEMMA ConstructorsKeep ==
  ASSUME SendersInv,
         NewPublisher \/ NewNotificationSource \/ NewClient \/ NewUSubscriptionClient
  PROVE  SendersInv'
<1>1. builder = {} /\ answered = {} /\ built = {}
  BY DEF NewPublisher, NewNotificationSource, NewClient, NewUSubscriptionClient, NothingYet,
         SendersInv, BuilderInv
<1>2. ASSUME NEW kind \in Kinds, NEW service, NEW b, Own(kind, service, b),
             GoodBuilder(b, kind, {}, now)
      PROVE  SendersInv'
  <2>1. /\ builder' = {b} /\ answered' = {} /\ built' = {} /\ UNCHANGED <<now, payload>>
        /\ sender' = [kind |-> kind, service |-> service]
    BY <1>1, <1>2 DEF Own
  <2>2. sender' = [kind |-> sender'.kind, service |-> sender'.service] /\ sender'.kind = kind
    BY <2>1
  <2>3. Single(answered')
    BY <2>1 DEF Single
  <2> QED
    BY <1>2, <2>1, <2>2, <2>3, NewBuilder
<1>3. ASSUME NEW kind, NEW b, GoodBuilder(b, kind, {}, now), NEW ttl \in Optional(Ttls),
             \A t \in ttl : CanSetTtl(t), NEW c \in IfAny(withTtl, b, ttl)
      PROVE  GoodBuilder(c, kind, {}, now)
  <2>1. c = b \/ \E t \in ttl : c = withTtl(b, t)
    BY <1>3 DEF IfAny
  <2>2. \A t \in ttl : t \in Nat
    BY <1>3, InputsAssumption DEF Optional
  <2> QED
    BY <1>3, <2>1, <2>2, GoodTtl
<1>4. ASSUME NEW kind, NEW b, GoodBuilder(b, kind, {}, now), NEW format,
             \A f \in format : CanSetFormat(f), NEW c \in IfAny(withPayloadFormat, b, format)
      PROVE  GoodBuilder(c, kind, {}, now)
  <2>1. c = b \/ \E f \in format : c = withPayloadFormat(b, f)
    BY <1>4 DEF IfAny
  <2> QED
    BY <1>4, <2>1, GoodFormat
<1>5. CASE NewPublisher
  <2>1. PICK topic \in Uris, format \in Formats, level \in Levels \union {CS1},
             ttl \in Optional(Ttls) :
        /\ CanPublish(topic)
        /\ CanSetFormat(format)
        /\ CanSetPriority(publish(topic), level)
        /\ \A t \in ttl : CanSetTtl(t)
        /\ \E b \in IfAny(withTtl, withPriority(withPayloadFormat(publish(topic), format),
                                               level), ttl) :
               Own("publisher", {}, b)
    BY <1>5 DEF NewPublisher
  <2> DEFINE b == withPayloadFormat(publish(topic), format)
             c == withPriority(b, level)
  <2>2. GoodBuilder(b, "publisher", {}, now)
    BY <2>1, GoodPublish, GoodFormat
  <2>3. CanSetPriority(b, level)
    BY <2>1 DEF CanSetPriority, withPayloadFormat, publish, Builder
  <2>4. GoodBuilder(c, "publisher", {}, now)
    BY <2>2, <2>3, GoodPriority
  <2> HIDE DEF c
  <2>5. PICK d \in IfAny(withTtl, c, ttl) : Own("publisher", {}, d)
    BY <2>1 DEF c
  <2>6. GoodBuilder(d, "publisher", {}, now)
    BY <2>1, <2>4, <2>5, <1>3
  <2> QED
    BY <2>5, <2>6, <1>2 DEF Kinds
<1>6. CASE NewNotificationSource
  <2>1. PICK source \in Uris, sink \in Uris, format \in Optional(Formats),
             level \in Levels \union {CS1}, ttl \in Optional(Ttls) :
        /\ CanNotify(source, sink)
        /\ CanSetPriority(notification(source, sink), level)
        /\ \A f \in format : CanSetFormat(f)
        /\ \A t \in ttl : CanSetTtl(t)
        /\ \E b \in IfAny(withPayloadFormat,
                          withPriority(notification(source, sink), level), format) :
               \E c \in IfAny(withTtl, b, ttl) : Own("source", {}, c)
    BY <1>6 DEF NewNotificationSource
  <2> DEFINE b == withPriority(notification(source, sink), level)
  <2>2. GoodBuilder(b, "source", {}, now)
    BY <2>1, GoodNotification, GoodPriority
  <2> HIDE DEF b
  <2>3. PICK c \in IfAny(withPayloadFormat, b, format) :
           \E d \in IfAny(withTtl, c, ttl) : Own("source", {}, d)
    BY <2>1 DEF b
  <2>4. GoodBuilder(c, "source", {}, now)
    BY <2>1, <2>2, <2>3, <1>4
  <2>5. PICK d \in IfAny(withTtl, c, ttl) : Own("source", {}, d)
    BY <2>3
  <2>6. GoodBuilder(d, "source", {}, now)
    BY <2>1, <2>4, <2>5, <1>3
  <2> QED
    BY <2>5, <2>6, <1>2 DEF Kinds
<1>7. ASSUME NEW entity, NEW level, NEW ttl \in Ttls, NEW format, NEW permission,
             NEW token, NEW kind \in {"client", "usubscription"}, NEW service,
             NewRpcClient(entity, level, ttl, format, permission, token, kind, service)
      PROVE  SendersInv'
  <2> DEFINE a == Builder("request", entity, {BlankUri}, {})
             b == withTtl(withPriority(a, level), ttl)
  <2>1. /\ CanTransport(entity)
        /\ CanSetPriority(a, level)
        /\ CanSetTtl(ttl)
        /\ \A f \in format : CanSetFormat(f)
        /\ \E c \in IfAny(withPayloadFormat, b, format) :
           \E d \in IfAny(withPermissionLevel, c, permission) :
           \E e \in IfAny(withToken, d, token) : Own(kind, service, e)
    BY <1>7 DEF NewRpcClient
  <2>2. ttl \in Nat /\ isEntity(entity) /\ level \in Priorities /\ level >= CS4
    BY <2>1, InputsAssumption DEF CanTransport, isDefaultEntity, CanSetPriority, Builder
  <2>3. GoodBuilder(b, kind, {}, now)
    BY <2>1, <2>2, GoodRequest
  <2> HIDE DEF b
  <2>4. PICK c \in IfAny(withPayloadFormat, b, format) :
           \E d \in IfAny(withPermissionLevel, c, permission) :
           \E e \in IfAny(withToken, d, token) : Own(kind, service, e)
    BY <2>1
  <2>5. GoodBuilder(c, kind, {}, now)
    BY <2>1, <2>3, <2>4, <1>4
  <2>6. PICK d \in IfAny(withPermissionLevel, c, permission) :
           \E e \in IfAny(withToken, d, token) : Own(kind, service, e)
    BY <2>4
  <2>7. CanSetToken(c)
    BY <2>5 DEF GoodBuilder, Owned, CanSetToken
  <2>8. d = c \/ \E x : d = withPermissionLevel(c, x)
    BY <2>6 DEF IfAny
  <2>9. GoodBuilder(d, kind, {}, now)
    BY <2>5, <2>7, <2>8, GoodToken
  <2>10. PICK e \in IfAny(withToken, d, token) : Own(kind, service, e)
    BY <2>6
  <2>11. CanSetToken(d)
    BY <2>9 DEF GoodBuilder, Owned, CanSetToken
  <2>12. e = d \/ \E x : e = withToken(d, x)
    BY <2>10 DEF IfAny
  <2>13. GoodBuilder(e, kind, {}, now)
    BY <2>9, <2>11, <2>12, GoodToken
  <2> QED
    BY <1>7, <2>10, <2>13, <1>2 DEF Kinds
<1>8. CASE NewClient
  BY <1>7, <1>8 DEF NewClient
<1>9. CASE NewUSubscriptionClient
  BY <1>7, <1>9 DEF NewUSubscriptionClient
<1> QED
  BY <1>5, <1>6, <1>8, <1>9

-------------------------------------------------------------------------------
(* The invariant, and the theorems. *)

\* At the beginning there is no builder and no message.
LEMMA InitSendersInv == SendersInit => SendersInv
<1> SUFFICES ASSUME SendersInit PROVE SendersInv
  OBVIOUS
<1>1. BuilderInv
  BY InputsAssumption DEF SendersInit, Init, BuilderInv, Kinds, Single
<1>2. BuiltInv
  BY DEF SendersInit, Init, BuiltInv, Single
<1>3. PayloadInv
  BY DEF SendersInit, Init, PayloadInv, Single
<1> QED
  BY <1>1, <1>2, <1>3 DEF SendersInv

\* Every step of every user of a builder keeps the invariant.
LEMMA NextSendersInv == SendersInv /\ [Next]_allVars => SendersInv'
<1> SUFFICES ASSUME SendersInv, [Next]_allVars PROVE SendersInv'
  OBVIOUS
<1>1. CASE UNCHANGED allVars
  <2>1. UNCHANGED <<now, builder, answered, built, payload, sender>>
    BY <1>1 DEF allVars, vars
  <2>2. PayloadInv'
    BY <2>1 DEF SendersInv, PayloadInv
  <2> QED
    BY <2>1, <2>2, NewPayload
<1>2. CASE Sends("application", Use)
  BY <1>2, UseKeeps
<1>3. CASE Environment /\ UNCHANGED sender
  BY <1>3, EnvironmentKeeps
<1>4. CASE NewPublisher \/ NewNotificationSource \/ NewClient \/ NewUSubscriptionClient
  BY <1>4, ConstructorsKeep
<1>5. CASE Publish \/ NotifyWithPayload \/ Notify \/ Invoke \/ InvokeWithPayload
  BY <1>5, SendKeeps
<1>6. CASE InvokeProto
  BY <1>6, InvokeToProtoKeeps DEF InvokeProto, Sends
<1>7. CASE CallService
  <2>1. PICK service \in sender.service :
           Sends("usubscription",
                 InvokeToProto({getServiceUriWithResourceId(service, resource) :
                                   resource \in ServiceMethods}))
    BY <1>7 DEF CallService
  <2> QED
    BY <2>1, InvokeToProtoKeeps DEF Sends
<1> QED
  BY <1>1, <1>2, <1>3, <1>4, <1>5, <1>6, <1>7 DEF Next

\* The invariant holds throughout.
LEMMA SendersInvariance == Spec => []SendersInv
  BY InitSendersInv, NextSendersInv, PTL DEF Spec

\* Every state of the builder, its messages and the Payload objects is of its type; in
\* particular no TTL outside 1..MaxTtl ever gets into a builder.
THEOREM TypeCorrect == Spec => []TypeOK
  BY SendersInvariance, InvType, PTL

\* However a builder was configured, UTransport::send() accepts what it builds until
\* the TTL has passed.
THEOREM Accepted == Spec => []BuiltIsAccepted
  BY SendersInvariance, InvAccepted, PTL

\* A message with a TTL is refused once more than its TTL has passed since build().
THEOREM Refused == Spec => []StaleIsRefused
  BY SendersInvariance, InvStale, PTL

\* getRemainingTime() and isExpired() agree in spite of their different rounding.
THEOREM RemainingTimeAgrees == Spec => []RemainingTime
  BY SendersInvariance, InvRemaining, PTL

\* A response made by response(request) passes the requester's check.
THEOREM ResponseMatches == Spec => []ResponseMatchesRequest
  BY SendersInvariance, InvMatches, PTL

\* No message carries the contents of a Payload that was consumed before.
THEOREM NothingEmptied == Spec => []PayloadIntact
  BY SendersInvariance, InvIntact, PTL

\* What a Publisher, a NotificationSource or an RpcClientUSubscription builds is
\* accepted at once, and what an RpcClient builds exactly when the method is one.
THEOREM AtOnce == Spec => []AcceptedAtOnce
  BY SendersInvariance, InvAtOnce, PTL

-------------------------------------------------------------------------------
(* Texts, digit by digit.  A set of numbers has a least one, which gives     *)
(* induction over the positions of a text.                                   *)

\* A set of natural numbers has a least element.
LEMMA Least ==
  ASSUME NEW S \in SUBSET Nat, S # {}
  PROVE  \E n \in S : \A m \in S : n <= m
<1> DEFINE R == OpToRel(<, Nat)
<1>1. PICK x \in S : \A y \in S : ~(<<y, x>> \in R)
  BY WFMin, NatLessThanWellFounded
<1>2. \A y \in S : y \in Nat /\ (y < x => <<y, x>> \in R)
  BY DEF OpToRel
<1> HIDE DEF R
<1>3. ASSUME NEW y \in S PROVE x <= y
  <2>1. ~(y < x)
    BY <1>1, <1>2
  <2> QED
    BY <2>1
<1> QED
  BY <1>3

\* Induction: a set that contains a number up to n whenever it contains all smaller
\* ones contains all numbers up to n.
LEMMA UpTo ==
  ASSUME NEW n \in Nat, NEW Good, \A m \in 0..n : (\A k \in 0..(m - 1) : k \in Good) => m \in Good
  PROVE  \A m \in 0..n : m \in Good
<1> DEFINE Bad == {m \in 0..n : m \notin Good}
<1> SUFFICES ASSUME Bad # {} PROVE FALSE
  OBVIOUS
<1>1. Bad \in SUBSET Nat
  OBVIOUS
<1> HIDE DEF Bad
<1>2. PICK m \in Bad : \A k \in Bad : m <= k
  BY <1>1, Least
<1>3. m \in 0..n /\ m \notin Good
  BY DEF Bad
<1>4. ASSUME NEW k \in 0..(m - 1) PROVE k \in Good
  <2>1. k \in 0..n /\ ~(m <= k)
    BY <1>3
  <2> QED
    BY <1>2, <2>1 DEF Bad
<1> QED
  BY <1>3, <1>4

\* A function that is given at 0 and by each value for the next one exists.
LEMMA Recursion ==
  ASSUME NEW m \in Nat, NEW a \in Nat, NEW step \in [1..m -> [Nat -> Nat]]
  PROVE  \E g \in [0..m -> Nat] :
            g[0] = a /\ \A k \in 1..m : g[k] = step[k][g[k - 1]]
<1> DEFINE Follows(g, n) == g[0] = a /\ \A k \in 1..n : g[k] = step[k][g[k - 1]]
           Good == {n \in 0..m : \E g \in [0..n -> Nat] : Follows(g, n)}
<1>1. ASSUME NEW n \in 0..m, \A k \in 0 .. n - 1 : k \in Good PROVE n \in Good
  <2>1. CASE n = 0
    <3> DEFINE g == [k \in 0..0 |-> a]
    <3>1. g \in [0..n -> Nat] /\ Follows(g, n)
      BY <2>1
    <3> QED
      BY <3>1
  <2>2. CASE n # 0
    <3>0. n - 1 \in 0 .. n - 1
      BY <2>2
    <3>1. n - 1 \in Good
      BY <1>1, <3>0
    <3>2. PICK g \in [0 .. n - 1 -> Nat] : Follows(g, n - 1)
      BY <3>1
    <3>3. n \in 1..m /\ g[n - 1] \in Nat
      BY <2>2
    <3>4. step[n][g[n - 1]] \in Nat
      BY <3>3
    <3> DEFINE h == [k \in 0..n |-> IF k < n THEN g[k] ELSE step[n][g[n - 1]]]
    <3>8. \A k \in 0..n : k < n => g[k] \in Nat
      OBVIOUS
    <3>5. h \in [0..n -> Nat]
      BY <3>4, <3>8
    <3>6. h[0] = a
      BY <2>2, <3>2
    <3>7. ASSUME NEW k \in 1..n PROVE h[k] = step[k][h[k - 1]]
      <4>1. h[k - 1] = g[k - 1]
        OBVIOUS
      <4>4. h[n] = step[n][g[n - 1]]
        OBVIOUS
      <4>2. CASE k < n
        <5>1. h[k] = g[k] /\ k \in 1 .. n - 1
          BY <4>2
        <5> QED
          BY <3>2, <4>1, <5>1
      <4>3. CASE k = n
        BY <4>1, <4>3, <4>4
      <4> QED
        BY <4>2, <4>3
    <3> HIDE DEF h
    <3> QED
      BY <3>5, <3>6, <3>7
  <2> QED
    BY <2>1, <2>2
<1>2. m \in Good
  <2> HIDE DEF Good
  <2>1. \A n \in 0..m : n \in Good
    BY <1>1, UpTo
  <2> QED
    BY <2>1
<1> QED
  BY <1>2

\* The recursion of Rest defines a function: division, again and again.
LEMMA RestDefined ==
  ASSUME NEW n \in Nat, NEW base \in Nat \ {0}
  PROVE  /\ Rest(n, base) \in [0..16 -> Nat]
         /\ Rest(n, base)[0] = n
         /\ \A k \in 1..16 : Rest(n, base)[k] = Rest(n, base)[k - 1] \div base
<1> DEFINE Eq(g) == g = [k \in 0..16 |-> IF k = 0 THEN n ELSE g[k - 1] \div base]
           step == [k \in 1..16 |-> [x \in Nat |-> x \div base]]
           R == Rest(n, base)
<1>1. \A x \in Nat : x \div base \in Nat
  BY Split
<1>2. step \in [1..16 -> [Nat -> Nat]]
  BY <1>1
<1>3. PICK g \in [0..16 -> Nat] : g[0] = n /\ \A k \in 1..16 : g[k] = step[k][g[k - 1]]
  <2>1. 16 \in Nat
    OBVIOUS
  <2> HIDE DEF step
  <2> QED
    BY <1>2, <2>1, Recursion
<1>4. ASSUME NEW k \in 0..16 PROVE g[k] = IF k = 0 THEN n ELSE g[k - 1] \div base
  <2>1. CASE k # 0
    <3>2. k \in 1..16 /\ k - 1 \in 0..16
      BY <2>1
    <3>1. k \in 1..16 /\ g[k - 1] \in Nat
      BY <3>2
    <3> QED
      BY <1>3, <2>1, <3>1
  <2> QED
    BY <1>3, <2>1
<1>5. Eq(g)
  BY <1>4
<1>6. R = CHOOSE h : Eq(h)
  BY DEF Rest
<1>7. Eq(R)
  <2> HIDE DEF Eq, R
  <2> QED
    BY <1>5, <1>6
<1> HIDE DEF R
<1>8. R[0] = n /\ \A k \in 1..16 : R[k] = R[k - 1] \div base
  BY <1>7
<1>9. \A k \in 0..16 : R[k] \in Nat
  <2> DEFINE Good == {k \in 0..16 : R[k] \in Nat}
  <2>1. ASSUME NEW m \in 0..16, \A k \in 0 .. m - 1 : k \in Good PROVE m \in Good
    <3>1. CASE m = 0
      BY <1>8, <3>1
    <3>2. CASE m # 0
      <4>1. m - 1 \in Good /\ m \in 1..16
        BY <2>1, <3>2
      <4>2. R[m - 1] \in Nat
        BY <4>1
      <4> QED
        BY <1>1, <1>8, <4>1, <4>2
    <3> QED
      BY <3>1, <3>2
  <2> HIDE DEF Good
  <2>2. \A m \in 0..16 : m \in Good
    BY <2>1, UpTo
  <2> QED
    BY <2>2 DEF Good
<1> QED
  BY <1>7, <1>8, <1>9 DEF R

\* So does that of Number.
LEMMA NumberDefined ==
  ASSUME NEW d \in Seq(Nat), NEW base \in Nat
  PROVE  \E g : /\ g[0] = 0
                /\ \A k \in 1..Len(d) : g[k] = base * g[k - 1] + d[k]
                /\ Number(d, base) = g[Len(d)]
<1> DEFINE Eq(g) == g = [k \in 0..Len(d) |-> IF k = 0 THEN 0 ELSE base * g[k - 1] + d[k]]
           step == [k \in 1..Len(d) |-> [x \in Nat |-> base * x + d[k]]]
           R == CHOOSE g : Eq(g)
<1>1. Len(d) \in Nat /\ \A k \in 1..Len(d) : d[k] \in Nat
  OBVIOUS
<1>2. step \in [1..Len(d) -> [Nat -> Nat]]
  <2>1. \A k \in 1..Len(d) : \A x \in Nat : base * x + d[k] \in Nat
    BY <1>1
  <2> QED
    BY <2>1
<1>3. PICK g \in [0..Len(d) -> Nat] :
         g[0] = 0 /\ \A k \in 1..Len(d) : g[k] = step[k][g[k - 1]]
  <2> HIDE DEF step
  <2>1. 0 \in Nat /\ Len(d) \in Nat
    BY <1>1
  <2> QED
    BY <1>2, <2>1, Recursion, Zenon
<1>4. ASSUME NEW k \in 0..Len(d) PROVE g[k] = IF k = 0 THEN 0 ELSE base * g[k - 1] + d[k]
  <2>1. CASE k # 0
    <3>2. k \in 1..Len(d) /\ k - 1 \in 0..Len(d)
      BY <1>1, <2>1
    <3>1. k \in 1..Len(d) /\ g[k - 1] \in Nat
      BY <3>2
    <3> QED
      BY <1>3, <2>1, <3>1
  <2> QED
    BY <1>3, <2>1
<1>5. Eq(g)
  BY <1>4
<1>6. Eq(R)
  <2> HIDE DEF Eq
  <2> QED
    BY <1>5
<1>7. Number(d, base) = R[Len(d)]
  BY DEF Number
<1> HIDE DEF R
<1>8. R[0] = 0 /\ \A k \in 1..Len(d) : R[k] = base * R[k - 1] + d[k]
  <2>1. R = [k \in 0..Len(d) |-> IF k = 0 THEN 0 ELSE base * R[k - 1] + d[k]]
    BY <1>6, Zenon
  <2>2. 0 \in 0..Len(d) /\ \A k \in 1..Len(d) : k \in 0..Len(d) /\ k # 0
    BY <1>1
  <2> QED
    BY <2>1, <2>2, Zenon
<1> QED
  BY <1>7, <1>8

\* A number is what its digits stand for, if they are enough.
LEMMA NumberOfDigits ==
  ASSUME NEW n \in Nat, NEW base \in Nat \ {0}, NEW len \in 0..16, Rest(n, base)[len] = 0
  PROVE  /\ Digits(n, base, len) \in [1..len -> 0 .. base - 1]
         /\ Number(Digits(n, base, len), base) = n
<1> DEFINE R == Rest(n, base)
           d == Digits(n, base, len)
<1>1. /\ R \in [0..16 -> Nat] /\ R[0] = n /\ R[len] = 0
      /\ \A k \in 1..16 : R[k] = R[k - 1] \div base
  BY RestDefined
<1>2. d = [i \in 1..len |-> R[len - i] % base]
  BY DEF Digits
<1> HIDE DEF R, d
<1>3. ASSUME NEW k \in 0 .. 15
      PROVE  R[k] % base \in 0 .. base - 1 /\ R[k] = base * R[k + 1] + (R[k] % base)
  <2>1. R[k] \in Nat /\ R[k + 1] = R[k] \div base
    BY <1>1
  <2>2. R[k] % base \in 0 .. base - 1 /\ R[k] = (R[k] \div base) * base + (R[k] % base)
    BY <2>1, Split
  <2>3. (R[k] \div base) * base = base * (R[k] \div base)
    BY <2>1
  <2> QED
    BY <2>1, <2>2, <2>3
<1>4. d \in [1..len -> 0 .. base - 1]
  <2>1. \A i \in 1..len : len - i \in 0..15
    OBVIOUS
  <2> QED
    BY <1>2, <1>3, <2>1
<1>5. d \in Seq(Nat) /\ Len(d) = len
  BY <1>4
<1>6. PICK g : /\ g[0] = 0
               /\ \A k \in 1..len : g[k] = base * g[k - 1] + d[k]
               /\ Number(d, base) = g[len]
  <2>1. base \in Nat
    OBVIOUS
  <2>2. PICK g : /\ g[0] = 0
                 /\ \A k \in 1..Len(d) : g[k] = base * g[k - 1] + d[k]
                 /\ Number(d, base) = g[Len(d)]
    BY <1>5, <2>1, NumberDefined, Zenon
  <2> QED
    BY <1>5, <2>2, Zenon
<1> DEFINE Good == {k \in 0..len : g[k] = R[len - k]}
<1>7. ASSUME NEW m \in 0..len, \A k \in 0 .. m - 1 : k \in Good PROVE m \in Good
  <2>1. CASE m = 0
    BY <1>1, <1>6, <2>1
  <2>2. CASE m # 0
    <3>1. m - 1 \in Good /\ m \in 1..len
      BY <1>7, <2>2
    <3>2. g[m - 1] = R[(len - m) + 1] /\ len - m \in 0..15
      BY <3>1
    <3>3. d[m] = R[len - m] % base
      BY <1>2, <3>1
    <3>4. g[m] = base * g[m - 1] + d[m]
      BY <1>6, <3>1
    <3>5. R[len - m] = base * R[(len - m) + 1] + (R[len - m] % base)
      BY <1>3, <3>2
    <3> QED
      BY <3>2, <3>3, <3>4, <3>5
  <2> QED
    BY <2>1, <2>2
<1>8. len \in Good
  <2> HIDE DEF Good
  <2> QED
    BY <1>7, UpTo
<1>9. g[len] = n
  BY <1>1, <1>8
<1> QED
  BY <1>4, <1>6, <1>9 DEF d

-------------------------------------------------------------------------------
(* Hexadecimal numbers. *)

\* A text of hexadecimal digits
HexText == Seq(DOMAIN Digit)

\* The least number of a set is its minimum.
LEMMA MinIs ==
  ASSUME NEW S \in SUBSET Nat, NEW x \in S, \A y \in S : x <= y
  PROVE  Min(S) = x
<1>1. \A z \in S : (\A y \in S : z <= y) => z = x
  OBVIOUS
<1> QED
  BY <1>1 DEF Min

\* The greatest number of a set is its maximum.
LEMMA MaxIs ==
  ASSUME NEW S \in SUBSET Nat, NEW x \in S, \A y \in S : y <= x
  PROVE  Max(S) = x
<1>1. \A z \in S : (\A y \in S : y <= z) => z = x
  OBVIOUS
<1> QED
  BY <1>1 DEF Max

\* Reading a digit undoes writing it, in either case, and no digit is a separator.
LEMMA DigitOf ==
  ASSUME NEW digits \in {Lower, Upper}, NEW v \in 0..15
  PROVE  /\ digits[v + 1] \in DOMAIN Digit
         /\ Digit[digits[v + 1]] = v
         /\ v # 0 => digits[v + 1] # "0"
<1> DEFINE c == digits[v + 1]
           place == CHOOSE d \in 1..16 : c \in {Lower[d], Upper[d]}
<1>1. v + 1 \in 1..16 /\ v + 1 \in DOMAIN Lower /\ v + 1 \in DOMAIN Upper
  BY DEF Lower, Upper
<1>2. c \in {Lower[v + 1], Upper[v + 1]}
  OBVIOUS
<1>3. c \in ToSet(Lower) \union ToSet(Upper)
  BY <1>1, <1>2 DEF ToSet
<1>4. ASSUME NEW d \in 1..16, c \in {Lower[d], Upper[d]} PROVE d = v + 1
  BY <1>2, <1>4 DEF Lower, Upper
<1>5. place = v + 1
  <2> HIDE DEF c
  <2> QED
    BY <1>1, <1>2, <1>4
<1>6. DOMAIN Digit = ToSet(Lower) \union ToSet(Upper)
  BY DEF Digit
<1>7. Digit[c] = place - 1
  BY <1>3 DEF Digit
<1>8. v # 0 => c # "0"
  BY <1>2 DEF Lower, Upper
<1> HIDE DEF place
<1>9. Digit[c] = v
  BY <1>5, <1>7
<1> QED
  BY <1>3, <1>6, <1>8, <1>9

\* A separator is no digit.
LEMMA NoSeparator ==
  ASSUME NEW c \in DOMAIN Digit
  PROVE  c \notin {"-", "/", "u"}
<1>1. c \in ToSet(Lower) \union ToSet(Upper)
  BY DEF Digit
<1>2. PICK d \in 1..16 : c \in {Lower[d], Upper[d]}
  BY <1>1 DEF ToSet, Lower, Upper
<1> QED
  BY <1>2 DEF Lower, Upper

\* What is written for n has len digits, the first of them as it should be, and is read
\* as n.
Reads(n, width, digits, len) ==
    /\ Hex(n, width, digits) \in HexText
    /\ Len(Hex(n, width, digits)) = len
    /\ Value(Hex(n, width, digits)) = n
    /\ Hex(n, width, digits)[1] = digits[(Rest(n, 16)[len - 1] % 16) + 1]

\* A number that is written has as many digits as it needs, but at least width, and
\* is read as itself.
LEMMA HexReads ==
  ASSUME NEW n \in Nat, NEW width \in 1..16, NEW digits \in {Lower, Upper},
         NEW len \in width..16, Rest(n, 16)[len] = 0,
         \A k \in width .. len - 1 : Rest(n, 16)[k] # 0
  PROVE  Reads(n, width, digits, len)
<1> DEFINE S == {k \in width..16 : Rest(n, 16)[k] = 0}
           d == Digits(n, 16, len)
           h == Hex(n, width, digits)
<1>1. Min(S) = len
  <2>1. S \in SUBSET Nat /\ len \in S
    OBVIOUS
  <2>2. ASSUME NEW y \in S PROVE len <= y
    OBVIOUS
  <2> HIDE DEF S
  <2> QED
    BY <2>1, <2>2, MinIs
<1>2. h = [i \in 1..len |-> digits[d[i] + 1]]
  BY <1>1 DEF Hex
<1>3. d \in [1..len -> 0..15] /\ Number(d, 16) = n
  <2>1. 16 \in Nat \ {0} /\ len \in 0..16
    OBVIOUS
  <2>2. d \in [1..len -> 0 .. 16 - 1] /\ Number(d, 16) = n
    BY <2>1, NumberOfDigits
  <2> QED
    BY <2>2
<1>4. d[1] = Rest(n, 16)[len - 1] % 16
  BY DEF Digits
<1> HIDE DEF d, h
<1>5. \A i \in 1..len : h[i] \in DOMAIN Digit /\ Digit[h[i]] = d[i]
  BY <1>2, <1>3, DigitOf
<1>6. h \in [1..len -> DOMAIN Digit]
  BY <1>2, <1>5
<1>7. h \in HexText /\ Len(h) = len /\ DOMAIN h = 1..len
  BY <1>6 DEF HexText
<1>8. [i \in DOMAIN h |-> Digit[h[i]]] = d
  BY <1>3, <1>5, <1>7
<1>9. Value(h) = n
  BY <1>3, <1>8 DEF Value
<1>10. h[1] = digits[(Rest(n, 16)[len - 1] % 16) + 1]
  BY <1>2, <1>4
<1> QED
  BY <1>7, <1>9, <1>10 DEF Reads, h

\* A number that fits is written with exactly width digits.
LEMMA HexFits ==
  ASSUME NEW n \in Nat, NEW width \in 1..16, NEW digits \in {Lower, Upper},
         Rest(n, 16)[width] = 0
  PROVE  /\ Hex(n, width, digits) \in HexText
         /\ Len(Hex(n, width, digits)) = width
         /\ Value(Hex(n, width, digits)) = n
<1>1. width \in width..16 /\ \A k \in width .. width - 1 : Rest(n, 16)[k] # 0
  OBVIOUS
<1>2. Reads(n, width, digits, width)
  BY <1>1, HexReads, Zenon
<1> QED
  BY <1>2 DEF Reads

\* A text of digits starts with all of them.
LEMMA LeadingAll ==
  ASSUME NEW s \in HexText
  PROVE  Leading(s) = s
<1> DEFINE S == {n \in 0..Len(s) : \A i \in 1..n : isHex(s[i])}
<1>1. Len(s) \in Nat /\ \A i \in 1..Len(s) : isHex(s[i])
  BY DEF HexText, isHex
<1>2. S \in SUBSET Nat /\ Len(s) \in S /\ \A y \in S : y <= Len(s)
  BY <1>1
<1>3. Max(S) = Len(s)
  <2> HIDE DEF S
  <2> QED
    BY <1>2, MaxIs
<1>4. Leading(s) = SubSeq(s, 1, Len(s))
  BY <1>3 DEF Leading
<1> QED
  BY <1>4, SubSeqFull DEF HexText

-------------------------------------------------------------------------------
(* UUIDs as text and as bytes. *)

\* A text s is found in t behind the first o characters.
Holds(t, o, s) == \A i \in 1..Len(s) : t[o + i] = s[i]

\* A text is found in another one that it was appended to, and what was found there
\* before is found there still.
LEMMA HoldsConcat ==
  ASSUME NEW S, NEW s \in Seq(S), NEW x \in Seq(S)
  PROVE  /\ s \o x \in Seq(S) /\ Len(s \o x) = Len(s) + Len(x)
         /\ Holds(s \o x, Len(s), x)
         /\ \A o \in Nat, h \in Seq(S) :
               Holds(s, o, h) /\ o + Len(h) <= Len(s) => Holds(s \o x, o, h)
<1> DEFINE u == s \o x
<1>1. Len(s) \in Nat /\ Len(x) \in Nat
  OBVIOUS
<1>2. /\ u \in Seq(S) /\ Len(u) = Len(s) + Len(x)
      /\ \A i \in 1 .. Len(s) + Len(x) : u[i] = IF i <= Len(s) THEN s[i] ELSE x[i - Len(s)]
  BY ConcatProperties
<1> HIDE DEF u
<1>3. ASSUME NEW i \in 1..Len(x) PROVE u[Len(s) + i] = x[i]
  <2>1. /\ Len(s) + i \in 1 .. Len(s) + Len(x) /\ ~(Len(s) + i <= Len(s))
        /\ (Len(s) + i) - Len(s) = i
    BY <1>1
  <2> QED
    BY <1>2, <2>1
<1>4. ASSUME NEW o \in Nat, NEW h \in Seq(S), Holds(s, o, h), o + Len(h) <= Len(s),
             NEW i \in 1..Len(h)
      PROVE  u[o + i] = h[i]
  <2>1. Len(h) \in Nat
    OBVIOUS
  <2>2. o + i \in 1 .. Len(s) + Len(x) /\ o + i <= Len(s)
    BY <1>1, <1>4, <2>1
  <2>3. u[o + i] = s[o + i]
    BY <1>2, <2>2
  <2> QED
    BY <1>4, <2>3 DEF Holds
<1> QED
  BY <1>2, <1>3, <1>4 DEF u, Holds

\* What a text holds from some place on can be cut out of it.
LEMMA Cut ==
  ASSUME NEW S, NEW t \in Seq(S), NEW s \in Seq(S), NEW o \in Nat, NEW e \in Nat,
         e = o + Len(s), e <= Len(t), Holds(t, o, s)
  PROVE  SubSeq(t, o + 1, e) = s
<1> DEFINE u == SubSeq(t, o + 1, e)
<1>1. Len(s) \in Nat /\ Len(t) \in Nat
  OBVIOUS
<1>2. o + 1 \in Int /\ e \in Int /\ \A i \in o + 1 .. e : t[i] \in S
  BY <1>1
<1>3. /\ u \in Seq(S) /\ Len(u) = IF o + 1 <= e THEN e - (o + 1) + 1 ELSE 0
      /\ \A i \in 1 .. e - (o + 1) + 1 : u[i] = t[(o + 1) + i - 1]
  BY <1>2, SubSeqProperties
<1> HIDE DEF u
<1>4. Len(u) = Len(s)
  BY <1>1, <1>3
<1>5. ASSUME NEW i \in 1..Len(u) PROVE u[i] = s[i]
  <2>1. i \in 1 .. e - (o + 1) + 1 /\ i \in 1..Len(s) /\ (o + 1) + i - 1 = o + i
    BY <1>1, <1>4
  <2> QED
    BY <1>3, <2>1 DEF Holds
<1>6. u = s
  BY <1>3, <1>4, <1>5, SeqEqual
<1> QED
  BY <1>6 DEF u

\* The first k of some texts, one behind the other.
Placed(t, k, p, pos) ==
    /\ Len(t) = pos[k + 1]
    /\ \A j \in 1..k : pos[j] + Len(p[j]) <= Len(t) /\ Holds(t, pos[j], p[j])

\* Texts, and where each of them begins if they are put together.
Laid(S, n, p, pos) ==
    /\ p \in [1..n -> Seq(S)]
    /\ pos \in [1 .. n + 1 -> Nat]
    /\ pos[1] = 0
    /\ \A j \in 1..n : pos[j + 1] = pos[j] + Len(p[j])

\* The first piece of a text is a text of one piece.
LEMMA PlacedFirst ==
  ASSUME NEW S, NEW n \in Nat, n # 0, NEW p, NEW pos, Laid(S, n, p, pos)
  PROVE  p[1] \in Seq(S) /\ Placed(p[1], 1, p, pos)
<1>1. p[1] \in Seq(S) /\ pos[1] = 0 /\ pos[1 + 1] = pos[1] + Len(p[1])
  <2>1. 1 \in 1..n
    OBVIOUS
  <2> QED
    BY <2>1 DEF Laid
<1>2. Len(p[1]) \in Nat
  BY <1>1
<1>3. Holds(p[1], 0, p[1])
  <2>1. \A i \in 1..Len(p[1]) : 0 + i = i
    BY <1>2
  <2> QED
    BY <2>1 DEF Holds
<1>4. \A j \in 1..1 : j = 1
  OBVIOUS
<1> QED
  BY <1>1, <1>2, <1>3, <1>4 DEF Placed

\* Another piece is put behind the others.
LEMMA PlacedNext ==
  ASSUME NEW S, NEW n \in Nat, NEW p, NEW pos, Laid(S, n, p, pos),
         NEW k \in 1 .. n - 1, NEW t \in Seq(S), Placed(t, k, p, pos)
  PROVE  t \o p[k + 1] \in Seq(S) /\ Placed(t \o p[k + 1], k + 1, p, pos)
<1> DEFINE x == p[k + 1]
           u == t \o x
<1>1. k + 1 \in 1..n /\ \A j \in 1..k : j \in 1..n /\ j \in 1 .. n + 1
  OBVIOUS
<1>2. x \in Seq(S) /\ pos[k + 1] \in Nat /\ pos[(k + 1) + 1] = pos[k + 1] + Len(x)
  <2>1. k + 1 \in 1 .. n + 1
    OBVIOUS
  <2> QED
    BY <1>1, <2>1 DEF Laid
<1>3. \A j \in 1..k : pos[j] \in Nat /\ p[j] \in Seq(S)
  BY <1>1 DEF Laid
<1> HIDE DEF x
<1>4. /\ u \in Seq(S) /\ Len(u) = Len(t) + Len(x)
      /\ Holds(u, Len(t), x)
      /\ \A o \in Nat, h \in Seq(S) : Holds(t, o, h) /\ o + Len(h) <= Len(t) => Holds(u, o, h)
  BY <1>2, HoldsConcat
<1>5. Len(t) = pos[k + 1] /\ Len(t) \in Nat /\ Len(x) \in Nat
  BY <1>2 DEF Placed
<1> HIDE DEF u
<1>6. Len(u) = pos[(k + 1) + 1]
  BY <1>2, <1>4, <1>5
<1>7. ASSUME NEW j \in 1..k PROVE pos[j] + Len(p[j]) <= Len(u) /\ Holds(u, pos[j], p[j])
  <2>1. pos[j] + Len(p[j]) <= Len(t) /\ Holds(t, pos[j], p[j])
    BY DEF Placed
  <2>2. Len(p[j]) \in Nat
    BY <1>3
  <2>3. pos[j] \in Nat /\ p[j] \in Seq(S)
    BY <1>3
  <2>4. ASSUME NEW a \in Nat, NEW b \in Nat, NEW c \in Nat, a <= b PROVE a <= b + c
    BY <2>4
  <2>5. pos[j] + Len(p[j]) \in Nat
    BY <2>2, <2>3
  <2>6. pos[j] + Len(p[j]) <= Len(u)
    BY <1>4, <1>5, <2>1, <2>4, <2>5, Zenon
  <2> QED
    BY <1>4, <2>1, <2>3, <2>6, Zenon
<1>8. pos[k + 1] + Len(p[k + 1]) <= Len(u) /\ Holds(u, pos[k + 1], p[k + 1])
  BY <1>4, <1>5 DEF x
<1>9. ASSUME NEW j \in 1 .. k + 1 PROVE pos[j] + Len(p[j]) <= Len(u) /\ Holds(u, pos[j], p[j])
  <2>1. j \in 1..k \/ j = k + 1
    OBVIOUS
  <2> QED
    BY <1>7, <1>8, <2>1
<1> QED
  BY <1>4, <1>6, <1>9 DEF Placed, u, x

\* Each of the texts can be cut out again.
LEMMA PlacedCut ==
  ASSUME NEW S, NEW n \in Nat, NEW p, NEW pos, Laid(S, n, p, pos),
         NEW t \in Seq(S), Placed(t, n, p, pos), NEW j \in 1..n
  PROVE  SubSeq(t, pos[j] + 1, pos[j] + Len(p[j])) = p[j]
<1>1. p[j] \in Seq(S) /\ pos[j] \in Nat
  BY DEF Laid
<1>2. Len(p[j]) \in Nat
  BY <1>1
<1>3. pos[j] + Len(p[j]) \in Nat /\ pos[j] + Len(p[j]) <= Len(t) /\ Holds(t, pos[j], p[j])
  BY <1>1, <1>2 DEF Placed
<1> QED
  BY <1>1, <1>3, Cut

\* Every group of a UUID fits into its digits.
LEMMA GroupsFit ==
  ASSUME NEW w \in Words
  PROVE  LET g == Groups(w)
         IN  /\ g.time_high \in 0 .. TimeHigh - 1
             /\ g.time_low \in 0 .. TimeLow - 1
             /\ g.version \in 0 .. Versions * RandomA - 1
             /\ g.variant \in 0 .. Variants * RandomBHigh - 1
             /\ g.random \in 0 .. Timestamps - 1
<1> DEFINE time == getUuidTimestamp(w)
           random == w.lsb % RandomB
           version == internalGetVersion(w)
           variant == internalGetVariant(w)
<1>1. w.msb \in Nat /\ w.lsb \in Nat
  BY Radices DEF Words
<1>2. /\ w.msb \div RandomA \in Nat /\ w.msb % RandomA \in 0 .. RandomA - 1
      /\ w.lsb \div RandomB \in Nat /\ random \in Nat
  <2>1. RandomA \in Nat \ {0} /\ RandomB \in Nat \ {0}
    BY Radices
  <2>2. w.msb \div RandomA \in Nat /\ w.msb % RandomA \in 0 .. RandomA - 1
    BY <1>1, <2>1, Split, Zenon
  <2>3. w.lsb \div RandomB \in Nat /\ w.lsb % RandomB \in 0 .. RandomB - 1
    BY <1>1, <2>1, Split, Zenon
  <2> QED
    BY <2>1, <2>2, <2>3
<1>3. version \in 0 .. Versions - 1 /\ variant \in 0 .. Variants - 1 /\ time \in Nat
  <2>1. Versions \in Nat \ {0} /\ Variants \in Nat \ {0} /\ Timestamps \in Nat \ {0}
    BY Radices
  <2>2. /\ (w.msb \div RandomA) \div Versions \in Nat
        /\ (w.msb \div RandomA) % Versions \in 0 .. Versions - 1
    BY <1>2, <2>1, Split, Zenon
  <2>3. (w.lsb \div RandomB) % Variants \in 0 .. Variants - 1
    BY <1>2, <2>1, Split, Zenon
  <2>4. ((w.msb \div RandomA) \div Versions) % Timestamps \in Nat
    BY <2>1, <2>2
  <2> QED
    BY <1>2, <2>2, <2>3, <2>4 DEF internalGetVersion, internalGetVariant, getUuidTimestamp
<1> HIDE DEF time, random, version, variant
<1>4. random \div Timestamps \in Nat /\ random % Timestamps \in 0 .. Timestamps - 1
  BY <1>2, Split, Radices
<1>5. (random \div Timestamps) % RandomBHigh \in 0 .. RandomBHigh - 1
  BY <1>4, Split, Radices
<1>6. time \div TimeLow \in Nat /\ time % TimeLow \in 0 .. TimeLow - 1
  BY <1>3, Split, Radices
<1>7. (time \div TimeLow) % TimeHigh \in 0 .. TimeHigh - 1
  BY <1>6, Split, Radices
<1>8. version * RandomA + (w.msb % RandomA) \in 0 .. Versions * RandomA - 1
  <2>1. Versions \in Nat \ {0} /\ RandomA \in Nat \ {0} /\ w.msb % RandomA \in 0 .. RandomA - 1
    BY <1>2, Radices
  <2> QED
    BY <1>3, <2>1, JoinBound, Zenon
<1>9. variant * RandomBHigh + ((random \div Timestamps) % RandomBHigh)
         \in 0 .. Variants * RandomBHigh - 1
  <2>1. Variants \in Nat \ {0} /\ RandomBHigh \in Nat \ {0}
    BY Radices
  <2> QED
    BY <1>3, <1>5, <2>1, JoinBound, Zenon
<1> QED
  BY <1>4, <1>6, <1>7, <1>8, <1>9 DEF Groups, time, random, version, variant

\* The position of the groups, as the code computes them.
LEMMA Layout ==
  /\ \A k \in 1..5 : Widths[k] \in 1..16
  /\ Offset[1] = 0 /\ Offset[2] = Widths[1] + 1 /\ Offset[3] = Offset[2] + Widths[2] + 1
  /\ Offset[4] = Offset[3] + Widths[3] + 1 /\ Offset[5] = Offset[4] + Widths[4] + 1
  /\ TotalLength = Offset[5] + Widths[5]
<1>1. \A k \in 1..5 : Widths[k] \in 1..16
  BY WidthsAssumption
<1>2. Widths[1] \in Nat /\ Widths[2] \in Nat /\ Widths[3] \in Nat /\ Widths[4] \in Nat
  BY <1>1
<1> QED
  BY <1>1, <1>2 DEF Offset, TotalLength

\* The pieces of a UUID's text, and where they begin.
Pieces(w) ==
    LET g == Groups(w)
    IN  <<Hex(g.time_high, Widths[1], Lower), <<"-">>,
          Hex(g.time_low, Widths[2], Lower), <<"-">>,
          Hex(g.version, Widths[3], Lower), <<"-">>,
          Hex(g.variant, Widths[4], Lower), <<"-">>,
          Hex(g.random, Widths[5], Lower)>>
PiecesBegin ==
    <<0, Offset[2] - 1, Offset[2], Offset[3] - 1, Offset[3], Offset[4] - 1, Offset[4],
      Offset[5] - 1, Offset[5], TotalLength>>
UuidChars == DOMAIN Digit \union {"-"}

\* Every group has exactly its digits, and is read as itself.
LEMMA GroupTexts ==
  ASSUME NEW w \in Words
  PROVE  LET p == Pieces(w)
             g == Groups(w)
         IN  /\ p[1] \in HexText /\ Len(p[1]) = Widths[1] /\ Value(p[1]) = g.time_high
             /\ p[3] \in HexText /\ Len(p[3]) = Widths[2] /\ Value(p[3]) = g.time_low
             /\ p[5] \in HexText /\ Len(p[5]) = Widths[3] /\ Value(p[5]) = g.version
             /\ p[7] \in HexText /\ Len(p[7]) = Widths[4] /\ Value(p[7]) = g.variant
             /\ p[9] \in HexText /\ Len(p[9]) = Widths[5] /\ Value(p[9]) = g.random
<1> DEFINE g == Groups(w)
           Good(n, k) == LET h == Hex(n, Widths[k], Lower)
                         IN  h \in HexText /\ Len(h) = Widths[k] /\ Value(h) = n
<1>1. ASSUME NEW n \in Nat, NEW k \in 1..5, Rest(n, 16)[Widths[k]] = 0
      PROVE  Good(n, k)
  <2>1. Widths[k] \in 1..16 /\ Lower \in {Lower, Upper}
    BY Layout
  <2> QED
    BY <1>1, <2>1, HexFits, Zenon
<1> HIDE DEF Good
<1>2. /\ g.time_high \in 0 .. TimeHigh - 1 /\ g.time_low \in 0 .. TimeLow - 1
      /\ g.version \in 0 .. Versions * RandomA - 1
      /\ g.variant \in 0 .. Variants * RandomBHigh - 1
      /\ g.random \in 0 .. Timestamps - 1
  BY GroupsFit
<1> HIDE DEF g
<1>3. /\ g.time_high \in Nat /\ g.time_low \in Nat /\ g.version \in Nat
      /\ g.variant \in Nat /\ g.random \in Nat
  <2>1. \A m : \A n \in 0 .. m : n \in Nat
    OBVIOUS
  <2> QED
    BY <1>2, <2>1, Zenon
<1>4. /\ Rest(g.time_high, 16)[Widths[1]] = 0
      /\ Rest(g.time_low, 16)[Widths[2]] = 0
      /\ Rest(g.version, 16)[Widths[3]] = 0
      /\ Rest(g.variant, 16)[Widths[4]] = 0
      /\ Rest(g.random, 16)[Widths[5]] = 0
  BY <1>2, WidthsAssumption, Zenon
<1>5. 1 \in 1..5 /\ 2 \in 1..5 /\ 3 \in 1..5 /\ 4 \in 1..5 /\ 5 \in 1..5
  OBVIOUS
<1>6. /\ Good(g.time_high, 1) /\ Good(g.time_low, 2) /\ Good(g.version, 3)
      /\ Good(g.variant, 4) /\ Good(g.random, 5)
  BY <1>1, <1>3, <1>4, <1>5, Zenon
<1>7. /\ Pieces(w)[1] = Hex(g.time_high, Widths[1], Lower)
      /\ Pieces(w)[3] = Hex(g.time_low, Widths[2], Lower)
      /\ Pieces(w)[5] = Hex(g.version, Widths[3], Lower)
      /\ Pieces(w)[7] = Hex(g.variant, Widths[4], Lower)
      /\ Pieces(w)[9] = Hex(g.random, Widths[5], Lower)
  BY DEF Pieces, g
<1> QED
  BY <1>6, <1>7 DEF Good, g

\* The pieces begin where the code looks for them.
LEMMA PiecesLaid ==
  ASSUME NEW w \in Words
  PROVE  Laid(UuidChars, 9, Pieces(w), PiecesBegin)
<1> DEFINE p == Pieces(w)
           pos == PiecesBegin
<1>1. /\ p[1] \in HexText /\ Len(p[1]) = Widths[1] /\ p[3] \in HexText /\ Len(p[3]) = Widths[2]
      /\ p[5] \in HexText /\ Len(p[5]) = Widths[3] /\ p[7] \in HexText /\ Len(p[7]) = Widths[4]
      /\ p[9] \in HexText /\ Len(p[9]) = Widths[5]
  BY GroupTexts
<1>2. \A s \in HexText : s \in Seq(UuidChars)
  BY SeqMonotonic DEF HexText, UuidChars
<1>3. /\ <<"-">> \in Seq(UuidChars) /\ Len(<<"-">>) = 1
  BY DEF UuidChars
<1>4. p[2] = <<"-">> /\ p[4] = <<"-">> /\ p[6] = <<"-">> /\ p[8] = <<"-">> /\ DOMAIN p = 1..9
      /\ p = [j \in 1..9 |-> p[j]]
  BY DEF Pieces
<1> HIDE DEF p
<1>5. /\ p[1] \in Seq(UuidChars) /\ p[2] \in Seq(UuidChars) /\ p[3] \in Seq(UuidChars)
      /\ p[4] \in Seq(UuidChars) /\ p[5] \in Seq(UuidChars) /\ p[6] \in Seq(UuidChars)
      /\ p[7] \in Seq(UuidChars) /\ p[8] \in Seq(UuidChars) /\ p[9] \in Seq(UuidChars)
  BY <1>1, <1>2, <1>3, <1>4
<1>6. \A j \in 1..9 : j = 1 \/ j = 2 \/ j = 3 \/ j = 4 \/ j = 5 \/ j = 6 \/ j = 7 \/ j = 8 \/ j = 9
  OBVIOUS
<1>7. p \in [1..9 -> Seq(UuidChars)]
  <2>1. \A j \in 1..9 : p[j] \in Seq(UuidChars)
    BY <1>5, <1>6
  <2> QED
    BY <1>4, <2>1
<1>8. /\ Widths[1] \in 1..16 /\ Widths[2] \in 1..16 /\ Widths[3] \in 1..16
      /\ Widths[4] \in 1..16 /\ Widths[5] \in 1..16
  BY Layout
<1>9. /\ Offset[2] = Widths[1] + 1 /\ Offset[3] = Offset[2] + Widths[2] + 1
      /\ Offset[4] = Offset[3] + Widths[3] + 1 /\ Offset[5] = Offset[4] + Widths[4] + 1
      /\ TotalLength = Offset[5] + Widths[5]
  BY Layout
<1>10. /\ Offset[2] - 1 \in Nat /\ Offset[2] \in Nat /\ Offset[3] - 1 \in Nat /\ Offset[3] \in Nat
       /\ Offset[4] - 1 \in Nat /\ Offset[4] \in Nat /\ Offset[5] - 1 \in Nat /\ Offset[5] \in Nat
       /\ TotalLength \in Nat /\ Offset[2] + Widths[2] = Offset[3] - 1
       /\ Offset[3] + Widths[3] = Offset[4] - 1 /\ Offset[4] + Widths[4] = Offset[5] - 1
  <2>1. ASSUME NEW a \in Nat, NEW b \in 1..16, NEW c, c = a + b + 1
        PROVE  c \in Nat /\ c - 1 \in Nat /\ a + b = c - 1
    BY <2>1
  <2>7. ASSUME NEW b \in 1..16 PROVE b + 1 \in Nat /\ (b + 1) - 1 \in Nat
    OBVIOUS
  <2>2. Offset[2] \in Nat /\ Offset[2] - 1 \in Nat
    BY <1>8, <1>9, <2>7, Zenon
  <2>3. Offset[3] \in Nat /\ Offset[3] - 1 \in Nat /\ Offset[2] + Widths[2] = Offset[3] - 1
    <3>1. Offset[2] \in Nat /\ Widths[2] \in 1..16 /\ Offset[3] = Offset[2] + Widths[2] + 1
      BY <1>8, <1>9, <2>2, Zenon
    <3> QED
      BY <2>1, <3>1, Zenon
  <2>4. Offset[4] \in Nat /\ Offset[4] - 1 \in Nat /\ Offset[3] + Widths[3] = Offset[4] - 1
    <3>1. Offset[3] \in Nat /\ Widths[3] \in 1..16 /\ Offset[4] = Offset[3] + Widths[3] + 1
      BY <1>8, <1>9, <2>3, Zenon
    <3> QED
      BY <2>1, <3>1, Zenon
  <2>5. Offset[5] \in Nat /\ Offset[5] - 1 \in Nat /\ Offset[4] + Widths[4] = Offset[5] - 1
    <3>1. Offset[4] \in Nat /\ Widths[4] \in 1..16 /\ Offset[5] = Offset[4] + Widths[4] + 1
      BY <1>8, <1>9, <2>4, Zenon
    <3> QED
      BY <2>1, <3>1, Zenon
  <2>6. TotalLength \in Nat
    <3>1. ASSUME NEW a \in Nat, NEW b \in 1..16 PROVE a + b \in Nat
      OBVIOUS
    <3> QED
      BY <1>8, <1>9, <2>5, <3>1, Zenon
  <2> QED
    BY <2>2, <2>3, <2>4, <2>5, <2>6
<1>11. /\ pos[1] = 0 /\ pos[2] = Offset[2] - 1 /\ pos[3] = Offset[2] /\ pos[4] = Offset[3] - 1
       /\ pos[5] = Offset[3] /\ pos[6] = Offset[4] - 1 /\ pos[7] = Offset[4]
       /\ pos[8] = Offset[5] - 1 /\ pos[9] = Offset[5] /\ pos[10] = TotalLength
       /\ DOMAIN pos = 1..10 /\ pos = [j \in 1..10 |-> pos[j]]
  BY DEF PiecesBegin
<1> HIDE DEF pos
<1>12. pos \in [1 .. 9 + 1 -> Nat]
  <2>1. \A j \in 1..10 : j \in 1..9 \/ j = 10
    OBVIOUS
  <2>2. \A j \in 1..10 : pos[j] \in Nat
    BY <1>6, <1>10, <1>11, <2>1
  <2> QED
    BY <1>11, <2>2
<1>13. \A j \in 1..9 : pos[j + 1] = pos[j] + Len(p[j])
  <2>2. \A a \in Nat : (a - 1) + 1 = a
    OBVIOUS
  <2>3. 0 + Widths[1] = (Widths[1] + 1) - 1
    BY <1>8
  <2>4. /\ 1 + 1 = 2 /\ 2 + 1 = 3 /\ 3 + 1 = 4 /\ 4 + 1 = 5 /\ 5 + 1 = 6
        /\ 6 + 1 = 7 /\ 7 + 1 = 8 /\ 8 + 1 = 9 /\ 9 + 1 = 10
    OBVIOUS
  <2>5. pos[2] = pos[1] + Len(p[1])
    BY <1>1, <1>9, <1>11, <2>3
  <2>6. /\ pos[3] = pos[2] + Len(p[2]) /\ pos[5] = pos[4] + Len(p[4])
        /\ pos[7] = pos[6] + Len(p[6]) /\ pos[9] = pos[8] + Len(p[8])
    BY <1>3, <1>4, <1>10, <1>11, <2>2, Zenon
  <2>7. /\ pos[4] = pos[3] + Len(p[3]) /\ pos[6] = pos[5] + Len(p[5])
        /\ pos[8] = pos[7] + Len(p[7])
    BY <1>1, <1>10, <1>11, Zenon
  <2>8. pos[10] = pos[9] + Len(p[9])
    BY <1>1, <1>9, <1>11, Zenon
  <2> DEFINE Follows(j) == pos[j + 1] = pos[j] + Len(p[j])
  <2>9. /\ Follows(1) /\ Follows(2) /\ Follows(3) /\ Follows(4) /\ Follows(5) /\ Follows(6) /\ Follows(7)
        /\ Follows(8) /\ Follows(9)
    BY <2>4, <2>5, <2>6, <2>7, <2>8, Zenon
  <2>10. \A j \in 1..9 : Follows(j)
    <3> HIDE DEF Follows
    <3> QED
      BY <1>6, <2>9, Zenon
  <2> QED
    BY <2>10, Zenon
<1> QED
  BY <1>7, <1>11, <1>12, <1>13 DEF Laid, p, pos

\* AsString::serialize() puts the pieces there.
LEMMA TextPlaced ==
  ASSUME NEW w \in Words
  PROVE  UuidText(w) \in Seq(UuidChars) /\ Placed(UuidText(w), 9, Pieces(w), PiecesBegin)
<1> DEFINE p == Pieces(w)
           pos == PiecesBegin
           S == UuidChars
           Good(t, k) == t \in Seq(S) /\ Placed(t, k, p, pos)
           Q2 == p[1] \o p[1 + 1]
           Q3 == Q2 \o p[2 + 1]
           Q4 == Q3 \o p[3 + 1]
           Q5 == Q4 \o p[4 + 1]
           Q6 == Q5 \o p[5 + 1]
           Q7 == Q6 \o p[6 + 1]
           Q8 == Q7 \o p[7 + 1]
           Q9 == Q8 \o p[8 + 1]
<1>1. UuidText(w) = Q9
  <2> DEFINE g == Groups(w)
             a == Hex(g.time_high, Widths[1], Lower)
             b == Hex(g.time_low, Widths[2], Lower)
             c == Hex(g.version, Widths[3], Lower)
             d == Hex(g.variant, Widths[4], Lower)
             e == Hex(g.random, Widths[5], Lower)
             h == <<"-">>
  <2>1. UuidText(w) = a \o h \o b \o h \o c \o h \o d \o h \o e
    BY Zenon DEF UuidText, UuidIn
  <2>2. p = <<a, h, b, h, c, h, d, h, e>>
    BY Zenon DEF Pieces
  <2> HIDE DEF a, b, c, d, e, h, p
  <2>3. /\ p[1] = a /\ p[1 + 1] = h /\ p[2 + 1] = b /\ p[3 + 1] = h /\ p[4 + 1] = c
        /\ p[5 + 1] = h /\ p[6 + 1] = d /\ p[7 + 1] = h /\ p[8 + 1] = e
    BY <2>2
  <2> QED
    BY <2>1, <2>3, Zenon
<1>2. Laid(S, 9, p, pos)
  BY PiecesLaid
<1>3. 9 \in Nat /\ 9 # 0
  OBVIOUS
<1> HIDE DEF p, pos, S
<1>4. Good(p[1], 1)
  BY <1>2, <1>3, PlacedFirst
<1>5. ASSUME NEW t, NEW k \in 1..8, Good(t, k) PROVE Good(t \o p[k + 1], k + 1)
  <2>1. k \in 1 .. 9 - 1
    OBVIOUS
  <2> QED
    BY <1>2, <1>3, <1>5, <2>1, PlacedNext
<1> HIDE DEF Good
<1>6. /\ 1 \in 1..8 /\ 2 \in 1..8 /\ 3 \in 1..8 /\ 4 \in 1..8 /\ 5 \in 1..8
      /\ 6 \in 1..8 /\ 7 \in 1..8 /\ 8 \in 1..8
  OBVIOUS
<1> HIDE DEF Q2, Q3, Q4, Q5, Q6, Q7, Q8, Q9
<1>7. Good(Q2, 1 + 1)
  BY <1>4, <1>5, <1>6 DEF Q2
<1>8. Good(Q3, 2 + 1)
  BY <1>5, <1>6, <1>7 DEF Q3
<1>9. Good(Q4, 3 + 1)
  BY <1>5, <1>6, <1>8 DEF Q4
<1>10. Good(Q5, 4 + 1)
  BY <1>5, <1>6, <1>9 DEF Q5
<1>11. Good(Q6, 5 + 1)
  BY <1>5, <1>6, <1>10 DEF Q6
<1>12. Good(Q7, 6 + 1)
  BY <1>5, <1>6, <1>11 DEF Q7
<1>13. Good(Q8, 7 + 1)
  BY <1>5, <1>6, <1>12 DEF Q8
<1>14. Good(Q9, 9)
  BY <1>5, <1>6, <1>13 DEF Q9
<1> QED
  BY <1>1, <1>14 DEF Good, S, p, pos

\* A UUID that was written as text is read as itself, in full.
THEOREM TextSurvives ==
    \A w \in Words : /\ ReadUuid(UuidText(w)) = {w}
                     /\ Len(UuidText(w)) = TotalLength /\ UuidText(w) \in Seq(UuidChars)
<1> TAKE w \in Words
<1> DEFINE t == UuidText(w)
           p == Pieces(w)
           pos == PiecesBegin
           g == Groups(w)
           At(k) == SubSeq(t, Offset[k] + 1, Offset[k] + Widths[k])
           digits == [k \in 1..5 |-> Leading(At(k))]
           value == [k \in 1..5 |-> Value(digits[k])]
<1>1. t \in Seq(UuidChars) /\ Placed(t, 9, p, pos) /\ Laid(UuidChars, 9, p, pos)
  BY TextPlaced, PiecesLaid
<1>2. /\ p[1] \in HexText /\ Len(p[1]) = Widths[1] /\ Value(p[1]) = g.time_high
      /\ p[3] \in HexText /\ Len(p[3]) = Widths[2] /\ Value(p[3]) = g.time_low
      /\ p[5] \in HexText /\ Len(p[5]) = Widths[3] /\ Value(p[5]) = g.version
      /\ p[7] \in HexText /\ Len(p[7]) = Widths[4] /\ Value(p[7]) = g.variant
      /\ p[9] \in HexText /\ Len(p[9]) = Widths[5] /\ Value(p[9]) = g.random
  BY GroupTexts
<1>3. /\ pos[1] = Offset[1] /\ pos[2] = Offset[2] - 1 /\ pos[3] = Offset[2]
      /\ pos[4] = Offset[3] - 1 /\ pos[5] = Offset[3] /\ pos[6] = Offset[4] - 1
      /\ pos[7] = Offset[4] /\ pos[8] = Offset[5] - 1 /\ pos[9] = Offset[5]
      /\ pos[10] = TotalLength
  BY Layout DEF PiecesBegin
<1>4. p[2] = <<"-">> /\ p[4] = <<"-">> /\ p[6] = <<"-">> /\ p[8] = <<"-">>
  BY DEF Pieces
<1>5. /\ Offset[2] - 1 \in Nat /\ Offset[3] - 1 \in Nat /\ Offset[4] - 1 \in Nat
      /\ Offset[5] - 1 \in Nat
  <2>1. pos[2] \in Nat /\ pos[4] \in Nat /\ pos[6] \in Nat /\ pos[8] \in Nat
    BY <1>1 DEF Laid
  <2> QED
    BY <1>3, <2>1
<1>16. /\ Offset[2] \in Int /\ Offset[3] \in Int /\ Offset[4] \in Int /\ Offset[5] \in Int
  <2>1. pos[3] \in Nat /\ pos[5] \in Nat /\ pos[7] \in Nat /\ pos[9] \in Nat
    BY <1>1 DEF Laid
  <2> QED
    BY <1>3, <2>1
<1> HIDE DEF t, p, pos, g
<1>6. /\ At(1) = p[1] /\ At(2) = p[3] /\ At(3) = p[5] /\ At(4) = p[7] /\ At(5) = p[9]
  <2>1. \A j \in 1..9 : SubSeq(t, pos[j] + 1, pos[j] + Len(p[j])) = p[j]
    <3>1. 9 \in Nat
      OBVIOUS
    <3> QED
      BY <1>1, <3>1, PlacedCut
  <2>2. /\ SubSeq(t, pos[1] + 1, pos[1] + Len(p[1])) = p[1]
        /\ SubSeq(t, pos[3] + 1, pos[3] + Len(p[3])) = p[3]
        /\ SubSeq(t, pos[5] + 1, pos[5] + Len(p[5])) = p[5]
        /\ SubSeq(t, pos[7] + 1, pos[7] + Len(p[7])) = p[7]
        /\ SubSeq(t, pos[9] + 1, pos[9] + Len(p[9])) = p[9]
    <3>1. 1 \in 1..9 /\ 3 \in 1..9 /\ 5 \in 1..9 /\ 7 \in 1..9 /\ 9 \in 1..9
      OBVIOUS
    <3> QED
      BY <2>1, <3>1, Zenon
  <2> QED
    BY <1>2, <1>3, <2>2
<1>7. Len(t) = TotalLength
  <2>1. pos[9 + 1] = TotalLength
    BY <1>3
  <2> QED
    BY <1>1, <2>1 DEF Placed
<1>8. \A k \in 2..5 : t[Offset[k]] = "-"
  <2>1. ASSUME NEW j \in 1..9, p[j] = <<"-">> PROVE t[pos[j] + 1] = "-"
    <3>1. Holds(t, pos[j], <<"-">>)
      BY <1>1, <2>1 DEF Placed
    <3>2. Len(<<"-">>) = 1 /\ <<"-">>[1] = "-" /\ 1 \in 1..1
      OBVIOUS
    <3> QED
      BY <3>1, <3>2 DEF Holds
  <2>2. t[pos[2] + 1] = "-" /\ t[pos[4] + 1] = "-" /\ t[pos[6] + 1] = "-" /\ t[pos[8] + 1] = "-"
    BY <1>4, <2>1
  <2>3. /\ pos[2] + 1 = Offset[2] /\ pos[4] + 1 = Offset[3]
        /\ pos[6] + 1 = Offset[4] /\ pos[8] + 1 = Offset[5]
    BY <1>3, <1>16
  <2>4. \A k \in 2..5 : k = 2 \/ k = 3 \/ k = 4 \/ k = 5
    OBVIOUS
  <2> QED
    BY <2>2, <2>3, <2>4
<1>9. WellFormed(t)
  BY <1>7, <1>8 DEF WellFormed
<1>10. /\ digits[1] = p[1] /\ digits[2] = p[3] /\ digits[3] = p[5]
       /\ digits[4] = p[7] /\ digits[5] = p[9]
  <2>1. /\ Leading(p[1]) = p[1] /\ Leading(p[3]) = p[3] /\ Leading(p[5]) = p[5]
        /\ Leading(p[7]) = p[7] /\ Leading(p[9]) = p[9]
    BY <1>2, LeadingAll
  <2> HIDE DEF At
  <2> QED
    BY <1>6, <2>1
<1>11. /\ value[1] = g.time_high /\ value[2] = g.time_low /\ value[3] = g.version
       /\ value[4] = g.variant /\ value[5] = g.random
  <2> HIDE DEF digits
  <2> QED
    BY <1>2, <1>10
<1>12. \A k \in 1..5 : digits[k] # <<>>
  <2> HIDE DEF digits
  <2>1. \A k \in 1..5 : k = 1 \/ k = 2 \/ k = 3 \/ k = 4 \/ k = 5
    OBVIOUS
  <2>2. \A k \in 1..5 : Widths[k] # 0
    BY Layout
  <2>3. Len(<<>>) = 0
    OBVIOUS
  <2>4. /\ Len(p[1]) # 0 /\ Len(p[3]) # 0 /\ Len(p[5]) # 0 /\ Len(p[7]) # 0 /\ Len(p[9]) # 0
    BY <1>2, <2>2
  <2>5. p[1] # <<>> /\ p[3] # <<>> /\ p[5] # <<>> /\ p[7] # <<>> /\ p[9] # <<>>
    BY <2>3, <2>4
  <2> QED
    BY <1>10, <2>1, <2>5
<1> DEFINE read == [time_high |-> value[1], time_low |-> value[2],
                    version |-> value[3], variant |-> value[4], random |-> value[5]]
<1>13. ReadUuid(t) = {FromGroups(read)}
  <2> HIDE DEF t
  <2> QED
    BY <1>9, <1>12 DEF ReadUuid
<1>14. read = g
  <2> HIDE DEF value
  <2> QED
    BY <1>11 DEF g, Groups
<1>15. FromGroups(g) = w
  BY StringSurvives DEF g
<1> QED
  BY <1>1, <1>7, <1>13, <1>14, <1>15 DEF t

\* The bytes of a UUID that were written are read as the UUID.
THEOREM ArraySurvives ==
    \A w \in Words : ReadBytes(UuidBytes(w)) = {w}
<1> TAKE w \in Words
<1> DEFINE q == Parts(w)
           Byte == 0..255
           p == <<BigEndian(q.msb_high), BigEndian(q.msb_low),
                  BigEndian(q.lsb_high), BigEndian(q.lsb_low)>>
           pos == [j \in 1..5 |-> PartSize * (j - 1)]
           Good(t, k) == t \in Seq(Byte) /\ Placed(t, k, p, pos)
           t == UuidBytes(w)
           Q2 == p[1] \o p[1 + 1]
           Q3 == Q2 \o p[2 + 1]
           Q4 == Q3 \o p[3 + 1]
           Part(k) == FromBigEndian(SubSeq(t, PartSize * k + 1, PartSize * (k + 1)))
           parts == [msb_high |-> Part(0), msb_low |-> Part(1),
                     lsb_high |-> Part(2), lsb_low |-> Part(3)]
<1>1. /\ q.msb_high \in 0 .. Half - 1 /\ q.msb_low \in 0 .. Half - 1
      /\ q.lsb_high \in 0 .. Half - 1 /\ q.lsb_low \in 0 .. Half - 1
  <2>1. Half \in Nat \ {0} /\ w.msb \in 0 .. Half * Half - 1 /\ w.lsb \in 0 .. Half * Half - 1
    BY Radices DEF Words
  <2>2. w.msb \div Half \in 0 .. Half - 1 /\ w.msb % Half \in 0 .. Half - 1
    BY <2>1, Read, Zenon
  <2>3. w.lsb \div Half \in 0 .. Half - 1 /\ w.lsb % Half \in 0 .. Half - 1
    BY <2>1, Read, Zenon
  <2> QED
    BY <2>2, <2>3 DEF Parts
<1>2. PartSize \in 1..16 /\ \A n \in 0 .. Half - 1 : Rest(n, 256)[PartSize] = 0
  BY WidthsAssumption
<1>3. ASSUME NEW n \in 0 .. Half - 1
      PROVE  BigEndian(n) \in Seq(Byte) /\ Len(BigEndian(n)) = PartSize
             /\ FromBigEndian(BigEndian(n)) = n
  <2> DEFINE base == 256
  <2>1. n \in Nat /\ base \in Nat \ {0} /\ PartSize \in 0..16 /\ Rest(n, base)[PartSize] = 0
    BY <1>2
  <2>2. /\ Digits(n, base, PartSize) \in [1..PartSize -> 0 .. base - 1]
        /\ Number(Digits(n, base, PartSize), base) = n
    <3> HIDE DEF base
    <3> QED
      BY <2>1, NumberOfDigits, Zenon
  <2>3. \A f \in [1..PartSize -> 0 .. 256 - 1] : f \in Seq(Byte) /\ Len(f) = PartSize
    BY <2>1
  <2> QED
    BY <2>2, <2>3 DEF BigEndian, FromBigEndian
<1>4. /\ p[1] \in Seq(Byte) /\ Len(p[1]) = PartSize /\ FromBigEndian(p[1]) = q.msb_high
      /\ p[2] \in Seq(Byte) /\ Len(p[2]) = PartSize /\ FromBigEndian(p[2]) = q.msb_low
      /\ p[3] \in Seq(Byte) /\ Len(p[3]) = PartSize /\ FromBigEndian(p[3]) = q.lsb_high
      /\ p[4] \in Seq(Byte) /\ Len(p[4]) = PartSize /\ FromBigEndian(p[4]) = q.lsb_low
  <2> HIDE DEF q, Byte
  <2> QED
    BY <1>1, <1>3
<1>5. t = Q4
  BY DEF UuidBytes
<1>6. DOMAIN p = 1..4 /\ p = [j \in 1..4 |-> p[j]]
  OBVIOUS
<1> HIDE DEF p, Byte, q, t
<1>7. \A j \in 1..4 : j = 1 \/ j = 2 \/ j = 3 \/ j = 4
  OBVIOUS
<1>8. pos \in [1 .. 4 + 1 -> Nat] /\ pos[1] = 0
      /\ \A j \in 1..4 : pos[j] = PartSize * (j - 1) /\ pos[j + 1] = pos[j] + PartSize
  <2>1. PartSize \in Nat
    BY <1>2
  <2>2. \A j \in 1..5 : PartSize * (j - 1) \in Nat
    BY <2>1
  <2>3. pos \in [1 .. 4 + 1 -> Nat]
    BY <2>2
  <2>4. pos[1] = 0
    BY <2>1
  <2>5. \A j \in 1..4 : PartSize * ((j + 1) - 1) = PartSize * (j - 1) + PartSize
    BY <2>1
  <2>6. \A j \in 1..4 : pos[j] = PartSize * (j - 1) /\ pos[j + 1] = PartSize * ((j + 1) - 1)
    OBVIOUS
  <2> QED
    BY <2>3, <2>4, <2>5, <2>6
<1>9. pos[4 + 1] = 4 * PartSize
  BY <1>2
<1> HIDE DEF pos
<1>10. Laid(Byte, 4, p, pos)
  <2>1. \A j \in 1..4 : p[j] \in Seq(Byte) /\ Len(p[j]) = PartSize
    BY <1>4, <1>7
  <2>2. p \in [1..4 -> Seq(Byte)]
    BY <1>6, <2>1
  <2> QED
    BY <1>8, <2>1, <2>2 DEF Laid
<1>11. 4 \in Nat /\ 4 # 0
  OBVIOUS
<1>12. Good(p[1], 1)
  BY <1>10, <1>11, PlacedFirst
<1>13. ASSUME NEW s, NEW k \in 1..3, Good(s, k) PROVE Good(s \o p[k + 1], k + 1)
  <2>1. k \in 1 .. 4 - 1
    OBVIOUS
  <2> QED
    BY <1>10, <1>11, <1>13, <2>1, PlacedNext
<1> HIDE DEF Good, Q2, Q3, Q4
<1>14. 1 \in 1..3 /\ 2 \in 1..3 /\ 3 \in 1..3
  OBVIOUS
<1>15. Good(Q2, 1 + 1)
  BY <1>12, <1>13, <1>14 DEF Q2
<1>16. Good(Q3, 2 + 1)
  BY <1>13, <1>14, <1>15 DEF Q3
<1>17. Good(Q4, 4)
  BY <1>13, <1>14, <1>16 DEF Q4
<1>18. t \in Seq(Byte) /\ Placed(t, 4, p, pos)
  BY <1>5, <1>17 DEF Good
<1>19. Len(t) = 4 * PartSize
  BY <1>9, <1>18 DEF Placed
<1>20. ASSUME NEW j \in 1..4
       PROVE  SubSeq(t, PartSize * (j - 1) + 1, PartSize * ((j - 1) + 1)) = p[j]
  <2>1. SubSeq(t, pos[j] + 1, pos[j] + Len(p[j])) = p[j]
    BY <1>10, <1>11, <1>18, PlacedCut
  <2>2. Len(p[j]) = PartSize /\ pos[j] = PartSize * (j - 1)
    BY <1>4, <1>7, <1>8
  <2>3. PartSize * (j - 1) + PartSize = PartSize * ((j - 1) + 1)
    BY <1>2
  <2> QED
    BY <2>1, <2>2, <2>3
<1>21. /\ Part(0) = q.msb_high /\ Part(1) = q.msb_low
       /\ Part(2) = q.lsb_high /\ Part(3) = q.lsb_low
  <2>1. 1 - 1 = 0 /\ 2 - 1 = 1 /\ 3 - 1 = 2 /\ 4 - 1 = 3
    OBVIOUS
  <2>2. /\ SubSeq(t, PartSize * 0 + 1, PartSize * (0 + 1)) = p[1]
        /\ SubSeq(t, PartSize * 1 + 1, PartSize * (1 + 1)) = p[2]
        /\ SubSeq(t, PartSize * 2 + 1, PartSize * (2 + 1)) = p[3]
        /\ SubSeq(t, PartSize * 3 + 1, PartSize * (3 + 1)) = p[4]
    <3>1. 1 \in 1..4 /\ 2 \in 1..4 /\ 3 \in 1..4 /\ 4 \in 1..4
      OBVIOUS
    <3> QED
      BY <1>20, <2>1, <3>1
  <2> QED
    BY <1>4, <2>2
<1>22. ReadBytes(t) = {FromParts(parts)}
  BY <1>19 DEF ReadBytes
<1>23. parts = q
  <2> HIDE DEF Part
  <2> QED
    BY <1>21 DEF q, Parts
<1>24. FromParts(q) = w
  BY BytesSurvive DEF q
<1> QED
  BY <1>22, <1>23, <1>24 DEF t

\* A text without one of its characters is shorter by one.
LEMMA OneLess ==
  ASSUME NEW S, NEW t \in Seq(S), NEW i \in 1..Len(t)
  PROVE  /\ RemoveAt(t, i) \in Seq(S)
         /\ Len(RemoveAt(t, i)) = Len(t) - 1
         /\ \A j \in 1 .. i - 1 : RemoveAt(t, i)[j] = t[j]
         /\ \A j \in i .. Len(t) - 1 : RemoveAt(t, i)[j] = t[j + 1]
<1> DEFINE a == SubSeq(t, 1, i - 1)
           b == SubSeq(t, i + 1, Len(t))
<1>1. Len(t) \in Nat
  OBVIOUS
<1>2. /\ a \in Seq(S) /\ Len(a) = i - 1
      /\ \A j \in 1 .. i - 1 : a[j] = t[j]
  <2>1. 1 \in Int /\ i - 1 \in Int /\ \A j \in 1 .. i - 1 : t[j] \in S
    BY <1>1
  <2>2. /\ a \in Seq(S) /\ Len(a) = IF 1 <= i - 1 THEN (i - 1) - 1 + 1 ELSE 0
        /\ \A j \in 1 .. (i - 1) - 1 + 1 : a[j] = t[1 + j - 1]
    BY <2>1, SubSeqProperties
  <2> HIDE DEF a
  <2>3. Len(a) = i - 1
    BY <1>1, <2>2
  <2>4. ASSUME NEW j \in 1 .. i - 1 PROVE a[j] = t[j]
    <3>1. j \in 1 .. (i - 1) - 1 + 1 /\ 1 + j - 1 = j
      BY <1>1
    <3> QED
      BY <2>2, <3>1
  <2> QED
    BY <2>2, <2>3, <2>4
<1>3. /\ b \in Seq(S) /\ Len(b) = Len(t) - i
      /\ \A j \in 1 .. Len(t) - i : b[j] = t[i + j]
  <2>1. i + 1 \in Int /\ Len(t) \in Int /\ \A j \in i + 1 .. Len(t) : t[j] \in S
    BY <1>1
  <2>2. /\ b \in Seq(S) /\ Len(b) = IF i + 1 <= Len(t) THEN Len(t) - (i + 1) + 1 ELSE 0
        /\ \A j \in 1 .. Len(t) - (i + 1) + 1 : b[j] = t[(i + 1) + j - 1]
    BY <2>1, SubSeqProperties
  <2> HIDE DEF b
  <2>3. Len(b) = Len(t) - i
    BY <1>1, <2>2
  <2>4. ASSUME NEW j \in 1 .. Len(t) - i PROVE b[j] = t[i + j]
    <3>1. j \in 1 .. Len(t) - (i + 1) + 1 /\ (i + 1) + j - 1 = i + j
      BY <1>1
    <3> QED
      BY <2>2, <3>1
  <2> QED
    BY <2>2, <2>3, <2>4
<1> DEFINE u == a \o b
<1>4. u = RemoveAt(t, i)
  BY DEF RemoveAt
<1> HIDE DEF a, b
<1>5. /\ u \in Seq(S) /\ Len(u) = Len(a) + Len(b)
      /\ \A j \in 1 .. Len(a) + Len(b) : u[j] = IF j <= Len(a) THEN a[j] ELSE b[j - Len(a)]
  BY <1>2, <1>3, ConcatProperties
<1> HIDE DEF u
<1>6. Len(u) = Len(t) - 1
  BY <1>1, <1>2, <1>3, <1>5
<1>7. ASSUME NEW j \in 1 .. i - 1 PROVE u[j] = t[j]
  <2>1. j \in 1 .. Len(a) + Len(b) /\ j <= Len(a)
    BY <1>1, <1>2, <1>3
  <2> QED
    BY <1>2, <1>5, <2>1
<1>8. ASSUME NEW j \in i .. Len(t) - 1 PROVE u[j] = t[j + 1]
  <2>1. j \in 1 .. Len(a) + Len(b) /\ ~(j <= Len(a)) /\ j - Len(a) = j - i + 1
        /\ j - i + 1 \in 1 .. Len(t) - i /\ i + (j - i + 1) = j + 1
    BY <1>1, <1>2, <1>3
  <2>2. u[j] = b[j - i + 1]
    BY <1>5, <2>1
  <2>3. b[j - i + 1] = t[i + (j - i + 1)]
    BY <1>3, <2>1
  <2> QED
    BY <2>1, <2>2, <2>3
<1> QED
  BY <1>4, <1>5, <1>6, <1>7, <1>8

\* A UUID's text without one of its characters is refused.
LEMMA DamagedText ==
  ASSUME NEW w \in Words, NEW i \in DOMAIN UuidText(w)
  PROVE  ReadUuid(RemoveAt(UuidText(w), i)) = {}
<1> DEFINE t == UuidText(w)
<1>1. t \in Seq(UuidChars) /\ Len(t) = TotalLength
  BY TextSurvives
<1>2. Len(t) \in Nat /\ i \in 1..Len(t)
  BY <1>1
<1>3. Len(RemoveAt(t, i)) = Len(t) - 1
  BY <1>1, <1>2, OneLess
<1>4. ~WellFormed(RemoveAt(t, i))
  BY <1>1, <1>2, <1>3 DEF WellFormed
<1> QED
  BY <1>4 DEF ReadUuid

-------------------------------------------------------------------------------
(* UUris as text: the segments. *)

\* No separator is in a text.
Unbroken(s) == \A i \in 1..Len(s) : s[i] # "/"

\* A number has no slash in it.
LEMMA HexUnbroken ==
  ASSUME NEW s \in HexText
  PROVE  Unbroken(s)
  BY NoSeparator DEF HexText, Unbroken

\* What a text begins with, and what it ends with, can be cut out.
LEMMA CutEnds ==
  ASSUME NEW S, NEW t \in Seq(S), NEW s \in Seq(S)
  PROVE  /\ Holds(t, 0, s) /\ Len(s) <= Len(t) => SubSeq(t, 1, Len(s)) = s
         /\ \A o \in Nat : Holds(t, o, s) /\ Len(t) = o + Len(s) => SubSeq(t, o + 1, Len(t)) = s
<1>1. Len(s) \in Nat /\ Len(t) \in Nat /\ Len(t) <= Len(t)
  OBVIOUS
<1>2. ASSUME Holds(t, 0, s), Len(s) <= Len(t) PROVE SubSeq(t, 1, Len(s)) = s
  <2>1. 0 \in Nat /\ Len(s) = 0 + Len(s) /\ 0 + 1 = 1
    BY <1>1
  <2>2. SubSeq(t, 0 + 1, Len(s)) = s
    BY <1>1, <1>2, <2>1, Cut, Zenon
  <2> QED
    BY <2>1, <2>2
<1>3. ASSUME NEW o \in Nat, Holds(t, o, s), Len(t) = o + Len(s)
      PROVE  SubSeq(t, o + 1, Len(t)) = s
  <2>1. ASSUME NEW e \in Nat, e = o + Len(s), e <= Len(t) PROVE SubSeq(t, o + 1, e) = s
    BY <1>3, <2>1, Cut, Zenon
  <2> QED
    BY <1>1, <1>3, <2>1, Zenon
<1> QED
  BY <1>2, <1>3

\* extractSegment() cuts at the first separator.
LEMMA ExtractFirst ==
  ASSUME NEW S, "/" \in S, NEW s \in Seq(S), NEW r \in Seq(S), Unbroken(s)
  PROVE  extractSegment(s \o (<<"/">> \o r)) = {[segment |-> s, rest |-> r]}
<1> DEFINE x == <<"/">> \o r
           t == s \o x
           e == Len(s) + 1
           Ends == {i \in DOMAIN t : t[i] = "/" /\ \A j \in 1 .. i - 1 : t[j] # "/"}
           Cuts(end) == [segment |-> SubSeq(t, 1, end - 1),
                         rest |-> SubSeq(t, end + 1, Len(t))]
<1>1. Len(s) \in Nat /\ Len(r) \in Nat
  OBVIOUS
<1>2. <<"/">> \in Seq(S) /\ Len(<<"/">>) = 1 /\ <<"/">>[1] = "/"
  OBVIOUS
<1>3. x \in Seq(S) /\ Len(x) = 1 + Len(r) /\ x[1] = "/" /\ \A i \in 1..Len(r) : x[1 + i] = r[i]
  <2>1. /\ x \in Seq(S) /\ Len(x) = Len(<<"/">>) + Len(r)
        /\ \A i \in 1 .. Len(<<"/">>) + Len(r) :
              x[i] = IF i <= Len(<<"/">>) THEN <<"/">>[i] ELSE r[i - Len(<<"/">>)]
    BY <1>2, ConcatProperties
  <2> HIDE DEF x
  <2>2. /\ x \in Seq(S) /\ Len(x) = 1 + Len(r)
        /\ \A i \in 1 .. 1 + Len(r) : x[i] = IF i <= 1 THEN <<"/">>[i] ELSE r[i - 1]
    BY <1>2, <2>1
  <2>3. x[1] = "/"
    BY <1>1, <1>2, <2>2
  <2>4. ASSUME NEW i \in 1..Len(r) PROVE x[1 + i] = r[i]
    <3>1. 1 + i \in 1 .. 1 + Len(r) /\ ~(1 + i <= 1) /\ (1 + i) - 1 = i
      BY <1>1
    <3> QED
      BY <2>2, <3>1
  <2> QED
    BY <2>2, <2>3, <2>4
<1> HIDE DEF x
<1>4. /\ t \in Seq(S) /\ Len(t) = Len(s) + Len(x)
      /\ Holds(t, Len(s), x)
      /\ \A o \in Nat, h \in Seq(S) : Holds(s, o, h) /\ o + Len(h) <= Len(s) => Holds(t, o, h)
  BY <1>3, HoldsConcat
<1> HIDE DEF t
<1>5. Holds(s, 0, s)
  <2>1. \A i \in 1..Len(s) : 0 + i = i
    BY <1>1
  <2> QED
    BY <2>1 DEF Holds
<1>6. Holds(t, 0, s)
  <2>1. 0 \in Nat /\ 0 + Len(s) <= Len(s)
    BY <1>1
  <2> QED
    BY <1>4, <1>5, <2>1
<1>7. Len(t) = e + Len(r) /\ e \in Nat /\ e \in 1..Len(t)
  BY <1>1, <1>3, <1>4
<1>8. t[e] = "/"
  <2>1. 1 \in 1..Len(x)
    BY <1>1, <1>3
  <2> QED
    BY <1>3, <1>4, <2>1 DEF Holds
<1>9. Holds(t, e, r)
  <2>1. ASSUME NEW i \in 1..Len(r) PROVE t[e + i] = r[i]
    <3>1. 1 + i \in 1..Len(x) /\ Len(s) + (1 + i) = e + i
      BY <1>1, <1>3
    <3>2. t[Len(s) + (1 + i)] = x[1 + i]
      BY <1>4, <3>1 DEF Holds
    <3> QED
      BY <1>3, <3>1, <3>2
  <2> QED
    BY <2>1 DEF Holds
<1>10. \A j \in 1..Len(s) : t[j] # "/"
  <2>1. \A j \in 1..Len(s) : t[0 + j] = s[j] /\ 0 + j = j
    BY <1>1, <1>6 DEF Holds
  <2> QED
    BY <2>1 DEF Unbroken
<1>11. DOMAIN t = 1..Len(t)
  BY <1>4
<1> HIDE DEF e
<1>12. Ends = {e}
  <2>1. e \in Ends
    <3>1. \A j \in 1 .. e - 1 : j \in 1..Len(s)
      BY <1>1 DEF e
    <3> QED
      BY <1>7, <1>8, <1>10, <1>11, <3>1
  <2>2. ASSUME NEW i \in Ends PROVE i = e
    <3>1. i \in 1..Len(t) /\ t[i] = "/" /\ \A j \in 1 .. i - 1 : t[j] # "/"
      BY <1>11
    <3>2. ~(i < e)
      <4>1. i < e => i \in 1..Len(s)
        BY <1>1, <3>1 DEF e
      <4> QED
        BY <1>10, <3>1, <4>1
    <3>3. ~(i > e)
      <4>1. i > e => e \in 1 .. i - 1
        BY <1>7, <3>1
      <4> QED
        BY <1>8, <3>1, <4>1
    <3> QED
      BY <1>7, <3>1, <3>2, <3>3
  <2> QED
    BY <2>1, <2>2
<1>13. SubSeq(t, 1, e - 1) = s
  <2>1. e - 1 = Len(s) /\ Len(s) <= Len(t)
    BY <1>1, <1>7 DEF e
  <2>2. SubSeq(t, 1, Len(s)) = s
    BY <1>4, <1>6, <2>1, CutEnds, Zenon
  <2> QED
    BY <2>1, <2>2
<1>14. SubSeq(t, e + 1, Len(t)) = r
  BY <1>4, <1>7, <1>9, CutEnds, Zenon
<1>15. extractSegment(t) = {Cuts(end) : end \in Ends}
  BY DEF extractSegment
<1>16. Cuts(e) = [segment |-> s, rest |-> r]
  BY <1>13, <1>14
<1> HIDE DEF Ends, Cuts
<1>17. extractSegment(t) = {Cuts(e)}
  BY <1>12, <1>15
<1> QED
  BY <1>16, <1>17 DEF t, x

\* What follows a prefix is what is left when it is cut off.
LEMMA AfterPrefix ==
  ASSUME NEW S, NEW x \in Seq(S), NEW r \in Seq(S)
  PROVE  /\ x \o r \in Seq(S)
         /\ IsPrefix(x, x \o r)
         /\ SubSeq(x \o r, Len(x) + 1, Len(x \o r)) = r
<1> DEFINE t == x \o r
<1>1. Len(x) \in Nat /\ Len(r) \in Nat
  OBVIOUS
<1>2. /\ t \in Seq(S) /\ Len(t) = Len(x) + Len(r) /\ Holds(t, Len(x), r)
      /\ \A o \in Nat, h \in Seq(S) : Holds(x, o, h) /\ o + Len(h) <= Len(x) => Holds(t, o, h)
  BY HoldsConcat
<1> HIDE DEF t
<1>3. Holds(t, 0, x)
  <2>1. Holds(x, 0, x)
    <3>1. \A i \in 1..Len(x) : 0 + i = i
      BY <1>1
    <3> QED
      BY <3>1 DEF Holds
  <2>2. 0 \in Nat /\ 0 + Len(x) <= Len(x)
    BY <1>1
  <2> QED
    BY <1>2, <2>1, <2>2
<1>4. SubSeq(t, Len(x) + 1, Len(t)) = r
  BY <1>1, <1>2, CutEnds, Zenon
<1>5. SubSeq(t, 1, Len(x)) = x
  <2>1. Len(x) <= Len(t)
    BY <1>1, <1>2
  <2> QED
    BY <1>2, <1>3, <2>1, CutEnds, Zenon
<1>6. SubSeq(x, 1, Len(x)) = x
  BY SubSeqFull
<1>7. IsPrefix(x, t)
  BY <1>1, <1>2, <1>5, <1>6 DEF IsPrefix
<1> QED
  BY <1>2, <1>4, <1>7 DEF t

\* A prefix agrees with the text in every place.
LEMMA PrefixAgrees ==
  ASSUME NEW S, NEW x \in Seq(S), NEW t \in Seq(S), IsPrefix(x, t), NEW i \in 1..Len(x)
  PROVE  t[i] = x[i] /\ Len(x) <= Len(t)
<1>1. Len(x) \in Nat /\ Len(t) \in Nat /\ Len(x) <= Len(t)
  BY DEF IsPrefix
<1>2. SubSeq(t, 1, Len(x)) = x
  <2>1. SubSeq(x, 1, Len(x)) = x
    BY SubSeqFull
  <2> QED
    BY <2>1 DEF IsPrefix
<1>3. SubSeq(t, 1, Len(x))[i] = t[i]
  <2>1. 1 \in Int /\ Len(x) \in Int /\ \A j \in 1..Len(x) : t[j] \in S
    BY <1>1
  <2>2. \A j \in 1 .. Len(x) - 1 + 1 : SubSeq(t, 1, Len(x))[j] = t[1 + j - 1]
    BY <2>1, SubSeqProperties
  <2>3. i \in 1 .. Len(x) - 1 + 1 /\ 1 + i - 1 = i
    BY <1>1
  <2> QED
    BY <2>2, <2>3
<1> QED
  BY <1>1, <1>2, <1>3

-------------------------------------------------------------------------------
(* UUris as text: the numbers. *)

\* The numbers of 16 bits are natural numbers.
LEMMA ShortIsNat == \A n \in 0..UINT16_MAX : n \in Nat
<1>1. \A m : \A n \in 0..m : n \in Nat
  OBVIOUS
<1> QED
  BY <1>1, Zenon

\* Four divisions by 16 leave nothing of 16 bits.
LEMMA ShortBound ==
  /\ UINT16_MAX \in Nat
  /\ \A n \in Nat : n <= UINT16_MAX => (((n \div 16) \div 16) \div 16) \div 16 = 0
<1>1. ASSUME NEW n \in Nat, n <= UINT16_MAX PROVE (((n \div 16) \div 16) \div 16) \div 16 = 0
  BY <1>1, SMT DEF UINT16_MAX
<1>2. UINT16_MAX \in Nat
  BY SMT DEF UINT16_MAX
<1> QED
  BY <1>1, <1>2

\* 16 bits are four digits.
LEMMA FourDigits ==
  ASSUME NEW n \in 0..UINT16_MAX
  PROVE  /\ Rest(n, 16) \in [0..16 -> Nat] /\ Rest(n, 16)[0] = n
         /\ \A k \in 1..16 : Rest(n, 16)[k] = Rest(n, 16)[k - 1] \div 16
         /\ Rest(n, 16)[4] = 0
<1> DEFINE R == Rest(n, 16)
<1>1. n \in Nat /\ n <= UINT16_MAX
  <2>1. \A m \in Nat : \A k \in 0..m : k \in Nat /\ k <= m
    OBVIOUS
  <2> QED
    BY <2>1, ShortBound, Zenon
<1>2. 16 \in Nat \ {0}
  OBVIOUS
<1>3. R \in [0..16 -> Nat] /\ R[0] = n /\ \A k \in 1..16 : R[k] = R[k - 1] \div 16
  BY <1>1, <1>2, RestDefined
<1> HIDE DEF R
<1>4. R[1] = n \div 16 /\ R[2] = R[1] \div 16 /\ R[3] = R[2] \div 16 /\ R[4] = R[3] \div 16
  <2>1. /\ 1 \in 1..16 /\ 2 \in 1..16 /\ 3 \in 1..16 /\ 4 \in 1..16
        /\ 1 - 1 = 0 /\ 2 - 1 = 1 /\ 3 - 1 = 2 /\ 4 - 1 = 3
    OBVIOUS
  <2> QED
    BY <1>3, <2>1
<1>5. R[4] = 0
  BY <1>1, <1>4, ShortBound, Zenon
<1> QED
  BY <1>3, <1>5 DEF R

\* A number of 16 bits as std::hex writes it has no leading zero, unless it is zero.
LEMMA SmallHex ==
  ASSUME NEW n \in 0..UINT16_MAX
  PROVE  LET h == Hex(n, 1, Upper)
         IN  /\ h \in HexText /\ Len(h) \in 1..4 /\ Value(h) = n
             /\ n # 0 => h[1] # "0"
             /\ Len(h) = 1 \/ h[1] # "0"
<1> DEFINE R == Rest(n, 16)
           h == Hex(n, 1, Upper)
<1>1. /\ R \in [0..16 -> Nat] /\ R[0] = n /\ R[4] = 0
      /\ \A k \in 1..16 : R[k] = R[k - 1] \div 16
  BY FourDigits
<1> HIDE DEF R
<1>2. PICK len \in 1..4 : R[len] = 0 /\ \A k \in 1 .. len - 1 : R[k] # 0
  <2>1. CASE R[1] = 0
    <3>1. 1 \in 1..4 /\ \A k \in 1 .. 1 - 1 : R[k] # 0
      OBVIOUS
    <3> QED
      BY <2>1, <3>1
  <2>2. CASE R[1] # 0 /\ R[2] = 0
    <3>1. 2 \in 1..4 /\ \A k \in 1 .. 2 - 1 : k = 1
      OBVIOUS
    <3> QED
      BY <2>2, <3>1
  <2>3. CASE R[1] # 0 /\ R[2] # 0 /\ R[3] = 0
    <3>1. 3 \in 1..4 /\ \A k \in 1 .. 3 - 1 : k = 1 \/ k = 2
      OBVIOUS
    <3> QED
      BY <2>3, <3>1
  <2>4. CASE R[1] # 0 /\ R[2] # 0 /\ R[3] # 0
    <3>1. 4 \in 1..4 /\ \A k \in 1 .. 4 - 1 : k = 1 \/ k = 2 \/ k = 3
      OBVIOUS
    <3> QED
      BY <1>1, <2>4, <3>1
  <2> QED
    BY <2>1, <2>2, <2>3, <2>4
<1>3. /\ h \in HexText /\ Len(h) = len /\ Value(h) = n
      /\ h[1] = Upper[(R[len - 1] % 16) + 1]
  <2>1. /\ n \in Nat /\ 1 \in 1..16 /\ Upper \in {Lower, Upper} /\ len \in 1..16
        /\ R[len] = 0 /\ \A k \in 1 .. len - 1 : R[k] # 0
    BY <1>2
  <2>2. /\ Rest(n, 16)[len] = 0 /\ \A k \in 1 .. len - 1 : Rest(n, 16)[k] # 0
    BY <2>1, Zenon DEF R
  <2>3. /\ Hex(n, 1, Upper) \in HexText /\ Len(Hex(n, 1, Upper)) = len
        /\ Value(Hex(n, 1, Upper)) = n
        /\ Hex(n, 1, Upper)[1] = Upper[(Rest(n, 16)[len - 1] % 16) + 1]
    <3>1. n \in Nat /\ 1 \in 1..16 /\ Upper \in {Lower, Upper} /\ len \in 1..16
      BY <2>1
    <3> HIDE DEF R
    <3>2. Reads(n, 1, Upper, len)
      BY <2>2, <3>1, HexReads, Zenon
    <3> QED
      BY <3>2, Zenon DEF Reads
  <2> QED
    BY <2>3, Zenon DEF R
<1> HIDE DEF h
<1>4. R[len - 1] \in 0..15
  <2>1. len \in 1..16 /\ len - 1 \in 0..16
    OBVIOUS
  <2>2. R[len - 1] \in Nat /\ R[len - 1] \div 16 = 0
    BY <1>1, <1>2, <2>1
  <2> QED
    BY <2>2
<1>5. R[len - 1] # 0 => h[1] # "0"
  <2>1. R[len - 1] % 16 = R[len - 1]
    BY <1>4
  <2>2. h[1] = Upper[R[len - 1] + 1] /\ Upper \in {Lower, Upper}
    BY <1>3, <2>1
  <2> QED
    BY <1>4, <2>2, DigitOf
<1>6. len # 1 => R[len - 1] # 0
  <2>1. len # 1 => len - 1 \in 1 .. len - 1
    OBVIOUS
  <2> QED
    BY <1>2, <2>1
<1>7. n # 0 => R[len - 1] # 0
  <2>1. CASE len = 1
    BY <1>1, <2>1
  <2> QED
    BY <1>6, <2>1
<1> QED
  BY <1>2, <1>3, <1>5, <1>6, <1>7 DEF h

\* Nothing is stripped of a number without a leading zero.
LEMMA SignificantAll ==
  ASSUME NEW s \in HexText, Len(s) >= 1, Len(s) = 1 \/ s[1] # "0"
  PROVE  Significant(s) = s
<1> DEFINE Z == {n \in 1 .. Len(s) - 1 : \A i \in 1..n : s[i] = "0"}
<1>1. Len(s) \in Nat
  BY DEF HexText
<1>2. Z = {}
  <2>1. SUFFICES ASSUME NEW n \in Z PROVE FALSE
    OBVIOUS
  <2>2. n \in 1 .. Len(s) - 1 /\ 1 \in 1..n
    BY <1>1
  <2>3. s[1] = "0"
    BY <2>2
  <2>4. Len(s) # 1
    <3>1. \A x \in Nat : n \in 1 .. x - 1 => x # 1
      OBVIOUS
    <3> QED
      BY <1>1, <2>2, <3>1, Zenon
  <2> QED
    BY <2>3, <2>4, Zenon
<1>3. Cardinality(Z) = 0
  BY <1>2, FS_EmptySet
<1>4. Significant(s) = SubSeq(s, 1 + Cardinality(Z), Len(s))
  BY DEF Significant
<1> HIDE DEF Z
<1>5. Significant(s) = SubSeq(s, 1, Len(s))
  <2>1. 1 + 0 = 1
    OBVIOUS
  <2> QED
    BY <1>3, <1>4, <2>1
<1> QED
  BY <1>5, SubSeqFull DEF HexText

\* No digits are zero.
LEMMA ValueOfNone == Value(<<>>) = 0
<1> DEFINE d == [i \in DOMAIN <<>> |-> Digit[<<>>[i]]]
<1>1. d = <<>> /\ d \in Seq(Nat) /\ Len(d) = 0
  OBVIOUS
<1> DEFINE base == 16
<1>2. base \in Nat
  OBVIOUS
<1> HIDE DEF d, base
<1>3. PICK g : g[0] = 0 /\ Number(d, base) = g[Len(d)]
  BY <1>1, <1>2, NumberDefined, Zenon
<1>4. Number(d, base) = 0
  BY <1>1, <1>3, Zenon
<1> QED
  BY <1>4 DEF Value, d, base

\* segmentToUint32() accepts the digits of a number that fits into 32 bits.
LEMMA IsUint32 ==
  ASSUME NEW s \in HexText, Len(s) \in 1..8, Len(s) = 1 \/ s[1] # "0"
  PROVE  isUint32(s) /\ Significant(Leading(s)) = s
<1>1. Leading(s) = s /\ Significant(s) = s
  <2>1. \A x : x \in 1..8 => x >= 1
    OBVIOUS
  <2>2. Len(s) >= 1
    BY <2>1, Zenon
  <2> QED
    BY <2>2, LeadingAll, SignificantAll, Zenon
<1>2. s # <<>>
  <2>1. Len(<<>>) \notin 1..8
    OBVIOUS
  <2> QED
    BY <2>1, Zenon
<1>3. \A i \in DOMAIN s : isHex(s[i])
  BY DEF HexText, isHex
<1>4. \A x : x \in 1..8 => x <= 8
  OBVIOUS
<1>5. Len(Significant(s)) <= 8
  BY <1>1, <1>4, Zenon
<1> QED
  BY <1>1, <1>2, <1>3, <1>5, Zenon DEF isUint32

\* A number of at most four digits has no upper half.
LEMMA ShortNumber ==
  ASSUME NEW s \in HexText, Len(s) \in 1..4, Len(s) = 1 \/ s[1] # "0"
  PROVE  isUint32(s) /\ High(s) = 0 /\ Low(s) = Value(s)
<1>1. isUint32(s) /\ Significant(Leading(s)) = s
  <2>1. \A x : x \in 1..4 => x \in 1..8
    OBVIOUS
  <2>2. Len(s) \in 1..8
    BY <2>1, Zenon
  <2> QED
    BY <2>2, IsUint32, Zenon
<1>2. SubSeq(s, 1, Len(s) - 4) = <<>>
  <2>1. \A x : x \in 1..4 => 1 \in Int /\ x - 4 \in Int /\ x - 4 < 1
    OBVIOUS
  <2>2. 1 \in Int /\ Len(s) - 4 \in Int /\ Len(s) - 4 < 1
    BY <2>1, Zenon
  <2>3. s \in Seq(DOMAIN Digit)
    BY DEF HexText
  <2> QED
    BY <2>2, <2>3, SubSeqEmpty
<1>3. High(s) = 0
  BY <1>1, <1>2, ValueOfNone DEF High
<1>4. Max({1, Len(s) - 3}) = 1
  <2>1. ASSUME NEW x \in 1..4 PROVE Max({1, x - 3}) = 1
    <3> DEFINE T == {1, x - 3}
    <3>1. \A z \in T : (\A y \in T : z >= y) => z = 1
      OBVIOUS
    <3>2. 1 \in T /\ \A y \in T : 1 >= y
      OBVIOUS
    <3> HIDE DEF T
    <3>3. Max(T) = 1
      BY <3>1, <3>2 DEF Max
    <3> QED
      BY <3>3 DEF T
  <2> QED
    BY <2>1, Zenon
<1>5. SubSeq(s, 1, Len(s)) = s
  BY SubSeqFull DEF HexText
<1>6. Low(s) = Value(s)
  BY <1>1, <1>4, <1>5 DEF Low
<1> QED
  BY <1>1, <1>3, <1>6

\* Versions and resource ids are read as they were written.
LEMMA SmallReads ==
  ASSUME NEW n \in 0..UINT16_MAX
  PROVE  LET h == Hex(n, 1, Upper)
         IN  h \in HexText /\ isUint32(h) /\ SmallNumber(h) = n
<1> DEFINE h == Hex(n, 1, Upper)
<1>1. h \in HexText /\ Len(h) \in 1..4 /\ Value(h) = n /\ (Len(h) = 1 \/ h[1] # "0")
  BY SmallHex
<1> HIDE DEF h
<1>2. isUint32(h) /\ High(h) = 0 /\ Low(h) = Value(h)
  BY <1>1, ShortNumber
<1> QED
  BY <1>1, <1>2 DEF SmallNumber, h

\* So is ue_id, with the instance in its upper and the service in its lower half.
LEMMA EntityIdReads ==
  ASSUME NEW u, u.instance \in 0..UINT16_MAX, u.service \in 0..UINT16_MAX
  PROVE  LET e == EntityId(u)
         IN  /\ e \in HexText /\ isUint32(e)
             /\ High(e) = u.instance /\ Low(e) = u.service
<1> DEFINE e == EntityId(u)
<1>1. CASE u.instance = 0
  <2> DEFINE h == Hex(u.service, 1, Upper)
  <2>1. e = h
    BY <1>1 DEF EntityId
  <2>2. /\ h \in HexText /\ Len(h) \in 1..4 /\ Value(h) = u.service
        /\ Len(h) = 1 \/ h[1] # "0"
    BY SmallHex
  <2> HIDE DEF h
  <2>3. isUint32(h) /\ High(h) = 0 /\ Low(h) = Value(h)
    BY <2>2, ShortNumber
  <2> QED
    BY <1>1, <2>1, <2>2, <2>3
<1>2. CASE u.instance # 0
  <2> DEFINE a == Hex(u.instance, 1, Upper)
             b == Hex(u.service, 4, Upper)
             s == a \o b
             D == DOMAIN Digit
  <2>1. e = s
    BY <1>2 DEF EntityId
  <2>2. a \in Seq(D) /\ Len(a) \in 1..4 /\ Value(a) = u.instance /\ a[1] # "0"
    BY <1>2, SmallHex DEF HexText
  <2>3. b \in Seq(D) /\ Len(b) = 4 /\ Value(b) = u.service
    <3>1. Rest(u.service, 16)[4] = 0
      BY FourDigits
    <3>2. u.service \in Nat /\ 4 \in 1..16 /\ Upper \in {Lower, Upper}
      <4>1. 4 \in 1..16
        OBVIOUS
      <4>2. Upper \in {Lower, Upper}
        BY Zenon
      <4> QED
        BY <4>1, <4>2, ShortIsNat, Zenon
    <3>3. b \in HexText /\ Len(b) = 4 /\ Value(b) = u.service
      BY <3>1, <3>2, HexFits, Zenon
    <3> QED
      BY <3>3 DEF HexText
  <2> HIDE DEF a, b, D
  <2>4. /\ s \in Seq(D) /\ Len(s) = Len(a) + Len(b) /\ Holds(s, Len(a), b)
        /\ \A o \in Nat, h \in Seq(D) : Holds(a, o, h) /\ o + Len(h) <= Len(a) => Holds(s, o, h)
    BY <2>2, <2>3, HoldsConcat
  <2> HIDE DEF s
  <2>5. Holds(s, 0, a)
    <3>1. Holds(a, 0, a)
      <4>1. \A i \in 1..Len(a) : 0 + i = i
        BY <2>2
      <4> QED
        BY <4>1 DEF Holds
    <3>2. 0 \in Nat /\ 0 + Len(a) <= Len(a)
      BY <2>2
    <3> QED
      BY <2>2, <2>4, <3>1, <3>2
  <2>6. Len(s) = Len(a) + 4 /\ Len(s) \in 1..8 /\ Len(a) \in Nat
    <3>1. \A x \in 1..4 : x + 4 \in 1..8 /\ x \in Nat
      OBVIOUS
    <3>2. Len(s) = Len(a) + 4
      BY <2>3, <2>4, Zenon
    <3> QED
      BY <2>2, <3>1, <3>2, Zenon
  <2>7. s[1] # "0"
    <3>1. 1 \in 1..Len(a) /\ 0 + 1 = 1
      BY <2>2
    <3>2. s[1] = a[1]
      BY <2>5, <3>1 DEF Holds
    <3> QED
      BY <2>2, <3>2
  <2>8. s \in HexText
    BY <2>4 DEF HexText, D
  <2>9. isUint32(s) /\ Significant(Leading(s)) = s
    BY <2>6, <2>7, <2>8, IsUint32
  <2>10. High(s) = u.instance
    <3>1. Len(s) - 4 = Len(a) /\ Len(a) <= Len(s)
      BY <2>6
    <3>2. SubSeq(s, 1, Len(a)) = a
      BY <2>2, <2>4, <2>5, <3>1, CutEnds, Zenon
    <3> QED
      BY <2>2, <2>9, <3>1, <3>2 DEF High
  <2>11. Low(s) = u.service
    <3>1. SubSeq(s, Len(a) + 1, Len(s)) = b
      BY <2>3, <2>4, <2>6, CutEnds, Zenon
    <3>2. Max({1, Len(s) - 3}) = Len(a) + 1
      <4> DEFINE T == {1, Len(s) - 3}
                 m == Len(a) + 1
      <4>1. T = {1, m} /\ m > 1 /\ m \in Nat
        BY <2>2, <2>6
      <4> HIDE DEF T, m
      <4>2. \A z \in T : (\A y \in T : z >= y) => z = m
        BY <4>1
      <4>3. m \in T /\ \A y \in T : m >= y
        BY <4>1
      <4>4. Max(T) = m
        BY <4>2, <4>3 DEF Max
      <4> QED
        BY <4>4 DEF T, m
    <3> QED
      BY <2>3, <2>9, <3>1, <3>2 DEF Low
  <2> QED
    BY <2>1, <2>8, <2>9, <2>10, <2>11
<1> QED
  BY <1>1, <1>2

-------------------------------------------------------------------------------
(* UUris as text: what is written is read. *)

\* What the numbers of a UUri are read from
LEMMA NumbersOf ==
  ASSUME NEW a, NEW view, NEW x
  PROVE  x \in ReadNumbers(a, view) <=>
            \E id \in extractSegment(view) : \E v \in extractSegment(id.rest) :
               LET y == [authority |-> a, instance |-> High(id.segment),
                         service |-> Low(id.segment), version |-> SmallNumber(v.segment),
                         resource |-> SmallNumber(v.rest)]
               IN  /\ isUint32(id.segment) /\ isUint32(v.segment) /\ isUint32(v.rest)
                   /\ isValidFilter(y)
                   /\ x = y
<1> DEFINE Y(id, v) == [authority |-> a, instance |-> High(id.segment),
                        service |-> Low(id.segment), version |-> SmallNumber(v.segment),
                        resource |-> SmallNumber(v.rest)]
           Good(id, v) == /\ isUint32(id.segment) /\ isUint32(v.segment) /\ isUint32(v.rest)
                          /\ isValidFilter(Y(id, v))
           From(id) == {Y(id, version) : version \in {v \in extractSegment(id.rest) : Good(id, v)}}
<1>1. ReadNumbers(a, view) = UNION {From(id) : id \in extractSegment(view)}
  BY Zenon DEF ReadNumbers
<1>2. \A id : x \in From(id) <=> \E v \in extractSegment(id.rest) : Good(id, v) /\ x = Y(id, v)
  BY Zenon
<1> HIDE DEF From, Good
<1>3. x \in ReadNumbers(a, view) <=> \E id \in extractSegment(view) : x \in From(id)
  BY <1>1, Zenon
<1>4. x \in ReadNumbers(a, view) <=>
         \E id \in extractSegment(view) : \E v \in extractSegment(id.rest) : Good(id, v) /\ x = Y(id, v)
  BY <1>2, <1>3, Zenon
<1> QED
  BY <1>4, Zenon DEF Good

\* What a UUri is read from
LEMMA UriOf ==
  ASSUME NEW t, NEW x
  PROVE  LET Remote(prefix) ==
                \E name \in extractSegment(SubSeq(t, Len(prefix) + 1, Len(t))) :
                    x \in ReadNumbers(Name(name.segment), name.rest)
         IN  x \in ReadUri(t) <=>
                \/ IsPrefix(SCHEMA_PREFIX, t) /\ Remote(SCHEMA_PREFIX)
                \/ ~IsPrefix(SCHEMA_PREFIX, t) /\ IsPrefix(REMOTE_PREFIX, t) /\ Remote(REMOTE_PREFIX)
                \/ /\ ~IsPrefix(SCHEMA_PREFIX, t) /\ ~IsPrefix(REMOTE_PREFIX, t)
                   /\ IsPrefix(LOCAL_PREFIX, t)
                   /\ x \in ReadNumbers("", SubSeq(t, Len(LOCAL_PREFIX) + 1, Len(t)))
  BY Zenon DEF ReadUri

\* The same, case by case
LEMMA UriOfCases ==
  ASSUME NEW t, NEW prefix, NEW rest
  PROVE  /\ /\ \/ prefix = SCHEMA_PREFIX
               \/ prefix = REMOTE_PREFIX /\ ~IsPrefix(SCHEMA_PREFIX, t)
            /\ IsPrefix(prefix, t) /\ SubSeq(t, Len(prefix) + 1, Len(t)) = rest
            => \A x : x \in ReadUri(t) <=>
                  \E name \in extractSegment(rest) : x \in ReadNumbers(Name(name.segment), name.rest)
         /\ /\ prefix = LOCAL_PREFIX
            /\ ~IsPrefix(SCHEMA_PREFIX, t) /\ ~IsPrefix(REMOTE_PREFIX, t)
            /\ IsPrefix(prefix, t) /\ SubSeq(t, Len(prefix) + 1, Len(t)) = rest
            => \A x : x \in ReadUri(t) <=> x \in ReadNumbers("", rest)
<1> DEFINE Remote(x) == \E name \in extractSegment(rest) : x \in ReadNumbers(Name(name.segment), name.rest)
<1>1. ASSUME prefix = SCHEMA_PREFIX, IsPrefix(prefix, t), SubSeq(t, Len(prefix) + 1, Len(t)) = rest
      PROVE  \A x : x \in ReadUri(t) <=> Remote(x)
  BY <1>1, UriOf, Zenon
<1>2. ASSUME prefix = REMOTE_PREFIX, ~IsPrefix(SCHEMA_PREFIX, t), IsPrefix(prefix, t),
             SubSeq(t, Len(prefix) + 1, Len(t)) = rest
      PROVE  \A x : x \in ReadUri(t) <=> Remote(x)
  BY <1>2, UriOf, Zenon
<1>3. ASSUME prefix = LOCAL_PREFIX, ~IsPrefix(SCHEMA_PREFIX, t), ~IsPrefix(REMOTE_PREFIX, t),
             IsPrefix(prefix, t), SubSeq(t, Len(prefix) + 1, Len(t)) = rest
      PROVE  \A x : x \in ReadUri(t) <=> x \in ReadNumbers("", rest)
  BY <1>3, UriOf, Zenon
<1> QED
  BY <1>1, <1>2, <1>3, Zenon

\* The characters of the text of a UUri, and the text that follows its authority
UriChars(u) == DOMAIN Digit \union {"/", "u", "p", ":", u.authority}
NumbersText(u) ==
    EntityId(u) \o (<<"/">> \o (Hex(u.version, 1, Upper) \o (<<"/">> \o Hex(u.resource, 1, Upper))))

\* A number is part of the text of a UUri, and a segment of it.
LEMMA UriTexts ==
  ASSUME NEW u
  PROVE  /\ \A s \in HexText : s \in Seq(UriChars(u)) /\ Unbroken(s)
         /\ "/" \in UriChars(u) /\ <<"/">> \in Seq(UriChars(u))
<1>1. \A s \in HexText : s \in Seq(UriChars(u))
  BY SeqMonotonic DEF HexText, UriChars
<1>2. "/" \in UriChars(u)
  BY DEF UriChars
<1> HIDE DEF UriChars
<1>3. <<"/">> \in Seq(UriChars(u))
  BY <1>2
<1> QED
  BY <1>1, <1>2, <1>3, HexUnbroken

\* What fits into 8 or 16 bits fits into 16 bits.
LEMMA AtMostShort ==
  \A n \in Nat : n <= UINT8_MAX \/ n <= UINT16_MAX => n \in 0..UINT16_MAX
<1>1. UINT16_MAX \in Nat /\ UINT8_MAX \in Nat /\ UINT8_MAX <= UINT16_MAX
  BY SMT DEF UINT16_MAX, UINT8_MAX
<1>2. \A k, m, n \in Nat : k <= m /\ (n <= k \/ n <= m) => n \in 0..m
  OBVIOUS
<1> QED
  BY <1>1, <1>2, Zenon

\* The numbers of a UUri are read as themselves.
LEMMA NumbersRead ==
  ASSUME NEW u \in UUriRecords, isValidFilter(u)
  PROVE  /\ NumbersText(u) \in Seq(UriChars(u))
         /\ Len(NumbersText(u)) >= 1 /\ NumbersText(u)[1] # "/"
         /\ ReadNumbers(u.authority, NumbersText(u)) = {u}
<1> DEFINE S == UriChars(u)
           E == EntityId(u)
           V == Hex(u.version, 1, Upper)
           R == Hex(u.resource, 1, Upper)
           c == <<"/">>
           VR == V \o (c \o R)
           T == E \o (c \o VR)
           id == [segment |-> E, rest |-> VR]
           v == [segment |-> V, rest |-> R]
<1>1. /\ u.instance \in 0..UINT16_MAX /\ u.service \in 0..UINT16_MAX
      /\ u = [authority |-> u.authority, instance |-> u.instance, service |-> u.service,
              version |-> u.version, resource |-> u.resource]
  BY DEF UUriRecords
<1>2. u.version \in 0..UINT16_MAX /\ u.resource \in 0..UINT16_MAX
  <2>1. u.version \in Nat /\ u.resource \in Nat
    BY DEF UUriRecords
  <2>2. u.version <= UINT8_MAX /\ u.resource <= UINT16_MAX
    BY Zenon DEF isValidFilter, uriCommonValidChecks
  <2> QED
    BY <2>1, <2>2, AtMostShort, Zenon
<1>3. E \in HexText /\ isUint32(E) /\ High(E) = u.instance /\ Low(E) = u.service
  BY <1>1, EntityIdReads, Zenon
<1>4. V \in HexText /\ isUint32(V) /\ SmallNumber(V) = u.version
  BY <1>2, SmallReads, Zenon
<1>5. R \in HexText /\ isUint32(R) /\ SmallNumber(R) = u.resource
  BY <1>2, SmallReads, Zenon
<1>6. NumbersText(u) = T
  BY Zenon DEF NumbersText
<1>7. id.segment = E /\ id.rest = VR /\ v.segment = V /\ v.rest = R
  OBVIOUS
<1> HIDE DEF E, V, R
<1>8. /\ E \in Seq(S) /\ V \in Seq(S) /\ R \in Seq(S) /\ Unbroken(E) /\ Unbroken(V)
      /\ "/" \in S /\ c \in Seq(S)
  BY <1>3, <1>4, <1>5, UriTexts, Zenon
<1> HIDE DEF S, c
<1>9. c \o R \in Seq(S)
  BY <1>8, ConcatProperties, Zenon
<1>10. VR \in Seq(S)
  BY <1>8, <1>9, ConcatProperties, Zenon
<1>11. extractSegment(VR) = {v}
  BY <1>8, ExtractFirst, Zenon DEF c
<1> HIDE DEF VR
<1>12. extractSegment(T) = {id}
  BY <1>8, <1>10, ExtractFirst, Zenon DEF c
<1>13. c \o VR \in Seq(S)
  BY <1>8, <1>10, ConcatProperties, Zenon
<1>14. T \in Seq(S) /\ Len(T) >= 1 /\ T[1] # "/"
  <2>1. E # <<>>
    BY <1>3 DEF isUint32
  <2>2. Len(E) \in Nat /\ Len(E) # 0
    BY <1>8, <2>1
  <2> DEFINE x == c \o VR
  <2>3. Len(x) \in Nat
    BY <1>13
  <2> HIDE DEF x
  <2>4. /\ T \in Seq(S) /\ Len(T) = Len(E) + Len(x)
        /\ \A i \in 1 .. Len(E) + Len(x) : T[i] = IF i <= Len(E) THEN E[i] ELSE x[i - Len(E)]
    BY <1>8, <1>13, ConcatProperties, Zenon DEF x
  <2>5. 1 \in 1 .. Len(E) + Len(x) /\ 1 <= Len(E) /\ 1 \in 1..Len(E)
    BY <2>2, <2>3
  <2>6. T[1] = E[1]
    BY <2>4, <2>5
  <2>7. E[1] # "/"
    BY <1>8, <2>5 DEF Unbroken
  <2>8. Len(T) >= 1
    BY <2>2, <2>3, <2>4
  <2> QED
    BY <2>4, <2>6, <2>7, <2>8
<1> HIDE DEF T, id, v
<1>15. ASSUME NEW x PROVE x \in ReadNumbers(u.authority, T) <=> x = u
  <2> DEFINE y == [authority |-> u.authority, instance |-> High(id.segment),
                   service |-> Low(id.segment), version |-> SmallNumber(v.segment),
                   resource |-> SmallNumber(v.rest)]
  <2>1. y = u
    BY <1>1, <1>3, <1>4, <1>5, <1>7, Zenon
  <2>2. isUint32(id.segment) /\ isUint32(v.segment) /\ isUint32(v.rest) /\ isValidFilter(y)
    BY <1>3, <1>4, <1>5, <1>7, <2>1, Zenon
  <2>3. \A i : i \in extractSegment(T) <=> i = id
    BY <1>12, Zenon
  <2>4. \A w : w \in extractSegment(id.rest) <=> w = v
    BY <1>7, <1>11, Zenon
  <2>5. x \in ReadNumbers(u.authority, T) => x = y
    <3>1. ASSUME x \in ReadNumbers(u.authority, T) PROVE x = y
      <4>1. PICK i \in extractSegment(T) : \E w \in extractSegment(i.rest) :
               x = [authority |-> u.authority, instance |-> High(i.segment),
                    service |-> Low(i.segment), version |-> SmallNumber(w.segment),
                    resource |-> SmallNumber(w.rest)]
        <5>1. \E i \in extractSegment(T) : \E w \in extractSegment(i.rest) :
                 LET z == [authority |-> u.authority, instance |-> High(i.segment),
                           service |-> Low(i.segment), version |-> SmallNumber(w.segment),
                           resource |-> SmallNumber(w.rest)]
                 IN  /\ isUint32(i.segment) /\ isUint32(w.segment) /\ isUint32(w.rest)
                     /\ isValidFilter(z)
                     /\ x = z
          BY <3>1, NumbersOf, Zenon
        <5> QED
          BY <5>1, Zenon
      <4> QED
        BY <2>3, <2>4, <4>1, Zenon
    <3> QED
      BY <3>1
  <2>6. y \in ReadNumbers(u.authority, T)
    <3>1. id \in extractSegment(T) /\ v \in extractSegment(id.rest)
      BY <2>3, <2>4, Zenon
    <3> QED
      BY <2>2, <3>1, NumbersOf, Zenon
  <2> QED
    BY <2>1, <2>5, <2>6, Zenon
<1> QED
  <2>1. ReadNumbers(u.authority, T) = {u}
    BY <1>15
  <2> QED
    BY <1>6, <1>14, <2>1 DEF S

\* The text of a UUri, from its end
LEMMA UriTextIs ==
  ASSUME NEW u \in UUriRecords, isValidFilter(u)
  PROVE  UriText(u) = (IF isLocal(u) THEN <<>> ELSE <<"/", "/", u.authority>>)
                         \o (<<"/">> \o NumbersText(u))
<1> DEFINE S == UriChars(u)
           E == EntityId(u)
           V == Hex(u.version, 1, Upper)
           R == Hex(u.resource, 1, Upper)
           c == <<"/">>
           P == IF isLocal(u) THEN <<>> ELSE <<"/", "/", u.authority>>
<1>1. u.instance \in 0..UINT16_MAX /\ u.service \in 0..UINT16_MAX
  BY DEF UUriRecords
<1>2. u.version \in 0..UINT16_MAX /\ u.resource \in 0..UINT16_MAX
  <2>1. u.version \in Nat /\ u.resource \in Nat
    BY DEF UUriRecords
  <2>2. u.version <= UINT8_MAX /\ u.resource <= UINT16_MAX
    BY Zenon DEF isValidFilter, uriCommonValidChecks
  <2> QED
    BY <2>1, <2>2, AtMostShort, Zenon
<1>3. E \in HexText /\ V \in HexText /\ R \in HexText
  BY <1>1, <1>2, EntityIdReads, SmallReads, Zenon
<1>4. UriText(u) = P \o c \o E \o c \o V \o c \o R
  BY Zenon DEF UriText
<1>5. P \in Seq(S)
  <2>1. "/" \in S /\ u.authority \in S
    BY DEF UriChars
  <2> HIDE DEF S
  <2>2. <<>> \in Seq(S) /\ <<"/", "/", u.authority>> \in Seq(S)
    BY <2>1
  <2> QED
    BY <2>2
<1>6. NumbersText(u) = E \o (c \o (V \o (c \o R)))
  BY Zenon DEF NumbersText
<1> HIDE DEF E, V, R, P
<1>7. E \in Seq(S) /\ V \in Seq(S) /\ R \in Seq(S) /\ c \in Seq(S)
  BY <1>3, UriTexts, Zenon
<1> HIDE DEF S, c
<1> DEFINE Cat(x, y) == x \o y
           p1 == Cat(P, c)
           p2 == Cat(p1, E)
           p3 == Cat(p2, c)
           p4 == Cat(p3, V)
           s1 == Cat(c, R)
           s2 == Cat(V, s1)
           s3 == Cat(c, s2)
           s4 == Cat(E, s3)
<1>8. \A x, y, z \in Seq(S) : Cat(Cat(x, y), z) = Cat(x, Cat(y, z))
  BY ConcatAssociative
<1>9. \A x, y \in Seq(S) : Cat(x, y) \in Seq(S)
  BY ConcatProperties, Zenon
<1>19. UriText(u) = Cat(Cat(p4, c), R) /\ NumbersText(u) = s4
  BY <1>4, <1>6, Zenon
<1> HIDE DEF Cat
<1>10. p1 \in Seq(S) /\ s1 \in Seq(S)
  BY <1>5, <1>7, <1>9, Zenon
<1>11. p2 \in Seq(S) /\ s2 \in Seq(S)
  BY <1>7, <1>9, <1>10, Zenon
<1>12. p3 \in Seq(S) /\ s3 \in Seq(S)
  BY <1>7, <1>9, <1>11, Zenon
<1>13. p4 \in Seq(S) /\ s4 \in Seq(S)
  BY <1>7, <1>9, <1>12, Zenon
<1> HIDE DEF p1, p2, p3, p4, s1, s2, s3, s4
<1>14. Cat(Cat(p4, c), R) = Cat(p4, s1)
  <2>1. p4 \in Seq(S) /\ c \in Seq(S) /\ R \in Seq(S)
    BY <1>7, <1>13, Zenon
  <2>2. Cat(Cat(p4, c), R) = Cat(p4, Cat(c, R))
    BY <1>8, <2>1, Zenon
  <2> QED
    BY <2>2, Zenon DEF s1
<1>15. Cat(p4, s1) = Cat(p3, s2)
  <2>1. p3 \in Seq(S) /\ V \in Seq(S) /\ s1 \in Seq(S)
    BY <1>7, <1>10, <1>12, Zenon
  <2>2. Cat(Cat(p3, V), s1) = Cat(p3, Cat(V, s1))
    BY <1>8, <2>1, Zenon
  <2> QED
    BY <2>2, Zenon DEF p4, s2
<1>16. Cat(p3, s2) = Cat(p2, s3)
  <2>1. p2 \in Seq(S) /\ c \in Seq(S) /\ s2 \in Seq(S)
    BY <1>7, <1>11, Zenon
  <2>2. Cat(Cat(p2, c), s2) = Cat(p2, Cat(c, s2))
    BY <1>8, <2>1, Zenon
  <2> QED
    BY <2>2, Zenon DEF p3, s3
<1>17. Cat(p2, s3) = Cat(p1, s4)
  <2>1. p1 \in Seq(S) /\ E \in Seq(S) /\ s3 \in Seq(S)
    BY <1>7, <1>10, <1>12, Zenon
  <2>2. Cat(Cat(p1, E), s3) = Cat(p1, Cat(E, s3))
    BY <1>8, <2>1, Zenon
  <2> QED
    BY <2>2, Zenon DEF p2, s4
<1>18. Cat(p1, s4) = Cat(P, Cat(c, s4))
  <2>1. P \in Seq(S) /\ c \in Seq(S) /\ s4 \in Seq(S)
    BY <1>5, <1>7, <1>13, Zenon
  <2>2. Cat(Cat(P, c), s4) = Cat(P, Cat(c, s4))
    BY <1>8, <2>1, Zenon
  <2> QED
    BY <2>2, Zenon DEF p1
<1> QED
  <2>1. UriText(u) = Cat(P, Cat(c, NumbersText(u)))
    BY <1>14, <1>15, <1>16, <1>17, <1>18, <1>19, Zenon
  <2> QED
    BY <2>1, Zenon DEF P, c, Cat

\* A UUri that can be written is read as itself, with and without the scheme, by
\* deserialize().
THEOREM UriSurvives ==
  ASSUME NEW u \in UUriRecords, CanWriteUri(u), u.authority # "/"
  PROVE  /\ ReadUri(UriText(u)) = {u}
         /\ ~isLocal(u) => ReadUri(<<"u", "p", ":">> \o UriText(u)) = {u}
<1> DEFINE S == UriChars(u)
           N == NumbersText(u)
           a == u.authority
           c == <<"/">>
           body == c \o N
           named == <<a>> \o body
           nm == [segment |-> <<a>>, rest |-> N]
<1>1. isValidFilter(u)
  BY DEF CanWriteUri
<1>2. N \in Seq(S) /\ Len(N) >= 1 /\ N[1] # "/" /\ ReadNumbers(a, N) = {u}
  BY <1>1, NumbersRead, Zenon
<1>3. c \in Seq(S) /\ "/" \in S
  BY UriTexts, Zenon
<1>4. <<a>> \in Seq(S) /\ Unbroken(<<a>>) /\ Name(<<a>>) = a
  <2>1. a \in S
    BY DEF UriChars
  <2>2. <<a>> \in Seq(S)
    BY <2>1
  <2>3. Unbroken(<<a>>)
    BY DEF Unbroken
  <2>4. Name(<<a>>) = a
    BY DEF Name
  <2> QED
    BY <2>2, <2>3, <2>4, Zenon
<1>5. /\ SCHEMA_PREFIX \in Seq(S) /\ REMOTE_PREFIX \in Seq(S) /\ LOCAL_PREFIX \in Seq(S)
      /\ SCHEMA_PREFIX[1] = "u" /\ REMOTE_PREFIX[1] = "/" /\ REMOTE_PREFIX[2] = "/"
      /\ Len(SCHEMA_PREFIX) = 5 /\ Len(REMOTE_PREFIX) = 2 /\ Len(LOCAL_PREFIX) = 1
  BY DEF SCHEMA_PREFIX, REMOTE_PREFIX, LOCAL_PREFIX, UriChars
<1>6. ~isLocal(u) => UriText(u) = REMOTE_PREFIX \o named /\ <<"u", "p", ":">> \o UriText(u) = SCHEMA_PREFIX \o named
  <2> SUFFICES ASSUME ~isLocal(u)
               PROVE  UriText(u) = REMOTE_PREFIX \o named /\ <<"u", "p", ":">> \o UriText(u) = SCHEMA_PREFIX \o named
    OBVIOUS
  <2>1. UriText(u) = <<"/", "/", a>> \o body
    BY <1>1, UriTextIs, Zenon
  <2>2. body \in Seq(S)
    BY <1>2, <1>3, ConcatProperties, Zenon
  <2>3. <<"/", "/", a>> = REMOTE_PREFIX \o <<a>> /\ SCHEMA_PREFIX = <<"u", "p", ":">> \o REMOTE_PREFIX
        /\ <<"u", "p", ":">> \in Seq(S)
    BY DEF REMOTE_PREFIX, SCHEMA_PREFIX, UriChars
  <2> HIDE DEF body
  <2>4. (REMOTE_PREFIX \o <<a>>) \o body = REMOTE_PREFIX \o named
    BY <1>4, <1>5, <2>2, ConcatAssociative
  <2>5. named \in Seq(S)
    BY <1>4, <2>2, ConcatProperties, Zenon
  <2> HIDE DEF named
  <2>6. (<<"u", "p", ":">> \o REMOTE_PREFIX) \o named = <<"u", "p", ":">> \o (REMOTE_PREFIX \o named)
    BY <1>5, <2>3, <2>5, ConcatAssociative
  <2> QED
    BY <2>1, <2>3, <2>4, <2>6, Zenon
<1>7. isLocal(u) => UriText(u) = LOCAL_PREFIX \o N /\ a = ""
  <2> SUFFICES ASSUME isLocal(u) PROVE UriText(u) = LOCAL_PREFIX \o N /\ a = ""
    OBVIOUS
  <2>1. UriText(u) = <<>> \o body
    BY <1>1, UriTextIs, Zenon
  <2>2. body \in Seq(S)
    BY <1>2, <1>3, ConcatProperties, Zenon
  <2> HIDE DEF body
  <2>3. <<>> \o body = body
    BY <2>2, ConcatEmptySeq, Zenon
  <2> QED
    BY <2>1, <2>3 DEF body, LOCAL_PREFIX, isLocal
<1>8. /\ body \in Seq(S) /\ extractSegment(named) = {nm} /\ nm.segment = <<a>> /\ nm.rest = N
  <2>1. body \in Seq(S)
    BY <1>2, <1>3, ConcatProperties, Zenon
  <2>2. extractSegment(named) = {nm}
    BY <1>2, <1>3, <1>4, ExtractFirst, Zenon
  <2> QED
    BY <2>1, <2>2
<1> HIDE DEF body
<1>9. named \in Seq(S)
  BY <1>4, <1>8, ConcatProperties, Zenon
<1>10. \A i : i \in extractSegment(named) <=> i = nm
  BY <1>8, Zenon
<1> HIDE DEF S, N, a, c, named, nm
<1>11. \A x : x \in ReadNumbers(Name(nm.segment), nm.rest) <=> x = u
  BY <1>2, <1>4, <1>8, Zenon
<1>12. ASSUME NEW x \in Seq(S), Len(x) >= 1, x[1] = "/", NEW r \in Seq(S)
       PROVE  ~IsPrefix(SCHEMA_PREFIX, x \o r)
  <2> DEFINE t == x \o r
  <2>1. /\ t \in Seq(S) /\ Len(t) = Len(x) + Len(r)
        /\ \A i \in 1 .. Len(x) + Len(r) : t[i] = IF i <= Len(x) THEN x[i] ELSE r[i - Len(x)]
    BY <1>12, ConcatProperties, Zenon
  <2>2. Len(x) \in Nat /\ Len(r) \in Nat
    BY <1>12
  <2> HIDE DEF t
  <2>3. 1 \in 1 .. Len(x) + Len(r) /\ 1 <= Len(x)
    BY <1>12, <2>2
  <2>4. t[1] = "/"
    BY <1>12, <2>1, <2>3
  <2>5. 1 \in 1..Len(SCHEMA_PREFIX)
    BY <1>5
  <2>6. IsPrefix(SCHEMA_PREFIX, t) => t[1] = SCHEMA_PREFIX[1]
    BY <1>5, <2>1, <2>5, PrefixAgrees, Zenon
  <2> QED
    BY <1>5, <2>4, <2>6 DEF t
<1>13. ~isLocal(u) => ReadUri(UriText(u)) = {u}
  <2> SUFFICES ASSUME ~isLocal(u) PROVE ReadUri(UriText(u)) = {u}
    OBVIOUS
  <2> DEFINE t == REMOTE_PREFIX \o named
  <2>1. t \in Seq(S) /\ IsPrefix(REMOTE_PREFIX, t) /\ SubSeq(t, Len(REMOTE_PREFIX) + 1, Len(t)) = named
    BY <1>5, <1>9, AfterPrefix, Zenon
  <2>2. Len(REMOTE_PREFIX) >= 1
    BY <1>5
  <2>3. ~IsPrefix(SCHEMA_PREFIX, t)
    BY <1>5, <1>9, <1>12, <2>2, Zenon
  <2>4. UriText(u) = t
    BY <1>6, Zenon
  <2> HIDE DEF t
  <2>5. \A x : x \in ReadUri(t) <=> x = u
    <3>1. \A x : x \in ReadUri(t) <=>
                 \E name \in extractSegment(named) : x \in ReadNumbers(Name(name.segment), name.rest)
      BY <2>1, <2>3, UriOfCases, Zenon
    <3>2. \A x : (\E name \in extractSegment(named) : x \in ReadNumbers(Name(name.segment), name.rest))
                 <=> x \in ReadNumbers(Name(nm.segment), nm.rest)
      BY <1>10, Zenon
    <3> QED
      BY <1>11, <3>1, <3>2, Zenon
  <2> QED
    BY <2>4, <2>5
<1>14. ~isLocal(u) => ReadUri(<<"u", "p", ":">> \o UriText(u)) = {u}
  <2> SUFFICES ASSUME ~isLocal(u) PROVE ReadUri(<<"u", "p", ":">> \o UriText(u)) = {u}
    OBVIOUS
  <2> DEFINE t == SCHEMA_PREFIX \o named
  <2>1. t \in Seq(S) /\ IsPrefix(SCHEMA_PREFIX, t) /\ SubSeq(t, Len(SCHEMA_PREFIX) + 1, Len(t)) = named
    BY <1>5, <1>9, AfterPrefix, Zenon
  <2>2. <<"u", "p", ":">> \o UriText(u) = t
    BY <1>6, Zenon
  <2> HIDE DEF t
  <2>3. \A x : x \in ReadUri(t) <=> x = u
    <3>1. \A x : x \in ReadUri(t) <=>
                 \E name \in extractSegment(named) : x \in ReadNumbers(Name(name.segment), name.rest)
      BY <2>1, UriOfCases, Zenon
    <3>2. \A x : (\E name \in extractSegment(named) : x \in ReadNumbers(Name(name.segment), name.rest))
                 <=> x \in ReadNumbers(Name(nm.segment), nm.rest)
      BY <1>10, Zenon
    <3> QED
      BY <1>11, <3>1, <3>2, Zenon
  <2>4. ReadUri(t) = {u}
    BY <2>3
  <2> QED
    BY <2>2, <2>4, Zenon
<1>15. isLocal(u) => ReadUri(UriText(u)) = {u}
  <2> SUFFICES ASSUME isLocal(u) PROVE ReadUri(UriText(u)) = {u}
    OBVIOUS
  <2> DEFINE t == LOCAL_PREFIX \o N
  <2>1. /\ t \in Seq(S) /\ IsPrefix(LOCAL_PREFIX, t) /\ SubSeq(t, Len(LOCAL_PREFIX) + 1, Len(t)) = N
    BY <1>2, <1>5, AfterPrefix, Zenon
  <2>2. Len(LOCAL_PREFIX) >= 1 /\ LOCAL_PREFIX[1] = "/"
    BY DEF LOCAL_PREFIX
  <2>3. ~IsPrefix(SCHEMA_PREFIX, t)
    BY <1>2, <1>5, <1>12, <2>2, Zenon
  <2>4. UriText(u) = t /\ a = ""
    BY <1>7, Zenon
  <2>5. ~IsPrefix(REMOTE_PREFIX, t)
    <3>0. ASSUME NEW x \in Seq(S), NEW r \in Seq(S)
          PROVE  /\ Len(x \o r) = Len(x) + Len(r)
                 /\ \A i \in 1 .. Len(x) + Len(r) :
                       (x \o r)[i] = IF i <= Len(x) THEN x[i] ELSE r[i - Len(x)]
      BY ConcatProperties, Zenon
    <3>1. /\ Len(t) = Len(LOCAL_PREFIX) + Len(N)
          /\ \A i \in 1 .. Len(LOCAL_PREFIX) + Len(N) :
                t[i] = IF i <= Len(LOCAL_PREFIX) THEN LOCAL_PREFIX[i] ELSE N[i - Len(LOCAL_PREFIX)]
      BY <1>2, <1>5, <3>0, Zenon
    <3>2. Len(N) \in Nat
      BY <1>2
    <3> HIDE DEF t
    <3>3. 2 \in 1 .. Len(LOCAL_PREFIX) + Len(N) /\ ~(2 <= Len(LOCAL_PREFIX)) /\ 2 - Len(LOCAL_PREFIX) = 1
      BY <1>2, <1>5, <3>2
    <3>4. t[2] = N[1]
      BY <3>1, <3>3
    <3>5. 2 \in 1..Len(REMOTE_PREFIX)
      BY <1>5
    <3>6. IsPrefix(REMOTE_PREFIX, t) => t[2] = REMOTE_PREFIX[2]
      BY <1>5, <2>1, <3>5, PrefixAgrees, Zenon
    <3> QED
      BY <1>2, <1>5, <3>4, <3>6
  <2> HIDE DEF t
  <2>6. \A x : x \in ReadUri(t) <=> x \in ReadNumbers("", N)
    BY <2>1, <2>3, <2>5, UriOfCases, Zenon
  <2>7. \A x : x \in ReadUri(t) <=> x = u
    BY <1>2, <2>4, <2>6, Zenon
  <2>8. ReadUri(t) = {u}
    BY <2>7
  <2> QED
    BY <2>4, <2>8, Zenon
<1> QED
  BY <1>13, <1>14, <1>15

-------------------------------------------------------------------------------
(* UUris as text: a text that is read has three slashes or five, so one that  *)
(* lost a slash is refused.                                                   *)

Slashes(t) == {i \in 1..Len(t) : t[i] = "/"}

\* A text has finitely many slashes.
LEMMA SlashesFinite ==
  ASSUME NEW S, NEW t \in Seq(S)
  PROVE  /\ IsFiniteSet(Slashes(t)) /\ Cardinality(Slashes(t)) \in Nat
         /\ \A T \in SUBSET Slashes(t) : IsFiniteSet(T) /\ Cardinality(T) \in Nat
<1>1. 1 \in Int /\ Len(t) \in Int
  OBVIOUS
<1>2. IsFiniteSet(1..Len(t))
  BY <1>1, FS_Interval, Zenon
<1>3. Slashes(t) \in SUBSET (1..Len(t))
  BY DEF Slashes
<1>4. IsFiniteSet(Slashes(t))
  BY <1>2, <1>3, FS_Subset, Zenon
<1>5. \A T \in SUBSET Slashes(t) : IsFiniteSet(T)
  BY <1>4, FS_Subset, Zenon
<1> QED
  BY <1>4, <1>5, FS_CardinalityType, Zenon

\* A one-to-one map shows that two sets have as many elements.
LEMMA AsMany ==
  ASSUME NEW A, NEW B, IsFiniteSet(A), NEW f \in [A -> B],
         \A x, y \in A : f[x] = f[y] => x = y,
         \A z \in B : \E x \in A : f[x] = z
  PROVE  IsFiniteSet(B) /\ Cardinality(B) = Cardinality(A)
<1>1. f \in Bijection(A, B)
  BY DEF Bijection, Injection, Surjection, IsInjective
<1>2. ExistsBijection(A, B)
  BY <1>1 DEF ExistsBijection
<1> QED
  BY <1>2, FS_Bijection, Zenon

\* The slashes of a text are those up to some place and those of the rest.
LEMMA SlashesSplit ==
  ASSUME NEW S, NEW t \in Seq(S), NEW k \in 0..Len(t)
  PROVE  LET r == SubSeq(t, k + 1, Len(t))
         IN  /\ r \in Seq(S)
             /\ Cardinality(Slashes(t))
                   = Cardinality({i \in Slashes(t) : i <= k}) + Cardinality(Slashes(r))
<1> DEFINE r == SubSeq(t, k + 1, Len(t))
           n == Len(t)
           A == {i \in Slashes(t) : i <= k}
           B == {i \in Slashes(t) : k < i}
           f == [i \in B |-> i - k]
<1>1. n \in Nat /\ k \in Nat /\ k <= n
  OBVIOUS
<1>2. r \in Seq(S) /\ Len(r) = n - k /\ \A i \in 1 .. n - k : r[i] = t[i + k]
  <2>1. k + 1 \in Int /\ Len(t) \in Int /\ \A i \in k + 1 .. Len(t) : t[i] \in S
    BY <1>1
  <2>2. /\ r \in Seq(S) /\ Len(r) = IF k + 1 <= Len(t) THEN Len(t) - (k + 1) + 1 ELSE 0
        /\ \A i \in 1 .. Len(t) - (k + 1) + 1 : r[i] = t[(k + 1) + i - 1]
    BY <2>1, SubSeqProperties
  <2> HIDE DEF r
  <2>3. Len(r) = n - k
    BY <1>1, <2>2
  <2>4. ASSUME NEW i \in 1 .. n - k PROVE r[i] = t[i + k]
    <3>1. i \in 1 .. Len(t) - (k + 1) + 1 /\ (k + 1) + i - 1 = i + k
      BY <1>1
    <3> QED
      BY <2>2, <3>1
  <2> QED
    BY <2>2, <2>3, <2>4
<1>3. \A i : i \in Slashes(t) <=> i \in 1..n /\ t[i] = "/"
  BY DEF Slashes
<1>4. \A i : i \in Slashes(r) <=> i \in 1 .. n - k /\ t[i + k] = "/"
  BY <1>2 DEF Slashes
<1>5. IsFiniteSet(A) /\ IsFiniteSet(B) /\ Cardinality(A) \in Nat /\ Cardinality(B) \in Nat
  <2>1. A \in SUBSET Slashes(t) /\ B \in SUBSET Slashes(t)
    OBVIOUS
  <2> QED
    BY <2>1, SlashesFinite, Zenon
<1> HIDE DEF r, n
<1>6. A \union B = Slashes(t) /\ A \cap B = {}
  <2>1. \A i \in Slashes(t) : i \in Nat
    BY <1>1, <1>3
  <2> QED
    BY <1>1, <2>1
<1>7. f \in [B -> Slashes(r)]
  <2>1. ASSUME NEW i \in B PROVE i - k \in Slashes(r)
    <3>1. i \in 1..n /\ t[i] = "/" /\ k < i
      BY <1>3
    <3>2. i - k \in 1 .. n - k /\ (i - k) + k = i
      BY <1>1, <3>1
    <3> QED
      BY <1>4, <3>1, <3>2
  <2> HIDE DEF B
  <2> QED
    BY <2>1
<1>8. \A x, y \in B : f[x] = f[y] => x = y
  <2>1. \A x \in B : x \in Nat
    BY <1>1, <1>3
  <2> HIDE DEF B
  <2>2. \A x, y \in B : x - k = y - k => x = y
    BY <1>1, <2>1
  <2> QED
    BY <2>2
<1>9. \A z \in Slashes(r) : \E x \in B : f[x] = z
  <2> SUFFICES ASSUME NEW z \in Slashes(r) PROVE \E x \in B : f[x] = z
    OBVIOUS
  <2>1. z \in 1 .. n - k /\ t[z + k] = "/"
    BY <1>4
  <2>2. z + k \in 1..n /\ k < z + k /\ (z + k) - k = z
    BY <1>1, <2>1
  <2>3. z + k \in B
    BY <1>3, <2>1, <2>2
  <2> HIDE DEF B
  <2> QED
    BY <2>2, <2>3
<1> HIDE DEF A, B, f
<1>10. Cardinality(Slashes(r)) = Cardinality(B)
  BY <1>5, <1>7, <1>8, <1>9, AsMany, Zenon
<1>11. Cardinality(A \union B) = Cardinality(A) + Cardinality(B) - Cardinality(A \cap B)
  BY <1>5, FS_Union, Zenon
<1>12. Cardinality(Slashes(t)) = Cardinality(A) + Cardinality(B) - 0
  BY <1>6, <1>11, FS_EmptySet, Zenon
<1>13. Cardinality(Slashes(t)) = Cardinality(A) + Cardinality(Slashes(r))
  BY <1>5, <1>10, <1>12
<1> QED
  BY <1>2, <1>13 DEF A, r

\* A text that lost a slash has one slash less.
LEMMA SlashRemoved ==
  ASSUME NEW S, NEW t \in Seq(S), NEW i \in Slashes(t)
  PROVE  /\ RemoveAt(t, i) \in Seq(S)
         /\ Cardinality(Slashes(RemoveAt(t, i))) = Cardinality(Slashes(t)) - 1
<1> DEFINE d == RemoveAt(t, i)
           n == Len(t)
           A == Slashes(t) \ {i}
           f == [j \in A |-> IF j < i THEN j ELSE j - 1]
<1>1. n \in Nat /\ i \in 1..n /\ t[i] = "/"
  BY DEF Slashes
<1>2. /\ d \in Seq(S) /\ Len(d) = n - 1
      /\ \A j \in 1 .. i - 1 : d[j] = t[j]
      /\ \A j \in i .. n - 1 : d[j] = t[j + 1]
  BY <1>1, OneLess, Zenon
<1> HIDE DEF d
<1>3. \A j : j \in Slashes(t) <=> j \in 1..n /\ t[j] = "/"
  BY DEF Slashes
<1>4. \A j : j \in Slashes(d) <=> j \in 1 .. n - 1 /\ d[j] = "/"
  BY <1>2 DEF Slashes
<1>5. /\ IsFiniteSet(A) /\ Cardinality(A) = Cardinality(Slashes(t)) - 1
  BY SlashesFinite, FS_RemoveElement, Zenon
<1> HIDE DEF n
<1>6. \A j \in A : j \in 1..n /\ t[j] = "/" /\ j # i
  BY <1>3
<1>7. ASSUME NEW j \in A PROVE f[j] = (IF j < i THEN j ELSE j - 1) /\ f[j] \in Slashes(d)
  <2>1. j \in 1..n /\ t[j] = "/" /\ j # i
    BY <1>6
  <2>2. f[j] = (IF j < i THEN j ELSE j - 1)
    OBVIOUS
  <2> HIDE DEF f
  <2>3. CASE j < i
    <3>1. f[j] = j /\ j \in 1 .. i - 1 /\ j \in 1 .. n - 1
      BY <1>1, <2>1, <2>2, <2>3
    <3> QED
      BY <1>2, <1>4, <2>1, <2>2, <3>1
  <2>4. CASE ~(j < i)
    <3>1. f[j] = j - 1 /\ j - 1 \in i .. n - 1 /\ j - 1 \in 1 .. n - 1 /\ (j - 1) + 1 = j
      BY <1>1, <2>1, <2>2, <2>4
    <3> QED
      BY <1>2, <1>4, <2>1, <2>2, <3>1
  <2> QED
    BY <2>3, <2>4
<1>8. DOMAIN f = A /\ f = [j \in A |-> f[j]]
  OBVIOUS
<1> HIDE DEF A, f
<1>9. f \in [A -> Slashes(d)]
  BY <1>7, <1>8
<1>10. \A x, y \in A : f[x] = f[y] => x = y
  <2>1. \A x, y \in Nat : x # i /\ y # i /\ (IF x < i THEN x ELSE x - 1) = (IF y < i THEN y ELSE y - 1) => x = y
    BY <1>1
  <2>2. \A x \in A : x \in Nat /\ x # i
    BY <1>1, <1>6
  <2>3. \A x \in A : f[x] = (IF x < i THEN x ELSE x - 1)
    BY <1>7
  <2> QED
    BY <2>1, <2>2, <2>3
<1>11. \A z \in Slashes(d) : \E x \in A : f[x] = z
  <2> SUFFICES ASSUME NEW z \in Slashes(d) PROVE \E x \in A : f[x] = z
    OBVIOUS
  <2>1. z \in 1 .. n - 1 /\ d[z] = "/"
    BY <1>4
  <2>2. CASE z < i
    <3>1. z \in 1 .. i - 1 /\ z \in 1..n /\ z # i
      BY <1>1, <2>1, <2>2
    <3>2. t[z] = "/"
      BY <1>2, <2>1, <3>1
    <3>3. z \in A
      BY <1>3, <3>1, <3>2 DEF A
    <3>4. f[z] = z
      BY <1>7, <2>2, <3>3
    <3> QED
      BY <3>3, <3>4
  <2>3. CASE ~(z < i)
    <3>1. z \in i .. n - 1 /\ z + 1 \in 1..n /\ z + 1 # i /\ ~(z + 1 < i) /\ (z + 1) - 1 = z
      BY <1>1, <2>1, <2>3
    <3>2. t[z + 1] = "/"
      BY <1>2, <2>1, <3>1
    <3>3. z + 1 \in A
      BY <1>3, <3>1, <3>2 DEF A
    <3>4. f[z + 1] = z
      BY <1>7, <3>1, <3>3
    <3> QED
      BY <3>3, <3>4
  <2> QED
    BY <2>2, <2>3
<1>12. Cardinality(Slashes(d)) = Cardinality(A)
  BY <1>5, <1>9, <1>10, <1>11, AsMany, Zenon
<1> QED
  BY <1>2, <1>5, <1>12 DEF d

\* extractSegment() takes one slash away.
LEMMA OneSlash ==
  ASSUME NEW S, NEW t \in Seq(S), NEW x \in extractSegment(t)
  PROVE  /\ x.rest \in Seq(S) /\ Cardinality(Slashes(x.rest)) \in Nat
         /\ Cardinality(Slashes(t)) = 1 + Cardinality(Slashes(x.rest))
<1>1. PICK e \in DOMAIN t : /\ t[e] = "/" /\ \A j \in 1 .. e - 1 : t[j] # "/"
                            /\ x.rest = SubSeq(t, e + 1, Len(t))
  <2>1. PICK e \in DOMAIN t : /\ t[e] = "/" /\ \A j \in 1 .. e - 1 : t[j] # "/"
                              /\ x = [segment |-> SubSeq(t, 1, e - 1), rest |-> SubSeq(t, e + 1, Len(t))]
    BY Zenon DEF extractSegment
  <2>2. x.rest = SubSeq(t, e + 1, Len(t))
    BY <2>1
  <2> QED
    BY <2>1, <2>2, Zenon
<1>2. Len(t) \in Nat /\ e \in 1..Len(t) /\ e \in 0..Len(t)
  OBVIOUS
<1>3. /\ x.rest \in Seq(S)
      /\ Cardinality(Slashes(t)) = Cardinality({i \in Slashes(t) : i <= e}) + Cardinality(Slashes(x.rest))
  BY <1>1, <1>2, SlashesSplit, Zenon
<1>4. {i \in Slashes(t) : i <= e} = {e}
  <2>1. \A i \in 1..Len(t) : i <= e /\ i # e => i \in 1 .. e - 1
    BY <1>2
  <2>2. \A i \in Slashes(t) : i <= e => i = e
    BY <1>1, <2>1 DEF Slashes
  <2>3. e \in Slashes(t) /\ e <= e
    BY <1>1, <1>2 DEF Slashes
  <2> QED
    BY <2>2, <2>3
<1>5. Cardinality(Slashes(t)) = 1 + Cardinality(Slashes(x.rest))
  BY <1>3, <1>4, FS_Singleton, Zenon
<1> QED
  BY <1>3, <1>5, SlashesFinite, Zenon

\* The numbers of a UUri are read from a text with two slashes,
LEMMA TwoSlashes ==
  ASSUME NEW S, NEW a, NEW t \in Seq(S), ReadNumbers(a, t) # {}
  PROVE  Cardinality(Slashes(t)) = 2
<1>1. PICK x : x \in ReadNumbers(a, t)
  BY Zenon
<1>2. PICK id \in extractSegment(t) : \E v \in extractSegment(id.rest) : isUint32(v.rest)
  <2>1. \E id \in extractSegment(t) : \E v \in extractSegment(id.rest) :
           LET z == [authority |-> a, instance |-> High(id.segment),
                     service |-> Low(id.segment), version |-> SmallNumber(v.segment),
                     resource |-> SmallNumber(v.rest)]
           IN  /\ isUint32(id.segment) /\ isUint32(v.segment) /\ isUint32(v.rest)
               /\ isValidFilter(z)
               /\ x = z
    BY <1>1, NumbersOf, Zenon
  <2> QED
    BY <2>1, Zenon
<1>3. PICK v \in extractSegment(id.rest) : isUint32(v.rest)
  BY <1>2, Zenon
<1>4. /\ id.rest \in Seq(S) /\ Cardinality(Slashes(t)) = 1 + Cardinality(Slashes(id.rest))
  BY OneSlash, Zenon
<1>5. v.rest \in Seq(S) /\ Cardinality(Slashes(id.rest)) = 1 + Cardinality(Slashes(v.rest))
  BY <1>4, OneSlash, Zenon
<1>6. Slashes(v.rest) = {}
  <2>1. \A i \in 1..Len(v.rest) : i \in DOMAIN v.rest
    BY <1>5
  <2>2. \A i \in 1..Len(v.rest) : v.rest[i] \in DOMAIN Digit
    BY <1>3, <2>1, Zenon DEF isUint32, isHex
  <2>3. "/" \notin DOMAIN Digit
    BY NoSeparator
  <2> QED
    BY <2>2, <2>3 DEF Slashes
<1>7. Cardinality(Slashes(v.rest)) = 0
  BY <1>6, FS_EmptySet, Zenon
<1> QED
  BY <1>4, <1>5, <1>7

\* and a UUri from a text with three or five.
LEMMA UriSlashes ==
  ASSUME NEW S, NEW t \in Seq(S), ReadUri(t) # {},
         SCHEMA_PREFIX \in Seq(S), REMOTE_PREFIX \in Seq(S), LOCAL_PREFIX \in Seq(S)
  PROVE  Cardinality(Slashes(t)) \in {3, 5}
<1> DEFINE Count(s) == Cardinality(Slashes(s))
           Rem(prefix) == SubSeq(t, Len(prefix) + 1, Len(t))
           Up(k) == {i \in Slashes(t) : i <= k}
<1>1. PICK x : x \in ReadUri(t)
  BY Zenon
<1>2. ASSUME NEW prefix \in Seq(S), IsPrefix(prefix, t)
      PROVE  /\ Rem(prefix) \in Seq(S)
             /\ Count(t) = Cardinality(Slashes(prefix)) + Count(Rem(prefix))
  <2>1. Len(prefix) \in Nat /\ Len(t) \in Nat /\ Len(prefix) <= Len(t)
    BY <1>2 DEF IsPrefix
  <2>2. Len(prefix) \in 0..Len(t)
    BY <2>1
  <2>3. Rem(prefix) \in Seq(S) /\ Count(t) = Cardinality(Up(Len(prefix))) + Count(Rem(prefix))
    BY <2>2, SlashesSplit, Zenon
  <2>4. \A i \in 1..Len(prefix) : t[i] = prefix[i]
    BY <1>2, PrefixAgrees, Zenon
  <2>5. \A i : i \in 1..Len(t) /\ i <= Len(prefix) <=> i \in 1..Len(prefix)
    BY <2>1
  <2>6. Up(Len(prefix)) = Slashes(prefix)
    BY <2>4, <2>5 DEF Slashes
  <2> QED
    BY <2>3, <2>6, Zenon
<1>3. ASSUME NEW r \in Seq(S),
             \E name \in extractSegment(r) : x \in ReadNumbers(Name(name.segment), name.rest)
      PROVE  Count(r) = 3
  <2>1. PICK name \in extractSegment(r) : x \in ReadNumbers(Name(name.segment), name.rest)
    BY <1>3, Zenon
  <2>2. name.rest \in Seq(S) /\ Count(r) = 1 + Count(name.rest)
    BY OneSlash, Zenon
  <2>3. ReadNumbers(Name(name.segment), name.rest) # {}
    BY <2>1, Zenon
  <2>4. Count(name.rest) = 2
    BY <2>2, <2>3, TwoSlashes, Zenon
  <2> QED
    BY <2>2, <2>4
<1>4. /\ Cardinality(Slashes(SCHEMA_PREFIX)) = 2 /\ Cardinality(Slashes(REMOTE_PREFIX)) = 2
      /\ Cardinality(Slashes(LOCAL_PREFIX)) = 1
  <2>1. Slashes(SCHEMA_PREFIX) = 4..5
    <3>1. SCHEMA_PREFIX[1] = "u" /\ SCHEMA_PREFIX[2] = "p" /\ SCHEMA_PREFIX[3] = ":"
          /\ SCHEMA_PREFIX[4] = "/" /\ SCHEMA_PREFIX[5] = "/" /\ Len(SCHEMA_PREFIX) = 5
      BY DEF SCHEMA_PREFIX
    <3>2. \A i : i \in 1..5 <=> i = 1 \/ i = 2 \/ i = 3 \/ i = 4 \/ i = 5
      OBVIOUS
    <3>3. \A i : i \in 4..5 <=> i = 4 \/ i = 5
      OBVIOUS
    <3> QED
      BY <3>1, <3>2, <3>3 DEF Slashes
  <2>2. Slashes(REMOTE_PREFIX) = 1..2
    <3>1. REMOTE_PREFIX[1] = "/" /\ REMOTE_PREFIX[2] = "/" /\ Len(REMOTE_PREFIX) = 2
      BY DEF REMOTE_PREFIX
    <3>2. \A i : i \in 1..2 <=> i = 1 \/ i = 2
      OBVIOUS
    <3> QED
      BY <3>1, <3>2 DEF Slashes
  <2>3. Slashes(LOCAL_PREFIX) = 1..1
    BY DEF Slashes, LOCAL_PREFIX
  <2>4. 1 \in Int /\ 2 \in Int /\ 4 \in Int /\ 5 \in Int /\ ~(4 > 5) /\ ~(1 > 2) /\ ~(1 > 1)
        /\ 5 - 4 + 1 = 2 /\ 2 - 1 + 1 = 2 /\ 1 - 1 + 1 = 1
    OBVIOUS
  <2>5. Cardinality(4..5) = 2 /\ Cardinality(1..2) = 2 /\ Cardinality(1..1) = 1
    BY <2>4, FS_Interval
  <2> QED
    BY <2>1, <2>2, <2>3, <2>5, Zenon
<1>5. \/ IsPrefix(SCHEMA_PREFIX, t) /\ \E name \in extractSegment(Rem(SCHEMA_PREFIX)) : x \in ReadNumbers(Name(name.segment), name.rest)
      \/ IsPrefix(REMOTE_PREFIX, t) /\ \E name \in extractSegment(Rem(REMOTE_PREFIX)) : x \in ReadNumbers(Name(name.segment), name.rest)
      \/ IsPrefix(LOCAL_PREFIX, t) /\ x \in ReadNumbers("", Rem(LOCAL_PREFIX))
  BY <1>1, UriOf, Zenon
<1> HIDE DEF Count, Rem
<1>6. ASSUME NEW prefix \in Seq(S), IsPrefix(prefix, t), Cardinality(Slashes(prefix)) = 2,
             \E name \in extractSegment(Rem(prefix)) : x \in ReadNumbers(Name(name.segment), name.rest)
      PROVE  Count(t) = 5
  <2>1. Rem(prefix) \in Seq(S) /\ Count(t) = 2 + Count(Rem(prefix))
    BY <1>2, <1>6, Zenon
  <2>2. Count(Rem(prefix)) = 3
    BY <1>3, <1>6, <2>1, Zenon
  <2> QED
    BY <2>1, <2>2
<1>7. CASE IsPrefix(LOCAL_PREFIX, t) /\ x \in ReadNumbers("", Rem(LOCAL_PREFIX))
  <2>1. Rem(LOCAL_PREFIX) \in Seq(S) /\ Count(t) = 1 + Count(Rem(LOCAL_PREFIX))
    BY <1>2, <1>4, <1>7, Zenon
  <2>2. ReadNumbers("", Rem(LOCAL_PREFIX)) # {}
    BY <1>7, Zenon
  <2>3. Count(Rem(LOCAL_PREFIX)) = 2
    BY <2>1, <2>2, TwoSlashes, Zenon DEF Count
  <2>4. Count(t) = 3
    BY <2>1, <2>3
  <2> QED
    BY <2>4 DEF Count
<1> QED
  <2>1. Count(t) \in {3, 5}
    BY <1>4, <1>5, <1>6, <1>7 DEF Count
  <2> QED
    BY <2>1 DEF Count

\* A UUri's text that lost a slash is refused.
LEMMA DamagedUri ==
  ASSUME NEW u \in UUriRecords, CanWriteUri(u), u.authority # "/",
         NEW i \in DOMAIN UriText(u), UriText(u)[i] = "/"
  PROVE  ReadUri(RemoveAt(UriText(u), i)) = {}
<1> DEFINE S == UriChars(u)
           t == UriText(u)
           d == RemoveAt(t, i)
<1>1. SCHEMA_PREFIX \in Seq(S) /\ REMOTE_PREFIX \in Seq(S) /\ LOCAL_PREFIX \in Seq(S)
  BY DEF SCHEMA_PREFIX, REMOTE_PREFIX, LOCAL_PREFIX, UriChars
<1>2. t \in Seq(S)
  <2> DEFINE P == IF isLocal(u) THEN <<>> ELSE <<"/", "/", u.authority>>
             N == NumbersText(u)
             c == <<"/">>
  <2>1. isValidFilter(u)
    BY DEF CanWriteUri
  <2>2. t = P \o (c \o N)
    BY <2>1, UriTextIs, Zenon
  <2>3. N \in Seq(S)
    BY <2>1, NumbersRead, Zenon
  <2>4. c \in Seq(S)
    BY UriTexts, Zenon
  <2>5. P \in Seq(S)
    <3>1. "/" \in S /\ u.authority \in S
      BY DEF UriChars
    <3> HIDE DEF S
    <3>2. <<>> \in Seq(S) /\ <<"/", "/", u.authority>> \in Seq(S)
      BY <3>1
    <3> QED
      BY <3>2
  <2> HIDE DEF P, c, N
  <2>6. c \o N \in Seq(S)
    BY <2>3, <2>4, ConcatProperties, Zenon
  <2> QED
    BY <2>2, <2>5, <2>6, ConcatProperties, Zenon
<1>3. ReadUri(t) = {u}
  BY UriSurvives, Zenon
<1>4. t[i] = "/"
  OBVIOUS
<1>5. i \in DOMAIN t
  OBVIOUS
<1> HIDE DEF S, t
<1>6. i \in Slashes(t)
  BY <1>2, <1>4, <1>5 DEF Slashes
<1>7. d \in Seq(S) /\ Cardinality(Slashes(d)) = Cardinality(Slashes(t)) - 1
  BY <1>2, <1>6, SlashRemoved, Zenon
<1>8. Cardinality(Slashes(t)) \in {3, 5}
  <2>1. ReadUri(t) # {}
    BY <1>3, Zenon
  <2> QED
    BY <1>1, <1>2, <2>1, UriSlashes, Zenon
<1>9. ReadUri(d) # {} => Cardinality(Slashes(d)) \in {3, 5}
  BY <1>1, <1>7, UriSlashes, Zenon
<1> HIDE DEF d
<1>10. ReadUri(d) = {}
  BY <1>7, <1>8, <1>9
<1> QED
  BY <1>10 DEF d, t

-------------------------------------------------------------------------------
(* The ids in a message are UUIDs and the URIs in it are UUris. *)

Fits(a) == a.source \union a.sink \subseteq UUriRecords /\ a.reqid \subseteq Fields

FitBuilder(b) == IsBuilder(b) /\ Fits(b)
FitMessage(m) == IsMessage(m) /\ Fits(m) /\ m.id \in Fields

TextInv ==
    /\ \A b \in builder : FitBuilder(b)
    /\ \A r \in built : FitMessage(r.msg)
    /\ sender.service \subseteq UUriRecords

\* The constructor of a builder,
LEMMA FitNew ==
  ASSUME NEW type, NEW source \in UUriRecords, NEW sink, sink \subseteq UUriRecords,
         NEW reqid, reqid \subseteq Fields
  PROVE  FitBuilder(Builder(type, source, sink, reqid))
<1> DEFINE b == Builder(type, source, sink, reqid)
<1>1. IsBuilder(b) /\ b.source = {source} /\ b.sink = sink /\ b.reqid = reqid
  BY DEF Builder, IsBuilder
<1> HIDE DEF b
<1>2. FitBuilder(b)
  BY <1>1 DEF FitBuilder, Fits
<1> QED
  BY <1>2 DEF b

\* every with...() call
LEMMA FitWith ==
  ASSUME NEW b, FitBuilder(b), NEW x
  PROVE  /\ FitBuilder(withTtl(b, x)) /\ FitBuilder(withPriority(b, x))
         /\ FitBuilder(withToken(b, x)) /\ FitBuilder(withPermissionLevel(b, x))
         /\ FitBuilder(withPayloadFormat(b, x)) /\ FitBuilder(withCommStatus(b, x))
         /\ x \in UUriRecords => FitBuilder(withMethod(b, x))
<1>1. ASSUME NEW c, DOMAIN c = DOMAIN b, c.source = b.source, c.sink = b.sink, c.reqid = b.reqid
      PROVE  FitBuilder(c)
  BY <1>1 DEF FitBuilder, IsBuilder, Fits
<1>2. IsBuilder(b)
  BY DEF FitBuilder
<1>3. FitBuilder(withTtl(b, x))
  BY <1>1, <1>2 DEF withTtl, IsBuilder
<1>4. FitBuilder(withPriority(b, x))
  BY <1>1, <1>2 DEF withPriority, IsBuilder
<1>5. FitBuilder(withToken(b, x))
  BY <1>1, <1>2 DEF withToken, IsBuilder
<1>6. FitBuilder(withPermissionLevel(b, x))
  BY <1>1, <1>2 DEF withPermissionLevel, IsBuilder
<1>7. FitBuilder(withPayloadFormat(b, x))
  BY <1>1, <1>2 DEF withPayloadFormat, IsBuilder
<1>8. FitBuilder(withCommStatus(b, x))
  BY <1>1, <1>2 DEF withCommStatus, IsBuilder
<1>9. ASSUME x \in UUriRecords PROVE FitBuilder(withMethod(b, x))
  <2> DEFINE c == withMethod(b, x)
  <2>1. DOMAIN c = DOMAIN b /\ c.source = b.source /\ c.sink = {x} /\ c.reqid = b.reqid
    BY <1>2 DEF withMethod, IsBuilder
  <2> HIDE DEF c
  <2>2. FitBuilder(c)
    BY <1>9, <2>1 DEF FitBuilder, IsBuilder, Fits
  <2> QED
    BY <2>2 DEF c
<1> QED
  BY <1>3, <1>4, <1>5, <1>6, <1>7, <1>8, <1>9

\* an optional one too,
LEMMA FitIfAny ==
  ASSUME NEW b, FitBuilder(b), NEW value, NEW c,
         \/ c \in IfAny(withTtl, b, value) \/ c \in IfAny(withPayloadFormat, b, value)
         \/ c \in IfAny(withPermissionLevel, b, value) \/ c \in IfAny(withToken, b, value)
  PROVE  FitBuilder(c)
<1>1. \/ c = b \/ (\E x : c = withTtl(b, x)) \/ (\E x : c = withPayloadFormat(b, x))
      \/ (\E x : c = withPermissionLevel(b, x)) \/ (\E x : c = withToken(b, x))
  BY Zenon DEF IfAny
<1> QED
  BY <1>1, FitWith, Zenon

\* and build(), with or without a payload and a method.
LEMMA FitBuilt ==
  ASSUME NEW b, FitBuilder(b), NEW id \in Fields, NEW format, NEW content
  PROVE  FitMessage(Built(b, id)) /\ FitMessage(BuiltWith(b, id, format, content))
<1> DEFINE k == Built(b, id)
           m == BuiltWith(b, id, format, content)
<1>1. IsMessage(k) /\ k.id = id /\ k.source = b.source /\ k.sink = b.sink /\ k.reqid = b.reqid
  BY DEF Built, IsMessage
<1>2. m = [k EXCEPT !.format = format, !.payload = {content}]
  BY DEF BuiltWith
<1> HIDE DEF k, m
<1>3. IsMessage(m) /\ m.id = k.id /\ m.source = k.source /\ m.sink = k.sink /\ m.reqid = k.reqid
  BY <1>1, <1>2 DEF IsMessage
<1>4. FitMessage(k)
  BY <1>1 DEF FitMessage, FitBuilder, Fits
<1>5. FitMessage(m)
  BY <1>3, <1>4 DEF FitMessage, Fits
<1> QED
  BY <1>4, <1>5 DEF k, m

\* So does build(method, ...).
LEMMA FitAtMethod ==
  ASSUME NEW m, FitMessage(m), NEW u \in UUriRecords
  PROVE  FitMessage(AtMethod(m, u))
<1> DEFINE k == AtMethod(m, u)
<1>1. IsMessage(k) /\ k.id = m.id /\ k.source = m.source /\ k.sink = {u} /\ k.reqid = m.reqid
  BY DEF AtMethod, IsMessage, FitMessage
<1> HIDE DEF k
<1>2. FitMessage(k)
  BY <1>1 DEF FitMessage, Fits
<1> QED
  BY <1>2 DEF k

\* The time of every id that is made here fits into a UUID.
LEMMA FitIds ==
  ASSUME SendersInv, NEW id \in FreshIds
  PROVE  id \in Fields
<1>1. PICK n \in Randoms : id = NewUuid(now, n)
  BY DEF FreshIds
<1>2. now \in Nat /\ MaxTime \in Nat /\ now <= MaxTime
  BY InputsAssumption DEF SendersInv, BuilderInv
<1> DEFINE q == now \div TicksPerMs
           e == MaxTime \div TicksPerMs
<1>3. id = [version |-> 7, variant |-> 2, ms |-> q, random |-> n]
  BY <1>1 DEF NewUuid
<1>4. q \in Nat /\ q * TicksPerMs <= now /\ TicksPerMs \in Nat
  BY <1>2, StampBounds, ClockAssumption
<1>5. e \in Nat /\ \A k \in Nat : k * TicksPerMs <= MaxTime => k <= e
  BY <1>2, StampBounds
<1>6. e < Timestamps
  BY FieldsAssumption
<1> HIDE DEF q, e
<1>7. q * TicksPerMs \in Nat
  BY <1>4
<1>8. q <= e
  <2>1. q * TicksPerMs <= MaxTime
    BY <1>2, <1>4, <1>7
  <2> QED
    BY <1>4, <1>5, <2>1
<1>9. Timestamps \in Nat
  BY Radices
<1>10. q \in 0 .. Timestamps - 1
  BY <1>4, <1>5, <1>6, <1>8, <1>9
<1>11. 7 \in 0 .. Versions - 1 /\ 2 \in 0 .. Variants - 1
  BY DEF Versions, Variants
<1>12. n \in 0 .. RandomA * RandomB - 1
  BY FieldsAssumption
<1> QED
  BY <1>3, <1>10, <1>11, <1>12 DEF Fields

\* The service that is called has a UUri, whatever its methods.
LEMMA FitService ==
  /\ BlankUri \in UUriRecords
  /\ \A at \in Uris :
        setInstanceId(setAuthorityName(ServiceUri, at.authority), at.instance) \in UUriRecords
  /\ \A u \in UUriRecords, resource \in ServiceMethods :
        getServiceUriWithResourceId(u, resource) \in UUriRecords
<1> DEFINE short == 0..UINT16_MAX
           high == service_id \div (UINT16_MAX + 1)
           low == service_id % (UINT16_MAX + 1)
           none == ""
<1>1. 0 \in short /\ low \in short
  BY DEF UINT16_MAX, service_id
<1>2. UUriRecords = [authority : Names, instance : short, service : short,
                     version : Nat, resource : Nat]
  BY Zenon DEF UUriRecords
<1>3. /\ ServiceUri = [authority |-> none, instance |-> high, service |-> low,
                       version |-> 3, resource |-> 0]
      /\ BlankUri = [authority |-> none, instance |-> 0, service |-> 0,
                     version |-> 0, resource |-> 0]
      /\ none \in Names
  BY Zenon DEF ServiceUri, service_version_major, BlankUri, Names
<1> HIDE DEF short, high, low, none
<1>5. BlankUri \in UUriRecords
  BY <1>1, <1>2, <1>3
<1>6. ASSUME NEW at \in Uris
      PROVE  setInstanceId(setAuthorityName(ServiceUri, at.authority), at.instance) \in UUriRecords
  <2>1. at \in UUriRecords
    BY FieldsAssumption
  <2>2. at.authority \in Names /\ at.instance \in short
    BY <1>2, <2>1
  <2>3. setAuthorityName(ServiceUri, at.authority)
           = [authority |-> at.authority, instance |-> high, service |-> low,
              version |-> 3, resource |-> 0]
    BY <1>3 DEF setAuthorityName
  <2>4. setInstanceId(setAuthorityName(ServiceUri, at.authority), at.instance)
           = [authority |-> at.authority, instance |-> at.instance, service |-> low,
              version |-> 3, resource |-> 0]
    BY <2>3 DEF setInstanceId
  <2> QED
    BY <1>1, <1>2, <2>2, <2>4
<1>4. ASSUME NEW u \in UUriRecords, NEW resource \in ServiceMethods
      PROVE  getServiceUriWithResourceId(u, resource) \in UUriRecords
  <2>1. resource \in Nat
    BY DEF ServiceMethods, RESOURCE_ID_SUBSCRIBE, RESOURCE_ID_UNSUBSCRIBE
  <2> QED
    BY <2>1 DEF getServiceUriWithResourceId, UUriRecords
<1> QED
  BY <1>4, <1>5, <1>6

\* A step that makes or changes a builder
LEMMA FitBuilderStep ==
  ASSUME TextInv, NEW b, FitBuilder(b), builder' = {b}, built' = {} \/ UNCHANGED built,
         sender'.service \subseteq UUriRecords
  PROVE  TextInv'
  BY DEF TextInv

\* A step that builds a message
LEMMA FitMessageStep ==
  ASSUME TextInv, NEW m, FitMessage(m), built' = {[msg |-> m, at |-> now]},
         UNCHANGED builder \/ \E b : FitBuilder(b) /\ builder' = {b}, UNCHANGED sender
  PROVE  TextInv'
<1> DEFINE r == [msg |-> m, at |-> now]
<1>1. r.msg = m
  OBVIOUS
<1> HIDE DEF r
<1>2. built' = {r}
  BY DEF r
<1> QED
  BY <1>1, <1>2 DEF TextInv

\* What an application does with the factories and the with...() calls
LEMMA FitConfigure ==
  ASSUME TextInv, UNCHANGED sender,
         \/ StartPublish \/ StartNotification \/ StartRequest \/ StartResponse
         \/ WithPriority \/ WithTtl \/ WithMethod \/ WithToken
         \/ WithPermissionLevel \/ WithCommStatus \/ WithPayloadFormat
  PROVE  TextInv'
<1>1. sender'.service \subseteq UUriRecords
  BY DEF TextInv
<1>2. ASSUME NEW b, NEW to, Start(b, to), FitBuilder(b) PROVE TextInv'
  BY <1>1, <1>2, FitBuilderStep DEF Start
<1>3. ASSUME NEW c, Configure(c), FitBuilder(c) PROVE TextInv'
  BY <1>1, <1>3, FitBuilderStep DEF Configure
<1>4. \A b \in builder : FitBuilder(b)
  BY DEF TextInv
<1>5. \A u \in Uris : u \in UUriRecords
  BY FieldsAssumption
<1>6. {} \subseteq UUriRecords /\ {} \subseteq Fields /\ \A u \in UUriRecords : {u} \subseteq UUriRecords
  OBVIOUS
<1>7. CASE StartPublish
  BY <1>2, <1>5, <1>6, <1>7, FitNew DEF StartPublish, publish
<1>8. CASE StartNotification
  BY <1>2, <1>5, <1>6, <1>8, FitNew DEF StartNotification, notification
<1>9. CASE StartRequest
  <2>1. PICK method, source, level, ttl :
           /\ method \in Uris /\ source \in Uris
           /\ Start(request(method, source, level, ttl), {})
    BY <1>9 DEF StartRequest
  <2>2. FitBuilder(Builder("request", source, {method}, {}))
    BY <1>5, <1>6, <2>1, FitNew
  <2>3. FitBuilder(request(method, source, level, ttl))
    BY <2>2, FitWith, Zenon DEF request
  <2> QED
    BY <1>2, <2>1, <2>3
<1>10. CASE StartResponse
  <2>1. PICK to \in Foreign \union {r.msg : r \in built} :
           \E method \in to.sink, sink \in to.source :
              Start(response(sink, to.id, to.priority, method), {Essence(to)})
    BY <1>10 DEF StartResponse
  <2>2. PICK method \in to.sink, sink \in to.source :
           Start(response(sink, to.id, to.priority, method), {Essence(to)})
    BY <2>1
  <2>3. to.id \in Fields /\ to.source \union to.sink \subseteq UUriRecords
    BY FieldsAssumption DEF TextInv, FitMessage, Fits
  <2>4. FitBuilder(Builder("response", method, {sink}, {to.id}))
    BY <2>2, <2>3, FitNew
  <2>5. FitBuilder(response(sink, to.id, to.priority, method))
    BY <2>4, FitWith, Zenon DEF response
  <2> QED
    BY <1>2, <2>2, <2>5
<1>11. CASE WithPriority
  BY <1>3, <1>4, <1>11, FitWith, Zenon DEF WithPriority
<1>12. CASE WithTtl
  BY <1>3, <1>4, <1>12, FitWith, Zenon DEF WithTtl
<1>13. CASE WithMethod
  BY <1>3, <1>4, <1>5, <1>13, FitWith, Zenon DEF WithMethod
<1>14. CASE WithToken
  BY <1>3, <1>4, <1>14, FitWith, Zenon DEF WithToken
<1>15. CASE WithPermissionLevel
  BY <1>3, <1>4, <1>15, FitWith, Zenon DEF WithPermissionLevel
<1>16. CASE WithCommStatus
  BY <1>3, <1>4, <1>16, FitWith, Zenon DEF WithCommStatus
<1>17. CASE WithPayloadFormat
  BY <1>3, <1>4, <1>17, FitWith, Zenon DEF WithPayloadFormat
<1> QED
  BY <1>7, <1>8, <1>9, <1>10, <1>11, <1>12, <1>13, <1>14, <1>15, <1>16, <1>17

\* build() and build(payload), for any of the senders
LEMMA FitBuildTo ==
  ASSUME SendersInv, TextInv, UNCHANGED <<builder, sender>>,
         \/ UNCHANGED built
         \/ \E b \in builder, id \in FreshIds : \E m, k :
               /\ built' = {[msg |-> k, at |-> now]}
               /\ m = Built(b, id) \/ \E format, content : m = BuiltWith(b, id, format, content)
               /\ k = m \/ \E u \in Uris : k = AtMethod(m, u)
  PROVE  TextInv'
<1>1. CASE UNCHANGED built
  BY <1>1 DEF TextInv
<1>2. CASE ~UNCHANGED built
  <2>1. PICK b, id, m, k :
           /\ b \in builder /\ id \in FreshIds
           /\ built' = {[msg |-> k, at |-> now]}
           /\ m = Built(b, id) \/ \E format, content : m = BuiltWith(b, id, format, content)
           /\ k = m \/ \E u \in Uris : k = AtMethod(m, u)
    BY <1>2, Zenon
  <2>2. FitBuilder(b) /\ id \in Fields
    BY <2>1, FitIds DEF TextInv
  <2>3. FitMessage(m)
    BY <2>1, <2>2, FitBuilt, Zenon
  <2>4. \A u \in Uris : u \in UUriRecords
    BY FieldsAssumption
  <2>5. FitMessage(k)
    BY <2>1, <2>3, <2>4, FitAtMethod, Zenon
  <2> QED
    BY <2>1, <2>5, FitMessageStep, Zenon
<1> QED
  BY <1>1, <1>2

\* What an application, a Publisher, a NotificationSource and an RpcClient send
LEMMA FitSend ==
  ASSUME SendersInv, TextInv, UNCHANGED sender,
         \/ Build \/ BuildWithPayload
         \/ Publish \/ NotifyWithPayload \/ Notify \/ Invoke \/ InvokeWithPayload
  PROVE  TextInv'
<1>1. ASSUME NEW b \in builder, NEW id \in FreshIds, NEW m, NEW k,
             m = Built(b, id) \/ \E format, content : m = BuiltWith(b, id, format, content),
             k \in AsIs(m) \/ k \in ToMethod(m) \/ k \in Anywhere(m),
             built' = {[msg |-> k, at |-> now]}, UNCHANGED builder
      PROVE  TextInv'
  <2>1. k = m \/ \E u \in Uris : k = AtMethod(m, u)
    BY <1>1 DEF AsIs, ToMethod, Anywhere
  <2> QED
    BY <1>1, <2>1, FitBuildTo, Zenon
<1>2. ASSUME UNCHANGED <<builder, built>> PROVE TextInv'
  BY <1>2, FitBuildTo
<1>3. CASE Build \/ Notify \/ Invoke
  <2>1. PICK b, id, k :
           /\ b \in builder /\ id \in FreshIds
           /\ \/ k \in AsIs(Built(b, id)) \/ k \in ToMethod(Built(b, id))
              \/ k \in Anywhere(Built(b, id))
           /\ built' = {[msg |-> k, at |-> now]} /\ UNCHANGED builder
    BY <1>3 DEF Build, Notify, Invoke, Sends, BuildTo
  <2> QED
    BY <1>1, <2>1, Zenon
<1>4. CASE BuildWithPayload \/ Publish \/ NotifyWithPayload \/ InvokeWithPayload
  <2>1. PICK b, id, o, k :
           /\ b \in builder /\ id \in FreshIds
           /\ UNCHANGED builder
           /\ \/ UNCHANGED built
              \/ /\ \/ k \in AsIs(BuiltWith(b, id, o.format, o.content))
                    \/ k \in ToMethod(BuiltWith(b, id, o.format, o.content))
                    \/ k \in Anywhere(BuiltWith(b, id, o.format, o.content))
                 /\ built' = {[msg |-> k, at |-> now]}
    BY <1>4 DEF BuildWithPayload, Publish, NotifyWithPayload, InvokeWithPayload, Sends,
                BuildWithPayloadTo
  <2> QED
    BY <1>1, <1>2, <2>1, Zenon
<1> QED
  BY <1>3, <1>4

\* invokeMethodToProto()
LEMMA FitInvoke ==
  ASSUME SendersInv, TextInv, UNCHANGED sender, NEW methods, methods \subseteq UUriRecords,
         InvokeToProto(methods)
  PROVE  TextInv'
<1>1. PICK b, method, id, o :
         /\ b \in builder /\ method \in methods /\ id \in FreshIds
         /\ builder' = {withMethod(b, method)}
         /\ \/ built' = {[msg |-> BuiltWith(withMethod(b, method), id, o.format, o.content),
                          at |-> now]}
            \/ UNCHANGED built
  BY Zenon DEF InvokeToProto
<1> DEFINE c == withMethod(b, method)
           m == BuiltWith(c, id, o.format, o.content)
<1>2. FitBuilder(c)
  <2>1. FitBuilder(b) /\ method \in UUriRecords
    BY <1>1 DEF TextInv
  <2> QED
    BY <2>1, FitWith, Zenon
<1>3. id \in Fields /\ sender'.service \subseteq UUriRecords
  BY <1>1, FitIds DEF TextInv
<1> HIDE DEF c
<1>4. FitMessage(m)
  BY <1>2, <1>3, FitBuilt, Zenon
<1> HIDE DEF m
<1>5. builder' = {c} /\ (built' = {[msg |-> m, at |-> now]} \/ UNCHANGED built)
  BY <1>1, Zenon DEF c, m
<1>6. CASE UNCHANGED built
  BY <1>2, <1>3, <1>5, <1>6, FitBuilderStep, Zenon
<1>7. CASE built' = {[msg |-> m, at |-> now]}
  BY <1>2, <1>4, <1>5, <1>7, FitMessageStep, Zenon
<1> QED
  BY <1>5, <1>6, <1>7

\* The constructors of the senders
LEMMA FitConstructors ==
  ASSUME TextInv, NewPublisher \/ NewNotificationSource \/ NewClient \/ NewUSubscriptionClient
  PROVE  TextInv'
<1>1. \A u \in Uris : u \in UUriRecords
  BY FieldsAssumption
<1>2. {} \subseteq UUriRecords /\ {} \subseteq Fields /\ \A u \in UUriRecords : {u} \subseteq UUriRecords
  OBVIOUS
<1>3. ASSUME NEW kind, NEW service, service \subseteq UUriRecords, NEW b, FitBuilder(b),
             Own(kind, service, b)
      PROVE  TextInv'
  <2>1. builder' = {b} /\ UNCHANGED built /\ sender' = [kind |-> kind, service |-> service]
    BY <1>3 DEF Own
  <2>2. sender'.service = service
    BY <2>1
  <2> QED
    BY <1>3, <2>1, <2>2, FitBuilderStep, Zenon
<1>4. ASSUME NEW entity \in Uris, NEW level, NEW ttl, NEW format, NEW permission, NEW token,
             NEW kind, NEW service, service \subseteq UUriRecords,
             NewRpcClient(entity, level, ttl, format, permission, token, kind, service)
      PROVE  TextInv'
  <2> DEFINE a == Builder("request", entity, {BlankUri}, {})
             b == withTtl(withPriority(a, level), ttl)
  <2>1. FitBuilder(a)
    BY <1>1, <1>2, FitService, FitNew, Zenon
  <2>2. FitBuilder(b)
    BY <2>1, FitWith, Zenon
  <2>3. PICK c, d, e :
           /\ c \in IfAny(withPayloadFormat, b, format)
           /\ d \in IfAny(withPermissionLevel, c, permission)
           /\ e \in IfAny(withToken, d, token) /\ Own(kind, service, e)
    BY <1>4, Zenon DEF NewRpcClient
  <2> HIDE DEF b
  <2>4. FitBuilder(c)
    BY <2>2, <2>3, FitIfAny, Zenon
  <2>5. FitBuilder(d)
    BY <2>3, <2>4, FitIfAny, Zenon
  <2>6. FitBuilder(e)
    BY <2>3, <2>5, FitIfAny, Zenon
  <2> QED
    BY <1>3, <1>4, <2>3, <2>6, Zenon
<1>5. CASE NewPublisher
  <2>1. PICK topic, format, level, ttl, b :
           /\ topic \in Uris
           /\ b \in IfAny(withTtl, withPriority(withPayloadFormat(publish(topic), format), level), ttl)
           /\ Own("publisher", {}, b)
    BY <1>5, Zenon DEF NewPublisher
  <2>2. FitBuilder(publish(topic))
    BY <1>1, <1>2, <2>1, FitNew, Zenon DEF publish
  <2>3. FitBuilder(withPriority(withPayloadFormat(publish(topic), format), level))
    BY <2>2, FitWith, Zenon
  <2>4. FitBuilder(b)
    BY <2>1, <2>3, FitIfAny, Zenon
  <2> QED
    BY <1>2, <1>3, <2>1, <2>4, Zenon
<1>6. CASE NewNotificationSource
  <2>1. PICK source, sink, format, level, ttl, b, c :
           /\ source \in Uris /\ sink \in Uris
           /\ b \in IfAny(withPayloadFormat, withPriority(notification(source, sink), level), format)
           /\ c \in IfAny(withTtl, b, ttl) /\ Own("source", {}, c)
    BY <1>6, Zenon DEF NewNotificationSource
  <2>2. FitBuilder(notification(source, sink))
    BY <1>1, <1>2, <2>1, FitNew, Zenon DEF notification
  <2>3. FitBuilder(withPriority(notification(source, sink), level))
    BY <2>2, FitWith, Zenon
  <2>4. FitBuilder(b)
    BY <2>1, <2>3, FitIfAny, Zenon
  <2>5. FitBuilder(c)
    BY <2>1, <2>4, FitIfAny, Zenon
  <2> QED
    BY <1>2, <1>3, <2>1, <2>5, Zenon
<1>7. CASE NewClient
  <2>1. PICK entity, level, ttl, format, permission, token :
           /\ entity \in Uris
           /\ NewRpcClient(entity, level, ttl, format, permission, token, "client", {})
    BY <1>7, Zenon DEF NewClient
  <2>2. {} \subseteq UUriRecords
    BY <1>2, Zenon
  <2> QED
    BY <1>4, <2>1, <2>2
<1>8. CASE NewUSubscriptionClient
  <2>1. PICK entity, at, ttl :
           /\ entity \in Uris /\ at \in Uris
           /\ NewRpcClient(entity, CS4, ttl, {}, {}, {}, "usubscription",
                           {setInstanceId(setAuthorityName(ServiceUri, at.authority), at.instance)})
    BY <1>8, Zenon DEF NewUSubscriptionClient
  <2>2. {setInstanceId(setAuthorityName(ServiceUri, at.authority), at.instance)} \subseteq UUriRecords
    BY <1>2, <2>1, FitService, Zenon
  <2> QED
    BY <1>4, <2>1, <2>2, Zenon
<1> QED
  BY <1>5, <1>6, <1>7, <1>8

\* At the beginning there is neither a builder nor a message.
LEMMA InitTextInv == SendersInit => TextInv
  BY DEF SendersInit, Init, TextInv

\* Every step keeps to UUIDs and UUris.
LEMMA NextTextInv == SendersInv /\ TextInv /\ [Next]_allVars => TextInv'
<1> SUFFICES ASSUME SendersInv, TextInv, [Next]_allVars PROVE TextInv'
  OBVIOUS
<1>1. ASSUME UNCHANGED <<builder, built, sender>> PROVE TextInv'
  BY <1>1 DEF TextInv
<1>2. CASE UNCHANGED allVars
  BY <1>1, <1>2 DEF allVars, vars
<1>3. CASE Sends("application", Use)
  <2>1. Use /\ UNCHANGED sender
    BY <1>3 DEF Sends
  <2> QED
    BY <2>1, FitConfigure, FitSend DEF Use
<1>4. CASE Environment /\ UNCHANGED sender
  BY <1>1, <1>4 DEF Environment, Tick, Construct, CopyPayload, MovePayload, SetPayload
<1>5. CASE NewPublisher \/ NewNotificationSource \/ NewClient \/ NewUSubscriptionClient
  BY <1>5, FitConstructors
<1>6. CASE Publish \/ NotifyWithPayload \/ Notify \/ Invoke \/ InvokeWithPayload
  <2>1. UNCHANGED sender
    BY <1>6 DEF Publish, NotifyWithPayload, Notify, Invoke, InvokeWithPayload, Sends
  <2> QED
    BY <1>6, <2>1, FitSend
<1>7. CASE InvokeProto
  <2>1. InvokeToProto(Uris) /\ UNCHANGED sender
    BY <1>7 DEF InvokeProto, Sends
  <2>2. Uris \subseteq UUriRecords
    BY FieldsAssumption
  <2> QED
    BY <2>1, <2>2, FitInvoke
<1>8. CASE CallService
  <2>1. PICK service \in sender.service :
           /\ InvokeToProto({getServiceUriWithResourceId(service, resource) :
                               resource \in ServiceMethods})
           /\ UNCHANGED sender
    BY <1>8, Zenon DEF CallService, Sends
  <2>2. service \in UUriRecords
    BY DEF TextInv
  <2>3. {getServiceUriWithResourceId(service, resource) : resource \in ServiceMethods}
           \subseteq UUriRecords
    BY <2>2, FitService, Zenon
  <2> QED
    BY <2>1, <2>3, FitInvoke, Zenon
<1> QED
  BY <1>2, <1>3, <1>4, <1>5, <1>6, <1>7, <1>8 DEF Next

\* The ids and the URIs are UUIDs and UUris throughout.
LEMMA TextInvariance == Spec => []TextInv
  BY InitTextInv, NextTextInv, SendersInvariance, PTL DEF Spec

\* That holds for what was just built, too.
LEMMA FitJustBuilt ==
  ASSUME TextInv, NEW m \in JustBuilt
  PROVE  Ids(m) \subseteq Fields /\ UrisOf(m) \subseteq UUriRecords
  BY DEF TextInv, JustBuilt, FitMessage, Fits, Ids, UrisOf

\* The ids of every message survive being written as a string and as bytes.
LEMMA InvIds == TextInv => IdsSurvive
<1> SUFFICES ASSUME TextInv, NEW m \in JustBuilt, NEW id \in Ids(m)
             PROVE  /\ {Unpacked(w) : w \in ReadUuid(UuidText(Packed(id)))} = {id}
                    /\ {Unpacked(w) : w \in ReadBytes(UuidBytes(Packed(id)))} = {id}
  BY DEF IdsSurvive
<1>1. id \in Fields
  BY FitJustBuilt
<1>2. Packed(id) \in Words /\ Unpacked(Packed(id)) = id
  BY <1>1, FieldsSurvive
<1>3. /\ ReadUuid(UuidText(Packed(id))) = {Packed(id)}
      /\ ReadBytes(UuidBytes(Packed(id))) = {Packed(id)}
  BY <1>2, TextSurvives, ArraySurvives, Zenon
<1>4. ASSUME NEW R, NEW p, R = {p}, Unpacked(p) = id PROVE {Unpacked(w) : w \in R} = {id}
  BY <1>4
<1> QED
  BY <1>2, <1>3, <1>4, Zenon

\* Its URIs survive being written and read.
LEMMA InvUris == TextInv => UrisSurvive
<1> SUFFICES ASSUME TextInv, NEW m \in JustBuilt, NEW u \in Writable(m)
             PROVE  /\ ReadUri(UriText(u)) = {u}
                    /\ ~isLocal(u) => ReadUri(<<"u", "p", ":">> \o UriText(u)) = {u}
  BY Zenon DEF UrisSurvive
<1>1. u \in UUriRecords /\ CanWriteUri(u) /\ u.authority # "/"
  BY FitJustBuilt DEF Writable
<1> QED
  BY <1>1, UriSurvives, Zenon

\* A damaged text is refused.
LEMMA InvDamage == TextInv => DamageIsNoticed
<1> SUFFICES ASSUME TextInv, NEW m \in JustBuilt
             PROVE  /\ \A id \in Ids(m) : \A i \in DOMAIN UuidText(Packed(id)) :
                          ReadUuid(RemoveAt(UuidText(Packed(id)), i)) = {}
                    /\ \A u \in Writable(m) :
                          \A i \in {j \in DOMAIN UriText(u) : UriText(u)[j] = "/"} :
                             ReadUri(RemoveAt(UriText(u), i)) = {}
  BY Zenon DEF DamageIsNoticed
<1>1. ASSUME NEW id \in Ids(m), NEW i \in DOMAIN UuidText(Packed(id))
      PROVE  ReadUuid(RemoveAt(UuidText(Packed(id)), i)) = {}
  <2>1. Packed(id) \in Words
    BY FitJustBuilt, FieldsSurvive
  <2> QED
    BY <2>1, DamagedText, Zenon
<1>2. ASSUME NEW u \in Writable(m), NEW i \in DOMAIN UriText(u), UriText(u)[i] = "/"
      PROVE  ReadUri(RemoveAt(UriText(u), i)) = {}
  <2>1. u \in UUriRecords /\ CanWriteUri(u) /\ u.authority # "/"
    BY FitJustBuilt DEF Writable
  <2> QED
    BY <1>2, <2>1, DamagedUri, Zenon
<1> QED
  BY <1>1, <1>2, Zenon

\* The ids in every message that is built survive being written by serialize() as a
\* string or as bytes and read again, for UUIDs of any layout.
THEOREM IdsAreKept == Spec => []IdsSurvive
  BY TextInvariance, InvIds, PTL

\* So do the URIs in it that serialize() can write, with and without the scheme.
THEOREM UrisAreKept == Spec => []UrisSurvive
  BY TextInvariance, InvUris, PTL

\* The text of an id that lost a character, and that of a UUri that lost a slash, is
\* refused by deserialize().
THEOREM DamageNoticed == Spec => []DamageIsNoticed
  BY TextInvariance, InvDamage, PTL

===============================================================================
