---------------------------- MODULE RpcServerProofs ----------------------------
(***************************************************************************)
(* Proofs about RpcServer, for any methods, messages, threads, TTLs and    *)
(* clock.                                                                  *)
(***************************************************************************)
EXTENDS RpcServer, UuidProofs, TLAPS

States == {"none", "connect", "registered", "live", "draining", "gone"}

\* Where the server is while its gate lets callers in, and which of its members
\* exist then.
GateInv ==
    /\ server = [at |-> server.at, callback |-> server.callback, method |-> server.method,
                 ttl |-> server.ttl, format |-> server.format]
    /\ exec = [t \in Threads |-> exec[t]]
    /\ server.at \in States
    /\ gate \in {"none", "open", "closing", "closed"}
    /\ gate = "open" => server.at \in {"registered", "live"}
    /\ gate = "closing" => server.at = "draining"
    /\ server.at \in {"connect", "registered", "live", "draining"} => server.callback
    /\ server.at \in {"none", "connect", "gone"} => Active = {}

\* Before create() there is no server, and nobody is in its listener.
LEMMA InitGateInv == Init => GateInv
  BY DEF Init, GateInv, States, Active, Idle

\* A step of the listener on thread t leaves the server alone, and thread t was
\* inside already or is let in by the gate.
LEMMA ListenerStep ==
  ASSUME GateInv, NEW t \in Threads, NEW x, Enter(t, x),
         t \in Active \/ gate \in {"open", "closing"}
  PROVE  GateInv'
<1>1. server.at \in {"registered", "live", "draining"}
  BY DEF GateInv, States
<1>2. exec' = [u \in Threads |-> exec'[u]] /\ UNCHANGED <<server, gate>>
  BY DEF Enter, GateInv
<1> QED
  BY <1>1, <1>2 DEF GateInv

\* Every step of the server, of its listener and of the network keeps GateInv.
LEMMA NextGateInv == GateInv /\ [Next]_vars => GateInv'
<1> SUFFICES ASSUME GateInv, [Next]_vars PROVE GateInv'
  OBVIOUS
<1>1. CASE UNCHANGED vars
  BY <1>1 DEF GateInv, vars, Active
<1>2. CASE Tick
  BY <1>2 DEF GateInv, Tick, Active
<1>3. CASE Create
  BY <1>3 DEF GateInv, Create, Active, States
<1>4. CASE RegisterThrows
  BY <1>4 DEF GateInv, RegisterThrows, Active, States
<1>5. CASE Register
  BY <1>5 DEF GateInv, Register, Active, States
<1>6. CASE Connected
  BY <1>6 DEF GateInv, Connected, Active, States
<1>7. CASE RegisterFails
  BY <1>7 DEF GateInv, RegisterFails, Active, States
<1>8. CASE Destroy
  BY <1>8 DEF GateInv, Destroy, Active, States
<1>9. CASE Destroyed
  BY <1>9 DEF GateInv, Destroyed, Active, States
<1>10. ASSUME NEW t \in Threads, NEW m \in Incoming, Deliver(t, m) PROVE GateInv'
  BY <1>10, ListenerStep DEF Deliver
<1>11. ASSUME NEW t \in Threads, Validate(t) PROVE GateInv'
  <2>1. t \in Active
    BY <1>11 DEF Validate, Active
  <2>2. PICK x : Enter(t, x)
    BY <1>11 DEF Validate
  <2> QED
    BY <2>1, <2>2, ListenerStep
<1>12. ASSUME NEW t \in Threads, NEW returned \in PayloadChoices, CallbackReturns(t, returned)
       PROVE  GateInv'
  BY <1>12, ListenerStep DEF CallbackReturns, Active
<1>13. ASSUME NEW t \in Threads, ListenerThrows(t) PROVE GateInv'
  BY <1>13, ListenerStep DEF ListenerThrows, Active
<1>14. ASSUME NEW t \in Threads, Send(t) PROVE GateInv'
  BY <1>14, ListenerStep DEF Send, Active
<1> QED
  BY <1>1, <1>2, <1>3, <1>4, <1>5, <1>6, <1>7, <1>8, <1>9, <1>10, <1>11, <1>12, <1>13, <1>14
  DEF Next

\* GateInv holds throughout.
LEMMA GateInvariance == Spec => []GateInv
  BY InitGateInv, NextGateInv, PTL DEF Spec

\* No thread is inside the listener when the members that it uses are destroyed:
\* callback_handle_ is destroyed first and waits for them.
THEOREM MembersOutlive == Spec => []ListenerOutlived
<1>1. GateInv => ListenerOutlived
  BY DEF GateInv, States, ListenerOutlived
<1> QED
  BY <1>1, GateInvariance, PTL

-------------------------------------------------------------------------------
(* Why a response is refused.  Up to expiry, what the listener builds      *)
(* passes every check of the validator.                                    *)

\* A record with the fields of a builder.
IsBuilder(b) ==
    {"type", "source", "sink", "reqid", "priority", "ttl", "token", "permission",
     "commstatus", "format", "expected"} \subseteq DOMAIN b

\* The attributes that a response needs, without its own id.
Answer(b, time) ==
    /\ b.type = "response"
    /\ b.source # {} /\ \A u \in b.source : isMethod(u)
    /\ b.sink # {} /\ \A u \in b.sink : isEntity(u)
    /\ b.reqid # {} /\ \A id \in b.reqid : Stamped(id, time)
    /\ b.priority \in CS4..7
    /\ b.permission = {} /\ b.token = {}
    /\ b.format \in PayloadFormats

\* A built response: the server's TTL, and an id no older than the request's.
FullAnswer(m) ==
    /\ Answer(m, now)
    /\ Stamped(m.id, now)
    /\ m.ttl = server.ttl
    /\ \A id \in m.reqid : id.ms <= m.id.ms

\* send() has refused a response only if the server has a TTL and more than that has
\* passed since the client made the request, which is how isValidRpcResponse() counts.
RefusedOnlyLate ==
    \A r \in refused : \E ttl \in server.ttl, id \in r.msg.reqid :
        r.at - id.ms * TicksPerMs > ttl * TicksPerMs

\* What the threads inside the listener hold, and why send() has refused.
ReplyInv ==
    /\ now \in Nat
    /\ server.ttl \subseteq Nat
    /\ server.format = {} \/ \E f \in PayloadFormats : server.format = {f}
    /\ \A t \in Threads :
          /\ exec[t].at = "validate" => exec[t].request \in Incoming
          /\ exec[t].at = "callback" => IsBuilder(exec[t].builder) /\ Answer(exec[t].builder, now)
          /\ exec[t].at = "send" => FullAnswer(exec[t].msg)
    /\ server.at = "none" => refused = {}
    /\ RefusedOnlyLate

\* An answer stays one as the clock advances.
LEMMA AnswerLater ==
  ASSUME NEW b, NEW n \in Nat, NEW n2 \in Nat, n <= n2, Answer(b, n)
  PROVE  Answer(b, n2)
  BY StampedLater DEF Answer

\* response() of a valid request has what a response needs.
LEMMA ResponseAnswers ==
  ASSUME NEW m \in Incoming, now \in Nat, isValidRpcRequest(m, now),
         NEW sink \in m.source, NEW method \in m.sink
  PROVE  LET b == response(sink, m.id, m.priority, method)
         IN  IsBuilder(b) /\ Answer(b, now)
<1> DEFINE b == response(sink, m.id, m.priority, method)
<1>1. Stamped(m.id, now)
  BY ServerAssumption DEF isValidRpcRequest, areCommonAttributesValid, isUuid, Stamped
<1>2. isMethod(method) /\ isEntity(sink) /\ m.priority \in CS4..7
  BY DEF isValidRpcRequest, areCommonAttributesValid, Priorities, CS4
<1>3. /\ b.type = "response" /\ b.source = {method} /\ b.sink = {sink}
      /\ b.reqid = {m.id} /\ b.priority = m.priority
      /\ b.permission = {} /\ b.token = {} /\ b.format = 0
      /\ IsBuilder(b)
  BY DEF response, withPriority, Builder, IsBuilder
<1> QED
  BY <1>1, <1>2, <1>3 DEF Answer, PayloadFormats

\* What is built from it, with the server's TTL and format, is a full answer.
LEMMA ReplyIsFull ==
  ASSUME ReplyInv, NEW t \in Threads, NEW b, IsBuilder(b), Answer(b, now),
         NEW returned \in PayloadChoices
  PROVE  FullAnswer(Reply(t, b, returned))
<1> DEFINE c == Configured(b)
           id == NewUuid(now, <<t, Replies>>)
           m == Reply(t, b, returned)
<1>1. /\ IsBuilder(c)
      /\ c.ttl = server.ttl
      /\ c.type = b.type /\ c.source = b.source /\ c.sink = b.sink /\ c.reqid = b.reqid
      /\ c.priority = b.priority /\ c.permission = b.permission /\ c.token = b.token
      /\ c.format = IF server.format = {} THEN b.format
                    ELSE CHOOSE f \in server.format : TRUE
  BY DEF Configured, IsBuilder
<1>2. c.format \in PayloadFormats
  BY <1>1 DEF ReplyInv, Answer
<1> HIDE DEF c
<1>3. Stamped(id, now) /\ \A k \in Nat : k * TicksPerMs <= now => k <= id.ms
  BY StampBounds DEF NewUuid, Stamped, ReplyInv
<1> HIDE DEF id
<1>4. /\ m.id = id
      /\ m.ttl = c.ttl
      /\ m.type = c.type /\ m.source = c.source /\ m.sink = c.sink /\ m.reqid = c.reqid
      /\ m.priority = c.priority /\ m.permission = c.permission /\ m.token = c.token
      /\ m.format = IF returned = {} THEN c.format ELSE CHOOSE f \in returned : TRUE
  BY DEF Reply, Built, BuiltWith, c, id
<1>5. m.format \in PayloadFormats
  BY <1>2, <1>4, ServerAssumption
<1> HIDE DEF m
<1>6. Answer(m, now)
  BY <1>1, <1>4, <1>5 DEF Answer
<1>7. \A k \in m.reqid : k.ms <= m.id.ms
  BY <1>3, <1>4, <1>6 DEF Answer, Stamped
<1> QED
  BY <1>1, <1>3, <1>4, <1>6, <1>7 DEF FullAnswer, m

\* send() refuses a full answer only because the server's TTL has passed since the
\* request.
LEMMA WhyRefused ==
  ASSUME ReplyInv, NEW m, FullAnswer(m), ~isValid(m, now)
  PROVE  \E ttl \in server.ttl, id \in m.reqid :
             now - id.ms * TicksPerMs > ttl * TicksPerMs
<1>1. ASSUME NEW id, Stamped(id, now) PROVE isUuid(id, now)
  BY <1>1 DEF Stamped, isUuid
<1>2. ASSUME NEW ttl \in server.ttl, isExpired(m.id, ttl, now)
      PROVE  \E id \in m.reqid : now - id.ms * TicksPerMs > ttl * TicksPerMs
  <2>1. PICK id \in m.reqid : TRUE
    BY DEF FullAnswer, Answer
  <2>2. id.ms \in Nat /\ m.id.ms \in Nat /\ id.ms <= m.id.ms
    BY DEF FullAnswer, Answer, Stamped
  <2>3. id.ms * TicksPerMs <= m.id.ms * TicksPerMs
        /\ id.ms * TicksPerMs \in Nat /\ m.id.ms * TicksPerMs \in Nat
    BY <2>2, ClockAssumption
  <2>4. ttl \in Nat /\ ttl * TicksPerMs \in Nat /\ now \in Nat
    BY ClockAssumption DEF ReplyInv
  <2> QED
    BY <1>2, <2>3, <2>4 DEF isExpired
<1>3. ASSUME \A ttl \in server.ttl : ~isExpired(m.id, ttl, now),
             \A ttl \in server.ttl, id \in m.reqid : ~isExpired(id, ttl, now)
      PROVE  FALSE
  <2>1. areCommonAttributesValid(m, now)
    BY <1>1, <1>3 DEF FullAnswer, Answer, areCommonAttributesValid, Priorities, CS4
  <2>2. isValidRpcResponse(m, now)
    BY <2>1, <1>1, <1>3 DEF FullAnswer, Answer, isValidRpcResponse, CS4
  <2> QED
    BY <2>2 DEF isValid, FullAnswer, Answer
<1> QED
  BY <1>2, <1>3 DEF isExpired

\* Before create() there are no responses.
LEMMA InitReplyInv == Init => ReplyInv
  BY DEF Init, ReplyInv, RefusedOnlyLate, Idle

\* A step of the listener that sends nothing.
LEMMA QuietStep ==
  ASSUME GateInv, ReplyInv, NEW t \in Threads, NEW x, Enter(t, x),
         UNCHANGED <<sent, refused>>,
         x.at = "validate" => x.request \in Incoming,
         x.at = "callback" => IsBuilder(x.builder) /\ Answer(x.builder, now),
         x.at = "send" => FullAnswer(x.msg)
  PROVE  ReplyInv'
<1>1. exec'[t] = x /\ \A u \in Threads : u # t => exec'[u] = exec[u]
  BY DEF Enter, GateInv
<1>2. UNCHANGED <<now, server, refused>>
  BY DEF Enter
<1>3. \A m : FullAnswer(m) => FullAnswer(m)'
  BY <1>2 DEF FullAnswer
<1> QED
  BY <1>1, <1>2, <1>3 DEF ReplyInv, RefusedOnlyLate

\* A step of create() or of the destructor, with the server's TTL and format kept.
LEMMA ServerStep ==
  ASSUME ReplyInv, UNCHANGED <<now, exec, refused>>,
         server'.ttl = server.ttl, server'.format = server.format, server'.at # "none"
  PROVE  ReplyInv'
<1>1. \A m : FullAnswer(m) => FullAnswer(m)'
  BY DEF FullAnswer
<1> QED
  BY <1>1 DEF ReplyInv, RefusedOnlyLate

\* Every step keeps what ReplyInv says of the responses in the making.
LEMMA NextReplyInv == GateInv /\ ReplyInv /\ [Next]_vars => ReplyInv'
<1> SUFFICES ASSUME GateInv, ReplyInv, [Next]_vars PROVE ReplyInv'
  OBVIOUS
<1>1. CASE UNCHANGED vars
  <2>1. \A m : FullAnswer(m) => FullAnswer(m)'
    BY <1>1 DEF FullAnswer, vars
  <2> QED
    BY <1>1, <2>1 DEF ReplyInv, RefusedOnlyLate, vars
<1>2. CASE Tick
  <2>1. now \in Nat /\ now' \in Nat /\ now <= now' /\ UNCHANGED <<server, exec, refused>>
    BY <1>2 DEF Tick, ReplyInv
  <2>2. \A b : Answer(b, now) => Answer(b, now')
    BY <2>1, AnswerLater
  <2>3. \A m : FullAnswer(m) => FullAnswer(m)'
    BY <2>1, <2>2, StampedLater DEF FullAnswer
  <2> QED
    BY <2>1, <2>2, <2>3 DEF ReplyInv, RefusedOnlyLate
<1>3. CASE Create
  <2>1. \A t \in Threads : exec'[t].at = "idle"
    BY <1>3 DEF Create, GateInv, Active
  <2>2. refused' = {} /\ now' = now /\ server'.at # "none"
    BY <1>3 DEF Create, ReplyInv
  <2>3. server'.ttl \subseteq Nat
    BY <1>3, ServerAssumption DEF Create
  <2>4. server'.format = {} \/ \E f \in PayloadFormats : server'.format = {f}
    BY <1>3, ServerAssumption DEF Create, CanSetFormat
  <2> QED
    BY <2>1, <2>2, <2>3, <2>4 DEF ReplyInv, RefusedOnlyLate
<1>4. CASE RegisterThrows
  BY <1>4, ServerStep DEF RegisterThrows, GateInv
<1>5. CASE Register
  BY <1>5, ServerStep DEF Register, GateInv
<1>6. CASE Connected
  BY <1>6, ServerStep DEF Connected, GateInv
<1>7. CASE RegisterFails
  BY <1>7, ServerStep DEF RegisterFails, GateInv
<1>8. CASE Destroy
  BY <1>8, ServerStep DEF Destroy, GateInv
<1>9. CASE Destroyed
  BY <1>9, ServerStep DEF Destroyed, GateInv
<1>10. ASSUME NEW t \in Threads, NEW m \in Incoming, Deliver(t, m) PROVE ReplyInv'
  BY <1>10, QuietStep DEF Deliver
<1>11. ASSUME NEW t \in Threads, Validate(t) PROVE ReplyInv'
  <2> DEFINE m == exec[t].request
  <2>1. m \in Incoming /\ now \in Nat
    BY <1>11 DEF Validate, ReplyInv
  <2>2. CASE Enter(t, Idle)
    BY <1>11, <2>2, QuietStep DEF Validate, Idle
  <2>3. ASSUME isValidRpcRequest(m, now), NEW sink \in m.source, NEW method \in m.sink,
               Enter(t, [at |-> "callback", request |-> m,
                         builder |-> response(sink, m.id, m.priority, method)])
        PROVE  ReplyInv'
    <3>1. LET b == response(sink, m.id, m.priority, method)
          IN  IsBuilder(b) /\ Answer(b, now)
      BY <2>1, <2>3, ResponseAnswers
    <3> QED
      BY <1>11, <2>3, <3>1, QuietStep DEF Validate
  <2> QED
    BY <1>11, <2>2, <2>3 DEF Validate
<1>12. ASSUME NEW t \in Threads, NEW returned \in PayloadChoices, CallbackReturns(t, returned)
       PROVE  ReplyInv'
  <2>1. FullAnswer(Reply(t, exec[t].builder, returned))
    BY <1>12, ReplyIsFull DEF CallbackReturns, ReplyInv
  <2> QED
    BY <1>12, <2>1, QuietStep DEF CallbackReturns
<1>13. ASSUME NEW t \in Threads, ListenerThrows(t) PROVE ReplyInv'
  BY <1>13, QuietStep DEF ListenerThrows, Idle
<1>14. ASSUME NEW t \in Threads, Send(t) PROVE ReplyInv'
  <2>1. /\ exec'[t] = Idle /\ \A u \in Threads : u # t => exec'[u] = exec[u]
        /\ UNCHANGED <<now, server>>
    BY <1>14 DEF Send, Enter, GateInv
  <2>2. \A m : FullAnswer(m) => FullAnswer(m)'
    BY <2>1 DEF FullAnswer
  <2>3. server.at # "none"
    BY <1>14 DEF Send, GateInv, Active
  <2>4. RefusedOnlyLate'
    <3>1. ASSUME NEW r \in refused', r \notin refused
          PROVE  \E ttl \in server.ttl, id \in r.msg.reqid :
                     r.at - id.ms * TicksPerMs > ttl * TicksPerMs
      <4>1. r.msg = exec[t].msg /\ r.at = now /\ ~isValid(exec[t].msg, now)
        BY <1>14, <3>1 DEF Send
      <4> QED
        BY <1>14, <4>1, WhyRefused DEF Send, ReplyInv
    <3> QED
      BY <2>1, <3>1 DEF ReplyInv, RefusedOnlyLate
  <2> QED
    BY <2>1, <2>2, <2>3, <2>4 DEF ReplyInv, Idle
<1> QED
  BY <1>1, <1>2, <1>3, <1>4, <1>5, <1>6, <1>7, <1>8, <1>9, <1>10, <1>11, <1>12, <1>13, <1>14
  DEF Next

\* The only reason for which send() refuses a response of the server is that more
\* than the server's TTL has passed since the request was made.  (RpcServer.h would
\* have it count from the response, which the code does not do.)
THEOREM OnlyLateIsRefused == Spec => []RefusedOnlyLate
<1>1. GateInv /\ ReplyInv /\ [Next]_vars => (GateInv /\ ReplyInv)'
  BY NextGateInv, NextReplyInv
<1>2. ReplyInv => RefusedOnlyLate
  BY DEF ReplyInv
<1> QED
  BY <1>1, <1>2, InitGateInv, InitReplyInv, PTL DEF Spec

\* A server without a TTL loses no response in send(), whatever its callback returns
\* and however long it takes.
THEOREM NothingLostWithoutTtl == Spec => []NoTtlNoLoss
<1>1. RefusedOnlyLate => NoTtlNoLoss
  BY DEF RefusedOnlyLate, NoTtlNoLoss
<1> QED
  BY <1>1, OnlyLateIsRefused, PTL

-------------------------------------------------------------------------------
(* Which request a response answers.                                       *)

\* What a response takes from its request
Matches(q, b) ==
    /\ b.source = q.sink /\ b.sink = q.source
    /\ b.reqid = {q.id} /\ b.priority = q.priority

MatchInv ==
    /\ \A t \in Threads :
          /\ exec[t].at = "callback" => \E q \in Incoming : Matches(q, exec[t].builder)
          /\ exec[t].at = "send" => \E q \in Incoming : Matches(q, exec[t].msg)
    /\ RepliesMatch

\* A built message has the addresses, the request id and the priority of its builder.
LEMMA ReplyMatches ==
  ASSUME NEW t, NEW b, IsBuilder(b), NEW returned, NEW q, Matches(q, b)
  PROVE  Matches(q, Reply(t, b, returned))
<1> DEFINE c == Configured(b)
           id == NewUuid(now, <<t, Replies>>)
           m == Reply(t, b, returned)
<1>1. /\ c.source = b.source /\ c.sink = b.sink /\ c.reqid = b.reqid
      /\ c.priority = b.priority
  BY DEF Configured, IsBuilder
<1> HIDE DEF c, id
<1>2. /\ m.source = c.source /\ m.sink = c.sink /\ m.reqid = c.reqid
      /\ m.priority = c.priority
  BY DEF Reply, Built, BuiltWith, c, id
<1> HIDE DEF m
<1> QED
  BY <1>1, <1>2 DEF Matches, m

\* A response that send() accepts was valid when its id was made: it expires no
\* earlier then, and its request is no younger.
LEMMA ValidWhenMade ==
  ASSUME ReplyInv, NEW m, FullAnswer(m), isValid(m, now)
  PROVE  isValidRpcResponse(m, m.id.ms * TicksPerMs)
<1> DEFINE made == m.id.ms * TicksPerMs
<1>1. made \in Nat /\ made <= now /\ now \in Nat /\ TicksPerMs \in Nat /\ m.id.ms \in Nat
  BY ClockAssumption DEF FullAnswer, Stamped, ReplyInv
<1>2. isValidRpcResponse(m, now)
  BY DEF isValid, FullAnswer, Answer
<1>3. ASSUME NEW id \in m.reqid
      PROVE  /\ isUuid(id, made) /\ id.ms * TicksPerMs \in Nat
             /\ id.ms * TicksPerMs <= made
  <2>1. id.ms \in Nat /\ id.ms <= m.id.ms /\ id.version = 7 /\ id.variant = 2
    BY DEF FullAnswer, Answer, Stamped
  <2>2. id.ms * TicksPerMs \in Nat /\ id.ms * TicksPerMs <= made
    BY <1>1, <2>1
  <2> QED
    BY <2>1, <2>2 DEF isUuid
<1>4. ASSUME NEW ttl \in m.ttl, ttl > 0
      PROVE  /\ ~isExpired(m.id, ttl, made)
             /\ \A id \in m.reqid : ~isExpired(id, ttl, made)
  <2>1. ttl \in Nat /\ ttl * TicksPerMs \in Nat
    BY <1>1 DEF FullAnswer, ReplyInv
  <2>2. ~isExpired(m.id, ttl, made)
    BY <1>1, <2>1 DEF isExpired
  <2>3. ASSUME NEW id \in m.reqid PROVE ~isExpired(id, ttl, made)
    <3>1. ~isExpired(id, ttl, now) /\ isUuid(id, now)
      BY <1>2, <1>4 DEF isValidRpcResponse
    <3>2. now - id.ms * TicksPerMs <= ttl * TicksPerMs
      BY <1>1, <1>3, <2>1, <3>1 DEF isExpired
    <3> QED
      BY <1>1, <1>3, <2>1, <3>2 DEF isExpired
  <2> QED
    BY <2>2, <2>3
<1>5. isUuid(m.id, made)
  BY <1>1 DEF FullAnswer, Stamped, isUuid
<1> HIDE DEF made
<1>6. areCommonAttributesValid(m, made)
  BY <1>2, <1>4, <1>5 DEF isValidRpcResponse, areCommonAttributesValid
<1>7. isValidRpcResponse(m, made)
  BY <1>2, <1>3, <1>4, <1>6 DEF isValidRpcResponse
<1> QED
  BY <1>7 DEF made

\* A step of the listener that sends nothing.
LEMMA QuietMatch ==
  ASSUME GateInv, MatchInv, NEW t \in Threads, NEW x, Enter(t, x), UNCHANGED sent,
         x.at = "callback" => \E q \in Incoming : Matches(q, x.builder),
         x.at = "send" => \E q \in Incoming : Matches(q, x.msg)
  PROVE  MatchInv'
<1>1. exec'[t] = x /\ \A u \in Threads : u # t => exec'[u] = exec[u]
  BY DEF Enter, GateInv
<1> QED
  BY <1>1 DEF MatchInv, RepliesMatch

\* Every step keeps MatchInv.
LEMMA NextMatchInv == GateInv /\ ReplyInv /\ MatchInv /\ [Next]_vars => MatchInv'
<1> SUFFICES ASSUME GateInv, ReplyInv, MatchInv, [Next]_vars PROVE MatchInv'
  OBVIOUS
<1>1. CASE UNCHANGED <<exec, sent>>
  BY <1>1 DEF MatchInv, RepliesMatch
<1>2. ASSUME NEW t \in Threads, NEW m \in Incoming, Deliver(t, m) PROVE MatchInv'
  BY <1>2, QuietMatch DEF Deliver
<1>3. ASSUME NEW t \in Threads, Validate(t) PROVE MatchInv'
  <2> DEFINE m == exec[t].request
  <2>1. m \in Incoming /\ UNCHANGED sent
    BY <1>3 DEF Validate, ReplyInv
  <2>2. CASE Enter(t, Idle)
    BY <2>1, <2>2, QuietMatch DEF Idle
  <2>3. ASSUME NEW sink \in m.source, NEW method \in m.sink,
               Enter(t, [at |-> "callback", request |-> m,
                         builder |-> response(sink, m.id, m.priority, method)])
        PROVE  MatchInv'
    <3>1. m.source = {sink} /\ m.sink = {method}
      BY <2>1, ServerAssumption
    <3>2. Matches(m, response(sink, m.id, m.priority, method))
      BY <3>1 DEF Matches, response, withPriority, Builder
    <3> QED
      BY <2>1, <2>3, <3>2, QuietMatch
  <2> QED
    BY <1>3, <2>2, <2>3 DEF Validate
<1>4. ASSUME NEW t \in Threads, NEW returned \in PayloadChoices, CallbackReturns(t, returned)
      PROVE  MatchInv'
  <2>1. PICK q \in Incoming : Matches(q, exec[t].builder)
    BY <1>4 DEF CallbackReturns, MatchInv
  <2>2. Matches(q, Reply(t, exec[t].builder, returned))
    BY <1>4, <2>1, ReplyMatches DEF CallbackReturns, ReplyInv
  <2> QED
    BY <1>4, <2>2, QuietMatch DEF CallbackReturns
<1>5. ASSUME NEW t \in Threads, ListenerThrows(t) PROVE MatchInv'
  BY <1>5, QuietMatch DEF ListenerThrows, Idle
<1>6. ASSUME NEW t \in Threads, Send(t) PROVE MatchInv'
  <2>1. exec'[t] = Idle /\ \A u \in Threads : u # t => exec'[u] = exec[u]
    BY <1>6 DEF Send, Enter, GateInv
  <2>2. RepliesMatch'
    <3>1. ASSUME NEW m \in sent', m \notin sent
          PROVE  \E q \in Incoming : isValidRpcResponseFor(q, m, m.id.ms * TicksPerMs)
      <4>1. m = exec[t].msg /\ isValid(m, now) /\ exec[t].at = "send"
        BY <1>6, <3>1 DEF Send
      <4>2. isValidRpcResponse(m, m.id.ms * TicksPerMs)
        BY <4>1, ValidWhenMade DEF ReplyInv
      <4> QED
        BY <4>1, <4>2 DEF MatchInv, Matches, isValidRpcResponseFor
    <3> QED
      BY <3>1 DEF MatchInv, RepliesMatch
  <2> QED
    BY <2>1, <2>2 DEF MatchInv, Idle
<1> QED
  BY <1>1, <1>2, <1>3, <1>4, <1>5, <1>6
  DEF Next, vars, Tick, Create, RegisterThrows, Register, Connected, RegisterFails, Destroy,
      Destroyed

\* Every response that the server sends answers a request that was received and
\* passes the check of the client that made it.
THEOREM RepliesAnswer == Spec => []RepliesMatch
<1>1. Init => MatchInv
  BY DEF Init, MatchInv, RepliesMatch, Idle
<1>2. MatchInv => RepliesMatch
  BY DEF MatchInv
<1> QED
  BY <1>1, <1>2, NextMatchInv, NextReplyInv, NextGateInv, InitGateInv, InitReplyInv, PTL DEF Spec

-------------------------------------------------------------------------------
(* Types.                                                                  *)

TypeInv ==
    /\ now \in 0..MaxTime
    /\ server.callback \in BOOLEAN
    /\ \A t \in Threads : exec[t].at \in {"idle", "validate", "callback", "send"}
    /\ \A m \in sent \union {r.msg : r \in refused} : m.type = "response"

\* A record with the members of the server.
IsServer(f) ==
    f = [at |-> f.at, callback |-> f.callback, method |-> f.method, ttl |-> f.ttl,
         format |-> f.format]

\* Setting one member keeps the flag that callback_ exists, or sets it.
LEMMA SetCallback ==
  ASSUME NEW f, IsServer(f), f.callback \in BOOLEAN, NEW x, NEW b \in BOOLEAN
  PROVE  /\ IsServer([f EXCEPT !.at = x])
         /\ [f EXCEPT !.at = x].callback \in BOOLEAN
         /\ [f EXCEPT !.callback = b].callback \in BOOLEAN
<1>1. IsServer([f EXCEPT !.at = x])
  BY DEF IsServer
<1>2. [f EXCEPT !.at = x].callback = f.callback /\ [f EXCEPT !.callback = b].callback = b
  BY Zenon DEF IsServer
<1> QED
  BY <1>1, <1>2, Zenon

\* The flag that callback_ exists stays one.
LEMMA CallbackFlag ==
  ASSUME GateInv, TypeInv, Next
  PROVE  server'.callback \in BOOLEAN
<1>a. IsServer(server) /\ server.callback \in BOOLEAN
  BY Zenon DEF GateInv, TypeInv, IsServer
<1>1. CASE Create
  <2>1. PICK method, ttl, format :
           server' = [at |-> "connect", callback |-> TRUE, method |-> {method},
                      ttl |-> ttl, format |-> format]
    BY <1>1 DEF Create
  <2>2. server'.callback = TRUE
    BY <2>1, Zenon
  <2> QED
    BY <2>2
<1>2. CASE RegisterThrows \/ Destroyed
  <2> DEFINE gone == [server EXCEPT !.at = "gone"]
  <2>1. IsServer(gone) /\ gone.callback \in BOOLEAN
    BY <1>a, SetCallback, Zenon
  <2>2. server' = [gone EXCEPT !.callback = FALSE]
    BY <1>2 DEF RegisterThrows, Destroyed
  <2>3. FALSE \in BOOLEAN
    OBVIOUS
  <2> HIDE DEF gone
  <2> QED
    BY <2>1, <2>2, <2>3, SetCallback, Zenon
<1>3. CASE Register \/ Connected \/ RegisterFails \/ Destroy
  <2>1. PICK x : server' = [server EXCEPT !.at = x]
    BY <1>3 DEF Register, Connected, RegisterFails, Destroy
  <2> QED
    BY <1>a, <2>1, SetCallback, Zenon
<1>4. CASE Tick
  BY <1>a, <1>4 DEF Tick
<1>5. ASSUME NEW t \in Threads, NEW x, Enter(t, x) PROVE server'.callback \in BOOLEAN
  BY <1>a, <1>5 DEF Enter
<1> QED
  BY <1>1, <1>2, <1>3, <1>4, <1>5
  DEF Next, Deliver, Validate, CallbackReturns, ListenerThrows, Send

LEMMA NextTypeInv == GateInv /\ ReplyInv /\ TypeInv /\ [Next]_vars => TypeInv'
<1> SUFFICES ASSUME GateInv, ReplyInv, TypeInv, [Next]_vars PROVE TypeInv'
  OBVIOUS
<1>1. server'.callback \in BOOLEAN
  <2>1. CASE UNCHANGED vars
    BY <2>1 DEF vars, TypeInv
  <2> QED
    BY <2>1, CallbackFlag
<1>2. CASE UNCHANGED <<exec, sent, refused>>
  <2>1. now' \in 0..MaxTime
    BY <1>2, ServerAssumption
    DEF TypeInv, Next, vars, Tick, Create, RegisterThrows, Register, Connected, RegisterFails,
        Destroy, Destroyed, Deliver, Validate, CallbackReturns, ListenerThrows, Send, Enter
  <2> QED
    BY <1>1, <1>2, <2>1 DEF TypeInv
<1>3. ASSUME NEW t \in Threads, NEW x, Enter(t, x), UNCHANGED <<sent, refused>>,
             x.at \in {"idle", "validate", "callback", "send"}
      PROVE  TypeInv'
  BY <1>1, <1>3 DEF Enter, GateInv, TypeInv
<1>4. ASSUME NEW t \in Threads, Send(t) PROVE TypeInv'
  <2>1. /\ exec'[t] = Idle /\ \A u \in Threads : u # t => exec'[u] = exec[u]
        /\ UNCHANGED now
    BY <1>4 DEF Send, Enter, GateInv
  <2>2. exec[t].msg.type = "response"
    BY <1>4 DEF Send, ReplyInv, FullAnswer, Answer
  <2>3. \A m \in sent' \union {r.msg : r \in refused'} : m.type = "response"
    BY <1>4, <2>2 DEF Send, TypeInv
  <2> QED
    BY <1>1, <2>1, <2>3 DEF TypeInv, Idle
<1>5. ASSUME NEW t \in Threads, Validate(t) PROVE TypeInv'
  <2>1. CASE Enter(t, Idle)
    BY <1>3, <1>5, <2>1 DEF Validate, Idle
  <2>2. ASSUME NEW m, NEW b, Enter(t, [at |-> "callback", request |-> m, builder |-> b])
        PROVE  TypeInv'
    BY <1>3, <1>5, <2>2 DEF Validate
  <2> QED
    BY <1>5, <2>1, <2>2 DEF Validate
<1>6. ASSUME NEW t \in Threads, NEW m, Deliver(t, m) PROVE TypeInv'
  BY <1>3, <1>6 DEF Deliver
<1>7. ASSUME NEW t \in Threads, NEW returned, CallbackReturns(t, returned) PROVE TypeInv'
  BY <1>3, <1>7 DEF CallbackReturns
<1>8. ASSUME NEW t \in Threads, ListenerThrows(t) PROVE TypeInv'
  BY <1>3, <1>8 DEF ListenerThrows, Idle
<1> QED
  BY <1>2, <1>4, <1>5, <1>6, <1>7, <1>8
  DEF Next, vars, Tick, Create, RegisterThrows, Register, Connected, RegisterFails, Destroy,
      Destroyed

\* Every variable keeps its type, and the server only ever makes responses.
THEOREM TypeCorrect == Spec => []TypeOK
<1>1. Init => TypeInv
  <2> SUFFICES ASSUME Init PROVE TypeInv
    OBVIOUS
  <2>a. server = [at |-> "none", callback |-> FALSE, method |-> {}, ttl |-> {}, format |-> {}]
    BY DEF Init
  <2>1. server.callback = FALSE
    BY <2>a, Zenon
  <2>2. now \in 0..MaxTime /\ \A m \in sent \union {r.msg : r \in refused} : m.type = "response"
    BY ServerAssumption DEF Init
  <2>3. \A t \in Threads : exec[t].at \in {"idle", "validate", "callback", "send"}
    BY DEF Init, Idle
  <2> QED
    BY <2>1, <2>2, <2>3, Zenon DEF TypeInv
<1>2. GateInv /\ TypeInv => TypeOK
  BY Zenon DEF GateInv, States, TypeInv, TypeOK
<1> QED
  BY <1>1, <1>2, NextTypeInv, NextReplyInv, NextGateInv, InitGateInv, InitReplyInv, PTL DEF Spec

===============================================================================
