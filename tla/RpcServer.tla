------------------------------- MODULE RpcServer -------------------------------
(***************************************************************************)
(* One RpcServer (src/communication/RpcServer.cpp) on a UTransport         *)
(* (src/transport/UTransport.cpp): create() and connect(), the listener    *)
(* that the transport's threads run for every request, and the destructor. *)
(*                                                                         *)
(* The listener's connection is represented by its gate (module            *)
(* CallbackGate, which CallbackConnection implements).  The network keeps  *)
(* every message that was sent and delivers it late, out of order, more    *)
(* than once or never.                                                     *)
(***************************************************************************)
EXTENDS Messages, FiniteSets

CONSTANTS
    Methods,            \* UUris that create() is called with
    ServerTtls,         \* the ttl argument of create(): sets of at most one TTL
    ServerFormats,      \* the payload_format argument, likewise
    Incoming,           \* the messages that others send
    PayloadChoices,     \* what the RPC callback returns: {} or {format}
    Threads,            \* the transport's threads
    MaxTime,            \* bound on the clock, in ticks
    MaxReplies          \* bound on the number of responses

ASSUME ServerAssumption ==
    /\ \A ttl \in ServerTtls : ttl \subseteq Nat
    /\ \A format \in ServerFormats : format = {} \/ \E f \in format : format = {f}
    /\ \A format \in PayloadChoices :
          format = {} \/ \E f \in PayloadFormats : format = {f}
    /\ \A m \in Incoming :
          /\ m.id.ms \in Nat
          /\ \A a, b \in m.source : a = b
          /\ \A a, b \in m.sink : a = b
    /\ MaxTime \in Nat
    /\ MaxReplies \in Nat

VARIABLES
    now,                \* the system clock
    server,             \* where create() or the destructor is, and the members
    gate,               \* the connection of the listener
    exec,               \* the call of the listener that a thread is in
    sent,               \* messages handed to sendImpl()
    refused             \* history: responses that send() refused, and when

vars == <<now, server, gate, exec, sent, refused>>

Idle == [at |-> "idle"]

\* The threads inside the listener.
Active == {t \in Threads : exec[t].at # "idle"}

TypeOK ==
    /\ now \in 0..MaxTime
    /\ server.at \in {"none", "connect", "registered", "live", "draining", "gone"}
    /\ server.callback \in BOOLEAN
    /\ gate \in {"none", "open", "closing", "closed"}
    /\ \A t \in Threads : exec[t].at \in {"idle", "validate", "callback", "send"}
    /\ \A m \in sent \union {r.msg : r \in refused} : m.type = "response"

Init ==
    /\ now = 0
    /\ server = [at |-> "none", callback |-> FALSE, method |-> {}, ttl |-> {}, format |-> {}]
    /\ gate = "none"
    /\ exec = [t \in Threads |-> Idle]
    /\ sent = {}
    /\ refused = {}

Tick == now < MaxTime /\ now' = now + 1 /\ UNCHANGED <<server, gate, exec, sent, refused>>

-------------------------------------------------------------------------------
(* create() and connect(). *)

\* An invalid method or format is answered with a status, and nothing exists.
Create ==
    /\ server.at = "none"
    /\ \E method \in Methods, ttl \in ServerTtls, format \in ServerFormats :
          /\ isMethod(method)
          /\ \A f \in format : CanSetFormat(f)
          /\ server' = [at |-> "connect", callback |-> TRUE, method |-> {method},
                        ttl |-> ttl, format |-> format]
    /\ UNCHANGED <<now, gate, exec, sent, refused>>

\* registerListener() throws InvalidUUri: the server is destroyed unconnected.
\* The source filter, all wildcards, passes the check.
RegisterThrows ==
    /\ server.at = "connect"
    /\ \E method \in server.method : ~isValidFilter(method)
    /\ server' = [server EXCEPT !.at = "gone", !.callback = FALSE]
    /\ UNCHANGED <<now, gate, exec, sent, refused>>

\* establish(), and registerListenerImpl() has made the listener known.
Register ==
    /\ server.at = "connect"
    /\ \A method \in server.method : isValidFilter(method)
    /\ server' = [server EXCEPT !.at = "registered"]
    /\ gate' = "open"
    /\ UNCHANGED <<now, exec, sent, refused>>

\* registerListenerImpl() returns OK; the handle moves into callback_handle_.
Connected ==
    /\ server.at = "registered"
    /\ server' = [server EXCEPT !.at = "live"]
    /\ UNCHANGED <<now, gate, exec, sent, refused>>

\* registerListenerImpl() fails: the local handle is destroyed, then the server.
RegisterFails ==
    /\ server.at = "registered"
    /\ server' = [server EXCEPT !.at = "draining"]
    /\ gate' = "closing"
    /\ UNCHANGED <<now, exec, sent, refused>>

-------------------------------------------------------------------------------
(* ~RpcServer(): members are destroyed in reverse order, callback_handle_  *)
(* first and callback_ later.                                              *)

\* Faulty variant: callback_ is declared after callback_handle_.
DestroyCallbackFirst ==
    /\ server.at = "live"
    /\ server' = [server EXCEPT !.at = "draining", !.callback = FALSE]
    /\ gate' = "closing"
    /\ UNCHANGED <<now, exec, sent, refused>>

Destroy ==
    /\ server.at = "live"
    /\ server' = [server EXCEPT !.at = "draining"]
    /\ gate' = "closing"
    /\ UNCHANGED <<now, exec, sent, refused>>

\* The handle's destructor returns when nobody is inside the listener.
Destroyed ==
    /\ server.at = "draining"
    /\ Active = {}
    /\ gate' = "closed"
    /\ server' = [server EXCEPT !.at = "gone", !.callback = FALSE]
    /\ UNCHANGED <<now, exec, sent, refused>>

-------------------------------------------------------------------------------
(* The listener, on thread t. *)

Enter(t, state) ==
    /\ exec' = [exec EXCEPT ![t] = state]
    /\ UNCHANGED <<now, server, gate>>

\* The transport calls the listener with a message whose sink is the method.
\* CallbackGate!Enter: a closing gate admits callers while one is inside.
Deliver(t, m) ==
    /\ exec[t].at = "idle"
    /\ m.sink = server.method
    /\ gate = "open" \/ (gate = "closing" /\ Active # {})
    /\ Enter(t, [at |-> "validate", request |-> m])
    /\ UNCHANGED <<sent, refused>>

\* Faulty variant: the response does not carry the request's id but one that is
\* made when the request arrives.
ValidateNewId(t) ==
    /\ exec[t].at = "validate"
    /\ LET m == exec[t].request
       IN IF isValidRpcRequest(m, now)
          THEN \E sink \in m.source, method \in m.sink :
                   Enter(t, [at |-> "callback", request |-> m,
                             builder |-> response(sink, NewUuid(now, m.id.random),
                                                  m.priority, method)])
          ELSE Enter(t, Idle)
    /\ UNCHANGED <<sent, refused>>

\* isValidRpcRequest(), UMessageBuilder::response(request) and the call of
\* callback_; anything but a valid request is ignored.
Validate(t) ==
    /\ exec[t].at = "validate"
    /\ LET m == exec[t].request
       IN IF isValidRpcRequest(m, now)
          THEN \E sink \in m.source, method \in m.sink :
                   Enter(t, [at |-> "callback", request |-> m,
                             builder |-> response(sink, m.id, m.priority, method)])
          ELSE Enter(t, Idle)
    /\ UNCHANGED <<sent, refused>>

\* The builder after withTtl(ttl_) and withPayloadFormat(expected_payload_format_).
Configured(b) ==
    [b EXCEPT !.ttl = server.ttl,
              !.format = IF server.format = {} THEN @ ELSE CHOOSE f \in server.format : TRUE,
              !.expected = server.format]

\* withTtl() accepts ttl_ and build() the payload that the callback returned.
CanReply(b, returned) ==
    /\ \A ttl \in server.ttl : CanSetTtl(ttl)
    /\ IF returned = {} THEN CanBuild(Configured(b))
                        ELSE \A format \in returned : CanBuildWith(Configured(b), format)

Replies == Cardinality(sent) + Cardinality(refused)

\* build(), without or with a payload
Reply(t, b, returned) ==
    LET id == NewUuid(now, <<t, Replies>>)
    IN IF returned = {} THEN Built(Configured(b), id)
       ELSE BuiltWith(Configured(b), id, CHOOSE f \in returned : TRUE, "data")

\* callback_ returns and the response is built.
CallbackReturns(t, returned) ==
    /\ exec[t].at = "callback"
    /\ CanReply(exec[t].builder, returned)
    /\ Replies < MaxReplies
    /\ Enter(t, [at |-> "send", request |-> exec[t].request,
                 msg |-> Reply(t, exec[t].builder, returned)])
    /\ UNCHANGED <<sent, refused>>

\* callback_ throws, or its result cannot be built: the exception leaves the
\* listener.
ListenerThrows(t) ==
    /\ exec[t].at = "callback"
    /\ Enter(t, Idle)
    /\ UNCHANGED <<sent, refused>>

\* Faulty variant: the message is also checked against the request's own TTL.
SendWhileRequested(t) ==
    /\ exec[t].at = "send"
    /\ LET m == exec[t].msg
       IN IF isValid(m, now) /\ isValidRpcRequest(exec[t].request, now)
          THEN sent' = sent \union {m} /\ UNCHANGED refused
          ELSE refused' = refused \union {[msg |-> m, at |-> now]}
               /\ UNCHANGED sent
    /\ Enter(t, Idle)

\* UTransport::send(): an invalid message is refused by an exception.
Send(t) ==
    /\ exec[t].at = "send"
    /\ LET m == exec[t].msg
       IN IF isValid(m, now)
          THEN sent' = sent \union {m} /\ UNCHANGED refused
          ELSE refused' = refused \union {[msg |-> m, at |-> now]}
               /\ UNCHANGED sent
    /\ Enter(t, Idle)

Next ==
    \/ Tick
    \/ Create \/ RegisterThrows \/ Register \/ Connected \/ RegisterFails
    \/ Destroy \/ Destroyed
    \/ \E t \in Threads :
          \/ \E m \in Incoming : Deliver(t, m)
          \/ Validate(t)
          \/ \E returned \in PayloadChoices : CallbackReturns(t, returned)
          \/ ListenerThrows(t)
          \/ Send(t)

Spec == Init /\ [][Next]_vars

-------------------------------------------------------------------------------
(* Properties. *)

\* callback_ and the server's other members exist as long as a thread is inside the
\* listener, whatever the moment at which the server is destroyed or its
\* registration fails: callback_handle_ is destroyed first and waits.
ListenerOutlived ==
    Active # {} => server.callback /\ server.at \notin {"none", "connect", "gone"}

\* Every response that was sent answers a request that was received, and passes
\* the check isValidRpcResponseFor() that its client would make.
RepliesMatch ==
    \A m \in sent : \E q \in Incoming :
        isValidRpcResponseFor(q, m, m.id.ms * TicksPerMs)

\* A server that was given no TTL never loses a response in send(), however long its
\* callback takes, although the request may have expired meanwhile.
NoTtlNoLoss == server.ttl = {} => refused = {}

===============================================================================
