-------------------------------- MODULE Consumer --------------------------------
(***************************************************************************)
(* One uSubscription Consumer (src/client/usubscription/v3/Consumer.cpp):  *)
(* create(), unsubscribe(), the destructor, and the callbacks that other   *)
(* threads run meanwhile.                                                  *)
(*                                                                         *)
(* The consumer holds up to three kinds of connection: a NotificationSink  *)
(* for updates, the L2 Subscriber, and one RPC request at a time, which    *)
(* has two: the response listener, kept by the expire worker's queue, and  *)
(* the callback's connection, whose handle is rpc_handle_.  Each is a gate *)
(* (module CallbackGate).  Requests are numbered: 1 is the subscription,   *)
(* the others are made by unsubscribe().  An RpcClient is named by the     *)
(* request it is made for.  Of the worker, module RpcClient has the        *)
(* details; here a pending request may expire at any moment, and other     *)
(* RpcClients of the process may have requests in the same queue.          *)
(*                                                                         *)
(* A message that a callback gets is the set of the topics that it can     *)
(* read from it: {} stands for an error, a missing payload or one that     *)
(* does not parse.                                                         *)
(***************************************************************************)
EXTENDS Messages, SubscriptionRequests, FiniteSets

CONSTANTS
    Topics,             \* the topic argument of create()
    Entities,           \* the entity URI of the transport
    Options,            \* the consumer_options argument
    Levels, Ttls,       \* the priority and TTL arguments
    Contents,           \* what a message may hold: sets of at most one topic
    Threads,            \* the transport's threads
    MaxRequests         \* bound on the number of requests

ASSUME ConsumerAssumption == MaxRequests \in Nat \ {0} /\ \A e \in Entities : CanTransport(e)

\* Optional values are sets of at most one element.
ASSUME ContentsAssumption ==
    {} \in Contents /\ \A content \in Contents : \A a, b \in content : a = b

ASSUME OptionsAssumption ==
    \A options \in Options :
        /\ options.when_expire \subseteq Int
        /\ options.sample_period_ms \subseteq Int
        /\ \A a, b \in options.when_expire : a = b
        /\ \A a, b \in options.sample_period_ms : a = b

Worker == "worker"      \* the thread of the ExpireWorker
Callers == Threads \union {Worker}

NoRequest == 0
Requests == 1..MaxRequests

\* The gates
Sink      == <<"update", NoRequest>>
Topic     == <<"message", NoRequest>>
Listen(r) == <<"listen", r>>
Invoke(r) == <<"invoke", r>>
Gates     == {Sink, Topic, Invoke(NoRequest)}
             \union {Listen(r) : r \in Requests} \union {Invoke(r) : r \in Requests}

VARIABLES
    owner,              \* the application's thread and the members it alone uses
    gate,               \* state of every gate
    exec,               \* what the other threads are doing, and inside which gates
    once,               \* callback_once of every request
    pending,            \* requests in the worker's queue
    sent,               \* history: the requests handed to the transport, by number
    stored,             \* subscription_update_ and subscription_response_
    destroyed           \* the members whose destructor has run

vars == <<owner, gate, exec, once, pending, sent, stored, destroyed>>

Idle == [at |-> "idle", in |-> {}]

\* CallbackGate: a gate admits callers while it is open or somebody is inside.
Inside(g) == {c \in Callers : g \in exec[c].in}
Admits(g) == gate[g] = "open" \/ Inside(g) # {}

Building == {"sink registered", "client", "subscriber", "subscribing"}
Calling  == {"cancel", "invoke", "registered", "send", "unwind", "assign"}
Dying    == {"~subscriber", "~response", "~handle", "~client", "~update", "~sink"}

TypeOK ==
    /\ owner.at \in {"none", "live", "reset", "gone"} \union Building \union Calling \union Dying
    /\ owner.wait \subseteq Gates /\ Cardinality(owner.wait) <= 1
    /\ owner.client \in 0..MaxRequests /\ owner.handle \in 0..owner.client
    /\ owner.unsubscribed \in BOOLEAN /\ owner.shared \in BOOLEAN
    /\ gate \in [Gates -> {"none", "open", "closing", "closed", "dropped"}]
    /\ \A c \in Callers :
          /\ exec[c].at \in {"idle", "update", "message", "listener", "response", "drain", "expire"}
          /\ exec[c].in \subseteq Gates
    /\ once \in [Requests -> {"unset", "running", "done"}]
    /\ pending \subseteq Requests
    /\ DOMAIN sent = Requests
    /\ \A q \in UNION {sent[r] : r \in Requests} :
          /\ q.topic \in Topics
          /\ \A a \in q.attributes : a.sample_period_ms \subseteq 0..(UInt32Size - 1)
    /\ stored \in [{"update", "response"} -> Contents]
    /\ destroyed \subseteq {"response", "update", "topic"}

Init ==
    /\ \E topic \in Topics, entity \in Entities, options \in Options, shared \in BOOLEAN :
          owner = [at |-> "none", wait |-> {}, client |-> NoRequest, handle |-> NoRequest,
                   unsubscribed |-> FALSE, topic |-> topic, entity |-> entity,
                   options |-> options,
                   shared |-> shared]   \* other clients use the worker's queue too
    /\ gate = [g \in Gates |-> "none"]
    /\ exec = [c \in Callers |-> Idle]
    /\ once = [r \in Requests |-> "unset"]
    /\ pending = {}
    /\ sent = [r \in Requests |-> {}]
    /\ stored = [update |-> {}, response |-> {}]
    /\ destroyed = {}

-------------------------------------------------------------------------------
(* Steps of the owner.  A step that resets or destroys a handle begins to  *)
(* close its gate, and the owner waits until it is drained.                *)

At(point)     == owner.at = point /\ owner.wait = {}
GoTo(point)   == owner' = [owner EXCEPT !.at = point]
Open(g)       == gate' = [gate EXCEPT ![g] = "open"]

Close(g, fields) ==
    /\ owner' = [fields EXCEPT !.wait = IF gate[g] = "open" THEN {g} ELSE {}]
    /\ gate' = [gate EXCEPT ![g] = IF @ = "open" THEN "closing" ELSE @]

CloseAndGoTo(g, point) == Close(g, [owner EXCEPT !.at = point])

\* The handle's destructor or reset() returns.
Drained ==
    /\ \E g \in owner.wait :
          /\ Inside(g) = {}
          /\ gate' = [gate EXCEPT ![g] = "closed"]
    /\ owner' = [owner EXCEPT !.wait = {}]
    /\ UNCHANGED <<exec, once, pending, sent, stored, destroyed>>

calls == <<once, pending, sent>>
threads == <<exec, stored>>

-------------------------------------------------------------------------------
(* createNotificationSink() *)

Notifications == getNotificationUri(ServiceUri)

CanListen == isValidSubscription(Notifications) /\ CanRegister(Notifications, {owner.entity})

\* The constructor of Consumer; NotificationSink::create() throws InvalidUUri.
SinkThrows ==
    /\ At("none")
    /\ ~CanListen
    /\ GoTo("~subscriber")
    /\ UNCHANGED <<gate, threads, calls, destroyed>>

\* The constructor; registerListenerImpl() has made the listener known.
SinkRegister ==
    /\ At("none")
    /\ CanListen
    /\ GoTo("sink registered")
    /\ Open(Sink)
    /\ UNCHANGED <<threads, calls, destroyed>>

SinkConnected ==
    /\ At("sink registered")
    /\ GoTo("client")
    /\ UNCHANGED <<gate, threads, calls, destroyed>>

\* registerListenerImpl() fails: the handle is destroyed, then the consumer.
SinkFails ==
    /\ At("sink registered")
    /\ CloseAndGoTo(Sink, "~subscriber")
    /\ UNCHANGED <<threads, calls, destroyed>>

-------------------------------------------------------------------------------
(* subscribe() and unsubscribe().  Both make an RpcClient and call         *)
(* invokeMethod() with it.                                                 *)

\* The constructor of RpcClient accepts the arguments.
ClientFits(level, ttl) ==
    CanSetPriority(Builder("request", owner.entity, {}, {}), level) /\ CanSetTtl(ttl)

ClientThrows ==
    /\ At("client")
    /\ \E level \in Levels, ttl \in Ttls : ~ClientFits(level, ttl)
    /\ GoTo("~subscriber")
    /\ UNCHANGED <<gate, threads, calls, destroyed>>

NewClient ==
    /\ At("client")
    /\ \E level \in Levels, ttl \in Ttls : ClientFits(level, ttl)
    /\ owner' = [owner EXCEPT !.at = "invoke", !.client = 1]
    /\ UNCHANGED <<gate, threads, calls, destroyed>>

\* Faulty variant: the old request stays in the queue.
UnsubscribeNoScrub ==
    /\ At("live")
    /\ owner.client < MaxRequests
    /\ \E level \in Levels, ttl \in Ttls : ClientFits(level, ttl)
    /\ owner' = [owner EXCEPT !.at = "invoke", !.client = @ + 1]
    /\ UNCHANGED <<gate, threads, calls, destroyed>>

\* scrub() takes the client's request out of the queue, unless the worker has done
\* so, and destroys its listener.  But if a request of another client is behind it,
\* remove_if() moves that one over it, which drops the handle without severing it.
Scrub(fields) ==
    LET listener == Listen(owner.client)
    IN  /\ \/ owner.client \in pending /\ Close(listener, fields)
           \/ /\ owner.client \in pending /\ owner.shared
              /\ owner' = fields
              /\ gate' = [gate EXCEPT ![listener] = IF @ = "open" THEN "dropped" ELSE @]
           \/ owner.client \notin pending /\ owner' = fields /\ UNCHANGED gate
        /\ pending' = pending \ {owner.client}

\* unsubscribe(): the new RpcClient replaces the old one, whose destructor scrubs
\* the queue.  (If the new client cannot be made, nothing changes.)
Unsubscribe ==
    /\ At("live")
    /\ owner.client < MaxRequests
    /\ \E level \in Levels, ttl \in Ttls : ClientFits(level, ttl)
    /\ Scrub([owner EXCEPT !.client = @ + 1,
                           !.at = IF owner.client \in pending THEN "cancel" ELSE "invoke"])
    /\ UNCHANGED <<threads, once, sent, destroyed>>

\* Then the scrubbed request's callback gets the status CANCELLED, by call_once and
\* so after a running callback.  A callback that gets a status does nothing.
Cancel ==
    /\ At("cancel")
    /\ once[owner.client - 1] # "running"
    /\ once' = [once EXCEPT ![owner.client - 1] = "done"]
    /\ GoTo("invoke")
    /\ UNCHANGED <<gate, threads, pending, sent, destroyed>>

\* invokeMethod(): establish() and registerListener() for the response
CallRegister ==
    LET r == owner.client
        method == getServiceUriWithResourceId(ServiceUri, IF r = 1 THEN RESOURCE_ID_SUBSCRIBE
                                                                  ELSE RESOURCE_ID_UNSUBSCRIBE)
    IN  /\ At("invoke")
        /\ CanRegister(method, {owner.entity})
        /\ gate' = [gate EXCEPT ![Invoke(r)] = "open", ![Listen(r)] = "open"]
        /\ GoTo("registered")
        /\ UNCHANGED <<threads, calls, destroyed>>

\* registerListenerImpl() fails: its handle is destroyed, and expire() gives the
\* callback the status, which it ignores.  The call goes on.
CallRegisterFails ==
    /\ At("registered")
    /\ CloseAndGoTo(Listen(owner.client), "assign")
    /\ once' = [once EXCEPT ![owner.client] = "done"]
    /\ UNCHANGED <<threads, pending, sent, destroyed>>

buildSubscriptionRequest   == BuildSubscriptionRequest(owner.topic, owner.options)
buildUnsubscriptionRequest == BuildUnSubscribeRequest(owner.topic)

Request ==
    IF owner.client = 1 THEN buildSubscriptionRequest ELSE buildUnsubscriptionRequest

\* sendImpl() has taken the request.
CallSend ==
    /\ At("registered")
    /\ sent' = [sent EXCEPT ![owner.client] = {Request}]
    /\ GoTo("send")
    /\ UNCHANGED <<gate, threads, once, pending, destroyed>>

\* It returns OK and the request is enqueued.
CallSent ==
    /\ At("send")
    /\ pending' = pending \union {owner.client}
    /\ GoTo("assign")
    /\ UNCHANGED <<gate, threads, once, sent, destroyed>>

\* It returns an error: expire(), by call_once and so after a running callback,
\* and then the listener's handle is destroyed.
CallSendFails ==
    /\ At("send")
    /\ once[owner.client] # "running"
    /\ once' = [once EXCEPT ![owner.client] = "done"]
    /\ CloseAndGoTo(Listen(owner.client), "assign")
    /\ UNCHANGED <<threads, pending, sent, destroyed>>

\* UTransport::send() throws when the request expired before it was sent: the
\* listener's handle is destroyed, and then the callback's.
CallThrows ==
    /\ At("registered")
    /\ CloseAndGoTo(Listen(owner.client), "unwind")
    /\ UNCHANGED <<threads, calls, destroyed>>

\* The exception leaves create() or unsubscribe().
CallUnwind ==
    /\ At("unwind")
    /\ CloseAndGoTo(Invoke(owner.client), IF owner.client = 1 THEN "~subscriber" ELSE "live")
    /\ UNCHANGED <<threads, calls, destroyed>>

\* rpc_handle_ is assigned; a handle that it held is not severed.
CallAssign ==
    /\ At("assign")
    /\ owner' = [owner EXCEPT !.handle = owner.client,
                              !.at = IF owner.client = 1 THEN "subscriber" ELSE "reset"]
    /\ gate' = [gate EXCEPT ![Invoke(owner.handle)] = IF @ = "open" THEN "dropped" ELSE @]
    /\ UNCHANGED <<threads, calls, destroyed>>

\* Subscriber::subscribe() throws InvalidUUri.
SubscriberThrows ==
    /\ At("subscriber")
    /\ ~isValidSubscription(owner.topic)
    /\ GoTo("~subscriber")
    /\ UNCHANGED <<gate, threads, calls, destroyed>>

SubscriberRegister ==
    /\ At("subscriber")
    /\ isValidSubscription(owner.topic) /\ CanRegister(owner.topic, {})
    /\ Open(Topic)
    /\ GoTo("subscribing")
    /\ UNCHANGED <<threads, calls, destroyed>>

\* create() returns the consumer.
SubscriberConnected ==
    /\ At("subscribing")
    /\ GoTo("live")
    /\ UNCHANGED <<gate, threads, calls, destroyed>>

\* registerListenerImpl() fails: the handle is destroyed, then the consumer.
SubscriberFails ==
    /\ At("subscribing")
    /\ CloseAndGoTo(Topic, "~subscriber")
    /\ UNCHANGED <<threads, calls, destroyed>>

\* Faulty variant: only the reference is released.
UnsubscribedAtOnce ==
    /\ At("reset")
    /\ gate' = [gate EXCEPT ![Topic] = IF @ = "open" THEN "dropped" ELSE @]
    /\ owner' = [owner EXCEPT !.at = "live", !.unsubscribed = TRUE]
    /\ UNCHANGED <<threads, calls, destroyed>>

\* subscriber_.reset(), with which unsubscribe() ends
Unsubscribed ==
    /\ At("reset")
    /\ Close(Topic, [owner EXCEPT !.at = "live", !.unsubscribed = TRUE])
    /\ UNCHANGED <<threads, calls, destroyed>>

-------------------------------------------------------------------------------
(* ~Consumer(): the members are destroyed from the last to the first. *)

Destroy ==
    /\ At("live")
    /\ GoTo("~subscriber")
    /\ UNCHANGED <<gate, threads, calls, destroyed>>

DestroySubscriber ==
    /\ At("~subscriber")
    /\ CloseAndGoTo(Topic, "~response")
    /\ UNCHANGED <<threads, calls, destroyed>>

DestroyResponse ==
    /\ At("~response")
    /\ destroyed' = destroyed \union {"response"}
    /\ GoTo("~handle")
    /\ UNCHANGED <<gate, threads, calls>>

\* Faulty variant: the handle only releases its reference.
DestroyHandleUnsevered ==
    /\ At("~handle")
    /\ gate' = [gate EXCEPT ![Invoke(owner.handle)] = IF @ = "open" THEN "closed" ELSE @]
    /\ GoTo("~client")
    /\ UNCHANGED <<threads, calls, destroyed>>

DestroyHandle ==
    /\ At("~handle")
    /\ CloseAndGoTo(Invoke(owner.handle), "~client")
    /\ UNCHANGED <<threads, calls, destroyed>>

\* The callback that scrub() would cancel is gone with its handle.
DestroyClient ==
    /\ At("~client")
    /\ Scrub([owner EXCEPT !.at = "~update"])
    /\ UNCHANGED <<threads, once, sent, destroyed>>

DestroyUpdate ==
    /\ At("~update")
    /\ destroyed' = destroyed \union {"update"}
    /\ GoTo("~sink")
    /\ UNCHANGED <<gate, threads, calls>>

\* noficationSinkHandle_, and then what is left
DestroySink ==
    /\ At("~sink")
    /\ CloseAndGoTo(Sink, "gone")
    /\ UNCHANGED <<threads, calls, destroyed>>

DestroyRest ==
    /\ At("gone")
    /\ "topic" \notin destroyed
    /\ destroyed' = destroyed \union {"topic"}
    /\ UNCHANGED <<owner, gate, threads, calls>>

-------------------------------------------------------------------------------
(* The other threads. *)

Run(c, state) == exec' = [exec EXCEPT ![c] = state]

ownerVars == <<owner, gate, destroyed>>

\* A thread enters the callback of the sink or of the subscriber with a message.
Deliver(t, g, content) ==
    /\ exec[t].at = "idle"
    /\ Admits(g)
    /\ Run(t, [at |-> g[1], in |-> {g}, content |-> content])
    /\ UNCHANGED <<ownerVars, calls, stored>>

\* What a callback keeps of a message: only what is about subscription_topic_.
Keep(content) == content \intersect {owner.topic}

Store(member, content) ==
    stored' = [stored EXCEPT ![member] = IF Keep(content) = {} THEN @ ELSE Keep(content)]

UpdateReturns(t) ==
    /\ exec[t].at = "update"
    /\ Store("update", exec[t].content)
    /\ Run(t, Idle)
    /\ UNCHANGED <<ownerVars, calls>>

MessageReturns(t) ==
    /\ exec[t].at = "message"
    /\ Run(t, Idle)
    /\ UNCHANGED <<ownerVars, calls, stored>>

\* A thread enters the response listener with an answer to request r.
Answer(t, r, content) ==
    /\ exec[t].at = "idle"
    /\ sent[r] # {}
    /\ Admits(Listen(r))
    /\ Run(t, [at |-> "listener", in |-> {Listen(r)}, request |-> r, content |-> content])
    /\ UNCHANGED <<ownerVars, calls, stored>>

\* call_once in the listener, on a transport thread, or in expire(), on the
\* worker's: the callback runs if its connection still is there.
CallOnce(c, point) ==
    LET r == exec[c].request
        entered == once[r] = "unset" /\ Admits(Invoke(r))
    IN  /\ exec[c].at = point
        /\ once[r] # "running"
        /\ once' = [once EXCEPT ![r] = IF entered THEN "running" ELSE "done"]
        /\ Run(c, IF entered THEN [exec[c] EXCEPT !.at = "response", !.in = @ \union {Invoke(r)}]
                             ELSE Idle)
        /\ UNCHANGED <<ownerVars, pending, sent, stored>>

\* on_response returns; that of an unsubscription keeps nothing.
ResponseReturns(c) ==
    LET r == exec[c].request
    IN  /\ exec[c].at = "response"
        /\ IF r = 1 THEN Store("response", exec[c].content) ELSE UNCHANGED stored
        /\ once' = [once EXCEPT ![r] = "done"]
        /\ Run(c, Idle)
        /\ UNCHANGED <<ownerVars, pending, sent>>

\* doWork() takes a request whose time has come, and destroys its listener.
WorkerTake(r) ==
    /\ exec[Worker].at = "idle"
    /\ r \in pending
    /\ pending' = pending \ {r}
    /\ gate' = [gate EXCEPT ![Listen(r)] = "closing"]
    /\ Run(Worker, [at |-> "drain", in |-> {}, request |-> r, content |-> {}])
    /\ UNCHANGED <<owner, destroyed, once, sent, stored>>

WorkerDrained ==
    /\ exec[Worker].at = "drain"
    /\ LET r == exec[Worker].request
       IN Inside(Listen(r)) = {} /\ gate' = [gate EXCEPT ![Listen(r)] = "closed"]
    /\ Run(Worker, [exec[Worker] EXCEPT !.at = "expire"])
    /\ UNCHANGED <<owner, destroyed, calls, stored>>

Create ==
    \/ SinkThrows \/ SinkRegister \/ SinkConnected \/ SinkFails
    \/ ClientThrows \/ NewClient
    \/ SubscriberThrows \/ SubscriberRegister \/ SubscriberConnected \/ SubscriberFails

InvokeMethod ==
    \/ CallRegister \/ CallRegisterFails \/ CallSend \/ CallSent \/ CallSendFails
    \/ CallThrows \/ CallUnwind \/ CallAssign

Destructor ==
    \/ Destroy \/ DestroySubscriber \/ DestroyResponse \/ DestroyHandle \/ DestroyClient
    \/ DestroyUpdate \/ DestroySink \/ DestroyRest

Callback ==
    \/ \E t \in Threads, content \in Contents :
          \/ \E g \in {Sink, Topic} : Deliver(t, g, content)
          \/ \E r \in Requests : Answer(t, r, content)
    \/ \E t \in Threads : UpdateReturns(t) \/ MessageReturns(t) \/ CallOnce(t, "listener")
    \/ \E c \in Callers : ResponseReturns(c)
    \/ \E r \in Requests : WorkerTake(r)
    \/ WorkerDrained
    \/ CallOnce(Worker, "expire")

Next ==
    \/ Drained \/ Create \/ InvokeMethod
    \/ Unsubscribe \/ Cancel \/ Unsubscribed
    \/ Destructor
    \/ Callback

Spec == Init /\ [][Next]_vars

-------------------------------------------------------------------------------
(* Properties. *)

Finished == owner.at = "gone" /\ owner.wait = {}

\* The worker is removing the listener of request r.
Removing(r) == exec[Worker].at = "drain" /\ exec[Worker].request = r

\* When the destructor has returned, or create() has failed in whatever way, no
\* request of the consumer is left in the queue, and every connection that was made
\* is severed with nobody inside.  Exempt are an on_response whose handle
\* unsubscribe() overwrote, a listener that the worker is removing and, only if other
\* clients use the queue, one whose handle scrub() dropped.
NothingLeft ==
    Finished =>
        /\ pending = {}
        /\ \A g \in Gates :
              \/ gate[g] \in {"none", "closed"} /\ Inside(g) = {}
              \/ gate[g] = "dropped" /\ g[1] = "invoke"
              \/ gate[g] = "dropped" /\ g[1] = "listen" /\ owner.shared
              \/ g[1] = "listen" /\ Removing(g[2])

\* When unsubscribe() has returned, the application's callback is not running and
\* never runs again, however many messages are being delivered.
SilentAfterUnsubscribe ==
    owner.unsubscribed /\ owner.wait = {} => Inside(Topic) = {} /\ ~Admits(Topic)

\* The worker has taken request r and not yet done with it.
Expiring(r) == exec[Worker].at \in {"drain", "expire", "response"} /\ exec[Worker].request = r

\* While the application is not inside a call, at most the latest request of the
\* consumer is in the queue.  Of an earlier one on_response is not running, unless the
\* worker is expiring it, and the response listener admits nobody: it is severed, or
\* the worker is removing it, or, if other clients use the queue, scrub() dropped its
\* handle while threads were inside.
OldRequestRetired ==
    At("live") =>
        /\ pending \subseteq {owner.client}
        /\ \A r \in Requests \ {owner.client} :
              /\ Admits(Listen(r)) =>
                    Removing(r) \/ (owner.shared /\ gate[Listen(r)] = "dropped")
              /\ Inside(Invoke(r)) # {} => Expiring(r)

\* The service can read from a subscription request the very instant and, if it fits
\* 32 bits, the period that the application asked for; a time after the epoch has a
\* fraction between 0 and one second.
AsksAsWished ==
    \A r \in Requests : \A q \in sent[r] : \A a \in q.attributes :
        /\ {e.seconds * NANOSECONDS_PER_SECOND + e.nanos : e \in a.expire}
               = owner.options.when_expire
        /\ \A time \in owner.options.when_expire : time >= 0 =>
              \A e \in a.expire : e.nanos \in 0..(NANOSECONDS_PER_SECOND - 1)
        /\ \A period \in owner.options.sample_period_ms :
              period \in 0..(UInt32Size - 1) => a.sample_period_ms = {period}

\* The members that the callback which c is inside still has to use
Needs(c) ==
    IF \/ exec[c].at \notin {"update", "response"}
       \/ exec[c].at = "response" /\ exec[c].request # 1
    THEN {}
    ELSE {m \in {"topic", exec[c].at} :
             IF m = "topic" THEN exec[c].content # {} ELSE Keep(exec[c].content) # {}}

\* CallbackConnection.h asks that no object a callback refers to be cleaned up
\* before the connection is severed: no callback of the consumer finds a member
\* that it uses destroyed.
MembersOutliveCallbacks == \A c \in Callers : Needs(c) \intersect destroyed = {}

===============================================================================
