----------------------------- MODULE ConsumerProofs -----------------------------
(***************************************************************************)
(* Proofs about Consumer, for any topics, options, messages, threads and   *)
(* number of requests.                                                     *)
(***************************************************************************)
EXTENDS Consumer, FiniteSetTheorems, TLAPS

-------------------------------------------------------------------------------
(* The application's callback after unsubscribe().                         *)

\* A record with the fields of the owner.
IsOwner(f) ==
    f = [at |-> f.at, wait |-> f.wait, client |-> f.client, handle |-> f.handle,
         unsubscribed |-> f.unsubscribed, topic |-> f.topic, entity |-> f.entity,
         options |-> f.options, shared |-> f.shared]

\* What the records and functions of the state look like.
ShapeInv ==
    /\ IsOwner(owner)
    /\ gate = [g \in Gates |-> gate[g]]
    /\ exec = [c \in Callers |-> exec[c]]
    /\ \A c \in Callers : {"at", "in"} \subseteq DOMAIN exec[c]

\* Which client the owner may have at a point: the L2 subscriber is made with the
\* first client only, and unsubscribe() makes another one.
ClientAt(point, client) ==
    /\ point \in {"none", "sink registered", "client"} => client = 0
    /\ point \in {"subscriber", "subscribing"} => client = 1
    /\ point \in {"live", "invoke", "registered", "send", "unwind", "assign"} => client > 0
    /\ point \in {"cancel", "reset"} => client > 1

ClientInv ==
    /\ owner.client \in Nat
    /\ owner.unsubscribed => owner.client > 1
    /\ ClientAt(owner.at, owner.client)

\* The subscriber's gate is closing only while the owner waits for it, is empty when
\* closed, and is not open after unsubscribe().
TopicInv ==
    /\ gate[Topic] \in {"none", "open", "closing", "closed"}
    /\ gate[Topic] = "closing" => owner.wait = {Topic}
    /\ gate[Topic] \in {"none", "closed"} => Inside(Topic) = {}
    /\ owner.unsubscribed => gate[Topic] # "open"

SilentInv == ShapeInv /\ ClientInv /\ TopicInv

\* The subscriber's gate is none of the others.
LEMMA TopicDiffers ==
  /\ Topic \in Gates
  /\ Sink # Topic
  /\ \A r : Listen(r) # Topic /\ Invoke(r) # Topic
  BY DEF Topic, Sink, Listen, Invoke, Gates

\* Setting one field keeps the others.
LEMMA SetUnsubscribed ==
  ASSUME NEW f, IsOwner(f), NEW b
  PROVE  LET g == [f EXCEPT !.unsubscribed = b]
         IN  /\ IsOwner(g) /\ g.at = f.at /\ g.client = f.client /\ g.handle = f.handle
             /\ g.topic = f.topic /\ g.options = f.options /\ g.shared = f.shared
  BY DEF IsOwner

\* The members after unsubscribe() has replaced the client
LEMMA Replaced ==
  ASSUME IsOwner(owner), NEW point
  PROVE  LET f == [owner EXCEPT !.client = @ + 1, !.at = point]
         IN  /\ IsOwner(f) /\ f.at = point /\ f.client = owner.client + 1
             /\ f.handle = owner.handle /\ f.wait = owner.wait
             /\ f.unsubscribed = owner.unsubscribed /\ f.topic = owner.topic
             /\ f.options = owner.options /\ f.shared = owner.shared
<1> DEFINE replaced == [owner EXCEPT !.client = @ + 1]
           f == [replaced EXCEPT !.at = point]
<1>1. /\ IsOwner(replaced) /\ replaced.client = owner.client + 1
      /\ replaced.handle = owner.handle /\ replaced.wait = owner.wait
      /\ replaced.unsubscribed = owner.unsubscribed /\ replaced.topic = owner.topic
      /\ replaced.options = owner.options /\ replaced.shared = owner.shared
  BY DEF IsOwner
<1>2. /\ IsOwner(f) /\ f.at = point /\ f.client = replaced.client
      /\ f.handle = replaced.handle /\ f.wait = replaced.wait
      /\ f.unsubscribed = replaced.unsubscribed /\ f.topic = replaced.topic
      /\ f.options = replaced.options /\ f.shared = replaced.shared
  <2> HIDE DEF replaced
  <2> QED
    BY <1>1 DEF IsOwner
<1> QED
  BY <1>1, <1>2

\* Before create() nothing exists.
LEMMA InitSilentInv == Init => SilentInv
<1> SUFFICES ASSUME Init PROVE SilentInv
  OBVIOUS
<1>1. ShapeInv
  BY DEF Init, ShapeInv, IsOwner, Idle
<1>2. ClientInv
  BY DEF Init, ClientInv, ClientAt, NoRequest
<1>3. TopicInv
  BY TopicDiffers DEF Init, TopicInv, Inside, Idle
<1> QED
  BY <1>1, <1>2, <1>3 DEF SilentInv

\* A step of the owner that leaves the subscriber's gate alone.
LEMMA GoToStep ==
  ASSUME SilentInv, owner.wait = {}, NEW point, GoTo(point), ClientAt(point, owner.client),
         UNCHANGED exec, gate' = [g \in Gates |-> gate'[g]], gate'[Topic] = gate[Topic]
  PROVE  SilentInv'
<1>1. ShapeInv' /\ owner' = [owner EXCEPT !.at = point]
  BY DEF GoTo, SilentInv, ShapeInv, IsOwner
<1>2. ClientInv'
  BY <1>1 DEF SilentInv, ShapeInv, IsOwner, ClientInv
<1>3. TopicInv'
  BY <1>1 DEF SilentInv, ShapeInv, IsOwner, TopicInv, Inside
<1> QED
  BY <1>1, <1>2, <1>3 DEF SilentInv

\* Closing a gate, which may be the subscriber's, with new values of some members.
LEMMA CloseStep ==
  ASSUME SilentInv, owner.wait = {}, NEW g, NEW fields, Close(g, fields), UNCHANGED exec,
         IsOwner(fields),
         fields.client \in Nat, ClientAt(fields.at, fields.client),
         fields.unsubscribed => fields.client > 1,
         fields.unsubscribed => owner.unsubscribed \/ g = Topic
  PROVE  SilentInv'
<1>1. ShapeInv' /\ owner' = [fields EXCEPT !.wait = IF gate[g] = "open" THEN {g} ELSE {}]
  BY DEF Close, SilentInv, ShapeInv, IsOwner
<1>2. ClientInv'
  BY <1>1 DEF ClientInv
<1>3. TopicInv'
  <2>1. CASE g = Topic
    BY <1>1, <2>1, TopicDiffers DEF Close, SilentInv, ShapeInv, IsOwner, TopicInv, Inside
  <2>2. CASE g # Topic
    BY <1>1, <2>2, TopicDiffers DEF Close, SilentInv, ShapeInv, IsOwner, TopicInv, Inside
  <2> QED
    BY <2>1, <2>2
<1> QED
  BY <1>1, <1>2, <1>3 DEF SilentInv

\* Closing a gate on the way to another point.
LEMMA CloseAndGoToStep ==
  ASSUME SilentInv, owner.wait = {}, NEW g, NEW point, CloseAndGoTo(g, point),
         ClientAt(point, owner.client), UNCHANGED exec
  PROVE  SilentInv'
<1> DEFINE fields == [owner EXCEPT !.at = point]
<1>1. /\ IsOwner(fields)
      /\ fields.at = point /\ fields.client = owner.client
      /\ fields.unsubscribed = owner.unsubscribed
  BY DEF SilentInv, ShapeInv, IsOwner
<1>2. Close(g, fields) /\ owner.client \in Nat /\ (owner.unsubscribed => owner.client > 1)
  BY DEF CloseAndGoTo, SilentInv, ClientInv
<1> HIDE DEF fields
<1> QED
  BY <1>1, <1>2, CloseStep

\* scrub() concerns a response listener only.
LEMMA ScrubStep ==
  ASSUME SilentInv, owner.wait = {}, NEW fields, Scrub(fields), UNCHANGED exec,
         IsOwner(fields), fields.wait = {},
         fields.client \in Nat, ClientAt(fields.at, fields.client),
         fields.unsubscribed => fields.client > 1,
         fields.unsubscribed => owner.unsubscribed
  PROVE  SilentInv'
<1>1. CASE Close(Listen(owner.client), fields)
  BY <1>1, CloseStep
<1>2. CASE ~Close(Listen(owner.client), fields)
  <2>1. /\ owner' = fields /\ gate' = [g \in Gates |-> gate'[g]]
        /\ gate'[Topic] = gate[Topic]
    BY <1>2, TopicDiffers DEF Scrub, SilentInv, ShapeInv
  <2>2. ShapeInv' /\ ClientInv'
    BY <2>1 DEF SilentInv, ShapeInv, ClientInv
  <2>3. TopicInv'
    BY <2>1 DEF SilentInv, TopicInv, Inside
  <2> QED
    BY <2>2, <2>3 DEF SilentInv
<1> QED
  BY <1>1, <1>2

\* A step of another thread: it is inside the subscriber's callback afterwards only
\* if it was before or if the gate admitted it.
LEMMA ThreadStep ==
  ASSUME SilentInv, NEW c \in Callers, NEW x, Run(c, x), {"at", "in"} \subseteq DOMAIN x,
         Topic \in x.in => Topic \in exec[c].in \/ Admits(Topic),
         UNCHANGED owner, gate' = [g \in Gates |-> gate'[g]], gate'[Topic] = gate[Topic]
  PROVE  SilentInv'
<1>1. ShapeInv' /\ ClientInv'
  BY DEF Run, SilentInv, ShapeInv, IsOwner, ClientInv
<1>2. TopicInv'
  BY DEF Run, SilentInv, ShapeInv, IsOwner, TopicInv, Inside, Admits
<1> QED
  BY <1>1, <1>2 DEF SilentInv

\* The steps of create() keep SilentInv.
LEMMA CreateSilent == SilentInv /\ Create => SilentInv'
<1> SUFFICES ASSUME SilentInv, Create PROVE SilentInv'
  OBVIOUS
<1>a. ClientInv /\ gate = [g \in Gates |-> gate[g]]
  BY DEF SilentInv, ShapeInv, IsOwner
<1> USE TopicDiffers
<1>1. CASE SinkThrows
  BY <1>1, <1>a, GoToStep DEF SinkThrows, At, threads, ClientInv, ClientAt
<1>2. CASE SinkRegister
  BY <1>2, <1>a, GoToStep DEF SinkRegister, At, threads, ClientInv, ClientAt, Open
<1>3. CASE SinkConnected
  BY <1>3, <1>a, GoToStep DEF SinkConnected, At, threads, ClientInv, ClientAt
<1>4. CASE SinkFails
  BY <1>4, <1>a, CloseAndGoToStep DEF SinkFails, At, threads, ClientInv, ClientAt
<1>5. CASE ClientThrows
  BY <1>5, <1>a, GoToStep DEF ClientThrows, At, threads, ClientInv, ClientAt
<1>6. CASE NewClient
  <2>1. ShapeInv' /\ owner'.wait = {} /\ owner'.unsubscribed = owner.unsubscribed
    BY <1>6 DEF NewClient, At, threads, SilentInv, ShapeInv, IsOwner
  <2>2. ClientInv'
    BY <1>6 DEF NewClient, At, SilentInv, ShapeInv, IsOwner, ClientInv, ClientAt
  <2>3. TopicInv'
    BY <1>6, <2>1 DEF NewClient, At, threads, SilentInv, TopicInv, Inside
  <2> QED
    BY <2>1, <2>2, <2>3 DEF SilentInv
<1>7. CASE SubscriberThrows
  BY <1>7, <1>a, GoToStep DEF SubscriberThrows, At, threads, ClientInv, ClientAt
<1>8. CASE SubscriberRegister
  <2>1. ShapeInv' /\ owner' = [owner EXCEPT !.at = "subscribing"]
    BY <1>8 DEF SubscriberRegister, GoTo, Open, threads, SilentInv, ShapeInv, IsOwner
  <2>2. ClientInv' /\ ~owner'.unsubscribed
    BY <1>8, <2>1 DEF SubscriberRegister, At, SilentInv, ShapeInv, IsOwner, ClientInv, ClientAt
  <2>3. TopicInv'
    BY <1>8, <2>2 DEF SubscriberRegister, Open, SilentInv, ShapeInv, IsOwner, TopicInv
  <2> QED
    BY <2>1, <2>2, <2>3 DEF SilentInv
<1>9. CASE SubscriberConnected
  <2>1. ClientAt("live", owner.client)
    BY <1>9, <1>a DEF SubscriberConnected, At, ClientInv, ClientAt
  <2> QED
    BY <1>9, <1>a, <2>1, GoToStep DEF SubscriberConnected, At, threads
<1>10. CASE SubscriberFails
  BY <1>10, <1>a, CloseAndGoToStep DEF SubscriberFails, At, threads, ClientInv, ClientAt
<1> QED
  BY <1>1, <1>2, <1>3, <1>4, <1>5, <1>6, <1>7, <1>8, <1>9, <1>10 DEF Create

\* The steps of invokeMethod() keep SilentInv.
LEMMA InvokeSilent == SilentInv /\ InvokeMethod => SilentInv'
<1> SUFFICES ASSUME SilentInv, InvokeMethod PROVE SilentInv'
  OBVIOUS
<1>a. ClientInv /\ gate = [g \in Gates |-> gate[g]]
  BY DEF SilentInv, ShapeInv, IsOwner
<1> USE TopicDiffers
<1>1. CASE CallRegister
  BY <1>1, <1>a, GoToStep DEF CallRegister, At, threads, ClientInv, ClientAt
<1>2. CASE CallRegisterFails
  BY <1>2, <1>a, CloseAndGoToStep DEF CallRegisterFails, At, threads, ClientInv, ClientAt
<1>3. CASE CallSend
  BY <1>3, <1>a, GoToStep DEF CallSend, At, threads, ClientInv, ClientAt
<1>4. CASE CallSent
  BY <1>4, <1>a, GoToStep DEF CallSent, At, threads, ClientInv, ClientAt
<1>5. CASE CallSendFails
  BY <1>5, <1>a, CloseAndGoToStep DEF CallSendFails, At, threads, ClientInv, ClientAt
<1>6. CASE CallThrows
  BY <1>6, <1>a, CloseAndGoToStep DEF CallThrows, At, threads, ClientInv, ClientAt
<1>7. CASE CallUnwind
  BY <1>7, <1>a, CloseAndGoToStep DEF CallUnwind, At, threads, ClientInv, ClientAt
<1>8. CASE CallAssign
  <2>1. ShapeInv' /\ owner'.wait = owner.wait /\ owner'.unsubscribed = owner.unsubscribed
    BY <1>8 DEF CallAssign, threads, SilentInv, ShapeInv, IsOwner
  <2>2. ClientInv'
    BY <1>8 DEF CallAssign, At, SilentInv, ShapeInv, IsOwner, ClientInv, ClientAt
  <2>3. gate'[Topic] = gate[Topic]
    BY <1>8 DEF CallAssign, SilentInv, ShapeInv, IsOwner
  <2>4. TopicInv'
    BY <1>8, <2>1, <2>3 DEF CallAssign, threads, SilentInv, TopicInv, Inside
  <2> QED
    BY <2>1, <2>2, <2>4 DEF SilentInv
<1> QED
  BY <1>1, <1>2, <1>3, <1>4, <1>5, <1>6, <1>7, <1>8 DEF InvokeMethod

\* The steps of the destructor keep SilentInv.
LEMMA DestructorSilent == SilentInv /\ Destructor => SilentInv'
<1> SUFFICES ASSUME SilentInv, Destructor PROVE SilentInv'
  OBVIOUS
<1>a. ClientInv /\ gate = [g \in Gates |-> gate[g]]
  BY DEF SilentInv, ShapeInv, IsOwner
<1> USE TopicDiffers
<1>1. CASE Destroy
  BY <1>1, <1>a, GoToStep DEF Destroy, At, threads, ClientInv, ClientAt
<1>2. CASE DestroySubscriber
  BY <1>2, <1>a, CloseAndGoToStep DEF DestroySubscriber, At, threads, ClientInv, ClientAt
<1>3. CASE DestroyResponse
  BY <1>3, <1>a, GoToStep DEF DestroyResponse, At, threads, ClientInv, ClientAt
<1>4. CASE DestroyHandle
  BY <1>4, <1>a, CloseAndGoToStep DEF DestroyHandle, At, threads, ClientInv, ClientAt
<1>5. CASE DestroyClient
  <2> DEFINE fields == [owner EXCEPT !.at = "~update"]
  <2>1. /\ IsOwner(fields) /\ fields.at = "~update" /\ fields.wait = owner.wait
        /\ fields.client = owner.client /\ fields.unsubscribed = owner.unsubscribed
    BY DEF SilentInv, ShapeInv, IsOwner
  <2>2. Scrub(fields) /\ owner.wait = {} /\ UNCHANGED exec
    BY <1>5 DEF DestroyClient, At, threads
  <2> HIDE DEF fields
  <2> QED
    BY <1>a, <2>1, <2>2, ScrubStep DEF ClientInv, ClientAt
<1>6. CASE DestroyUpdate
  BY <1>6, <1>a, GoToStep DEF DestroyUpdate, At, threads, ClientInv, ClientAt
<1>7. CASE DestroySink
  BY <1>7, <1>a, CloseAndGoToStep DEF DestroySink, At, threads, ClientInv, ClientAt
<1>8. CASE DestroyRest
  BY <1>8 DEF DestroyRest, threads, SilentInv, ShapeInv, IsOwner, ClientInv, TopicInv, Inside
<1> QED
  BY <1>1, <1>2, <1>3, <1>4, <1>5, <1>6, <1>7, <1>8 DEF Destructor

\* The callbacks, and the expire worker, keep SilentInv.
LEMMA CallbackSilent == SilentInv /\ Callback => SilentInv'
<1> SUFFICES ASSUME SilentInv, Callback PROVE SilentInv'
  OBVIOUS
<1> USE TopicDiffers DEF Callers
<1>1. ASSUME NEW t \in Threads, NEW content, NEW g \in {Sink, Topic}, Deliver(t, g, content)
      PROVE  SilentInv'
  BY <1>1, ThreadStep DEF Deliver, ownerVars, SilentInv, ShapeInv, IsOwner
<1>2. ASSUME NEW t \in Threads, NEW content, NEW r \in Requests, Answer(t, r, content)
      PROVE  SilentInv'
  BY <1>2, ThreadStep DEF Answer, ownerVars, SilentInv, ShapeInv, IsOwner
<1>3. ASSUME NEW c \in Callers, Run(c, Idle), UNCHANGED ownerVars PROVE SilentInv'
  BY <1>3, ThreadStep DEF Idle, ownerVars, SilentInv, ShapeInv, IsOwner
<1>4. ASSUME NEW c \in Callers, NEW point, CallOnce(c, point) PROVE SilentInv'
  <2> DEFINE called == [exec[c] EXCEPT !.at = "response"]
             inside == [called EXCEPT !.in = @ \union {Invoke(exec[c].request)}]
  <2>1. Run(c, inside) \/ Run(c, Idle)
    BY <1>4 DEF CallOnce
  <2>2. UNCHANGED <<owner, gate>> /\ gate = [g \in Gates |-> gate[g]]
    BY <1>4 DEF CallOnce, ownerVars, SilentInv, ShapeInv, IsOwner
  <2>3. {"at", "in"} \subseteq DOMAIN called /\ called.in = exec[c].in
    BY DEF SilentInv, ShapeInv, IsOwner
  <2>4. {"at", "in"} \subseteq DOMAIN inside /\ (Topic \in inside.in => Topic \in exec[c].in)
    <3> HIDE DEF called
    <3> QED
      BY <2>3
  <2>5. CASE Run(c, inside)
    <3> HIDE DEF inside
    <3> QED
      BY <2>2, <2>4, <2>5, ThreadStep
  <2>6. CASE Run(c, Idle)
    BY <1>3, <1>4, <2>6 DEF CallOnce
  <2> QED
    BY <2>1, <2>5, <2>6
<1>5. ASSUME NEW r \in Requests, WorkerTake(r) PROVE SilentInv'
  BY <1>5, ThreadStep DEF WorkerTake, SilentInv, ShapeInv, IsOwner
<1>6. CASE WorkerDrained
  <2>1. PICK x : Run(Worker, x) /\ x = [exec[Worker] EXCEPT !.at = "expire"]
    BY <1>6 DEF WorkerDrained
  <2>2. {"at", "in"} \subseteq DOMAIN x /\ x.in = exec[Worker].in
    BY <2>1 DEF SilentInv, ShapeInv, IsOwner
  <2> QED
    BY <1>6, <2>1, <2>2, ThreadStep DEF WorkerDrained, SilentInv, ShapeInv, IsOwner
<1> QED
  BY <1>1, <1>2, <1>3, <1>4, <1>5, <1>6
  DEF Callback, UpdateReturns, MessageReturns, ResponseReturns

\* Every step keeps SilentInv.
LEMMA NextSilentInv == SilentInv /\ [Next]_vars => SilentInv'
<1> SUFFICES ASSUME SilentInv, [Next]_vars PROVE SilentInv'
  OBVIOUS
<1> USE TopicDiffers
<1>1. CASE UNCHANGED vars
  BY <1>1 DEF vars, SilentInv, ShapeInv, IsOwner, ClientInv, TopicInv, Inside
<1>2. CASE Drained
  <2>1. PICK g \in owner.wait : Inside(g) = {} /\ gate' = [gate EXCEPT ![g] = "closed"]
    BY <1>2 DEF Drained
  <2>2. ShapeInv' /\ owner'.wait = {} /\ owner'.unsubscribed = owner.unsubscribed
    BY <1>2 DEF Drained, SilentInv, ShapeInv, IsOwner
  <2>3. ClientInv'
    BY <1>2 DEF Drained, SilentInv, ShapeInv, IsOwner, ClientInv
  <2>4. gate'[Topic] = IF g = Topic THEN "closed" ELSE gate[Topic]
    BY <2>1 DEF SilentInv, ShapeInv, IsOwner
  <2>5. gate'[Topic] # "closing"
    BY <2>1, <2>4 DEF SilentInv, TopicInv
  <2>6. TopicInv'
    BY <1>2, <2>1, <2>2, <2>4, <2>5 DEF Drained, SilentInv, TopicInv, Inside
  <2> QED
    BY <2>2, <2>3, <2>6 DEF SilentInv
<1>3. CASE Unsubscribe
  <2> DEFINE point  == IF owner.client \in pending THEN "cancel" ELSE "invoke"
             fields == [owner EXCEPT !.client = @ + 1, !.at = point]
  <2>1. /\ IsOwner(fields) /\ fields.at = point /\ fields.wait = owner.wait
        /\ fields.client = owner.client + 1 /\ fields.unsubscribed = owner.unsubscribed
    BY Replaced DEF SilentInv, ShapeInv
  <2>2. Scrub(fields) /\ owner.wait = {} /\ UNCHANGED exec
    BY <1>3 DEF Unsubscribe, At, threads
  <2>3. owner.client \in Nat /\ owner.client > 0
    BY <1>3 DEF Unsubscribe, At, SilentInv, ClientInv, ClientAt
  <2> HIDE DEF fields
  <2>4. fields.client \in Nat /\ fields.client > 1 /\ ClientAt(fields.at, fields.client)
    BY <2>1, <2>3 DEF ClientAt
  <2> QED
    BY <2>1, <2>2, <2>4, ScrubStep
<1>4. CASE Cancel
  <2>1. ClientAt("invoke", owner.client)
    BY <1>4 DEF Cancel, At, SilentInv, ClientInv, ClientAt
  <2>2. gate = [g \in Gates |-> gate[g]]
    BY DEF SilentInv, ShapeInv, IsOwner
  <2> QED
    BY <1>4, <2>1, <2>2, GoToStep DEF Cancel, At, threads
<1>5. CASE Unsubscribed
  <2> DEFINE live   == [owner EXCEPT !.at = "live"]
             fields == [live EXCEPT !.unsubscribed = TRUE]
  <2>a. IsOwner(live) /\ live.at = "live" /\ live.client = owner.client
    BY DEF SilentInv, ShapeInv, IsOwner
  <2>1. IsOwner(fields) /\ fields.at = "live" /\ fields.client = owner.client
    <3> HIDE DEF live
    <3> QED
      BY <2>a, SetUnsubscribed, Zenon
  <2>2. Close(Topic, fields) /\ owner.wait = {} /\ UNCHANGED exec
    BY <1>5 DEF Unsubscribed, At, threads
  <2>3. owner.client \in Nat /\ owner.client > 1
    BY <1>5 DEF Unsubscribed, At, SilentInv, ClientInv, ClientAt
  <2> HIDE DEF fields
  <2>4. fields.client > 1 /\ ClientAt(fields.at, fields.client)
    BY <2>1, <2>3 DEF ClientAt
  <2> QED
    BY <2>1, <2>2, <2>3, <2>4, CloseStep
<1> QED
  BY <1>1, <1>2, <1>3, <1>4, <1>5, CreateSilent, InvokeSilent, DestructorSilent, CallbackSilent
  DEF Next

\* When unsubscribe() has returned, the application's callback is not running and
\* never runs again: subscriber_.reset() waits for every delivery in progress, and
\* nothing makes another subscriber.
THEOREM Silence == Spec => []SilentAfterUnsubscribe
<1>1. SilentInv => SilentAfterUnsubscribe
  BY DEF SilentInv, TopicInv, SilentAfterUnsubscribe, Admits
<1> QED
  BY <1>1, InitSilentInv, NextSilentInv, PTL DEF Spec

-------------------------------------------------------------------------------
(* What the owner's steps leave alone.                                     *)

\* The members of the owner that a step of it changes, and those it keeps
Moves(point, client, handle, wait) ==
    /\ owner'.at = point /\ owner'.client = client
    /\ owner'.handle = handle /\ owner'.wait = wait
    /\ owner'.shared = owner.shared

Same == owner'.topic = owner.topic /\ owner'.options = owner.options

LEMMA GoToMoves ==
  ASSUME IsOwner(owner), NEW point, GoTo(point)
  PROVE  Moves(point, owner.client, owner.handle, owner.wait) /\ Same
  BY DEF GoTo, IsOwner, Moves, Same

LEMMA CloseMoves ==
  ASSUME IsOwner(owner), NEW g, NEW fields, IsOwner(fields), Close(g, fields),
         fields.shared = owner.shared
  PROVE  /\ Moves(fields.at, fields.client, fields.handle, IF gate[g] = "open" THEN {g} ELSE {})
         /\ owner'.topic = fields.topic /\ owner'.options = fields.options
  BY DEF Close, IsOwner, Moves

LEMMA CloseAndGoToMoves ==
  ASSUME IsOwner(owner), NEW g, NEW point, CloseAndGoTo(g, point)
  PROVE  /\ Moves(point, owner.client, owner.handle, IF gate[g] = "open" THEN {g} ELSE {})
         /\ Same
         /\ gate' = [gate EXCEPT ![g] = IF @ = "open" THEN "closing" ELSE @]
<1> DEFINE fields == [owner EXCEPT !.at = point]
<1>1. /\ IsOwner(fields) /\ fields.at = point /\ fields.client = owner.client
      /\ fields.handle = owner.handle /\ fields.shared = owner.shared
      /\ fields.topic = owner.topic /\ fields.options = owner.options
  BY DEF IsOwner
<1>2. Close(g, fields)
  BY DEF CloseAndGoTo
<1>3. gate' = [gate EXCEPT ![g] = IF @ = "open" THEN "closing" ELSE @]
  BY <1>2 DEF Close
<1> HIDE DEF fields
<1> QED
  BY <1>1, <1>2, <1>3, CloseMoves DEF Same

\* What scrub() does to the listener: nothing if the request is not in the queue, or
\* the owner begins to close it, or its handle is dropped.
LEMMA ScrubMoves ==
  ASSUME IsOwner(owner), NEW fields, IsOwner(fields), Scrub(fields),
         fields.shared = owner.shared, fields.wait = {}
  PROVE  LET k == Listen(owner.client)
         IN  \/ /\ owner.client \in pending
                /\ Moves(fields.at, fields.client, fields.handle,
                         IF gate[k] = "open" THEN {k} ELSE {})
                /\ gate' = [gate EXCEPT ![k] = IF @ = "open" THEN "closing" ELSE @]
             \/ /\ owner.client \in pending /\ owner.shared
                /\ Moves(fields.at, fields.client, fields.handle, {})
                /\ gate' = [gate EXCEPT ![k] = IF @ = "open" THEN "dropped" ELSE @]
             \/ /\ owner.client \notin pending
                /\ Moves(fields.at, fields.client, fields.handle, {})
                /\ UNCHANGED gate
<1>1. CASE owner.client \in pending /\ Close(Listen(owner.client), fields)
  BY <1>1, CloseMoves DEF Close
<1>2. ASSUME owner' = fields
      PROVE  Moves(fields.at, fields.client, fields.handle, {})
  BY <1>2 DEF Moves
<1> QED
  BY <1>1, <1>2, Zenon DEF Scrub

LEMMA ScrubSame ==
  ASSUME IsOwner(owner), NEW fields, IsOwner(fields), Scrub(fields),
         fields.shared = owner.shared, fields.topic = owner.topic,
         fields.options = owner.options
  PROVE  Same
  BY CloseMoves DEF Scrub, Same

\* The steps of the owner, of which only one hands a request to the transport
OwnerStep ==
    \/ Drained \/ Create \/ InvokeMethod \/ Unsubscribe \/ Cancel \/ Unsubscribed \/ Destructor

LEMMA OwnerLeavesAlone ==
  ASSUME IsOwner(owner), OwnerStep
  PROVE  Same /\ UNCHANGED <<exec, stored>> /\ (CallSend \/ UNCHANGED sent)
<1> USE DEF At, threads, calls
<1>1. CASE Drained
  BY <1>1 DEF Drained, IsOwner, Same
<1>2. CASE Create
  <2>1. CASE NewClient
    BY <2>1 DEF NewClient, IsOwner, Same
  <2>2. CASE SinkFails \/ SubscriberFails
    BY <2>2, CloseAndGoToMoves DEF SinkFails, SubscriberFails
  <2> QED
    BY <1>2, <2>1, <2>2, GoToMoves
    DEF Create, SinkThrows, SinkRegister, SinkConnected, ClientThrows, SubscriberThrows,
        SubscriberRegister, SubscriberConnected
<1>3. CASE InvokeMethod
  <2>1. CASE CallAssign
    BY <2>1 DEF CallAssign, IsOwner, Same
  <2>2. CASE CallRegisterFails \/ CallSendFails \/ CallThrows \/ CallUnwind
    BY <2>2, CloseAndGoToMoves DEF CallRegisterFails, CallSendFails, CallThrows, CallUnwind
  <2> QED
    BY <1>3, <2>1, <2>2, GoToMoves DEF InvokeMethod, CallRegister, CallSend, CallSent
<1>4. CASE Unsubscribe
  <2> DEFINE point  == IF owner.client \in pending THEN "cancel" ELSE "invoke"
             fields == [owner EXCEPT !.client = @ + 1, !.at = point]
  <2>1. /\ IsOwner(fields) /\ fields.topic = owner.topic /\ fields.options = owner.options
        /\ fields.shared = owner.shared
    BY Replaced
  <2>2. UNCHANGED <<exec, stored, sent>> /\ Scrub(fields)
    BY <1>4 DEF Unsubscribe
  <2> HIDE DEF fields
  <2> QED
    BY <2>1, <2>2, ScrubSame
<1>5. CASE Cancel
  BY <1>5, GoToMoves DEF Cancel
<1>6. CASE Unsubscribed
  <2> DEFINE live   == [owner EXCEPT !.at = "live"]
             fields == [live EXCEPT !.unsubscribed = TRUE]
  <2>1. IsOwner(live) /\ live.topic = owner.topic /\ live.options = owner.options
        /\ live.shared = owner.shared
    BY DEF IsOwner
  <2>2. IsOwner(fields) /\ fields.topic = owner.topic /\ fields.options = owner.options
        /\ fields.shared = owner.shared
    <3> HIDE DEF live
    <3> QED
      BY <2>1, SetUnsubscribed, Zenon
  <2>3. Close(Topic, fields) /\ UNCHANGED <<exec, stored, sent>>
    BY <1>6 DEF Unsubscribed
  <2> HIDE DEF fields
  <2> QED
    BY <2>2, <2>3, CloseMoves DEF Same
<1>7. CASE Destructor
  <2>1. CASE DestroySubscriber \/ DestroyHandle \/ DestroySink
    BY <2>1, CloseAndGoToMoves DEF DestroySubscriber, DestroyHandle, DestroySink
  <2>2. CASE DestroyClient
    <3> DEFINE fields == [owner EXCEPT !.at = "~update"]
    <3>1. /\ IsOwner(fields) /\ fields.topic = owner.topic /\ fields.options = owner.options
          /\ fields.shared = owner.shared
      BY DEF IsOwner
    <3>2. UNCHANGED <<exec, stored, sent>> /\ Scrub(fields)
      BY <2>2 DEF DestroyClient
    <3> HIDE DEF fields
    <3> QED
      BY <3>1, <3>2, ScrubSame
  <2>3. CASE DestroyRest
    BY <2>3 DEF DestroyRest, Same
  <2> QED
    BY <1>7, <2>1, <2>2, <2>3, GoToMoves
    DEF Destructor, Destroy, DestroyResponse, DestroyUpdate
<1> QED
  BY <1>1, <1>2, <1>3, <1>4, <1>5, <1>6, <1>7 DEF OwnerStep

-------------------------------------------------------------------------------
(* What the other threads work on.                                         *)

\* The gates are distinct.
LEMMA GateNames ==
  /\ Sink \in Gates /\ Topic \in Gates /\ Sink # Topic
  /\ \A r \in Requests : Listen(r) \in Gates
  /\ \A r \in 0..MaxRequests : Invoke(r) \in Gates
  /\ \A g \in Gates :
        \/ g \in {Sink, Topic}
        \/ \E r \in Requests : g = Listen(r)
        \/ \E r \in 0..MaxRequests : g = Invoke(r)
  /\ \A r : Listen(r) \notin {Sink, Topic} /\ Invoke(r) \notin {Sink, Topic}
  /\ \A r, s : Listen(r) # Invoke(s)
  /\ \A r, s : Listen(r) = Listen(s) => r = s
  /\ \A r, s : Invoke(r) = Invoke(s) => r = s
  BY ConsumerAssumption DEF Topic, Sink, Listen, Invoke, Gates, Requests, NoRequest

\* What a thread that is inside something holds: it is inside gates of the consumer
\* and works on a request that exists.
CallerInv(c) ==
    /\ exec[c].at \in {"idle", "update", "message", "listener", "response", "drain", "expire"}
    /\ exec[c].in \subseteq Gates
    /\ exec[c].at # "idle" => "content" \in DOMAIN exec[c] /\ exec[c].content \in Contents
    /\ exec[c].at \in {"listener", "response", "drain", "expire"} =>
          "request" \in DOMAIN exec[c] /\ exec[c].request \in Requests

\* The request that is sent under a number
RequestOf(r) ==
    IF r = 1 THEN BuildSubscriptionRequest(owner.topic, owner.options)
             ELSE BuildUnSubscribeRequest(owner.topic)

SentInv ==
    /\ owner.topic \in Topics /\ owner.options \in Options
    /\ sent = [r \in Requests |-> sent[r]]
    /\ \A r \in Requests : sent[r] \subseteq {RequestOf(r)}

StoredInv ==
    /\ stored = [m \in {"update", "response"} |-> stored[m]]
    /\ \A m \in {"update", "response"} : stored[m] \in Contents

DataInv == (\A c \in Callers : CallerInv(c)) /\ SentInv /\ StoredInv

\* Before create() nothing has been sent or received.
LEMMA InitDataInv == Init => DataInv
<1> SUFFICES ASSUME Init PROVE DataInv
  OBVIOUS
<1>1. ASSUME NEW c \in Callers PROVE CallerInv(c)
  BY DEF Init, CallerInv, Idle
<1>2. SentInv
  BY DEF Init, SentInv
<1>3. StoredInv
  BY ContentsAssumption DEF Init, StoredInv
<1> QED
  BY <1>1, <1>2, <1>3 DEF DataInv

\* What a callback keeps of a message that can be read is all or nothing of it.
LEMMA KeepsContents ==
  ASSUME NEW content \in Contents
  PROVE  Keep(content) \in Contents
<1>1. Keep(content) = {} \/ Keep(content) = content
  BY ContentsAssumption DEF Keep
<1> QED
  BY <1>1, ContentsAssumption DEF Keep

\* A step that sends nothing and keeps nothing, but in which c goes on to x.
LEMMA ThreadData ==
  ASSUME SilentInv, DataInv, NEW c \in Callers, NEW x, Run(c, x), CallerInv(c)',
         UNCHANGED <<owner, sent>>, StoredInv'
  PROVE  DataInv'
<1>1. \A d \in Callers \ {c} : exec'[d] = exec[d]
  BY DEF Run, SilentInv, ShapeInv
<1>2. ASSUME NEW d \in Callers PROVE CallerInv(d)'
  <2>1. CASE d = c
    BY <2>1
  <2>2. CASE d # c
    BY <1>1, <2>2 DEF DataInv, CallerInv
  <2> QED
    BY <2>1, <2>2
<1>3. SentInv'
  BY DEF DataInv, SentInv, RequestOf
<1> QED
  BY <1>2, <1>3 DEF DataInv

\* The callbacks, and the expire worker, keep DataInv.
LEMMA CallbackData == SilentInv /\ DataInv /\ Callback => DataInv'
<1> SUFFICES ASSUME SilentInv, DataInv, Callback PROVE DataInv'
  OBVIOUS
<1> USE DEF Callers
<1>a. ASSUME UNCHANGED <<owner, sent, stored>> PROVE StoredInv'
  BY <1>a DEF DataInv, StoredInv
<1>b. ASSUME NEW c \in Callers, NEW x, Run(c, x) PROVE exec'[c] = x
  BY <1>b DEF Run, SilentInv, ShapeInv
<1>c. ASSUME NEW c \in Callers, Run(c, Idle) PROVE CallerInv(c)'
  BY <1>b, <1>c DEF CallerInv, Idle
<1>1. ASSUME NEW t \in Threads, NEW content \in Contents, NEW g \in {Sink, Topic},
             Deliver(t, g, content)
      PROVE  DataInv'
  <2> DEFINE x == [at |-> g[1], in |-> {g}, content |-> content]
  <2>1. Run(t, x) /\ UNCHANGED <<owner, sent, stored>>
    BY <1>1 DEF Deliver, ownerVars, calls
  <2>2. CallerInv(t)'
    BY <1>b, <2>1, GateNames DEF CallerInv, Sink, Topic
  <2> QED
    BY <1>a, <2>1, <2>2, ThreadData
<1>2. ASSUME NEW t \in Threads, NEW content \in Contents, NEW r \in Requests,
             Answer(t, r, content)
      PROVE  DataInv'
  <2> DEFINE x == [at |-> "listener", in |-> {Listen(r)}, request |-> r, content |-> content]
  <2>1. Run(t, x) /\ UNCHANGED <<owner, sent, stored>> /\ sent[r] # {}
    BY <1>2 DEF Answer, ownerVars, calls
  <2>2. CallerInv(t)'
    BY <1>b, <2>1, GateNames DEF CallerInv
  <2> QED
    BY <1>a, <2>1, <2>2, ThreadData
<1>3. ASSUME NEW t \in Threads, UpdateReturns(t) PROVE DataInv'
  <2>1. /\ Run(t, Idle) /\ UNCHANGED <<owner, sent>>
        /\ exec[t].content \in Contents /\ Store("update", exec[t].content)
    BY <1>3 DEF UpdateReturns, ownerVars, calls, DataInv, CallerInv
  <2>2. StoredInv'
    BY <2>1, KeepsContents DEF DataInv, StoredInv, Store
  <2> QED
    BY <1>c, <2>1, <2>2, ThreadData
<1>4. ASSUME NEW t \in Threads, MessageReturns(t) PROVE DataInv'
  BY <1>4, <1>a, <1>c, ThreadData DEF MessageReturns, ownerVars, calls
<1>5. ASSUME NEW c \in Callers, NEW point \in {"listener", "expire"}, CallOnce(c, point)
      PROVE  DataInv'
  <2> DEFINE called == [exec[c] EXCEPT !.at = "response"]
             inside == [called EXCEPT !.in = @ \union {Invoke(exec[c].request)}]
  <2>1. (Run(c, inside) \/ Run(c, Idle)) /\ UNCHANGED <<owner, sent, stored>>
    BY <1>5 DEF CallOnce, ownerVars
  <2>2. /\ CallerInv(c) /\ exec[c].at = point
        /\ {"at", "in", "request", "content"} \subseteq DOMAIN exec[c]
    BY <1>5 DEF CallOnce, DataInv, CallerInv, SilentInv, ShapeInv
  <2>3. /\ called.in = exec[c].in /\ called.at = "response" /\ called.request = exec[c].request
        /\ called.content = exec[c].content /\ DOMAIN called = DOMAIN exec[c]
    BY <2>2
  <2>4. /\ inside.in = exec[c].in \union {Invoke(exec[c].request)} /\ inside.at = "response"
        /\ inside.request = exec[c].request /\ inside.content = exec[c].content
        /\ DOMAIN inside = DOMAIN exec[c]
    <3> HIDE DEF called
    <3> QED
      BY <2>2, <2>3
  <2>5. CASE Run(c, inside)
    <3> HIDE DEF inside
    <3>1. exec'[c] = inside
      BY <1>b, <2>5
    <3>2. Invoke(exec[c].request) \in Gates
      BY <1>5, <2>2, GateNames DEF CallerInv, Requests
    <3>3. CallerInv(c)'
      BY <1>5, <2>1, <2>2, <2>4, <3>1, <3>2 DEF CallerInv
    <3> QED
      BY <1>a, <2>1, <2>5, <3>3, ThreadData
  <2>6. CASE Run(c, Idle)
    BY <1>a, <1>c, <2>1, <2>6, ThreadData
  <2> QED
    BY <2>1, <2>5, <2>6
<1>6. ASSUME NEW c \in Callers, ResponseReturns(c) PROVE DataInv'
  <2>1. /\ Run(c, Idle) /\ UNCHANGED <<owner, sent>>
        /\ exec[c].content \in Contents
        /\ \/ exec[c].request = 1 /\ Store("response", exec[c].content)
           \/ UNCHANGED stored
    BY <1>6 DEF ResponseReturns, ownerVars, DataInv, CallerInv
  <2>2. StoredInv'
    <3>1. CASE exec[c].request = 1 /\ Store("response", exec[c].content)
      BY <2>1, <3>1, KeepsContents DEF DataInv, StoredInv, Store
    <3> QED
      BY <1>a, <2>1, <3>1
  <2> QED
    BY <1>c, <2>1, <2>2, ThreadData
<1>7. ASSUME NEW r \in Requests, WorkerTake(r) PROVE DataInv'
  <2> DEFINE x == [at |-> "drain", in |-> {}, request |-> r, content |-> {}]
  <2>1. Run(Worker, x) /\ UNCHANGED <<owner, sent, stored>>
    BY <1>7 DEF WorkerTake
  <2>2. CallerInv(Worker)'
    <3>1. exec'[Worker] = x
      BY <1>b, <2>1
    <3>2. /\ x.at = "drain" /\ x.in = {} /\ x.request = r /\ x.content = {}
          /\ DOMAIN x = {"at", "in", "request", "content"}
      OBVIOUS
    <3> HIDE DEF x
    <3> QED
      BY <3>1, <3>2, ContentsAssumption DEF CallerInv
  <2> QED
    BY <1>a, <2>1, <2>2, ThreadData
<1>8. CASE WorkerDrained
  <2> DEFINE x == [exec[Worker] EXCEPT !.at = "expire"]
  <2>1. Run(Worker, x) /\ UNCHANGED <<owner, sent, stored>>
    BY <1>8 DEF WorkerDrained, calls
  <2>2. CallerInv(Worker) /\ exec[Worker].at = "drain"
        /\ {"at", "in", "request", "content"} \subseteq DOMAIN exec[Worker]
    BY <1>8 DEF WorkerDrained, DataInv, CallerInv, SilentInv, ShapeInv
  <2>3. /\ x.in = exec[Worker].in /\ x.at = "expire" /\ x.request = exec[Worker].request
        /\ x.content = exec[Worker].content /\ DOMAIN x = DOMAIN exec[Worker]
    BY <2>2
  <2> HIDE DEF x
  <2>4. CallerInv(Worker)'
    BY <1>b, <2>1, <2>2, <2>3 DEF CallerInv
  <2> QED
    BY <1>a, <2>1, <2>4, ThreadData
<1> QED
  BY <1>1, <1>2, <1>3, <1>4, <1>5, <1>6, <1>7, <1>8 DEF Callback

\* Every step keeps DataInv.
LEMMA NextDataInv == SilentInv /\ DataInv /\ [Next]_vars => DataInv'
<1> SUFFICES ASSUME SilentInv, DataInv, [Next]_vars PROVE DataInv'
  OBVIOUS
<1>1. CASE UNCHANGED vars
  BY <1>1 DEF vars, DataInv, CallerInv, SentInv, RequestOf, StoredInv
<1>2. CASE OwnerStep
  <2>1. Same /\ UNCHANGED <<exec, stored>> /\ (CallSend \/ UNCHANGED sent)
    BY <1>2, OwnerLeavesAlone DEF SilentInv, ShapeInv
  <2>2. \A r \in Requests : RequestOf(r)' = RequestOf(r)
    BY <2>1 DEF Same, RequestOf
  <2>3. SentInv' /\ \A r \in Requests : sent[r] # {} => sent'[r] # {}
    <3>1. CASE CallSend
      BY <2>1, <2>2, <3>1
      DEF CallSend, Same, DataInv, SentInv, Request, RequestOf, buildSubscriptionRequest,
          buildUnsubscriptionRequest
    <3>2. CASE UNCHANGED sent
      BY <2>1, <2>2, <3>2 DEF Same, DataInv, SentInv
    <3> QED
      BY <2>1, <3>1, <3>2
  <2>4. 1 \in Requests
    BY ConsumerAssumption DEF Requests
  <2>5. StoredInv'
    BY <2>1, <2>3, <2>4 DEF Same, DataInv, StoredInv
  <2>6. ASSUME NEW c \in Callers PROVE CallerInv(c)'
    BY <2>1, <2>3 DEF DataInv, CallerInv
  <2> QED
    BY <2>3, <2>5, <2>6 DEF DataInv
<1> QED
  BY <1>1, <1>2, CallbackData DEF Next, OwnerStep

\* A number is the sum of its quotient, scaled, and its remainder, and the remainder
\* of one that is not negative is below the divisor.
LEMMA DivideAndAdd ==
  ASSUME NEW a \in Int, NEW b \in Nat \ {0}
  PROVE  /\ Quotient(a, b) \in Int /\ Remainder(a, b) \in Int
         /\ Quotient(a, b) * b + Remainder(a, b) = a
         /\ a >= 0 => Remainder(a, b) \in 0..(b - 1)
<1>1. Quotient(a, b) \in Int
  BY DEF Quotient
<1>2. Quotient(a, b) * b + Remainder(a, b) = a /\ Remainder(a, b) \in Int
  BY <1>1 DEF Remainder
<1>3. a >= 0 => Remainder(a, b) \in 0..(b - 1)
  <2> SUFFICES ASSUME a >= 0 PROVE Remainder(a, b) \in 0..(b - 1)
    OBVIOUS
  <2>1. Remainder(a, b) = a - b * (a \div b)
    BY DEF Remainder, Quotient
  <2> QED
    BY <2>1
<1> QED
  BY <1>1, <1>2, <1>3

\* The service can read from every request that is sent what the application asked for.
THEOREM AskedAsWished == Spec => []AsksAsWished
<1>1. DataInv => AsksAsWished
  <2> SUFFICES ASSUME DataInv, NEW r \in Requests, NEW q \in sent[r], NEW a \in q.attributes
               PROVE  /\ {e.seconds * NANOSECONDS_PER_SECOND + e.nanos : e \in a.expire}
                            = owner.options.when_expire
                      /\ \A time \in owner.options.when_expire : time >= 0 =>
                            \A e \in a.expire : e.nanos \in 0..(NANOSECONDS_PER_SECOND - 1)
                      /\ \A period \in owner.options.sample_period_ms :
                            period \in 0..(UInt32Size - 1) => a.sample_period_ms = {period}
    BY DEF AsksAsWished
  <2> DEFINE options == owner.options
  <2>1. options \in Options /\ q = RequestOf(r)
    BY DEF DataInv, SentInv
  <2>2. a = BuildSubscribeAttributes(options)
    BY <2>1 DEF RequestOf, BuildSubscriptionRequest, BuildUnSubscribeRequest
  <2>3. /\ options.when_expire \subseteq Int /\ options.sample_period_ms \subseteq Int
        /\ \A x, y \in options.when_expire : x = y
        /\ \A x, y \in options.sample_period_ms : x = y
    BY <2>1, OptionsAssumption
  <2>4. /\ a.expire = {ConvertToProtoTimestamp(time) : time \in options.when_expire}
        /\ a.sample_period_ms = {period % UInt32Size : period \in options.sample_period_ms}
    BY <2>2 DEF BuildSubscribeAttributes
  <2> HIDE DEF options
  <2>5. ASSUME NEW time \in Int
        PROVE  LET e == ConvertToProtoTimestamp(time)
               IN  /\ e.seconds * NANOSECONDS_PER_SECOND + e.nanos = time
                   /\ time >= 0 => e.nanos \in 0..(NANOSECONDS_PER_SECOND - 1)
    BY DivideAndAdd, RequestAssumption DEF ConvertToProtoTimestamp
  <2>6. {e.seconds * NANOSECONDS_PER_SECOND + e.nanos : e \in a.expire} = options.when_expire
    BY <2>3, <2>4, <2>5
  <2>7. ASSUME NEW time \in options.when_expire, time >= 0, NEW e \in a.expire
        PROVE  e.nanos \in 0..(NANOSECONDS_PER_SECOND - 1)
    BY <2>3, <2>4, <2>5, <2>7
  <2>8. ASSUME NEW period \in options.sample_period_ms, period \in 0..(UInt32Size - 1)
        PROVE  a.sample_period_ms = {period}
    <3>1. period % UInt32Size = period
      BY <2>8, RequestAssumption
    <3> QED
      BY <2>3, <2>4, <3>1
  <2> QED
    BY <2>6, <2>7, <2>8 DEF options
<1> QED
  BY <1>1, InitSilentInv, NextSilentInv, InitDataInv, NextDataInv, PTL DEF Spec

-------------------------------------------------------------------------------
(* What is left when the destructor has returned, and of an old request.   *)

\* A gate that is closing has somebody who waits for it: the owner, or the worker
\* for a response listener that it took from the queue.
ClosedBy(g) ==
    \/ owner.wait = {g}
    \/ exec[Worker].at = "drain" /\ g = Listen(exec[Worker].request)

GateInv ==
    \A g \in Gates :
        /\ gate[g] \in {"none", "open", "closing", "closed", "dropped"}
        /\ gate[g] = "closing" => ClosedBy(g)
        /\ gate[g] \in {"none", "closed"} => Inside(g) = {}

\* Where the owner may be while a gate is open.  A response listener is open as long
\* as its request is in the queue, a callback as long as rpc_handle_ refers to it;
\* either may be open earlier, while invokeMethod() holds the handle.
OpenInv ==
    /\ gate[Sink] # "dropped"
    /\ gate[Sink] = "open" => owner.at \notin {"none", "gone"}
    /\ gate[Topic] = "open" =>
          owner.at \notin {"~response", "~handle", "~client", "~update", "~sink", "gone"}
    /\ \A r \in Requests :
          /\ gate[Listen(r)] = "dropped" => owner.shared
          /\ gate[Listen(r)] = "open" =>
                \/ r \in pending
                \/ r = owner.client /\ owner.at \in {"registered", "send"}
    /\ \A r \in 0..MaxRequests :
          gate[Invoke(r)] = "open" =>
              \/ r = owner.handle /\ owner.at \notin {"~client", "~update", "~sink", "gone"}
              \/ r = owner.client /\ owner.at \in {"registered", "send", "unwind", "assign"}

\* The points at which a request of the consumer may be in the queue
Queued == {"assign", "subscriber", "subscribing", "live", "reset",
           "~subscriber", "~response", "~handle", "~client"}

PendingInv ==
    /\ \A r \in pending : r \in Requests /\ r = owner.client /\ gate[Listen(r)] = "open"
    /\ pending # {} => owner.at \in Queued
    /\ owner.at \in {"registered", "send"} => gate[Listen(owner.client)] = "open"

BoundInv == owner.client \in 0..MaxRequests /\ owner.handle \in 0..owner.client

\* Who waits for a gate has begun to close it, and the listener of a request that is
\* not yet made has never been opened.
Fresh(r) == r > owner.client \/ (r = owner.client /\ owner.at \in {"cancel", "invoke"})

WaitInv ==
    /\ \A g \in owner.wait : g \in Gates /\ gate[g] \in {"closing", "closed"}
    /\ exec[Worker].at = "drain" =>
          /\ exec[Worker].request \in Requests
          /\ gate[Listen(exec[Worker].request)] \in {"closing", "closed"}
    /\ \A r \in Requests : Fresh(r) => gate[Listen(r)] = "none"

LeftInv == GateInv /\ OpenInv /\ PendingInv /\ BoundInv /\ WaitInv

\* The requests that the owner is making, or has made, exist.
LEMMA ClientMade ==
  ASSUME BoundInv, ClientInv, owner.at \in {"live", "invoke", "registered", "send"}
  PROVE  owner.client \in Requests
<1>1. owner.client > 0
  BY DEF ClientInv, ClientAt
<1>2. owner.client \in Nat /\ MaxRequests \in Nat /\ owner.client <= MaxRequests
  BY ConsumerAssumption DEF BoundInv
<1> QED
  BY <1>1, <1>2 DEF Requests

\* Beginning to close a gate, with the owner waiting for it, keeps GateInv,
LEMMA CloseKeepsGates ==
  ASSUME GateInv, gate = [g \in Gates |-> gate[g]], owner.wait = {}, UNCHANGED exec,
         NEW k, owner'.wait = IF gate[k] = "open" THEN {k} ELSE {},
         gate' = [gate EXCEPT ![k] = IF @ = "open" THEN "closing" ELSE @]
  PROVE  GateInv'
  BY DEF GateInv, ClosedBy, Inside

LEMMA CloseKeepsWaits ==
  ASSUME WaitInv, gate = [g \in Gates |-> gate[g]], UNCHANGED exec,
         NEW k \in Gates, owner'.wait = IF gate[k] = "open" THEN {k} ELSE {},
         gate' = [gate EXCEPT ![k] = IF @ = "open" THEN "closing" ELSE @],
         \A r \in Requests : Fresh(r)' => Fresh(r)
  PROVE  WaitInv'
  BY GateNames DEF WaitInv

\* and so does opening gates, or releasing a reference to them.
LEMMA OpenKeepsGates ==
  ASSUME GateInv, UNCHANGED exec, owner'.wait = owner.wait,
         \A g \in Gates : gate'[g] = gate[g] \/ gate'[g] \in {"open", "dropped"}
  PROVE  GateInv'
  BY DEF GateInv, ClosedBy, Inside

LEMMA OpenKeepsWaits ==
  ASSUME WaitInv, UNCHANGED exec, owner'.wait = {},
         \A r \in Requests : gate'[Listen(r)] = gate[Listen(r)],
         \A r \in Requests : Fresh(r)' => Fresh(r)
  PROVE  WaitInv'
  BY GateNames DEF WaitInv

\* So does dropping the handle of an open response listener.
LEMMA DropKeepsWaits ==
  ASSUME WaitInv, gate = [g \in Gates |-> gate[g]], UNCHANGED exec, owner'.wait = {},
         NEW k \in Gates, gate[k] = "open",
         gate' = [gate EXCEPT ![k] = IF @ = "open" THEN "dropped" ELSE @],
         \A r \in Requests : Fresh(r)' => Fresh(r)
  PROVE  WaitInv'
  BY GateNames DEF WaitInv

\* scrub() keeps all that the owner's next steps rest on.
LEMMA ScrubLeft ==
  ASSUME SilentInv, LeftInv, owner.wait = {}, UNCHANGED exec,
         NEW fields, IsOwner(fields), Scrub(fields),
         fields.shared = owner.shared, fields.wait = {}, fields.handle = owner.handle,
         fields.client \in 0..MaxRequests, fields.client >= owner.client,
         \/ fields.at = "~update" /\ owner.at = "~client"
         \/ fields.at \in {"cancel", "invoke"} /\ owner.at = "live" /\ fields.client > owner.client
  PROVE  LeftInv'
<1>a. IsOwner(owner) /\ gate = [g \in Gates |-> gate[g]] /\ ClientInv
  BY DEF SilentInv, ShapeInv
<1>b. pending' = {}
  BY DEF Scrub, LeftInv, PendingInv
<1>c. owner.client \in pending => owner.client \in Requests /\ gate[Listen(owner.client)] = "open"
  BY DEF LeftInv, PendingInv
<1>d. /\ owner'.at = fields.at /\ owner'.client = fields.client
      /\ owner'.handle = owner.handle /\ owner'.shared = owner.shared
  BY <1>a, ScrubMoves DEF Moves
<1>e. \A r \in Requests : Fresh(r)' => Fresh(r)
  BY <1>d, ConsumerAssumption DEF Fresh, LeftInv, BoundInv, Requests
<1>f. BoundInv'
  BY <1>d, ConsumerAssumption DEF LeftInv, BoundInv
<1>g. \A r \in Requests : gate[Listen(r)] = "open" => r \in pending /\ r = owner.client
  BY DEF LeftInv, OpenInv, PendingInv
<1>h. /\ \A g \in Gates : g # Listen(owner.client) => gate'[g] = gate[g]
      /\ owner.client \in pending => gate'[Listen(owner.client)] \in {"closing", "dropped"}
      /\ owner.client \in pending /\ gate'[Listen(owner.client)] = "dropped" => owner.shared
      /\ owner.client \notin pending => UNCHANGED gate
  BY <1>a, <1>c, ScrubMoves, GateNames
<1>1. OpenInv'
  <2>1. /\ gate'[Sink] = gate[Sink] /\ gate'[Topic] = gate[Topic]
        /\ \A r \in 0..MaxRequests : gate'[Invoke(r)] = gate[Invoke(r)]
    BY <1>h, GateNames
  <2>2. ASSUME NEW r \in Requests
        PROVE  /\ gate'[Listen(r)] = "dropped" => owner'.shared
               /\ gate'[Listen(r)] # "open"
    <3>1. CASE r = owner.client /\ r \in pending
      BY <1>d, <1>h, <3>1
    <3>2. CASE ~(r = owner.client /\ r \in pending)
      <4>1. gate'[Listen(r)] = gate[Listen(r)]
        BY <1>h, <3>2, GateNames
      <4> QED
        BY <1>d, <1>g, <3>2, <4>1 DEF LeftInv, OpenInv
    <3> QED
      BY <3>1, <3>2
  <2> QED
    BY <1>d, <2>1, <2>2 DEF LeftInv, OpenInv
<1>2. PendingInv'
  BY <1>b, <1>d DEF PendingInv
<1>3. GateInv' /\ WaitInv'
  <2> DEFINE k == Listen(owner.client)
  <2>1. CASE /\ owner.client \in pending
             /\ Moves(fields.at, fields.client, fields.handle, IF gate[k] = "open" THEN {k} ELSE {})
             /\ gate' = [gate EXCEPT ![k] = IF @ = "open" THEN "closing" ELSE @]
    BY <1>a, <1>c, <1>e, <2>1, GateNames, CloseKeepsGates, CloseKeepsWaits DEF LeftInv, Moves
  <2>2. CASE /\ owner.client \in pending
             /\ Moves(fields.at, fields.client, fields.handle, {})
             /\ gate' = [gate EXCEPT ![k] = IF @ = "open" THEN "dropped" ELSE @]
    <3>1. k \in Gates /\ gate[k] = "open" /\ owner'.wait = {}
      BY <1>c, <2>2, GateNames DEF Moves
    <3>2. WaitInv'
      BY <1>a, <1>e, <2>2, <3>1, DropKeepsWaits DEF LeftInv
    <3>3. \A g \in Gates : gate'[g] = gate[g] \/ gate'[g] = "dropped"
      BY <1>a, <2>2
    <3> QED
      BY <3>1, <3>2, <3>3, OpenKeepsGates DEF LeftInv
  <2>3. CASE Moves(fields.at, fields.client, fields.handle, {}) /\ UNCHANGED gate
    BY <1>e, <2>3, OpenKeepsGates, OpenKeepsWaits DEF LeftInv, Moves
  <2> QED
    BY <1>a, <2>1, <2>2, <2>3, ScrubMoves
<1> QED
  BY <1>1, <1>2, <1>3, <1>f DEF LeftInv

\* The steps of create() keep LeftInv.
LEMMA CreateLeft == SilentInv /\ LeftInv /\ Create => LeftInv'
<1> SUFFICES ASSUME SilentInv, LeftInv, Create PROVE LeftInv'
  OBVIOUS
<1>a. IsOwner(owner) /\ gate = [g \in Gates |-> gate[g]] /\ ClientInv /\ LeftInv
  BY DEF SilentInv, ShapeInv
<1> USE GateNames DEF LeftInv, OpenInv, PendingInv, BoundInv, ClientInv, ClientAt, Requests
<1>1. CASE SinkThrows
  <2>1. Moves("~subscriber", owner.client, owner.handle, {})
    BY <1>1, <1>a, GoToMoves DEF SinkThrows, At
  <2>2. GateInv'
    BY <1>1, <1>a, <2>1, OpenKeepsGates DEF SinkThrows, At, Moves, threads
  <2>w. WaitInv'
    BY <1>1, <1>a, <2>1, OpenKeepsWaits DEF Fresh, SinkThrows, At, Moves, threads
  <2>3. OpenInv'
    BY <1>1, <1>a, <2>1 DEF SinkThrows, At, Moves, calls
  <2>4. pending = {}
    BY <1>1 DEF SinkThrows, At, Queued
  <2>5. PendingInv' /\ BoundInv'
    BY <1>1, <1>a, <2>1, <2>4 DEF SinkThrows, At, Moves, calls
  <2> QED
    BY <2>2, <2>w, <2>3, <2>5
<1>2. CASE SinkRegister
  <2>a. GoTo("sink registered") /\ owner.wait = {}
    BY <1>2 DEF SinkRegister, At
  <2>1. Moves("sink registered", owner.client, owner.handle, {})
    BY <1>a, <2>a, GoToMoves, Zenon
  <2>2. GateInv'
    BY <1>2, <1>a, <2>1, OpenKeepsGates DEF SinkRegister, At, Moves, threads, Open
  <2>w. WaitInv'
    BY <1>2, <1>a, <2>1, OpenKeepsWaits DEF Fresh, SinkRegister, At, Moves, threads, Open
  <2> QED
    BY <1>2, <1>a, <2>1, <2>2, <2>w DEF SinkRegister, At, Moves, Queued, calls, Open
<1>3. CASE SinkConnected
  <2>1. Moves("client", owner.client, owner.handle, {})
    BY <1>3, <1>a, GoToMoves DEF SinkConnected, At
  <2>2. GateInv'
    BY <1>3, <1>a, <2>1, OpenKeepsGates DEF SinkConnected, At, Moves, threads
  <2>w. WaitInv'
    BY <1>3, <1>a, <2>1, OpenKeepsWaits DEF Fresh, SinkConnected, At, Moves, threads
  <2> QED
    BY <1>3, <1>a, <2>1, <2>2, <2>w DEF SinkConnected, At, Moves, Queued, calls
<1>4. CASE SinkFails
  <2>1. /\ Moves("~subscriber", owner.client, owner.handle,
                 IF gate[Sink] = "open" THEN {Sink} ELSE {})
        /\ gate' = [gate EXCEPT ![Sink] = IF @ = "open" THEN "closing" ELSE @]
    BY <1>4, <1>a, CloseAndGoToMoves DEF SinkFails
  <2>2. GateInv'
    BY <1>4, <1>a, <2>1, CloseKeepsGates DEF SinkFails, At, Moves, threads
  <2>w. WaitInv'
    BY <1>4, <1>a, <2>1, CloseKeepsWaits DEF Fresh, SinkFails, At, Moves, threads
  <2> QED
    BY <1>4, <1>a, <2>1, <2>2, <2>w DEF SinkFails, At, Moves, Queued, calls
<1>5. CASE ClientThrows
  <2>1. Moves("~subscriber", owner.client, owner.handle, {})
    BY <1>5, <1>a, GoToMoves DEF ClientThrows, At
  <2>2. GateInv'
    BY <1>5, <1>a, <2>1, OpenKeepsGates DEF ClientThrows, At, Moves, threads
  <2>w. WaitInv'
    BY <1>5, <1>a, <2>1, OpenKeepsWaits DEF Fresh, ClientThrows, At, Moves, threads
  <2> QED
    BY <1>5, <1>a, <2>1, <2>2, <2>w DEF ClientThrows, At, Moves, Queued, calls
<1>6. CASE NewClient
  <2>1. Moves("invoke", 1, owner.handle, {})
    BY <1>6, <1>a DEF NewClient, At, IsOwner, Moves
  <2>2. GateInv'
    BY <1>6, <1>a, <2>1, OpenKeepsGates DEF NewClient, At, Moves, threads
  <2>w. WaitInv'
    BY <1>6, <1>a, <2>1, OpenKeepsWaits DEF Fresh, NewClient, At, Moves, threads
  <2>3. owner.client = 0 /\ owner.handle = 0 /\ pending = {}
    BY <1>6, <1>a, <2>1 DEF NewClient, At, Moves, calls, Queued
  <2>4. 1 \in 0..MaxRequests
    BY <1>6, <1>a, <2>1, ConsumerAssumption DEF NewClient, At, Moves, calls
  <2>5. OpenInv'
    BY <1>6, <1>a, <2>1, <2>3, <2>4 DEF NewClient, At, Moves, calls, OpenInv
  <2>6. PendingInv'
    BY <1>6, <1>a, <2>1, <2>3, <2>4 DEF NewClient, At, Moves, calls, PendingInv, Queued
  <2>7. BoundInv'
    BY <1>6, <1>a, <2>1, <2>3, <2>4 DEF NewClient, At, Moves, calls, BoundInv
  <2> QED
    BY <2>2, <2>w, <2>5, <2>6, <2>7
<1>7. CASE SubscriberThrows
  <2>1. Moves("~subscriber", owner.client, owner.handle, {})
    BY <1>7, <1>a, GoToMoves DEF SubscriberThrows, At
  <2>2. GateInv'
    BY <1>7, <1>a, <2>1, OpenKeepsGates DEF SubscriberThrows, At, Moves, threads
  <2>w. WaitInv'
    BY <1>7, <1>a, <2>1, OpenKeepsWaits DEF Fresh, SubscriberThrows, At, Moves, threads
  <2> QED
    BY <1>7, <1>a, <2>1, <2>2, <2>w DEF SubscriberThrows, At, Moves, Queued, calls
<1>8. CASE SubscriberRegister
  <2>1. Moves("subscribing", owner.client, owner.handle, {})
    BY <1>8, <1>a, GoToMoves DEF SubscriberRegister, At
  <2>2. GateInv'
    BY <1>8, <1>a, <2>1, OpenKeepsGates DEF SubscriberRegister, At, Moves, threads, Open
  <2>w. WaitInv'
    BY <1>8, <1>a, <2>1, OpenKeepsWaits DEF Fresh, SubscriberRegister, At, Moves, threads, Open
  <2> QED
    BY <1>8, <1>a, <2>1, <2>2, <2>w DEF SubscriberRegister, At, Moves, Queued, calls, Open
<1>9. CASE SubscriberConnected
  <2>1. Moves("live", owner.client, owner.handle, {})
    BY <1>9, <1>a, GoToMoves DEF SubscriberConnected, At
  <2>2. GateInv'
    BY <1>9, <1>a, <2>1, OpenKeepsGates DEF SubscriberConnected, At, Moves, threads
  <2>w. WaitInv'
    BY <1>9, <1>a, <2>1, OpenKeepsWaits DEF Fresh, SubscriberConnected, At, Moves, threads
  <2> QED
    BY <1>9, <1>a, <2>1, <2>2, <2>w DEF SubscriberConnected, At, Moves, Queued, calls
<1>10. CASE SubscriberFails
  <2>1. /\ Moves("~subscriber", owner.client, owner.handle,
                 IF gate[Topic] = "open" THEN {Topic} ELSE {})
        /\ gate' = [gate EXCEPT ![Topic] = IF @ = "open" THEN "closing" ELSE @]
    BY <1>10, <1>a, CloseAndGoToMoves DEF SubscriberFails
  <2>2. GateInv'
    BY <1>10, <1>a, <2>1, CloseKeepsGates DEF SubscriberFails, At, Moves, threads
  <2>w. WaitInv'
    BY <1>10, <1>a, <2>1, CloseKeepsWaits DEF Fresh, SubscriberFails, At, Moves, threads
  <2> QED
    BY <1>10, <1>a, <2>1, <2>2, <2>w DEF SubscriberFails, At, Moves, Queued, calls
<1> QED
  BY <1>1, <1>2, <1>3, <1>4, <1>5, <1>6, <1>7, <1>8, <1>9, <1>10 DEF Create

\* The steps of invokeMethod() keep LeftInv.
LEMMA InvokeLeft == SilentInv /\ LeftInv /\ InvokeMethod => LeftInv'
<1> SUFFICES ASSUME SilentInv, LeftInv, InvokeMethod PROVE LeftInv'
  OBVIOUS
<1>a. IsOwner(owner) /\ gate = [g \in Gates |-> gate[g]] /\ ClientInv /\ LeftInv
  BY DEF SilentInv, ShapeInv
<1> USE GateNames DEF LeftInv, OpenInv, PendingInv, BoundInv, ClientInv, ClientAt, Requests
<1>1. CASE CallRegister
  <2>1. Moves("registered", owner.client, owner.handle, {})
    BY <1>1, <1>a, GoToMoves DEF CallRegister, At
  <2>2. GateInv'
    BY <1>1, <1>a, <2>1, OpenKeepsGates DEF CallRegister, At, Moves, threads
  <2>3. owner.client \in Requests /\ pending = {}
    BY <1>1, <1>a, <2>1 DEF CallRegister, At, Moves, calls, Queued
  <2>4. /\ gate'[Listen(owner.client)] = "open"
        /\ \A g \in Gates \ {Listen(owner.client), Invoke(owner.client)} : gate'[g] = gate[g]
        /\ gate'[Invoke(owner.client)] = "open"
    BY <1>1, <1>a, <2>1, <2>3 DEF CallRegister, At, Moves, calls
  <2>5. OpenInv'
    <3>1. pending' = {} /\ owner.at = "invoke"
      BY <1>1, <2>3 DEF CallRegister, At, calls
    <3> QED
      BY <1>a, <2>1, <2>3, <2>4, <3>1 DEF Moves
  <2>w. WaitInv'
    <3>1. UNCHANGED exec /\ owner.at = "invoke"
      BY <1>1 DEF CallRegister, At, threads
    <3> QED
      BY <1>a, <2>1, <2>3, <2>4, <3>1 DEF Moves, WaitInv, Fresh
  <2>6. PendingInv'
    BY <1>1, <1>a, <2>1, <2>3, <2>4 DEF CallRegister, At, Moves, calls, PendingInv, Queued
  <2>7. BoundInv'
    BY <1>1, <1>a, <2>1, <2>3, <2>4 DEF CallRegister, At, Moves, calls, BoundInv
  <2> QED
    BY <2>2, <2>w, <2>5, <2>6, <2>7
<1>2. CASE CallRegisterFails
  <2>1. /\ Moves("assign", owner.client, owner.handle,
                 IF gate[Listen(owner.client)] = "open" THEN {Listen(owner.client)} ELSE {})
        /\ gate' = [gate EXCEPT ![Listen(owner.client)] = IF @ = "open" THEN "closing" ELSE @]
    BY <1>2, <1>a, CloseAndGoToMoves DEF CallRegisterFails
  <2>2. GateInv'
    BY <1>2, <1>a, <2>1, CloseKeepsGates DEF CallRegisterFails, At, Moves, threads
  <2>w. WaitInv'
    BY <1>2, <1>a, <2>1, CloseKeepsWaits DEF Fresh, CallRegisterFails, At, Moves, threads
  <2> QED
    BY <1>2, <1>a, <2>1, <2>2, <2>w DEF CallRegisterFails, At, Moves, Queued, calls
<1>3. CASE CallSend
  <2>1. Moves("send", owner.client, owner.handle, {})
    BY <1>3, <1>a, GoToMoves DEF CallSend, At
  <2>2. GateInv'
    BY <1>3, <1>a, <2>1, OpenKeepsGates DEF CallSend, At, Moves, threads
  <2>w. WaitInv'
    BY <1>3, <1>a, <2>1, OpenKeepsWaits DEF Fresh, CallSend, At, Moves, threads
  <2> QED
    BY <1>3, <1>a, <2>1, <2>2, <2>w DEF CallSend, At, Moves, Queued, calls
<1>4. CASE CallSent
  <2>1. Moves("assign", owner.client, owner.handle, {})
    BY <1>4, <1>a, GoToMoves DEF CallSent, At
  <2>2. GateInv'
    BY <1>4, <1>a, <2>1, OpenKeepsGates DEF CallSent, At, Moves, threads
  <2>w. WaitInv'
    BY <1>4, <1>a, <2>1, OpenKeepsWaits DEF Fresh, CallSent, At, Moves, threads
  <2>3. owner.client \in Requests
    BY <1>4, <1>a, <2>1 DEF CallSent, At, Moves, calls
  <2>4. OpenInv'
    BY <1>4, <1>a, <2>1, <2>3 DEF CallSent, At, Moves, calls, OpenInv
  <2>5. PendingInv'
    BY <1>4, <1>a, <2>1, <2>3 DEF CallSent, At, Moves, calls, PendingInv, Queued
  <2>6. BoundInv'
    BY <1>4, <1>a, <2>1, <2>3 DEF CallSent, At, Moves, calls, BoundInv
  <2> QED
    BY <2>2, <2>w, <2>4, <2>5, <2>6
<1>5. CASE CallSendFails
  <2>1. /\ Moves("assign", owner.client, owner.handle,
                 IF gate[Listen(owner.client)] = "open" THEN {Listen(owner.client)} ELSE {})
        /\ gate' = [gate EXCEPT ![Listen(owner.client)] = IF @ = "open" THEN "closing" ELSE @]
    BY <1>5, <1>a, CloseAndGoToMoves DEF CallSendFails
  <2>2. GateInv'
    BY <1>5, <1>a, <2>1, CloseKeepsGates DEF CallSendFails, At, Moves, threads
  <2>w. WaitInv'
    BY <1>5, <1>a, <2>1, CloseKeepsWaits DEF Fresh, CallSendFails, At, Moves, threads
  <2> QED
    BY <1>5, <1>a, <2>1, <2>2, <2>w DEF CallSendFails, At, Moves, Queued, calls
<1>6. CASE CallThrows
  <2>1. /\ Moves("unwind", owner.client, owner.handle,
                 IF gate[Listen(owner.client)] = "open" THEN {Listen(owner.client)} ELSE {})
        /\ gate' = [gate EXCEPT ![Listen(owner.client)] = IF @ = "open" THEN "closing" ELSE @]
    BY <1>6, <1>a, CloseAndGoToMoves DEF CallThrows
  <2>2. GateInv'
    BY <1>6, <1>a, <2>1, CloseKeepsGates DEF CallThrows, At, Moves, threads
  <2>w. WaitInv'
    BY <1>6, <1>a, <2>1, CloseKeepsWaits DEF Fresh, CallThrows, At, Moves, threads
  <2> QED
    BY <1>6, <1>a, <2>1, <2>2, <2>w DEF CallThrows, At, Moves, Queued, calls
<1>7. CASE CallUnwind
  <2>1. /\ Moves(IF owner.client = 1 THEN "~subscriber" ELSE "live", owner.client, owner.handle,
                 IF gate[Invoke(owner.client)] = "open" THEN {Invoke(owner.client)} ELSE {})
        /\ gate' = [gate EXCEPT ![Invoke(owner.client)] = IF @ = "open" THEN "closing" ELSE @]
    BY <1>7, <1>a, CloseAndGoToMoves DEF CallUnwind
  <2>2. GateInv'
    BY <1>7, <1>a, <2>1, CloseKeepsGates DEF CallUnwind, At, Moves, threads
  <2>w. WaitInv'
    BY <1>7, <1>a, <2>1, CloseKeepsWaits DEF Fresh, CallUnwind, At, Moves, threads
  <2>3. OpenInv'
    BY <1>7, <1>a, <2>1 DEF CallUnwind, At, Moves, calls
  <2>4. PendingInv' /\ BoundInv'
    BY <1>7, <1>a, <2>1 DEF CallUnwind, At, Moves, Queued, calls
  <2> QED
    BY <2>2, <2>w, <2>3, <2>4
<1>8. CASE CallAssign
  <2>1. Moves(IF owner.client = 1 THEN "subscriber" ELSE "reset", owner.client, owner.client, {})
    BY <1>8, <1>a DEF CallAssign, At, IsOwner, Moves
  <2>2. GateInv'
    BY <1>8, <1>a, <2>1, OpenKeepsGates DEF CallAssign, At, Moves, threads
  <2>w. WaitInv'
    BY <1>8, <1>a, <2>1, OpenKeepsWaits DEF Fresh, CallAssign, At, Moves, threads
  <2>3. \A g \in Gates :
           gate'[g] = IF g = Invoke(owner.handle) /\ gate[g] = "open" THEN "dropped" ELSE gate[g]
    BY <1>8, <1>a, <2>1 DEF CallAssign, At, Moves, calls
  <2>4. OpenInv'
    BY <1>8, <1>a, <2>1, <2>3 DEF CallAssign, At, Moves, calls, OpenInv
  <2>5. PendingInv'
    <3>1. \A r \in Requests : gate'[Listen(r)] = gate[Listen(r)]
      BY <2>3
    <3> QED
      BY <1>8, <1>a, <2>1, <3>1 DEF CallAssign, At, Moves, calls, Queued
  <2>6. BoundInv'
    BY <1>8, <1>a, <2>1, <2>3 DEF CallAssign, At, Moves, calls, BoundInv
  <2> QED
    BY <2>2, <2>w, <2>4, <2>5, <2>6
<1> QED
  BY <1>1, <1>2, <1>3, <1>4, <1>5, <1>6, <1>7, <1>8 DEF InvokeMethod

\* The destruction of the client keeps LeftInv.
LEMMA DestroyClientLeft == SilentInv /\ LeftInv /\ DestroyClient => LeftInv'
<1> SUFFICES ASSUME SilentInv, LeftInv, DestroyClient PROVE LeftInv'
  OBVIOUS
<1> DEFINE fields == [owner EXCEPT !.at = "~update"]
<1>1. /\ IsOwner(fields) /\ fields.at = "~update" /\ fields.wait = owner.wait
      /\ fields.client = owner.client /\ fields.handle = owner.handle
      /\ fields.shared = owner.shared
  BY DEF SilentInv, ShapeInv, IsOwner
<1>2. Scrub(fields) /\ owner.wait = {} /\ owner.at = "~client" /\ UNCHANGED exec
  BY DEF DestroyClient, At, threads
<1> HIDE DEF fields
<1>3. fields.client \in 0..MaxRequests /\ fields.client >= owner.client
  BY <1>1, ConsumerAssumption DEF LeftInv, BoundInv
<1> QED
  BY <1>1, <1>2, <1>3, ScrubLeft

\* The steps of the destructor keep LeftInv.
LEMMA DestructorLeft == SilentInv /\ LeftInv /\ Destructor => LeftInv'
<1> SUFFICES ASSUME SilentInv, LeftInv, Destructor PROVE LeftInv'
  OBVIOUS
<1>a. IsOwner(owner) /\ gate = [g \in Gates |-> gate[g]] /\ ClientInv /\ LeftInv
  BY DEF SilentInv, ShapeInv
<1> USE GateNames DEF LeftInv, OpenInv, PendingInv, BoundInv, ClientInv, ClientAt, Requests
<1>1. CASE Destroy
  <2>1. Moves("~subscriber", owner.client, owner.handle, {})
    BY <1>1, <1>a, GoToMoves DEF Destroy, At
  <2>2. GateInv'
    BY <1>1, <1>a, <2>1, OpenKeepsGates DEF Destroy, At, Moves, threads
  <2>w. WaitInv'
    BY <1>1, <1>a, <2>1, OpenKeepsWaits DEF Fresh, Destroy, At, Moves, threads
  <2> QED
    BY <1>1, <1>a, <2>1, <2>2, <2>w DEF Destroy, At, Moves, Queued, calls
<1>2. CASE DestroySubscriber
  <2>1. /\ Moves("~response", owner.client, owner.handle,
                 IF gate[Topic] = "open" THEN {Topic} ELSE {})
        /\ gate' = [gate EXCEPT ![Topic] = IF @ = "open" THEN "closing" ELSE @]
    BY <1>2, <1>a, CloseAndGoToMoves DEF DestroySubscriber
  <2>2. GateInv'
    BY <1>2, <1>a, <2>1, CloseKeepsGates DEF DestroySubscriber, At, Moves, threads
  <2>w. WaitInv'
    BY <1>2, <1>a, <2>1, CloseKeepsWaits DEF Fresh, DestroySubscriber, At, Moves, threads
  <2> QED
    BY <1>2, <1>a, <2>1, <2>2, <2>w DEF DestroySubscriber, At, Moves, Queued, calls
<1>3. CASE DestroyResponse
  <2>1. Moves("~handle", owner.client, owner.handle, {})
    BY <1>3, <1>a, GoToMoves DEF DestroyResponse, At
  <2>2. GateInv'
    BY <1>3, <1>a, <2>1, OpenKeepsGates DEF DestroyResponse, At, Moves, threads
  <2>w. WaitInv'
    BY <1>3, <1>a, <2>1, OpenKeepsWaits DEF Fresh, DestroyResponse, At, Moves, threads
  <2> QED
    BY <1>3, <1>a, <2>1, <2>2, <2>w DEF DestroyResponse, At, Moves, Queued, calls
<1>4. CASE DestroyHandle
  <2>1. /\ Moves("~client", owner.client, owner.handle,
                 IF gate[Invoke(owner.handle)] = "open" THEN {Invoke(owner.handle)} ELSE {})
        /\ gate' = [gate EXCEPT ![Invoke(owner.handle)] = IF @ = "open" THEN "closing" ELSE @]
    BY <1>4, <1>a, CloseAndGoToMoves DEF DestroyHandle
  <2>2. GateInv'
    BY <1>4, <1>a, <2>1, CloseKeepsGates DEF DestroyHandle, At, Moves, threads
  <2>w. WaitInv'
    <3>1. owner.handle \in 0..MaxRequests
      BY ConsumerAssumption DEF BoundInv
    <3>2. Invoke(owner.handle) \in Gates
      BY <3>1, GateNames
    <3> QED
      BY <1>4, <1>a, <2>1, <3>2, CloseKeepsWaits DEF Fresh, DestroyHandle, At, Moves, threads
  <2> QED
    BY <1>4, <1>a, <2>1, <2>2, <2>w DEF DestroyHandle, At, Moves, Queued, calls
<1>5. CASE DestroyClient
  BY <1>5, DestroyClientLeft, Zenon
<1>6. CASE DestroyUpdate
  <2>1. Moves("~sink", owner.client, owner.handle, {})
    BY <1>6, <1>a, GoToMoves DEF DestroyUpdate, At
  <2>2. GateInv'
    BY <1>6, <1>a, <2>1, OpenKeepsGates DEF DestroyUpdate, At, Moves, threads
  <2>w. WaitInv'
    BY <1>6, <1>a, <2>1, OpenKeepsWaits DEF Fresh, DestroyUpdate, At, Moves, threads
  <2> QED
    BY <1>6, <1>a, <2>1, <2>2, <2>w DEF DestroyUpdate, At, Moves, Queued, calls
<1>7. CASE DestroySink
  <2>1. /\ Moves("gone", owner.client, owner.handle, IF gate[Sink] = "open" THEN {Sink} ELSE {})
        /\ gate' = [gate EXCEPT ![Sink] = IF @ = "open" THEN "closing" ELSE @]
    BY <1>7, <1>a, CloseAndGoToMoves DEF DestroySink
  <2>2. GateInv'
    BY <1>7, <1>a, <2>1, CloseKeepsGates DEF DestroySink, At, Moves, threads
  <2>w. WaitInv'
    BY <1>7, <1>a, <2>1, CloseKeepsWaits DEF Fresh, DestroySink, At, Moves, threads
  <2> QED
    BY <1>7, <1>a, <2>1, <2>2, <2>w DEF DestroySink, At, Moves, Queued, calls
<1>8. CASE DestroyRest
  <2>1. GateInv'
    BY <1>8, OpenKeepsGates DEF DestroyRest, threads
  <2> QED
    BY <1>8, <2>1 DEF DestroyRest, calls, threads, WaitInv, Fresh
<1> QED
  BY <1>1, <1>2, <1>3, <1>4, <1>5, <1>6, <1>7, <1>8 DEF Destructor

\* A step of another thread that goes into g at most, and only if g admits it
LEMMA ThreadLeft ==
  ASSUME SilentInv, LeftInv, NEW c \in Callers, exec[c].at # "drain", NEW x, Run(c, x),
         x.at # "drain", NEW g, x.in \subseteq exec[c].in \union {g}, g \in x.in => Admits(g),
         UNCHANGED <<owner, gate, pending>>
  PROVE  LeftInv'
<1>a. exec'[c] = x /\ \A d \in Callers \ {c} : exec'[d] = exec[d]
  BY DEF Run, SilentInv, ShapeInv
<1>b. Worker \in Callers /\ (exec[Worker].at = "drain" => exec'[Worker] = exec[Worker])
  BY <1>a DEF Callers
<1>1. GateInv'
  <2>1. ASSUME NEW k \in Gates, gate[k] = "closing" PROVE ClosedBy(k)'
    BY <1>b, <2>1 DEF LeftInv, GateInv, ClosedBy
  <2>2. ASSUME NEW k \in Gates, gate[k] \in {"none", "closed"} PROVE Inside(k)' = {}
    <3>1. Inside(k) = {} /\ ~Admits(k)
      BY <2>2 DEF LeftInv, GateInv, Admits
    <3> QED
      BY <1>a, <3>1 DEF Inside
  <2> QED
    BY <2>1, <2>2 DEF LeftInv, GateInv
<1>2. WaitInv'
  BY <1>a, <1>b DEF LeftInv, WaitInv, Fresh
<1> QED
  BY <1>1, <1>2 DEF LeftInv, OpenInv, PendingInv, BoundInv

\* The callbacks, and the expire worker, keep LeftInv.
LEMMA CallbackLeft == SilentInv /\ LeftInv /\ Callback => LeftInv'
<1> SUFFICES ASSUME SilentInv, LeftInv, Callback PROVE LeftInv'
  OBVIOUS
<1> USE DEF Callers
<1>1. ASSUME NEW t \in Threads, NEW content, NEW g \in {Sink, Topic}, Deliver(t, g, content)
      PROVE  LeftInv'
  BY <1>1, ThreadLeft DEF Deliver, ownerVars, calls, Sink, Topic
<1>2. ASSUME NEW t \in Threads, NEW content, NEW r \in Requests, Answer(t, r, content)
      PROVE  LeftInv'
  BY <1>2, ThreadLeft DEF Answer, ownerVars, calls
<1>3. ASSUME NEW c \in Callers, exec[c].at # "drain", Run(c, Idle),
             UNCHANGED <<ownerVars, pending>>
      PROVE  LeftInv'
  BY <1>3, ThreadLeft DEF Idle, ownerVars
<1>4. ASSUME NEW c \in Callers, NEW point, point # "drain", CallOnce(c, point) PROVE LeftInv'
  <2> DEFINE called == [exec[c] EXCEPT !.at = "response"]
             inside == [called EXCEPT !.in = @ \union {Invoke(exec[c].request)}]
  <2>1. \/ Run(c, inside) /\ Admits(Invoke(exec[c].request))
        \/ Run(c, Idle)
    BY <1>4 DEF CallOnce
  <2>2. UNCHANGED <<owner, gate, pending>> /\ exec[c].at # "drain"
    BY <1>4 DEF CallOnce, ownerVars
  <2>3. /\ {"at", "in"} \subseteq DOMAIN called
        /\ called.in = exec[c].in /\ called.at = "response"
    BY DEF SilentInv, ShapeInv
  <2>4. inside.in = exec[c].in \union {Invoke(exec[c].request)} /\ inside.at = "response"
    <3> HIDE DEF called
    <3> QED
      BY <2>3
  <2>5. CASE Run(c, inside) /\ Admits(Invoke(exec[c].request))
    <3> HIDE DEF inside
    <3> QED
      BY <2>2, <2>4, <2>5, ThreadLeft
  <2>6. CASE Run(c, Idle)
    BY <1>3, <1>4, <2>2, <2>6 DEF CallOnce
  <2> QED
    BY <2>1, <2>5, <2>6
<1>5. ASSUME NEW r \in Requests, WorkerTake(r) PROVE LeftInv'
  <2> USE GateNames DEF LeftInv
  <2>1. /\ \A g \in Gates : gate'[g] = IF g = Listen(r) THEN "closing" ELSE gate[g]
        /\ gate[Listen(r)] = "open"
        /\ exec'[Worker].at = "drain" /\ exec'[Worker].request = r /\ exec'[Worker].in = {}
        /\ \A c \in Callers \ {Worker} : exec'[c] = exec[c]
        /\ UNCHANGED owner /\ pending' = pending \ {r} /\ exec[Worker].at = "idle"
    BY <1>5 DEF WorkerTake, Run, SilentInv, ShapeInv, PendingInv
  <2>2. GateInv'
    BY <2>1 DEF GateInv, ClosedBy, Inside
  <2>3. OpenInv'
    BY <2>1 DEF OpenInv, PendingInv
  <2>4. PendingInv'
    BY <1>5, <2>1 DEF WorkerTake, PendingInv, Queued
  <2>5. WaitInv'
    BY <2>1 DEF WaitInv, Fresh
  <2> QED
    BY <2>1, <2>2, <2>3, <2>4, <2>5 DEF BoundInv
<1>6. CASE WorkerDrained
  <2> USE GateNames DEF LeftInv
  <2> DEFINE k == Listen(exec[Worker].request)
             x == [exec[Worker] EXCEPT !.at = "expire"]
  <2>1. /\ \A g \in Gates : gate'[g] = IF g = k THEN "closed" ELSE gate[g]
        /\ Inside(k) = {}
        /\ UNCHANGED owner /\ pending' = pending /\ exec[Worker].at = "drain"
    BY <1>6 DEF WorkerDrained, calls, SilentInv, ShapeInv
  <2>2. exec' = [exec EXCEPT ![Worker] = x] /\ x.in = exec[Worker].in /\ x.at = "expire"
    BY <1>6 DEF WorkerDrained, Run, SilentInv, ShapeInv
  <2> HIDE DEF x
  <2>a. exec'[Worker].at = "expire" /\ \A c \in Callers : exec'[c].in = exec[c].in
    BY <2>2 DEF SilentInv, ShapeInv
  <2>3. GateInv'
    BY <2>1, <2>a DEF GateInv, ClosedBy, Inside
  <2>4. k \in Gates /\ gate[k] # "open"
    BY <2>1 DEF WaitInv
  <2>5. OpenInv'
    BY <2>1 DEF OpenInv, PendingInv
  <2>6. PendingInv'
    <3>1. owner.at \in {"registered", "send"} => owner.client \in Requests
      BY ClientMade DEF SilentInv
    <3>2. \A r \in Requests : gate[Listen(r)] = "open" => gate'[Listen(r)] = "open"
      BY <2>1, <2>4
    <3> QED
      BY <2>1, <3>1, <3>2 DEF PendingInv
  <2>7. WaitInv'
    BY <2>1, <2>4, <2>a DEF WaitInv, Fresh
  <2> QED
    BY <2>1, <2>3, <2>5, <2>6, <2>7 DEF BoundInv
<1> QED
  BY <1>1, <1>2, <1>3, <1>4, <1>5, <1>6
  DEF Callback, UpdateReturns, MessageReturns, ResponseReturns, calls

\* Before create() no gate is open and nothing is in the queue.
LEMMA InitLeftInv == Init => LeftInv
<1> SUFFICES ASSUME Init PROVE LeftInv
  OBVIOUS
<1> USE GateNames, ConsumerAssumption DEF Init
<1>1. GateInv
  BY DEF GateInv, Inside, Idle
<1>2. OpenInv /\ PendingInv
  BY DEF OpenInv, PendingInv
<1>3. BoundInv
  BY DEF BoundInv, NoRequest
<1>4. WaitInv
  BY DEF WaitInv, Idle, Callers
<1> QED
  BY <1>1, <1>2, <1>3, <1>4 DEF LeftInv

\* Every step keeps LeftInv.
LEMMA NextLeftInv == SilentInv /\ LeftInv /\ [Next]_vars => LeftInv'
<1> SUFFICES ASSUME SilentInv, LeftInv, [Next]_vars PROVE LeftInv'
  OBVIOUS
<1>a. IsOwner(owner) /\ gate = [g \in Gates |-> gate[g]] /\ ClientInv
  BY DEF SilentInv, ShapeInv
<1> USE GateNames DEF LeftInv
<1>1. CASE UNCHANGED vars
  BY <1>1 DEF vars, GateInv, ClosedBy, Inside, OpenInv, PendingInv, BoundInv, WaitInv, Fresh
<1>2. CASE Drained
  <2>1. PICK k \in owner.wait : Inside(k) = {} /\ gate' = [gate EXCEPT ![k] = "closed"]
    BY <1>2 DEF Drained
  <2>2. Moves(owner.at, owner.client, owner.handle, {})
    BY <1>2, <1>a DEF Drained, IsOwner, Moves
  <2>3. /\ k \in Gates /\ gate[k] \in {"closing", "closed"}
        /\ \A g \in Gates : gate'[g] = IF g = k THEN "closed" ELSE gate[g]
        /\ UNCHANGED <<exec, pending>>
    BY <1>2, <1>a, <2>1 DEF Drained, WaitInv
  <2>4. GateInv'
    BY <2>1, <2>2, <2>3 DEF GateInv, ClosedBy, Inside, Moves
  <2>5. OpenInv'
    BY <2>2, <2>3 DEF OpenInv, Moves
  <2>6. PendingInv'
    <3>1. owner.at \in {"registered", "send"} => owner.client \in Requests
      BY <1>a, ClientMade
    <3> QED
      BY <2>2, <2>3, <3>1 DEF PendingInv, Moves
  <2>7. WaitInv'
    BY <2>2, <2>3 DEF WaitInv, Moves, Fresh
  <2> QED
    BY <2>2, <2>4, <2>5, <2>6, <2>7 DEF BoundInv, Moves
<1>3. CASE Unsubscribe
  <2> DEFINE point  == IF owner.client \in pending THEN "cancel" ELSE "invoke"
             fields == [owner EXCEPT !.client = @ + 1, !.at = point]
  <2>1. /\ IsOwner(fields) /\ fields.at = point /\ fields.wait = owner.wait
        /\ fields.client = owner.client + 1 /\ fields.handle = owner.handle
        /\ fields.shared = owner.shared
    BY <1>a, Replaced
  <2>2. /\ Scrub(fields) /\ owner.wait = {} /\ owner.at = "live" /\ UNCHANGED exec
        /\ owner.client < MaxRequests
    BY <1>3 DEF Unsubscribe, At, threads
  <2> HIDE DEF fields
  <2>3. fields.client \in 0..MaxRequests /\ fields.client > owner.client
        /\ fields.client >= owner.client /\ fields.at \in {"cancel", "invoke"}
    BY <2>1, <2>2, ConsumerAssumption DEF BoundInv
  <2> HIDE DEF point, LeftInv
  <2> QED
    BY <2>1, <2>2, <2>3, ScrubLeft
<1>4. CASE Cancel
  <2>1. Moves("invoke", owner.client, owner.handle, {})
    BY <1>4, <1>a, GoToMoves DEF Cancel, At
  <2>2. GateInv' /\ WaitInv'
    BY <1>4, <2>1, OpenKeepsGates, OpenKeepsWaits DEF Cancel, At, threads, Moves, Fresh
  <2> QED
    BY <1>4, <2>1, <2>2 DEF Cancel, At, Moves, OpenInv, PendingInv, BoundInv, Queued
<1>5. CASE Unsubscribed
  <2> DEFINE live   == [owner EXCEPT !.at = "live"]
             fields == [live EXCEPT !.unsubscribed = TRUE]
  <2>a. /\ IsOwner(live) /\ live.at = "live"
        /\ live.client = owner.client /\ live.handle = owner.handle
        /\ live.shared = owner.shared
    BY <1>a DEF IsOwner
  <2>b. /\ IsOwner(fields) /\ fields.at = "live" /\ fields.client = owner.client
        /\ fields.handle = owner.handle /\ fields.shared = owner.shared
    <3> HIDE DEF live
    <3> QED
      BY <2>a, SetUnsubscribed, Zenon
  <2>1. Close(Topic, fields)
    BY <1>5 DEF Unsubscribed
  <2> HIDE DEF fields
  <2>c. Moves(fields.at, fields.client, fields.handle, IF gate[Topic] = "open" THEN {Topic} ELSE {})
    BY <1>a, <2>1, <2>b, CloseMoves
  <2>2. /\ Moves("live", owner.client, owner.handle, IF gate[Topic] = "open" THEN {Topic} ELSE {})
        /\ gate' = [gate EXCEPT ![Topic] = IF @ = "open" THEN "closing" ELSE @]
    BY <2>1, <2>b, <2>c DEF Close
  <2>3. GateInv' /\ WaitInv'
    BY <1>5, <1>a, <2>2, CloseKeepsGates, CloseKeepsWaits
    DEF Unsubscribed, At, threads, Moves, Fresh
  <2> QED
    BY <1>5, <1>a, <2>2, <2>3
    DEF Unsubscribed, At, calls, Moves, OpenInv, PendingInv, BoundInv, Queued
<1> QED
  BY <1>1, <1>2, <1>3, <1>4, <1>5, CreateLeft, InvokeLeft, DestructorLeft, CallbackLeft DEF Next

\* When the destructor has returned, or create() has failed, every connection of the
\* consumer is severed, but for an on_response whose handle was overwritten, a listener
\* that the worker is removing and, if other clients use the queue, one that scrub()
\* dropped.
THEOREM Released == Spec => []NothingLeft
<1>1. SilentInv /\ LeftInv => NothingLeft
  <2> SUFFICES ASSUME SilentInv, LeftInv, Finished PROVE NothingLeft
    BY DEF NothingLeft
  <2>1. pending = {}
    BY DEF LeftInv, PendingInv, Queued, Finished
  <2>2. \A g \in Gates : gate[g] # "open"
    BY <2>1, GateNames DEF LeftInv, OpenInv, Finished
  <2>3. ASSUME NEW g \in Gates
        PROVE  \/ gate[g] \in {"none", "closed"} /\ Inside(g) = {}
               \/ gate[g] = "dropped" /\ g[1] = "invoke"
               \/ gate[g] = "dropped" /\ g[1] = "listen" /\ owner.shared
               \/ g[1] = "listen" /\ Removing(g[2])
    <3>1. CASE gate[g] \in {"none", "closed"}
      BY <3>1 DEF LeftInv, GateInv
    <3>2. CASE gate[g] = "closing"
      BY <3>2 DEF LeftInv, GateInv, ClosedBy, Finished, Removing, Listen
    <3>3. CASE gate[g] = "dropped"
      <4>1. g # Sink /\ g # Topic
        BY <3>3 DEF LeftInv, OpenInv, SilentInv, TopicInv
      <4>2. CASE \E r \in Requests : g = Listen(r)
        <5>1. PICK r \in Requests : g = Listen(r)
          BY <4>2
        <5>2. owner.shared
          BY <3>3, <5>1 DEF LeftInv, OpenInv
        <5> QED
          BY <3>3, <5>1, <5>2 DEF Listen
      <4>3. CASE \E r \in 0..MaxRequests : g = Invoke(r)
        BY <3>3, <4>3 DEF Invoke
      <4> QED
        BY <4>1, <4>2, <4>3, GateNames
    <3> QED
      BY <2>2, <3>1, <3>2, <3>3 DEF LeftInv, GateInv
  <2> QED
    BY <2>1, <2>3 DEF NothingLeft
<1> QED
  BY <1>1, InitSilentInv, NextSilentInv, InitLeftInv, NextLeftInv, PTL DEF Spec

-------------------------------------------------------------------------------
(* Types.                                                                  *)

Points == {"none", "live", "reset", "gone"} \union Building \union Calling \union Dying

Flags(f) == f.unsubscribed \in BOOLEAN /\ f.shared \in BOOLEAN
OwnerTyped(f) == f.at \in Points /\ Flags(f)

TypeInv ==
    /\ OwnerTyped(owner)
    /\ owner.wait = {} \/ \E g \in Gates : owner.wait = {g}
    /\ once \in [Requests -> {"unset", "running", "done"}]
    /\ destroyed \subseteq {"response", "update", "topic"}

\* Setting a field keeps the flags.
LEMMA SetTyped ==
  ASSUME NEW f, IsOwner(f), Flags(f), NEW x
  PROVE  /\ Flags([f EXCEPT !.at = x]) /\ Flags([f EXCEPT !.client = x])
         /\ Flags([f EXCEPT !.handle = x]) /\ Flags([f EXCEPT !.wait = x])
         /\ Flags([f EXCEPT !.unsubscribed = TRUE])
<1>1. Flags([f EXCEPT !.at = x]) /\ Flags([f EXCEPT !.client = x])
  BY Zenon DEF IsOwner, Flags
<1>2. Flags([f EXCEPT !.handle = x]) /\ Flags([f EXCEPT !.wait = x])
  BY Zenon DEF IsOwner, Flags
<1>3. Flags([f EXCEPT !.unsubscribed = TRUE])
  BY Zenon DEF IsOwner, Flags
<1> QED
  BY <1>1, <1>2, <1>3

LEMMA GoToTyped ==
  ASSUME IsOwner(owner), TypeInv, owner.wait = {}, NEW point \in Points, GoTo(point)
  PROVE  OwnerTyped(owner)' /\ owner'.wait = {}
<1>1. Flags(owner)'
  BY SetTyped, Zenon DEF GoTo, TypeInv, OwnerTyped
<1>2. owner'.at = point /\ owner'.wait = {}
  BY DEF GoTo, IsOwner
<1> QED
  BY <1>1, <1>2 DEF OwnerTyped

LEMMA CloseTyped ==
  ASSUME NEW g \in Gates, NEW fields, IsOwner(fields), OwnerTyped(fields), Close(g, fields)
  PROVE  OwnerTyped(owner)' /\ (owner'.wait = {} \/ owner'.wait = {g})
<1>1. Flags(owner)'
  BY SetTyped, Zenon DEF Close, OwnerTyped
<1>2. owner'.at = fields.at /\ (owner'.wait = {} \/ owner'.wait = {g})
  BY DEF Close, IsOwner
<1> QED
  BY <1>1, <1>2 DEF OwnerTyped

LEMMA ScrubTyped ==
  ASSUME NEW fields, IsOwner(fields), OwnerTyped(fields), fields.wait = {}, Scrub(fields),
         owner.client \in pending => Listen(owner.client) \in Gates
  PROVE  OwnerTyped(owner)' /\ (owner'.wait = {} \/ \E g \in Gates : owner'.wait = {g})
<1>1. CASE owner.client \in pending /\ Close(Listen(owner.client), fields)
  BY <1>1, CloseTyped
<1>2. CASE owner' = fields
  BY <1>2 DEF OwnerTyped, Flags
<1> QED
  BY <1>1, <1>2 DEF Scrub

LEMMA CloseAndGoToTyped ==
  ASSUME IsOwner(owner), TypeInv, NEW g \in Gates, NEW point \in Points, CloseAndGoTo(g, point)
  PROVE  OwnerTyped(owner)' /\ (owner'.wait = {} \/ owner'.wait = {g})
<1> DEFINE fields == [owner EXCEPT !.at = point]
<1>1. Flags(fields)
  BY SetTyped, Zenon DEF TypeInv, OwnerTyped
<1>2. IsOwner(fields) /\ fields.at = point
  BY DEF IsOwner
<1>3. Close(g, fields)
  BY DEF CloseAndGoTo
<1> HIDE DEF fields
<1>4. OwnerTyped(fields)
  BY <1>1, <1>2 DEF OwnerTyped
<1> QED
  BY <1>2, <1>3, <1>4, CloseTyped

\* The steps of the owner keep the type of its members.
LEMMA OwnerKeepsTypes ==
  ASSUME SilentInv, LeftInv, TypeInv, OwnerStep
  PROVE  OwnerTyped(owner)' /\ (owner'.wait = {} \/ \E g \in Gates : owner'.wait = {g})
<1>a. IsOwner(owner) /\ ClientInv /\ BoundInv
  BY DEF SilentInv, ShapeInv, LeftInv
<1>b. Invoke(owner.handle) \in Gates /\ (owner.client # 0 => Listen(owner.client) \in Gates)
      /\ Invoke(owner.client) \in Gates /\ Sink \in Gates /\ Topic \in Gates
  <2>1. owner.handle \in 0..MaxRequests /\ (owner.client # 0 => owner.client \in Requests)
        /\ owner.client \in 0..MaxRequests
    BY <1>a, ConsumerAssumption DEF BoundInv, Requests
  <2> QED
    BY <2>1, GateNames
<1>c. /\ Building \subseteq Points /\ Calling \subseteq Points /\ Dying \subseteq Points
      /\ {"none", "live", "reset", "gone"} \subseteq Points
  BY DEF Points
<1>1. CASE Drained
  <2>1. owner' = [owner EXCEPT !.wait = {}]
    BY <1>1 DEF Drained
  <2>2. Flags(owner)'
    BY <1>a, <2>1, SetTyped, Zenon DEF TypeInv, OwnerTyped
  <2>3. owner'.at = owner.at /\ owner'.wait = {}
    BY <1>a, <2>1 DEF IsOwner
  <2> QED
    BY <2>2, <2>3 DEF TypeInv, OwnerTyped
<1>2. CASE Create
  <2>1. CASE NewClient
    <3> DEFINE invoking == [owner EXCEPT !.at = "invoke"]
    <3>1. IsOwner(invoking) /\ invoking.at = "invoke" /\ invoking.wait = {}
      BY <1>a, <2>1 DEF NewClient, At, IsOwner
    <3>2. Flags(invoking)
      BY <1>a, SetTyped, Zenon DEF TypeInv, OwnerTyped
    <3>3. owner' = [invoking EXCEPT !.client = 1]
      BY <2>1 DEF NewClient
    <3> HIDE DEF invoking
    <3>4. Flags(owner)'
      BY <3>1, <3>2, <3>3, SetTyped, Zenon
    <3>5. owner'.at = "invoke" /\ owner'.wait = {}
      BY <3>1, <3>3 DEF IsOwner
    <3> QED
      BY <1>c, <3>4, <3>5 DEF OwnerTyped, Calling
  <2>2. CASE SinkFails \/ SubscriberFails
    <3>1. "~subscriber" \in Points
      BY <1>c DEF Dying
    <3> QED
      BY <1>a, <1>b, <2>2, <3>1, CloseAndGoToTyped DEF SinkFails, SubscriberFails
  <2>3. CASE ~(NewClient \/ SinkFails \/ SubscriberFails)
    <3>1. PICK point \in Points : GoTo(point) /\ owner.wait = {}
      BY <1>2, <1>c, <2>3
      DEF Create, SinkThrows, SinkRegister, SinkConnected, ClientThrows, SubscriberThrows,
          SubscriberRegister, SubscriberConnected, At, Building, Dying
    <3> QED
      BY <1>a, <3>1, GoToTyped
  <2> QED
    BY <2>1, <2>2, <2>3
<1>3. CASE InvokeMethod
  <2>1. CASE CallAssign
    <3> DEFINE point == IF owner.client = 1 THEN "subscriber" ELSE "reset"
               assigned == [owner EXCEPT !.handle = owner.client]
    <3>1. IsOwner(assigned) /\ assigned.wait = {}
      BY <1>a, <2>1 DEF CallAssign, At, IsOwner
    <3>2. Flags(assigned)
      BY <1>a, SetTyped, Zenon DEF TypeInv, OwnerTyped
    <3>3. owner' = [assigned EXCEPT !.at = point] /\ point \in Points
      BY <1>c, <2>1 DEF CallAssign, Building
    <3> HIDE DEF assigned, point
    <3>4. Flags(owner)'
      BY <3>1, <3>2, <3>3, SetTyped, Zenon
    <3>5. owner'.at = point /\ owner'.wait = {}
      BY <3>1, <3>3 DEF IsOwner
    <3> QED
      BY <3>3, <3>4, <3>5 DEF OwnerTyped
  <2>2. CASE CallRegisterFails \/ CallSendFails \/ CallThrows \/ CallUnwind
    <3>1. PICK g \in Gates, point \in Points : CloseAndGoTo(g, point)
      <4>a. owner.at \in {"registered", "send", "unwind"}
        BY <2>2 DEF CallRegisterFails, CallSendFails, CallThrows, CallUnwind, At
      <4>1. owner.client # 0
        <5>1. owner.client > 0 /\ owner.client \in Nat
          BY <1>a, <4>a DEF ClientInv, ClientAt
        <5> QED
          BY <5>1
      <4>2. {"assign", "unwind", "~subscriber", "live"} \subseteq Points
        BY <1>c DEF Calling, Dying
      <4> QED
        BY <1>b, <2>2, <4>1, <4>2, SMT DEF CallRegisterFails, CallSendFails, CallThrows, CallUnwind
    <3> QED
      BY <1>a, <3>1, CloseAndGoToTyped
  <2>3. CASE CallRegister \/ CallSend \/ CallSent
    <3>1. PICK point \in Points : GoTo(point) /\ owner.wait = {}
      BY <1>c, <2>3 DEF CallRegister, CallSend, CallSent, At, Calling
    <3> QED
      BY <1>a, <3>1, GoToTyped
  <2> QED
    BY <1>3, <2>1, <2>2, <2>3 DEF InvokeMethod
<1>4. CASE Unsubscribe
  <2> DEFINE point    == IF owner.client \in pending THEN "cancel" ELSE "invoke"
             replaced == [owner EXCEPT !.client = @ + 1]
             fields   == [replaced EXCEPT !.at = point]
  <2>1. IsOwner(replaced) /\ replaced.wait = {}
    BY <1>a, <1>4 DEF Unsubscribe, At, IsOwner
  <2>2. Flags(replaced)
    BY <1>a, SetTyped, Zenon DEF TypeInv, OwnerTyped
  <2>3. Scrub(fields) /\ Listen(owner.client) \in Gates
    BY <1>a, <1>b, <1>4 DEF Unsubscribe, At, ClientInv, ClientAt
  <2> HIDE DEF replaced
  <2>4. Flags(fields)
    BY <2>1, <2>2, SetTyped, Zenon
  <2>5. IsOwner(fields) /\ fields.at \in {"cancel", "invoke"} /\ fields.wait = {}
    BY <2>1 DEF IsOwner
  <2> HIDE DEF fields
  <2> QED
    BY <1>c, <2>3, <2>4, <2>5, ScrubTyped DEF OwnerTyped, Calling
<1>5. CASE Cancel
  <2>1. GoTo("invoke") /\ owner.wait = {} /\ "invoke" \in Points
    BY <1>c, <1>5 DEF Cancel, At, Calling
  <2> QED
    BY <1>a, <2>1, GoToTyped
<1>6. CASE Unsubscribed
  <2> DEFINE live   == [owner EXCEPT !.at = "live"]
             fields == [live EXCEPT !.unsubscribed = TRUE]
  <2>1. IsOwner(live) /\ live.at = "live"
    BY <1>a DEF IsOwner
  <2>2. Close(Topic, fields)
    BY <1>6 DEF Unsubscribed
  <2>a. Flags(live)
    BY <1>a, SetTyped, Zenon DEF TypeInv, OwnerTyped
  <2> HIDE DEF live
  <2>3. IsOwner(fields) /\ fields.at = "live"
    BY <2>1, SetUnsubscribed, Zenon
  <2>4. Flags(fields)
    BY <2>1, <2>a, SetTyped, Zenon
  <2> HIDE DEF fields
  <2>5. OwnerTyped(fields)
    BY <1>c, <2>3, <2>4 DEF OwnerTyped
  <2> QED
    BY <1>b, <2>2, <2>3, <2>5, CloseTyped
<1>7. CASE Destructor
  <2>1. CASE DestroySubscriber \/ DestroyHandle \/ DestroySink
    <3>1. {"~response", "~client", "gone"} \subseteq Points
      BY <1>c DEF Dying
    <3> QED
      BY <1>a, <1>b, <2>1, <3>1, CloseAndGoToTyped DEF DestroySubscriber, DestroyHandle, DestroySink
  <2>2. CASE DestroyClient
    <3> DEFINE fields == [owner EXCEPT !.at = "~update"]
    <3>1. "~update" \in Points /\ (owner.client \in pending => owner.client # 0) /\ owner.wait = {}
      BY <1>c, <2>2 DEF Dying, DestroyClient, At, LeftInv, PendingInv, Requests
    <3>2. Flags(fields)
      BY <1>a, SetTyped, Zenon DEF TypeInv, OwnerTyped
    <3>3. IsOwner(fields) /\ fields.at = "~update" /\ fields.wait = owner.wait
      BY <1>a DEF IsOwner
    <3>4. Scrub(fields)
      BY <2>2 DEF DestroyClient
    <3> HIDE DEF fields
    <3> QED
      BY <1>b, <3>1, <3>2, <3>3, <3>4, ScrubTyped DEF OwnerTyped
  <2>3. CASE DestroyRest
    BY <2>3 DEF DestroyRest, TypeInv, OwnerTyped, Flags
  <2>4. CASE Destroy \/ DestroyResponse \/ DestroyUpdate
    <3>1. PICK point \in Points : GoTo(point) /\ owner.wait = {}
      BY <1>c, <2>4 DEF Destroy, DestroyResponse, DestroyUpdate, At, Dying
    <3> QED
      BY <1>a, <3>1, GoToTyped
  <2> QED
    BY <1>7, <2>1, <2>2, <2>3, <2>4 DEF Destructor
<1> QED
  BY <1>1, <1>2, <1>3, <1>4, <1>5, <1>6, <1>7 DEF OwnerStep

\* The flags and the members destroyed keep their types.
LEMMA FlagsKeepTypes ==
  ASSUME TypeInv, Next
  PROVE  /\ once' \in [Requests -> {"unset", "running", "done"}]
         /\ destroyed' \subseteq {"response", "update", "topic"}
<1> DEFINE Kept ==
              \/ once' = once
              \/ \E r, v : v \in {"unset", "running", "done"} /\ once' = [once EXCEPT ![r] = v]
<1>a. Kept => once' \in [Requests -> {"unset", "running", "done"}]
  BY DEF TypeInv
<1>b. destroyed \subseteq {"response", "update", "topic"}
  BY DEF TypeInv
<1> USE DEF calls, ownerVars
<1>1. CASE Drained \/ Create \/ Unsubscribe \/ Cancel \/ Unsubscribed
  <2>1. Kept /\ destroyed' = destroyed
    BY <1>1
    DEF Drained, Create, Unsubscribe, Cancel, Unsubscribed, SinkThrows, SinkRegister,
        SinkConnected, SinkFails, ClientThrows, NewClient, SubscriberThrows,
        SubscriberRegister, SubscriberConnected, SubscriberFails
  <2> QED
    BY <1>a, <1>b, <2>1
<1>2. CASE InvokeMethod
  <2>1. Kept /\ destroyed' = destroyed
    BY <1>2
    DEF InvokeMethod, CallRegister, CallRegisterFails, CallSend, CallSent, CallSendFails,
        CallThrows, CallUnwind, CallAssign
  <2> QED
    BY <1>a, <1>b, <2>1
<1>3. CASE Destructor
  <2>1. /\ once' = once
        /\ \/ destroyed' = destroyed
           \/ \E m \in {"response", "update", "topic"} : destroyed' = destroyed \union {m}
    BY <1>3
    DEF Destructor, Destroy, DestroySubscriber, DestroyResponse, DestroyHandle, DestroyClient,
        DestroyUpdate, DestroySink, DestroyRest
  <2>2. Kept
    BY <2>1
  <2> HIDE DEF Kept
  <2> QED
    BY <1>a, <1>b, <2>1, <2>2
<1>4. CASE Callback
  <2>1. Kept /\ destroyed' = destroyed
    BY <1>4
    DEF Callback, Deliver, Answer, UpdateReturns, MessageReturns, CallOnce, ResponseReturns,
        WorkerTake, WorkerDrained
  <2> QED
    BY <1>a, <1>b, <2>1
<1> QED
  BY <1>1, <1>2, <1>3, <1>4 DEF Next

LEMMA InitTypeInv == Init => TypeInv
<1> SUFFICES ASSUME Init PROVE TypeInv
  OBVIOUS
<1>1. Flags(owner)
  <2>1. PICK topic \in Topics, entity \in Entities, options \in Options, shared \in BOOLEAN :
           owner = [at |-> "none", wait |-> {}, client |-> NoRequest, handle |-> NoRequest,
                    unsubscribed |-> FALSE, topic |-> topic, entity |-> entity,
                    options |-> options, shared |-> shared]
    BY DEF Init
  <2>2. owner.unsubscribed = FALSE /\ owner.shared = shared
    BY <2>1, Zenon
  <2> QED
    BY <2>2, Zenon DEF Flags
<1>2. owner.at = "none" /\ owner.wait = {}
  BY DEF Init
<1> QED
  BY <1>1, <1>2 DEF Init, TypeInv, OwnerTyped, Points

LEMMA NextTypeInv == SilentInv /\ LeftInv /\ TypeInv /\ [Next]_vars => TypeInv'
<1> SUFFICES ASSUME SilentInv, LeftInv, TypeInv, [Next]_vars PROVE TypeInv'
  OBVIOUS
<1>1. CASE UNCHANGED vars
  BY <1>1 DEF vars, TypeInv, OwnerTyped, Flags
<1>2. CASE OwnerStep
  BY <1>2, OwnerKeepsTypes, FlagsKeepTypes DEF OwnerStep, Next, TypeInv
<1>3. CASE Callback
  <2>1. UNCHANGED owner
    BY <1>3
    DEF Callback, Deliver, Answer, UpdateReturns, MessageReturns, CallOnce, ResponseReturns,
        WorkerTake, WorkerDrained, ownerVars
  <2> QED
    BY <1>3, <2>1, FlagsKeepTypes DEF Next, TypeInv, OwnerTyped, Flags
<1> QED
  BY <1>1, <1>2, <1>3 DEF Next, OwnerStep

\* Every variable keeps its type; a period that is sent always fits 32 bits.
THEOREM TypeCorrect == Spec => []TypeOK
<1>1. SilentInv /\ DataInv /\ LeftInv /\ TypeInv => TypeOK
  <2> SUFFICES ASSUME SilentInv, DataInv, LeftInv, TypeInv PROVE TypeOK
    OBVIOUS
  <2>1. owner.wait \subseteq Gates /\ Cardinality(owner.wait) <= 1
    <3>1. Cardinality({}) = 0 /\ \A g : Cardinality({g}) = 1
      BY FS_EmptySet, FS_Singleton
    <3> QED
      BY <3>1 DEF TypeInv
  <2>2. owner.client \in 0..MaxRequests /\ owner.handle \in 0..owner.client
    BY DEF LeftInv, BoundInv
  <2>3. gate \in [Gates -> {"none", "open", "closing", "closed", "dropped"}]
    BY DEF SilentInv, ShapeInv, LeftInv, GateInv
  <2>4. pending \subseteq Requests
    BY DEF LeftInv, PendingInv
  <2>5. DOMAIN sent = Requests
    BY DEF DataInv, SentInv
  <2>6. ASSUME NEW r \in Requests, NEW q \in sent[r]
        PROVE  /\ q.topic \in Topics
               /\ \A a \in q.attributes : a.sample_period_ms \subseteq 0..(UInt32Size - 1)
    <3>1. q = RequestOf(r) /\ owner.topic \in Topics /\ owner.options.sample_period_ms \subseteq Int
      BY OptionsAssumption DEF DataInv, SentInv
    <3>2. \A period \in Int : period % UInt32Size \in 0..(UInt32Size - 1)
      BY RequestAssumption
    <3> QED
      BY <3>1, <3>2
      DEF RequestOf, BuildSubscriptionRequest, BuildUnSubscribeRequest, BuildSubscribeAttributes
  <2>7. stored \in [{"update", "response"} -> Contents]
    BY DEF DataInv, StoredInv
  <2>8. \A c \in Callers :
          /\ exec[c].at \in {"idle", "update", "message", "listener", "response", "drain", "expire"}
          /\ exec[c].in \subseteq Gates
    BY DEF DataInv, CallerInv
  <2>9. owner.at \in Points /\ owner.unsubscribed \in BOOLEAN /\ owner.shared \in BOOLEAN
    BY Zenon DEF TypeInv, OwnerTyped, Flags
  <2>a. \A q \in UNION {sent[r] : r \in Requests} :
          /\ q.topic \in Topics
          /\ \A a \in q.attributes : a.sample_period_ms \subseteq 0..(UInt32Size - 1)
    BY <2>6
  <2>b. /\ once \in [Requests -> {"unset", "running", "done"}]
        /\ destroyed \subseteq {"response", "update", "topic"}
    BY DEF TypeInv
  <2> QED
    BY <2>1, <2>2, <2>3, <2>4, <2>5, <2>7, <2>8, <2>9, <2>a, <2>b, Zenon DEF TypeOK, Points
<1> QED
  BY <1>1, InitSilentInv, NextSilentInv, InitDataInv, NextDataInv, InitLeftInv, NextLeftInv,
     InitTypeInv, NextTypeInv, PTL
  DEF Spec

-------------------------------------------------------------------------------
(* Who is inside on_response.                                              *)

Working(c) == exec[c].at \in {"listener", "response", "drain", "expire"}

\* Whoever works on a request does so after it was sent; on_response runs under
\* call_once, so for one caller at a time, who came through the response listener or
\* is the worker.
CallInv ==
    /\ \A c \in Callers : Working(c) => sent[exec[c].request] # {}
    /\ \A c \in Callers : exec[c].at = "response" => once[exec[c].request] = "running"
    /\ \A c, d \in Callers :
          exec[c].at = "response" /\ exec[d].at = "response"
             /\ exec[c].request = exec[d].request => c = d
    /\ \A c \in Callers : \A r \in 0..MaxRequests :
          Invoke(r) \in exec[c].in => exec[c].at = "response" /\ exec[c].request = r
    /\ \A c \in Callers : exec[c].at \in {"listener", "response"} =>
          c = Worker \/ Listen(exec[c].request) \in exec[c].in

\* Which requests have been sent
SendInv ==
    /\ \A r \in pending : sent[r] # {}
    /\ owner.at = "send" => sent[owner.client] # {}
    /\ \A r \in Requests :
          Fresh(r) \/ (r = owner.client /\ owner.at = "registered") => sent[r] = {}

Ending == Dying \union {"gone"}

\* A request whose listener scrub() dropped is cancelled next, which waits for a
\* running callback, except in the destructor.
DropInv ==
    \A r \in Requests : gate[Listen(r)] = "dropped" =>
        \/ once[r] = "done"
        \/ owner.at = "cancel" /\ r = owner.client - 1
        \/ owner.at \in Ending

RunInv == CallInv /\ SendInv /\ DropInv

\* Nothing has been sent before create().
LEMMA InitRunInv == Init => RunInv
<1> SUFFICES ASSUME Init PROVE RunInv
  OBVIOUS
<1>1. CallInv
  BY DEF Init, CallInv, Working, Idle
<1>2. SendInv
  BY DEF Init, SendInv
<1>3. DropInv
  BY GateNames DEF Init, DropInv
<1> QED
  BY <1>1, <1>2, <1>3 DEF RunInv

\* A step of the owner that makes no request and drops no listener
LEMMA QuietRun ==
  ASSUME RunInv, UNCHANGED <<exec, once, sent>>, pending' \subseteq pending,
         owner'.client = owner.client,
         owner'.at \notin {"send", "registered", "cancel", "invoke"}, owner.at # "cancel",
         owner.at \in Ending => owner'.at \in Ending,
         \A r \in Requests : gate'[Listen(r)] = "dropped" => gate[Listen(r)] = "dropped"
  PROVE  RunInv'
<1>1. CallInv'
  BY DEF RunInv, CallInv, Working
<1>2. SendInv'
  BY DEF RunInv, SendInv, Fresh
<1>3. DropInv'
  BY DEF RunInv, DropInv
<1> QED
  BY <1>1, <1>2, <1>3 DEF RunInv

LEMMA GoToRun ==
  ASSUME IsOwner(owner), RunInv, UNCHANGED exec, UNCHANGED calls, NEW point, GoTo(point),
         point \notin {"send", "registered", "cancel", "invoke"}, owner.at # "cancel",
         owner.at \in Ending => point \in Ending,
         \A r \in Requests : gate'[Listen(r)] = gate[Listen(r)]
  PROVE  RunInv'
<1>1. owner'.at = point /\ owner'.client = owner.client
  BY GoToMoves DEF Moves
<1> QED
  BY <1>1, QuietRun DEF calls

LEMMA CloseRun ==
  ASSUME IsOwner(owner), gate = [g \in Gates |-> gate[g]], RunInv,
         UNCHANGED exec, UNCHANGED calls, NEW k, NEW point, CloseAndGoTo(k, point),
         point \notin {"send", "registered", "cancel", "invoke"}, owner.at # "cancel",
         owner.at \in Ending => point \in Ending
  PROVE  RunInv'
<1>1. /\ owner'.at = point /\ owner'.client = owner.client
      /\ gate' = [gate EXCEPT ![k] = IF @ = "open" THEN "closing" ELSE @]
  BY CloseAndGoToMoves DEF Moves
<1>2. \A g \in Gates : gate'[g] = "dropped" => gate[g] = "dropped"
  BY <1>1
<1> QED
  BY <1>1, <1>2, GateNames, QuietRun DEF calls

\* The steps of create() keep RunInv.
LEMMA CreateRun == SilentInv /\ RunInv /\ Create => RunInv'
<1> SUFFICES ASSUME SilentInv, RunInv, Create PROVE RunInv'
  OBVIOUS
<1>a. IsOwner(owner) /\ gate = [g \in Gates |-> gate[g]] /\ ClientInv
  BY DEF SilentInv, ShapeInv
<1>b. owner.at \in {"none", "sink registered", "client", "subscriber", "subscribing"}
      /\ owner.at \notin Ending /\ owner.at # "cancel" /\ UNCHANGED exec /\ UNCHANGED calls
  BY DEF Create, SinkThrows, SinkRegister, SinkConnected, SinkFails, ClientThrows, NewClient,
     SubscriberThrows, SubscriberRegister, SubscriberConnected, SubscriberFails, At, threads,
     Ending, Dying
<1>1. CASE SinkFails \/ SubscriberFails
  BY <1>1, <1>a, <1>b, CloseRun DEF SinkFails, SubscriberFails
<1>2. CASE NewClient
  <2>1. owner'.at = "invoke" /\ owner'.client = 1 /\ owner.client = 0
        /\ UNCHANGED <<exec, gate, once, sent, pending>>
    BY <1>a, <1>2 DEF NewClient, At, IsOwner, ClientInv, ClientAt, threads, calls
  <2>2. CallInv'
    BY <2>1 DEF RunInv, CallInv, Working
  <2>3. SendInv'
    BY <2>1 DEF RunInv, SendInv, Fresh, Requests
  <2>4. DropInv'
    BY <1>b, <2>1 DEF RunInv, DropInv
  <2> QED
    BY <2>2, <2>3, <2>4 DEF RunInv
<1>3. CASE ~(SinkFails \/ SubscriberFails \/ NewClient)
  <2>1. PICK point \in {"~subscriber", "sink registered", "client", "subscribing", "live"} :
           GoTo(point) /\ (UNCHANGED gate \/ Open(Sink) \/ Open(Topic))
    BY <1>3
    DEF Create, SinkThrows, SinkRegister, SinkConnected, ClientThrows, SubscriberThrows,
        SubscriberRegister, SubscriberConnected
  <2>2. \A r \in Requests : gate'[Listen(r)] = gate[Listen(r)]
    BY <1>a, <2>1, GateNames DEF Open
  <2> QED
    BY <1>a, <1>b, <2>1, <2>2, GoToRun
<1> QED
  BY <1>1, <1>2, <1>3

\* The steps of invokeMethod() keep RunInv: nobody works on a request before it is
\* sent.
LEMMA InvokeRun == SilentInv /\ DataInv /\ LeftInv /\ TypeInv /\ RunInv /\ InvokeMethod => RunInv'
<1> SUFFICES ASSUME SilentInv, DataInv, LeftInv, TypeInv, RunInv, InvokeMethod PROVE RunInv'
  OBVIOUS
<1> DEFINE r0 == owner.client
<1>a. IsOwner(owner) /\ gate = [g \in Gates |-> gate[g]] /\ ClientInv
  BY DEF SilentInv, ShapeInv
<1>b. owner.at \in {"invoke", "registered", "send", "unwind", "assign"}
      /\ owner.at \notin Ending /\ owner.at # "cancel" /\ UNCHANGED exec
  BY DEF InvokeMethod, CallRegister, CallRegisterFails, CallSend, CallSent, CallSendFails,
     CallThrows, CallUnwind, CallAssign, At, threads, Ending, Dying
<1>c. /\ \A r \in Requests : gate[Listen(r)] = "dropped" => once[r] = "done"
      /\ \A c \in Callers : Working(c) => exec[c].request \in Requests
  BY <1>b DEF RunInv, DropInv, DataInv, CallerInv, Working
<1>1. CASE CallRegister
  <2>1. owner'.at = "registered" /\ owner'.client = r0 /\ UNCHANGED <<once, sent, pending>>
    BY <1>a, <1>1, GoToMoves DEF CallRegister, Moves, calls
  <2>2. \A r \in Requests : gate'[Listen(r)] = "dropped" => gate[Listen(r)] = "dropped"
    BY <1>a, <1>1, GateNames DEF CallRegister
  <2>3. CallInv' /\ DropInv'
    BY <1>b, <1>c, <2>1, <2>2 DEF RunInv, CallInv, Working, DropInv
  <2>4. SendInv'
    BY <1>1, <2>1 DEF CallRegister, At, RunInv, SendInv, Fresh
  <2> QED
    BY <2>3, <2>4 DEF RunInv
<1>2. CASE CallRegisterFails \/ CallSendFails
  <2>1. /\ owner'.at = "assign" /\ owner'.client = r0 /\ UNCHANGED <<sent, pending>>
        /\ gate' = [gate EXCEPT ![Listen(r0)] = IF @ = "open" THEN "closing" ELSE @]
        /\ once' = [once EXCEPT ![r0] = "done"]
    BY <1>a, <1>2, CloseAndGoToMoves DEF CallRegisterFails, CallSendFails, Moves
  <2>2. ASSUME NEW c \in Callers, exec[c].at = "response" PROVE exec[c].request # r0
    <3>1. CASE CallRegisterFails
      <4>1. r0 \in Requests /\ owner.at = "registered"
        BY <1>a, <3>1, ClientMade DEF CallRegisterFails, At, LeftInv
      <4>2. sent[r0] = {}
        BY <4>1 DEF RunInv, SendInv
      <4> QED
        BY <2>2, <4>2 DEF RunInv, CallInv, Working
    <3>2. CASE CallSendFails
      BY <2>2, <3>2 DEF CallSendFails, RunInv, CallInv
    <3> QED
      BY <1>2, <3>1, <3>2
  <2>3. /\ \A r \in Requests : once'[r] = IF r = r0 THEN "done" ELSE once[r]
        /\ \A r \in Requests : gate'[Listen(r)] = "dropped" => gate[Listen(r)] = "dropped"
    BY <1>a, <2>1, GateNames DEF TypeInv
  <2>4. CallInv'
    <3>1. ASSUME NEW c \in Callers, exec[c].at = "response"
          PROVE  once'[exec[c].request] = "running"
      BY <1>c, <2>2, <2>3, <3>1 DEF RunInv, CallInv, Working
    <3> QED
      BY <1>b, <2>1, <3>1 DEF RunInv, CallInv, Working
  <2>5. SendInv'
    BY <2>1 DEF RunInv, SendInv, Fresh
  <2>6. DropInv'
    BY <1>c, <2>3 DEF DropInv
  <2> QED
    BY <2>4, <2>5, <2>6 DEF RunInv
<1>3. CASE CallSend
  <2>1. /\ owner'.at = "send" /\ owner'.client = r0 /\ UNCHANGED <<once, pending, gate>>
        /\ sent' = [sent EXCEPT ![r0] = {Request}]
    BY <1>a, <1>3, GoToMoves DEF CallSend, Moves
  <2>2. r0 \in Requests
    BY <1>a, <1>3, ClientMade DEF CallSend, At, LeftInv
  <2>3. \A r \in Requests : sent'[r] = IF r = r0 THEN {Request} ELSE sent[r]
    BY <2>1 DEF DataInv, SentInv
  <2>4. CallInv'
    <3>1. ASSUME NEW c \in Callers, Working(c) PROVE sent'[exec[c].request] # {}
      BY <1>c, <2>3, <3>1 DEF RunInv, CallInv
    <3> QED
      BY <1>b, <2>1, <3>1 DEF RunInv, CallInv, Working
  <2>5. SendInv'
    <3>1. pending \subseteq Requests /\ r0 \in Nat
      BY <1>a DEF LeftInv, PendingInv, ClientInv
    <3> QED
      BY <2>1, <2>2, <2>3, <3>1 DEF RunInv, SendInv, Fresh, Requests
  <2>6. DropInv'
    BY <1>c, <2>1 DEF DropInv
  <2> QED
    BY <2>4, <2>5, <2>6 DEF RunInv
<1>4. CASE CallSent
  <2>1. /\ owner'.at = "assign" /\ owner'.client = r0 /\ UNCHANGED <<once, sent, gate>>
        /\ pending' = pending \union {r0} /\ owner.at = "send"
    BY <1>a, <1>4, GoToMoves DEF CallSent, Moves, At
  <2>2. CallInv' /\ DropInv'
    BY <1>b, <1>c, <2>1 DEF RunInv, CallInv, Working, DropInv
  <2>3. SendInv'
    BY <2>1 DEF RunInv, SendInv, Fresh
  <2> QED
    BY <2>2, <2>3 DEF RunInv
<1>5. CASE CallThrows \/ CallUnwind
  BY <1>5, <1>a, <1>b, CloseRun DEF CallThrows, CallUnwind
<1>6. CASE CallAssign
  <2>1. owner'.at \in {"subscriber", "reset"} /\ owner'.client = owner.client
        /\ UNCHANGED <<once, sent, pending>>
    BY <1>a, <1>6 DEF CallAssign, IsOwner, calls
  <2>2. \A r \in Requests : gate'[Listen(r)] = gate[Listen(r)]
    BY <1>a, <1>6, GateNames DEF CallAssign
  <2> QED
    BY <1>b, <2>1, <2>2, QuietRun
<1> QED
  BY <1>1, <1>2, <1>3, <1>4, <1>5, <1>6 DEF InvokeMethod

\* So do those of the destructor,
LEMMA DestructorRun == SilentInv /\ RunInv /\ Destructor => RunInv'
<1> SUFFICES ASSUME SilentInv, RunInv, Destructor PROVE RunInv'
  OBVIOUS
<1>a. IsOwner(owner) /\ gate = [g \in Gates |-> gate[g]]
  BY DEF SilentInv, ShapeInv
<1>b. owner.at \in {"live"} \union Ending /\ owner.at # "cancel" /\ UNCHANGED exec
  BY DEF Destructor, Destroy, DestroySubscriber, DestroyResponse, DestroyHandle, DestroyClient,
     DestroyUpdate, DestroySink, DestroyRest, At, threads, Ending, Dying
<1>c. \A point \in Ending : point \notin {"send", "registered", "cancel", "invoke"}
  BY DEF Ending, Dying
<1>1. CASE Destroy \/ DestroyResponse \/ DestroyUpdate
  <2>1. PICK point \in Ending : GoTo(point) /\ UNCHANGED gate /\ UNCHANGED calls
    BY <1>1 DEF Destroy, DestroyResponse, DestroyUpdate, Ending, Dying
  <2> QED
    BY <1>a, <1>b, <1>c, <2>1, GoToRun
<1>2. CASE DestroySubscriber \/ DestroyHandle \/ DestroySink
  <2>1. PICK k, point : point \in Ending /\ CloseAndGoTo(k, point) /\ UNCHANGED calls
    BY <1>2 DEF DestroySubscriber, DestroyHandle, DestroySink, Ending, Dying
  <2> QED
    BY <1>a, <1>b, <1>c, <2>1, CloseRun
<1>3. CASE DestroyClient
  <2> DEFINE fields == [owner EXCEPT !.at = "~update"]
  <2>1. /\ IsOwner(fields) /\ fields.at = "~update" /\ fields.wait = owner.wait
        /\ fields.client = owner.client /\ fields.shared = owner.shared
    BY <1>a DEF IsOwner
  <2>2. Scrub(fields) /\ owner.wait = {} /\ UNCHANGED <<once, sent>>
    BY <1>3 DEF DestroyClient, At
  <2> HIDE DEF fields
  <2>3. owner'.at = "~update" /\ owner'.client = owner.client /\ pending' \subseteq pending
    BY <1>a, <2>1, <2>2, ScrubMoves DEF Moves, Scrub
  <2>4. CallInv'
    BY <1>b, <2>2 DEF RunInv, CallInv, Working
  <2>5. SendInv'
    BY <2>2, <2>3 DEF RunInv, SendInv, Fresh
  <2>6. DropInv'
    BY <2>3 DEF DropInv, Ending, Dying
  <2> QED
    BY <2>4, <2>5, <2>6 DEF RunInv
<1>4. CASE DestroyRest
  BY <1>4 DEF DestroyRest, calls, threads, RunInv, CallInv, Working, SendInv, Fresh, DropInv
<1> QED
  BY <1>1, <1>2, <1>3, <1>4 DEF Destructor

\* and those of unsubscribe().
LEMMA UnsubscribeRun ==
  SilentInv /\ DataInv /\ LeftInv /\ TypeInv /\ RunInv /\ (Unsubscribe \/ Cancel \/ Unsubscribed)
     => RunInv'
<1> SUFFICES ASSUME SilentInv, DataInv, LeftInv, TypeInv, RunInv,
                    Unsubscribe \/ Cancel \/ Unsubscribed
             PROVE  RunInv'
  OBVIOUS
<1>a. IsOwner(owner) /\ gate = [g \in Gates |-> gate[g]] /\ owner.client \in Nat
  BY DEF SilentInv, ShapeInv, ClientInv
<1>1. CASE Unsubscribe
  <2> DEFINE point  == IF owner.client \in pending THEN "cancel" ELSE "invoke"
             fields == [owner EXCEPT !.client = @ + 1, !.at = point]
  <2>1. /\ IsOwner(fields) /\ fields.at = point /\ fields.wait = owner.wait
        /\ fields.client = owner.client + 1 /\ fields.shared = owner.shared
    BY <1>a, Replaced
  <2>2. /\ Scrub(fields) /\ owner.wait = {} /\ owner.at = "live"
        /\ UNCHANGED <<exec, once, sent>>
    BY <1>1 DEF Unsubscribe, At, threads
  <2> HIDE DEF fields
  <2>3. owner'.at = point /\ owner'.client = owner.client + 1 /\ pending' \subseteq pending
    BY <1>a, <2>1, <2>2, ScrubMoves DEF Moves, Scrub
  <2>4. CallInv'
    BY <2>2 DEF RunInv, CallInv, Working
  <2>5. SendInv'
    BY <1>a, <2>2, <2>3 DEF RunInv, SendInv, Fresh, Requests
  <2>6. DropInv'
    <3>1. ASSUME NEW r \in Requests, gate'[Listen(r)] = "dropped", gate[Listen(r)] # "dropped"
          PROVE  r = owner.client /\ owner.client \in pending
      BY <1>a, <2>1, <2>2, <3>1, ScrubMoves, GateNames
    <3>2. ASSUME NEW r \in Requests, gate[Listen(r)] = "dropped" PROVE once[r] = "done"
      BY <2>2, <3>2 DEF RunInv, DropInv, Ending, Dying
    <3> QED
      BY <1>a, <2>2, <2>3, <3>1, <3>2 DEF DropInv
  <2> QED
    BY <2>4, <2>5, <2>6 DEF RunInv
<1>2. CASE Cancel
  <2> DEFINE r0 == owner.client - 1
  <2>1. /\ owner'.at = "invoke" /\ owner'.client = owner.client
        /\ UNCHANGED <<exec, gate, sent, pending>>
        /\ owner.at = "cancel" /\ once[r0] # "running" /\ once' = [once EXCEPT ![r0] = "done"]
    BY <1>a, <1>2, GoToMoves DEF Cancel, Moves, At, threads
  <2>2. \A r \in Requests : once'[r] = IF r = r0 THEN "done" ELSE once[r]
    BY <2>1 DEF TypeInv
  <2>3. CallInv'
    <3>1. ASSUME NEW c \in Callers, exec[c].at = "response"
          PROVE  once'[exec[c].request] = "running"
      <4>1. exec[c].request \in Requests /\ once[exec[c].request] = "running"
        BY <3>1 DEF RunInv, CallInv, DataInv, CallerInv
      <4> QED
        BY <2>1, <2>2, <4>1
    <3> QED
      BY <2>1, <3>1 DEF RunInv, CallInv, Working
  <2>4. SendInv'
    BY <2>1 DEF RunInv, SendInv, Fresh
  <2>5. DropInv'
    BY <2>1, <2>2 DEF RunInv, DropInv, Ending, Dying
  <2> QED
    BY <2>3, <2>4, <2>5 DEF RunInv
<1>3. CASE Unsubscribed
  <2> DEFINE live   == [owner EXCEPT !.at = "live"]
             fields == [live EXCEPT !.unsubscribed = TRUE]
  <2>1. IsOwner(live) /\ live.at = "live" /\ live.client = owner.client
        /\ live.shared = owner.shared
    BY <1>a DEF IsOwner
  <2>2. IsOwner(fields) /\ fields.at = "live" /\ fields.client = owner.client
        /\ fields.shared = owner.shared
    <3> HIDE DEF live
    <3> QED
      BY <2>1, SetUnsubscribed, Zenon
  <2>3. /\ Close(Topic, fields) /\ owner.at = "reset" /\ UNCHANGED exec
        /\ UNCHANGED <<once, sent, pending>>
    BY <1>3 DEF Unsubscribed, At, threads, calls
  <2> HIDE DEF fields
  <2>4. owner'.at = "live" /\ owner'.client = owner.client
    BY <1>a, <2>2, <2>3, CloseMoves DEF Moves
  <2>5. \A r \in Requests : gate'[Listen(r)] = gate[Listen(r)]
    BY <1>a, <2>3, GateNames DEF Close
  <2> QED
    BY <2>3, <2>4, <2>5, QuietRun DEF Ending, Dying
<1> QED
  BY <1>1, <1>2, <1>3

\* A step of caller c, whose state becomes x
LEMMA CallerRun ==
  ASSUME SilentInv, RunInv, NEW c \in Callers, NEW x, Run(c, x), UNCHANGED <<owner, sent>>,
         pending' \subseteq pending,
         \A r \in Requests : gate'[Listen(r)] = "dropped" => gate[Listen(r)] = "dropped",
         \A r \in Requests : once[r] = "done" => once'[r] = "done",
         \A d \in Callers \ {c} :
            exec[d].at = "response" => once'[exec[d].request] = "running",
         x.at \in {"listener", "response", "drain", "expire"} => sent[x.request] # {},
         x.at = "response" =>
            /\ once'[x.request] = "running"
            /\ \A d \in Callers \ {c} : exec[d].at = "response" => exec[d].request # x.request,
         \A r \in 0..MaxRequests : Invoke(r) \in x.in => x.at = "response" /\ x.request = r,
         x.at \in {"listener", "response"} => c = Worker \/ Listen(x.request) \in x.in
  PROVE  RunInv'
<1>1. exec'[c] = x /\ \A d \in Callers \ {c} : exec'[d] = exec[d]
  BY DEF Run, SilentInv, ShapeInv
<1>2. CallInv'
  BY <1>1 DEF RunInv, CallInv, Working
<1>3. SendInv' /\ DropInv'
  BY DEF RunInv, SendInv, Fresh, DropInv
<1> QED
  BY <1>2, <1>3 DEF RunInv

\* The callbacks, and the expire worker, keep RunInv.
LEMMA CallbackRun == SilentInv /\ DataInv /\ LeftInv /\ TypeInv /\ RunInv /\ Callback => RunInv'
<1> SUFFICES ASSUME SilentInv, DataInv, LeftInv, TypeInv, RunInv, Callback PROVE RunInv'
  OBVIOUS
<1> USE DEF Callers
<1>a. \A d \in Callers : exec[d].at = "response" => once[exec[d].request] = "running"
  BY DEF RunInv, CallInv
<1>b. ASSUME NEW c \in Callers, Run(c, Idle), UNCHANGED <<owner, sent, gate, pending>>,
             \A r \in Requests : once[r] = "done" => once'[r] = "done",
             \A d \in Callers \ {c} :
                exec[d].at = "response" => once'[exec[d].request] = "running"
      PROVE  RunInv'
  BY <1>b, CallerRun DEF Idle
<1>1. ASSUME NEW t \in Threads, NEW content, NEW g \in {Sink, Topic}, Deliver(t, g, content)
      PROVE  RunInv'
  <2> DEFINE x == [at |-> g[1], in |-> {g}, content |-> content]
  <2>1. Run(t, x) /\ UNCHANGED <<owner, sent, gate, once, pending>>
    BY <1>1 DEF Deliver, ownerVars, calls
  <2>2. x.at \in {"update", "message"} /\ \A r : Invoke(r) \notin x.in
    BY GateNames DEF Sink, Topic
  <2> HIDE DEF x
  <2> QED
    BY <1>a, <2>1, <2>2, CallerRun
<1>2. ASSUME NEW t \in Threads, NEW content, NEW r \in Requests, Answer(t, r, content)
      PROVE  RunInv'
  <2> DEFINE x == [at |-> "listener", in |-> {Listen(r)}, request |-> r, content |-> content]
  <2>1. Run(t, x) /\ UNCHANGED <<owner, sent, gate, once, pending>> /\ sent[r] # {}
    BY <1>2 DEF Answer, ownerVars, calls
  <2>2. /\ x.at = "listener" /\ x.request = r /\ Listen(x.request) \in x.in
        /\ \A q : Invoke(q) \notin x.in
    BY GateNames
  <2> HIDE DEF x
  <2> QED
    BY <1>a, <2>1, <2>2, CallerRun
<1>3. ASSUME NEW t \in Threads, UpdateReturns(t) \/ MessageReturns(t) PROVE RunInv'
  <2>1. Run(t, Idle) /\ UNCHANGED <<owner, sent, gate, once, pending>>
    BY <1>3 DEF UpdateReturns, MessageReturns, ownerVars, calls
  <2> QED
    BY <1>a, <1>b, <2>1
<1>4. ASSUME NEW c \in Callers, NEW point, CallOnce(c, point),
             point = "listener" \/ (point = "expire" /\ c = Worker)
      PROVE  RunInv'
  <2> DEFINE r      == exec[c].request
             called == [exec[c] EXCEPT !.at = "response"]
             inside == [called EXCEPT !.in = @ \union {Invoke(r)}]
  <2>1. /\ exec[c].at = point /\ once[r] # "running"
        /\ UNCHANGED <<owner, sent, gate, pending>>
        /\ \/ Run(c, inside) /\ once[r] = "unset" /\ once' = [once EXCEPT ![r] = "running"]
           \/ Run(c, Idle) /\ once' = [once EXCEPT ![r] = "done"]
    BY <1>4 DEF CallOnce, ownerVars
  <2>a. r \in Requests /\ {"at", "in", "request", "content"} \subseteq DOMAIN exec[c]
    BY <1>4, <2>1 DEF DataInv, CallerInv, SilentInv, ShapeInv
  <2>b. sent[r] # {} /\ (c = Worker \/ Listen(r) \in exec[c].in)
    BY <1>4, <2>1 DEF RunInv, CallInv, Working
  <2>2. r \in Requests /\ {"at", "in", "request", "content"} \subseteq DOMAIN exec[c]
        /\ sent[r] # {} /\ (c = Worker \/ Listen(r) \in exec[c].in)
    BY <2>a, <2>b
  <2>3. \A d \in Callers : exec[d].at = "response" => exec[d].request # r
    BY <1>a, <2>1
  <2>4. CASE Run(c, Idle) /\ once' = [once EXCEPT ![r] = "done"]
    <3>1. \A q \in Requests : once'[q] = IF q = r THEN "done" ELSE once[q]
      BY <2>4 DEF TypeInv
    <3>2. \A d \in Callers : exec[d].at = "response" => exec[d].request \in Requests
      BY DEF DataInv, CallerInv
    <3>3. \A d \in Callers : exec[d].at = "response" => once'[exec[d].request] = "running"
      BY <1>a, <2>3, <3>1, <3>2
    <3> QED
      BY <1>b, <2>1, <2>4, <3>1, <3>3
  <2>5. CASE Run(c, inside) /\ once[r] = "unset" /\ once' = [once EXCEPT ![r] = "running"]
    <3>1. \A q \in Requests : once'[q] = IF q = r THEN "running" ELSE once[q]
      BY <2>5 DEF TypeInv
    <3>2. \A d \in Callers : exec[d].at = "response" => exec[d].request \in Requests
      BY DEF DataInv, CallerInv
    <3>3. \A d \in Callers : exec[d].at = "response" => once'[exec[d].request] = "running"
      BY <1>a, <2>3, <3>1, <3>2
    <3>4. /\ called.in = exec[c].in /\ called.at = "response" /\ called.request = r
          /\ DOMAIN called = DOMAIN exec[c]
      BY <2>2
    <3>5. inside.in = exec[c].in \union {Invoke(r)} /\ inside.at = "response" /\ inside.request = r
      <4> HIDE DEF called
      <4> QED
        BY <2>2, <3>4
    <3>6. \A q \in 0..MaxRequests : Invoke(q) \notin exec[c].in
      BY <1>4, <2>1 DEF RunInv, CallInv
    <3> HIDE DEF inside, r
    <3>7. /\ \A q \in 0..MaxRequests : Invoke(q) \in inside.in => q = r
          /\ \A q \in Requests : once[q] = "done" => once'[q] = "done"
          /\ once'[r] = "running"
      BY <2>2, <2>5, <3>1, <3>5, <3>6, GateNames
    <3> QED
      BY <2>1, <2>2, <2>3, <2>5, <3>3, <3>5, <3>7, CallerRun
  <2> QED
    BY <2>1, <2>4, <2>5
<1>5. ASSUME NEW c \in Callers, ResponseReturns(c) PROVE RunInv'
  <2> DEFINE r == exec[c].request
  <2>1. /\ exec[c].at = "response" /\ Run(c, Idle)
        /\ UNCHANGED <<owner, sent, gate, pending>> /\ once' = [once EXCEPT ![r] = "done"]
    BY <1>5 DEF ResponseReturns, ownerVars
  <2>2. \A q \in Requests : once'[q] = IF q = r THEN "done" ELSE once[q]
    BY <2>1 DEF TypeInv
  <2>3. ASSUME NEW d \in Callers \ {c}, exec[d].at = "response"
        PROVE  once'[exec[d].request] = "running"
    <3>1. exec[d].request \in Requests /\ exec[d].request # r
      BY <2>1, <2>3 DEF RunInv, CallInv, DataInv, CallerInv
    <3> QED
      BY <1>a, <2>2, <2>3, <3>1
  <2> QED
    BY <1>b, <2>1, <2>2, <2>3
<1>6. ASSUME NEW r \in Requests, WorkerTake(r) PROVE RunInv'
  <2> DEFINE x == [at |-> "drain", in |-> {}, request |-> r, content |-> {}]
  <2>1. /\ Run(Worker, x) /\ UNCHANGED <<owner, sent, once>> /\ pending' \subseteq pending
        /\ r \in pending /\ gate' = [gate EXCEPT ![Listen(r)] = "closing"]
    BY <1>6 DEF WorkerTake
  <2>2. x.at = "drain" /\ x.request = r /\ x.in = {}
    OBVIOUS
  <2>3. sent[r] # {}
    BY <2>1 DEF RunInv, SendInv
  <2>4. \A q \in Requests : gate'[Listen(q)] = "dropped" => gate[Listen(q)] = "dropped"
    BY <2>1, GateNames DEF SilentInv, ShapeInv
  <2> HIDE DEF x
  <2> QED
    BY <1>a, <2>1, <2>2, <2>3, <2>4, CallerRun
<1>7. CASE WorkerDrained
  <2> DEFINE x == [exec[Worker] EXCEPT !.at = "expire"]
             r == exec[Worker].request
  <2>1. /\ Run(Worker, x) /\ UNCHANGED <<owner, sent, once, pending>>
        /\ exec[Worker].at = "drain" /\ gate' = [gate EXCEPT ![Listen(r)] = "closed"]
    BY <1>7 DEF WorkerDrained, calls
  <2>a. {"at", "in", "request"} \subseteq DOMAIN exec[Worker]
    BY <2>1 DEF DataInv, CallerInv, SilentInv, ShapeInv
  <2>b. sent[r] # {} /\ \A q \in 0..MaxRequests : Invoke(q) \notin exec[Worker].in
    BY <2>1 DEF RunInv, CallInv, Working
  <2>2. /\ {"at", "in", "request"} \subseteq DOMAIN exec[Worker]
        /\ sent[r] # {} /\ \A q \in 0..MaxRequests : Invoke(q) \notin exec[Worker].in
    BY <2>a, <2>b
  <2>3. x.at = "expire" /\ x.request = r /\ x.in = exec[Worker].in
    BY <2>2
  <2>4. \A q \in Requests : gate'[Listen(q)] = "dropped" => gate[Listen(q)] = "dropped"
    BY <2>1, GateNames DEF SilentInv, ShapeInv
  <2> HIDE DEF x, r
  <2> QED
    BY <1>a, <2>1, <2>2, <2>3, <2>4, CallerRun
<1> QED
  BY <1>1, <1>2, <1>3, <1>4, <1>5, <1>6, <1>7 DEF Callback

\* Every step keeps RunInv.
LEMMA NextRunInv ==
  SilentInv /\ DataInv /\ LeftInv /\ TypeInv /\ RunInv /\ [Next]_vars => RunInv'
<1> SUFFICES ASSUME SilentInv, DataInv, LeftInv, TypeInv, RunInv, [Next]_vars PROVE RunInv'
  OBVIOUS
<1>1. CASE UNCHANGED vars
  BY <1>1 DEF vars, RunInv, CallInv, Working, SendInv, Fresh, DropInv
<1>2. CASE Drained
  <2>1. PICK k \in owner.wait : gate' = [gate EXCEPT ![k] = "closed"]
    BY <1>2 DEF Drained
  <2>2. /\ owner'.at = owner.at /\ owner'.client = owner.client
        /\ UNCHANGED <<exec, once, sent, pending>>
    BY <1>2 DEF Drained, SilentInv, ShapeInv, IsOwner
  <2>3. \A r \in Requests : gate'[Listen(r)] = "dropped" => gate[Listen(r)] = "dropped"
    BY <2>1, GateNames DEF SilentInv, ShapeInv
  <2>4. CallInv'
    BY <2>2 DEF RunInv, CallInv, Working
  <2>5. SendInv' /\ DropInv'
    BY <2>2, <2>3 DEF RunInv, SendInv, Fresh, DropInv
  <2> QED
    BY <2>4, <2>5 DEF RunInv
<1> QED
  BY <1>1, <1>2, CreateRun, InvokeRun, DestructorRun, UnsubscribeRun, CallbackRun DEF Next

\* While the application is not inside a call, the listener of an earlier request
\* admits nobody, unless it was dropped with threads inside or the worker is removing
\* it, and its callback is not running, unless the worker is expiring it.
THEOREM Retired == Spec => []OldRequestRetired
<1>1. DataInv /\ LeftInv /\ RunInv /\ TypeInv => OldRequestRetired
  <2> SUFFICES ASSUME DataInv, LeftInv, RunInv, TypeInv, At("live") PROVE OldRequestRetired
    BY DEF OldRequestRetired
  <2>1. pending \subseteq {owner.client}
    BY DEF LeftInv, PendingInv
  <2>2. ASSUME NEW r \in Requests, r # owner.client, Admits(Listen(r))
        PROVE  Removing(r) \/ (owner.shared /\ gate[Listen(r)] = "dropped")
    <3>1. gate[Listen(r)] \in {"closing", "dropped"}
      BY <2>1, <2>2, GateNames DEF LeftInv, GateInv, OpenInv, Admits, At
    <3>2. CASE gate[Listen(r)] = "closing"
      BY <2>2, <3>2, GateNames DEF LeftInv, GateInv, ClosedBy, At, Removing
    <3>3. CASE gate[Listen(r)] = "dropped"
      BY <3>3 DEF LeftInv, OpenInv
    <3> QED
      BY <3>1, <3>2, <3>3
  <2>3. ASSUME NEW r \in Requests, r # owner.client, NEW c \in Inside(Invoke(r))
        PROVE  Expiring(r)
    <3>1. /\ c \in Callers /\ exec[c].at = "response" /\ exec[c].request = r
          /\ once[r] = "running"
      BY <2>3 DEF Inside, RunInv, CallInv, Requests
    <3>2. CASE c = Worker
      BY <3>1, <3>2 DEF Expiring
    <3>3. CASE c # Worker
      <4>1. Inside(Listen(r)) # {}
        BY <3>1, <3>3 DEF RunInv, CallInv, Inside
      <4>2. gate[Listen(r)] # "dropped"
        BY <3>1 DEF RunInv, DropInv, At, Ending, Dying
      <4>3. Removing(r)
        BY <2>2, <2>3, <4>1, <4>2 DEF Admits
      <4> QED
        BY <4>3 DEF Removing, Expiring
    <3> QED
      BY <3>2, <3>3
  <2> QED
    BY <2>1, <2>2, <2>3 DEF OldRequestRetired
<1> QED
  BY <1>1, InitSilentInv, NextSilentInv, InitDataInv, NextDataInv, InitLeftInv, NextLeftInv,
     InitTypeInv, NextTypeInv, InitRunInv, NextRunInv, PTL
  DEF Spec

===============================================================================
