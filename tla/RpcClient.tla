------------------------------- MODULE RpcClient -------------------------------
(***************************************************************************)
(* RpcClient::invokeMethod(), the RpcClient destructor and the one         *)
(* ExpireWorker that all clients of a process share                        *)
(* (src/communication/RpcClient.cpp).                                      *)
(*                                                                         *)
(* Every request has two callback connections: the user's callback, whose  *)
(* InvokeHandle the user holds, and the response listener registered with  *)
(* the transport, whose handle travels through the pending queue.  Both    *)
(* are represented by their gate (module CallbackGate, which               *)
(* CallbackConnection implements).  A std::once_flag per request decides   *)
(* which of the sources of an answer - the transport, the expire worker,   *)
(* the destructor of the client, a failing send - calls the callback.      *)
(*                                                                         *)
(* A step is what a thread does between two synchronisation points: taking *)
(* pending_mtx_, the once_flag, a gate, or a call into the transport.      *)
(***************************************************************************)
EXTENDS PendingHeap, FiniteSets

CONSTANTS
    Clients,            \* RpcClient instances, all using the same worker
    Requests,           \* calls of invokeMethod(), each made at most once
    ClientOf,           \* the client that a request is invoked on
    Nested,             \* Nested[r]: requests that r's callback may invoke
    Ttl,                \* ttl_ of a client
    Answers,            \* what responses may carry: see Results
    Released,           \* requests whose InvokeHandle the user gives up
    MayExit,            \* whether the process may exit
    Threads,            \* transport threads that deliver responses
    Worker,             \* the thread of the ExpireWorker
    Main,               \* the thread that runs the static destructors
    MaxTime             \* bound on the clock

ASSUME RequestsAssumption ==
    /\ ClientOf \in [Requests -> Clients]
    /\ Nested \in [Requests -> SUBSET Requests]
    /\ Released \in SUBSET Requests
    /\ MayExit \in BOOLEAN
ASSUME AnswersAssumption == Answers \subseteq {"message", "commstatus"}
ASSUME TimeAssumption ==
    /\ MaxTime \in Nat
    /\ Ttl \in [Clients -> Nat \ {0}]
ASSUME ThreadsAssumption ==
    /\ Worker # Main
    /\ {Worker, Main} \intersect (Threads \union Requests \union Clients) = {}
    /\ Threads \intersect (Requests \union Clients) = {}
    /\ Requests \intersect Clients = {}

VARIABLES
    now,                \* the steady clock
    invocation,         \* where the caller of invokeMethod() is
    deadline,           \* when_expire of a request
    wire,               \* the request was handed to the network
    callbackGate,       \* the user's callback connection
    listenerGate,       \* the response listener's connection
    once,               \* callback_once: "unset", "busy" or "done"
    exec,               \* the call of wrapper or expire a thread is in
    calls,              \* history: calls of the user's callback
    pending,            \* ExpireWorker::pending_
    worker,             \* [at, now, req, wake, notified] of doWork()
    client,             \* [at, expire, sever] of ~RpcClient()
    exit                \* [at, expire, sever] of ~ExpireWorker()

requestVars == <<invocation, deadline, wire, callbackGate>>
callVars    == <<once, exec, calls>>
vars == <<now, requestVars, listenerGate, callVars, pending, worker, client, exit>>

Executors == Threads \union Requests \union Clients \union {Worker, Main}

\* What the callback is called with.
Results == {"message", "commstatus", "error", "deadline", "cancelled", "internal"}

Idle == [at |-> "idle"]
Call(r, result) == [at |-> "once", req |-> r, result |-> result]

Never == -1             \* the wake time of a wait without a time limit

Tasks == [at : {"alive", "locking", "severing", "expiring", "dead"},
          expire : Seq(Requests), sever : Seq(Requests)]
Exits == [at : {"running", "notifying", "joining", "expiring", "severing", "gone"},
          expire : Seq(Requests), sever : Seq(Requests)]

TypeOK ==
    /\ now \in 0..MaxTime
    /\ invocation \in [Requests -> {"idle", "register", "send", "sent", "enqueue",
                                    "expiring", "closing", "unwinding", "done", "thrown"}]
    /\ deadline \in [Requests -> 0..MaxTime]
    /\ wire \in [Requests -> BOOLEAN]
    /\ callbackGate \in [Requests -> {"none", "open", "closing", "closed"}]
    /\ listenerGate \in [Requests -> {"none", "open", "closing", "closed", "dropped"}]
    /\ once \in [Requests -> {"unset", "busy", "done"}]
    /\ exec \in [Executors -> {Idle} \union
                    [at : {"once", "call", "callback"}, req : Requests, result : Results]]
    /\ calls \in [Requests -> Nat]
    /\ pending \in Seq([req : Requests, when : 0..MaxTime, instance : Clients])
    /\ worker.at \in {"loop", "take", "sever", "expire", "inspect", "wait", "exited"}
    /\ worker.now \in 0..MaxTime /\ worker.wake \in 0..MaxTime \union {Never}
    /\ worker.notified \in BOOLEAN
    /\ client \in [Clients -> Tasks]
    /\ exit \in Exits

Init ==
    /\ now = 0
    /\ invocation = [r \in Requests |-> "idle"]
    /\ deadline = [r \in Requests |-> 0]
    /\ wire = [r \in Requests |-> FALSE]
    /\ callbackGate = [r \in Requests |-> "none"]
    /\ listenerGate = [r \in Requests |-> "none"]
    /\ once = [r \in Requests |-> "unset"]
    /\ exec = [e \in Executors |-> Idle]
    /\ calls = [r \in Requests |-> 0]
    /\ pending = <<>>
    /\ worker = [at |-> "loop", now |-> 0, req |-> {}, wake |-> Never,
                 notified |-> FALSE]
    /\ client = [k \in Clients |-> [at |-> "alive", expire |-> <<>>, sever |-> <<>>]]
    /\ exit = [at |-> "running", expire |-> <<>>, sever |-> <<>>]

-------------------------------------------------------------------------------
\* stop_, set at the beginning of the worker's destructor.
Stopped == exit.at # "running"

\* pending_mtx_ is held across steps only by scrub(), while the listeners it
\* erased are severed.
MutexFree == \A k \in Clients : client[k].at # "severing"

In(r, location) ==
    {e \in Executors : exec[e].at = location /\ exec[e].req = r}

\* The transport threads that are inside the response listener of r.
Inside(r) == {t \in Threads : exec[t].at # "idle" /\ exec[t].req = r}

\* A gate admits a caller while it is open, or somebody else is inside.
Admits(gate, inside) ==
    gate = "open" \/ (gate \in {"closing", "dropped"} /\ inside # {})

\* wake_worker_.notify_one(): the worker is its only waiter.
Notify == worker' = [worker EXCEPT !.notified = (worker.at = "wait")]

\* The callback of a request may only invoke another while it is running.
MayInvoke(r) ==
    \A s \in Requests : r \in Nested[s] => In(s, "callback") # {}

\* invokeMethod() was not called yet, or has returned or thrown.
Outside(r) == invocation[r] \in {"idle", "done", "thrown"}

ReqsOf(q) == [i \in 1..Len(q) |-> q[i].req]

(***************************************************************************)
(* RpcClient::invokeMethod()                                               *)
(***************************************************************************)
Step(r, from, to) ==
    /\ invocation[r] = from
    /\ invocation' = [invocation EXCEPT ![r] = to]

\* The deadline is fixed and the callback connected.
Invoke(r) ==
    /\ Step(r, "idle", "register")
    /\ client[ClientOf[r]].at = "alive"
    /\ ~Stopped
    /\ MayInvoke(r)
    /\ now + Ttl[ClientOf[r]] <= MaxTime
    /\ deadline' = [deadline EXCEPT ![r] = now + Ttl[ClientOf[r]]]
    /\ callbackGate' = [callbackGate EXCEPT ![r] = "open"]
    /\ UNCHANGED <<now, wire, listenerGate, callVars, pending, worker, client, exit>>

RegisterListener(r) ==
    /\ Step(r, "register", "send")
    /\ listenerGate' = [listenerGate EXCEPT ![r] = "open"]
    /\ UNCHANGED <<now, deadline, wire, callbackGate, callVars, pending, worker,
                   client, exit>>

\* The transport passes the request on before send() has returned: the
\* response may be there first.
Transmit(r) ==
    /\ Step(r, "send", "sent")
    /\ wire' = [wire EXCEPT ![r] = TRUE]
    /\ UNCHANGED <<now, deadline, callbackGate, listenerGate, callVars, pending,
                   worker, client, exit>>

SendSucceeds(r) ==
    /\ Step(r, "sent", "enqueue")
    /\ UNCHANGED <<now, deadline, wire, callbackGate, listenerGate, callVars,
                   pending, worker, client, exit>>

\* Faulty variant: a send() that succeeded is treated as the failure.
FailWithOk(r) ==
    /\ \E location \in {"register", "send", "sent"} : Step(r, location, "expiring")
    /\ exec' = [exec EXCEPT ![r] = Call(r, "ok")]
    /\ UNCHANGED <<now, deadline, wire, callbackGate, listenerGate, once, calls,
                   pending, worker, client, exit>>

\* registerListener() or send() reports an error, which goes to expire().
Fail(r) ==
    /\ \E location \in {"register", "send", "sent"} : Step(r, location, "expiring")
    /\ exec' = [exec EXCEPT ![r] = Call(r, "error")]
    /\ UNCHANGED <<now, deadline, wire, callbackGate, listenerGate, once, calls,
                   pending, worker, client, exit>>

\* Faulty variant: the handle is kept when the request could not be sent.
BeginReleaseKept(r) ==
    /\ exec[r] = Idle
    /\ Step(r, "expiring", "done")
    /\ UNCHANGED <<now, deadline, wire, callbackGate, listenerGate, callVars, pending,
                   worker, client, exit>>

\* expire() has returned; maybe_handle, if it has a value, is destroyed.
BeginRelease(r) ==
    /\ exec[r] = Idle
    /\ Step(r, "expiring", IF listenerGate[r] = "open" THEN "closing" ELSE "done")
    /\ listenerGate' = [listenerGate EXCEPT ![r] = IF @ = "open" THEN "closing" ELSE @]
    /\ UNCHANGED <<now, deadline, wire, callbackGate, callVars, pending, worker,
                   client, exit>>

EndRelease(r) ==
    /\ Inside(r) = {}
    /\ Step(r, "closing", "done")
    /\ listenerGate' = [listenerGate EXCEPT ![r] = "closed"]
    /\ UNCHANGED <<now, deadline, wire, callbackGate, callVars, pending, worker,
                   client, exit>>

\* Faulty variant: an exception of send() does not destroy the handle.
ThrowKept(r) ==
    /\ \E location \in {"register", "send"} : Step(r, location, "unwinding")
    /\ UNCHANGED <<now, deadline, wire, callbackGate, listenerGate, callVars, pending,
                   worker, client, exit>>

\* registerListener() or send() throws, because a filter or the request is invalid
\* or the request has expired: maybe_handle, if there is one, is destroyed, ...
Throw(r) ==
    /\ \E location \in {"register", "send"} : Step(r, location, "unwinding")
    /\ listenerGate' = [listenerGate EXCEPT ![r] = IF @ = "open" THEN "closing" ELSE @]
    /\ UNCHANGED <<now, deadline, wire, callbackGate, callVars, pending, worker,
                   client, exit>>

\* ... then callback_handle, and the exception leaves invokeMethod().
Unwind(r) ==
    /\ Inside(r) = {} /\ In(r, "callback") = {}
    /\ Step(r, "unwinding", "thrown")
    /\ listenerGate' = [listenerGate EXCEPT ![r] = IF @ = "closing" THEN "closed" ELSE @]
    /\ callbackGate' = [callbackGate EXCEPT ![r] = "closed"]
    /\ UNCHANGED <<now, deadline, wire, callVars, pending, worker, client, exit>>

\* ExpireService::enqueue() and ExpireWorker::enqueue(); invokeMethod returns.
Enqueue(r) ==
    /\ MutexFree
    /\ Step(r, "enqueue", "done")
    /\ pending' = Emplace(pending, [req |-> r, when |-> deadline[r],
                                    instance |-> ClientOf[r]])
    /\ Notify
    /\ UNCHANGED <<now, deadline, wire, callbackGate, listenerGate, callVars,
                   client, exit>>

\* The user resets or destroys the InvokeHandle, from outside the callback.
BeginHandleReset(r) ==
    /\ r \in Released
    /\ invocation[r] = "done"
    /\ callbackGate[r] = "open"
    /\ callbackGate' = [callbackGate EXCEPT ![r] = "closing"]
    /\ UNCHANGED <<now, invocation, deadline, wire, listenerGate, callVars, pending,
                   worker, client, exit>>

EndHandleReset(r) ==
    /\ callbackGate[r] = "closing"
    /\ In(r, "callback") = {}
    /\ callbackGate' = [callbackGate EXCEPT ![r] = "closed"]
    /\ UNCHANGED <<now, invocation, deadline, wire, listenerGate, callVars, pending,
                   worker, client, exit>>

(***************************************************************************)
(* The transport and the two lambdas of invokeMethod().                    *)
(***************************************************************************)
\* Faulty variant: the listener takes any response.
MatchesAny(r, s) == TRUE

\* The listener's check of the reqid attribute; other messages are ignored.
Matches(r, s) == s = r

\* A response to s, once sent, reaches the listener of r, even that of another
\* client on the same transport: zero, one or many times, with any commstatus.
Deliver(t, r, s, result) ==
    /\ exec[t] = Idle
    /\ wire[s]
    /\ Admits(listenerGate[r], Inside(r))
    /\ Matches(r, s)
    /\ exec' = [exec EXCEPT ![t] = Call(r, result)]
    /\ UNCHANGED <<now, requestVars, listenerGate, once, calls, pending, worker,
                   client, exit>>

\* Faulty variant: a flag that is tested first and set afterwards.
TakeOnceRacy(e) ==
    /\ exec[e].at = "once"
    /\ once[exec[e].req] = "unset"
    /\ exec' = [exec EXCEPT ![e].at = "call"]
    /\ UNCHANGED <<now, requestVars, listenerGate, once, calls, pending, worker, client,
                   exit>>

\* std::call_once: the first to arrive goes on, ...
TakeOnce(e) ==
    /\ exec[e].at = "once"
    /\ once[exec[e].req] = "unset"
    /\ once' = [once EXCEPT ![exec[e].req] = "busy"]
    /\ exec' = [exec EXCEPT ![e].at = "call"]
    /\ UNCHANGED <<now, requestVars, listenerGate, calls, pending, worker, client, exit>>

\* ... the others wait for it to finish, and return.
SkipOnce(e) ==
    /\ exec[e].at = "once"
    /\ once[exec[e].req] = "done"
    /\ exec' = [exec EXCEPT ![e] = Idle]
    /\ UNCHANGED <<now, requestVars, listenerGate, once, calls, pending, worker,
                   client, exit>>

EnterCallback(e) ==
    /\ exec[e].at = "call"
    /\ Admits(callbackGate[exec[e].req], In(exec[e].req, "callback"))
    /\ exec' = [exec EXCEPT ![e].at = "callback"]
    /\ calls' = [calls EXCEPT ![exec[e].req] = @ + 1]
    /\ UNCHANGED <<now, requestVars, listenerGate, once, pending, worker, client, exit>>


Finish(e) ==
    /\ once' = [once EXCEPT ![exec[e].req] = "done"]
    /\ exec' = [exec EXCEPT ![e] = Idle]
    /\ UNCHANGED <<now, requestVars, listenerGate, calls, pending, worker, client, exit>>

\* The user has given the handle up: callable() does nothing.
SkipCallback(e) ==
    /\ exec[e].at = "call"
    /\ ~Admits(callbackGate[exec[e].req], In(exec[e].req, "callback"))
    /\ Finish(e)

\* The user's callback returns, and so does every invokeMethod() in it.
ReturnCallback(e) ==
    /\ exec[e].at = "callback"
    /\ \A s \in Nested[exec[e].req] : Outside(s)
    /\ Finish(e)

(***************************************************************************)
(* ExpireWorker::doWork()                                                  *)
(***************************************************************************)
\* The loop condition, and the clock read before the lock is taken.
WorkerLoop ==
    /\ worker.at = "loop"
    /\ worker' = IF Stopped THEN [worker EXCEPT !.at = "exited"]
                 ELSE [worker EXCEPT !.at = "take", !.now = now]
    /\ UNCHANGED <<now, requestVars, listenerGate, callVars, pending, client, exit>>

\* Faulty variant: the queue is popped outside of the test.
WorkerTakePopsAlways ==
    /\ worker.at = "take"
    /\ MutexFree
    /\ IF pending # <<>> /\ pending[1].when <= worker.now
       THEN worker' = [worker EXCEPT !.at = "sever", !.now = 0, !.req = {pending[1].req}]
       ELSE worker' = [worker EXCEPT !.at = "inspect", !.now = 0]
    /\ pending' = IF pending = <<>> THEN <<>> ELSE Pop(pending)
    /\ UNCHANGED <<now, requestVars, listenerGate, callVars, client, exit>>

\* The top is moved out if it has expired; its listener's handle is destroyed
\* after the lock has been released.
WorkerTake ==
    /\ worker.at = "take"
    /\ MutexFree
    /\ IF pending # <<>> /\ pending[1].when <= worker.now
       THEN /\ worker' = [worker EXCEPT !.at = "sever", !.now = 0,
                                          !.req = {pending[1].req}]
            /\ pending' = Pop(pending)
       ELSE /\ worker' = [worker EXCEPT !.at = "inspect", !.now = 0]
            /\ UNCHANGED pending
    /\ UNCHANGED <<now, requestVars, listenerGate, callVars, client, exit>>

WorkerBeginSever(r) ==
    /\ worker.at = "sever"
    /\ worker.req = {r}
    /\ listenerGate[r] = "open"
    /\ listenerGate' = [listenerGate EXCEPT ![r] = "closing"]
    /\ UNCHANGED <<now, requestVars, callVars, pending, worker, client, exit>>

\* The listener is severed, then the request is reported as expired.
WorkerEndSever(r) ==
    /\ worker.at = "sever"
    /\ worker.req = {r}
    /\ listenerGate[r] = "closing"
    /\ Inside(r) = {}
    /\ worker' = [worker EXCEPT !.at = "expire"]
    /\ listenerGate' = [listenerGate EXCEPT ![r] = "closed"]
    /\ exec' = [exec EXCEPT ![Worker] = Call(r, "deadline")]
    /\ UNCHANGED <<now, requestVars, once, calls, pending, client, exit>>

WorkerExpired ==
    /\ worker.at = "expire"
    /\ exec[Worker] = Idle
    /\ worker' = [worker EXCEPT !.at = "loop", !.req = {}]
    /\ UNCHANGED <<now, requestVars, listenerGate, callVars, pending, client, exit>>

\* Faulty variant: a new top does not end the wait.
ShouldWakeOnTime(wake) ==
    \/ Stopped
    \/ wake = Never /\ pending # <<>>
    \/ wake # Never /\ (pending = <<>> \/ now >= wake)

\* The predicates of wait() and wait_until().
ShouldWake(wake) ==
    \/ Stopped
    \/ wake = Never /\ pending # <<>>
    \/ wake # Never /\ (pending = <<>> \/ pending[1].when # wake \/ now >= wake)

\* Nothing had expired: the queue is looked at again under a new lock.
WorkerInspect ==
    /\ worker.at = "inspect"
    /\ MutexFree
    /\ LET wake == IF pending = <<>> THEN Never ELSE pending[1].when
       IN  worker' = IF ShouldWake(wake) THEN [worker EXCEPT !.at = "loop"]
                     ELSE [worker EXCEPT !.at = "wait", !.wake = wake]
    /\ UNCHANGED <<now, requestVars, listenerGate, callVars, pending, client, exit>>

\* Notified or timed out, the worker takes the lock and evaluates the
\* predicate.  (It does so after a spurious wakeup as well, to no effect.)
WorkerWake ==
    /\ worker.at = "wait"
    /\ MutexFree
    /\ worker.notified \/ (worker.wake # Never /\ now >= worker.wake)
    /\ worker' = IF ShouldWake(worker.wake)
                 THEN [worker EXCEPT !.at = "loop", !.wake = Never, !.notified = FALSE]
                 ELSE [worker EXCEPT !.notified = FALSE]
    /\ UNCHANGED <<now, requestVars, listenerGate, callVars, pending, client, exit>>

(***************************************************************************)
(* ~RpcClient(), that is ~ExpireService() and ExpireWorker::scrub().  The  *)
(* user does not destroy a client that is still in one of its invocations. *)
(***************************************************************************)
Destroy(k) ==
    /\ client[k].at = "alive"
    /\ ~Stopped
    /\ \A r \in Requests : ClientOf[r] = k => Outside(r)
    /\ client' = [client EXCEPT ![k].at = "locking"]
    /\ UNCHANGED <<now, requestVars, listenerGate, callVars, pending, worker, exit>>


\* With the lock held, the client's requests leave the queue: some listener
\* handles are assigned over, the others have to be severed.
ScrubQueue(k) ==
    /\ client[k].at = "locking"
    /\ MutexFree
    /\ pending' = Scrub(pending, k)
    /\ listenerGate' =
           [r \in Requests |->
               IF \E p \in Overwritten(pending, k) : p.req = r
               THEN "dropped" ELSE listenerGate[r]]
    /\ client' = [client EXCEPT ![k] =
           [at |-> "severing", expire |-> ReqsOf(AllExpired(pending, k)),
            sever |-> ReqsOf(Erased(pending, k))]]
    /\ UNCHANGED <<now, requestVars, callVars, worker, exit>>

\* erase() destroys one listener handle after the other.
BeginScrubSever(k) ==
    /\ client[k].at = "severing"
    /\ client[k].sever # <<>>
    /\ listenerGate[Head(client[k].sever)] = "open"
    /\ listenerGate' = [listenerGate EXCEPT ![Head(client[k].sever)] = "closing"]
    /\ UNCHANGED <<now, requestVars, callVars, pending, worker, client, exit>>

EndScrubSever(k) ==
    /\ client[k].at = "severing"
    /\ client[k].sever # <<>>
    /\ listenerGate[Head(client[k].sever)] = "closing"
    /\ Inside(Head(client[k].sever)) = {}
    /\ listenerGate' = [listenerGate EXCEPT ![Head(client[k].sever)] = "closed"]
    /\ client' = [client EXCEPT ![k].sever = Tail(@)]
    /\ UNCHANGED <<now, requestVars, callVars, pending, worker, exit>>

\* Faulty variant: scrub() forgets the lambdas it has collected.
ScrubUnlockOnly(k) ==
    /\ client[k].at = "severing"
    /\ client[k].sever = <<>>
    /\ Notify
    /\ client' = [client EXCEPT ![k] = [at |-> "dead", expire |-> <<>>, sever |-> <<>>]]
    /\ UNCHANGED <<now, requestVars, listenerGate, callVars, pending, exit>>

\* The worker is notified and the lock released.
ScrubUnlock(k) ==
    /\ client[k].at = "severing"
    /\ client[k].sever = <<>>
    /\ Notify
    /\ client' = [client EXCEPT ![k].at = "expiring"]
    /\ UNCHANGED <<now, requestVars, listenerGate, callVars, pending, exit>>

\* The collected expire lambdas are called in order.
ScrubExpire(k) ==
    /\ client[k].at = "expiring"
    /\ client[k].expire # <<>>
    /\ exec[k] = Idle
    /\ LET r == Head(client[k].expire)
       IN  exec' = [exec EXCEPT ![k] = Call(r, "cancelled")]
    /\ client' = [client EXCEPT ![k].expire = Tail(@)]
    /\ UNCHANGED <<now, requestVars, listenerGate, once, calls, pending, worker, exit>>

Destroyed(k) ==
    /\ client[k].at = "expiring"
    /\ client[k].expire = <<>>
    /\ exec[k] = Idle
    /\ client' = [client EXCEPT ![k].at = "dead"]
    /\ UNCHANGED <<now, requestVars, listenerGate, callVars, pending, worker, exit>>

(***************************************************************************)
(* ~ExpireWorker() and ~ScrubablePendingQueue(), when the process exits    *)
(* with no invocation and no destruction of a client in progress.  A       *)
(* client that is still alive has been leaked.                             *)
(***************************************************************************)
Exit ==
    /\ MayExit
    /\ exit.at = "running"
    /\ \A r \in Requests : Outside(r)
    /\ \A k \in Clients : client[k].at \in {"alive", "dead"}
    /\ exit' = [exit EXCEPT !.at = "notifying"]
    /\ UNCHANGED <<now, requestVars, listenerGate, callVars, pending, worker, client>>

ExitNotify ==
    /\ exit.at = "notifying"
    /\ MutexFree
    /\ Notify
    /\ exit' = [exit EXCEPT !.at = "joining"]
    /\ UNCHANGED <<now, requestVars, listenerGate, callVars, pending, client>>

\* worker_.join(); then every request left is expired, ...
ExitJoin ==
    /\ exit.at = "joining"
    /\ worker.at = "exited"
    /\ exit' = [at |-> "expiring", expire |-> ReqsOf(pending), sever |-> ReqsOf(pending)]
    /\ UNCHANGED <<now, requestVars, listenerGate, callVars, pending, worker, client>>

ExitExpire ==
    /\ exit.at = "expiring"
    /\ exit.expire # <<>>
    /\ exec[Main] = Idle
    /\ LET r == Head(exit.expire)
       IN  exec' = [exec EXCEPT ![Main] = Call(r, "internal")]
    /\ exit' = [exit EXCEPT !.expire = Tail(@)]
    /\ UNCHANGED <<now, requestVars, listenerGate, once, calls, pending, worker, client>>

\* ... and the container destroys the listeners' handles.
ExitRelease ==
    /\ exit.at = "expiring"
    /\ exit.expire = <<>>
    /\ exec[Main] = Idle
    /\ exit' = [exit EXCEPT !.at = IF exit.sever = <<>> THEN "gone" ELSE "severing"]
    /\ pending' = <<>>
    /\ UNCHANGED <<now, requestVars, listenerGate, callVars, worker, client>>

BeginExitSever ==
    /\ exit.at = "severing"
    /\ listenerGate[Head(exit.sever)] = "open"
    /\ listenerGate' = [listenerGate EXCEPT ![Head(exit.sever)] = "closing"]
    /\ UNCHANGED <<now, requestVars, callVars, pending, worker, client, exit>>

EndExitSever ==
    /\ exit.at = "severing"
    /\ listenerGate[Head(exit.sever)] = "closing"
    /\ Inside(Head(exit.sever)) = {}
    /\ listenerGate' = [listenerGate EXCEPT ![Head(exit.sever)] = "closed"]
    /\ exit' = [exit EXCEPT !.at = IF Len(exit.sever) = 1 THEN "gone" ELSE @,
                            !.sever = Tail(@)]
    /\ UNCHANGED <<now, requestVars, callVars, pending, worker, client>>

Tick ==
    /\ now < MaxTime
    /\ now' = now + 1
    /\ UNCHANGED <<requestVars, listenerGate, callVars, pending, worker, client, exit>>

-------------------------------------------------------------------------------
InvokeMethod(r) ==
    \/ Invoke(r) \/ RegisterListener(r) \/ Transmit(r) \/ SendSucceeds(r) \/ Fail(r)
    \/ BeginRelease(r) \/ EndRelease(r) \/ Throw(r) \/ Unwind(r) \/ Enqueue(r)

HandleReset(r) == BeginHandleReset(r) \/ EndHandleReset(r)

Respond(t) ==
    \E r, s \in Requests, result \in Answers : Deliver(t, r, s, result)

CallOnce(e) ==
    TakeOnce(e) \/ SkipOnce(e) \/ EnterCallback(e) \/ SkipCallback(e) \/ ReturnCallback(e)

DoWork ==
    \/ WorkerLoop \/ WorkerTake \/ WorkerExpired \/ WorkerInspect \/ WorkerWake
    \/ \E r \in Requests : WorkerBeginSever(r) \/ WorkerEndSever(r)

DestroyClient(k) ==
    \/ ScrubQueue(k) \/ BeginScrubSever(k) \/ EndScrubSever(k) \/ ScrubUnlock(k)
    \/ ScrubExpire(k) \/ Destroyed(k)

ExitProcess ==
    \/ ExitNotify \/ ExitJoin \/ ExitExpire \/ ExitRelease
    \/ BeginExitSever \/ EndExitSever

Next ==
    \/ \E r \in Requests : InvokeMethod(r) \/ HandleReset(r)
    \/ \E t \in Threads : Respond(t)
    \/ \E e \in Executors : CallOnce(e)
    \/ DoWork
    \/ \E k \in Clients : Destroy(k) \/ DestroyClient(k)
    \/ Exit
    \/ ExitProcess
    \/ Tick

Spec == Init /\ [][Next]_vars

(***************************************************************************)
(* Threads run, transport calls and callbacks return, time passes.  There  *)
(* are finitely many requests, so the lock is not contended for ever and   *)
(* weak fairness is enough.  Nothing forces an invocation, a response, the *)
(* release of a handle, the destruction of a client, or the exit.          *)
(***************************************************************************)
Fairness ==
    /\ \A r \in Requests :
        /\ WF_vars(invocation[r] # "idle" /\ InvokeMethod(r))
        /\ WF_vars(EndHandleReset(r))
    /\ \A e \in Executors : WF_vars(CallOnce(e))
    /\ WF_vars(DoWork)
    /\ \A k \in Clients : WF_vars(DestroyClient(k))
    /\ WF_vars(ExitProcess)
    /\ WF_vars(Tick)

FairSpec == Spec /\ Fairness

-------------------------------------------------------------------------------
(***************************************************************************)
(* Properties.                                                             *)
(***************************************************************************)

\* The callback is called "once and only once", although the transport (any
\* number of times), the worker, the destructor and a failing send compete.
OnceOnly == \A r \in Requests : calls[r] <= 1

\* The worker holds a request it has taken from the queue.
HeldByWorker(r) == worker.at \in {"sever", "expire"} /\ worker.req = {r}

\* A request whose invocation has returned and that is not answered is never
\* forgotten: it is in the queue, or someone who will expire it has it.
Tracked ==
    \A r \in Requests :
        invocation[r] = "done" /\ once[r] = "unset" =>
            \/ \E i \in 1..Len(pending) : pending[i].req = r
            \/ HeldByWorker(r)
            \/ \E i \in 1..Len(client[ClientOf[r]].expire) :
                   client[ClientOf[r]].expire[i] = r
            \/ exec[ClientOf[r]] # Idle /\ exec[ClientOf[r]].req = r

\* DEADLINE_EXCEEDED is not reported before the request's TTL is over, and the
\* requests expire although the worker acts on a clock value of the past.
DeadlineNotEarly ==
    [][\A r \in Requests :
          In(r, "callback") = {} =>
              \A e \in Executors :
                  e \in In(r, "callback")' /\ exec'[e].result = "deadline"
                      => now >= deadline[r]]_vars

\* When ~RpcClient() has returned, every request of the client is answered,
\* except one that the worker took from the queue before scrub() did.
SettledOnDestroy ==
    \A r \in Requests :
        client[ClientOf[r]].at = "dead" /\ invocation[r] = "done" =>
            once[r] = "done" \/ HeldByWorker(r)

\* When ~RpcClient() has returned, the client's response listeners are unregistered
\* from the transport.
ListenersReleased ==
    \A r \in Requests :
        client[ClientOf[r]].at = "dead" =>
            listenerGate[r] \in {"none", "closed"} \/ HeldByWorker(r)

\* Of the listeners of a client that is gone, only those that scrub() assigned over
\* can still be registered: neither a failing send, an exception, the worker, nor the
\* destruction of another client forgets one.
OnlyScrubLeaks ==
    \A r \in Requests :
        client[ClientOf[r]].at = "dead" =>
            listenerGate[r] \in {"none", "closed", "dropped"} \/ HeldByWorker(r)

\* Whoever puts a request on top of the queue, or takes the top away, wakes the
\* worker: when the lock is free, a worker that sleeps with no notification on its
\* way sleeps for the top of the queue.  (That this is the earliest request is
\* another matter, see TopIsEarliest in PendingQueue.)
WorkerArmed ==
    worker.at = "wait" /\ ~worker.notified /\ MutexFree /\ pending # <<>> =>
        worker.wake = pending[1].when

\* Every invocation that does not throw is answered, "with one of" a response, a
\* status, or DEADLINE_EXCEEDED, whether anybody still wants it or not.  (A request is
\* invoked once and stays answered: it is enough that again and again none is open.)
Completion ==
    []<>(\A r \in Requests : invocation[r] \in {"idle", "thrown"} \/ once[r] = "done")


\* The state that RpcCalls speaks of: how far the answer to a request is, and which
\* invocations, clients and process are still there.
callView ==
    [r \in Requests |->
        [at   |-> IF invocation[r] \in {"idle", "thrown"} THEN invocation[r]
                  ELSE IF once[r] = "done" THEN "answered"
                  ELSE IF In(r, "callback") # {} THEN "calling" ELSE "open",
         with |-> {exec[e].result : e \in In(r, "callback")}]]

returnedView == [r \in Requests |-> invocation[r] = "done"]

ownerView ==
    [k \in Clients |-> IF client[k].at \in {"alive", "dead"} THEN client[k].at ELSE "dying"]

processView ==
    CASE exit.at = "running" -> "running"
      [] exit.at \in {"severing", "gone"} -> "gone"
      [] OTHER -> "exiting"

Promised == INSTANCE RpcCalls WITH
    due <- deadline, call <- callView, returned <- returnedView, sent <- wire,
    handle <- callbackGate, owner <- ownerView, process <- processView

\* RpcClient keeps the promises of RpcCalls: whatever the threads do, a request is
\* answered at most once and only for the reason that the answer names, its callback
\* does not start once the handle is being given up, ~RpcClient() returns only when
\* what is open has expired, and the process ends only when nothing is open.
KeepsPromises == Promised!Spec

===============================================================================
