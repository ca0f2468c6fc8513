---------------------------- MODULE RpcClientProofs ----------------------------
(***************************************************************************)
(* Proofs about RpcClient, for any clients, requests and transport         *)
(* threads, with any nesting of invocations.                               *)
(*                                                                         *)
(* The argument of OnceOnly: a thread is past std::call_once only while    *)
(* the flag is "busy", at most one thread is, and the flag never returns   *)
(* to "unset".  It does not depend on the pending queue: whoever calls     *)
(* expire, and how often, the flag decides.                                *)
(*                                                                         *)
(* The other properties follow a request, its deadline and its listener    *)
(* from the caller through the queue to the worker and the destructors;    *)
(* what the queue does to them is in PendingHeapProofs.                    *)
(*                                                                         *)
(* At the end all of it is used to show that RpcClient implements          *)
(* RpcCalls.                                                               *)
(***************************************************************************)
EXTENDS RpcClient, PendingHeapProofs

\* What a thread's record of the call it is in looks like.
Shape(x) ==
    \/ x = Idle
    \/ /\ x = [at |-> x.at, req |-> x.req, result |-> x.result]
       /\ x.at \in {"once", "call", "callback"}

ShapeInv ==
    /\ exec = [e \in Executors |-> exec[e]]
    /\ \A e \in Executors : Shape(exec[e])
    /\ once \in [Requests -> {"unset", "busy", "done"}]
    /\ calls \in [Requests -> Nat]

\* Thread e is executing what std::call_once(r's flag) protects.
Past(e, r) == exec[e].at \in {"call", "callback"} /\ exec[e].req = r

OnceInv ==
    \A r \in Requests :
        /\ \A e \in Executors : Past(e, r) => once[r] = "busy"
        /\ \A e, f \in Executors : Past(e, r) /\ Past(f, r) => e = f
        /\ once[r] = "unset" => calls[r] = 0
        /\ \A e \in Executors :
               exec[e].at = "call" /\ exec[e].req = r => calls[r] = 0
        /\ calls[r] <= 1

IInv == ShapeInv /\ OnceInv

\* In the initial state no thread is in a call and no flag is set.
LEMMA InitIInv == Init => IInv
  BY DEF Init, IInv, ShapeInv, OnceInv, Shape, Idle, Past

\* Thread e starts a call of wrapper or expire for r.
LEMMA CallIInv ==
  ASSUME IInv, NEW e \in Executors, NEW r, NEW result,
         exec' = [exec EXCEPT ![e] = Call(r, result)],
         UNCHANGED <<once, calls>>
  PROVE  IInv'
<1>1. /\ exec' = [f \in Executors |-> exec'[f]]
      /\ exec'[e] = Call(r, result)
      /\ \A f \in Executors : f # e => exec'[f] = exec[f]
  BY DEF IInv, ShapeInv
<1>2. Shape(exec'[e]) /\ exec'[e].at = "once"
  BY <1>1 DEF Shape, Call
<1>3. ShapeInv'
  BY <1>1, <1>2 DEF IInv, ShapeInv, Shape
<1>4. OnceInv'
  BY <1>1, <1>2 DEF IInv, OnceInv, Past
<1>5. QED
  BY <1>3, <1>4 DEF IInv

\* Thread e passes the once_flag: nobody else is past it.
LEMMA TakeOnceIInv ==
  ASSUME IInv, NEW e \in Executors, TakeOnce(e)
  PROVE  IInv'
<1> DEFINE q == exec[e].req
<1>1. /\ exec' = [f \in Executors |-> exec'[f]]
      /\ exec'[e] = [exec[e] EXCEPT !.at = "call"]
      /\ \A f \in Executors : f # e => exec'[f] = exec[f]
  BY DEF IInv, ShapeInv, TakeOnce
<1>2. exec[e] = [at |-> "once", req |-> q, result |-> exec[e].result]
  BY DEF IInv, ShapeInv, Shape, TakeOnce, Idle
<1>3. exec'[e] = [at |-> "call", req |-> q, result |-> exec[e].result]
  BY <1>1, <1>2
<1>4. Shape(exec'[e]) /\ exec'[e].at = "call" /\ exec'[e].req = q
  BY <1>3 DEF Shape
<1>5. /\ once' = [once EXCEPT ![q] = "busy"]
      /\ once' \in [Requests -> {"unset", "busy", "done"}]
      /\ once[q] = "unset"
      /\ calls' = calls
  BY DEF IInv, ShapeInv, TakeOnce
<1>6. ShapeInv'
  BY <1>1, <1>4, <1>5 DEF IInv, ShapeInv, Shape
<1>7. OnceInv'
  <2>1. ASSUME NEW r \in Requests, r = q
        PROVE  /\ \A f \in Executors : ~Past(f, r)
               /\ \A f \in Executors : Past(f, r)' => f = e
               /\ once'[r] = "busy" /\ calls'[r] = 0
    BY <1>1, <1>5, <2>1 DEF IInv, OnceInv, ShapeInv, Past
  <2>2. ASSUME NEW r \in Requests, r # q
        PROVE  /\ \A f \in Executors : Past(f, r)' <=> Past(f, r)
               /\ \A f \in Executors : exec'[f].at = "call" /\ exec'[f].req = r
                                        => exec[f].at = "call" /\ exec[f].req = r
               /\ once'[r] = once[r] /\ calls'[r] = calls[r]
    BY <1>1, <1>2, <1>4, <1>5, <2>2 DEF IInv, ShapeInv, Past
  <2>3. QED
    BY <2>1, <2>2 DEF IInv, OnceInv
<1>8. QED
  BY <1>6, <1>7 DEF IInv

\* Thread e, past the flag, calls the callback.
LEMMA EnterCallbackIInv ==
  ASSUME IInv, NEW e \in Executors, EnterCallback(e)
  PROVE  IInv'
<1> DEFINE q == exec[e].req
<1>1. /\ exec' = [f \in Executors |-> exec'[f]]
      /\ exec'[e] = [exec[e] EXCEPT !.at = "callback"]
      /\ \A f \in Executors : f # e => exec'[f] = exec[f]
  BY DEF IInv, ShapeInv, EnterCallback
<1>2. exec[e] = [at |-> "call", req |-> q, result |-> exec[e].result]
  BY DEF IInv, ShapeInv, Shape, EnterCallback, Idle
<1>3. exec'[e] = [at |-> "callback", req |-> q, result |-> exec[e].result]
  BY <1>1, <1>2
<1>4. Shape(exec'[e]) /\ exec'[e].at = "callback" /\ exec'[e].req = q
  BY <1>3 DEF Shape
<1>5. /\ calls' \in [Requests -> Nat]
      /\ \A r \in Requests : calls'[r] = IF r = q THEN calls[r] + 1 ELSE calls[r]
      /\ once' = once
  <2>1. /\ calls' = [r \in Requests |-> IF r = q THEN calls[r] + 1 ELSE calls[r]]
        /\ once' = once
    BY DEF IInv, ShapeInv, EnterCallback
  <2>2. \A r \in Requests : calls[r] \in Nat
    BY DEF IInv, ShapeInv
  <2>3. QED
    BY <2>1, <2>2
<1>6. ShapeInv'
  BY <1>1, <1>4, <1>5 DEF IInv, ShapeInv, Shape
<1>7. OnceInv'
  BY <1>1, <1>2, <1>4, <1>5 DEF IInv, ShapeInv, OnceInv, Past
<1>8. QED
  BY <1>6, <1>7 DEF IInv

\* Thread e leaves std::call_once, having called or skipped the callback.
LEMMA FinishIInv ==
  ASSUME IInv, NEW e \in Executors, Finish(e), exec[e].at \in {"call", "callback"}
  PROVE  IInv'
<1> DEFINE q == exec[e].req
<1>1. /\ exec' = [f \in Executors |-> exec'[f]]
      /\ exec'[e] = Idle
      /\ \A f \in Executors : f # e => exec'[f] = exec[f]
  BY DEF IInv, ShapeInv, Finish
<1>2. Shape(exec'[e]) /\ exec'[e].at = "idle"
  BY <1>1 DEF Shape, Idle
<1>3. /\ once' \in [Requests -> {"unset", "busy", "done"}]
      /\ \A r \in Requests : once'[r] = IF r = q THEN "done" ELSE once[r]
      /\ calls' = calls
  BY DEF IInv, ShapeInv, Finish
<1>4. ShapeInv'
  BY <1>1, <1>2, <1>3 DEF IInv, ShapeInv, Shape
<1>5. OnceInv'
  BY <1>1, <1>2, <1>3 DEF IInv, OnceInv, Past
<1>6. QED
  BY <1>4, <1>5 DEF IInv

\* A thread that finds the flag done returns.
LEMMA SkipOnceIInv ==
  ASSUME IInv, NEW e \in Executors, SkipOnce(e)
  PROVE  IInv'
<1>1. /\ exec' = [f \in Executors |-> exec'[f]]
      /\ exec'[e] = Idle
      /\ \A f \in Executors : f # e => exec'[f] = exec[f]
      /\ UNCHANGED <<once, calls>>
  BY DEF IInv, ShapeInv, SkipOnce
<1>2. Shape(exec'[e]) /\ exec'[e].at = "idle"
  BY <1>1 DEF Shape, Idle
<1>3. ShapeInv'
  BY <1>1, <1>2 DEF IInv, ShapeInv, Shape
<1>4. OnceInv'
  BY <1>1, <1>2 DEF IInv, OnceInv, Past
<1>5. QED
  BY <1>3, <1>4 DEF IInv

\* The invariant is inductive: only the calls of wrapper and expire matter.
LEMMA NextIInv ==
  ASSUME IInv, [Next]_vars
  PROVE  IInv'
<1>0. ASSUME UNCHANGED callVars
      PROVE  IInv'
  BY <1>0 DEF IInv, ShapeInv, OnceInv, Shape, Past, callVars
<1>1. ASSUME NEW r \in Requests, InvokeMethod(r)
      PROVE  IInv'
  <2>1. CASE Fail(r)
    BY <2>1, CallIInv DEF Fail, Executors
  <2>2. CASE ~Fail(r)
    BY <1>0, <1>1, <2>2 DEF InvokeMethod, Invoke, RegisterListener, Transmit,
       SendSucceeds, BeginRelease, EndRelease, Throw, Unwind, Enqueue
  <2>3. QED
    BY <2>1, <2>2
<1>2. ASSUME NEW r \in Requests, HandleReset(r)
      PROVE  IInv'
  BY <1>0, <1>2 DEF HandleReset, BeginHandleReset, EndHandleReset
<1>3. ASSUME NEW t \in Threads, Respond(t)
      PROVE  IInv'
  <2>1. PICK r \in Requests, result \in Answers : Deliver(t, r, r, result)
    BY <1>3 DEF Respond, Deliver, Matches
  <2>2. QED
    BY <2>1, CallIInv DEF Deliver, Executors
<1>4. ASSUME NEW e \in Executors, CallOnce(e)
      PROVE  IInv'
  <2>1. CASE SkipCallback(e)
    BY <2>1, FinishIInv DEF SkipCallback
  <2>2. CASE ReturnCallback(e)
    BY <2>2, FinishIInv DEF ReturnCallback
  <2>3. QED
    BY <1>4, <2>1, <2>2, TakeOnceIInv, SkipOnceIInv, EnterCallbackIInv DEF CallOnce
<1>5. CASE DoWork
  <2>1. ASSUME NEW r \in Requests, WorkerEndSever(r)
        PROVE  IInv'
    BY <2>1, CallIInv DEF WorkerEndSever, Executors
  <2>2. CASE \A r \in Requests : ~WorkerEndSever(r)
    BY <1>0, <1>5, <2>2 DEF DoWork, WorkerLoop, WorkerTake, WorkerExpired,
       WorkerInspect, WorkerWake, WorkerBeginSever
  <2>3. QED
    BY <2>1, <2>2
<1>6. ASSUME NEW k \in Clients, Destroy(k) \/ DestroyClient(k)
      PROVE  IInv'
  <2>1. CASE ScrubExpire(k)
    BY <2>1, CallIInv DEF ScrubExpire, Executors
  <2>2. CASE ~ScrubExpire(k)
    BY <1>0, <1>6, <2>2 DEF Destroy, DestroyClient, ScrubQueue, BeginScrubSever,
       EndScrubSever, ScrubUnlock, Destroyed
  <2>3. QED
    BY <2>1, <2>2
<1>7. CASE ExitProcess
  <2>1. CASE ExitExpire
    BY <2>1, CallIInv DEF ExitExpire, Executors
  <2>2. CASE ~ExitExpire
    BY <1>0, <1>7, <2>2 DEF ExitProcess, ExitNotify, ExitJoin, ExitRelease,
       BeginExitSever, EndExitSever
  <2>3. QED
    BY <2>1, <2>2
<1>8. CASE Exit \/ Tick \/ UNCHANGED vars
  BY <1>0, <1>8 DEF Exit, Tick, vars
<1>9. QED
  BY <1>1, <1>2, <1>3, <1>4, <1>5, <1>6, <1>7, <1>8 DEF Next

\* Every reachable state satisfies the inductive invariant.
THEOREM Invariance == Spec => []IInv
  BY InitIInv, NextIInv, PTL DEF Spec

\* The callback given to invokeMethod() is called at most once, whatever the
\* transport, the worker, the destructors and the callbacks themselves do.
THEOREM CalledOnce == Spec => []OnceOnly
<1>1. IInv => OnceOnly
  BY DEF IInv, OnceInv, OnceOnly
<1>2. QED
  BY <1>1, Invariance, PTL

-------------------------------------------------------------------------------
(* Types. *)

Calls == [at : {"once", "call", "callback"}, req : Requests, result : Results]

Entries == [req : Requests, when : 0..MaxTime, instance : Clients]

Workers == [at : {"loop", "take", "sever", "expire", "inspect", "wait", "exited"},
            now : 0..MaxTime, req : SUBSET Requests,
            wake : 0..MaxTime \union {Never}, notified : BOOLEAN]

\* TypeOK, the type of worker.req, and that there is always a handle left to destroy
\* while ~ScrubablePendingQueue() destroys them.
TypeInv ==
    /\ TypeOK
    /\ worker \in Workers
    /\ exit.at = "severing" => exit.sever # <<>>

\* In the initial state everything is idle.
LEMMA InitTypeInv == Init => TypeInv
<1> SUFFICES ASSUME Init PROVE TypeInv
  OBVIOUS
<1>1. 0 \in 0..MaxTime
  BY TimeAssumption
<1>2. worker \in Workers
  BY <1>1 DEF Init, Workers
<1>3. client \in [Clients -> Tasks] /\ exit \in Exits /\ pending \in Seq(Entries)
  BY DEF Init, Tasks, Exits
<1>4. /\ wire \in [Requests -> BOOLEAN]
      /\ worker.notified \in BOOLEAN
  BY DEF Init
<1> QED
  BY <1>1, <1>2, <1>3, <1>4 DEF Init, TypeInv, TypeOK, Workers, Entries

\* A thread that is in a call has a record of it.
LEMMA CallTyped ==
  ASSUME TypeInv, NEW e \in Executors
  PROVE  /\ exec[e] = Idle \/ exec[e] \in Calls
         /\ exec[e].at # "idle" => exec[e] \in Calls /\ exec[e].req \in Requests
         /\ exec[e] = Idle <=> exec[e].at = "idle"
<1>1. exec[e] \in {Idle} \union Calls
  BY DEF TypeInv, TypeOK, Calls
<1>2. Idle.at = "idle"
  BY DEF Idle
<1>3. \A c \in Calls : c.at # "idle" /\ c.req \in Requests
  BY DEF Calls
<1> QED
  BY <1>1, <1>2, <1>3

\* What a thread starts with is a call.
LEMMA CallIsCall ==
  ASSUME NEW r \in Requests, NEW result \in Results
  PROVE  /\ Call(r, result) \in Calls
         /\ Call(r, result).at = "once" /\ Call(r, result).req = r
         /\ Call(r, result).result = result
  BY DEF Call, Calls

\* The requests of a queue's entries
LEMMA ReqsOfItems ==
  ASSUME NEW q \in Seq(Entries)
  PROVE  /\ ReqsOf(q) \in Seq(Requests)
         /\ Items(ReqsOf(q)) = {p.req : p \in Items(q)}
<1>1. ASSUME NEW i \in 1..Len(q) PROVE q[i].req \in Requests
  <2>1. q[i] \in Entries
    OBVIOUS
  <2> QED
    BY <2>1 DEF Entries
<1>2. Len(q) \in Nat
  OBVIOUS
<1>3. ReqsOf(q) = [i \in 1..Len(q) |-> q[i].req]
  BY DEF ReqsOf
<1>4. ReqsOf(q) \in Seq(Requests) /\ Len(ReqsOf(q)) = Len(q)
  BY <1>1, <1>2, <1>3
<1>5. \A i \in 1..Len(q) : ReqsOf(q)[i] = q[i].req
  BY <1>3
<1> QED
  BY <1>4, <1>5 DEF Items

\* Taking the head off a list
LEMMA HeadTail ==
  ASSUME NEW T, NEW s \in Seq(T), s # <<>>
  PROVE  /\ Head(s) \in T /\ Tail(s) \in Seq(T) /\ Len(Tail(s)) = Len(s) - 1
         /\ Head(s) \in Items(s) /\ Items(s) = Items(Tail(s)) \union {Head(s)}
<1> DEFINE t == Tail(s)
<1>1. Len(s) \in Nat /\ Len(s) # 0
  OBVIOUS
<1>2. /\ Head(s) = s[1] /\ Head(s) \in T /\ t \in Seq(T) /\ Len(t) = Len(s) - 1
      /\ \A i \in 1..Len(t) : t[i] = s[i + 1]
  BY <1>1
<1> HIDE DEF t
<1>3. \A i \in 1..Len(s) : i = 1 \/ (i - 1 \in 1..Len(t) /\ t[i - 1] = s[i])
  BY <1>1, <1>2
<1>4. 1 \in 1..Len(s) /\ \A i \in 1..Len(t) : i + 1 \in 1..Len(s)
  BY <1>1, <1>2
<1> QED
  <2>1. Items(s) = Items(t) \union {s[1]}
    <3>1. ASSUME NEW i \in 1..Len(s) PROVE s[i] \in Items(t) \union {s[1]}
      BY <1>3 DEF Items
    <3>2. ASSUME NEW i \in 1..Len(t) PROVE t[i] \in Items(s)
      BY <1>2, <1>4 DEF Items
    <3>3. s[1] \in Items(s)
      BY <1>4 DEF Items
    <3> QED
      BY <3>1, <3>2, <3>3 DEF Items
  <2> QED
    BY <1>2, <2>1 DEF t

\* notify_one() changes a flag.
LEMMA NotifyType ==
  ASSUME worker \in Workers, Notify
  PROVE  worker' \in Workers
<1> DEFINE b == (worker.at = "wait")
<1>1. b \in BOOLEAN
  OBVIOUS
<1>2. worker' = [worker EXCEPT !.notified = b]
  BY DEF Notify
<1> HIDE DEF b
<1> QED
  BY <1>1, <1>2 DEF Workers

\* invokeMethod() keeps the types.
LEMMA InvokeType ==
  ASSUME TypeInv, NEW r \in Requests, InvokeMethod(r)
  PROVE  TypeInv'
<1>1. CASE Invoke(r)
  <2>1. now + Ttl[ClientOf[r]] \in 0..MaxTime
    <3>1. ClientOf[r] \in Clients
      BY RequestsAssumption
    <3>2. Ttl[ClientOf[r]] \in Nat /\ MaxTime \in Nat
      BY <3>1, TimeAssumption
    <3>3. now \in 0..MaxTime
      BY DEF TypeInv, TypeOK
    <3>4. now + Ttl[ClientOf[r]] <= MaxTime
      BY <1>1 DEF Invoke
    <3> QED
      BY <3>2, <3>3, <3>4
  <2>2. /\ invocation' = [invocation EXCEPT ![r] = "register"]
        /\ deadline' = [deadline EXCEPT ![r] = now + Ttl[ClientOf[r]]]
        /\ callbackGate' = [callbackGate EXCEPT ![r] = "open"]
        /\ UNCHANGED <<now, wire, listenerGate, callVars, pending, worker, client, exit>>
    BY <1>1 DEF Invoke, Step
  <2> QED
    BY <2>1, <2>2 DEF TypeInv, TypeOK, callVars
<1>2. CASE RegisterListener(r)
  BY <1>2 DEF RegisterListener, Step, TypeInv, TypeOK, callVars
<1>3. CASE Transmit(r)
  <2>1. wire' \in [Requests -> BOOLEAN]
    BY <1>3 DEF Transmit, TypeInv, TypeOK
  <2> QED
    BY <1>3, <2>1 DEF Transmit, Step, TypeInv, TypeOK, callVars
<1>4. CASE SendSucceeds(r)
  BY <1>4 DEF SendSucceeds, Step, TypeInv, TypeOK, callVars
<1>5. CASE Fail(r)
  <2>1. r \in Executors /\ Call(r, "error") \in Calls
    BY CallIsCall DEF Executors, Results
  <2>2. exec' \in [Executors -> {Idle} \union Calls]
    BY <1>5, <2>1 DEF Fail, TypeInv, TypeOK, Calls
  <2>3. invocation' = [invocation EXCEPT ![r] = "expiring"]
    BY <1>5 DEF Fail, Step
  <2> QED
    BY <1>5, <2>2, <2>3 DEF Fail, TypeInv, TypeOK, Calls
<1>6. CASE BeginRelease(r)
  <2>1. invocation' = [invocation EXCEPT ![r] = "closing"]
        \/ invocation' = [invocation EXCEPT ![r] = "done"]
    BY <1>6 DEF BeginRelease, Step
  <2>2. listenerGate' = [listenerGate EXCEPT ![r] = "closing"]
        \/ listenerGate' = [listenerGate EXCEPT ![r] = listenerGate[r]]
    BY <1>6 DEF BeginRelease
  <2>3. invocation' \in [Requests -> {"idle", "register", "send", "sent", "enqueue",
                                      "expiring", "closing", "unwinding", "done", "thrown"}]
    BY <2>1 DEF TypeInv, TypeOK
  <2>4. listenerGate' \in [Requests -> {"none", "open", "closing", "closed", "dropped"}]
    <3>1. listenerGate \in [Requests -> {"none", "open", "closing", "closed", "dropped"}]
      BY DEF TypeInv, TypeOK
    <3>2. listenerGate[r] \in {"none", "open", "closing", "closed", "dropped"}
      BY <3>1
    <3> QED
      BY <2>2, <3>1, <3>2
  <2>5. UNCHANGED <<now, deadline, wire, callbackGate, once, exec, calls, pending, worker,
                    client, exit>>
    BY <1>6 DEF BeginRelease, callVars
  <2> QED
    BY <2>3, <2>4, <2>5 DEF TypeInv, TypeOK
<1>7. CASE EndRelease(r)
  BY <1>7 DEF EndRelease, Step, TypeInv, TypeOK, callVars
<1>8. CASE Enqueue(r)
  <2> DEFINE p == [req |-> r, when |-> deadline[r], instance |-> ClientOf[r]]
  <2>1. p \in Entries /\ pending \in Seq(Entries)
    BY RequestsAssumption DEF Entries, TypeInv, TypeOK
  <2>2. pending' = Emplace(pending, p)
    BY <1>8 DEF Enqueue
  <2> HIDE DEF p
  <2>3. pending' \in Seq(Entries)
    BY <2>1, <2>2, EmplaceDrawn
  <2>4. worker' \in Workers
    BY <1>8, NotifyType DEF Enqueue, TypeInv
  <2> QED
    BY <1>8, <2>3, <2>4 DEF Enqueue, Step, TypeInv, TypeOK, callVars, Entries, Workers
<1>9. CASE Throw(r) \/ Unwind(r)
  <2> DEFINE gates == {"none", "open", "closing", "closed", "dropped"}
  <2>1. /\ invocation' = [invocation EXCEPT ![r] = "unwinding"]
           \/ invocation' = [invocation EXCEPT ![r] = "thrown"]
        /\ \/ listenerGate' = [listenerGate EXCEPT ![r] = "closing"]
           \/ listenerGate' = [listenerGate EXCEPT ![r] = "closed"]
           \/ listenerGate' = [listenerGate EXCEPT ![r] = listenerGate[r]]
        /\ callbackGate' = callbackGate \/ callbackGate' = [callbackGate EXCEPT ![r] = "closed"]
        /\ UNCHANGED <<now, deadline, wire, once, exec, calls, pending, worker, client, exit>>
    BY <1>9 DEF Throw, Unwind, Step, callVars
  <2>2. invocation' \in [Requests -> {"idle", "register", "send", "sent", "enqueue",
                                      "expiring", "closing", "unwinding", "done", "thrown"}]
    BY <2>1 DEF TypeInv, TypeOK
  <2>3. listenerGate' \in [Requests -> gates]
    <3>1. listenerGate \in [Requests -> gates] /\ listenerGate[r] \in gates
      BY DEF TypeInv, TypeOK
    <3> QED
      BY <2>1, <3>1
  <2>4. callbackGate' \in [Requests -> {"none", "open", "closing", "closed"}]
    BY <2>1 DEF TypeInv, TypeOK
  <2> QED
    BY <2>1, <2>2, <2>3, <2>4 DEF TypeInv, TypeOK
<1> QED
  BY <1>1, <1>2, <1>3, <1>4, <1>5, <1>6, <1>7, <1>8, <1>9 DEF InvokeMethod

\* Resetting a handle and delivering a response keep the types.
LEMMA OutsideType ==
  ASSUME TypeInv,
         \/ \E r \in Requests : HandleReset(r)
         \/ \E t \in Threads : Respond(t)
         \/ Tick
  PROVE  TypeInv'
<1>1. ASSUME NEW r \in Requests, HandleReset(r) PROVE TypeInv'
  <2>1. callbackGate' \in [Requests -> {"none", "open", "closing", "closed"}]
    <3>1. callbackGate \in [Requests -> {"none", "open", "closing", "closed"}]
      BY DEF TypeInv, TypeOK
    <3>2. \/ callbackGate' = [callbackGate EXCEPT ![r] = "closing"]
          \/ callbackGate' = [callbackGate EXCEPT ![r] = "closed"]
      BY <1>1 DEF HandleReset, BeginHandleReset, EndHandleReset
    <3> QED
      BY <3>1, <3>2
  <2>2. UNCHANGED <<now, invocation, deadline, wire, listenerGate, callVars, pending,
                    worker, client, exit>>
    BY <1>1 DEF HandleReset, BeginHandleReset, EndHandleReset
  <2> QED
    BY <2>1, <2>2 DEF TypeInv, TypeOK, callVars
<1>2. ASSUME NEW t \in Threads, Respond(t) PROVE TypeInv'
  <2>1. PICK r \in Requests, result \in Answers : Deliver(t, r, r, result)
    BY <1>2 DEF Respond, Deliver, Matches
  <2>2. result \in Results /\ t \in Executors
    BY AnswersAssumption DEF Results, Executors
  <2>3. exec' \in [Executors -> {Idle} \union Calls]
    BY <2>1, <2>2, CallIsCall DEF Deliver, TypeInv, TypeOK, Calls
  <2> QED
    BY <2>1, <2>3 DEF Deliver, TypeInv, TypeOK, Calls, requestVars
<1>3. CASE Tick
  <2>1. now' \in 0..MaxTime
    BY <1>3, TimeAssumption DEF Tick, TypeInv, TypeOK
  <2> QED
    BY <1>3, <2>1 DEF Tick, TypeInv, TypeOK, requestVars, callVars
<1> QED
  BY <1>1, <1>2, <1>3

\* std::call_once keeps the types.
LEMMA CallOnceType ==
  ASSUME TypeInv, NEW e \in Executors, CallOnce(e)
  PROVE  TypeInv'
<1> DEFINE r == exec[e].req
<1>1. exec[e].at # "idle"
  BY DEF CallOnce, TakeOnce, SkipOnce, EnterCallback, SkipCallback, ReturnCallback
<1>2. exec[e] \in Calls /\ r \in Requests
  BY <1>1, CallTyped
<1>3. exec \in [Executors -> {Idle} \union Calls]
  BY DEF TypeInv, TypeOK, Calls
<1>4. /\ [exec[e] EXCEPT !.at = "call"] \in Calls
      /\ [exec[e] EXCEPT !.at = "callback"] \in Calls
  BY <1>2 DEF Calls
<1>5. exec' \in [Executors -> {Idle} \union Calls]
  <2>1. \/ exec' = [exec EXCEPT ![e] = Idle]
        \/ exec' = [exec EXCEPT ![e] = [exec[e] EXCEPT !.at = "call"]]
        \/ exec' = [exec EXCEPT ![e] = [exec[e] EXCEPT !.at = "callback"]]
    BY DEF CallOnce, TakeOnce, SkipOnce, EnterCallback, SkipCallback, ReturnCallback, Finish
  <2> QED
    BY <1>3, <1>4, <2>1
<1> HIDE DEF r
<1>6. once' \in [Requests -> {"unset", "busy", "done"}]
  <2>1. once \in [Requests -> {"unset", "busy", "done"}]
    BY DEF TypeInv, TypeOK
  <2>2. \/ once' = once \/ once' = [once EXCEPT ![r] = "busy"]
        \/ once' = [once EXCEPT ![r] = "done"]
    BY DEF CallOnce, TakeOnce, SkipOnce, EnterCallback, SkipCallback, ReturnCallback,
       Finish, r
  <2> QED
    BY <1>2, <2>1, <2>2
<1>7. calls' \in [Requests -> Nat]
  <2>1. calls \in [Requests -> Nat]
    BY DEF TypeInv, TypeOK
  <2>2. calls' = calls \/ calls' = [calls EXCEPT ![r] = calls[r] + 1]
    BY DEF CallOnce, TakeOnce, SkipOnce, EnterCallback, SkipCallback, ReturnCallback,
       Finish, r
  <2> QED
    BY <1>2, <2>1, <2>2
<1>8. UNCHANGED <<now, requestVars, listenerGate, pending, worker, client, exit>>
  BY DEF CallOnce, TakeOnce, SkipOnce, EnterCallback, SkipCallback, ReturnCallback, Finish
<1> QED
  BY <1>5, <1>6, <1>7, <1>8 DEF TypeInv, TypeOK, Calls, requestVars

\* The worker keeps the types.
LEMMA DoWorkType ==
  ASSUME TypeInv, DoWork
  PROVE  TypeInv'
<1>0. /\ worker \in Workers /\ now \in 0..MaxTime /\ pending \in Seq(Entries)
      /\ exec \in [Executors -> {Idle} \union Calls]
      /\ listenerGate \in [Requests -> {"none", "open", "closing", "closed", "dropped"}]
  BY DEF TypeInv, TypeOK, Entries, Calls
<1>1. ASSUME worker' \in Workers, UNCHANGED <<now, requestVars, listenerGate, callVars,
             pending, client, exit>>
      PROVE  TypeInv'
  BY <1>1 DEF TypeInv, TypeOK, Workers, requestVars, callVars
<1>2. CASE WorkerLoop
  <2>1. worker' \in Workers
    BY <1>0, <1>2 DEF WorkerLoop, Workers
  <2> QED
    BY <1>1, <1>2, <2>1 DEF WorkerLoop
<1>3. CASE WorkerTake
  <2>0. 0 \in 0..MaxTime
    BY TimeAssumption
  <2>1. CASE pending # <<>> /\ pending[1].when <= worker.now
    <3>1. pending' = Pop(pending) /\ worker' = [worker EXCEPT !.at = "sever", !.now = 0,
                                                              !.req = {pending[1].req}]
      BY <1>3, <2>1 DEF WorkerTake
    <3>2. pending' \in Seq(Entries)
      BY <1>0, <2>1, <3>1, PopDrawn
    <3>3. pending[1].req \in Requests
      <4>1. pending[1] \in Entries
        BY <1>0, <2>1
      <4> QED
        BY <4>1 DEF Entries
    <3>4. worker' \in Workers
      BY <1>0, <2>0, <3>1, <3>3 DEF Workers
    <3> QED
      BY <1>3, <3>2, <3>4 DEF WorkerTake, TypeInv, TypeOK, Workers, Entries,
         requestVars, callVars
  <2>2. CASE ~(pending # <<>> /\ pending[1].when <= worker.now)
    <3>1. worker' = [worker EXCEPT !.at = "inspect", !.now = 0] /\ UNCHANGED pending
      BY <1>3, <2>2 DEF WorkerTake
    <3>2. worker' \in Workers
      BY <1>0, <2>0, <3>1 DEF Workers
    <3> QED
      BY <1>1, <1>3, <3>1, <3>2 DEF WorkerTake
  <2> QED
    BY <2>1, <2>2
<1>4. CASE WorkerExpired
  <2>1. worker' \in Workers
    BY <1>0, <1>4 DEF WorkerExpired, Workers
  <2> QED
    BY <1>1, <1>4, <2>1 DEF WorkerExpired
<1>5. CASE WorkerInspect
  <2>1. PICK wake \in 0..MaxTime \union {Never} :
            worker' = [worker EXCEPT !.at = "loop"]
            \/ worker' = [worker EXCEPT !.at = "wait", !.wake = wake]
    <3> DEFINE wake == IF pending = <<>> THEN Never ELSE pending[1].when
    <3>1. wake \in 0..MaxTime \union {Never}
      <4>1. pending # <<>> => pending[1] \in Entries
        BY <1>0
      <4> QED
        BY <4>1 DEF Entries
    <3>2. worker' = [worker EXCEPT !.at = "loop"]
          \/ worker' = [worker EXCEPT !.at = "wait", !.wake = wake]
      BY <1>5 DEF WorkerInspect
    <3> HIDE DEF wake
    <3> QED
      BY <3>1, <3>2
  <2>2. worker' \in Workers
    BY <1>0, <2>1 DEF Workers
  <2> QED
    BY <1>1, <1>5, <2>2 DEF WorkerInspect
<1>6. CASE WorkerWake
  <2>1. worker' \in Workers
    BY <1>0, <1>6 DEF WorkerWake, Workers
  <2> QED
    BY <1>1, <1>6, <2>1 DEF WorkerWake
<1>7. ASSUME NEW r \in Requests, WorkerBeginSever(r) PROVE TypeInv'
  <2>1. listenerGate' \in [Requests -> {"none", "open", "closing", "closed", "dropped"}]
    BY <1>0, <1>7 DEF WorkerBeginSever
  <2> QED
    BY <1>7, <2>1 DEF WorkerBeginSever, TypeInv, TypeOK, requestVars, callVars
<1>8. ASSUME NEW r \in Requests, WorkerEndSever(r) PROVE TypeInv'
  <2>1. listenerGate' \in [Requests -> {"none", "open", "closing", "closed", "dropped"}]
    BY <1>0, <1>8 DEF WorkerEndSever
  <2>2. exec' \in [Executors -> {Idle} \union Calls]
    BY <1>0, <1>8, CallIsCall DEF WorkerEndSever, Results
  <2>3. worker' \in Workers
    BY <1>0, <1>8 DEF WorkerEndSever, Workers
  <2> QED
    BY <1>8, <2>1, <2>2, <2>3 DEF WorkerEndSever, TypeInv, TypeOK, Workers, Calls, requestVars
<1> QED
  BY <1>2, <1>3, <1>4, <1>5, <1>6, <1>7, <1>8 DEF DoWork

\* The destructor of a client keeps the types.
LEMMA DestroyType ==
  ASSUME TypeInv, NEW k \in Clients, Destroy(k) \/ DestroyClient(k)
  PROVE  TypeInv'
<1>0. /\ client \in [Clients -> Tasks] /\ client[k] \in Tasks /\ pending \in Seq(Entries)
      /\ client[k].expire \in Seq(Requests) /\ client[k].sever \in Seq(Requests)
      /\ exec \in [Executors -> {Idle} \union Calls]
      /\ listenerGate \in [Requests -> {"none", "open", "closing", "closed", "dropped"}]
  BY DEF TypeInv, TypeOK, Tasks, Entries, Calls
<1>1. ASSUME client' \in [Clients -> Tasks], worker' \in Workers,
             UNCHANGED <<now, requestVars, callVars, exit>>,
             pending' \in Seq(Entries),
             listenerGate' \in [Requests -> {"none", "open", "closing", "closed", "dropped"}]
      PROVE  TypeInv'
  BY <1>1 DEF TypeInv, TypeOK, Workers, Entries, requestVars, callVars
<1>2. worker \in Workers
  BY DEF TypeInv
<1>3. CASE Destroy(k)
  <2>1. client' \in [Clients -> Tasks]
    BY <1>0, <1>3 DEF Destroy, Tasks
  <2> QED
    BY <1>0, <1>1, <1>2, <1>3, <2>1 DEF Destroy
<1>4. CASE ScrubQueue(k)
  <2> DEFINE task == [at |-> "severing", expire |-> ReqsOf(AllExpired(pending, k)),
                      sever |-> ReqsOf(Erased(pending, k))]
  <2>1. AllExpired(pending, k) \in Seq(Entries) /\ Scrub(pending, k) \in Seq(Entries)
    BY <1>0, ScrubItems
  <2>2. Erased(pending, k) \in Seq(Entries)
    BY <1>0, ErasedItems
  <2>3. task \in Tasks
    BY <2>1, <2>2, ReqsOfItems DEF Tasks
  <2>4. client' = [client EXCEPT ![k] = task] /\ pending' = Scrub(pending, k)
    BY <1>4 DEF ScrubQueue
  <2> HIDE DEF task
  <2>5. client' \in [Clients -> Tasks]
    BY <1>0, <2>3, <2>4
  <2>6. listenerGate' \in [Requests -> {"none", "open", "closing", "closed", "dropped"}]
    BY <1>0, <1>4 DEF ScrubQueue
  <2>7. pending' \in Seq(Entries)
    BY <2>1, <2>4
  <2> QED
    BY <1>1, <1>2, <1>4, <2>5, <2>6, <2>7 DEF ScrubQueue
<1>5. CASE BeginScrubSever(k)
  <2>1. listenerGate' \in [Requests -> {"none", "open", "closing", "closed", "dropped"}]
    BY <1>0, <1>5 DEF BeginScrubSever
  <2> QED
    BY <1>0, <1>1, <1>2, <1>5, <2>1 DEF BeginScrubSever
<1>6. CASE EndScrubSever(k)
  <2>1. listenerGate' \in [Requests -> {"none", "open", "closing", "closed", "dropped"}]
    BY <1>0, <1>6 DEF EndScrubSever
  <2>2. Tail(client[k].sever) \in Seq(Requests)
    BY <1>0, <1>6, HeadTail DEF EndScrubSever
  <2>3. client' = [client EXCEPT ![k] = [client[k] EXCEPT !.sever = Tail(client[k].sever)]]
    BY <1>6 DEF EndScrubSever
  <2>4. client' \in [Clients -> Tasks]
    BY <1>0, <2>2, <2>3 DEF Tasks
  <2> QED
    BY <1>0, <1>1, <1>2, <1>6, <2>1, <2>4 DEF EndScrubSever
<1>7. CASE ScrubUnlock(k)
  <2>1. client' \in [Clients -> Tasks]
    BY <1>0, <1>7 DEF ScrubUnlock, Tasks
  <2> QED
    BY <1>0, <1>1, <1>2, <1>7, <2>1, NotifyType DEF ScrubUnlock
<1>8. CASE ScrubExpire(k)
  <2> DEFINE r == Head(client[k].expire)
  <2>1. r \in Requests /\ Tail(client[k].expire) \in Seq(Requests)
    BY <1>0, <1>8, HeadTail DEF ScrubExpire
  <2>2. exec' = [exec EXCEPT ![k] = Call(r, "cancelled")]
    BY <1>8 DEF ScrubExpire
  <2>3. client' = [client EXCEPT ![k] = [client[k] EXCEPT !.expire = Tail(client[k].expire)]]
    BY <1>8 DEF ScrubExpire
  <2> HIDE DEF r
  <2>4. exec' \in [Executors -> {Idle} \union Calls]
    BY <1>0, <2>1, <2>2, CallIsCall DEF Results
  <2>5. client' \in [Clients -> Tasks]
    BY <1>0, <2>1, <2>3 DEF Tasks
  <2> QED
    BY <1>8, <2>4, <2>5 DEF ScrubExpire, TypeInv, TypeOK, Calls, requestVars
<1>9. CASE Destroyed(k)
  <2>1. client' \in [Clients -> Tasks]
    BY <1>0, <1>9 DEF Destroyed, Tasks
  <2> QED
    BY <1>0, <1>1, <1>2, <1>9, <2>1 DEF Destroyed
<1> QED
  BY <1>3, <1>4, <1>5, <1>6, <1>7, <1>8, <1>9 DEF DestroyClient

\* The exit of the process keeps the types.
LEMMA ExitType ==
  ASSUME TypeInv, Exit \/ ExitProcess
  PROVE  TypeInv'
<1>0. /\ exit \in Exits /\ exit.expire \in Seq(Requests) /\ exit.sever \in Seq(Requests)
      /\ pending \in Seq(Entries) /\ worker \in Workers
      /\ exit.at = "severing" => exit.sever # <<>>
      /\ exec \in [Executors -> {Idle} \union Calls]
      /\ listenerGate \in [Requests -> {"none", "open", "closing", "closed", "dropped"}]
  BY DEF TypeInv, TypeOK, Exits, Entries, Calls
<1>1. ASSUME exit' \in Exits, exit'.at = "severing" => exit'.sever # <<>>, worker' \in Workers,
             UNCHANGED <<now, requestVars, callVars, client>>,
             pending' \in Seq(Entries),
             listenerGate' \in [Requests -> {"none", "open", "closing", "closed", "dropped"}]
      PROVE  TypeInv'
  BY <1>1 DEF TypeInv, TypeOK, Workers, Entries, requestVars, callVars
<1>2. CASE Exit
  <2>1. exit' \in Exits /\ exit'.at # "severing"
    BY <1>0, <1>2 DEF Exit, Exits
  <2> QED
    BY <1>0, <1>1, <1>2, <2>1 DEF Exit
<1>3. CASE ExitNotify
  <2>1. exit' \in Exits /\ exit'.at # "severing"
    BY <1>0, <1>3 DEF ExitNotify, Exits
  <2> QED
    BY <1>0, <1>1, <1>3, <2>1, NotifyType DEF ExitNotify
<1>4. CASE ExitJoin
  <2>1. exit' \in Exits /\ exit'.at # "severing"
    BY <1>0, <1>4, ReqsOfItems DEF ExitJoin, Exits
  <2> QED
    BY <1>0, <1>1, <1>4, <2>1 DEF ExitJoin
<1>5. CASE ExitExpire
  <2> DEFINE r == Head(exit.expire)
  <2>1. r \in Requests /\ Tail(exit.expire) \in Seq(Requests)
    BY <1>0, <1>5, HeadTail DEF ExitExpire
  <2>2. exec' = [exec EXCEPT ![Main] = Call(r, "internal")]
    BY <1>5 DEF ExitExpire
  <2>3. exit' = [exit EXCEPT !.expire = Tail(exit.expire)]
    BY <1>5 DEF ExitExpire
  <2> HIDE DEF r
  <2>4. exec' \in [Executors -> {Idle} \union Calls]
    BY <1>0, <2>1, <2>2, CallIsCall DEF Results
  <2>5. exit' \in Exits /\ exit'.at # "severing"
    BY <1>0, <1>5, <2>1, <2>3 DEF Exits, ExitExpire
  <2> QED
    BY <1>5, <2>4, <2>5 DEF ExitExpire, TypeInv, TypeOK, Calls, requestVars
<1>6. CASE ExitRelease
  <2>1. exit' \in Exits /\ (exit'.at = "severing" => exit'.sever # <<>>)
    BY <1>0, <1>6 DEF ExitRelease, Exits
  <2>2. pending' \in Seq(Entries)
    BY <1>6 DEF ExitRelease
  <2> QED
    BY <1>0, <1>1, <1>6, <2>1, <2>2 DEF ExitRelease
<1>7. CASE BeginExitSever
  <2>1. listenerGate' \in [Requests -> {"none", "open", "closing", "closed", "dropped"}]
    BY <1>0, <1>7 DEF BeginExitSever
  <2> QED
    BY <1>0, <1>1, <1>7, <2>1 DEF BeginExitSever
<1>8. CASE EndExitSever
  <2>1. listenerGate' \in [Requests -> {"none", "open", "closing", "closed", "dropped"}]
    BY <1>0, <1>8 DEF EndExitSever
  <2>2. exit.sever # <<>>
    BY <1>8 DEF EndExitSever, TypeInv
  <2>3. /\ Tail(exit.sever) \in Seq(Requests) /\ Len(Tail(exit.sever)) = Len(exit.sever) - 1
    BY <1>0, <2>2, HeadTail
  <2>4. Len(exit.sever) # 1 => Tail(exit.sever) # <<>>
    <3>1. Len(exit.sever) \in Nat /\ Len(<<>>) = 0
      BY <1>0
    <3>2. Len(exit.sever) # 1 => Len(Tail(exit.sever)) # Len(<<>>)
      BY <2>3, <3>1
    <3> QED
      BY <3>2
  <2>5. exit' = [exit EXCEPT !.at = IF Len(exit.sever) = 1 THEN "gone" ELSE exit.at,
                             !.sever = Tail(exit.sever)]
    BY <1>8 DEF EndExitSever
  <2>6. exit' \in Exits /\ (exit'.at = "severing" => exit'.sever # <<>>)
    BY <1>0, <2>3, <2>4, <2>5 DEF Exits
  <2> QED
    BY <1>0, <1>1, <1>8, <2>1, <2>6 DEF EndExitSever
<1> QED
  BY <1>2, <1>3, <1>4, <1>5, <1>6, <1>7, <1>8 DEF ExitProcess

\* TypeInv is inductive.
LEMMA NextTypeInv ==
  ASSUME TypeInv, [Next]_vars
  PROVE  TypeInv'
<1>1. CASE UNCHANGED vars
  BY <1>1 DEF vars, requestVars, callVars, TypeInv, TypeOK, Workers
<1> QED
  BY <1>1, InvokeType, OutsideType, CallOnceType, DoWorkType, DestroyType, ExitType DEF Next

\* Every reachable state is well typed.
THEOREM TypeInvariance == Spec => []TypeInv
  BY InitTypeInv, NextTypeInv, PTL DEF Spec

\* The type invariant holds, with any number of clients, requests and threads.
THEOREM TypeCorrect == Spec => []TypeOK
<1>1. TypeInv => TypeOK
  BY DEF TypeInv
<1> QED
  BY <1>1, TypeInvariance, PTL

-------------------------------------------------------------------------------
(***************************************************************************)
(* Who answers a request.  Every request whose invocation has returned is  *)
(* in the queue, with the worker or with the destructor of its client, or  *)
(* has been answered.  To show that none is dropped on the way from one to *)
(* the next, the invariant says where each of the actors is.               *)
(***************************************************************************)

\* Thread e is in a call of wrapper or expire for r.
Calling(e, r) == exec[e].at # "idle" /\ exec[e].req = r

\* It is, or the request has been answered.
Handles(e, r) == Calling(e, r) \/ once[r] = "done"

Queued(r) == \E p \in Items(pending) : p.req = r

\* The entries of the queue are those of requests that were sent.
EntryInv ==
    \A p \in Items(pending) :
        /\ p.instance = ClientOf[p.req] /\ p.when = deadline[p.req]
        /\ invocation[p.req] = "done"

\* The worker has one request in its hands while it severs and expires it.
HoldInv ==
    worker.at \in {"sever", "expire"} =>
        \E r \in Requests :
            /\ worker.req = {r} /\ invocation[r] = "done"
            /\ worker.at = "expire" => Handles(Worker, r)

\* How far the destructor of a client is
ClientInv ==
    \A k \in Clients :
        /\ client[k].at \in {"alive", "locking", "dead"} => client[k].expire = <<>>
        /\ client[k].at # "severing" => client[k].sever = <<>>
        /\ client[k].at # "expiring" => exec[k] = Idle
        /\ client[k].at \in {"severing", "expiring", "dead"} =>
               \A p \in Items(pending) : p.instance # k
        /\ Stopped => client[k].at \in {"alive", "dead"}

\* How far an invocation is
InvocationInv ==
    \A r \in Requests :
        /\ client[ClientOf[r]].at # "alive" \/ Stopped => invocation[r] \in {"idle", "done", "thrown"}
        /\ invocation[r] = "expiring" => Handles(r, r)
        /\ invocation[r] = "closing" => once[r] = "done"

\* ~ExpireWorker() answers what is left in the queue.
ExitInv ==
    exit.at = "expiring" =>
        \A p \in Items(pending) : p.req \in Items(exit.expire) \/ Handles(Main, p.req)

\* Somebody has every request that is not answered.
Owned(r) ==
    \/ Queued(r) \/ HeldByWorker(r)
    \/ r \in Items(client[ClientOf[r]].expire)
    \/ Handles(ClientOf[r], r)

TrackInv == \A r \in Requests : invocation[r] = "done" => Owned(r)

AnswerInv == EntryInv /\ HoldInv /\ ClientInv /\ InvocationInv /\ ExitInv /\ TrackInv

\* In the initial state nothing has been invoked.
LEMMA InitAnswerInv == Init => AnswerInv
<1> SUFFICES ASSUME Init PROVE AnswerInv
  OBVIOUS
<1>1. Items(pending) = {}
  BY DEF Init, Items
<1>2. EntryInv /\ HoldInv /\ ExitInv
  BY <1>1 DEF Init, EntryInv, HoldInv, ExitInv
<1>3. ClientInv
  BY <1>1 DEF Init, ClientInv, Stopped, Executors
<1>4. InvocationInv /\ TrackInv
  BY RequestsAssumption DEF Init, InvocationInv, TrackInv, Stopped
<1> QED
  BY <1>2, <1>3, <1>4 DEF AnswerInv

\* What is in the queue is an entry.
LEMMA EntriesTyped ==
  ASSUME TypeInv
  PROVE  pending \in Seq(Entries) /\ \A p \in Items(pending) : p \in Entries /\ p.req \in Requests
<1>1. pending \in Seq(Entries)
  BY DEF TypeInv, TypeOK, Entries
<1>2. \A p \in Items(pending) : p \in Entries
  BY <1>1 DEF Items
<1>3. \A p \in Entries : p.req \in Requests
  BY DEF Entries
<1> QED
  BY <1>1, <1>2, <1>3

\* Callers, clients, transport threads, the worker and main() are different threads.
LEMMA Apart ==
  /\ \A r \in Requests : /\ r \in Executors /\ r \notin Clients /\ r \notin Threads
                         /\ r # Worker /\ r # Main /\ ClientOf[r] \in Clients
  /\ \A k \in Clients : k \in Executors /\ k \notin Threads /\ k # Worker /\ k # Main
  /\ \A t \in Threads : t \in Executors /\ t # Worker /\ t # Main
  /\ Worker \in Executors /\ Main \in Executors /\ Worker # Main
  BY ThreadsAssumption, RequestsAssumption DEF Executors

\* Thread e starts a call for r.
LEMMA CallStarts ==
  ASSUME TypeInv, NEW e \in Executors, NEW r \in Requests, NEW result \in Results,
         exec' = [exec EXCEPT ![e] = Call(r, result)], once' = once
  PROVE  /\ Handles(e, r)'
         /\ exec'[e].req = r /\ exec'[e].result = result
         /\ \A f \in Executors : f # e => exec'[f] = exec[f]
         /\ \A f \in Executors : f # e => \A s : Handles(f, s) => Handles(f, s)'
<1>1. exec'[e] = Call(r, result) /\ \A f \in Executors : f # e => exec'[f] = exec[f]
  BY DEF TypeInv, TypeOK
<1>2. exec'[e].at = "once" /\ exec'[e].req = r /\ exec'[e].result = result
  BY <1>1, CallIsCall
<1> QED
  BY <1>1, <1>2 DEF Handles, Calling

\* Thread e goes on with its call or ends it: then the request is answered.
LEMMA CallGoesOn ==
  ASSUME TypeInv, NEW e \in Executors, CallOnce(e)
  PROVE  /\ \A f \in Executors, r \in Requests : Handles(f, r) => Handles(f, r)'
         /\ \A r \in Requests : once[r] = "done" => once'[r] = "done"
         /\ \A f \in Executors : exec[f] = Idle => exec'[f] = Idle
         /\ \A f \in Executors : exec'[f].at # "idle" =>
               /\ exec[f].at # "idle" /\ exec'[f].req = exec[f].req
               /\ exec'[f].result = exec[f].result
<1> DEFINE q == exec[e].req
<1>1. exec[e].at # "idle"
  BY DEF CallOnce, TakeOnce, SkipOnce, EnterCallback, SkipCallback, ReturnCallback
<1>2. exec[e] \in Calls /\ q \in Requests /\ exec[e] # Idle
  BY <1>1, CallTyped
<1>3. \A f \in Executors : f # e => exec'[f] = exec[f]
  BY DEF TypeInv, TypeOK, CallOnce, TakeOnce, SkipOnce, EnterCallback, SkipCallback,
     ReturnCallback, Finish
<1>4. \/ exec'[e] = Idle
      \/ exec'[e] = [exec[e] EXCEPT !.at = "call"]
      \/ exec'[e] = [exec[e] EXCEPT !.at = "callback"]
  BY DEF TypeInv, TypeOK, CallOnce, TakeOnce, SkipOnce, EnterCallback, SkipCallback,
     ReturnCallback, Finish
<1>5. \/ exec'[e] = Idle
      \/ /\ exec'[e].at # "idle" /\ exec'[e].req = q /\ exec'[e].result = exec[e].result
  BY <1>2, <1>4 DEF Calls
<1>6. \A r \in Requests : once[r] = "done" => once'[r] = "done"
  BY <1>2 DEF TypeInv, TypeOK, CallOnce, TakeOnce, SkipOnce, EnterCallback, SkipCallback,
     ReturnCallback, Finish
<1>7. exec'[e] = Idle => once'[q] = "done"
  <2>1. CASE TakeOnce(e) \/ EnterCallback(e)
    <3>1. \/ exec'[e] = [exec[e] EXCEPT !.at = "call"]
          \/ exec'[e] = [exec[e] EXCEPT !.at = "callback"]
      BY <2>1 DEF TypeInv, TypeOK, TakeOnce, EnterCallback
    <3>2. exec'[e].at # "idle"
      BY <1>2, <3>1 DEF Calls
    <3> QED
      BY <3>2 DEF Idle
  <2>2. CASE SkipOnce(e)
    BY <2>2 DEF SkipOnce
  <2>3. CASE SkipCallback(e) \/ ReturnCallback(e)
    <3>1. once' = [once EXCEPT ![q] = "done"]
      BY <2>3 DEF SkipCallback, ReturnCallback, Finish
    <3> QED
      BY <1>2, <3>1 DEF TypeInv, TypeOK
  <2> QED
    BY <2>1, <2>2, <2>3 DEF CallOnce
<1> HIDE DEF q
<1>8. Idle.at = "idle"
  BY DEF Idle
<1>9. ASSUME NEW f \in Executors, NEW r \in Requests, Handles(f, r) PROVE Handles(f, r)'
  <2>1. CASE f # e \/ once[r] = "done"
    BY <1>3, <1>6, <1>9, <2>1 DEF Handles, Calling
  <2>2. CASE f = e /\ once[r] # "done"
    <3>1. q = r
      BY <1>9, <2>2 DEF Handles, Calling, q
    <3> QED
      BY <1>5, <1>7, <2>2, <3>1 DEF Handles, Calling
  <2> QED
    BY <2>1, <2>2
<1>10. ASSUME NEW f \in Executors, exec'[f].at # "idle"
       PROVE  /\ exec[f].at # "idle" /\ exec'[f].req = exec[f].req
              /\ exec'[f].result = exec[f].result
  BY <1>1, <1>3, <1>5, <1>8, <1>10 DEF q
<1>11. ASSUME NEW f \in Executors, exec[f] = Idle PROVE exec'[f] = Idle
  BY <1>2, <1>3, <1>11
<1> QED
  BY <1>6, <1>9, <1>10, <1>11

\* Steps that only change clocks, gates, or what the worker is waiting for.
LEMMA AnswerFrame ==
  ASSUME AnswerInv, UNCHANGED <<invocation, deadline, once, exec, pending, client, exit>>,
         \/ worker'.at = worker.at /\ worker'.req = worker.req
         \/ {worker.at, worker'.at} \intersect {"sever", "expire"} = {}
  PROVE  AnswerInv'
<1>1. EntryInv' /\ ClientInv' /\ ExitInv' /\ InvocationInv'
  BY DEF AnswerInv, EntryInv, ClientInv, ExitInv, InvocationInv, Handles, Calling, Stopped
<1>2. HoldInv'
  BY DEF AnswerInv, HoldInv, Handles, Calling
<1>3. TrackInv'
  <2>1. \A r \in Requests : HeldByWorker(r) <=> HeldByWorker(r)'
    BY DEF HeldByWorker
  <2> QED
    BY <2>1 DEF AnswerInv, TrackInv, Owned, Queued, Handles, Calling
<1> QED
  BY <1>1, <1>2, <1>3 DEF AnswerInv

\* An invocation goes on, with its client alive, without touching the queue.
LEMMA InvocationGoesOn ==
  ASSUME TypeInv, AnswerInv, NEW r \in Requests, NEW to, invocation[r] # "done",
         client[ClientOf[r]].at = "alive", ~Stopped,
         invocation' = [invocation EXCEPT ![r] = to],
         \A s \in Requests : s # r => deadline'[s] = deadline[s],
         UNCHANGED <<once, exec, pending, worker, client, exit>>,
         to = "expiring" => Handles(r, r),
         to \in {"closing", "done"} => once[r] = "done"
  PROVE  AnswerInv'
<1>1. /\ invocation'[r] = to /\ \A s \in Requests : s # r => invocation'[s] = invocation[s]
      /\ \A p \in Items(pending) : p.req \in Requests
      /\ ~Stopped'
  <2>2. \A p \in Items(pending) : p.req \in Requests
    BY EntriesTyped
  <2> QED
    BY <2>2 DEF TypeInv, TypeOK, Stopped
<1>2. EntryInv'
  BY <1>1 DEF AnswerInv, EntryInv
<1>3. HoldInv'
  BY <1>1 DEF AnswerInv, HoldInv, Handles, Calling
<1>4. ClientInv' /\ ExitInv'
  BY DEF AnswerInv, ClientInv, ExitInv, Stopped, Handles, Calling
<1>5. InvocationInv'
  BY <1>1, RequestsAssumption DEF AnswerInv, InvocationInv, Handles, Calling
<1>6. TrackInv'
  <2>1. \A s \in Requests : Owned(s) => Owned(s)'
    BY DEF Owned, Queued, HeldByWorker, Handles, Calling
  <2>2. once[r] = "done" => Owned(r)'
    BY DEF Owned, Handles
  <2> QED
    BY <1>1, <2>1, <2>2 DEF AnswerInv, TrackInv
<1> QED
  BY <1>2, <1>3, <1>4, <1>5, <1>6 DEF AnswerInv

\* invokeMethod() leaves the request with somebody who answers it.
LEMMA InvokeAnswer ==
  ASSUME TypeInv, AnswerInv, NEW r \in Requests, InvokeMethod(r)
  PROVE  AnswerInv'
<1>0. invocation[r] \notin {"idle", "done", "thrown"} => client[ClientOf[r]].at = "alive" /\ ~Stopped
  BY DEF AnswerInv, InvocationInv
<1>1. CASE Invoke(r)
  <2>1. /\ invocation[r] # "done" /\ client[ClientOf[r]].at = "alive" /\ ~Stopped
        /\ invocation' = [invocation EXCEPT ![r] = "register"]
        /\ \A s \in Requests : s # r => deadline'[s] = deadline[s]
        /\ UNCHANGED <<once, exec, pending, worker, client, exit>>
    BY <1>1 DEF Invoke, Step, callVars, TypeInv, TypeOK
  <2> QED
    BY <2>1, InvocationGoesOn
<1>2. ASSUME NEW from \in {"register", "send", "sent"}, NEW to \in {"send", "sent", "enqueue"},
             Step(r, from, to), UNCHANGED <<deadline, once, exec, pending, worker, client, exit>>
      PROVE  AnswerInv'
  <2>1. /\ invocation[r] \notin {"idle", "done", "thrown"}
        /\ invocation' = [invocation EXCEPT ![r] = to]
    BY <1>2 DEF Step
  <2> QED
    BY <1>0, <1>2, <2>1, InvocationGoesOn
<1>3. CASE RegisterListener(r) \/ Transmit(r) \/ SendSucceeds(r)
  BY <1>2, <1>3 DEF RegisterListener, Transmit, SendSucceeds, callVars
<1>4. CASE Fail(r)
  <2>1. /\ invocation[r] \in {"register", "send", "sent"}
        /\ invocation' = [invocation EXCEPT ![r] = "expiring"]
        /\ exec' = [exec EXCEPT ![r] = Call(r, "error")]
        /\ UNCHANGED <<deadline, once, pending, worker, client, exit>>
    BY <1>4 DEF Fail, Step
  <2>2. /\ Handles(r, r)'
        /\ \A f \in Executors : f # r => exec'[f] = exec[f]
        /\ \A f \in Executors : f # r => \A s : Handles(f, s) => Handles(f, s)'
    BY <2>1, Apart, CallStarts DEF Results
  <2>3. /\ invocation'[r] = "expiring"
        /\ \A s \in Requests : s # r => invocation'[s] = invocation[s]
    BY <2>1 DEF TypeInv, TypeOK
  <2>4. \A p \in Items(pending) : p.req \in Requests
    BY EntriesTyped
  <2>5. EntryInv'
    BY <2>1, <2>3, <2>4 DEF AnswerInv, EntryInv
  <2>6. HoldInv'
    BY <2>1, <2>2, <2>3, Apart DEF AnswerInv, HoldInv
  <2>7. ClientInv'
    BY <2>1, <2>2, Apart DEF AnswerInv, ClientInv, Stopped
  <2>8. InvocationInv'
    BY <1>0, <2>1, <2>2, <2>3, Apart DEF AnswerInv, InvocationInv, Stopped
  <2>9. ExitInv'
    BY <2>1, <2>2, Apart DEF AnswerInv, ExitInv
  <2>10. TrackInv'
    <3>1. \A s \in Requests : Owned(s) => Owned(s)'
      BY <2>1, <2>2, Apart DEF Owned, Queued, HeldByWorker
    <3> QED
      BY <2>3, <3>1 DEF AnswerInv, TrackInv
  <2> QED
    BY <2>5, <2>6, <2>7, <2>8, <2>9, <2>10 DEF AnswerInv
<1>5. CASE BeginRelease(r)
  <2>1. PICK to \in {"closing", "done"} :
            /\ invocation[r] = "expiring" /\ exec[r] = Idle
            /\ invocation' = [invocation EXCEPT ![r] = to]
            /\ UNCHANGED <<deadline, once, exec, pending, worker, client, exit>>
    BY <1>5 DEF BeginRelease, Step, callVars
  <2>2. Handles(r, r) /\ exec[r].at = "idle"
    BY <2>1 DEF AnswerInv, InvocationInv, Idle
  <2>3. once[r] = "done"
    BY <2>2 DEF Handles, Calling
  <2> QED
    BY <1>0, <2>1, <2>3, InvocationGoesOn
<1>6. CASE EndRelease(r)
  <2>1. /\ invocation[r] = "closing" /\ invocation' = [invocation EXCEPT ![r] = "done"]
        /\ UNCHANGED <<deadline, once, exec, pending, worker, client, exit>>
    BY <1>6 DEF EndRelease, Step, callVars
  <2>2. once[r] = "done"
    BY <2>1 DEF AnswerInv, InvocationInv
  <2> QED
    BY <1>0, <2>1, <2>2, InvocationGoesOn
<1>7. CASE Enqueue(r)
  <2> DEFINE p == [req |-> r, when |-> deadline[r], instance |-> ClientOf[r]]
  <2>1. p \in Entries /\ pending \in Seq(Entries)
    BY RequestsAssumption DEF Entries, TypeInv, TypeOK
  <2>2. pending' = Emplace(pending, p)
    BY <1>7 DEF Enqueue
  <2>3. p.req = r /\ p.when = deadline[r] /\ p.instance = ClientOf[r]
    OBVIOUS
  <2> HIDE DEF p
  <2>4. Items(pending') = Items(pending) \union {p}
    <3>1. Items(Emplace(pending, p)) = Items(pending) \union {p}
      BY <2>1, EmplaceDrawn
    <3> QED
      BY <2>2, <3>1, Zenon
  <2>5. /\ invocation[r] = "enqueue"
        /\ invocation' = [invocation EXCEPT ![r] = "done"]
        /\ worker'.at = worker.at /\ worker'.req = worker.req
        /\ UNCHANGED <<deadline, once, exec, client, exit>>
    BY <1>7 DEF Enqueue, Step, Notify, callVars, TypeInv, Workers
  <2>6. /\ invocation'[r] = "done"
        /\ \A s \in Requests : s # r => invocation'[s] = invocation[s]
    BY <2>5 DEF TypeInv, TypeOK
  <2>7. client[ClientOf[r]].at = "alive" /\ ~Stopped
    BY <1>0, <2>5
  <2>8. \A d \in Items(pending) : d.req \in Requests
    BY EntriesTyped
  <2>9. EntryInv'
    BY <2>3, <2>4, <2>5, <2>6, <2>8 DEF AnswerInv, EntryInv
  <2>10. HoldInv'
    BY <2>5, <2>6 DEF AnswerInv, HoldInv, Handles, Calling
  <2>11. ClientInv'
    BY <2>3, <2>4, <2>5, <2>7 DEF AnswerInv, ClientInv, Stopped
  <2>12. InvocationInv'
    BY <2>5, <2>6 DEF AnswerInv, InvocationInv, Stopped, Handles, Calling
  <2>13. ExitInv'
    BY <2>5, <2>7 DEF AnswerInv, ExitInv, Stopped
  <2>14. TrackInv'
    <3>1. \A s \in Requests : Owned(s) => Owned(s)'
      BY <2>4, <2>5 DEF Owned, Queued, HeldByWorker, Handles, Calling
    <3>2. Owned(r)'
      BY <2>3, <2>4 DEF Owned, Queued
    <3> QED
      BY <2>6, <3>1, <3>2 DEF AnswerInv, TrackInv
  <2> QED
    BY <2>9, <2>10, <2>11, <2>12, <2>13, <2>14 DEF AnswerInv
<1>8. CASE Throw(r) \/ Unwind(r)
  <2>1. PICK to \in {"unwinding", "thrown"} :
            /\ invocation[r] \in {"register", "send", "unwinding"}
            /\ invocation' = [invocation EXCEPT ![r] = to]
            /\ UNCHANGED <<deadline, once, exec, pending, worker, client, exit>>
    BY <1>8 DEF Throw, Unwind, Step, callVars
  <2> QED
    BY <1>0, <2>1, InvocationGoesOn
<1> QED
  BY <1>1, <1>3, <1>4, <1>5, <1>6, <1>7, <1>8 DEF InvokeMethod

\* A response is delivered to a listener.
LEMMA RespondAnswer ==
  ASSUME TypeInv, AnswerInv, NEW t \in Threads, Respond(t)
  PROVE  AnswerInv'
<1>1. PICK r \in Requests, result \in Answers : Deliver(t, r, r, result)
  BY DEF Respond, Deliver, Matches
<1>2. result \in Results /\ t \in Executors
  BY AnswersAssumption, Apart DEF Results
<1>3. /\ UNCHANGED <<invocation, deadline, once, pending, worker, client, exit>>
      /\ exec' = [exec EXCEPT ![t] = Call(r, result)]
  BY <1>1 DEF Deliver, requestVars
<1>4. /\ \A f \in Executors : f # t => exec'[f] = exec[f]
      /\ \A f \in Executors : f # t => \A s : Handles(f, s) => Handles(f, s)'
  BY <1>2, <1>3, CallStarts
<1>5. EntryInv' /\ HoldInv' /\ ExitInv'
  BY <1>3, <1>4, Apart DEF AnswerInv, EntryInv, HoldInv, ExitInv
<1>6. ClientInv'
  BY <1>3, <1>4, Apart DEF AnswerInv, ClientInv, Stopped
<1>7. InvocationInv'
  BY <1>3, <1>4, Apart DEF AnswerInv, InvocationInv, Stopped
<1>8. TrackInv'
  BY <1>3, <1>4, Apart DEF AnswerInv, TrackInv, Owned, Queued, HeldByWorker
<1> QED
  BY <1>5, <1>6, <1>7, <1>8 DEF AnswerInv

\* A thread goes on with its call.
LEMMA CallOnceAnswer ==
  ASSUME TypeInv, AnswerInv, NEW e \in Executors, CallOnce(e)
  PROVE  AnswerInv'
<1>1. UNCHANGED <<invocation, deadline, pending, worker, client, exit>>
  BY DEF CallOnce, TakeOnce, SkipOnce, EnterCallback, SkipCallback, ReturnCallback, Finish,
     requestVars
<1>2. /\ \A f \in Executors, r \in Requests : Handles(f, r) => Handles(f, r)'
      /\ \A r \in Requests : once[r] = "done" => once'[r] = "done"
      /\ \A f \in Executors : exec[f] = Idle => exec'[f] = Idle
  BY CallGoesOn
<1>3. \A p \in Items(pending) : p.req \in Requests
  BY EntriesTyped
<1>4. EntryInv' /\ HoldInv' /\ ExitInv'
  BY <1>1, <1>2, <1>3, Apart DEF AnswerInv, EntryInv, HoldInv, ExitInv
<1>5. ClientInv'
  BY <1>1, <1>2, Apart DEF AnswerInv, ClientInv, Stopped
<1>6. InvocationInv'
  BY <1>1, <1>2, Apart DEF AnswerInv, InvocationInv, Stopped
<1>7. TrackInv'
  BY <1>1, <1>2, Apart DEF AnswerInv, TrackInv, Owned, Queued, HeldByWorker
<1> QED
  BY <1>4, <1>5, <1>6, <1>7 DEF AnswerInv

\* The worker does not let go of a request before it is answered.
LEMMA DoWorkAnswer ==
  ASSUME TypeInv, AnswerInv, DoWork
  PROVE  AnswerInv'
<1>0. worker \in Workers
  BY DEF TypeInv
<1>1. CASE WorkerLoop \/ WorkerInspect \/ WorkerWake
  <2>1. {worker.at, worker'.at} \intersect {"sever", "expire"} = {}
    BY <1>0, <1>1 DEF WorkerLoop, WorkerInspect, WorkerWake, Workers
  <2>2. UNCHANGED <<invocation, deadline, once, exec, pending, client, exit>>
    BY <1>1 DEF WorkerLoop, WorkerInspect, WorkerWake, requestVars, callVars
  <2> QED
    BY <2>1, <2>2, AnswerFrame
<1>2. CASE WorkerTake /\ ~(pending # <<>> /\ pending[1].when <= worker.now)
  <2>1. {worker.at, worker'.at} \intersect {"sever", "expire"} = {}
    BY <1>0, <1>2 DEF WorkerTake, Workers
  <2>2. UNCHANGED <<invocation, deadline, once, exec, pending, client, exit>>
    BY <1>2 DEF WorkerTake, requestVars, callVars
  <2> QED
    BY <2>1, <2>2, AnswerFrame
<1>3. CASE WorkerTake /\ pending # <<>> /\ pending[1].when <= worker.now
  <2>0. PICK r : r = pending[1].req
    OBVIOUS
  <2>1. /\ worker.at = "take" /\ worker'.at = "sever" /\ worker'.req = {r}
        /\ pending' = Pop(pending)
        /\ UNCHANGED <<invocation, deadline, once, exec, client, exit>>
    BY <1>0, <1>3, <2>0 DEF WorkerTake, Workers, requestVars, callVars
  <2>2. pending[1] \in Items(pending) /\ Items(pending) = Items(pending') \union {pending[1]}
    <3>1. pending \in Seq(Entries)
      BY EntriesTyped
    <3>2. /\ pending[1] \in Items(pending)
          /\ Items(pending) = Items(Pop(pending)) \union {pending[1]}
      BY <1>3, <3>1, PopItems
    <3> QED
      BY <2>1, <3>2, Zenon
  <2>3. r \in Requests /\ invocation[r] = "done"
    BY <2>0, <2>2, EntriesTyped DEF AnswerInv, EntryInv
  <2>4. EntryInv' /\ ExitInv'
    BY <2>1, <2>2 DEF AnswerInv, EntryInv, ExitInv, Handles, Calling
  <2>5. HoldInv'
    BY <2>1, <2>3 DEF HoldInv
  <2>6. ClientInv' /\ InvocationInv'
    BY <2>1, <2>2 DEF AnswerInv, ClientInv, InvocationInv, Stopped, Handles, Calling
  <2>7. TrackInv'
    <3>1. \A s \in Requests : Queued(s) => Queued(s)' \/ s = r
      BY <2>0, <2>2 DEF Queued
    <3>2. HeldByWorker(r)' /\ \A s \in Requests : ~HeldByWorker(s)
      BY <2>1 DEF HeldByWorker
    <3>3. \A s \in Requests : Owned(s) => Owned(s)'
      BY <2>1, <3>1, <3>2 DEF Owned, Handles, Calling
    <3> QED
      BY <2>1, <3>3 DEF AnswerInv, TrackInv
  <2> QED
    BY <2>4, <2>5, <2>6, <2>7 DEF AnswerInv
<1>4. CASE WorkerExpired
  <2>1. /\ worker.at = "expire" /\ exec[Worker] = Idle /\ worker'.at = "loop"
        /\ UNCHANGED <<invocation, deadline, once, exec, pending, client, exit>>
    BY <1>0, <1>4 DEF WorkerExpired, Workers, requestVars, callVars
  <2>2. PICK r \in Requests : worker.req = {r} /\ Handles(Worker, r)
    BY <2>1 DEF AnswerInv, HoldInv
  <2>3. once[r] = "done"
    BY <2>1, <2>2 DEF Handles, Calling, Idle
  <2>4. EntryInv' /\ HoldInv' /\ ClientInv' /\ InvocationInv' /\ ExitInv'
    BY <2>1 DEF AnswerInv, EntryInv, HoldInv, ClientInv, InvocationInv, ExitInv, Stopped,
       Handles, Calling
  <2>5. TrackInv'
    <3>1. \A s \in Requests : HeldByWorker(s) => s = r
      BY <2>2 DEF HeldByWorker
    <3>2. \A s \in Requests : Owned(s) => Owned(s)'
      BY <2>1, <2>3, <3>1 DEF Owned, Queued, Handles, Calling
    <3> QED
      BY <2>1, <3>2 DEF AnswerInv, TrackInv
  <2> QED
    BY <2>4, <2>5 DEF AnswerInv
<1>5. ASSUME NEW r \in Requests, WorkerBeginSever(r) PROVE AnswerInv'
  BY <1>5, AnswerFrame DEF WorkerBeginSever, requestVars, callVars
<1>6. ASSUME NEW r \in Requests, WorkerEndSever(r) PROVE AnswerInv'
  <2>1. /\ worker.at = "sever" /\ worker.req = {r}
        /\ worker'.at = "expire" /\ worker'.req = {r}
        /\ exec' = [exec EXCEPT ![Worker] = Call(r, "deadline")]
        /\ UNCHANGED <<invocation, deadline, once, pending, client, exit>>
    BY <1>0, <1>6 DEF WorkerEndSever, Workers, requestVars
  <2>2. /\ Handles(Worker, r)'
        /\ \A f \in Executors : f # Worker => exec'[f] = exec[f]
        /\ \A f \in Executors : f # Worker => \A s : Handles(f, s) => Handles(f, s)'
    BY <2>1, Apart, CallStarts DEF Results
  <2>3. invocation[r] = "done"
    BY <2>1 DEF AnswerInv, HoldInv
  <2>4. EntryInv' /\ HoldInv' /\ ExitInv'
    BY <2>1, <2>2, <2>3, Apart DEF AnswerInv, EntryInv, HoldInv, ExitInv
  <2>5. ClientInv'
    BY <2>1, <2>2, Apart DEF AnswerInv, ClientInv, Stopped
  <2>6. InvocationInv'
    BY <2>1, <2>2, Apart DEF AnswerInv, InvocationInv, Stopped
  <2>7. TrackInv'
    <3>1. \A s \in Requests : Owned(s) => Owned(s)'
      BY <2>1, <2>2, Apart DEF Owned, Queued, HeldByWorker
    <3> QED
      BY <2>1, <3>1 DEF AnswerInv, TrackInv
  <2> QED
    BY <2>4, <2>5, <2>6, <2>7 DEF AnswerInv
<1> QED
  BY <1>1, <1>2, <1>3, <1>4, <1>5, <1>6 DEF DoWork

\* The destructor of a client moves on, without touching the queue or the lambdas it has
\* collected.
LEMMA ClientMovesOn ==
  ASSUME TypeInv, AnswerInv, NEW k \in Clients, NEW from, NEW to,
         client[k].at = from, client'[k].at = to, client'[k].expire = client[k].expire,
         \A j \in Clients : j # k => client'[j] = client[j],
         to \in {"locking", "dead"} => client[k].expire = <<>>,
         to # "severing" => client'[k].sever = <<>>,
         to # "expiring" => exec[k] = Idle,
         to # "alive",
         to # "locking" => from \in {"severing", "expiring"},
         to = "locking" => /\ from = "alive"
                           /\ \A r \in Requests : ClientOf[r] = k => invocation[r] \in {"idle", "done", "thrown"},
         to = "dead" \/ ~Stopped,
         worker'.at = worker.at, worker'.req = worker.req,
         UNCHANGED <<invocation, deadline, once, exec, pending, exit>>
  PROVE  AnswerInv'
<1>1. EntryInv' /\ HoldInv' /\ ExitInv'
  BY DEF AnswerInv, EntryInv, HoldInv, ExitInv, Handles, Calling
<1>2. ASSUME NEW j \in Clients
      PROVE  /\ client'[j].at \in {"alive", "locking", "dead"} => client'[j].expire = <<>>
             /\ client'[j].at # "severing" => client'[j].sever = <<>>
             /\ client'[j].at # "expiring" => exec'[j] = Idle
             /\ client'[j].at \in {"severing", "expiring", "dead"} =>
                    \A p \in Items(pending') : p.instance # j
             /\ Stopped' => client'[j].at \in {"alive", "dead"}
  <2>1. CASE j # k
    BY <2>1 DEF AnswerInv, ClientInv, Stopped
  <2>2. CASE j = k
    BY <2>2 DEF AnswerInv, ClientInv, Stopped
  <2> QED
    BY <2>1, <2>2
<1>3. ClientInv'
  BY <1>2 DEF ClientInv
<1>4. InvocationInv'
  <2>1. ASSUME NEW r \in Requests, client'[ClientOf[r]].at # "alive"
        PROVE  invocation[r] \in {"idle", "done", "thrown"}
    <3>1. CASE ClientOf[r] # k
      BY <2>1, <3>1, Apart DEF AnswerInv, InvocationInv
    <3>2. CASE ClientOf[r] = k /\ to = "locking"
      BY <3>2
    <3>3. CASE ClientOf[r] = k /\ to # "locking"
      BY <3>3 DEF AnswerInv, InvocationInv
    <3> QED
      BY <3>1, <3>2, <3>3
  <2> QED
    BY <2>1 DEF AnswerInv, InvocationInv, Stopped, Handles, Calling
<1>5. TrackInv'
  <2>1. \A r \in Requests : client'[ClientOf[r]].expire = client[ClientOf[r]].expire
    BY Apart
  <2>2. \A r \in Requests : Owned(r) => Owned(r)'
    BY <2>1 DEF Owned, Queued, HeldByWorker, Handles, Calling
  <2> QED
    BY <2>2 DEF AnswerInv, TrackInv
<1> QED
  BY <1>1, <1>3, <1>4, <1>5 DEF AnswerInv

\* ~RpcClient() answers what it takes out of the queue.
LEMMA DestroyAnswer ==
  ASSUME TypeInv, AnswerInv, NEW k \in Clients, Destroy(k) \/ DestroyClient(k)
  PROVE  AnswerInv'
<1>0. /\ client \in [Clients -> Tasks] /\ client[k] \in Tasks /\ worker \in Workers
      /\ client[k].expire \in Seq(Requests) /\ client[k].sever \in Seq(Requests)
      /\ pending \in Seq(Entries)
  BY EntriesTyped DEF TypeInv, TypeOK, Tasks
<1>c. /\ client[k].at \in {"alive", "locking", "dead"} => client[k].expire = <<>>
      /\ client[k].at # "severing" => client[k].sever = <<>>
      /\ client[k].at # "expiring" => exec[k] = Idle
      /\ client[k].at \notin {"alive", "dead"} => ~Stopped
      /\ client[k].at \in {"severing", "expiring", "dead"} =>
             \A p \in Items(pending) : p.instance # k
  BY DEF AnswerInv, ClientInv
<1>1. CASE Destroy(k)
  <2>1. /\ client[k].at = "alive" /\ client'[k].at = "locking"
        /\ client'[k].expire = client[k].expire /\ client'[k].sever = client[k].sever
        /\ \A j \in Clients : j # k => client'[j] = client[j]
    BY <1>0, <1>1 DEF Destroy, Tasks
  <2>2. /\ ~Stopped
        /\ \A r \in Requests : ClientOf[r] = k => invocation[r] \in {"idle", "done", "thrown"}
        /\ UNCHANGED <<invocation, deadline, once, exec, pending, worker, exit>>
    BY <1>1 DEF Destroy, Outside, requestVars, callVars
  <2> QED
    BY <1>c, <2>1, <2>2, ClientMovesOn
<1>2. CASE ScrubQueue(k)
  <2> DEFINE task == [at |-> "severing", expire |-> ReqsOf(AllExpired(pending, k)),
                      sever |-> ReqsOf(Erased(pending, k))]
  <2>1. /\ client[k].at = "locking" /\ pending' = Scrub(pending, k)
        /\ client' = [client EXCEPT ![k] = task]
        /\ UNCHANGED <<invocation, deadline, once, exec, worker, exit>>
    BY <1>2 DEF ScrubQueue, requestVars, callVars
  <2>2. task.at = "severing" /\ task.expire = ReqsOf(AllExpired(pending, k))
    OBVIOUS
  <2> HIDE DEF task
  <2>3. client'[k] = task /\ \A j \in Clients : j # k => client'[j] = client[j]
    BY <1>0, <2>1
  <2>4. /\ Items(Scrub(pending, k)) = {p \in Items(pending) : p.instance # k}
        /\ AllExpired(pending, k) \in Seq(Entries)
        /\ Items(AllExpired(pending, k)) = {p \in Items(pending) : p.instance = k}
    BY <1>0, ScrubItems
  <2>5. Items(pending') = {p \in Items(pending) : p.instance # k}
    BY <2>1, <2>4, Zenon
  <2>6. \A p \in Items(pending) : p.instance = k => p.req \in Items(client'[k].expire)
    BY <2>2, <2>3, <2>4, ReqsOfItems
  <2>7. EntryInv' /\ HoldInv' /\ ExitInv'
    BY <2>1, <2>5 DEF AnswerInv, EntryInv, HoldInv, ExitInv, Handles, Calling
  <2>8. ASSUME NEW j \in Clients
        PROVE  /\ client'[j].at \in {"alive", "locking", "dead"} => client'[j].expire = <<>>
               /\ client'[j].at # "severing" => client'[j].sever = <<>>
               /\ client'[j].at # "expiring" => exec'[j] = Idle
               /\ client'[j].at \in {"severing", "expiring", "dead"} =>
                      \A p \in Items(pending') : p.instance # j
               /\ Stopped' => client'[j].at \in {"alive", "dead"}
    <3>1. CASE j # k
      BY <2>1, <2>3, <2>5, <3>1 DEF AnswerInv, ClientInv, Stopped
    <3>2. CASE j = k
      BY <1>c, <2>1, <2>2, <2>3, <2>5, <3>2 DEF Stopped
    <3> QED
      BY <3>1, <3>2
  <2>9. ClientInv'
    BY <2>8 DEF ClientInv
  <2>10. InvocationInv'
    <3>1. \A r \in Requests : client'[ClientOf[r]].at # "alive" => client[ClientOf[r]].at # "alive"
      BY <2>1, <2>3, Apart
    <3> QED
      BY <2>1, <3>1 DEF AnswerInv, InvocationInv, Stopped, Handles, Calling
  <2>11. TrackInv'
    <3>1. ASSUME NEW r \in Requests, Queued(r)
          PROVE  Queued(r)' \/ r \in Items(client'[ClientOf[r]].expire)
      <4>1. PICK p \in Items(pending) : p.req = r
        BY <3>1 DEF Queued
      <4>2. p.instance = ClientOf[r]
        BY <4>1 DEF AnswerInv, EntryInv
      <4> QED
        BY <4>1, <4>2, <2>5, <2>6 DEF Queued
    <3>2. ASSUME NEW r \in Requests, r \in Items(client[ClientOf[r]].expire)
          PROVE  r \in Items(client'[ClientOf[r]].expire)
      <4>1. client[k].expire = <<>>
        BY <1>c, <2>1
      <4>2. Items(<<>>) = {}
        BY DEF Items
      <4>3. ClientOf[r] # k
        BY <3>2, <4>1, <4>2
      <4> QED
        BY <2>3, <3>2, <4>3, Apart
    <3>3. \A r \in Requests : Owned(r) => Owned(r)'
      BY <2>1, <3>1, <3>2 DEF Owned, HeldByWorker, Handles, Calling
    <3> QED
      BY <2>1, <3>3 DEF AnswerInv, TrackInv
  <2> QED
    BY <2>7, <2>9, <2>10, <2>11 DEF AnswerInv
<1>3. CASE BeginScrubSever(k)
  BY <1>3, AnswerFrame DEF BeginScrubSever, requestVars, callVars
<1>4. CASE EndScrubSever(k)
  <2>1. /\ client[k].at = "severing" /\ client'[k].at = "severing"
        /\ client'[k].expire = client[k].expire
        /\ \A j \in Clients : j # k => client'[j] = client[j]
    BY <1>0, <1>4 DEF EndScrubSever, Tasks
  <2>2. UNCHANGED <<invocation, deadline, once, exec, pending, worker, exit>>
    BY <1>4 DEF EndScrubSever, requestVars, callVars
  <2> QED
    BY <1>c, <2>1, <2>2, ClientMovesOn
<1>5. CASE ScrubUnlock(k)
  <2>1. /\ client[k].at = "severing" /\ client'[k].at = "expiring"
        /\ client'[k].expire = client[k].expire /\ client'[k].sever = <<>>
        /\ \A j \in Clients : j # k => client'[j] = client[j]
    BY <1>0, <1>5 DEF ScrubUnlock, Tasks
  <2>2. /\ UNCHANGED <<invocation, deadline, once, exec, pending, exit>>
        /\ worker'.at = worker.at /\ worker'.req = worker.req
    BY <1>0, <1>5 DEF ScrubUnlock, requestVars, callVars, Notify, Workers
  <2> QED
    BY <1>c, <2>1, <2>2, ClientMovesOn
<1>6. CASE ScrubExpire(k)
  <2>0. PICK r : r = Head(client[k].expire)
    OBVIOUS
  <2>1. /\ client[k].at = "expiring" /\ client[k].expire # <<>> /\ exec[k] = Idle
        /\ exec' = [exec EXCEPT ![k] = Call(r, "cancelled")]
        /\ UNCHANGED <<invocation, deadline, once, pending, worker, exit>>
    BY <1>6, <2>0 DEF ScrubExpire, requestVars
  <2>2. r \in Requests /\ Items(client[k].expire) = Items(Tail(client[k].expire)) \union {r}
    BY <1>0, <2>0, <2>1, HeadTail
  <2>3. /\ client'[k].at = "expiring" /\ client'[k].expire = Tail(client[k].expire)
        /\ client'[k].sever = client[k].sever
        /\ \A j \in Clients : j # k => client'[j] = client[j]
    BY <1>0, <1>6 DEF ScrubExpire, Tasks
  <2>4. /\ Handles(k, r)'
        /\ \A f \in Executors : f # k => exec'[f] = exec[f]
        /\ \A f \in Executors : f # k => \A s : Handles(f, s) => Handles(f, s)'
    BY <2>1, <2>2, Apart, CallStarts DEF Results
  <2>5. EntryInv' /\ HoldInv' /\ ExitInv'
    BY <2>1, <2>4, Apart DEF AnswerInv, EntryInv, HoldInv, ExitInv
  <2>6. ASSUME NEW j \in Clients
        PROVE  /\ client'[j].at \in {"alive", "locking", "dead"} => client'[j].expire = <<>>
               /\ client'[j].at # "severing" => client'[j].sever = <<>>
               /\ client'[j].at # "expiring" => exec'[j] = Idle
               /\ client'[j].at \in {"severing", "expiring", "dead"} =>
                      \A p \in Items(pending') : p.instance # j
               /\ Stopped' => client'[j].at \in {"alive", "dead"}
    <3>1. CASE j # k
      BY <2>1, <2>3, <2>4, <3>1, Apart DEF AnswerInv, ClientInv, Stopped
    <3>2. CASE j = k
      BY <1>c, <2>1, <2>3, <3>2 DEF Stopped
    <3> QED
      BY <3>1, <3>2
  <2>7. ClientInv'
    BY <2>6 DEF ClientInv
  <2>8. InvocationInv'
    <3>1. \A s \in Requests : client'[ClientOf[s]].at = client[ClientOf[s]].at
      BY <2>1, <2>3, Apart
    <3> QED
      BY <2>1, <2>4, <3>1, Apart DEF AnswerInv, InvocationInv, Stopped
  <2>9. TrackInv'
    <3>1. ASSUME NEW s \in Requests, Owned(s) PROVE Owned(s)'
      <4>1. CASE Queued(s) \/ HeldByWorker(s)
        BY <2>1, <4>1 DEF Owned, Queued, HeldByWorker
      <4>2. CASE ClientOf[s] # k
        BY <2>1, <2>3, <2>4, <3>1, <4>2, Apart DEF Owned, Queued, HeldByWorker
      <4>3. CASE ClientOf[s] = k /\ s \in Items(client[k].expire)
        BY <2>2, <2>3, <2>4, <4>3 DEF Owned
      <4>4. CASE ClientOf[s] = k /\ Handles(k, s)
        <5>1. once[s] = "done"
          BY <2>1, <4>4 DEF Handles, Calling, Idle
        <5> QED
          BY <2>1, <5>1 DEF Owned, Handles
      <4> QED
        BY <3>1, <4>1, <4>2, <4>3, <4>4 DEF Owned
    <3> QED
      BY <2>1, <3>1 DEF AnswerInv, TrackInv
  <2> QED
    BY <2>5, <2>7, <2>8, <2>9 DEF AnswerInv
<1>7. CASE Destroyed(k)
  <2>1. /\ client[k].at = "expiring" /\ client'[k].at = "dead" /\ client[k].expire = <<>>
        /\ client'[k].expire = client[k].expire /\ client'[k].sever = client[k].sever
        /\ \A j \in Clients : j # k => client'[j] = client[j]
        /\ exec[k] = Idle
    BY <1>0, <1>7 DEF Destroyed, Tasks
  <2>2. UNCHANGED <<invocation, deadline, once, exec, pending, worker, exit>>
    BY <1>7 DEF Destroyed, requestVars, callVars
  <2> QED
    BY <1>c, <2>1, <2>2, ClientMovesOn
<1> QED
  BY <1>1, <1>2, <1>3, <1>4, <1>5, <1>6, <1>7 DEF DestroyClient

\* ~ExpireWorker() answers what is left in the queue before the queue is destroyed.
LEMMA ExitAnswer ==
  ASSUME TypeInv, AnswerInv, Exit \/ ExitProcess
  PROVE  AnswerInv'
<1>0. /\ exit \in Exits /\ worker \in Workers /\ pending \in Seq(Entries)
      /\ exit.expire \in Seq(Requests) /\ exit.sever \in Seq(Requests)
  BY EntriesTyped DEF TypeInv, TypeOK, Exits
<1>1. ASSUME exit'.at # "running",
             Stopped \/ /\ \A r \in Requests : invocation[r] \in {"idle", "done", "thrown"}
                        /\ \A k \in Clients : client[k].at \in {"alive", "dead"},
             exit'.at = "expiring" => \A p \in Items(pending) : p.req \in Items(exit'.expire),
             worker'.at = worker.at, worker'.req = worker.req,
             UNCHANGED <<invocation, deadline, once, exec, pending, client>>
      PROVE  AnswerInv'
  <2>1. EntryInv' /\ HoldInv' /\ ExitInv'
    BY <1>1 DEF AnswerInv, EntryInv, HoldInv, ExitInv, Handles, Calling
  <2>2. ClientInv'
    BY <1>1 DEF AnswerInv, ClientInv, Stopped
  <2>3. InvocationInv'
    BY <1>1 DEF AnswerInv, InvocationInv, Stopped, Handles, Calling
  <2>4. TrackInv'
    BY <1>1 DEF AnswerInv, TrackInv, Owned, Queued, HeldByWorker, Handles, Calling
  <2> QED
    BY <2>1, <2>2, <2>3, <2>4 DEF AnswerInv
<1>2. CASE Exit
  <2>1. exit'.at = "notifying"
    BY <1>0, <1>2 DEF Exit, Exits
  <2> QED
    BY <1>1, <1>2, <2>1 DEF Exit, Outside, requestVars, callVars
<1>3. CASE ExitNotify
  <2>1. exit'.at = "joining" /\ Stopped /\ worker'.at = worker.at /\ worker'.req = worker.req
    BY <1>0, <1>3 DEF ExitNotify, Exits, Stopped, Notify, Workers
  <2> QED
    BY <1>1, <1>3, <2>1 DEF ExitNotify, requestVars, callVars
<1>4. CASE ExitJoin
  <2>1. exit'.at = "expiring" /\ exit'.expire = ReqsOf(pending) /\ Stopped
    BY <1>4 DEF ExitJoin, Stopped
  <2>2. \A p \in Items(pending) : p.req \in Items(exit'.expire)
    BY <1>0, <2>1, ReqsOfItems
  <2> QED
    BY <1>1, <1>4, <2>1, <2>2 DEF ExitJoin, requestVars, callVars
<1>5. CASE ExitExpire
  <2>0. PICK r : r = Head(exit.expire)
    OBVIOUS
  <2>1. /\ exit.at = "expiring" /\ exit.expire # <<>> /\ exec[Main] = Idle
        /\ exec' = [exec EXCEPT ![Main] = Call(r, "internal")]
        /\ UNCHANGED <<invocation, deadline, once, pending, worker, client>>
    BY <1>5, <2>0 DEF ExitExpire, requestVars
  <2>2. r \in Requests /\ Items(exit.expire) = Items(Tail(exit.expire)) \union {r}
    BY <1>0, <2>0, <2>1, HeadTail
  <2>3. exit'.at = "expiring" /\ exit'.expire = Tail(exit.expire)
    BY <1>0, <1>5 DEF ExitExpire, Exits
  <2>4. /\ Handles(Main, r)'
        /\ \A f \in Executors : f # Main => exec'[f] = exec[f]
        /\ \A f \in Executors : f # Main => \A s : Handles(f, s) => Handles(f, s)'
    BY <2>1, <2>2, Apart, CallStarts DEF Results
  <2>5. EntryInv' /\ HoldInv'
    BY <2>1, <2>4, Apart DEF AnswerInv, EntryInv, HoldInv
  <2>6. ClientInv'
    BY <2>1, <2>3, <2>4, Apart DEF AnswerInv, ClientInv, Stopped
  <2>7. InvocationInv'
    BY <2>1, <2>3, <2>4, Apart DEF AnswerInv, InvocationInv, Stopped
  <2>8. ExitInv'
    <3>1. \A p \in Items(pending) : Handles(Main, p.req) => Handles(Main, p.req)'
      <4>1. \A s : Handles(Main, s) => once[s] = "done"
        BY <2>1 DEF Handles, Calling, Idle
      <4> QED
        BY <2>1, <4>1 DEF Handles
    <3>2. \A p \in Items(pending) : p.req \in Items(exit.expire) \/ Handles(Main, p.req)
      BY <2>1 DEF AnswerInv, ExitInv
    <3>3. ASSUME NEW p \in Items(pending) PROVE p.req \in Items(exit'.expire) \/ Handles(Main, p.req)'
      BY <2>2, <2>3, <2>4, <3>1, <3>2
    <3> QED
      BY <2>1, <3>3 DEF ExitInv
  <2>9. TrackInv'
    BY <2>1, <2>4, Apart DEF AnswerInv, TrackInv, Owned, Queued, HeldByWorker
  <2> QED
    BY <2>5, <2>6, <2>7, <2>8, <2>9 DEF AnswerInv
<1>6. CASE ExitRelease
  <2>1. /\ exit.at = "expiring" /\ exit.expire = <<>> /\ exec[Main] = Idle /\ pending' = <<>>
        /\ exit'.at \in {"gone", "severing"}
        /\ UNCHANGED <<invocation, deadline, once, exec, worker, client>>
    BY <1>0, <1>6 DEF ExitRelease, Exits, requestVars, callVars
  <2>2. Items(<<>>) = {}
    BY DEF Items
  <2>3. Items(pending') = {} /\ Items(exit.expire) = {}
    BY <2>1, <2>2, Zenon
  <2>4. \A s \in Requests : Queued(s) => once[s] = "done"
    BY <2>1, <2>3 DEF AnswerInv, ExitInv, Queued, Handles, Calling, Idle
  <2>5. EntryInv' /\ HoldInv' /\ ExitInv'
    BY <2>1, <2>3 DEF AnswerInv, EntryInv, HoldInv, ExitInv, Handles, Calling
  <2>6. ClientInv'
    BY <2>1, <2>3 DEF AnswerInv, ClientInv, Stopped
  <2>7. InvocationInv'
    BY <2>1 DEF AnswerInv, InvocationInv, Stopped, Handles, Calling
  <2>8. TrackInv'
    BY <2>1, <2>4 DEF AnswerInv, TrackInv, Owned, HeldByWorker, Handles, Calling
  <2> QED
    BY <2>5, <2>6, <2>7, <2>8 DEF AnswerInv
<1>7. CASE BeginExitSever
  BY <1>7, AnswerFrame DEF BeginExitSever, requestVars, callVars
<1>8. CASE EndExitSever
  <2>1. exit'.at \in {"gone", "severing"} /\ Stopped
    BY <1>0, <1>8 DEF EndExitSever, Exits, Stopped
  <2> QED
    BY <1>1, <1>8, <2>1 DEF EndExitSever, requestVars, callVars
<1> QED
  BY <1>2, <1>3, <1>4, <1>5, <1>6, <1>7, <1>8 DEF ExitProcess

\* AnswerInv is inductive.
LEMMA NextAnswerInv ==
  ASSUME TypeInv, AnswerInv, [Next]_vars
  PROVE  AnswerInv'
<1>1. ASSUME NEW r \in Requests, HandleReset(r) PROVE AnswerInv'
  BY <1>1, AnswerFrame DEF HandleReset, BeginHandleReset, EndHandleReset, callVars
<1>2. CASE Tick \/ UNCHANGED vars
  BY <1>2, AnswerFrame DEF Tick, vars, requestVars, callVars
<1> QED
  BY <1>1, <1>2, InvokeAnswer, RespondAnswer, CallOnceAnswer, DoWorkAnswer, DestroyAnswer,
     ExitAnswer DEF Next

\* Every reachable state satisfies AnswerInv.
THEOREM AnswerInvariance == Spec => []AnswerInv
  BY InitAnswerInv, NextAnswerInv, TypeInvariance, PTL DEF Spec

\* No request that invokeMethod() has returned from is ever forgotten, whatever clients
\* are destroyed and whether or not the process exits: until it is answered, it is in
\* the queue, with the worker, or with the destructor of its client.
THEOREM NeverForgotten == Spec => []Tracked
<1>1. ASSUME TypeInv, AnswerInv PROVE Tracked
  <2>1. ASSUME NEW r \in Requests, invocation[r] = "done", once[r] = "unset"
        PROVE  \/ \E i \in 1..Len(pending) : pending[i].req = r
               \/ HeldByWorker(r)
               \/ \E i \in 1..Len(client[ClientOf[r]].expire) :
                      client[ClientOf[r]].expire[i] = r
               \/ exec[ClientOf[r]] # Idle /\ exec[ClientOf[r]].req = r
    <3>1. Owned(r)
      BY <1>1, <2>1 DEF AnswerInv, TrackInv
    <3>2. Queued(r) => \E i \in 1..Len(pending) : pending[i].req = r
      BY DEF Queued, Items
    <3>3. r \in Items(client[ClientOf[r]].expire) =>
              \E i \in 1..Len(client[ClientOf[r]].expire) : client[ClientOf[r]].expire[i] = r
      BY DEF Items
    <3>4. Handles(ClientOf[r], r) => exec[ClientOf[r]] # Idle /\ exec[ClientOf[r]].req = r
      BY <2>1 DEF Handles, Calling, Idle
    <3> QED
      BY <3>1, <3>2, <3>3, <3>4 DEF Owned
  <2> QED
    BY <2>1 DEF Tracked
<1> QED
  BY <1>1, TypeInvariance, AnswerInvariance, PTL

\* When ~RpcClient() has returned, every request of the client has been answered, unless
\* the worker took it from the queue before.
THEOREM Settled == Spec => []SettledOnDestroy
<1>1. ASSUME AnswerInv PROVE SettledOnDestroy
  <2>1. ASSUME NEW r \in Requests, client[ClientOf[r]].at = "dead", invocation[r] = "done"
        PROVE  once[r] = "done" \/ HeldByWorker(r)
    <3>1. Owned(r)
      BY <1>1, <2>1 DEF AnswerInv, TrackInv
    <3>2. ~Queued(r)
      BY <1>1, <2>1, Apart DEF AnswerInv, ClientInv, EntryInv, Queued
    <3>3. Items(client[ClientOf[r]].expire) = {}
      <4>1. client[ClientOf[r]].expire = <<>>
        BY <1>1, <2>1, Apart DEF AnswerInv, ClientInv
      <4>2. Items(<<>>) = {}
        BY DEF Items
      <4> QED
        BY <4>1, <4>2, Zenon
    <3>4. Handles(ClientOf[r], r) => once[r] = "done"
      BY <1>1, <2>1, Apart DEF AnswerInv, ClientInv, Handles, Calling, Idle
    <3> QED
      BY <3>1, <3>2, <3>3, <3>4 DEF Owned
  <2> QED
    BY <2>1 DEF SettledOnDestroy
<1> QED
  BY <1>1, AnswerInvariance, PTL

-------------------------------------------------------------------------------
(***************************************************************************)
(* The clock.  The worker compares a deadline with a value of the clock    *)
(* that it read before it took the lock: an old one, never a future one.   *)
(***************************************************************************)

\* What the worker holds, or is expiring, has reached its deadline.
TimeInv ==
    /\ worker.now <= now
    /\ \A r \in Requests : HeldByWorker(r) => deadline[r] <= now
    /\ \A e \in Executors :
          exec[e].at # "idle" /\ exec[e].result = "deadline" =>
              invocation[exec[e].req] = "done" /\ deadline[exec[e].req] <= now

\* In the initial state nobody is in a call.
LEMMA InitTimeInv == Init => TimeInv
  BY DEF Init, TimeInv, HeldByWorker, Idle

\* Steps that start no call: invocations that have returned keep their deadlines, the
\* clock does not go back, and the worker takes nothing.
LEMMA TimeFrame ==
  ASSUME TypeInv, TimeInv, now' \in 0..MaxTime, now <= now', worker'.now <= now',
         \A r \in Requests : HeldByWorker(r)' => HeldByWorker(r),
         \A r \in Requests : invocation[r] = "done" => invocation'[r] = "done" /\ deadline'[r] = deadline[r],
         \A r \in Requests : HeldByWorker(r) => invocation[r] = "done",
         deadline' \in [Requests -> 0..MaxTime],
         \A e \in Executors : exec'[e].at # "idle" /\ exec'[e].result = "deadline" =>
             /\ exec[e].at # "idle" /\ exec'[e].req = exec[e].req
             /\ exec'[e].result = exec[e].result
  PROVE  TimeInv'
<1>1. /\ now \in 0..MaxTime /\ MaxTime \in Nat
      /\ \A r \in Requests : deadline[r] \in 0..MaxTime
  BY TimeAssumption DEF TypeInv, TypeOK
<1>2. ASSUME NEW r \in Requests, HeldByWorker(r)' PROVE deadline'[r] <= now'
  <2>1. deadline[r] <= now /\ deadline'[r] = deadline[r]
    BY <1>2 DEF TimeInv
  <2> QED
    BY <1>1, <2>1
<1>3. ASSUME NEW e \in Executors, exec'[e].at # "idle", exec'[e].result = "deadline"
      PROVE  invocation'[exec'[e].req] = "done" /\ deadline'[exec'[e].req] <= now'
  <2>1. exec[e].at # "idle" /\ exec'[e].req = exec[e].req /\ exec[e].result = "deadline"
    BY <1>3
  <2>2. exec[e].req \in Requests
    BY <2>1, CallTyped
  <2>3. invocation[exec[e].req] = "done" /\ deadline[exec[e].req] <= now
    BY <2>1 DEF TimeInv
  <2> QED
    BY <1>1, <2>1, <2>2, <2>3
<1> QED
  BY <1>2, <1>3 DEF TimeInv

\* A call with another result starts.
LEMMA TimeOfCall ==
  ASSUME TypeInv, TimeInv, AnswerInv, NEW e \in Executors, NEW r \in Requests,
         NEW result \in Results, result # "deadline",
         exec' = [exec EXCEPT ![e] = Call(r, result)],
         \A s \in Requests : invocation[s] = "done" => invocation'[s] = "done",
         UNCHANGED <<now, deadline, once, worker>>
  PROVE  TimeInv'
<1>1. /\ exec'[e].result = result
      /\ \A f \in Executors : f # e => exec'[f] = exec[f]
  <2>1. exec'[e] = Call(r, result) /\ \A f \in Executors : f # e => exec'[f] = exec[f]
    BY DEF TypeInv, TypeOK
  <2>2. Call(r, result).result = result
    BY CallIsCall
  <2> QED
    BY <2>1, <2>2
<1>2. \A s \in Requests : HeldByWorker(s)' <=> HeldByWorker(s)
  BY DEF HeldByWorker
<1>3. \A s \in Requests : HeldByWorker(s) => invocation[s] = "done"
  BY DEF HeldByWorker, AnswerInv, HoldInv
<1>4. /\ now' \in 0..MaxTime /\ now <= now' /\ worker'.now <= now'
      /\ deadline' \in [Requests -> 0..MaxTime]
  BY TimeAssumption DEF TypeInv, TypeOK, TimeInv
<1>5. ASSUME NEW f \in Executors, exec'[f].at # "idle", exec'[f].result = "deadline"
      PROVE  /\ exec[f].at # "idle" /\ exec'[f].req = exec[f].req
             /\ exec'[f].result = exec[f].result
  BY <1>1, <1>5
<1> QED
  BY <1>2, <1>3, <1>4, <1>5, TimeFrame

\* TimeInv is inductive.
LEMMA NextTimeInv ==
  ASSUME TypeInv, AnswerInv, TimeInv, [Next]_vars
  PROVE  TimeInv'
<1>0. /\ now \in 0..MaxTime /\ MaxTime \in Nat /\ worker \in Workers /\ worker.now <= now
      /\ worker.now \in 0..MaxTime /\ deadline \in [Requests -> 0..MaxTime]
      /\ exit \in Exits
      /\ client \in [Clients -> Tasks]
  BY TimeAssumption DEF TypeInv, TypeOK, TimeInv
<1>t. TypeInv'
  BY NextTypeInv
<1>n. now' \in 0..MaxTime /\ deadline' \in [Requests -> 0..MaxTime]
  BY <1>t DEF TypeInv, TypeOK
<1>h. \A r \in Requests : HeldByWorker(r) => invocation[r] = "done"
  BY DEF HeldByWorker, AnswerInv, HoldInv
<1>1. ASSUME UNCHANGED <<now, exec>>, worker'.now \in {0, now, worker.now},
             \A r \in Requests : HeldByWorker(r)' => HeldByWorker(r),
             \A r \in Requests : invocation[r] = "done" =>
                 invocation'[r] = "done" /\ deadline'[r] = deadline[r]
      PROVE  TimeInv'
  BY <1>0, <1>1, <1>n, <1>h, TimeFrame
<1>w. ASSUME UNCHANGED <<now, exec, worker>>,
             \A r \in Requests : invocation[r] = "done" =>
                 invocation'[r] = "done" /\ deadline'[r] = deadline[r]
      PROVE  TimeInv'
  BY <1>1, <1>w DEF HeldByWorker
<1>u. ASSUME UNCHANGED <<now, invocation, deadline, exec>>, worker'.at = worker.at,
             worker'.req = worker.req, worker'.now = worker.now
      PROVE  TimeInv'
  BY <1>1, <1>u DEF HeldByWorker
<1>2. ASSUME NEW r \in Requests, InvokeMethod(r) PROVE TimeInv'
  <2>1. ASSUME NEW from, NEW to, Step(r, from, to), from # "done"
        PROVE  \A s \in Requests : invocation[s] = "done" => s # r /\ invocation'[s] = "done"
    BY <2>1 DEF Step, TypeInv, TypeOK
  <2>2. CASE Invoke(r)
    <3>1. \A s \in Requests : invocation[s] = "done" => s # r /\ invocation'[s] = "done"
      BY <2>1, <2>2 DEF Invoke
    <3>2. \A s \in Requests : s # r => deadline'[s] = deadline[s]
      BY <1>0, <2>2 DEF Invoke
    <3> QED
      BY <1>w, <2>2, <3>1, <3>2 DEF Invoke, callVars
  <2>3. CASE RegisterListener(r) \/ Transmit(r) \/ SendSucceeds(r) \/ EndRelease(r)
    BY <1>w, <2>1, <2>3 DEF RegisterListener, Transmit, SendSucceeds, EndRelease, callVars
  <2>4. CASE BeginRelease(r)
    <3>1. PICK to : Step(r, "expiring", to)
      BY <2>4 DEF BeginRelease
    <3> QED
      BY <1>w, <2>1, <2>4, <3>1 DEF BeginRelease, callVars
  <2>5. CASE Enqueue(r)
    <3>1. worker'.at = worker.at /\ worker'.req = worker.req /\ worker'.now = worker.now
      BY <1>0, <2>5 DEF Enqueue, Notify, Workers
    <3>2. \A s \in Requests : HeldByWorker(s)' => HeldByWorker(s)
      BY <3>1 DEF HeldByWorker
    <3>3. \A s \in Requests : invocation[s] = "done" => invocation'[s] = "done"
      BY <2>1, <2>5 DEF Enqueue
    <3> QED
      BY <1>1, <2>5, <3>1, <3>2, <3>3 DEF Enqueue, callVars
  <2>6. CASE Fail(r)
    <3>1. \A s \in Requests : invocation[s] = "done" => invocation'[s] = "done"
      BY <2>1, <2>6 DEF Fail
    <3> QED
      BY <2>6, <3>1, Apart, TimeOfCall DEF Fail, Results
  <2>7. CASE Throw(r) \/ Unwind(r)
    <3>1. PICK from, to : Step(r, from, to) /\ from # "done"
      BY <2>7 DEF Throw, Unwind
    <3> QED
      BY <1>w, <2>1, <2>7, <3>1 DEF Throw, Unwind, callVars
  <2> QED
    BY <1>2, <2>2, <2>3, <2>4, <2>5, <2>6, <2>7 DEF InvokeMethod
<1>3. ASSUME NEW r \in Requests, HandleReset(r) PROVE TimeInv'
  BY <1>3, <1>w DEF HandleReset, BeginHandleReset, EndHandleReset, callVars
<1>4. ASSUME NEW t \in Threads, Respond(t) PROVE TimeInv'
  <2>1. PICK r \in Requests, result \in Answers : Deliver(t, r, r, result)
    BY <1>4 DEF Respond, Deliver, Matches
  <2>2. result \in Results /\ result # "deadline" /\ t \in Executors
    BY AnswersAssumption, Apart DEF Results
  <2> QED
    BY <2>1, <2>2, TimeOfCall DEF Deliver, requestVars
<1>5. ASSUME NEW e \in Executors, CallOnce(e) PROVE TimeInv'
  <2>1. \A f \in Executors : exec'[f].at # "idle" =>
               /\ exec[f].at # "idle" /\ exec'[f].req = exec[f].req
               /\ exec'[f].result = exec[f].result
    BY <1>5, CallGoesOn
  <2>2. UNCHANGED <<now, invocation, deadline, worker>>
    BY <1>5 DEF CallOnce, TakeOnce, SkipOnce, EnterCallback, SkipCallback, ReturnCallback,
       Finish, requestVars
  <2>3. \A r \in Requests : HeldByWorker(r)' => HeldByWorker(r)
    BY <2>2 DEF HeldByWorker
  <2> QED
    BY <1>0, <1>n, <1>h, <2>1, <2>2, <2>3, TimeFrame
<1>6. CASE DoWork
  <2>1. CASE WorkerLoop \/ WorkerInspect \/ WorkerWake \/ WorkerExpired
    <3>a. worker \in Workers /\ now \in 0..MaxTime
      BY <1>0 DEF TypeInv, TypeOK
    <3>b. WorkerLoop => worker'.at \notin {"sever", "expire"} /\ worker'.now \in {0, now, worker.now}
      BY <3>a DEF WorkerLoop, Workers
    <3>c. WorkerInspect => worker'.at \notin {"sever", "expire"} /\ worker'.now \in {0, now, worker.now}
      <4> SUFFICES ASSUME WorkerInspect
                   PROVE  worker'.at \notin {"sever", "expire"} /\ worker'.now \in {0, now, worker.now}
        OBVIOUS
      <4>1. \E wake : worker' = [worker EXCEPT !.at = "loop"]
                      \/ worker' = [worker EXCEPT !.at = "wait", !.wake = wake]
        BY DEF WorkerInspect
      <4> QED
        BY <3>a, <4>1 DEF Workers
    <3>d. WorkerWake => worker'.at \notin {"sever", "expire"} /\ worker'.now \in {0, now, worker.now}
      BY <3>a DEF WorkerWake, Workers
    <3>e. WorkerExpired => worker'.at \notin {"sever", "expire"} /\ worker'.now \in {0, now, worker.now}
      BY <3>a DEF WorkerExpired, Workers
    <3>1. worker'.at \notin {"sever", "expire"} /\ worker'.now \in {0, now, worker.now}
      BY <2>1, <3>b, <3>c, <3>d, <3>e
    <3> QED
      BY <1>1, <2>1, <3>1 DEF WorkerLoop, WorkerInspect, WorkerWake, WorkerExpired,
         HeldByWorker, requestVars, callVars
  <2>2. CASE WorkerTake /\ ~(pending # <<>> /\ pending[1].when <= worker.now)
    <3>1. worker'.at = "inspect" /\ worker'.now = 0
      BY <1>0, <2>2 DEF WorkerTake, Workers
    <3> QED
      BY <1>1, <2>2, <3>1 DEF WorkerTake, HeldByWorker, requestVars, callVars
  <2>3. CASE WorkerTake /\ pending # <<>> /\ pending[1].when <= worker.now
    <3>1. /\ worker'.at = "sever" /\ worker'.now = 0 /\ worker'.req = {pending[1].req}
          /\ UNCHANGED <<now, invocation, deadline, exec>>
      BY <1>0, <2>3 DEF WorkerTake, Workers, requestVars, callVars
    <3>2. pending[1] \in Items(pending) /\ pending \in Seq(Entries)
      <4>1. pending \in Seq(Entries)
        BY EntriesTyped
      <4> QED
        BY <2>3, <4>1, PopItems
    <3>3. pending[1].when = deadline[pending[1].req] /\ pending[1].req \in Requests
      BY <3>2, EntriesTyped DEF AnswerInv, EntryInv
    <3>4. deadline[pending[1].req] <= now
      BY <1>0, <2>3, <3>3
    <3>5. \A r \in Requests : HeldByWorker(r)' => deadline'[r] <= now'
      BY <3>1, <3>4 DEF HeldByWorker
    <3>6. worker'.now <= now'
      BY <1>0, <3>1
    <3> QED
      BY <3>1, <3>5, <3>6 DEF TimeInv
  <2>4. ASSUME NEW r \in Requests, WorkerBeginSever(r) PROVE TimeInv'
    BY <1>w, <2>4 DEF WorkerBeginSever, requestVars, callVars
  <2>5. ASSUME NEW r \in Requests, WorkerEndSever(r) PROVE TimeInv'
    <3>1. /\ worker.at = "sever" /\ worker.req = {r} /\ worker'.at = "expire"
          /\ worker'.req = {r} /\ worker'.now = worker.now
          /\ exec' = [exec EXCEPT ![Worker] = Call(r, "deadline")]
          /\ UNCHANGED <<now, invocation, deadline, once>>
      BY <1>0, <2>5 DEF WorkerEndSever, Workers, requestVars
    <3>2. exec'[Worker].req = r /\ \A f \in Executors : f # Worker => exec'[f] = exec[f]
      BY <3>1, Apart, CallStarts DEF Results
    <3>3. HeldByWorker(r) /\ invocation[r] = "done" /\ deadline[r] <= now
      BY <1>h, <3>1 DEF HeldByWorker, TimeInv
    <3>4. \A s \in Requests : HeldByWorker(s)' => HeldByWorker(s)
      BY <3>1 DEF HeldByWorker
    <3> QED
      BY <3>1, <3>2, <3>3, <3>4 DEF TimeInv
  <2> QED
    BY <1>6, <2>1, <2>2, <2>3, <2>4, <2>5 DEF DoWork
<1>7. ASSUME NEW k \in Clients, Destroy(k) \/ DestroyClient(k) PROVE TimeInv'
  <2>1. CASE Destroy(k) \/ ScrubQueue(k) \/ BeginScrubSever(k) \/ EndScrubSever(k)
             \/ Destroyed(k)
    BY <1>w, <2>1 DEF Destroy, ScrubQueue, BeginScrubSever, EndScrubSever, Destroyed,
       requestVars, callVars
  <2>2. CASE ScrubUnlock(k)
    <3>1. worker'.at = worker.at /\ worker'.req = worker.req /\ worker'.now = worker.now
      BY <1>0, <2>2 DEF ScrubUnlock, Notify, Workers
    <3> QED
      BY <1>u, <2>2, <3>1 DEF ScrubUnlock, requestVars, callVars
  <2>3. CASE ScrubExpire(k)
    <3>1. PICK r : r = Head(client[k].expire)
      OBVIOUS
    <3>2. r \in Requests
      <4>1. client[k].expire \in Seq(Requests) /\ client[k].expire # <<>>
        BY <1>0, <2>3 DEF ScrubExpire, Tasks
      <4> QED
        BY <3>1, <4>1, HeadTail
    <3>3. /\ exec' = [exec EXCEPT ![k] = Call(r, "cancelled")]
          /\ UNCHANGED <<now, invocation, deadline, once, worker>>
      BY <2>3, <3>1 DEF ScrubExpire, requestVars
    <3> QED
      BY <3>2, <3>3, Apart, TimeOfCall DEF Results
  <2> QED
    BY <1>7, <2>1, <2>2, <2>3 DEF DestroyClient
<1>8. CASE Exit \/ ExitProcess
  <2>1. CASE Exit \/ ExitJoin \/ ExitRelease \/ BeginExitSever \/ EndExitSever
    BY <1>w, <2>1 DEF Exit, ExitJoin, ExitRelease, BeginExitSever, EndExitSever,
       requestVars, callVars
  <2>2. CASE ExitNotify
    <3>1. worker'.at = worker.at /\ worker'.req = worker.req /\ worker'.now = worker.now
      BY <1>0, <2>2 DEF ExitNotify, Notify, Workers
    <3> QED
      BY <1>u, <2>2, <3>1 DEF ExitNotify, requestVars, callVars
  <2>3. CASE ExitExpire
    <3>1. PICK r : r = Head(exit.expire)
      OBVIOUS
    <3>2. r \in Requests
      <4>1. exit.expire \in Seq(Requests) /\ exit.expire # <<>>
        BY <1>0, <2>3 DEF ExitExpire, Exits
      <4> QED
        BY <3>1, <4>1, HeadTail
    <3>3. /\ exec' = [exec EXCEPT ![Main] = Call(r, "internal")]
          /\ UNCHANGED <<now, invocation, deadline, once, worker>>
      BY <2>3, <3>1 DEF ExitExpire, requestVars
    <3> QED
      BY <3>2, <3>3, Apart, TimeOfCall DEF Results
  <2> QED
    BY <1>8, <2>1, <2>2, <2>3 DEF ExitProcess
<1>9. CASE Tick
  <2>1. now' = now + 1 /\ UNCHANGED <<invocation, deadline, exec, worker>>
    BY <1>9 DEF Tick, requestVars, callVars
  <2>2. now <= now' /\ worker'.now <= now'
    BY <1>0, <2>1
  <2>3. \A r \in Requests : HeldByWorker(r)' => HeldByWorker(r)
    BY <2>1 DEF HeldByWorker
  <2> QED
    BY <1>n, <1>h, <2>1, <2>2, <2>3, TimeFrame
<1>10. CASE UNCHANGED vars
  BY <1>w, <1>10 DEF vars, requestVars, callVars
<1> QED
  BY <1>2, <1>3, <1>4, <1>5, <1>6, <1>7, <1>8, <1>9, <1>10 DEF Next

\* DEADLINE_EXCEEDED never reaches a callback before the request's TTL is over: what
\* enters a callback with that result has been through the worker.
THEOREM NotTooEarly == Spec => DeadlineNotEarly
<1> DEFINE Early == \A r \in Requests :
                        In(r, "callback") = {} =>
                            \A e \in Executors :
                                e \in In(r, "callback")' /\ exec'[e].result = "deadline"
                                    => now >= deadline[r]
<1>1. ASSUME TypeInv, TimeInv, [Next]_vars PROVE Early
  <2> SUFFICES ASSUME NEW r \in Requests, In(r, "callback") = {}, NEW e \in Executors,
                      e \in In(r, "callback")', exec'[e].result = "deadline"
               PROVE  now >= deadline[r]
    OBVIOUS
  <2>1. exec'[e].at = "callback" /\ exec'[e].req = r /\ exec[e] # exec'[e]
    BY DEF In
  <2>2. /\ now \in 0..MaxTime /\ MaxTime \in Nat /\ deadline[r] \in 0..MaxTime
        /\ exec = [f \in Executors |-> exec[f]]
    BY <1>1, TimeAssumption DEF TypeInv, TypeOK
  <2>3. PICK f \in Executors : CallOnce(f)
    <3>1. ASSUME NEW f \in Executors, NEW s, NEW result,
                 exec' = [exec EXCEPT ![f] = Call(s, result)]
          PROVE  FALSE
      <4>1. \A g \in Executors : exec'[g] = IF g = f THEN Call(s, result) ELSE exec[g]
        BY <2>2, <3>1
      <4>2. Call(s, result).at = "once"
        BY DEF Call
      <4> QED
        BY <2>1, <4>1, <4>2
    <3>2. ASSUME exec' = exec PROVE FALSE
      BY <2>1, <3>2
    <3>3. ASSUME NEW s \in Requests, InvokeMethod(s) \/ HandleReset(s) PROVE FALSE
      <4>1. CASE Fail(s)
        BY <3>1, <4>1, Apart DEF Fail
      <4> QED
        BY <3>2, <3>3, <4>1 DEF InvokeMethod, HandleReset, Invoke, RegisterListener, Transmit,
           SendSucceeds, BeginRelease, EndRelease, Throw, Unwind, Enqueue, BeginHandleReset,
           EndHandleReset, callVars
    <3>4. ASSUME NEW t \in Threads, Respond(t) PROVE FALSE
      <4>1. PICK s \in Requests, result \in Answers : Deliver(t, s, s, result)
        BY <3>4 DEF Respond, Deliver, Matches
      <4> QED
        BY <3>1, <4>1, Apart DEF Deliver
    <3>5. ASSUME DoWork PROVE FALSE
      <4>1. ASSUME NEW s \in Requests, WorkerEndSever(s) PROVE FALSE
        BY <3>1, <4>1, Apart DEF WorkerEndSever
      <4> QED
        BY <3>2, <3>5, <4>1 DEF DoWork, WorkerLoop, WorkerTake, WorkerExpired, WorkerInspect,
           WorkerWake, WorkerBeginSever, callVars
    <3>6. ASSUME NEW k \in Clients, Destroy(k) \/ DestroyClient(k) PROVE FALSE
      <4>1. CASE ScrubExpire(k)
        BY <3>1, <4>1, Apart DEF ScrubExpire
      <4> QED
        BY <3>2, <3>6, <4>1 DEF Destroy, DestroyClient, ScrubQueue, BeginScrubSever,
           EndScrubSever, ScrubUnlock, Destroyed, callVars
    <3>7. ASSUME Exit \/ ExitProcess PROVE FALSE
      <4>1. CASE ExitExpire
        BY <3>1, <4>1, Apart DEF ExitExpire
      <4> QED
        BY <3>2, <3>7, <4>1 DEF Exit, ExitProcess, ExitNotify, ExitJoin, ExitRelease,
           BeginExitSever, EndExitSever, callVars
    <3>8. ASSUME Tick \/ UNCHANGED vars PROVE FALSE
      BY <3>2, <3>8 DEF Tick, vars, callVars
    <3> QED
      BY <1>1, <3>3, <3>4, <3>5, <3>6, <3>7, <3>8 DEF Next
  <2>4. /\ exec[e].at # "idle" /\ exec'[e].req = exec[e].req
        /\ exec'[e].result = exec[e].result
    BY <1>1, <2>1, <2>3, CallGoesOn
  <2>5. deadline[r] <= now
    BY <1>1, <2>1, <2>4 DEF TimeInv
  <2> QED
    BY <2>2, <2>5
<1>2. Spec => []TimeInv
  BY InitTimeInv, NextTimeInv, TypeInvariance, AnswerInvariance, PTL DEF Spec
<1>3. TypeInv /\ TimeInv /\ [Next]_vars => [Early]_vars
  BY <1>1
<1> QED
  BY <1>2, <1>3, TypeInvariance, PTL DEF Spec, DeadlineNotEarly

-------------------------------------------------------------------------------
(***************************************************************************)
(* The sleeping worker.  Whatever the queue looks like, the worker sleeps  *)
(* for its top, and for no other.  The top is the earliest request as long *)
(* as the queue is a heap: emplace() and pop() keep it one, and scrub()    *)
(* does if it leaves no two requests.                                      *)
(***************************************************************************)

\* Whichever client is destroyed, at most one request is left: the process has one
\* RpcClient, or two with one request each.
FewSurvivors ==
    \A k \in Clients : \A r, s \in Requests : ClientOf[r] # k /\ ClientOf[s] # k => r = s

\* No request is in the queue twice.
Distinct(q) == \A i, j \in 1..Len(q) : q[i].req = q[j].req => i = j

\* While the worker sleeps and no notification is on its way, it sleeps no longer than the
\* earliest pending request allows.
NeverOversleeps ==
    worker.at = "wait" /\ ~worker.notified =>
        \A i \in 1..Len(pending) :
            worker.wake # Never /\ worker.wake <= pending[i].when

ArmInv == IsHeap(pending) /\ Distinct(pending) /\ NeverOversleeps

\* Some of the elements of a queue, each taken once
LEMMA DrawnDistinct ==
  ASSUME NEW u, NEW q, NEW S, Drawn(u, q, S), S \subseteq 1..Len(q), Distinct(q)
  PROVE  Distinct(u)
<1>1. PICK f : DrawnBy(u, q, S, f)
  BY DEF Drawn
<1>2. ASSUME NEW j \in 1..Len(u) PROVE f[j] \in 1..Len(q) /\ u[j] = q[f[j]]
  BY <1>1 DEF DrawnBy
<1>3. \A i, j \in 1..Len(u) : f[i] = f[j] => i = j
  BY <1>1 DEF DrawnBy
<1>4. ASSUME NEW i \in 1..Len(u), NEW j \in 1..Len(u), u[i].req = u[j].req PROVE i = j
  <2>1. /\ f[i] \in 1..Len(q) /\ f[j] \in 1..Len(q)
        /\ q[f[i]].req = q[f[j]].req
    BY <1>2, <1>4
  <2>2. f[i] = f[j]
    BY <2>1, Zenon DEF Distinct
  <2> QED
    BY <1>3, <2>2
<1> QED
  BY <1>4 DEF Distinct

\* Deadlines can be compared.
LEMMA DeadlinesComparable == \A p \in Entries : p.when \in Int
  BY TimeAssumption DEF Entries

\* The queue stays, and the worker sleeps as before or not at all.
LEMMA ArmFrame ==
  ASSUME ArmInv, UNCHANGED pending, worker' = worker \/ worker'.at # "wait"
  PROVE  ArmInv'
  BY DEF ArmInv, NeverOversleeps, IsHeap, Later, Distinct

\* A notification reaches a worker that sleeps.
LEMMA ArmNotify ==
  ASSUME TypeInv, Notify
  PROVE  worker'.at = "wait" => worker'.notified
  BY DEF TypeInv, Workers, Notify

\* doWork() goes to sleep, or on sleeping, only for the earliest request.
LEMMA DoWorkArm ==
  ASSUME TypeInv, ArmInv, DoWork
  PROVE  ArmInv'
<1>0. /\ worker \in Workers /\ pending \in Seq(Entries) /\ MaxTime \in Nat
      /\ IsHeap(pending) /\ Distinct(pending)
  BY EntriesTyped, TimeAssumption DEF TypeInv, ArmInv
<1>1. ASSUME NEW i \in 1..Len(pending)
      PROVE  /\ pending # <<>> /\ pending[1] \in Entries /\ pending[i] \in Entries
             /\ pending[1].when # Never /\ pending[1].when <= pending[i].when
  <2>1. ~Later(pending[1], pending[i])
    BY <1>0, TopEarliest, DeadlinesComparable
  <2>2. pending # <<>> /\ pending[1] \in Entries /\ pending[i] \in Entries
    BY <1>0
  <2>3. pending[1].when \in 0..MaxTime /\ pending[i].when \in 0..MaxTime
    BY <2>2 DEF Entries
  <2> QED
    BY <1>0, <2>1, <2>2, <2>3 DEF Later, Never
<1>2. CASE WorkerLoop \/ WorkerExpired \/ \E r \in Requests : WorkerBeginSever(r) \/ WorkerEndSever(r)
  <2>1. UNCHANGED pending
    BY <1>2 DEF WorkerLoop, WorkerExpired, WorkerBeginSever, WorkerEndSever
  <2>2. worker' = worker \/ worker'.at # "wait"
    BY <1>0, <1>2 DEF WorkerLoop, WorkerExpired, WorkerBeginSever, WorkerEndSever, Workers
  <2> QED
    BY <2>1, <2>2, ArmFrame
<1>3. CASE WorkerTake
  <2>1. worker'.at # "wait"
    BY <1>0, <1>3 DEF WorkerTake, Workers
  <2>2. pending' = pending \/ (pending # <<>> /\ pending' = Pop(pending))
    BY <1>3 DEF WorkerTake
  <2>3. IsHeap(pending')
    BY <1>0, <2>2, PopDrawn, DeadlinesComparable
  <2>4. Distinct(pending')
    <3>1. CASE pending # <<>> /\ pending' = Pop(pending)
      <4>1. Drawn(Pop(pending), pending, 2..Len(pending))
        BY <1>0, <3>1, PopDrawn
      <4>2. 2..Len(pending) \subseteq 1..Len(pending)
        BY <1>0
      <4> QED
        BY <1>0, <3>1, <4>1, <4>2, DrawnDistinct
    <3> QED
      BY <1>0, <2>2, <3>1
  <2> QED
    BY <2>1, <2>3, <2>4 DEF ArmInv, NeverOversleeps
<1>4. CASE WorkerInspect
  <2> DEFINE wake == IF pending = <<>> THEN Never ELSE pending[1].when
  <2>1. UNCHANGED pending
    BY <1>4 DEF WorkerInspect
  <2>2. worker' = [worker EXCEPT !.at = "loop"]
        \/ worker' = [worker EXCEPT !.at = "wait", !.wake = wake]
    BY <1>4 DEF WorkerInspect
  <2>3. CASE worker' = [worker EXCEPT !.at = "loop"]
    <3>1. worker'.at # "wait"
      BY <1>0, <2>3 DEF Workers
    <3> QED
      BY <2>1, <3>1, ArmFrame
  <2>4. CASE worker' = [worker EXCEPT !.at = "wait", !.wake = wake]
    <3>1. worker'.wake = wake
      BY <1>0, <2>4 DEF Workers
    <3>2. \A i \in 1..Len(pending) : wake # Never /\ wake <= pending[i].when
      BY <1>1
    <3> QED
      BY <1>0, <2>1, <3>1, <3>2 DEF ArmInv, NeverOversleeps
  <2> QED
    BY <2>2, <2>3, <2>4
<1>5. CASE WorkerWake
  <2>1. UNCHANGED pending
    BY <1>5 DEF WorkerWake
  <2>2. CASE ShouldWake(worker.wake)
    <3>1. worker' = [worker EXCEPT !.at = "loop", !.wake = Never, !.notified = FALSE]
      BY <1>5, <2>2 DEF WorkerWake
    <3>2. worker'.at # "wait"
      BY <1>0, <3>1 DEF Workers
    <3> QED
      BY <2>1, <3>2, ArmFrame
  <2>3. CASE ~ShouldWake(worker.wake)
    <3>1. worker' = [worker EXCEPT !.notified = FALSE]
      BY <1>5, <2>3 DEF WorkerWake
    <3>2. worker'.wake = worker.wake
      BY <1>0, <3>1 DEF Workers
    <3>3. pending # <<>> => worker.wake # Never /\ worker.wake = pending[1].when
      BY <2>3 DEF ShouldWake
    <3>4. \A i \in 1..Len(pending) : worker.wake # Never /\ worker.wake <= pending[i].when
      BY <1>1, <3>3
    <3> QED
      BY <1>0, <2>1, <3>2, <3>4 DEF ArmInv, NeverOversleeps
  <2> QED
    BY <2>2, <2>3
<1> QED
  BY <1>2, <1>3, <1>4, <1>5 DEF DoWork

\* scrub() leaves a queue that is too short to be out of order.
LEMMA ScrubArm ==
  ASSUME FewSurvivors, TypeInv, AnswerInv, ArmInv, NEW k \in Clients, ScrubQueue(k)
  PROVE  ArmInv'
<1> DEFINE q == Scrub(pending, k)
           S == {i \in 1..Len(pending) : pending[i].instance # k}
<1>0. pending \in Seq(Entries) /\ Distinct(pending) /\ NeverOversleeps
  BY EntriesTyped DEF ArmInv
<1>1. pending' = q /\ UNCHANGED worker
  BY DEF ScrubQueue
<1>2. /\ q \in Seq(Entries) /\ Items(q) = {p \in Items(pending) : p.instance # k}
      /\ Len(q) \in Nat
  BY <1>0, ScrubItems
<1>3. Drawn(q, pending, S \intersect 1..Len(pending))
  BY <1>0, SelectedDrawn DEF Scrub
<1>4. Distinct(q)
  BY <1>0, <1>3, DrawnDistinct
<1> HIDE DEF q, S
<1>5. ASSUME NEW i \in 1..Len(q)
      PROVE  q[i] \in Items(pending) /\ q[i].req \in Requests /\ ClientOf[q[i].req] # k
  <2>1. q[i] \in Items(q)
    BY DEF Items
  <2>2. q[i] \in Items(pending) /\ q[i].instance # k
    BY <1>2, <2>1
  <2> QED
    BY <2>2, EntriesTyped DEF AnswerInv, EntryInv
<1>6. \A i, j \in 1..Len(q) : i = j
  <2>1. ASSUME NEW i \in 1..Len(q), NEW j \in 1..Len(q) PROVE q[i].req = q[j].req
    BY <1>5 DEF FewSurvivors
  <2> QED
    BY <1>4, <2>1 DEF Distinct
<1>7. 2..Len(q) = {}
  <2>1. Len(q) < 2
    <3>1. Len(q) >= 2 => 1 \in 1..Len(q) /\ 2 \in 1..Len(q)
      BY <1>2
    <3> QED
      BY <1>2, <1>6, <3>1
  <2> QED
    BY <1>2, <2>1
<1>8. IsHeap(q)
  BY <1>7 DEF IsHeap
<1>9. ASSUME worker.at = "wait", ~worker.notified, NEW i \in 1..Len(q)
      PROVE  worker.wake # Never /\ worker.wake <= q[i].when
  <2>1. PICK j \in 1..Len(pending) : q[i] = pending[j]
    BY <1>5 DEF Items
  <2> QED
    BY <1>0, <1>9, <2>1 DEF NeverOversleeps
<1>10. NeverOversleeps'
  BY <1>1, <1>9 DEF NeverOversleeps
<1> QED
  BY <1>1, <1>4, <1>8, <1>10 DEF ArmInv

\* Every step of the process keeps the queue a heap and the worker armed.
LEMMA NextArmInv ==
  ASSUME FewSurvivors, TypeInv, AnswerInv, ArmInv, [Next]_vars
  PROVE  ArmInv'
<1>0. worker \in Workers /\ pending \in Seq(Entries) /\ IsHeap(pending) /\ Distinct(pending)
  BY EntriesTyped DEF TypeInv, ArmInv
<1>1. ASSUME UNCHANGED <<pending, worker>> PROVE ArmInv'
  BY <1>1, ArmFrame
<1>2. ASSUME NEW r \in Requests, InvokeMethod(r) PROVE ArmInv'
  <2>1. CASE Enqueue(r)
    <3> DEFINE p == [req |-> r, when |-> deadline[r], instance |-> ClientOf[r]]
    <3>1. p \in Entries
      BY RequestsAssumption DEF Entries, TypeInv, TypeOK
    <3>2. pending' = Emplace(pending, p)
      BY <2>1 DEF Enqueue
    <3> HIDE DEF p
    <3>3. IsHeap(pending')
      BY <1>0, <3>1, <3>2, EmplaceDrawn, DeadlinesComparable
    <3>4. worker'.at = "wait" => worker'.notified
      BY <2>1, ArmNotify DEF Enqueue
    <3>5. invocation[r] = "enqueue" /\ p.req = r
      BY <2>1 DEF Enqueue, Step, p
    <3>6. \A i \in 1..Len(pending) : pending[i].req # r
      BY <3>5 DEF AnswerInv, EntryInv, Items
    <3>7. Distinct(Append(pending, p))
      BY <1>0, <3>1, <3>5, <3>6 DEF Distinct
    <3>8. Distinct(pending')
      <4>1. Drawn(Emplace(pending, p), Append(pending, p), 1..(Len(pending) + 1))
        BY <1>0, <3>1, EmplaceDrawn
      <4>2. Len(Append(pending, p)) = Len(pending) + 1
        BY <1>0, <3>1
      <4> QED
        BY <3>2, <3>7, <4>1, <4>2, DrawnDistinct
    <3> QED
      BY <3>3, <3>4, <3>8 DEF ArmInv, NeverOversleeps
  <2>2. CASE ~Enqueue(r)
    BY <1>1, <1>2, <2>2 DEF InvokeMethod, Invoke, RegisterListener, Transmit, SendSucceeds,
       Fail, BeginRelease, EndRelease, Throw, Unwind
  <2> QED
    BY <2>1, <2>2
<1>3. ASSUME NEW r \in Requests, HandleReset(r) PROVE ArmInv'
  BY <1>1, <1>3 DEF HandleReset, BeginHandleReset, EndHandleReset
<1>4. ASSUME NEW t \in Threads, Respond(t) PROVE ArmInv'
  BY <1>1, <1>4 DEF Respond, Deliver
<1>5. ASSUME NEW e \in Executors, CallOnce(e) PROVE ArmInv'
  BY <1>1, <1>5 DEF CallOnce, TakeOnce, SkipOnce, EnterCallback, SkipCallback, ReturnCallback,
     Finish
<1>6. CASE DoWork
  BY <1>6, DoWorkArm
<1>7. ASSUME NEW k \in Clients, Destroy(k) \/ DestroyClient(k) PROVE ArmInv'
  <2>1. CASE ScrubQueue(k)
    BY <2>1, ScrubArm
  <2>2. CASE ScrubUnlock(k)
    <3>1. worker'.at = "wait" => worker'.notified
      BY <2>2, ArmNotify DEF ScrubUnlock
    <3> QED
      BY <1>0, <2>2, <3>1 DEF ScrubUnlock, ArmInv, NeverOversleeps
  <2>3. CASE ~ScrubQueue(k) /\ ~ScrubUnlock(k)
    BY <1>1, <1>7, <2>3 DEF Destroy, DestroyClient, BeginScrubSever, EndScrubSever, ScrubExpire,
       Destroyed
  <2> QED
    BY <2>1, <2>2, <2>3
<1>8. CASE ExitProcess
  <2>1. CASE ExitNotify
    <3>1. worker'.at = "wait" => worker'.notified
      BY <2>1, ArmNotify DEF ExitNotify
    <3> QED
      BY <1>0, <2>1, <3>1 DEF ExitNotify, ArmInv, NeverOversleeps
  <2>2. CASE ExitRelease
    <3>1. pending' = <<>>
      BY <2>2 DEF ExitRelease
    <3>2. 1..Len(pending') = {} /\ 2..Len(pending') = {}
      BY <3>1
    <3> QED
      BY <3>2 DEF ArmInv, NeverOversleeps, IsHeap, Distinct
  <2>3. CASE ~ExitNotify /\ ~ExitRelease
    BY <1>1, <1>8, <2>3 DEF ExitProcess, ExitJoin, ExitExpire, BeginExitSever, EndExitSever
  <2> QED
    BY <2>1, <2>2, <2>3
<1>9. CASE Exit \/ Tick \/ UNCHANGED vars
  BY <1>1, <1>9 DEF Exit, Tick, vars
<1> QED
  BY <1>2, <1>3, <1>4, <1>5, <1>6, <1>7, <1>8, <1>9 DEF Next

\* As long as no scrub() leaves two requests behind, the worker sleeps no longer than the
\* earliest pending request allows, unless a notification is on its way.  (Two are enough
\* to be out of order: PendingQueueScrubOrder.)
THEOREM SleepsNoLonger ==
  ASSUME FewSurvivors
  PROVE  Spec => []NeverOversleeps
<1>1. Init => ArmInv
  BY DEF Init, ArmInv, NeverOversleeps, IsHeap, Distinct
<1>2. TypeInv /\ AnswerInv /\ ArmInv /\ [Next]_vars => ArmInv'
  BY NextArmInv
<1>3. ArmInv => NeverOversleeps
  BY DEF ArmInv
<1> QED
  BY <1>1, <1>2, <1>3, TypeInvariance, AnswerInvariance, PTL DEF Spec

\* Every step changes the top only with a notification, or before the lock is released.
LEMMA NextWorkerArmed ==
  ASSUME TypeInv, WorkerArmed, [Next]_vars
  PROVE  WorkerArmed'
<1>0. worker \in Workers /\ client \in [Clients -> Tasks]
  BY DEF TypeInv, TypeOK
<1>1. ASSUME UNCHANGED <<pending, worker>>, MutexFree' => MutexFree PROVE WorkerArmed'
  BY <1>1 DEF WorkerArmed
<1>2. ASSUME UNCHANGED <<pending, worker, client>> PROVE WorkerArmed'
  BY <1>1, <1>2 DEF MutexFree
<1>3. ASSUME Notify PROVE WorkerArmed'
  BY <1>3, ArmNotify DEF WorkerArmed
<1>4. ASSUME NEW r \in Requests, InvokeMethod(r) \/ HandleReset(r) PROVE WorkerArmed'
  <2>1. CASE Enqueue(r)
    BY <1>3, <2>1 DEF Enqueue
  <2> QED
    BY <1>2, <1>4, <2>1 DEF InvokeMethod, HandleReset, BeginHandleReset, EndHandleReset,
       Invoke, RegisterListener, Transmit, SendSucceeds, Fail, BeginRelease, EndRelease,
       Throw, Unwind
<1>5. ASSUME NEW t \in Threads, Respond(t) PROVE WorkerArmed'
  BY <1>2, <1>5 DEF Respond, Deliver
<1>6. ASSUME NEW e \in Executors, CallOnce(e) PROVE WorkerArmed'
  BY <1>2, <1>6 DEF CallOnce, TakeOnce, SkipOnce, EnterCallback, SkipCallback, ReturnCallback,
     Finish
<1>7. CASE DoWork
  <2>1. ASSUME worker'.at # "wait" PROVE WorkerArmed'
    BY <2>1 DEF WorkerArmed
  <2>2. CASE WorkerLoop \/ WorkerTake \/ WorkerExpired
    <3>1. worker'.at # "wait"
      BY <1>0, <2>2 DEF WorkerLoop, WorkerTake, WorkerExpired, Workers
    <3> QED
      BY <2>1, <3>1
  <2>3. ASSUME NEW r \in Requests, WorkerBeginSever(r) \/ WorkerEndSever(r) PROVE WorkerArmed'
    <3>1. worker'.at # "wait"
      BY <1>0, <2>3 DEF WorkerBeginSever, WorkerEndSever, Workers
    <3> QED
      BY <2>1, <3>1
  <2>4. CASE WorkerInspect
    <3> DEFINE wake == IF pending = <<>> THEN Never ELSE pending[1].when
    <3>1. UNCHANGED pending
      BY <2>4 DEF WorkerInspect
    <3>2. worker' = [worker EXCEPT !.at = "loop"]
          \/ worker' = [worker EXCEPT !.at = "wait", !.wake = wake]
      BY <2>4 DEF WorkerInspect
    <3>3. worker'.at # "wait" \/ worker'.wake = wake
      BY <1>0, <3>2 DEF Workers
    <3> QED
      BY <3>1, <3>3 DEF WorkerArmed
  <2>5. CASE WorkerWake
    <3>1. UNCHANGED pending
      BY <2>5 DEF WorkerWake
    <3>2. CASE ShouldWake(worker.wake)
      <4>1. worker' = [worker EXCEPT !.at = "loop", !.wake = Never, !.notified = FALSE]
        BY <2>5, <3>2 DEF WorkerWake
      <4>2. worker'.at # "wait"
        BY <1>0, <4>1 DEF Workers
      <4> QED
        BY <2>1, <4>2
    <3>3. CASE ~ShouldWake(worker.wake)
      <4>1. worker' = [worker EXCEPT !.notified = FALSE]
        BY <2>5, <3>3 DEF WorkerWake
      <4>2. worker'.wake = worker.wake
        BY <1>0, <4>1 DEF Workers
      <4>3. pending # <<>> => worker.wake = pending[1].when
        BY <3>3 DEF ShouldWake
      <4> QED
        BY <3>1, <4>2, <4>3 DEF WorkerArmed
    <3> QED
      BY <3>2, <3>3
  <2> QED
    BY <1>7, <2>2, <2>3, <2>4, <2>5 DEF DoWork
<1>8. ASSUME NEW k \in Clients, Destroy(k) \/ DestroyClient(k) PROVE WorkerArmed'
  <2>1. CASE ScrubQueue(k)
    <3>1. client'[k].at = "severing"
      BY <1>0, <2>1 DEF ScrubQueue
    <3>2. ~MutexFree'
      BY <3>1 DEF MutexFree
    <3> QED
      BY <3>2 DEF WorkerArmed
  <2>2. CASE ScrubUnlock(k)
    BY <1>3, <2>2 DEF ScrubUnlock
  <2>3. CASE BeginScrubSever(k)
    BY <1>2, <2>3 DEF BeginScrubSever
  <2>4. CASE EndScrubSever(k)
    <3>1. client'[k].at = "severing"
      BY <1>0, <2>4 DEF EndScrubSever, Tasks
    <3>2. ~MutexFree'
      BY <3>1 DEF MutexFree
    <3> QED
      BY <3>2 DEF WorkerArmed
  <2>5. CASE Destroy(k) \/ ScrubExpire(k) \/ Destroyed(k)
    <3>1. client[k].at # "severing" /\ \A j \in Clients : j # k => client'[j] = client[j]
      BY <1>0, <2>5 DEF Destroy, ScrubExpire, Destroyed
    <3>2. MutexFree' => MutexFree
      BY <3>1 DEF MutexFree
    <3>3. UNCHANGED <<pending, worker>>
      BY <2>5 DEF Destroy, ScrubExpire, Destroyed
    <3> QED
      BY <1>1, <3>2, <3>3
  <2> QED
    BY <1>8, <2>1, <2>2, <2>3, <2>4, <2>5 DEF DestroyClient
<1>9. CASE ExitProcess
  <2>1. CASE ExitNotify
    BY <1>3, <2>1 DEF ExitNotify
  <2>2. CASE ExitRelease
    BY <2>2 DEF ExitRelease, WorkerArmed
  <2> QED
    BY <1>2, <1>9, <2>1, <2>2 DEF ExitProcess, ExitJoin, ExitExpire, BeginExitSever, EndExitSever
<1>10. CASE Exit \/ Tick \/ UNCHANGED vars
  BY <1>2, <1>10 DEF Exit, Tick, vars
<1> QED
  BY <1>4, <1>5, <1>6, <1>7, <1>8, <1>9, <1>10 DEF Next

\* No wakeup is lost, with any number of clients: whenever the lock is free, a worker that
\* sleeps without a notification on its way sleeps for the top of the queue.
THEOREM ArmedForTop == Spec => []WorkerArmed
<1>1. Init => WorkerArmed
  BY DEF Init, WorkerArmed
<1>2. TypeInv /\ WorkerArmed /\ [Next]_vars => WorkerArmed'
  BY NextWorkerArmed
<1> QED
  BY <1>1, <1>2, TypeInvariance, PTL DEF Spec

-------------------------------------------------------------------------------
(***************************************************************************)
(* The response listeners.  The handle of a listener goes from the caller  *)
(* through the queue to whoever takes the request out of it, and is        *)
(* severed there; or scrub() assigns over it.                              *)
(***************************************************************************)

\* Somebody is going to sever the listener of r.
Severs(r) ==
    \/ Queued(r)
    \/ worker.at = "sever" /\ worker.req = {r}
    \/ r \in Items(client[ClientOf[r]].sever)
    \/ exit.at = "severing" /\ r \in Items(exit.sever)

\* What the gate of a listener is at each place of the invocation
GateOK(r) ==
    /\ invocation[r] \in {"idle", "register"} => listenerGate[r] = "none"
    /\ invocation[r] \in {"send", "sent", "enqueue", "expiring"} =>
           listenerGate[r] \in {"none", "open"}
    /\ invocation[r] = "unwinding" => listenerGate[r] \in {"none", "closing"}
    /\ invocation[r] = "thrown" => listenerGate[r] \in {"none", "closed"}
    /\ invocation[r] = "done" => listenerGate[r] \in {"none", "closed", "dropped"} \/ Severs(r)

\* What the two destructors have to sever
SeverInv ==
    /\ \A k \in Clients : \A r \in Items(client[k].sever) : invocation[r] = "done"
    /\ exit.at \in {"expiring", "severing"} =>
           \A r \in Items(exit.sever) :
               client[ClientOf[r]].at = "alive" /\ invocation[r] = "done"
    /\ exit.at = "expiring" => \A p \in Items(pending) : p.req \in Items(exit.sever)
    /\ exit.at = "severing" => exit.sever # <<>>

ListenInv == SeverInv /\ \A r \in Requests : GateOK(r)

\* In the initial state there are no listeners.
LEMMA InitListenInv == Init => ListenInv
<1> SUFFICES ASSUME Init PROVE ListenInv
  OBVIOUS
<1>1. \A k \in Clients : client[k].sever = <<>>
  BY DEF Init
<1>2. Items(<<>>) = {}
  BY DEF Items
<1>3. \A k \in Clients : Items(client[k].sever) = {}
  BY <1>1, <1>2
<1> QED
  BY <1>3 DEF Init, ListenInv, SeverInv, GateOK

\* What is to be severed are requests.
LEMMA SeversRequests ==
  ASSUME TypeInv
  PROVE  /\ \A k \in Clients : \A r \in Items(client[k].sever) : r \in Requests
         /\ \A r \in Items(exit.sever) : r \in Requests
<1>1. ASSUME NEW s \in Seq(Requests) PROVE \A r \in Items(s) : r \in Requests
  BY DEF Items
<1>2. exit.sever \in Seq(Requests) /\ \A k \in Clients : client[k].sever \in Seq(Requests)
  BY DEF TypeInv, TypeOK, Tasks, Exits
<1> QED
  BY <1>1, <1>2

\* Steps that give the destructors nothing more to sever.
LEMMA SeverFrame ==
  ASSUME TypeInv, SeverInv,
         \A r \in Requests : invocation[r] = "done" => invocation'[r] = "done",
         \A k \in Clients : Items(client'[k].sever) \subseteq Items(client[k].sever),
         Stopped => /\ \A k \in Clients : client'[k].at = client[k].at
                    /\ Items(pending') \subseteq Items(pending),
         exit' = exit
  PROVE  SeverInv'
<1>1. /\ \A k \in Clients : \A r \in Items(client[k].sever) : r \in Requests
      /\ \A r \in Items(exit.sever) : r \in Requests /\ ClientOf[r] \in Clients
  BY SeversRequests, Apart
<1>2. \A k \in Clients : \A r \in Items(client'[k].sever) : invocation'[r] = "done"
  BY <1>1 DEF SeverInv
<1>3. exit.at \in {"expiring", "severing"} => Stopped
  BY DEF Stopped
<1>4. exit.at \in {"expiring", "severing"} =>
         \A r \in Items(exit.sever) : client'[ClientOf[r]].at = "alive" /\ invocation'[r] = "done"
  BY <1>1, <1>3 DEF SeverInv
<1>5. exit.at = "expiring" => \A p \in Items(pending') : p.req \in Items(exit.sever)
  BY <1>3 DEF SeverInv
<1> QED
  BY <1>2, <1>4, <1>5 DEF SeverInv

\* Steps that concern the listener of r, if any.
LEMMA GateFrame ==
  ASSUME ListenInv, SeverInv', NEW r,
         \A s \in Requests : s # r =>
             /\ invocation'[s] = invocation[s] /\ listenerGate'[s] = listenerGate[s]
             /\ Severs(s) => Severs(s)',
         r \in Requests => GateOK(r)'
  PROVE  ListenInv'
<1>1. ASSUME NEW s \in Requests PROVE GateOK(s)'
  <2>1. CASE s = r
    BY <2>1
  <2>2. CASE s # r
    <3>1. GateOK(s) /\ invocation'[s] = invocation[s] /\ listenerGate'[s] = listenerGate[s]
          /\ (Severs(s) => Severs(s)')
      BY <2>2 DEF ListenInv
    <3> QED
      BY <3>1 DEF GateOK
  <2> QED
    BY <2>1, <2>2
<1> QED
  BY <1>1 DEF ListenInv

\* invokeMethod() registers the listener, and hands it to the queue or severs it.
LEMMA InvokeListen ==
  ASSUME TypeInv, AnswerInv, ListenInv, NEW r \in Requests, InvokeMethod(r)
  PROVE  ListenInv'
<1>0. /\ invocation \in [Requests -> {"idle", "register", "send", "sent", "enqueue",
                                      "expiring", "closing", "unwinding", "done", "thrown"}]
      /\ listenerGate \in [Requests -> {"none", "open", "closing", "closed", "dropped"}]
      /\ pending \in Seq(Entries) /\ worker \in Workers
  BY EntriesTyped DEF TypeInv, TypeOK
<1>g. GateOK(r) /\ SeverInv
  BY DEF ListenInv
<1>s. invocation[r] \notin {"idle", "done", "thrown"} => ~Stopped
  BY DEF AnswerInv, InvocationInv
<1>1. ASSUME UNCHANGED <<pending, worker, client, exit>>,
             NEW from, Step(r, from, invocation'[r]), from # "done",
             \A s \in Requests : s # r => listenerGate'[s] = listenerGate[s],
             GateOK(r)'
      PROVE  ListenInv'
  <2>1. \A s \in Requests : s # r => invocation'[s] = invocation[s]
    BY <1>0, <1>1 DEF Step
  <2>2. \A s \in Requests : invocation[s] = "done" => invocation'[s] = "done"
    BY <1>1, <2>1 DEF Step
  <2>3. SeverInv'
    BY <1>1, <1>g, <2>2, SeverFrame
  <2>4. \A s \in Requests : Severs(s) => Severs(s)'
    BY <1>1 DEF Severs, Queued
  <2> QED
    BY <1>1, <2>1, <2>3, <2>4, GateFrame
<1>2. CASE Invoke(r)
  BY <1>0, <1>1, <1>2, <1>g DEF Invoke, Step, GateOK
<1>3. CASE RegisterListener(r)
  BY <1>0, <1>1, <1>3, <1>g DEF RegisterListener, Step, GateOK
<1>4. CASE Transmit(r)
  BY <1>0, <1>1, <1>4, <1>g DEF Transmit, Step, GateOK
<1>5. CASE SendSucceeds(r)
  BY <1>0, <1>1, <1>5, <1>g DEF SendSucceeds, Step, GateOK
<1>6. CASE Fail(r)
  BY <1>0, <1>1, <1>6, <1>g DEF Fail, Step, GateOK
<1>7. CASE BeginRelease(r)
  BY <1>0, <1>1, <1>7, <1>g DEF BeginRelease, Step, GateOK
<1>8. CASE EndRelease(r)
  BY <1>0, <1>1, <1>8, <1>g DEF EndRelease, Step, GateOK
<1>10. CASE Throw(r)
  BY <1>0, <1>1, <1>10, <1>g DEF Throw, Step, GateOK
<1>11. CASE Unwind(r)
  BY <1>0, <1>1, <1>11, <1>g DEF Unwind, Step, GateOK
<1>9. CASE Enqueue(r)
  <2> DEFINE p == [req |-> r, when |-> deadline[r], instance |-> ClientOf[r]]
  <2>1. p \in Entries /\ p.req = r
    BY RequestsAssumption DEF Entries, TypeInv, TypeOK
  <2>2. /\ pending' = Emplace(pending, p) /\ invocation[r] = "enqueue"
        /\ invocation' = [invocation EXCEPT ![r] = "done"]
        /\ UNCHANGED <<listenerGate, client, exit>>
    BY <1>9 DEF Enqueue, Step
  <2> HIDE DEF p
  <2>3. Items(pending') = Items(pending) \union {p}
    <3>1. Items(Emplace(pending, p)) = Items(pending) \union {p}
      BY <1>0, <2>1, EmplaceDrawn
    <3>2. pending' = Emplace(pending, p)
      BY <2>2
    <3> QED
      BY <3>1, <3>2, Zenon
  <2>4. worker'.at = worker.at /\ worker'.req = worker.req
    BY <1>0, <1>9 DEF Enqueue, Notify, Workers
  <2>5. \A s \in Requests : s # r => invocation'[s] = invocation[s]
    BY <1>0, <2>2
  <2>6. invocation'[r] = "done" /\ \A s \in Requests : invocation[s] = "done" => invocation'[s] = "done"
    BY <1>0, <2>2
  <2>7. ~Stopped
    BY <1>s, <2>2
  <2>8. SeverInv'
    BY <1>g, <2>2, <2>6, <2>7, SeverFrame
  <2>9. \A s \in Requests : Severs(s) => Severs(s)'
    BY <2>2, <2>3, <2>4 DEF Severs, Queued
  <2>10. GateOK(r)'
    BY <2>1, <2>3, <2>6 DEF GateOK, Severs, Queued
  <2> QED
    BY <2>2, <2>5, <2>8, <2>9, <2>10, GateFrame
<1> QED
  BY <1>2, <1>3, <1>4, <1>5, <1>6, <1>7, <1>8, <1>9, <1>10, <1>11 DEF InvokeMethod

\* doWork() severs what it takes.
LEMMA DoWorkListen ==
  ASSUME TypeInv, AnswerInv, ListenInv, DoWork
  PROVE  ListenInv'
<1>0. /\ listenerGate \in [Requests -> {"none", "open", "closing", "closed", "dropped"}]
      /\ pending \in Seq(Entries) /\ worker \in Workers
  BY EntriesTyped DEF TypeInv, TypeOK
<1>g. SeverInv /\ \A r \in Requests : GateOK(r)
  BY DEF ListenInv
<1>1. UNCHANGED <<invocation, client, exit>>
  BY DEF DoWork, WorkerLoop, WorkerTake, WorkerExpired, WorkerInspect, WorkerWake,
     WorkerBeginSever, WorkerEndSever, requestVars
<1>2. CASE WorkerLoop \/ WorkerExpired \/ WorkerInspect \/ WorkerWake
  <2>1. UNCHANGED <<pending, listenerGate>> /\ worker.at # "sever"
    BY <1>2 DEF WorkerLoop, WorkerExpired, WorkerInspect, WorkerWake
  <2>2. SeverInv'
    BY <1>1, <1>g, <2>1, SeverFrame
  <2>3. \A s \in Requests : Severs(s) => Severs(s)'
    BY <1>1, <2>1 DEF Severs, Queued
  <2>4. \A s \in Requests : GateOK(s)'
    BY <1>1, <1>g, <2>1, <2>3 DEF GateOK
  <2> QED
    BY <2>2, <2>4 DEF ListenInv
<1>3. CASE WorkerTake /\ ~(pending # <<>> /\ pending[1].when <= worker.now)
  <2>1. UNCHANGED <<pending, listenerGate>> /\ worker.at # "sever"
    BY <1>3 DEF WorkerTake
  <2>2. SeverInv'
    BY <1>1, <1>g, <2>1, SeverFrame
  <2>3. \A s \in Requests : Severs(s) => Severs(s)'
    BY <1>1, <2>1 DEF Severs, Queued
  <2>4. \A s \in Requests : GateOK(s)'
    BY <1>1, <1>g, <2>1, <2>3 DEF GateOK
  <2> QED
    BY <2>2, <2>4 DEF ListenInv
<1>4. CASE WorkerTake /\ pending # <<>> /\ pending[1].when <= worker.now
  <2>1. /\ UNCHANGED listenerGate /\ worker.at = "take" /\ pending' = Pop(pending)
        /\ worker' = [worker EXCEPT !.at = "sever", !.now = 0, !.req = {pending[1].req}]
    BY <1>4 DEF WorkerTake
  <2>2. worker'.at = "sever" /\ worker'.req = {pending[1].req}
    BY <1>0, <2>1 DEF Workers
  <2>3. Items(pending) = Items(pending') \union {pending[1]}
    BY <1>0, <1>4, <2>1, PopItems
  <2>4. SeverInv'
    BY <1>1, <1>g, <2>3, SeverFrame
  <2>5. \A s \in Requests : Queued(s) => Queued(s)' \/ s = pending[1].req
    BY <2>3 DEF Queued
  <2>6. \A s \in Requests : Severs(s) => Severs(s)'
    BY <1>1, <2>1, <2>2, <2>5 DEF Severs
  <2>7. \A s \in Requests : GateOK(s)'
    BY <1>1, <1>g, <2>1, <2>6 DEF GateOK
  <2> QED
    BY <2>4, <2>7 DEF ListenInv
<1>5. ASSUME NEW r \in Requests, WorkerBeginSever(r) \/ WorkerEndSever(r) PROVE ListenInv'
  <2>1. /\ UNCHANGED pending /\ worker.at = "sever" /\ worker.req = {r}
        /\ \A s \in Requests : s # r => listenerGate'[s] = listenerGate[s]
        /\ \/ worker' = worker
           \/ listenerGate'[r] = "closed"
    BY <1>0, <1>5 DEF WorkerBeginSever, WorkerEndSever
  <2>2. invocation[r] = "done"
    BY <2>1 DEF AnswerInv, HoldInv
  <2>3. SeverInv'
    BY <1>1, <1>g, <2>1, SeverFrame
  <2>4. \A s \in Requests : s # r /\ Severs(s) => Severs(s)'
    BY <1>1, <2>1 DEF Severs, Queued
  <2>5. GateOK(r)'
    BY <1>1, <2>1, <2>2 DEF GateOK, Severs
  <2> QED
    BY <1>1, <2>1, <2>3, <2>4, <2>5, GateFrame
<1> QED
  BY <1>2, <1>3, <1>4, <1>5 DEF DoWork

\* ~RpcClient() severs what its scrub() erased.
LEMMA DestroyListen ==
  ASSUME TypeInv, AnswerInv, ListenInv, NEW k \in Clients, Destroy(k) \/ DestroyClient(k)
  PROVE  ListenInv'
<1>0. /\ listenerGate \in [Requests -> {"none", "open", "closing", "closed", "dropped"}]
      /\ client \in [Clients -> Tasks] /\ client[k] \in Tasks
      /\ client[k].sever \in Seq(Requests) /\ pending \in Seq(Entries) /\ worker \in Workers
  BY EntriesTyped DEF TypeInv, TypeOK, Tasks
<1>c. client[k].at \notin {"alive", "dead"} => ~Stopped
  BY DEF AnswerInv, ClientInv
<1>g. SeverInv /\ \A r \in Requests : GateOK(r)
  BY DEF ListenInv
<1>1. ~Stopped /\ UNCHANGED <<invocation, exit>>
  BY <1>c DEF Destroy, DestroyClient, ScrubQueue, BeginScrubSever, EndScrubSever, ScrubUnlock,
     ScrubExpire, Destroyed, requestVars
<1>2. CASE Destroy(k) \/ ScrubUnlock(k) \/ ScrubExpire(k) \/ Destroyed(k)
  <2>1. UNCHANGED <<pending, listenerGate>>
    BY <1>2 DEF Destroy, ScrubUnlock, ScrubExpire, Destroyed
  <2>2. worker'.at = worker.at /\ worker'.req = worker.req
    BY <1>0, <1>2 DEF Destroy, ScrubUnlock, ScrubExpire, Destroyed, Notify, Workers
  <2>3. client'[k].sever = client[k].sever /\ \A j \in Clients : j # k => client'[j] = client[j]
    BY <1>0, <1>2 DEF Destroy, ScrubUnlock, ScrubExpire, Destroyed, Tasks
  <2>4. \A j \in Clients : client'[j].sever = client[j].sever
    BY <2>3
  <2>5. SeverInv'
    BY <1>1, <1>g, <2>4, SeverFrame
  <2>6. \A s \in Requests : Severs(s) => Severs(s)'
    BY <1>1, <2>1, <2>2, <2>4, Apart DEF Severs, Queued
  <2>7. \A s \in Requests : GateOK(s)'
    BY <1>1, <1>g, <2>1, <2>6 DEF GateOK
  <2> QED
    BY <2>5, <2>7 DEF ListenInv
<1>3. CASE ScrubQueue(k)
  <2> DEFINE task == [at |-> "severing", expire |-> ReqsOf(AllExpired(pending, k)),
                      sever |-> ReqsOf(Erased(pending, k))]
  <2>1. /\ client[k].at = "locking" /\ pending' = Scrub(pending, k)
        /\ client' = [client EXCEPT ![k] = task] /\ UNCHANGED worker
        /\ \A s \in Requests :
              listenerGate'[s] = IF \E p \in Overwritten(pending, k) : p.req = s
                                 THEN "dropped" ELSE listenerGate[s]
    BY <1>3 DEF ScrubQueue
  <2>2. task.sever = ReqsOf(Erased(pending, k))
    OBVIOUS
  <2> HIDE DEF task
  <2>3. client'[k] = task /\ \A j \in Clients : j # k => client'[j] = client[j]
    BY <1>0, <2>1
  <2>4. Items(Scrub(pending, k)) = {p \in Items(pending) : p.instance # k}
    BY <1>0, ScrubItems
  <2>5. Items(pending') = {p \in Items(pending) : p.instance # k}
    BY <2>1, <2>4, Zenon
  <2>6. /\ Erased(pending, k) \in Seq(Entries)
        /\ Items(Erased(pending, k)) \subseteq {p \in Items(pending) : p.instance = k}
        /\ \A p \in Items(pending) : p.instance = k =>
              p \in Overwritten(pending, k) \/ p \in Items(Erased(pending, k))
    BY <1>0, ErasedItems
  <2>7. Items(client'[k].sever) = {p.req : p \in Items(Erased(pending, k))}
    BY <2>2, <2>3, <2>6, ReqsOfItems
  <2>8. \A s \in Items(client'[k].sever) : invocation[s] = "done"
    BY <2>6, <2>7 DEF AnswerInv, EntryInv
  <2>9. SeverInv'
    BY <1>1, <1>g, <2>3, <2>8 DEF SeverInv, Stopped
  <2>10. client[k].sever = <<>> /\ exit.at = "running"
    BY <1>1, <2>1 DEF AnswerInv, ClientInv, Stopped
  <2>11. Items(client[k].sever) = {}
    BY <2>10 DEF Items
  <2>o. \A s \in Requests :
          Queued(s) => \/ Queued(s)' \/ listenerGate'[s] = "dropped"
                       \/ s \in Items(client'[k].sever) /\ ClientOf[s] = k
    <3> SUFFICES ASSUME NEW s \in Requests, NEW p \in Items(pending), p.req = s
                 PROVE  \/ Queued(s)' \/ listenerGate'[s] = "dropped"
                        \/ s \in Items(client'[k].sever) /\ ClientOf[s] = k
      BY DEF Queued
    <3>1. CASE p.instance # k
      BY <2>5, <3>1 DEF Queued
    <3>2. CASE p.instance = k /\ p \in Overwritten(pending, k)
      BY <2>1, <3>2
    <3>3. CASE p.instance = k /\ p \in Items(Erased(pending, k))
      BY <2>7, <3>3 DEF AnswerInv, EntryInv
    <3> QED
      BY <2>6, <3>1, <3>2, <3>3
  <2>12. \A s \in Requests : Severs(s) => Severs(s)' \/ listenerGate'[s] = "dropped"
    BY <1>1, <2>1, <2>3, <2>10, <2>11, <2>o, Apart DEF Severs
  <2>13. \A s \in Requests : (\E p \in Overwritten(pending, k) : p.req = s) => invocation[s] = "done"
    <3>1. \A p \in Overwritten(pending, k) : p \in Items(pending)
      <4>1. Len(Scrub(pending, k)) <= Len(pending) /\ Scrub(pending, k) \in Seq(Entries)
        BY <1>0, ScrubItems
      <4>2. 1..Len(Scrub(pending, k)) \subseteq 1..Len(pending)
        BY <1>0, <4>1
      <4> QED
        BY <4>2 DEF Overwritten, Items
    <3> QED
      BY <3>1 DEF AnswerInv, EntryInv
  <2>14. \A s \in Requests : GateOK(s)'
    BY <1>1, <1>g, <2>1, <2>12, <2>13 DEF GateOK
  <2> QED
    BY <2>9, <2>14 DEF ListenInv
<1>4. CASE BeginScrubSever(k) \/ EndScrubSever(k)
  <2>h. PICK h : h = Head(client[k].sever)
    OBVIOUS
  <2>1. /\ client[k].sever # <<>> /\ UNCHANGED <<pending, worker>>
        /\ \A s \in Requests : s # h => listenerGate'[s] = listenerGate[s]
        /\ \/ client' = client
           \/ /\ client' = [client EXCEPT ![k].sever = Tail(client[k].sever)]
              /\ h \in Requests => listenerGate'[h] = "closed"
    BY <1>0, <1>4, <2>h DEF BeginScrubSever, EndScrubSever
  <2>2. /\ h \in Requests /\ h \in Items(client[k].sever)
        /\ Items(client[k].sever) = Items(Tail(client[k].sever)) \union {h}
    BY <1>0, <2>1, <2>h, HeadTail
  <2>3. invocation[h] = "done"
    BY <1>g, <2>2 DEF SeverInv
  <2>4. /\ \A j \in Clients : j # k => client'[j] = client[j]
        /\ \/ client'[k].sever = client[k].sever
           \/ client'[k].sever = Tail(client[k].sever) /\ listenerGate'[h] = "closed"
    BY <1>0, <2>1, <2>2 DEF Tasks
  <2>5. /\ \A j \in Clients : Items(client'[j].sever) \subseteq Items(client[j].sever)
        /\ \A j \in Clients : \A s \in Items(client[j].sever) : s # h => s \in Items(client'[j].sever)
    BY <2>2, <2>4
  <2>6. SeverInv'
    BY <1>1, <1>g, <2>5, SeverFrame
  <2>7. \A s \in Requests : s # h /\ Severs(s) => Severs(s)'
    BY <1>1, <2>1, <2>5, Apart DEF Severs, Queued
  <2>8. GateOK(h)'
    <3>1. CASE listenerGate'[h] = "closed"
      BY <1>1, <2>3, <3>1 DEF GateOK
    <3>2. CASE client'[k].sever = client[k].sever
      <4>1. Severs(h) => Severs(h)'
        BY <1>1, <2>1, <2>4, <3>2, <2>2, Apart DEF Severs, Queued
      <4>2. listenerGate[h] # "none" /\ listenerGate[h] \notin {"closed", "dropped"}
        BY <1>4, <2>h DEF BeginScrubSever, EndScrubSever
      <4>3. Severs(h)
        BY <1>g, <2>2, <2>3, <4>2 DEF GateOK
      <4> QED
        BY <1>1, <2>3, <4>1, <4>3 DEF GateOK
    <3> QED
      BY <2>4, <3>1, <3>2
  <2> QED
    BY <1>1, <2>1, <2>6, <2>7, <2>8, GateFrame
<1> QED
  BY <1>2, <1>3, <1>4 DEF DestroyClient

\* ~ScrubablePendingQueue() severs what was left in the queue.
LEMMA ExitListen ==
  ASSUME TypeInv, AnswerInv, ListenInv, Exit \/ ExitProcess
  PROVE  ListenInv'
<1>0. /\ listenerGate \in [Requests -> {"none", "open", "closing", "closed", "dropped"}]
      /\ exit \in Exits /\ exit.sever \in Seq(Requests)
      /\ pending \in Seq(Entries) /\ worker \in Workers
  BY EntriesTyped DEF TypeInv, TypeOK, Exits
<1>g. SeverInv /\ \A r \in Requests : GateOK(r)
  BY DEF ListenInv
<1>1. UNCHANGED <<invocation, client>>
  BY DEF Exit, ExitProcess, ExitNotify, ExitJoin, ExitExpire, ExitRelease, BeginExitSever,
     EndExitSever, requestVars
<1>w. worker'.at = worker.at /\ worker'.req = worker.req
  BY <1>0 DEF Exit, ExitProcess, ExitNotify, ExitJoin, ExitExpire, ExitRelease, BeginExitSever,
     EndExitSever, Notify, Workers
<1>2. CASE Exit \/ ExitNotify
  <2>1. /\ UNCHANGED <<pending, listenerGate>> /\ exit.at # "severing"
        /\ exit'.at \in {"notifying", "joining"}
    BY <1>0, <1>2 DEF Exit, ExitNotify, Exits
  <2>2. SeverInv'
    BY <1>1, <1>g, <2>1 DEF SeverInv
  <2>3. \A s \in Requests : Severs(s) => Severs(s)'
    BY <1>1, <1>w, <2>1 DEF Severs, Queued
  <2>4. \A s \in Requests : GateOK(s)'
    BY <1>1, <1>g, <2>1, <2>3 DEF GateOK
  <2> QED
    BY <2>2, <2>4 DEF ListenInv
<1>3. CASE ExitJoin
  <2>1. /\ UNCHANGED <<pending, listenerGate>> /\ exit.at = "joining"
        /\ exit'.at = "expiring" /\ exit'.sever = ReqsOf(pending)
    BY <1>3 DEF ExitJoin
  <2>2. Items(exit'.sever) = {p.req : p \in Items(pending)}
    BY <1>0, <2>1, ReqsOfItems
  <2>3. ASSUME NEW p \in Items(pending)
        PROVE  client[ClientOf[p.req]].at = "alive" /\ invocation[p.req] = "done"
    <3>1. p.req \in Requests /\ p.instance = ClientOf[p.req] /\ invocation[p.req] = "done"
      BY EntriesTyped DEF AnswerInv, EntryInv
    <3>2. ClientOf[p.req] \in Clients
      BY <3>1, Apart
    <3>3. client[ClientOf[p.req]].at \in {"alive", "dead"} /\ client[ClientOf[p.req]].at # "dead"
      BY <2>1, <3>1, <3>2 DEF AnswerInv, ClientInv, Stopped
    <3> QED
      BY <3>1, <3>3
  <2>4. SeverInv'
    BY <1>1, <1>g, <2>1, <2>2, <2>3 DEF SeverInv
  <2>5. \A s \in Requests : Severs(s) => Severs(s)'
    BY <1>1, <1>w, <2>1 DEF Severs, Queued
  <2>6. \A s \in Requests : GateOK(s)'
    BY <1>1, <1>g, <2>1, <2>5 DEF GateOK
  <2> QED
    BY <2>4, <2>6 DEF ListenInv
<1>4. CASE ExitExpire
  <2>1. /\ UNCHANGED <<pending, listenerGate>> /\ exit'.at = exit.at /\ exit'.sever = exit.sever
    BY <1>0, <1>4 DEF ExitExpire, Exits
  <2>2. SeverInv'
    BY <1>1, <1>g, <2>1 DEF SeverInv
  <2>3. \A s \in Requests : Severs(s) => Severs(s)'
    BY <1>1, <1>w, <2>1 DEF Severs, Queued
  <2>4. \A s \in Requests : GateOK(s)'
    BY <1>1, <1>g, <2>1, <2>3 DEF GateOK
  <2> QED
    BY <2>2, <2>4 DEF ListenInv
<1>5. CASE ExitRelease
  <2>1. /\ UNCHANGED listenerGate /\ exit.at = "expiring" /\ pending' = <<>>
        /\ exit'.at = IF exit.sever = <<>> THEN "gone" ELSE "severing"
        /\ exit'.sever = exit.sever
    BY <1>0, <1>5 DEF ExitRelease, Exits
  <2>2. SeverInv'
    BY <1>1, <1>g, <2>1 DEF SeverInv
  <2>3. \A s \in Items(exit.sever) : exit'.at = "severing"
    BY <2>1 DEF Items
  <2>4. \A s \in Requests : Queued(s) => s \in Items(exit.sever)
    BY <1>g, <2>1 DEF SeverInv, Queued
  <2>5. \A s \in Requests : Severs(s) => Severs(s)'
    BY <1>1, <1>w, <2>1, <2>3, <2>4 DEF Severs
  <2>6. \A s \in Requests : GateOK(s)'
    BY <1>1, <1>g, <2>1, <2>5 DEF GateOK
  <2> QED
    BY <2>2, <2>6 DEF ListenInv
<1>6. CASE BeginExitSever \/ EndExitSever
  <2>h. PICK h : h = Head(exit.sever)
    OBVIOUS
  <2>1. /\ exit.at = "severing" /\ exit.sever # <<>> /\ UNCHANGED pending
        /\ \A s \in Requests : s # h => listenerGate'[s] = listenerGate[s]
    BY <1>0, <1>6, <1>g, <2>h DEF BeginExitSever, EndExitSever, SeverInv
  <2>2. /\ h \in Requests /\ h \in Items(exit.sever)
        /\ Items(exit.sever) = Items(Tail(exit.sever)) \union {h}
        /\ Len(Tail(exit.sever)) = Len(exit.sever) - 1 /\ Tail(exit.sever) \in Seq(Requests)
    BY <1>0, <2>1, <2>h, HeadTail
  <2>3. invocation[h] = "done" /\ \A s \in Items(exit.sever) : client[ClientOf[s]].at = "alive" /\ invocation[s] = "done"
    BY <1>g, <2>1, <2>2 DEF SeverInv
  <2>4. CASE BeginExitSever
    <3>1. exit' = exit
      BY <2>4 DEF BeginExitSever
    <3>2. SeverInv'
      BY <1>1, <1>g, <2>1, <3>1 DEF SeverInv
    <3>3. \A s \in Requests : Severs(s) => Severs(s)'
      BY <1>1, <1>w, <2>1, <3>1 DEF Severs, Queued
    <3>4. Severs(h)
      BY <2>1, <2>2 DEF Severs
    <3>5. GateOK(h)'
      BY <1>1, <2>2, <2>3, <3>3, <3>4 DEF GateOK
    <3> QED
      BY <1>1, <2>1, <2>2, <3>2, <3>3, <3>5, GateFrame
  <2>5. CASE EndExitSever
    <3>1. /\ listenerGate'[h] = "closed"
          /\ exit'.at = IF Len(exit.sever) = 1 THEN "gone" ELSE "severing"
          /\ exit'.sever = Tail(exit.sever)
      BY <1>0, <2>1, <2>2, <2>5, <2>h DEF EndExitSever, Exits
    <3>2. exit'.at = "severing" => Tail(exit.sever) # <<>>
      <4>1. exit'.at = "severing" => Len(exit.sever) # 1
        BY <3>1
      <4>2. Len(exit.sever) \in Nat
        BY <1>0
      <4>3. Len(<<>>) = 0
        OBVIOUS
      <4>4. exit'.at = "severing" => Len(Tail(exit.sever)) # 0
        BY <2>2, <4>1, <4>2
      <4> QED
        BY <4>3, <4>4
    <3>3. SeverInv'
      BY <1>1, <1>g, <2>2, <2>3, <3>1, <3>2 DEF SeverInv
    <3>4. \A s \in Items(Tail(exit.sever)) : exit'.at = "severing"
      BY <1>0, <2>2, <3>1 DEF Items
    <3>5. \A s \in Requests : s # h /\ Severs(s) => Severs(s)'
      BY <1>1, <1>w, <2>1, <2>2, <3>1, <3>4 DEF Severs, Queued
    <3>6. GateOK(h)'
      BY <1>1, <2>3, <3>1 DEF GateOK
    <3> QED
      BY <1>1, <2>1, <2>2, <3>3, <3>5, <3>6, GateFrame
  <2> QED
    BY <1>6, <2>4, <2>5
<1> QED
  BY <1>2, <1>3, <1>4, <1>5, <1>6 DEF ExitProcess

\* Every step keeps track of the listeners.
LEMMA NextListenInv ==
  ASSUME TypeInv, AnswerInv, ListenInv, [Next]_vars
  PROVE  ListenInv'
<1>1. ASSUME UNCHANGED <<invocation, listenerGate, pending, worker, client, exit>> PROVE ListenInv'
  BY <1>1 DEF ListenInv, SeverInv, GateOK, Severs, Queued
<1>2. ASSUME NEW r \in Requests, HandleReset(r) PROVE ListenInv'
  BY <1>1, <1>2 DEF HandleReset, BeginHandleReset, EndHandleReset
<1>3. ASSUME NEW t \in Threads, Respond(t) PROVE ListenInv'
  BY <1>1, <1>3 DEF Respond, Deliver, requestVars
<1>4. ASSUME NEW e \in Executors, CallOnce(e) PROVE ListenInv'
  BY <1>1, <1>4 DEF CallOnce, TakeOnce, SkipOnce, EnterCallback, SkipCallback, ReturnCallback,
     Finish, requestVars
<1>5. CASE Tick \/ UNCHANGED vars
  BY <1>1, <1>5 DEF Tick, vars, requestVars
<1> QED
  BY <1>2, <1>3, <1>4, <1>5, InvokeListen, DoWorkListen, DestroyListen, ExitListen DEF Next

\* When a client is gone its listeners are unregistered, or the worker is about to do it,
\* or scrub() has assigned over their handles: there is no other way to leak one.
THEOREM LeakedOnlyByScrub == Spec => []OnlyScrubLeaks
<1>1. ASSUME TypeInv, AnswerInv, ListenInv, NEW r \in Requests, client[ClientOf[r]].at = "dead"
      PROVE  listenerGate[r] \in {"none", "closed", "dropped"} \/ HeldByWorker(r)
  <2>1. ClientOf[r] \in Clients /\ invocation[r] \in {"idle", "done", "thrown"} /\ GateOK(r)
    BY <1>1, Apart DEF AnswerInv, InvocationInv, ListenInv
  <2>2. ~Queued(r)
    BY <1>1, <2>1 DEF AnswerInv, ClientInv, EntryInv, Queued
  <2>3. client[ClientOf[r]].sever = <<>>
    BY <1>1, <2>1 DEF AnswerInv, ClientInv
  <2>4. r \notin Items(client[ClientOf[r]].sever)
    BY <2>3 DEF Items
  <2>5. ~(exit.at = "severing" /\ r \in Items(exit.sever))
    BY <1>1 DEF ListenInv, SeverInv
  <2>6. Severs(r) => HeldByWorker(r)
    BY <2>2, <2>4, <2>5 DEF Severs, HeldByWorker
  <2> QED
    BY <2>1, <2>6 DEF GateOK
<1>2. TypeInv /\ AnswerInv /\ ListenInv /\ [Next]_vars => ListenInv'
  BY NextListenInv
<1>3. TypeInv /\ AnswerInv /\ ListenInv => OnlyScrubLeaks
  BY <1>1 DEF OnlyScrubLeaks
<1> QED
  BY <1>2, <1>3, InitListenInv, TypeInvariance, AnswerInvariance, PTL DEF Spec

\* The process has one RpcClient (or none).
SingleClient == \A j, k \in Clients : j = k

\* The only client's scrub() leaves nothing.
LEMMA ScrubbedEmpty ==
  ASSUME SingleClient, TypeInv, NEW k \in Clients
  PROVE  /\ Scrub(pending, k) \in Seq(Entries) /\ Items(Scrub(pending, k)) = {}
         /\ 1..Len(Scrub(pending, k)) = {}
<1> DEFINE q == Scrub(pending, k)
<1>1. /\ pending \in Seq(Entries) /\ q \in Seq(Entries)
      /\ Items(q) = {p \in Items(pending) : p.instance # k}
  BY EntriesTyped, ScrubItems
<1>2. \A p \in Items(pending) : p \in Entries
  BY <1>1 DEF Items
<1>3. \A p \in Items(pending) : p.instance = k
  BY <1>2 DEF SingleClient, Entries
<1>4. Items(q) = {}
  BY <1>1, <1>3
<1>5. \A i \in 1..Len(q) : q[i] \in Items(q)
  BY DEF Items
<1> QED
  BY <1>1, <1>4, <1>5

\* No handle of a listener has been assigned over.
NoneDropped == \A r \in Requests : listenerGate[r] # "dropped"

\* The scrub() of the only client has no survivor to assign.
LEMMA NextNoneDropped ==
  ASSUME SingleClient, TypeInv, NoneDropped, [Next]_vars
  PROVE  NoneDropped'
<1>0. listenerGate \in [Requests -> {"none", "open", "closing", "closed", "dropped"}]
  BY DEF TypeInv, TypeOK
<1>1. ASSUME UNCHANGED listenerGate PROVE NoneDropped'
  BY <1>1 DEF NoneDropped
<1>2. ASSUME NEW h, NEW gate, gate # "dropped", listenerGate' = [listenerGate EXCEPT ![h] = gate]
      PROVE  NoneDropped'
  BY <1>0, <1>2 DEF NoneDropped
<1>3. ASSUME NEW r \in Requests, InvokeMethod(r) PROVE NoneDropped'
  <2>1. CASE BeginRelease(r)
    BY <1>0, <2>1 DEF BeginRelease, NoneDropped
  <2>2. CASE RegisterListener(r)
    BY <1>2, <2>2 DEF RegisterListener
  <2>3. CASE EndRelease(r)
    BY <1>2, <2>3 DEF EndRelease
  <2>4. CASE Throw(r)
    BY <1>0, <2>4 DEF Throw, NoneDropped
  <2>5. CASE Unwind(r)
    BY <1>0, <2>5 DEF Unwind, NoneDropped
  <2> QED
    BY <1>1, <1>3, <2>1, <2>2, <2>3, <2>4, <2>5 DEF InvokeMethod, Invoke, Transmit, SendSucceeds, Fail, Enqueue
<1>4. ASSUME NEW r \in Requests, HandleReset(r) PROVE NoneDropped'
  BY <1>1, <1>4 DEF HandleReset, BeginHandleReset, EndHandleReset
<1>5. ASSUME NEW t \in Threads, Respond(t) PROVE NoneDropped'
  BY <1>1, <1>5 DEF Respond, Deliver
<1>6. ASSUME NEW e \in Executors, CallOnce(e) PROVE NoneDropped'
  BY <1>1, <1>6 DEF CallOnce, TakeOnce, SkipOnce, EnterCallback, SkipCallback, ReturnCallback,
     Finish
<1>7. CASE DoWork
  <2>1. ASSUME NEW r \in Requests, WorkerBeginSever(r) PROVE NoneDropped'
    BY <1>2, <2>1 DEF WorkerBeginSever
  <2>2. ASSUME NEW r \in Requests, WorkerEndSever(r) PROVE NoneDropped'
    BY <1>2, <2>2 DEF WorkerEndSever
  <2> QED
    BY <1>1, <1>7, <2>1, <2>2 DEF DoWork, WorkerLoop, WorkerTake, WorkerExpired, WorkerInspect,
       WorkerWake
<1>8. ASSUME NEW k \in Clients, Destroy(k) \/ DestroyClient(k) PROVE NoneDropped'
  <2>1. CASE ScrubQueue(k)
    <3>1. 1..Len(Scrub(pending, k)) = {}
      BY ScrubbedEmpty
    <3>2. Overwritten(pending, k) = {}
      BY <3>1 DEF Overwritten
    <3> QED
      BY <2>1, <3>2 DEF ScrubQueue, NoneDropped
  <2>2. CASE BeginScrubSever(k)
    BY <1>2, <2>2 DEF BeginScrubSever
  <2>3. CASE EndScrubSever(k)
    BY <1>2, <2>3 DEF EndScrubSever
  <2> QED
    BY <1>1, <1>8, <2>1, <2>2, <2>3 DEF Destroy, DestroyClient, ScrubUnlock, ScrubExpire, Destroyed
<1>9. CASE ExitProcess
  <2>1. CASE BeginExitSever
    BY <1>2, <2>1 DEF BeginExitSever
  <2>2. CASE EndExitSever
    BY <1>2, <2>2 DEF EndExitSever
  <2> QED
    BY <1>1, <1>9, <2>1, <2>2 DEF ExitProcess, ExitNotify, ExitJoin, ExitExpire, ExitRelease
<1>10. CASE Exit \/ Tick \/ UNCHANGED vars
  BY <1>1, <1>10 DEF Exit, Tick, vars
<1> QED
  BY <1>3, <1>4, <1>5, <1>6, <1>7, <1>8, <1>9, <1>10 DEF Next

\* In a process with one RpcClient, all response listeners are unregistered from the
\* transport when the client is gone.  (With two they need not be: RpcClientListenerLeak.)
THEOREM Unregistered ==
  ASSUME SingleClient
  PROVE  Spec => []ListenersReleased
<1>1. Init => NoneDropped
  BY DEF Init, NoneDropped
<1>2. TypeInv /\ NoneDropped /\ [Next]_vars => NoneDropped'
  BY NextNoneDropped
<1>3. OnlyScrubLeaks /\ NoneDropped => ListenersReleased
  BY DEF OnlyScrubLeaks, NoneDropped, ListenersReleased
<1> QED
  BY <1>1, <1>2, <1>3, TypeInvariance, LeakedOnlyByScrub, PTL DEF Spec

-------------------------------------------------------------------------------
(***************************************************************************)
(* What is promised.  RpcClient implements RpcCalls: the queue, the worker *)
(* and the listeners only decide who answers and when.  The invariant says *)
(* why whoever is in a call is entitled to the result that he brings.      *)
(***************************************************************************)

\* What entitles thread e to answer r with a result.  (TimeInv has the deadlines.)
Reasoned(e, r, result) ==
    /\ result \in {"message", "commstatus"} => wire[r]
    /\ e \in Requests => result = "error"
    /\ result = "error" => e = r /\ invocation[r] = "expiring"
    /\ result = "cancelled" =>
           e = ClientOf[r] /\ client[e].at = "expiring" /\ invocation[r] = "done"
    /\ result = "internal" => e = Main /\ exit.at = "expiring" /\ invocation[r] = "done"

ReasonInv ==
    \A e \in Executors : exec[e].at # "idle" => Reasoned(e, exec[e].req, exec[e].result)

\* Nobody can know of the request yet, or ever.
Unknown(r) == invocation[r] \in {"idle", "register", "send", "unwinding", "thrown"}

\* How far a request is
SentInv ==
    \A r \in Requests :
        /\ invocation[r] \in {"sent", "enqueue"} => wire[r]
        /\ Unknown(r) => once[r] = "unset" /\ ~wire[r]
        /\ callbackGate[r] = "none" => invocation[r] = "idle"

\* What the worker and the destructors have collected
CollectInv ==
    /\ worker.at # "expire" => exec[Worker] = Idle
    /\ \A k \in Clients : \A r \in Items(client[k].expire) :
           ClientOf[r] = k /\ invocation[r] = "done"
    /\ \A r \in Items(exit.expire) : invocation[r] = "done"
    /\ exit.at \in {"expiring", "severing", "gone"} => worker.at = "exited"

PromiseInv == ReasonInv /\ SentInv /\ CollectInv

\* In the initial state nobody has been asked for anything.
LEMMA InitPromiseInv == Init => PromiseInv
<1> SUFFICES ASSUME Init PROVE PromiseInv
  OBVIOUS
<1>1. Items(<<>>) = {}
  BY DEF Items
<1>2. \A e \in Executors : exec[e] = Idle
  BY DEF Init
<1>3. ReasonInv
  BY <1>2 DEF ReasonInv, Idle
<1>4. SentInv
  BY DEF Init, SentInv, Unknown
<1>5. \A k \in Clients : client[k].expire = <<>>
  BY DEF Init
<1>6. CollectInv
  BY <1>1, <1>2, <1>5, Apart DEF Init, CollectInv
<1> QED
  BY <1>3, <1>4, <1>6 DEF PromiseInv

\* What entitles a thread to its result lasts as long as its call; a new call has to
\* bring its own.
LEMMA ReasonFrame ==
  ASSUME TypeInv, ReasonInv,
         \A e \in Executors : exec'[e].at # "idle" =>
             \/ /\ exec[e].at # "idle" /\ exec'[e].req = exec[e].req
                /\ exec'[e].result = exec[e].result
             \/ Reasoned(e, exec[e].req, exec[e].result)',
         \A r \in Requests : wire[r] => wire'[r],
         \A r \in Requests : invocation[r] = "done" => invocation'[r] = "done",
         \A r \in Requests : invocation[r] = "expiring" =>
             invocation'[r] = "expiring" \/ exec'[r].at = "idle",
         \A k \in Clients : client[k].at = "expiring" =>
             client'[k].at = "expiring" \/ exec'[k].at = "idle",
         exit.at = "expiring" => exit'.at = "expiring" \/ exec'[Main].at = "idle"
  PROVE  ReasonInv'
<1>1. SUFFICES ASSUME NEW e \in Executors, exec'[e].at # "idle",
                      exec[e].at # "idle", exec'[e].req = exec[e].req,
                      exec'[e].result = exec[e].result
               PROVE  Reasoned(e, exec[e].req, exec[e].result)'
  BY DEF ReasonInv
<1> DEFINE r == exec[e].req
           result == exec[e].result
<1>2. r \in Requests /\ Reasoned(e, r, result)
  BY <1>1, CallTyped DEF ReasonInv
<1>3. exec'[e].req = r /\ exec'[e].result = result
  BY <1>1
<1> HIDE DEF r, result
<1>4. ClientOf[r] \in Clients
  BY <1>2, Apart
<1> QED
  BY <1>1, <1>2, <1>3, <1>4 DEF Reasoned

\* A thread that is not in a call starts one, for a reason.
LEMMA ReasonOfCall ==
  ASSUME TypeInv, ReasonInv, NEW e \in Executors, NEW r \in Requests, NEW result \in Results,
         exec' = [exec EXCEPT ![e] = Call(r, result)], once' = once,
         Reasoned(e, r, result)',
         \A s \in Requests : wire[s] => wire'[s],
         \A s \in Requests : invocation[s] # invocation'[s] =>
             invocation[s] \notin {"expiring", "done"},
         \A k \in Clients : client[k].at = "expiring" => client'[k].at = "expiring",
         exit.at = "expiring" => exit'.at = "expiring"
  PROVE  ReasonInv'
<1>1. /\ exec'[e].req = r /\ exec'[e].result = result
      /\ \A f \in Executors : f # e => exec'[f] = exec[f]
  <2>1. exec'[e] = Call(r, result) /\ \A f \in Executors : f # e => exec'[f] = exec[f]
    BY DEF TypeInv, TypeOK
  <2> QED
    BY <2>1, CallIsCall
<1>2. Reasoned(e, exec[e].req, exec[e].result)'
  BY <1>1 DEF Reasoned
<1>3. \A f \in Executors : exec'[f].at # "idle" =>
          \/ /\ exec[f].at # "idle" /\ exec'[f].req = exec[f].req
             /\ exec'[f].result = exec[f].result
          \/ Reasoned(f, exec[f].req, exec[f].result)'
  BY <1>1, <1>2
<1> QED
  BY <1>3, ReasonFrame

\* What has been collected are requests, and it only gets less.
LEMMA CollectFrame ==
  ASSUME TypeInv, CollectInv,
         \A r \in Requests : invocation[r] = "done" => invocation'[r] = "done",
         worker'.at # "expire" => exec'[Worker] = Idle,
         \A k \in Clients : Items(client'[k].expire) \subseteq Items(client[k].expire),
         Items(exit'.expire) \subseteq Items(exit.expire),
         exit'.at \in {"expiring", "severing", "gone"} => worker'.at = "exited"
  PROVE  CollectInv'
<1>1. \A s \in Seq(Requests) : Items(s) \subseteq Requests
  BY DEF Items
<1>2. /\ \A k \in Clients : Items(client[k].expire) \subseteq Requests
      /\ Items(exit.expire) \subseteq Requests
  <2>1. /\ \A k \in Clients : client[k].expire \in Seq(Requests)
        /\ exit.expire \in Seq(Requests)
    BY DEF TypeInv, TypeOK, Tasks, Exits
  <2> QED
    BY <1>1, <2>1
<1> QED
  BY <1>2 DEF CollectInv

\* invokeMethod() sends before it is done, and reports an error only from there.
LEMMA InvokePromise ==
  ASSUME TypeInv, AnswerInv, PromiseInv, NEW r \in Requests, InvokeMethod(r)
  PROVE  PromiseInv'
<1>0. /\ r \in Executors /\ r # Worker /\ ReasonInv /\ SentInv /\ CollectInv
      /\ worker \in Workers
  BY Apart DEF PromiseInv, TypeInv
<1>1. /\ \A s \in Requests : s # r => invocation'[s] = invocation[s]
      /\ \A s \in Requests : invocation[s] = "done" => invocation'[s] = "done"
      /\ invocation'[r] # "idle" /\ (Unknown(r)' => Unknown(r))
  BY DEF TypeInv, TypeOK, InvokeMethod, Invoke, RegisterListener, Transmit,
     SendSucceeds, Fail, BeginRelease, EndRelease, Throw, Unwind, Enqueue, Step, Unknown
<1>2. /\ \A s \in Requests : wire[s] => wire'[s]
      /\ \A s \in Requests : s # r => wire'[s] = wire[s]
      /\ invocation'[r] \in {"sent", "enqueue"} => wire'[r]
      /\ Unknown(r)' => wire'[r] = wire[r]
  <2>1. CASE Transmit(r)
    BY <2>1 DEF Transmit, Step, Unknown, TypeInv, TypeOK
  <2>2. CASE ~Transmit(r)
    <3>1. /\ wire' = wire
          /\ invocation'[r] \in {"sent", "enqueue"} => invocation[r] \in {"sent", "enqueue"}
      BY <2>2 DEF TypeInv, TypeOK, InvokeMethod, Invoke, RegisterListener,
         SendSucceeds, Fail, BeginRelease, EndRelease, Throw, Unwind, Enqueue, Step
    <3> QED
      BY <1>0, <3>1 DEF SentInv
  <2> QED
    BY <2>1, <2>2
<1>3. /\ \A s \in Requests : s # r => callbackGate'[s] = callbackGate[s]
      /\ \/ callbackGate'[r] \in {"open", "closed"}
         \/ callbackGate'[r] = callbackGate[r] /\ invocation[r] # "idle"
      /\ once' = once /\ client' = client /\ exit' = exit
  BY DEF TypeInv, TypeOK, InvokeMethod, Invoke, RegisterListener, Transmit,
     SendSucceeds, Fail, BeginRelease, EndRelease, Throw, Unwind, Enqueue, Step, callVars
<1>4. worker'.at = worker.at
  BY <1>0 DEF Workers, InvokeMethod, Invoke, RegisterListener, Transmit,
     SendSucceeds, Fail, BeginRelease, EndRelease, Throw, Unwind, Enqueue, Notify
<1>5. SentInv'
  BY <1>0, <1>1, <1>2, <1>3 DEF SentInv, Unknown, TypeInv, TypeOK
<1>6. exec'[Worker] = exec[Worker] => CollectInv'
  <2>1. \A k \in Clients : Items(client'[k].expire) \subseteq Items(client[k].expire)
    BY <1>3
  <2> QED
    BY <1>0, <1>1, <1>3, <1>4, <2>1, CollectFrame DEF CollectInv
<1>7. CASE Fail(r)
  <2>1. exec' = [exec EXCEPT ![r] = Call(r, "error")] /\ "error" \in Results
    BY <1>7 DEF Fail, Results
  <2>2. \A e \in Executors : e # r => exec'[e] = exec[e]
    BY <1>0, <1>3, <2>1, CallStarts
  <2>3. invocation'[r] = "expiring" /\ invocation[r] \notin {"expiring", "done"}
    BY <1>7 DEF Fail, Step, TypeInv, TypeOK
  <2>4. Reasoned(r, r, "error")'
    BY <2>3 DEF Reasoned
  <2>5. ReasonInv'
    BY <1>0, <1>1, <1>2, <1>3, <2>1, <2>3, <2>4, ReasonOfCall
  <2> QED
    BY <1>0, <1>5, <1>6, <2>2, <2>5, Apart DEF PromiseInv
<1>8. CASE ~Fail(r)
  <2>1. /\ exec' = exec
        /\ invocation[r] = "expiring" => exec[r] = Idle
    BY <1>8 DEF InvokeMethod, Invoke, RegisterListener, Transmit,
       SendSucceeds, BeginRelease, EndRelease, Throw, Unwind, Enqueue, Step, callVars
  <2>2. Idle.at = "idle"
    BY DEF Idle
  <2>3. ReasonInv'
    BY <1>0, <1>1, <1>2, <1>3, <2>1, <2>2, ReasonFrame
  <2> QED
    BY <1>5, <1>6, <2>1, <2>3 DEF PromiseInv
<1> QED
  BY <1>7, <1>8

\* Steps that change neither the invocations nor what has been sent
LEMMA SentFrame ==
  ASSUME SentInv, UNCHANGED <<invocation, wire>>,
         \A r \in Requests : callbackGate'[r] = "none" => callbackGate[r] = "none",
         \A r \in Requests : Unknown(r) => once'[r] = once[r]
  PROVE  SentInv'
  BY DEF SentInv, Unknown

\* A thread is in a call only for a request that was sent, or could not be.
LEMMA CalledKnown ==
  ASSUME TypeInv, TimeInv, ReasonInv, SentInv, NEW e \in Executors, exec[e].at # "idle"
  PROVE  ~Unknown(exec[e].req)
<1> DEFINE r == exec[e].req
           result == exec[e].result
<1>1. /\ r \in Requests /\ result \in Results /\ Reasoned(e, r, result)
      /\ result = "deadline" => invocation[r] = "done"
  BY CallTyped DEF ReasonInv, TimeInv, Calls
<1> HIDE DEF r, result
<1>2. ~Unknown(r)
  BY <1>1 DEF Results, Reasoned, SentInv, Unknown
<1> QED
  BY <1>2 DEF r

\* The user, the clock, the transport, and the threads in their calls
LEMMA OutsidePromise ==
  ASSUME TypeInv, TimeInv, PromiseInv,
         \/ \E r \in Requests : HandleReset(r)
         \/ \E t \in Threads : Respond(t)
         \/ \E e \in Executors : CallOnce(e)
         \/ Tick \/ UNCHANGED vars
  PROVE  PromiseInv'
<1>0. ReasonInv /\ SentInv /\ CollectInv /\ Idle.at = "idle"
  BY DEF PromiseInv, Idle
<1>1. UNCHANGED <<invocation, wire, worker, client, exit>>
  BY DEF HandleReset, BeginHandleReset, EndHandleReset, Respond, Deliver, CallOnce, TakeOnce,
     SkipOnce, EnterCallback, SkipCallback, ReturnCallback, Finish, Tick, vars, requestVars
<1>2. ASSUME exec'[Worker] = Idle \/ exec'[Worker] = exec[Worker] \/ exec[Worker] # Idle
      PROVE  CollectInv'
  BY <1>0, <1>1, <1>2, CollectFrame DEF CollectInv
<1>3. ASSUME UNCHANGED <<exec, once>>,
             \A r \in Requests : callbackGate'[r] = "none" => callbackGate[r] = "none"
      PROVE  PromiseInv'
  <2>1. ReasonInv'
    BY <1>0, <1>1, <1>3, ReasonFrame
  <2> QED
    BY <1>0, <1>1, <1>2, <1>3, <2>1, SentFrame DEF PromiseInv
<1>4. CASE (\E r \in Requests : HandleReset(r)) \/ Tick \/ UNCHANGED vars
  <2>1. UNCHANGED <<exec, once>>
    BY <1>4 DEF HandleReset, BeginHandleReset, EndHandleReset, Tick, vars, callVars
  <2>2. \A r \in Requests : callbackGate'[r] = "none" => callbackGate[r] = "none"
    BY <1>4 DEF HandleReset, BeginHandleReset, EndHandleReset, Tick, vars, requestVars,
       TypeInv, TypeOK
  <2> QED
    BY <1>3, <2>1, <2>2
<1>5. ASSUME NEW t \in Threads, Respond(t) PROVE PromiseInv'
  <2>1. PICK r \in Requests, result \in Answers : Deliver(t, r, r, result)
    BY <1>5 DEF Respond, Deliver, Matches
  <2>2. result \in Results /\ t \in Executors /\ t # Worker /\ t \notin Requests
    BY AnswersAssumption, Apart DEF Results
  <2>3. /\ exec' = [exec EXCEPT ![t] = Call(r, result)] /\ wire[r]
        /\ UNCHANGED <<once, callbackGate>>
    BY <2>1 DEF Deliver, requestVars
  <2>4. Reasoned(t, r, result)'
    BY <1>1, <2>2, <2>3, AnswersAssumption DEF Reasoned
  <2>5. ReasonInv'
    BY <1>0, <1>1, <2>2, <2>3, <2>4, ReasonOfCall
  <2>6. exec'[Worker] = exec[Worker]
    BY <2>2, <2>3, CallStarts, Apart
  <2> QED
    BY <1>0, <1>1, <1>2, <2>3, <2>5, <2>6, SentFrame DEF PromiseInv
<1>6. ASSUME NEW e \in Executors, CallOnce(e) PROVE PromiseInv'
  <2>1. /\ \A f \in Executors : exec[f] = Idle => exec'[f] = Idle
        /\ \A f \in Executors : exec'[f].at # "idle" =>
               /\ exec[f].at # "idle" /\ exec'[f].req = exec[f].req
               /\ exec'[f].result = exec[f].result
    BY <1>6, CallGoesOn
  <2>2. ReasonInv'
    BY <1>0, <1>1, <2>1, ReasonFrame
  <2>3. /\ callbackGate' = callbackGate
        /\ \A r \in Requests : r # exec[e].req => once'[r] = once[r]
        /\ exec[e].at # "idle"
    BY <1>6, CallTyped DEF CallOnce, TakeOnce, SkipOnce, EnterCallback, SkipCallback, ReturnCallback,
       Finish, TypeInv, TypeOK, requestVars
  <2>4. ~Unknown(exec[e].req)
    BY <1>0, <2>3, CalledKnown
  <2> QED
    BY <1>0, <1>1, <1>2, <2>1, <2>2, <2>3, <2>4, Apart, SentFrame DEF PromiseInv
<1> QED
  BY <1>4, <1>5, <1>6

\* The worker
LEMMA DoWorkPromise ==
  ASSUME TypeInv, PromiseInv, DoWork
  PROVE  PromiseInv'
<1>0. ReasonInv /\ SentInv /\ CollectInv /\ worker \in Workers
  BY DEF PromiseInv, TypeInv
<1>1. UNCHANGED <<invocation, wire, callbackGate, once, client, exit>>
  BY DEF DoWork, WorkerLoop, WorkerTake, WorkerExpired, WorkerInspect, WorkerWake,
     WorkerBeginSever, WorkerEndSever, requestVars, callVars
<1>2. SentInv'
  BY <1>0, <1>1, SentFrame
<1>3. worker.at # "exited" \/ worker'.at = "exited"
  BY <1>0 DEF DoWork, WorkerLoop, WorkerTake, WorkerExpired, WorkerInspect, WorkerWake,
     WorkerBeginSever, WorkerEndSever, Workers
<1>4. ASSUME worker'.at # "expire" => exec'[Worker] = Idle PROVE CollectInv'
  <2>1. exit'.at \in {"expiring", "severing", "gone"} => worker'.at = "exited"
    BY <1>0, <1>1, <1>3 DEF CollectInv
  <2> QED
    BY <1>0, <1>1, <1>4, <2>1, CollectFrame
<1>5. ASSUME NEW r \in Requests, WorkerEndSever(r) PROVE PromiseInv'
  <2>1. /\ exec' = [exec EXCEPT ![Worker] = Call(r, "deadline")] /\ "deadline" \in Results
        /\ worker'.at = "expire"
    BY <1>0, <1>5 DEF WorkerEndSever, Workers, Results
  <2>2. Reasoned(Worker, r, "deadline")'
    BY Apart DEF Reasoned
  <2>3. ReasonInv'
    BY <1>0, <1>1, <2>1, <2>2, Apart, ReasonOfCall
  <2> QED
    BY <1>2, <1>4, <2>1, <2>3 DEF PromiseInv
<1>6. CASE \A r \in Requests : ~WorkerEndSever(r)
  <2>1. exec' = exec
    BY <1>6 DEF DoWork, WorkerLoop, WorkerTake, WorkerExpired, WorkerInspect, WorkerWake,
       WorkerBeginSever, callVars
  <2>2. ReasonInv'
    BY <1>0, <1>1, <2>1, ReasonFrame
  <2>3. worker'.at # "expire" => worker.at # "expire" \/ exec[Worker] = Idle
    BY <1>6 DEF DoWork, WorkerLoop, WorkerTake, WorkerExpired, WorkerInspect, WorkerWake,
       WorkerBeginSever
  <2>4. worker'.at # "expire" => exec'[Worker] = Idle
    BY <1>0, <2>1, <2>3 DEF CollectInv
  <2> QED
    BY <1>2, <1>4, <2>2, <2>4 DEF PromiseInv
<1> QED
  BY <1>5, <1>6

\* ~RpcClient() collects requests of its own whose invocation has returned.
LEMMA DestroyPromise ==
  ASSUME TypeInv, AnswerInv, PromiseInv, NEW k \in Clients, Destroy(k) \/ DestroyClient(k)
  PROVE  PromiseInv'
<1>0. /\ ReasonInv /\ SentInv /\ CollectInv /\ worker \in Workers
      /\ k \in Executors /\ k # Worker /\ k # Main /\ k \notin Requests
      /\ client \in [Clients -> Tasks] /\ client[k] \in Tasks
      /\ client[k].expire \in Seq(Requests) /\ pending \in Seq(Entries)
  BY Apart, EntriesTyped DEF PromiseInv, TypeInv, TypeOK, Tasks
<1>1. UNCHANGED <<invocation, wire, callbackGate, once, exit>>
  BY DEF Destroy, DestroyClient, ScrubQueue, BeginScrubSever, EndScrubSever, ScrubUnlock,
     ScrubExpire, Destroyed, requestVars, callVars
<1>2. SentInv'
  BY <1>0, <1>1, SentFrame
<1>3. /\ worker'.at = worker.at
      /\ \A j \in Clients : j # k => client'[j] = client[j]
  BY <1>0 DEF Destroy, DestroyClient, ScrubQueue, BeginScrubSever, EndScrubSever, ScrubUnlock,
     ScrubExpire, Destroyed, Notify, Workers
<1>4. CASE ScrubExpire(k)
  <2>1. client[k].expire # <<>>
    BY <1>4 DEF ScrubExpire
  <2>2. PICK r \in Items(client[k].expire) :
            /\ r = Head(client[k].expire) /\ r \in Requests
            /\ Items(Tail(client[k].expire)) \subseteq Items(client[k].expire)
    BY <1>0, <2>1, HeadTail
  <2>3. /\ client[k].at = "expiring" /\ client[k].expire # <<>>
        /\ exec' = [exec EXCEPT ![k] = Call(r, "cancelled")]
        /\ client' = [client EXCEPT ![k].expire = Tail(@)] /\ "cancelled" \in Results
    BY <1>4, <2>2 DEF ScrubExpire, Results
  <2>4. client'[k].at = "expiring" /\ client'[k].expire = Tail(client[k].expire)
    BY <1>0, <2>3 DEF Tasks
  <2>5. ClientOf[r] = k /\ invocation[r] = "done"
    BY <1>0, <2>2 DEF CollectInv
  <2>6. Reasoned(k, r, "cancelled")'
    BY <1>0, <1>1, <2>4, <2>5 DEF Reasoned
  <2>7. \A j \in Clients : client[j].at = "expiring" => client'[j].at = "expiring"
    BY <1>3, <2>4
  <2>8. ReasonInv'
    BY <1>0, <1>1, <2>3, <2>2, <2>6, <2>7, ReasonOfCall
  <2>9. exec'[Worker] = exec[Worker]
    BY <1>0, <1>1, <2>3, <2>2, CallStarts, Apart
  <2>10. \A j \in Clients : Items(client'[j].expire) \subseteq Items(client[j].expire)
    BY <1>3, <2>2, <2>4
  <2>11. CollectInv'
    BY <1>0, <1>1, <1>3, <2>9, <2>10, CollectFrame DEF CollectInv
  <2> QED
    BY <1>2, <2>8, <2>11 DEF PromiseInv
<1>5. CASE ~ScrubExpire(k)
  <2>1. exec' = exec
    BY <1>5 DEF Destroy, DestroyClient, ScrubQueue, BeginScrubSever, EndScrubSever, ScrubUnlock,
       Destroyed, callVars
  <2>2. client[k].at = "expiring" => exec[k] = Idle
    BY <1>0, <1>5 DEF Destroy, DestroyClient, ScrubQueue, BeginScrubSever, EndScrubSever,
       ScrubUnlock, Destroyed
  <2>3. ReasonInv'
    <3>1. Idle.at = "idle"
      BY DEF Idle
    <3> QED
      BY <1>0, <1>1, <1>3, <2>1, <2>2, <3>1, ReasonFrame
  <2>4. CASE ScrubQueue(k)
    <3>1. client'[k].expire = ReqsOf(AllExpired(pending, k))
      BY <1>0, <2>4 DEF ScrubQueue
    <3>2. /\ AllExpired(pending, k) \in Seq(Entries)
          /\ Items(AllExpired(pending, k)) = {p \in Items(pending) : p.instance = k}
      BY <1>0, ScrubItems
    <3>3. Items(client'[k].expire) = {p.req : p \in {p \in Items(pending) : p.instance = k}}
      BY <3>1, <3>2, ReqsOfItems
    <3>4. \A r \in Items(client'[k].expire) : ClientOf[r] = k /\ invocation[r] = "done"
      BY <3>3 DEF AnswerInv, EntryInv
    <3>5. CollectInv'
      BY <1>0, <1>1, <1>3, <2>1, <3>4 DEF CollectInv
    <3> QED
      BY <1>2, <2>3, <3>5 DEF PromiseInv
  <2>5. CASE ~ScrubQueue(k)
    <3>1. client'[k].expire = client[k].expire
      BY <1>0, <1>5, <2>5 DEF Destroy, DestroyClient, BeginScrubSever, EndScrubSever, ScrubUnlock,
         Destroyed, Tasks
    <3>2. CollectInv'
      BY <1>0, <1>1, <1>3, <2>1, <3>1 DEF CollectInv
    <3> QED
      BY <1>2, <2>3, <3>2 DEF PromiseInv
  <2> QED
    BY <2>4, <2>5
<1> QED
  BY <1>4, <1>5

\* ~ExpireWorker() collects what is left in the queue when the worker is gone.
LEMMA ExitPromise ==
  ASSUME TypeInv, AnswerInv, PromiseInv, Exit \/ ExitProcess
  PROVE  PromiseInv'
<1>0. /\ ReasonInv /\ SentInv /\ CollectInv /\ worker \in Workers
      /\ Main \in Executors /\ Main # Worker /\ Main \notin Requests /\ Main \notin Clients
      /\ exit \in Exits /\ exit.expire \in Seq(Requests) /\ pending \in Seq(Entries)
  BY Apart, EntriesTyped DEF PromiseInv, TypeInv, TypeOK, Exits
<1>1. UNCHANGED <<invocation, wire, callbackGate, once, client>>
  BY DEF Exit, ExitProcess, ExitNotify, ExitJoin, ExitExpire, ExitRelease, BeginExitSever,
     EndExitSever, requestVars, callVars
<1>2. SentInv'
  BY <1>0, <1>1, SentFrame
<1>3. worker'.at = worker.at
  BY <1>0 DEF Exit, ExitProcess, ExitNotify, ExitJoin, ExitExpire, ExitRelease, BeginExitSever,
     EndExitSever, Notify, Workers
<1>4. exit'.at \in {"expiring", "severing", "gone"} => worker'.at = "exited"
  BY <1>0, <1>3 DEF Exit, ExitProcess, ExitNotify, ExitJoin, ExitExpire, ExitRelease,
     BeginExitSever, EndExitSever, Exits, CollectInv
<1>5. CASE ExitExpire
  <2>1. exit.expire # <<>>
    BY <1>5 DEF ExitExpire
  <2>2. PICK r \in Items(exit.expire) :
            /\ r = Head(exit.expire) /\ r \in Requests
            /\ Items(Tail(exit.expire)) \subseteq Items(exit.expire)
    BY <1>0, <2>1, HeadTail
  <2>3. /\ exit.at = "expiring" /\ exit.expire # <<>>
        /\ exec' = [exec EXCEPT ![Main] = Call(r, "internal")]
        /\ exit' = [exit EXCEPT !.expire = Tail(@)] /\ "internal" \in Results
    BY <1>5, <2>2 DEF ExitExpire, Results
  <2>4. exit'.at = "expiring" /\ exit'.expire = Tail(exit.expire)
    BY <1>0, <2>3 DEF Exits
  <2>5. invocation[r] = "done"
    BY <1>0, <2>2 DEF CollectInv
  <2>6. Reasoned(Main, r, "internal")'
    BY <1>0, <1>1, <2>4, <2>5 DEF Reasoned
  <2>7. ReasonInv'
    BY <1>0, <1>1, <2>3, <2>2, <2>4, <2>6, ReasonOfCall
  <2>8. exec'[Worker] = exec[Worker]
    BY <1>0, <1>1, <2>3, <2>2, CallStarts, Apart
  <2>9. CollectInv'
    BY <1>0, <1>1, <1>3, <1>4, <2>2, <2>4, <2>8, CollectFrame DEF CollectInv
  <2> QED
    BY <1>2, <2>7, <2>9 DEF PromiseInv
<1>6. CASE ~ExitExpire
  <2>1. exec' = exec
    BY <1>6 DEF Exit, ExitProcess, ExitNotify, ExitJoin, ExitRelease, BeginExitSever,
       EndExitSever, callVars
  <2>2. exit.at = "expiring" => exec[Main] = Idle
    BY <1>6 DEF Exit, ExitProcess, ExitNotify, ExitJoin, ExitRelease, BeginExitSever,
       EndExitSever
  <2>3. ReasonInv'
    <3>1. Idle.at = "idle"
      BY DEF Idle
    <3> QED
      BY <1>0, <1>1, <2>1, <2>2, <3>1, ReasonFrame
  <2>4. \A r \in Items(exit'.expire) : invocation[r] = "done"
    <3>1. CASE ExitJoin
      <4>1. exit'.expire = ReqsOf(pending)
        BY <3>1 DEF ExitJoin
      <4> QED
        BY <1>0, <4>1, ReqsOfItems DEF AnswerInv, EntryInv
    <3>2. CASE ~ExitJoin
      <4>1. exit'.expire = exit.expire
        BY <1>0, <1>6, <3>2 DEF Exit, ExitProcess, ExitNotify, ExitRelease, BeginExitSever,
           EndExitSever, Exits
      <4> QED
        BY <1>0, <4>1 DEF CollectInv
    <3> QED
      BY <3>1, <3>2
  <2>5. CollectInv'
    BY <1>0, <1>1, <1>3, <1>4, <2>1, <2>4 DEF CollectInv
  <2> QED
    BY <1>2, <2>3, <2>5 DEF PromiseInv
<1> QED
  BY <1>5, <1>6

\* The invariant is inductive, relative to the types, the owners and the clock.
LEMMA NextPromiseInv ==
  ASSUME TypeInv, AnswerInv, TimeInv, PromiseInv, [Next]_vars
  PROVE  PromiseInv'
  BY InvokePromise, OutsidePromise, DoWorkPromise, DestroyPromise, ExitPromise DEF Next

\* Whoever answers a request is entitled to.
THEOREM PromiseInvariance == Spec => []PromiseInv
<1>1. Spec => []TimeInv
  BY InitTimeInv, NextTimeInv, TypeInvariance, AnswerInvariance, PTL DEF Spec
<1> QED
  BY <1>1, InitPromiseInv, NextPromiseInv, TypeInvariance, AnswerInvariance, PTL DEF Spec

-------------------------------------------------------------------------------
(* The refinement. *)

\* Everything that is known about a reachable state.
KnownInv == IInv /\ TypeInv /\ AnswerInv /\ TimeInv /\ PromiseInv

\* Who is in the callback of r decides how far its answer is.
LEMMA CallViewOf ==
  ASSUME NEW r \in Requests
  PROVE  /\ callView[r] = [at |-> callView[r].at, with |-> callView[r].with]
         /\ callView[r].with = {exec[e].result : e \in In(r, "callback")}
         /\ callView[r].at = "idle" <=> invocation[r] = "idle"
         /\ callView[r].at = "thrown" <=> invocation[r] = "thrown"
         /\ callView[r].at = "answered" <=> invocation[r] \notin {"idle", "thrown"} /\ once[r] = "done"
         /\ callView[r].at = "calling" <=>
                invocation[r] \notin {"idle", "thrown"} /\ once[r] # "done" /\ In(r, "callback") # {}
         /\ callView[r].at = "open" <=>
                invocation[r] \notin {"idle", "thrown"} /\ once[r] # "done" /\ In(r, "callback") = {}
         /\ callView[r].at \in {"idle", "thrown", "answered", "calling", "open"}
<1> DEFINE at == IF invocation[r] \in {"idle", "thrown"} THEN invocation[r]
                 ELSE IF once[r] = "done" THEN "answered"
                 ELSE IF In(r, "callback") # {} THEN "calling" ELSE "open"
           with == {exec[e].result : e \in In(r, "callback")}
<1>1. callView[r] = [at |-> at, with |-> with]
  BY DEF callView
<1>2. /\ at = "idle" <=> invocation[r] = "idle"
      /\ at = "thrown" <=> invocation[r] = "thrown"
      /\ at = "answered" <=> invocation[r] \notin {"idle", "thrown"} /\ once[r] = "done"
      /\ at = "calling" <=>
             invocation[r] \notin {"idle", "thrown"} /\ once[r] # "done" /\ In(r, "callback") # {}
      /\ at = "open" <=>
             invocation[r] \notin {"idle", "thrown"} /\ once[r] # "done" /\ In(r, "callback") = {}
      /\ at \in {"idle", "thrown", "answered", "calling", "open"}
  OBVIOUS
<1> HIDE DEF at
<1>3. callView[r].at = at /\ callView[r].with = with
  BY <1>1
<1> QED
  BY <1>1, <1>2, <1>3

\* A request whose invocation, flag and callback are left alone looks the same.
LEMMA CallViewSame ==
  ASSUME NEW r \in Requests,
         invocation'[r] = "idle" <=> invocation[r] = "idle",
         invocation'[r] = "thrown" <=> invocation[r] = "thrown",
         once'[r] = "done" <=> once[r] = "done",
         In(r, "callback")' = In(r, "callback"),
         \A e \in In(r, "callback") : exec'[e].result = exec[e].result
  PROVE  callView'[r] = callView[r]
<1>1. {exec'[e].result : e \in In(r, "callback")} = {exec[e].result : e \in In(r, "callback")}
  OBVIOUS
<1>2. callView[r] = [at |-> IF invocation[r] \in {"idle", "thrown"} THEN invocation[r]
                            ELSE IF once[r] = "done" THEN "answered"
                            ELSE IF In(r, "callback") # {} THEN "calling" ELSE "open",
                     with |-> {exec[e].result : e \in In(r, "callback")}]
  BY DEF callView
<1>3. callView'[r] = [at |-> IF invocation'[r] \in {"idle", "thrown"} THEN invocation'[r]
                             ELSE IF once'[r] = "done" THEN "answered"
                             ELSE IF In(r, "callback")' # {} THEN "calling" ELSE "open",
                      with |-> {exec'[e].result : e \in In(r, "callback")'}]
  BY DEF callView
<1> QED
  BY <1>1, <1>2, <1>3

\* If that is so for all of them but r, and r looks like v now, the view changes at r.
LEMMA CallViewAt ==
  ASSUME NEW r \in Requests, NEW v, callView'[r] = v,
         \A s \in Requests : s # r => callView'[s] = callView[s]
  PROVE  callView' = [callView EXCEPT ![r] = v]
<1>1. /\ callView = [s \in Requests |-> callView[s]]
      /\ callView' = [s \in Requests |-> callView'[s]]
  BY DEF callView
<1> QED
  BY <1>1

\* ... and if it is so for all of them, it does not.
LEMMA CallViewUnchanged ==
  ASSUME \A s \in Requests : callView'[s] = callView[s]
  PROVE  callView' = callView
<1>1. /\ callView = [s \in Requests |-> callView[s]]
      /\ callView' = [s \in Requests |-> callView'[s]]
  BY DEF callView
<1> QED
  BY <1>1

\* The same for steps that only move invocations and threads outside the callbacks
LEMMA CallViewKept ==
  ASSUME \A s \in Requests : invocation'[s] = "idle" <=> invocation[s] = "idle",
         \A s \in Requests : invocation'[s] = "thrown" <=> invocation[s] = "thrown",
         \A s \in Requests : once'[s] = "done" <=> once[s] = "done",
         \A e \in Executors : exec'[e] = exec[e] \/ "callback" \notin {exec[e].at, exec'[e].at}
  PROVE  callView' = callView
<1>1. ASSUME NEW s \in Requests PROVE callView'[s] = callView[s]
  <2>1. In(s, "callback")' = In(s, "callback")
    BY DEF In
  <2>2. \A e \in In(s, "callback") : exec'[e].result = exec[e].result
    BY DEF In
  <2> QED
    BY <2>1, <2>2, CallViewSame
<1> QED
  BY <1>1, CallViewUnchanged

\* A thread that is not in a callback starts a call: nobody sees it yet.
LEMMA CallViewOfCall ==
  ASSUME TypeInv, NEW e \in Executors, NEW r \in Requests, NEW result \in Results,
         exec[e] = Idle, exec' = [exec EXCEPT ![e] = Call(r, result)], once' = once,
         \A s \in Requests : invocation'[s] = "idle" <=> invocation[s] = "idle",
         \A s \in Requests : invocation'[s] = "thrown" <=> invocation[s] = "thrown"
  PROVE  callView' = callView
<1>1. /\ exec'[e] = Call(r, result) /\ Call(r, result).at = "once"
      /\ \A f \in Executors : f # e => exec'[f] = exec[f]
  BY CallIsCall DEF TypeInv, TypeOK
<1>2. Idle.at = "idle"
  BY DEF Idle
<1> QED
  BY <1>1, <1>2, CallViewKept

\* Which invocations have returned
LEMMA ReturnedViewKept ==
  ASSUME \A r \in Requests : invocation'[r] = "done" <=> invocation[r] = "done"
  PROVE  returnedView' = returnedView
  BY DEF returnedView

\* Which clients are alive, being destroyed, or dead
LEMMA OwnerViewKept ==
  ASSUME \A k \in Clients : client'[k].at = client[k].at \/
             {client[k].at, client'[k].at} \intersect {"alive", "dead"} = {}
  PROVE  ownerView' = ownerView
<1>1. \A k \in Clients :
          (IF client'[k].at \in {"alive", "dead"} THEN client'[k].at ELSE "dying")
              = (IF client[k].at \in {"alive", "dead"} THEN client[k].at ELSE "dying")
  OBVIOUS
<1> QED
  BY <1>1 DEF ownerView

\* invokeMethod() begins, sends and returns; the rest of it is not visible.
LEMMA InvokeRefines ==
  ASSUME KnownInv, NEW r \in Requests, InvokeMethod(r)
  PROVE  [Promised!Next]_(Promised!vars)
<1>0. /\ TypeInv /\ AnswerInv /\ ReasonInv /\ SentInv /\ r \in Executors /\ Idle.at = "idle"
      /\ invocation \in [Requests -> {"idle", "register", "send", "sent", "enqueue",
                                       "expiring", "closing", "unwinding", "done", "thrown"}]
      /\ ClientOf[r] \in Clients
  BY Apart DEF KnownInv, PromiseInv, TypeInv, TypeOK, Idle
<1>1. UNCHANGED <<now, once, ownerView, processView>>
  BY DEF InvokeMethod, Invoke, RegisterListener, Transmit, SendSucceeds, Fail, BeginRelease,
     EndRelease, Throw, Unwind, Enqueue, callVars, ownerView, processView
<1>2. CASE Invoke(r)
  <2>1. /\ invocation[r] = "idle" /\ client[ClientOf[r]].at = "alive" /\ exit.at = "running"
        /\ now + Ttl[ClientOf[r]] <= MaxTime
        /\ deadline' = [deadline EXCEPT ![r] = now + Ttl[ClientOf[r]]]
        /\ callbackGate' = [callbackGate EXCEPT ![r] = "open"]
        /\ UNCHANGED <<wire, exec>>
        /\ invocation' = [invocation EXCEPT ![r] = "register"]
    BY <1>2 DEF Invoke, Step, Stopped, callVars
  <2>2. /\ invocation'[r] = "register"
        /\ \A s \in Requests : s # r => invocation'[s] = invocation[s]
    BY <1>0, <2>1
  <2>3. \A s \in Requests : In(s, "callback")' = In(s, "callback")
    BY <2>1 DEF In
  <2>4. \A s \in Requests : s # r => callView'[s] = callView[s]
    BY <1>1, <2>1, <2>2, <2>3, CallViewSame
  <2>5. /\ once[r] = "unset" /\ In(r, "callback") = {}
    <3>1. Unknown(r) /\ TimeInv
      BY <2>1 DEF Unknown, KnownInv
    <3>2. once[r] = "unset"
      BY <1>0, <3>1 DEF SentInv
    <3>3. ASSUME NEW e \in Executors, exec[e].at = "callback", exec[e].req = r PROVE FALSE
      BY <1>0, <3>1, <3>3, CalledKnown
    <3> QED
      BY <3>2, <3>3 DEF In
  <2>6. callView[r].at = "idle" /\ callView[r] = [at |-> "idle", with |-> callView[r].with]
    <3>1. /\ callView[r] = [at |-> callView[r].at, with |-> callView[r].with]
          /\ callView[r].at = "idle" <=> invocation[r] = "idle"
      BY CallViewOf, Zenon
    <3>2. callView[r].at = "idle"
      BY <2>1, <3>1
    <3> QED
      BY <3>1, <3>2, Zenon
  <2>7. callView'[r] = [at |-> "open", with |-> callView[r].with]
    <3>1. callView[r].with = {}
      BY <2>5, CallViewOf
    <3>2. callView'[r] = [at |-> "open", with |-> {}]
      BY <1>1, <2>2, <2>3, <2>5 DEF callView
    <3> QED
      BY <3>1, <3>2
  <2>8. callView' = [callView EXCEPT ![r].at = "open"]
    <3>1. callView' = [callView EXCEPT ![r] = [at |-> "open", with |-> callView[r].with]]
      BY <2>4, <2>7, CallViewAt
    <3>2. [callView[r] EXCEPT !.at = "open"] = [at |-> "open", with |-> callView[r].with]
      BY <2>6
    <3> QED
      BY <3>1, <3>2
  <2>9. ownerView[ClientOf[r]] = "alive" /\ processView = "running"
    BY <1>0, <2>1 DEF ownerView, processView
  <2>10. returnedView' = returnedView
    BY <2>1, <2>2, ReturnedViewKept
  <2>11. Promised!Invoke(r)
    BY <1>1, <2>1, <2>6, <2>8, <2>9, <2>10 DEF Promised!Invoke
  <2> QED
    BY <2>11 DEF Promised!Next
<1>4. CASE Unwind(r)
  <2>1. /\ invocation[r] = "unwinding" /\ In(r, "callback") = {}
        /\ invocation' = [invocation EXCEPT ![r] = "thrown"]
        /\ callbackGate' = [callbackGate EXCEPT ![r] = "closed"]
        /\ UNCHANGED <<deadline, wire, exec>>
    BY <1>4 DEF Unwind, Step, callVars
  <2>2. /\ invocation'[r] = "thrown"
        /\ \A s \in Requests : s # r => invocation'[s] = invocation[s]
    BY <1>0, <2>1
  <2>3. \A s \in Requests : In(s, "callback")' = In(s, "callback")
    BY <2>1 DEF In
  <2>4. \A s \in Requests : s # r => callView'[s] = callView[s]
    BY <1>1, <2>1, <2>2, <2>3, CallViewSame
  <2>5. once[r] = "unset" /\ ~wire[r]
    BY <1>0, <2>1 DEF SentInv, Unknown
  <2>6. callView[r] = [at |-> "open", with |-> {}]
    BY <2>1, <2>5 DEF callView
  <2>7. callView'[r] = [at |-> "thrown", with |-> {}]
    BY <2>1, <2>2, <2>3 DEF callView
  <2>8. callView' = [callView EXCEPT ![r].at = "thrown"]
    <3>1. callView' = [callView EXCEPT ![r] = [at |-> "thrown", with |-> {}]]
      BY <2>4, <2>7, CallViewAt
    <3>2. [callView[r] EXCEPT !.at = "thrown"] = [at |-> "thrown", with |-> {}]
      BY <2>6
    <3> QED
      BY <3>1, <3>2
  <2>9. returnedView' = returnedView
    BY <2>1, <2>2, ReturnedViewKept
  <2>10. Promised!InProgress(r) /\ callView[r].at = "open"
    <3>1. callView[r].at = "open"
      BY <2>6
    <3>2. ~returnedView[r]
      BY <2>1 DEF returnedView
    <3> QED
      BY <3>1, <3>2 DEF Promised!InProgress
  <2>11. Promised!Throw(r)
    BY <1>1, <2>1, <2>5, <2>8, <2>9, <2>10 DEF Promised!Throw
  <2> QED
    BY <2>11 DEF Promised!Next
<1>3. CASE ~Invoke(r) /\ ~Unwind(r)
  <2>1. /\ invocation[r] \notin {"idle", "done", "thrown"}
        /\ \A s \in Requests : invocation'[s] = "idle" <=> invocation[s] = "idle"
        /\ \A s \in Requests : invocation'[s] = "thrown" <=> invocation[s] = "thrown"
        /\ \A s \in Requests : s # r => invocation'[s] = invocation[s]
        /\ UNCHANGED <<deadline, callbackGate>>
    BY <1>0, <1>3 DEF InvokeMethod, RegisterListener, Transmit, SendSucceeds, Fail, BeginRelease,
       EndRelease, Throw, Enqueue, Step
  <2>2. callView' = callView
    <3>1. CASE Fail(r)
      <4>1. invocation[r] # "expiring" /\ exec' = [exec EXCEPT ![r] = Call(r, "error")]
        BY <3>1 DEF Fail, Step
      <4>2. exec[r].at = "idle"
        BY <1>0, <4>1 DEF ReasonInv, Reasoned
      <4>3. exec[r] = Idle /\ "error" \in Results
        BY <1>0, <4>2, CallTyped DEF Results
      <4> QED
        BY <1>0, <1>1, <2>1, <4>1, <4>3, CallViewOfCall
    <3>2. CASE ~Fail(r)
      <4>1. exec' = exec
        BY <1>3, <3>2 DEF InvokeMethod, RegisterListener, Transmit, SendSucceeds, BeginRelease,
           EndRelease, Throw, Enqueue, callVars
      <4> QED
        BY <1>1, <2>1, <4>1, CallViewKept
    <3> QED
      BY <3>1, <3>2
  <2>3. Promised!InProgress(r)
    BY <2>1, CallViewOf DEF Promised!InProgress, returnedView
  <2>4. CASE invocation'[r] = "done"
    <3>1. /\ wire' = wire
          /\ \/ invocation[r] = "enqueue"
             \/ invocation[r] = "expiring" /\ exec[r] = Idle
             \/ invocation[r] = "closing"
      BY <1>0, <1>3, <2>4 DEF InvokeMethod, RegisterListener, Transmit, SendSucceeds, Fail,
         BeginRelease, EndRelease, Throw, Enqueue, Step
    <3>2. wire[r] \/ once[r] = "done"
      BY <1>0, <3>1 DEF SentInv, AnswerInv, InvocationInv, Handles, Calling
    <3>3. wire[r] \/ callView[r].at = "answered"
      BY <2>1, <3>2, CallViewOf
    <3>4. returnedView' = [returnedView EXCEPT ![r] = TRUE]
      BY <2>1, <2>4 DEF returnedView
    <3>5. Promised!Return(r)
      BY <1>1, <2>1, <2>2, <2>3, <3>1, <3>3, <3>4 DEF Promised!Return
    <3> QED
      BY <3>5 DEF Promised!Next
  <2>5. CASE invocation'[r] # "done"
    <3>1. returnedView' = returnedView
      BY <2>1, <2>5, ReturnedViewKept
    <3>2. CASE Transmit(r)
      <4>1. wire' = [wire EXCEPT ![r] = TRUE]
        BY <3>2 DEF Transmit
      <4>2. Promised!Send(r)
        BY <1>1, <2>1, <2>2, <2>3, <3>1, <4>1 DEF Promised!Send
      <4> QED
        BY <4>2 DEF Promised!Next
    <3>3. CASE ~Transmit(r)
      <4>1. wire' = wire
        BY <1>3, <3>3 DEF InvokeMethod, RegisterListener, SendSucceeds, Fail, BeginRelease,
           EndRelease, Throw, Enqueue
      <4> QED
        BY <1>1, <2>1, <2>2, <3>1, <4>1 DEF Promised!vars
    <3> QED
      BY <3>2, <3>3
  <2> QED
    BY <2>4, <2>5
<1> QED
  BY <1>2, <1>3, <1>4

\* The user gives the handle up, the clock ticks, the transport delivers.
LEMMA OutsideRefines ==
  ASSUME KnownInv,
         \/ \E r \in Requests : HandleReset(r)
         \/ \E t \in Threads : Respond(t)
         \/ Tick \/ UNCHANGED vars
  PROVE  [Promised!Next]_(Promised!vars)
<1>0. TypeInv
  BY DEF KnownInv
<1>1. UNCHANGED <<deadline, wire, invocation, once, client, exit>>
  BY DEF HandleReset, BeginHandleReset, EndHandleReset, Respond, Deliver, Tick, vars, requestVars,
     callVars
<1>2. UNCHANGED <<returnedView, ownerView, processView>>
  BY <1>1 DEF returnedView, ownerView, processView
<1>3. ASSUME NEW r \in Requests, HandleReset(r) PROVE [Promised!Next]_(Promised!vars)
  <2>1. now' = now /\ exec' = exec
    BY <1>3 DEF HandleReset, BeginHandleReset, EndHandleReset, callVars
  <2>2. callView' = callView
    BY <1>1, <2>1, CallViewKept
  <2>3. CASE BeginHandleReset(r)
    <3>1. Promised!BeginRelease(r)
      BY <1>1, <1>2, <2>1, <2>2, <2>3 DEF BeginHandleReset, Promised!BeginRelease, returnedView
    <3> QED
      BY <3>1 DEF Promised!Next
  <2>4. CASE EndHandleReset(r)
    <3>1. callView[r].at # "calling"
      BY <2>4, CallViewOf DEF EndHandleReset
    <3>2. Promised!EndRelease(r)
      BY <1>1, <1>2, <2>1, <2>2, <2>4, <3>1 DEF EndHandleReset, Promised!EndRelease
    <3> QED
      BY <3>2 DEF Promised!Next
  <2> QED
    BY <1>3, <2>3, <2>4 DEF HandleReset
<1>4. ASSUME NEW t \in Threads, Respond(t) PROVE [Promised!Next]_(Promised!vars)
  <2>1. PICK r \in Requests, result \in Answers : Deliver(t, r, r, result)
    BY <1>4 DEF Respond, Deliver, Matches
  <2>2. result \in Results /\ t \in Executors
    BY AnswersAssumption, Apart DEF Results
  <2>3. callView' = callView
    BY <1>0, <1>1, <2>1, <2>2, CallViewOfCall DEF Deliver
  <2>4. now' = now /\ callbackGate' = callbackGate
    BY <2>1 DEF Deliver, requestVars
  <2> QED
    BY <1>1, <1>2, <2>3, <2>4 DEF Promised!vars
<1>5. CASE Tick \/ UNCHANGED vars
  <2>1. exec' = exec /\ callbackGate' = callbackGate
    BY <1>5 DEF Tick, vars, callVars, requestVars
  <2>2. callView' = callView
    BY <1>1, <2>1, CallViewKept
  <2>3. now' = now + 1 \/ now' = now
    BY <1>5 DEF Tick, vars
  <2> QED
    BY <1>1, <1>2, <2>1, <2>2, <2>3 DEF Promised!vars, Promised!Next, Promised!Tick
<1> QED
  BY <1>3, <1>4, <1>5

\* Whoever is past the flag of a request is alone there, and entitled to its answer.
LEMMA AloneWithReason ==
  ASSUME KnownInv, NEW e \in Executors, NEW r, exec[e].at \in {"call", "callback"},
         r = exec[e].req
  PROVE  /\ r \in Requests /\ once[r] = "busy" /\ invocation[r] \notin {"idle", "thrown"}
         /\ \A f \in In(r, "callback") : f = e
         /\ callbackGate[r] \in {"open", "closing", "closed"}
         /\ exec[e].result \in Results /\ Promised!Justified(r, exec[e].result)
<1>0. TypeInv /\ TimeInv /\ ReasonInv /\ SentInv /\ OnceInv
  BY DEF KnownInv, PromiseInv, IInv
<1> DEFINE result == exec[e].result
<1>1. /\ r \in Requests /\ result \in Results /\ Reasoned(e, r, result)
      /\ result = "deadline" => invocation[r] = "done" /\ deadline[r] <= now
      /\ ClientOf[r] \in Clients
  BY <1>0, CallTyped, Apart DEF ReasonInv, TimeInv, Calls
<1>2. invocation[r] \notin {"idle", "thrown"}
  <2>1. ~Unknown(r)
    BY <1>0, CalledKnown
  <2> QED
    BY <2>1 DEF Unknown
<1>3. /\ once[r] = "busy"
      /\ \A f \in In(r, "callback") : f = e
  BY <1>0, <1>1 DEF OnceInv, Past, In
<1>4. callbackGate[r] \in {"open", "closing", "closed"}
  BY <1>0, <1>1, <1>2 DEF SentInv, TypeInv, TypeOK
<1> HIDE DEF result
<1>5. Promised!Justified(r, result)
  <2>1. returnedView[r] <=> invocation[r] = "done"
    BY <1>1 DEF returnedView
  <2>2. result = "cancelled" => ownerView[ClientOf[r]] = "dying"
    BY <1>1 DEF Reasoned, ownerView
  <2>3. result = "internal" => processView = "exiting"
    BY <1>1 DEF Reasoned, processView
  <2> QED
    BY <1>1, <2>1, <2>2, <2>3 DEF Promised!Justified, Reasoned, Results
<1> QED
  BY <1>1, <1>2, <1>3, <1>4, <1>5 DEF result

\* Only the callback itself, and its being skipped, are visible.
LEMMA CallOnceRefines ==
  ASSUME KnownInv, NEW e \in Executors, CallOnce(e)
  PROVE  [Promised!Next]_(Promised!vars)
<1>0. /\ TypeInv /\ Idle.at = "idle" /\ exec \in [Executors -> {Idle} \union Calls]
      /\ once \in [Requests -> {"unset", "busy", "done"}]
  BY DEF KnownInv, TypeInv, TypeOK, Calls, Idle
<1>1. /\ UNCHANGED <<now, deadline, wire, invocation, callbackGate, client, exit>>
      /\ exec[e].at # "idle"
  BY DEF CallOnce, TakeOnce, SkipOnce, EnterCallback, SkipCallback, ReturnCallback, Finish,
     requestVars
<1>2. UNCHANGED <<returnedView, ownerView, processView>>
  BY <1>1 DEF returnedView, ownerView, processView
<1>3. PICK r \in Requests : r = exec[e].req
  BY <1>0, <1>1, CallTyped
<1>4. PICK result : result = exec[e].result
  OBVIOUS
<1>5. exec[e] \in Calls /\ \A f \in Executors : f # e => exec'[f] = exec[f]
  BY <1>0, <1>1, CallTyped DEF CallOnce, TakeOnce, SkipOnce, EnterCallback, SkipCallback,
     ReturnCallback, Finish
<1>6. CASE TakeOnce(e) \/ SkipOnce(e)
  <2>1. "callback" \notin {exec[e].at, exec'[e].at}
    BY <1>0, <1>5, <1>6 DEF TakeOnce, SkipOnce, Calls
  <2>2. \A s \in Requests : once'[s] = "done" <=> once[s] = "done"
    BY <1>0, <1>3, <1>6 DEF TakeOnce, SkipOnce
  <2>3. callView' = callView
    BY <1>1, <1>5, <2>1, <2>2, CallViewKept
  <2> QED
    BY <1>1, <1>2, <2>3 DEF Promised!vars
<1>7. CASE EnterCallback(e) \/ SkipCallback(e) \/ ReturnCallback(e)
  <2>1. exec[e].at \in {"call", "callback"}
    BY <1>7 DEF EnterCallback, SkipCallback, ReturnCallback
  <2>2. /\ once[r] = "busy" /\ invocation[r] \notin {"idle", "thrown"}
        /\ \A f \in In(r, "callback") : f = e
        /\ callbackGate[r] \in {"open", "closing", "closed"}
        /\ result \in Results /\ Promised!Justified(r, result)
    BY <1>3, <1>4, <2>1, AloneWithReason
  <2>3. ASSUME NEW s \in Requests, s # r PROVE callView'[s] = callView[s]
    <3>1. once'[s] = once[s]
      BY <1>0, <1>3, <1>7, <2>3 DEF EnterCallback, SkipCallback, ReturnCallback, Finish
    <3>2. exec'[e].at = "callback" => exec'[e].req = r
      BY <1>0, <1>3, <1>5, <1>7 DEF EnterCallback, SkipCallback, ReturnCallback, Finish, Calls
    <3>3. In(s, "callback")' = In(s, "callback") /\ e \notin In(s, "callback")
      BY <1>3, <1>5, <2>3, <3>2 DEF In
    <3>4. \A f \in In(s, "callback") : exec'[f].result = exec[f].result
      BY <1>5, <3>3 DEF In
    <3> QED
      BY <1>1, <3>1, <3>3, <3>4, CallViewSame
  <2>4. exec[e].at = "call" => In(r, "callback") = {}
    BY <2>2 DEF In
  <2>5. exec[e].at = "call" => callView[r] = [at |-> "open", with |-> {}]
    BY <2>2, <2>4 DEF callView
  <2>6. CASE EnterCallback(e)
    <3>1. exec'[e].at = "callback" /\ exec'[e].req = r /\ exec'[e].result = result
          /\ once' = once /\ exec[e].at = "call"
      BY <1>0, <1>3, <1>4, <1>5, <2>6 DEF EnterCallback, Calls
    <3>2. callbackGate[r] = "open"
      BY <1>3, <2>4, <2>6, <3>1 DEF EnterCallback, Admits
    <3>3. In(r, "callback")' = {e}
      BY <1>5, <2>4, <3>1 DEF In
    <3>4. {exec'[f].result : f \in {e}} = {result}
      BY <3>1
    <3>5. callView'[r] = [at |-> "calling", with |-> {result}]
      BY <1>1, <2>2, <3>1, <3>3, <3>4 DEF callView
    <3>6. callView' = [callView EXCEPT ![r] = [at |-> "calling", with |-> {result}]]
      BY <2>3, <3>5, CallViewAt
    <3>7. result \in Promised!Results
      BY <2>2 DEF Results, Promised!Results
    <3>8. \E x \in Promised!Results :
              /\ Promised!Justified(r, x)
              /\ callView' = [callView EXCEPT ![r] = [at |-> "calling", with |-> {x}]]
      BY <2>2, <3>6, <3>7, Zenon
    <3>9. callView[r].at = "open"
      BY <2>5, <3>1
    <3>10. Promised!BeginAnswer(r)
      BY <1>1, <1>2, <3>2, <3>8, <3>9, Zenon DEF Promised!BeginAnswer
    <3> QED
      BY <3>10 DEF Promised!Next
  <2>7. CASE SkipCallback(e) \/ ReturnCallback(e)
    <3>1. exec'[e] = Idle /\ once'[r] = "done"
      BY <1>0, <1>3, <2>7 DEF SkipCallback, ReturnCallback, Finish
    <3>2. In(r, "callback")' = {}
      BY <1>0, <1>5, <2>2, <3>1 DEF In
    <3>3. callView'[r] = [at |-> "answered", with |-> {}]
      BY <1>1, <2>2, <3>1, <3>2 DEF callView
    <3>4. callView' = [callView EXCEPT ![r] = [at |-> "answered", with |-> {}]]
      BY <2>3, <3>3, CallViewAt
    <3>5. CASE SkipCallback(e)
      <4>1. exec[e].at = "call" /\ callbackGate[r] \in {"closing", "closed"}
        BY <1>3, <2>2, <3>5 DEF SkipCallback, Admits
      <4>2. [callView[r] EXCEPT !.at = "answered"] = [at |-> "answered", with |-> {}]
        BY <2>5, <4>1
      <4>3. callView' = [callView EXCEPT ![r].at = "answered"]
        BY <3>4, <4>2
      <4>4. result \in Promised!Results
        BY <2>2 DEF Results, Promised!Results
      <4>5. Promised!Discard(r)
        BY <1>1, <1>2, <2>2, <2>5, <4>1, <4>3, <4>4 DEF Promised!Discard
      <4> QED
        BY <4>5 DEF Promised!Next
    <3>6. CASE ReturnCallback(e)
      <4>1. e \in In(r, "callback")
        BY <1>3, <3>6 DEF ReturnCallback, In
      <4>2. callView[r].at = "calling"
        BY <2>2, <4>1, CallViewOf
      <4>3. Promised!EndAnswer(r)
        BY <1>1, <1>2, <3>4, <4>2 DEF Promised!EndAnswer
      <4> QED
        BY <4>3 DEF Promised!Next
    <3> QED
      BY <2>7, <3>5, <3>6
  <2> QED
    BY <1>7, <2>6, <2>7
<1> QED
  BY <1>6, <1>7 DEF CallOnce

\* The worker is not visible.
LEMMA DoWorkRefines ==
  ASSUME KnownInv, DoWork
  PROVE  [Promised!Next]_(Promised!vars)
<1>1. UNCHANGED <<now, requestVars, once, client, exit>>
  BY DEF DoWork, WorkerLoop, WorkerTake, WorkerExpired, WorkerInspect, WorkerWake,
     WorkerBeginSever, WorkerEndSever, callVars
<1>2. UNCHANGED <<returnedView, ownerView, processView>>
  BY <1>1 DEF returnedView, ownerView, processView, requestVars
<1>3. callView' = callView
  <2>1. ASSUME NEW r \in Requests, WorkerEndSever(r) PROVE callView' = callView
    <3>1. /\ worker.at = "sever" /\ "deadline" \in Results
          /\ exec' = [exec EXCEPT ![Worker] = Call(r, "deadline")]
      BY <2>1 DEF WorkerEndSever, Results
    <3>2. exec[Worker] = Idle
      BY <3>1 DEF KnownInv, PromiseInv, CollectInv
    <3> QED
      BY <1>1, <3>1, <3>2, Apart, CallViewOfCall DEF KnownInv, requestVars
  <2>2. CASE \A r \in Requests : ~WorkerEndSever(r)
    <3>1. exec' = exec
      BY <2>2 DEF DoWork, WorkerLoop, WorkerTake, WorkerExpired, WorkerInspect, WorkerWake,
         WorkerBeginSever, callVars
    <3> QED
      BY <1>1, <3>1, CallViewKept DEF requestVars
  <2> QED
    BY <2>1, <2>2
<1> QED
  BY <1>1, <1>2, <1>3 DEF Promised!vars, requestVars

\* ~RpcClient() begins, and returns when nothing is open but what has expired.
LEMMA DestroyRefines ==
  ASSUME KnownInv, NEW k \in Clients, Destroy(k) \/ DestroyClient(k)
  PROVE  [Promised!Next]_(Promised!vars)
<1>0. /\ TypeInv /\ AnswerInv /\ k \in Executors
      /\ client \in [Clients -> Tasks] /\ client[k] \in Tasks
  BY Apart DEF KnownInv, TypeInv, TypeOK
<1>1. UNCHANGED <<now, requestVars, once, exit>>
  BY DEF Destroy, DestroyClient, ScrubQueue, BeginScrubSever, EndScrubSever, ScrubUnlock,
     ScrubExpire, Destroyed, callVars
<1>2. UNCHANGED <<invocation, deadline, wire, callbackGate, returnedView, processView>>
  BY <1>1 DEF returnedView, processView, requestVars
<1>3. callView' = callView
  <2>1. CASE ScrubExpire(k)
    <3>1. Head(client[k].expire) \in Requests
      BY <1>0, <2>1 DEF ScrubExpire, Tasks
    <3>2. "cancelled" \in Results
      BY DEF Results
    <3> QED
      BY <1>0, <1>1, <1>2, <2>1, <3>1, <3>2, CallViewOfCall DEF ScrubExpire
  <2>2. CASE ~ScrubExpire(k)
    <3>1. exec' = exec
      BY <2>2 DEF Destroy, DestroyClient, ScrubQueue, BeginScrubSever, EndScrubSever, ScrubUnlock,
         Destroyed, callVars
    <3> QED
      BY <1>1, <1>2, <3>1, CallViewKept
  <2> QED
    BY <2>1, <2>2
<1>4. CASE Destroy(k)
  <2>1. /\ client[k].at = "alive" /\ exit.at = "running"
        /\ \A r \in Requests : ClientOf[r] = k => invocation[r] \in {"idle", "done", "thrown"}
        /\ client'[k].at = "locking" /\ \A j \in Clients : j # k => client'[j] = client[j]
    BY <1>0, <1>4 DEF Destroy, Outside, Stopped, Tasks
  <2>2. /\ ownerView[k] = "alive" /\ processView = "running"
        /\ ownerView' = [ownerView EXCEPT ![k] = "dying"]
    BY <2>1 DEF ownerView, processView
  <2>3. \A r \in Requests : ClientOf[r] = k => ~Promised!InProgress(r)
    BY <2>1, CallViewOf DEF Promised!InProgress, returnedView
  <2>4. Promised!Destroy(k)
    BY <1>1, <1>2, <1>3, <2>2, <2>3 DEF Promised!Destroy
  <2> QED
    BY <2>4 DEF Promised!Next
<1>5. CASE Destroyed(k)
  <2>1. /\ client[k].at = "expiring" /\ client[k].expire = <<>> /\ exec[k] = Idle
        /\ client'[k].at = "dead" /\ \A j \in Clients : j # k => client'[j] = client[j]
    BY <1>0, <1>5 DEF Destroyed, Tasks
  <2>2. /\ ownerView[k] = "dying"
        /\ ownerView' = [ownerView EXCEPT ![k] = "dead"]
    BY <2>1 DEF ownerView
  <2>3. ASSUME NEW r \in Requests, ClientOf[r] = k, Promised!Unanswered(r)
        PROVE  deadline[r] <= now
    <3>1. invocation[r] \notin {"idle", "thrown"} /\ once[r] # "done"
      BY <2>3, CallViewOf DEF Promised!Unanswered
    <3>2. Owned(r)
      BY <1>0, <2>1, <2>3, <3>1 DEF AnswerInv, InvocationInv, TrackInv
    <3>3. ~Queued(r)
      BY <1>0, <2>1, <2>3 DEF AnswerInv, EntryInv, ClientInv, Queued
    <3>4. Items(client[k].expire) = {}
      BY <2>1 DEF Items
    <3>5. ~Handles(k, r)
      BY <2>1, <3>1 DEF Handles, Calling, Idle
    <3>6. HeldByWorker(r)
      BY <2>3, <3>2, <3>3, <3>4, <3>5 DEF Owned
    <3> QED
      BY <3>6 DEF KnownInv, TimeInv
  <2>4. Promised!Destroyed(k)
    BY <1>1, <1>2, <1>3, <2>2, <2>3 DEF Promised!Destroyed
  <2> QED
    BY <2>4 DEF Promised!Next
<1>6. CASE ~Destroy(k) /\ ~Destroyed(k)
  <2>1. /\ \A j \in Clients : j # k => client'[j] = client[j]
        /\ {client[k].at, client'[k].at} \intersect {"alive", "dead"} = {}
    BY <1>0, <1>6 DEF Destroy, DestroyClient, ScrubQueue, BeginScrubSever, EndScrubSever,
       ScrubUnlock, ScrubExpire, Tasks
  <2>2. ownerView' = ownerView
    BY <2>1, OwnerViewKept
  <2> QED
    BY <1>1, <1>2, <1>3, <2>2 DEF Promised!vars
<1> QED
  BY <1>4, <1>5, <1>6

\* The process exits, and is gone when nothing is open.
LEMMA ExitRefines ==
  ASSUME KnownInv, Exit \/ ExitProcess
  PROVE  [Promised!Next]_(Promised!vars)
<1>0. TypeInv /\ AnswerInv /\ exit \in Exits
  BY DEF KnownInv, TypeInv, TypeOK
<1>1. UNCHANGED <<now, requestVars, once, client>>
  BY DEF Exit, ExitProcess, ExitNotify, ExitJoin, ExitExpire, ExitRelease, BeginExitSever,
     EndExitSever, callVars
<1>2. UNCHANGED <<invocation, deadline, wire, callbackGate, returnedView, ownerView>>
  BY <1>1 DEF returnedView, ownerView, requestVars
<1>3. callView' = callView
  <2>1. CASE ExitExpire
    <3>1. Head(exit.expire) \in Requests
      BY <1>0, <2>1 DEF ExitExpire, Exits
    <3>2. "internal" \in Results
      BY DEF Results
    <3> QED
      BY <1>0, <1>1, <1>2, <2>1, <3>1, <3>2, Apart, CallViewOfCall DEF ExitExpire
  <2>2. CASE ~ExitExpire
    <3>1. exec' = exec
      BY <2>2 DEF Exit, ExitProcess, ExitNotify, ExitJoin, ExitRelease, BeginExitSever,
         EndExitSever, callVars
    <3> QED
      BY <1>1, <1>2, <3>1, CallViewKept
  <2> QED
    BY <2>1, <2>2
<1>4. CASE Exit
  <2>1. /\ exit.at = "running" /\ exit'.at = "notifying"
        /\ \A r \in Requests : invocation[r] \in {"idle", "done", "thrown"}
        /\ \A k \in Clients : client[k].at \in {"alive", "dead"}
    BY <1>0, <1>4 DEF Exit, Outside, Exits
  <2>2. processView = "running" /\ processView' = "exiting"
    BY <2>1 DEF processView
  <2>3. \A r \in Requests : ~Promised!InProgress(r)
    BY <2>1, CallViewOf DEF Promised!InProgress, returnedView
  <2>4. \A k \in Clients : ownerView[k] # "dying"
    BY <2>1 DEF ownerView
  <2>5. Promised!Exit
    BY <1>1, <1>2, <1>3, <2>2, <2>3, <2>4 DEF Promised!Exit
  <2> QED
    BY <2>5 DEF Promised!Next
<1>5. CASE ExitRelease
  <2>1. /\ exit.at = "expiring" /\ exit.expire = <<>> /\ exec[Main] = Idle
        /\ exit'.at \in {"severing", "gone"}
    BY <1>0, <1>5 DEF ExitRelease, Exits
  <2>2. processView = "exiting" /\ processView' = "gone"
    BY <2>1 DEF processView
  <2>3. ASSUME NEW r \in Requests, Promised!Unanswered(r) PROVE FALSE
    <3>1. invocation[r] \notin {"idle", "thrown"} /\ once[r] # "done" /\ ClientOf[r] \in Clients
      BY <2>3, CallViewOf, Apart DEF Promised!Unanswered
    <3>2. Owned(r) /\ Stopped
      BY <1>0, <2>1, <3>1 DEF AnswerInv, InvocationInv, TrackInv, Stopped
    <3>3. ~Queued(r)
      <4>1. Items(exit.expire) = {} /\ ~Handles(Main, r)
        BY <2>1, <3>1 DEF Handles, Calling, Idle, Items
      <4> QED
        BY <1>0, <2>1, <4>1 DEF AnswerInv, ExitInv, Queued
    <3>4. client[ClientOf[r]].expire = <<>> /\ exec[ClientOf[r]] = Idle
      BY <1>0, <3>1, <3>2 DEF AnswerInv, ClientInv
    <3>5. Items(client[ClientOf[r]].expire) = {} /\ ~Handles(ClientOf[r], r)
      BY <3>1, <3>4 DEF Handles, Calling, Idle, Items
    <3>6. worker.at = "exited"
      BY <2>1 DEF KnownInv, PromiseInv, CollectInv
    <3> QED
      BY <3>2, <3>3, <3>5, <3>6 DEF Owned, HeldByWorker
  <2>4. Promised!Exited
    BY <1>1, <1>2, <1>3, <2>2, <2>3 DEF Promised!Exited
  <2> QED
    BY <2>4 DEF Promised!Next
<1>6. CASE ~Exit /\ ~ExitRelease
  <2>1. \/ /\ exit.at \in {"notifying", "joining", "expiring"}
           /\ exit'.at \in {"notifying", "joining", "expiring"}
        \/ exit.at \in {"severing", "gone"} /\ exit'.at \in {"severing", "gone"}
    <3>1. CASE ExitNotify \/ ExitJoin \/ ExitExpire
      BY <1>0, <3>1 DEF ExitNotify, ExitJoin, ExitExpire, Exits
    <3>2. CASE BeginExitSever \/ EndExitSever
      BY <1>0, <3>2 DEF BeginExitSever, EndExitSever, Exits
    <3> QED
      BY <1>6, <3>1, <3>2 DEF ExitProcess
  <2>2. processView' = processView
    BY <2>1 DEF processView
  <2> QED
    BY <1>1, <1>2, <1>3, <2>2 DEF Promised!vars
<1> QED
  BY <1>4, <1>5, <1>6

\* RpcClient implements RpcCalls, for any clients, requests, threads, lifetimes and
\* nesting: a request is answered at most once, only for the reason its result names,
\* not after its handle has been given up, and neither ~RpcClient() nor the end of the
\* process leaves one behind that nobody will answer.
THEOREM PromisesKept == Spec => KeepsPromises
<1>1. Init => Promised!Init
  <2> SUFFICES ASSUME Init PROVE Promised!Init
    OBVIOUS
  <2>1. \A r \in Requests : In(r, "callback") = {} /\ invocation[r] = "idle"
    BY DEF Init, In, Idle
  <2>2. callView = [r \in Requests |-> [at |-> "idle", with |-> {}]]
    BY <2>1 DEF callView
  <2>3. returnedView = [r \in Requests |-> FALSE] /\ processView = "running"
    BY <2>1 DEF Init, returnedView, processView
  <2>4. ownerView = [k \in Clients |-> "alive"]
    BY DEF Init, ownerView
  <2> QED
    BY <2>2, <2>3, <2>4 DEF Init, Promised!Init
<1>2. KnownInv /\ [Next]_vars => [Promised!Next]_(Promised!vars)
  BY InvokeRefines, OutsideRefines, CallOnceRefines, DoWorkRefines, DestroyRefines, ExitRefines
     DEF Next
<1>3. Spec => []KnownInv
  <2>1. Spec => []TimeInv
    BY InitTimeInv, NextTimeInv, TypeInvariance, AnswerInvariance, PTL DEF Spec
  <2> QED
    BY <2>1, Invariance, TypeInvariance, AnswerInvariance, PromiseInvariance, PTL DEF KnownInv
<1> QED
  BY <1>1, <1>2, <1>3, PTL DEF Spec, KeepsPromises, Promised!Spec

===============================================================================
