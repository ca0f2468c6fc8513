----------------------- MODULE CallbackConnectionProofs -----------------------
(***************************************************************************)
(* Proofs about CallbackConnection, for any number of callers.             *)
(*                                                                         *)
(* The argument: an expired callback stays expired, because a reference    *)
(* can only be copied from one that exists.  So what the owner saw when it *)
(* evaluated the wait's predicate still holds when it calls the cleanup    *)
(* function, and when reset() has returned.                                *)
(***************************************************************************)
EXTENDS CallbackConnection, TLAPS

\* The owner inside reset() has given up its reference and still refers to
\* the connection; past the flag it has set it.
OwnerInv ==
    /\ calleePc # "idle" => ~calleeCallback /\ calleeConnection
    /\ calleePc \notin {"idle", "lockConnection", "flag"} => severRequested
    /\ calleePc = "cleanup" => Expired
    /\ calleePc = "idle" /\ calleeConnection => calleeCallback \/ returned

\* What a finished reset() leaves behind.
ResetInv ==
    /\ returned => Expired
    /\ cleanup => cleanups = 0
    /\ cleanups = 1 => returned /\ severRequested

\* A call in progress keeps its CallerHandle, hence the connection.
CallInv == \A c \in Callers : callerPc[c] # "idle" => callerConnection[c]

\* The inductive invariant.
IInv == TypeOK /\ OwnerInv /\ ResetInv /\ CallInv

\* establish() makes the inductive invariant true.
LEMMA InitIInv ==
  ASSUME Init
  PROVE  IInv
<1>1. callerConnection \in [Callers -> BOOLEAN]
  BY Zenon DEF Init
<1>2. TypeOK
  <2>1. callerPc \in [Callers -> CallerLocations]
    BY DEF Init, CallerLocations
  <2>2. /\ cleanup \in BOOLEAN
        /\ cleanups \in 0..1
        /\ calleePc \in CalleeLocations
    BY DEF Init, CalleeLocations
  <2>3. QED
    BY <1>1, <2>1, <2>2, Zenon DEF Init, TypeOK
<1>3. OwnerInv /\ ResetInv /\ CallInv
  BY DEF Init, OwnerInv, ResetInv, CallInv
<1>4. QED
  BY <1>2, <1>3 DEF IInv

\* An expired callback stays expired, whatever step any thread takes.
LEMMA ExpiredStable ==
  ASSUME IInv, [Next]_vars, Expired
  PROVE  Expired'
<1> USE DEF Expired, Running
<1>1. ASSUME NEW c \in Callers, Operate(c)
      PROVE  Expired'
  BY <1>1 DEF IInv, TypeOK, Operate, Call, CopyWeak, Upgrade, Return,
     Throw, CheckExpired, NotifyOne, GoTo, calleeVars
<1>2. ASSUME NEW c \in Callers, CallerReset(c)
      PROVE  Expired'
  BY <1>2 DEF CallerReset, calleeVars
<1>3. ASSUME NEW c \in Callers, NEW d \in Callers, CopyHandle(c, d)
      PROVE  Expired'
  BY <1>3 DEF CopyHandle, calleeVars
<1>4. CASE Reset
  BY <1>4 DEF Reset, BeginReset, LockConnection, SetFlag, Acquire, Predicate,
     Block, SpuriousWake, CallCleanup, callerVars
<1>5. CASE Overwrite
  BY <1>5 DEF Overwrite, callerVars
<1>6. CASE UNCHANGED vars
  BY <1>6 DEF vars, calleeVars, callerVars
<1>7. QED
  BY <1>1, <1>2, <1>3, <1>4, <1>5, <1>6 DEF Next

\* A caller's step changes its own location, and at most wakes the owner.
LEMMA OperateIInv ==
  ASSUME IInv, NEW c \in Callers, Operate(c)
  PROVE  IInv'
<1> USE DEF IInv
<1>0. Expired => Expired'
  BY ExpiredStable DEF Next
<1>1. CASE Call(c)
  BY <1>0, <1>1 DEF Call, GoTo, TypeOK, OwnerInv, ResetInv, CallInv, calleeVars,
     history, CallerLocations, CalleeLocations
<1>2. CASE CopyWeak(c)
  BY <1>0, <1>2 DEF CopyWeak, GoTo, TypeOK, OwnerInv, ResetInv, CallInv,
     calleeVars, history, CallerLocations, CalleeLocations
<1>3. CASE Upgrade(c)
  BY <1>0, <1>3 DEF Upgrade, GoTo, TypeOK, OwnerInv, ResetInv, CallInv,
     calleeVars, history, CallerLocations, CalleeLocations
<1>4. CASE Return(c)
  BY <1>0, <1>4 DEF Return, GoTo, TypeOK, OwnerInv, ResetInv, CallInv, calleeVars,
     history, CallerLocations, CalleeLocations
<1>5. CASE Throw(c)
  BY <1>0, <1>5 DEF Throw, GoTo, TypeOK, OwnerInv, ResetInv, CallInv, calleeVars,
     history, CallerLocations, CalleeLocations
<1>6. CASE CheckExpired(c)
  BY <1>0, <1>6 DEF CheckExpired, GoTo, TypeOK, OwnerInv, ResetInv, CallInv,
     calleeVars, history, CallerLocations, CalleeLocations
<1>7. CASE NotifyOne(c)
  BY <1>0, <1>7 DEF NotifyOne, GoTo, TypeOK, OwnerInv, ResetInv, CallInv, history,
     CallerLocations, CalleeLocations
<1>8. QED
  BY <1>1, <1>2, <1>3, <1>4, <1>5, <1>6, <1>7 DEF Operate

\* The steps of reset() and sever().
LEMMA ResetIInv ==
  ASSUME IInv, Reset
  PROVE  IInv'
<1> USE DEF IInv, callerVars
<1>0. Expired => Expired'
  BY ExpiredStable DEF Next
<1>1. CASE BeginReset
  BY <1>0, <1>1 DEF BeginReset, TypeOK, OwnerInv, ResetInv, CallInv, history,
     CallerLocations, CalleeLocations
<1>2. CASE LockConnection
  \* Without a connection there is no call, hence nobody runs the callback.
  <2>1. ~ConnectionAlive => Expired
    BY <1>2 DEF LockConnection, OwnerInv, CallInv, ConnectionAlive, Expired,
       Running
  <2>2. QED
    BY <1>0, <1>2, <2>1 DEF LockConnection, TypeOK, OwnerInv, ResetInv, CallInv,
       CallerLocations, CalleeLocations
<1>3. CASE SetFlag
  BY <1>0, <1>3 DEF SetFlag, TypeOK, OwnerInv, ResetInv, CallInv, history,
     CallerLocations, CalleeLocations
<1>4. CASE Acquire
  BY <1>0, <1>4 DEF Acquire, TypeOK, OwnerInv, ResetInv, CallInv, history,
     CallerLocations, CalleeLocations
<1>5. CASE Predicate
  BY <1>0, <1>5 DEF Predicate, TypeOK, OwnerInv, ResetInv, CallInv, history,
     CallerLocations, CalleeLocations
<1>6. CASE Block
  BY <1>0, <1>6 DEF Block, TypeOK, OwnerInv, ResetInv, CallInv, history,
     CallerLocations, CalleeLocations
<1>7. CASE SpuriousWake
  BY <1>0, <1>7 DEF SpuriousWake, TypeOK, OwnerInv, ResetInv, CallInv, history,
     CallerLocations, CalleeLocations
<1>8. CASE CallCleanup
  <2>1. /\ cleanups' \in 0..1
        /\ ~cleanup'
        /\ cleanups' = 1 => returned' /\ severRequested'
    BY <1>8 DEF CallCleanup, TypeOK, OwnerInv, ResetInv
  <2>2. TypeOK'
    BY <1>8, <2>1 DEF CallCleanup, TypeOK, CalleeLocations
  <2>3. OwnerInv' /\ ResetInv' /\ CallInv'
    BY <1>0, <1>8, <2>1 DEF CallCleanup, OwnerInv, ResetInv, CallInv
  <2>4. QED
    BY <2>2, <2>3
<1>9. QED
  BY <1>1, <1>2, <1>3, <1>4, <1>5, <1>6, <1>7, <1>8 DEF Reset

\* The invariant is inductive.
LEMMA NextIInv ==
  ASSUME IInv, [Next]_vars
  PROVE  IInv'
<1> USE DEF IInv
<1>0. Expired => Expired'
  BY ExpiredStable
<1>1. ASSUME NEW c \in Callers, Operate(c)
      PROVE  IInv'
  BY <1>1, OperateIInv
<1>2. ASSUME NEW c \in Callers, CallerReset(c)
      PROVE  IInv'
  BY <1>0, <1>2 DEF CallerReset, TypeOK, OwnerInv, ResetInv, CallInv, calleeVars,
     history, CallerLocations, CalleeLocations
<1>3. ASSUME NEW c \in Callers, NEW d \in Callers, CopyHandle(c, d)
      PROVE  IInv'
  BY <1>0, <1>3 DEF CopyHandle, TypeOK, OwnerInv, ResetInv, CallInv, calleeVars,
     history, CallerLocations, CalleeLocations
<1>4. CASE Reset
  BY <1>4, ResetIInv
<1>5. CASE Overwrite
  BY <1>0, <1>5 DEF Overwrite, TypeOK, OwnerInv, ResetInv, CallInv, callerVars,
     history, CallerLocations, CalleeLocations
<1>6. CASE UNCHANGED vars
  BY <1>0, <1>6 DEF vars, TypeOK, OwnerInv, ResetInv, CallInv, calleeVars,
     callerVars, history, CallerLocations, CalleeLocations
<1>7. QED
  BY <1>1, <1>2, <1>3, <1>4, <1>5, <1>6 DEF Next

\* Every reachable state of a connection satisfies the inductive invariant.
THEOREM Invariance == Spec => []IInv
  BY InitIInv, NextIInv, PTL DEF Spec

\* Every variable keeps its type; in particular the cleanup function given to
\* establish() is called at most once, however often reset() is.
THEOREM TypeCorrect == Spec => []TypeOK
<1>1. IInv => TypeOK
  BY DEF IInv
<1>2. QED
  BY <1>1, Invariance, PTL

\* When CalleeHandle::reset() has returned, nobody is inside the callback.
THEOREM ResetDrains == Spec => []NoCallbackAfterReset
<1>1. IInv => NoCallbackAfterReset
  BY DEF IInv, ResetInv, NoCallbackAfterReset, Expired
<1>2. QED
  BY <1>1, Invariance, PTL

\* The cleanup function is called only after sever() has drained the calls.
THEOREM CleanupLast == Spec => []CleanupAfterDrain
<1>1. IInv => CleanupAfterDrain
  BY DEF IInv, OwnerInv, ResetInv, CleanupAfterDrain
<1>2. QED
  BY <1>1, Invariance, PTL

\* A connection that isConnected() reported broken stays broken.
THEOREM BrokenForever == Spec => DisconnectIsFinal
<1>1. ASSUME IInv, [Next]_vars
      PROVE  [~IsConnected => ~IsConnected']_vars
  <2>1. Expired => Expired'
    BY <1>1, ExpiredStable
  <2>2. severRequested => severRequested'
    BY <1>1 DEF Next, Operate, Call, CopyWeak, Upgrade, Return, Throw,
       CheckExpired, NotifyOne, CallerReset, CopyHandle, Reset, BeginReset,
       LockConnection, SetFlag, Acquire, Predicate, Block, SpuriousWake,
       CallCleanup, Overwrite, vars
  <2>3. QED
    BY <2>1, <2>2 DEF IsConnected
<1>2. QED
  BY <1>1, Invariance, PTL DEF Spec, DisconnectIsFinal

-------------------------------------------------------------------------------
(***************************************************************************)
(* The connection implements CallbackGate.                                 *)
(***************************************************************************)

\* The gate's four states, each by the members that determine it.
LEMMA GateValue ==
  ASSUME TypeOK
  PROVE  /\ calleeCallback => gate = "open"
         /\ ~calleeCallback /\ returned => gate = "closed"
         /\ ~calleeCallback /\ ~returned /\ calleeConnection => gate = "closing"
         /\ ~calleeCallback /\ ~returned /\ ~calleeConnection => gate = "dropped"
  BY DEF gate, TypeOK

\* The same after a step.
LEMMA GateValueNext ==
  ASSUME TypeOK'
  PROVE  /\ calleeCallback' => gate' = "open"
         /\ ~calleeCallback' /\ returned' => gate' = "closed"
         /\ ~calleeCallback' /\ ~returned' /\ calleeConnection' => gate' = "closing"
         /\ ~calleeCallback' /\ ~returned' /\ ~calleeConnection' => gate' = "dropped"
  BY DEF gate, TypeOK

\* Steps that leave the callback's references and the history alone.
LEMMA GateStutters ==
  ASSUME UNCHANGED <<calleeCallback, calleeConnection, returned, Running>>
  PROVE  UNCHANGED Gate!vars
  BY DEF gate, Gate!vars

\* A caller's steps enter the gate, leave it, or do not touch it.
LEMMA OperateImplements ==
  ASSUME IInv, NEW c \in Callers, Operate(c)
  PROVE  [Gate!Next]_(Gate!vars)
<1> USE DEF IInv, TypeOK
<1>1. UNCHANGED <<calleeCallback, calleeConnection, returned>>
  BY DEF Operate, Call, CopyWeak, Upgrade, Return, Throw, CheckExpired, NotifyOne,
     calleeVars, history
<1>2. UNCHANGED gate
  BY <1>1 DEF gate
<1>3. ASSUME callerPc[c] # "running", GoTo(c, "running"), ~Expired
      PROVE  Gate!Enter(c)
  <2>1. Running' = Running \union {c}
    BY <1>3 DEF GoTo, Running
  <2>2. calleeCallback => gate = "open"
    BY GateValue
  <2>3. QED
    BY <1>2, <1>3, <2>1, <2>2 DEF Gate!Enter, Gate!Alive, Expired, Running
<1>4. ASSUME NEW l \in CallerLocations \ {"running"},
             callerPc[c] = "running", GoTo(c, l)
      PROVE  Gate!Leave(c)
  <2>1. Running' = Running \ {c}
    BY <1>4 DEF GoTo, Running
  <2>2. QED
    BY <1>2, <1>4, <2>1 DEF Gate!Leave, Running
<1>5. ASSUME NEW l \in CallerLocations \ {"running"},
             callerPc[c] # "running", GoTo(c, l)
      PROVE  UNCHANGED Gate!vars
  <2>1. Running' = Running
    BY <1>5 DEF GoTo, Running
  <2>2. QED
    BY <1>1, <2>1, GateStutters
<1>6. CASE Call(c) \/ CopyWeak(c) \/ CheckExpired(c) \/ NotifyOne(c)
  BY <1>5, <1>6 DEF Call, CopyWeak, CheckExpired, NotifyOne, CallerLocations
<1>7. CASE Upgrade(c)
  BY <1>3, <1>5, <1>7 DEF Upgrade, CallerLocations, Gate!Next
<1>8. CASE Return(c) \/ Throw(c)
  BY <1>4, <1>8 DEF Return, Throw, CallerLocations, Gate!Next
<1>9. QED
  BY <1>6, <1>7, <1>8 DEF Operate

\* The owner's steps begin or end the closing of the gate.
LEMMA ResetImplements ==
  ASSUME IInv, Reset, IInv'
  PROVE  [Gate!Next]_(Gate!vars)
<1> USE DEF IInv, callerVars
<1>1. Running' = Running
  BY DEF Reset, BeginReset, LockConnection, SetFlag, Acquire, Predicate, Block,
     SpuriousWake, CallCleanup, Running
<1>2. CASE BeginReset
  <2>1. CASE calleeCallback
    <3>1. ~returned
      BY <2>1 DEF ResetInv, Expired
    <3>2. gate = "open" /\ gate' = "closing"
      BY <1>2, <2>1, <3>1, GateValue, GateValueNext DEF BeginReset, history
    <3>3. QED
      BY <1>1, <3>2 DEF Gate!Next, Gate!BeginClose
  <2>2. CASE ~calleeCallback
    BY <1>1, <1>2, <2>2, GateStutters DEF BeginReset, history, TypeOK
  <2>3. QED
    BY <2>1, <2>2
<1>3. ASSUME calleePc # "idle", Expired, returned',
             UNCHANGED <<calleeCallback, calleeConnection>>
      PROVE  [Gate!Next]_(Gate!vars)
  <2>1. CASE returned
    BY <1>1, <1>3, <2>1, GateStutters DEF TypeOK
  <2>2. CASE ~returned
    <3>1. gate = "closing" /\ gate' = "closed"
      BY <1>3, <2>2, GateValue, GateValueNext DEF OwnerInv
    <3>2. QED
      BY <1>1, <1>3, <3>1 DEF Gate!Next, Gate!EndClose, Expired
  <2>3. QED
    BY <2>1, <2>2
<1>4. CASE LockConnection
  <2>1. CASE ConnectionAlive
    BY <1>1, <1>4, <2>1, GateStutters DEF LockConnection, TypeOK
  <2>2. CASE ~ConnectionAlive
    <3>1. Expired
      BY <1>4, <2>2 DEF LockConnection, OwnerInv, CallInv, ConnectionAlive,
         Expired, Running
    <3>2. QED
      BY <1>3, <1>4, <2>2, <3>1 DEF LockConnection
  <2>3. QED
    BY <2>1, <2>2
<1>5. CASE CallCleanup
  BY <1>3, <1>5 DEF CallCleanup, OwnerInv
<1>6. CASE SetFlag \/ Acquire \/ Predicate \/ Block \/ SpuriousWake
  BY <1>1, <1>6, GateStutters DEF SetFlag, Acquire, Predicate, Block,
     SpuriousWake, history
<1>7. QED
  BY <1>2, <1>4, <1>5, <1>6 DEF Reset

\* CallbackConnection implements CallbackGate, for any set of callers: what
\* the owner of a handle may rely on, whatever the calls in flight do.
THEOREM Refinement == Spec => ImplementsGate
<1>1. ASSUME Init
      PROVE  Gate!Init
  <2>1. TypeOK
    BY <1>1, InitIInv DEF IInv
  <2>2. Running = {}
    BY <1>1 DEF Init, Running
  <2>3. QED
    BY <1>1, <2>1, <2>2, GateValue DEF Init, Gate!Init
<1>2. ASSUME IInv, [Next]_vars
      PROVE  [Gate!Next]_(Gate!vars)
  <2>0. IInv'
    BY <1>2, NextIInv
  <2>1. ASSUME NEW c \in Callers, Operate(c)
        PROVE  [Gate!Next]_(Gate!vars)
    BY <1>2, <2>1, OperateImplements
  <2>2. ASSUME NEW c \in Callers, CallerReset(c)
        PROVE  [Gate!Next]_(Gate!vars)
    BY <2>2, GateStutters DEF CallerReset, calleeVars, history, Running
  <2>3. ASSUME NEW c \in Callers, NEW d \in Callers, CopyHandle(c, d)
        PROVE  [Gate!Next]_(Gate!vars)
    BY <2>3, GateStutters DEF CopyHandle, calleeVars, history, Running
  <2>4. CASE Reset
    BY <1>2, <2>0, <2>4, ResetImplements
  <2>5. CASE Overwrite
    <3>1. Running' = Running
      BY <2>5 DEF Overwrite, callerVars, Running
    <3>2. CASE calleeCallback
      <4>1. ~returned
        BY <1>2, <3>2 DEF IInv, ResetInv, Expired
      <4>2. gate = "open" /\ gate' = "dropped"
        BY <1>2, <2>0, <2>5, <3>2, <4>1, GateValue, GateValueNext
           DEF Overwrite, IInv, history
      <4>3. QED
        BY <3>1, <4>2 DEF Gate!Next, Gate!Drop
    <3>3. CASE ~calleeCallback
      <4>1. returned /\ returned'
        BY <1>2, <2>5, <3>3 DEF Overwrite, IInv, OwnerInv, history
      <4>2. gate = "closed" /\ gate' = "closed"
        BY <1>2, <2>0, <2>5, <3>3, <4>1, GateValue, GateValueNext
           DEF Overwrite, IInv
      <4>3. QED
        BY <3>1, <4>2 DEF Gate!vars
    <3>4. QED
      BY <3>2, <3>3
  <2>6. CASE UNCHANGED vars
    BY <2>6, GateStutters DEF vars, calleeVars, callerVars, history, Running
  <2>7. QED
    BY <1>2, <2>1, <2>2, <2>3, <2>4, <2>5, <2>6 DEF Next
<1>3. QED
  BY <1>1, <1>2, Invariance, PTL DEF Spec, ImplementsGate, Gate!Spec

===============================================================================
