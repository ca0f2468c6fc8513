-------------------------- MODULE CallbackConnection --------------------------
(***************************************************************************)
(* One connection made by Connection::establish(): the CalleeHandle of its *)
(* owner, the Connection object, and the CallerHandle copies of a set of   *)
(* caller threads (include/up-cpp/utils/CallbackConnection.h).             *)
(*                                                                         *)
(* The callback object is reference counted: the CalleeHandle holds one    *)
(* strong reference, every call that is executing the callback another,    *)
(* and the Connection a weak one.  sever() waits on a condition variable   *)
(* until the weak reference has expired; a call that finds it expired      *)
(* after the callback notifies.                                            *)
(*                                                                         *)
(* Steps are the program's accesses to shared state: the atomic flag, the  *)
(* mutex, the reference counts and the condition variable.                 *)
(***************************************************************************)
EXTENDS Integers

CONSTANTS
    Callers,            \* threads, each with a CallerHandle slot of its own
    MayThrow            \* whether the callback may leave by an exception

ASSUME CallersAssumption == Callers # {}
ASSUME MayThrowAssumption == MayThrow \in BOOLEAN

VARIABLES
    calleeCallback,     \* CalleeHandle::callback_ is engaged
    calleeConnection,   \* CalleeHandle::connection_ refers to this connection
    cleanup,            \* CalleeHandle::cleanup_ is engaged
    calleePc,           \* where the owner is in reset() and sever()
    severRequested,     \* Connection::sever_requested_
    callerConnection,   \* callerConnection[c]: c's CallerHandle holds it
    callerPc,           \* where caller c is in Connection::operator()
    returned,           \* history: some reset() has returned
    cleanups            \* history: how often the cleanup function was called

calleeVars == <<calleeCallback, calleeConnection, cleanup, calleePc>>
callerVars == <<callerConnection, callerPc>>
history    == <<returned, cleanups>>
vars == <<calleeVars, severRequested, callerVars, history>>

CallerLocations == {"idle", "copy", "upgrade", "running", "check", "notify"}
CalleeLocations == {"idle", "lockConnection", "flag", "acquire", "predicate",
                    "block", "waiting", "cleanup"}

TypeOK ==
    /\ calleeCallback \in BOOLEAN
    /\ calleeConnection \in BOOLEAN
    /\ cleanup \in BOOLEAN
    /\ calleePc \in CalleeLocations
    /\ severRequested \in BOOLEAN
    /\ callerConnection \in [Callers -> BOOLEAN]
    /\ callerPc \in [Callers -> CallerLocations]
    /\ returned \in BOOLEAN
    /\ cleanups \in 0..1

\* establish(): both handles are connected; the caller side starts with one
\* CallerHandle, and the cleanup function is optional.
Init ==
    /\ calleeCallback = TRUE
    /\ calleeConnection = TRUE
    /\ cleanup \in BOOLEAN
    /\ calleePc = "idle"
    /\ severRequested = FALSE
    /\ \E c \in Callers : callerConnection = [d \in Callers |-> d = c]
    /\ callerPc = [c \in Callers |-> "idle"]
    /\ returned = FALSE
    /\ cleanups = 0

-------------------------------------------------------------------------------

Running == {c \in Callers : callerPc[c] = "running"}

\* callback_.expired(): no strong reference to the callback object is left.
Expired == ~calleeCallback /\ Running = {}

\* Faulty variant: sever() keeps the mutex while it waits.
MutexHeldWhileWaiting == calleePc \in {"predicate", "block", "waiting"}

\* callback_mtx_ is held across steps only by the owner, inside sever().
MutexHeld == calleePc \in {"predicate", "block"}

\* connection_.lock() of the CalleeHandle yields the connection.
ConnectionAlive == \E c \in Callers : callerConnection[c]

\* What isConnected() answers to a thread that holds the connection.
IsConnected == ~severRequested /\ ~Expired

GoTo(c, location) == callerPc' = [callerPc EXCEPT ![c] = location]

(***************************************************************************)
(* Connection::operator(), reached through CallerHandle::operator().       *)
(***************************************************************************)
\* A handle without a connection throws BadCallerAccess, and a connection
\* that was asked to sever returns at once: neither changes anything.
Call(c) ==
    /\ callerPc[c] = "idle"
    /\ callerConnection[c]
    /\ ~severRequested
    /\ GoTo(c, "copy")
    /\ UNCHANGED <<calleeVars, severRequested, callerConnection, history>>

\* The weak pointer is copied with callback_mtx_ held.
CopyWeak(c) ==
    /\ callerPc[c] = "copy"
    /\ ~MutexHeld
    /\ GoTo(c, "upgrade")
    /\ UNCHANGED <<calleeVars, severRequested, callerConnection, history>>

\* Faulty variant: the copy is used as if the callback were still owned.
UpgradeUnchecked(c) ==
    /\ callerPc[c] = "upgrade"
    /\ GoTo(c, "running")
    /\ UNCHANGED <<calleeVars, severRequested, callerConnection, history>>

\* callback.lock(): either a new strong reference, or none at all.
Upgrade(c) ==
    /\ callerPc[c] = "upgrade"
    /\ GoTo(c, IF Expired THEN "check" ELSE "running")
    /\ UNCHANGED <<calleeVars, severRequested, callerConnection, history>>

\* The callback returns and locked_cb goes out of scope.
Return(c) ==
    /\ callerPc[c] = "running"
    /\ GoTo(c, "check")
    /\ UNCHANGED <<calleeVars, severRequested, callerConnection, history>>

\* The callback throws: locked_cb is released, the rest is skipped.
Throw(c) ==
    /\ MayThrow
    /\ callerPc[c] = "running"
    /\ GoTo(c, "idle")
    /\ UNCHANGED <<calleeVars, severRequested, callerConnection, history>>

CheckExpired(c) ==
    /\ callerPc[c] = "check"
    /\ GoTo(c, IF Expired THEN "notify" ELSE "idle")
    /\ UNCHANGED <<calleeVars, severRequested, callerConnection, history>>

\* sever_cv_.notify_one(), without callback_mtx_: it reaches the owner only
\* if the owner is already waiting.
NotifyOne(c) ==
    /\ callerPc[c] = "notify"
    /\ GoTo(c, "idle")
    /\ calleePc' = IF calleePc = "waiting" THEN "acquire" ELSE calleePc
    /\ UNCHANGED <<calleeCallback, calleeConnection, cleanup, severRequested,
                   callerConnection, history>>

\* Thread c hands a copy of its CallerHandle to thread d.
CopyHandle(c, d) ==
    /\ callerConnection[c]
    /\ ~callerConnection[d]
    /\ callerConnection' = [callerConnection EXCEPT ![d] = TRUE]
    /\ UNCHANGED <<calleeVars, severRequested, callerPc, history>>

\* CallerHandle::reset() or destruction, outside of a call through it.
CallerReset(c) ==
    /\ callerPc[c] = "idle"
    /\ callerConnection[c]
    /\ callerConnection' = [callerConnection EXCEPT ![c] = FALSE]
    /\ UNCHANGED <<calleeVars, severRequested, callerPc, history>>

(***************************************************************************)
(* CalleeHandle::reset(), which the destructor calls too, and the sever()  *)
(* in the middle of it.  The handle keeps connection_, so it may be reset  *)
(* again.                                                                  *)
(***************************************************************************)
BeginReset ==
    /\ calleePc = "idle"
    /\ calleeConnection
    /\ calleeCallback' = FALSE
    /\ calleePc' = "lockConnection"
    /\ UNCHANGED <<calleeConnection, cleanup, severRequested, callerVars, history>>

\* Faulty variant: the cleanup function is called without sever().
LockConnectionNoSever ==
    /\ calleePc = "lockConnection"
    /\ calleePc' = IF ConnectionAlive THEN "cleanup" ELSE "idle"
    /\ returned' = (returned \/ ~ConnectionAlive)
    /\ UNCHANGED <<calleeCallback, calleeConnection, cleanup, severRequested,
                   callerVars, cleanups>>

\* No caller holds the connection any more: there is nothing to sever, and
\* the cleanup function is not called.
LockConnection ==
    /\ calleePc = "lockConnection"
    /\ calleePc' = IF ConnectionAlive THEN "flag" ELSE "idle"
    /\ returned' = (returned \/ ~ConnectionAlive)
    /\ UNCHANGED <<calleeCallback, calleeConnection, cleanup, severRequested,
                   callerVars, cleanups>>

SetFlag ==
    /\ calleePc = "flag"
    /\ severRequested' = TRUE
    /\ calleePc' = "acquire"
    /\ UNCHANGED <<calleeCallback, calleeConnection, cleanup, callerVars, history>>

\* sever() or the returning wait takes callback_mtx_.
Acquire ==
    /\ calleePc = "acquire"
    /\ ~MutexHeld
    /\ calleePc' = "predicate"
    /\ UNCHANGED <<calleeCallback, calleeConnection, cleanup, severRequested,
                   callerVars, history>>

\* Faulty variant: only the owner's own reference is looked at.
PredicateOwnReference ==
    /\ calleePc = "predicate"
    /\ calleePc' = IF ~calleeCallback THEN "cleanup" ELSE "block"
    /\ UNCHANGED <<calleeCallback, calleeConnection, cleanup, severRequested,
                   callerVars, history>>

\* Faulty variant: a wait without a predicate.
PredicateIgnored ==
    /\ calleePc = "predicate"
    /\ calleePc' = "block"
    /\ UNCHANGED <<calleeCallback, calleeConnection, cleanup, severRequested,
                   callerVars, history>>

\* The wait's predicate; if it holds, sever() returns and unlocks.
Predicate ==
    /\ calleePc = "predicate"
    /\ calleePc' = IF Expired THEN "cleanup" ELSE "block"
    /\ UNCHANGED <<calleeCallback, calleeConnection, cleanup, severRequested,
                   callerVars, history>>

\* The mutex is released and the wait begins in one step.
Block ==
    /\ calleePc = "block"
    /\ calleePc' = "waiting"
    /\ UNCHANGED <<calleeCallback, calleeConnection, cleanup, severRequested,
                   callerVars, history>>

\* A condition variable may return from its wait without a notification.
SpuriousWake ==
    /\ calleePc = "waiting"
    /\ calleePc' = "acquire"
    /\ UNCHANGED <<calleeCallback, calleeConnection, cleanup, severRequested,
                   callerVars, history>>

\* Faulty variant: cleanup_ is not reset after the call.
CallCleanupKept ==
    /\ calleePc = "cleanup"
    /\ cleanups' = IF cleanup THEN cleanups + 1 ELSE cleanups
    /\ calleePc' = "idle"
    /\ returned' = TRUE
    /\ UNCHANGED <<calleeCallback, calleeConnection, cleanup, severRequested,
                   callerVars>>

\* The cleanup function is called and forgotten, and reset() returns.
CallCleanup ==
    /\ calleePc = "cleanup"
    /\ cleanups' = IF cleanup THEN cleanups + 1 ELSE cleanups
    /\ cleanup' = FALSE
    /\ calleePc' = "idle"
    /\ returned' = TRUE
    /\ UNCHANGED <<calleeCallback, calleeConnection, severRequested, callerVars>>

\* The defaulted move assignment: another handle is moved over this one,
\* whose members are replaced without reset() being called.
Overwrite ==
    /\ calleePc = "idle"
    /\ calleeConnection
    /\ calleeConnection' = FALSE
    /\ calleeCallback' = FALSE
    /\ cleanup' = FALSE
    /\ UNCHANGED <<calleePc, severRequested, callerVars, history>>

-------------------------------------------------------------------------------

Operate(c) ==
    \/ Call(c) \/ CopyWeak(c) \/ Upgrade(c) \/ Return(c) \/ Throw(c)
    \/ CheckExpired(c) \/ NotifyOne(c)

Reset ==
    \/ BeginReset \/ LockConnection \/ SetFlag \/ Acquire \/ Predicate
    \/ Block \/ SpuriousWake \/ CallCleanup

Next ==
    \/ \E c \in Callers : Operate(c) \/ CallerReset(c)
    \/ \E c, d \in Callers : CopyHandle(c, d)
    \/ Reset
    \/ Overwrite

Spec == Init /\ [][Next]_vars

(***************************************************************************)
(* Every thread that can take a step of the library eventually does, and   *)
(* callbacks return.  The mutex is contended, so a caller that finds it    *)
(* free again and again gets it (strong fairness).  Nothing forces a call, *)
(* a reset, an exception or a spurious wakeup to happen.                   *)
(***************************************************************************)
Fairness ==
    /\ \A c \in Callers :
        /\ WF_vars(Upgrade(c))
        /\ WF_vars(Return(c))
        /\ WF_vars(CheckExpired(c))
        /\ WF_vars(NotifyOne(c))
        /\ SF_vars(CopyWeak(c))
    /\ WF_vars(LockConnection)
    /\ WF_vars(SetFlag)
    /\ WF_vars(Acquire)
    /\ WF_vars(Predicate)
    /\ WF_vars(Block)
    /\ WF_vars(CallCleanup)

FairSpec == Spec /\ Fairness

-------------------------------------------------------------------------------
(***************************************************************************)
(* Properties.                                                             *)
(***************************************************************************)

\* When CalleeHandle::reset() has returned, no thread is inside the callback,
\* whatever calls were in flight: the owner may destroy what it refers to.
NoCallbackAfterReset == returned => Running = {}

\* The cleanup function never runs while the callback is running or could
\* still be started: sever() has set the flag and drained the calls before.
CleanupAfterDrain ==
    calleePc = "cleanup" \/ cleanups = 1 => Expired /\ severRequested

\* A connection that isConnected() reported broken never comes back, although
\* the calls in flight still hold weak references to the callback.
DisconnectIsFinal == [][~IsConnected => ~IsConnected']_vars

\* The promise of CallbackGate, read off the handles: the gate is open while
\* the owner holds the callback, and closed when a reset() has returned.
gate == CASE calleeCallback                             -> "open"
          [] ~calleeCallback /\ returned                -> "closed"
          [] ~calleeCallback /\ ~returned /\ calleeConnection  -> "closing"
          [] ~calleeCallback /\ ~returned /\ ~calleeConnection -> "dropped"

Gate == INSTANCE CallbackGate WITH gate <- gate, active <- Running

\* The connection implements the gate: every step is a gate step or none.
ImplementsGate == Gate!Spec

\* A call that entered Connection::operator() leaves it, even when it
\* contends with the owner's sever() for callback_mtx_.
CallsReturn ==
    \A c \in Callers : callerPc[c] = "copy" ~> callerPc[c] = "idle"

\* A reset() that starts after the last callback has left returns: sever()
\* sees the expired callback before it waits for the first time.
QuietResetReturns ==
    calleePc = "lockConnection" /\ Expired ~> calleePc = "idle"

\* Severing "waits until all active callbacks have returned", for a time: if
\* callbacks return, reset() does.
ResetReturns == calleePc = "lockConnection" ~> calleePc = "idle"

===============================================================================
