-------------------------------- MODULE RpcCalls --------------------------------
(***************************************************************************)
(* What RpcClient promises its users, without saying how: every call of    *)
(* invokeMethod() is answered at most once, for a reason, and never after  *)
(* its InvokeHandle has been given up; and whoever ends the client or the  *)
(* process is told when nothing is open any more.  There is no worker, no  *)
(* queue, no listener and no thread here.                                  *)
(***************************************************************************)
EXTENDS Naturals

CONSTANTS
    Clients,            \* RpcClient instances
    Requests,           \* calls of invokeMethod()
    ClientOf,           \* the client of a request
    Ttl,                \* the TTL of a client's requests
    MaxTime             \* bound on the clock

VARIABLES
    now,                \* the clock
    due,                \* when a request expires
    call,               \* [at, with]: "idle", "open", "calling", "answered", "thrown"
    returned,           \* invokeMethod() has returned
    sent,               \* the request was handed to the network
    handle,             \* the InvokeHandle: "none", "open", "closing", "closed"
    owner,              \* the client: "alive", "dying" or "dead"
    process             \* "running", "exiting" or "gone"

vars == <<now, due, call, returned, sent, handle, owner, process>>

Init ==
    /\ now = 0
    /\ due = [r \in Requests |-> 0]
    /\ call = [r \in Requests |-> [at |-> "idle", with |-> {}]]
    /\ returned = [r \in Requests |-> FALSE]
    /\ sent = [r \in Requests |-> FALSE]
    /\ handle = [r \in Requests |-> "none"]
    /\ owner = [k \in Clients |-> "alive"]
    /\ process = "running"

-------------------------------------------------------------------------------

InProgress(r) == call[r].at \notin {"idle", "thrown"} /\ ~returned[r]
Unanswered(r) == call[r].at \in {"open", "calling"}

\* When a request may be answered with a result.
Justified(r, result) ==
    CASE result \in {"message", "commstatus"} -> sent[r]
      [] result = "error"     -> ~returned[r]
      [] result = "deadline"  -> returned[r] /\ due[r] <= now
      [] result = "cancelled" -> returned[r] /\ owner[ClientOf[r]] = "dying"
      [] result = "internal"  -> returned[r] /\ process = "exiting"

Results == {"message", "commstatus", "error", "deadline", "cancelled", "internal"}

Invoke(r) ==
    /\ call[r].at = "idle"
    /\ owner[ClientOf[r]] = "alive"
    /\ process = "running"
    /\ now + Ttl[ClientOf[r]] <= MaxTime
    /\ call' = [call EXCEPT ![r].at = "open"]
    /\ due' = [due EXCEPT ![r] = now + Ttl[ClientOf[r]]]
    /\ handle' = [handle EXCEPT ![r] = "open"]
    /\ UNCHANGED <<now, returned, sent, owner, process>>

Send(r) ==
    /\ InProgress(r)
    /\ sent' = [sent EXCEPT ![r] = TRUE]
    /\ UNCHANGED <<now, due, call, returned, handle, owner, process>>

\* invokeMethod() returns when the request is on its way, or its failure reported.
Return(r) ==
    /\ InProgress(r)
    /\ sent[r] \/ call[r].at = "answered"
    /\ returned' = [returned EXCEPT ![r] = TRUE]
    /\ UNCHANGED <<now, due, call, sent, handle, owner, process>>

\* invokeMethod() throws: nothing was sent or answered, nothing will be.
Throw(r) ==
    /\ InProgress(r)
    /\ ~sent[r]
    /\ call[r].at = "open"
    /\ call' = [call EXCEPT ![r].at = "thrown"]
    /\ handle' = [handle EXCEPT ![r] = "closed"]
    /\ UNCHANGED <<now, due, returned, sent, owner, process>>

BeginAnswer(r) ==
    /\ call[r].at = "open"
    /\ handle[r] = "open"
    /\ \E result \in Results :
          /\ Justified(r, result)
          /\ call' = [call EXCEPT ![r] = [at |-> "calling", with |-> {result}]]
    /\ UNCHANGED <<now, due, returned, sent, handle, owner, process>>

EndAnswer(r) ==
    /\ call[r].at = "calling"
    /\ call' = [call EXCEPT ![r] = [at |-> "answered", with |-> {}]]
    /\ UNCHANGED <<now, due, returned, sent, handle, owner, process>>

\* Nobody wants the answer any more.
Discard(r) ==
    /\ call[r].at = "open"
    /\ handle[r] \in {"closing", "closed"}
    /\ \E result \in Results : Justified(r, result)
    /\ call' = [call EXCEPT ![r].at = "answered"]
    /\ UNCHANGED <<now, due, returned, sent, handle, owner, process>>

BeginRelease(r) ==
    /\ returned[r]
    /\ handle[r] = "open"
    /\ handle' = [handle EXCEPT ![r] = "closing"]
    /\ UNCHANGED <<now, due, call, returned, sent, owner, process>>

EndRelease(r) ==
    /\ handle[r] = "closing"
    /\ call[r].at # "calling"
    /\ handle' = [handle EXCEPT ![r] = "closed"]
    /\ UNCHANGED <<now, due, call, returned, sent, owner, process>>

Destroy(k) ==
    /\ owner[k] = "alive"
    /\ process = "running"
    /\ \A r \in Requests : ClientOf[r] = k => ~InProgress(r)
    /\ owner' = [owner EXCEPT ![k] = "dying"]
    /\ UNCHANGED <<now, due, call, returned, sent, handle, process>>

\* What is not answered by then has expired, and nothing else will answer it.
Destroyed(k) ==
    /\ owner[k] = "dying"
    /\ \A r \in Requests : ClientOf[r] = k /\ Unanswered(r) => due[r] <= now
    /\ owner' = [owner EXCEPT ![k] = "dead"]
    /\ UNCHANGED <<now, due, call, returned, sent, handle, process>>

Exit ==
    /\ process = "running"
    /\ \A r \in Requests : ~InProgress(r)
    /\ \A k \in Clients : owner[k] # "dying"
    /\ process' = "exiting"
    /\ UNCHANGED <<now, due, call, returned, sent, handle, owner>>

Exited ==
    /\ process = "exiting"
    /\ \A r \in Requests : ~Unanswered(r)
    /\ process' = "gone"
    /\ UNCHANGED <<now, due, call, returned, sent, handle, owner>>

Tick ==
    /\ now' = now + 1
    /\ UNCHANGED <<due, call, returned, sent, handle, owner, process>>

Next ==
    \/ \E r \in Requests :
          \/ Invoke(r) \/ Send(r) \/ Return(r) \/ Throw(r)
          \/ BeginAnswer(r) \/ EndAnswer(r) \/ Discard(r)
          \/ BeginRelease(r) \/ EndRelease(r)
    \/ \E k \in Clients : Destroy(k) \/ Destroyed(k)
    \/ Exit \/ Exited \/ Tick

Spec == Init /\ [][Next]_vars

===============================================================================
