------------------------- MODULE EmbeddingLimits -------------------------
(***************************************************************************)
(* The ASGI middleware EmbeddingRequestLimits: every POST /v1/embeddings   *)
(* takes one of MaxInflight slots before the application sees it; a        *)
(* request that finds no slot queues in arrival order and is handed the    *)
(* slot of a finishing request directly.                                   *)
(*                                                                         *)
(* Each request is three asyncio tasks of one event loop: __call__ (call), *)
(* _serve (serve) and _receive_body (recv).  An action is what one task    *)
(* does between two awaits, so the order of actions is the order in which  *)
(* the loop runs ready callbacks.  Task.cancel() is split from the moment  *)
(* the cancelled task runs again: in between its future may already be     *)
(* resolved, which is the race _acquire_slot handles.                      *)
(***************************************************************************)
EXTENDS Naturals, Sequences, FiniteSets, SequencesExt

CONSTANTS
    Requests,      \* connections; each sends one request after another
    MaxInflight    \* EMBEDDINGS_MAX_INFLIGHT

ASSUME LimitsAssumption ==
    /\ MaxInflight \in Nat \ {0}
    /\ IsFiniteSet(Requests)

VARIABLES
    inflight, queue_depth,  \* the two counters metrics() reports
    waiters,                \* the deque _waiters, as the requests that own the futures
    fut,                    \* the state of a request's waiter future
    serve, recv, call,      \* where the three tasks stand
    interrupt,              \* why the _serve task is cancelled, until it sees it
    bodyReady,              \* body_ready has its result
    answers                 \* the responses begun, in order: http.response.start

vars == <<inflight, queue_depth, waiters, fut, serve, recv, call, interrupt,
          bodyReady, answers>>

slotVars == <<inflight, queue_depth, waiters>>

FutState   == {"none", "pending", "set", "cancelled"}
ServeState == {"none", "created", "queued", "body", "app", "rejecting", "done"}
RecvState  == {"none", "reading", "watching", "disconnect", "error", "cancelled"}
Interrupts == {"none", "timeout", "cancel"}
CallState  == {"idle", "waiting", "gathering", "closing"}

\* The 429 of the queue, the response of the application, and the 413 or 400
\* of __call__.
Answers == {"busy", "app", "invalid"}

TypeOK ==
    /\ inflight \in Nat
    /\ queue_depth \in Nat
    /\ waiters \in Seq(Requests)
    /\ fut \in [Requests -> FutState]
    /\ serve \in [Requests -> ServeState]
    /\ recv \in [Requests -> RecvState]
    /\ call \in [Requests -> CallState]
    /\ interrupt \in [Requests -> Interrupts]
    /\ bodyReady \in [Requests -> BOOLEAN]
    /\ answers \in [Requests -> Seq(Answers)]

Init ==
    /\ inflight = 0
    /\ queue_depth = 0
    /\ waiters = <<>>
    /\ fut = [r \in Requests |-> "none"]
    /\ serve = [r \in Requests |-> "none"]
    /\ recv = [r \in Requests |-> "none"]
    /\ call = [r \in Requests |-> "idle"]
    /\ interrupt = [r \in Requests |-> "none"]
    /\ bodyReady = [r \in Requests |-> FALSE]
    /\ answers = [r \in Requests |-> <<>>]

\* The first of the two messages of a response.
Begin(r, what) == answers' = [answers EXCEPT ![r] = Append(@, what)]

---------------------------------------------------------------------------
(* The slot pool: _acquire_slot and _release_slot.                         *)

\* Positions of the deque whose future is still pending when the futures are f.
Live(f) == {i \in DOMAIN waiters : f[waiters[i]] = "pending"}

FirstLive(f) == CHOOSE i \in Live(f) : \A j \in Live(f) : i <= j

\* Variants: a release that wakes nobody, and one that wakes the newest waiter.
ReleaseWithoutWakeup(f) ==
    /\ inflight' = inflight - 1
    /\ fut' = f
    /\ UNCHANGED <<waiters, queue_depth>>

ReleaseToNewest(f) ==
    \/ /\ Live(f) # {}
       /\ LET last == CHOOSE i \in Live(f) : \A j \in Live(f) : j <= i
          IN  /\ waiters' = RemoveAt(waiters, last)
              /\ fut' = [f EXCEPT ![waiters[last]] = "set"]
       /\ queue_depth' = queue_depth - 1
       /\ inflight' = inflight
    \/ /\ Live(f) = {}
       /\ waiters' = <<>>
       /\ fut' = f
       /\ inflight' = inflight - 1
       /\ queue_depth' = queue_depth

\* _release_slot, run while the futures are f: hand the slot to the oldest
\* waiter whose future is not done, dropping the done ones in front of it.
ReleaseSlot(f) ==
    \/ /\ Live(f) # {}
       /\ waiters' = SubSeq(waiters, FirstLive(f) + 1, Len(waiters))
       /\ fut' = [f EXCEPT ![waiters[FirstLive(f)]] = "set"]
       /\ queue_depth' = queue_depth - 1
       /\ inflight' = inflight
    \/ /\ Live(f) = {}
       /\ waiters' = <<>>
       /\ fut' = f
       /\ inflight' = inflight - 1
       /\ queue_depth' = queue_depth

\* First step of _serve: take a free slot unless somebody queues, else queue.
FreeSlot == inflight < MaxInflight /\ waiters = <<>>

AcquireSlot(r) ==
    /\ serve[r] = "created"
    /\ \/ /\ FreeSlot
          /\ inflight' = inflight + 1
          /\ serve' = [serve EXCEPT ![r] = "body"]
          /\ UNCHANGED <<queue_depth, waiters, fut>>
       \/ /\ ~FreeSlot
          /\ waiters' = Append(waiters, r)
          /\ fut' = [fut EXCEPT ![r] = "pending"]
          /\ queue_depth' = queue_depth + 1
          /\ serve' = [serve EXCEPT ![r] = "queued"]
          /\ inflight' = inflight
    /\ UNCHANGED <<recv, call, interrupt, bodyReady, answers>>

\* task.cancel() on the _serve task of r: a pending waiter future is
\* cancelled, a resolved one keeps its result and the task is interrupted
\* when it next runs.  A cancellation beside the timeout overrules it.
Interrupt(r, why) ==
    /\ interrupt' = [interrupt EXCEPT ![r] = why]
    /\ fut' = [fut EXCEPT ![r] = IF @ = "pending" THEN "cancelled" ELSE @]

\* asyncio.timeout(queue_timeout) expires: it cancels the task it guards.  (Of
\* a task that is cancelled already, it changes nothing.)
QueueTimeout(r) ==
    /\ serve[r] = "queued"
    /\ interrupt[r] = "none"
    /\ Interrupt(r, "timeout")
    /\ UNCHANGED <<slotVars, serve, recv, call, bodyReady, answers>>

\* The waiter resumes with the slot it was handed; a body that is complete by
\* now is passed to the application without another suspension.
WakeWithSlot(r) ==
    /\ serve[r] = "queued"
    /\ fut[r] = "set"
    /\ interrupt[r] = "none"
    /\ serve' = [serve EXCEPT ![r] = IF bodyReady[r] THEN "app" ELSE "body"]
    /\ fut' = [fut EXCEPT ![r] = "none"]
    /\ UNCHANGED <<slotVars, recv, call, interrupt, bodyReady, answers>>

\* Variant: the slot handed over in the meantime is forgotten.
GiveUpKeepingSlot(r) ==
    /\ waiters' = RemoveFirst(waiters, r)
    /\ fut' = [fut EXCEPT ![r] = "none"]
    /\ queue_depth' = IF fut[r] = "set" THEN queue_depth ELSE queue_depth - 1
    /\ inflight' = inflight

\* The waiter resumes with an exception: a slot handed to it meanwhile is
\* passed on, otherwise it leaves the deque (where a release may already have
\* dropped it).
GiveUpQueueing(r) ==
    \/ /\ fut[r] = "set"
       /\ ReleaseSlot([fut EXCEPT ![r] = "none"])
    \/ /\ fut[r] # "set"
       /\ waiters' = RemoveFirst(waiters, r)
       /\ fut' = [fut EXCEPT ![r] = "none"]
       /\ queue_depth' = queue_depth - 1
       /\ inflight' = inflight

\* A cancellation, alone or beside the timeout, ends the task.
WakeCancelled(r) ==
    /\ serve[r] = "queued"
    /\ interrupt[r] = "cancel"
    /\ GiveUpQueueing(r)
    /\ serve' = [serve EXCEPT ![r] = "done"]
    /\ interrupt' = [interrupt EXCEPT ![r] = "none"]
    /\ UNCHANGED <<recv, call, bodyReady, answers>>

\* The timeout alone becomes a 429.  Its start is sent, and before its body is,
\* other tasks may run: main.py puts BaseHTTPMiddleware around this middleware,
\* whose send() hands each message over to another task.
WakeTimedOut(r) ==
    /\ serve[r] = "queued"
    /\ interrupt[r] = "timeout"
    /\ GiveUpQueueing(r)
    /\ serve' = [serve EXCEPT ![r] = "rejecting"]
    /\ Begin(r, "busy")
    /\ interrupt' = [interrupt EXCEPT ![r] = "none"]
    /\ UNCHANGED <<recv, call, bodyReady>>

\* _reject(429) completes, or is cancelled between its two messages.
EndReject429(r) ==
    /\ serve[r] = "rejecting"
    /\ serve' = [serve EXCEPT ![r] = "done"]
    /\ interrupt' = [interrupt EXCEPT ![r] = "none"]
    /\ UNCHANGED <<slotVars, fut, recv, call, bodyReady, answers>>

\* The holder of a slot finds its body and enters the application.
EnterApp(r) ==
    /\ serve[r] = "body"
    /\ bodyReady[r]
    /\ interrupt[r] = "none"
    /\ serve' = [serve EXCEPT ![r] = "app"]
    /\ UNCHANGED <<slotVars, fut, recv, call, interrupt, bodyReady, answers>>

\* The application starts its response.
AppResponds(r) ==
    /\ serve[r] = "app"
    /\ interrupt[r] = "none"
    /\ answers[r] = <<>>
    /\ Begin(r, "app")
    /\ UNCHANGED <<slotVars, fut, serve, recv, call, interrupt, bodyReady>>

\* The finally of _serve: the application returned or raised, or the task was
\* cancelled in it or while it waited for the body.
LeaveWithSlot(r) ==
    /\ \/ serve[r] = "app"
       \/ serve[r] = "body" /\ interrupt[r] # "none"
    /\ ReleaseSlot(fut)
    /\ serve' = [serve EXCEPT ![r] = "done"]
    /\ interrupt' = [interrupt EXCEPT ![r] = "none"]
    /\ UNCHANGED <<recv, call, bodyReady, answers>>

---------------------------------------------------------------------------
(* _receive_body: the events of the client.                                *)

BodyComplete(r) ==
    /\ recv[r] = "reading"
    /\ serve[r] # "created"
    /\ recv' = [recv EXCEPT ![r] = "watching"]
    /\ bodyReady' = [bodyReady EXCEPT ![r] = TRUE]
    /\ UNCHANGED <<slotVars, fut, serve, call, interrupt, answers>>

\* Too many bytes (413), or fewer or more than Content-Length said (400).
BodyInvalid(r) ==
    /\ recv[r] = "reading"
    /\ serve[r] # "created"
    /\ recv' = [recv EXCEPT ![r] = "error"]
    /\ UNCHANGED <<slotVars, fut, serve, call, interrupt, bodyReady, answers>>

Disconnect(r) ==
    /\ recv[r] \in {"reading", "watching"}
    /\ serve[r] # "created"
    /\ recv' = [recv EXCEPT ![r] = "disconnect"]
    /\ UNCHANGED <<slotVars, fut, serve, call, interrupt, bodyReady, answers>>

---------------------------------------------------------------------------
(* __call__: race the two tasks, then make sure both have ended.           *)

Call(r) ==
    /\ call[r] = "idle"
    /\ call' = [call EXCEPT ![r] = "waiting"]
    /\ serve' = [serve EXCEPT ![r] = "created"]
    /\ recv' = [recv EXCEPT ![r] = "reading"]
    /\ UNCHANGED <<slotVars, fut, interrupt, bodyReady, answers>>

RecvEnded(r) == recv[r] \in {"disconnect", "error"}

\* What __call__ leaves behind when its last gather returns.
Forget(r) ==
    /\ call' = [call EXCEPT ![r] = "idle"]
    /\ serve' = [serve EXCEPT ![r] = "none"]
    /\ recv' = [recv EXCEPT ![r] = "none"]
    /\ interrupt' = [interrupt EXCEPT ![r] = "none"]
    /\ bodyReady' = [bodyReady EXCEPT ![r] = FALSE]
    /\ answers' = [answers EXCEPT ![r] = <<>>]
    /\ UNCHANGED <<slotVars, fut>>

\* asyncio.wait returned and _serve is among the finished tasks: the receiver
\* is cancelled and __call__ returns.
ServeFirst(r) ==
    /\ call[r] = "waiting"
    /\ serve[r] = "done"
    /\ Forget(r)

\* asyncio.wait returned because the client left or its body is invalid.
ReceiveFirst(r) ==
    /\ call[r] = "waiting"
    /\ RecvEnded(r)
    /\ serve[r] # "done"
    /\ call' = [call EXCEPT ![r] = "gathering"]
    /\ Interrupt(r, "cancel")
    /\ UNCHANGED <<slotVars, serve, recv, bodyReady, answers>>

\* Variant: a client that has left is answered like one with an invalid body.
GatherAnswersAlways(r) ==
    /\ call[r] = "gathering"
    /\ serve[r] = "done"
    /\ call' = [call EXCEPT ![r] = "closing"]
    /\ Begin(r, "invalid")
    /\ recv' = [recv EXCEPT ![r] = "cancelled"]
    /\ UNCHANGED <<slotVars, fut, serve, interrupt, bodyReady>>

\* The cancelled _serve has ended; an invalid body is answered only now, even
\* when _serve has begun a 429 meanwhile.
AfterGather(r) ==
    /\ call[r] = "gathering"
    /\ serve[r] = "done"
    /\ call' = [call EXCEPT ![r] = "closing"]
    /\ IF recv[r] = "error" THEN Begin(r, "invalid") ELSE UNCHANGED answers
    /\ recv' = [recv EXCEPT ![r] = "cancelled"]
    /\ UNCHANGED <<slotVars, fut, serve, interrupt, bodyReady>>

\* The server cancels __call__ itself (shutdown): its finally cancels both
\* tasks and waits for them.
CancelCall(r) ==
    /\ call[r] \in {"waiting", "gathering"}
    /\ serve[r] \notin {"created", "done"}
    /\ call' = [call EXCEPT ![r] = "closing"]
    /\ recv' = [recv EXCEPT ![r] = "cancelled"]
    /\ Interrupt(r, "cancel")
    /\ UNCHANGED <<slotVars, serve, bodyReady, answers>>

\* The last gather of __call__ returns; the connection may send again.
Return(r) ==
    /\ call[r] = "closing"
    /\ serve[r] = "done"
    /\ Forget(r)

---------------------------------------------------------------------------
Serve(r) ==
    \/ AcquireSlot(r)
    \/ WakeWithSlot(r)
    \/ WakeCancelled(r)
    \/ WakeTimedOut(r)
    \/ EndReject429(r)
    \/ EnterApp(r)
    \/ AppResponds(r)
    \/ LeaveWithSlot(r)

Receive(r) == BodyComplete(r) \/ BodyInvalid(r) \/ Disconnect(r)

CallStep(r) == ServeFirst(r) \/ ReceiveFirst(r) \/ AfterGather(r) \/ Return(r)

Next ==
    \E r \in Requests :
        \/ Serve(r)
        \/ QueueTimeout(r)
        \/ Receive(r)
        \/ Call(r)
        \/ CallStep(r)
        \/ CancelCall(r)

Spec == Init /\ [][Next]_vars

\* The loop runs every ready callback, so neither task of a request stalls;
\* the application returns and clients take what is sent to them, and finish
\* their body or go away, so every slot is eventually released.  No timer is assumed to fire.
FairSpec ==
    /\ Spec
    /\ \A r \in Requests :
         /\ WF_vars(Serve(r))
         /\ WF_vars(CallStep(r))
         /\ WF_vars(recv[r] = "reading" /\ Receive(r))

---------------------------------------------------------------------------
(* Properties.                                                             *)

\* Requests that own a slot: those past _acquire_slot, and those handed a
\* slot that have not resumed yet.
Holds(r) == serve[r] \in {"body", "app"} \/ (serve[r] = "queued" /\ fut[r] = "set")
Holders == {r \in Requests : Holds(r)}

\* Requests that queue and own no slot.
Queued == {r \in Requests : serve[r] = "queued" /\ fut[r] # "set"}

\* No slot is leaked or granted twice, whatever the order of hand-over,
\* timeout, disconnect and shutdown: the counter inflight is exactly the
\* number of requests that own a slot, and never above the capacity
\* (_acquire_slot, _release_slot and the finally of _serve).
SlotAccounting ==
    /\ inflight = Cardinality(Holders)
    /\ inflight <= MaxInflight

\* The reported queue depth is the number of requests that wait, although it
\* is decremented in three places by two different tasks.
QueueDepthExact == queue_depth = Cardinality(Queued)

\* No lost wake-up: while anybody stands in the deque every slot is taken, so
\* the next release finds the waiter (the reason AcquireSlot need not look
\* again after it has queued).
NoIdleSlotWhileWaiting == waiters # <<>> => inflight = MaxInflight

\* A queued request that can still be woken is in the deque exactly once, and
\* nobody is left in the deque after its _serve task has moved on.
Waiting(r) == serve[r] = "queued" /\ fut[r] = "pending"
LineExact ==
    /\ IsInjective(waiters)
    /\ {r \in Requests : Waiting(r)} \subseteq ToSet(waiters)
    /\ ToSet(waiters) \subseteq Queued

\* First come, first served: in one step no request obtains a slot while
\* another that has queued longer keeps waiting with a live future.
Before(q, r) ==
    \E i \in DOMAIN waiters :
        /\ waiters[i] = q
        /\ \A j \in DOMAIN waiters : waiters[j] = r => i < j
NoOvertaking ==
    [][\A q, r \in Requests :
          (Waiting(q) /\ Before(q, r) /\ ~Holds(r) /\ Holds(r)') => ~Waiting(q)']_vars

\* Of the three tasks of a request at most one begins a response, in whatever
\* order the queue timeout, the application, an invalid body, a disconnect and a
\* shutdown come - with one exception: a 429 that was begun, and perhaps ended,
\* in the loop rounds in which the body turns out to be invalid is followed by
\* a 413 or 400 (_reject in __call__ looks at nothing that _serve has sent).
\* And the 413 or 400 is begun only when the request has given back its place
\* in the queue or its slot, as the comment in __call__ says.
OnlyBusyIsOvertaken ==
    \A r \in Requests :
        /\ Len(answers[r]) <= 1 \/ answers[r] = <<"busy", "invalid">>
        /\ "invalid" \in ToSet(answers[r]) => ~Holds(r) /\ r \notin Queued

\* The middleware implements a fair pool of slots: in its line are the
\* requests that can still be woken, in the order of the deque.
InLine == {r \in Requests : Waiting(r)}
Ahead == [r \in Requests |-> {q \in InLine : r \in InLine /\ Before(q, r)}]
Pool == INSTANCE FairSlots WITH
            Clients <- Requests,
            Capacity <- MaxInflight,
            holders <- Holders,
            waiting <- InLine,
            ahead <- Ahead
ImplementsFairSlots == Pool!Spec

\* A request never waits forever for a slot: it is served, rejected or gone.
NeverStuckInQueue ==
    \A r \in Requests : []<>(serve[r] # "queued")

===========================================================================
