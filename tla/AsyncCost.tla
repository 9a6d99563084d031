----------------------------- MODULE AsyncCost -----------------------------
(***************************************************************************)
(* What one process does between the code that wants to make a paid call   *)
(* and the cost ledger (class AsyncCostAccounting): admissions run in a    *)
(* pool of worker threads behind a semaphore with as many slots, callers   *)
(* wait at most Timeout for both, records of usage go through a bounded    *)
(* queue to one writer, and aclose drains that queue.                      *)
(*                                                                         *)
(* An action is what the event loop runs between two awaits, or one step   *)
(* of a worker thread.  The semaphore is asyncio's: `line' holds its       *)
(* waiters, a call is "granted" from the moment its future is resolved     *)
(* until its task runs again, and whoever resumes in acquire() wakes as    *)
(* many waiters as there are free slots.                                   *)
(***************************************************************************)
EXTENDS Naturals, Sequences, FiniteSets, FiniteSetsExt, SequencesExt

CONSTANTS
    Calls,         \* admissions asked for (before_attempt, readiness, admin)
    Workers,       \* COST_ADMISSION_WORKERS
    Timeout,       \* COST_ADMISSION_TIMEOUT_SECONDS
    QueueSize,     \* capacity of the record queue
    MaxTime        \* bound of the clock, for TLC

ASSUME AsyncAssumption ==
    /\ IsFiniteSet(Calls)
    /\ Workers \in Nat \ {0} /\ Timeout \in Nat \ {0} /\ QueueSize \in Nat \ {0}
    /\ MaxTime \in Nat

VARIABLES
    now,           \* loop.time()
    call,          \* what the task that asked for an admission is doing
    asked, due,    \* when it asked, and when its running timer ends
    free, line,    \* _admission_slots: its value and its pending waiters
    waiters,       \* _admission_waiters
    op,            \* the database operation of a call, as its thread sees it
    admissions,    \* _admissions: operations whose end the loop has not seen
    queue,         \* number of records in _queue
    writer, rec,   \* the task _writer, and its thread's operation
    in_flight, written, dropped,   \* record_in_flight, records_written, ...
    offered,       \* usages given to record_attempt (history)
    phase          \* how far aclose is

callVars == <<call, asked, due>>
slotVars == <<free, line, waiters>>
opVars == <<op, admissions>>
recordVars == <<queue, writer, rec, in_flight, written, dropped, offered>>
vars == <<now, callVars, slotVars, opVars, recordVars, phase>>

CallState == {"idle", "queued", "granted", "waiting", "admitted", "failed", "done"}
OpState   == {"none", "submitted", "busy", "reserved", "refused"}
Phase     == {"open", "flushing", "cancelling", "draining", "ended"}

TypeOK ==
    /\ now \in 0..MaxTime
    /\ call \in [Calls -> CallState]
    /\ asked \in [Calls -> 0..MaxTime] /\ due \in [Calls -> 0..MaxTime]
    /\ free \in 0..Workers /\ waiters \in Nat
    /\ line \in Seq(Calls)
    /\ op \in [Calls -> OpState]
    /\ admissions \subseteq Calls
    /\ queue \in 0..QueueSize
    /\ writer \in {"none", "idle", "writing", "ended"}
    /\ rec \in {"none", "busy", "ok", "error"}
    /\ in_flight \in {0, 1}
    /\ written \in Nat /\ dropped \in Nat /\ offered \in Nat
    /\ phase \in Phase

Init ==
    /\ now = 0
    /\ call = [c \in Calls |-> "idle"]
    /\ asked = [c \in Calls |-> 0] /\ due = [c \in Calls |-> 0]
    /\ free = Workers /\ line = <<>> /\ waiters = 0
    /\ op = [c \in Calls |-> "none"]
    /\ admissions = {}
    /\ queue = 0
    /\ writer = "none" /\ rec = "none"
    /\ in_flight = 0 /\ written = 0 /\ dropped = 0 /\ offered = 0
    /\ phase = "open"

closed == phase # "open"
Granted == {c \in Calls : call[c] = "granted"}

---------------------------------------------------------------------------
(* The semaphore.                                                          *)

\* locked(): somebody who was woken but has not run yet counts as waiting.
Locked == free = 0 \/ line # <<>> \/ Granted # {}

\* With l as line and n free slots wake the first k waiters; c is what the
\* calls do otherwise.
Wake(l, n, k, c) ==
    /\ line' = SubSeq(l, k + 1, Len(l))
    /\ free' = n - k
    /\ call' = [x \in Calls |-> IF \E i \in 1..k : l[i] = x THEN "granted" ELSE c[x]]

\* release() wakes one waiter, the end of acquire() as many as there are slots.
WakeOne(l, n, c) == Wake(l, n, Min({1, Len(l)}), c)
WakeAll(l, n, c) == Wake(l, n, Min({n, Len(l)}), c)

---------------------------------------------------------------------------
(* _admit_io.                                                              *)

Hold(c) ==
    /\ op' = [op EXCEPT ![c] = "submitted"]
    /\ admissions' = admissions \union {c}

\* Call c asks.  Without a queue it goes straight to the executor, which may
\* be unable to start a thread; the slot is then free again.
Admit(c) ==
    /\ call[c] = "idle"
    /\ now + Timeout <= MaxTime
    /\ asked' = [asked EXCEPT ![c] = now]
    /\ due' = [due EXCEPT ![c] = now + Timeout]
    /\ \/ /\ closed
          /\ call' = [call EXCEPT ![c] = "failed"]
          /\ UNCHANGED <<slotVars, opVars>>
       \/ /\ ~closed /\ Locked
          /\ call' = [call EXCEPT ![c] = "queued"]
          /\ line' = Append(line, c)
          /\ waiters' = waiters + 1
          /\ UNCHANGED <<free, opVars>>
       \/ /\ ~closed /\ ~Locked
          /\ call' = [call EXCEPT ![c] = "waiting"]
          /\ free' = free - 1
          /\ Hold(c)
          /\ UNCHANGED <<line, waiters>>
       \/ /\ ~closed /\ ~Locked
          /\ call' = [call EXCEPT ![c] = "failed"]
          /\ UNCHANGED <<slotVars, opVars>>
    /\ UNCHANGED <<now, recordVars, phase>>

\* Variants of the resumption below: one that does not look at _closed again,
\* one that gives the database a timeout of its own, and one that forgets the
\* slot when it comes too late.
ResumeAfterClose(c) ==
    /\ call[c] = "granted"
    /\ waiters' = waiters - 1
    /\ Hold(c)
    /\ WakeAll(line, free, [call EXCEPT ![c] = "waiting"])
    /\ UNCHANGED <<now, asked, due, recordVars, phase>>

ResumeWithNewTimeout(c) ==
    /\ call[c] = "granted"
    /\ waiters' = waiters - 1
    /\ ~closed
    /\ Hold(c)
    /\ due' = [due EXCEPT ![c] = Min({now + Timeout, MaxTime})]
    /\ WakeAll(line, free, [call EXCEPT ![c] = "waiting"])
    /\ UNCHANGED <<now, asked, recordVars, phase>>

ResumeLosingSlot(c) ==
    /\ call[c] = "granted"
    /\ waiters' = waiters - 1
    /\ \/ /\ ~closed /\ now < due[c]
          /\ Hold(c)
          /\ WakeAll(line, free, [call EXCEPT ![c] = "waiting"])
       \/ /\ WakeAll(line, free, [call EXCEPT ![c] = "failed"])
          /\ UNCHANGED opVars
    /\ UNCHANGED <<now, asked, due, recordVars, phase>>

\* A granted call runs again.  Closing, a deadline passed meanwhile or a failed
\* submission give the slot back; otherwise the rest of the time goes to the
\* operation.
Resume(c) ==
    /\ call[c] = "granted"
    /\ waiters' = waiters - 1
    /\ \/ /\ ~closed /\ now < due[c]
          /\ Hold(c)
          /\ WakeAll(line, free, [call EXCEPT ![c] = "waiting"])
       \/ /\ WakeAll(line, free + 1, [call EXCEPT ![c] = "failed"])
          /\ UNCHANGED opVars
    /\ UNCHANGED <<now, asked, due, recordVars, phase>>

\* The wait for a slot ends by timeout or cancellation.
LeaveLine(c) ==
    /\ waiters' = waiters - 1
    /\ WakeAll(RemoveFirst(line, c), free, [call EXCEPT ![c] = "failed"])
    /\ UNCHANGED opVars

\* The wait for the shielded operation ends; the operation goes on and keeps
\* its slot.  (The variant frees it.)
LeaveFreeing(c) ==
    /\ admissions' = admissions \ {c}
    /\ IF c \in admissions
       THEN WakeOne(line, free + 1, [call EXCEPT ![c] = "failed"])
       ELSE call' = [call EXCEPT ![c] = "failed"] /\ UNCHANGED <<free, line>>
    /\ UNCHANGED <<waiters, op>>

LeaveOperation(c) ==
    /\ call' = [call EXCEPT ![c] = "failed"]
    /\ UNCHANGED <<slotVars, opVars>>

\* The timer of wait_for.  (The variant waits for the database without one.)
ExpireInLine(c) ==
    /\ now >= due[c]
    /\ call[c] = "queued" /\ LeaveLine(c)
    /\ UNCHANGED <<now, asked, due, recordVars, phase>>

Expire(c) ==
    /\ now >= due[c]
    /\ \/ call[c] = "queued" /\ LeaveLine(c)
       \/ call[c] = "waiting" /\ LeaveOperation(c)
    /\ UNCHANGED <<now, asked, due, recordVars, phase>>

\* The client goes away.  A granted call that is cancelled returns its slot.
Cancel(c) ==
    /\ \/ call[c] = "queued" /\ LeaveLine(c)
       \/ call[c] = "waiting" /\ LeaveOperation(c)
       \/ /\ call[c] = "granted"
          /\ waiters' = waiters - 1
          /\ WakeAll(line, free + 1, [call EXCEPT ![c] = "failed"])
          /\ UNCHANGED opVars
    /\ UNCHANGED <<now, asked, due, recordVars, phase>>

\* A worker thread takes the operation and ends it, in its own time or never.
Start(c) ==
    /\ op[c] = "submitted"
    /\ Cardinality({x \in Calls : op[x] = "busy"}) < Workers
    /\ op' = [op EXCEPT ![c] = "busy"]
    /\ UNCHANGED <<now, callVars, slotVars, admissions, recordVars, phase>>

Finish(c) ==
    /\ op[c] = "busy"
    /\ \E r \in {"reserved", "refused"} : op' = [op EXCEPT ![c] = r]
    /\ UNCHANGED <<now, callVars, slotVars, admissions, recordVars, phase>>

\* finished(): the loop hears of it, whether or not somebody still waits.
Deliver(c) ==
    /\ c \in admissions
    /\ op[c] \in {"reserved", "refused"}
    /\ admissions' = admissions \ {c}
    /\ WakeOne(line, free + 1, call)
    /\ UNCHANGED <<now, asked, due, waiters, op, recordVars, phase>>

Return(c) ==
    /\ call[c] = "waiting"
    /\ c \notin admissions
    /\ call' = [call EXCEPT ![c] = IF op[c] = "reserved" THEN "admitted" ELSE "failed"]
    /\ UNCHANGED <<now, asked, due, slotVars, opVars, recordVars, phase>>

---------------------------------------------------------------------------
(* Recording.                                                              *)

\* record_attempt, for a paid call that ended with a usage.  (The variant has
\* a queue without a bound.)
RecordUnbounded(c) ==
    /\ call[c] = "admitted"
    /\ call' = [call EXCEPT ![c] = "done"]
    /\ offered' = offered + 1
    /\ queue' = queue + 1
    /\ writer' = IF writer = "none" THEN "idle" ELSE writer
    /\ UNCHANGED <<now, asked, due, slotVars, opVars, rec, in_flight, written, dropped, phase>>

Record(c) ==
    /\ call[c] = "admitted"
    /\ call' = [call EXCEPT ![c] = "done"]
    /\ offered' = offered + 1
    /\ \/ /\ closed \/ queue = QueueSize
          /\ dropped' = dropped + 1
          /\ UNCHANGED <<queue, writer>>
       \/ /\ ~closed /\ queue < QueueSize
          /\ queue' = queue + 1
          /\ writer' = IF writer = "none" THEN "idle" ELSE writer
          /\ UNCHANGED dropped
    /\ UNCHANGED <<now, asked, due, slotVars, opVars, rec, in_flight, written, phase>>

\* ... and for one that ended without: nothing is queued.
NoUsage(c) ==
    /\ call[c] = "admitted"
    /\ call' = [call EXCEPT ![c] = "done"]
    /\ UNCHANGED <<now, asked, due, slotVars, opVars, recordVars, phase>>

Write ==
    /\ writer = "idle" /\ queue > 0 /\ phase \in {"open", "flushing"}
    /\ queue' = queue - 1
    /\ writer' = "writing" /\ rec' = "busy" /\ in_flight' = 1
    /\ UNCHANGED <<now, callVars, slotVars, opVars, written, dropped, offered, phase>>

RecordThread ==
    /\ rec = "busy"
    /\ rec' \in {"ok", "error"}
    /\ UNCHANGED <<now, callVars, slotVars, opVars, queue, writer, in_flight,
                   written, dropped, offered, phase>>

Wrote ==
    /\ writer = "writing" /\ rec # "busy" /\ phase \in {"open", "flushing"}
    /\ writer' = "idle" /\ rec' = "none" /\ in_flight' = 0
    /\ IF rec = "ok" THEN written' = written + 1 /\ UNCHANGED dropped
                     ELSE dropped' = dropped + 1 /\ UNCHANGED written
    /\ UNCHANGED <<now, callVars, slotVars, opVars, queue, offered, phase>>

---------------------------------------------------------------------------
(* aclose.                                                                 *)

Close ==
    /\ phase = "open"
    /\ phase' = "flushing"
    /\ UNCHANGED <<now, callVars, slotVars, opVars, recordVars>>

Flushed == queue = 0 /\ in_flight = 0

\* The flush ends, by itself or by its timer, and the writer is cancelled.
\* (The variant has no timer.)
CancelWriterWhenFlushed ==
    /\ phase = "flushing"
    /\ Flushed
    /\ phase' = IF writer = "none" THEN "draining" ELSE "cancelling"
    /\ UNCHANGED <<now, callVars, slotVars, opVars, recordVars>>

CancelWriter ==
    /\ phase = "flushing"
    /\ phase' = IF writer = "none" THEN "draining" ELSE "cancelling"
    /\ UNCHANGED <<now, callVars, slotVars, opVars, recordVars>>

\* CancelledError in _write_records; its thread, if any, goes on unobserved.
\* (The variant does not count the record it abandons.)
WriterStopsUncounted ==
    /\ phase = "cancelling"
    /\ phase' = "draining"
    /\ writer' = "ended" /\ in_flight' = 0
    /\ UNCHANGED <<now, callVars, slotVars, opVars, queue, rec, written, dropped, offered>>

WriterStops ==
    /\ phase = "cancelling"
    /\ phase' = "draining"
    /\ writer' = "ended" /\ in_flight' = 0
    /\ dropped' = dropped + in_flight
    /\ UNCHANGED <<now, callVars, slotVars, opVars, queue, rec, written, offered>>

\* The rest of the queue is dropped and operations no thread has taken yet are
\* cancelled.
Drain ==
    /\ phase = "draining"
    /\ phase' = "ended"
    /\ queue' = 0
    /\ dropped' = dropped + queue
    /\ op' = [c \in Calls |-> IF op[c] = "submitted" THEN "refused" ELSE op[c]]
    /\ UNCHANGED <<now, callVars, slotVars, admissions, writer, rec, in_flight, written, offered>>

\* Timers are served before time goes on; a granted call may run late.
Tick ==
    /\ now < MaxTime
    /\ \A c \in Calls : call[c] \in {"queued", "waiting"} => now < due[c]
    /\ now' = now + 1
    /\ UNCHANGED <<callVars, slotVars, opVars, recordVars, phase>>

LoopStep(c) == Resume(c) \/ Expire(c) \/ Deliver(c) \/ Return(c)
Closing == CancelWriter \/ WriterStops \/ Drain

Next ==
    \/ \E c \in Calls : \/ Admit(c) \/ LoopStep(c) \/ Cancel(c)
                        \/ Start(c) \/ Finish(c) \/ Record(c) \/ NoUsage(c)
    \/ Write \/ RecordThread \/ Wrote \/ Close \/ Closing \/ Tick

Spec == Init /\ [][Next]_vars

\* The loop runs what is ready and time passes.  No thread is assumed to ever
\* come back from the database.
FairSpec ==
    /\ Spec
    /\ \A c \in Calls : WF_vars(LoopStep(c))
    /\ WF_vars(Closing) /\ WF_vars(Tick)

---------------------------------------------------------------------------
(* Properties.                                                             *)

\* Through timeouts, cancellations, failed submissions and closing, no slot is
\* lost or doubled: each is free, on its way to a waiter, or held until the
\* loop has seen the end of an operation.
SlotsConserved ==
    free + Cardinality(Granted) + Cardinality(admissions) = Workers

\* Never more operations on the database than workers, those nobody waits for
\* any more included; so none ever waits for a thread.
DatabaseBounded ==
    Cardinality({c \in Calls : op[c] \in {"submitted", "busy"}})
        + Cardinality(Granted) + free <= Workers

\* _admission_waiters, which is kept by hand beside the semaphore, counts the
\* calls that wait for a slot, those already granted one included.
WaitersExact ==
    waiters = Cardinality({c \in Calls : call[c] \in {"queued", "granted"}})

\* One timeout covers both waits, for a slot and for the operation.
CallInTime ==
    \A c \in Calls : call[c] \in {"queued", "waiting"} => now <= asked[c] + Timeout

\* Every usage offered for recording is in exactly one place, also while the
\* process shuts down; in the end each counts as written or as dropped.
RecordsAccounted ==
    /\ offered = written + dropped + queue + in_flight
    /\ phase = "ended" => queue + in_flight = 0

\* Once aclose has begun no operation is submitted and no record accepted.
NothingStartsAfterClose ==
    [][closed => /\ \A c \in Calls : op[c] = "none" => op'[c] = "none"
                 /\ queue' <= queue]_vars

\* However the database hangs, a call gets its answer and aclose ends.  (No
\* call is idle again and aclose begins only once.)
EveryCallReturns ==
    \A c \in Calls : []<>(call[c] \in {"idle", "admitted", "failed", "done"})

CloseReturns == []<>(phase \in {"open", "ended"})

===========================================================================
