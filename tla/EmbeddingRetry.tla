--------------------------- MODULE EmbeddingRetry ---------------------------
(***************************************************************************)
(* An embedding request from the end point down to the HTTP client.  Its   *)
(* inputs are split into batches, each a task of its own: it takes a slot  *)
(* of the upstream semaphore to fetch the access token, gives it back, and *)
(* sends under EmbeddingRetryPolicy.post.  Every transmission first asks   *)
(* the cost accounting for a reservation and then hands it, with or        *)
(* without a usage, to record_attempt.  A batch that fails takes the       *)
(* others with it (_gather_embeddings).                                    *)
(*                                                                         *)
(* An action is what a task does between two awaits.  Task.cancel() is     *)
(* separate from the moment the task runs again (Stop).  The semaphore is  *)
(* a count of free slots and a line served in order.                       *)
(***************************************************************************)
EXTENDS Naturals, Sequences, FiniteSets, SequencesExt

CONSTANTS
    Requests,
    Batches,
    batches,        \* batches[r]: the batches of request r in order
    MaxInflight,    \* EMBEDDINGS_MAX_INFLIGHT
    MaxAttempts,    \* EMBEDDINGS_RETRY_MAX_ATTEMPTS
    InitialDelay,   \* EMBEDDINGS_RETRY_INITIAL_DELAY_SECONDS
    MaxDelay,       \* EMBEDDINGS_RETRY_MAX_DELAY_SECONDS
    RetryTimeout,   \* EMBEDDINGS_RETRY_TIMEOUT_SECONDS
    RetryAfters,    \* values of the header Retry-After; 0 if absent or unusable
    MaxTime         \* bound of the clock, for TLC

Of(r) == {batches[r][i] : i \in 1..Len(batches[r])}

ASSUME RetryAssumption ==
    /\ IsFiniteSet(Batches)
    /\ batches \in [Requests -> Seq(Batches)]
    /\ \A r, s \in Requests : r # s => Of(r) \intersect Of(s) = {}
    /\ MaxInflight \in Nat \ {0} /\ MaxAttempts \in Nat \ {0}
    /\ InitialDelay \in Nat \ {0} /\ MaxDelay \in Nat /\ InitialDelay <= MaxDelay
    /\ RetryTimeout \in Nat \ {0}
    /\ RetryAfters \subseteq Nat
    /\ MaxTime \in Nat

VARIABLES
    now,        \* monotonic()
    req,        \* what the request is doing
    stage,      \* what the task of a batch is doing
    cancelled,  \* batches whose task was cancelled
    free, line, \* the upstream semaphore and the batches that wait for it
    retry,      \* number of retries a batch has begun
    deadline,   \* deadline of a batch, from its first response on
    wake,       \* end of its backoff
    timer,      \* when the running asyncio.timeout of a batch ends, 0 if none runs
    sends,      \* transmissions (history)
    recorded,   \* calls of record_attempt (history)
    final       \* transmissions not answered by a retryable 429/503 (history)

vars == <<now, req, stage, cancelled, free, line, retry, deadline, wake,
          timer, sends, recorded, final>>
timerVars == <<retry, deadline, wake, timer>>
historyVars == <<sends, recorded, final>>

Waiting == {"tokenline", "line"}          \* in acquire()
Holding == {"token", "admit", "send"}     \* with a slot
Ended   == {"ok", "error", "failed", "gone"}
Stage   == {"idle", "sleep"} \union Waiting \union Holding \union Ended

\* Between the first 429/503 and the end of the last retry.
Retrying(b) == retry[b] > 0 /\ stage[b] \in {"sleep", "line", "admit", "send"}

TypeOK ==
    /\ now \in 0..MaxTime
    /\ req \in [Requests -> {"new", "running", "closing", "answered"}]
    /\ stage \in [Batches -> Stage]
    /\ cancelled \subseteq Batches
    /\ free \in 0..MaxInflight
    /\ line \in Seq(Batches)
    /\ retry \in [Batches -> 0..MaxAttempts - 1]
    /\ deadline \in [Batches -> 0..MaxTime]
    /\ wake \in [Batches -> 0..MaxTime]
    /\ timer \in [Batches -> 0..MaxTime]
    /\ sends \in [Batches -> 0..MaxAttempts]
    /\ recorded \in [Batches -> Nat]
    /\ final \in [Batches -> Nat]

Init ==
    /\ now = 0
    /\ req = [r \in Requests |-> "new"]
    /\ stage = [b \in Batches |-> "idle"]
    /\ cancelled = {}
    /\ free = MaxInflight /\ line = <<>>
    /\ retry = [b \in Batches |-> 0]
    /\ deadline = [b \in Batches |-> 0]
    /\ wake = [b \in Batches |-> 0]
    /\ timer = [b \in Batches |-> 0]
    /\ sends = [b \in Batches |-> 0]
    /\ recorded = [b \in Batches |-> 0]
    /\ final = [b \in Batches |-> 0]

Without(b) == RemoveFirst(line, b)

\* The first waiter that is not cancelled.
First == Head(SelectSeq(line, LAMBDA x : x \notin cancelled))

Runs(b) == b \notin cancelled

---------------------------------------------------------------------------
(* The request.                                                            *)

\* The end point refuses the request, or all batches start.
Reject(r) ==
    /\ req[r] = "new"
    /\ req' = [req EXCEPT ![r] = "answered"]
    /\ UNCHANGED <<now, stage, cancelled, free, line, timerVars, historyVars>>

Begin(r) ==
    /\ req[r] = "new"
    /\ req' = [req EXCEPT ![r] = "running"]
    /\ stage' = [b \in Batches |-> IF b \in Of(r) THEN "tokenline" ELSE stage[b]]
    /\ line' = line \o batches[r]
    /\ UNCHANGED <<now, cancelled, free, timerVars, historyVars>>

\* gather returns all results ...
Collect(r) ==
    /\ req[r] = "running"
    /\ \A b \in Of(r) : stage[b] = "ok"
    /\ req' = [req EXCEPT ![r] = "answered"]
    /\ UNCHANGED <<now, stage, cancelled, free, line, timerVars, historyVars>>

\* ... or raises when the first batch fails or the client goes away.  Then the
\* others are cancelled and waited for.  (The variant does not.)
Raise(r) ==
    /\ req[r] = "running"
    /\ \E b \in Of(r) : stage[b] \in {"error", "failed"}
    /\ req' = [req EXCEPT ![r] = "answered"]
    /\ UNCHANGED <<now, stage, cancelled, free, line, timerVars, historyVars>>

CancelBatches(r) ==
    /\ req' = [req EXCEPT ![r] = "closing"]
    /\ cancelled' = cancelled \union {b \in Of(r) : stage[b] \notin Ended}
    /\ UNCHANGED <<now, stage, free, line, timerVars, historyVars>>

Fail(r) ==
    /\ req[r] = "running"
    /\ \E b \in Of(r) : stage[b] \in {"error", "failed"}
    /\ CancelBatches(r)

Disconnect(r) == req[r] = "running" /\ CancelBatches(r)

Close(r) ==
    /\ req[r] = "closing"
    /\ \A b \in Of(r) : stage[b] \in Ended
    /\ req' = [req EXCEPT ![r] = "answered"]
    /\ UNCHANGED <<now, stage, cancelled, free, line, timerVars, historyVars>>

---------------------------------------------------------------------------
(* The end of a task: the context managers return its slot or its place in *)
(* the line, and the client records the transmission in progress.          *)

One(p) == IF p THEN 1 ELSE 0

\* The slots free and the transmissions recorded after batch b has ended.
Finish(b, s, slots, records) ==
    /\ stage' = [stage EXCEPT ![b] = s]
    /\ line' = Without(b)
    /\ free' = free + slots
    /\ recorded' = [recorded EXCEPT ![b] = @ + records]
    /\ final' = [final EXCEPT ![b] = @ + One(stage[b] = "send")]
    /\ timer' = [timer EXCEPT ![b] = 0]
    /\ UNCHANGED <<now, req, cancelled, retry, deadline, wake, sends>>

\* Variants: a slot that is not returned, one returned without being held, and
\* a transmission that is only recorded when it succeeds.
EndLeaking(b, s) == Finish(b, s, One(stage[b] = "send"), One(stage[b] = "send"))
EndReleasing(b, s) == Finish(b, s, 1, One(stage[b] = "send"))
EndUnrecorded(b, s) ==
    Finish(b, s, One(stage[b] \in Holding), One(stage[b] = "send" /\ s = "ok"))

End(b, s) == Finish(b, s, One(stage[b] \in Holding), One(stage[b] = "send"))

\* CancelledError in the task of a batch.
Stop(b) ==
    /\ b \in cancelled /\ stage[b] \notin Ended
    /\ End(b, "gone")

---------------------------------------------------------------------------
(* The slot and the token.                                                 *)

\* A batch leaves the line with the slot.  (The variant ends the timeout here.)
TakeUntimed(b, s) ==
    /\ stage' = [stage EXCEPT ![b] = s]
    /\ free' = free - 1
    /\ line' = Without(b)
    /\ timer' = [timer EXCEPT ![b] = 0]
    /\ UNCHANGED <<now, req, cancelled, retry, deadline, wake, historyVars>>

Take(b, s) ==
    /\ stage' = [stage EXCEPT ![b] = s]
    /\ free' = free - 1
    /\ line' = Without(b)
    /\ UNCHANGED <<now, req, cancelled, timerVars, historyVars>>

\* A retry looks at its deadline again once it has its slot.
Acquire(b) ==
    /\ stage[b] \in Waiting /\ Runs(b)
    /\ b = First /\ free > 0
    /\ \/ stage[b] = "tokenline" /\ Take(b, "token")
       \/ stage[b] = "line" /\ (retry[b] = 0 \/ now < deadline[b]) /\ Take(b, "admit")
       \/ stage[b] = "line" /\ retry[b] > 0 /\ now >= deadline[b] /\ End(b, "error")

\* (The variant sends inside the block that fetched the token.)
TokenKeepingSlot(b) ==
    /\ stage[b] = "token" /\ Runs(b)
    /\ stage' = [stage EXCEPT ![b] = "line"]
    /\ line' = Append(line, b)
    /\ UNCHANGED <<now, req, cancelled, free, timerVars, historyVars>>

Token(b) ==
    /\ stage[b] = "token" /\ Runs(b)
    /\ free' = free + 1
    /\ \/ /\ stage' = [stage EXCEPT ![b] = "line"]
          /\ line' = Append(line, b)
       \/ /\ stage' = [stage EXCEPT ![b] = "failed"]
          /\ UNCHANGED line
    /\ UNCHANGED <<now, req, cancelled, timerVars, historyVars>>

---------------------------------------------------------------------------
(* Sending.                                                                *)

\* before_attempt reserves, or refuses.
Admit(b) ==
    /\ stage[b] = "admit" /\ Runs(b)
    /\ stage' = [stage EXCEPT ![b] = "send"]
    /\ sends' = [sends EXCEPT ![b] = @ + 1]
    /\ UNCHANGED <<now, req, cancelled, free, line, timerVars, recorded, final>>

Refuse(b) ==
    /\ stage[b] = "admit" /\ Runs(b)
    /\ End(b, "failed")

\* An answer that is not retried: a success, well-formed or not, an error, or
\* a transport failure that leaves open what the provider did.
Answer(b) ==
    /\ stage[b] = "send" /\ Runs(b)
    /\ \E s \in {"ok", "error", "failed"} : End(b, s)

\* min(max_delay, initial * 2**k), jittered by a fifth ...
Backoffs(k) ==
    LET base == IF InitialDelay * 2^k < MaxDelay THEN InitialDelay * 2^k ELSE MaxDelay
    IN  {d \in 0..MaxDelay : 4 * base <= 5 * d /\ 5 * d <= 6 * base}

\* ... and never less than a Retry-After, whatever the header says.
Delays(k) == {IF d < after THEN after ELSE d : d \in Backoffs(k), after \in RetryAfters}

\* The timeout around a retry is what is left until the deadline.
Armed(due) == due

\* A retryable 429/503.  The first one sets the deadline of the batch.  The
\* batch backs off without a slot, unless it has no attempt left or would
\* come back too late: then this response is its result.
Busy(b) ==
    LET due == IF retry[b] = 0 THEN now + RetryTimeout ELSE deadline[b]
    IN  /\ stage[b] = "send" /\ Runs(b)
        /\ due <= MaxTime
        /\ deadline' = [deadline EXCEPT ![b] = due]
        /\ recorded' = [recorded EXCEPT ![b] = @ + 1]
        /\ free' = free + 1
        /\ \/ /\ retry[b] < MaxAttempts - 1
              /\ \E d \in Delays(retry[b]) :
                    /\ now + d < due
                    /\ wake' = [wake EXCEPT ![b] = now + d]
              /\ timer' = [timer EXCEPT ![b] = Armed(due)]
              /\ stage' = [stage EXCEPT ![b] = "sleep"]
              /\ retry' = [retry EXCEPT ![b] = @ + 1]
           \/ /\ \/ retry[b] = MaxAttempts - 1
                 \/ \E d \in Delays(retry[b]) : now + d >= due
              /\ stage' = [stage EXCEPT ![b] = "error"]
              /\ timer' = [timer EXCEPT ![b] = 0]
              /\ UNCHANGED <<retry, wake>>
        /\ UNCHANGED <<now, req, cancelled, line, sends, final>>

Wake(b) ==
    /\ stage[b] = "sleep" /\ Runs(b)
    /\ now >= wake[b]
    /\ stage' = [stage EXCEPT ![b] = "line"]
    /\ line' = Append(line, b)
    /\ UNCHANGED <<now, req, cancelled, free, timerVars, historyVars>>

\* The timeout around backoff, slot, admission and transmission of a retry
\* ends it with the last 429/503.  (The variant tries one that was in flight
\* once more.)
ExpireRetrying(b) ==
    /\ timer[b] # 0 /\ now >= timer[b] /\ Runs(b)
    /\ IF stage[b] = "send" THEN End(b, "sleep") ELSE End(b, "error")

Expire(b) ==
    /\ timer[b] # 0 /\ now >= timer[b] /\ Runs(b)
    /\ End(b, "error")

\* Timers that are due are served before time goes on.
Tick ==
    /\ now < MaxTime
    /\ \A b \in Batches : Runs(b) =>
        /\ stage[b] = "sleep" => now < wake[b]
        /\ timer[b] # 0 => now < timer[b]
    /\ now' = now + 1
    /\ UNCHANGED <<req, stage, cancelled, free, line, timerVars, historyVars>>

BatchStep(b) ==
    \/ Stop(b) \/ Acquire(b) \/ Token(b) \/ Admit(b) \/ Refuse(b)
    \/ Answer(b) \/ Busy(b) \/ Wake(b) \/ Expire(b)

RequestStep(r) == Collect(r) \/ Fail(r) \/ Close(r)

Next ==
    \/ \E r \in Requests : Reject(r) \/ Begin(r) \/ Disconnect(r) \/ RequestStep(r)
    \/ \E b \in Batches : BatchStep(b)
    \/ Tick

Spec == Init /\ [][Next]_vars

\* The loop runs what is ready, and every wait for a token, an admission and
\* an HTTP answer has a timeout of its own.
FairSpec ==
    /\ Spec
    /\ \A b \in Batches : WF_vars(BatchStep(b))
    /\ \A r \in Requests : WF_vars(RequestStep(r))
    /\ WF_vars(Tick)

---------------------------------------------------------------------------
(* Properties.                                                             *)

\* Through backoffs, timeouts, failures and cancellations every slot of the
\* upstream semaphore is free or held by one batch that uses it.
UpstreamSlotsConserved ==
    free + Cardinality({b \in Batches : stage[b] \in Holding}) = MaxInflight

\* One deadline, set by the first 429/503, covers all that follows: backoff,
\* slot, admission and transmission of every retry.
RetryInTime == \A b \in Batches : Retrying(b) /\ Runs(b) => now <= deadline[b]

\* Every transmission is recorded once, however it ends, and after one that
\* the provider may have charged the batch is never sent again.
SendsAccounted ==
    \A b \in Batches :
        /\ sends[b] = recorded[b] + One(stage[b] = "send")
        /\ final[b] <= 1
        /\ final[b] = 1 => stage[b] \in Ended

\* When the request is answered none of its batches is left running: none
\* sends, spends or holds a slot any more.
NothingAfterAnswer ==
    \A r \in Requests : req[r] = "answered" =>
        \A b \in Of(r) : stage[b] \in Ended \union {"idle"}

\* A request that has begun is answered, however busy the provider is and
\* however few slots there are.
RequestsAnswered ==
    \A r \in Requests : []<>(req[r] \in {"new", "answered"})

===========================================================================
