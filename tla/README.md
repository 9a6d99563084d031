# Specifications of openai-compatible-bridge

TLA+ models of the parts of the bridge whose correctness depends on the order of
events: the admission of embedding requests, the shared cost ledger, the
asynchronous layer between the two, the streams of chat answers, the repair of
structured output, the reload of the model registry, the connections of the ledger and
conversations with tools. The code is the reference; `PROJECT.json` ("map") names for every
definition the lines it stands for. Paths below are relative to
`src/openai_compatible_bridge/` unless they begin with `src/`.

Run a model with `tlc -workers 2 -config X.cfg M`, check a proof with `tlapm M.tla`.

## 1. The system

A FastAPI process translates OpenAI (and Anthropic) requests to several providers.
One asyncio event loop runs the requests; blocking work (the cost ledger) runs in
two thread pools. Several processes (pods) may share one PostgreSQL cost ledger.

| Component | State it keeps | Operations | Talks to |
|---|---|---|---|
| Embedding limits, `embedding_limits.py` | slots in use, queue depth, deque of waiters | acquire, hand over, time out, disconnect, reject | wraps the ASGI application |
| Embedding retry, `core/embedding_resilience.py` | semaphore, a deadline per request | send, back off, retry, give up | metered HTTP client |
| Metered HTTP client, `core/metered_http.py` | usage of the current attempt | post, stream, record | async cost accounting |
| Async cost accounting, `core/async_cost.py` | admission slots, waiting calls, futures, record queue, writer, counters, closed flag | admit, record, write, flush, aclose, readiness | budget gate in worker threads |
| Budget gate, `core/cost_tracking.py` | none of its own | preflight, finalize | ledger repository |
| Ledger, `core/postgres_cost_repository.py` (or SQLite) | rows of cost_events, aggregates | transaction, insert, sums, update, prune, health check | PostgreSQL |
| Its connections, same file | pool, verified-schema cache | get and close the pool, verify, drop the cache | PostgreSQL |
| Pricing, `core/cost_tracking.py` | catalog | price a usage, forecast | budget gate |
| Reconciliation, legacy reservation context | results per day | compare, settle | ledger |
| Chat endpoint and structured repair, `main.py` | one request's attempts and usage | generate, stream, repair | providers, cost context |
| Anthropic ingress, `anthropic_ingress.py` | open content block, buffered tool calls | feed, finish | chat streams |
| Registry and hot reload, `providers/vertex.py`, `main.py` | registry, model filter, mtime, discovered models | build, reload, discover, route | file system, one upstream |
| Conversations with tools, `core/transforms.py`, `anthropic_ingress.py`, the clients | none: the client sends the conversation each time | translate messages, calls and results; give ids to calls | client, providers |
| Providers | HTTP clients, access token | embed, generate, stream | upstream services |

A paid call: the endpoint opens an `AttemptContext`; the metered client asks
`before_attempt`, which takes an admission slot and runs `preflight` in a worker
thread; preflight reserves the forecast in one ledger transaction; the request
goes out; its usage is queued by `record_attempt` and settled by the writer. For
embeddings all this happens inside a slot of the embedding limits.

What is hard, and what would make it correct:

* *Embedding limits.* Time-outs, cancellations and hand-overs of a slot meet in one
  round of the event loop. No slot may be lost or doubled, arrivals are served in
  order, the reported queue depth is exact; what may be answered twice is known.
* *Ledger.* Preflights of several pods overlap; clocks differ; commits are lost;
  pods die; records are dropped; prunes run. The budgets must hold up to the
  documented overshoot, and what was sent must stay charged.
* *Async cost.* Callers leave while their operation runs on; threads may hang;
  shutdown meets waiting callers, a full queue and a write in progress.
* *Retry.* One deadline, one reservation per attempt, no retry of what may have
  been charged without a new reservation.
* *Streams and repair.* A refusal after the headers; blocks opened and closed in
  order; which attempts are paid for when a repair fails.
* *Reload.* The file changes between the stat, the build and the second read; a refused file
  must not change the registry; a request resolved before a reload is sent after it.
* *Connections.* `close()` meets threads that use or build the pool; the verified-schema cache is
  read and written without a lock while the schema changes.
* *Tools.* A call's id and name must survive several requests, each perhaps to another provider
  with another shape of messages.

The complete list of hazards, each at its line, is in `PROJECT.json`.

## 2. Modules

| Module | Contents |
|---|---|
| `EmbeddingLimits` | the ASGI middleware, three tasks per request |
| `FairSlots` | what it promises: an atomic pool of slots served in order |
| `EmbeddingLimitsProofs` | its theorems |
| `CostLedger` | the budget gate and the PostgreSQL ledger, several pods |
| `AtomicAdmission` | what the ledger promises: one atomic check-and-reserve |
| `CostLedgerProofs` | its theorems |
| `AsyncCost` | slots, threads, record queue and shutdown of one process |
| `AsyncCostProofs` | its theorems |
| `EmbeddingRetry` | an embedding request below the end point: batches, upstream slots, retries |
| `EmbeddingRetryProofs` | its theorems |
| `ChatStream` | a streaming chat request: response generator, provider client, metered stream |
| `ChatStreamProofs` | its theorems |
| `StructuredRepair` | a chat request to Ollama answered in one piece, with its chain of repair models |
| `ChatRequestProofs` | theorems about it and about `ToolConversation` |
| `ModelRegistry` | the registry file, its reload, discovery and the routing of requests |
| `ModelRegistryProofs` | its theorems |
| `PostgresRepository` | the pool and the verified-schema cache of one process, several threads |
| `PostgresRepositoryProofs` | its theorems |
| `ToolConversation` | calls, results and ids of a conversation over several providers |
| `MC*` | small instances for TLC |

Operators named `...Without...`, `...Keeping...` and the like, marked as variants in
a comment, are deliberately wrong versions of the operation that follows them. They
are not part of any specification; each is used to see that a property notices.

### EmbeddingLimits

A request is three tasks: `__call__`, `_serve` and `_receive_body`. An action is what
one task does between two awaits, so the order of actions is the order in which the
loop runs its callbacks. `Task.cancel()` is separate from the moment the cancelled
task runs again: between them the waiter's future may already be resolved, which is
the race `_acquire_slot` handles. `interrupt` is what the task of a queued request finds when it runs
again: the queue's time-out or a cancellation, which overrules it. A connection may send several
requests, one after the other.

`answers` lists the responses that are begun, by their first message. `BaseHTTPMiddleware`
(`main.py:2184`) is outside this middleware, so every `send()` hands its message over to another task
and waits for it: `_reject` may be interrupted between the two messages of a 429, and `EndReject429` is
a step of its own.

`FairSlots` is what the semaphore promises: a set of holders, and a line of which only its first
may take a free slot. It knows no futures and no deque. In the mapping the holders are the requests
that serve or hold a slot, the line those in the deque that can still be woken, in its order.

The time-out of the queue is an interrupt that may come at any time while a request
queues. Byte counts and headers are the choice between a complete and an invalid body.

### CostLedger

`rows` holds what each attempt wrote, `ledger` says which rows are committed and not
pruned. A preflight reads its pod's clock (`Preflight`), takes the advisory lock
(`Lock`), adds up and inserts (`Decide`) and commits (`Commit`, or `CommitUnheard`
when the reply is lost); at each of these points it may fail (`Abort`), its pod may
die (`Crash`) and its caller may leave (`GiveUp`). The clocks of the pods are
independent. `Settle` is `finalize_success`; `Drop` stands for every way in which a
usage record is lost. Costs and times are natural numbers; SQL's SUM is the constant
operator `Total`, of which only the two equations of `TotalAssumption` are used.
A budget that is not configured is a limit nobody reaches.

Of the settlements of `BudgetGate`, only `finalize_success` is reached by the
asynchronous runtime: `AttemptContext` turns the others into no-ops. Nothing in the
repository schedules `prune`; the model lets it happen at any time.

### AsyncCost

The semaphore is asyncio's of Python 3.12 (the Docker image): a call is *granted* from
the moment its future is resolved until its task runs again, `locked()` counts granted
calls, and whoever leaves `acquire()` wakes as many waiters as there are free slots.
An operation is submitted, busy in a thread, finished, and only then seen by the loop
(`Deliver`), which frees the slot whether or not the caller still waits. The steps of
`aclose` are separate actions where it awaits.

`Cancel` is a client that goes away. `Finish` decides the outcome of the database
operation freely; what it does to the ledger is the subject of `CostLedger`, where
`GiveUp` and `Drop` are in turn what `AsyncCost` does to a caller and a record.

### EmbeddingRetry

Each batch is a task: it fetches the token in a slot (`Acquire`, `Token`), takes a slot
again to send, asks for a reservation (`Admit`, `Refuse`), and sends. `Answer` is any end
that is not retried, `Busy` a retryable 429/503. A retry runs under `asyncio.timeout`:
`timer` is that timer, `deadline` the local variable it is computed from. `End` is what the
context managers and the `finally` of the metered client do whatever ends the task.
`Fail` and `Disconnect` cancel the sibling tasks, which run once more (`Stop`) before
`Close` lets the answer go. The semaphore is a count and a queue; its wake-up protocol is
modelled in `AsyncCost`. The admission is one step with two outcomes: the slots, time-outs
and orphaned reservations behind it are `AsyncCost` and `CostLedger`.

### ChatStream

A streamed answer is three generators suspended inside each other, so a request has one
control point, `task`: `begin`, `slot`, `admit` and `connect` up to the headers of the
upstream's response, then `read`, `send` and `close` in turn. An action is what runs
between two awaits; `after` is where the generators go on once `pending` is sent.

| State | Code |
|---|---|
| `gen`, `pending` | `event_generator` of `_chat_completions_stream` and `_anthropic_stream` (`main.py`), `AnthropicStreamState` |
| `parser`, `unwinding` | `stream_chat` of the provider: Vertex, Ollama, the OpenAI-compatible client, and Foundry's, which JetBrains shares |
| `obs`, `reserved`, `records` | `_StreamUsage`, `_MeteredResponse`, `MeteredHTTPClient.stream` |
| `slot` | the semaphore of `VertexChatClient` |

`Requests` lists the combinations of provider, upstream protocol, ingress and tools that
reach a stream. A line of the body is an event (text, calls, finish, usage), an error
object, junk, or `[DONE]`; `Events` says which ones a provider's protocol has, and the
observer sees each before `stream_chat` does. Chunks are a type, a block index and a
finish reason.

A client that disconnects cancels the task. If that interrupts an await of the generators,
they unwind; if it interrupts `send()`, they stay suspended at their yields (`adrift`) until
the interpreter's finalizer for asynchronous generators throws into them (`Finalize`). Two
errors end a 200 answer without a word: an Ollama request with tools, whose `stream_chat`
has no such parameter, and a Vertex token that cannot be fetched. The `ContextVar` that the
finalizer cannot reset is only logged and left out.

### StructuredRepair

One request through `_generate_ollama_with_structured_output_repair` (`main.py`): `attempt`
counts through the chain, `target` is the model `generate()` is called with and `ctx` the
model of the `AttemptContext` that the budget gate prices the attempt by; `renew` has to
keep them together. `Respond` is all that happens between the end of one HTTP call and the next
await: the meter records, `generate()` judges, and the next attempt or the answer is prepared.
Outputs are judged `valid`, `mismatch`, `failed` (any other `VertexAPIError`) or `broken` (an
exception nobody catches: a 500, or a stream that ends). The tokens that `generate()` reads
and those that the meter accepts are told apart (`counted`). The answer is a JSON body or
the buffered stream; only the stream is cancelled when its client leaves.

### ModelRegistry

| State | Code |
|---|---|
| `file`, `mtime` | the registry file; somebody else replaces it (`Write`), with any of `Times`: two contents may have the same one, and a file moved or copied in may bring an old one |
| `registry`, `filter`, `loaded`, `discovered` | `MODEL_REGISTRY`, `MODEL_LIST_INCLUDE`, `_registry_mtime`, `_COMPAT_MODEL_IDS` |
| `step`, `seen` | how far `_reload_registry_if_changed` is: it looks at the file (`Look`), builds (`BuildStep`, `RefuseStep`), reads the file again for its filter (`FilterStep`), which ends the reload if the bytes are no UTF-8, calls the hook (`Hook`) |
| `req` | a request from the middleware to its end; `Resolve` is the handler up to its first await, `Send` comes after the admission |

A reload does not await, so no request moves during it, but the file may. An entry is what
merging it into the table gives: a provider, a kind and a base URL. `Filters` says which
filters a build may leave behind, a refused one included. The process may stop and start again
(`Crash`, `Start`). The histories `past`, `reused`, `strayed` and `unhooked` are what the exceptions of the
properties speak of: which content had which time, whether a time came back, whether a reload read something
else than what had the time it remembers, and whether the last one ended before its hook.

### PostgresRepository

A thread runs one operation after another: it looks at `_pool`, builds it under the lock,
gets a connection, verifies the schema or trusts the cache, takes the advisory lock, and runs
its statements. An operation is *nested* (methods called inside `transaction()`, each of which
maps the errors of its own statements), *direct* or a *read*: the kind decides which handler
sees a failing statement. `close()` is three steps, the swap being under the lock.
`lastGood` is a history: when each part of the schema was last as the code expects. The pool's
own limits and time-outs are `Connect` and `End`.

### ToolConversation

`history` is the conversation as the client holds it, in the shape of its ingress; `Messages`
is what the Anthropic ingress makes of it, and `Body` what each provider's client sends.
`Generate` is a whole answer of any provider; `ReturnResults` is the client that sends the results, in any
order and with or without text around them. Names and ids are sequences of what `_` separates,
because ids are built from names and positions (`call_<name>_<index>`, and `_1`, `_2`, ... when
taken). `Routes` tells JetBrains' Google models from Foundry's, which differ in whether they look
at the ids that are already used. Every call has a number, `n`, that no code sees: it tells to
which call a result belongs, and an upstream's own id is made from it (upstreams are assumed not to use
one twice, nor one that looks made up). `made` counts the calls for it.

## 3. Runs

| Run | Instance | What it shows |
|---|---|---|
| `embedding_slots` | 3 connections, 1 slot, fair clients | no slot leaked or doubled, no lost wake-up, one response per request but for a 429 that is overtaken, refinement of `FairSlots`; nobody waits for the slot forever |
| `ledger` | 2 attempts on 2 pods, clocks to 4 | budgets hold up to the overshoot, what was sent stays charged, rows settle once, refinement of `AtomicAdmission` |
| `postgres_pool` | 2 threads, 1 connection, TTL of 2, 2 pools, clock to 4 | no pool is lost; nobody trusts a schema that was not as expected within the TTL |
| `postgres_errors` | the same | *violated*: a schema error in a nested operation leaves the cache |
| `admission` | 3 calls, 2 workers, queue of 1 | slots, threads and records add up, one time-out for both waits, calls return though threads hang, aclose ends and nothing starts after it |
| `retry` | 3 batches of 2 requests, 2 slots, 2 attempts, deadline of 2 | one deadline, no slot lost, sends recorded once, nothing after the answer, every request is answered |
| `chat_stream` | bodies of up to 4 lines, 2 tool calls, all providers and both ingresses | answers well formed whatever the upstream sends, usage only from a whole stream, nothing left open, reservations recorded also when the client leaves |
| `chat_errors` | bodies of 1 line | *violated*: a connection that breaks in the body is not always reported |
| `repair_chain` | chains of 0 to 4 models, usable or not, body and stream | each attempt to the model it is priced for, in order and recorded once; content only from an accepted output, its usage the sum of all attempts |
| `registry_reload` | 2 requests, 2 writes, 3 times, 6 contents of the file or none | a quiet file is what is in use; the filter is never older than its registry; listed models exist upstream; requests go out as their end point's kind |
| `registry_restored` | 1 request, the same file | *violated*: a file put back with its old time is not taken |
| `tool_turns` | 5 messages, 2 tools, 4 kinds of answers, all providers and both ingresses | ids stay distinct, results keep the names of their calls; in every body a result follows its call before the model goes on, with Google and JetBrains together with its siblings, with Anthropic in the very next turn |

Bounds. With one slot and three connections there is a holder, a waiter that is handed the slot
and one behind it, whose order is visible. Two attempts compete, or one sees the history of the
other (settled, pruned, open); with a window of 1, a day of 2 and clocks to 4 both windows turn
over, at different times, and a prune can reach into both. Limits 2 and 3 with costs 1
and 2 make either budget the one that refuses, and actual costs can exceed or fall short of
their forecast. Two workers with three calls let a slot pass to a waiter while another
operation is abandoned; a record queue of one is full with a record in flight and one
queued. Two upstream slots and three batches let a batch queue behind a sibling and behind a
foreign batch; a `Retry-After` of 2 is longer than the largest backoff and ends at the deadline.
Four lines are a text, a tool call, a usage and a finish in any order, or any of them before and
after an error; two tool calls make two blocks. Chains of four show that a fourth model is never
used, whether or not it could be. Two threads on one repository are a user and a closer, a
builder and a closer, or two builders; two pools are the one closed and its successor; a TTL of 2
with a clock to 4 lets a cached time be fresh, just stale and renewed. Two writes change the
file between the stat and the build, and between the build and the second read, of one reload, or
replace it and put it back; three times are 0, which is never taken for the remembered one, and two that
grow, repeat and run back. One of two requests waits to be sent while the other reloads. Five
messages and the results of a last call are up to two rounds of calls and results; the tools are named such that the id of a
call of one (`get`, at position 0) is the id another (`get_0`) starts from. `MaxTime` bounds the
clocks; a call is only started when its deadline is in range.

The safety of larger instances of `EmbeddingLimits` and `CostLedger` (a second slot, a third
attempt) rests on the theorems below, which hold for every number of them; that every waiter is
served is checked for the instance above only.

Fairness. `EmbeddingLimits!FairSpec` assumes that the loop runs ready tasks, that
clients finish their body or go away, and that the application returns; no timer is
assumed to fire, so `NeverStuckInQueue` is due to the hand-over alone. `AsyncCost!FairSpec`
assumes that the loop runs ready tasks, fires timers and that time passes; no thread is
assumed to return from the database, and no client to wait or leave. `EmbeddingRetry!FairSpec`
also assumes that the token, an admission and an HTTP answer arrive: each has a time-out.
`ChatStream!FairSpec` assumes that the task is scheduled, that each wait for the upstream ends (every
httpx time-out is finite) and that abandoned generators are finalized; a client may leave at any time, one
that neither reads nor leaves is not considered. The event loop gives
each ready callback its turn, which is what these conditions say. The other modules state no
liveness and no fairness.

Deadlock is checked for `EmbeddingLimits`. The others really stop: all attempts are
made and settled, the process is closed, every request is answered or streamed, the conversation
is as long as it may be; `PostgresRepository` and `ModelRegistry` stop only at the
bounds of their clock, pools and writes.

### Findings

* `chat_errors`: `src/specs/openai-compatible-bridge/design.md:240` maps provider time-outs and
  connection errors to the error shapes of the API. In a stream they are caught only by Vertex and
  JetBrains; Foundry, Ollama and the OpenAI-compatible client let httpx's exception through, and
  the client sees an answer that just stops.
* `postgres_errors`: the comment at `src/openai_compatible_bridge/core/postgres_cost_repository.py:374`
  and the test at `src/tests/test_schema_verify_cache_offline.py:38` say that a trace of a schema change
  drops the verified-schema cache. A statement inside a preflight or a settlement runs in a nested
  `_connection`, whose `_database_errors` (line 361) has turned the exception into
  `CostSubsystemUnhealthy` before the handler that drops the cache sees it. The schema is verified
  again when the TTL has passed.
* `registry_restored`: the docstring at `src/openai_compatible_bridge/providers/vertex.py:168` says that a
  file that has changed is taken without a restart. Whether it has is decided by `==` on the modification
  time (line 178), and the time remembered is that of the stat, before the contents are read. So a file that is
  replaced and put back with its old time (`cp -p`, `rsync -t`, a backup moved in) is not looked at, and what was
  read in between stays in use: the content read after the stat, or the filter of a content that was
  refused. `FreshWhenQuiet` says that nothing else keeps a quiet file from being taken.

What follows is no such disagreement, or one the repository's README has settled; the models keep it.

* An error object inside a stream is an error to Foundry and JetBrains only; the other clients
  take it for an event that says nothing and finish the answer normally (`ReadError`). Its usage
  is not charged (`UsageFromWholeStream`).
* The embedding limits can start two responses to one request: `_serve` begins a 429, the body turns
  out to be invalid before the second message of it is out, and `__call__` cancels `_serve` and
  answers 413 or 400 without a look at what was sent (`embedding_limits.py:111`). In the deployed
  application every `send()` suspends, so this may happen to any 429. `OnlyBusyIsOvertaken` says that
  it happens to nothing else: the answer of the application is never followed by another one.
* The older `src/specs/cost-ledger-postgres/admission-contract.md:26` knows no queue besides the
  worker slots, and a time-out of two seconds. `_admit_io` (`core/async_cost.py:139`) lets a call
  wait for a slot until its time-out of ten, as `src/README.md:499` describes (`line`).
* The second condition of `_acquire_slot` (`and not self._waiters`, line 39) never decides
  anything: while a waiter is in the deque every slot is taken (`NoIdleSlotWhileWaiting`,
  proved). Dropping it changes no behaviour of the model.
* Registry. At the start the environment's filter replaces the `_include` of the file, which is used from
  the first reload on (`providers/vertex.py:164`). A refused file still changes the filter, and a file
  without `_include` keeps the one before. `FilterNeverOlder` says what is left: the one way to a
  filter older than its registry is a reload that no longer finds the file it has just looked at and
  then refuses `MODEL_REGISTRY_JSON`. A file that is no UTF-8 when a reload reads it for the second time
  raises a `UnicodeDecodeError` that is not caught (`providers/vertex.py:189`): the registry and the time are
  already the new ones, the request fails, and the hook is not called, so the models of an upstream that is gone stay
  listed until the next reload (`SecondReadRaises`; `ListedIsOffered` excepts it by `unhooked`). An entry that is no
  object raises a `TypeError` that the reload does not catch. Two changes with one mtime count as one,
  and while the file cannot be read the registry stays, but a build that no longer finds it
  takes `MODEL_REGISTRY_JSON`. When the upstream does not answer, the models known before are forgotten.
  An entry of provider jetbrains and kind embedding is accepted and its requests go to the Vertex client.
* Repository. A thread that read `_pool` before `close()` and needs a new one builds it after the close;
  nobody closes that one. `_dsn` is never reassigned, so the list of retired pools is always empty.
* Tools. JetBrains' `generate` for Google models does not pass the ids already used
  (`providers/jetbrains.py:525`), so ids repeat between turns (`CallIdsDistinct` excepts them), and Vertex,
  whose map of ids to names is that of the whole conversation although its docstring speaks of the same
  turn, may then give a result the name of a later call (`ResultsNamed` excepts it). The Vertex client
  sends each of several results in a turn of its own (`providers/vertex.py:1042`), where Foundry's for the same
  protocol puts them into one; `BodiesWellFormed` demands "together" of the latter only.

## 4. Proofs

TLC checks the instances above; the theorems hold for every value of the constants
that satisfies the named assumptions.

`EmbeddingLimitsProofs` (any requests, any number of slots). `IInv` adds to the checked
invariants what relates the three tasks: which states of `_serve`, of the waiter's
future and of `_receive_body` go together. Proved: `SpecTypeOK`, `SlotsNeverLeak`,
`QueueDepthIsExact`, `NoLostWakeup`, `LineIsExact`, `FirstComeFirstServed` and `OnlyA429IsOvertaken`, which
needs `AnswerInv` besides: a task that waits or holds a slot has answered nothing, one that
is cancelled for an invalid body can end but not answer, and it has ended before the 413 or 400. The types, the
depth, the line and the order are stated by no run, since they are proved. `ImplementsPool` is the
refinement of `FairSlots`, action by action. Its difficulty is the order of the line: the deque also
holds requests that were cancelled, and each step removes one from somewhere in it, appends one or
wakes the first that can be woken. `RemoveFirstOrder` and `AppendOrder` say what that does to who
is ahead of whom, and `LineFacts` that each request is in the deque at most once.

`CostLedgerProofs` (any pods, attempts, costs, limits and windows, clocks any distance
apart). `BudgetBound` is not inductive. It needs that the advisory lock has one holder
(`LockHeld`), that a decision taken under it stays valid while it is held (`DraftFits`),
that no row is younger than its pod's clock (`NotFuture`: a reservation is decided with
an earlier window, which contains the later one's rows), and that a row a prune took
away is settled and older than every window (`OldWhenGone`). The last is where
`RetentionAssumption` enters; the code does not compare the retention with the short
window. `TotalMonotone` is the one fact about sums. Proved: `SpecTypeOK`,
`BudgetIsNeverOvercommitted`, `EveryPaidRequestIsCharged`, `CommittedRowsSettleOnce` and
the refinement `LedgerIsAtomic`.

`AsyncCostProofs` (any calls, workers, time-outs, queue size): `SpecTypeOK`, `SlotsAreConserved`,
`DatabaseIsBounded`, `WaitersAreCounted`, `OneTimeoutForBoth`, `NoRecordIsLostUncounted` and
`ClosedMeansClosed`. No step can be seen to keep the slots without the line: `SlotInv` says that it
holds the queued calls, each once, so that waking the first k of them grants k different calls, and
which calls can have an operation whose end the loop has not seen. `TimeInv` says that a call's timer
ends one time-out after it asked, through both waits. `RecordInv` says that a record is in flight
exactly while the writer waits for its thread. `RestInv` holds the remaining types.

`EmbeddingRetryProofs` (any requests, batches, slots, attempts and delays):
`UpstreamSlotsAreConserved`, `RetriesEndInTime`, `EverySendIsAccounted`, `AnswersAreFinal`, `RetryTypes`.
The invariant says that a timer runs exactly while a batch retries and ends at its deadline
(`TimerInv`), that only an ended batch has a transmission the provider may have charged
(`SendsInv`), and which requests have idle batches (`RequestInv`). `RetryTypes` adds the bounds of the
counters (`BoundsInv`).

`ChatStreamProofs` (bodies of any length, any finite set of tool calls): `ChatTypes`,
`ChatNothingLeftOpen`, `ChatFinishMeansWhole`, `ChatUsageFromWholeStream`. The invariant says for
each control point what has been reserved, recorded and closed (`Bookkeeping`), that the
observer knows of every flaw the body had (`ObserverKnows`), and that an end is announced in
`pending` or `sent` only when the body is whole and recorded (`EndAnnounced`). One lemma per
action shows that it is kept.

`ChatAnswerWellFormed` says that what a client has received is always the beginning of a well-formed
answer of its protocol. `AnswerWellFormed` looks at the whole sequence of chunks; the proof looks only
at its last one. Of the second invariant, `Answer`, `Grammar` says that each chunk sent or pending may
follow the one before and that, while more is to come, the last one is one which what the generator
remembers can go on from; `Blocks` that the last chunk tells how many blocks were begun, so that they
are numbered as they open, without an induction over the sequence; and `Reasons` that the generator
saw no call which `stream_chat` did not see, so that an end that has to announce calls does.

`ChatRequestProofs` holds what needs an induction over a sequence of any length. The library's
induction theorems cannot be used; `LeastNatural` (from the well-foundedness of `<`), `UpTo` and
`RecursionExists`, which says that a function may be defined by its first value and a step, take
their place.

For `StructuredRepair` (any models, chains and counts): `RepairTypes` and
`RepairAttemptsInOrder`, from the invariant (`Current`) that the attempt to come is the next of
the chain, priced as such, and that all before it broke the schema; and `RepairAnswerIsPaidFor`,
from what the answer and the usage added up so far are made of (`Paid`). That the sum exists, that its
value does not depend on how far it is defined and that appending an attempt adds that attempt's term
are lemmas of their own.

For `ToolConversation` (any tools whose names are not empty, any answers, conversations of any length):
`CallIdsAreDistinct`. `FreshIdIsFresh` is the core: among one more candidates than there are used ids one
is free (the pigeonhole principle), and it is never an upstream's own. `ToolCallsNumbered` extends that to
the calls of one answer, which must differ from one another as well, and `MessagesKeepCalls` says that the
clients see the ids of all earlier calls although the Anthropic ingress takes the client's messages apart.
`CallsInv` is what else is needed of the history.

`ResultsAreNamed` and `BodiesAreWellFormed` are about folds over the conversation, and take two more
inductions.

* Over the steps: `MessagesInv`. Its first part, `Disciplined`, says of the messages that the clients see
  that a number is made once and returned at most once (`CallsOnce`, `ResultsOnce`), that a result has the
  id of its call and only the user and tools speak between them (`ResultsReturn`), and that only the calls
  of the last message may wait (`CallsAnswered`). Its second, `Follows`, that these messages have the
  calls of the history, and the same ones wait: for the Anthropic ingress they are another sequence, into
  which one message of results goes as many. `MessagesInvariance` is its theorem. Of the ids it says
  only that those of one message differ: JetBrains' may be there twice in a conversation.
* Over the messages of one such conversation: what the bodies are made of. `Grows` says how `AddMessage`
  changes the turns, for all five clients alike: what was there stays where it was, only the last turn gets
  longer and only by its own role, and each part of the message gets one new place. So the turns carry every
  call and result of the messages so far, each once and in a turn of its side (`Carried`), and a result is
  after its call with no turn of the model between but the items of Responses (`Ordered`; `Open` is what it
  needs of the turns after a call whose results are still to come). For Google and JetBrains the calls
  of a turn are of one message (`OfOneMessage`) and the results of a message's calls go on in the last
  turn (`Together`, `GoesOn`), wherever the user's words are put; for Anthropic turns that would follow
  one of the same role are joined to it (`Alternates`), so that a call of the last message of the model is
  in the last turn but one once somebody has answered (`Recent`, `NextTurn`).

`BodyNames` finds the name of a result: what the client looks up by id is the name of the call the
result returns to, since between the two no other message of the model can have taken the id for another
call; Vertex looks at all calls of the conversation, and the statement excepts the ids that two of them share.

`ModelRegistryProofs` (any models, requests, contents, filters and number of writes): `SpecTypeOK`,
`QuietIsFresh`, `FilterIsNotOlder`, `ListedModelsAreOffered` and `RequestsGoOutAsTheirKind`. The times of the
file have no order, so `past` remembers which content had which. `Stamps` says that every time a reload
remembers is one the file has had, and that while none has come back the file has rested if it has the
time of the look. `ReadInv` says at each step of a reload what the registry and the filter were made of and that
it had the remembered time, unless something else was read (`strayed`); `SettledInv` is what a look leaves.
`FilterInv` says that the filter is not left behind in the middle of a reload either,
`DiscoveryInv` that what has been discovered is what the upstream of the registry in use
offers, except before the hook and after a reload that did not reach it, and `RoutedInv` that a routed request has an entry it can be sent by. The proof of `FilterIsNotOlder`
found a state that the statement checked before did not allow and that the instance cannot
reach, the refused `MODEL_REGISTRY_JSON` above; it is now part of the statement.

`PostgresRepositoryProofs` (any threads, pools, clocks and TTL): `SpecTypeOK`,
`CachedSchemaIsRecent` and `NoPoolIsLost`. `Seen` is why a time in the cache can be trusted although
no lock protects it: whoever holds a time holds one at or after which each part it vouches for was
as expected. `NoPoolIsLost` is inductive by itself.

Every invariant and every action property of the passing runs is thereby a theorem, and so is the
refinement. Only model-checked are the liveness properties, which are out of the prover's reach:
`NeverStuckInQueue`, `EveryCallReturns`, `CloseReturns`, `RequestsAnswered` and `ReservationSettles`.

## 5. Not modelled

* Of the streams: Foundry's native Google and Anthropic protocols, calls that are exempt from
  the ledger, and the wording of chunks.
* Of the conversations: texts, arguments, tool declarations and the choice of a tool; the bodies for
  Ollama and the OpenAI-compatible upstream, which pass the messages on; calls that arrive in a stream.
* Pricing: decimal arithmetic on one usage at a time, without state. In `CostLedger` a cost is a
  number of which only sums and comparisons matter.
* Reconciliation, the legacy reservation context and the reports: nothing in the running service
  schedules the one, and `AttemptContext` turns the settlements of the other into no-ops.
* The SQLite ledger: documented as local compatibility without shared guarantees. Its
  `update_reservation` does not look at the status of the row, and it compares times as
  text (`_iso` leaves out a zero fraction).
* Translation of texts, JSON schemas and parameters, the environment's variables, logging, the
  reports of the admin end points, the menu-bar script.

## 6. Plan

What would come next, in this order.

1. The SQLite ledger and `BudgetReservationContext` beside `CostLedger`, with times as the text
   `_iso` makes of them, and pricing as operators against a reference over bounded inputs.
2. Foundry's native streams in `ChatStream`: Google's merges calls without an id of one function at one
   position (`providers/foundry.py:966`).
3. With the second, the streams' calls in `ToolConversation`: `MessagesInv` and the theorems about the
   bodies would stand, `Generate` would get one more case.
