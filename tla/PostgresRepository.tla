------------------------- MODULE PostgresRepository -------------------------
(***************************************************************************)
(* The connections of PostgresCostRepository: the lazily built pool, which *)
(* close() takes away while other threads are using or building it, and    *)
(* the cache of the schema verification, which every transaction reads and *)
(* writes without a lock while the schema may be altered under it.         *)
(*                                                                         *)
(* A thread of the admission or record executor runs one operation after   *)
(* another; an action is what it does between two statements or two        *)
(* accesses to the attributes that the threads share.                      *)
(*                                                                         *)
(* Nothing in the source assigns _dsn after the constructor, so a pool is  *)
(* never retired for another one and the cache never belongs to another    *)
(* database.                                                               *)
(***************************************************************************)
EXTENDS Naturals, FiniteSets

CONSTANTS
    Threads,
    PoolSize,     \* COST_LEDGER_POOL_MAX_SIZE
    TTL,          \* COST_SCHEMA_VERIFY_TTL_SECONDS; 0 verifies always
    MaxPools,     \* bound of the number of pools ever built
    MaxTime,      \* bound of the clock
    None

\* What _verify_schema looks at, in this order: the recorded migrations, and
\* the tables with their columns.
Parts == {"history", "tables"}

\* "nested": methods called within transaction(), as preflight and the
\* settlements do; "direct": statements in the body of transaction() itself, as
\* in a prune; "read": a body of _read, without the lock, as check_health.
Operations == {"nested", "direct", "read"}

ASSUME RepositoryAssumption ==
    /\ PoolSize \in Nat \ {0} /\ TTL \in Nat
    /\ MaxPools \in Nat /\ MaxTime \in Nat
    /\ None \notin Nat /\ None \notin Threads

VARIABLES
    now,          \* time.monotonic()
    good,         \* the parts of the schema that are as the code expects
    lastGood,     \* when each part was so last (history)
    lock,         \* the holder of the advisory lock
    pool,         \* _pool: a number of a pool, or None
    open, made,   \* the pools that are open, and how many were built
    verifyAt,     \* _verify_at
    stage,        \* what a thread is doing
    operation,    \* which operation it runs
    mine,         \* the pool it has read from _pool
    cached,       \* what it has read from _verify_at
    start         \* the time it has read before it verifies

dbVars == <<good, lastGood, lock>>
poolVars == <<pool, open, made>>
threadVars == <<operation, mine, cached, start>>
vars == <<now, dbVars, poolVars, verifyAt, stage, threadVars>>

\* Threads that hold a connection of a pool.
Connected == {"connected", "deciding", "history", "tables", "verified", "locking", "body"}
Stages == {"idle", "unpooled", "pooled", "schemaError", "closing", "swapped"} \union Connected

TypeOK ==
    /\ now \in Nat
    /\ good \subseteq Parts /\ lastGood \in [Parts -> Nat]
    /\ lock \in Threads \union {None}
    /\ made \in Nat /\ pool \in Nat \union {None} /\ open \subseteq Nat
    /\ verifyAt \in Nat \union {None}
    /\ stage \in [Threads -> Stages]
    /\ operation \in [Threads -> Operations]
    /\ mine \in [Threads -> Nat \union {None}]
    /\ cached \in [Threads -> Nat \union {None}]
    /\ start \in [Threads -> Nat]

Init ==
    /\ now = 0
    /\ good = Parts /\ lastGood = [p \in Parts |-> 0]
    /\ lock = None
    /\ pool = None /\ open = {} /\ made = 0
    /\ verifyAt = None
    /\ stage = [t \in Threads |-> "idle"]
    /\ operation = [t \in Threads |-> "read"]
    /\ mine = [t \in Threads |-> None]
    /\ cached = [t \in Threads |-> None]
    /\ start = [t \in Threads |-> 0]

Go(t, from, to) == stage[t] = from /\ stage' = [stage EXCEPT ![t] = to]

\* The call returns or raises; nothing of its locals is left.
Done(t, from) ==
    /\ Go(t, from, "idle")
    /\ operation' = [operation EXCEPT ![t] = "read"]
    /\ mine' = [mine EXCEPT ![t] = None]
    /\ cached' = [cached EXCEPT ![t] = None]
    /\ start' = [start EXCEPT ![t] = 0]

---------------------------------------------------------------------------
(* The database.                                                           *)

Tick ==
    /\ now < MaxTime
    /\ now' = now + 1
    /\ lastGood' = [p \in Parts |-> IF p \in good THEN now + 1 ELSE lastGood[p]]
    /\ UNCHANGED <<good, lock, poolVars, verifyAt, stage, threadVars>>

\* Somebody changes a part of the schema to what the code does not expect.
Alter ==
    /\ \E p \in good : good' = good \ {p}
    /\ UNCHANGED <<now, lastGood, lock, poolVars, verifyAt, stage, threadVars>>

\* ... or back; the history by apply_migrations, one transaction under the
\* advisory lock, which ends with a verification.
Repair ==
    /\ lock = None
    /\ good # Parts
    /\ good' = Parts
    /\ lastGood' = [p \in Parts |-> now]
    /\ UNCHANGED <<now, lock, poolVars, verifyAt, stage, threadVars>>

---------------------------------------------------------------------------
(* _get_pool and _connection.                                              *)

\* The first look at _pool, without the lock.
Begin(t) ==
    /\ Go(t, "idle", IF pool = None THEN "unpooled" ELSE "pooled")
    /\ operation' \in {[operation EXCEPT ![t] = o] : o \in Operations}
    /\ mine' = [mine EXCEPT ![t] = pool]
    /\ UNCHANGED <<now, dbVars, poolVars, verifyAt, cached, start>>

\* A new pool.
Create ==
    /\ made < MaxPools
    /\ made' = made + 1
    /\ pool' = made + 1
    /\ open' = open \union {made + 1}

\* The rest of _get_pool, under _pool_lock.  The variant does not look again
\* once it has the lock.
GetPoolAnyway(t) ==
    /\ Go(t, "unpooled", "pooled")
    /\ Create
    /\ mine' = [mine EXCEPT ![t] = pool']
    /\ UNCHANGED <<now, dbVars, verifyAt, operation, cached, start>>

GetPool(t) ==
    /\ Go(t, "unpooled", "pooled")
    /\ \/ pool = None /\ Create
       \/ pool # None /\ UNCHANGED poolVars
    /\ mine' = [mine EXCEPT ![t] = pool']
    /\ UNCHANGED <<now, dbVars, verifyAt, operation, cached, start>>

InUse(p) == {t \in Threads : mine[t] = p /\ stage[t] \in Connected}

\* A connection, and its transaction.
Connect(t) ==
    /\ mine[t] \in open /\ Cardinality(InUse(mine[t])) < PoolSize
    /\ Go(t, "pooled", "connected")
    /\ UNCHANGED <<now, dbVars, poolVars, verifyAt, threadVars>>

Release(t) == lock' = IF lock = t THEN None ELSE lock

\* The end of the operation: the commit; or the pool is closed or has no
\* connection in time; or a statement fails, by a timeout or because the
\* connection is lost.
End(t) ==
    /\ \/ stage[t] = "pooled"
       \/ stage[t] \in Connected
    /\ Done(t, stage[t])
    /\ Release(t)
    /\ UNCHANGED <<now, good, lastGood, poolVars, verifyAt>>

---------------------------------------------------------------------------
(* _verify_schema_cached.                                                  *)

ReadCache(t) ==
    /\ Go(t, "connected", "deciding")
    /\ cached' = [cached EXCEPT ![t] = verifyAt]
    /\ UNCHANGED <<now, dbVars, poolVars, verifyAt, operation, mine, start>>

Fresh(t) == TTL > 0 /\ cached[t] # None /\ now < cached[t] + TTL

Entered(t) == IF operation[t] = "read" THEN "body" ELSE "locking"

\* The second clock reading decides, and becomes the time of the verification.
Skip(t) ==
    /\ Fresh(t)
    /\ Go(t, "deciding", Entered(t))
    /\ cached' = [cached EXCEPT ![t] = None]
    /\ UNCHANGED <<now, dbVars, poolVars, verifyAt, operation, mine, start>>

Verify(t) ==
    /\ ~Fresh(t)
    /\ Go(t, "deciding", "history")
    /\ start' = [start EXCEPT ![t] = now]
    /\ cached' = [cached EXCEPT ![t] = None]
    /\ UNCHANGED <<now, dbVars, poolVars, verifyAt, operation, mine>>

\* Each part is compared when its query runs.
Matches(t, part, next) ==
    /\ part \in good
    /\ Go(t, part, next)
    /\ UNCHANGED <<now, dbVars, poolVars, verifyAt, threadVars>>

\* A mismatch; when a query names what does not exist any more, the exception
\* passes _connection, which drops the cache.
Mismatch(t) ==
    /\ stage[t] \in Parts \ good
    /\ Done(t, stage[t])
    /\ \/ UNCHANGED verifyAt
       \/ verifyAt' = None
    /\ UNCHANGED <<now, dbVars, poolVars>>

\* The variant takes the time of the store.
StoreAt(t, time) ==
    /\ Go(t, "verified", Entered(t))
    /\ verifyAt' = time
    /\ start' = [start EXCEPT ![t] = 0]
    /\ UNCHANGED <<now, dbVars, poolVars, operation, mine, cached>>

StoreLate(t) == StoreAt(t, now)
Store(t) == StoreAt(t, start[t])

---------------------------------------------------------------------------
(* The body of the transaction.                                            *)

Lock(t) ==
    /\ lock = None
    /\ Go(t, "locking", "body")
    /\ lock' = t
    /\ UNCHANGED <<now, good, lastGood, poolVars, verifyAt, threadVars>>

\* A statement names a table or column that is gone.  In a nested operation
\* _database_errors turns the exception into another one before the handler
\* of the outer _connection, which drops the cache, sees it.
SchemaError(t) ==
    /\ "tables" \notin good
    /\ Go(t, "body", "schemaError")
    /\ Release(t)
    /\ verifyAt' = IF operation[t] = "nested" THEN verifyAt ELSE None
    /\ UNCHANGED <<now, good, lastGood, poolVars, threadVars>>

Refused(t) ==
    /\ Done(t, "schemaError")
    /\ UNCHANGED <<now, dbVars, poolVars, verifyAt>>

---------------------------------------------------------------------------
(* close, in the loop's thread or another one outside of a transaction.    *)

CloseTake(t) ==
    /\ pool # None
    /\ Go(t, "idle", "closing")
    /\ mine' = [mine EXCEPT ![t] = pool]
    /\ UNCHANGED <<now, dbVars, poolVars, verifyAt, operation, cached, start>>

\* Under _pool_lock.  (The variant does not ask whether _pool is still the
\* pool it has seen.)
CloseSwapAny(t) ==
    /\ Go(t, "closing", "swapped")
    /\ pool' = None
    /\ UNCHANGED <<now, dbVars, open, made, verifyAt, threadVars>>

CloseSwap(t) ==
    /\ Go(t, "closing", "swapped")
    /\ pool' = IF pool = mine[t] THEN None ELSE pool
    /\ UNCHANGED <<now, dbVars, open, made, verifyAt, threadVars>>

ClosePool(t) ==
    /\ Done(t, "swapped")
    /\ open' = open \ {mine[t]}
    /\ UNCHANGED <<now, dbVars, pool, made, verifyAt>>

---------------------------------------------------------------------------
Next ==
    \/ Tick \/ Alter \/ Repair
    \/ \E t \in Threads :
          \/ Begin(t) \/ GetPool(t) \/ Connect(t) \/ End(t)
          \/ ReadCache(t) \/ Skip(t) \/ Verify(t)
          \/ Matches(t, "history", "tables") \/ Matches(t, "tables", "verified")
          \/ Mismatch(t) \/ Store(t)
          \/ Lock(t) \/ SchemaError(t) \/ Refused(t)
          \/ CloseTake(t) \/ CloseSwap(t) \/ ClosePool(t)

Spec == Init /\ [][Next]_vars

---------------------------------------------------------------------------
(* Properties.                                                             *)

\* An operation that goes on without a verification relies on a schema each
\* part of which was as expected less than TTL ago, however the verifications
\* of other threads, the drops of the cache and alterations interleave.
SeenWithinTTL ==
    [][\A t \in Threads :
          (stage[t] = "deciding" /\ stage'[t] = Entered(t)) =>
              \A p \in Parts : now < lastGood[p] + TTL]_vars

\* No pool is lost: one that is open is the current one, or the one that some
\* close is about to close.
PoolsAccounted ==
    \A p \in open :
        p = pool \/ \E t \in Threads : stage[t] = "swapped" /\ mine[t] = p

\* A statement that fails because of the schema drops the cache.
SchemaErrorInvalidates ==
    [][\A t \in Threads :
          (stage[t] = "body" /\ stage'[t] = "schemaError") => verifyAt' = None]_vars

=============================================================================
