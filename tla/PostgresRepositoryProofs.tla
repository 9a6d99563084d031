---------------------- MODULE PostgresRepositoryProofs ----------------------
(***************************************************************************)
(* Theorems about PostgresRepository for any number of threads, any pool   *)
(* size and any TTL.                                                       *)
(*                                                                         *)
(* Seen is why a time in the cache can be trusted although it is read and  *)
(* written without a lock: whoever holds a time - the cache, a thread that *)
(* read it there, a thread that verifies since then - holds one at or      *)
(* after which each part it vouches for was as expected.                   *)
(* PoolsAccounted is inductive once the variables have their types.        *)
(***************************************************************************)
EXTENDS PostgresRepository, TLAPS

Vouched(time) == \A p \in Parts : time <= lastGood[p]

Seen ==
    /\ \A p \in Parts : lastGood[p] <= now
    /\ \A p \in good : lastGood[p] = now
    /\ verifyAt # None => Vouched(verifyAt)
    /\ \A t \in Threads :
          /\ cached[t] # None => Vouched(cached[t])
          /\ start[t] <= now
          /\ stage[t] \in {"tables", "verified"} => start[t] <= lastGood["history"]
          /\ stage[t] = "verified" => start[t] <= lastGood["tables"]

IInv == TypeOK /\ Seen

LEMMA InitIInv == Init => IInv
  BY RepositoryAssumption
  DEF Init, IInv, TypeOK, Seen, Vouched, Parts, Stages, Connected, Operations

\* A time at which a part was as expected is never taken back.
LEMMA TickStep == IInv /\ Tick => IInv'
<1> SUFFICES ASSUME IInv, Tick PROVE IInv'
  OBVIOUS
<1> USE DEF IInv, Tick, dbVars, poolVars, threadVars
<1>1. now' \in Nat /\ now' = now + 1 /\ lastGood' \in [Parts -> Nat]
  BY DEF TypeOK
<1>2. \A p \in Parts : lastGood[p] <= lastGood'[p] /\ lastGood'[p] <= now'
  BY DEF TypeOK, Seen
<1>3. TypeOK'
  BY <1>1 DEF TypeOK
<1>4. \A p \in good' : lastGood'[p] = now'
  BY DEF TypeOK
<1>5. \A time \in Nat : Vouched(time) => Vouched(time)'
  BY <1>1, <1>2 DEF Vouched, TypeOK
<1>6. verifyAt' # None => Vouched(verifyAt)'
  BY <1>5 DEF Seen, TypeOK
<1>7. ASSUME NEW t \in Threads
      PROVE  /\ cached'[t] # None => Vouched(cached[t])'
             /\ start'[t] <= now'
             /\ stage'[t] \in {"tables", "verified"} => start'[t] <= lastGood'["history"]
             /\ stage'[t] = "verified" => start'[t] <= lastGood'["tables"]
  <2>1. cached'[t] # None => Vouched(cached[t])'
    BY <1>5 DEF Seen, TypeOK
  <2>2. /\ start[t] \in Nat /\ now \in Nat
        /\ lastGood["history"] \in Nat /\ lastGood["tables"] \in Nat
        /\ lastGood'["history"] \in Nat /\ lastGood'["tables"] \in Nat
    BY <1>1 DEF TypeOK, Parts
  <2>3. lastGood["history"] <= lastGood'["history"] /\ lastGood["tables"] <= lastGood'["tables"]
    BY <1>2 DEF Parts
  <2> QED
    BY <1>1, <2>1, <2>2, <2>3 DEF Seen
<1> QED
  BY <1>2, <1>3, <1>4, <1>6, <1>7 DEF Seen

\* An altered part keeps its time; a repaired schema is as expected now.
LEMMA SchemaStep == IInv /\ (Alter \/ Repair) => IInv'
<1> SUFFICES ASSUME IInv, Alter \/ Repair PROVE IInv'
  OBVIOUS
<1>1. CASE Alter
  BY <1>1 DEF IInv, Alter, TypeOK, Seen, Vouched, poolVars, threadVars
<1>2. CASE Repair
  <2> USE DEF IInv
  <2>1. lastGood' = [p \in Parts |-> now] /\ good' = Parts /\ now' = now
    BY <1>2 DEF Repair
  <2>2. TypeOK'
    BY <1>2, <2>1 DEF Repair, TypeOK, poolVars, threadVars
  <2>3. \A p \in Parts : lastGood[p] <= lastGood'[p] /\ lastGood'[p] = now'
    BY <2>1 DEF Seen
  <2>4. \A time \in Nat : Vouched(time) => Vouched(time)'
    BY <2>2, <2>3 DEF Vouched, TypeOK
  <2>5. verifyAt' # None => Vouched(verifyAt)'
    BY <1>2, <2>4 DEF Repair, Seen, TypeOK
  <2>6. ASSUME NEW t \in Threads
        PROVE  /\ cached'[t] # None => Vouched(cached[t])'
               /\ start'[t] <= now'
               /\ stage'[t] \in {"tables", "verified"} => start'[t] <= lastGood'["history"]
               /\ stage'[t] = "verified" => start'[t] <= lastGood'["tables"]
    BY <1>2, <2>1, <2>3, <2>4 DEF Repair, Seen, TypeOK, threadVars, Parts
  <2> QED
    BY <2>1, <2>2, <2>3, <2>5, <2>6 DEF Seen, TypeOK
<1> QED
  BY <1>1, <1>2

\* What no step of a thread changes.
Calm == UNCHANGED <<now, good, lastGood>>

\* A step that ends a call forgets the times the thread held.
LEMMA DoneStep ==
  ASSUME IInv, Calm, NEW t \in Threads, NEW from, Done(t, from),
         verifyAt' \in {verifyAt, None},
         lock' \in Threads \union {None},
         pool' = pool, made' = made, open' \subseteq Nat
  PROVE  IInv'
  BY RepositoryAssumption
  DEF IInv, TypeOK, Seen, Vouched, Calm, Done, Go, Stages, Operations

\* A step that moves a thread on and leaves its times alone.
LEMMA MoveStep ==
  ASSUME IInv, Calm, NEW t \in Threads,
         NEW from, NEW to \in Stages \ {"tables", "verified"}, Go(t, from, to),
         operation' \in [Threads -> Operations],
         mine' \in [Threads -> Nat \union {None}],
         cached' = cached \/ cached' = [cached EXCEPT ![t] = None],
         UNCHANGED <<start, verifyAt>>,
         lock' \in Threads \union {None},
         pool' \in Nat \union {None}, made' \in Nat, open' \subseteq Nat
  PROVE  IInv'
  BY DEF IInv, TypeOK, Seen, Vouched, Calm, Go

LEMMA PoolSteps ==
  ASSUME IInv, NEW t \in Threads,
         Begin(t) \/ GetPool(t) \/ Connect(t) \/ CloseTake(t) \/ CloseSwap(t) \/ Skip(t) \/ Lock(t)
  PROVE  IInv'
<1> USE DEF IInv, Stages, Connected
<1>1. CASE Begin(t)
  BY <1>1, MoveStep DEF Begin, Calm, dbVars, poolVars, TypeOK
<1>2. CASE GetPool(t)
  <2>1. pool' \in Nat \union {None} /\ made' \in Nat /\ open' \subseteq Nat
    <3>1. pool \in Nat \union {None} /\ made \in Nat /\ open \subseteq Nat
      BY DEF TypeOK
    <3>2. CASE Create
      BY <3>1, <3>2 DEF Create
    <3>3. CASE UNCHANGED poolVars
      BY <3>1, <3>3 DEF poolVars
    <3> QED
      BY <1>2, <3>2, <3>3 DEF GetPool
  <2> QED
    BY <1>2, <2>1, MoveStep DEF GetPool, Calm, dbVars, TypeOK
<1>3. CASE Connect(t)
  BY <1>3, MoveStep DEF Connect, Calm, dbVars, poolVars, threadVars, TypeOK
<1>4. CASE CloseTake(t)
  BY <1>4, MoveStep DEF CloseTake, Calm, dbVars, poolVars, TypeOK
<1>5. CASE CloseSwap(t)
  BY <1>5, MoveStep DEF CloseSwap, Calm, dbVars, threadVars, TypeOK
<1>6. CASE Skip(t)
  BY <1>6, MoveStep DEF Skip, Entered, Calm, dbVars, poolVars, TypeOK
<1>7. CASE Lock(t)
  BY <1>7, MoveStep DEF Lock, Calm, poolVars, threadVars, TypeOK
<1> QED
  BY <1>1, <1>2, <1>3, <1>4, <1>5, <1>6, <1>7

LEMMA EndSteps ==
  ASSUME IInv, NEW t \in Threads,
         End(t) \/ Mismatch(t) \/ Refused(t) \/ ClosePool(t)
  PROVE  IInv'
<1> USE DEF IInv
<1>1. CASE End(t)
  BY <1>1, DoneStep DEF End, Release, Calm, poolVars, TypeOK
<1>2. CASE Mismatch(t)
  BY <1>2, DoneStep DEF Mismatch, Calm, dbVars, poolVars, TypeOK
<1>3. CASE Refused(t)
  BY <1>3, DoneStep DEF Refused, Calm, dbVars, poolVars, TypeOK
<1>4. CASE ClosePool(t)
  BY <1>4, DoneStep DEF ClosePool, Calm, dbVars, TypeOK
<1> QED
  BY <1>1, <1>2, <1>3, <1>4

\* A time is read, taken, vouched for part by part, and stored.
LEMMA CacheSteps ==
  ASSUME IInv, NEW t \in Threads,
         \/ ReadCache(t) \/ Verify(t) \/ Store(t) \/ SchemaError(t)
         \/ Matches(t, "history", "tables") \/ Matches(t, "tables", "verified")
  PROVE  IInv'
<1> USE DEF IInv, Go, dbVars, poolVars, threadVars
<1>1. CASE ReadCache(t)
  BY <1>1 DEF ReadCache, TypeOK, Seen, Vouched, Stages, Connected
<1>2. CASE Verify(t)
  BY <1>2 DEF Verify, TypeOK, Seen, Vouched, Stages, Connected
<1>3. CASE Matches(t, "history", "tables")
  <2>1. lastGood["history"] = now /\ start[t] <= now
    BY <1>3 DEF Matches, Seen
  <2> QED
    BY <1>3, <2>1 DEF Matches, TypeOK, Seen, Vouched, Stages, Connected
<1>4. CASE Matches(t, "tables", "verified")
  <2>1. lastGood["tables"] = now /\ start[t] <= now /\ start[t] <= lastGood["history"]
    BY <1>4 DEF Matches, Seen
  <2> QED
    BY <1>4, <2>1 DEF Matches, TypeOK, Seen, Vouched, Stages, Connected
<1>5. CASE Store(t)
  <2>1. Vouched(start[t])
    BY <1>5 DEF Store, StoreAt, Seen, Vouched, Parts
  <2>2. Entered(t) \in {"locking", "body"}
    BY DEF Entered
  <2>3. verifyAt' = start[t] /\ start' = [start EXCEPT ![t] = 0]
        /\ stage' = [stage EXCEPT ![t] = Entered(t)]
        /\ UNCHANGED <<now, dbVars, poolVars, operation, mine, cached>>
    BY <1>5 DEF Store, StoreAt
  <2>4. TypeOK'
    BY <2>2, <2>3 DEF TypeOK, Stages, Connected
  <2>5. Vouched(verifyAt)'
    BY <2>1, <2>3 DEF Vouched
  <2> QED
    BY <2>2, <2>3, <2>4, <2>5 DEF TypeOK, Seen, Vouched
<1>6. CASE SchemaError(t)
  BY <1>6, RepositoryAssumption
  DEF SchemaError, Release, TypeOK, Seen, Vouched, Stages, Connected
<1> QED
  BY <1>1, <1>2, <1>3, <1>4, <1>5, <1>6

LEMMA IInvStep == IInv /\ [Next]_vars => IInv'
<1> SUFFICES ASSUME IInv, [Next]_vars PROVE IInv'
  OBVIOUS
<1>1. CASE UNCHANGED vars
  BY <1>1 DEF IInv, TypeOK, Seen, Vouched, vars, dbVars, poolVars, threadVars
<1>2. CASE Next
  BY <1>2, TickStep, SchemaStep, PoolSteps, EndSteps, CacheSteps DEF Next
<1> QED
  BY <1>1, <1>2

LEMMA SpecIInv == Spec => []IInv
  BY InitIInv, IInvStep, PTL DEF Spec

\* Every variable of the repository keeps its type.
THEOREM SpecTypeOK == Spec => []TypeOK
<1>1. IInv => TypeOK
  BY DEF IInv
<1> QED
  BY <1>1, SpecIInv, PTL

\* _verify_schema_cached: whatever the threads interleave, an operation that
\* skips the verification relies on a schema seen as expected within the TTL.
THEOREM CachedSchemaIsRecent == Spec => SeenWithinTTL
<1>1. ASSUME IInv, [Next]_vars, NEW t \in Threads,
             stage[t] = "deciding", stage'[t] = Entered(t)
      PROVE  \A p \in Parts : now < lastGood[p] + TTL
  <2>1. Entered(t) \in {"locking", "body"}
    BY DEF Entered
  <2>2. Skip(t)
    <3>1. stage' # stage
      BY <1>1, <2>1
    <3>2. Next
      BY <1>1, <3>1 DEF vars
    <3> QED
      BY <1>1, <2>1, <3>2
      DEF IInv, TypeOK, Next, Tick, Alter, Repair, Begin, GetPool, Connect, End, ReadCache, Skip,
          Verify, Matches, Mismatch, Store, StoreAt, Lock, SchemaError, Refused, CloseTake,
          CloseSwap, ClosePool, Go, Done, Connected
  <2>3. cached[t] \in Nat /\ Vouched(cached[t]) /\ now < cached[t] + TTL
    BY <1>1, <2>2 DEF Skip, Fresh, IInv, Seen, TypeOK
  <2> QED
    BY <1>1, <2>3, RepositoryAssumption DEF Vouched, IInv, TypeOK
<1>2. IInv /\ [Next]_vars =>
        [\A t \in Threads :
            (stage[t] = "deciding" /\ stage'[t] = Entered(t)) =>
                \A p \in Parts : now < lastGood[p] + TTL]_vars
  BY <1>1
<1> QED
  BY <1>2, SpecIInv, PTL DEF Spec, SeenWithinTTL

---------------------------------------------------------------------------
(* The pools.                                                              *)

\* A thread that is not about to close a pool cannot lose one by moving on.
LEMMA ElsewhereStep ==
  ASSUME TypeOK, PoolsAccounted, UNCHANGED <<pool, open>>,
         NEW t \in Threads, NEW from \in Stages \ {"swapped"}, NEW to, Go(t, from, to),
         NEW m, mine' = mine \/ mine' = [mine EXCEPT ![t] = m]
  PROVE  PoolsAccounted'
  BY DEF TypeOK, PoolsAccounted, Go

LEMMA PoolsStep == TypeOK /\ PoolsAccounted /\ [Next]_vars => PoolsAccounted'
<1> SUFFICES ASSUME TypeOK, PoolsAccounted, [Next]_vars PROVE PoolsAccounted'
  OBVIOUS
<1>1. CASE UNCHANGED <<pool, open, stage, mine>>
  BY <1>1 DEF PoolsAccounted
<1>2. ASSUME NEW t \in Threads, GetPool(t) PROVE PoolsAccounted'
  <2>1. CASE pool = None /\ Create
    <3>1. \A p \in open' : p = pool' \/ p \in open
      BY <2>1 DEF Create
    <3>2. ASSUME NEW p \in open
          PROVE  \E s \in Threads \ {t} : stage[s] = "swapped" /\ mine[s] = p
      BY <1>2, <2>1, RepositoryAssumption DEF PoolsAccounted, TypeOK, GetPool, Go
    <3> QED
      BY <1>2, <3>1, <3>2 DEF PoolsAccounted, TypeOK, GetPool, Go
  <2>2. CASE UNCHANGED poolVars
    BY <1>2, <2>2, ElsewhereStep DEF GetPool, poolVars, Stages
  <2> QED
    BY <1>2, <2>1, <2>2 DEF GetPool
<1>3. ASSUME NEW t \in Threads, CloseSwap(t) PROVE PoolsAccounted'
  BY <1>3 DEF CloseSwap, Go, PoolsAccounted, TypeOK, threadVars
<1>4. ASSUME NEW t \in Threads, ClosePool(t) PROVE PoolsAccounted'
  BY <1>4 DEF ClosePool, Done, Go, PoolsAccounted, TypeOK
<1>5. ASSUME NEW t \in Threads, Begin(t) \/ CloseTake(t) PROVE PoolsAccounted'
  BY <1>5, ElsewhereStep DEF Begin, CloseTake, poolVars, Stages
<1>6. ASSUME NEW t \in Threads, End(t) \/ Mismatch(t) \/ Refused(t) PROVE PoolsAccounted'
  BY <1>6, ElsewhereStep DEF End, Mismatch, Refused, Done, poolVars, Stages, Connected, Parts
<1>7. ASSUME NEW t \in Threads,
             \/ Connect(t) \/ ReadCache(t) \/ Skip(t) \/ Verify(t) \/ Store(t)
             \/ Lock(t) \/ SchemaError(t)
             \/ Matches(t, "history", "tables") \/ Matches(t, "tables", "verified")
      PROVE  PoolsAccounted'
  BY <1>7, ElsewhereStep
  DEF Connect, ReadCache, Skip, Verify, Store, StoreAt, Lock, SchemaError, Matches,
      poolVars, threadVars, Stages, Connected
<1>8. CASE Tick \/ Alter \/ Repair
  BY <1>1, <1>8 DEF Tick, Alter, Repair, poolVars, threadVars
<1> QED
  BY <1>1, <1>2, <1>3, <1>4, <1>5, <1>6, <1>7, <1>8 DEF Next, vars, poolVars, threadVars

\* _get_pool and close: however the threads interleave, an open pool is the
\* current one or the one that some close is about to close.
THEOREM NoPoolIsLost == Spec => []PoolsAccounted
<1>1. Init => PoolsAccounted
  BY DEF Init, PoolsAccounted
<1> QED
  BY <1>1, PoolsStep, SpecTypeOK, PTL DEF Spec

=============================================================================
