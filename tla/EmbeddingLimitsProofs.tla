---------------------- MODULE EmbeddingLimitsProofs ----------------------
(***************************************************************************)
(* Proofs about EmbeddingLimits, for any set of connections and any        *)
(* capacity: the counters are exact, no slot is leaked or granted twice,   *)
(* and no slot is idle while somebody queues.                              *)
(*                                                                         *)
(* The argument is one inductive invariant, IInv.  The properties the runs *)
(* check are its conjuncts; what they lack to be inductive is the tie      *)
(* between a waiter future and the task that owns it (FutOwned) and the    *)
(* fact that an idle connection has no task left (IdleIsClean).            *)
(***************************************************************************)
EXTENDS EmbeddingLimits, TLAPS, FiniteSetTheorems, SequenceTheorems, WellFoundedInduction

---------------------------------------------------------------------------
(* Sequences without repetitions.                                          *)

\* A non-empty set of natural numbers has a least element.
LEMMA LeastNatural ==
  ASSUME NEW P, P \subseteq Nat, P # {}
  PROVE  \E k \in P : \A j \in P : k <= j
<1> DEFINE R == OpToRel(<, Nat)
<1>1. \A x, y \in Nat : x < y => <<x, y>> \in R
  BY DEF OpToRel
<1>2. IsWellFoundedOn(R, Nat)
  BY NatLessThanWellFounded
<1> HIDE DEF R
<1>3. PICK k \in P : \A j \in P : ~(<<j, k>> \in R)
  BY <1>2, WFMin
<1>4. \A j \in P : j \in Nat /\ k \in Nat /\ ~(j < k)
  BY <1>1, <1>3
<1> QED
  BY <1>4

\* deque.remove takes the element out of its position and closes the gap.
LEMMA RemoveFirstShape ==
  ASSUME NEW S, NEW s \in Seq(S), NEW e, NEW k \in 1..Len(s), s[k] = e, IsInjective(s)
  PROVE  /\ RemoveFirst(s, e) \in Seq(S)
         /\ Len(RemoveFirst(s, e)) = Len(s) - 1
         /\ \A i \in 1..(Len(s) - 1) : RemoveFirst(s, e)[i] = IF i < k THEN s[i] ELSE s[i + 1]
<1>1. {i \in 1..Len(s) : s[i] = e} = {k}
  BY DEF IsInjective
<1>2. SelectInSeq(s, LAMBDA v : v = e) = k
  BY <1>1 DEF SelectInSeq, Min
<1> DEFINE a == SubSeq(s, 1, k - 1)
           b == SubSeq(s, k + 1, Len(s))
           t == a \o b
<1>3. RemoveFirst(s, e) = t
  BY <1>2 DEF RemoveFirst, RemoveAt
<1>4. /\ a \in Seq(S)
      /\ Len(a) = k - 1
      /\ \A i \in 1..(k - 1) : a[i] = s[i]
  <2>1. \A i \in 1..(k - 1) : s[i] \in S
    BY ElementOfSeq
  <2> QED
    BY <2>1, SubSeqProperties
<1>5. /\ b \in Seq(S)
      /\ Len(b) = Len(s) - k
      /\ \A i \in 1..(Len(s) - k) : b[i] = s[k + i]
  <2>1. \A i \in (k + 1)..Len(s) : s[i] \in S
    BY ElementOfSeq
  <2> QED
    BY <2>1, SubSeqProperties
<1> HIDE DEF a, b
<1>6. /\ t \in Seq(S)
      /\ Len(t) = Len(a) + Len(b)
      /\ \A i \in 1..(Len(a) + Len(b)) :
            t[i] = IF i <= Len(a) THEN a[i] ELSE b[i - Len(a)]
  BY <1>4, <1>5, ConcatProperties
<1> HIDE DEF t
<1>7. Len(s) \in Nat /\ Len(a) + Len(b) = Len(s) - 1
  BY <1>4, <1>5
<1>8. ASSUME NEW i \in 1..(Len(s) - 1)
      PROVE  t[i] = IF i < k THEN s[i] ELSE s[i + 1]
  <2>1. t[i] = IF i <= Len(a) THEN a[i] ELSE b[i - Len(a)]
    BY <1>6, <1>7
  <2>2. CASE i < k
    BY <2>1, <2>2, <1>4
  <2>3. CASE i >= k
    <3>1. i - (k - 1) \in 1..(Len(s) - k) /\ k + (i - (k - 1)) = i + 1
      BY <2>3, <1>7
    <3>2. b[i - (k - 1)] = s[i + 1]
      BY <3>1, <1>5
    <3>3. ~(i <= Len(a)) /\ ~(i < k)
      BY <2>3, <1>4
    <3> QED
      BY <2>1, <3>2, <3>3, <1>4
  <2> QED
    BY <2>2, <2>3
<1> QED
  BY <1>3, <1>6, <1>7, <1>8

\* The same of an element that is known to be in it.
LEMMA RemoveFirstOfOne ==
  ASSUME NEW S, NEW s \in Seq(S), NEW e, IsInjective(s), \E i \in 1..Len(s) : s[i] = e
  PROVE  \E k \in 1..Len(s) :
            /\ s[k] = e
            /\ RemoveFirst(s, e) \in Seq(S)
            /\ Len(RemoveFirst(s, e)) = Len(s) - 1
            /\ \A i \in 1..(Len(s) - 1) : RemoveFirst(s, e)[i] = IF i < k THEN s[i] ELSE s[i + 1]
<1>1. PICK k \in 1..Len(s) : s[k] = e
  OBVIOUS
<1>2. /\ RemoveFirst(s, e) \in Seq(S)
      /\ Len(RemoveFirst(s, e)) = Len(s) - 1
      /\ \A i \in 1..(Len(s) - 1) : RemoveFirst(s, e)[i] = IF i < k THEN s[i] ELSE s[i + 1]
  BY <1>1, RemoveFirstShape
<1> QED
  BY <1>1, <1>2

\* An element that is in an injective sequence leaves with RemoveFirst, and
\* nothing else does (deque.remove).
LEMMA RemoveFirstFacts ==
  ASSUME NEW S, NEW s \in Seq(S), NEW e \in S, IsInjective(s)
  PROVE  /\ RemoveFirst(s, e) \in Seq(S)
         /\ IsInjective(RemoveFirst(s, e))
         /\ ToSet(RemoveFirst(s, e)) = ToSet(s) \ {e}
<1>1. CASE ~ \E i \in 1..Len(s) : s[i] = e
  <2>1. RemoveFirst(s, e) = s
    BY <1>1 DEF RemoveFirst
  <2>2. e \notin ToSet(s)
    BY <1>1 DEF ToSet
  <2> QED
    BY <2>1, <2>2
<1>2. CASE \E i \in 1..Len(s) : s[i] = e
  <2>1. PICK k \in 1..Len(s) : s[k] = e
    BY <1>2
  <2> DEFINE t == RemoveFirst(s, e)
  <2>7. /\ t \in Seq(S)
        /\ Len(t) = Len(s) - 1
        /\ \A i \in 1..(Len(s) - 1) : t[i] = IF i < k THEN s[i] ELSE s[i + 1]
    BY <2>1, RemoveFirstShape
  <2> HIDE DEF t
  <2>8. DOMAIN s = 1..Len(s) /\ DOMAIN t = 1..(Len(s) - 1)
    BY <2>7
  <2>9. IsInjective(t)
    <3>1. ASSUME NEW i \in 1..(Len(s) - 1), NEW j \in 1..(Len(s) - 1), t[i] = t[j]
          PROVE  i = j
      <4> DEFINE At(n) == IF n < k THEN n ELSE n + 1
      <4>1. /\ At(i) \in 1..Len(s) /\ At(j) \in 1..Len(s)
            /\ t[i] = s[At(i)] /\ t[j] = s[At(j)]
        BY <2>7
      <4>2. At(i) = At(j)
        BY <4>1, <3>1, <2>8 DEF IsInjective
      <4> QED
        BY <4>2
    <3> QED
      BY <3>1, <2>8 DEF IsInjective
  <2>10. ASSUME NEW x \in ToSet(t) PROVE x \in ToSet(s) \ {e}
    BY <2>1, <2>7, <2>8 DEF ToSet, IsInjective
  <2>11. ASSUME NEW x \in ToSet(s) \ {e} PROVE x \in ToSet(t)
    <3>1. PICK j \in 1..Len(s) : s[j] = x /\ j # k
      BY <2>1, <2>8 DEF ToSet
    <3>2. CASE j < k
      <4>1. j \in 1..(Len(s) - 1) /\ t[j] = x
        BY <3>1, <3>2, <2>7
      <4> QED
        BY <4>1, <2>8 DEF ToSet
    <3>3. CASE j > k
      <4>1. (j - 1) \in 1..(Len(s) - 1) /\ t[j - 1] = x
        BY <3>1, <3>3, <2>7
      <4> QED
        BY <4>1, <2>8 DEF ToSet
    <3> QED
      BY <3>1, <3>2, <3>3
  <2> QED
    BY <2>7, <2>9, <2>10, <2>11 DEF t
<1> QED
  BY <1>1, <1>2

\* What is left of an injective sequence behind position k (popleft, k times).
LEMMA SuffixFacts ==
  ASSUME NEW S, NEW s \in Seq(S), NEW k \in 0..Len(s), IsInjective(s)
  PROVE  LET t == SubSeq(s, k + 1, Len(s))
         IN  /\ t \in Seq(S)
             /\ IsInjective(t)
             /\ \A x : x \in ToSet(t) <=> \E j \in 1..Len(s) : j > k /\ s[j] = x
<1> DEFINE t == SubSeq(s, k + 1, Len(s))
<1>1. \A i \in (k + 1)..Len(s) : s[i] \in S
  BY ElementOfSeq
<1>2. /\ t \in Seq(S)
      /\ Len(t) = Len(s) - k
      /\ \A i \in 1..(Len(s) - k) : t[i] = s[k + i]
  BY <1>1, SubSeqProperties
<1> HIDE DEF t
<1>3. DOMAIN s = 1..Len(s) /\ DOMAIN t = 1..(Len(s) - k)
  BY <1>2
<1>4. IsInjective(t)
  <2>1. ASSUME NEW i \in 1..(Len(s) - k), NEW j \in 1..(Len(s) - k), t[i] = t[j]
        PROVE  i = j
    <3>1. (k + i) \in 1..Len(s) /\ (k + j) \in 1..Len(s) /\ s[k + i] = s[k + j]
      BY <2>1, <1>2
    <3>2. k + i = k + j
      BY <3>1, <1>3 DEF IsInjective
    <3> QED
      BY <3>2
  <2> QED
    BY <2>1, <1>3 DEF IsInjective
<1>5. ASSUME NEW x, x \in ToSet(t)
      PROVE  \E j \in 1..Len(s) : j > k /\ s[j] = x
  <2>1. PICK i \in 1..(Len(s) - k) : t[i] = x
    BY <1>5, <1>3 DEF ToSet
  <2>2. (k + i) \in 1..Len(s) /\ k + i > k /\ s[k + i] = x
    BY <2>1, <1>2
  <2> QED
    BY <2>2
<1>6. ASSUME NEW x, NEW j \in 1..Len(s), j > k, s[j] = x
      PROVE  x \in ToSet(t)
  <2>1. (j - k) \in 1..(Len(s) - k) /\ t[j - k] = x
    BY <1>6, <1>2
  <2> QED
    BY <2>1, <1>3 DEF ToSet
<1> QED
  BY <1>2, <1>4, <1>5, <1>6 DEF t

\* A newcomer at the end of an injective sequence (deque.append).
LEMMA AppendFacts ==
  ASSUME NEW S, NEW s \in Seq(S), NEW e \in S, IsInjective(s), e \notin ToSet(s)
  PROVE  /\ Append(s, e) \in Seq(S)
         /\ IsInjective(Append(s, e))
         /\ ToSet(Append(s, e)) = ToSet(s) \union {e}
<1> DEFINE t == Append(s, e)
<1>1. /\ t \in Seq(S)
      /\ Len(t) = Len(s) + 1
      /\ \A i \in 1..Len(s) : t[i] = s[i]
      /\ t[Len(s) + 1] = e
  BY AppendProperties
<1> HIDE DEF t
<1>2. DOMAIN s = 1..Len(s) /\ DOMAIN t = 1..(Len(s) + 1)
  BY <1>1
<1>3. IsInjective(t)
  BY <1>1, <1>2 DEF IsInjective, ToSet
<1>4. ToSet(t) = ToSet(s) \union {e}
  BY <1>1, <1>2 DEF ToSet
<1> QED
  BY <1>1, <1>3, <1>4 DEF t

\* A non-empty set of positions has a first one.
LEMMA LeastPosition ==
  ASSUME NEW n \in Nat, NEW P \in SUBSET (1..n), NEW i \in P
  PROVE  \E k \in P : \A j \in P : k <= j
<1>1. P \subseteq Nat /\ P # {}
  OBVIOUS
<1> QED
  BY <1>1, LeastNatural

---------------------------------------------------------------------------
(* The inductive invariant.                                                *)

FutOwned == \A r \in Requests : fut[r] # "none" <=> serve[r] = "queued"

IdleIsClean == \A r \in Requests : call[r] = "idle" => serve[r] = "none"

\* The part that speaks of the slot pool.
PoolInv ==
    /\ SlotAccounting
    /\ QueueDepthExact
    /\ NoIdleSlotWhileWaiting
    /\ LineExact

IInv ==
    /\ TypeOK
    /\ FutOwned
    /\ IdleIsClean
    /\ PoolInv

LEMMA HoldersFinite ==
  /\ IsFiniteSet(Holders) /\ Cardinality(Holders) \in Nat
  /\ IsFiniteSet(Queued) /\ Cardinality(Queued) \in Nat
<1>1. Holders \in SUBSET Requests /\ Queued \in SUBSET Requests
  BY DEF Holders, Queued
<1> QED
  BY <1>1, FS_Subset, FS_CardinalityType, LimitsAssumption

LEMMA InitIInv == Init => IInv
<1> SUFFICES ASSUME Init PROVE IInv
  OBVIOUS
<1>1. TypeOK
  BY DEF Init, TypeOK, FutState, ServeState, RecvState, CallState, Interrupts
<1>2. FutOwned /\ IdleIsClean
  BY DEF Init, FutOwned, IdleIsClean
<1>3. Holders = {} /\ Queued = {}
  BY DEF Init, Holders, Holds, Queued
<1>4. SlotAccounting /\ QueueDepthExact /\ NoIdleSlotWhileWaiting
  BY <1>3, FS_EmptySet, LimitsAssumption
     DEF Init, SlotAccounting, QueueDepthExact, NoIdleSlotWhileWaiting
<1>5. LineExact
  BY DEF Init, LineExact, Waiting, IsInjective, ToSet
<1> QED
  BY <1>1, <1>2, <1>4, <1>5 DEF IInv, PoolInv

\* A step that changes neither the counters nor the deque keeps the pool
\* exact when it changes neither who holds a slot nor who queues, and makes
\* nobody newly wait.
LEMMA PoolFrame ==
  ASSUME IInv, UNCHANGED slotVars,
         Holders' = Holders, Queued' = Queued,
         \A q \in Requests : Waiting(q)' => Waiting(q)
  PROVE  PoolInv'
<1>1. SlotAccounting' /\ QueueDepthExact' /\ NoIdleSlotWhileWaiting'
  BY DEF IInv, PoolInv, slotVars, SlotAccounting, QueueDepthExact, NoIdleSlotWhileWaiting
<1>2. LineExact'
  BY DEF IInv, PoolInv, slotVars, LineExact
<1> QED
  BY <1>1, <1>2 DEF PoolInv

\* The holder r gives its slot back and ends: the slot is the next waiter's,
\* or free when nobody who can be woken is in line.
LEMMA ReleaseKeepsPool ==
  ASSUME IInv, NEW r \in Holders, NEW end \in {"done", "rejecting"},
         ReleaseSlot([fut EXCEPT ![r] = "none"]),
         serve' = [serve EXCEPT ![r] = end]
  PROVE  /\ PoolInv'
         /\ FutOwned'
         /\ inflight' \in Nat /\ queue_depth' \in Nat
         /\ waiters' \in Seq(Requests)
         /\ fut' \in [Requests -> FutState]
<1> DEFINE f == [fut EXCEPT ![r] = "none"]
<1>1. r \in Requests /\ Holds(r) /\ r \notin Queued
  BY DEF Holders, Queued, Holds
<1>2. /\ waiters \in Seq(Requests) /\ DOMAIN waiters = 1..Len(waiters)
      /\ \A i \in 1..Len(waiters) : waiters[i] \in Requests
      /\ fut \in [Requests -> FutState]
      /\ serve \in [Requests -> ServeState]
  BY ElementOfSeq DEF IInv, TypeOK
<1>3. /\ inflight = Cardinality(Holders) /\ inflight <= MaxInflight
      /\ queue_depth = Cardinality(Queued)
      /\ waiters # <<>> => inflight = MaxInflight
      /\ IsInjective(waiters)
      /\ \A q \in Requests : Waiting(q) => q \in ToSet(waiters)
      /\ ToSet(waiters) \subseteq Queued
      /\ \A q \in Requests : fut[q] # "none" <=> serve[q] = "queued"
  BY DEF IInv, PoolInv, FutOwned, SlotAccounting, QueueDepthExact,
         NoIdleSlotWhileWaiting, LineExact
<1>4. r \notin ToSet(waiters)
  BY <1>1, <1>3
<1>5. ReleaseSlot(f)
  OBVIOUS
<1>6. CASE Live(f) # {}
  <2> DEFINE k == FirstLive(f)
             h == waiters[k]
  <2>1. k \in Live(f) /\ \A j \in Live(f) : k <= j
    <3>1. Live(f) \subseteq 1..Len(waiters)
      BY <1>2 DEF Live
    <3>2. PICK i \in Live(f) : TRUE
      BY <1>6
    <3>3. Len(waiters) \in Nat
      BY <1>2
    <3> HIDE DEF f
    <3>4. \E i0 \in Live(f) : \A j \in Live(f) : i0 <= j
      BY <3>1, <3>2, <3>3, LeastPosition
    <3> QED
      BY <3>4 DEF FirstLive
  <2>2. k \in 1..Len(waiters) /\ h \in Requests /\ f[h] = "pending"
    BY <2>1, <1>2 DEF Live
  <2>3. /\ waiters' = SubSeq(waiters, k + 1, Len(waiters))
        /\ fut' = [f EXCEPT ![h] = "set"]
        /\ queue_depth' = queue_depth - 1
        /\ inflight' = inflight
    BY <1>5, <1>6 DEF ReleaseSlot
  <2> HIDE DEF k
  <2>4. /\ waiters' \in Seq(Requests)
        /\ IsInjective(waiters')
        /\ \A x : x \in ToSet(waiters')
                     <=> \E j \in 1..Len(waiters) : j > k /\ waiters[j] = x
    BY <2>2, <2>3, <1>2, <1>3, SuffixFacts
  <2>5. h # r /\ fut[h] = "pending" /\ serve[h] = "queued"
    BY <2>2, <1>1, <1>2, <1>3
  <2>6. h \in Queued /\ h \notin Holders
    BY <2>2, <2>5 DEF Queued, Holders, Holds
  <2>7. \A q \in Requests :
          /\ fut'[q] = IF q = h THEN "set" ELSE IF q = r THEN "none" ELSE fut[q]
          /\ serve'[q] = IF q = r THEN end ELSE serve[q]
    BY <2>2, <2>3, <2>5, <1>1, <1>2
  <2> HIDE DEF h
  <2>8. Holders' = (Holders \ {r}) \union {h}
    BY <2>7, <2>5, <2>2, <1>1 DEF Holders, Holds
  <2>9. Queued' = Queued \ {h}
    BY <2>7, <2>5, <2>2, <1>1 DEF Queued, Holds
  <2>10. Cardinality(Holders') = Cardinality(Holders)
    <3>1. /\ IsFiniteSet(Holders \ {r})
          /\ Cardinality(Holders \ {r}) = Cardinality(Holders) - 1
      BY HoldersFinite, FS_RemoveElement
    <3>2. Cardinality((Holders \ {r}) \union {h}) = Cardinality(Holders \ {r}) + 1
      BY <3>1, <2>6, FS_AddElement
    <3> QED
      BY <3>1, <3>2, <2>8, HoldersFinite
  <2>11. Cardinality(Queued') = Cardinality(Queued) - 1 /\ Cardinality(Queued') \in Nat
    BY <2>9, <2>6, HoldersFinite, FS_RemoveElement, FS_CardinalityType
  <2>12. ToSet(waiters') \subseteq Queued'
    <3>1. ASSUME NEW x \in ToSet(waiters') PROVE x \in ToSet(waiters) /\ x # h
      <4>1. PICK j \in 1..Len(waiters) : j > k /\ waiters[j] = x
        BY <3>1, <2>4
      <4>2. x \in ToSet(waiters)
        BY <4>1, <1>2 DEF ToSet
      <4>3. waiters[j] # waiters[k]
        BY <4>1, <2>2, <1>2, <1>3 DEF IsInjective
      <4> QED
        BY <4>1, <4>2, <4>3 DEF h
    <3> QED
      BY <3>1, <2>9, <1>3
  <2>13. ASSUME NEW q \in Requests, Waiting(q)' PROVE q \in ToSet(waiters')
    <3>1. q # h /\ q # r /\ fut[q] = "pending" /\ serve[q] = "queued"
      BY <2>13, <2>7, <2>5 DEF Waiting
    <3>2. PICK j \in 1..Len(waiters) : waiters[j] = q
      BY <3>1, <1>2, <1>3 DEF Waiting, ToSet
    <3>3. j \in Live(f)
      BY <3>1, <3>2, <1>2 DEF Live
    <3>4. j > k
      <4>1. j # k
        BY <3>1, <3>2 DEF h
      <4>2. k <= j
        BY <3>3, <2>1
      <4> QED
        BY <4>1, <4>2, <2>2
    <3> QED
      BY <3>2, <3>4, <2>4
  <2>14. PoolInv'
    <3>1. SlotAccounting' /\ QueueDepthExact'
      BY <2>3, <2>10, <2>11, <1>3 DEF SlotAccounting, QueueDepthExact
    <3>2. NoIdleSlotWhileWaiting'
      <4>1. waiters # <<>>
        BY <2>2
      <4> QED
        BY <4>1, <2>3, <1>3 DEF NoIdleSlotWhileWaiting
    <3>3. LineExact'
      BY <2>4, <2>12, <2>13 DEF LineExact
    <3> QED
      BY <3>1, <3>2, <3>3 DEF PoolInv
  <2>15. FutOwned'
    BY <2>7, <2>5, <1>3, <1>1 DEF FutOwned, Holds
  <2>16. inflight' \in Nat /\ queue_depth' \in Nat
    BY <2>3, <2>11, <1>3, HoldersFinite
  <2>17. fut' \in [Requests -> FutState]
    BY <2>3, <1>2 DEF FutState
  <2> QED
    BY <2>14, <2>15, <2>16, <2>17, <2>4
<1>7. CASE Live(f) = {}
  <2>1. /\ waiters' = <<>>
        /\ fut' = f
        /\ inflight' = inflight - 1
        /\ queue_depth' = queue_depth
    BY <1>5, <1>7 DEF ReleaseSlot
  <2>2. \A q \in Requests :
          /\ fut'[q] = IF q = r THEN "none" ELSE fut[q]
          /\ serve'[q] = IF q = r THEN end ELSE serve[q]
    BY <2>1, <1>1, <1>2
  <2>3. Holders' = Holders \ {r}
    BY <2>2, <1>1 DEF Holders, Holds
  <2>4. Queued' = Queued
    BY <2>2, <1>1 DEF Queued, Holds
  <2>5. /\ Cardinality(Holders') = Cardinality(Holders) - 1
        /\ Cardinality(Holders') \in Nat
    BY <2>3, HoldersFinite, FS_RemoveElement, FS_CardinalityType
  <2>6. ASSUME NEW q \in Requests, Waiting(q)' PROVE FALSE
    <3>1. q # r /\ fut[q] = "pending" /\ serve[q] = "queued"
      BY <2>6, <2>2 DEF Waiting
    <3>2. PICK j \in 1..Len(waiters) : waiters[j] = q
      BY <3>1, <1>2, <1>3 DEF Waiting, ToSet
    <3>3. j \in Live(f)
      BY <3>1, <3>2, <1>2 DEF Live
    <3> QED
      BY <3>3, <1>7
  <2>7. IsInjective(waiters') /\ ToSet(waiters') = {}
    BY <2>1 DEF IsInjective, ToSet
  <2>8. PoolInv'
    <3>1. SlotAccounting' /\ QueueDepthExact'
      BY <2>1, <2>4, <2>5, <1>3, HoldersFinite, LimitsAssumption
         DEF SlotAccounting, QueueDepthExact
    <3>2. NoIdleSlotWhileWaiting' /\ LineExact'
      BY <2>1, <2>6, <2>7 DEF NoIdleSlotWhileWaiting, LineExact
    <3> QED
      BY <3>1, <3>2 DEF PoolInv
  <2>9. FutOwned'
    BY <2>2, <1>3 DEF FutOwned
  <2>10. inflight' \in Nat /\ queue_depth' \in Nat
    BY <2>1, <2>5, <1>3, HoldersFinite
  <2>11. fut' \in [Requests -> FutState]
    BY <2>1, <1>2 DEF FutState
  <2>12. waiters' \in Seq(Requests)
    BY <2>1, EmptySeq
  <2> QED
    BY <2>8, <2>9, <2>10, <2>11, <2>12
<1> QED
  BY <1>6, <1>7

\* A waiter that resumes with an exception is neither counted nor in line
\* afterwards, whether or not a slot had reached it.
LEMMA GiveUpKeepsPool ==
  ASSUME IInv, NEW r \in Requests, NEW end \in {"done", "rejecting"},
         serve[r] = "queued", GiveUpQueueing(r),
         serve' = [serve EXCEPT ![r] = end]
  PROVE  /\ PoolInv'
         /\ FutOwned'
         /\ inflight' \in Nat /\ queue_depth' \in Nat
         /\ waiters' \in Seq(Requests)
         /\ fut' \in [Requests -> FutState]
<1>1. CASE fut[r] = "set" /\ ReleaseSlot([fut EXCEPT ![r] = "none"])
  <2>1. r \in Holders
    BY <1>1 DEF Holders, Holds
  <2> QED
    BY <1>1, <2>1, ReleaseKeepsPool
<1>2. CASE /\ fut[r] # "set"
           /\ waiters' = RemoveFirst(waiters, r)
           /\ fut' = [fut EXCEPT ![r] = "none"]
           /\ queue_depth' = queue_depth - 1
           /\ inflight' = inflight
  <2>1. /\ waiters \in Seq(Requests) /\ inflight \in Nat
        /\ fut \in [Requests -> FutState] /\ serve \in [Requests -> ServeState]
    BY DEF IInv, TypeOK
  <2>2. /\ inflight = Cardinality(Holders) /\ inflight <= MaxInflight
        /\ queue_depth = Cardinality(Queued)
        /\ waiters # <<>> => inflight = MaxInflight
        /\ IsInjective(waiters)
        /\ \A q \in Requests : Waiting(q) => q \in ToSet(waiters)
        /\ ToSet(waiters) \subseteq Queued
        /\ \A q \in Requests : fut[q] # "none" <=> serve[q] = "queued"
    BY DEF IInv, PoolInv, FutOwned, SlotAccounting, QueueDepthExact,
           NoIdleSlotWhileWaiting, LineExact
  <2>3. /\ waiters' \in Seq(Requests)
        /\ IsInjective(waiters')
        /\ ToSet(waiters') = ToSet(waiters) \ {r}
    BY <1>2, <2>1, <2>2, RemoveFirstFacts
  <2>4. \A q \in Requests :
          /\ fut'[q] = IF q = r THEN "none" ELSE fut[q]
          /\ serve'[q] = IF q = r THEN end ELSE serve[q]
    BY <1>2, <2>1
  <2>5. Holders' = Holders
    BY <2>4, <1>2 DEF Holders, Holds
  <2>6. Queued' = Queued \ {r} /\ r \in Queued
    BY <2>4, <1>2 DEF Queued
  <2>7. Cardinality(Queued') = Cardinality(Queued) - 1 /\ Cardinality(Queued') \in Nat
    BY <2>6, HoldersFinite, FS_RemoveElement, FS_CardinalityType
  <2>8. SlotAccounting' /\ QueueDepthExact'
    BY <1>2, <2>2, <2>5, <2>7 DEF SlotAccounting, QueueDepthExact
  <2>9. NoIdleSlotWhileWaiting'
    <3>1. waiters = <<>> => waiters' = <<>>
      BY <1>2 DEF RemoveFirst
    <3> QED
      BY <1>2, <2>2, <3>1 DEF NoIdleSlotWhileWaiting
  <2>10. LineExact'
    <3>1. ASSUME NEW q \in Requests, Waiting(q)' PROVE q \in ToSet(waiters')
      <4>1. q # r /\ fut[q] = "pending" /\ serve[q] = "queued"
        BY <3>1, <2>4 DEF Waiting
      <4> QED
        BY <4>1, <2>2, <2>3 DEF Waiting
    <3> QED
      BY <2>2, <2>3, <2>6, <3>1 DEF LineExact
  <2>11. FutOwned'
    BY <2>2, <2>4 DEF FutOwned
  <2> QED
    BY <1>2, <2>1, <2>2, <2>3, <2>7, <2>8, <2>9, <2>10, <2>11 DEF PoolInv, FutState
<1> QED
  BY <1>1, <1>2 DEF GiveUpQueueing

\* The first step of _serve: a slot, or a place at the end of the line.
LEMMA AcquireKeepsPool ==
  ASSUME IInv, NEW r \in Requests, AcquireSlot(r)
  PROVE  /\ PoolInv'
         /\ FutOwned'
         /\ inflight' \in Nat /\ queue_depth' \in Nat
         /\ waiters' \in Seq(Requests)
         /\ fut' \in [Requests -> FutState]
         /\ serve' \in [Requests -> ServeState]
<1>1. /\ waiters \in Seq(Requests) /\ inflight \in Nat /\ queue_depth \in Nat
      /\ fut \in [Requests -> FutState] /\ serve \in [Requests -> ServeState]
  BY DEF IInv, TypeOK
<1>2. /\ inflight = Cardinality(Holders) /\ inflight <= MaxInflight
      /\ queue_depth = Cardinality(Queued)
      /\ waiters # <<>> => inflight = MaxInflight
      /\ IsInjective(waiters)
      /\ \A q \in Requests : Waiting(q) => q \in ToSet(waiters)
      /\ ToSet(waiters) \subseteq Queued
      /\ \A q \in Requests : fut[q] # "none" <=> serve[q] = "queued"
  BY DEF IInv, PoolInv, FutOwned, SlotAccounting, QueueDepthExact,
         NoIdleSlotWhileWaiting, LineExact
<1>3. serve[r] = "created" /\ fut[r] = "none" /\ r \notin Holders /\ r \notin Queued
  BY <1>1, <1>2 DEF AcquireSlot, FutState, Holders, Holds, Queued
<1>4. CASE /\ FreeSlot
           /\ inflight' = inflight + 1
           /\ serve' = [serve EXCEPT ![r] = "body"]
           /\ UNCHANGED <<queue_depth, waiters, fut>>
  <2>1. \A q \in Requests : serve'[q] = IF q = r THEN "body" ELSE serve[q]
    BY <1>4, <1>1
  <2>2. Holders' = Holders \union {r}
    BY <2>1, <1>3, <1>4 DEF Holders, Holds
  <2>3. Queued' = Queued
    BY <2>1, <1>3, <1>4 DEF Queued
  <2>4. Cardinality(Holders') = Cardinality(Holders) + 1
    BY <2>2, <1>3, HoldersFinite, FS_AddElement
  <2>5. SlotAccounting' /\ QueueDepthExact'
    BY <1>1, <1>2, <1>4, <2>3, <2>4, LimitsAssumption
       DEF FreeSlot, SlotAccounting, QueueDepthExact
  <2>6. NoIdleSlotWhileWaiting'
    BY <1>4 DEF FreeSlot, NoIdleSlotWhileWaiting
  <2>7. LineExact'
    <3>1. \A q \in Requests : Waiting(q)' => Waiting(q)
      BY <2>1, <1>4 DEF Waiting
    <3> QED
      BY <3>1, <2>3, <1>2, <1>4 DEF LineExact
  <2>8. FutOwned'
    BY <2>1, <1>2, <1>3, <1>4 DEF FutOwned
  <2> QED
    BY <1>1, <1>4, <2>5, <2>6, <2>7, <2>8 DEF PoolInv, ServeState
<1>5. CASE /\ ~FreeSlot
           /\ waiters' = Append(waiters, r)
           /\ fut' = [fut EXCEPT ![r] = "pending"]
           /\ queue_depth' = queue_depth + 1
           /\ serve' = [serve EXCEPT ![r] = "queued"]
           /\ inflight' = inflight
  <2>1. \A q \in Requests :
          /\ fut'[q] = IF q = r THEN "pending" ELSE fut[q]
          /\ serve'[q] = IF q = r THEN "queued" ELSE serve[q]
    BY <1>5, <1>1
  <2>2. Holders' = Holders
    BY <2>1, <1>3 DEF Holders, Holds
  <2>3. Queued' = Queued \union {r}
    BY <2>1, <1>3 DEF Queued
  <2>4. Cardinality(Queued') = Cardinality(Queued) + 1
    BY <2>3, <1>3, HoldersFinite, FS_AddElement
  <2>5. SlotAccounting' /\ QueueDepthExact'
    BY <1>2, <1>5, <2>2, <2>4 DEF SlotAccounting, QueueDepthExact
  <2>6. NoIdleSlotWhileWaiting'
    BY <1>1, <1>2, <1>5, LimitsAssumption DEF FreeSlot, NoIdleSlotWhileWaiting
  <2>7. /\ waiters' \in Seq(Requests)
        /\ IsInjective(waiters')
        /\ ToSet(waiters') = ToSet(waiters) \union {r}
    BY <1>1, <1>2, <1>3, <1>5, AppendFacts
  <2>8. LineExact'
    <3>1. ASSUME NEW q \in Requests, Waiting(q)' PROVE q = r \/ Waiting(q)
      BY <3>1, <2>1 DEF Waiting
    <3> QED
      BY <3>1, <2>3, <2>7, <1>2 DEF LineExact
  <2>9. FutOwned'
    BY <2>1, <1>2 DEF FutOwned
  <2> QED
    BY <1>1, <1>5, <2>5, <2>6, <2>7, <2>8, <2>9 DEF PoolInv, ServeState, FutState
<1> QED
  BY <1>4, <1>5 DEF AcquireSlot

\* task.cancel() touches a pending future only: nobody gains or loses a slot.
\* A response that begins is one more of its kind.
LEMMA BeginAdds ==
  ASSUME TypeOK, NEW r \in Requests, NEW what \in Answers, Begin(r, what)
  PROVE  /\ answers' \in [Requests -> Seq(Answers)]
         /\ \A q \in Requests : answers'[q] = IF q = r THEN Append(answers[r], what) ELSE answers[q]
<1>1. answers \in [Requests -> Seq(Answers)] /\ Append(answers[r], what) \in Seq(Answers)
  <2>1. answers \in [Requests -> Seq(Answers)]
    BY DEF TypeOK
  <2> QED
    BY <2>1
<1> QED
  BY <1>1 DEF Begin

LEMMA InterruptKeepsPool ==
  ASSUME IInv, NEW r \in Requests, NEW why \in {"timeout", "cancel"},
         Interrupt(r, why), UNCHANGED <<slotVars, serve>>
  PROVE  /\ PoolInv'
         /\ FutOwned'
         /\ fut' \in [Requests -> FutState]
         /\ interrupt' \in [Requests -> Interrupts]
<1>1. /\ fut \in [Requests -> FutState]
      /\ interrupt \in [Requests -> Interrupts]
  BY DEF IInv, TypeOK
<1>2. /\ \A q \in Requests : fut'[q] = IF q = r /\ fut[q] = "pending" THEN "cancelled" ELSE fut[q]
      /\ fut' \in [Requests -> FutState]
      /\ interrupt' \in [Requests -> Interrupts]
  BY <1>1 DEF Interrupt, Interrupts, FutState
<1>3. Holders' = Holders /\ Queued' = Queued
  BY <1>2 DEF Holders, Holds, Queued
<1>4. \A q \in Requests : Waiting(q)' => Waiting(q)
  BY <1>2 DEF Waiting
<1>5. PoolInv'
  BY <1>3, <1>4, PoolFrame
<1>6. FutOwned'
  BY <1>2 DEF IInv, FutOwned
<1> QED
  BY <1>2, <1>5, <1>6

---------------------------------------------------------------------------
(* Every step preserves the invariant.                                     *)

LEMMA NextIInv == IInv /\ [Next]_vars => IInv'
<1> SUFFICES ASSUME IInv, [Next]_vars PROVE IInv'
  OBVIOUS
<1> USE DEF slotVars
<1>1. CASE UNCHANGED vars
  <2>1. Holders' = Holders /\ Queued' = Queued /\ \A q \in Requests : Waiting(q)' => Waiting(q)
    BY <1>1 DEF vars, Holders, Holds, Queued, Waiting
  <2>2. PoolInv'
    BY <1>1, <2>1, PoolFrame DEF vars
  <2> QED
    BY <1>1, <2>2 DEF vars, IInv, TypeOK, FutOwned, IdleIsClean
<1>2. ASSUME NEW r \in Requests,
             \/ Serve(r)
             \/ QueueTimeout(r)
             \/ Receive(r)
             \/ Call(r)
             \/ CallStep(r)
             \/ CancelCall(r)
      PROVE  IInv'
  <2> DEFINE Frame ==
        /\ Holders' = Holders
        /\ Queued' = Queued
        /\ \A q \in Requests : Waiting(q)' => Waiting(q)
  <2>0. /\ TypeOK /\ FutOwned /\ IdleIsClean
        /\ serve \in [Requests -> ServeState]
        /\ fut \in [Requests -> FutState]
    BY DEF IInv, TypeOK
  <2>1. CASE AcquireSlot(r)
    <3>1. TypeOK' /\ FutOwned' /\ PoolInv'
      BY <2>0, <2>1, AcquireKeepsPool DEF AcquireSlot, TypeOK
    <3>2. IdleIsClean'
      BY <2>0, <2>1 DEF AcquireSlot, IdleIsClean, TypeOK
    <3> QED
      BY <3>1, <3>2 DEF IInv
  <2>2. CASE WakeWithSlot(r)
    <3>1. Frame
      BY <2>0, <2>2 DEF WakeWithSlot, Holders, Holds, Queued, Waiting
    <3>2. PoolInv'
      BY <2>2, <3>1, PoolFrame DEF WakeWithSlot
    <3>3. TypeOK' /\ FutOwned' /\ IdleIsClean'
      BY <2>0, <2>2 DEF WakeWithSlot, TypeOK, FutOwned, IdleIsClean, FutState, ServeState
    <3> QED
      BY <3>2, <3>3 DEF IInv
  <2>3. CASE WakeCancelled(r)
    <3>1. /\ PoolInv' /\ FutOwned'
          /\ inflight' \in Nat /\ queue_depth' \in Nat
          /\ waiters' \in Seq(Requests) /\ fut' \in [Requests -> FutState]
      BY <2>3, GiveUpKeepsPool DEF WakeCancelled
    <3>2. TypeOK' /\ IdleIsClean'
      BY <2>0, <2>3, <3>1 DEF WakeCancelled, TypeOK, IdleIsClean, ServeState, Interrupts
    <3> QED
      BY <3>1, <3>2 DEF IInv
  <2>4. CASE WakeTimedOut(r)
    <3>1. /\ PoolInv' /\ FutOwned'
          /\ inflight' \in Nat /\ queue_depth' \in Nat
          /\ waiters' \in Seq(Requests) /\ fut' \in [Requests -> FutState]
      BY <2>4, GiveUpKeepsPool DEF WakeTimedOut
    <3>0. answers' \in [Requests -> Seq(Answers)]
      BY <2>0, <2>4, BeginAdds DEF WakeTimedOut, Answers
    <3>2. serve' \in [Requests -> ServeState] /\ interrupt' \in [Requests -> Interrupts]
      BY <2>0, <2>4 DEF WakeTimedOut, TypeOK, ServeState, Interrupts
    <3>3. TypeOK'
      BY <2>0, <2>4, <3>0, <3>1, <3>2 DEF WakeTimedOut, TypeOK
    <3>4. IdleIsClean'
      BY <2>0, <2>4 DEF WakeTimedOut, IdleIsClean
    <3> QED
      BY <3>1, <3>3, <3>4 DEF IInv
  <2>5. CASE EndReject429(r)
    <3>1. Frame
      BY <2>0, <2>5 DEF EndReject429, Holders, Holds, Queued, Waiting
    <3>2. PoolInv'
      BY <2>5, <3>1, PoolFrame DEF EndReject429
    <3>3. TypeOK' /\ FutOwned' /\ IdleIsClean'
      BY <2>0, <2>5 DEF EndReject429, TypeOK, FutOwned, IdleIsClean, ServeState, Interrupts
    <3> QED
      BY <3>2, <3>3 DEF IInv
  <2>6. CASE EnterApp(r)
    <3>1. Frame
      BY <2>0, <2>6 DEF EnterApp, Holders, Holds, Queued, Waiting
    <3>2. PoolInv'
      BY <2>6, <3>1, PoolFrame DEF EnterApp
    <3>3. TypeOK' /\ FutOwned' /\ IdleIsClean'
      BY <2>0, <2>6 DEF EnterApp, TypeOK, FutOwned, IdleIsClean, ServeState
    <3> QED
      BY <3>2, <3>3 DEF IInv
  <2>7. CASE LeaveWithSlot(r)
    <3>1. fut = [fut EXCEPT ![r] = "none"]
      BY <2>0, <2>7 DEF LeaveWithSlot, FutOwned
    <3>2. r \in Holders
      BY <2>7 DEF LeaveWithSlot, Holders, Holds
    <3>3. ReleaseSlot([fut EXCEPT ![r] = "none"]) /\ serve' = [serve EXCEPT ![r] = "done"]
      BY <3>1, <2>7 DEF LeaveWithSlot
    <3>4. /\ PoolInv' /\ FutOwned'
          /\ inflight' \in Nat /\ queue_depth' \in Nat
          /\ waiters' \in Seq(Requests) /\ fut' \in [Requests -> FutState]
      BY <3>2, <3>3, ReleaseKeepsPool
    <3>5. TypeOK' /\ IdleIsClean'
      BY <2>0, <2>7, <3>4 DEF LeaveWithSlot, TypeOK, IdleIsClean, ServeState, Interrupts
    <3> QED
      BY <3>4, <3>5 DEF IInv
  <2>8. CASE AppResponds(r)
    <3>1. Frame
      BY <2>8 DEF AppResponds, Holders, Holds, Queued, Waiting
    <3>2. PoolInv'
      BY <2>8, <3>1, PoolFrame DEF AppResponds
    <3>0. answers' \in [Requests -> Seq(Answers)]
      BY <2>0, <2>8, BeginAdds DEF AppResponds, Answers
    <3>3. TypeOK' /\ FutOwned' /\ IdleIsClean'
      BY <2>0, <2>8, <3>0 DEF AppResponds, TypeOK, FutOwned, IdleIsClean
    <3> QED
      BY <3>2, <3>3 DEF IInv
  <2>9. CASE QueueTimeout(r)
    <3>1. /\ PoolInv' /\ FutOwned' /\ fut' \in [Requests -> FutState]
          /\ interrupt' \in [Requests -> Interrupts]
      BY <2>9, InterruptKeepsPool DEF QueueTimeout
    <3>2. TypeOK' /\ IdleIsClean'
      BY <2>0, <2>9, <3>1 DEF QueueTimeout, TypeOK, IdleIsClean
    <3> QED
      BY <3>1, <3>2 DEF IInv
  <2>10. CASE Receive(r)
    <3>1. UNCHANGED <<slotVars, fut, serve>>
      BY <2>10 DEF Receive, BodyComplete, BodyInvalid, Disconnect
    <3>2. Frame
      BY <3>1 DEF Holders, Holds, Queued, Waiting
    <3>3. PoolInv'
      BY <3>1, <3>2, PoolFrame
    <3>4. TypeOK' /\ FutOwned' /\ IdleIsClean'
      BY <2>0, <2>10 DEF Receive, BodyComplete, BodyInvalid, Disconnect,
                         TypeOK, FutOwned, IdleIsClean, RecvState
    <3> QED
      BY <3>3, <3>4 DEF IInv
  <2>11. CASE Call(r)
    <3>1. serve[r] = "none"
      BY <2>0, <2>11 DEF Call, IdleIsClean
    <3>2. Frame
      BY <2>0, <2>11, <3>1 DEF Call, Holders, Holds, Queued, Waiting
    <3>3. PoolInv'
      BY <2>11, <3>2, PoolFrame DEF Call
    <3>4. TypeOK' /\ FutOwned' /\ IdleIsClean'
      BY <2>0, <2>11, <3>1 DEF Call, TypeOK, FutOwned, IdleIsClean, ServeState,
                               RecvState, CallState
    <3> QED
      BY <3>3, <3>4 DEF IInv
  <2>12. CASE ServeFirst(r) \/ Return(r)
    <3>1. serve[r] = "done" /\ Forget(r)
      BY <2>12 DEF ServeFirst, Return
    <3>2. Frame
      BY <2>0, <3>1 DEF Forget, Holders, Holds, Queued, Waiting
    <3>3. PoolInv'
      BY <3>1, <3>2, PoolFrame DEF Forget
    <3>4. TypeOK' /\ FutOwned' /\ IdleIsClean'
      BY <2>0, <3>1 DEF Forget, TypeOK, FutOwned, IdleIsClean, ServeState,
                        RecvState, CallState, Interrupts
    <3> QED
      BY <3>3, <3>4 DEF IInv
  <2>13. CASE ReceiveFirst(r) \/ CancelCall(r)
    <3>1. Interrupt(r, "cancel") /\ UNCHANGED <<slotVars, serve>>
      BY <2>13 DEF ReceiveFirst, CancelCall
    <3>2. /\ PoolInv' /\ FutOwned' /\ fut' \in [Requests -> FutState]
          /\ interrupt' \in [Requests -> Interrupts]
      BY <3>1, InterruptKeepsPool
    <3>3. TypeOK'
      BY <2>0, <2>13, <3>2 DEF ReceiveFirst, CancelCall, TypeOK, RecvState, CallState
    <3>4. IdleIsClean'
      BY <2>0, <2>13 DEF ReceiveFirst, CancelCall, TypeOK, IdleIsClean
    <3> QED
      BY <3>2, <3>3, <3>4 DEF IInv
  <2>14. CASE AfterGather(r)
    <3>1. Frame
      BY <2>14 DEF AfterGather, Holders, Holds, Queued, Waiting
    <3>2. PoolInv'
      BY <2>14, <3>1, PoolFrame DEF AfterGather
    <3>0. answers' \in [Requests -> Seq(Answers)]
      BY <2>0, <2>14, BeginAdds DEF AfterGather, Answers, TypeOK
    <3>3. TypeOK' /\ FutOwned' /\ IdleIsClean'
      BY <2>0, <2>14, <3>0 DEF AfterGather, TypeOK, FutOwned, IdleIsClean, RecvState, CallState
    <3> QED
      BY <3>2, <3>3 DEF IInv
  <2> QED
    BY <1>2, <2>1, <2>2, <2>3, <2>4, <2>5, <2>6, <2>7, <2>8, <2>9, <2>10, <2>11,
       <2>12, <2>13, <2>14 DEF Serve, CallStep
<1> QED
  BY <1>1, <1>2 DEF Next

\* IInv holds in every state of the middleware.
THEOREM SpecIInv == Spec => []IInv
<1> QED
  BY InitIInv, NextIInv, PTL DEF Spec

\* Every variable keeps its type; in particular neither counter is negative.
THEOREM SpecTypeOK == Spec => []TypeOK
<1>1. IInv => TypeOK
  BY DEF IInv
<1> QED
  BY <1>1, SpecIInv, PTL

\* For any number of connections and any capacity: inflight counts exactly
\* the owners of a slot and never exceeds the capacity.
THEOREM SlotsNeverLeak == Spec => []SlotAccounting
<1>1. IInv => SlotAccounting
  BY DEF IInv, PoolInv
<1> QED
  BY <1>1, SpecIInv, PTL

\* The reported queue depth is the number of requests that wait.
THEOREM QueueDepthIsExact == Spec => []QueueDepthExact
<1>1. IInv => QueueDepthExact
  BY DEF IInv, PoolInv
<1> QED
  BY <1>1, SpecIInv, PTL

\* No wake-up is lost: somebody in line means every slot is taken.
THEOREM NoLostWakeup == Spec => []NoIdleSlotWhileWaiting
<1>1. IInv => NoIdleSlotWhileWaiting
  BY DEF IInv, PoolInv
<1> QED
  BY <1>1, SpecIInv, PTL

\* Who can be woken stands in line exactly once, and nobody else does.
THEOREM LineIsExact == Spec => []LineExact
<1>1. IInv => LineExact
  BY DEF IInv, PoolInv
<1> QED
  BY <1>1, SpecIInv, PTL

---------------------------------------------------------------------------
(* First come, first served.                                               *)

\* A slot that is given back goes past nobody: r does not get it while q,
\* further ahead, can still be woken.
LEMMA ReleaseInOrder ==
  ASSUME IInv, NEW p \in Requests, Holds(p), NEW end \in {"done", "rejecting"},
         ReleaseSlot([fut EXCEPT ![p] = "none"]),
         serve' = [serve EXCEPT ![p] = end],
         NEW q \in Requests, NEW r \in Requests,
         Waiting(q), Before(q, r), ~Holds(r), Holds(r)'
  PROVE  FALSE
<1> DEFINE f == [fut EXCEPT ![p] = "none"]
<1>1. /\ waiters \in Seq(Requests) /\ DOMAIN waiters = 1..Len(waiters)
      /\ Len(waiters) \in Nat
      /\ fut \in [Requests -> FutState] /\ serve \in [Requests -> ServeState]
  BY DEF IInv, TypeOK
<1>2. q # p /\ r # p /\ f[q] = "pending"
  BY <1>1 DEF Waiting, Holds
<1>3. serve'[r] = serve[r]
  BY <1>1, <1>2
<1>4. fut'[r] = "set" /\ fut[r] # "set"
  BY <1>3 DEF Holds
<1>5. PICK i \in 1..Len(waiters) :
        waiters[i] = q /\ \A j \in 1..Len(waiters) : waiters[j] = r => i < j
  BY <1>1 DEF Before
<1>6. i \in Live(f)
  BY <1>5, <1>2, <1>1 DEF Live
<1>7. /\ FirstLive(f) \in Live(f) /\ \A j \in Live(f) : FirstLive(f) <= j
  <2>1. Live(f) \in SUBSET (1..Len(waiters))
    BY <1>1 DEF Live
  <2> HIDE DEF f
  <2>2. \E k \in Live(f) : \A j \in Live(f) : k <= j
    BY <1>1, <1>6, <2>1, LeastPosition
  <2> QED
    BY <2>2 DEF FirstLive
<1>8. FirstLive(f) \in 1..Len(waiters)
  BY <1>1, <1>7 DEF Live
<1>9. fut' = [f EXCEPT ![waiters[FirstLive(f)]] = "set"]
  BY <1>6 DEF ReleaseSlot
<1>10. waiters[FirstLive(f)] = r
  <2>1. f[r] # "set"
    BY <1>1, <1>2, <1>4
  <2> QED
    BY <1>1, <1>4, <1>9, <2>1
<1> HIDE DEF f
<1>11. FirstLive(f) <= i /\ i < FirstLive(f)
  BY <1>5, <1>6, <1>7, <1>8, <1>10
<1> QED
  BY <1>11, <1>8

\* In one step, no request obtains a slot while another that has queued longer
\* can still be woken, whatever the number of connections.
THEOREM FirstComeFirstServed == Spec => NoOvertaking
<1> DEFINE Ordered ==
      \A q, r \in Requests :
        (Waiting(q) /\ Before(q, r) /\ ~Holds(r) /\ Holds(r)') => ~Waiting(q)'
<1>1. IInv /\ [Next]_vars => Ordered
  <2> SUFFICES ASSUME IInv, [Next]_vars,
                      NEW q \in Requests, NEW r \in Requests,
                      Waiting(q), Before(q, r), ~Holds(r), Holds(r)'
               PROVE  FALSE
    OBVIOUS
  <2>1. /\ fut \in [Requests -> FutState] /\ serve \in [Requests -> ServeState]
        /\ waiters # <<>>
    BY DEF IInv, TypeOK, Before
  <2>2. CASE UNCHANGED vars
    BY <2>2 DEF vars, Holds
  <2>3. ASSUME NEW p \in Requests,
               \/ Serve(p)
               \/ QueueTimeout(p)
               \/ Receive(p)
               \/ Call(p)
               \/ CallStep(p)
               \/ CancelCall(p)
        PROVE  FALSE
    <3>1. CASE AcquireSlot(p)
      BY <2>1, <3>1 DEF AcquireSlot, FreeSlot, Holds
    <3>2. CASE WakeWithSlot(p)
      BY <2>1, <3>2 DEF WakeWithSlot, Holds
    <3>3. CASE /\ serve[p] = "queued"
               /\ GiveUpQueueing(p)
               /\ \E end \in {"done", "rejecting"} : serve' = [serve EXCEPT ![p] = end]
      <4>1. PICK end \in {"done", "rejecting"} : serve' = [serve EXCEPT ![p] = end]
        BY <3>3
      <4>2. CASE fut[p] = "set" /\ ReleaseSlot([fut EXCEPT ![p] = "none"])
        <5>1. Holds(p)
          BY <3>3, <4>2 DEF Holds
        <5> QED
          BY <4>1, <4>2, <5>1, ReleaseInOrder
      <4>3. CASE fut' = [fut EXCEPT ![p] = "none"]
        BY <2>1, <4>1, <4>3 DEF Holds
      <4> QED
        BY <3>3, <4>2, <4>3 DEF GiveUpQueueing
    <3>4. CASE WakeCancelled(p) \/ WakeTimedOut(p)
      BY <3>3, <3>4 DEF WakeCancelled, WakeTimedOut
    <3>5. CASE EndReject429(p) \/ EnterApp(p) \/ AppResponds(p)
      BY <2>1, <3>5 DEF EndReject429, EnterApp, AppResponds, Holds
    <3>6. CASE LeaveWithSlot(p)
      <4>1. fut = [fut EXCEPT ![p] = "none"] /\ Holds(p)
        BY <2>1, <3>6 DEF LeaveWithSlot, IInv, FutOwned, Holds
      <4>2. /\ ReleaseSlot([fut EXCEPT ![p] = "none"])
            /\ serve' = [serve EXCEPT ![p] = "done"]
        BY <3>6, <4>1 DEF LeaveWithSlot
      <4> QED
        BY <4>1, <4>2, ReleaseInOrder
    <3>7. CASE QueueTimeout(p) \/ ReceiveFirst(p) \/ CancelCall(p)
      BY <2>1, <3>7 DEF QueueTimeout, ReceiveFirst, CancelCall, Interrupt, Holds
    <3>8. CASE Receive(p) \/ AfterGather(p)
      BY <3>8 DEF Receive, BodyComplete, BodyInvalid, Disconnect, AfterGather, Holds
    <3>9. CASE Call(p)
      BY <2>1, <3>9 DEF Call, Holds
    <3>10. CASE ServeFirst(p) \/ Return(p)
      BY <2>1, <3>10 DEF ServeFirst, Return, Forget, Holds
    <3> QED
      BY <2>3, <3>1, <3>2, <3>4, <3>5, <3>6, <3>7, <3>8, <3>9, <3>10
         DEF Serve, CallStep
  <2> QED
    BY <2>2, <2>3 DEF Next
<1>2. Spec => [][Ordered]_vars
  BY <1>1, SpecIInv, PTL DEF Spec
<1> QED
  BY <1>2 DEF NoOvertaking

---------------------------------------------------------------------------
(* One answer per request.                                                 *)

\* Why only a 429 meets a second answer: a task that waits or holds a slot has
\* answered nothing, the application is entered with a whole body only, and a
\* task that __call__ has cancelled for an invalid one can end, but not answer;
\* the 413 or 400 is the last thing that __call__ does.
AnswerInv(r) ==
    /\ serve[r] = "none" => call[r] = "idle" /\ recv[r] = "none" /\ ~bodyReady[r]
    /\ serve[r] \in {"none", "created", "queued", "body"} => answers[r] = <<>>
    /\ serve[r] = "app" => bodyReady[r] /\ answers[r] \in {<<>>, <<"app">>}
    /\ serve[r] = "rejecting" => answers[r] = <<"busy">>
    /\ bodyReady[r] => recv[r] \in {"watching", "disconnect", "cancelled"}
    /\ recv[r] \in {"reading", "error"} => answers[r] \in {<<>>, <<"busy">>}
    /\ call[r] = "gathering" =>
          /\ recv[r] \in {"disconnect", "error"}
          /\ serve[r] # "done" => interrupt[r] = "cancel"
    /\ answers[r] \in {<<>>, <<"busy">>, <<"app">>, <<"invalid">>, <<"busy", "invalid">>}
    /\ answers[r] \in {<<"invalid">>, <<"busy", "invalid">>} => serve[r] = "done" /\ call[r] = "closing"

\* A step that does not touch the tasks of r does not touch what was answered.
Untouched(r) ==
    /\ serve'[r] = serve[r] /\ recv'[r] = recv[r] /\ call'[r] = call[r]
    /\ interrupt'[r] = interrupt[r] /\ bodyReady'[r] = bodyReady[r]
    /\ answers'[r] = answers[r]

\* The sequences of answers that occur.
LEMMA PairOfAnswers ==
  ASSUME NEW a \in Answers, NEW b \in Answers
  PROVE  Append(<<a>>, b) = <<a, b>>
<1> DEFINE s == Append(<<a>>, b)
<1>1. s \in Seq(Answers) /\ <<a, b>> \in Seq(Answers)
  OBVIOUS
<1>2. Len(s) = 2 /\ s[1] = a /\ s[2] = b
  OBVIOUS
<1>3. Len(<<a, b>>) = 2 /\ \A i \in 1..2 : s[i] = <<a, b>>[i]
  BY <1>2
<1> HIDE DEF s
<1>4. s = <<a, b>>
  BY <1>1, <1>2, <1>3, SeqEqual
<1> QED
  BY <1>4 DEF s

LEMMA AnswerShapes ==
  /\ \A what \in Answers :
        /\ Append(<<>>, what) = <<what>> /\ ToSet(<<what>>) = {what} /\ Len(<<what>>) = 1
        /\ <<what>> # <<>> /\ <<what>> # <<"busy", "invalid">>
        /\ \A other \in Answers : <<what>> = <<other>> => what = other
  /\ Append(<<"busy">>, "invalid") = <<"busy", "invalid">>
  /\ <<>> # <<"busy", "invalid">> /\ ToSet(<<>>) = {} /\ Len(<<>>) = 0
  /\ {"busy", "app", "invalid"} = Answers
<1>1. ASSUME NEW what \in Answers
      PROVE  /\ Append(<<>>, what) = <<what>> /\ ToSet(<<what>>) = {what} /\ Len(<<what>>) = 1
             /\ <<what>> # <<>> /\ <<what>> # <<"busy", "invalid">>
             /\ \A other \in Answers : <<what>> = <<other>> => what = other
  BY DEF ToSet
<1>2. <<>> # <<"busy", "invalid">> /\ ToSet(<<>>) = {} /\ Len(<<>>) = 0
  BY DEF ToSet
<1>3. "busy" \in Answers /\ "invalid" \in Answers
  BY DEF Answers
<1>4. Append(<<"busy">>, "invalid") = <<"busy", "invalid">>
  BY <1>3, PairOfAnswers
<1>5. {"busy", "app", "invalid"} = Answers
  BY DEF Answers
<1> QED
  BY <1>1, <1>2, <1>4, <1>5

LEMMA ServeKeepsAnswers ==
  ASSUME TypeOK, NEW r \in Requests, AnswerInv(r), Serve(r)
  PROVE  AnswerInv(r)'
<1> USE DEF TypeOK, AnswerInv
<1>1. CASE AcquireSlot(r)
  BY <1>1 DEF AcquireSlot
<1>2. CASE WakeWithSlot(r)
  BY <1>2 DEF WakeWithSlot
<1>3. CASE WakeCancelled(r)
  BY <1>3 DEF WakeCancelled
<1>4. CASE WakeTimedOut(r)
  <2>1. answers'[r] = <<"busy">>
    BY <1>4, BeginAdds, AnswerShapes DEF WakeTimedOut, Answers
  <2> QED
    BY <1>4, <2>1, AnswerShapes DEF WakeTimedOut
<1>5. CASE EndReject429(r)
  BY <1>5, AnswerShapes DEF EndReject429
<1>6. CASE EnterApp(r)
  BY <1>6 DEF EnterApp
<1>7. CASE AppResponds(r)
  <2>1. answers'[r] = <<"app">>
    BY <1>7, BeginAdds, AnswerShapes DEF AppResponds, Answers
  <2> QED
    BY <1>7, <2>1, AnswerShapes DEF AppResponds
<1>8. CASE LeaveWithSlot(r)
  BY <1>8 DEF LeaveWithSlot
<1> QED
  BY <1>1, <1>2, <1>3, <1>4, <1>5, <1>6, <1>7, <1>8 DEF Serve

LEMMA CallKeepsAnswers ==
  ASSUME TypeOK, IdleIsClean, NEW r \in Requests, AnswerInv(r),
         \/ QueueTimeout(r) \/ Receive(r) \/ Call(r) \/ CallStep(r) \/ CancelCall(r)
  PROVE  AnswerInv(r)'
<1> USE DEF TypeOK, AnswerInv
<1>1. CASE QueueTimeout(r)
  BY <1>1 DEF QueueTimeout, Interrupt
<1>2. CASE Receive(r)
  BY <1>2 DEF Receive, BodyComplete, BodyInvalid, Disconnect
<1>3. CASE Call(r)
  BY <1>3 DEF Call, IdleIsClean
<1>4. CASE ServeFirst(r) \/ Return(r)
  BY <1>4, AnswerShapes DEF ServeFirst, Return, Forget
<1>5. CASE ReceiveFirst(r)
  BY <1>5 DEF ReceiveFirst, RecvEnded, Interrupt, ServeState
<1>6. CASE AfterGather(r)
  <2>1. CASE recv[r] = "error"
    <3>1. answers'[r] \in {<<"invalid">>, <<"busy", "invalid">>}
      BY <1>6, <2>1, BeginAdds, AnswerShapes DEF AfterGather, Answers
    <3> QED
      BY <1>6, <3>1, AnswerShapes DEF AfterGather
  <2>2. CASE recv[r] # "error"
    BY <1>6, <2>2 DEF AfterGather
  <2> QED
    BY <2>1, <2>2
<1>7. CASE CancelCall(r)
  BY <1>7 DEF CancelCall, Interrupt
<1> QED
  BY <1>1, <1>2, <1>3, <1>4, <1>5, <1>6, <1>7 DEF CallStep

LEMMA OthersUntouched ==
  ASSUME TypeOK, NEW r \in Requests, NEW q \in Requests \ {r},
         \/ Serve(r) \/ QueueTimeout(r) \/ Receive(r) \/ Call(r) \/ CallStep(r)
         \/ CancelCall(r)
  PROVE  Untouched(q)
<1> USE DEF TypeOK, Untouched
<1>1. CASE AcquireSlot(r) \/ WakeWithSlot(r)
  BY <1>1 DEF AcquireSlot, WakeWithSlot
<1>2. CASE WakeCancelled(r) \/ WakeTimedOut(r)
  BY <1>2 DEF WakeCancelled, WakeTimedOut, Begin
<1>3. CASE EndReject429(r) \/ EnterApp(r) \/ AppResponds(r) \/ LeaveWithSlot(r)
  BY <1>3 DEF EndReject429, EnterApp, AppResponds, LeaveWithSlot, Begin
<1>4. CASE QueueTimeout(r) \/ ReceiveFirst(r) \/ CancelCall(r)
  BY <1>4 DEF QueueTimeout, ReceiveFirst, CancelCall, Interrupt
<1>5. CASE Receive(r) \/ Call(r) \/ AfterGather(r)
  BY <1>5 DEF Receive, BodyComplete, BodyInvalid, Disconnect, Call, AfterGather, Begin
<1>6. CASE ServeFirst(r) \/ Return(r)
  BY <1>6 DEF ServeFirst, Return, Forget
<1> QED
  BY <1>1, <1>2, <1>3, <1>4, <1>5, <1>6 DEF Serve, CallStep

LEMMA AnswersStep ==
  ASSUME IInv, \A r \in Requests : AnswerInv(r), [Next]_vars
  PROVE  \A r \in Requests : AnswerInv(r)'
<1> SUFFICES ASSUME NEW q \in Requests PROVE AnswerInv(q)'
  OBVIOUS
<1>1. TypeOK /\ IdleIsClean
  BY DEF IInv
<1>2. CASE Untouched(q)
  BY <1>2 DEF Untouched, AnswerInv
<1>3. CASE UNCHANGED vars
  BY <1>2, <1>3 DEF vars, Untouched
<1>4. ASSUME NEW r \in Requests,
             \/ Serve(r) \/ QueueTimeout(r) \/ Receive(r) \/ Call(r) \/ CallStep(r)
             \/ CancelCall(r)
      PROVE  AnswerInv(q)'
  <2>1. CASE q = r
    BY <1>1, <1>4, <2>1, ServeKeepsAnswers, CallKeepsAnswers
  <2>2. CASE q # r
    BY <1>1, <1>2, <1>4, <2>2, OthersUntouched
  <2> QED
    BY <2>1, <2>2
<1> QED
  BY <1>3, <1>4 DEF Next

\* Whatever a queue timeout, an invalid body, a disconnect, a shutdown and the
\* application do to a request, it gets one answer, or a 429 and then the answer
\* to its invalid body, and the latter only when it has left queue and slot.
THEOREM OnlyA429IsOvertaken == Spec => []OnlyBusyIsOvertaken
<1> DEFINE All == \A r \in Requests : AnswerInv(r)
<1>1. Init => All
  BY DEF Init, AnswerInv
<1>2. IInv /\ All /\ [Next]_vars => All'
  BY AnswersStep
<1>3. All => OnlyBusyIsOvertaken
  <2> SUFFICES ASSUME All, NEW r \in Requests
      PROVE  /\ Len(answers[r]) <= 1 \/ answers[r] = <<"busy", "invalid">>
             /\ "invalid" \in ToSet(answers[r]) => ~Holds(r) /\ r \notin Queued
    BY DEF OnlyBusyIsOvertaken
  <2>1. Len(answers[r]) <= 1 \/ answers[r] = <<"busy", "invalid">>
    <3>1. \A what \in {"busy", "app", "invalid"} : Len(<<what>>) = 1
      BY AnswerShapes
    <3>2. Len(<<>>) = 0 /\ Len(<<"busy">>) = 1 /\ Len(<<"app">>) = 1 /\ Len(<<"invalid">>) = 1
      BY <3>1, AnswerShapes
    <3>3. answers[r] \in {<<>>, <<"busy">>, <<"app">>, <<"invalid">>, <<"busy", "invalid">>}
      BY DEF AnswerInv
    <3> QED
      BY <3>2, <3>3
  <2>2. ASSUME "invalid" \in ToSet(answers[r]) PROVE serve[r] = "done"
    <3>1. "busy" \in Answers /\ "app" \in Answers
      BY AnswerShapes
    <3>2. answers[r] # <<>> /\ answers[r] # <<"busy">> /\ answers[r] # <<"app">>
      BY <2>2, <3>1, AnswerShapes
    <3> QED
      BY <3>2 DEF AnswerInv
  <2> QED
    BY <2>1, <2>2 DEF Holds, Queued
<1> HIDE DEF All
<1> QED
  BY <1>1, <1>2, <1>3, SpecIInv, PTL DEF Spec

---------------------------------------------------------------------------
(* The middleware implements the pool of FairSlots.                        *)

\* q stands before r in s: Before, of any sequence.
Precedes(s, q, r) ==
    \E i \in DOMAIN s : s[i] = q /\ \A j \in DOMAIN s : s[j] = r => i < j

\* In a sequence without repetitions the positions decide.
LEMMA PrecedesByPosition ==
  ASSUME NEW s, IsInjective(s), NEW a \in DOMAIN s, NEW b \in DOMAIN s
  PROVE  Precedes(s, s[a], s[b]) <=> a < b
BY DEF Precedes, IsInjective

\* deque.remove leaves the others in their order.
LEMMA RemoveFirstOrder ==
  ASSUME NEW S, NEW s \in Seq(S), NEW e \in S, IsInjective(s)
  PROVE  \A q, r \in ToSet(s) \ {e} : Precedes(RemoveFirst(s, e), q, r) <=> Precedes(s, q, r)
<1>1. CASE ~ \E i \in 1..Len(s) : s[i] = e
  BY <1>1 DEF RemoveFirst
<1>2. CASE \E i \in 1..Len(s) : s[i] = e
  <2>1. PICK k \in 1..Len(s) :
            /\ s[k] = e
            /\ RemoveFirst(s, e) \in Seq(S)
            /\ Len(RemoveFirst(s, e)) = Len(s) - 1
            /\ \A i \in 1..(Len(s) - 1) : RemoveFirst(s, e)[i] = IF i < k THEN s[i] ELSE s[i + 1]
    BY <1>2, RemoveFirstOfOne
  <2> DEFINE t == RemoveFirst(s, e)
             At(n) == IF n < k THEN n ELSE n + 1
  <2>0. /\ t \in Seq(S)
        /\ Len(t) = Len(s) - 1
        /\ \A i \in 1..(Len(s) - 1) : t[i] = IF i < k THEN s[i] ELSE s[i + 1]
    BY <2>1
  <2> HIDE DEF t
  <2>2. t \in Seq(S) /\ Len(t) = Len(s) - 1 /\ \A i \in 1..Len(t) : t[i] = s[At(i)]
    BY <2>0
  <2>3. DOMAIN s = 1..Len(s) /\ DOMAIN t = 1..Len(t) /\ Len(s) \in Nat
    BY <2>2
  <2>4. ASSUME NEW x \in ToSet(s) \ {e} PROVE \E i \in 1..Len(t) : t[i] = x
    <3>1. PICK j \in 1..Len(s) : s[j] = x /\ j # k
      BY <2>1, <2>3 DEF ToSet
    <3>2. CASE j < k
      BY <3>1, <3>2, <2>2, <2>3
    <3>3. CASE j > k
      <4>1. j - 1 \in 1..Len(t) /\ At(j - 1) = j
        BY <3>1, <3>3, <2>2, <2>3
      <4> QED
        BY <4>1, <3>1, <2>2
    <3> QED
      BY <3>1, <3>2, <3>3, <2>3
  <2> SUFFICES ASSUME NEW q \in ToSet(s) \ {e}, NEW r \in ToSet(s) \ {e}
               PROVE  Precedes(t, q, r) <=> Precedes(s, q, r)
    BY DEF t
  <2>5. PICK a \in 1..Len(t) : t[a] = q
    BY <2>4
  <2>6. PICK b \in 1..Len(t) : t[b] = r
    BY <2>4
  <2>7. At(a) \in 1..Len(s) /\ s[At(a)] = q /\ At(b) \in 1..Len(s) /\ s[At(b)] = r
    BY <2>2, <2>3, <2>5, <2>6
  <2>8. IsInjective(t)
    BY RemoveFirstFacts DEF t
  <2>9. Precedes(t, q, r) <=> a < b
    BY <2>3, <2>5, <2>6, <2>8, PrecedesByPosition
  <2>10. Precedes(s, q, r) <=> At(a) < At(b)
    BY <2>3, <2>7, PrecedesByPosition
  <2>11. a < b <=> At(a) < At(b)
    BY <2>3, <2>2
  <2> QED
    BY <2>9, <2>10, <2>11
<1> QED
  BY <1>1, <1>2

\* popleft leaves those behind in their order.
LEMMA SuffixOrder ==
  ASSUME NEW S, NEW s \in Seq(S), NEW k \in 0..Len(s), IsInjective(s),
         NEW q \in ToSet(SubSeq(s, k + 1, Len(s))),
         NEW r \in ToSet(SubSeq(s, k + 1, Len(s)))
  PROVE  Precedes(SubSeq(s, k + 1, Len(s)), q, r) <=> Precedes(s, q, r)
<1> DEFINE t == SubSeq(s, k + 1, Len(s))
<1>1. \A i \in (k + 1)..Len(s) : s[i] \in S
  BY ElementOfSeq
<1>2. t \in Seq(S) /\ Len(t) = Len(s) - k /\ \A i \in 1..(Len(s) - k) : t[i] = s[k + i]
  BY <1>1, SubSeqProperties
<1>3. IsInjective(t)
  BY SuffixFacts
<1> HIDE DEF t
<1>4. DOMAIN s = 1..Len(s) /\ DOMAIN t = 1..(Len(s) - k) /\ Len(s) \in Nat
  BY <1>2
<1>5. PICK a \in 1..(Len(s) - k) : t[a] = q
  BY <1>4 DEF t, ToSet
<1>6. PICK b \in 1..(Len(s) - k) : t[b] = r
  BY <1>4 DEF t, ToSet
<1>7. k + a \in 1..Len(s) /\ s[k + a] = q /\ k + b \in 1..Len(s) /\ s[k + b] = r
  BY <1>2, <1>4, <1>5, <1>6
<1>8. Precedes(t, q, r) <=> a < b
  BY <1>3, <1>4, <1>5, <1>6, PrecedesByPosition
<1>9. Precedes(s, q, r) <=> k + a < k + b
  BY <1>4, <1>7, PrecedesByPosition
<1>10. a < b <=> k + a < k + b
  BY <1>4
<1> QED
  BY <1>8, <1>9, <1>10 DEF t

\* A newcomer stands behind everybody.
LEMMA AppendOrder ==
  ASSUME NEW S, NEW s \in Seq(S), NEW e \in S, IsInjective(s), e \notin ToSet(s),
         NEW q \in ToSet(s)
  PROVE  /\ Precedes(Append(s, e), q, e)
         /\ \A r \in ToSet(s) : Precedes(Append(s, e), q, r) <=> Precedes(s, q, r)
<1> DEFINE t == Append(s, e)
<1>1. /\ t \in Seq(S) /\ Len(t) = Len(s) + 1
      /\ \A i \in 1..Len(s) : t[i] = s[i]
      /\ t[Len(s) + 1] = e
  BY AppendProperties
<1>2. IsInjective(t)
  BY AppendFacts
<1> HIDE DEF t
<1>3. DOMAIN s = 1..Len(s) /\ DOMAIN t = 1..(Len(s) + 1) /\ Len(s) \in Nat
  BY <1>1
<1>4. PICK a \in 1..Len(s) : s[a] = q
  BY <1>3 DEF ToSet
<1>5. a \in 1..(Len(s) + 1) /\ t[a] = q
  BY <1>1, <1>3, <1>4
<1>6. Precedes(t, q, e)
  <2>1. Precedes(t, t[a], t[Len(s) + 1]) <=> a < Len(s) + 1
    BY <1>2, <1>3, <1>5, PrecedesByPosition
  <2> QED
    BY <2>1, <1>1, <1>3, <1>5
<1>7. ASSUME NEW r \in ToSet(s) PROVE Precedes(t, q, r) <=> Precedes(s, q, r)
  <2>1. PICK b \in 1..Len(s) : s[b] = r
    BY <1>3 DEF ToSet
  <2>2. b \in 1..(Len(s) + 1) /\ t[b] = r
    BY <1>1, <1>3, <2>1
  <2>3. Precedes(s, s[a], s[b]) <=> a < b
    BY <1>3, PrecedesByPosition
  <2>4. Precedes(t, t[a], t[b]) <=> a < b
    BY <1>2, <1>3, <1>5, <2>2, PrecedesByPosition
  <2> QED
    BY <2>1, <2>2, <2>3, <2>4, <1>4, <1>5
<1> QED
  BY <1>6, <1>7 DEF t

\* Who is in line stands in the deque, and Before is the order of the deque.
LEMMA LineFacts ==
  ASSUME IInv
  PROVE  /\ waiters \in Seq(Requests) /\ IsInjective(waiters)
         /\ InLine \subseteq Requests /\ InLine \subseteq ToSet(waiters)
         /\ \A q, r \in Requests : Before(q, r) <=> Precedes(waiters, q, r)
BY DEF IInv, TypeOK, PoolInv, LineExact, InLine, Before, Precedes

\* A step that leaves the holders, the line and the deque alone is none of the
\* pool's.
LEMMA PoolStutters ==
  ASSUME Holders' = Holders, InLine' = InLine, waiters' = waiters
  PROVE  UNCHANGED Pool!vars
BY DEF Pool!vars, Ahead, Before

\* Who leaves the line alone leaves the others as they were: e is gone from it,
\* and perhaps from the deque.
LEMMA StepsOut ==
  ASSUME IInv, IInv', NEW e \in Requests, InLine' = InLine \ {e},
         \A q, r \in InLine \ {e} :
            Precedes(waiters', q, r) <=> Precedes(waiters, q, r)
  PROVE  Ahead' = [d \in Requests |-> IF d = e THEN {} ELSE Ahead[d] \ {e}]
<1>1. InLine \subseteq Requests
  BY LineFacts
<1>2. \A q, r \in InLine : Before(q, r) <=> Precedes(waiters, q, r)
  BY <1>1, LineFacts
<1>3. \A q, r \in InLine \ {e} : Before(q, r)' <=> Precedes(waiters', q, r)
  BY <1>1 DEF Before, Precedes
<1>4. ASSUME NEW d \in Requests
      PROVE  {q \in InLine' : d \in InLine' /\ Before(q, d)'}
             = IF d = e THEN {} ELSE Ahead[d] \ {e}
  BY <1>2, <1>3, <1>4 DEF Ahead
<1> QED
  BY <1>4 DEF Ahead

\* FairSlots and EmbeddingLimits count with the same operator.
LEMMA PoolCounts == \A S : Pool!Cardinality(S) = Cardinality(S)
BY DEF Pool!Cardinality, Cardinality

\* _acquire_slot takes a free slot, or a place at the end of the line.
LEMMA AcquireImplements ==
  ASSUME IInv, IInv', NEW r \in Requests, AcquireSlot(r)
  PROVE  Pool!Enter(r) \/ Pool!Join(r)
<1>1. /\ fut \in [Requests -> FutState] /\ serve \in [Requests -> ServeState]
      /\ inflight = Cardinality(Holders) /\ inflight <= MaxInflight
      /\ waiters # <<>> => inflight = MaxInflight
      /\ serve[r] = "created"
      /\ inflight \in Nat /\ MaxInflight \in Nat
  BY LimitsAssumption DEF IInv, TypeOK, PoolInv, SlotAccounting, NoIdleSlotWhileWaiting, AcquireSlot
<1>2. r \notin Holders \union InLine
  BY <1>1 DEF Holders, Holds, InLine, Waiting
<1>3. waiters \in Seq(Requests) /\ IsInjective(waiters)
      /\ InLine \subseteq Requests /\ InLine \subseteq ToSet(waiters)
      /\ r \notin ToSet(waiters)
  BY <1>1, LineFacts DEF IInv, PoolInv, LineExact, Queued
<1>4. CASE FreeSlot /\ inflight' = inflight + 1 /\ serve' = [serve EXCEPT ![r] = "body"]
           /\ UNCHANGED <<queue_depth, waiters, fut>>
  <2>1. Holders' = Holders \union {r}
    BY <1>1, <1>4 DEF Holders, Holds
  <2>2. InLine' = InLine
    BY <1>1, <1>4 DEF InLine, Waiting
  <2>3. Ahead' = Ahead
    BY <1>4, <2>2 DEF Ahead, Before
  <2>4. Pool!Free
    BY <1>1, <1>3, <1>4, PoolCounts DEF FreeSlot, Pool!Free, ToSet
  <2> QED
    BY <1>2, <2>1, <2>2, <2>3, <2>4 DEF Pool!Enter
<1>5. CASE ~FreeSlot /\ waiters' = Append(waiters, r) /\ fut' = [fut EXCEPT ![r] = "pending"]
           /\ serve' = [serve EXCEPT ![r] = "queued"]
  <2>1. Holders' = Holders
    BY <1>1, <1>5 DEF Holders, Holds
  <2>2. InLine' = InLine \union {r}
    BY <1>1, <1>5 DEF InLine, Waiting
  <2>3. ~Pool!Free
    BY <1>1, <1>5, PoolCounts DEF FreeSlot, Pool!Free
  <2>4. ASSUME NEW d \in Requests
        PROVE  {q \in InLine' : d \in InLine' /\ Before(q, d)'}
               = [Ahead EXCEPT ![r] = InLine][d]
    <3>1. \A q \in InLine : Precedes(waiters', q, r)
      BY <1>3, <1>5, AppendOrder
    <3>2. \A q, s \in InLine : Precedes(waiters', q, s) <=> Precedes(waiters, q, s)
      BY <1>3, <1>5, AppendOrder
    <3>3. \A q, s \in Requests : Before(q, s)' <=> Precedes(waiters', q, s)
      BY DEF Before, Precedes
    <3>4. \A q, s \in Requests : Before(q, s) <=> Precedes(waiters, q, s)
      BY DEF Before, Precedes
    <3>5. \A s \in Requests : ~Before(r, s)' \/ s \notin InLine'
      <4>1. ASSUME NEW s \in Requests, Before(r, s)', s \in InLine' PROVE FALSE
        <5>1. waiters' \in Seq(Requests) /\ DOMAIN waiters' = 1..(Len(waiters) + 1)
              /\ Len(waiters) \in Nat
              /\ \A i \in 1..Len(waiters) : waiters'[i] = waiters[i]
              /\ waiters'[Len(waiters) + 1] = r
          BY <1>3, <1>5, AppendProperties
        <5>2. PICK i \in 1..(Len(waiters) + 1) :
                waiters'[i] = r /\ \A j \in 1..(Len(waiters) + 1) : waiters'[j] = s => i < j
          BY <4>1, <5>1 DEF Before
        <5>3. i = Len(waiters) + 1
          BY <5>1, <5>2, <1>3 DEF ToSet
        <5>4. \A j \in 1..(Len(waiters) + 1) : waiters'[j] # s
          BY <5>1, <5>2, <5>3
        <5>5. s \in ToSet(waiters')
          BY <4>1, LineFacts DEF IInv, PoolInv, LineExact, InLine
        <5> QED
          BY <5>1, <5>4, <5>5 DEF ToSet
      <4> QED
        BY <4>1
    <3>6. CASE d = r
      <4>1. \A q \in InLine : Before(q, r)'
        BY <1>3, <3>1, <3>3
      <4> QED
        BY <2>2, <3>5, <3>6, <4>1 DEF Ahead
    <3>7. CASE d # r
      <4>1. \A q \in InLine : d \in InLine => (Before(q, d)' <=> Before(q, d))
        BY <1>3, <3>2, <3>3, <3>4
      <4> QED
        BY <2>2, <3>5, <3>7, <4>1 DEF Ahead
    <3> QED
      BY <3>6, <3>7
  <2>5. Ahead' = [Ahead EXCEPT ![r] = InLine]
    BY <2>4 DEF Ahead
  <2> QED
    BY <1>2, <2>1, <2>2, <2>3, <2>5 DEF Pool!Join
<1> QED
  BY <1>4, <1>5 DEF AcquireSlot

\* A slot that is given back goes to the first in line.
LEMMA ReleaseImplements ==
  ASSUME IInv, IInv', NEW r \in Requests, Holds(r), NEW end \in {"done", "rejecting"},
         ReleaseSlot([fut EXCEPT ![r] = "none"]),
         serve' = [serve EXCEPT ![r] = end]
  PROVE  Pool!GiveBack(r)
<1> DEFINE f == [fut EXCEPT ![r] = "none"]
<1>1. /\ fut \in [Requests -> FutState] /\ serve \in [Requests -> ServeState]
      /\ waiters \in Seq(Requests) /\ IsInjective(waiters)
      /\ DOMAIN waiters = 1..Len(waiters) /\ Len(waiters) \in Nat
      /\ \A q \in Requests : fut[q] # "none" <=> serve[q] = "queued"
  BY LineFacts DEF IInv, TypeOK, FutOwned
<1>2. r \in Holders /\ r \notin InLine
  BY DEF Holders, Holds, InLine, Waiting
<1>3. \A q \in InLine : f[q] = "pending" /\ \E i \in Live(f) : waiters[i] = q
  <2>1. ASSUME NEW q \in InLine PROVE f[q] = "pending" /\ \E i \in Live(f) : waiters[i] = q
    <3>1. q \in Requests /\ q # r /\ fut[q] = "pending" /\ q \in ToSet(waiters)
      BY <1>2, LineFacts DEF InLine, Waiting
    <3>2. f[q] = "pending"
      BY <1>1, <3>1
    <3> QED
      BY <1>1, <3>1, <3>2 DEF ToSet, Live
  <2> QED
    BY <2>1
<1>4. CASE Live(f) = {}
  <2>1. fut' = f /\ waiters' = <<>>
    BY <1>4 DEF ReleaseSlot
  <2>2. Holders' = Holders \ {r}
    BY <1>1, <1>2, <2>1 DEF Holders, Holds
  <2>3. InLine = {}
    BY <1>3, <1>4
  <2>4. InLine' = {}
    BY <1>1, <2>1, <2>3 DEF InLine, Waiting
  <2>5. Ahead' = Ahead
    BY <2>3, <2>4 DEF Ahead
  <2> QED
    BY <1>2, <2>2, <2>3, <2>4, <2>5 DEF Pool!GiveBack
<1>5. CASE Live(f) # {}
  <2> DEFINE k == FirstLive(f)
             h == waiters[k]
  <2>1. k \in Live(f) /\ \A j \in Live(f) : k <= j
    <3>1. Live(f) \in SUBSET (1..Len(waiters))
      BY <1>1 DEF Live
    <3> HIDE DEF f
    <3>2. \E i0 \in Live(f) : \A j \in Live(f) : i0 <= j
      BY <1>1, <1>5, <3>1, LeastPosition
    <3> QED
      BY <3>2 DEF FirstLive
  <2>2. k \in 1..Len(waiters) /\ h \in Requests /\ f[h] = "pending"
    <3>1. \A i \in 1..Len(waiters) : waiters[i] \in Requests
      BY <1>1, ElementOfSeq
    <3> QED
      BY <2>1, <1>1, <3>1 DEF Live
  <2>3. waiters' = SubSeq(waiters, k + 1, Len(waiters)) /\ fut' = [f EXCEPT ![h] = "set"]
    BY <1>5 DEF ReleaseSlot
  <2> HIDE DEF k
  <2>4. h # r /\ fut[h] = "pending" /\ serve[h] = "queued"
    BY <2>2, <1>1
  <2>5. h \in InLine
    BY <2>2, <2>4 DEF InLine, Waiting
  <2>6. \A q \in Requests :
          /\ fut'[q] = IF q = h THEN "set" ELSE IF q = r THEN "none" ELSE fut[q]
          /\ serve'[q] = IF q = r THEN end ELSE serve[q]
    BY <2>2, <2>3, <2>4, <1>1
  <2>7. Ahead[h] = {}
    <3>1. ASSUME NEW q \in InLine, Before(q, h) PROVE FALSE
      <4>1. PICK i \in 1..Len(waiters) :
              waiters[i] = q /\ \A j \in 1..Len(waiters) : waiters[j] = h => i < j
        BY <3>1, <1>1 DEF Before
      <4>2. PICK j \in Live(f) : waiters[j] = q
        BY <1>3
      <4>3. j = i
        BY <4>1, <4>2, <1>1 DEF Live, IsInjective
      <4> HIDE DEF f
      <4> QED
        BY <4>1, <4>2, <4>3, <2>1, <2>2
    <3> QED
      BY <2>2, <3>1 DEF Ahead
  <2> HIDE DEF h
  <2>8. Holders' = (Holders \ {r}) \union {h}
    BY <2>2, <2>4, <2>6, <1>2 DEF Holders, Holds
  <2>9. InLine' = InLine \ {h}
    BY <2>2, <2>4, <2>6, <1>2 DEF InLine, Waiting
  <2>10. \A q \in InLine' : q \in ToSet(waiters')
    BY DEF IInv, PoolInv, LineExact, InLine
  <2>11. Ahead' = [d \in Requests |-> IF d = h THEN {} ELSE Ahead[d] \ {h}]
    <3>1. \A q, s \in InLine \ {h} :
             Precedes(waiters', q, s) <=> Precedes(waiters, q, s)
      BY <1>1, <2>2, <2>3, <2>9, <2>10, SuffixOrder
    <3> QED
      BY <2>2, <2>9, <3>1, StepsOut
  <2> QED
    BY <1>2, <2>5, <2>7, <2>8, <2>9, <2>11 DEF Pool!GiveBack, Pool!StepOut
<1> QED
  BY <1>4, <1>5

\* Who is interrupted can no longer be woken: it has left the line.
LEMMA InterruptImplements ==
  ASSUME IInv, IInv', NEW r \in Requests, NEW why, Interrupt(r, why),
         UNCHANGED <<slotVars, serve>>
  PROVE  Pool!Leave(r) \/ UNCHANGED Pool!vars
<1>1. /\ fut \in [Requests -> FutState] /\ waiters' = waiters /\ serve' = serve
      /\ fut' = [fut EXCEPT ![r] = IF @ = "pending" THEN "cancelled" ELSE @]
  BY DEF IInv, TypeOK, Interrupt, slotVars
<1>2. Holders' = Holders
  BY <1>1 DEF Holders, Holds
<1>3. InLine' = InLine \ {r}
  BY <1>1 DEF InLine, Waiting
<1>4. CASE r \in InLine
  <2>1. Ahead' = [d \in Requests |-> IF d = r THEN {} ELSE Ahead[d] \ {r}]
    BY <1>1, <1>3, StepsOut
  <2> QED
    BY <1>2, <1>3, <1>4, <2>1 DEF Pool!Leave, Pool!StepOut
<1>5. CASE r \notin InLine
  BY <1>1, <1>2, <1>3, <1>5, PoolStutters
<1> QED
  BY <1>4, <1>5

\* A waiter that gives up without a slot leaves the line, if it has not yet.
LEMMA GiveUpImplements ==
  ASSUME IInv, IInv', NEW r \in Requests, serve[r] = "queued", GiveUpQueueing(r),
         NEW end \in {"done", "rejecting"}, serve' = [serve EXCEPT ![r] = end]
  PROVE  Pool!GiveBack(r) \/ Pool!Leave(r) \/ UNCHANGED Pool!vars
<1>1. CASE fut[r] = "set" /\ ReleaseSlot([fut EXCEPT ![r] = "none"])
  BY <1>1, ReleaseImplements DEF Holds
<1>2. CASE fut[r] # "set" /\ waiters' = RemoveFirst(waiters, r)
           /\ fut' = [fut EXCEPT ![r] = "none"]
  <2>1. /\ fut \in [Requests -> FutState] /\ serve \in [Requests -> ServeState]
        /\ waiters \in Seq(Requests) /\ IsInjective(waiters)
        /\ InLine \subseteq ToSet(waiters)
    BY LineFacts DEF IInv, TypeOK
  <2>2. Holders' = Holders
    BY <1>2, <2>1 DEF Holders, Holds
  <2>3. InLine' = InLine \ {r}
    BY <1>2, <2>1 DEF InLine, Waiting
  <2>4. Ahead' = [d \in Requests |-> IF d = r THEN {} ELSE Ahead[d] \ {r}]
    <3>1. \A q, s \in InLine \ {r} :
             Precedes(waiters', q, s) <=> Precedes(waiters, q, s)
      BY <1>2, <2>1, RemoveFirstOrder
    <3> QED
      BY <2>3, <3>1, StepsOut
  <2>5. CASE r \in InLine
    BY <2>2, <2>3, <2>4, <2>5 DEF Pool!Leave, Pool!StepOut
  <2>6. CASE r \notin InLine
    <3>1. Ahead' = Ahead
      <4>1. \A d \in Requests : Ahead[d] = IF d = r THEN {} ELSE Ahead[d] \ {r}
        BY <2>6 DEF Ahead
      <4> QED
        BY <2>4, <4>1 DEF Ahead
    <3> QED
      BY <2>2, <2>3, <2>6, <3>1 DEF Pool!vars
  <2> QED
    BY <2>5, <2>6
<1> QED
  BY <1>1, <1>2 DEF GiveUpQueueing

\* Every step of the middleware is one of the fair pool, or none of its.
LEMMA NextImplements ==
  ASSUME IInv, IInv', Next
  PROVE  Pool!Next \/ UNCHANGED Pool!vars
<1>1. PICK r \in Requests :
         \/ Serve(r) \/ QueueTimeout(r) \/ Receive(r) \/ Call(r) \/ CallStep(r)
         \/ CancelCall(r)
  BY DEF Next
<1>2. /\ fut \in [Requests -> FutState] /\ serve \in [Requests -> ServeState]
      /\ fut[r] # "none" <=> serve[r] = "queued"
      /\ call[r] = "idle" => serve[r] = "none"
  BY DEF IInv, TypeOK, FutOwned, IdleIsClean
<1>3. CASE AcquireSlot(r)
  BY <1>3, AcquireImplements DEF Pool!Next
<1>4. CASE WakeWithSlot(r)
  <2>1. Holders' = Holders /\ InLine' = InLine
    BY <1>2, <1>4 DEF WakeWithSlot, Holders, Holds, InLine, Waiting
  <2> QED
    BY <1>4, <2>1, PoolStutters DEF WakeWithSlot, slotVars
<1>5. CASE WakeCancelled(r) \/ WakeTimedOut(r)
  <2>1. serve[r] = "queued" /\ GiveUpQueueing(r)
        /\ \E end \in {"done", "rejecting"} : serve' = [serve EXCEPT ![r] = end]
    BY <1>5 DEF WakeCancelled, WakeTimedOut
  <2> QED
    BY <2>1, GiveUpImplements DEF Pool!Next
<1>6. CASE LeaveWithSlot(r)
  <2>1. Holds(r) /\ fut[r] = "none" /\ serve' = [serve EXCEPT ![r] = "done"]
    BY <1>2, <1>6 DEF LeaveWithSlot, Holds
  <2>2. ReleaseSlot([fut EXCEPT ![r] = "none"])
    <3>1. fut = [fut EXCEPT ![r] = "none"]
      BY <1>2, <2>1
    <3> QED
      BY <3>1, <1>6 DEF LeaveWithSlot
  <2> QED
    BY <2>1, <2>2, ReleaseImplements DEF Pool!Next
<1>7. CASE QueueTimeout(r) \/ ReceiveFirst(r) \/ CancelCall(r)
  <2>1. (Interrupt(r, "timeout") \/ Interrupt(r, "cancel")) /\ UNCHANGED <<slotVars, serve>>
    BY <1>7 DEF QueueTimeout, ReceiveFirst, CancelCall
  <2> QED
    BY <2>1, InterruptImplements DEF Pool!Next
<1>8. CASE EndReject429(r) \/ EnterApp(r) \/ AppResponds(r)
  <2>1. Holders' = Holders /\ InLine' = InLine
    BY <1>2, <1>8 DEF EndReject429, EnterApp, AppResponds, Holders, Holds, InLine, Waiting
  <2> QED
    BY <1>8, <2>1, PoolStutters DEF EndReject429, EnterApp, AppResponds, slotVars
<1>9. CASE Receive(r) \/ AfterGather(r)
  <2>1. UNCHANGED <<slotVars, fut, serve>>
    BY <1>9 DEF Receive, BodyComplete, BodyInvalid, Disconnect, AfterGather
  <2>2. Holders' = Holders /\ InLine' = InLine
    BY <2>1 DEF Holders, Holds, InLine, Waiting
  <2> QED
    BY <2>1, <2>2, PoolStutters DEF slotVars
<1>10. CASE Call(r) \/ ServeFirst(r) \/ Return(r)
  <2>1. UNCHANGED <<slotVars, fut>> /\ serve[r] \in {"none", "done"}
        /\ \E s \in {"none", "created"} : serve' = [serve EXCEPT ![r] = s]
    BY <1>2, <1>10 DEF Call, ServeFirst, Return, Forget
  <2>2. Holders' = Holders /\ InLine' = InLine
    BY <1>2, <2>1 DEF Holders, Holds, InLine, Waiting
  <2> QED
    BY <2>1, <2>2, PoolStutters DEF slotVars
<1> QED
  BY <1>1, <1>3, <1>4, <1>5, <1>6, <1>7, <1>8, <1>9, <1>10 DEF Serve, CallStep

\* For any number of connections and any capacity, the middleware is a fair
\* pool of slots: a slot is taken only when nobody is in line, and one that is
\* given back goes to the head of the line in the same step.
THEOREM ImplementsPool == Spec => ImplementsFairSlots
<1>1. Init => Pool!Init
  <2> SUFFICES ASSUME Init PROVE Pool!Init
    OBVIOUS
  <2>1. Holders = {} /\ InLine = {}
    BY DEF Init, Holders, Holds, InLine, Waiting
  <2> QED
    BY <2>1 DEF Pool!Init, Ahead
<1>2. IInv /\ IInv' /\ [Next]_vars => [Pool!Next]_Pool!vars
  <2>1. CASE Next
    BY <2>1, NextImplements
  <2>2. CASE UNCHANGED vars
    BY <2>2, PoolStutters DEF vars, Holders, Holds, InLine, Waiting
  <2> QED
    BY <2>1, <2>2
<1> QED
  BY <1>1, <1>2, SpecIInv, PTL DEF Spec, ImplementsFairSlots, Pool!Spec

==========================================================================
