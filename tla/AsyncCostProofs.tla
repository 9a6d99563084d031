-------------------------- MODULE AsyncCostProofs --------------------------
(***************************************************************************)
(* Proofs about AsyncCost, for any number of calls and workers, any        *)
(* timeout and any size of the record queue.                               *)
(*                                                                         *)
(* SlotsConserved needs to know that the line holds the queued calls, each *)
(* once, and which calls can have an operation whose end the loop has not  *)
(* seen (SlotInv); CallInTime that a timer ends Timeout after its call     *)
(* asked, also after the wait for the slot (TimeInv).                      *)
(*                                                                         *)
(* RecordsAccounted needs to know that a record is in flight exactly while *)
(* the writer task waits for its thread, and that the drain comes after    *)
(* the writer has stopped (RecordInv).                                     *)
(***************************************************************************)
EXTENDS AsyncCost, TLAPS, FiniteSetTheorems, SequenceTheorems

---------------------------------------------------------------------------
(* Sequences without repetitions.                                          *)

\* An element that is in an injective sequence leaves with RemoveFirst, and
\* nothing else does (deque.remove).
LEMMA RemoveFirstFacts ==
  ASSUME NEW S, NEW s \in Seq(S), NEW e \in S, IsInjective(s)
  PROVE  /\ RemoveFirst(s, e) \in Seq(S)
         /\ IsInjective(RemoveFirst(s, e))
         /\ ToSet(RemoveFirst(s, e)) = ToSet(s) \ {e}
<1>1. CASE ~ \E i \in 1..Len(s) : s[i] = e
  <2>1. RemoveFirst(s, e) = s
    BY <1>1 DEF RemoveFirst
  <2>2. e \notin ToSet(s)
    BY <1>1 DEF ToSet
  <2> QED
    BY <2>1, <2>2
<1>2. CASE \E i \in 1..Len(s) : s[i] = e
  <2>1. PICK k \in 1..Len(s) : s[k] = e
    BY <1>2
  <2>2. {i \in 1..Len(s) : s[i] = e} = {k}
    BY <2>1 DEF IsInjective
  <2>3. SelectInSeq(s, LAMBDA v : v = e) = k
    BY <2>1, <2>2 DEF SelectInSeq, Min
  <2> DEFINE a == SubSeq(s, 1, k - 1)
             b == SubSeq(s, k + 1, Len(s))
             t == a \o b
  <2>4. RemoveFirst(s, e) = t
    BY <1>2, <2>3 DEF RemoveFirst, RemoveAt
  <2>5. /\ a \in Seq(S)
        /\ Len(a) = k - 1
        /\ \A i \in 1..(k - 1) : a[i] = s[i]
    <3>1. \A i \in 1..(k - 1) : s[i] \in S
      BY ElementOfSeq
    <3> QED
      BY <3>1, SubSeqProperties
  <2>6. /\ b \in Seq(S)
        /\ Len(b) = Len(s) - k
        /\ \A i \in 1..(Len(s) - k) : b[i] = s[k + i]
    <3>1. \A i \in (k + 1)..Len(s) : s[i] \in S
      BY ElementOfSeq
    <3> QED
      BY <3>1, SubSeqProperties
  <2>7. /\ t \in Seq(S)
        /\ Len(t) = Len(s) - 1
        /\ \A i \in 1..(Len(s) - 1) : t[i] = IF i < k THEN s[i] ELSE s[i + 1]
    <3> HIDE DEF a, b
    <3>1. /\ t \in Seq(S)
          /\ Len(t) = Len(a) + Len(b)
          /\ \A i \in 1..(Len(a) + Len(b)) :
                t[i] = IF i <= Len(a) THEN a[i] ELSE b[i - Len(a)]
      BY <2>5, <2>6, ConcatProperties
    <3> QED
      BY <3>1, <2>5, <2>6
  <2> HIDE DEF t
  <2>8. DOMAIN s = 1..Len(s) /\ DOMAIN t = 1..(Len(s) - 1)
    BY <2>7
  <2>9. IsInjective(t)
    <3>1. ASSUME NEW i \in 1..(Len(s) - 1), NEW j \in 1..(Len(s) - 1), t[i] = t[j]
          PROVE  i = j
      <4> DEFINE At(n) == IF n < k THEN n ELSE n + 1
      <4>1. /\ At(i) \in 1..Len(s) /\ At(j) \in 1..Len(s)
            /\ t[i] = s[At(i)] /\ t[j] = s[At(j)]
        BY <2>7
      <4>2. At(i) = At(j)
        BY <4>1, <3>1, <2>8 DEF IsInjective
      <4> QED
        BY <4>2
    <3> QED
      BY <3>1, <2>8 DEF IsInjective
  <2>10. ASSUME NEW x \in ToSet(t) PROVE x \in ToSet(s) \ {e}
    BY <2>1, <2>7, <2>8 DEF ToSet, IsInjective
  <2>11. ASSUME NEW x \in ToSet(s) \ {e} PROVE x \in ToSet(t)
    <3>1. PICK j \in 1..Len(s) : s[j] = x /\ j # k
      BY <2>1, <2>8 DEF ToSet
    <3>2. CASE j < k
      <4>1. j \in 1..(Len(s) - 1) /\ t[j] = x
        BY <3>1, <3>2, <2>7
      <4> QED
        BY <4>1, <2>8 DEF ToSet
    <3>3. CASE j > k
      <4>1. (j - 1) \in 1..(Len(s) - 1) /\ t[j - 1] = x
        BY <3>1, <3>3, <2>7
      <4> QED
        BY <4>1, <2>8 DEF ToSet
    <3> QED
      BY <3>1, <3>2, <3>3
  <2> QED
    BY <2>4, <2>7, <2>9, <2>10, <2>11
<1> QED
  BY <1>1, <1>2

\* What is left of an injective sequence behind position k (popleft, k times).
LEMMA SuffixFacts ==
  ASSUME NEW S, NEW s \in Seq(S), NEW k \in 0..Len(s), IsInjective(s)
  PROVE  LET t == SubSeq(s, k + 1, Len(s))
         IN  /\ t \in Seq(S)
             /\ IsInjective(t)
             /\ \A x : x \in ToSet(t) <=> \E j \in 1..Len(s) : j > k /\ s[j] = x
<1> DEFINE t == SubSeq(s, k + 1, Len(s))
<1>1. \A i \in (k + 1)..Len(s) : s[i] \in S
  BY ElementOfSeq
<1>2. /\ t \in Seq(S)
      /\ Len(t) = Len(s) - k
      /\ \A i \in 1..(Len(s) - k) : t[i] = s[k + i]
  BY <1>1, SubSeqProperties
<1> HIDE DEF t
<1>3. DOMAIN s = 1..Len(s) /\ DOMAIN t = 1..(Len(s) - k)
  BY <1>2
<1>4. IsInjective(t)
  <2>1. ASSUME NEW i \in 1..(Len(s) - k), NEW j \in 1..(Len(s) - k), t[i] = t[j]
        PROVE  i = j
    <3>1. (k + i) \in 1..Len(s) /\ (k + j) \in 1..Len(s) /\ s[k + i] = s[k + j]
      BY <2>1, <1>2
    <3>2. k + i = k + j
      BY <3>1, <1>3 DEF IsInjective
    <3> QED
      BY <3>2
  <2> QED
    BY <2>1, <1>3 DEF IsInjective
<1>5. ASSUME NEW x, x \in ToSet(t)
      PROVE  \E j \in 1..Len(s) : j > k /\ s[j] = x
  <2>1. PICK i \in 1..(Len(s) - k) : t[i] = x
    BY <1>5, <1>3 DEF ToSet
  <2>2. (k + i) \in 1..Len(s) /\ k + i > k /\ s[k + i] = x
    BY <2>1, <1>2
  <2> QED
    BY <2>2
<1>6. ASSUME NEW x, NEW j \in 1..Len(s), j > k, s[j] = x
      PROVE  x \in ToSet(t)
  <2>1. (j - k) \in 1..(Len(s) - k) /\ t[j - k] = x
    BY <1>6, <1>2
  <2> QED
    BY <2>1, <1>3 DEF ToSet
<1> QED
  BY <1>2, <1>4, <1>5, <1>6 DEF t

\* A newcomer at the end of an injective sequence (deque.append).
LEMMA AppendFacts ==
  ASSUME NEW S, NEW s \in Seq(S), NEW e \in S, IsInjective(s), e \notin ToSet(s)
  PROVE  /\ Append(s, e) \in Seq(S)
         /\ IsInjective(Append(s, e))
         /\ ToSet(Append(s, e)) = ToSet(s) \union {e}
<1> DEFINE t == Append(s, e)
<1>1. /\ t \in Seq(S)
      /\ Len(t) = Len(s) + 1
      /\ \A i \in 1..Len(s) : t[i] = s[i]
      /\ t[Len(s) + 1] = e
  BY AppendProperties
<1> HIDE DEF t
<1>2. DOMAIN s = 1..Len(s) /\ DOMAIN t = 1..(Len(s) + 1)
  BY <1>1
<1>3. IsInjective(t)
  BY <1>1, <1>2 DEF IsInjective, ToSet
<1>4. ToSet(t) = ToSet(s) \union {e}
  BY <1>1, <1>2 DEF ToSet
<1> QED
  BY <1>1, <1>3, <1>4 DEF t

RecordTypes ==
    /\ queue \in Nat /\ in_flight \in {0, 1}
    /\ written \in Nat /\ dropped \in Nat /\ offered \in Nat

\* The writer and aclose agree on whether a record is in flight.
WriterInv ==
    /\ writer \in {"none", "idle", "ended"} => in_flight = 0
    /\ writer = "writing" => in_flight = 1
    /\ writer \in {"none", "idle", "writing", "ended"}
    /\ phase \in {"draining", "ended"} => writer \in {"none", "ended"}
    /\ phase = "ended" => queue = 0

RecordInv ==
    /\ RecordTypes
    /\ WriterInv
    /\ offered = written + dropped + queue + in_flight

\* It holds initially.
LEMMA InitRecordInv == Init => RecordInv
BY DEF Init, RecordInv, RecordTypes, WriterInv

\* Every step keeps it.
LEMMA RecordInvStep == RecordInv /\ [Next]_vars => RecordInv'
<1> SUFFICES ASSUME RecordInv, [Next]_vars PROVE RecordInv'
  OBVIOUS
<1> USE DEF RecordInv, RecordTypes, WriterInv
<1>1. CASE UNCHANGED <<recordVars, phase>>
  BY <1>1 DEF recordVars
<1>2. CASE UNCHANGED vars
  BY <1>1, <1>2 DEF vars
<1>3. ASSUME NEW c \in Calls, Record(c)
      PROVE  RecordInv'
  BY <1>3, AsyncAssumption DEF Record, closed
<1>4. ASSUME NEW c \in Calls,
             Admit(c) \/ LoopStep(c) \/ Cancel(c) \/ Start(c) \/ Finish(c) \/ NoUsage(c)
      PROVE  RecordInv'
  BY <1>1, <1>4 DEF Admit, LoopStep, Resume, Expire, Deliver, Return, Cancel, Start,
                    Finish, NoUsage
<1>5. CASE Write
  BY <1>5 DEF Write
<1>6. CASE RecordThread
  BY <1>6 DEF RecordThread
<1>7. CASE Wrote
  BY <1>7 DEF Wrote
<1>8. CASE Close
  BY <1>8 DEF Close, recordVars
<1>9. CASE CancelWriter
  BY <1>9 DEF CancelWriter, recordVars
<1>10. CASE WriterStops
  BY <1>10 DEF WriterStops
<1>11. CASE Drain
  BY <1>11 DEF Drain
<1>12. CASE Tick
  BY <1>1, <1>12 DEF Tick
<1> QED
  BY <1>2, <1>3, <1>4, <1>5, <1>6, <1>7, <1>8, <1>9, <1>10, <1>11, <1>12
  DEF Next, Closing

\* The one type fact about operations that the theorems need.
OpTypes == op \in [Calls -> OpState]

\* Every step keeps the types of the operations.
LEMMA OpTypesStep == OpTypes /\ [Next]_vars => OpTypes'
<1> SUFFICES ASSUME OpTypes, [Next]_vars PROVE OpTypes'
  OBVIOUS
<1> USE DEF OpTypes, OpState
<1>1. CASE op' = op
  BY <1>1
<1>2. CASE UNCHANGED vars
  BY <1>1, <1>2 DEF vars, opVars
<1>3. ASSUME NEW c \in Calls, Admit(c) \/ Resume(c)
      PROVE  OpTypes'
  BY <1>3 DEF Admit, Resume, Hold, opVars
<1>4. ASSUME NEW c \in Calls, Start(c) \/ Finish(c)
      PROVE  OpTypes'
  BY <1>4 DEF Start, Finish
<1>5. ASSUME NEW c \in Calls,
             Expire(c) \/ Deliver(c) \/ Return(c) \/ Cancel(c) \/ Record(c) \/ NoUsage(c)
      PROVE  OpTypes'
  BY <1>1, <1>5 DEF Expire, Deliver, Return, Cancel, Record, NoUsage, LeaveLine,
                    LeaveOperation, opVars
<1>6. CASE Drain
  BY <1>6 DEF Drain
<1>7. CASE Write \/ RecordThread \/ Wrote \/ Close \/ CancelWriter \/ WriterStops \/ Tick
  BY <1>1, <1>7 DEF Write, RecordThread, Wrote, Close, CancelWriter, WriterStops, Tick, opVars
<1> QED
  BY <1>2, <1>3, <1>4, <1>5, <1>6, <1>7 DEF Next, LoopStep, Closing

\* Every usage handed to record_attempt is written, dropped, queued or in
\* flight, also when the queue is full, a write fails or aclose cancels the
\* writer in the middle of one; after aclose it is written or dropped.
THEOREM NoRecordIsLostUncounted == Spec => []RecordsAccounted
<1>1. RecordInv => RecordsAccounted
  BY DEF RecordInv, RecordTypes, WriterInv, RecordsAccounted
<1> QED
  BY <1>1, InitRecordInv, RecordInvStep, PTL DEF Spec

\* From the first step of aclose on, no operation is submitted to the executor
\* and the record queue only shrinks, whatever callers were waiting for a slot.
THEOREM ClosedMeansClosed == Spec => NothingStartsAfterClose
<1> DEFINE Quiet == closed => /\ \A c \in Calls : op[c] = "none" => op'[c] = "none"
                              /\ queue' <= queue
<1>1. ASSUME RecordInv, OpTypes, Next PROVE Quiet
  <2> SUFFICES ASSUME closed
               PROVE  /\ \A c \in Calls : op[c] = "none" => op'[c] = "none"
                      /\ queue' <= queue
    OBVIOUS
  <2>1. queue \in Nat
    BY <1>1 DEF RecordInv, RecordTypes
  <2>2. CASE op' = op /\ queue' = queue
    BY <2>1, <2>2
  <2>3. ASSUME NEW d \in Calls, Admit(d) \/ LoopStep(d) \/ Cancel(d)
        PROVE  op' = op /\ queue' = queue
    BY <2>3 DEF Admit, LoopStep, Resume, Expire, Deliver, Return, Cancel, LeaveLine,
                LeaveOperation, slotVars, opVars, recordVars
  <2>4. ASSUME NEW d \in Calls, Record(d) \/ NoUsage(d)
        PROVE  op' = op /\ queue' = queue
    BY <2>4 DEF Record, NoUsage, opVars, recordVars
  <2>5. ASSUME NEW d \in Calls, Start(d) \/ Finish(d)
        PROVE  /\ \A c \in Calls : op[c] = "none" => op'[c] = "none"
               /\ queue' <= queue
    <3>1. queue' = queue /\ op[d] # "none" /\ \A c \in Calls \ {d} : op'[c] = op[c]
      BY <1>1, <2>5 DEF Start, Finish, recordVars, OpTypes, OpState
    <3> QED
      BY <2>1, <3>1
  <2>6. CASE Write
    BY <2>1, <2>6 DEF Write, opVars
  <2>7. CASE RecordThread \/ Wrote \/ Close \/ CancelWriter \/ WriterStops \/ Tick
    BY <2>2, <2>7 DEF RecordThread, Wrote, Close, CancelWriter, WriterStops, Tick,
                      opVars, recordVars
  <2>8. CASE Drain
    BY <2>1, <2>8 DEF Drain
  <2> QED
    BY <1>1, <2>2, <2>3, <2>4, <2>5, <2>6, <2>7, <2>8 DEF Next, Closing
<1>2. RecordInv /\ OpTypes /\ [Next]_vars => [Quiet]_vars
  BY <1>1
<1>3. Init => OpTypes
  BY DEF Init, OpTypes, OpState
<1> QED
  BY <1>2, <1>3, InitRecordInv, RecordInvStep, OpTypesStep, PTL DEF Spec, NothingStartsAfterClose

---------------------------------------------------------------------------
(* The slots of the semaphore.                                             *)

Queued(c) == {x \in Calls : c[x] = "queued"}
Woken(c) == {x \in Calls : c[x] = "granted"}

SlotTypes ==
    /\ call \in [Calls -> CallState]
    /\ free \in Nat
    /\ line \in Seq(Calls)
    /\ admissions \subseteq Calls
    /\ op \in [Calls -> OpState]

\* The line holds the queued calls, each once.
LineInv == IsInjective(line) /\ ToSet(line) = Queued(call)

\* The loop has not seen the end of an operation that has not ended, and a
\* call on its way to its operation has none yet.
HeldInv ==
    \A c \in Calls :
        /\ op[c] \in {"submitted", "busy"} => c \in admissions
        /\ call[c] \in {"idle", "queued", "granted"} => c \notin admissions

SlotInv == SlotTypes /\ LineInv /\ HeldInv /\ SlotsConserved /\ WaitersExact

\* Sets of calls are finite.
LEMMA FiniteCalls ==
  ASSUME NEW S, S \subseteq Calls
  PROVE  IsFiniteSet(S) /\ Cardinality(S) \in Nat
BY AsyncAssumption, FS_Subset, FS_CardinalityType

\* The first k of a sequence without repetitions are k.
LEMMA PrefixSize ==
  ASSUME NEW l \in Seq(Calls), IsInjective(l), NEW k \in 0..Len(l)
  PROVE  Cardinality({l[i] : i \in 1..k}) = k
<1> DEFINE S == {l[i] : i \in 1..k}
           f == [i \in 1..k |-> l[i]]
<1>1. f \in Bijection(1..k, S)
  BY DEF Bijection, Injection, Surjection, IsInjective
<1>2. IsFiniteSet(1..k) /\ Cardinality(1..k) = k
  BY FS_Interval
<1>3. ExistsBijection(1..k, S)
  BY <1>1 DEF ExistsBijection
<1> QED
  BY <1>2, <1>3, FS_Bijection

\* Waking the first k waiters takes k of n slots to them and leaves the rest of
\* the line as it was.
LEMMA WakeFacts ==
  ASSUME NEW l \in Seq(Calls), IsInjective(l), NEW c \in [Calls -> CallState],
         ToSet(l) = Queued(c), NEW n \in Nat, NEW k \in 0..Len(l), k <= n,
         Wake(l, n, k, c)
  PROVE  /\ line' \in Seq(Calls) /\ IsInjective(line') /\ ToSet(line') = Queued(call')
         /\ call' \in [Calls -> CallState]
         /\ free' \in Nat
         /\ free' + Cardinality(Woken(call')) = n + Cardinality(Woken(c))
         /\ \A x \in Calls : call'[x] = c[x] \/ (c[x] = "queued" /\ call'[x] = "granted")
<1> DEFINE S == {l[i] : i \in 1..k}
<1>1. /\ line' = SubSeq(l, k + 1, Len(l)) /\ free' = n - k
      /\ call' = [x \in Calls |-> IF x \in S THEN "granted" ELSE c[x]]
  BY DEF Wake
<1>2. S \subseteq Queued(c)
  BY DEF ToSet
<1>3. /\ line' \in Seq(Calls) /\ IsInjective(line')
      /\ \A x : x \in ToSet(line') <=> \E j \in 1..Len(l) : j > k /\ l[j] = x
  BY <1>1, SuffixFacts
<1>4. ToSet(l) = {l[i] : i \in 1..Len(l)}
  BY DEF ToSet
<1>5. \A x \in Calls : x \in S <=> \E j \in 1..Len(l) : j <= k /\ l[j] = x
  OBVIOUS
<1>6. \A i, j \in 1..Len(l) : l[i] = l[j] => i = j
  BY DEF IsInjective
<1>7. ToSet(line') = Queued(c) \ S
  BY <1>3, <1>4, <1>5, <1>6
<1>8. Cardinality(S) = k
  BY PrefixSize
<1> HIDE DEF S
<1>9. S \subseteq Calls /\ S \cap Woken(c) = {}
  BY <1>2 DEF Queued, Woken
<1>10. Woken(call') = Woken(c) \union S
  BY <1>1, <1>9 DEF Woken
<1>11. Queued(call') = Queued(c) \ S
  BY <1>1 DEF Queued
<1>12. Cardinality(Woken(call')) = Cardinality(Woken(c)) + k
  <2>1. Woken(c) \subseteq Calls
    BY DEF Woken
  <2>2. IsFiniteSet(S) /\ IsFiniteSet(Woken(c)) /\ Cardinality(Woken(c)) \in Nat
    BY <2>1, <1>9, FiniteCalls
  <2>3. Woken(c) \cap S = {}
    BY <1>9
  <2>4. Cardinality(Woken(c) \union S)
            = Cardinality(Woken(c)) + Cardinality(S) - Cardinality(Woken(c) \cap S)
    BY <2>2, FS_Union
  <2>5. Cardinality(Woken(c) \cap S) = 0
    BY <2>3, FS_EmptySet
  <2> QED
    BY <2>2, <2>4, <2>5, <1>8, <1>10
<1>13. Cardinality(Woken(c)) \in Nat
  <2>1. Woken(c) \subseteq Calls
    BY DEF Woken
  <2> QED
    BY <2>1, FiniteCalls
<1>14. call' \in [Calls -> CallState]
  BY <1>1 DEF CallState
<1>15. \A x \in Calls : call'[x] = c[x] \/ (c[x] = "queued" /\ call'[x] = "granted")
  BY <1>1, <1>2 DEF Queued
<1>16. free' \in Nat /\ free' + Cardinality(Woken(call')) = n + Cardinality(Woken(c))
  BY <1>1, <1>12, <1>13
<1> QED
  BY <1>3, <1>7, <1>11, <1>14, <1>15, <1>16

\* The calls that wait for a slot, and those that have nothing to do with an
\* operation yet.
Waiters(c) == {x \in Calls : c[x] \in {"queued", "granted"}}
Before(c) == {x \in Calls : c[x] \in {"idle", "queued", "granted"}}

\* The smaller of two natural numbers.
LEMMA MinOfTwo ==
  ASSUME NEW a \in Nat, NEW b \in Nat
  PROVE  Min({a, b}) = IF a <= b THEN a ELSE b
BY DEF Min

\* What release() and the end of acquire() do: however many they wake, the
\* invariant of the line is kept and no slot is lost.
LEMMA WakingFacts ==
  ASSUME NEW l \in Seq(Calls), IsInjective(l), NEW c \in [Calls -> CallState],
         ToSet(l) = Queued(c), NEW n \in Nat,
         WakeAll(l, n, c) \/ (n > 0 /\ WakeOne(l, n, c))
  PROVE  /\ line' \in Seq(Calls) /\ LineInv'
         /\ call' \in [Calls -> CallState]
         /\ free' \in Nat
         /\ free' + Cardinality(Woken(call')) = n + Cardinality(Woken(c))
         /\ Waiters(call') = Waiters(c)
         /\ Before(call') = Before(c)
<1>1. Len(l) \in Nat
  OBVIOUS
<1>2. PICK k \in 0..Len(l) : k <= n /\ Wake(l, n, k, c)
  BY <1>1, MinOfTwo DEF WakeAll, WakeOne
<1>3. /\ line' \in Seq(Calls) /\ IsInjective(line') /\ ToSet(line') = Queued(call')
      /\ call' \in [Calls -> CallState]
      /\ free' \in Nat
      /\ free' + Cardinality(Woken(call')) = n + Cardinality(Woken(c))
      /\ \A x \in Calls : call'[x] = c[x] \/ (c[x] = "queued" /\ call'[x] = "granted")
  BY <1>2, WakeFacts
<1>4. Waiters(call') = Waiters(c) /\ Before(call') = Before(c)
  BY <1>3 DEF Waiters, Before
<1> QED
  BY <1>3, <1>4 DEF LineInv, Queued

\* The invariant in terms of these sets.
LEMMA SlotInvSets ==
  SlotInv <=> /\ SlotTypes /\ LineInv
              /\ \A c \in Calls : op[c] \in {"submitted", "busy"} => c \in admissions
              /\ Before(call) \cap admissions = {}
              /\ free + Cardinality(Woken(call)) + Cardinality(admissions) = Workers
              /\ waiters = Cardinality(Waiters(call))
<1>1. SlotTypes => (HeldInv <=> /\ \A c \in Calls : op[c] \in {"submitted", "busy"} => c \in admissions
                                /\ Before(call) \cap admissions = {})
  BY DEF SlotTypes, HeldInv, Before
<1> QED
  BY <1>1 DEF SlotInv, SlotsConserved, WaitersExact, Granted, Woken, Waiters

\* A call that changes its state while everything else about slots stays.
LEMMA MoveKeepsSlots ==
  ASSUME SlotInv, UNCHANGED <<slotVars, admissions>>, SlotTypes',
         \A c \in Calls :
             /\ \/ call'[c] = call[c]
                \/ /\ call[c] \notin {"queued", "granted"}
                   /\ call'[c] \notin {"idle", "queued", "granted"}
             /\ op'[c] \in {"submitted", "busy"} => op[c] \in {"submitted", "busy"}
  PROVE  SlotInv'
<1>1. Queued(call') = Queued(call) /\ Woken(call') = Woken(call)
  BY DEF Queued, Woken
<1>2. Waiters(call') = Waiters(call) /\ Before(call') \subseteq Before(call)
  BY DEF Waiters, Before
<1>3. free' = free /\ line' = line /\ waiters' = waiters /\ admissions' = admissions
  BY DEF slotVars
<1>4. LineInv'
  BY <1>1, <1>3 DEF SlotInv, LineInv, Queued
<1>5. /\ \A c \in Calls : op'[c] \in {"submitted", "busy"} => c \in admissions'
      /\ Before(call') \cap admissions' = {}
  <2>1. \A c \in Calls : op'[c] \in {"submitted", "busy"} => op[c] \in {"submitted", "busy"}
    OBVIOUS
  <2> QED
    BY <2>1, <1>2, <1>3, SlotInvSets
<1>6. /\ free' + Cardinality(Woken(call')) + Cardinality(admissions') = Workers
      /\ waiters' = Cardinality(Waiters(call'))
  BY <1>1, <1>2, <1>3, SlotInvSets
<1>7. HeldInv'
  BY <1>5 DEF HeldInv, Before
<1> QED
  BY <1>1, <1>3, <1>4, <1>6, <1>7 DEF SlotInv, SlotsConserved, WaitersExact, Granted, Woken, Waiters

\* It holds initially.
LEMMA InitSlotInv == Init => SlotInv
<1> SUFFICES ASSUME Init PROVE SlotInv
  OBVIOUS
<1>1. SlotTypes
  BY AsyncAssumption DEF Init, SlotTypes, CallState, OpState
<1>2. Queued(call) = {} /\ Woken(call) = {} /\ Waiters(call) = {}
  BY DEF Init, Queued, Woken, Waiters
<1>3. LineInv
  BY <1>2 DEF Init, LineInv, IsInjective, ToSet
<1>4. Before(call) \cap admissions = {}
      /\ \A c \in Calls : op[c] \in {"submitted", "busy"} => c \in admissions
  BY DEF Init
<1>5. /\ free + Cardinality(Woken(call)) + Cardinality(admissions) = Workers
      /\ waiters = Cardinality(Waiters(call))
  <2>1. free = Workers /\ admissions = {} /\ waiters = 0 /\ Workers \in Nat
    BY AsyncAssumption DEF Init
  <2>2. Cardinality({}) = 0
    BY FS_EmptySet
  <2>3. free + Cardinality(Woken(call)) + Cardinality(admissions) = Workers
    BY <1>2, <2>1, <2>2
  <2>4. waiters = Cardinality(Waiters(call))
    BY <1>2, <2>1, <2>2
  <2> QED
    BY <2>3, <2>4
<1> QED
  BY <1>1, <1>3, <1>4, <1>5, SlotInvSets

\* What the invariant says of the sizes of the sets of calls.
LEMMA Sizes ==
  ASSUME SlotInv
  PROVE  /\ Cardinality(Woken(call)) \in Nat /\ Cardinality(admissions) \in Nat
         /\ Cardinality(Waiters(call)) \in Nat
         /\ IsFiniteSet(Woken(call)) /\ IsFiniteSet(admissions) /\ IsFiniteSet(Waiters(call))
<1>1. Woken(call) \subseteq Calls /\ admissions \subseteq Calls /\ Waiters(call) \subseteq Calls
  BY DEF SlotInv, SlotTypes, Woken, Waiters
<1> QED
  BY <1>1, FiniteCalls

\* A wake-up that follows a change of one call d: the invariant is kept if the
\* slots add up before it, and its operation fits.
LEMMA WakeKeepsSlots ==
  ASSUME SlotInv, NEW l \in Seq(Calls), IsInjective(l), NEW c \in [Calls -> CallState],
         ToSet(l) = Queued(c), NEW n \in Nat,
         WakeAll(l, n, c) \/ (n > 0 /\ WakeOne(l, n, c)),
         admissions' \subseteq Calls, op' \in [Calls -> OpState],
         \A x \in Calls : op'[x] \in {"submitted", "busy"} => x \in admissions',
         Before(c) \cap admissions' = {},
         n + Cardinality(Woken(c)) + Cardinality(admissions') = Workers,
         waiters' = Cardinality(Waiters(c))
  PROVE  SlotInv'
<1>1. /\ line' \in Seq(Calls) /\ LineInv'
      /\ call' \in [Calls -> CallState]
      /\ free' \in Nat
      /\ free' + Cardinality(Woken(call')) = n + Cardinality(Woken(c))
      /\ Waiters(call') = Waiters(c)
      /\ Before(call') = Before(c)
  BY WakingFacts
<1>2. SlotTypes'
  BY <1>1 DEF SlotTypes
<1>3. HeldInv'
  BY <1>1 DEF HeldInv, Before
<1>4. SlotsConserved'
  <2>1. free' + Cardinality(Woken(call')) + Cardinality(admissions') = Workers
    BY <1>1
  <2> QED
    BY <2>1 DEF SlotsConserved, Granted, Woken
<1>5. WaitersExact'
  BY <1>1 DEF WaitersExact, Waiters
<1> QED
  BY <1>1, <1>2, <1>3, <1>4, <1>5 DEF SlotInv

\* The wait for a slot ends without one.
LEMMA LeaveLineKeepsSlots ==
  ASSUME SlotInv, NEW d \in Calls, call[d] = "queued", LeaveLine(d)
  PROVE  SlotInv'
<1> DEFINE l == RemoveFirst(line, d)
           c == [call EXCEPT ![d] = "failed"]
<1>1. line \in Seq(Calls) /\ IsInjective(line) /\ ToSet(line) = Queued(call)
  BY DEF SlotInv, SlotTypes, LineInv
<1>2. l \in Seq(Calls) /\ IsInjective(l) /\ ToSet(l) = Queued(call) \ {d}
  BY <1>1, RemoveFirstFacts
<1>3. call \in [Calls -> CallState] /\ free \in Nat /\ admissions \subseteq Calls
      /\ op \in [Calls -> OpState]
  BY DEF SlotInv, SlotTypes
<1>4. c \in [Calls -> CallState]
  BY <1>3 DEF CallState
<1>5. /\ Queued(c) = Queued(call) \ {d} /\ Woken(c) = Woken(call)
      /\ Waiters(c) = Waiters(call) \ {d} /\ d \in Waiters(call)
      /\ Before(c) \subseteq Before(call)
  BY <1>3 DEF Queued, Woken, Waiters, Before
<1>6. waiters' = Cardinality(Waiters(c))
  BY <1>5, Sizes, SlotInvSets, FS_RemoveElement DEF LeaveLine
<1>7. WakeAll(l, free, c) /\ admissions' = admissions /\ op' = op
  BY DEF LeaveLine, opVars
<1> HIDE DEF l, c
<1>8. /\ \A x \in Calls : op'[x] \in {"submitted", "busy"} => x \in admissions'
      /\ Before(c) \cap admissions' = {}
      /\ free + Cardinality(Woken(c)) + Cardinality(admissions') = Workers
  BY <1>5, <1>7, SlotInvSets
<1> QED
  BY <1>2, <1>3, <1>4, <1>5, <1>6, <1>7, <1>8, WakeKeepsSlots

\* A granted call runs again, and takes its slot to an operation.
LEMMA TakeKeepsSlots ==
  ASSUME SlotInv, NEW d \in Calls, call[d] = "granted",
         waiters' = waiters - 1, Hold(d),
         WakeAll(line, free, [call EXCEPT ![d] = "waiting"])
  PROVE  SlotInv'
<1> DEFINE c == [call EXCEPT ![d] = "waiting"]
<1>1. line \in Seq(Calls) /\ IsInjective(line) /\ ToSet(line) = Queued(call)
  BY DEF SlotInv, SlotTypes, LineInv
<1>2. call \in [Calls -> CallState] /\ free \in Nat /\ admissions \subseteq Calls
      /\ op \in [Calls -> OpState]
  BY DEF SlotInv, SlotTypes
<1>3. c \in [Calls -> CallState]
  BY <1>2 DEF CallState
<1>4. /\ Queued(c) = Queued(call) /\ Woken(c) = Woken(call) \ {d} /\ d \in Woken(call)
      /\ Waiters(c) = Waiters(call) \ {d} /\ d \in Waiters(call)
      /\ Before(c) = Before(call) \ {d} /\ d \in Before(call)
  BY <1>2 DEF Queued, Woken, Waiters, Before
<1>5. /\ admissions' = admissions \union {d} /\ d \notin admissions
      /\ op' \in [Calls -> OpState]
      /\ \A x \in Calls : x # d => op'[x] = op[x]
  BY <1>2, <1>4, SlotInvSets DEF Hold, OpState
<1>6. waiters' = Cardinality(Waiters(c))
  BY <1>4, Sizes, SlotInvSets, FS_RemoveElement
<1>7. Cardinality(Woken(c)) = Cardinality(Woken(call)) - 1
  BY <1>4, Sizes, FS_RemoveElement
<1>8. Cardinality(admissions') = Cardinality(admissions) + 1
  BY <1>5, Sizes, FS_AddElement
<1> HIDE DEF c
<1>9. free + Cardinality(Woken(c)) + Cardinality(admissions') = Workers
  BY <1>2, <1>7, <1>8, Sizes, SlotInvSets
<1>10. /\ \A x \in Calls : op'[x] \in {"submitted", "busy"} => x \in admissions'
       /\ Before(c) \cap admissions' = {}
  BY <1>4, <1>5, SlotInvSets
<1>11. WakeAll(line, free, c) /\ admissions' \subseteq Calls
  BY <1>2, <1>5 DEF c
<1> QED
  BY <1>1, <1>2, <1>3, <1>4, <1>5, <1>6, <1>9, <1>10, <1>11, WakeKeepsSlots

\* A granted call gives its slot back.
LEMMA GiveBackKeepsSlots ==
  ASSUME SlotInv, NEW d \in Calls, call[d] = "granted",
         waiters' = waiters - 1, UNCHANGED opVars,
         WakeAll(line, free + 1, [call EXCEPT ![d] = "failed"])
  PROVE  SlotInv'
<1> DEFINE c == [call EXCEPT ![d] = "failed"]
<1>1. line \in Seq(Calls) /\ IsInjective(line) /\ ToSet(line) = Queued(call)
  BY DEF SlotInv, SlotTypes, LineInv
<1>2. call \in [Calls -> CallState] /\ free \in Nat /\ admissions \subseteq Calls
      /\ op \in [Calls -> OpState]
  BY DEF SlotInv, SlotTypes
<1>3. c \in [Calls -> CallState]
  BY <1>2 DEF CallState
<1>4. /\ Queued(c) = Queued(call) /\ Woken(c) = Woken(call) \ {d} /\ d \in Woken(call)
      /\ Waiters(c) = Waiters(call) \ {d} /\ d \in Waiters(call)
      /\ Before(c) \subseteq Before(call)
  BY <1>2 DEF Queued, Woken, Waiters, Before
<1>5. admissions' = admissions /\ op' = op
  BY DEF opVars
<1>6. waiters' = Cardinality(Waiters(c))
  BY <1>4, Sizes, SlotInvSets, FS_RemoveElement
<1>7. Cardinality(Woken(c)) = Cardinality(Woken(call)) - 1
  BY <1>4, Sizes, FS_RemoveElement
<1> HIDE DEF c
<1>8. (free + 1) + Cardinality(Woken(c)) + Cardinality(admissions') = Workers
  BY <1>2, <1>5, <1>7, Sizes, SlotInvSets
<1>9. /\ \A x \in Calls : op'[x] \in {"submitted", "busy"} => x \in admissions'
      /\ Before(c) \cap admissions' = {}
  BY <1>4, <1>5, SlotInvSets
<1>10. WakeAll(line, free + 1, c) /\ free + 1 \in Nat
  BY <1>2 DEF c
<1> QED
  BY <1>1, <1>2, <1>3, <1>4, <1>5, <1>6, <1>8, <1>9, <1>10, WakeKeepsSlots

\* The loop hears of the end of an operation: its slot goes to the next.
LEMMA DeliverKeepsSlots ==
  ASSUME SlotInv, NEW d \in Calls, Deliver(d)
  PROVE  SlotInv'
<1>1. /\ line \in Seq(Calls) /\ IsInjective(line) /\ ToSet(line) = Queued(call)
      /\ call \in [Calls -> CallState] /\ free \in Nat /\ admissions \subseteq Calls
      /\ op \in [Calls -> OpState]
  BY DEF SlotInv, SlotTypes, LineInv
<1>2. /\ d \in admissions /\ admissions' = admissions \ {d} /\ op' = op
      /\ op[d] \in {"reserved", "refused"}
      /\ waiters' = waiters
      /\ WakeOne(line, free + 1, call)
  BY DEF Deliver
<1>3. Cardinality(admissions') = Cardinality(admissions) - 1
  BY <1>2, Sizes, FS_RemoveElement
<1>4. (free + 1) + Cardinality(Woken(call)) + Cardinality(admissions') = Workers
  BY <1>1, <1>3, Sizes, SlotInvSets
<1>5. /\ \A x \in Calls : op'[x] \in {"submitted", "busy"} => x \in admissions'
      /\ Before(call) \cap admissions' = {}
      /\ waiters' = Cardinality(Waiters(call))
  BY <1>2, SlotInvSets
<1>6. free + 1 \in Nat /\ free + 1 > 0
  BY <1>1
<1> QED
  BY <1>1, <1>2, <1>4, <1>5, <1>6, WakeKeepsSlots

\* A new call fails, joins the line or takes a free slot.
LEMMA AdmitKeepsSlots ==
  ASSUME SlotInv, NEW d \in Calls, Admit(d)
  PROVE  SlotInv'
<1>1. /\ line \in Seq(Calls) /\ IsInjective(line) /\ ToSet(line) = Queued(call)
      /\ call \in [Calls -> CallState] /\ free \in Nat /\ admissions \subseteq Calls
      /\ op \in [Calls -> OpState]
  BY DEF SlotInv, SlotTypes, LineInv
<1>2. call[d] = "idle" /\ d \in Before(call) /\ d \notin Waiters(call) /\ d \notin Queued(call)
  BY DEF Admit, Before, Waiters, Queued
<1>3. CASE call' = [call EXCEPT ![d] = "failed"] /\ UNCHANGED <<slotVars, opVars>>
  <2>1. SlotTypes'
    BY <1>1, <1>3 DEF SlotTypes, slotVars, opVars, CallState
  <2>2. UNCHANGED <<slotVars, admissions>> /\ op' = op
    BY <1>3 DEF opVars
  <2>3. \A c \in Calls : call'[c] = call[c] \/ (c = d /\ call'[c] = "failed")
    BY <1>1, <1>3
  <2> QED
    BY <2>1, <2>2, <2>3, <1>2, MoveKeepsSlots
<1>4. CASE /\ call' = [call EXCEPT ![d] = "queued"] /\ line' = Append(line, d)
           /\ waiters' = waiters + 1 /\ UNCHANGED <<free, opVars>>
  <2>1. line' \in Seq(Calls) /\ IsInjective(line') /\ ToSet(line') = Queued(call) \union {d}
    BY <1>1, <1>2, <1>4, AppendFacts
  <2>2. call' \in [Calls -> CallState]
    BY <1>1, <1>4 DEF CallState
  <2>3. /\ Queued(call') = Queued(call) \union {d} /\ Woken(call') = Woken(call)
        /\ Waiters(call') = Waiters(call) \union {d}
        /\ Before(call') = Before(call)
    BY <1>1, <1>2, <1>4 DEF Queued, Woken, Waiters, Before
  <2>4. free' = free /\ admissions' = admissions /\ op' = op
    BY <1>4 DEF opVars
  <2>5. waiters' = Cardinality(Waiters(call'))
    <3>1. Cardinality(Waiters(call) \union {d}) = Cardinality(Waiters(call)) + 1
      BY <1>2, Sizes, FS_AddElement
    <3>2. waiters = Cardinality(Waiters(call))
      BY SlotInvSets
    <3> QED
      BY <2>3, <1>4, <3>1, <3>2
  <2>6. SlotTypes' /\ LineInv'
    BY <1>1, <2>1, <2>2, <2>3, <2>4 DEF SlotTypes, LineInv, Queued
  <2>7. HeldInv'
    <3>1. /\ \A c \in Calls : op'[c] \in {"submitted", "busy"} => c \in admissions'
          /\ Before(call') \cap admissions' = {}
      BY <2>3, <2>4, SlotInvSets
    <3> QED
      BY <3>1 DEF HeldInv, Before
  <2>8. free' + Cardinality(Woken(call')) + Cardinality(admissions') = Workers
    BY <2>3, <2>4, SlotInvSets
  <2>9. SlotsConserved' /\ WaitersExact'
    BY <2>5, <2>8 DEF SlotsConserved, WaitersExact, Granted, Woken, Waiters
  <2> QED
    BY <2>6, <2>7, <2>9 DEF SlotInv
<1>5. CASE /\ ~Locked /\ call' = [call EXCEPT ![d] = "waiting"] /\ free' = free - 1
           /\ Hold(d) /\ UNCHANGED <<line, waiters>>
  <2>1. free' \in Nat
    BY <1>1, <1>5 DEF Locked
  <2>2. call' \in [Calls -> CallState]
    BY <1>1, <1>5 DEF CallState
  <2>3. /\ Queued(call') = Queued(call) /\ Woken(call') = Woken(call)
        /\ Waiters(call') = Waiters(call)
        /\ Before(call') = Before(call) \ {d}
    BY <1>1, <1>2, <1>5 DEF Queued, Woken, Waiters, Before
  <2>4. /\ admissions' = admissions \union {d} /\ d \notin admissions
        /\ op' \in [Calls -> OpState]
        /\ \A x \in Calls : x # d => op'[x] = op[x]
    BY <1>1, <1>2, <1>5, SlotInvSets DEF Hold, OpState
  <2>5. SlotTypes' /\ LineInv'
    BY <1>1, <1>5, <2>1, <2>2, <2>3, <2>4 DEF SlotTypes, LineInv, Queued
  <2>6. HeldInv'
    <3>1. /\ \A c \in Calls : op'[c] \in {"submitted", "busy"} => c \in admissions'
          /\ Before(call') \cap admissions' = {}
      BY <2>3, <2>4, SlotInvSets
    <3> QED
      BY <3>1 DEF HeldInv, Before
  <2>7. Cardinality(admissions') = Cardinality(admissions) + 1
    BY <2>4, Sizes, FS_AddElement
  <2>8. free' + Cardinality(Woken(call')) + Cardinality(admissions') = Workers
    BY <1>1, <1>5, <2>3, <2>7, Sizes, SlotInvSets
  <2>9. waiters' = Cardinality(Waiters(call'))
    BY <1>5, <2>3, SlotInvSets
  <2>10. SlotsConserved' /\ WaitersExact'
    BY <2>8, <2>9 DEF SlotsConserved, WaitersExact, Granted, Woken, Waiters
  <2> QED
    BY <2>5, <2>6, <2>10 DEF SlotInv
<1> QED
  BY <1>3, <1>4, <1>5 DEF Admit

\* The other steps of calls and threads.
LEMMA CallStepKeepsSlots ==
  ASSUME SlotInv, NEW d \in Calls,
         (call[d] = "waiting" /\ LeaveOperation(d)) \/ Return(d) \/ Record(d)
            \/ NoUsage(d) \/ Start(d) \/ Finish(d)
  PROVE  SlotInv'
<1>1. /\ line \in Seq(Calls) /\ call \in [Calls -> CallState] /\ free \in Nat
      /\ admissions \subseteq Calls /\ op \in [Calls -> OpState]
  BY DEF SlotInv, SlotTypes
<1>2. CASE (call[d] = "waiting" /\ LeaveOperation(d)) \/ Return(d) \/ Record(d) \/ NoUsage(d)
  <2>1. /\ UNCHANGED <<slotVars, admissions>> /\ op' = op
        /\ call[d] \in {"waiting", "admitted"}
        /\ \E s \in {"admitted", "failed", "done"} : call' = [call EXCEPT ![d] = s]
    BY <1>2 DEF LeaveOperation, Return, Record, NoUsage, opVars
  <2>2. SlotTypes'
    BY <1>1, <2>1 DEF SlotTypes, slotVars, CallState
  <2>3. \A c \in Calls : call'[c] = call[c]
                            \/ (c = d /\ call'[c] \in {"admitted", "failed", "done"})
    BY <1>1, <2>1
  <2> QED
    BY <2>1, <2>2, <2>3, MoveKeepsSlots
<1>3. CASE Start(d) \/ Finish(d)
  <2>1. /\ UNCHANGED <<slotVars, admissions>> /\ call' = call
        /\ op[d] \in {"submitted", "busy"}
        /\ \E s \in {"busy", "reserved", "refused"} : op' = [op EXCEPT ![d] = s]
    BY <1>3 DEF Start, Finish, callVars
  <2>2. SlotTypes'
    BY <1>1, <2>1 DEF SlotTypes, slotVars, OpState
  <2>3. \A c \in Calls : op'[c] \in {"submitted", "busy"} => op[c] \in {"submitted", "busy"}
    BY <1>1, <2>1
  <2> QED
    BY <2>1, <2>2, <2>3, MoveKeepsSlots
<1> QED
  BY <1>2, <1>3

\* Every step keeps the invariant of the slots.
LEMMA SlotInvStep == SlotInv /\ [Next]_vars => SlotInv'
<1> SUFFICES ASSUME SlotInv, [Next]_vars PROVE SlotInv'
  OBVIOUS
<1>1. ASSUME NEW d \in Calls, Admit(d) PROVE SlotInv'
  BY <1>1, AdmitKeepsSlots
<1>2. ASSUME NEW d \in Calls, Resume(d) PROVE SlotInv'
  BY <1>2, TakeKeepsSlots, GiveBackKeepsSlots DEF Resume
<1>3. ASSUME NEW d \in Calls, Expire(d) \/ Cancel(d) PROVE SlotInv'
  <2>1. CASE call[d] = "queued" /\ LeaveLine(d)
    BY <2>1, LeaveLineKeepsSlots
  <2>2. CASE call[d] = "waiting" /\ LeaveOperation(d)
    BY <2>2, CallStepKeepsSlots
  <2>3. CASE /\ call[d] = "granted" /\ waiters' = waiters - 1 /\ UNCHANGED opVars
             /\ WakeAll(line, free + 1, [call EXCEPT ![d] = "failed"])
    BY <2>3, GiveBackKeepsSlots
  <2> QED
    BY <1>3, <2>1, <2>2, <2>3 DEF Expire, Cancel
<1>4. ASSUME NEW d \in Calls, Deliver(d) PROVE SlotInv'
  BY <1>4, DeliverKeepsSlots
<1>5. ASSUME NEW d \in Calls, Return(d) \/ Record(d) \/ NoUsage(d) \/ Start(d) \/ Finish(d)
      PROVE  SlotInv'
  BY <1>5, CallStepKeepsSlots
<1>6. CASE Drain
  <2>1. UNCHANGED <<slotVars, admissions>> /\ call' = call
        /\ op' = [c \in Calls |-> IF op[c] = "submitted" THEN "refused" ELSE op[c]]
    BY <1>6 DEF Drain, callVars
  <2>2. SlotTypes'
    BY <2>1 DEF SlotInv, SlotTypes, slotVars, OpState
  <2> QED
    BY <2>1, <2>2, MoveKeepsSlots
<1>7. CASE UNCHANGED <<call, slotVars, opVars>>
  <2>1. UNCHANGED <<slotVars, admissions>> /\ call' = call /\ op' = op
    BY <1>7 DEF opVars
  <2>2. SlotTypes'
    BY <2>1 DEF SlotInv, SlotTypes, slotVars
  <2> QED
    BY <2>1, <2>2, MoveKeepsSlots
<1>8. CASE Write \/ RecordThread \/ Wrote \/ Close \/ CancelWriter \/ WriterStops \/ Tick
  BY <1>7, <1>8 DEF Write, RecordThread, Wrote, Close, CancelWriter, WriterStops, Tick, callVars
<1>9. CASE UNCHANGED vars
  BY <1>7, <1>9 DEF vars, callVars
<1> QED
  BY <1>1, <1>2, <1>3, <1>4, <1>5, <1>6, <1>8, <1>9 DEF Next, LoopStep, Closing

---------------------------------------------------------------------------
(* Time.                                                                   *)

\* A timer is set when its call asks and never again; it is served before the
\* clock moves past it.
TimeInv ==
    /\ now \in 0..MaxTime
    /\ asked \in [Calls -> 0..MaxTime] /\ due \in [Calls -> 0..MaxTime]
    /\ \A c \in Calls : /\ call[c] # "idle" => due[c] = asked[c] + Timeout
                        /\ call[c] \in {"queued", "waiting"} => now <= due[c]

\* What a step other than Admit may make of a call.
Moved(c) ==
    \/ call'[c] = call[c]
    \/ call[c] # "idle" /\ call'[c] \notin {"queued", "waiting"}
    \/ call[c] = "granted" /\ call'[c] = "waiting" /\ now < due[c]

\* A wake-up makes of a call what its caller does, or grants it a slot.
LEMMA WakeMoves ==
  ASSUME NEW l \in Seq(Calls), NEW c, \A x \in ToSet(l) : c[x] = "queued",
         NEW n \in Nat, WakeAll(l, n, c) \/ WakeOne(l, n, c)
  PROVE  \A x \in Calls : call'[x] = c[x] \/ (c[x] = "queued" /\ call'[x] = "granted")
<1>1. Len(l) \in Nat
  OBVIOUS
<1>2. PICK k \in 0..Len(l) : Wake(l, n, k, c)
  BY <1>1, MinOfTwo DEF WakeAll, WakeOne
<1>3. \A i \in 1..k : c[l[i]] = "queued"
  BY <1>2 DEF ToSet
<1> QED
  BY <1>2, <1>3 DEF Wake

\* What each of them makes of the calls.
LEMMA CallsMove ==
  ASSUME SlotInv, NEW d \in Calls,
         LoopStep(d) \/ Cancel(d) \/ Record(d) \/ NoUsage(d)
  PROVE  \A c \in Calls : Moved(c)
<1>1. /\ line \in Seq(Calls) /\ IsInjective(line) /\ call \in [Calls -> CallState] /\ free \in Nat
      /\ \A x \in ToSet(line) : call[x] = "queued"
  BY DEF SlotInv, SlotTypes, LineInv, Queued
<1>2. CASE Resume(d)
  <2>1. PICK s \in {"waiting", "failed"}, n \in Nat :
            /\ WakeAll(line, n, [call EXCEPT ![d] = s])
            /\ call[d] = "granted" /\ (s = "waiting" => now < due[d])
    <3>1. free + 1 \in Nat
      BY <1>1
    <3> QED
      BY <1>1, <1>2, <3>1 DEF Resume
  <2>2. \A x \in ToSet(line) : [call EXCEPT ![d] = s][x] = "queued"
    BY <1>1, <2>1
  <2>3. \A x \in Calls : \/ call'[x] = [call EXCEPT ![d] = s][x]
                         \/ [call EXCEPT ![d] = s][x] = "queued" /\ call'[x] = "granted"
    BY <1>1, <2>1, <2>2, WakeMoves
  <2> QED
    BY <1>1, <2>1, <2>3 DEF Moved
<1>3. CASE call[d] = "queued" /\ LeaveLine(d)
  <2> DEFINE l == RemoveFirst(line, d)
             c == [call EXCEPT ![d] = "failed"]
  <2>1. l \in Seq(Calls) /\ ToSet(l) = ToSet(line) \ {d}
    BY <1>1, RemoveFirstFacts
  <2>2. \A x \in ToSet(l) : c[x] = "queued"
    BY <1>1, <2>1
  <2>3. WakeAll(l, free, c)
    BY <1>3 DEF LeaveLine
  <2> HIDE DEF l
  <2>4. \A x \in Calls : call'[x] = c[x] \/ (c[x] = "queued" /\ call'[x] = "granted")
    BY <1>1, <2>1, <2>2, <2>3, WakeMoves
  <2> QED
    BY <1>1, <1>3, <2>4 DEF Moved
<1>4. CASE call[d] = "granted" /\ WakeAll(line, free + 1, [call EXCEPT ![d] = "failed"])
  <2>1. free + 1 \in Nat
    BY <1>1
  <2>2. \A x \in ToSet(line) : [call EXCEPT ![d] = "failed"][x] = "queued"
    BY <1>1, <1>4
  <2>3. \A x \in Calls : \/ call'[x] = [call EXCEPT ![d] = "failed"][x]
                         \/ /\ [call EXCEPT ![d] = "failed"][x] = "queued"
                            /\ call'[x] = "granted"
    BY <1>1, <1>4, <2>1, <2>2, WakeMoves
  <2> QED
    BY <1>1, <1>4, <2>3 DEF Moved
<1>5. CASE Deliver(d)
  <2>1. free + 1 \in Nat /\ WakeOne(line, free + 1, call)
    BY <1>1, <1>5 DEF Deliver
  <2> QED
    BY <1>1, <2>1, WakeMoves DEF Moved
<1>6. CASE (call[d] = "waiting" /\ LeaveOperation(d)) \/ Return(d) \/ Record(d) \/ NoUsage(d)
  <2>1. /\ call[d] \in {"waiting", "admitted"}
        /\ \E s \in {"admitted", "failed", "done"} : call' = [call EXCEPT ![d] = s]
    BY <1>6 DEF LeaveOperation, Return, Record, NoUsage
  <2> QED
    BY <1>1, <2>1 DEF Moved
<1> QED
  BY <1>2, <1>3, <1>4, <1>5, <1>6 DEF LoopStep, Expire, Cancel

\* Every step keeps the invariant of the time.
LEMMA TimeInvStep == SlotInv /\ TimeInv /\ [Next]_vars => TimeInv'
<1> SUFFICES ASSUME SlotInv, TimeInv, [Next]_vars PROVE TimeInv'
  OBVIOUS
<1>1. /\ now \in Nat /\ MaxTime \in Nat /\ Timeout \in Nat
      /\ call \in [Calls -> CallState]
      /\ \A c \in Calls : due[c] \in Nat /\ asked[c] \in Nat
  BY AsyncAssumption DEF TimeInv, SlotInv, SlotTypes
<1>2. ASSUME NEW d \in Calls, Admit(d) PROVE TimeInv'
  <2>1. /\ now' = now /\ now + Timeout \in 0..MaxTime
        /\ asked' = [asked EXCEPT ![d] = now] /\ due' = [due EXCEPT ![d] = now + Timeout]
    BY <1>1, <1>2 DEF Admit
  <2>2. \A c \in Calls : c # d => call'[c] = call[c]
    BY <1>1, <1>2 DEF Admit
  <2>3. now' \in 0..MaxTime /\ asked' \in [Calls -> 0..MaxTime] /\ due' \in [Calls -> 0..MaxTime]
    BY <2>1 DEF TimeInv
  <2>4. ASSUME NEW c \in Calls
        PROVE  /\ call'[c] # "idle" => due'[c] = asked'[c] + Timeout
               /\ call'[c] \in {"queued", "waiting"} => now' <= due'[c]
    <3>1. CASE c = d
      BY <1>1, <2>1, <3>1 DEF TimeInv
    <3>2. CASE c # d
      BY <2>1, <2>2, <3>2 DEF TimeInv
    <3> QED
      BY <3>1, <3>2
  <2> QED
    BY <2>3, <2>4 DEF TimeInv
<1>3. ASSUME UNCHANGED <<now, asked, due>>, \A c \in Calls : Moved(c) PROVE TimeInv'
  BY <1>1, <1>3 DEF TimeInv, Moved
<1>4. ASSUME NEW d \in Calls, LoopStep(d) \/ Cancel(d) \/ Record(d) \/ NoUsage(d)
      PROVE  TimeInv'
  <2>1. UNCHANGED <<now, asked, due>>
    BY <1>4 DEF LoopStep, Resume, Expire, Deliver, Return, Cancel, Record, NoUsage
  <2> QED
    BY <1>3, <1>4, <2>1, CallsMove
<1>5. CASE UNCHANGED <<now, callVars>>
  BY <1>3, <1>5 DEF callVars, Moved
<1>6. ASSUME NEW d \in Calls, Start(d) \/ Finish(d) PROVE TimeInv'
  BY <1>5, <1>6 DEF Start, Finish
<1>7. CASE Tick
  BY <1>1, <1>7 DEF Tick, TimeInv, callVars
<1>8. CASE Write \/ RecordThread \/ Wrote \/ Close \/ CancelWriter \/ WriterStops \/ Drain
  BY <1>5, <1>8 DEF Write, RecordThread, Wrote, Close, CancelWriter, WriterStops, Drain
<1>9. CASE UNCHANGED vars
  BY <1>5, <1>9 DEF vars
<1> QED
  BY <1>2, <1>4, <1>6, <1>7, <1>8, <1>9 DEF Next, Closing

---------------------------------------------------------------------------
(* The remaining types.                                                    *)

RestInv ==
    /\ queue <= QueueSize
    /\ rec \in {"none", "busy", "ok", "error"}
    /\ phase \in Phase

\* Every step keeps them.
LEMMA RestInvStep == RecordInv /\ RestInv /\ [Next]_vars => RestInv'
<1> SUFFICES ASSUME RecordInv, RestInv, [Next]_vars PROVE RestInv'
  OBVIOUS
<1>1. queue \in Nat /\ QueueSize \in Nat
  BY AsyncAssumption DEF RecordInv, RecordTypes
<1> USE DEF RestInv, Phase
<1>2. CASE UNCHANGED <<queue, rec, phase>>
  BY <1>2
<1>3. ASSUME NEW c \in Calls, Record(c) PROVE RestInv'
  BY <1>1, <1>3 DEF Record
<1>4. ASSUME NEW c \in Calls,
             Admit(c) \/ LoopStep(c) \/ Cancel(c) \/ Start(c) \/ Finish(c) \/ NoUsage(c)
      PROVE  RestInv'
  BY <1>2, <1>4 DEF Admit, LoopStep, Resume, Expire, Deliver, Return, Cancel, Start,
                    Finish, NoUsage, recordVars
<1>5. CASE Write
  BY <1>1, <1>5 DEF Write
<1>6. CASE RecordThread \/ Wrote
  BY <1>6 DEF RecordThread, Wrote
<1>7. CASE Close \/ CancelWriter \/ WriterStops
  BY <1>7 DEF Close, CancelWriter, WriterStops, recordVars
<1>8. CASE Drain
  BY <1>1, <1>8 DEF Drain
<1>9. CASE Tick \/ UNCHANGED vars
  BY <1>2, <1>9 DEF Tick, vars, recordVars
<1> QED
  BY <1>3, <1>4, <1>5, <1>6, <1>7, <1>8, <1>9 DEF Next, Closing

IInv == SlotInv /\ TimeInv /\ RecordInv /\ RestInv

\* The whole invariant holds always.
LEMMA SpecIInv == Spec => []IInv
<1>1. Init => TimeInv /\ RestInv
  BY AsyncAssumption DEF Init, TimeInv, RestInv, Phase
<1> QED
  BY <1>1, InitSlotInv, SlotInvStep, TimeInvStep, InitRecordInv, RecordInvStep, RestInvStep, PTL
  DEF Spec, IInv

---------------------------------------------------------------------------
(* The theorems.                                                           *)

\* Every variable of the accounting keeps its type.
THEOREM SpecTypeOK == Spec => []TypeOK
<1>1. IInv => TypeOK
  <2> SUFFICES ASSUME IInv PROVE TypeOK
    OBVIOUS
  <2>1. free \in 0..Workers /\ waiters \in Nat
    BY Sizes, SlotInvSets, AsyncAssumption DEF IInv, SlotInv, SlotTypes
  <2>2. queue \in 0..QueueSize
    BY AsyncAssumption DEF IInv, RecordInv, RecordTypes, RestInv
  <2> QED
    BY <2>1, <2>2 DEF IInv, SlotInv, SlotTypes, TimeInv, RecordInv, RecordTypes, WriterInv,
                      RestInv, TypeOK
<1> QED
  BY <1>1, SpecIInv, PTL

\* Whatever times out, is cancelled, fails to start or comes after aclose, a
\* slot is free, on its way to a waiter, or held by an operation that the loop
\* has not seen the end of.
THEOREM SlotsAreConserved == Spec => []SlotsConserved
<1>1. IInv => SlotsConserved
  BY DEF IInv, SlotInv
<1> QED
  BY <1>1, SpecIInv, PTL

\* However many calls give up on operations that go on, the database never has
\* more of them than there are workers.
THEOREM DatabaseIsBounded == Spec => []DatabaseBounded
<1>1. IInv => DatabaseBounded
  <2> SUFFICES ASSUME IInv PROVE DatabaseBounded
    OBVIOUS
  <2> DEFINE S == {c \in Calls : op[c] \in {"submitted", "busy"}}
  <2>1. SlotInv /\ S \subseteq admissions
    BY DEF IInv, SlotInv, HeldInv
  <2>2. Cardinality(S) \in Nat /\ Cardinality(S) <= Cardinality(admissions)
    BY <2>1, Sizes, FS_Subset, FS_CardinalityType
  <2>3. /\ Cardinality(Woken(call)) = Cardinality(Granted)
        /\ Cardinality(Woken(call)) \in Nat /\ Cardinality(admissions) \in Nat
        /\ free \in Nat /\ Workers \in Nat
    BY <2>1, Sizes, AsyncAssumption DEF SlotInv, SlotTypes, Woken, Granted
  <2>4. free + Cardinality(Granted) + Cardinality(admissions) = Workers
    BY <2>1 DEF SlotInv, SlotsConserved
  <2>5. Cardinality(S) + Cardinality(Granted) + free <= Workers
    <3> HIDE DEF S
    <3> QED
      BY <2>2, <2>3, <2>4
  <2> QED
    BY <2>5 DEF DatabaseBounded
<1> QED
  BY <1>1, SpecIInv, PTL

\* The counter that limits the waiting calls is exact, whichever way a wait ends.
THEOREM WaitersAreCounted == Spec => []WaitersExact
<1>1. IInv => WaitersExact
  BY DEF IInv, SlotInv
<1> QED
  BY <1>1, SpecIInv, PTL

\* No call waits longer than the timeout, for its slot and its operation together.
THEOREM OneTimeoutForBoth == Spec => []CallInTime
<1>1. IInv => CallInTime
  BY DEF IInv, TimeInv, CallInTime
<1> QED
  BY <1>1, SpecIInv, PTL

===========================================================================
