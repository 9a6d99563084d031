-------------------------- MODULE ChatRequestProofs --------------------------
(***************************************************************************)
(* Theorems about what a chat request makes of a sequence of any length:   *)
(* of the attempts of a repaired one (StructuredRepair, for any models,    *)
(* chains and counts), and of the messages of a conversation with tools    *)
(* (ToolConversation, for any names and replies): the ids of its calls,    *)
(* the names of its results and the bodies that the clients make of it.    *)
(***************************************************************************)
EXTENDS StructuredRepair, ToolConversation, TLAPS, FiniteSets, SequenceTheorems,
        FunctionTheorems, FiniteSetTheorems, WellFoundedInduction

-----------------------------------------------------------------------------
(* Induction.                                                              *)

\* A non-empty set of natural numbers has a least element.
LEMMA LeastNatural ==
  ASSUME NEW P, P \subseteq Nat, P # {}
  PROVE  \E k \in P : \A j \in P : k <= j
<1> DEFINE R == OpToRel(<, Nat)
<1>1. \A x, y \in Nat : x < y => <<x, y>> \in R
  BY DEF OpToRel
<1>2. IsWellFoundedOn(R, Nat)
  BY NatLessThanWellFounded
<1> HIDE DEF R
<1>3. PICK k \in P : \A j \in P : ~(<<j, k>> \in R)
  BY <1>2, WFMin
<1>4. \A j \in P : j \in Nat /\ k \in Nat /\ ~(j < k)
  BY <1>1, <1>3
<1> QED
  BY <1>4

\* Induction from m up to n, over a set.
LEMMA UpTo ==
    ASSUME NEW m \in Nat, NEW n \in Nat, NEW Q,
           m \in Q, \A i \in m..n : i \in Q /\ i # n => i + 1 \in Q
    PROVE  \A i \in m..n : i \in Q
<1> DEFINE P == {i \in m..n : i \notin Q}
<1>1. P \subseteq Nat
  OBVIOUS
<1>2. ASSUME P # {} PROVE FALSE
  <2>1. PICK k \in P : \A j \in P : k <= j
    <3> HIDE DEF P
    <3> QED BY <1>1, <1>2, LeastNatural
  <2>2. k # m /\ k \in m..n /\ k - 1 \in m..n /\ k - 1 # n /\ k - 1 + 1 = k /\ ~(k <= k - 1)
    BY <2>1
  <2>3. k - 1 \in Q
    BY <2>1, <2>2
  <2>4. k \in Q
    BY <2>2, <2>3
  <2> QED BY <2>1, <2>4
<1> QED BY <1>2

\* f on m..n has the first value and then what step makes of the one before.
Recursion(f, m, n, D, first, step) ==
    /\ f \in [m..n -> D]
    /\ \A i \in m..n : f[i] = IF i = m THEN first ELSE step[i][f[i - 1]]

\* There is such a function.
LEMMA RecursionExists ==
    ASSUME NEW m \in Nat, NEW n \in Nat, m <= n,
           NEW D, NEW first \in D, NEW step \in [m..n -> [D -> D]]
    PROVE  \E f : Recursion(f, m, n, D, first, step)
<1> DEFINE Upto(f, k) == /\ f \in [m..k -> D]
                         /\ \A i \in m..k : f[i] = IF i = m THEN first ELSE step[i][f[i - 1]]
           Q == {k \in m..n : \E f : Upto(f, k)}
<1>1. m \in Q
  <2> DEFINE g == [i \in m..m |-> first]
  <2>1. g \in [m..m -> D] /\ \A i \in m..m : i = m /\ g[i] = first
    OBVIOUS
  <2>2. Upto(g, m)
    BY <2>1
  <2>3. m \in m..n
    OBVIOUS
  <2> QED BY <2>2, <2>3
<1>2. ASSUME NEW k \in m..n, k \in Q, k # n PROVE k + 1 \in Q
  <2>1. PICK f : Upto(f, k)
    BY <1>2
  <2> DEFINE g == [i \in m..k + 1 |-> IF i = k + 1 THEN step[k + 1][f[k]] ELSE f[i]]
  <2>2. k \in m..k /\ f[k] \in D /\ k + 1 \in m..n /\ k \in Nat
    BY <1>2, <2>1
  <2>3. step[k + 1][f[k]] \in D
    BY <2>2
  <2>4. g \in [m..k + 1 -> D]
    BY <2>1, <2>2, <2>3
  <2>5. ASSUME NEW i \in m..k + 1
        PROVE  g[i] = IF i = m THEN first ELSE step[i][g[i - 1]]
    <3>1. CASE i = k + 1
      <4>1. i # m /\ i - 1 = k /\ i - 1 \in m..k + 1 /\ i - 1 # k + 1
        BY <2>2, <3>1
      <4>2. g[i - 1] = f[k] /\ g[i] = step[k + 1][f[k]]
        BY <3>1, <4>1
      <4> QED BY <3>1, <4>1, <4>2
    <3>2. CASE i # k + 1
      <4>1. i \in m..k /\ g[i] = f[i]
        BY <2>2, <3>2
      <4>2. i # m => i - 1 \in m..k /\ i - 1 # k + 1 /\ i - 1 \in m..k + 1
        BY <2>2, <4>1
      <4>3. i # m => g[i - 1] = f[i - 1]
        BY <4>2
      <4>4. f[i] = IF i = m THEN first ELSE step[i][f[i - 1]]
        BY <2>1, <4>1
      <4> QED BY <4>1, <4>3, <4>4
    <3> QED BY <3>1, <3>2
  <2>6. Upto(g, k + 1)
    BY <2>4, <2>5
  <2>7. k + 1 \in m..n
    BY <1>2, <2>2
  <2> QED BY <2>6, <2>7
<1>3. \A k \in m..n : k \in Q
  <2> HIDE DEF Q
  <2> QED BY <1>1, <1>2, UpTo
<1>4. n \in m..n
  OBVIOUS
<1>5. n \in Q
  <2> HIDE DEF Q
  <2> QED BY <1>3, <1>4
<1> QED BY <1>5 DEF Recursion

-----------------------------------------------------------------------------
(* The attempts of a repaired request.                                     *)

Results == {"none", "valid", "mismatch", "failed", "broken"}
Sends   == [model : Models, reserved : Models, result : Results,
            tokens : Counts \union {0}, counted : BOOLEAN]
Entries == [model : Models, tokens : Counts \union {0}, counted : BOOLEAN]

\* The model of the k-th attempt, counted from 0.
ModelOf(k) == IF k = 0 THEN Asked ELSE req.chain[k].id

\* An attempt that is yet to be made or under way is the next one of the chain,
\* priced as such, and all before it have broken the schema.
Current ==
    task \in {"begin", "admit", "post"} =>
        /\ attempt \in 0..Len(ModelIds)
        /\ target = ModelOf(attempt) /\ ctx = target
        /\ attempt > 0 => Applies(req)
        /\ Len(sends) = attempt + (IF task = "post" THEN 1 ELSE 0)
        /\ \A i \in DOMAIN sends : i <= attempt => sends[i].result = "mismatch"

\* There is always a chunk that is being sent.
Sending == task = "send" => pending # <<>>

IInv == TypeOK /\ AttemptsInOrder /\ Current /\ Sending

-----------------------------------------------------------------------------
(* Sums.                                                                   *)

\* S holds the sums of the first 0, 1, ..., n values of f.
Sums(S, n, f) ==
    S = [i \in 0..n |-> IF i = 0 THEN 0 ELSE S[i - 1] + f[i]]

\* Such an S exists ...
LEMMA SumsExist ==
    ASSUME NEW n \in Nat, NEW f PROVE \E S : Sums(S, n, f)
<1> DEFINE P == {k \in Nat : ~ \E S : Sums(S, k, f)}
<1>1. CASE P = {}
  BY <1>1
<1>2. ASSUME P # {} PROVE FALSE
  <2>1. PICK k \in P : \A j \in P : k <= j
    BY <1>2, LeastNatural
  <2>2. CASE k = 0
    <3>1. Sums([i \in 0..0 |-> 0], 0, f)
      BY DEF Sums
    <3> QED BY <2>1, <2>2, <3>1
  <2>3. CASE k # 0
    <3>1. k - 1 \in Nat /\ ~(k <= k - 1)
      BY <2>1, <2>3
    <3>2. PICK T : Sums(T, k - 1, f)
      BY <2>1, <3>1
    <3> DEFINE S == [i \in 0..k |-> IF i = k THEN T[k - 1] + f[k] ELSE T[i]]
    <3>3. T = [i \in 0..k - 1 |-> IF i = 0 THEN 0 ELSE T[i - 1] + f[i]]
      BY <3>2 DEF Sums
    <3>4. ASSUME NEW i \in 0..k
          PROVE  S[i] = IF i = 0 THEN 0 ELSE S[i - 1] + f[i]
      <4>1. CASE i = k
        BY <3>1, <4>1, <2>3
      <4>2. CASE i # k
        <5>1. i \in 0..k - 1 /\ S[i] = T[i]
          BY <4>2, <3>1
        <5>2. i # 0 => i - 1 \in 0..k - 1 /\ S[i - 1] = T[i - 1]
          BY <5>1, <3>1
        <5>3. T[i] = IF i = 0 THEN 0 ELSE T[i - 1] + f[i]
          BY <3>3, <5>1
        <5> QED BY <5>1, <5>2, <5>3
      <4> QED BY <4>1, <4>2
    <3>5. Sums(S, k, f)
      BY <3>4 DEF Sums
    <3> QED BY <2>1, <3>5
  <2> QED BY <2>2, <2>3
<1> QED BY <1>1, <1>2

\* ... and depends on the first n values alone, which add up to a number.
LEMMA SumsAgree ==
    ASSUME NEW n \in Nat, NEW m \in Nat, NEW f, NEW g, NEW S, NEW T,
           Sums(S, n, f), Sums(T, m, g), n <= m,
           \A i \in 1..n : f[i] \in Nat /\ f[i] = g[i]
    PROVE  \A i \in 0..n : S[i] \in Nat /\ S[i] = T[i]
<1> DEFINE P == {i \in 0..n : ~(S[i] \in Nat /\ S[i] = T[i])}
<1>1. /\ \A i \in 0..n : S[i] = IF i = 0 THEN 0 ELSE S[i - 1] + f[i]
      /\ \A i \in 0..n : T[i] = IF i = 0 THEN 0 ELSE T[i - 1] + g[i]
  <2>1. \A i \in 0..n : i \in 0..m
    OBVIOUS
  <2>2. \A i \in 0..m : T[i] = IF i = 0 THEN 0 ELSE T[i - 1] + g[i]
    BY DEF Sums
  <2>3. \A i \in 0..n : S[i] = IF i = 0 THEN 0 ELSE S[i - 1] + f[i]
    BY DEF Sums
  <2> QED BY <2>1, <2>2, <2>3
<1>2. ASSUME P # {} PROVE FALSE
  <2>0. P \subseteq Nat
    OBVIOUS
  <2>1. PICK k \in P : \A j \in P : k <= j
    <3> HIDE DEF P
    <3> QED BY <1>2, <2>0, LeastNatural
  <2>2. CASE k = 0
    BY <1>1, <2>1, <2>2
  <2>3. CASE k # 0
    <3>1. k \in 1..n /\ k - 1 \in 0..n /\ ~(k <= k - 1)
      BY <2>1, <2>3
    <3>2. S[k - 1] \in Nat /\ S[k - 1] = T[k - 1]
      BY <2>1, <3>1
    <3>3. S[k] = S[k - 1] + f[k] /\ T[k] = T[k - 1] + g[k]
      BY <1>1, <2>3, <3>1
    <3>4. S[k] \in Nat /\ S[k] = T[k]
      BY <3>1, <3>2, <3>3
    <3> QED BY <2>1, <3>4
  <2> QED BY <2>2, <2>3
<1> QED BY <1>2

\* SumTo is the last of them.
LEMMA SumIsLast ==
    ASSUME NEW n \in Nat, NEW f PROVE \E S : Sums(S, n, f) /\ SumTo(n, f) = S[n]
<1> DEFINE S == CHOOSE S : Sums(S, n, f)
<1>1. Sums(S, n, f)
  BY SumsExist
<1>2. SumTo(n, f) = S[n]
  BY DEF SumTo, Sums
<1> QED BY <1>1, <1>2

\* A sum of nothing.
LEMMA SumOfNone == ASSUME NEW f PROVE SumTo(0, f) = 0
<1>1. PICK S : Sums(S, 0, f) /\ SumTo(0, f) = S[0]
  BY SumIsLast
<1> QED BY <1>1 DEF Sums

\* Equal values have equal sums.
LEMMA SumsEqual ==
    ASSUME NEW n \in Nat, NEW f, NEW g, \A i \in 1..n : f[i] \in Nat /\ f[i] = g[i]
    PROVE  SumTo(n, f) = SumTo(n, g) /\ SumTo(n, f) \in Nat
<1>1. PICK S : Sums(S, n, f) /\ SumTo(n, f) = S[n]
  BY SumIsLast
<1>2. PICK T : Sums(T, n, g) /\ SumTo(n, g) = T[n]
  BY SumIsLast
<1>3. \A i \in 0..n : S[i] \in Nat /\ S[i] = T[i]
  BY <1>1, <1>2, SumsAgree
<1> QED BY <1>1, <1>2, <1>3

\* One value more.
LEMMA SumOfMore ==
    ASSUME NEW n \in Nat, NEW f, \A i \in 1..n + 1 : f[i] \in Nat
    PROVE  SumTo(n + 1, f) = SumTo(n, f) + f[n + 1]
<1>1. PICK S : Sums(S, n + 1, f) /\ SumTo(n + 1, f) = S[n + 1]
  BY SumIsLast
<1>2. PICK T : Sums(T, n, f) /\ SumTo(n, f) = T[n]
  BY SumIsLast
<1>3. \A i \in 1..n : f[i] \in Nat
  OBVIOUS
<1>4. \A i \in 0..n : T[i] = S[i]
  BY <1>1, <1>2, <1>3, SumsAgree
<1>5. S[n + 1] = S[n] + f[n + 1]
  BY <1>1 DEF Sums
<1> QED BY <1>1, <1>2, <1>4, <1>5

-----------------------------------------------------------------------------
\* The chain that is used is the first three configured models.
LEMMA ChainFacts ==
    ASSUME req \in Requests
    PROVE  /\ req.chain \in Seq([id : Models, cloud : BOOLEAN])
           /\ ModelIds \in Seq([id : Models, cloud : BOOLEAN])
           /\ Len(ModelIds) \in 0..3 /\ Len(ModelIds) <= Len(req.chain)
           /\ \A k \in 1..Len(ModelIds) : ModelIds[k] = req.chain[k] /\ ModelIds[k].id \in Models
<1> DEFINE S == [id : Models, cloud : BOOLEAN]
           n == IF Len(req.chain) < 3 THEN Len(req.chain) ELSE 3
<1>1. req.chain \in Seq(S)
  BY RepairAssumption DEF Requests, Request
<1>2. \A e \in S : e.id \in Models
  OBVIOUS
<1>3. ModelIds = SubSeq(req.chain, 1, n)
  BY DEF ModelIds
<1> HIDE DEF S
<1>4. Len(req.chain) \in Nat
  BY <1>1
<1>5. n \in 0..3 /\ n <= Len(req.chain)
  <2>1. \A m \in Nat : /\ (IF m < 3 THEN m ELSE 3) \in 0..3
                      /\ (IF m < 3 THEN m ELSE 3) <= m
    OBVIOUS
  <2> QED BY <1>4, <2>1, Zenon
<1> HIDE DEF n
<1>6. \A k \in 1..n : req.chain[k] \in S
  <2>1. \A k \in 1..n : k \in 1..Len(req.chain)
    BY <1>4, <1>5
  <2> QED BY <1>1, <2>1
<1>7. /\ ModelIds \in Seq(S)
      /\ Len(ModelIds) = n
      /\ \A k \in 1..n : ModelIds[k] = req.chain[k]
  <2>1. /\ SubSeq(req.chain, 1, n) \in Seq(S)
        /\ Len(SubSeq(req.chain, 1, n)) = IF 1 <= n THEN n - 1 + 1 ELSE 0
        /\ \A k \in 1..(n - 1 + 1) : SubSeq(req.chain, 1, n)[k] = req.chain[1 + k - 1]
    BY <1>5, <1>6, SubSeqProperties
  <2> QED BY <1>3, <1>5, <2>1
<1> QED BY <1>1, <1>2, <1>5, <1>6, <1>7 DEF S

\* The chunks of an answer.
LEMMA ChunkFacts ==
    Success \in Seq(Chunks) /\ Failure \in Seq(Chunks) /\ Crash \in Seq(Chunks)
<1>1. CASE req.stream
  <2>1. /\ <<"role", "content", "finish">> \in Seq(Chunks) /\ <<"usage">> \in Seq(Chunks)
        /\ <<"[DONE]">> \in Seq(Chunks) /\ <<>> \in Seq(Chunks)
        /\ <<"error", "[DONE]">> \in Seq(Chunks)
    BY DEF Chunks
  <2> QED BY <1>1, <2>1 DEF Success, Failure, Crash
<1>2. CASE ~req.stream
  BY <1>2 DEF Success, Failure, Crash, Chunks
<1> QED BY <1>1, <1>2

\* A request whose attempts are over.
LEMMA FinishFacts ==
    ASSUME IInv, NEW chunks \in Seq(Chunks), Finish(chunks)
    PROVE  /\ task' \in {"send", "over"} /\ pending' \in Seq(Chunks)
           /\ attempt' \in 0..3 /\ target' \in Models /\ ctx' \in Models
           /\ Sending'
BY DEF IInv, TypeOK, Finish, Sending

-----------------------------------------------------------------------------
\* The inductive invariant holds initially.
LEMMA Initial == Init => IInv
<1> SUFFICES ASSUME Init PROVE IInv
  OBVIOUS
<1>1. ModelIds \in Seq([id : Models, cloud : BOOLEAN]) /\ Len(ModelIds) \in Nat
  BY ChainFacts DEF Init
<1> QED BY <1>1, RepairAssumption
        DEF Init, IInv, TypeOK, AttemptsInOrder, Current, Sending, ModelOf

(* Every action keeps the inductive invariant.                             *)

LEMMA BeginStep == ASSUME IInv, Begin PROVE IInv'
<1>1. CASE Fail(Failure)
  <2>1. Finish(Failure) /\ usage' = usage
    BY <1>1 DEF Fail
  <2>2. TypeOK'
    BY <2>1, ChunkFacts, FinishFacts DEF IInv, TypeOK, Begin
  <2>3. AttemptsInOrder' /\ Current' /\ Sending'
    BY <2>1, ChunkFacts, FinishFacts
       DEF IInv, AttemptsInOrder, Current, Begin
  <2> QED BY <2>2, <2>3 DEF IInv
<1>2. CASE task' = "admit" /\ UNCHANGED <<attempt, target, ctx, usage, pending>>
  BY <1>2
     DEF IInv, TypeOK, AttemptsInOrder, Current, Sending, Begin, ModelOf, ModelIds
<1> QED BY <1>1, <1>2 DEF Begin

LEMMA RefuseStep == ASSUME IInv, Refuse PROVE IInv'
<1>1. Finish(Failure) /\ usage' = usage
  BY DEF Refuse, Fail
<1>2. TypeOK'
  BY <1>1, ChunkFacts, FinishFacts DEF IInv, TypeOK, Refuse
<1>3. AttemptsInOrder' /\ Current' /\ Sending'
  BY <1>1, ChunkFacts, FinishFacts DEF IInv, AttemptsInOrder, Current, Refuse
<1> QED BY <1>2, <1>3 DEF IInv

LEMMA AdmitStep == ASSUME IInv, Admit PROVE IInv'
<1> DEFINE s == [model |-> target, reserved |-> ctx, result |-> "none",
                 tokens |-> 0, counted |-> FALSE]
<1>1. s \in Sends /\ sends \in Seq(Sends)
  BY DEF Sends, Results, IInv, TypeOK
<1>2. /\ sends' = Append(sends, s) /\ sends' \in Seq(Sends)
      /\ Len(sends) = attempt /\ Len(sends') = attempt + 1
      /\ sends'[attempt + 1] = s
      /\ \A i \in DOMAIN sends : sends'[i] = sends[i]
      /\ DOMAIN sends = 1..attempt /\ DOMAIN sends' = 1..(attempt + 1)
  BY <1>1 DEF Admit, IInv, Current, TypeOK
<1>3. TypeOK'
  BY <1>2 DEF IInv, TypeOK, Admit, Sends, Results
<1>4. AttemptsInOrder'
  <2>1. ASSUME NEW i \in DOMAIN sends'
        PROVE  /\ sends'[i].model = (IF i = 1 THEN Asked ELSE req'.chain[i - 1].id)
               /\ sends'[i].reserved = sends'[i].model
               /\ i < Len(sends') => sends'[i].result = "mismatch" /\ Applies(req')
    <3>1. CASE i = attempt + 1
      <4>1. s.model = ModelOf(attempt) /\ s.reserved = s.model /\ attempt \in Nat
        BY DEF IInv, TypeOK, Current, Admit
      <4>2. i = 1 <=> attempt = 0
        BY <3>1, <4>1
      <4> QED BY <1>2, <3>1, <4>1, <4>2 DEF ModelOf, Admit
    <3>2. CASE i # attempt + 1
      <4>1. i \in 1..attempt /\ attempt > 0 /\ i \in DOMAIN sends
        BY <1>2, <3>2 DEF IInv, TypeOK
      <4> QED BY <1>2, <4>1 DEF IInv, AttemptsInOrder, Current, Admit
    <3> QED BY <3>1, <3>2
  <2>2. Len(records') = Len(sends') - 1
    BY <1>2 DEF IInv, AttemptsInOrder, Admit, TypeOK
  <2>3. \A i \in DOMAIN records' : records'[i].model = sends'[i].model
    <3>1. DOMAIN records = DOMAIN sends
      BY DEF IInv, AttemptsInOrder, Admit, TypeOK
    <3> QED BY <1>2, <3>1 DEF IInv, AttemptsInOrder, Admit
  <2> QED BY <2>1, <2>2, <2>3 DEF AttemptsInOrder, Admit
<1>5. Current' /\ Sending'
  BY <1>2 DEF IInv, TypeOK, Current, Sending, Admit, ModelOf, ModelIds
<1> QED BY <1>3, <1>4, <1>5 DEF IInv

\* What Respond does to the histories.
LEMMA RespondFacts ==
    ASSUME IInv, NEW o \in Outcomes, Respond(o)
    PROVE  /\ attempt \in 0..3 /\ Len(sends) = attempt + 1 /\ Len(sends') = attempt + 1
           /\ sends' \in Seq(Sends) /\ records' \in Seq(Entries)
           /\ sends'[attempt + 1].result = o.result
           /\ \A i \in 1..attempt : sends'[i].result = "mismatch"
           /\ \A i \in 1..attempt + 1 : /\ sends'[i].model = sends[i].model
                                        /\ sends'[i].reserved = sends[i].reserved
           /\ Len(records') = attempt + 1
           /\ \A i \in 1..attempt + 1 : records'[i].model = sends'[i].model
           /\ Added(o) \in Nat
           /\ sends'[attempt + 1].tokens = o.tokens /\ sends'[attempt + 1].counted = o.counted
           /\ records'[attempt + 1].tokens = o.tokens /\ records'[attempt + 1].counted = o.counted
           /\ \A i \in 1..attempt : sends'[i] = sends[i] /\ records'[i] = records[i]
           /\ Len(records) = attempt
<1>1. /\ task = "post" /\ attempt \in 0..3 /\ Len(sends) = attempt + 1
      /\ sends \in Seq(Sends) /\ records \in Seq(Entries) /\ Len(records) = attempt
      /\ ctx = ModelOf(attempt) /\ ctx \in Models
  <2>1. sends \in Seq(Sends) /\ records \in Seq(Entries)
    BY DEF IInv, TypeOK, Sends, Entries, Results
  <2>2. task = "post" /\ attempt \in 0..3 /\ ctx \in Models
    BY DEF IInv, TypeOK, Respond
  <2>3. Len(sends) = attempt + 1 /\ ctx = ModelOf(attempt)
    BY <2>2 DEF IInv, Current
  <2>4. Len(records) = attempt
    BY <2>2, <2>3 DEF IInv, AttemptsInOrder
  <2> QED BY <2>1, <2>2, <2>3, <2>4
<1>2. /\ o.result \in Results /\ o.tokens \in Counts \union {0} /\ o.counted \in BOOLEAN
      /\ o.tokens \in Nat
  <2>1. o \in Outcome
    BY DEF Outcomes
  <2>2. o.result \in Results
    BY <2>1 DEF Outcome, Results
  <2>3. o.tokens \in Counts \union {0} /\ o.counted \in BOOLEAN
    BY <2>1 DEF Outcome
  <2>4. Counts \union {0} \subseteq Nat
    BY RepairAssumption
  <2> QED BY <2>2, <2>3, <2>4
<1> DEFINE n == attempt + 1
           t == [sends[n] EXCEPT !.result = o.result, !.tokens = o.tokens, !.counted = o.counted]
           r == [model |-> ctx, tokens |-> o.tokens, counted |-> o.counted]
<1>3. n \in 1..Len(sends) /\ sends[n] \in Sends
  BY <1>1
<1>4. t \in Sends /\ t.model = sends[n].model /\ t.reserved = sends[n].reserved
      /\ t.result = o.result /\ t.tokens = o.tokens /\ t.counted = o.counted
  BY <1>2, <1>3 DEF Sends
<1>5. sends' = [sends EXCEPT ![n] = t]
  BY <1>1, <1>3 DEF Respond, Sends
<1>6. /\ sends' \in Seq(Sends) /\ Len(sends') = n /\ sends'[n] = t
      /\ \A i \in 1..attempt : sends'[i] = sends[i]
  BY <1>1, <1>3, <1>4, <1>5
<1>7. \A i \in 1..attempt : sends[i].result = "mismatch"
  BY <1>1 DEF IInv, Current
<1>8. r \in Entries /\ records' = Append(records, r)
  BY <1>1, <1>2 DEF Entries, Respond
<1>9. records' \in Seq(Entries) /\ Len(records') = n /\ records'[n] = r
      /\ \A i \in 1..attempt : records'[i] = records[i]
  BY <1>1, <1>8
<1>10. sends[n].model = ctx
  BY <1>1, <1>3 DEF IInv, AttemptsInOrder, ModelOf
<1>11. \A i \in 1..attempt : records[i].model = sends[i].model
  BY <1>1 DEF IInv, AttemptsInOrder
<1>12. \A i \in 1..n : i \in 1..attempt \/ i = n
  BY <1>1
<1>13. Added(o) \in Nat
  BY <1>2 DEF Added, IInv, TypeOK
<1> HIDE DEF r, t
<1>14. \A i \in 1..n : sends'[i].model = sends[i].model /\ sends'[i].reserved = sends[i].reserved
  BY <1>4, <1>6, <1>12
<1>15. r.model = ctx /\ r.tokens = o.tokens /\ r.counted = o.counted
  BY DEF r
<1>16. \A i \in 1..n : records'[i].model = sends'[i].model
  BY <1>9, <1>10, <1>11, <1>12, <1>14, <1>15
<1> QED BY <1>1, <1>4, <1>6, <1>7, <1>9, <1>13, <1>14, <1>15, <1>16

LEMMA RespondStep == ASSUME IInv, NEW o \in Outcomes, Respond(o) PROVE IInv'
<1> USE RespondFacts
<1>1. AttemptsInOrder' \/ task' = "post"
  <2>1. DOMAIN sends' = 1..(attempt + 1) /\ DOMAIN records' = 1..(attempt + 1)
        /\ DOMAIN sends = 1..(attempt + 1)
    BY DEF IInv, TypeOK
  <2>2. \A i \in 1..(attempt + 1) :
           /\ sends[i].model = (IF i = 1 THEN Asked ELSE req.chain[i - 1].id)
           /\ sends[i].reserved = sends[i].model
    BY <2>1 DEF IInv, AttemptsInOrder
  <2>3. \A i \in 1..(attempt + 1) : i < attempt + 1 => i \in 1..attempt /\ attempt > 0
    OBVIOUS
  <2>4. attempt > 0 => Applies(req)
    BY DEF IInv, Current, Respond
  <2>5. req' = req
    BY DEF Respond
  <2> QED BY <2>1, <2>2, <2>3, <2>4, <2>5 DEF AttemptsInOrder
<1>2. req' = req /\ sent' = sent /\ aggregate' \in Nat
  <2>1. o.result \in {"valid", "mismatch", "failed", "broken"} /\ aggregate \in Nat
    BY DEF Outcomes, Outcome, IInv, TypeOK
  <2>2. o.result \in {"valid", "mismatch"} => aggregate' = Added(o)
    BY DEF Respond
  <2>3. o.result \in {"failed", "broken"} => aggregate' = aggregate
    BY DEF Respond
  <2> QED BY <2>1, <2>2, <2>3 DEF Respond
<1>3. ASSUME NEW chunks \in Seq(Chunks), Finish(chunks), usage' \in Nat
      PROVE  IInv'
  <2>1. TypeOK'
    BY <1>2, <1>3, FinishFacts DEF IInv, TypeOK, Sends, Results, Entries
  <2> QED BY <1>1, <1>3, <2>1, FinishFacts DEF IInv, Current
<1>4. CASE Answer(Added(o))
  BY <1>3, <1>4, ChunkFacts DEF Answer
<1>5. CASE Fail(Failure) \/ Fail(Crash)
  BY <1>3, <1>5, ChunkFacts DEF Fail, IInv, TypeOK
<1>6. CASE o.result = "mismatch" /\ Applies(req) /\ attempt # Len(ModelIds) /\ Try(attempt + 1)
  <2>1. attempt \in 0..Len(ModelIds) /\ req \in Requests
    BY DEF IInv, Current, Respond, TypeOK
  <2>2. /\ attempt + 1 \in 1..Len(ModelIds) /\ Len(ModelIds) \in 0..3
        /\ attempt + 1 \in 0..3
    <3> DEFINE n == Len(ModelIds)
    <3>1. n \in 0..3 /\ attempt # n /\ attempt \in 0..n
      BY <1>6, <2>1, ChainFacts
    <3> HIDE DEF n
    <3>2. attempt + 1 \in 1..n /\ attempt + 1 \in 0..3
      BY <3>1
    <3> QED BY <3>1, <3>2 DEF n
  <2>3. ModelIds[attempt + 1].id = req.chain[attempt + 1].id /\ ModelIds[attempt + 1].id \in Models
    BY <2>1, <2>2, ChainFacts
  <2>4. /\ attempt' = attempt + 1 /\ task' = "admit" /\ usage' = usage /\ pending' = pending
        /\ target' = req.chain[attempt + 1].id /\ ctx' = target' /\ target' \in Models
    BY <1>6, <2>3 DEF Try
  <2>5. TypeOK'
    <3>1. attempt' \in 0..3
      BY <2>2, <2>4
    <3>2. /\ req' \in Requests /\ target' \in Models /\ ctx' \in Models
          /\ usage' \in Nat /\ pending' \in Seq(Chunks) /\ sent' \in Seq(Chunks)
      BY <1>2, <2>4 DEF IInv, TypeOK
    <3>3. sends' \in Seq(Sends) /\ records' \in Seq(Entries)
      OBVIOUS
    <3> QED BY <1>2, <2>4, <3>1, <3>2, <3>3 DEF TypeOK, Sends, Results, Entries
  <2>6. \A i \in 1..(attempt + 1) : sends'[i].result = "mismatch"
    <3>1. \A i \in 1..(attempt + 1) : i \in 1..attempt \/ i = attempt + 1
      OBVIOUS
    <3> QED BY <1>6, <3>1
  <2>7. ModelIds' = ModelIds /\ Applies(req')
    BY <1>2, <1>6 DEF ModelIds
  <2>8. attempt' \in 0..Len(ModelIds') /\ attempt' # 0 /\ DOMAIN sends' = 1..attempt'
        /\ Len(sends') = attempt'
    BY <2>2, <2>4, <2>7
  <2>9. Current'
    BY <1>2, <2>4, <2>6, <2>7, <2>8 DEF Current, ModelOf
  <2> QED BY <1>1, <2>4, <2>5, <2>9 DEF IInv, Sending
<1> QED
  <2>1. o.result \in {"valid", "mismatch", "failed", "broken"}
    BY DEF Outcomes, Outcome
  <2>2. CASE o.result = "mismatch"
    <3>1. Repair
      BY <2>2 DEF Respond
    <3> QED BY <1>5, <1>6, <2>2, <3>1 DEF Repair
  <2>3. CASE o.result # "mismatch"
    BY <1>4, <1>5, <2>1, <2>3 DEF Respond
  <2> QED BY <2>2, <2>3

LEMMA SendStep == ASSUME IInv, Send PROVE IInv'
<1>1. CASE pending = <<>>
  BY <1>1 DEF IInv, Sending, Send
<1>2. CASE pending # <<>>
  <2>1. Head(pending) \in Chunks /\ Tail(pending) \in Seq(Chunks)
    BY <1>2 DEF IInv, TypeOK
  <2>2. TypeOK' /\ task' \in {"send", "over"} /\ task = "send"
    BY <2>1 DEF IInv, TypeOK, Send
  <2>3. AttemptsInOrder' /\ Current'
    BY <2>2 DEF IInv, AttemptsInOrder, Current, Send
  <2>4. Sending'
    <3>1. pending \in Seq(Chunks)
      BY DEF IInv, TypeOK
    <3>2. Len(pending) # 1 => Tail(pending) # <<>>
      <4> HIDE DEF Chunks
      <4>1. Len(Tail(pending)) = Len(pending) - 1 /\ Len(pending) \in Nat /\ Len(pending) # 0
        BY <1>2, <3>1
      <4> QED BY <4>1
    <3> QED BY <3>2 DEF Send, Sending
  <2> QED BY <2>2, <2>3, <2>4 DEF IInv
<1> QED BY <1>1, <1>2

LEMMA DisconnectStep == ASSUME IInv, Disconnect PROVE IInv'
<1> DEFINE r == [model |-> ctx, tokens |-> 0, counted |-> FALSE]
<1>1. r \in Entries /\ records \in Seq(Entries) /\ sends \in Seq(Sends)
  BY DEF IInv, TypeOK, Entries, Sends, Results
<1>2. TypeOK'
  <2>1. records' \in Seq(Entries)
    BY <1>1 DEF Disconnect
  <2>2. <<>> \in Seq(Chunks)
    OBVIOUS
  <2> QED BY <2>1, <2>2 DEF IInv, TypeOK, Disconnect, Entries
<1>3. Current' /\ Sending'
  BY DEF Disconnect, Current, Sending
<1>4. CASE task = "post"
  <2>1. /\ records' = Append(records, r) /\ Len(records') = Len(sends)
        /\ Len(records) = attempt /\ Len(sends) = attempt + 1 /\ attempt \in Nat
    BY <1>1, <1>4 DEF Disconnect, IInv, AttemptsInOrder, Current, TypeOK
  <2>2. \A i \in 1..(attempt + 1) : records'[i].model = sends[i].model
    <3>1. sends[attempt + 1].model = ctx
      BY <1>1, <1>4, <2>1 DEF IInv, AttemptsInOrder, Current, ModelOf
    <3>2. records'[attempt + 1] = r /\ \A i \in 1..attempt : records'[i] = records[i]
      BY <1>1, <2>1
    <3>3. \A i \in 1..attempt : records[i].model = sends[i].model
      BY <1>1, <2>1 DEF IInv, AttemptsInOrder
    <3>4. \A i \in 1..(attempt + 1) : i \in 1..attempt \/ i = attempt + 1
      BY <2>1
    <3> QED BY <3>1, <3>2, <3>3, <3>4
  <2>3. DOMAIN records' = 1..(attempt + 1)
    BY <1>1, <2>1
  <2> QED BY <1>1, <1>2, <1>3, <2>1, <2>2, <2>3 DEF IInv, AttemptsInOrder, Disconnect
<1>5. CASE task # "post"
  BY <1>2, <1>3, <1>5 DEF IInv, AttemptsInOrder, Disconnect
<1> QED BY <1>4, <1>5

\* The invariant is inductive.
LEMMA Inductive == IInv /\ [Next]_vars => IInv'
<1> SUFFICES ASSUME IInv, [Next]_vars PROVE IInv'
  OBVIOUS
<1>1. CASE UNCHANGED vars
  BY <1>1 DEF vars, IInv, TypeOK, AttemptsInOrder, Current, Sending, ModelOf, ModelIds
<1>2. CASE Next
  BY <1>2, BeginStep, AdmitStep, RefuseStep, RespondStep, SendStep, DisconnectStep DEF Next
<1> QED BY <1>1, <1>2

\* The type invariant of the repair.
THEOREM RepairTypes == Spec => []TypeOK
<1>1. IInv => TypeOK
  BY DEF IInv
<1> QED BY <1>1, Initial, Inductive, PTL DEF Spec

\* For any chain that is configured, the attempts follow it, each at its own
\* price and recorded once (_generate_ollama_with_structured_output_repair).
THEOREM RepairAttemptsInOrder == Spec => []AttemptsInOrder
<1>1. IInv => AttemptsInOrder
  BY DEF IInv
<1> QED BY <1>1, Initial, Inductive, PTL DEF Spec

-----------------------------------------------------------------------------
(* What an answer says it has cost.                                        *)

Content == {"role", "content", "finish", "usage", "body"}
HasContent(s) == \E i \in DOMAIN s : s[i] \in Content

\* Nothing more is sent to Ollama.
Accepted ==
    /\ task \in {"send", "over"} /\ sends # <<>> /\ sends[Len(sends)].result = "valid"
    /\ usage = Tokens(sends)

\* The aggregate is that of the attempts which have ended, every record is that
\* of its attempt, also when the client left it, and nothing is sent before an
\* output is accepted.
Paid ==
    /\ \A i \in DOMAIN records : /\ records[i].tokens = sends[i].tokens
                                 /\ records[i].counted = sends[i].counted
    /\ task = "post" => sends[Len(sends)].tokens = 0 /\ ~sends[Len(sends)].counted
    /\ task \in {"begin", "admit", "post"} =>
          aggregate = Tokens(sends) /\ pending = <<>> /\ sent = <<>>
    /\ HasContent(pending) \/ HasContent(sent) => Accepted

LEMMA SendsTokens == \A s \in Sends : s.tokens \in Nat
<1>1. \A s \in Sends : s.tokens \in Counts \union {0}
  BY DEF Sends
<1>2. Counts \union {0} \subseteq Nat
  BY RepairAssumption
<1> QED BY <1>1, <1>2

\* The histories are sequences of records with numbers of tokens.
LEMMA Histories ==
    ASSUME IInv
    PROVE  /\ sends \in Seq(Sends) /\ DOMAIN sends = 1..Len(sends)
           /\ records \in Seq(Entries) /\ DOMAIN records = 1..Len(records)
           /\ Len(sends) \in Nat /\ Len(records) \in Nat /\ Len(records) <= Len(sends)
           /\ task # "post" => Len(records) = Len(sends)
           /\ \A i \in 1..Len(sends) : sends[i].tokens \in Nat
<1>1. sends \in Seq(Sends) /\ records \in Seq(Entries)
  BY DEF IInv, TypeOK, Sends, Entries, Results
<1>3. Len(records) = Len(sends) - (IF task = "post" THEN 1 ELSE 0)
  BY DEF IInv, AttemptsInOrder
<1>4. \A i \in 1..Len(sends) : sends[i] \in Sends
  BY <1>1
<1> HIDE DEF Sends, Entries
<1> QED BY <1>1, SendsTokens, <1>3, <1>4

\* Two histories that differ in their last attempt only.
LEMMA LastTokens ==
    ASSUME NEW n \in Nat, NEW s, NEW t, DOMAIN s = 1..n + 1, DOMAIN t = 1..n + 1,
           Len(s) = n + 1, Len(t) = n + 1,
           \A i \in 1..n + 1 : s[i].tokens \in Nat /\ t[i].tokens \in Nat,
           \A i \in 1..n : s[i].tokens = t[i].tokens
    PROVE  Tokens(s) + t[n + 1].tokens = Tokens(t) + s[n + 1].tokens
<1> DEFINE f == [i \in DOMAIN s |-> s[i].tokens]
           g == [i \in DOMAIN t |-> t[i].tokens]
<1>1. \A i \in 1..n + 1 : f[i] \in Nat /\ g[i] \in Nat
  OBVIOUS
<1>2. \A i \in 1..n : f[i] \in Nat /\ f[i] = g[i]
  OBVIOUS
<1>3. f[n + 1] = s[n + 1].tokens /\ g[n + 1] = t[n + 1].tokens
  OBVIOUS
<1>4. Tokens(s) = SumTo(n + 1, f) /\ Tokens(t) = SumTo(n + 1, g)
  BY DEF Tokens
<1> HIDE DEF f, g
<1>5. SumTo(n + 1, f) = SumTo(n, f) + f[n + 1] /\ SumTo(n + 1, g) = SumTo(n, g) + g[n + 1]
  BY <1>1, SumOfMore
<1>6. SumTo(n, f) = SumTo(n, g) /\ SumTo(n, f) \in Nat
  BY <1>2, SumsEqual
<1>7. f[n + 1] \in Nat /\ g[n + 1] \in Nat
  BY <1>1
<1> QED BY <1>3, <1>4, <1>5, <1>6, <1>7

\* An attempt more, of no tokens yet.
LEMMA NoTokensYet ==
    ASSUME NEW n \in Nat, NEW s, NEW t, DOMAIN s = 1..n, DOMAIN t = 1..n + 1,
           Len(s) = n, Len(t) = n + 1,
           \A i \in 1..n : s[i].tokens \in Nat /\ s[i].tokens = t[i].tokens,
           t[n + 1].tokens = 0
    PROVE  Tokens(t) = Tokens(s)
<1> DEFINE f == [i \in DOMAIN s |-> s[i].tokens]
           g == [i \in DOMAIN t |-> t[i].tokens]
<1>1. \A i \in 1..n + 1 : g[i] \in Nat
  <2>1. \A i \in 1..n + 1 : i \in 1..n \/ i = n + 1
    OBVIOUS
  <2> QED BY <2>1
<1>2. \A i \in 1..n : f[i] \in Nat /\ f[i] = g[i]
  OBVIOUS
<1>3. g[n + 1] = 0
  OBVIOUS
<1>4. Tokens(s) = SumTo(n, f) /\ Tokens(t) = SumTo(n + 1, g)
  BY DEF Tokens
<1> HIDE DEF f, g
<1>5. SumTo(n + 1, g) = SumTo(n, g) + g[n + 1]
  BY <1>1, SumOfMore
<1>6. SumTo(n, f) = SumTo(n, g) /\ SumTo(n, f) \in Nat
  BY <1>2, SumsEqual
<1> QED BY <1>3, <1>4, <1>5, <1>6

\* Only an answer has content.
LEMMA NoContent ==
    ~HasContent(Failure) /\ ~HasContent(Crash) /\ ~HasContent(<<>>)
BY DEF Failure, Crash, HasContent, Content

LEMMA PaidInit == Init => Paid
<1> SUFFICES ASSUME Init PROVE Paid
  OBVIOUS
<1>1. Tokens(sends) = 0
  BY SumOfNone DEF Init, Tokens
<1> QED BY <1>1, NoContent DEF Init, Paid

\* The request ends without an answer, before anything was sent.
LEMMA PaidFail ==
    ASSUME IInv, Paid, task \in {"begin", "admit", "post"},
           NEW chunks, ~HasContent(chunks), Finish(chunks), sent' = sent,
           \A i \in DOMAIN records' : /\ records'[i].tokens = sends'[i].tokens
                                      /\ records'[i].counted = sends'[i].counted
    PROVE  Paid'
<1>1. sent' = <<>> /\ ~HasContent(sent')
  BY NoContent DEF Paid
<1>2. task' \in {"send", "over"} /\ ~HasContent(pending')
  BY DEF Finish
<1> QED BY <1>1, <1>2 DEF Paid

LEMMA PaidRespond == ASSUME IInv, Paid, NEW o \in Outcomes, Respond(o) PROVE Paid'
<1> DEFINE n == attempt
<1>1. /\ task = "post" /\ sent' = sent
      /\ aggregate = Tokens(sends) /\ sends[n + 1].tokens = 0 /\ sent = <<>> /\ pending = <<>>
  BY RespondFacts DEF Paid, Respond
<1>2. /\ n \in Nat /\ Len(sends) = n + 1 /\ Len(sends') = n + 1
      /\ Len(records) = n /\ Len(records') = n + 1
      /\ sends' \in Seq(Sends) /\ records' \in Seq(Entries)
      /\ DOMAIN sends = 1..n + 1 /\ DOMAIN sends' = 1..n + 1
      /\ DOMAIN records = 1..n /\ DOMAIN records' = 1..n + 1
  <2>1. /\ n \in Nat /\ Len(sends) = n + 1 /\ Len(sends') = n + 1
        /\ Len(records) = n /\ Len(records') = n + 1
        /\ sends' \in Seq(Sends) /\ records' \in Seq(Entries)
    BY RespondFacts
  <2>2. DOMAIN sends' = 1..Len(sends') /\ DOMAIN records' = 1..Len(records')
    BY <2>1
  <2> QED BY <2>1, <2>2, Histories
<1>3. /\ sends'[n + 1].tokens = o.tokens /\ sends'[n + 1].counted = o.counted
      /\ records'[n + 1].tokens = o.tokens /\ records'[n + 1].counted = o.counted
      /\ \A i \in 1..n : sends'[i] = sends[i] /\ records'[i] = records[i]
      /\ sends'[n + 1].result = o.result
  BY RespondFacts
<1>4. \A i \in 1..n + 1 : i \in 1..n \/ i = n + 1
  BY <1>2
<1>5. \A i \in DOMAIN records' : /\ records'[i].tokens = sends'[i].tokens
                                 /\ records'[i].counted = sends'[i].counted
  <2>1. \A i \in 1..n : /\ records[i].tokens = sends[i].tokens
                        /\ records[i].counted = sends[i].counted
    BY <1>2 DEF Paid
  <2> QED BY <1>2, <1>3, <1>4, <2>1
<1>6. Tokens(sends') = Added(o)
  <2>1. \A i \in 1..n + 1 : sends[i].tokens \in Nat /\ sends'[i].tokens \in Nat
    <3>1. \A i \in 1..n + 1 : sends'[i] \in Sends
      BY <1>2
    <3> QED BY <1>2, <3>1, Histories, SendsTokens
  <2>2. Tokens(sends) + sends'[n + 1].tokens = Tokens(sends') + sends[n + 1].tokens
    BY <1>2, <1>3, <2>1, LastTokens
  <2>3. Tokens(sends') \in Nat
    <3> DEFINE g == [i \in DOMAIN sends' |-> sends'[i].tokens]
    <3>1. \A i \in 1..n + 1 : g[i] \in Nat /\ g[i] = g[i]
      BY <1>2, <2>1
    <3> HIDE DEF g
    <3>2. SumTo(n + 1, g) \in Nat
      BY <1>2, <3>1, SumsEqual
    <3> QED BY <1>2, <3>2 DEF Tokens, g
  <2> QED BY <1>1, <1>3, <2>2, <2>3 DEF Added
<1>7. CASE o.result = "valid"
  <2>1. Finish(Success) /\ usage' = Added(o)
    BY <1>7 DEF Respond, Answer
  <2>2. task' \in {"send", "over"} /\ Accepted'
    BY <1>2, <1>3, <1>6, <1>7, <2>1 DEF Finish, Accepted
  <2> QED BY <1>5, <2>2 DEF Paid
<1>8. CASE o.result = "mismatch"
  <2>1. Repair /\ aggregate' = Added(o)
    BY <1>8 DEF Respond
  <2>2. CASE Fail(Failure)
    BY <1>1, <1>5, <2>2, NoContent, PaidFail DEF Fail
  <2>3. CASE Try(attempt + 1)
    BY <1>1, <1>5, <1>6, <2>1, <2>3, NoContent DEF Try, Paid
  <2> QED BY <2>1, <2>2, <2>3 DEF Repair
<1>9. CASE o.result \in {"failed", "broken"}
  <2>1. Fail(Failure) \/ Fail(Crash)
    BY <1>9 DEF Respond
  <2> QED BY <1>1, <1>5, <2>1, NoContent, PaidFail DEF Fail
<1>10. o.result \in {"valid", "mismatch", "failed", "broken"}
  BY DEF Outcomes, Outcome
<1> QED BY <1>7, <1>8, <1>9, <1>10

LEMMA PaidAdmit == ASSUME IInv, Paid, Admit PROVE Paid'
<1> DEFINE n == Len(sends)
           s == [model |-> target, reserved |-> ctx, result |-> "none",
                 tokens |-> 0, counted |-> FALSE]
<1>1. /\ n \in Nat /\ sends \in Seq(Sends) /\ DOMAIN sends = 1..n
      /\ DOMAIN records = 1..n /\ \A i \in 1..n : sends[i].tokens \in Nat
  BY Histories, Zenon DEF Admit
<1>2. s \in Sends
  BY DEF Sends, Results, IInv, TypeOK
<1>3. /\ Len(sends') = n + 1 /\ DOMAIN sends' = 1..n + 1 /\ sends'[n + 1] = s
      /\ \A i \in 1..n : sends'[i] = sends[i]
  BY <1>1, <1>2 DEF Admit
<1>4. Tokens(sends') = Tokens(sends)
  <2>1. \A i \in 1..n : sends[i].tokens \in Nat /\ sends[i].tokens = sends'[i].tokens
    BY <1>1, <1>3
  <2>2. sends'[n + 1].tokens = 0
    BY <1>3
  <2>3. Len(sends) = n
    OBVIOUS
  <2> HIDE DEF n, s
  <2> QED BY <1>1, <1>3, <2>1, <2>2, <2>3, NoTokensYet
<1>5. \A i \in DOMAIN records' : /\ records'[i].tokens = sends'[i].tokens
                                 /\ records'[i].counted = sends'[i].counted
  BY <1>1, <1>3 DEF Admit, Paid
<1>6. /\ task = "admit" /\ task' = "post" /\ UNCHANGED <<pending, sent, aggregate>>
      /\ sends'[Len(sends')] = s
  BY <1>3 DEF Admit
<1>7. aggregate = Tokens(sends) /\ pending = <<>> /\ sent = <<>>
  BY <1>6 DEF Paid
<1>8. ~HasContent(pending') /\ ~HasContent(sent')
  BY <1>6, <1>7, NoContent
<1> QED BY <1>4, <1>5, <1>6, <1>7, <1>8 DEF Paid

LEMMA PaidSend == ASSUME IInv, Paid, Send PROVE Paid'
<1>1. pending # <<>> /\ pending \in Seq(Chunks) /\ sent \in Seq(Chunks)
  BY DEF Send, IInv, Sending, TypeOK
<1>2. Head(pending) \in Content => HasContent(pending)
  BY <1>1 DEF HasContent
<1>3. HasContent(Tail(pending)) => HasContent(pending)
  <2>1. ASSUME NEW i \in DOMAIN Tail(pending), Tail(pending)[i] \in Content
        PROVE  HasContent(pending)
    <3>1. i + 1 \in DOMAIN pending /\ pending[i + 1] = Tail(pending)[i]
      <4> HIDE DEF Chunks
      <4> QED BY <1>1, HeadTailProperties
    <3> QED BY <2>1, <3>1 DEF HasContent
  <2> QED BY <2>1 DEF HasContent
<1>4. HasContent(sent') => HasContent(sent) \/ Head(pending) \in Content
  <2>1. Head(pending) \in Chunks
    BY <1>1
  <2>2. /\ DOMAIN sent' = 1..Len(sent) + 1 /\ DOMAIN sent = 1..Len(sent)
        /\ sent'[Len(sent) + 1] = Head(pending)
        /\ \A i \in 1..Len(sent) : sent'[i] = sent[i]
    BY <1>1, <2>1 DEF Send
  <2>3. \A i \in 1..Len(sent) + 1 : i \in 1..Len(sent) \/ i = Len(sent) + 1
    BY <1>1
  <2> QED BY <2>2, <2>3 DEF HasContent
<1>5. HasContent(pending') \/ HasContent(sent') => Accepted
  BY <1>2, <1>3, <1>4 DEF Send, Paid
<1>6. Accepted => Accepted'
  BY DEF Send, Accepted
<1> QED BY <1>5, <1>6 DEF Send, Paid

LEMMA PaidDisconnect == ASSUME IInv, Paid, Disconnect PROVE Paid'
<1>1. \A i \in DOMAIN records' : /\ records'[i].tokens = sends'[i].tokens
                                 /\ records'[i].counted = sends'[i].counted
  <2>1. CASE task = "post"
    <3> DEFINE n == Len(records)
               r == [model |-> ctx, tokens |-> 0, counted |-> FALSE]
    <3>1. n \in Nat /\ DOMAIN records = 1..n /\ Len(sends) = n + 1 /\ records \in Seq(Entries)
      BY <2>1, Histories DEF IInv, AttemptsInOrder
    <3>2. r \in Entries
      BY DEF Entries, IInv, TypeOK
    <3>3. /\ DOMAIN records' = 1..n + 1 /\ records'[n + 1] = r
          /\ \A i \in 1..n : records'[i] = records[i]
      BY <2>1, <3>1, <3>2 DEF Disconnect
    <3>4. sends[n + 1].tokens = 0 /\ sends[n + 1].counted = FALSE
      <4> HIDE DEF n
      <4>1. n + 1 \in 1..Len(sends)
        BY <3>1
      <4>2. sends[n + 1] \in Sends
        BY <4>1, Histories, ElementOfSeq
      <4>3. sends[n + 1].counted \in BOOLEAN
        BY <4>2 DEF Sends
      <4> QED BY <2>1, <3>1, <4>3 DEF Paid
    <3>5. \A i \in 1..n + 1 : i \in 1..n \/ i = n + 1
      BY <3>1
    <3>6. sends' = sends /\ r.tokens = 0 /\ r.counted = FALSE
      BY DEF Disconnect
    <3>7. \A i \in 1..n : /\ records[i].tokens = sends[i].tokens
                          /\ records[i].counted = sends[i].counted
      BY <3>1 DEF Paid
    <3> HIDE DEF r, n
    <3> QED BY <3>3, <3>4, <3>5, <3>6, <3>7
  <2>2. CASE task # "post"
    BY <2>2 DEF Paid, Disconnect
  <2> QED BY <2>1, <2>2
<1>2. HasContent(pending') \/ HasContent(sent') => HasContent(sent)
  BY NoContent DEF Disconnect
<1>3. Accepted => Accepted'
  BY DEF Disconnect, Accepted
<1> QED BY <1>1, <1>2, <1>3 DEF Disconnect, Paid

LEMMA PaidNext == IInv /\ Paid /\ [Next]_vars => Paid'
<1> SUFFICES ASSUME IInv, Paid, [Next]_vars PROVE Paid'
  OBVIOUS
<1>1. CASE Begin
  <2>1. CASE Fail(Failure)
    BY <1>1, <2>1, NoContent, PaidFail DEF Begin, Fail, Paid
  <2>2. CASE task' = "admit" /\ UNCHANGED <<attempt, target, ctx, usage, pending>>
    BY <1>1, <2>2, NoContent DEF Begin, Paid
  <2> QED BY <1>1, <2>1, <2>2 DEF Begin
<1>2. CASE Refuse
  BY <1>2, NoContent, PaidFail DEF Refuse, Fail, Paid
<1>3. CASE UNCHANGED vars
  BY <1>3 DEF vars, Paid, HasContent, Accepted
<1> QED BY <1>1, <1>2, <1>3, PaidAdmit, PaidRespond, PaidSend, PaidDisconnect DEF Next

\* For any chain and any counts of tokens: nothing of an answer is sent before an
\* output was accepted, and the usage in it is the sum over all attempts, which
\* is what the ledger charges when the meter could read every one of them.
THEOREM RepairAnswerIsPaidFor == Spec => []AnswerIsPaidFor
<1>1. IInv /\ Paid => AnswerIsPaidFor
  <2> SUFFICES ASSUME IInv, Paid, HasContent(sent) PROVE
          /\ sends[Len(sends)].result = "valid"
          /\ usage = Tokens(sends)
          /\ (\A k \in DOMAIN sends : sends[k].counted) => usage = Charged(records)
    BY DEF AnswerIsPaidFor, HasContent, Content
  <2>1. Accepted
    BY DEF Paid
  <2>2. ASSUME \A k \in DOMAIN sends : sends[k].counted
        PROVE  Charged(records) = Tokens(sends)
    <3> DEFINE f == [i \in DOMAIN sends |-> sends[i].tokens]
               g == [i \in DOMAIN records |-> IF records[i].counted THEN records[i].tokens ELSE 0]
    <3>1. Len(records) = Len(sends) /\ Len(sends) \in Nat
          /\ DOMAIN records = 1..Len(sends) /\ DOMAIN sends = 1..Len(sends)
      BY <2>1, Histories DEF Accepted
    <3>2. \A i \in 1..Len(sends) : f[i] \in Nat /\ f[i] = g[i]
      BY <2>2, <3>1, Histories DEF Paid
    <3> HIDE DEF f, g
    <3>3. SumTo(Len(sends), f) = SumTo(Len(sends), g)
      BY <3>1, <3>2, SumsEqual
    <3> QED BY <3>1, <3>3 DEF Charged, Tokens, f, g
  <2> QED BY <2>1, <2>2 DEF Accepted
<1> QED BY <1>1, Initial, Inductive, PaidInit, PaidNext, PTL DEF Spec

-----------------------------------------------------------------------------
\* f keeps the parts of one kind, of the first 0, 1, ... parts.
Kept(f, parts, kind) ==
    f = [i \in 0..Len(parts) |->
            IF i = 0 THEN <<>>
            ELSE IF parts[i].kind = kind THEN Append(f[i - 1], parts[i]) ELSE f[i - 1]]

\* Kind is the last of them.
LEMMA KindIsKept ==
    ASSUME NEW T, NEW parts \in Seq(T), NEW kind
    PROVE  \E f : Kept(f, parts, kind) /\ Kind(parts, kind) = f[Len(parts)]
<1> DEFINE n == Len(parts)
           step == [i \in 0..n |-> [s \in Seq(T) |->
                       IF i # 0 /\ parts[i].kind = kind THEN Append(s, parts[i]) ELSE s]]
<1>1. n \in Nat /\ \A i \in 1..n : parts[i] \in T
  OBVIOUS
<1>2. step \in [0..n -> [Seq(T) -> Seq(T)]]
  BY <1>1
<1>3. PICK f : Recursion(f, 0, n, Seq(T), <<>>, step)
  <2>1. <<>> \in Seq(T) /\ 0 \in Nat /\ 0 <= n
    BY <1>1
  <2> HIDE DEF step, n
  <2> QED BY <1>1, <1>2, <2>1, RecursionExists
<1>4. ASSUME NEW i \in 0..n, i # 0
      PROVE  step[i][f[i - 1]] =
                IF parts[i].kind = kind THEN Append(f[i - 1], parts[i]) ELSE f[i - 1]
  <2>1. i \in 0..n /\ i - 1 \in 0..n
    BY <1>1, <1>4
  <2>2. f[i - 1] \in Seq(T)
    BY <1>3, <2>1 DEF Recursion
  <2> QED BY <2>1, <2>2
<1>5. Kept(f, parts, kind)
  <2> HIDE DEF step
  <2> QED BY <1>3, <1>4 DEF Kept, Recursion
<1> DEFINE g == CHOOSE g : Kept(g, parts, kind)
<1>6. Kept(g, parts, kind)
  BY <1>5
<1>7. Kind(parts, kind) = g[Len(parts)]
  BY DEF Kind, Kept
<1> QED BY <1>6, <1>7

\* Kind selects the parts of a kind.
LEMMA KindSelects ==
    ASSUME NEW T, NEW parts \in Seq(T), NEW kind
    PROVE  /\ Kind(parts, kind) \in Seq(T)
           /\ \A k \in DOMAIN Kind(parts, kind) : Kind(parts, kind)[k].kind = kind
           /\ \A k \in DOMAIN parts : parts[k].kind = kind =>
                 \E l \in DOMAIN Kind(parts, kind) : Kind(parts, kind)[l] = parts[k]
<1> DEFINE n == Len(parts)
<1>1. PICK f : Kept(f, parts, kind) /\ Kind(parts, kind) = f[n]
  BY KindIsKept
<1>2. \A i \in 0..n : f[i] = IF i = 0 THEN <<>>
                             ELSE IF parts[i].kind = kind THEN Append(f[i - 1], parts[i]) ELSE f[i - 1]
  BY <1>1 DEF Kept
<1> DEFINE Good(i) == /\ f[i] \in Seq(T)
                      /\ \A k \in DOMAIN f[i] : f[i][k].kind = kind
                      /\ \A k \in 1..i : parts[k].kind = kind =>
                            \E l \in DOMAIN f[i] : f[i][l] = parts[k]
           Q == {i \in 0..n : Good(i)}
<1>3. 0 \in Q
  <2>1. 0 \in 0..n
    OBVIOUS
  <2>2. f[0] = <<>>
    BY <1>2, <2>1
  <2>3. Good(0)
    BY <2>2
  <2> QED BY <2>1, <2>3
<1>4. ASSUME NEW i \in 0..n, i \in Q, i # n PROVE i + 1 \in Q
  <2>1. i + 1 \in 0..n /\ i + 1 # 0 /\ i + 1 - 1 = i /\ parts[i + 1] \in T
    BY <1>4
  <2>2. f[i + 1] = IF parts[i + 1].kind = kind THEN Append(f[i], parts[i + 1]) ELSE f[i]
    BY <1>2, <2>1
  <2>3. Good(i)
    BY <1>4
  <2>4. CASE parts[i + 1].kind = kind
    <3>1. f[i + 1] = Append(f[i], parts[i + 1])
      BY <2>2, <2>4
    <3>2. /\ f[i + 1] \in Seq(T) /\ DOMAIN f[i + 1] = 1..Len(f[i]) + 1
          /\ \A l \in DOMAIN f[i] : l \in DOMAIN f[i + 1] /\ f[i + 1][l] = f[i][l]
          /\ Len(f[i]) + 1 \in DOMAIN f[i + 1] /\ f[i + 1][Len(f[i]) + 1] = parts[i + 1]
          /\ \A l \in DOMAIN f[i + 1] : l \in DOMAIN f[i] \/ l = Len(f[i]) + 1
      BY <2>1, <2>3, <3>1
    <3>3. \A k \in DOMAIN f[i + 1] : f[i + 1][k].kind = kind
      BY <2>3, <2>4, <3>2
    <3>4. ASSUME NEW k \in 1..i + 1, parts[k].kind = kind
          PROVE  \E l \in DOMAIN f[i + 1] : f[i + 1][l] = parts[k]
      <4>1. CASE k = i + 1
        BY <3>2, <4>1
      <4>2. CASE k # i + 1
        <5>1. k \in 1..i
          BY <4>2
        <5>2. PICK l \in DOMAIN f[i] : f[i][l] = parts[k]
          BY <2>3, <3>4, <5>1
        <5> QED BY <3>2, <5>2
      <4> QED BY <4>1, <4>2
    <3> QED BY <2>1, <3>2, <3>3, <3>4
  <2>5. CASE parts[i + 1].kind # kind
    <3>1. f[i + 1] = f[i]
      BY <2>2, <2>5
    <3>2. \A k \in 1..i + 1 : parts[k].kind = kind => k \in 1..i
      BY <2>5
    <3> QED BY <2>1, <2>3, <3>1, <3>2
  <2> QED BY <2>4, <2>5
<1>5. \A i \in 0..n : i \in Q
  <2>1. n \in Nat
    OBVIOUS
  <2> HIDE DEF Q
  <2> QED BY <1>3, <1>4, <2>1, UpTo
<1>6. Good(n)
  BY <1>5
<1> QED BY <1>1, <1>6

-----------------------------------------------------------------------------
\* f joins the first 1, 2, ... sequences of s.
Joined(f, s) == f = [i \in 1..Len(s) |-> IF i = 1 THEN s[i] ELSE f[i - 1] \o s[i]]

\* FlattenSeq is the last of them.
LEMMA FlattenIsJoined ==
    ASSUME NEW T, NEW s \in Seq(Seq(T)), s # <<>>
    PROVE  \E f : Joined(f, s) /\ FlattenSeq(s) = f[Len(s)]
<1> DEFINE n == Len(s)
           step == [i \in 1..n |-> [q \in Seq(T) |-> q \o s[i]]]
<1>1. n \in Nat /\ 1 <= n /\ \A i \in 1..n : s[i] \in Seq(T)
  OBVIOUS
<1>2. step \in [1..n -> [Seq(T) -> Seq(T)]]
  BY <1>1
<1>3. PICK f : Recursion(f, 1, n, Seq(T), s[1], step)
  <2>1. s[1] \in Seq(T) /\ 1 \in Nat /\ 1 <= n
    BY <1>1
  <2> HIDE DEF step, n
  <2> QED BY <1>1, <1>2, <2>1, RecursionExists
<1>4. ASSUME NEW i \in 1..n, i # 1
      PROVE  step[i][f[i - 1]] = f[i - 1] \o s[i]
  <2>1. i \in 1..n /\ i - 1 \in 1..n
    BY <1>1, <1>4
  <2>2. f[i - 1] \in Seq(T)
    BY <1>3, <2>1 DEF Recursion
  <2> QED BY <2>1, <2>2
<1>5. Joined(f, s)
  <2> HIDE DEF step
  <2> QED BY <1>3, <1>4 DEF Joined, Recursion
<1> DEFINE g == CHOOSE g : Joined(g, s)
<1>6. Joined(g, s)
  BY <1>5
<1>7. Len(s) # 0
  BY <1>1
<1>8. FlattenSeq(s) = g[Len(s)]
  BY <1>7 DEF FlattenSeq, Joined
<1> QED BY <1>6, <1>8

\* FlattenSeq keeps every element.
LEMMA FlattenKeeps ==
    ASSUME NEW T, NEW s \in Seq(Seq(T))
    PROVE  /\ FlattenSeq(s) \in Seq(T)
           /\ \A i \in DOMAIN s : \A k \in DOMAIN s[i] :
                 \E l \in DOMAIN FlattenSeq(s) : FlattenSeq(s)[l] = s[i][k]
<1> DEFINE n == Len(s)
<1>1. CASE s = <<>>
  <2>1. FlattenSeq(s) = <<>> /\ DOMAIN s = {}
    BY <1>1 DEF FlattenSeq
  <2>2. <<>> \in Seq(T)
    OBVIOUS
  <2> QED BY <2>1, <2>2
<1>2. CASE s # <<>>
  <2>1. PICK f : Joined(f, s) /\ FlattenSeq(s) = f[n]
    BY <1>2, FlattenIsJoined
  <2>2. \A i \in 1..n : f[i] = IF i = 1 THEN s[i] ELSE f[i - 1] \o s[i]
    BY <2>1 DEF Joined
  <2> DEFINE Good(i) == /\ f[i] \in Seq(T)
                        /\ \A j \in 1..i : \A k \in DOMAIN s[j] :
                              \E l \in DOMAIN f[i] : f[i][l] = s[j][k]
             Q == {i \in 1..n : Good(i)}
  <2>3. 1 \in Q
    <3>1. 1 \in 1..n /\ s[1] \in Seq(T) /\ f[1] = s[1]
      BY <1>2, <2>2
    <3> QED BY <3>1
  <2>4. ASSUME NEW i \in 1..n, i \in Q, i # n PROVE i + 1 \in Q
    <3>1. i + 1 \in 1..n /\ i + 1 # 1 /\ i + 1 - 1 = i /\ s[i + 1] \in Seq(T)
      BY <2>4
    <3>2. f[i + 1] = f[i] \o s[i + 1]
      <4> DEFINE k == i + 1
      <4>1. k \in 1..n /\ k # 1 /\ k - 1 = i
        BY <3>1
      <4>2. f[k] = f[k - 1] \o s[k]
        <5> HIDE DEF k
        <5> QED BY <2>2, <4>1
      <4> QED BY <4>1, <4>2
    <3>3. Good(i)
      BY <2>4
    <3>4. /\ f[i + 1] \in Seq(T)
          /\ \A l \in DOMAIN f[i] : l \in DOMAIN f[i + 1] /\ f[i + 1][l] = f[i][l]
          /\ \A k \in DOMAIN s[i + 1] : /\ Len(f[i]) + k \in DOMAIN f[i + 1]
                                        /\ f[i + 1][Len(f[i]) + k] = s[i + 1][k]
      <4> DEFINE a == f[i]
                 b == s[i + 1]
      <4>1. a \in Seq(T) /\ b \in Seq(T)
        BY <3>1, <3>3
      <4> HIDE DEF a, b
      <4>2. /\ a \o b \in Seq(T)
            /\ \A l \in DOMAIN a : l \in DOMAIN (a \o b) /\ (a \o b)[l] = a[l]
            /\ \A k \in DOMAIN b : Len(a) + k \in DOMAIN (a \o b) /\ (a \o b)[Len(a) + k] = b[k]
        BY <4>1
      <4> QED BY <3>2, <4>2 DEF a, b
    <3>5. ASSUME NEW j \in 1..i + 1, NEW k \in DOMAIN s[j]
          PROVE  \E l \in DOMAIN f[i + 1] : f[i + 1][l] = s[j][k]
      <4>1. CASE j = i + 1
        BY <3>4, <4>1
      <4>2. CASE j # i + 1
        <5>1. j \in 1..i
          BY <4>2
        <5>2. PICK l \in DOMAIN f[i] : f[i][l] = s[j][k]
          BY <3>3, <5>1
        <5> QED BY <3>4, <5>2
      <4> QED BY <4>1, <4>2
    <3> QED BY <3>1, <3>4, <3>5
  <2>5. \A i \in 1..n : i \in Q
    <3>1. n \in Nat
      OBVIOUS
    <3> HIDE DEF Q
    <3> QED BY <2>3, <2>4, <3>1, UpTo
  <2>6. Good(n) /\ DOMAIN s = 1..n
    <3>1. n \in 1..n
      BY <1>2
    <3> QED BY <2>5, <3>1
  <2> QED BY <2>1, <2>6
<1> QED BY <1>1, <1>2

-----------------------------------------------------------------------------
(* Sets of ids.                                                            *)

Calls       == [kind : {"call"}, name : Names, n : Nat, id : Seq(Nat), blind : BOOLEAN]
ToolResults == [kind : {"result"}, id : Seq(Nat), n : Nat]
Parts       == {Text} \union Calls \union ToolResults
MessageSet  == [role : {"user", "system", "assistant", "tool"}, parts : Seq(Parts)]

\* The values of a function on a finite set.
LEMMA ImageFinite ==
    ASSUME NEW S, IsFiniteSet(S), NEW f
    PROVE  IsFiniteSet({f[x] : x \in S})
<1> DEFINE T == {f[x] : x \in S}
           g == [x \in S |-> f[x]]
<1>1. g \in [S -> T] /\ \A t \in T : \E x \in S : g[x] = t
  OBVIOUS
<1>2. g \in Surjection(S, T)
  <2> HIDE DEF g, T
  <2> QED BY <1>1, Fun_IsSurj
<1> HIDE DEF g, T
<1>3. IsFiniteSet(T)
  BY <1>2, FS_Surjection
<1> QED BY <1>3 DEF T

\* Only finitely many ids are used, so that a fresh one can be found.
LEMMA UsedIdsFinite ==
    ASSUME NEW messages \in Seq(MessageSet), NEW route
    PROVE  IsFiniteSet(UsedIds(route, messages))
<1> DEFINE D == DOMAIN messages
           R == [i \in D |-> Range(messages[i].parts)]
           P == UNION {R[i] : i \in D}
           Q == {q \in P : q.kind = "call"}
           I == [p \in Q |-> p.id]
<1>1. IsFiniteSet(D) /\ \A i \in D : messages[i].parts \in Seq(Parts)
  <2>1. D = 1..Len(messages) /\ Len(messages) \in Nat
    OBVIOUS
  <2>2. IsFiniteSet(D)
    BY <2>1, FS_Interval
  <2>3. \A i \in D : messages[i] \in MessageSet
    BY <2>1
  <2> QED BY <2>2, <2>3 DEF MessageSet
<1>2. ASSUME NEW i \in D PROVE IsFiniteSet(R[i])
  <2> DEFINE s == messages[i].parts
  <2>1. s \in Seq(Parts)
    BY <1>1
  <2> HIDE DEF s
  <2>2. DOMAIN s = 1..Len(s) /\ Len(s) \in Nat
    BY <2>1
  <2>3. IsFiniteSet(DOMAIN s)
    BY <2>2, FS_Interval
  <2>4. IsFiniteSet({s[k] : k \in DOMAIN s})
    BY <2>3, ImageFinite
  <2> QED BY <2>4 DEF Range, s
<1>3. IsFiniteSet(P)
  <2> DEFINE U == {R[i] : i \in D}
  <2>1. IsFiniteSet(U)
    <3> HIDE DEF R, D
    <3> QED BY <1>1, ImageFinite
  <2>2. \A T \in U : IsFiniteSet(T)
    <3> HIDE DEF R, D
    <3> QED BY <1>2
  <2>3. IsFiniteSet(UNION U)
    <3> HIDE DEF U
    <3> QED BY <2>1, <2>2, FS_UNION
  <2> QED BY <2>3
<1>4. IsFiniteSet(Q)
  <2>1. Q \subseteq P
    OBVIOUS
  <2> HIDE DEF P, Q
  <2> QED BY <1>3, <2>1, FS_Subset
<1>5. IsFiniteSet({I[p] : p \in Q})
  <2> HIDE DEF I, Q
  <2> QED BY <1>4, ImageFinite
<1>6. {I[p] : p \in Q} = {p.id : p \in Q}
  <2> HIDE DEF Q
  <2> QED OBVIOUS
<1>7. P = PartsIn(messages)
  BY DEF PartsIn
<1>8. IsFiniteSet({p.id : p \in {q \in PartsIn(messages) : q.kind = "call"}})
  BY <1>5, <1>6, <1>7
<1>9. IsFiniteSet({})
  BY FS_EmptySet
<1> QED BY <1>8, <1>9 DEF UsedIds

\* The id that is made up is not a used one, whatever it looks like.
LEMMA FreshIdIsFresh ==
    ASSUME NEW base \in Seq(Nat), base # <<>>, NEW used, IsFiniteSet(used)
    PROVE  /\ FreshId(base, used) \notin used
           /\ FreshId(base, used) \in Seq(Nat)
           /\ FreshId(base, used) # <<>>
           /\ FreshId(base, used)[1] = base[1]
<1> DEFINE c == Cardinality(used)
           free == {k \in 1..(c + 1) : Append(base, k) \notin used}
<1>1. CASE base \notin used
  BY <1>1 DEF FreshId
<1>2. CASE base \in used
  <2>1. c \in Nat
    BY FS_CardinalityType
  <2> HIDE DEF c
  <2>2. ASSUME free = {} PROVE FALSE
    <3> DEFINE f == [k \in 1..(c + 1) |-> Append(base, k)]
    <3>1. f \in [1..(c + 1) -> used]
      BY <2>2
    <3>2. IsFiniteSet(1..(c + 1)) /\ Cardinality(1..(c + 1)) = c + 1
      <4>1. 1 \in Int /\ c + 1 \in Int /\ ~(1 > c + 1) /\ c + 1 - 1 + 1 = c + 1
        BY <2>1
      <4> QED BY <4>1, FS_Interval
    <3>3. Cardinality(used) < Cardinality(1..(c + 1))
      BY <2>1, <3>2 DEF c
    <3>4. PICK x, y \in 1..(c + 1) : x # y /\ f[x] = f[y]
      <4> HIDE DEF f
      <4> QED BY <3>1, <3>2, <3>3, FS_PigeonHole
    <3>5. Append(base, x) = Append(base, y)
      BY <3>4
    <3>6. Append(base, x)[Len(base) + 1] = x /\ Append(base, y)[Len(base) + 1] = y
      BY <2>1
    <3> QED BY <3>4, <3>5, <3>6
  <2>3. free \subseteq Nat
    BY <2>1
  <2>4. \E k \in free : \A j \in free : k <= j
    <3> HIDE DEF free
    <3> QED BY <2>2, <2>3, LeastNatural
  <2> DEFINE k == CHOOSE k \in free : \A j \in free : k <= j
  <2>5. k \in free
    <3> HIDE DEF free
    <3> QED BY <2>4
  <2>6. FreshId(base, used) = IF base \notin used THEN base ELSE Append(base, k)
    <3>1. Cardinality(used) = Cardinality(used)
      BY DEF Cardinality, Cardinality
    <3> QED BY <3>1 DEF FreshId, c
  <2> HIDE DEF k
  <2>7. k \in Nat /\ Append(base, k) \notin used
    BY <2>1, <2>5
  <2>8. Append(base, k) \in Seq(Nat) /\ Append(base, k) # <<>> /\ Append(base, k)[1] = base[1]
    BY <2>7
  <2> QED BY <1>2, <2>6, <2>7, <2>8
<1> QED BY <1>1, <1>2

-----------------------------------------------------------------------------
(* The calls of an answer.                                                 *)

\* The call that position i of a reply becomes, after the calls before.
NewCall(route, reply, own, used, i, before) ==
    LET n == made + Len(before) + 1
    IN  [kind |-> "call", name |-> reply[i].name, n |-> n,
         id |-> IF own THEN NativeId(n)
                ELSE FreshId(Append(reply[i].name, i - 1),
                               used \union {before[k].id : k \in DOMAIN before}),
         blind |-> route = "jetbrains_google" /\ ~own]

\* f makes the calls of the first 0, 1, ... parts of a reply.
Makes(f, route, reply, own, used) ==
    f = [i \in 0..Len(reply) |->
            IF i = 0 THEN <<>>
            ELSE IF reply[i].kind = "call"
                 THEN Append(f[i - 1], NewCall(route, reply, own, used, i, f[i - 1]))
            ELSE f[i - 1]]

\* The ids of the calls c of an answer are new ones and distinct.
Numbered(c, route, own, used) ==
    /\ c \in Seq(Calls)
    /\ \A k \in DOMAIN c :
          /\ c[k].n = made + k
          /\ c[k].blind = (route = "jetbrains_google" /\ ~own)
          /\ own => c[k].id = <<0, made + k>>
          /\ ~own => c[k].id \notin used /\ c[k].id # <<>> /\ c[k].id[1] # 0
    /\ \A k, l \in DOMAIN c : k < l => c[k].id # c[l].id

\* One call more.
LEMMA NewCallNumbered ==
    ASSUME made \in Nat,
           NEW route, NEW reply \in Replies, NEW own \in BOOLEAN,
           NEW used, IsFiniteSet(used),
           NEW c, Numbered(c, route, own, used),
           NEW i \in 1..Len(reply), reply[i].kind = "call"
    PROVE  Numbered(Append(c, NewCall(route, reply, own, used, i, c)), route, own, used)
<1> DEFINE n == made + Len(c) + 1
           base == Append(reply[i].name, i - 1)
           all == used \union {c[k].id : k \in DOMAIN c}
           new == NewCall(route, reply, own, used, i, c)
           d == Append(c, new)
<1>1. c \in Seq(Calls) /\ Len(c) \in Nat /\ DOMAIN c = 1..Len(c) /\ n \in Nat /\ n = made + (Len(c) + 1)
  BY DEF Numbered
<1>2. reply[i].name \in Names
  <2>1. reply \in Seq(Part)
    BY ConversationAssumption
  <2>2. reply[i] \in Part
    BY <2>1
  <2> QED BY <2>2 DEF Part
<1>3. reply[i].name \in Seq(Nat) /\ reply[i].name # <<>> /\ reply[i].name[1] # 0
  BY <1>2, ConversationAssumption
<1>4. base \in Seq(Nat) /\ base # <<>> /\ base[1] # 0
  <2>1. i - 1 \in Nat
    OBVIOUS
  <2> QED BY <1>3, <2>1
<1>5. IsFiniteSet(all)
  <2> DEFINE I == [k \in DOMAIN c |-> c[k].id]
  <2>1. IsFiniteSet(DOMAIN c)
    BY <1>1, FS_Interval
  <2>2. IsFiniteSet({I[k] : k \in DOMAIN c})
    <3> HIDE DEF I
    <3> QED BY <2>1, ImageFinite
  <2>3. {I[k] : k \in DOMAIN c} = {c[k].id : k \in DOMAIN c}
    OBVIOUS
  <2>4. IsFiniteSet({c[k].id : k \in DOMAIN c})
    BY <2>2, <2>3
  <2> HIDE DEF I
  <2> QED BY <2>4, FS_Union
<1>6. /\ new.kind = "call" /\ new.name = reply[i].name /\ new.n = n
      /\ new.id = IF own THEN <<0, n>> ELSE FreshId(base, all)
      /\ new.blind = (route = "jetbrains_google" /\ ~own)
      /\ new = [kind |-> new.kind, name |-> new.name, n |-> new.n, id |-> new.id, blind |-> new.blind]
  BY DEF NewCall, NativeId
<1> HIDE DEF new, all, base, n
<1>7. ~own => new.id \notin all /\ new.id \in Seq(Nat) /\ new.id # <<>> /\ new.id[1] # 0
  BY <1>4, <1>5, <1>6, FreshIdIsFresh
<1>8. own => new.id = <<0, n>> /\ new.id \in Seq(Nat)
  BY <1>1, <1>6
<1>9. new \in Calls
  <2>1. new.id \in Seq(Nat) /\ new.blind \in BOOLEAN
    BY <1>6, <1>7, <1>8
  <2> QED BY <1>1, <1>2, <1>6, <2>1 DEF Calls
<1>10. /\ d \in Seq(Calls) /\ DOMAIN d = 1..Len(c) + 1
       /\ d[Len(c) + 1] = new
       /\ \A k \in DOMAIN c : d[k] = c[k]
       /\ \A k \in DOMAIN d : k \in DOMAIN c \/ k = Len(c) + 1
  BY <1>1, <1>9
<1>11. ASSUME NEW k \in DOMAIN c PROVE new.id # c[k].id
  <2>1. CASE own
    <3>1. c[k].id = <<0, made + k>> /\ new.id = <<0, n>>
      BY <1>8, <2>1 DEF Numbered
    <3>2. made + k # n
      BY <1>1 DEF n
    <3> QED BY <3>1, <3>2
  <2>2. CASE ~own
    BY <1>7, <2>2 DEF all
  <2> QED BY <2>1, <2>2
<1>12. ASSUME NEW k \in DOMAIN d
       PROVE  /\ d[k].n = made + k
              /\ d[k].blind = (route = "jetbrains_google" /\ ~own)
              /\ own => d[k].id = <<0, made + k>>
              /\ ~own => d[k].id \notin used /\ d[k].id # <<>> /\ d[k].id[1] # 0
  <2>1. CASE k \in DOMAIN c
    BY <1>10, <2>1 DEF Numbered
  <2>2. CASE k = Len(c) + 1
    <3>1. d[k] = new /\ n = made + k
      BY <1>1, <1>10, <2>2
    <3>2. used \subseteq all
      BY DEF all
    <3> HIDE DEF d
    <3> QED BY <1>6, <1>7, <1>8, <3>1, <3>2
  <2> QED BY <1>10, <2>1, <2>2
<1>13. ASSUME NEW k \in DOMAIN d, NEW l \in DOMAIN d, k < l PROVE d[k].id # d[l].id
  <2>1. k \in DOMAIN c
    BY <1>1, <1>10, <1>13
  <2>2. CASE l \in DOMAIN c
    BY <1>10, <1>13, <2>1, <2>2 DEF Numbered
  <2>3. CASE l = Len(c) + 1
    BY <1>10, <1>11, <2>1, <2>3
  <2> QED BY <1>10, <2>2, <2>3
<1> HIDE DEF d
<1>14. Numbered(d, route, own, used)
  BY <1>10, <1>12, <1>13 DEF Numbered
<1> QED BY <1>14 DEF d, new

\* All calls of an answer.
LEMMA ToolCallsNumbered ==
    ASSUME made \in Nat,
           NEW route, NEW reply \in Replies, NEW own \in BOOLEAN,
           NEW messages \in Seq(MessageSet)
    PROVE  Numbered(ToolCalls(route, reply, own, messages), route, own, UsedIds(route, messages))
<1> DEFINE used == UsedIds(route, messages)
           n == Len(reply)
           D == {c \in Seq(Calls) : Numbered(c, route, own, used)}
           step == [i \in 0..n |-> [c \in D |->
                      IF i # 0 /\ reply[i].kind = "call"
                      THEN Append(c, NewCall(route, reply, own, used, i, c)) ELSE c]]
<1>1. IsFiniteSet(used)
  BY UsedIdsFinite
<1>2. n \in Nat
  <2>1. reply \in Seq(Part)
    BY ConversationAssumption
  <2> QED BY <2>1
<1> HIDE DEF used
<1>3. <<>> \in D
  <2>1. DOMAIN <<>> = {} /\ <<>> \in Seq(Calls)
    OBVIOUS
  <2> QED BY <2>1 DEF Numbered
<1>4. ASSUME NEW i \in 0..n, NEW c \in D, i # 0, reply[i].kind = "call"
      PROVE  Append(c, NewCall(route, reply, own, used, i, c)) \in D
  <2>1. i \in 1..Len(reply)
    BY <1>2, <1>4
  <2>2. Numbered(Append(c, NewCall(route, reply, own, used, i, c)), route, own, used)
    BY <1>1, <1>4, <2>1, NewCallNumbered
  <2>3. Append(c, NewCall(route, reply, own, used, i, c)) \in Seq(Calls)
    BY <2>2 DEF Numbered
  <2> QED BY <2>2, <2>3
<1>5. step \in [0..n -> [D -> D]]
  <2> HIDE DEF D, n
  <2> QED BY <1>4
<1>6. PICK f : Recursion(f, 0, n, D, <<>>, step)
  <2>1. 0 \in Nat /\ 0 <= n
    BY <1>2
  <2> HIDE DEF D, n, step
  <2> QED BY <1>2, <1>3, <1>5, <2>1, RecursionExists
<1>7. ASSUME NEW i \in 0..n, i # 0
      PROVE  step[i][f[i - 1]] =
                IF reply[i].kind = "call"
                THEN Append(f[i - 1], NewCall(route, reply, own, used, i, f[i - 1])) ELSE f[i - 1]
  <2> HIDE DEF D
  <2>1. i - 1 \in 0..n
    BY <1>2, <1>7
  <2>2. f[i - 1] \in D
    BY <1>6, <2>1 DEF Recursion
  <2> QED BY <1>7, <2>2
<1>8. Makes(f, route, reply, own, used)
  <2> HIDE DEF step, D
  <2> QED BY <1>6, <1>7 DEF Makes, Recursion
<1> DEFINE g == CHOOSE g : Makes(g, route, reply, own, used)
<1>9. Makes(g, route, reply, own, used)
  BY <1>8
<1>10. ToolCalls(route, reply, own, messages) = g[n]
  BY DEF ToolCalls, Makes, NewCall, used
<1> HIDE DEF g
<1>11. \A i \in 0..n : g[i] = IF i = 0 THEN <<>>
                              ELSE IF reply[i].kind = "call"
                                   THEN Append(g[i - 1], NewCall(route, reply, own, used, i, g[i - 1]))
                              ELSE g[i - 1]
  BY <1>9 DEF Makes
<1> DEFINE Q == {i \in 0..n : g[i] \in D}
<1>12. 0 \in Q
  <2> HIDE DEF D
  <2> QED BY <1>2, <1>3, <1>11
<1>13. ASSUME NEW i \in 0..n, i \in Q, i # n PROVE i + 1 \in Q
  <2> HIDE DEF D
  <2> DEFINE k == i + 1
  <2>1. k \in 0..n /\ k # 0 /\ k - 1 = i
    BY <1>2, <1>13
  <2>2. g[k] = IF reply[k].kind = "call"
               THEN Append(g[i], NewCall(route, reply, own, used, k, g[i])) ELSE g[i]
    <3> HIDE DEF k
    <3> QED BY <1>11, <2>1
  <2>3. g[i] \in D
    BY <1>13
  <2> HIDE DEF k
  <2>4. g[k] \in D
    BY <1>4, <2>1, <2>2, <2>3
  <2> QED BY <2>1, <2>4 DEF k
<1>14. n \in Q
  <2>1. n \in 0..n
    BY <1>2
  <2> HIDE DEF Q, n
  <2> QED BY <1>2, <1>12, <1>13, <2>1, UpTo
<1> QED BY <1>10, <1>14 DEF used

-----------------------------------------------------------------------------
(* The conversation.                                                       *)

ConversationTypes ==
    /\ ingress \in {"openai", "anthropic"}
    /\ history \in Seq(MessageSet)
    /\ made \in Nat

\* Calls are the assistant's; an id that was not made up has the call's number.
CallsInv ==
    \A i \in DOMAIN history : \A k \in DOMAIN history[i].parts :
        LET c == history[i].parts[k]
        IN  c.kind = "call" =>
              /\ history[i].role = "assistant"
              /\ c.n <= made /\ c.id # <<>> /\ (c.id[1] = 0 => c.id = <<0, c.n>>)

ConversationInv == ConversationTypes /\ CallsInv /\ CallIdsDistinct

\* A message keeps its calls when it is turned into OpenAI's shape.
LEMMA ToOpenAIKeepsCalls ==
    ASSUME NEW m \in MessageSet
    PROVE  /\ MessageToOpenAI(m) \in Seq(MessageSet)
           /\ m.role = "assistant" =>
                \A k \in DOMAIN m.parts : m.parts[k].kind = "call" =>
                    \E j \in DOMAIN MessageToOpenAI(m) :
                        \E l \in DOMAIN MessageToOpenAI(m)[j].parts :
                            MessageToOpenAI(m)[j].parts[l] = m.parts[k]
<1> DEFINE parts == m.parts
           text == Kind(parts, "text")
           calls == Kind(parts, "call")
           results == Kind(parts, "result")
<1>1. parts \in Seq(Parts) /\ m.role \in {"user", "system", "assistant", "tool"}
  BY DEF MessageSet
<1> HIDE DEF parts
<1>2. text \in Seq(Parts) /\ calls \in Seq(Parts) /\ results \in Seq(Parts)
  BY <1>1, KindSelects
<1>3. \A k \in DOMAIN parts : parts[k].kind = "call" => \E l \in DOMAIN calls : calls[l] = parts[k]
  BY <1>1, KindSelects
<1> HIDE DEF text, calls, results
<1>4. CASE m.role # "user"
  <2> DEFINE new == Message(m.role, text \o calls)
  <2>1. MessageToOpenAI(m) = <<new>>
    BY <1>4 DEF MessageToOpenAI, text, calls, parts
  <2>2. new = [role |-> m.role, parts |-> text \o calls] /\ text \o calls \in Seq(Parts)
    BY <1>2 DEF Message
  <2>3. new \in MessageSet /\ new.parts = text \o calls
    BY <1>1, <2>2 DEF MessageSet
  <2>4. ASSUME NEW k \in DOMAIN parts, parts[k].kind = "call"
        PROVE  \E l \in DOMAIN new.parts : new.parts[l] = parts[k]
    <3>1. PICK l \in DOMAIN calls : calls[l] = parts[k]
      BY <1>3, <2>4
    <3>2. /\ Len(text) + l \in DOMAIN (text \o calls)
          /\ (text \o calls)[Len(text) + l] = calls[l]
      BY <1>2
    <3> HIDE DEF new
    <3> QED BY <2>3, <3>1, <3>2
  <2> HIDE DEF new
  <2>5. <<new>> \in Seq(MessageSet) /\ 1 \in DOMAIN <<new>> /\ <<new>>[1] = new
    BY <2>3
  <2> QED BY <2>1, <2>4, <2>5 DEF parts
<1>5. CASE m.role = "user"
  <2> DEFINE a == IF text # <<>> \/ results = <<>> THEN <<Message("user", text)>> ELSE <<>>
             b == [i \in DOMAIN results |-> Message("tool", <<results[i]>>)]
  <2>1. MessageToOpenAI(m) = a \o b
    BY <1>5 DEF MessageToOpenAI, text, results, parts
  <2>2. a \in Seq(MessageSet)
    <3>1. Message("user", text) \in MessageSet
      BY <1>2 DEF Message, MessageSet
    <3> QED BY <3>1
  <2>3. b \in Seq(MessageSet)
    <3>1. \A i \in DOMAIN results : Message("tool", <<results[i]>>) \in MessageSet
      BY <1>2 DEF Message, MessageSet
    <3>2. DOMAIN results = 1..Len(results) /\ Len(results) \in Nat
      BY <1>2
    <3> QED BY <3>1, <3>2
  <2> HIDE DEF a, b
  <2>4. a \o b \in Seq(MessageSet)
    BY <2>2, <2>3
  <2> QED BY <1>5, <2>1, <2>4
<1> QED BY <1>4, <1>5

\* The clients see every call of the conversation.
LEMMA MessagesKeepCalls ==
    ASSUME ConversationTypes, CallsInv
    PROVE  /\ Messages \in Seq(MessageSet)
           /\ \A i \in DOMAIN history : \A k \in DOMAIN history[i].parts :
                 history[i].parts[k].kind = "call" =>
                    \E j \in DOMAIN Messages : \E l \in DOMAIN Messages[j].parts :
                        Messages[j].parts[l] = history[i].parts[k]
<1>1. CASE ingress = "openai"
  BY <1>1 DEF Messages, ConversationTypes
<1>2. CASE ingress # "openai"
  <2> DEFINE s == [i \in DOMAIN history |-> MessageToOpenAI(history[i])]
  <2>1. Messages = FlattenSeq(s)
    BY <1>2 DEF Messages
  <2>2. \A i \in DOMAIN history : history[i] \in MessageSet /\ s[i] \in Seq(MessageSet)
    BY ToOpenAIKeepsCalls DEF ConversationTypes
  <2>3. s \in Seq(Seq(MessageSet)) /\ DOMAIN s = DOMAIN history
    <3>1. DOMAIN history = 1..Len(history) /\ Len(history) \in Nat
      BY DEF ConversationTypes
    <3> QED BY <2>2, <3>1
  <2>4. ASSUME NEW i \in DOMAIN history, NEW k \in DOMAIN history[i].parts,
               history[i].parts[k].kind = "call"
        PROVE  \E j \in DOMAIN Messages : \E l \in DOMAIN Messages[j].parts :
                   Messages[j].parts[l] = history[i].parts[k]
    <3>1. history[i].role = "assistant"
      BY <2>4 DEF CallsInv
    <3>2. PICK j \in DOMAIN s[i] : \E l \in DOMAIN s[i][j].parts :
             s[i][j].parts[l] = history[i].parts[k]
      BY <2>2, <2>4, <3>1, ToOpenAIKeepsCalls
    <3> HIDE DEF s
    <3>3. PICK t \in DOMAIN FlattenSeq(s) : FlattenSeq(s)[t] = s[i][j]
      BY <2>3, FlattenKeeps
    <3> QED BY <2>1, <3>2, <3>3
  <2> HIDE DEF s
  <2>5. Messages \in Seq(MessageSet)
    BY <2>1, <2>3, FlattenKeeps
  <2> QED BY <2>4, <2>5
<1> QED BY <1>1, <1>2

\* The ids of all calls count as used, except with JetBrains' Google models.
LEMMA UsedIdsKnown ==
    ASSUME ConversationTypes, CallsInv, NEW route, route # "jetbrains_google",
           NEW i \in DOMAIN history, NEW k \in DOMAIN history[i].parts,
           history[i].parts[k].kind = "call"
    PROVE  history[i].parts[k].id \in UsedIds(route, Messages)
<1> DEFINE ms == Messages
           p == history[i].parts[k]
<1>1. PICK j \in DOMAIN ms : \E l \in DOMAIN ms[j].parts : ms[j].parts[l] = p
  BY MessagesKeepCalls
<1>2. PICK l \in DOMAIN ms[j].parts : ms[j].parts[l] = p
  BY <1>1
<1> HIDE DEF ms, p
<1>3. p \in PartsIn(ms)
  BY <1>1, <1>2 DEF PartsIn, Range
<1>4. p.kind = "call"
  BY DEF p
<1>5. p.id \in UsedIds(route, ms)
  BY <1>3, <1>4 DEF UsedIds
<1> QED BY <1>5 DEF ms, p

\* What has no calls in it can be added.
LEMMA NoCallsKept ==
    ASSUME ConversationInv, NEW s \in Seq(MessageSet),
           \A i \in DOMAIN s : \A k \in DOMAIN s[i].parts : s[i].parts[k].kind # "call",
           history' = history \o s, UNCHANGED <<ingress, made>>
    PROVE  ConversationInv'
<1> USE DEF ConversationInv
<1> DEFINE h == history
           g == history'
<1>1. h \in Seq(MessageSet) /\ g = h \o s
  BY DEF ConversationTypes
<1> HIDE DEF h, g
<1>2. /\ g \in Seq(MessageSet) /\ DOMAIN h \subseteq DOMAIN g
      /\ \A i \in DOMAIN h : g[i] = h[i]
      /\ \A i \in DOMAIN g : i \in DOMAIN h \/ (i - Len(h) \in DOMAIN s /\ g[i] = s[i - Len(h)])
  BY <1>1
<1>3. ASSUME NEW i \in DOMAIN g, NEW k \in DOMAIN g[i].parts, g[i].parts[k].kind = "call"
      PROVE  i \in DOMAIN h /\ g[i] = h[i]
  BY <1>2, <1>3
<1>4. ConversationTypes'
  BY <1>2 DEF ConversationTypes, g
<1>5. CallsInv'
  <2> HIDE DEF ConversationInv
  <2>1. ASSUME NEW i \in DOMAIN g, NEW k \in DOMAIN g[i].parts, g[i].parts[k].kind = "call"
        PROVE  /\ g[i].role = "assistant"
               /\ g[i].parts[k].n <= made /\ g[i].parts[k].id # <<>>
               /\ (g[i].parts[k].id[1] = 0 => g[i].parts[k].id = <<0, g[i].parts[k].n>>)
    <3>1. i \in DOMAIN h /\ g[i] = h[i]
      BY <1>3, <2>1
    <3> QED BY <2>1, <3>1 DEF CallsInv, ConversationInv, h
  <2> QED BY <2>1 DEF CallsInv, g
<1>6. CallIdsDistinct'
  <2> HIDE DEF ConversationInv
  <2>1. ASSUME NEW i \in DOMAIN g, NEW j \in DOMAIN g,
               NEW k \in DOMAIN g[i].parts, NEW l \in DOMAIN g[j].parts,
               g[i].parts[k].kind = "call", g[j].parts[l].kind = "call",
               g[i].parts[k].id = g[j].parts[l].id, i < j \/ (i = j /\ k < l)
        PROVE  g[j].parts[l].blind
    <3>1. i \in DOMAIN h /\ g[i] = h[i] /\ j \in DOMAIN h /\ g[j] = h[j]
      BY <1>3, <2>1
    <3> QED BY <2>1, <3>1 DEF CallIdsDistinct, ConversationInv, h
  <2> QED BY <2>1 DEF CallIdsDistinct, g
<1> QED BY <1>4, <1>5, <1>6

\* The three actions.
LEMMA SayKeeps == ConversationInv /\ Say => ConversationInv'
<1> SUFFICES ASSUME ConversationInv, Say PROVE ConversationInv'
  OBVIOUS
<1>1. PICK role \in {"user", "system"} : history' = Append(history, Message(role, <<Text>>))
  BY DEF Say
<1> DEFINE m == Message(role, <<Text>>)
<1>2. m \in MessageSet /\ m.parts = <<Text>>
  <2>1. <<Text>> \in Seq(Parts)
    BY DEF Parts
  <2> QED BY <2>1 DEF Message, MessageSet
<1>3. \A k \in DOMAIN m.parts : m.parts[k].kind # "call"
  <2>1. \A k \in DOMAIN <<Text>> : k = 1 /\ <<Text>>[k] = Text
    OBVIOUS
  <2> HIDE DEF m
  <2> QED BY <1>2, <2>1 DEF Text
<1> HIDE DEF m
<1>4. history \in Seq(MessageSet)
  BY DEF ConversationInv, ConversationTypes
<1>5. history' = history \o <<m>> /\ <<m>> \in Seq(MessageSet)
  BY <1>1, <1>2, <1>4 DEF m
<1>6. \A i \in DOMAIN <<m>> : <<m>>[i] = m
  OBVIOUS
<1>7. UNCHANGED <<ingress, made>>
  BY DEF Say
<1> QED BY <1>3, <1>5, <1>6, <1>7, NoCallsKept

\* Results make no calls.
LEMMA ReturnResultsKeeps == ConversationInv /\ ReturnResults => ConversationInv'
<1> SUFFICES ASSUME ConversationInv, ReturnResults PROVE ConversationInv'
  OBVIOUS
<1> DEFINE P == Pending
<1>1. history \in Seq(MessageSet) /\ P # <<>> /\ UNCHANGED <<ingress, made>>
  BY DEF ConversationInv, ConversationTypes, ReturnResults
<1>2. P \in Seq(Parts) /\ \A k \in DOMAIN P : P[k].kind = "call"
  <2>1. history # <<>>
    BY <1>1 DEF Pending
  <2>2. Last(history) \in MessageSet
    BY <1>1, <2>1 DEF Last
  <2>3. Last(history).parts \in Seq(Parts)
    BY <2>2 DEF MessageSet
  <2>4. P = Kind(Last(history).parts, "call")
    BY <2>1 DEF Pending
  <2> HIDE DEF P
  <2> QED BY <2>3, <2>4, KindSelects
<1> HIDE DEF P
<1>3. \A k \in DOMAIN P : P[k].id \in Seq(Nat) /\ P[k].n \in Nat
  <2>1. \A k \in DOMAIN P : P[k] \in Parts
    BY <1>2
  <2>2. \A k \in DOMAIN P : P[k] \in Calls
    BY <1>2, <2>1 DEF Parts, Text, ToolResults
  <2> QED BY <2>2 DEF Calls
<1>4. PICK order \in Bijection(DOMAIN P, DOMAIN P), said \in {"no", "before", "after"} :
         LET results == [i \in DOMAIN P |-> [kind |-> "result", id |-> P[order[i]].id, n |-> P[order[i]].n]]
             text == <<Text>>
         IN  history' = history \o
                 IF ingress = "openai"
                 THEN [i \in DOMAIN results |-> Message("tool", <<results[i]>>)]
                      \o (IF said = "after" THEN <<Message("user", text)>> ELSE <<>>)
                 ELSE <<Message("user", (IF said = "before" THEN text ELSE <<>>) \o results
                                            \o (IF said = "after" THEN text ELSE <<>>))>>
  BY DEF ReturnResults, P
<1> DEFINE results == [i \in DOMAIN P |-> [kind |-> "result", id |-> P[order[i]].id, n |-> P[order[i]].n]]
           text == <<Text>>
           before == IF said = "before" THEN text ELSE <<>>
           after == IF said = "after" THEN text ELSE <<>>
           others == Parts \ Calls
           Plain == [role : {"user", "system", "assistant", "tool"}, parts : Seq(others)]
           tools == [i \in DOMAIN results |-> Message("tool", <<results[i]>>)]
           said1 == IF said = "after" THEN <<Message("user", text)>> ELSE <<>>
           said2 == <<Message("user", before \o results \o after)>>
<1>5. Text \in others /\ text \in Seq(others) /\ before \in Seq(others) /\ after \in Seq(others)
  <2>1. Text \in others
    BY DEF Parts, Calls, Text
  <2> HIDE DEF others
  <2>2. <<Text>> \in Seq(others) /\ <<>> \in Seq(others)
    BY <2>1
  <2> QED BY <2>1, <2>2
<1>6. /\ \A i \in DOMAIN P : results[i] \in others
      /\ results \in Seq(others) /\ DOMAIN results = DOMAIN P
  <2>1. \A i \in DOMAIN P : order[i] \in DOMAIN P
    BY DEF Bijection, Injection
  <2>2. \A i \in DOMAIN P : results[i] \in ToolResults /\ results[i].kind = "result"
    BY <1>3, <2>1 DEF ToolResults
  <2>3. \A i \in DOMAIN P : results[i] \in others
    BY <2>2 DEF Parts, Calls
  <2>4. DOMAIN P = 1..Len(P) /\ Len(P) \in Nat
    BY <1>2
  <2>5. DOMAIN results = DOMAIN P
    OBVIOUS
  <2>6. results \in [1..Len(P) -> others]
    <3>1. results = [i \in 1..Len(P) |-> results[i]]
      BY <2>4
    <3> HIDE DEF results, others
    <3> QED BY <2>3, <2>4, <3>1
  <2> HIDE DEF others, results
  <2> QED BY <2>3, <2>4, <2>5, <2>6
<1> HIDE DEF text, before, after, results, others
<1>7. tools \in Seq(Plain)
  <2>1. \A i \in DOMAIN results : Message("tool", <<results[i]>>) \in Plain
    BY <1>6 DEF Message
  <2>2. DOMAIN results = 1..Len(results) /\ Len(results) \in Nat
    BY <1>6
  <2> HIDE DEF Plain
  <2> QED BY <2>1, <2>2
<1>8. said1 \in Seq(Plain)
  <2>1. Message("user", text) \in Plain
    BY <1>5 DEF Message
  <2> HIDE DEF Plain
  <2> QED BY <2>1
<1>9. said2 \in Seq(Plain)
  <2>1. before \o results \o after \in Seq(others)
    BY <1>5, <1>6
  <2> QED BY <2>1 DEF Message
<1> DEFINE s == IF ingress = "openai" THEN tools \o said1 ELSE said2
<1>10. history' = history \o s
  BY <1>4 DEF results, text, before, after
<1> HIDE DEF tools, said1, said2, Plain
<1>11. s \in Seq(Plain)
  BY <1>7, <1>8, <1>9
<1> HIDE DEF s
<1>12. \A m \in Plain : m \in MessageSet /\ \A k \in DOMAIN m.parts : m.parts[k].kind # "call"
  <2>1. \A p \in others : p \in Parts /\ p.kind # "call"
    BY DEF others, Parts, Text, ToolResults
  <2> QED BY <2>1 DEF Plain, MessageSet
<1>13. s \in Seq(MessageSet) /\ \A i \in DOMAIN s : s[i] \in Plain
  BY <1>11, <1>12
<1> QED BY <1>1, <1>10, <1>12, <1>13, NoCallsKept

\* The calls of an answer are distinct from one another and from all earlier ones.
LEMMA GenerateKeeps == ConversationInv /\ Generate => ConversationInv'
<1> SUFFICES ASSUME ConversationInv, Generate PROVE ConversationInv'
  OBVIOUS
<1>1. PICK route \in Routes, reply \in Replies : \E own \in Keeps(route) :
         LET calls == ToolCalls(route, reply, own, Messages)
         IN  /\ history' = Append(history, AnswerOf(reply, calls))
             /\ made' = made + Len(calls)
  BY DEF Generate
<1>2. PICK own \in Keeps(route) :
         LET calls == ToolCalls(route, reply, own, Messages)
         IN  /\ history' = Append(history, AnswerOf(reply, calls))
             /\ made' = made + Len(calls)
  BY <1>1
<1> DEFINE calls == ToolCalls(route, reply, own, Messages)
           used == UsedIds(route, Messages)
           text == IF Kind(reply, "text") # <<>> THEN <<Text>> ELSE <<>>
           new == AnswerOf(reply, calls)
           h == history
           g == history'
           last == Len(history) + 1
<1>3. ConversationTypes /\ CallsInv /\ CallIdsDistinct
  BY DEF ConversationInv
<1>4. h \in Seq(MessageSet) /\ made \in Nat /\ own \in BOOLEAN
  BY <1>3 DEF ConversationTypes, Keeps
<1>5. Numbered(calls, route, own, used)
  BY <1>3, <1>4, MessagesKeepCalls, ToolCallsNumbered
<1>6. /\ calls \in Seq(Calls) /\ Len(calls) \in Nat /\ calls \in Seq(Parts)
      /\ text \in Seq(Parts) /\ \A k \in DOMAIN text : text[k] = Text
  <2> HIDE DEF calls
  <2>1. calls \in Seq(Calls)
    BY <1>5 DEF Numbered
  <2>2. Calls \subseteq Parts /\ Text \in Parts
    BY DEF Parts
  <2>3. calls \in Seq(Parts)
    BY <2>1, <2>2
  <2>4. <<Text>> \in Seq(Parts)
    BY <2>2
  <2> QED BY <2>1, <2>3, <2>4
<1>7. new = [role |-> "assistant", parts |-> text \o calls]
  BY DEF AnswerOf, Message
<1>8. g = Append(h, new) /\ made' = made + Len(calls)
  BY <1>2
<1>9. UNCHANGED ingress
  BY DEF Generate
<1> HIDE DEF calls, used, text, new, h, g
<1>10. /\ text \o calls \in Seq(Parts)
       /\ \A k \in DOMAIN (text \o calls) :
             \/ k \in DOMAIN text /\ (text \o calls)[k] = Text
             \/ k - Len(text) \in DOMAIN calls /\ (text \o calls)[k] = calls[k - Len(text)]
  <2>1. text \in Seq(Parts) /\ calls \in Seq(Parts)
    BY <1>6
  <2>2. text \o calls \in Seq(Parts)
    BY <2>1
  <2>3. ASSUME NEW k \in DOMAIN (text \o calls)
        PROVE  \/ k \in DOMAIN text /\ (text \o calls)[k] = text[k]
               \/ k - Len(text) \in DOMAIN calls /\ (text \o calls)[k] = calls[k - Len(text)]
    BY <2>1
  <2> QED BY <1>6, <2>2, <2>3
<1>11. new \in MessageSet
  BY <1>7, <1>10 DEF MessageSet
<1>12. /\ g \in Seq(MessageSet) /\ DOMAIN g = 1..last /\ DOMAIN h = 1..last - 1 /\ last \in Nat
       /\ \A i \in DOMAIN h : i \in DOMAIN g /\ g[i] = h[i] /\ i < last
       /\ last \in DOMAIN g /\ g[last] = new
       /\ \A i \in DOMAIN g : i \in DOMAIN h \/ i = last
  BY <1>4, <1>8, <1>11 DEF h
<1> HIDE DEF last
\* A call of the answer is one of those that were made.
<1>13. ASSUME NEW k \in DOMAIN g[last].parts, g[last].parts[k].kind = "call"
       PROVE  k - Len(text) \in DOMAIN calls /\ g[last].parts[k] = calls[k - Len(text)]
  <2>1. g[last].parts = text \o calls
    BY <1>7, <1>12
  <2>2. Text.kind # "call"
    BY DEF Text
  <2> QED BY <1>10, <1>13, <2>1, <2>2
<1>14. ConversationTypes'
  BY <1>3, <1>4, <1>6, <1>8, <1>9, <1>12 DEF ConversationTypes, g
<1>15. CallsInv'
  <2>1. ASSUME NEW i \in DOMAIN g, NEW k \in DOMAIN g[i].parts, g[i].parts[k].kind = "call"
        PROVE  /\ g[i].role = "assistant"
               /\ g[i].parts[k].n <= made' /\ g[i].parts[k].id # <<>>
               /\ (g[i].parts[k].id[1] = 0 => g[i].parts[k].id = <<0, g[i].parts[k].n>>)
    <3>1. CASE i = last
      <4> DEFINE j == k - Len(text)
      <4>0. j \in DOMAIN calls /\ g[i].parts[k] = calls[j]
        BY <1>13, <2>1, <3>1
      <4>1. j \in DOMAIN calls /\ g[i].parts[k] = calls[j] /\ g[i].role = "assistant"
        BY <1>7, <1>12, <3>1, <4>0
      <4> HIDE DEF j
      <4>2. j \in Nat /\ j <= Len(calls) /\ calls[j].n = made + j
        BY <1>5, <1>6, <4>1 DEF Numbered
      <4>3. made + j <= made'
        BY <1>4, <1>6, <1>8, <4>2
      <4>4. calls[j].id # <<>> /\ (calls[j].id[1] = 0 => calls[j].id = <<0, made + j>>)
        <5>1. CASE own
          <6>1. calls[j].id = <<0, made + j>>
            BY <1>5, <4>1, <5>1 DEF Numbered
          <6>2. <<0, made + j>> # <<>>
            OBVIOUS
          <6> QED BY <6>1, <6>2
        <5>2. CASE ~own
          BY <1>5, <4>1, <5>2 DEF Numbered
        <5> QED BY <5>1, <5>2
      <4> QED BY <4>1, <4>2, <4>3, <4>4
    <3>2. CASE i \in DOMAIN h
      <4>1. g[i] = h[i]
        BY <1>12, <3>2
      <4>2. /\ h[i].role = "assistant"
            /\ h[i].parts[k].n <= made /\ h[i].parts[k].id # <<>>
            /\ (h[i].parts[k].id[1] = 0 => h[i].parts[k].id = <<0, h[i].parts[k].n>>)
        BY <1>3, <2>1, <3>2, <4>1 DEF CallsInv, h
      <4>3. h[i].parts[k].n \in Nat
        <5>1. h[i] \in MessageSet
          BY <1>4, <3>2
        <5>2. h[i].parts \in Seq(Parts)
          BY <5>1 DEF MessageSet
        <5>3. h[i].parts[k] \in Parts /\ h[i].parts[k].kind = "call"
          BY <2>1, <4>1, <5>2
        <5>4. h[i].parts[k] \in Calls
          BY <5>3 DEF Parts, Text, ToolResults
        <5> QED BY <5>4 DEF Calls
      <4>4. made <= made'
        BY <1>4, <1>6, <1>8
      <4>5. h[i].parts[k].n <= made'
        BY <1>4, <1>6, <1>8, <4>2, <4>3, <4>4
      <4> QED BY <4>1, <4>2, <4>5
    <3> QED BY <1>12, <3>1, <3>2
  <2> QED BY <2>1 DEF CallsInv, g
<1>16. CallIdsDistinct'
  <2>1. ASSUME NEW i \in DOMAIN g, NEW j \in DOMAIN g,
               NEW k \in DOMAIN g[i].parts, NEW l \in DOMAIN g[j].parts,
               g[i].parts[k].kind = "call", g[j].parts[l].kind = "call",
               g[i].parts[k].id = g[j].parts[l].id, i < j \/ (i = j /\ k < l)
        PROVE  g[j].parts[l].blind
    <3>1. CASE j \in DOMAIN h
      <4>1. i \in DOMAIN h /\ g[i] = h[i] /\ g[j] = h[j]
        BY <1>12, <2>1, <3>1
      <4> QED BY <1>3, <2>1, <3>1, <4>1 DEF CallIdsDistinct, h
    <3>2. CASE j = last
      <4> DEFINE b == l - Len(text)
      <4>1. b \in DOMAIN calls /\ g[j].parts[l] = calls[b]
        BY <1>13, <2>1, <3>2
      <4> HIDE DEF b
      <4>2. CASE i = last
        <5> DEFINE a == k - Len(text)
        <5>1. a \in DOMAIN calls /\ g[i].parts[k] = calls[a]
          BY <1>13, <2>1, <4>2
        <5>2. a < b
          <6>1. k < l /\ k \in Nat /\ l \in Nat /\ Len(text) \in Nat
            <7>1. g[last].parts \in Seq(Parts)
              BY <1>11, <1>12 DEF MessageSet
            <7> QED BY <1>6, <1>12, <2>1, <3>2, <4>2, <7>1
          <6> QED BY <6>1 DEF b
        <5> HIDE DEF a
        <5>3. calls[a].id # calls[b].id
          BY <1>5, <4>1, <5>1, <5>2 DEF Numbered
        <5> QED BY <2>1, <4>1, <5>1, <5>3
      <4>3. CASE i \in DOMAIN h
        <5> DEFINE c == history[i].parts[k]
        <5>1. g[i].parts[k] = c /\ i \in DOMAIN history /\ k \in DOMAIN history[i].parts /\ c.kind = "call"
          BY <1>12, <2>1, <4>3 DEF h
        <5>2. CASE own
          <6>1. calls[b].id = <<0, made + b>> /\ b \in Nat /\ b # 0
            BY <1>5, <1>6, <4>1, <5>2 DEF Numbered
          <6>2. c.n <= made /\ (c.id[1] = 0 => c.id = <<0, c.n>>)
            BY <1>3, <5>1 DEF CallsInv
          <6>3. c.n \in Nat
            <7>1. history[i] \in MessageSet
              BY <1>3, <5>1 DEF ConversationTypes
            <7>2. history[i].parts \in Seq(Parts)
              BY <7>1 DEF MessageSet
            <7>3. c \in Parts
              BY <5>1, <7>2
            <7>4. c \in Calls
              BY <5>1, <7>3 DEF Parts, Text, ToolResults
            <7> QED BY <7>4 DEF Calls
          <6> HIDE DEF c
          <6>4. c.id = <<0, made + b>>
            BY <2>1, <4>1, <5>1, <6>1
          <6>5. c.id = <<0, c.n>>
            BY <6>2, <6>4
          <6>6. c.n = made + b
            BY <6>4, <6>5
          <6> QED BY <1>4, <6>1, <6>2, <6>3, <6>6
        <5>3. CASE ~own /\ route # "jetbrains_google"
          <6>1. c.id \in used
            BY <1>3, <5>1, <5>3, UsedIdsKnown DEF used
          <6>2. calls[b].id \notin used
            BY <1>5, <4>1, <5>3 DEF Numbered
          <6> HIDE DEF c
          <6> QED BY <2>1, <4>1, <5>1, <6>1, <6>2
        <5>4. CASE ~own /\ route = "jetbrains_google"
          <6>1. calls[b].blind
            BY <1>5, <4>1, <5>4 DEF Numbered
          <6> QED BY <4>1, <6>1
        <5> QED BY <5>2, <5>3, <5>4
      <4> QED BY <1>12, <4>2, <4>3
    <3> QED BY <1>12, <3>1, <3>2
  <2> QED BY <2>1 DEF CallIdsDistinct, g
<1> QED BY <1>14, <1>15, <1>16 DEF ConversationInv

LEMMA ConversationInvariance == Conversation => []ConversationInv
<1>1. ConversationInit => ConversationInv
  <2> SUFFICES ASSUME ConversationInit PROVE ConversationInv
    OBVIOUS
  <2>1. history = <<>> /\ DOMAIN history = {} /\ made = 0
    BY DEF ConversationInit
  <2>2. ConversationTypes
    BY <2>1 DEF ConversationInit, ConversationTypes
  <2> QED BY <2>1, <2>2 DEF ConversationInv, CallsInv, CallIdsDistinct
<1>2. ConversationInv /\ [ConversationNext]_conversationVars => ConversationInv'
  <2> SUFFICES ASSUME ConversationInv, [ConversationNext]_conversationVars PROVE ConversationInv'
    OBVIOUS
  <2>1. CASE Say
    BY <2>1, SayKeeps
  <2>2. CASE Generate
    BY <2>2, GenerateKeeps
  <2>3. CASE ReturnResults
    BY <2>3, ReturnResultsKeeps
  <2>4. CASE UNCHANGED conversationVars
    BY <2>4 DEF conversationVars, ConversationInv, ConversationTypes, CallsInv, CallIdsDistinct
  <2> QED BY <2>1, <2>2, <2>3, <2>4 DEF ConversationNext
<1> QED BY <1>1, <1>2, PTL DEF Conversation

\* However the providers alternate, whatever their answers and the names of the
\* tools, the ids that the clients make up (_google_response_result,
\* _parse_candidate_parts) or pass on are distinct in every conversation, but
\* for those of JetBrains' Google models, which are made up blindly.
THEOREM CallIdsAreDistinct == Conversation => []CallIdsDistinct
<1>1. ConversationInv => CallIdsDistinct
  BY DEF ConversationInv
<1> QED BY <1>1, ConversationInvariance, PTL

-----------------------------------------------------------------------------
(* What Kind makes of special sequences.                                   *)

\* Kind keeps the order.
LEMMA KindPlaces ==
    ASSUME NEW T, NEW parts \in Seq(T), NEW kind
    PROVE  \E g \in [DOMAIN Kind(parts, kind) -> DOMAIN parts] :
              /\ \A l \in DOMAIN g : Kind(parts, kind)[l] = parts[g[l]]
              /\ \A l, m \in DOMAIN g : l < m => g[l] < g[m]
              /\ \A k \in DOMAIN parts : parts[k].kind = kind => \E l \in DOMAIN g : g[l] = k
<1> DEFINE n == Len(parts)
<1>1. PICK f : Kept(f, parts, kind) /\ Kind(parts, kind) = f[n]
  BY KindIsKept
<1>2. \A i \in 0..n : f[i] = IF i = 0 THEN <<>>
                             ELSE IF parts[i].kind = kind THEN Append(f[i - 1], parts[i]) ELSE f[i - 1]
  BY <1>1 DEF Kept
<1>3. n \in Nat /\ DOMAIN parts = 1..n /\ \A i \in 1..n : parts[i] \in T
  OBVIOUS
<1> DEFINE Places(g, i) ==
              /\ g \in [DOMAIN f[i] -> 1..i]
              /\ \A l \in DOMAIN f[i] : f[i][l] = parts[g[l]]
              /\ \A l, m \in DOMAIN f[i] : l < m => g[l] < g[m]
              /\ \A k \in 1..i : parts[k].kind = kind => \E l \in DOMAIN f[i] : g[l] = k
           Good(i) == f[i] \in Seq(T) /\ \E g : Places(g, i)
           Q == {i \in 0..n : Good(i)}
<1> HIDE DEF n
<1>4. 0 \in Q
  <2>1. 0 \in 0..n /\ f[0] = <<>>
    BY <1>2, <1>3
  <2>2. DOMAIN f[0] = {} /\ 1..0 = {} /\ f[0] \in Seq(T)
    BY <2>1
  <2>3. <<>> \in [DOMAIN f[0] -> 1..0]
    BY <2>2
  <2>4. Places(<<>>, 0)
    BY <2>2, <2>3
  <2>5. Good(0)
    BY <2>2, <2>4
  <2> QED BY <2>1, <2>5
<1>5. ASSUME NEW i \in 0..n, i \in Q, i # n PROVE i + 1 \in Q
  <2>1. i + 1 \in 0..n /\ i + 1 # 0 /\ i + 1 - 1 = i /\ parts[i + 1] \in T /\ i \in Nat
    BY <1>3, <1>5
  <2>2. f[i + 1] = IF parts[i + 1].kind = kind THEN Append(f[i], parts[i + 1]) ELSE f[i]
    BY <1>2, <2>1
  <2>3. f[i] \in Seq(T) /\ \E g : Places(g, i)
    BY <1>5
  <2>4. PICK g : Places(g, i)
    BY <2>3
  <2>5. CASE parts[i + 1].kind = kind
    <3> DEFINE d == Len(f[i]) + 1
               h == [l \in 1..d |-> IF l = d THEN i + 1 ELSE g[l]]
    <3>1. f[i + 1] = Append(f[i], parts[i + 1])
      BY <2>2, <2>5
    <3>2. /\ f[i + 1] \in Seq(T) /\ DOMAIN f[i + 1] = 1..d /\ DOMAIN f[i] = 1..d - 1 /\ d \in Nat
          /\ \A l \in DOMAIN f[i] : l # d /\ f[i + 1][l] = f[i][l]
          /\ f[i + 1][d] = parts[i + 1]
          /\ \A l \in 1..d : l # d => l \in DOMAIN f[i]
      BY <2>1, <2>3, <3>1
    <3> HIDE DEF d
    <3>3. /\ h \in [1..d -> 1..i + 1]
          /\ \A l \in 1..d : l # d => h[l] = g[l] /\ h[l] \in 1..i
          /\ d \in 1..d /\ h[d] = i + 1
      <4>1. \A l \in 1..d : l # d => g[l] \in 1..i
        BY <2>4, <3>2
      <4>2. d \in 1..d
        <5>1. d # 0
          BY <2>3 DEF d
        <5> QED BY <3>2, <5>1
      <4>3. i + 1 \in 1..i + 1 /\ \A x \in 1..i : x \in 1..i + 1
        BY <2>1
      <4> QED BY <4>1, <4>2, <4>3
    <3> HIDE DEF h
    <3>4. \A l \in 1..d : f[i + 1][l] = parts[h[l]]
      BY <2>4, <3>2, <3>3
    <3>5. ASSUME NEW l \in 1..d, NEW m \in 1..d, l < m PROVE h[l] < h[m]
      <4>1. l # d
        BY <3>2, <3>5
      <4>2. CASE m = d
        <5>1. h[l] \in 1..i /\ h[m] = i + 1
          BY <3>3, <4>1, <4>2
        <5> QED BY <5>1, <2>1
      <4>3. CASE m # d
        BY <2>4, <3>2, <3>3, <3>5, <4>1, <4>3
      <4> QED BY <4>2, <4>3
    <3>6. ASSUME NEW k \in 1..i + 1, parts[k].kind = kind PROVE \E l \in 1..d : h[l] = k
      <4>1. CASE k = i + 1
        BY <3>2, <3>3, <4>1
      <4>2. CASE k # i + 1
        <5>1. k \in 1..i
          BY <2>1, <4>2
        <5>2. PICK l \in DOMAIN f[i] : g[l] = k
          BY <2>4, <3>6, <5>1
        <5>3. l \in 1..d /\ l # d
          BY <3>2, <5>2
        <5> QED BY <3>3, <5>2, <5>3
      <4> QED BY <4>1, <4>2
    <3>7. Places(h, i + 1)
      BY <3>2, <3>3, <3>4, <3>5, <3>6
    <3> QED BY <2>1, <3>2, <3>7, Zenon
  <2>6. CASE parts[i + 1].kind # kind
    <3>1. f[i + 1] = f[i]
      BY <2>2, <2>6
    <3>2. \A k \in 1..i + 1 : parts[k].kind = kind => k \in 1..i
      BY <2>1, <2>6
    <3>3. g \in [DOMAIN f[i] -> 1..i + 1]
      BY <2>1, <2>4
    <3>4. Places(g, i + 1)
      BY <2>4, <3>1, <3>2, <3>3
    <3> QED BY <2>1, <2>3, <3>1, <3>4, Zenon
  <2> QED BY <2>5, <2>6
<1>6. \A i \in 0..n : i \in Q
  <2> HIDE DEF Q
  <2> QED BY <1>3, <1>4, <1>5, UpTo
<1>7. n \in 0..n
  BY <1>3
<1>8. \E g : Places(g, n)
  BY <1>6, <1>7
<1>9. PICK g : Places(g, n)
  BY <1>8
<1>10. DOMAIN g = DOMAIN Kind(parts, kind)
  BY <1>1, <1>9
<1> QED BY <1>1, <1>3, <1>9, <1>10

\* All of them, or none, are of the kind.
LEMMA KindOfAll ==
    ASSUME NEW T, NEW parts \in Seq(T), NEW kind
    PROVE  /\ (\A k \in DOMAIN parts : parts[k].kind = kind) => Kind(parts, kind) = parts
           /\ (\A k \in DOMAIN parts : parts[k].kind # kind) => Kind(parts, kind) = <<>>
<1> DEFINE n == Len(parts)
<1>1. PICK f : Kept(f, parts, kind) /\ Kind(parts, kind) = f[n]
  BY KindIsKept
<1>2. \A i \in 0..n : f[i] = IF i = 0 THEN <<>>
                             ELSE IF parts[i].kind = kind THEN Append(f[i - 1], parts[i]) ELSE f[i - 1]
  BY <1>1 DEF Kept
<1>3. n \in Nat /\ DOMAIN parts = 1..n /\ n \in 0..n /\ 0 \in 0..n /\ \A i \in 1..n : parts[i] \in T
  OBVIOUS
<1> HIDE DEF n
<1>4. ASSUME \A k \in DOMAIN parts : parts[k].kind = kind PROVE Kind(parts, kind) = parts
  <2> DEFINE Q == {i \in 0..n : f[i] \in Seq(T) /\ Len(f[i]) = i /\ \A k \in 1..i : f[i][k] = parts[k]}
  <2>1. 0 \in Q
    <3>1. f[0] = <<>>
      BY <1>2, <1>3
    <3>2. <<>> \in Seq(T) /\ Len(<<>>) = 0 /\ 1..0 = {}
      OBVIOUS
    <3> QED BY <1>3, <3>1, <3>2
  <2>2. ASSUME NEW i \in 0..n, i \in Q, i # n PROVE i + 1 \in Q
    <3>1. i + 1 \in 0..n /\ i + 1 # 0 /\ i + 1 - 1 = i /\ i + 1 \in 1..n /\ i \in Nat /\ parts[i + 1] \in T
      BY <1>3, <2>2
    <3>2. f[i + 1] = Append(f[i], parts[i + 1])
      <4>1. parts[i + 1].kind = kind
        BY <1>3, <1>4, <3>1
      <4>2. PICK j : j = i + 1
        OBVIOUS
      <4>3. j \in 0..n /\ j # 0 /\ j - 1 = i /\ parts[j].kind = kind
        BY <3>1, <4>1, <4>2
      <4>4. f[j] = Append(f[i], parts[j])
        BY <1>2, <4>3
      <4> QED BY <4>2, <4>4
    <3>3. f[i] \in Seq(T) /\ Len(f[i]) = i /\ \A k \in 1..i : f[i][k] = parts[k]
      BY <2>2
    <3>4. f[i + 1] \in Seq(T) /\ Len(f[i + 1]) = i + 1 /\ \A k \in 1..i + 1 : f[i + 1][k] = parts[k]
      BY <3>1, <3>2, <3>3
    <3> QED BY <3>1, <3>4
  <2>3. \A i \in 0..n : i \in Q
    <3> HIDE DEF Q
    <3> QED BY <1>3, <2>1, <2>2, UpTo
  <2>4. f[n] \in Seq(T) /\ Len(f[n]) = Len(parts) /\ \A k \in 1..Len(f[n]) : f[n][k] = parts[k]
    BY <1>3, <2>3 DEF n
  <2>5. f[n] = parts
    BY <2>4, SeqEqual
  <2> QED BY <1>1, <2>5
<1>5. ASSUME \A k \in DOMAIN parts : parts[k].kind # kind PROVE Kind(parts, kind) = <<>>
  <2> DEFINE Q == {i \in 0..n : f[i] = <<>>}
  <2>1. 0 \in Q
    BY <1>2, <1>3
  <2>2. ASSUME NEW i \in 0..n, i \in Q, i # n PROVE i + 1 \in Q
    <3>1. i + 1 \in 0..n /\ i + 1 # 0 /\ i + 1 - 1 = i /\ i + 1 \in 1..n
      BY <1>3, <2>2
    <3>2. f[i + 1] = f[i]
      <4>1. parts[i + 1].kind # kind
        BY <1>3, <1>5, <3>1
      <4> QED BY <1>2, <3>1, <4>1
    <3> QED BY <2>2, <3>1, <3>2
  <2>3. \A i \in 0..n : i \in Q
    <3> HIDE DEF Q
    <3> QED BY <1>3, <2>1, <2>2, UpTo
  <2> QED BY <1>1, <1>3, <2>3
<1> QED BY <1>4, <1>5

\* Kind goes with concatenation.
LEMMA KindJoins ==
    ASSUME NEW T, NEW a \in Seq(T), NEW b \in Seq(T), NEW kind
    PROVE  Kind(a \o b, kind) = Kind(a, kind) \o Kind(b, kind)
<1> DEFINE c == a \o b
           m == Len(a)
           n == Len(b)
<1>0. /\ c \in Seq(T) /\ Len(c) = m + n /\ m \in Nat /\ n \in Nat
      /\ \A i \in 1..m : i \in 1..m + n /\ c[i] = a[i]
      /\ \A i \in 1..n : m + i \in 1..m + n /\ c[m + i] = b[i]
      /\ \A i \in 1..m : a[i] \in T
      /\ \A i \in 1..n : b[i] \in T
  OBVIOUS
<1> HIDE DEF c
<1>1. PICK f : Kept(f, c, kind) /\ Kind(c, kind) = f[Len(c)]
  BY <1>0, KindIsKept
<1>2. PICK g : Kept(g, a, kind) /\ Kind(a, kind) = g[m]
  BY KindIsKept
<1>3. PICK h : Kept(h, b, kind) /\ Kind(b, kind) = h[n]
  BY KindIsKept
<1>4. /\ \A i \in 0..m + n : f[i] = IF i = 0 THEN <<>>
                             ELSE IF c[i].kind = kind THEN Append(f[i - 1], c[i]) ELSE f[i - 1]
      /\ \A i \in 0..m : g[i] = IF i = 0 THEN <<>>
                             ELSE IF a[i].kind = kind THEN Append(g[i - 1], a[i]) ELSE g[i - 1]
      /\ \A i \in 0..n : h[i] = IF i = 0 THEN <<>>
                             ELSE IF b[i].kind = kind THEN Append(h[i - 1], b[i]) ELSE h[i - 1]
  BY <1>0, <1>1, <1>2, <1>3 DEF Kept
<1> HIDE DEF m, n
<1>5. \A i \in 0..m : f[i] = g[i] /\ g[i] \in Seq(T)
  <2> DEFINE Q == {i \in 0..m : f[i] = g[i] /\ g[i] \in Seq(T)}
  <2>1. 0 \in Q
    <3>1. 0 \in 0..m /\ 0 \in 0..m + n /\ f[0] = <<>> /\ g[0] = <<>> /\ <<>> \in Seq(T)
      BY <1>0, <1>4
    <3> QED BY <3>1
  <2>2. ASSUME NEW i \in 0..m, i \in Q, i # m PROVE i + 1 \in Q
    <3>1. /\ i + 1 \in 0..m /\ i + 1 \in 0..m + n /\ i + 1 # 0 /\ i + 1 - 1 = i /\ i + 1 \in 1..m
          /\ c[i + 1] = a[i + 1] /\ a[i + 1] \in T
      BY <1>0, <2>2
    <3>2. /\ f[i + 1] = IF a[i + 1].kind = kind THEN Append(f[i], a[i + 1]) ELSE f[i]
          /\ g[i + 1] = IF a[i + 1].kind = kind THEN Append(g[i], a[i + 1]) ELSE g[i]
      BY <1>4, <3>1
    <3>3. f[i] = g[i] /\ g[i] \in Seq(T)
      BY <2>2
    <3>4. f[i + 1] = g[i + 1]
      BY <3>2, <3>3
    <3>5. g[i + 1] \in Seq(T)
      BY <3>1, <3>2, <3>3
    <3> QED BY <3>1, <3>4, <3>5
  <2>3. \A i \in 0..m : i \in Q
    <3> HIDE DEF Q
    <3> QED BY <1>0, <2>1, <2>2, UpTo
  <2> QED BY <2>3
<1>6. \A i \in 0..n : f[m + i] = g[m] \o h[i] /\ h[i] \in Seq(T)
  <2> DEFINE Q == {i \in 0..n : f[m + i] = g[m] \o h[i] /\ h[i] \in Seq(T)}
  <2>0. g[m] \in Seq(T) /\ f[m] = g[m]
    BY <1>0, <1>5
  <2>1. 0 \in Q
    <3>1. 0 \in 0..n /\ h[0] = <<>> /\ m + 0 = m
      BY <1>0, <1>4
    <3>2. g[m] \o <<>> = g[m] /\ <<>> \in Seq(T)
      BY <2>0
    <3> QED BY <2>0, <3>1, <3>2
  <2>2. ASSUME NEW i \in 0..n, i \in Q, i # n PROVE i + 1 \in Q
    <3>1. /\ i + 1 \in 0..n /\ m + (i + 1) \in 0..m + n /\ i + 1 # 0 /\ i + 1 - 1 = i /\ i + 1 \in 1..n
          /\ m + (i + 1) # 0 /\ m + (i + 1) - 1 = m + i
          /\ c[m + (i + 1)] = b[i + 1] /\ b[i + 1] \in T
      BY <1>0, <2>2
    <3>2. /\ f[m + (i + 1)] = IF b[i + 1].kind = kind THEN Append(f[m + i], b[i + 1]) ELSE f[m + i]
          /\ h[i + 1] = IF b[i + 1].kind = kind THEN Append(h[i], b[i + 1]) ELSE h[i]
      <4>1. PICK j, k : j = i + 1 /\ k = m + j
        OBVIOUS
      <4>2. k \in 0..m + n /\ k # 0 /\ k - 1 = m + i /\ c[k] = b[j]
        <5>1. k = m + (i + 1) /\ j = i + 1
          BY <4>1
        <5>2. k \in 0..m + n
          BY <3>1, <5>1
        <5>3. k # 0 /\ k - 1 = m + i
          <6>1. m \in Nat /\ i \in Nat
            BY <1>0, <2>2
          <6> QED BY <5>1, <6>1
        <5>4. c[k] = b[j]
          BY <3>1, <5>1
        <5> QED BY <5>2, <5>3, <5>4
      <4>3. j \in 0..n /\ j # 0 /\ j - 1 = i
        BY <3>1, <4>1
      <4>4. f[k] = IF b[j].kind = kind THEN Append(f[m + i], b[j]) ELSE f[m + i]
        BY <1>4, <4>2
      <4>5. h[j] = IF b[j].kind = kind THEN Append(h[i], b[j]) ELSE h[i]
        BY <1>4, <4>3
      <4> QED BY <4>1, <4>4, <4>5
    <3>3. f[m + i] = g[m] \o h[i] /\ h[i] \in Seq(T)
      BY <2>2
    <3>4. Append(g[m] \o h[i], b[i + 1]) = g[m] \o Append(h[i], b[i + 1])
      <4> DEFINE x == g[m]
                 y == h[i]
                 e == b[i + 1]
      <4>1. x \in Seq(T) /\ y \in Seq(T) /\ e \in T
        BY <2>0, <3>1, <3>3
      <4> HIDE DEF x, y, e
      <4>2. Append(x \o y, e) = x \o Append(y, e)
        <5>1. <<e>> \in Seq(T) /\ x \o y \in Seq(T)
          BY <4>1
        <5>2. Append(x \o y, e) = (x \o y) \o <<e>> /\ Append(y, e) = y \o <<e>>
          BY <4>1, <5>1, AppendIsConcat
        <5>3. (x \o y) \o <<e>> = x \o (y \o <<e>>)
          BY <4>1, <5>1, ConcatAssociative
        <5> QED BY <5>2, <5>3
      <4> QED BY <4>2 DEF x, y, e
    <3>5. h[i + 1] \in Seq(T)
      BY <3>1, <3>2, <3>3
    <3> QED BY <3>1, <3>2, <3>3, <3>4, <3>5
  <2>3. \A i \in 0..n : i \in Q
    <3> HIDE DEF Q
    <3> QED BY <1>0, <2>1, <2>2, UpTo
  <2> QED BY <2>3
<1>7. n \in 0..n
  BY <1>0
<1> QED BY <1>0, <1>1, <1>2, <1>3, <1>6, <1>7 DEF c

\* One sequence more.
LEMMA FlattenMore ==
    ASSUME NEW T, NEW s \in Seq(Seq(T)), NEW x \in Seq(T)
    PROVE  FlattenSeq(Append(s, x)) = FlattenSeq(s) \o x
<1> DEFINE n == Len(s)
           t == Append(s, x)
<1>1. /\ t \in Seq(Seq(T)) /\ t # <<>> /\ Len(t) = n + 1 /\ n \in Nat
      /\ \A i \in 1..n : i \in 1..n + 1 /\ t[i] = s[i]
      /\ t[n + 1] = x /\ n + 1 \in 1..n + 1
  <2> DEFINE S == Seq(T)
  <2>1. s \in Seq(S) /\ x \in S
    OBVIOUS
  <2> HIDE DEF S
  <2>2. n \in Nat
    BY <2>1
  <2>3. /\ t \in Seq(S) /\ t # <<>> /\ Len(t) = n + 1
        /\ \A i \in 1..n : t[i] = s[i]
        /\ t[n + 1] = x
    BY <2>1, AppendProperties
  <2> QED BY <2>2, <2>3 DEF S
<1> HIDE DEF t
<1>2. PICK g : Joined(g, t) /\ FlattenSeq(t) = g[n + 1]
  BY <1>1, FlattenIsJoined
<1>3. \A i \in 1..n + 1 : g[i] = IF i = 1 THEN t[i] ELSE g[i - 1] \o t[i]
  BY <1>1, <1>2 DEF Joined
<1>4. CASE s = <<>>
  <2>1. FlattenSeq(s) = <<>> /\ n = 0
    BY <1>4 DEF FlattenSeq
  <2>2. g[1] = x /\ <<>> \o x = x
    BY <1>1, <1>3, <2>1
  <2> QED BY <1>2, <2>1, <2>2 DEF t
<1>5. CASE s # <<>>
  <2>1. PICK f : Joined(f, s) /\ FlattenSeq(s) = f[n]
    BY <1>5, FlattenIsJoined
  <2>2. \A i \in 1..n : f[i] = IF i = 1 THEN s[i] ELSE f[i - 1] \o s[i]
    BY <2>1 DEF Joined
  <2>3. n # 0
    BY <1>5
  <2> HIDE DEF n
  <2> DEFINE Q == {i \in 1..n : f[i] = g[i]}
  <2>4. 1 \in Q
    <3>1. 1 \in 1..n /\ 1 \in 1..n + 1
      BY <1>1, <2>3
    <3> QED BY <1>1, <1>3, <2>2, <3>1
  <2>5. ASSUME NEW i \in 1..n, i \in Q, i # n PROVE i + 1 \in Q
    <3>1. i + 1 \in 1..n /\ i + 1 # 1 /\ i + 1 - 1 = i
      BY <1>1, <2>5
    <3>2. i + 1 \in 1..n + 1 /\ t[i + 1] = s[i + 1]
      BY <1>1, <3>1
    <3>3. PICK j : j = i + 1
      OBVIOUS
    <3>4. j \in 1..n /\ j \in 1..n + 1 /\ j # 1 /\ j - 1 = i /\ t[j] = s[j]
      BY <3>1, <3>2, <3>3
    <3>5. g[j] = g[i] \o s[j]
      BY <1>3, <3>4
    <3>6. f[j] = f[i] \o s[j]
      BY <2>2, <3>4
    <3> QED BY <2>5, <3>1, <3>3, <3>5, <3>6
  <2>6. \A i \in 1..n : i \in Q
    <3>1. 1 \in Nat
      OBVIOUS
    <3> HIDE DEF Q
    <3> QED BY <1>1, <2>4, <2>5, <3>1, UpTo
  <2>7. f[n] = g[n] /\ n + 1 # 1 /\ n + 1 - 1 = n
    BY <1>1, <2>3, <2>6
  <2>8. g[n + 1] = g[n] \o x
    <3>1. PICK j : j = n + 1
      OBVIOUS
    <3>2. j \in 1..n + 1 /\ j # 1 /\ j - 1 = n /\ t[j] = x
      BY <1>1, <2>7, <3>1
    <3>3. g[j] = g[n] \o x
      BY <1>3, <3>2
    <3> QED BY <3>1, <3>3
  <2> QED BY <1>2, <2>1, <2>7, <2>8 DEF t
<1> QED BY <1>4, <1>5

-----------------------------------------------------------------------------
(* The discipline of the messages that the clients are given.              *)

\* What a message may hold: texts, the assistant calls after them, tool one
\* result.
Shaped(m) ==
    /\ m \in MessageSet
    /\ m.role \in {"user", "system"} => \A k \in DOMAIN m.parts : m.parts[k].kind = "text"
    /\ m.role = "assistant" =>
          \A k \in DOMAIN m.parts : /\ m.parts[k].kind \in {"text", "call"}
                                    /\ \A l \in DOMAIN m.parts : m.parts[k].kind = "call" /\ k < l
                                          => m.parts[l].kind = "call"
    /\ m.role = "tool" => Len(m.parts) = 1 /\ m.parts[1].kind = "result"

\* Part k of message i is a call.
CallAt(u, i, k) == i \in DOMAIN u /\ k \in DOMAIN u[i].parts /\ u[i].parts[k].kind = "call"

\* Message i returns the result of call k of message j: only what the user
\* says and other results stand between, the user's first.
Returns(u, i, j, k) ==
    /\ CallAt(u, j, k) /\ j < i
    /\ u[i].parts[1].n = u[j].parts[k].n /\ u[i].parts[1].id = u[j].parts[k].id
    /\ \A h \in (j + 1)..(i - 1) :
          /\ u[h].role \in {"user", "tool"}
          /\ u[h].role = "user" => \A g \in (j + 1)..h : u[g].role = "user"

ToolAt(u, i) == i \in DOMAIN u /\ u[i].role = "tool"

\* The messages keep the discipline of tools.
CallsOnce(u) ==
    \A i, j \in DOMAIN u : \A k \in DOMAIN u[i].parts, l \in DOMAIN u[j].parts :
        CallAt(u, i, k) /\ CallAt(u, j, l) =>
            /\ u[i].parts[k].n = u[j].parts[l].n => i = j /\ k = l
            /\ i = j /\ u[i].parts[k].id = u[j].parts[l].id => k = l

ResultsOnce(u) ==
    \A i, j \in DOMAIN u : ToolAt(u, i) /\ ToolAt(u, j) /\ u[i].parts[1].n = u[j].parts[1].n => i = j

ResultsReturn(u) ==
    \A i \in DOMAIN u : ToolAt(u, i) =>
        \E j \in DOMAIN u : \E k \in DOMAIN u[j].parts : Returns(u, i, j, k)

CallsAnswered(u) ==
    \A j \in DOMAIN u : \A k \in DOMAIN u[j].parts : CallAt(u, j, k) /\ j # Len(u) =>
        \E i \in DOMAIN u : ToolAt(u, i) /\ u[i].parts[1].n = u[j].parts[k].n

CallsMade(u, m) ==
    /\ \A j \in DOMAIN u : \A k \in DOMAIN u[j].parts : CallAt(u, j, k) => u[j].parts[k].n \in 1..m
    /\ \A n \in 1..m : \E j \in DOMAIN u : \E k \in DOMAIN u[j].parts :
          CallAt(u, j, k) /\ u[j].parts[k].n = n

Disciplined(u, m) ==
    /\ u \in Seq(MessageSet) /\ \A i \in DOMAIN u : Shaped(u[i])
    /\ CallsOnce(u) /\ ResultsOnce(u) /\ ResultsReturn(u) /\ CallsAnswered(u) /\ CallsMade(u, m)

CallsOf(messages) == {p \in PartsIn(messages) : p.kind = "call"}

\* U goes on where u ends.
Extends(u, U) ==
    /\ u \in Seq(MessageSet) /\ U \in Seq(MessageSet) /\ Len(u) <= Len(U)
    /\ \A i \in DOMAIN u : U[i] = u[i]

IsNew(u, U, i) == i \in DOMAIN U /\ i \notin DOMAIN u

\* What a continuation keeps.
LEMMA ExtendsFacts ==
    ASSUME NEW u, NEW U, Extends(u, U)
    PROVE  /\ DOMAIN u = 1..Len(u) /\ Len(u) \in Nat /\ DOMAIN U = 1..Len(U) /\ Len(U) \in Nat
           /\ DOMAIN u \subseteq DOMAIN U
           /\ \A i : IsNew(u, U, i) <=> i \in (Len(u) + 1)..Len(U)
           /\ \A i \in DOMAIN u : \A j \in Nat : 1 <= j /\ j <= i => j \in DOMAIN u
           /\ \A i \in DOMAIN u : ToolAt(U, i) <=> ToolAt(u, i)
           /\ \A i \in DOMAIN u : \A k : CallAt(U, i, k) <=> CallAt(u, i, k)
           /\ \A i \in DOMAIN u : \A j \in DOMAIN u : \A k : Returns(u, i, j, k) => Returns(U, i, j, k)
<1>1. DOMAIN u = 1..Len(u) /\ Len(u) \in Nat /\ DOMAIN U = 1..Len(U) /\ Len(U) \in Nat
      /\ Len(u) <= Len(U) /\ \A i \in DOMAIN u : U[i] = u[i]
  BY DEF Extends
<1>2. /\ DOMAIN u \subseteq DOMAIN U
      /\ \A i : IsNew(u, U, i) <=> i \in (Len(u) + 1)..Len(U)
      /\ \A i \in DOMAIN u : \A j \in Nat : 1 <= j /\ j <= i => j \in DOMAIN u
  BY <1>1 DEF IsNew
<1>3. /\ \A i \in DOMAIN u : ToolAt(U, i) <=> ToolAt(u, i)
      /\ \A i \in DOMAIN u : \A k : CallAt(U, i, k) <=> CallAt(u, i, k)
  BY <1>1, <1>2 DEF ToolAt, CallAt
<1>4. ASSUME NEW i \in DOMAIN u, NEW j \in DOMAIN u, NEW k, Returns(u, i, j, k)
      PROVE  Returns(U, i, j, k)
  <2>1. \A h \in (j + 1)..(i - 1) : h \in DOMAIN u /\ \A g \in (j + 1)..h : g \in DOMAIN u
    BY <1>1
  <2>2. \A h \in (j + 1)..(i - 1) : U[h] = u[h] /\ \A g \in (j + 1)..h : U[g] = u[g]
    BY <1>1, <2>1
  <2> QED BY <1>1, <1>3, <1>4, <2>2 DEF Returns
<1> QED BY <1>1, <1>2, <1>3, <1>4

\* What new messages must look like.
NewCalls(u, U, m, M) ==
    /\ \A i, k : IsNew(u, U, i) /\ CallAt(U, i, k) => i = Len(U) /\ U[i].parts[k].n \in (m + 1)..M
    /\ \A k, l : IsNew(u, U, Len(U)) /\ CallAt(U, Len(U), k) /\ CallAt(U, Len(U), l) =>
          LET c == U[Len(U)].parts[k]
              d == U[Len(U)].parts[l]
          IN  c.n = d.n \/ c.id = d.id => k = l
    /\ \A n \in (m + 1)..M : \E k : /\ IsNew(u, U, Len(U)) /\ CallAt(U, Len(U), k)
                                    /\ U[Len(U)].parts[k].n = n

NewResults(u, U) ==
    \A i : IsNew(u, U, i) /\ ToolAt(U, i) =>
        /\ \E j, k : Returns(U, i, j, k)
        /\ \A j : ToolAt(U, j) /\ U[j].parts[1].n = U[i].parts[1].n => j = i

LastAnswered(u, U) ==
    \A k : CallAt(u, Len(u), k) /\ Len(u) # Len(U) =>
        \E i : ToolAt(U, i) /\ U[i].parts[1].n = u[Len(u)].parts[k].n

\* A continuation whose calls and results are new, and which goes on after no
\* unanswered call, keeps the discipline.
LEMMA DisciplineKept ==
    ASSUME NEW m \in Nat, NEW M \in Nat, m <= M, NEW u, NEW U,
           Disciplined(u, m), Extends(u, U), \A i : IsNew(u, U, i) => Shaped(U[i]),
           NewCalls(u, U, m, M), NewResults(u, U), LastAnswered(u, U)
    PROVE  Disciplined(U, M)
<1>0. /\ DOMAIN u = 1..Len(u) /\ Len(u) \in Nat /\ DOMAIN U = 1..Len(U) /\ Len(U) \in Nat
      /\ DOMAIN u \subseteq DOMAIN U
      /\ \A i \in DOMAIN u : U[i] = u[i]
      /\ \A i \in DOMAIN u : ToolAt(U, i) <=> ToolAt(u, i)
      /\ \A i \in DOMAIN u : \A k : CallAt(U, i, k) <=> CallAt(u, i, k)
      /\ \A i \in DOMAIN u : \A j \in DOMAIN u : \A k : Returns(u, i, j, k) => Returns(U, i, j, k)
      /\ Len(u) <= Len(U) /\ U \in Seq(MessageSet)
      /\ \A i \in DOMAIN U : i \notin DOMAIN u => IsNew(u, U, i)
  BY ExtendsFacts DEF Extends, IsNew
<1>1. \A i \in DOMAIN U : Shaped(U[i])
  BY <1>0 DEF Disciplined
<1>2. CallsOnce(U)
  <2>1. ASSUME NEW i \in DOMAIN U, NEW j \in DOMAIN U, NEW k, NEW l, CallAt(U, i, k), CallAt(U, j, l)
        PROVE  /\ U[i].parts[k].n = U[j].parts[l].n => i = j /\ k = l
               /\ i = j /\ U[i].parts[k].id = U[j].parts[l].id => k = l
    <3>0. /\ \A a, b : IsNew(u, U, a) /\ CallAt(U, a, b) => a = Len(U) /\ U[a].parts[b].n \in (m + 1)..M
          /\ \A b, c : IsNew(u, U, Len(U)) /\ CallAt(U, Len(U), b) /\ CallAt(U, Len(U), c) =>
                (U[Len(U)].parts[b].n = U[Len(U)].parts[c].n \/ U[Len(U)].parts[b].id = U[Len(U)].parts[c].id
                   => b = c)
      BY DEF NewCalls
    <3>1. CASE i \in DOMAIN u /\ j \in DOMAIN u
      <4>1. CallAt(u, i, k) /\ CallAt(u, j, l) /\ U[i] = u[i] /\ U[j] = u[j]
        BY <1>0, <2>1, <3>1
      <4>2. k \in DOMAIN u[i].parts /\ l \in DOMAIN u[j].parts
        BY <4>1 DEF CallAt
      <4> QED BY <3>1, <4>1, <4>2 DEF Disciplined, CallsOnce
    <3>2. \A a \in DOMAIN u : \A b : CallAt(U, a, b) => U[a].parts[b].n \in 1..m
      <4>1. \A a \in DOMAIN u : \A b \in DOMAIN u[a].parts : CallAt(u, a, b) => u[a].parts[b].n \in 1..m
        BY DEF Disciplined, CallsMade
      <4>2. \A a, b : CallAt(u, a, b) => b \in DOMAIN u[a].parts
        BY DEF CallAt
      <4> QED BY <1>0, <4>1, <4>2
    <3>3. \A x \in 1..m : \A y \in (m + 1)..M : x # y
      OBVIOUS
    <3>4. CASE i \in DOMAIN u /\ j \notin DOMAIN u
      BY <1>0, <2>1, <3>0, <3>2, <3>3, <3>4
    <3>5. CASE i \notin DOMAIN u /\ j \in DOMAIN u
      BY <1>0, <2>1, <3>0, <3>2, <3>3, <3>5
    <3>6. CASE i \notin DOMAIN u /\ j \notin DOMAIN u
      <4>1. i = Len(U) /\ j = Len(U) /\ IsNew(u, U, Len(U))
        BY <1>0, <2>1, <3>0, <3>6
      <4> QED BY <2>1, <3>0, <4>1
    <3> QED BY <3>1, <3>4, <3>5, <3>6
  <2> QED BY <2>1 DEF CallsOnce
<1>3. ResultsOnce(U)
  <2>1. ASSUME NEW i \in DOMAIN U, NEW j \in DOMAIN U, ToolAt(U, i), ToolAt(U, j),
               U[i].parts[1].n = U[j].parts[1].n
        PROVE  i = j
    <3>1. CASE i \in DOMAIN u /\ j \in DOMAIN u
      BY <1>0, <2>1, <3>1 DEF Disciplined, ResultsOnce
    <3>2. CASE i \notin DOMAIN u \/ j \notin DOMAIN u
      BY <1>0, <2>1, <3>2 DEF NewResults
    <3> QED BY <3>1, <3>2
  <2> QED BY <2>1 DEF ResultsOnce
<1>4. ResultsReturn(U)
  <2>1. ASSUME NEW i \in DOMAIN U, ToolAt(U, i)
        PROVE  \E j \in DOMAIN U : \E k \in DOMAIN U[j].parts : Returns(U, i, j, k)
    <3>1. PICK j, k : Returns(U, i, j, k)
      <4>1. CASE i \in DOMAIN u
        <5>1. PICK j \in DOMAIN u : \E k \in DOMAIN u[j].parts : Returns(u, i, j, k)
          BY <1>0, <2>1, <4>1 DEF Disciplined, ResultsReturn
        <5> QED BY <1>0, <4>1, <5>1
      <4>2. CASE i \notin DOMAIN u
        BY <1>0, <2>1, <4>2 DEF NewResults
      <4> QED BY <4>1, <4>2
    <3>2. CallAt(U, j, k)
      BY <3>1 DEF Returns
    <3> QED BY <3>1, <3>2 DEF CallAt
  <2> QED BY <2>1 DEF ResultsReturn
<1>5. CallsAnswered(U)
  <2>1. ASSUME NEW j \in DOMAIN U, NEW k \in DOMAIN U[j].parts, CallAt(U, j, k), j # Len(U)
        PROVE  \E i \in DOMAIN U : ToolAt(U, i) /\ U[i].parts[1].n = U[j].parts[k].n
    <3>1. j \in DOMAIN u
      BY <1>0, <2>1 DEF NewCalls
    <3>2. CallAt(u, j, k) /\ U[j] = u[j] /\ k \in DOMAIN u[j].parts
      BY <1>0, <2>1, <3>1
    <3>3. CASE j = Len(u)
      <4>1. PICK i : ToolAt(U, i) /\ U[i].parts[1].n = u[j].parts[k].n
        BY <2>1, <3>2, <3>3 DEF LastAnswered
      <4> QED BY <3>2, <4>1 DEF ToolAt
    <3>4. CASE j # Len(u)
      <4>1. PICK i \in DOMAIN u : ToolAt(u, i) /\ u[i].parts[1].n = u[j].parts[k].n
        BY <3>1, <3>2, <3>4 DEF Disciplined, CallsAnswered
      <4> QED BY <1>0, <3>2, <4>1
    <3> QED BY <3>3, <3>4
  <2> QED BY <2>1 DEF CallsAnswered
<1>6. CallsMade(U, M)
  <2>1. ASSUME NEW j \in DOMAIN U, NEW k \in DOMAIN U[j].parts, CallAt(U, j, k)
        PROVE  U[j].parts[k].n \in 1..M
    <3>1. CASE j \in DOMAIN u
      <4>1. u[j].parts[k].n \in 1..m /\ U[j] = u[j]
        BY <1>0, <2>1, <3>1 DEF Disciplined, CallsMade
      <4>2. \A x \in 1..m : x \in 1..M
        OBVIOUS
      <4> QED BY <4>1, <4>2
    <3>2. CASE j \notin DOMAIN u
      <4>1. U[j].parts[k].n \in (m + 1)..M
        BY <1>0, <2>1, <3>2 DEF NewCalls
      <4>2. \A x \in (m + 1)..M : x \in 1..M
        OBVIOUS
      <4> QED BY <4>1, <4>2
    <3> QED BY <3>1, <3>2
  <2>2. ASSUME NEW n \in 1..M
        PROVE  \E j \in DOMAIN U : \E k \in DOMAIN U[j].parts : CallAt(U, j, k) /\ U[j].parts[k].n = n
    <3>1. CASE n \in 1..m
      <4>1. PICK j \in DOMAIN u : \E k \in DOMAIN u[j].parts : CallAt(u, j, k) /\ u[j].parts[k].n = n
        BY <3>1 DEF Disciplined, CallsMade
      <4> QED BY <1>0, <4>1
    <3>2. CASE n \notin 1..m
      <4>1. n \in (m + 1)..M
        BY <3>2
      <4>2. PICK k : CallAt(U, Len(U), k) /\ U[Len(U)].parts[k].n = n
        BY <4>1 DEF NewCalls
      <4> QED BY <4>2 DEF CallAt
    <3> QED BY <3>1, <3>2
  <2> QED BY <2>1, <2>2 DEF CallsMade
<1> QED BY <1>0, <1>1, <1>2, <1>3, <1>4, <1>5, <1>6 DEF Disciplined

\* Something to say, after the calls were answered.
LEMMA SayFits ==
    ASSUME NEW m \in Nat, NEW u, Disciplined(u, m), \A k : ~CallAt(u, Len(u), k),
           NEW role \in {"user", "system"}
    PROVE  Disciplined(Append(u, Message(role, <<Text>>)), m)
<1> DEFINE r == Message(role, <<Text>>)
           U == Append(u, r)
<1>1. u \in Seq(MessageSet)
  BY DEF Disciplined
<1>2. r.role = role /\ r.parts = <<Text>> /\ r \in MessageSet
  <2>1. <<Text>> \in Seq(Parts)
    BY DEF Parts
  <2> QED BY <2>1 DEF Message, MessageSet
<1>3. \A k \in DOMAIN r.parts : r.parts[k].kind = "text"
  BY <1>2 DEF Text
<1> HIDE DEF r
<1>4. Shaped(r) /\ r.role \notin {"assistant", "tool"}
  BY <1>2, <1>3 DEF Shaped
<1>5. /\ U \in Seq(MessageSet) /\ Len(U) = Len(u) + 1 /\ U[Len(u) + 1] = r /\ Len(u) \in Nat
      /\ \A i \in 1..Len(u) : U[i] = u[i]
      /\ DOMAIN u = 1..Len(u) /\ DOMAIN U = 1..Len(u) + 1
  BY <1>1, <1>2
<1> HIDE DEF U
<1>6. Extends(u, U)
  BY <1>1, <1>5 DEF Extends
<1>7. \A i : IsNew(u, U, i) => i = Len(U) /\ U[i] = r
  BY <1>5 DEF IsNew
<1>8. \A i, k : IsNew(u, U, i) => ~CallAt(U, i, k) /\ ~ToolAt(U, i)
  BY <1>3, <1>4, <1>7 DEF CallAt, ToolAt
<1>9. NewCalls(u, U, m, m)
  <2>1. (m + 1)..m = {}
    OBVIOUS
  <2> QED BY <1>8, <2>1 DEF NewCalls
<1>10. NewResults(u, U)
  BY <1>8 DEF NewResults
<1>11. LastAnswered(u, U)
  BY DEF LastAnswered
<1>12. m <= m /\ \A i : IsNew(u, U, i) => Shaped(U[i])
  BY <1>4, <1>7
<1>13. Disciplined(U, m)
  BY <1>6, <1>9, <1>10, <1>11, <1>12, DisciplineKept
<1> QED BY <1>13 DEF U, r

\* An answer, whose calls c follow its text.
LEMMA AnswerFits ==
    ASSUME NEW m \in Nat, NEW u, Disciplined(u, m), \A k : ~CallAt(u, Len(u), k),
           NEW text \in {<<>>, <<Text>>}, NEW c \in Seq(Calls),
           \A k \in DOMAIN c : c[k].n = m + k,
           \A k, l \in DOMAIN c : k < l => c[k].id # c[l].id
    PROVE  Disciplined(Append(u, Message("assistant", text \o c)), m + Len(c))
<1> DEFINE parts == text \o c
           r == Message("assistant", parts)
           U == Append(u, r)
           t == Len(text)
           M == m + Len(c)
<1>1. u \in Seq(MessageSet) /\ Len(c) \in Nat /\ M \in Nat /\ m <= M /\ DOMAIN c = 1..Len(c)
  BY DEF Disciplined
<1>2. /\ t \in Nat /\ parts \in Seq(Parts) /\ DOMAIN parts = 1..t + Len(c)
      /\ \A k \in 1..t : parts[k] = Text
      /\ \A k \in 1..t + Len(c) : k > t => k - t \in DOMAIN c /\ parts[k] = c[k - t]
      /\ \A k \in DOMAIN c : t + k \in DOMAIN parts /\ parts[t + k] = c[k]
  <2>1. Calls \subseteq Parts /\ Text \in Parts
    BY DEF Parts
  <2>2. text \in Seq(Parts) /\ c \in Seq(Parts)
    <3>1. <<>> \in Seq(Parts) /\ <<Text>> \in Seq(Parts) /\ c \in Seq(Parts)
      BY <2>1
    <3> QED BY <3>1
  <2>3. \A k \in DOMAIN text : text[k] = Text
    OBVIOUS
  <2>4. t \in Nat /\ DOMAIN text = 1..t /\ Len(parts) = t + Len(c) /\ parts \in Seq(Parts)
    BY <2>2
  <2>5. \A k \in 1..t + Len(c) : parts[k] = IF k <= t THEN text[k] ELSE c[k - t]
    BY <2>2, ConcatProperties
  <2> HIDE DEF parts, t
  <2>6. DOMAIN parts = 1..t + Len(c)
    BY <1>1, <2>4
  <2>7. \A k \in 1..t : parts[k] = Text
    BY <1>1, <2>3, <2>4, <2>5
  <2>8. \A k \in 1..t + Len(c) : k > t => k - t \in DOMAIN c /\ parts[k] = c[k - t]
    BY <1>1, <2>4, <2>5
  <2>9. ASSUME NEW k \in DOMAIN c PROVE t + k \in DOMAIN parts /\ parts[t + k] = c[k]
    <3>1. k \in 1..Len(c)
      BY <1>1
    <3>2. PICK j : j = t + k
      OBVIOUS
    <3>3. j \in 1..t + Len(c) /\ j > t /\ j - t = k
      BY <1>1, <2>4, <3>1, <3>2
    <3>4. parts[j] = c[k]
      BY <2>8, <3>3
    <3> QED BY <2>6, <3>2, <3>3, <3>4
  <2> QED BY <2>4, <2>6, <2>7, <2>8, <2>9
<1>3. \A k \in DOMAIN c : c[k].kind = "call"
  <2>1. \A k \in DOMAIN c : c[k] \in Calls
    OBVIOUS
  <2> QED BY <2>1 DEF Calls
<1> HIDE DEF parts, t
<1>4. \A k \in DOMAIN parts : /\ k <= t => parts[k].kind = "text"
                              /\ k > t => k - t \in DOMAIN c /\ parts[k] = c[k - t] /\ parts[k].kind = "call"
  BY <1>2, <1>3 DEF Text
<1>5. r.role = "assistant" /\ r.parts = parts /\ r \in MessageSet
  BY <1>2 DEF Message, MessageSet
<1> HIDE DEF r
<1>6. Shaped(r)
  <2>1. ASSUME NEW k \in DOMAIN r.parts
        PROVE  /\ r.parts[k].kind \in {"text", "call"}
               /\ \A l \in DOMAIN r.parts : r.parts[k].kind = "call" /\ k < l => r.parts[l].kind = "call"
    BY <1>2, <1>4, <1>5
  <2> QED BY <1>5, <2>1 DEF Shaped
<1>7. /\ U \in Seq(MessageSet) /\ Len(U) = Len(u) + 1 /\ U[Len(u) + 1] = r /\ Len(u) \in Nat
      /\ \A i \in 1..Len(u) : U[i] = u[i]
      /\ DOMAIN u = 1..Len(u) /\ DOMAIN U = 1..Len(u) + 1
  BY <1>1, <1>5
<1> HIDE DEF U
<1>8. Extends(u, U)
  BY <1>1, <1>7 DEF Extends
<1>9. IsNew(u, U, Len(U)) /\ U[Len(U)] = r /\ \A i : IsNew(u, U, i) => i = Len(U) /\ U[i] = r
  BY <1>7 DEF IsNew
<1>10. \A k : CallAt(U, Len(U), k) <=> k \in DOMAIN parts /\ k > t
  <2>1. Len(U) \in DOMAIN U
    BY <1>7
  <2>2. \A k \in DOMAIN parts : parts[k].kind = "call" <=> k > t
    BY <1>2, <1>4
  <2> QED BY <1>5, <1>9, <2>1, <2>2 DEF CallAt
<1>11. NewCalls(u, U, m, M)
  <2>1. ASSUME NEW k, CallAt(U, Len(U), k)
        PROVE  /\ k - t \in DOMAIN c /\ U[Len(U)].parts[k] = c[k - t]
               /\ U[Len(U)].parts[k].n = m + (k - t)
               /\ U[Len(U)].parts[k].n \in (m + 1)..M
    <3>1. k - t \in DOMAIN c /\ U[Len(U)].parts[k] = c[k - t]
      BY <1>4, <1>5, <1>9, <1>10, <2>1
    <3>2. \A x \in DOMAIN c : m + x \in (m + 1)..M
      BY <1>1
    <3> QED BY <3>1, <3>2
  <2>2. ASSUME NEW k, NEW l, CallAt(U, Len(U), k), CallAt(U, Len(U), l),
               \/ U[Len(U)].parts[k].n = U[Len(U)].parts[l].n
               \/ U[Len(U)].parts[k].id = U[Len(U)].parts[l].id
        PROVE  k = l
    <3>1. k \in Nat /\ l \in Nat
      BY <1>2, <1>10, <2>2
    <3>2. k - t = l - t
      <4>1. k - t \in 1..Len(c) /\ l - t \in 1..Len(c)
        BY <1>1, <2>1, <2>2
      <4>2. CASE U[Len(U)].parts[k].n = U[Len(U)].parts[l].n
        <5>1. m + (k - t) = m + (l - t)
          BY <2>1, <2>2, <4>2
        <5> QED BY <3>1, <1>2, <5>1
      <4>3. CASE U[Len(U)].parts[k].id = U[Len(U)].parts[l].id
        <5> DEFINE x == k - t
                   y == l - t
        <5>1. x \in DOMAIN c /\ y \in DOMAIN c /\ c[x].id = c[y].id /\ x \in Nat /\ y \in Nat
          BY <1>1, <2>1, <2>2, <4>1, <4>3
        <5> HIDE DEF x, y
        <5>2. ~(x < y) /\ ~(y < x)
          BY <5>1
        <5>3. x = y
          BY <5>1, <5>2
        <5> QED BY <5>3 DEF x, y
      <4> QED BY <2>2, <4>2, <4>3
    <3> QED BY <1>2, <3>1, <3>2
  <2>3. ASSUME NEW n \in (m + 1)..M
        PROVE  \E k : CallAt(U, Len(U), k) /\ U[Len(U)].parts[k].n = n
    <3> DEFINE x == n - m
               k == t + x
    <3>1. x \in DOMAIN c /\ m + x = n /\ x \in Nat /\ x # 0
      BY <1>1
    <3> HIDE DEF x
    <3>2. k \in DOMAIN parts /\ k > t
      BY <1>2, <3>1
    <3>3. CallAt(U, Len(U), k)
      BY <1>10, <3>2
    <3>4. parts[k].n = n
      BY <1>2, <3>1
    <3> QED BY <1>5, <1>9, <3>3, <3>4
  <2> QED BY <1>9, <2>1, <2>2, <2>3 DEF NewCalls
<1>12. NewResults(u, U)
  BY <1>5, <1>9 DEF NewResults, ToolAt
<1>13. LastAnswered(u, U)
  BY DEF LastAnswered
<1>14. Disciplined(U, M)
  <2>1. M \in Nat /\ m <= M /\ \A i : IsNew(u, U, i) => Shaped(U[i])
    BY <1>1, <1>6, <1>9
  <2> HIDE DEF M
  <2> QED BY <1>8, <1>11, <1>12, <1>13, <2>1, DisciplineKept
<1> QED BY <1>14 DEF U, r, parts

\* The results that the client sends for calls, and as messages.
ResultsOf(calls, order) ==
    [i \in DOMAIN calls |-> [kind |-> "result", id |-> calls[order[i]].id, n |-> calls[order[i]].n]]

ToolMessages(results) == [i \in DOMAIN results |-> Message("tool", <<results[i]>>)]

\* The results of the pending calls in any order, with something said before
\* or after them.
LEMMA ResultsFit ==
    ASSUME NEW m \in Nat, NEW u, Disciplined(u, m), u # <<>>,
           NEW P, P = Kind(Last(u).parts, "call"), P # <<>>,
           NEW order \in Bijection(DOMAIN P, DOMAIN P), NEW results, results = ResultsOf(P, order),
           NEW before \in {<<>>, <<Message("user", <<Text>>)>>},
           NEW after \in {<<>>, <<Message("user", <<Text>>)>>}
    PROVE  /\ Disciplined(u \o (before \o ToolMessages(results) \o after), m)
           /\ before \o ToolMessages(results) \o after \in Seq(MessageSet)
           /\ Len(before \o ToolMessages(results) \o after) # 0
           /\ LET U == u \o (before \o ToolMessages(results) \o after)
              IN  Extends(u, U) /\ \A i, k : IsNew(u, U, i) => ~CallAt(U, i, k)
<1> DEFINE tools == ToolMessages(results)
           new == before \o tools \o after
           U == u \o new
           n == Len(u)
           b == Len(before)
           p == Len(P)
           says == Message("user", <<Text>>)
\* The pending calls are the calls of the last message.
<1>1. u \in Seq(MessageSet) /\ n \in Nat /\ n # 0 /\ DOMAIN u = 1..n /\ Last(u) = u[n] /\ n \in DOMAIN u
  BY DEF Disciplined, Last
<1> DEFINE parts == u[n].parts
<1>2. u[n] \in MessageSet /\ parts \in Seq(Parts)
  <2>1. u[n] \in MessageSet
    BY <1>1
  <2> QED BY <2>1 DEF MessageSet
<1>3. P = Kind(parts, "call")
  BY <1>1
<1> HIDE DEF parts
<1>4. P \in Seq(Parts) /\ \A l \in DOMAIN P : P[l].kind = "call"
  BY <1>2, <1>3, KindSelects
<1>5. PICK g \in [DOMAIN P -> DOMAIN parts] :
         /\ \A l \in DOMAIN g : P[l] = parts[g[l]]
         /\ \A l, x \in DOMAIN g : l < x => g[l] < g[x]
         /\ \A k \in DOMAIN parts : parts[k].kind = "call" => \E l \in DOMAIN g : g[l] = k
  BY <1>2, <1>3, KindPlaces
<1>6. p \in Nat /\ p # 0 /\ DOMAIN P = 1..p
  BY <1>4
<1>7. ASSUME NEW l \in 1..p
      PROVE  /\ CallAt(u, n, g[l]) /\ u[n].parts[g[l]] = P[l]
             /\ P[l].id \in Seq(Nat) /\ P[l].n \in Nat
  <2>1. g[l] \in DOMAIN parts /\ parts[g[l]] = P[l] /\ P[l].kind = "call" /\ P[l] \in Parts
    BY <1>4, <1>5, <1>6
  <2>2. P[l] \in Calls
    BY <2>1 DEF Parts, Text, ToolResults
  <2> QED BY <1>1, <2>1, <2>2 DEF CallAt, parts, Calls
<1>8. ASSUME NEW l \in 1..p, NEW x \in 1..p, P[l].n = P[x].n PROVE l = x
  <2>1. CallAt(u, n, g[l]) /\ CallAt(u, n, g[x]) /\ u[n].parts[g[l]].n = u[n].parts[g[x]].n
    BY <1>7, <1>8
  <2>2. g[l] \in DOMAIN u[n].parts /\ g[x] \in DOMAIN u[n].parts
    BY <2>1 DEF CallAt
  <2>3. g[l] = g[x]
    BY <1>1, <2>1, <2>2 DEF Disciplined, CallsOnce
  <2>4. l \in DOMAIN g /\ x \in DOMAIN g /\ l \in Nat /\ x \in Nat
    BY <1>6
  <2>5. DOMAIN parts = 1..Len(parts)
    BY <1>2
  <2>6. g[l] \in Nat
    BY <1>5, <1>6, <2>5
  <2>7. ~(g[l] < g[x]) /\ ~(g[x] < g[l])
    BY <2>3, <2>6
  <2>8. ~(l < x) /\ ~(x < l)
    BY <1>5, <2>4, <2>7
  <2> QED BY <2>4, <2>8
\* The order.
<1>9. /\ \A i \in 1..p : order[i] \in 1..p
      /\ \A l \in 1..p : \E i \in 1..p : order[i] = l
      /\ \A i, j \in 1..p : order[i] = order[j] => i = j
  BY <1>6 DEF Bijection, Injection, Surjection, IsInjective
\* The messages.
<1>10. /\ DOMAIN results = 1..p
       /\ \A i \in 1..p : /\ results[i].kind = "result" /\ results[i] \in ToolResults
                          /\ results[i].id = P[order[i]].id /\ results[i].n = P[order[i]].n
  <2>1. \A i \in 1..p : P[order[i]].id \in Seq(Nat) /\ P[order[i]].n \in Nat
    BY <1>7, <1>9
  <2> QED BY <1>6, <2>1 DEF ToolResults, ResultsOf
<1>11. /\ tools \in Seq(MessageSet) /\ Len(tools) = p
       /\ \A i \in 1..p : /\ tools[i].role = "tool" /\ tools[i].parts = <<results[i]>>
                          /\ Shaped(tools[i])
  <2>1. ASSUME NEW i \in 1..p
        PROVE  /\ Message("tool", <<results[i]>>) \in MessageSet
               /\ Message("tool", <<results[i]>>).role = "tool"
               /\ Message("tool", <<results[i]>>).parts = <<results[i]>>
               /\ Shaped(Message("tool", <<results[i]>>))
    <3> DEFINE e == Message("tool", <<results[i]>>)
    <3>1. results[i] \in Parts /\ results[i].kind = "result"
      BY <1>10 DEF Parts
    <3>2. <<results[i]>> \in Seq(Parts) /\ Len(<<results[i]>>) = 1 /\ <<results[i]>>[1] = results[i]
      BY <3>1
    <3>3. e \in MessageSet /\ e.role = "tool" /\ e.parts = <<results[i]>>
      BY <3>2 DEF Message, MessageSet
    <3> HIDE DEF e
    <3>4. Shaped(e)
      BY <3>1, <3>2, <3>3 DEF Shaped
    <3> QED BY <3>3, <3>4 DEF e
  <2>2. tools = [i \in 1..p |-> Message("tool", <<results[i]>>)]
    BY <1>10 DEF ToolMessages
  <2>3. tools \in [1..p -> MessageSet]
    BY <2>1, <2>2, Zenon
  <2>4. \A i \in 1..p : tools[i] = Message("tool", <<results[i]>>)
    BY <2>2
  <2> HIDE DEF tools
  <2>5. tools \in Seq(MessageSet) /\ Len(tools) = p
    BY <1>6, <2>3
  <2>6. ASSUME NEW i \in 1..p
        PROVE  /\ tools[i].role = "tool" /\ tools[i].parts = <<results[i]>>
               /\ Shaped(tools[i])
    BY <2>1, <2>4, Zenon
  <2> QED BY <2>5, <2>6
<1>12. says \in MessageSet /\ says.role = "user" /\ Shaped(says)
  <2>1. <<Text>> \in Seq(Parts) /\ \A k \in DOMAIN <<Text>> : <<Text>>[k] = Text
    BY DEF Parts
  <2>2. says \in MessageSet /\ says.role = "user" /\ says.parts = <<Text>>
    BY <2>1 DEF Message, MessageSet
  <2> HIDE DEF says
  <2> QED BY <2>1, <2>2 DEF Shaped, Text
<1> HIDE DEF tools, says
<1>13. /\ before \in Seq(MessageSet) /\ after \in Seq(MessageSet)
       /\ b \in Nat /\ Len(after) \in Nat
       /\ \A i \in 1..b : before[i] = says
       /\ \A i \in 1..Len(after) : after[i] = says
  <2>1. /\ <<>> \in Seq(MessageSet) /\ <<says>> \in Seq(MessageSet)
        /\ \A i \in 1..Len(<<>>) : <<>>[i] = says
        /\ \A i \in 1..Len(<<says>>) : <<says>>[i] = says
    BY <1>12
  <2>2. before \in {<<>>, <<says>>} /\ after \in {<<>>, <<says>>}
    BY DEF says
  <2>3. before \in Seq(MessageSet) /\ after \in Seq(MessageSet)
    BY <2>1, <2>2
  <2>4. (\A i \in 1..b : before[i] = says) /\ (\A i \in 1..Len(after) : after[i] = says)
    BY <2>1, <2>2
  <2> QED BY <2>3, <2>4
<1> HIDE DEF b, p
<1> DEFINE N == n + b + p + Len(after)
<1>14. /\ new \in Seq(MessageSet) /\ Len(new) = b + p + Len(after)
       /\ \A i \in 1..b : new[i] = says
       /\ \A i \in (b + 1)..(b + p) : new[i] = tools[i - b]
       /\ \A i \in (b + p + 1)..(b + p + Len(after)) : new[i] = says
  <2> DEFINE x == before \o tools
  <2>1. /\ x \in Seq(MessageSet) /\ Len(x) = b + p
        /\ \A i \in 1..b + p : x[i] = IF i <= b THEN before[i] ELSE tools[i - b]
    BY <1>11, <1>13, ConcatProperties DEF b
  <2> HIDE DEF x
  <2>2. /\ new \in Seq(MessageSet) /\ Len(new) = (b + p) + Len(after)
        /\ \A i \in 1..(b + p) + Len(after) : new[i] = IF i <= b + p THEN x[i] ELSE after[i - (b + p)]
    BY <1>13, <2>1, ConcatProperties DEF x
  <2> HIDE DEF new
  <2>3. ASSUME NEW i \in 1..b PROVE new[i] = says
    <3>1. i \in 1..(b + p) + Len(after) /\ i <= b + p /\ i \in 1..b + p /\ i <= b
      BY <1>6, <1>13
    <3> QED BY <1>13, <2>1, <2>2, <3>1
  <2>4. ASSUME NEW i \in (b + 1)..(b + p) PROVE new[i] = tools[i - b]
    <3>1. i \in 1..(b + p) + Len(after) /\ i <= b + p /\ i \in 1..b + p /\ ~(i <= b)
      BY <1>6, <1>13
    <3> QED BY <2>1, <2>2, <3>1
  <2>5. ASSUME NEW i \in (b + p + 1)..(b + p + Len(after)) PROVE new[i] = says
    <3>1. i \in 1..(b + p) + Len(after) /\ ~(i <= b + p) /\ i - (b + p) \in 1..Len(after)
      BY <1>6, <1>13
    <3> QED BY <1>13, <2>2, <3>1
  <2> QED BY <1>6, <1>13, <2>2, <2>3, <2>4, <2>5
<1> HIDE DEF new
<1>15. /\ U \in Seq(MessageSet) /\ Len(U) = N /\ N \in Nat /\ n < N
       /\ \A i \in 1..n : U[i] = u[i]
       /\ \A i \in (n + 1)..(n + b) : U[i] = says
       /\ \A i \in (n + b + 1)..(n + b + p) : i - n - b \in 1..p /\ U[i] = tools[i - n - b]
       /\ \A i \in (n + b + p + 1)..N : U[i] = says
  <2>1. /\ U \in Seq(MessageSet) /\ Len(U) = n + Len(new)
        /\ \A i \in 1..n + Len(new) : U[i] = IF i <= n THEN u[i] ELSE new[i - n]
    <3>1. u \in Seq(MessageSet) /\ new \in Seq(MessageSet)
      BY <1>1, <1>14
    <3> QED BY <3>1, ConcatProperties
  <2> HIDE DEF U
  <2>2. Len(U) = N /\ N \in Nat /\ n < N
    BY <1>1, <1>6, <1>13, <1>14, <2>1
  <2>3. ASSUME NEW i \in (n + 1)..N
        PROVE  /\ i - n \in 1..Len(new) /\ U[i] = new[i - n]
               /\ i - n - b = (i - n) - b
    BY <1>1, <1>6, <1>13, <1>14, <2>1
  <2>4. ASSUME NEW i \in (n + 1)..(n + b) PROVE U[i] = says
    <3>1. i \in (n + 1)..N /\ i - n \in 1..b
      BY <1>1, <1>6, <1>13
    <3> QED BY <1>14, <2>3, <3>1
  <2>5. ASSUME NEW i \in (n + b + 1)..(n + b + p) PROVE i - n - b \in 1..p /\ U[i] = tools[i - n - b]
    <3>1. i \in (n + 1)..N /\ i - n \in (b + 1)..(b + p) /\ i - n - b \in 1..p
      BY <1>1, <1>6, <1>13
    <3> QED BY <1>14, <2>3, <3>1
  <2>6. ASSUME NEW i \in (n + b + p + 1)..N PROVE U[i] = says
    <3>1. i \in (n + 1)..N /\ i - n \in (b + p + 1)..(b + p + Len(after))
      BY <1>1, <1>6, <1>13
    <3> QED BY <1>14, <2>3, <3>1
  <2>7. ASSUME NEW i \in 1..n PROVE U[i] = u[i]
    <3>1. i \in 1..n + Len(new) /\ i <= n
      BY <1>1, <1>6, <1>13, <1>14
    <3> QED BY <2>1, <3>1
  <2> QED BY <2>1, <2>2, <2>4, <2>5, <2>6, <2>7
<1>16. DOMAIN U = 1..N /\ Len(U) = N
  BY <1>15
<1> HIDE DEF U, N
<1>17. Extends(u, U)
  BY <1>1, <1>15 DEF Extends
<1>18. \A i : IsNew(u, U, i) <=> i \in (n + 1)..N
  BY <1>16, <1>17, ExtendsFacts
<1>19. \A i \in (n + 1)..N : \/ U[i] = says
                             \/ i \in (n + b + 1)..(n + b + p) /\ i - n - b \in 1..p /\ U[i] = tools[i - n - b]
  <2>1. ASSUME NEW i \in (n + 1)..N
        PROVE  i \in (n + 1)..(n + b) \/ i \in (n + b + 1)..(n + b + p) \/ i \in (n + b + p + 1)..N
    <3>1. n \in Nat /\ b \in Nat /\ p \in Nat /\ Len(after) \in Nat
      BY <1>1, <1>6, <1>13
    <3> QED BY <3>1 DEF N
  <2> QED BY <1>15, <2>1
<1>20. \A i : IsNew(u, U, i) => Shaped(U[i]) /\ \A k : ~CallAt(U, i, k)
  <2>1. \A e : Shaped(e) /\ e.role \in {"user", "tool"} => \A k \in DOMAIN e.parts : e.parts[k].kind # "call"
    <3>1. ASSUME NEW e, Shaped(e), e.role \in {"user", "tool"}, NEW k \in DOMAIN e.parts
          PROVE  e.parts[k].kind # "call"
      <4>1. CASE e.role = "user"
        BY <3>1, <4>1 DEF Shaped
      <4>2. CASE e.role = "tool"
        <5>1. e \in MessageSet /\ Len(e.parts) = 1 /\ e.parts[1].kind = "result"
          BY <3>1, <4>2 DEF Shaped
        <5>2. e.parts \in Seq(Parts)
          BY <5>1 DEF MessageSet
        <5>3. k = 1
          BY <5>1, <5>2
        <5> QED BY <5>1, <5>3
      <4> QED BY <3>1, <4>1, <4>2
    <3> QED BY <3>1
  <2>2. ASSUME NEW i, IsNew(u, U, i) PROVE Shaped(U[i]) /\ U[i].role \in {"user", "tool"}
    <3>1. i \in (n + 1)..N
      BY <1>18, <2>2
    <3>2. CASE U[i] = says
      BY <1>12, <3>2
    <3>3. CASE i - n - b \in 1..p /\ U[i] = tools[i - n - b]
      BY <1>11, <3>3
    <3> QED BY <1>19, <3>1, <3>2, <3>3
  <2> QED BY <2>1, <2>2 DEF CallAt
<1>21. NewCalls(u, U, m, m)
  <2>1. (m + 1)..m = {}
    OBVIOUS
  <2> QED BY <1>20, <2>1 DEF NewCalls
\* A new result is that of a pending call.
<1>22. ASSUME NEW i, IsNew(u, U, i), ToolAt(U, i)
       PROVE  /\ i - n - b \in 1..p /\ i \in (n + b + 1)..(n + b + p)
              /\ U[i].parts[1].n = P[order[i - n - b]].n /\ U[i].parts[1].id = P[order[i - n - b]].id
  <2>1. U[i] # says
    BY <1>12, <1>22 DEF ToolAt
  <2>2. i \in (n + b + 1)..(n + b + p) /\ i - n - b \in 1..p /\ U[i] = tools[i - n - b]
    BY <1>18, <1>19, <1>22, <2>1
  <2>3. U[i].parts = <<results[i - n - b]>>
    BY <1>11, <2>2
  <2> QED BY <1>10, <2>2, <2>3
<1>23. NewResults(u, U)
  <2> SUFFICES ASSUME NEW i, IsNew(u, U, i), ToolAt(U, i)
               PROVE  /\ \E j, k : Returns(U, i, j, k)
                      /\ \A j : ToolAt(U, j) /\ U[j].parts[1].n = U[i].parts[1].n => j = i
    BY DEF NewResults
  <2> DEFINE x == i - n - b
  <2>1. /\ x \in 1..p /\ i \in (n + b + 1)..(n + b + p)
        /\ U[i].parts[1].n = P[order[x]].n /\ U[i].parts[1].id = P[order[x]].id
    BY <1>22
  <2>2. order[x] \in 1..p
    BY <1>9, <2>1
  <2>3. CallAt(u, n, g[order[x]]) /\ u[n].parts[g[order[x]]] = P[order[x]]
    BY <1>7, <2>2
  <2>4. n < i /\ U[n] = u[n] /\ CallAt(U, n, g[order[x]])
    <3>1. n < i
      BY <1>1, <1>13, <2>1
    <3>2. U[n] = u[n] /\ n \in DOMAIN u
      BY <1>1, <1>15
    <3>3. \A k : CallAt(U, n, k) <=> CallAt(u, n, k)
      BY <1>17, <3>2, ExtendsFacts
    <3> QED BY <2>3, <3>1, <3>2, <3>3
  <2>5. ASSUME NEW h \in (n + 1)..(i - 1)
        PROVE  /\ U[h].role \in {"user", "tool"}
               /\ U[h].role = "user" => \A e \in (n + 1)..h : U[e].role = "user"
    <3>1. \/ h \in (n + 1)..(n + b)
          \/ h \in (n + b + 1)..(n + b + p)
      BY <1>1, <1>6, <1>13, <2>1
    <3>2. CASE h \in (n + 1)..(n + b)
      <4>1. \A e \in (n + 1)..h : e \in (n + 1)..(n + b)
        BY <1>1, <1>13, <3>2
      <4> QED BY <1>12, <1>15, <3>2, <4>1
    <3>3. CASE h \in (n + b + 1)..(n + b + p)
      BY <1>11, <1>15, <3>3
    <3> QED BY <3>1, <3>2, <3>3
  <2>6. Returns(U, i, n, g[order[x]])
    BY <2>1, <2>3, <2>4, <2>5 DEF Returns
  <2>7. ASSUME NEW j, ToolAt(U, j), U[j].parts[1].n = U[i].parts[1].n PROVE j = i
    <3>1. CASE IsNew(u, U, j)
      <4> DEFINE y == j - n - b
      <4>1. y \in 1..p /\ j \in (n + b + 1)..(n + b + p) /\ U[j].parts[1].n = P[order[y]].n
        BY <1>22, <2>7, <3>1
      <4>2. order[y] \in 1..p
        BY <1>9, <4>1
      <4>3. order[y] = order[x]
        BY <1>8, <2>1, <2>2, <2>7, <4>1, <4>2
      <4>4. y = x
        BY <1>9, <2>1, <4>1, <4>3
      <4> QED BY <1>1, <1>13, <1>6, <2>1, <4>1, <4>4
    <3>2. CASE ~IsNew(u, U, j)
      <4>1. j \in DOMAIN u /\ ToolAt(u, j) /\ u[j] = U[j]
        <5>1. j \in DOMAIN u
          BY <2>7, <3>2 DEF IsNew, ToolAt
        <5> QED BY <1>1, <1>15, <1>17, <2>7, <5>1, ExtendsFacts
      <4>2. PICK q \in DOMAIN u : \E k \in DOMAIN u[q].parts : Returns(u, j, q, k)
        BY <4>1 DEF Disciplined, ResultsReturn
      <4>3. PICK k \in DOMAIN u[q].parts : Returns(u, j, q, k)
        BY <4>2
      <4>4. CallAt(u, q, k) /\ q < j /\ u[q].parts[k].n = u[j].parts[1].n
        BY <4>3 DEF Returns
      <4>5. u[q].parts[k].n = u[n].parts[g[order[x]]].n
        BY <2>1, <2>3, <2>7, <4>1, <4>4
      <4>6. g[order[x]] \in DOMAIN u[n].parts
        BY <2>3 DEF CallAt
      <4>7. q = n
        BY <1>1, <2>3, <4>2, <4>3, <4>4, <4>5, <4>6 DEF Disciplined, CallsOnce
      <4> QED BY <1>1, <4>1, <4>4, <4>7
    <3> QED BY <3>1, <3>2
  <2> QED BY <2>6, <2>7
\* Every pending call has its result.
<1>24. LastAnswered(u, U)
  <2> SUFFICES ASSUME NEW k, CallAt(u, n, k)
               PROVE  \E i : ToolAt(U, i) /\ U[i].parts[1].n = u[n].parts[k].n
    BY DEF LastAnswered
  <2>1. k \in DOMAIN parts /\ parts[k].kind = "call"
    BY DEF CallAt, parts
  <2>2. PICK l \in DOMAIN g : g[l] = k
    BY <1>5, <2>1
  <2>3. l \in 1..p /\ P[l] = u[n].parts[k]
    BY <1>5, <1>6, <2>2 DEF parts
  <2>4. PICK x \in 1..p : order[x] = l
    BY <1>9, <2>3
  <2>5. PICK i : i = n + b + x
    OBVIOUS
  <2>6. i \in (n + b + 1)..(n + b + p) /\ i - n - b = x /\ i \in 1..N
    BY <1>1, <1>6, <1>13, <1>15, <2>5 DEF N
  <2>7. U[i] = tools[x]
    BY <1>15, <2>6
  <2>8. ToolAt(U, i) /\ U[i].parts = <<results[x]>>
    BY <1>11, <1>16, <2>6, <2>7 DEF ToolAt
  <2>9. U[i].parts[1].n = u[n].parts[k].n
    BY <1>10, <2>3, <2>4, <2>8
  <2> QED BY <2>8, <2>9
<1>25. Disciplined(U, m)
  <2>1. m <= m
    OBVIOUS
  <2> QED BY <1>17, <1>20, <1>21, <1>23, <1>24, <2>1, DisciplineKept
<1>26. Len(new) # 0
  BY <1>6, <1>13, <1>14
<1> QED BY <1>14, <1>17, <1>20, <1>25, <1>26 DEF U, new, tools

\* How the messages of the clients go with the history of the conversation.
Follows ==
    /\ CallsOf(history) = CallsOf(Messages)
    /\ history = <<>> <=> Messages = <<>>
    /\ Messages # <<>> => Kind(Last(Messages).parts, "call") = Pending

MessagesInv == Disciplined(Messages, made) /\ Follows

-----------------------------------------------------------------------------
(* The conversation keeps the discipline.                                  *)

\* The calls of a continuation are those of both its parts.
LEMMA CallsOfMore ==
    ASSUME NEW u, NEW U, Extends(u, U)
    PROVE  /\ CallsOf(U) = CallsOf(u) \union
                  UNION {{p \in Range(U[i].parts) : p.kind = "call"} : i \in {j \in DOMAIN U : IsNew(u, U, j)}}
           /\ (\A i, k : IsNew(u, U, i) => ~CallAt(U, i, k)) => CallsOf(U) = CallsOf(u)
<1>1. DOMAIN u \subseteq DOMAIN U /\ \A i \in DOMAIN u : U[i] = u[i]
  BY ExtendsFacts DEF Extends
<1>2. ASSUME NEW p
      PROVE  p \in CallsOf(U) <=> \/ p \in CallsOf(u)
                                  \/ \E i : IsNew(u, U, i) /\ p \in Range(U[i].parts) /\ p.kind = "call"
  <2>1. p \in PartsIn(U) <=> \E i \in DOMAIN U : p \in Range(U[i].parts)
    BY DEF PartsIn
  <2>2. p \in PartsIn(u) <=> \E i \in DOMAIN u : p \in Range(u[i].parts)
    BY DEF PartsIn
  <2> QED BY <1>1, <2>1, <2>2 DEF CallsOf, IsNew
<1>3. ASSUME NEW i, NEW p, IsNew(u, U, i), p \in Range(U[i].parts), p.kind = "call"
      PROVE  \E k : CallAt(U, i, k)
  BY <1>3 DEF Range, CallAt, IsNew
<1>4. ASSUME NEW p
      PROVE  (p \in UNION {{q \in Range(U[i].parts) : q.kind = "call"} : i \in {j \in DOMAIN U : IsNew(u, U, j)}})
             <=> \E i : IsNew(u, U, i) /\ p \in Range(U[i].parts) /\ p.kind = "call"
  BY DEF IsNew
<1>5. (\A i, k : IsNew(u, U, i) => ~CallAt(U, i, k)) => CallsOf(U) = CallsOf(u)
  BY <1>2, <1>3
<1> QED BY <1>2, <1>4, <1>5

\* One message more.
LEMMA AppendExtends ==
    ASSUME NEW u \in Seq(MessageSet), NEW r \in MessageSet
    PROVE  /\ Extends(u, Append(u, r)) /\ Len(Append(u, r)) = Len(u) + 1
           /\ Last(Append(u, r)) = r /\ Append(u, r) # <<>>
           /\ \A i : IsNew(u, Append(u, r), i) => i = Len(u) + 1 /\ Append(u, r)[i] = r
           /\ IsNew(u, Append(u, r), Len(u) + 1)
<1> DEFINE U == Append(u, r)
<1>1. /\ U \in Seq(MessageSet) /\ Len(U) = Len(u) + 1 /\ U[Len(u) + 1] = r /\ Len(u) \in Nat
      /\ \A i \in 1..Len(u) : U[i] = u[i]
      /\ DOMAIN u = 1..Len(u) /\ DOMAIN U = 1..Len(u) + 1 /\ U # <<>>
  OBVIOUS
<1> HIDE DEF U
<1>2. Extends(u, U)
  BY <1>1 DEF Extends
<1>3. \A i : IsNew(u, U, i) => i = Len(u) + 1 /\ U[i] = r
  BY <1>1 DEF IsNew
<1>4. IsNew(u, U, Len(u) + 1)
  BY <1>1 DEF IsNew
<1>5. Last(U) = r
  BY <1>1 DEF Last
<1> QED BY <1>1, <1>2, <1>3, <1>4, <1>5 DEF U

\* The calls of the last message.
LEMMA NoneLast ==
    ASSUME NEW u \in Seq(MessageSet), u # <<>>
    PROVE  Kind(Last(u).parts, "call") = <<>> <=> \A k : ~CallAt(u, Len(u), k)
<1> DEFINE parts == Last(u).parts
<1>1. Last(u) = u[Len(u)] /\ Len(u) \in DOMAIN u /\ u[Len(u)] \in MessageSet
  BY DEF Last
<1>2. parts \in Seq(Parts)
  BY <1>1 DEF MessageSet
<1>3. \A k : CallAt(u, Len(u), k) <=> k \in DOMAIN parts /\ parts[k].kind = "call"
  BY <1>1 DEF CallAt
<1> HIDE DEF parts
<1>4. \A k \in DOMAIN parts : parts[k].kind = "call" =>
          \E l \in DOMAIN Kind(parts, "call") : Kind(parts, "call")[l] = parts[k]
  <2> DEFINE calls == Kind(parts, "call")
  <2>1. PICK g \in [DOMAIN calls -> DOMAIN parts] :
            /\ \A l \in DOMAIN g : calls[l] = parts[g[l]]
            /\ \A k \in DOMAIN parts : parts[k].kind = "call" => \E l \in DOMAIN g : g[l] = k
    BY <1>2, KindPlaces
  <2> HIDE DEF calls
  <2> SUFFICES \A k \in DOMAIN parts : parts[k].kind = "call" => \E l \in DOMAIN calls : calls[l] = parts[k]
    BY DEF calls
  <2> QED BY <2>1
<1>6. (\A k \in DOMAIN parts : parts[k].kind # "call") => Kind(parts, "call") = <<>>
  BY <1>2, KindOfAll
<1>5. DOMAIN <<>> = {}
  OBVIOUS
<1> QED BY <1>3, <1>4, <1>5, <1>6 DEF parts

\* What the Anthropic ingress makes of a longer history.
LEMMA MessagesGrow ==
    ASSUME history \in Seq(MessageSet), ingress # "openai", ingress' = ingress,
           NEW m \in MessageSet, history' = Append(history, m)
    PROVE  Messages' = Messages \o MessageToOpenAI(m)
<1> DEFINE s == [i \in DOMAIN history |-> MessageToOpenAI(history[i])]
           t == [i \in DOMAIN history' |-> MessageToOpenAI(history'[i])]
           x == MessageToOpenAI(m)
           n == Len(history)
<1>1. Messages = FlattenSeq(s) /\ Messages' = FlattenSeq(t)
  BY DEF Messages
<1>2. /\ n \in Nat /\ DOMAIN history = 1..n /\ DOMAIN history' = 1..n + 1
      /\ \A i \in 1..n : history'[i] = history[i] /\ history[i] \in MessageSet
      /\ history'[n + 1] = m
  OBVIOUS
<1>3. x \in Seq(MessageSet) /\ \A i \in 1..n : MessageToOpenAI(history[i]) \in Seq(MessageSet)
  BY <1>2, ToOpenAIKeepsCalls
<1> DEFINE S == Seq(MessageSet)
<1>4. s \in Seq(S) /\ Len(s) = n
  <2> HIDE DEF S
  <2> QED BY <1>2, <1>3 DEF S
<1>5. t = Append(s, x)
  <2>1. /\ DOMAIN t = 1..n + 1 /\ t = [i \in 1..n + 1 |-> t[i]]
        /\ \A i \in 1..n : t[i] = s[i]
        /\ t[n + 1] = x
    BY <1>2
  <2>2. \A i \in 1..n + 1 : t[i] \in S
    <3>1. \A i \in 1..n + 1 : i \in 1..n \/ i = n + 1
      BY <1>2
    <3>2. \A i \in 1..n : t[i] \in S
      BY <1>2, <1>3, <2>1
    <3> HIDE DEF t, s, x
    <3> QED BY <1>3, <2>1, <3>1, <3>2
  <2> HIDE DEF S, s, t, x, n
  <2>3. t \in [1..n + 1 -> S]
    BY <2>1, <2>2
  <2>4. t \in Seq(S) /\ Len(t) = n + 1
    BY <1>2, <2>3
  <2>5. x \in S
    BY <1>3 DEF S
  <2>6. /\ Append(s, x) \in Seq(S) /\ Len(Append(s, x)) = n + 1
        /\ \A i \in 1..n : Append(s, x)[i] = s[i]
        /\ Append(s, x)[n + 1] = x
    BY <1>4, <2>5, AppendProperties
  <2>7. \A i \in 1..n + 1 : t[i] = Append(s, x)[i]
    <3>1. \A i \in 1..n + 1 : i \in 1..n \/ i = n + 1
      BY <1>2
    <3> QED BY <2>1, <2>6, <3>1
  <2> QED BY <2>4, <2>6, <2>7, SeqEqual
<1> HIDE DEF s, t, x
<1>6. FlattenSeq(Append(s, x)) = FlattenSeq(s) \o x
  BY <1>3, <1>4, FlattenMore
<1> QED BY <1>1, <1>5, <1>6 DEF x

\* A message of the assistant, and a saying, are the same in both shapes.
LEMMA SameInBoth ==
    ASSUME NEW text \in Seq(Parts), NEW c \in Seq(Parts),
           \A k \in DOMAIN text : text[k].kind = "text", \A k \in DOMAIN c : c[k].kind = "call",
           NEW role \in {"user", "system", "assistant", "tool"}, role = "user" => c = <<>> /\ text # <<>>
    PROVE  MessageToOpenAI(Message(role, text \o c)) = <<Message(role, text \o c)>>
<1> DEFINE parts == text \o c
           m == Message(role, parts)
<1>1. m.role = role /\ m.parts = parts
  BY DEF Message
<1>2. /\ Kind(text, "text") = text /\ Kind(text, "call") = <<>> /\ Kind(text, "result") = <<>>
      /\ Kind(c, "text") = <<>> /\ Kind(c, "call") = c /\ Kind(c, "result") = <<>>
  BY KindOfAll
<1>3. /\ text \o <<>> = text /\ <<>> \o c = c /\ <<>> \o <<>> = <<>>
  OBVIOUS
<1>4. Kind(parts, "text") = text /\ Kind(parts, "call") = c /\ Kind(parts, "result") = <<>>
  <2>1. \A kind : Kind(text \o c, kind) = Kind(text, kind) \o Kind(c, kind)
    BY KindJoins
  <2> QED BY <1>2, <1>3, <2>1, Zenon
<1> HIDE DEF m
<1>5. CASE role # "user"
  BY <1>1, <1>4, <1>5 DEF MessageToOpenAI, m
<1>6. CASE role = "user"
  <2>1. parts = text
    BY <1>3, <1>6
  <2> DEFINE none == [i \in DOMAIN <<>> |-> Message("tool", <<(<<>>)[i]>>)]
  <2>2. none = <<>>
    OBVIOUS
  <2>3. MessageToOpenAI(m) = <<Message("user", text)>> \o none
    BY <1>1, <1>4, <1>6 DEF MessageToOpenAI
  <2>4. <<Message("user", text)>> \o <<>> = <<Message("user", text)>>
    OBVIOUS
  <2> QED BY <1>6, <2>1, <2>2, <2>3, <2>4 DEF m
<1> QED BY <1>5, <1>6 DEF m

\* What the Anthropic ingress makes of results: what stands around them goes
\* before.
LEMMA ResultsToOpenAI ==
    ASSUME NEW pre \in {<<>>, <<Text>>}, NEW post \in {<<>>, <<Text>>}, pre = <<>> \/ post = <<>>,
           NEW results \in Seq(Parts), results # <<>>, \A k \in DOMAIN results : results[k].kind = "result"
    PROVE  /\ MessageToOpenAI(Message("user", pre \o results \o post)) =
                 (IF pre = <<>> /\ post = <<>> THEN <<>> ELSE <<Message("user", <<Text>>)>>)
                 \o ToolMessages(results)
           /\ Message("user", pre \o results \o post) \in MessageSet
           /\ Kind(pre \o results \o post, "call") = <<>>
           /\ \A p \in Range(pre \o results \o post) : p.kind # "call"
<1> DEFINE parts == pre \o results \o post
           m == Message("user", parts)
           tools == ToolMessages(results)
<1>1. /\ pre \in Seq(Parts) /\ post \in Seq(Parts)
      /\ \A k \in DOMAIN pre : pre[k].kind = "text"
      /\ \A k \in DOMAIN post : post[k].kind = "text"
  <2>1. Text \in Parts /\ Text.kind = "text"
    BY DEF Parts, Text
  <2>2. <<>> \in Seq(Parts) /\ <<Text>> \in Seq(Parts) /\ DOMAIN <<>> = {} /\ \A k \in DOMAIN <<Text>> : <<Text>>[k] = Text
    BY <2>1
  <2> QED BY <2>1, <2>2
<1>2. parts \in Seq(Parts)
  BY <1>1
<1>3. /\ Kind(pre, "text") = pre /\ Kind(pre, "call") = <<>> /\ Kind(pre, "result") = <<>>
      /\ Kind(post, "text") = post /\ Kind(post, "call") = <<>> /\ Kind(post, "result") = <<>>
      /\ Kind(results, "text") = <<>> /\ Kind(results, "call") = <<>> /\ Kind(results, "result") = results
  BY <1>1, KindOfAll
<1>4. ASSUME NEW kind
      PROVE  Kind(parts, kind) = Kind(pre, kind) \o Kind(results, kind) \o Kind(post, kind)
  <2>1. pre \o results \in Seq(Parts)
    BY <1>1
  <2>2. ASSUME NEW a \in Seq(Parts), NEW b \in Seq(Parts)
        PROVE  Kind(a \o b, kind) = Kind(a, kind) \o Kind(b, kind)
    BY KindJoins
  <2>3. Kind(pre \o results, kind) = Kind(pre, kind) \o Kind(results, kind)
    BY <1>1, <2>2, Zenon
  <2>4. Kind((pre \o results) \o post, kind) = Kind(pre \o results, kind) \o Kind(post, kind)
    BY <1>1, <2>1, <2>2, Zenon
  <2> QED BY <2>3, <2>4, Zenon
<1>5. \A s \in Seq(Parts) : s \o <<>> = s /\ <<>> \o s = s
  OBVIOUS
<1>6. Kind(parts, "text") = pre \o post /\ Kind(parts, "call") = <<>> /\ Kind(parts, "result") = results
  <2>1. Kind(parts, "text") = (pre \o <<>>) \o post
    BY <1>3, <1>4, Zenon
  <2>2. Kind(parts, "call") = (<<>> \o <<>>) \o <<>>
    BY <1>3, <1>4, Zenon
  <2>3. Kind(parts, "result") = (<<>> \o results) \o <<>>
    BY <1>3, <1>4, Zenon
  <2>4. <<>> \in Seq(Parts)
    OBVIOUS
  <2> QED BY <1>1, <1>5, <2>1, <2>2, <2>3, <2>4
<1>7. /\ pre \o post = (IF pre = <<>> /\ post = <<>> THEN <<>> ELSE <<Text>>)
  BY <1>1, <1>5
<1>8. m.role = "user" /\ m.parts = parts /\ m \in MessageSet
  BY <1>2 DEF Message, MessageSet
<1>9. \A p \in Range(parts) : p.kind # "call"
  <2>1. \A k \in DOMAIN parts : parts[k].kind = "call" =>
           \E l \in DOMAIN Kind(parts, "call") : Kind(parts, "call")[l] = parts[k]
    <3> DEFINE calls == Kind(parts, "call")
    <3> HIDE DEF parts
    <3>1. PICK g \in [DOMAIN calls -> DOMAIN parts] :
              /\ \A l \in DOMAIN g : calls[l] = parts[g[l]]
              /\ \A k \in DOMAIN parts : parts[k].kind = "call" => \E l \in DOMAIN g : g[l] = k
      BY <1>2, KindPlaces
    <3> HIDE DEF calls
    <3> SUFFICES \A k \in DOMAIN parts : parts[k].kind = "call" => \E l \in DOMAIN calls : calls[l] = parts[k]
      BY DEF calls
    <3> QED BY <3>1
  <2>2. DOMAIN Kind(parts, "call") = {}
    BY <1>6
  <2> HIDE DEF parts
  <2> QED BY <2>1, <2>2 DEF Range
<1> HIDE DEF parts, m
<1>10. MessageToOpenAI(m) = (IF pre \o post # <<>> THEN <<Message("user", pre \o post)>> ELSE <<>>) \o tools
  BY <1>6, <1>8 DEF MessageToOpenAI, ToolMessages
<1>11. <<Text>> # <<>>
  OBVIOUS
<1> HIDE DEF tools
<1>12. MessageToOpenAI(m) =
          (IF pre = <<>> /\ post = <<>> THEN <<>> ELSE <<Message("user", <<Text>>)>>) \o tools
  BY <1>7, <1>10, <1>11
<1> QED BY <1>6, <1>8, <1>9, <1>12 DEF m, parts, tools

\* No call waits at the end of the messages.
LEMMA NoneWaiting ==
    ASSUME MessagesInv, Pending = <<>>
    PROVE  \A k : ~CallAt(Messages, Len(Messages), k)
<1>1. Messages \in Seq(MessageSet)
  BY DEF MessagesInv, Disciplined
<1>2. CASE Messages = <<>>
  <2>1. DOMAIN Messages = {}
    BY <1>2
  <2> QED BY <2>1 DEF CallAt
<1>3. CASE Messages # <<>>
  BY <1>1, <1>3, NoneLast DEF MessagesInv, Follows
<1> QED BY <1>2, <1>3

\* A message that is the same in both shapes.
LEMMA OneMore ==
    ASSUME ConversationInv, MessagesInv, NEW m \in MessageSet, MessageToOpenAI(m) = <<m>>,
           history' = Append(history, m), ingress' = ingress
    PROVE  /\ Messages' = Append(Messages, m)
           /\ Follows'
<1>1. history \in Seq(MessageSet) /\ Messages \in Seq(MessageSet) /\ ingress \in {"openai", "anthropic"}
  BY DEF ConversationInv, ConversationTypes, MessagesInv, Disciplined
<1>2. Messages' = Append(Messages, m)
  <2>1. CASE ingress = "openai"
    BY <2>1 DEF Messages
  <2>2. CASE ingress # "openai"
    <3>1. Messages' = Messages \o <<m>>
      BY <1>1, <2>2, MessagesGrow, Zenon
    <3> QED BY <1>1, <3>1
  <2> QED BY <2>1, <2>2
<1> DEFINE new == {p \in Range(m.parts) : p.kind = "call"}
<1>3. ASSUME NEW u \in Seq(MessageSet)
      PROVE  CallsOf(Append(u, m)) = CallsOf(u) \union new
  <2> DEFINE U == Append(u, m)
  <2>1. /\ Extends(u, U) /\ \A i : IsNew(u, U, i) => i = Len(u) + 1 /\ U[i] = m
        /\ IsNew(u, U, Len(u) + 1)
    BY AppendExtends
  <2> HIDE DEF U
  <2>2. CallsOf(U) = CallsOf(u) \union
           UNION {{p \in Range(U[i].parts) : p.kind = "call"} : i \in {j \in DOMAIN U : IsNew(u, U, j)}}
    BY <2>1, CallsOfMore
  <2>3. UNION {{p \in Range(U[i].parts) : p.kind = "call"} : i \in {j \in DOMAIN U : IsNew(u, U, j)}} = new
    <3>1. {j \in DOMAIN U : IsNew(u, U, j)} = {Len(u) + 1} /\ U[Len(u) + 1] = m
      BY <2>1 DEF IsNew
    <3> QED BY <3>1
  <2> HIDE DEF new
  <2> QED BY <2>2, <2>3 DEF U
<1> HIDE DEF new
<1>4. CallsOf(history) = CallsOf(Messages)
  BY DEF MessagesInv, Follows
<1>5. CallsOf(history') = CallsOf(Messages')
  BY <1>1, <1>2, <1>3, <1>4
<1>6. history' # <<>> /\ Messages' # <<>> /\ Last(history') = m /\ Last(Messages') = m
  BY <1>1, <1>2, AppendExtends
<1>7. Pending' = Kind(m.parts, "call")
  BY <1>6 DEF Pending
<1>8. Follows'
  BY <1>5, <1>6, <1>7 DEF Follows
<1> QED BY <1>2, <1>8

\* The user speaks only when no call waits, and adds no part of a tool.
LEMMA SayDisciplined == ASSUME ConversationInv, MessagesInv, Say PROVE MessagesInv'
<1>1. PICK role \in {"user", "system"} : history' = Append(history, Message(role, <<Text>>))
  BY DEF Say
<1>2. ingress' = ingress /\ made' = made /\ Pending = <<>>
  BY DEF Say
<1> DEFINE m == Message(role, <<Text>>)
<1>3. m \in MessageSet
  <2>1. <<Text>> \in Seq(Parts)
    BY DEF Parts
  <2> QED BY <2>1 DEF Message, MessageSet
<1>4. MessageToOpenAI(m) = <<m>>
  <2>1. <<Text>> \in Seq(Parts) /\ <<>> \in Seq(Parts) /\ <<Text>> \o <<>> = <<Text>> /\ <<Text>> # <<>>
    BY DEF Parts
  <2>2. (\A k \in DOMAIN <<Text>> : <<Text>>[k].kind = "text") /\ DOMAIN <<>> = {}
    BY DEF Text
  <2>3. MessageToOpenAI(Message(role, <<Text>> \o <<>>)) = <<Message(role, <<Text>> \o <<>>)>>
    BY <2>1, <2>2, SameInBoth
  <2> QED BY <2>1, <2>3
<1> HIDE DEF m
<1>5. Messages' = Append(Messages, m) /\ Follows'
  BY <1>1, <1>2, <1>3, <1>4, OneMore DEF m
<1>6. Disciplined(Append(Messages, m), made)
  BY <1>2, NoneWaiting, SayFits DEF MessagesInv, ConversationInv, ConversationTypes, m
<1>7. Disciplined(Messages', made')
  BY <1>2, <1>5, <1>6
<1> QED BY <1>5, <1>7 DEF MessagesInv

\* The calls of an answer are new, and the results of the calls before it are there.
LEMMA GenerateDisciplined == ASSUME ConversationInv, MessagesInv, Generate PROVE MessagesInv'
<1>1. PICK route \in Routes, reply \in Replies : \E own \in Keeps(route) :
         LET calls == ToolCalls(route, reply, own, Messages)
         IN  /\ history' = Append(history, AnswerOf(reply, calls))
             /\ made' = made + Len(calls)
  BY DEF Generate
<1>2. PICK own \in Keeps(route) :
         LET calls == ToolCalls(route, reply, own, Messages)
         IN  /\ history' = Append(history, AnswerOf(reply, calls))
             /\ made' = made + Len(calls)
  BY <1>1
<1> DEFINE c == ToolCalls(route, reply, own, Messages)
           text == IF Kind(reply, "text") # <<>> THEN <<Text>> ELSE <<>>
           m == Message("assistant", text \o c)
<1>3. /\ ingress' = ingress /\ Pending = <<>> /\ made \in Nat /\ own \in BOOLEAN
      /\ Messages \in Seq(MessageSet)
  BY DEF Generate, ConversationInv, ConversationTypes, Keeps, MessagesInv, Disciplined
<1>4. Numbered(c, route, own, UsedIds(route, Messages))
  BY <1>3, ToolCallsNumbered
<1>5. history' = Append(history, m) /\ made' = made + Len(c)
  BY <1>2 DEF AnswerOf
<1> HIDE DEF c
<1>6. /\ c \in Seq(Calls) /\ \A k \in DOMAIN c : c[k].n = made + k
      /\ \A k, l \in DOMAIN c : k < l => c[k].id # c[l].id
  BY <1>4 DEF Numbered
<1>7. text \in {<<>>, <<Text>>} /\ text \in Seq(Parts) /\ \A k \in DOMAIN text : text[k].kind = "text"
  <2>1. <<>> \in Seq(Parts) /\ <<Text>> \in Seq(Parts) /\ DOMAIN <<>> = {}
    BY DEF Parts
  <2>2. \A k \in DOMAIN <<Text>> : <<Text>>[k].kind = "text"
    BY DEF Text
  <2> QED BY <2>1, <2>2
<1> HIDE DEF text
<1>8. c \in Seq(Parts) /\ \A k \in DOMAIN c : c[k].kind = "call"
  <2>1. \A k \in DOMAIN c : c[k] \in Calls
    BY <1>6
  <2>2. Calls \subseteq Parts
    BY DEF Parts
  <2>3. c \in Seq(Parts)
    BY <1>6, <2>2
  <2>4. \A k \in DOMAIN c : c[k].kind = "call"
    BY <2>1 DEF Calls
  <2> QED BY <2>3, <2>4
<1>9. m \in MessageSet
  <2>1. text \o c \in Seq(Parts)
    BY <1>7, <1>8
  <2> QED BY <2>1 DEF Message, MessageSet
<1>10. MessageToOpenAI(m) = <<m>>
  BY <1>7, <1>8, SameInBoth
<1> HIDE DEF m
<1>11. Messages' = Append(Messages, m) /\ Follows'
  BY <1>3, <1>5, <1>9, <1>10, OneMore
<1>12. Disciplined(Append(Messages, m), made + Len(c))
  <2>1. Disciplined(Messages, made)
    BY DEF MessagesInv
  <2>2. \A k : ~CallAt(Messages, Len(Messages), k)
    BY <1>3, NoneWaiting
  <2> QED BY <1>3, <1>6, <1>7, <2>1, <2>2, AnswerFits DEF m
<1>13. Disciplined(Messages', made')
  BY <1>5, <1>11, <1>12
<1> QED BY <1>11, <1>13 DEF MessagesInv

\* The client returns all results of the calls that wait, each once, in any order.
LEMMA ReturnResultsDisciplined == ASSUME ConversationInv, MessagesInv, ReturnResults PROVE MessagesInv'
<1> DEFINE P == Pending
           says == <<Message("user", <<Text>>)>>
<1>1. /\ history \in Seq(MessageSet) /\ Messages \in Seq(MessageSet) /\ made \in Nat
      /\ ingress \in {"openai", "anthropic"}
      /\ P # <<>> /\ ingress' = ingress /\ made' = made
      /\ Disciplined(Messages, made)
  BY DEF ConversationInv, ConversationTypes, ReturnResults, MessagesInv, Disciplined
<1>2. history # <<>> /\ Messages # <<>> /\ P = Kind(Last(Messages).parts, "call")
  BY <1>1 DEF Pending, MessagesInv, Follows
<1>3. P \in Seq(Parts) /\ \A k \in DOMAIN P : P[k] \in Calls
  <2>1. Last(Messages) \in MessageSet
    BY <1>1, <1>2 DEF Last
  <2>2. Last(Messages).parts \in Seq(Parts)
    BY <2>1 DEF MessageSet
  <2> HIDE DEF P
  <2>3. P \in Seq(Parts) /\ \A k \in DOMAIN P : P[k].kind = "call"
    BY <1>2, <2>2, KindSelects
  <2>4. \A k \in DOMAIN P : P[k] \in Parts
    BY <2>3
  <2> QED BY <2>3, <2>4 DEF Parts, Text, ToolResults
<1> HIDE DEF P
<1>4. PICK order \in Bijection(DOMAIN P, DOMAIN P), said \in {"no", "before", "after"} :
         LET results == [i \in DOMAIN P |-> [kind |-> "result", id |-> P[order[i]].id, n |-> P[order[i]].n]]
             text == <<Text>>
         IN  history' = history \o
                 IF ingress = "openai"
                 THEN [i \in DOMAIN results |-> Message("tool", <<results[i]>>)]
                      \o (IF said = "after" THEN <<Message("user", text)>> ELSE <<>>)
                 ELSE <<Message("user", (IF said = "before" THEN text ELSE <<>>) \o results
                                            \o (IF said = "after" THEN text ELSE <<>>))>>
  BY DEF ReturnResults, P
<1> DEFINE results == ResultsOf(P, order)
           tools == ToolMessages(results)
<1>5. /\ results \in Seq(Parts) /\ results # <<>> /\ DOMAIN results = DOMAIN P
      /\ \A k \in DOMAIN results : results[k].kind = "result"
  <2>1. \A i \in DOMAIN P : order[i] \in DOMAIN P
    BY DEF Bijection, Injection
  <2>2. \A i \in DOMAIN P : P[order[i]].id \in Seq(Nat) /\ P[order[i]].n \in Nat
    BY <1>3, <2>1 DEF Calls
  <2>3. \A i \in DOMAIN P : results[i] \in ToolResults /\ results[i].kind = "result"
    BY <2>2 DEF ToolResults, ResultsOf
  <2>4. \A i \in DOMAIN P : results[i] \in Parts
    BY <2>3 DEF Parts
  <2>5. DOMAIN P = 1..Len(P) /\ Len(P) \in Nat /\ Len(P) # 0
    BY <1>1, <1>3
  <2>6. DOMAIN results = DOMAIN P
    BY DEF ResultsOf
  <2>7. results \in [1..Len(P) -> Parts]
    <3>1. results = [i \in 1..Len(P) |-> results[i]]
      BY <2>5 DEF ResultsOf
    <3> HIDE DEF results
    <3> QED BY <2>4, <2>5, <3>1
  <2> HIDE DEF results
  <2>8. results \in Seq(Parts) /\ results # <<>>
    BY <2>5, <2>6, <2>7
  <2> QED BY <2>3, <2>6, <2>8
<1>6. results = ResultsOf(P, order)
  OBVIOUS
<1> HIDE DEF results
\* The messages grow by results with something said before or after them.
<1>7. ASSUME NEW before \in {<<>>, says}, NEW after \in {<<>>, says},
             Messages' = Messages \o (before \o tools \o after)
      PROVE  /\ Disciplined(Messages', made') /\ CallsOf(Messages') = CallsOf(Messages)
             /\ Messages' # <<>>
             /\ Kind(Last(Messages').parts, "call") = <<>>
  <2> DEFINE new == before \o tools \o after
             u == Messages
             U == u \o new
  <2>1. /\ Disciplined(U, made) /\ new \in Seq(MessageSet) /\ Len(new) # 0
        /\ Extends(u, U) /\ \A i, k : IsNew(u, U, i) => ~CallAt(U, i, k)
    <3> HIDE DEF u
    <3>1. /\ Disciplined(u, made) /\ u # <<>> /\ P = Kind(Last(u).parts, "call") /\ P # <<>> /\ made \in Nat
          /\ before \in {<<>>, <<Message("user", <<Text>>)>>}
          /\ after \in {<<>>, <<Message("user", <<Text>>)>>}
      BY <1>1, <1>2, <1>7 DEF u
    <3>2. /\ Disciplined(u \o (before \o ToolMessages(results) \o after), made)
          /\ before \o ToolMessages(results) \o after \in Seq(MessageSet)
          /\ Len(before \o ToolMessages(results) \o after) # 0
          /\ LET V == u \o (before \o ToolMessages(results) \o after)
             IN  Extends(u, V) /\ \A i, k : IsNew(u, V, i) => ~CallAt(V, i, k)
      <4> HIDE DEF says, tools, new
      <4> QED BY <1>6, <3>1, ResultsFit, Zenon
    <3> QED BY <3>2
  <2> HIDE DEF new, u, says
  <2>2. U \in Seq(MessageSet) /\ Len(U) = Len(u) + Len(new) /\ U # <<>> /\ Len(U) \in DOMAIN U
        /\ Len(U) \notin DOMAIN u
    <3>1. u \in Seq(MessageSet) /\ new \in Seq(MessageSet) /\ Len(u) \in Nat /\ Len(new) \in Nat
      BY <1>1, <2>1 DEF u
    <3> QED BY <2>1, <3>1
  <2>3. U = Messages'
    BY <1>7 DEF new, u
  <2> HIDE DEF U
  <2>4. CallsOf(U) = CallsOf(u)
    BY <2>1, CallsOfMore
  <2>5. \A k : ~CallAt(U, Len(U), k)
    BY <2>1, <2>2 DEF IsNew
  <2>6. Kind(Last(U).parts, "call") = <<>>
    BY <2>2, <2>5, NoneLast
  <2> QED BY <1>1, <2>1, <2>2, <2>3, <2>4, <2>6 DEF u
<1>8. tools \in Seq(MessageSet) /\ says \in Seq(MessageSet) /\ <<>> \in Seq(MessageSet)
  <2>1. Text \in Parts
    BY DEF Parts
  <2>2. <<Text>> \in Seq(Parts)
    BY <2>1
  <2>3. Message("user", <<Text>>) \in MessageSet
    BY <2>2 DEF Message, MessageSet
  <2>4. \A i \in DOMAIN results : Message("tool", <<results[i]>>) \in MessageSet
    <3> SUFFICES ASSUME NEW i \in DOMAIN results PROVE Message("tool", <<results[i]>>) \in MessageSet
      OBVIOUS
    <3>1. <<results[i]>> \in Seq(Parts)
      BY <1>5
    <3> QED BY <3>1 DEF Message, MessageSet
  <2>5. DOMAIN results = 1..Len(results) /\ Len(results) \in Nat
    BY <1>5
  <2> HIDE DEF MessageSet
  <2> QED BY <2>3, <2>4, <2>5 DEF ToolMessages
<1> HIDE DEF tools
<1>9. \A s \in Seq(MessageSet) : s \o <<>> = s /\ <<>> \o s = s
  OBVIOUS
<1>10. CASE ingress = "openai"
  <2> DEFINE after == IF said = "after" THEN says ELSE <<>>
  <2>1. history' = history \o (tools \o after)
    BY <1>4, <1>10 DEF results, tools, ResultsOf, ToolMessages
  <2>2. Messages = history /\ Messages' = history'
    BY <1>1, <1>10 DEF Messages
  <2>3. after \in {<<>>, says} /\ <<>> \in {<<>>, says}
    OBVIOUS
  <2> HIDE DEF after
  <2>4. Messages' = Messages \o ((<<>> \o tools) \o after)
    BY <1>8, <1>9, <2>1, <2>2
  <2>5. /\ Disciplined(Messages', made') /\ CallsOf(Messages') = CallsOf(Messages)
        /\ Messages' # <<>>
        /\ Kind(Last(Messages').parts, "call") = <<>>
    BY <1>7, <2>3, <2>4
  <2>6. Pending' = Kind(Last(Messages').parts, "call")
    BY <2>2, <2>5 DEF Pending
  <2>7. Follows'
    BY <2>2, <2>6 DEF Follows
  <2> QED BY <2>5, <2>7 DEF MessagesInv
<1>11. CASE ingress # "openai"
  <2> DEFINE pre == IF said = "before" THEN <<Text>> ELSE <<>>
             post == IF said = "after" THEN <<Text>> ELSE <<>>
             before == IF pre = <<>> /\ post = <<>> THEN <<>> ELSE says
             x == Message("user", pre \o results \o post)
  <2>1. history' = history \o <<x>>
    BY <1>4, <1>11 DEF results, ResultsOf
  <2>2. pre \in {<<>>, <<Text>>} /\ post \in {<<>>, <<Text>>} /\ (pre = <<>> \/ post = <<>>)
        /\ before \in {<<>>, says} /\ <<>> \in {<<>>, says}
    OBVIOUS
  <2>3. x.parts = pre \o results \o post
    BY DEF Message
  <2> HIDE DEF pre, post
  <2>4. /\ MessageToOpenAI(x) = before \o tools /\ x \in MessageSet
        /\ Kind(x.parts, "call") = <<>> /\ \A p \in Range(x.parts) : p.kind # "call"
    <3> HIDE DEF x
    <3>1. /\ MessageToOpenAI(Message("user", pre \o results \o post)) =
                 (IF pre = <<>> /\ post = <<>> THEN <<>> ELSE <<Message("user", <<Text>>)>>)
                 \o ToolMessages(results)
          /\ Message("user", pre \o results \o post) \in MessageSet
          /\ Kind(pre \o results \o post, "call") = <<>>
          /\ \A p \in Range(pre \o results \o post) : p.kind # "call"
      BY <1>5, <2>2, ResultsToOpenAI
    <3> QED BY <2>3, <3>1 DEF x, tools, before
  <2> HIDE DEF x, before
  <2>5. history' = Append(history, x)
    BY <1>1, <2>1, <2>4
  <2>6. Messages' = Messages \o (before \o tools)
    BY <1>1, <1>11, <2>4, <2>5, MessagesGrow
  <2>7. Messages' = Messages \o ((before \o tools) \o <<>>)
    <3>1. before \o tools \in Seq(MessageSet)
      <4>1. before \in Seq(MessageSet)
        BY <1>8, <2>2
      <4> HIDE DEF says, MessageSet
      <4> QED BY <1>8, <4>1
    <3> QED BY <1>9, <2>6, <3>1
  <2>8. /\ Disciplined(Messages', made') /\ CallsOf(Messages') = CallsOf(Messages)
        /\ Messages' # <<>>
        /\ Kind(Last(Messages').parts, "call") = <<>>
    BY <1>7, <2>2, <2>7
  <2>9. /\ history' # <<>> /\ Last(history') = x
        /\ Extends(history, history')
        /\ \A i : IsNew(history, history', i) => history'[i] = x
    <3>1. /\ Extends(history, Append(history, x))
          /\ Last(Append(history, x)) = x /\ Append(history, x) # <<>>
          /\ \A i : IsNew(history, Append(history, x), i) => i = Len(history) + 1 /\ Append(history, x)[i] = x
      BY <1>1, <2>4, AppendExtends
    <3> QED BY <2>5, <3>1
  <2>10. CallsOf(history') = CallsOf(history)
    <3>1. ASSUME NEW i, NEW k, IsNew(history, history', i) PROVE ~CallAt(history', i, k)
      BY <2>4, <2>9, <3>1 DEF CallAt, Range
    <3> QED BY <2>9, <3>1, CallsOfMore
  <2>11. Pending' = <<>>
    BY <2>4, <2>9 DEF Pending
  <2>12. CallsOf(history) = CallsOf(Messages)
    BY DEF MessagesInv, Follows
  <2>13. Follows'
    BY <2>8, <2>9, <2>10, <2>11, <2>12 DEF Follows
  <2> QED BY <2>8, <2>13 DEF MessagesInv
<1> QED BY <1>10, <1>11

\* In every conversation the clients' messages keep the discipline of tools.
LEMMA MessagesInvariance == Conversation => [](ConversationInv /\ MessagesInv)
<1>1. ConversationInit => MessagesInv
  <2> SUFFICES ASSUME ConversationInit PROVE MessagesInv
    OBVIOUS
  <2>1. history = <<>> /\ made = 0
    BY DEF ConversationInit
  <2>2. Messages = <<>>
    <3>1. CASE ingress = "openai"
      BY <2>1, <3>1 DEF Messages
    <3>2. CASE ingress # "openai"
      <4> DEFINE s == [i \in DOMAIN history |-> MessageToOpenAI(history[i])]
      <4>1. s = <<>>
        BY <2>1
      <4> HIDE DEF s
      <4>2. Messages = FlattenSeq(s)
        BY <3>2 DEF Messages, s
      <4> QED BY <4>1, <4>2 DEF FlattenSeq
    <3> QED BY <3>1, <3>2
  <2>3. DOMAIN Messages = {} /\ Messages \in Seq(MessageSet) /\ 1..0 = {}
    BY <2>2
  <2>4. Disciplined(Messages, made)
    BY <2>1, <2>3 DEF Disciplined, CallsOnce, ResultsOnce, ResultsReturn, CallsAnswered, CallsMade
  <2>5. Follows
    BY <2>1, <2>2 DEF Follows
  <2> QED BY <2>4, <2>5 DEF MessagesInv
<1>2. ConversationInv /\ MessagesInv /\ [ConversationNext]_conversationVars => MessagesInv'
  <2> SUFFICES ASSUME ConversationInv, MessagesInv, [ConversationNext]_conversationVars PROVE MessagesInv'
    OBVIOUS
  <2>1. CASE Say
    BY <2>1, SayDisciplined
  <2>2. CASE Generate
    BY <2>2, GenerateDisciplined
  <2>3. CASE ReturnResults
    BY <2>3, ReturnResultsDisciplined
  <2>4. CASE UNCHANGED conversationVars
    <3>1. Messages' = Messages /\ Pending' = Pending /\ history' = history /\ made' = made
      BY <2>4 DEF conversationVars, Messages, Pending
    <3> QED BY <3>1 DEF MessagesInv, Follows
  <2> QED BY <2>1, <2>2, <2>3, <2>4 DEF ConversationNext
<1> QED BY <1>1, <1>2, ConversationInvariance, PTL DEF Conversation

-----------------------------------------------------------------------------
(* The bodies of the requests to the providers.                            *)

NamedResults == [kind : {"result"}, name : Seq(Nat), n : Nat]
TurnParts    == Parts \union NamedResults
TurnSet      == [role : {"user", "model", "system"}, parts : Seq(TurnParts)]

\* The greatest of some numbers up to n.
LEMMA GreatestOf ==
    ASSUME NEW n \in Nat, NEW S, S \subseteq 1..n, S # {}
    PROVE  Max(S) \in S /\ \A y \in S : y <= Max(S)
<1> DEFINE P == {n - x : x \in S}
<1>0. \A x \in S : x \in Nat /\ n - x \in Nat
  OBVIOUS
<1>1. P \subseteq Nat /\ P # {}
  BY <1>0
<1>2. PICK k \in P : \A j \in P : k <= j
  <2> HIDE DEF P
  <2> QED BY <1>1, LeastNatural
<1>3. PICK x \in S : k = n - x
  BY <1>2
<1>4. \A y \in S : x >= y
  <2> SUFFICES ASSUME NEW y \in S PROVE x >= y
    OBVIOUS
  <2>1. n - x <= n - y
    BY <1>2, <1>3
  <2>2. x \in Nat /\ y \in Nat
    OBVIOUS
  <2> QED BY <2>1, <2>2
<1>5. \E z \in S : \A y \in S : z >= y
  BY <1>4
<1>6. Max(S) \in S /\ \A y \in S : Max(S) >= y
  <2> DEFINE z == CHOOSE z \in S : \A y \in S : z >= y
  <2>1. z \in S /\ \A y \in S : z >= y
    BY <1>5
  <2> HIDE DEF z
  <2>2. z = Max(S)
    BY DEF z, Max
  <2> QED BY <2>1, <2>2
<1>7. \A y \in S : y \in Nat
  OBVIOUS
<1> QED BY <1>6, <1>7

\* The name of a result is that of the last call with its id.
LEMMA CallNameFacts ==
    ASSUME NEW messages \in Seq(MessageSet), NEW id
    PROVE  \/ /\ CallName(messages, id) = id
              /\ \A j, k : CallAt(messages, j, k) => messages[j].parts[k].id # id
           \/ \E j, k : /\ CallAt(messages, j, k) /\ messages[j].parts[k].id = id
                        /\ CallName(messages, id) = messages[j].parts[k].name
                        /\ \A i, l : CallAt(messages, i, l) /\ messages[i].parts[l].id = id => i <= j
<1> DEFINE turns == {i \in DOMAIN messages : CallsWith(messages[i], id) # {}}
           j == Max(turns)
           with == CallsWith(messages[j], id)
           k == Max(with)
<1>1. CallName(messages, id) = IF turns = {} THEN id ELSE messages[j].parts[k].name
  BY DEF CallName
<1>2. \A i, l : CallAt(messages, i, l) /\ messages[i].parts[l].id = id
         <=> i \in DOMAIN messages /\ l \in CallsWith(messages[i], id)
  BY DEF CallAt, CallsWith
<1>3. Len(messages) \in Nat /\ DOMAIN messages = 1..Len(messages)
  OBVIOUS
<1>4. turns \subseteq 1..Len(messages)
  BY <1>3
<1>5. \A i \in DOMAIN messages : i \in turns <=> CallsWith(messages[i], id) # {}
  OBVIOUS
<1> HIDE DEF turns
<1>6. CASE turns = {}
  BY <1>1, <1>2, <1>5, <1>6
<1>7. CASE turns # {}
  <2>1. j \in turns /\ \A i \in turns : i <= j
    BY <1>3, <1>4, <1>7, GreatestOf
  <2> HIDE DEF j
  <2>2. j \in DOMAIN messages /\ with # {}
    BY <1>3, <1>4, <1>5, <2>1
  <2>3. Len(messages[j].parts) \in Nat /\ with \subseteq 1..Len(messages[j].parts)
    <3>1. messages[j] \in MessageSet
      BY <2>2
    <3>2. messages[j].parts \in Seq(Parts)
      BY <3>1 DEF MessageSet
    <3> QED BY <3>2 DEF CallsWith
  <2> HIDE DEF with
  <2>4. k \in with
    BY <2>2, <2>3, GreatestOf
  <2> HIDE DEF k
  <2>5. CallAt(messages, j, k) /\ messages[j].parts[k].id = id
    BY <1>2, <2>2, <2>4 DEF with
  <2>6. \A i, l : CallAt(messages, i, l) /\ messages[i].parts[l].id = id => i <= j
    BY <1>2, <1>5, <2>1
  <2> QED BY <1>1, <1>7, <2>5, <2>6
<1> QED BY <1>6, <1>7

\* The name found for an id is a name.
LEMMA CallNameTyped ==
    ASSUME NEW messages \in Seq(MessageSet), NEW id \in Seq(Nat)
    PROVE  CallName(messages, id) \in Seq(Nat)
<1>1. ASSUME NEW j, NEW k, CallAt(messages, j, k) PROVE messages[j].parts[k].name \in Seq(Nat)
  <2>1. messages[j] \in MessageSet /\ k \in DOMAIN messages[j].parts /\ messages[j].parts[k].kind = "call"
    BY <1>1 DEF CallAt
  <2>2. messages[j].parts[k] \in Parts
    BY <2>1 DEF MessageSet
  <2>3. messages[j].parts[k] \in Calls
    BY <2>1, <2>2 DEF Parts, Text, ToolResults
  <2> QED BY <2>3, ConversationAssumption DEF Calls
<1> QED BY <1>1, CallNameFacts

\* The messages whose calls are known where results get their names.
Known(protocol, messages, l) ==
    IF protocol = "vertex" THEN messages ELSE SubSeq(messages, 1, l)

\* A call or a result in a turn and in message l.
Tracked(p) == p.kind \in {"call", "result"}

Copy(protocol, messages, l, p, q) ==
    /\ p.kind = q.kind /\ p.n = q.n
    /\ q.kind = "result" /\ protocol \in {"vertex", "google"} =>
          p.name = CallName(Known(protocol, messages, l), q.id)

\* The parts of a turn are those of message l.
Copies(protocol, messages, l, parts) ==
    /\ parts \in Seq(TurnParts) /\ Len(parts) = Len(messages[l].parts)
    /\ messages[l].role = "tool" => \A k \in DOMAIN parts : parts[k].kind = "result"
    /\ \A k \in DOMAIN parts :
          /\ parts[k].kind = messages[l].parts[k].kind
          /\ Tracked(parts[k]) => Copy(protocol, messages, l, parts[k], messages[l].parts[k])

\* What a client adds for message l.
AddedParts(protocol, messages, l) ==
    IF protocol \in {"vertex", "google"}
    THEN NamedParts(messages[l], Known(protocol, messages, l))
    ELSE messages[l].parts

\* What a client looks names up in are messages of the conversation.
LEMMA KnownTyped ==
    ASSUME NEW protocol, NEW messages \in Seq(MessageSet), NEW l \in DOMAIN messages
    PROVE  Known(protocol, messages, l) \in Seq(MessageSet)
<1>1. SubSeq(messages, 1, l) \in Seq(MessageSet)
  OBVIOUS
<1> QED BY <1>1 DEF Known

\* The parts that are added of a message are copies of its parts.
LEMMA AddedCopies ==
    ASSUME NEW protocol, NEW messages \in Seq(MessageSet), NEW l \in DOMAIN messages,
           Shaped(messages[l])
    PROVE  Copies(protocol, messages, l, AddedParts(protocol, messages, l))
<1> DEFINE m == messages[l]
           parts == AddedParts(protocol, messages, l)
           known == Known(protocol, messages, l)
<1>1. m \in MessageSet /\ m.parts \in Seq(Parts) /\ Len(m.parts) \in Nat /\ DOMAIN m.parts = 1..Len(m.parts)
  <2>1. m \in MessageSet
    OBVIOUS
  <2>2. m.parts \in Seq(Parts)
    BY <2>1 DEF MessageSet
  <2> QED BY <2>1, <2>2
<1>2. known \in Seq(MessageSet)
  BY KnownTyped
<1>3. Parts \subseteq TurnParts /\ NamedResults \subseteq TurnParts
  BY DEF TurnParts
<1>4. m.role = "tool" => Len(m.parts) = 1 /\ m.parts[1].kind = "result"
  BY DEF Shaped
<1>5. m.role # "tool" => \A k \in DOMAIN m.parts : m.parts[k].kind # "result"
  BY <1>1 DEF Shaped, MessageSet
<1> HIDE DEF m, known
<1>6. CASE protocol \in {"vertex", "google"} /\ m.role = "tool"
  <2> DEFINE r == m.parts[1]
             q == [kind |-> "result", name |-> CallName(known, r.id), n |-> r.n]
  <2>1. parts = <<q>>
    BY <1>6 DEF AddedParts, NamedParts, m, known
  <2>2. r \in Parts /\ r.kind = "result"
    BY <1>1, <1>4, <1>6
  <2>3. r \in ToolResults
    BY <2>2 DEF Parts, Text, Calls
  <2>4. r.id \in Seq(Nat) /\ r.n \in Nat
    BY <2>3 DEF ToolResults
  <2> HIDE DEF r
  <2>5. q \in NamedResults /\ q.kind = "result" /\ q.n = r.n /\ q.name = CallName(known, r.id)
    BY <1>2, <2>4, CallNameTyped DEF NamedResults
  <2> HIDE DEF q
  <2>6. /\ <<q>> \in Seq(TurnParts) /\ Len(<<q>>) = 1
        /\ \A k \in DOMAIN <<q>> : k = 1 /\ <<q>>[k] = q
    BY <1>3, <2>5
  <2>7. Copy(protocol, messages, l, q, r)
    BY <2>2, <2>5 DEF Copy, known
  <2> HIDE DEF parts
  <2>8. Copies(protocol, messages, l, <<q>>)
    <3>1. messages[l].parts[1] = r /\ Len(messages[l].parts) = 1
      BY <1>4, <1>6 DEF r, m
    <3> QED BY <2>2, <2>5, <2>6, <2>7, <3>1 DEF Copies
  <2> QED BY <2>1, <2>8 DEF parts
<1>7. CASE ~(protocol \in {"vertex", "google"} /\ m.role = "tool")
  <2>1. parts = m.parts
    BY <1>7 DEF AddedParts, NamedParts, m
  <2>2. m.parts \in Seq(TurnParts)
    BY <1>1, <1>3
  <2>3. ASSUME NEW k \in DOMAIN m.parts PROVE Copy(protocol, messages, l, m.parts[k], m.parts[k])
    BY <1>5, <1>7 DEF Copy
  <2>4. m.role = "tool" => \A k \in DOMAIN m.parts : m.parts[k].kind = "result"
    BY <1>1, <1>4
  <2> HIDE DEF parts
  <2>5. Copies(protocol, messages, l, m.parts)
    BY <2>2, <2>3, <2>4 DEF Copies, m
  <2> QED BY <2>1, <2>5 DEF parts
<1> QED BY <1>6, <1>7

\* How each protocol adds message l.
ResultsGoOn(protocol, T) ==
    T # <<>> /\ IF protocol = "google" THEN OnlyResults(Last(T)) ELSE HasResult(Last(T))

\* AddMessage adds nothing, items, a turn, or to the last turn.
LEMMA AddCases ==
    ASSUME NEW protocol \in Protocols, NEW messages, NEW l, NEW T
    PROVE  LET m == messages[l]
               U == AddMessage(protocol, T, messages, l)
               parts == AddedParts(protocol, messages, l)
           IN  /\ protocol = "responses" => U = T \o Items(m)
               /\ protocol # "responses" /\ m.role = "system" => U = T
               /\ protocol # "responses" /\ m.role # "system" =>
                     U = IF \/ protocol \in {"google", "jetbrains"} /\ m.role = "tool" /\ ResultsGoOn(protocol, T)
                            \/ protocol = "anthropic" /\ T # <<>> /\ Last(T).role = Side(m.role)
                         THEN Join(T, parts) ELSE Append(T, Message(Side(m.role), parts))
<1> DEFINE m == messages[l]
           U == AddMessage(protocol, T, messages, l)
           parts == AddedParts(protocol, messages, l)
<1>1. protocol \in {"vertex", "google", "anthropic", "jetbrains", "responses"}
  BY DEF Protocols, Routes
<1>2. CASE protocol = "responses"
  BY <1>2 DEF AddMessage
<1>3. CASE protocol # "responses" /\ m.role = "system"
  BY <1>3 DEF AddMessage
<1>4. CASE protocol = "vertex" /\ m.role # "system"
  <2>1. U = AddVertex(T, messages, l)
    BY <1>4 DEF AddMessage
  <2> HIDE DEF U
  <2> QED BY <1>4, <2>1 DEF AddVertex, AddedParts, Known, U
<1>5. CASE protocol = "google" /\ m.role # "system"
  <2>1. U = AddGoogle(T, messages, l)
    BY <1>5 DEF AddMessage
  <2> HIDE DEF U
  <2> QED BY <1>5, <2>1 DEF AddGoogle, AddedParts, Known, ResultsGoOn, U
<1>6. CASE protocol = "anthropic" /\ m.role # "system"
  <2>1. U = AppendTurn(T, Side(m.role), m.parts)
    BY <1>6 DEF AddMessage
  <2> HIDE DEF U
  <2> QED BY <1>6, <2>1 DEF AppendTurn, AddedParts, U
<1>7. CASE protocol = "jetbrains" /\ m.role # "system"
  <2>1. U = AddJetBrains(T, m)
    BY <1>7 DEF AddMessage
  <2> HIDE DEF U
  <2> QED BY <1>7, <2>1 DEF AddJetBrains, AddedParts, ResultsGoOn, U
<1> QED BY <1>1, <1>2, <1>3, <1>4, <1>5, <1>6, <1>7

\* How the turns grow by a message: those before stay, but the last may go on,
\* and the calls or results of the message get a place each.
PartAt(T, t, k) == t \in DOMAIN T /\ k \in DOMAIN T[t].parts

NewAt(T, U, t, k) == PartAt(U, t, k) /\ ~PartAt(T, t, k)

Single(turn) == Len(turn.parts) = 1 /\ turn.parts[1].kind = "call"

Prolongs(T, U, role) ==
    /\ T \in Seq(TurnSet) /\ U \in Seq(TurnSet) /\ Len(T) <= Len(U)
    /\ \A t \in DOMAIN T :
          /\ U[t].role = T[t].role
          /\ \A k \in DOMAIN T[t].parts : k \in DOMAIN U[t].parts /\ U[t].parts[k] = T[t].parts[k]
          /\ U[t] # T[t] => t = Len(T) /\ T[t].role = role
    /\ \A t \in DOMAIN U : t \notin DOMAIN T => U[t].role = role

Placed(protocol, messages, l, T, U, at, nth) ==
    LET parts == messages[l].parts
    IN  /\ \A k \in DOMAIN parts : Tracked(parts[k]) =>
              /\ NewAt(T, U, at[k], nth[k]) /\ at[k] >= Len(T)
              /\ U[at[k]].role = Side(messages[l].role)
              /\ Copy(protocol, messages, l, U[at[k]].parts[nth[k]], parts[k])
        /\ \A t, j : NewAt(T, U, t, j) /\ Tracked(U[t].parts[j]) =>
              \E k \in DOMAIN parts : Tracked(parts[k]) /\ at[k] = t /\ nth[k] = j
        /\ \A k \in DOMAIN parts : parts[k].kind = "call" =>
              \A s \in DOMAIN U : s > at[k] => Single(U[s])

Grows(protocol, messages, l, T, U) ==
    /\ Prolongs(T, U, Side(messages[l].role))
    /\ \E at, nth : Placed(protocol, messages, l, T, U, at, nth)

\* A turn more.
LEMMA AppendGrows ==
    ASSUME NEW protocol, NEW messages, NEW l, NEW T \in Seq(TurnSet), NEW parts,
           NEW role \in {"user", "model", "system"}, role = Side(messages[l].role),
           Copies(protocol, messages, l, parts), messages[l].parts \in Seq(Parts)
    PROVE  /\ Grows(protocol, messages, l, T, Append(T, Message(role, parts)))
           /\ Append(T, Message(role, parts)) \in Seq(TurnSet)
<1> DEFINE new == Message(role, parts)
           U == Append(T, new)
           n == Len(T)
           q == messages[l].parts
           at == [k \in DOMAIN q |-> n + 1]
           nth == [k \in DOMAIN q |-> k]
<1>1. new.role = role /\ new.parts = parts /\ new \in TurnSet
  BY DEF Message, TurnSet, Copies
<1> HIDE DEF new
<1>2. /\ U \in Seq(TurnSet) /\ Len(U) = n + 1 /\ n \in Nat /\ DOMAIN T = 1..n /\ DOMAIN U = 1..n + 1
      /\ \A t \in 1..n : U[t] = T[t]
      /\ U[n + 1] = new
  BY <1>1
<1> HIDE DEF U
<1>3. n <= n + 1 /\ n + 1 \notin 1..n /\ n + 1 \in 1..n + 1 /\ n + 1 >= n
      /\ (\A t \in 1..n + 1 : t \in 1..n \/ t = n + 1) /\ \A t \in 1..n : t \in 1..n + 1
  BY <1>2
<1>4. DOMAIN parts = DOMAIN q
  <2>1. parts \in Seq(TurnParts) /\ Len(parts) = Len(q)
    BY DEF Copies
  <2> QED BY <2>1
<1>5. Prolongs(T, U, role)
  <2> HIDE DEF n
  <2> QED BY <1>1, <1>2, <1>3 DEF Prolongs, n
<1> HIDE DEF n
<1>6. \A k \in DOMAIN q : at[k] = n + 1 /\ nth[k] = k
  OBVIOUS
<1>7. \A t, j : NewAt(T, U, t, j) <=> t = n + 1 /\ j \in DOMAIN parts
  BY <1>1, <1>2, <1>3 DEF NewAt, PartAt
<1>8. \A k \in DOMAIN parts : /\ parts[k].kind = q[k].kind
                              /\ Tracked(parts[k]) => Copy(protocol, messages, l, parts[k], q[k])
  BY DEF Copies
<1>9. \A k \in DOMAIN parts : Tracked(parts[k]) <=> Tracked(q[k])
  BY <1>8 DEF Tracked
<1> HIDE DEF at, nth, q
<1>10. ASSUME NEW k \in DOMAIN q, Tracked(q[k])
       PROVE  /\ NewAt(T, U, at[k], nth[k]) /\ at[k] >= n
              /\ U[at[k]].role = role
              /\ Copy(protocol, messages, l, U[at[k]].parts[nth[k]], q[k])
  BY <1>1, <1>2, <1>3, <1>4, <1>6, <1>7, <1>8, <1>9, <1>10
<1>11. ASSUME NEW t, NEW j, NewAt(T, U, t, j), Tracked(U[t].parts[j])
       PROVE  \E k \in DOMAIN q : Tracked(q[k]) /\ at[k] = t /\ nth[k] = j
  <2>1. t = n + 1 /\ j \in DOMAIN q /\ U[t].parts[j] = parts[j]
    BY <1>1, <1>2, <1>4, <1>7, <1>11
  <2> QED BY <1>4, <1>6, <1>9, <1>11, <2>1
<1>12. \A s \in DOMAIN U : ~(s > n + 1)
  BY <1>2
<1>13. Placed(protocol, messages, l, T, U, at, nth)
  BY <1>6, <1>10, <1>11, <1>12 DEF Placed, n, q
<1> QED BY <1>2, <1>5, <1>13 DEF Grows, U, new

\* The last turn goes on.
LEMMA JoinGrows ==
    ASSUME NEW protocol, NEW messages, NEW l, NEW T \in Seq(TurnSet), NEW parts,
           T # <<>>, Last(T).role = Side(messages[l].role),
           Copies(protocol, messages, l, parts), messages[l].parts \in Seq(Parts)
    PROVE  /\ Grows(protocol, messages, l, T, Join(T, parts))
           /\ Join(T, parts) \in Seq(TurnSet) /\ Len(Join(T, parts)) = Len(T)
           /\ Last(Join(T, parts)) = Message(Last(T).role, Last(T).parts \o parts)
<1> DEFINE n == Len(T)
           old == T[n].parts
           b == Len(old)
           new == Message(T[n].role, old \o parts)
           U == Join(T, parts)
           q == messages[l].parts
           at == [k \in DOMAIN q |-> n]
           nth == [k \in DOMAIN q |-> b + k]
           role == T[n].role
<1>1. /\ n \in Nat /\ n # 0 /\ DOMAIN T = 1..n /\ T[n] \in TurnSet /\ Last(T) = T[n]
      /\ \A t \in 1..n : T[t] \in TurnSet
  BY DEF Last
<1>2. /\ old \in Seq(TurnParts) /\ role \in {"user", "model", "system"} /\ b \in Nat
      /\ DOMAIN old = 1..b
  BY <1>1 DEF TurnSet
<1>3. parts \in Seq(TurnParts) /\ Len(parts) = Len(q) /\ DOMAIN parts = DOMAIN q /\ Len(parts) \in Nat
      /\ DOMAIN parts = 1..Len(parts)
  BY DEF Copies
<1>4. /\ old \o parts \in Seq(TurnParts) /\ DOMAIN (old \o parts) = 1..b + Len(parts)
      /\ \A j \in 1..b : (old \o parts)[j] = old[j]
      /\ \A k \in 1..Len(parts) : (old \o parts)[b + k] = parts[k]
  <2> HIDE DEF old
  <2>1. /\ old \o parts \in Seq(TurnParts) /\ Len(old \o parts) = b + Len(parts)
        /\ \A j \in 1..b + Len(parts) :
              (old \o parts)[j] = IF j <= b THEN old[j] ELSE parts[j - b]
    BY <1>2, <1>3, ConcatProperties, Zenon
  <2> HIDE DEF b
  <2>2. ASSUME NEW j \in 1..b PROVE (old \o parts)[j] = old[j]
    <3>1. j \in 1..b + Len(parts) /\ j <= b
      BY <1>2, <1>3
    <3> QED BY <2>1, <3>1
  <2>3. ASSUME NEW k \in 1..Len(parts) PROVE (old \o parts)[b + k] = parts[k]
    <3>1. b + k \in 1..b + Len(parts) /\ ~(b + k <= b) /\ (b + k) - b = k
      BY <1>2, <1>3
    <3> QED BY <2>1, <3>1
  <2>4. DOMAIN (old \o parts) = 1..b + Len(parts)
    BY <2>1
  <2> QED BY <2>1, <2>2, <2>3, <2>4
<1>5. new.role = role /\ new.parts = old \o parts /\ new \in TurnSet
  BY <1>2, <1>4 DEF Message, TurnSet
<1>6. Front(T) \in Seq(TurnSet) /\ Len(Front(T)) = n - 1 /\ \A t \in 1..n - 1 : Front(T)[t] = T[t]
  BY <1>1 DEF Front
<1>7. U = Append(Front(T), new)
  BY <1>1 DEF Join
<1> HIDE DEF new, U
<1>8. /\ U \in Seq(TurnSet) /\ Len(U) = n /\ DOMAIN U = 1..n /\ U[n] = new
      /\ \A t \in 1..n - 1 : U[t] = T[t]
  <2> DEFINE F == Front(T)
  <2>1. F \in Seq(TurnSet) /\ Len(F) = n - 1
    BY <1>6
  <2> HIDE DEF F
  <2>2. /\ Append(F, new) \in Seq(TurnSet) /\ Len(Append(F, new)) = (n - 1) + 1
        /\ Append(F, new)[(n - 1) + 1] = new
        /\ \A t \in 1..n - 1 : Append(F, new)[t] = F[t]
    BY <1>5, <2>1
  <2>3. (n - 1) + 1 = n
    BY <1>1
  <2> QED BY <1>6, <1>7, <2>2, <2>3 DEF F
<1> HIDE DEF n, old, b
<1>9. n <= n /\ n >= n /\ n \in 1..n /\ (\A t \in 1..n : t \in 1..n - 1 \/ t = n)
  BY <1>1
<1>10. \A j \in 1..b : j \in 1..b + Len(parts)
  BY <1>2, <1>3
<1>11. ASSUME NEW t \in 1..n
       PROVE  /\ U[t].role = T[t].role
              /\ \A k \in DOMAIN T[t].parts : k \in DOMAIN U[t].parts /\ U[t].parts[k] = T[t].parts[k]
              /\ U[t] # T[t] => t = n /\ T[t].role = role
  <2>1. CASE t = n
    BY <1>2, <1>4, <1>5, <1>8, <1>10, <2>1 DEF old
  <2>2. CASE t \in 1..n - 1
    BY <1>8, <2>2
  <2> QED BY <1>9, <2>1, <2>2
<1> HIDE DEF role
<1>12. role = Side(messages[l].role)
  BY <1>1 DEF role, n
<1>13. Prolongs(T, U, role)
  BY <1>1, <1>8, <1>9, <1>11, Zenon DEF Prolongs, n
<1>14. \A k \in DOMAIN q : at[k] = n /\ nth[k] = b + k
  OBVIOUS
<1>15. \A t, j : NewAt(T, U, t, j) <=> t = n /\ j \in 1..b + Len(parts) /\ j \notin 1..b
  <2>1. \A t \in 1..n - 1 : t \in 1..n /\ U[t] = T[t]
    BY <1>1, <1>8
  <2>2. T[n].parts = old
    BY DEF old
  <2> QED BY <1>1, <1>2, <1>4, <1>5, <1>8, <1>9, <2>1, <2>2, Zenon DEF NewAt, PartAt
<1>16. \A k \in DOMAIN parts : /\ parts[k].kind = q[k].kind
                               /\ Tracked(parts[k]) => Copy(protocol, messages, l, parts[k], q[k])
  BY DEF Copies
<1>17. \A k \in DOMAIN parts : Tracked(parts[k]) <=> Tracked(q[k])
  BY <1>16 DEF Tracked
<1> HIDE DEF at, nth, q
<1>18. ASSUME NEW k \in DOMAIN q
       PROVE  NewAt(T, U, n, b + k) /\ U[n].parts[b + k] = parts[k]
  <2>1. k \in 1..Len(parts) /\ b + k \in 1..b + Len(parts) /\ b + k \notin 1..b
    BY <1>2, <1>3
  <2> QED BY <1>4, <1>5, <1>8, <1>15, <2>1
<1>19. ASSUME NEW k \in DOMAIN q, Tracked(q[k])
       PROVE  /\ NewAt(T, U, at[k], nth[k]) /\ at[k] >= n
              /\ U[at[k]].role = role
              /\ Copy(protocol, messages, l, U[at[k]].parts[nth[k]], q[k])
  <2>1. at[k] = n /\ nth[k] = b + k /\ NewAt(T, U, n, b + k) /\ U[n].parts[b + k] = parts[k]
    BY <1>14, <1>18
  <2>2. Copy(protocol, messages, l, parts[k], q[k])
    BY <1>3, <1>16, <1>17, <1>19
  <2> QED BY <1>5, <1>8, <1>9, <2>1, <2>2
<1>20. ASSUME NEW t, NEW j, NewAt(T, U, t, j), Tracked(U[t].parts[j])
       PROVE  \E k \in DOMAIN q : Tracked(q[k]) /\ at[k] = t /\ nth[k] = j
  <2>1. t = n /\ j \in 1..b + Len(parts) /\ j \notin 1..b
    BY <1>15, <1>20
  <2>2. PICK k : k = j - b
    OBVIOUS
  <2>3. k \in 1..Len(parts) /\ j = b + k
    BY <1>2, <1>3, <2>1, <2>2
  <2>4. k \in DOMAIN q /\ k \in DOMAIN parts /\ U[t].parts[j] = parts[k]
    BY <1>3, <1>18, <2>1, <2>3
  <2>5. Tracked(q[k])
    BY <1>17, <1>20, <2>4
  <2> QED BY <1>14, <2>1, <2>3, <2>4, <2>5
<1>21. \A s \in DOMAIN U : ~(s > n)
  BY <1>1, <1>8
<1>22. Placed(protocol, messages, l, T, U, at, nth)
  BY <1>12, <1>14, <1>19, <1>20, <1>21 DEF Placed, n, q
<1>23. Last(U) = new
  BY <1>8 DEF Last
<1> QED BY <1>1, <1>8, <1>12, <1>13, <1>22, <1>23 DEF Grows, U, new, n, old

\* Nothing is added for what the system says.
LEMMA NoneGrows ==
    ASSUME NEW protocol, NEW messages, NEW l, NEW T \in Seq(TurnSet),
           Shaped(messages[l]), messages[l].role = "system"
    PROVE  Grows(protocol, messages, l, T, T)
<1>1. \A k \in DOMAIN messages[l].parts : messages[l].parts[k].kind = "text"
  BY DEF Shaped
<1>2. Prolongs(T, T, Side(messages[l].role))
  <2>1. Len(T) <= Len(T)
    OBVIOUS
  <2> QED BY <2>1 DEF Prolongs
<1>3. Placed(protocol, messages, l, T, T, <<>>, <<>>)
  BY <1>1 DEF Placed, Tracked, NewAt
<1> QED BY <1>2, <1>3 DEF Grows

\* An item for each part.
LEMMA SideOf ==
    ASSUME NEW m \in MessageSet
    PROVE  /\ Side(m.role) \in {"user", "model", "system"}
           /\ m.role = "assistant" <=> Side(m.role) = "model"
           /\ m.role = "tool" => Side(m.role) = "user"
           /\ m.role = "user" => Side(m.role) = "user"
<1>1. m.role \in {"user", "system", "assistant", "tool"}
  BY DEF MessageSet
<1> QED BY <1>1 DEF Side

\* The items of Responses grow by one for each part.
LEMMA ItemsGrow ==
    ASSUME NEW messages, NEW l, NEW T \in Seq(TurnSet), Shaped(messages[l])
    PROVE  Grows("responses", messages, l, T, T \o Items(messages[l]))
<1> DEFINE m == messages[l]
           q == m.parts
           role == Side(m.role)
           items == Items(m)
           U == T \o items
           n == Len(T)
           at == [k \in DOMAIN q |-> n + k]
           nth == [k \in DOMAIN q |-> 1]
<1>1. /\ m \in MessageSet /\ q \in Seq(Parts) /\ DOMAIN q = 1..Len(q) /\ Len(q) \in Nat
      /\ role \in {"user", "model", "system"}
  <2>1. m \in MessageSet
    BY DEF Shaped
  <2>2. q \in Seq(Parts)
    BY <2>1 DEF MessageSet
  <2> QED BY <2>1, <2>2, SideOf
<1>2. \A k \in DOMAIN q : Message(role, <<q[k]>>) \in TurnSet
  <2> SUFFICES ASSUME NEW k \in DOMAIN q PROVE Message(role, <<q[k]>>) \in TurnSet
    OBVIOUS
  <2>1. q[k] \in TurnParts
    BY <1>1 DEF TurnParts
  <2>2. <<q[k]>> \in Seq(TurnParts)
    BY <2>1
  <2> HIDE DEF role, q
  <2> QED BY <1>1, <2>2 DEF Message, TurnSet
<1>3. Message(role, <<>>) \in TurnSet
  <2>1. <<>> \in Seq(TurnParts)
    OBVIOUS
  <2> HIDE DEF role
  <2> QED BY <1>1, <2>1 DEF Message, TurnSet
<1>4. items = IF q = <<>> THEN <<Message(role, <<>>)>> ELSE [k \in DOMAIN q |-> Message(role, <<q[k]>>)]
  BY DEF Items
<1> HIDE DEF items, q, role
<1>5. /\ items \in Seq(TurnSet) /\ Len(items) \in Nat
      /\ \A k \in 1..Len(items) : items[k].role = role
      /\ \A k \in 1..Len(items) : k \in DOMAIN q => items[k].parts = <<q[k]>>
      /\ \A k \in 1..Len(items) : k \notin DOMAIN q => items[k].parts = <<>>
      /\ \A k \in DOMAIN q : k \in 1..Len(items)
  <2>1. CASE q = <<>>
    <3> DEFINE e == Message(role, <<>>)
    <3>1. e.role = role /\ e.parts = <<>> /\ e \in TurnSet
      BY <1>3 DEF Message
    <3>2. items = <<e>>
      BY <1>4, <2>1
    <3> HIDE DEF e
    <3>3. items \in Seq(TurnSet) /\ Len(items) = 1 /\ items[1] = e /\ 1..1 = {1}
      BY <3>1, <3>2
    <3>4. DOMAIN q = {}
      BY <2>1
    <3> QED BY <3>1, <3>3, <3>4
  <2>2. CASE q # <<>>
    <3>1. items = [k \in 1..Len(q) |-> Message(role, <<q[k]>>)]
      BY <1>1, <1>4, <2>2
    <3>2. items \in [1..Len(q) -> TurnSet]
      <4> HIDE DEF TurnSet
      <4> QED BY <1>1, <1>2, <3>1
    <3>3. \A k \in 1..Len(q) : items[k] = Message(role, <<q[k]>>)
      BY <3>1
    <3>4. items \in Seq(TurnSet) /\ Len(items) = Len(q)
      <4> HIDE DEF TurnSet
      <4> QED BY <1>1, <3>2
    <3>5. ASSUME NEW k \in 1..Len(q) PROVE items[k].role = role /\ items[k].parts = <<q[k]>>
      <4>1. \A parts : Message(role, parts).role = role /\ Message(role, parts).parts = parts
        BY DEF Message
      <4>2. items[k] = Message(role, <<q[k]>>)
        BY <3>3
      <4> HIDE DEF items
      <4> QED BY <4>1, <4>2
    <3> QED BY <1>1, <3>4, <3>5
  <2> QED BY <2>1, <2>2
<1> DEFINE p == Len(items)
<1>6. /\ U \in Seq(TurnSet) /\ Len(U) = n + p /\ n \in Nat /\ DOMAIN T = 1..n /\ DOMAIN U = 1..n + p
      /\ \A t \in 1..n + p : U[t] = IF t <= n THEN T[t] ELSE items[t - n]
  <2> HIDE DEF TurnSet
  <2>1. U \in Seq(TurnSet) /\ Len(U) = n + p
        /\ \A t \in 1..n + p : U[t] = IF t <= n THEN T[t] ELSE items[t - n]
    BY <1>5, ConcatProperties
  <2> HIDE DEF U
  <2> QED BY <2>1
<1> HIDE DEF U, p
<1>7. p \in Nat
  BY <1>5 DEF p
<1> HIDE DEF n
<1>8. \A t \in 1..n : t \in 1..n + p /\ U[t] = T[t]
  BY <1>6, <1>7
<1>9. ASSUME NEW k \in 1..p PROVE n + k \in 1..n + p /\ n + k \notin 1..n /\ n + k >= n /\ U[n + k] = items[k]
  <2>1. n + k \in 1..n + p /\ ~(n + k <= n) /\ (n + k) - n = k
    BY <1>6, <1>7
  <2> QED BY <1>6, <2>1
<1>10. \A t \in 1..n + p : t \notin 1..n => t - n \in 1..p /\ t = n + (t - n)
  BY <1>6, <1>7
<1>11. Prolongs(T, U, role)
  <2>1. n <= n + p
    BY <1>6, <1>7
  <2>2. ASSUME NEW t \in DOMAIN U, t \notin DOMAIN T PROVE U[t].role = role
    <3>1. t - n \in 1..p /\ t = n + (t - n)
      BY <1>6, <1>10, <2>2
    <3>2. U[t] = items[t - n]
      BY <1>9, <3>1
    <3> QED BY <1>5, <3>1, <3>2 DEF p
  <2>3. Len(T) = n
    BY DEF n
  <2> QED BY <1>6, <1>8, <2>1, <2>2, <2>3 DEF Prolongs
<1>12. \A k \in DOMAIN q : at[k] = n + k /\ nth[k] = 1
  OBVIOUS
<1> HIDE DEF at, nth
<1>13. ASSUME NEW k \in DOMAIN q
       PROVE  /\ NewAt(T, U, n + k, 1) /\ n + k >= n /\ U[n + k].role = role
              /\ U[n + k].parts = <<q[k]>> /\ U[n + k].parts[1] = q[k]
  <2>1. k \in 1..p /\ U[n + k] = items[k] /\ n + k \in 1..n + p /\ n + k \notin 1..n /\ n + k >= n
    BY <1>5, <1>9 DEF p
  <2>2. U[n + k].role = role /\ U[n + k].parts = <<q[k]>>
    BY <1>5, <2>1 DEF p
  <2>3. <<q[k]>>[1] = q[k] /\ DOMAIN <<q[k]>> = {1}
    OBVIOUS
  <2> QED BY <1>6, <2>1, <2>2, <2>3 DEF NewAt, PartAt
<1>14. ASSUME NEW t, NEW j, NewAt(T, U, t, j)
       PROVE  t - n \in DOMAIN q /\ t = n + (t - n) /\ j = 1
  <2>1. t \in 1..n + p /\ j \in DOMAIN U[t].parts /\ t \notin 1..n
    <3>1. t \in 1..n => t \in DOMAIN T /\ U[t] = T[t]
      BY <1>6, <1>8
    <3> QED BY <1>6, <1>14, <3>1 DEF NewAt, PartAt
  <2>2. t - n \in 1..p /\ t = n + (t - n) /\ U[t] = items[t - n]
    BY <1>9, <1>10, <2>1
  <2>3. DOMAIN <<>> = {} /\ \A e : DOMAIN <<e>> = {1}
    OBVIOUS
  <2> QED BY <1>5, <2>1, <2>2, <2>3 DEF p
<1>15. ASSUME NEW k \in DOMAIN q, Tracked(q[k])
       PROVE  Copy("responses", messages, l, q[k], q[k])
  BY DEF Copy
<1>16. ASSUME NEW k \in DOMAIN q, q[k].kind = "call", NEW s \in DOMAIN U, s > n + k
       PROVE  Single(U[s])
  <2>1. k \in 1..p /\ k \in Nat /\ p = Len(items)
    BY <1>1, <1>5 DEF p
  <2> HIDE DEF p
  <2>2. s - n \in 1..p /\ s - n > k /\ s - n \in Nat /\ U[s] = items[s - n]
    <3>1. s \in 1..n + p /\ s \notin 1..n
      BY <1>6, <1>7, <1>16, <2>1
    <3>2. s - n \in 1..p /\ s = n + (s - n)
      BY <1>10, <3>1
    <3>3. U[s] = items[s - n]
      BY <1>9, <3>2
    <3>4. s - n > k
      BY <1>6, <1>16, <2>1, <3>1
    <3> QED BY <1>6, <1>7, <3>2, <3>3, <3>4
  <2>3. p = Len(q)
    <3>1. q # <<>>
      <4>1. DOMAIN <<>> = {}
        OBVIOUS
      <4> QED BY <4>1
    <3>2. items = [i \in 1..Len(q) |-> Message(role, <<q[i]>>)]
      BY <1>1, <1>4, <3>1
    <3>3. DOMAIN items = 1..Len(q)
      BY <3>2
    <3>4. DOMAIN items = 1..p
      BY <1>5, <2>1
    <3>5. Len(q) \in Nat
      BY <1>1
    <3> HIDE DEF items
    <3> QED BY <1>7, <3>3, <3>4, <3>5
  <2>4. s - n \in DOMAIN q
    BY <1>1, <2>2, <2>3
  <2>5. m.role = "assistant"
    BY <1>1, <1>16 DEF Shaped, MessageSet, q
  <2>6. q[s - n].kind = "call"
    BY <1>16, <2>2, <2>4, <2>5 DEF Shaped, q
  <2>7. U[s].parts = <<q[s - n]>>
    BY <1>5, <2>1, <2>2, <2>4
  <2>8. Len(<<q[s - n]>>) = 1 /\ <<q[s - n]>>[1] = q[s - n]
    OBVIOUS
  <2> QED BY <2>6, <2>7, <2>8 DEF Single
<1>17. Placed("responses", messages, l, T, U, at, nth)
  <2>1. \A t, j : NewAt(T, U, t, j) /\ Tracked(U[t].parts[j]) =>
            \E k \in DOMAIN q : Tracked(q[k]) /\ at[k] = t /\ nth[k] = j
    BY <1>12, <1>13, <1>14
  <2>2. \A k \in DOMAIN q : Tracked(q[k]) =>
            /\ NewAt(T, U, at[k], nth[k]) /\ at[k] >= n
            /\ U[at[k]].role = role
            /\ Copy("responses", messages, l, U[at[k]].parts[nth[k]], q[k])
    BY <1>12, <1>13, <1>15
  <2>3. \A k \in DOMAIN q : q[k].kind = "call" => \A s \in DOMAIN U : s > at[k] => Single(U[s])
    BY <1>12, <1>16
  <2> QED BY <2>1, <2>2, <2>3 DEF Placed, q, role, n
<1> QED BY <1>11, <1>17 DEF Grows, U, items, role

-----------------------------------------------------------------------------
\* Results are of the user.
ResultsByUser(T) ==
    \A t, k : PartAt(T, t, k) /\ T[t].parts[k].kind = "result" => T[t].role = "user"

\* However a message is added.
LEMMA AddGrows ==
    ASSUME NEW protocol \in Protocols, NEW messages \in Seq(MessageSet), NEW l \in DOMAIN messages,
           Shaped(messages[l]), NEW T \in Seq(TurnSet), ResultsByUser(T)
    PROVE  Grows(protocol, messages, l, T, AddMessage(protocol, T, messages, l))
<1> DEFINE m == messages[l]
           U == AddMessage(protocol, T, messages, l)
           parts == AddedParts(protocol, messages, l)
           role == Side(m.role)
           joins == \/ protocol \in {"google", "jetbrains"} /\ m.role = "tool" /\ ResultsGoOn(protocol, T)
                    \/ protocol = "anthropic" /\ T # <<>> /\ Last(T).role = role
<1>1. m \in MessageSet /\ role \in {"user", "model", "system"} /\ messages[l].parts \in Seq(Parts)
      /\ (m.role = "tool" => role = "user")
  <2>1. m \in MessageSet
    OBVIOUS
  <2> QED BY <2>1, SideOf DEF MessageSet
<1>2. Copies(protocol, messages, l, parts)
  BY AddedCopies
<1>3. /\ protocol = "responses" => U = T \o Items(m)
      /\ protocol # "responses" /\ m.role = "system" => U = T
      /\ protocol # "responses" /\ m.role # "system" =>
            U = IF joins THEN Join(T, parts) ELSE Append(T, Message(role, parts))
  BY AddCases
<1> HIDE DEF U, parts, role
<1>4. CASE protocol = "responses"
  BY <1>3, <1>4, ItemsGrow DEF U
<1>5. CASE protocol # "responses" /\ m.role = "system"
  BY <1>3, <1>5, NoneGrows DEF U
<1>6. CASE protocol # "responses" /\ m.role # "system" /\ joins
  <2>1. T # <<>> /\ Last(T).role = role
    <3>1. CASE protocol \in {"google", "jetbrains"} /\ m.role = "tool" /\ ResultsGoOn(protocol, T)
      <4>1. T # <<>> /\ role = "user"
        BY <1>1, <3>1 DEF ResultsGoOn
      <4>2. CASE protocol = "google"
        BY <3>1, <4>1, <4>2 DEF ResultsGoOn, OnlyResults
      <4>3. CASE protocol # "google"
        <5>1. HasResult(Last(T))
          BY <3>1, <4>3 DEF ResultsGoOn
        <5>2. PICK k \in DOMAIN Last(T).parts : Last(T).parts[k].kind = "result"
          BY <5>1 DEF HasResult, Range
        <5>3. Len(T) \in DOMAIN T /\ Last(T) = T[Len(T)]
          BY <4>1 DEF Last
        <5> QED BY <4>1, <5>2, <5>3 DEF ResultsByUser, PartAt
      <4> QED BY <4>2, <4>3
    <3>2. CASE protocol = "anthropic" /\ T # <<>> /\ Last(T).role = role
      BY <3>2
    <3> QED BY <1>6, <3>1, <3>2
  <2>2. U = Join(T, parts)
    BY <1>3, <1>6
  <2>3. Grows(protocol, messages, l, T, Join(T, parts))
    BY <1>1, <1>2, <2>1, JoinGrows DEF role
  <2> QED BY <2>2, <2>3 DEF U
<1>7. CASE protocol # "responses" /\ m.role # "system" /\ ~joins
  <2>1. U = Append(T, Message(role, parts))
    BY <1>3, <1>7
  <2>2. Grows(protocol, messages, l, T, Append(T, Message(role, parts)))
    BY <1>1, <1>2, AppendGrows DEF role
  <2> QED BY <2>1, <2>2 DEF U
<1> QED BY <1>4, <1>5, <1>6, <1>7

\* The results remain the user's as the turns grow.
LEMMA GrowsByUser ==
    ASSUME NEW protocol, NEW messages, NEW l, NEW T, NEW U, messages[l] \in MessageSet,
           Shaped(messages[l]), Grows(protocol, messages, l, T, U), ResultsByUser(T)
    PROVE  ResultsByUser(U) /\ U \in Seq(TurnSet)
<1>1. PICK at, nth : Placed(protocol, messages, l, T, U, at, nth)
  BY DEF Grows
<1>2. ASSUME NEW t, NEW k, PartAt(U, t, k), U[t].parts[k].kind = "result" PROVE U[t].role = "user"
  <2>1. CASE PartAt(T, t, k)
    BY <1>2, <2>1 DEF Grows, Prolongs, ResultsByUser, PartAt
  <2>2. CASE ~PartAt(T, t, k)
    <3>1. PICK j \in DOMAIN messages[l].parts : Tracked(messages[l].parts[j]) /\ at[j] = t /\ nth[j] = k
      BY <1>1, <1>2, <2>2 DEF Placed, NewAt, Tracked
    <3>2. U[t].role = Side(messages[l].role) /\ messages[l].parts[j].kind = "result"
      BY <1>1, <1>2, <3>1 DEF Placed, Copy
    <3>3. messages[l].role = "tool"
      BY <3>2 DEF Shaped, MessageSet
    <3> QED BY <3>2, <3>3, SideOf
  <2> QED BY <2>1, <2>2
<1> QED BY <1>2 DEF ResultsByUser, Grows, Prolongs

\* The turns after each message.
Turns(f, protocol, messages) ==
    /\ f[0] = <<>>
    /\ \A i \in 0..Len(messages) : f[i] \in Seq(TurnSet) /\ ResultsByUser(f[i])
    /\ \A i \in 1..Len(messages) : /\ f[i] = AddMessage(protocol, f[i - 1], messages, i)
                                   /\ Grows(protocol, messages, i, f[i - 1], f[i])

Growing(f, protocol, messages) ==
    f = [i \in 0..Len(messages) |->
            IF i = 0 THEN <<>> ELSE AddMessage(protocol, f[i - 1], messages, i)]

\* A body is the last of the turns; where there would be none, one empty turn.
LEMMA BodyIsTurns ==
    ASSUME NEW protocol \in Protocols, NEW messages \in Seq(MessageSet),
           \A i \in DOMAIN messages : Shaped(messages[i])
    PROVE  \E f : /\ Turns(f, protocol, messages)
                  /\ Body(protocol, messages) =
                        IF f[Len(messages)] = <<>> /\ protocol \in {"google", "anthropic"}
                        THEN <<Message("user", <<>>)>> ELSE f[Len(messages)]
<1> DEFINE n == Len(messages)
           D == {T \in Seq(TurnSet) : ResultsByUser(T)}
           step == [i \in 0..n |-> [T \in D |->
                      IF i = 0 THEN T ELSE AddMessage(protocol, T, messages, i)]]
<1>1. n \in Nat /\ DOMAIN messages = 1..n /\ \A i \in 1..n : messages[i] \in MessageSet
  OBVIOUS
<1> HIDE DEF n
<1>2. ASSUME NEW i \in 0..n, i # 0, NEW T \in D
      PROVE  /\ AddMessage(protocol, T, messages, i) \in D
             /\ Grows(protocol, messages, i, T, AddMessage(protocol, T, messages, i))
  <2>1. i \in DOMAIN messages
    BY <1>1, <1>2
  <2>2. Grows(protocol, messages, i, T, AddMessage(protocol, T, messages, i))
    BY <2>1, AddGrows
  <2>3. messages[i] \in MessageSet /\ Shaped(messages[i]) /\ ResultsByUser(T)
    BY <2>1
  <2> QED BY <2>2, <2>3, GrowsByUser
<1>3. <<>> \in D
  BY DEF ResultsByUser, PartAt
<1> HIDE DEF D
<1>4. step \in [0..n -> [D -> D]]
  BY <1>2
<1>5. PICK f : Recursion(f, 0, n, D, <<>>, step)
  <2>1. 0 \in Nat /\ 0 <= n
    BY <1>1
  <2> HIDE DEF step
  <2> QED BY <1>1, <1>3, <1>4, <2>1, RecursionExists
<1>6. ASSUME NEW i \in 0..n, i # 0
      PROVE  step[i][f[i - 1]] = AddMessage(protocol, f[i - 1], messages, i)
  <2>1. i - 1 \in 0..n
    BY <1>1, <1>6
  <2>2. f[i - 1] \in D
    BY <1>5, <2>1 DEF Recursion
  <2> QED BY <1>6, <2>2
<1>7. Growing(f, protocol, messages)
  <2> HIDE DEF step
  <2> QED BY <1>5, <1>6 DEF Growing, Recursion, n
<1> DEFINE g == CHOOSE g : Growing(g, protocol, messages)
<1>8. Growing(g, protocol, messages)
  BY <1>7
<1>9. Body(protocol, messages) =
         IF g[n] = <<>> /\ protocol \in {"google", "anthropic"} THEN <<Message("user", <<>>)>> ELSE g[n]
  BY DEF Body, Growing, n
<1> HIDE DEF g, step
<1>10. \A i \in 0..n : g[i] = IF i = 0 THEN <<>> ELSE AddMessage(protocol, g[i - 1], messages, i)
  BY <1>8 DEF Growing, n
<1> DEFINE Q == {i \in 0..n : g[i] \in D}
<1>11. \A i \in 0..n : i \in Q
  <2>1. 0 \in Nat /\ 0 \in Q
    BY <1>1, <1>3, <1>10
  <2>2. ASSUME NEW i \in 0..n, i \in Q, i # n PROVE i + 1 \in Q
    <3>1. PICK j : j = i + 1
      OBVIOUS
    <3>2. j \in 0..n /\ j # 0 /\ j - 1 = i
      BY <1>1, <2>2, <3>1
    <3>3. g[j] = AddMessage(protocol, g[i], messages, j)
      BY <1>10, <3>2
    <3>4. g[j] \in D
      BY <1>2, <2>2, <3>2, <3>3
    <3> QED BY <3>1, <3>2, <3>4
  <2> HIDE DEF Q
  <2> QED BY <1>1, <2>1, <2>2, UpTo
<1>12. Turns(g, protocol, messages)
  <2>1. ASSUME NEW i \in 1..n
        PROVE  /\ g[i] = AddMessage(protocol, g[i - 1], messages, i)
               /\ Grows(protocol, messages, i, g[i - 1], g[i])
    <3>1. PICK j : j = i - 1
      OBVIOUS
    <3>2. i \in 0..n /\ i # 0 /\ j \in 0..n
      BY <1>1, <3>1
    <3>3. g[i] = AddMessage(protocol, g[j], messages, i) /\ g[j] \in D
      BY <1>10, <1>11, <3>1, <3>2
    <3>4. Grows(protocol, messages, i, g[j], g[i])
      BY <1>2, <3>2, <3>3
    <3> QED BY <3>1, <3>3, <3>4
  <2>2. g[0] = <<>> /\ \A i \in 0..n : g[i] \in Seq(TurnSet) /\ ResultsByUser(g[i])
    BY <1>1, <1>10, <1>11 DEF D
  <2> QED BY <2>1, <2>2 DEF Turns, n
<1> QED BY <1>9, <1>12 DEF n

\* The calls and results in the turns are those of the messages so far, each in
\* one place.
FromMessages(T, protocol, messages, i) ==
    \A t, k : PartAt(T, t, k) /\ Tracked(T[t].parts[k]) =>
        \E l \in 1..i : \E j \in DOMAIN messages[l].parts :
            /\ Tracked(messages[l].parts[j])
            /\ Copy(protocol, messages, l, T[t].parts[k], messages[l].parts[j])
            /\ T[t].role = Side(messages[l].role)

ToTurns(T, protocol, messages, i) ==
    \A l \in 1..i : \A j \in DOMAIN messages[l].parts : Tracked(messages[l].parts[j]) =>
        \E t, k : /\ PartAt(T, t, k)
                  /\ Copy(protocol, messages, l, T[t].parts[k], messages[l].parts[j])

OnePlace(T) ==
    \A t, k, s, j :
        /\ PartAt(T, t, k) /\ PartAt(T, s, j) /\ Tracked(T[t].parts[k])
        /\ T[t].parts[k].kind = T[s].parts[j].kind /\ T[t].parts[k].n = T[s].parts[j].n
        => t = s /\ k = j

Carried(T, protocol, messages, i) ==
    FromMessages(T, protocol, messages, i) /\ ToTurns(T, protocol, messages, i) /\ OnePlace(T)

\* What holds of messages of the discipline.
LEMMA PartFacts ==
    ASSUME NEW m, NEW u, Disciplined(u, m)
    PROVE  /\ u \in Seq(MessageSet) /\ Len(u) \in Nat /\ DOMAIN u = 1..Len(u)
           /\ \A i \in 1..Len(u) : u[i] \in MessageSet /\ Shaped(u[i])
           /\ \A i \in DOMAIN u : \A j \in DOMAIN u[i].parts :
                 /\ u[i].parts[j].kind = "call" => u[i].role = "assistant" /\ CallAt(u, i, j)
                 /\ u[i].parts[j].kind = "result" => ToolAt(u, i) /\ j = 1
           /\ \A i \in DOMAIN u : ToolAt(u, i) =>
                 1 \in DOMAIN u[i].parts /\ DOMAIN u[i].parts = {1} /\ u[i].parts[1].kind = "result"
<1>1. u \in Seq(MessageSet) /\ Len(u) \in Nat /\ DOMAIN u = 1..Len(u)
      /\ \A i \in 1..Len(u) : u[i] \in MessageSet /\ Shaped(u[i])
  BY DEF Disciplined
<1>2. ASSUME NEW i \in DOMAIN u
      PROVE  /\ u[i].parts \in Seq(Parts)
             /\ \A j \in DOMAIN u[i].parts :
                   /\ u[i].parts[j].kind = "call" => u[i].role = "assistant" /\ CallAt(u, i, j)
                   /\ u[i].parts[j].kind = "result" => u[i].role = "tool"
  <2>1. u[i] \in MessageSet /\ Shaped(u[i])
    BY <1>1
  <2> QED BY <2>1 DEF Shaped, MessageSet, CallAt
<1>3. ASSUME NEW i \in DOMAIN u, u[i].role = "tool"
      PROVE  DOMAIN u[i].parts = {1} /\ u[i].parts[1].kind = "result"
  <2>1. Len(u[i].parts) = 1 /\ u[i].parts[1].kind = "result"
    BY <1>1, <1>3 DEF Shaped
  <2>2. DOMAIN u[i].parts = 1..1
    BY <1>2, <2>1
  <2> QED BY <2>1, <2>2
<1> QED BY <1>1, <1>2, <1>3 DEF ToolAt

\* A call or a result of one number is one part of one message.
LEMMA PartOnce ==
    ASSUME NEW m, NEW u, Disciplined(u, m),
           NEW i \in DOMAIN u, NEW k \in DOMAIN u[i].parts,
           NEW j \in DOMAIN u, NEW l \in DOMAIN u[j].parts,
           Tracked(u[i].parts[k]), u[i].parts[k].kind = u[j].parts[l].kind,
           u[i].parts[k].n = u[j].parts[l].n
    PROVE  i = j /\ k = l
<1>1. CASE u[i].parts[k].kind = "call"
  <2>1. CallAt(u, i, k) /\ CallAt(u, j, l)
    BY <1>1 DEF CallAt
  <2>2. CallsOnce(u)
    BY DEF Disciplined
  <2>3. i = j
    BY <2>1, <2>2 DEF CallsOnce
  <2> QED BY <2>1, <2>2, <2>3 DEF CallsOnce
<1>2. CASE u[i].parts[k].kind = "result"
  <2>1. \A a \in DOMAIN u : \A b \in DOMAIN u[a].parts :
           u[a].parts[b].kind = "result" => ToolAt(u, a) /\ b = 1
    BY PartFacts
  <2>2. ToolAt(u, i) /\ k = 1 /\ ToolAt(u, j) /\ l = 1
    BY <1>2, <2>1
  <2>3. ResultsOnce(u)
    BY DEF Disciplined
  <2>4. i = j
    BY <2>2, <2>3 DEF ResultsOnce
  <2> QED BY <2>2, <2>4
<1> QED BY <1>1, <1>2 DEF Tracked

\* A message more is carried.
LEMMA CarriedOn ==
    ASSUME NEW m, NEW protocol, NEW messages, Disciplined(messages, m),
           NEW i \in 1..Len(messages), NEW h, i = h + 1, h \in Nat, NEW T, NEW U,
           Grows(protocol, messages, i, T, U), Carried(T, protocol, messages, h)
    PROVE  Carried(U, protocol, messages, i)
<1>1. PICK at, nth : Placed(protocol, messages, i, T, U, at, nth)
  BY DEF Grows
<1>2. Len(messages) \in Nat /\ i \in DOMAIN messages /\ DOMAIN messages = 1..Len(messages)
      /\ (\A l \in 1..h : l \in 1..i /\ l # i /\ l \in DOMAIN messages)
      /\ (\A l \in 1..i : l \in 1..h \/ l = i) /\ i \in 1..i
  BY PartFacts
<1>3. ASSUME NEW t, NEW k, PartAt(T, t, k)
      PROVE  PartAt(U, t, k) /\ U[t].parts[k] = T[t].parts[k] /\ U[t].role = T[t].role
  <2>1. DOMAIN T \subseteq DOMAIN U
    BY DEF Grows, Prolongs
  <2> QED BY <1>3, <2>1 DEF Grows, Prolongs, PartAt
\* Where a place of the new turns comes from.
<1>4. ASSUME NEW t, NEW k, PartAt(U, t, k), Tracked(U[t].parts[k])
      PROVE  \/ /\ PartAt(T, t, k) /\ T[t].parts[k] = U[t].parts[k]
                /\ \E l \in 1..h : \E j \in DOMAIN messages[l].parts :
                     /\ Tracked(messages[l].parts[j])
                     /\ Copy(protocol, messages, l, U[t].parts[k], messages[l].parts[j])
                     /\ U[t].role = Side(messages[l].role)
             \/ \E j \in DOMAIN messages[i].parts :
                     /\ Tracked(messages[i].parts[j]) /\ at[j] = t /\ nth[j] = k
                     /\ Copy(protocol, messages, i, U[t].parts[k], messages[i].parts[j])
                     /\ U[t].role = Side(messages[i].role)
  <2>1. CASE PartAt(T, t, k)
    <3>1. T[t].parts[k] = U[t].parts[k] /\ T[t].role = U[t].role
      BY <1>3, <2>1
    <3>2. Tracked(T[t].parts[k])
      BY <1>4, <3>1
    <3> QED BY <2>1, <3>1, <3>2 DEF Carried, FromMessages
  <2>2. CASE ~PartAt(T, t, k)
    <3>1. NewAt(T, U, t, k)
      BY <1>4, <2>2 DEF NewAt
    <3>2. PICK j \in DOMAIN messages[i].parts : Tracked(messages[i].parts[j]) /\ at[j] = t /\ nth[j] = k
      BY <1>1, <1>4, <3>1 DEF Placed
    <3>3. /\ U[at[j]].role = Side(messages[i].role)
          /\ Copy(protocol, messages, i, U[at[j]].parts[nth[j]], messages[i].parts[j])
      BY <1>1, <3>2 DEF Placed
    <3> QED BY <3>2, <3>3
  <2> QED BY <2>1, <2>2
<1>5. FromMessages(U, protocol, messages, i)
  BY <1>2, <1>4 DEF FromMessages
<1>6. ToTurns(U, protocol, messages, i)
  <2> SUFFICES ASSUME NEW l \in 1..i, NEW j \in DOMAIN messages[l].parts, Tracked(messages[l].parts[j])
               PROVE  \E t, k : /\ PartAt(U, t, k)
                                /\ Copy(protocol, messages, l, U[t].parts[k], messages[l].parts[j])
    BY DEF ToTurns
  <2>1. CASE l \in 1..h
    <3>1. PICK t, k : PartAt(T, t, k) /\ Copy(protocol, messages, l, T[t].parts[k], messages[l].parts[j])
      BY <2>1 DEF Carried, ToTurns
    <3> QED BY <1>3, <3>1
  <2>2. CASE l = i
    BY <1>1, <2>2 DEF Placed, NewAt
  <2> QED BY <1>2, <2>1, <2>2
<1>7. OnePlace(U)
  <2> SUFFICES ASSUME NEW t, NEW k, NEW s, NEW x,
                      PartAt(U, t, k), PartAt(U, s, x), Tracked(U[t].parts[k]),
                      U[t].parts[k].kind = U[s].parts[x].kind, U[t].parts[k].n = U[s].parts[x].n
               PROVE  t = s /\ k = x
    BY DEF OnePlace
  <2>1. Tracked(U[s].parts[x])
    BY DEF Tracked
  <2> DEFINE From(l, j, a, b) == /\ Tracked(messages[l].parts[j])
                                 /\ Copy(protocol, messages, l, U[a].parts[b], messages[l].parts[j])
  <2>2. ASSUME NEW l \in DOMAIN messages, NEW j \in DOMAIN messages[l].parts, From(l, j, t, k),
               NEW y \in DOMAIN messages, NEW z \in DOMAIN messages[y].parts, From(y, z, s, x)
        PROVE  l = y /\ j = z
    <3>1. messages[l].parts[j].kind = messages[y].parts[z].kind
          /\ messages[l].parts[j].n = messages[y].parts[z].n
      BY <2>2 DEF Copy
    <3> QED BY <2>2, <3>1, PartOnce
  <2>3. \/ /\ PartAt(T, t, k) /\ T[t].parts[k] = U[t].parts[k]
           /\ \E l \in 1..h : \E j \in DOMAIN messages[l].parts : From(l, j, t, k)
        \/ \E j \in DOMAIN messages[i].parts : From(i, j, t, k) /\ at[j] = t /\ nth[j] = k
    BY <1>4
  <2>4. \/ /\ PartAt(T, s, x) /\ T[s].parts[x] = U[s].parts[x]
           /\ \E l \in 1..h : \E j \in DOMAIN messages[l].parts : From(l, j, s, x)
        \/ \E j \in DOMAIN messages[i].parts : From(i, j, s, x) /\ at[j] = s /\ nth[j] = x
    BY <1>4, <2>1
  <2> HIDE DEF From
  <2>5. CASE PartAt(T, t, k) /\ T[t].parts[k] = U[t].parts[k] /\ PartAt(T, s, x) /\ T[s].parts[x] = U[s].parts[x]
    BY <2>5 DEF Carried, OnePlace
  <2> QED BY <1>2, <2>2, <2>3, <2>4, <2>5
<1> QED BY <1>5, <1>6, <1>7 DEF Carried

\* The turns made of a conversation carry its calls and results, each once.
LEMMA TurnsCarry ==
    ASSUME NEW m, NEW protocol, NEW messages, Disciplined(messages, m),
           NEW f, Turns(f, protocol, messages)
    PROVE  \A i \in 0..Len(messages) : Carried(f[i], protocol, messages, i)
<1> DEFINE n == Len(messages)
           Q == {i \in 0..n : Carried(f[i], protocol, messages, i)}
<1>1. n \in Nat /\ 0 \in 0..n /\ 0 \in Nat
  BY PartFacts
<1>2. 0 \in Q
  <2>1. DOMAIN f[0] = {} /\ 1..0 = {}
    BY DEF Turns
  <2>2. \A t, k : ~PartAt(f[0], t, k)
    BY <2>1 DEF PartAt
  <2>3. Carried(f[0], protocol, messages, 0)
    BY <2>1, <2>2 DEF Carried, FromMessages, ToTurns, OnePlace
  <2> QED BY <1>1, <2>3
<1>3. ASSUME NEW i \in 0..n, i \in Q, i # n PROVE i + 1 \in Q
  <2>1. PICK j : j = i + 1
    OBVIOUS
  <2>2. j \in 1..n /\ j \in 0..n /\ j - 1 = i /\ i \in Nat
    BY <1>1, <1>3, <2>1
  <2>3. Grows(protocol, messages, j, f[j - 1], f[j])
    BY <2>2 DEF Turns
  <2>4. Carried(f[i], protocol, messages, i)
    BY <1>3
  <2> HIDE DEF Q
  <2>5. Carried(f[j], protocol, messages, j)
    BY <2>1, <2>2, <2>3, <2>4, CarriedOn
  <2> QED BY <2>1, <2>2, <2>5 DEF Q
<1> HIDE DEF Q, n
<1>4. \A i \in 0..n : i \in Q
  BY <1>1, <1>2, <1>3, UpTo
<1> QED BY <1>4 DEF Q, n

\* A result has the name of its call, but that Vertex takes the last call with
\* the id.
LEMMA BodyNames ==
    ASSUME NEW m, NEW u, Disciplined(u, m), NEW protocol \in {"vertex", "google"},
           NEW r \in PartsIn(Body(protocol, u)), r.kind = "result",
           NEW c \in CallsOf(u), c.n = r.n
    PROVE  \/ r.name = c.name
           \/ protocol = "vertex" /\ \E d \in CallsOf(u) : d.id = c.id /\ d.name # c.name
<1> DEFINE n == Len(u)
<1>1. /\ u \in Seq(MessageSet) /\ n \in Nat /\ DOMAIN u = 1..n /\ n \in 0..n
      /\ \A i \in 1..n : u[i] \in MessageSet /\ Shaped(u[i])
  BY PartFacts
<1>2. protocol \in Protocols
  BY DEF Protocols, Routes
<1>3. PICK f : /\ Turns(f, protocol, u)
               /\ Body(protocol, u) = IF f[n] = <<>> /\ protocol \in {"google", "anthropic"}
                                      THEN <<Message("user", <<>>)>> ELSE f[n]
  BY <1>1, <1>2, BodyIsTurns
<1>4. Carried(f[n], protocol, u, n)
  BY <1>1, <1>3, TurnsCarry
<1> HIDE DEF n
<1>5. PICK t, k : PartAt(f[n], t, k) /\ r = f[n][t].parts[k]
  <2> DEFINE B == Body(protocol, u)
  <2>1. PICK t \in DOMAIN B : r \in Range(B[t].parts)
    BY DEF PartsIn
  <2>2. PICK k \in DOMAIN B[t].parts : r = B[t].parts[k]
    BY <2>1 DEF Range
  <2>3. B # <<Message("user", <<>>)>>
    <3> DEFINE e == Message("user", <<>>)
    <3>1. e.parts = <<>>
      BY DEF Message
    <3> HIDE DEF e
    <3>2. DOMAIN <<e>> = {1} /\ <<e>>[1] = e /\ DOMAIN <<>> = {}
      OBVIOUS
    <3>3. B = <<e>> => t = 1 /\ DOMAIN B[t].parts = {}
      BY <3>1, <3>2
    <3> HIDE DEF B
    <3> QED BY <2>2, <3>3 DEF e
  <2>4. B = f[n]
    BY <1>3, <2>3
  <2> QED BY <2>2, <2>4 DEF PartAt
<1>6. PICK l \in 1..n : \E j \in DOMAIN u[l].parts : Copy(protocol, u, l, r, u[l].parts[j])
  <2>1. Tracked(r)
    BY DEF Tracked
  <2> QED BY <1>4, <1>5, <2>1 DEF Carried, FromMessages
<1>7. PICK j \in DOMAIN u[l].parts : Copy(protocol, u, l, r, u[l].parts[j])
  BY <1>6
<1> DEFINE id == u[l].parts[1].id
           known == Known(protocol, u, l)
<1>8. /\ j = 1 /\ ToolAt(u, l) /\ r.n = u[l].parts[1].n /\ r.name = CallName(known, id)
  <2>1. u[l].parts[j].kind = "result" /\ r.n = u[l].parts[j].n
        /\ r.name = CallName(known, u[l].parts[j].id)
    BY <1>7 DEF Copy
  <2> QED BY <1>1, <2>1, PartFacts
<1>9. PICK a \in DOMAIN u : \E b \in DOMAIN u[a].parts : Returns(u, l, a, b)
  BY <1>1, <1>8 DEF Disciplined, ResultsReturn
<1>10. PICK b \in DOMAIN u[a].parts : Returns(u, l, a, b)
  BY <1>9
<1>11. CallAt(u, a, b) /\ u[a].parts[b].n = r.n /\ u[a].parts[b].id = id
  BY <1>8, <1>10 DEF Returns
<1>12. c = u[a].parts[b]
  <2>1. PICK i \in DOMAIN u : c \in Range(u[i].parts)
    BY DEF CallsOf, PartsIn
  <2>2. PICK x \in DOMAIN u[i].parts : c = u[i].parts[x]
    BY <2>1 DEF Range
  <2>3. CallAt(u, i, x)
    BY <2>2 DEF CallsOf, CallAt
  <2>4. i = a
    BY <1>11, <2>2, <2>3 DEF Disciplined, CallsOnce
  <2>5. x = b
    BY <1>11, <2>2, <2>3, <2>4 DEF Disciplined, CallsOnce
  <2> QED BY <2>2, <2>4, <2>5
<1>13. known \in Seq(MessageSet)
  BY <1>1, KnownTyped
<1> HIDE DEF known, id
<1>14. \A x, y : CallAt(known, x, y) => CallAt(u, x, y) /\ known[x] = u[x]
                                        /\ (protocol = "google" => x <= l)
  <2>1. CASE protocol = "vertex"
    BY <2>1 DEF known, Known
  <2>2. CASE protocol = "google"
    <3>1. known = SubSeq(u, 1, l)
      BY <2>2 DEF known, Known
    <3>2. Len(known) = l /\ DOMAIN known = 1..l /\ \A x \in 1..l : known[x] = u[x] /\ x \in DOMAIN u /\ x <= l
      BY <1>1, <3>1
    <3> QED BY <3>2 DEF CallAt
  <2> QED BY <2>1, <2>2
<1>15. CallAt(known, a, b) /\ known[a] = u[a]
  <2>1. CASE protocol = "vertex"
    BY <1>11, <2>1 DEF known, Known
  <2>2. CASE protocol = "google"
    <3>1. known = SubSeq(u, 1, l)
      BY <2>2 DEF known, Known
    <3>2. a < l /\ a \in 1..n
      BY <1>1, <1>10 DEF Returns
    <3>3. a \in 1..l
      BY <1>1, <3>2
    <3>4. DOMAIN known = 1..l /\ \A x \in 1..l : known[x] = u[x]
      BY <1>1, <3>1
    <3> QED BY <1>11, <3>3, <3>4 DEF CallAt
  <2> QED BY <2>1, <2>2
<1>16. PICK x, y : /\ CallAt(known, x, y) /\ known[x].parts[y].id = id
                   /\ CallName(known, id) = known[x].parts[y].name
                   /\ a <= x
  <2>1. \/ /\ CallName(known, id) = id
           /\ \A i, k1 : CallAt(known, i, k1) => known[i].parts[k1].id # id
        \/ \E i, k1 : /\ CallAt(known, i, k1) /\ known[i].parts[k1].id = id
                     /\ CallName(known, id) = known[i].parts[k1].name
                     /\ \A v, w : CallAt(known, v, w) /\ known[v].parts[w].id = id => v <= i
    BY <1>13, CallNameFacts
  <2> QED BY <1>11, <1>15, <2>1
<1> DEFINE d == u[x].parts[y]
<1>17. CallAt(u, x, y) /\ d.id = id /\ r.name = d.name /\ d \in CallsOf(u)
  <2>1. CallAt(u, x, y) /\ known[x] = u[x]
    BY <1>14, <1>16
  <2>2. d \in CallsOf(u)
    BY <2>1 DEF CallAt, CallsOf, PartsIn, Range
  <2> QED BY <1>8, <1>16, <2>1, <2>2
<1>18. CASE protocol = "vertex"
  <2> HIDE DEF d
  <2> QED BY <1>11, <1>12, <1>17, <1>18
<1>19. CASE protocol = "google"
  <2>1. x \in 1..n /\ a \in 1..n /\ x <= l /\ a <= x
    BY <1>1, <1>14, <1>16, <1>17, <1>19 DEF CallAt
  <2>2. u[x].role = "assistant"
    BY <1>1, <1>17, PartFacts DEF CallAt
  <2>3. x # l
    BY <1>8, <2>2 DEF ToolAt
  <2>4. x = a
    <3>1. x \in (a + 1)..(l - 1) \/ x = a
      BY <1>1, <2>1, <2>3
    <3>2. \A v \in (a + 1)..(l - 1) : u[v].role \in {"user", "tool"}
      BY <1>10 DEF Returns
    <3> QED BY <2>2, <3>1, <3>2
  <2>5. y = b
    <3>1. CallAt(u, a, y) /\ u[a].parts[y].id = u[a].parts[b].id /\ y \in DOMAIN u[a].parts
      BY <1>11, <1>17, <2>4 DEF CallAt
    <3> QED BY <1>11, <3>1 DEF Disciplined, CallsOnce
  <2> QED BY <1>12, <1>17, <2>4, <2>5
<1> QED BY <1>18, <1>19

\* Gemini and Vertex name a result after the function that was called, and so
\* find the call of a conversation that another provider has had a part in:
\* tool_names of _google_contents_and_system, which at every result are those
\* of the calls before it, and call_id_to_name of VertexProvider, where a call
\* of the same id, made up blindly for JetBrains, can get in the way.
THEOREM ResultsAreNamed == Conversation => []ResultsNamed
<1>1. ConversationInv /\ MessagesInv => ResultsNamed
  <2> SUFFICES ASSUME MessagesInv, NEW protocol \in {"vertex", "google"},
                      NEW r \in PartsIn(Body(protocol, Messages)), r.kind = "result",
                      NEW c \in {p \in PartsIn(history) : p.kind = "call"}, c.n = r.n
               PROVE  \/ r.name = c.name
                      \/ /\ protocol = "vertex"
                         /\ \E d \in {p \in PartsIn(history) : p.kind = "call"} :
                               d.id = c.id /\ d.name # c.name
    BY DEF ResultsNamed
  <2>1. {p \in PartsIn(history) : p.kind = "call"} = CallsOf(Messages)
    BY DEF MessagesInv, Follows, CallsOf
  <2>2. c \in CallsOf(Messages)
    BY <2>1
  <2>3. Disciplined(Messages, made)
    BY DEF MessagesInv
  <2>4. \/ r.name = c.name
        \/ protocol = "vertex" /\ \E d \in CallsOf(Messages) : d.id = c.id /\ d.name # c.name
    BY <2>2, <2>3, BodyNames
  <2> QED BY <2>1, <2>4
<1> QED BY <1>1, MessagesInvariance, PTL

-----------------------------------------------------------------------------
(* Where calls and results stand in the turns.                             *)

Place(T, t, k, kind, n) == PartAt(T, t, k) /\ T[t].parts[k].kind = kind /\ T[t].parts[k].n = n

\* Part j of message l is call or result n, and goes to turns of that role.
IsPart(u, l, j, role, kind, n) ==
    /\ l \in DOMAIN u /\ role = Side(u[l].role)
    /\ j \in DOMAIN u[l].parts /\ u[l].parts[j].kind = kind /\ u[l].parts[j].n = n

\* A call or a result in the turns is that of a message, and the other way round.
LEMMA TrackedFrom ==
    ASSUME NEW m, NEW u, Disciplined(u, m), NEW protocol, NEW i \in 0..Len(u),
           NEW T, Carried(T, protocol, u, i), NEW kind \in {"call", "result"},
           NEW t, NEW k, NEW n, Place(T, t, k, kind, n)
    PROVE  \E l \in 1..i : \E j : IsPart(u, l, j, T[t].role, kind, n)
<1>1. \A l \in 1..i : l \in DOMAIN u
  <2>1. Len(u) \in Nat /\ DOMAIN u = 1..Len(u)
    BY PartFacts
  <2> QED BY <2>1
<1>2. PartAt(T, t, k) /\ Tracked(T[t].parts[k]) /\ T[t].parts[k].kind = kind /\ T[t].parts[k].n = n
  BY DEF Place, Tracked
<1> QED BY <1>1, <1>2 DEF Carried, FromMessages, Copy, IsPart

\* Every call and result is in the turns.
LEMMA TrackedTo ==
    ASSUME NEW protocol, NEW u, NEW i, NEW T, Carried(T, protocol, u, i),
           NEW l \in 1..i, NEW j \in DOMAIN u[l].parts, Tracked(u[l].parts[j])
    PROVE  \E t, k : Place(T, t, k, u[l].parts[j].kind, u[l].parts[j].n)
BY DEF Carried, ToTurns, Copy, Place

\* Calls are of the model, results of the user.
LEMMA CallFrom ==
    ASSUME NEW m, NEW u, Disciplined(u, m), NEW protocol, NEW i \in 0..Len(u),
           NEW T, Carried(T, protocol, u, i), NEW t, NEW k, NEW n, Place(T, t, k, "call", n)
    PROVE  T[t].role = "model" /\ \E a \in 1..i : \E b : CallAt(u, a, b) /\ u[a].parts[b].n = n
<1>1. PICK l \in 1..i : \E j : IsPart(u, l, j, T[t].role, "call", n)
  BY TrackedFrom
<1>2. PICK j : IsPart(u, l, j, T[t].role, "call", n)
  BY <1>1
<1>3. u[l].role = "assistant" /\ CallAt(u, l, j)
  BY <1>2, PartFacts DEF IsPart
<1> QED BY <1>2, <1>3 DEF IsPart, Side

\* A result in the turns is that of a message of a tool.
LEMMA ResultFrom ==
    ASSUME NEW m, NEW u, Disciplined(u, m), NEW protocol, NEW i \in 0..Len(u),
           NEW T, Carried(T, protocol, u, i), NEW t, NEW k, NEW n, Place(T, t, k, "result", n)
    PROVE  T[t].role = "user" /\ \E l \in 1..i : ToolAt(u, l) /\ u[l].parts[1].n = n
<1>1. PICK l \in 1..i : \E j : IsPart(u, l, j, T[t].role, "result", n)
  BY TrackedFrom
<1>2. PICK j : IsPart(u, l, j, T[t].role, "result", n)
  BY <1>1
<1>3. ToolAt(u, l) /\ j = 1
  BY <1>2, PartFacts DEF IsPart
<1> QED BY <1>2, <1>3 DEF IsPart, Side, ToolAt

\* Every call is in the turns.
LEMMA CallTo ==
    ASSUME NEW protocol, NEW u, NEW i, NEW T, Carried(T, protocol, u, i),
           NEW a \in 1..i, NEW b, CallAt(u, a, b)
    PROVE  \E t, k : Place(T, t, k, "call", u[a].parts[b].n)
<1>1. b \in DOMAIN u[a].parts /\ u[a].parts[b].kind = "call" /\ Tracked(u[a].parts[b])
  BY DEF CallAt, Tracked
<1> QED BY <1>1, TrackedTo

\* Every result is in the turns.
LEMMA ResultTo ==
    ASSUME NEW m, NEW u, Disciplined(u, m), NEW protocol, NEW i,
           NEW T, Carried(T, protocol, u, i), NEW l \in 1..i, ToolAt(u, l)
    PROVE  \E t, k : Place(T, t, k, "result", u[l].parts[1].n)
<1>1. 1 \in DOMAIN u[l].parts /\ u[l].parts[1].kind = "result"
  BY PartFacts DEF ToolAt
<1>2. Tracked(u[l].parts[1])
  BY <1>1 DEF Tracked
<1> QED BY <1>1, <1>2, TrackedTo

\* A call or a result has one place.
LEMMA OneAt ==
    ASSUME NEW protocol, NEW u, NEW i, NEW T, Carried(T, protocol, u, i),
           NEW kind \in {"call", "result"}, NEW n,
           NEW t, NEW k, Place(T, t, k, kind, n), NEW s, NEW x, Place(T, s, x, kind, n)
    PROVE  t = s /\ k = x
BY DEF Carried, OnePlace, Place, Tracked

\* Turns T, after message h, and U, after the next.
Step(m, u, protocol, h, i, T, U) ==
    /\ Disciplined(u, m) /\ h \in Nat /\ i = h + 1 /\ i \in 1..Len(u)
    /\ Grows(protocol, u, i, T, U) /\ Carried(T, protocol, u, h) /\ Carried(U, protocol, u, i)

\* The types of a step.
LEMMA StepFacts ==
    ASSUME NEW m, NEW u, NEW protocol, NEW h, NEW i, NEW T, NEW U, Step(m, u, protocol, h, i, T, U)
    PROVE  /\ Disciplined(u, m) /\ h \in Nat /\ i = h + 1 /\ Len(u) \in Nat /\ DOMAIN u = 1..Len(u)
           /\ h \in 0..Len(u) /\ i \in 0..Len(u) /\ i \in 1..i /\ i \in 1..Len(u)
           /\ (\A a \in 1..h : a \in 1..i) /\ (\A a \in 1..i : a \in 1..h \/ a = i)
           /\ T \in Seq(TurnSet) /\ U \in Seq(TurnSet) /\ DOMAIN T = 1..Len(T) /\ DOMAIN U = 1..Len(U)
           /\ Len(T) \in Nat /\ Len(U) \in Nat /\ Len(T) <= Len(U)
           /\ Prolongs(T, U, Side(u[i].role))
<1>1. Disciplined(u, m) /\ h \in Nat /\ i = h + 1 /\ i \in 1..Len(u)
  BY DEF Step
<1>2. Len(u) \in Nat /\ DOMAIN u = 1..Len(u)
  BY <1>1, PartFacts
<1>3. Prolongs(T, U, Side(u[i].role))
  BY DEF Step, Grows
<1>4. T \in Seq(TurnSet) /\ U \in Seq(TurnSet) /\ Len(T) <= Len(U)
  BY <1>3 DEF Prolongs
<1>5. DOMAIN T = 1..Len(T) /\ DOMAIN U = 1..Len(U) /\ Len(T) \in Nat /\ Len(U) \in Nat
  <2> HIDE DEF TurnSet
  <2> QED BY <1>4
<1>6. /\ h \in 0..Len(u) /\ i \in 0..Len(u) /\ i \in 1..i
      /\ (\A a \in 1..h : a \in 1..i) /\ (\A a \in 1..i : a \in 1..h \/ a = i)
  BY <1>1, <1>2
<1> QED BY <1>1, <1>2, <1>3, <1>4, <1>5, <1>6

\* A place stays, and those of the message that is added are new.
LEMMA PlaceStays ==
    ASSUME NEW m, NEW u, NEW protocol, NEW h, NEW i, NEW T, NEW U, Step(m, u, protocol, h, i, T, U)
    PROVE  /\ \A t, k, kind, n : Place(T, t, k, kind, n) => Place(U, t, k, kind, n)
           /\ \A a \in 1..h : \A b, t, k : CallAt(u, a, b) =>
                 (Place(U, t, k, "call", u[a].parts[b].n) => Place(T, t, k, "call", u[a].parts[b].n))
           /\ \A l \in 1..h : \A t, k : ToolAt(u, l) =>
                 (Place(U, t, k, "result", u[l].parts[1].n) => Place(T, t, k, "result", u[l].parts[1].n))
           /\ \A b, t, k : CallAt(u, i, b) /\ Place(U, t, k, "call", u[i].parts[b].n) =>
                 /\ NewAt(T, U, t, k) /\ t >= Len(T)
                 /\ \A s \in DOMAIN U : s > t => Single(U[s])
           /\ \A t, k : ToolAt(u, i) /\ Place(U, t, k, "result", u[i].parts[1].n) =>
                 NewAt(T, U, t, k) /\ t >= Len(T)
<1>1. /\ Disciplined(u, m) /\ h \in 0..Len(u) /\ i \in 0..Len(u) /\ i \in DOMAIN u
      /\ Carried(T, protocol, u, h) /\ Carried(U, protocol, u, i)
  BY StepFacts DEF Step
<1>2. ASSUME NEW t, NEW k, NEW kind, NEW n, Place(T, t, k, kind, n)
      PROVE  Place(U, t, k, kind, n)
  <2>1. DOMAIN T \subseteq DOMAIN U
    BY StepFacts
  <2>2. \A s \in DOMAIN T : \A x \in DOMAIN T[s].parts :
            x \in DOMAIN U[s].parts /\ U[s].parts[x] = T[s].parts[x]
    BY StepFacts DEF Prolongs
  <2> QED BY <1>2, <2>1, <2>2 DEF Place, PartAt
<1>3. ASSUME NEW t, NEW k, NEW s, NEW x, NEW kind \in {"call", "result"}, NEW n,
             Place(U, t, k, kind, n), Place(U, s, x, kind, n)
      PROVE  t = s /\ k = x
  BY <1>1, <1>3, OneAt
<1>4. ASSUME NEW a \in 1..h, NEW b, NEW t, NEW k, CallAt(u, a, b),
             Place(U, t, k, "call", u[a].parts[b].n)
      PROVE  Place(T, t, k, "call", u[a].parts[b].n)
  <2>1. PICK s, x : Place(T, s, x, "call", u[a].parts[b].n)
    BY <1>1, <1>4, CallTo
  <2>2. Place(U, s, x, "call", u[a].parts[b].n)
    BY <1>2, <2>1
  <2>3. t = s /\ k = x
    BY <1>3, <1>4, <2>2
  <2> QED BY <2>1, <2>3
<1>5. ASSUME NEW l \in 1..h, NEW t, NEW k, ToolAt(u, l), Place(U, t, k, "result", u[l].parts[1].n)
      PROVE  Place(T, t, k, "result", u[l].parts[1].n)
  <2>1. PICK s, x : Place(T, s, x, "result", u[l].parts[1].n)
    BY <1>1, <1>5, ResultTo
  <2>2. Place(U, s, x, "result", u[l].parts[1].n)
    BY <1>2, <2>1
  <2>3. t = s /\ k = x
    BY <1>3, <1>5, <2>2
  <2> QED BY <2>1, <2>3
<1>6. PICK at, nth : Placed(protocol, u, i, T, U, at, nth)
  BY DEF Step, Grows
<1>7. ASSUME NEW b \in DOMAIN u[i].parts, Tracked(u[i].parts[b]), NEW t, NEW k,
             Place(U, t, k, u[i].parts[b].kind, u[i].parts[b].n)
      PROVE  NewAt(T, U, t, k) /\ t >= Len(T) /\ t = at[b]
  <2>1. /\ NewAt(T, U, at[b], nth[b]) /\ at[b] >= Len(T)
        /\ Copy(protocol, u, i, U[at[b]].parts[nth[b]], u[i].parts[b])
    BY <1>6, <1>7 DEF Placed
  <2>2. Place(U, at[b], nth[b], u[i].parts[b].kind, u[i].parts[b].n)
    BY <2>1 DEF Place, NewAt, Copy
  <2>3. t = at[b] /\ k = nth[b]
    BY <1>3, <1>7, <2>2 DEF Tracked
  <2> QED BY <2>1, <2>3
<1>8. ASSUME NEW b, NEW t, NEW k, CallAt(u, i, b), Place(U, t, k, "call", u[i].parts[b].n)
      PROVE  /\ NewAt(T, U, t, k) /\ t >= Len(T)
             /\ \A s \in DOMAIN U : s > t => Single(U[s])
  <2>1. b \in DOMAIN u[i].parts /\ u[i].parts[b].kind = "call"
    BY <1>8 DEF CallAt
  <2>2. NewAt(T, U, t, k) /\ t >= Len(T) /\ t = at[b]
    BY <1>7, <1>8, <2>1 DEF Tracked
  <2>3. \A s \in DOMAIN U : s > at[b] => Single(U[s])
    BY <1>6, <2>1 DEF Placed
  <2> QED BY <2>2, <2>3
<1>9. ASSUME NEW t, NEW k, ToolAt(u, i), Place(U, t, k, "result", u[i].parts[1].n)
      PROVE  NewAt(T, U, t, k) /\ t >= Len(T)
  <2>1. 1 \in DOMAIN u[i].parts /\ u[i].parts[1].kind = "result"
    BY <1>1, <1>9, PartFacts
  <2> QED BY <1>7, <1>9, <2>1 DEF Tracked
<1> QED BY <1>2, <1>4, <1>5, <1>8, <1>9

\* Every result has one call, that came before.
LEMMA CallOfResult ==
    ASSUME NEW m, NEW u, Disciplined(u, m), NEW l \in DOMAIN u, ToolAt(u, l)
    PROVE  \E a, b : Returns(u, l, a, b) /\ a \in 1..l - 1 /\ CallAt(u, a, b)
                     /\ u[a].parts[b].n = u[l].parts[1].n
<1>1. PICK a \in DOMAIN u : \E b \in DOMAIN u[a].parts : Returns(u, l, a, b)
  BY DEF Disciplined, ResultsReturn
<1>2. PICK b \in DOMAIN u[a].parts : Returns(u, l, a, b)
  BY <1>1
<1>3. a < l /\ a \in Nat /\ 1 <= a /\ l \in Nat
  BY <1>2, PartFacts DEF Returns
<1>4. a \in 1..l - 1
  BY <1>3
<1> QED BY <1>2, <1>4 DEF Returns

\* A number is that of one call.
LEMMA OneCall ==
    ASSUME NEW m, NEW u, Disciplined(u, m), NEW a, NEW b, NEW c, NEW d,
           CallAt(u, a, b), CallAt(u, c, d), u[a].parts[b].n = u[c].parts[d].n
    PROVE  a = c /\ b = d
<1>1. a \in DOMAIN u /\ b \in DOMAIN u[a].parts /\ c \in DOMAIN u /\ d \in DOMAIN u[c].parts
  BY DEF CallAt
<1> QED BY <1>1 DEF Disciplined, CallsOnce

-----------------------------------------------------------------------------
(* Each call and each result is sent once.                                 *)

\* A number is in the turns just when it has a place.
LEMMA NumbersIn ==
    ASSUME NEW T, NEW kind, NEW n
    PROVE  n \in Numbers(PartsIn(T), kind) <=> \E t, k : Place(T, t, k, kind, n)
BY DEF Numbers, PartsIn, Range, Place, PartAt

\* When no call waits, all calls and all results that were ever made are in the body.
LEMMA AllOnce ==
    ASSUME ConversationInv, MessagesInv, Pending = <<>>, NEW protocol, NEW T,
           Carried(T, protocol, Messages, Len(Messages))
    PROVE  EachOnce(T, "call") /\ EachOnce(T, "result")
<1> DEFINE u == Messages
           n == Len(u)
<1>1. Disciplined(u, made) /\ n \in Nat /\ n \in 0..Len(u) /\ n \in 0..n /\ DOMAIN u = 1..n
  <2>1. Disciplined(u, made)
    BY DEF MessagesInv
  <2> HIDE DEF u
  <2>2. Len(u) \in Nat /\ DOMAIN u = 1..Len(u)
    BY <2>1, PartFacts
  <2> QED BY <2>1, <2>2
<1>2. \A k : ~CallAt(u, n, k)
  BY NoneWaiting
<1>3. Carried(T, protocol, u, n)
  OBVIOUS
<1> HIDE DEF u, n
<1>4. ASSUME NEW kind \in {"call", "result"}, NEW i \in DOMAIN T, NEW k \in DOMAIN T[i].parts,
             T[i].parts[k].kind = kind, NEW j \in DOMAIN T, NEW l \in DOMAIN T[j].parts,
             T[j].parts[l].kind = kind, T[j].parts[l].n = T[i].parts[k].n
      PROVE  i = j /\ k = l
  <2>1. Place(T, i, k, kind, T[i].parts[k].n) /\ Place(T, j, l, kind, T[i].parts[k].n)
    BY <1>4 DEF Place, PartAt
  <2> QED BY <1>3, <2>1, OneAt
<1>5. ASSUME NEW e \in 1..made
      PROVE  \E t, k : Place(T, t, k, "call", e)
  <2>1. PICK j \in DOMAIN u : \E k \in DOMAIN u[j].parts : CallAt(u, j, k) /\ u[j].parts[k].n = e
    BY <1>1 DEF Disciplined, CallsMade
  <2>2. PICK k \in DOMAIN u[j].parts : CallAt(u, j, k) /\ u[j].parts[k].n = e
    BY <2>1
  <2> QED BY <1>1, <1>3, <2>2, CallTo
<1>6. ASSUME NEW a, NEW b, CallAt(u, a, b) PROVE u[a].parts[b].n \in 1..made
  BY <1>1, <1>6 DEF Disciplined, CallsMade, CallAt
<1>7. ASSUME NEW t, NEW k, NEW e, Place(T, t, k, "call", e) PROVE e \in 1..made
  <2>1. \E a \in 1..n : \E b : CallAt(u, a, b) /\ u[a].parts[b].n = e
    BY <1>1, <1>3, <1>7, CallFrom
  <2> QED BY <1>6, <2>1
<1>8. ASSUME NEW e \in 1..made
      PROVE  \E t, k : Place(T, t, k, "result", e)
  <2>1. PICK j \in DOMAIN u : \E k \in DOMAIN u[j].parts : CallAt(u, j, k) /\ u[j].parts[k].n = e
    BY <1>1 DEF Disciplined, CallsMade
  <2>2. PICK k \in DOMAIN u[j].parts : CallAt(u, j, k) /\ u[j].parts[k].n = e
    BY <2>1
  <2>3. j # n
    BY <1>2, <2>2
  <2>4. PICK i \in DOMAIN u : ToolAt(u, i) /\ u[i].parts[1].n = e
    BY <1>1, <2>2, <2>3 DEF Disciplined, CallsAnswered, n
  <2>5. i \in 1..n
    BY <1>1, <2>4
  <2>6. \E t, x : Place(T, t, x, "result", u[i].parts[1].n)
    BY <1>1, <1>3, <2>4, <2>5, ResultTo
  <2> QED BY <2>4, <2>6
<1>9. ASSUME NEW t, NEW k, NEW e, Place(T, t, k, "result", e) PROVE e \in 1..made
  <2>1. PICK l \in 1..n : ToolAt(u, l) /\ u[l].parts[1].n = e
    BY <1>1, <1>3, <1>9, ResultFrom
  <2>2. \E a, b : CallAt(u, a, b) /\ u[a].parts[b].n = e
    BY <1>1, <2>1, CallOfResult
  <2> QED BY <1>6, <2>2
<1>10. \A kind \in {"call", "result"} : \A e : e \in Numbers(PartsIn(T), kind) <=> e \in 1..made
  BY <1>5, <1>7, <1>8, <1>9, NumbersIn
<1>11. Numbers(PartsIn(T), "call") = 1..made /\ Numbers(PartsIn(T), "result") = 1..made
  BY <1>10
<1> QED BY <1>4, <1>11 DEF EachOnce

-----------------------------------------------------------------------------
(* Where the turns of a message's parts are.                               *)

\* When the last turn goes on.
Joins(protocol, T, u, i) ==
    \/ protocol \in {"google", "jetbrains"} /\ u[i].role = "tool" /\ ResultsGoOn(protocol, T)
    \/ protocol = "anthropic" /\ T # <<>> /\ Last(T).role = Side(u[i].role)

\* Joining makes no turn.
LEMMA JoinLength ==
    ASSUME NEW T \in Seq(TurnSet), T # <<>>, NEW parts
    PROVE  /\ Len(Join(T, parts)) = Len(T)
           /\ Last(Join(T, parts)) = Message(Last(T).role, Last(T).parts \o parts)
<1> DEFINE new == Message(Last(T).role, Last(T).parts \o parts)
           F == Front(T)
           S == TurnSet \union {new}
<1>1. Len(T) \in Nat /\ Len(T) # 0 /\ Len(T) - 1 \in Nat
  <2>1. \A V : \A s \in Seq(V) : s # <<>> => Len(s) \in Nat /\ Len(s) # 0 /\ Len(s) - 1 \in Nat
    OBVIOUS
  <2> HIDE DEF TurnSet
  <2> QED BY <2>1
<1>2. F \in Seq(TurnSet) /\ Len(F) = Len(T) - 1
  <2>1. PICK k \in Nat : k = Len(T) - 1
    BY <1>1
  <2>2. 1 \in Int /\ k \in Int /\ \A t \in 1..k : T[t] \in TurnSet
    <3>1. \A t \in 1..k : t \in DOMAIN T
      <4> HIDE DEF TurnSet
      <4> QED BY <1>1, <2>1
    <3> QED BY <3>1
  <2>3. SubSeq(T, 1, k) \in Seq(TurnSet) /\ Len(SubSeq(T, 1, k)) = IF 1 <= k THEN k - 1 + 1 ELSE 0
    <3> HIDE DEF TurnSet
    <3> QED BY <2>2, SubSeqProperties
  <2>4. (IF 1 <= k THEN k - 1 + 1 ELSE 0) = k
    BY <2>1
  <2> QED BY <2>1, <2>3, <2>4 DEF Front
<1> HIDE DEF F, new
<1>3. F \in Seq(S) /\ new \in S
  <2> HIDE DEF TurnSet
  <2> QED BY <1>2
<1> HIDE DEF S
<1>4. Len(Append(F, new)) = Len(F) + 1 /\ Append(F, new)[Len(F) + 1] = new
  BY <1>3
<1>5. Len(F) + 1 = Len(T)
  BY <1>1, <1>2
<1>6. Join(T, parts) = Append(F, new)
  BY DEF Join, F, new
<1> QED BY <1>4, <1>5, <1>6 DEF Last, new

\* Where turns have blocks, all that is added is in the last turn.
InLast(protocol, T, U, u, i) ==
    /\ \/ u[i].role = "system" /\ U = T
       \/ /\ u[i].role # "system" /\ Joins(protocol, T, u, i)
          /\ T # <<>> /\ Len(U) = Len(T)
          /\ Last(U) = Message(Last(T).role, Last(T).parts \o AddedParts(protocol, u, i))
       \/ /\ u[i].role # "system" /\ ~Joins(protocol, T, u, i) /\ Len(U) = Len(T) + 1
          /\ \A t \in DOMAIN T : U[t] = T[t]
          /\ Last(U) = Message(Side(u[i].role), AddedParts(protocol, u, i))
    /\ \A t, k : NewAt(T, U, t, k) => t = Len(U)

\* How the three clients that have blocks add a message.
LEMMA HowAdded ==
    ASSUME NEW m, NEW u, NEW protocol \in Protocols, protocol # "responses",
           NEW h, NEW i, NEW T, NEW U, Step(m, u, protocol, h, i, T, U),
           U = AddMessage(protocol, T, u, i)
    PROVE  InLast(protocol, T, U, u, i)
<1> DEFINE parts == AddedParts(protocol, u, i)
           role == Side(u[i].role)
<1>1. T \in Seq(TurnSet) /\ DOMAIN T = 1..Len(T) /\ DOMAIN U = 1..Len(U) /\ Len(T) \in Nat /\ Len(U) \in Nat
  BY StepFacts
<1>2. Prolongs(T, U, role)
  BY StepFacts
<1>3. /\ u[i].role = "system" => U = T
      /\ u[i].role # "system" =>
            U = IF Joins(protocol, T, u, i) THEN Join(T, parts) ELSE Append(T, Message(role, parts))
  BY AddCases DEF Joins
<1>4. Joins(protocol, T, u, i) => T # <<>>
  BY DEF Joins, ResultsGoOn
<1>5. parts \in Seq(TurnParts) /\ role \in {"user", "model", "system"}
  <2>1. u \in Seq(MessageSet) /\ i \in DOMAIN u /\ Shaped(u[i]) /\ u[i] \in MessageSet
    <3>1. Disciplined(u, m) /\ i \in 1..Len(u) /\ DOMAIN u = 1..Len(u)
      BY StepFacts
    <3> QED BY <3>1, PartFacts
  <2>2. Copies(protocol, u, i, parts)
    BY <2>1, AddedCopies
  <2> QED BY <2>1, <2>2, SideOf DEF Copies
<1> HIDE DEF parts, role
<1>6. CASE u[i].role = "system"
  <2>1. U = T
    BY <1>3, <1>6
  <2> QED BY <1>6, <2>1 DEF NewAt, InLast
<1>7. CASE u[i].role # "system" /\ Joins(protocol, T, u, i)
  <2>1. Len(U) = Len(T) /\ Last(U) = Message(Last(T).role, Last(T).parts \o parts) /\ T # <<>>
    BY <1>1, <1>3, <1>4, <1>7, JoinLength
  <2>2. ASSUME NEW t, NEW k, NewAt(T, U, t, k) PROVE t = Len(U)
    <3>1. t \in DOMAIN T /\ U[t] # T[t]
      BY <1>1, <2>1, <2>2 DEF NewAt, PartAt
    <3> QED BY <1>2, <2>1, <3>1 DEF Prolongs
  <2> QED BY <1>7, <2>1, <2>2 DEF parts, InLast
<1>8. CASE u[i].role # "system" /\ ~Joins(protocol, T, u, i)
  <2> DEFINE new == Message(role, parts)
  <2>1. new \in TurnSet
    BY <1>5 DEF Message, TurnSet
  <2> HIDE DEF new
  <2>2. U = Append(T, new)
    BY <1>3, <1>8 DEF new
  <2>3. Len(U) = Len(T) + 1 /\ U[Len(T) + 1] = new /\ \A t \in DOMAIN T : U[t] = T[t]
    <3> HIDE DEF TurnSet
    <3> QED BY <1>1, <2>1, <2>2
  <2>4. Last(U) = new
    BY <2>3 DEF Last
  <2>5. ASSUME NEW t, NEW k, NewAt(T, U, t, k) PROVE t = Len(U)
    <3>1. t \notin DOMAIN T /\ t \in DOMAIN U
      BY <2>3, <2>5 DEF NewAt, PartAt
    <3> QED BY <1>1, <2>3, <3>1
  <2> QED BY <1>8, <2>3, <2>4, <2>5 DEF new, parts, role, InLast
<1> QED BY <1>6, <1>7, <1>8

\* What is new is in the last turn.
LEMMA NewInLast ==
    ASSUME NEW m, NEW u, NEW protocol \in Protocols, protocol # "responses",
           NEW h, NEW i, NEW T, NEW U, Step(m, u, protocol, h, i, T, U),
           U = AddMessage(protocol, T, u, i), NEW t, NEW k, NewAt(T, U, t, k)
    PROVE  t = Len(U)
<1>1. InLast(protocol, T, U, u, i)
  BY HowAdded
<1> QED BY <1>1 DEF InLast

\* A message that is joined goes to the end of the last turn, which keeps its role.
LEMMA LastGoesOn ==
    ASSUME NEW m, NEW u, NEW protocol \in Protocols, protocol # "responses",
           NEW h, NEW i, NEW T, NEW U, Step(m, u, protocol, h, i, T, U),
           U = AddMessage(protocol, T, u, i), u[i].role # "system", Joins(protocol, T, u, i)
    PROVE  /\ T # <<>> /\ Len(U) = Len(T)
           /\ Last(U) = Message(Last(T).role, Last(T).parts \o AddedParts(protocol, u, i))
<1>1. InLast(protocol, T, U, u, i)
  BY HowAdded
<1> QED BY <1>1 DEF InLast

\* A message that is not joined is a turn of its own.
LEMMA NewTurn ==
    ASSUME NEW m, NEW u, NEW protocol \in Protocols, protocol # "responses",
           NEW h, NEW i, NEW T, NEW U, Step(m, u, protocol, h, i, T, U),
           U = AddMessage(protocol, T, u, i), u[i].role # "system"
    PROVE  \/ Joins(protocol, T, u, i)
           \/ /\ Len(U) = Len(T) + 1
              /\ Last(U) = Message(Side(u[i].role), AddedParts(protocol, u, i))
<1>1. InLast(protocol, T, U, u, i)
  BY HowAdded
<1> QED BY <1>1 DEF InLast

-----------------------------------------------------------------------------
(* The order of calls and results.                                         *)

\* What of the model may stand between a call and its result: in Responses the
\* items of other calls.
Beside(protocol, turn) == protocol = "responses" /\ Single(turn)

Ordered(protocol, T) ==
    \A t, k, s, x, n : Place(T, t, k, "call", n) /\ Place(T, s, x, "result", n) =>
        t < s /\ \A g \in (t + 1)..(s - 1) : T[g].role = "model" => Beside(protocol, T[g])

\* As long as only the user and tools speak, all turns of the model after a call
\* are calls of the same message.
SinceThen(u, a, i) == \A h \in (a + 1)..i : u[h].role \in {"user", "tool"}

Open(protocol, T, u, i) ==
    \A a \in 1..i : \A b : CallAt(u, a, b) /\ SinceThen(u, a, i) =>
        \A t, k : Place(T, t, k, "call", u[a].parts[b].n) =>
            \A s \in DOMAIN T : s > t /\ T[s].role = "model" => Beside(protocol, T[s])

\* A message of the user or a tool changes no turn of the model.
LEMMA ModelTurnsStay ==
    ASSUME NEW m, NEW u, NEW protocol, NEW h, NEW i, NEW T, NEW U, Step(m, u, protocol, h, i, T, U),
           u[i].role \in {"user", "tool"}
    PROVE  \A s \in DOMAIN U : U[s].role = "model" => s \in DOMAIN T /\ U[s] = T[s]
<1>1. Prolongs(T, U, "user")
  BY StepFacts DEF Side
<1> QED BY <1>1 DEF Prolongs

\* Nobody else has spoken since then, and had not before.
LEMMA SinceLess ==
    ASSUME NEW u, NEW h \in Nat, NEW i, i = h + 1, NEW a \in 1..h, SinceThen(u, a, i)
    PROVE  SinceThen(u, a, h) /\ u[i].role \in {"user", "tool"}
<1>1. i \in (a + 1)..i /\ \A g \in (a + 1)..h : g \in (a + 1)..i
  OBVIOUS
<1> QED BY <1>1 DEF SinceThen

\* An index between two others is below the upper.
LEMMA Between ==
    ASSUME NEW t \in Nat, NEW s \in Nat, NEW n \in Nat, s <= n, NEW g \in (t + 1)..(s - 1)
    PROVE  g \in 1..n /\ g # n
OBVIOUS

\* The order is kept by a message more.
LEMMA OrderedOn ==
    ASSUME NEW m, NEW u, NEW protocol \in Protocols, NEW h, NEW i, NEW T, NEW U,
           Step(m, u, protocol, h, i, T, U), U = AddMessage(protocol, T, u, i),
           Ordered(protocol, T), Open(protocol, T, u, h)
    PROVE  Ordered(protocol, U) /\ Open(protocol, U, u, i)
<1>1. /\ Disciplined(u, m) /\ h \in Nat /\ i = h + 1 /\ Len(u) \in Nat /\ DOMAIN u = 1..Len(u)
      /\ i \in 0..Len(u) /\ i \in 1..Len(u)
      /\ (\A a \in 1..h : a \in 1..i) /\ (\A a \in 1..i : a \in 1..h \/ a = i)
      /\ DOMAIN T = 1..Len(T) /\ DOMAIN U = 1..Len(U)
      /\ Len(T) \in Nat /\ Len(U) \in Nat /\ Len(T) <= Len(U)
      /\ Carried(U, protocol, u, i)
  <2>1. Carried(U, protocol, u, i)
    BY DEF Step
  <2> QED BY <2>1, StepFacts
<1>2. \A s \in DOMAIN T : U[s] # T[s] => s = Len(T)
  BY StepFacts DEF Prolongs
<1>3. /\ \A t, k, n : Place(U, t, k, "call", n) => U[t].role = "model"
      /\ \A t, k, n : Place(U, t, k, "result", n) =>
            /\ U[t].role = "user"
            /\ \E l \in 1..i : ToolAt(u, l) /\ u[l].parts[1].n = n
  BY <1>1, CallFrom, ResultFrom
<1>4. ASSUME NEW a \in 1..i, NEW b, CallAt(u, a, b), SinceThen(u, a, i),
             NEW t, NEW k, Place(U, t, k, "call", u[a].parts[b].n),
             NEW s \in DOMAIN U, s > t, U[s].role = "model"
      PROVE  Beside(protocol, U[s])
  <2>1. CASE a = i
    <3>1. NewAt(T, U, t, k) /\ Single(U[s])
      BY <1>4, <2>1, PlaceStays
    <3>2. ASSUME protocol # "responses" PROVE FALSE
      <4>1. t = Len(U)
        BY <3>1, <3>2, NewInLast
      <4>2. s \in 1..Len(U) /\ s > Len(U) /\ Len(U) \in Nat
        BY <1>1, <1>4, <4>1
      <4> QED BY <4>2
    <3> QED BY <3>1, <3>2 DEF Beside
  <2>2. CASE a \in 1..h
    <3>1. SinceThen(u, a, h) /\ u[i].role \in {"user", "tool"}
      BY <1>1, <1>4, <2>2, SinceLess
    <3>2. Place(T, t, k, "call", u[a].parts[b].n)
      BY <1>4, <2>2, PlaceStays
    <3>3. s \in DOMAIN T /\ U[s] = T[s]
      BY <1>4, <3>1, ModelTurnsStay
    <3> QED BY <1>4, <2>2, <3>1, <3>2, <3>3 DEF Open
  <2> QED BY <1>1, <2>1, <2>2
<1>5. Open(protocol, U, u, i)
  BY <1>4 DEF Open
<1>6. ASSUME NEW t, NEW k, NEW s, NEW x, NEW n, Place(U, t, k, "call", n), Place(U, s, x, "result", n)
      PROVE  t < s /\ \A g \in (t + 1)..(s - 1) : U[g].role = "model" => Beside(protocol, U[g])
  <2>1. PICK l \in 1..i : ToolAt(u, l) /\ u[l].parts[1].n = n
    BY <1>3, <1>6
  <2>2. PICK a, b : Returns(u, l, a, b) /\ a \in 1..l - 1 /\ CallAt(u, a, b) /\ u[a].parts[b].n = n
    <3>1. l \in DOMAIN u
      BY <1>1, <2>1
    <3> QED BY <1>1, <2>1, <3>1, CallOfResult
  <2>3. a \in 1..h /\ a \in 1..i /\ a < l
    BY <1>1, <2>1, <2>2
  <2>4. Place(T, t, k, "call", n)
    BY <1>6, <2>2, <2>3, PlaceStays
  <2>5. t \in DOMAIN T /\ t \in DOMAIN U /\ s \in DOMAIN U
    BY <1>6, <2>4 DEF Place, PartAt
  <2>6. t \in Nat /\ s \in Nat /\ t <= Len(T) /\ s <= Len(U)
    BY <1>1, <2>5
  <2>7. CASE l \in 1..h
    <3>1. Place(T, s, x, "result", n)
      BY <1>6, <2>1, <2>7, PlaceStays
    <3>2. t < s /\ \A g \in (t + 1)..(s - 1) : T[g].role = "model" => Beside(protocol, T[g])
      BY <2>4, <3>1 DEF Ordered
    <3>3. s \in DOMAIN T
      BY <3>1 DEF Place, PartAt
    <3>4. ASSUME NEW g \in (t + 1)..(s - 1) PROVE U[g] = T[g]
      <4>0. s <= Len(T) /\ Len(T) \in Nat /\ DOMAIN T = 1..Len(T)
        BY <1>1, <3>3
      <4>1. t \in Nat /\ s \in Nat
        BY <2>6
      <4>2. g \in 1..Len(T) /\ g # Len(T)
        BY <4>0, <4>1, Between, Zenon
      <4>3. g \in DOMAIN T /\ g # Len(T)
        BY <4>0, <4>2
      <4> QED BY <1>2, <4>3
    <3> QED BY <3>2, <3>4
  <2>8. CASE l = i
    <3>1. s >= Len(T)
      BY <1>6, <2>1, <2>8, PlaceStays
    <3>2. t # s
      BY <1>3, <1>6
    <3>3. t < s
      BY <1>1, <2>6, <3>1, <3>2
    <3>4. SinceThen(u, a, h)
      <4>1. \A g \in (a + 1)..(i - 1) : u[g].role \in {"user", "tool"}
        BY <2>2, <2>8 DEF Returns
      <4>2. i - 1 = h
        BY <1>1
      <4> QED BY <4>1, <4>2 DEF SinceThen
    <3>5. \A g \in DOMAIN T : g > t /\ T[g].role = "model" => Beside(protocol, T[g])
      BY <2>2, <2>3, <2>4, <3>4 DEF Open
    <3>6. ASSUME NEW g \in (t + 1)..(s - 1), U[g].role = "model" PROVE Beside(protocol, U[g])
      <4>1. g \in DOMAIN U /\ g > t
        BY <1>1, <2>6
      <4>2. u[i].role \in {"user", "tool"}
        BY <2>1, <2>8 DEF ToolAt
      <4>3. g \in DOMAIN T /\ U[g] = T[g]
        BY <3>6, <4>1, <4>2, ModelTurnsStay
      <4> QED BY <3>5, <3>6, <4>1, <4>3
    <3> QED BY <3>3, <3>6
  <2> QED BY <1>1, <2>1, <2>7, <2>8
<1> QED BY <1>5, <1>6 DEF Ordered

\* The steps of the turns.
LEMMA TurnSteps ==
    ASSUME NEW m, NEW protocol, NEW u, Disciplined(u, m), NEW f, Turns(f, protocol, u),
           NEW h \in 0..Len(u), h # Len(u), NEW i, i = h + 1
    PROVE  Step(m, u, protocol, h, i, f[h], f[i]) /\ i \in 1..Len(u)
<1>1. Len(u) \in Nat
  BY PartFacts
<1>2. h \in Nat /\ i \in 1..Len(u) /\ i \in 0..Len(u) /\ i - 1 = h
  BY <1>1
<1>3. Grows(protocol, u, i, f[h], f[i])
  BY <1>2 DEF Turns
<1>4. Carried(f[h], protocol, u, h) /\ Carried(f[i], protocol, u, i)
  BY <1>2, TurnsCarry
<1> QED BY <1>2, <1>3, <1>4 DEF Step

\* In the body of any conversation results are in order.
LEMMA TurnsOrdered ==
    ASSUME NEW m, NEW protocol \in Protocols, NEW u, Disciplined(u, m), NEW f, Turns(f, protocol, u)
    PROVE  Ordered(protocol, f[Len(u)])
<1> DEFINE n == Len(u)
           Q == {i \in 0..n : Ordered(protocol, f[i]) /\ Open(protocol, f[i], u, i)}
<1>1. n \in Nat /\ 0 \in 0..n /\ 0 \in Nat /\ n \in 0..n
  BY PartFacts
<1>2. 0 \in Q
  <2>1. DOMAIN f[0] = {} /\ 1..0 = {}
    BY DEF Turns
  <2>2. Ordered(protocol, f[0]) /\ Open(protocol, f[0], u, 0)
    BY <2>1 DEF Ordered, Open, Place, PartAt
  <2> QED BY <1>1, <2>2
<1>3. ASSUME NEW h \in 0..n, h \in Q, h # n PROVE h + 1 \in Q
  <2>1. PICK i : i = h + 1
    OBVIOUS
  <2>2. h # n /\ Ordered(protocol, f[h]) /\ Open(protocol, f[h], u, h)
    BY <1>3
  <2>3. Step(m, u, protocol, h, i, f[h], f[i]) /\ i \in 1..n
    BY <2>1, <2>2, TurnSteps
  <2>4. i - 1 = h
    BY <1>1, <2>1
  <2>5. f[i] = AddMessage(protocol, f[h], u, i)
    BY <2>3, <2>4 DEF Turns
  <2>6. Ordered(protocol, f[i]) /\ Open(protocol, f[i], u, i)
    BY <2>2, <2>3, <2>5, OrderedOn
  <2>7. i \in 0..n
    BY <1>1, <2>3
  <2> QED BY <2>1, <2>6, <2>7
<1> HIDE DEF Q, n
<1>4. \A i \in 0..n : i \in Q
  BY <1>1, <1>2, <1>3, UpTo
<1> QED BY <1>1, <1>4 DEF Q, n

\* What is ordered is answered in turn.
LEMMA OrderedAnswers ==
    ASSUME NEW protocol, NEW T, Ordered(protocol, T), NEW i \in DOMAIN T
    PROVE  AnsweredInTurn(protocol, T, i)
<1> SUFFICES ASSUME NEW j \in Answers(T, i)
             PROVE  j > i /\ \A k \in (i + 1)..(j - 1) :
                       T[k].role = "model" => /\ protocol = "responses"
                                              /\ Len(T[k].parts) = 1 /\ T[k].parts[1].kind = "call"
  BY DEF AnsweredInTurn
<1>1. PICK n : n \in Numbers(Range(T[i].parts), "call") /\ n \in Numbers(Range(T[j].parts), "result")
  BY DEF Answers
<1>2. \E k : Place(T, i, k, "call", n)
  BY <1>1 DEF Numbers, Range, Place, PartAt
<1>3. \E x : Place(T, j, x, "result", n)
  BY <1>1 DEF Numbers, Range, Place, PartAt, Answers
<1>4. i < j /\ \A g \in (i + 1)..(j - 1) : T[g].role = "model" => Beside(protocol, T[g])
  BY <1>2, <1>3 DEF Ordered
<1> QED BY <1>4 DEF Beside, Single

-----------------------------------------------------------------------------
(* Google and JetBrains: the results of a turn together.                   *)

\* Message l is a result of a call of message a.
ResultOf(u, l, a) == ToolAt(u, l) /\ \E b : Returns(u, l, a, b)

\* The calls of a turn are those of one message.
OfOneMessage(T, u) ==
    \A t, k, x, a, b, c, d :
        /\ CallAt(u, a, b) /\ Place(T, t, k, "call", u[a].parts[b].n)
        /\ CallAt(u, c, d) /\ Place(T, t, x, "call", u[c].parts[d].n)
        => a = c

\* The results of the calls of a message are in one turn.
Together(T, u, i) ==
    \A a : \A l, g \in 1..i : ResultOf(u, l, a) /\ ResultOf(u, g, a) =>
        \A t, k, s, x : Place(T, t, k, "result", u[l].parts[1].n) /\ Place(T, s, x, "result", u[g].parts[1].n)
            => t = s

\* After a result the last turn has it, and goes on with the next.
GoesOn(protocol, T, u, i) ==
    ToolAt(u, i) =>
        /\ ResultsGoOn(protocol, T)
        /\ \A t, k : Place(T, t, k, "result", u[i].parts[1].n) => t = Len(T)

\* Between two results of calls of one message stand only such results.
LEMMA ResultsFollow ==
    ASSUME NEW m, NEW u, Disciplined(u, m), NEW i \in DOMAIN u, NEW a, ResultOf(u, i, a),
           NEW h \in Nat, i = h + 1, NEW l \in 1..h, ResultOf(u, l, a)
    PROVE  ResultOf(u, h, a)
<1>1. /\ Len(u) \in Nat /\ DOMAIN u = 1..Len(u) /\ h \in DOMAIN u /\ l \in DOMAIN u
      /\ \A j \in DOMAIN u : u[j] \in MessageSet /\ Shaped(u[j])
  <2>1. /\ Len(u) \in Nat /\ DOMAIN u = 1..Len(u)
        /\ \A j \in 1..Len(u) : u[j] \in MessageSet /\ Shaped(u[j])
    BY PartFacts
  <2>2. h \in 1..Len(u) /\ l \in 1..Len(u)
    BY <2>1
  <2> QED BY <2>1, <2>2
<1>2. PICK b : Returns(u, i, a, b)
  BY DEF ResultOf
<1>3. a \in DOMAIN u /\ a \in Nat /\ a < l /\ l \in Nat /\ u[l].role = "tool" /\ CallAt(u, a, b)
  <2>1. \E e : Returns(u, l, a, e)
    BY DEF ResultOf
  <2>2. a < l /\ a \in DOMAIN u /\ l \in DOMAIN u /\ u[l].role = "tool"
    BY <1>1, <1>2, <2>1 DEF Returns, ResultOf, ToolAt, CallAt
  <2> QED BY <1>1, <1>2, <2>2 DEF Returns
<1>4. h \in (a + 1)..(i - 1) /\ l \in (a + 1)..h
  BY <1>1, <1>3
<1>5. u[h].role \in {"user", "tool"} /\ (u[h].role = "user" => \A g \in (a + 1)..h : u[g].role = "user")
  BY <1>2, <1>4 DEF Returns
<1>6. ToolAt(u, h)
  BY <1>1, <1>3, <1>4, <1>5 DEF ToolAt
<1>7. PICK c, d : Returns(u, h, c, d) /\ c \in 1..h - 1 /\ CallAt(u, c, d)
  BY <1>1, <1>6, CallOfResult
<1>8. u[a].role = "assistant" /\ u[c].role = "assistant"
  <2>1. \A j, k : CallAt(u, j, k) => u[j].role = "assistant"
    BY PartFacts DEF CallAt
  <2> QED BY <1>3, <1>7, <2>1
<1>9. c \notin (a + 1)..(i - 1)
  BY <1>2, <1>8 DEF Returns
<1>10. a \notin (c + 1)..(h - 1)
  BY <1>7, <1>8 DEF Returns
<1>11. a = c
  BY <1>1, <1>3, <1>4, <1>7, <1>9, <1>10
<1> QED BY <1>6, <1>7, <1>11 DEF ResultOf

\* What a turn of results is made of.
LEMMA MoreResults ==
    ASSUME NEW turn, OnlyResults(turn), turn.parts \in Seq(TurnParts), NEW parts \in Seq(TurnParts),
           \A k \in DOMAIN parts : parts[k].kind = "result"
    PROVE  OnlyResults(Message(turn.role, turn.parts \o parts))
<1> DEFINE old == turn.parts
           all == old \o parts
<1>1. turn.role = "user" /\ old # <<>> /\ \A k \in DOMAIN old : old[k].kind = "result"
  BY DEF OnlyResults, Range
<1>2. Len(old) \in Nat /\ Len(parts) \in Nat /\ DOMAIN old = 1..Len(old) /\ DOMAIN parts = 1..Len(parts)
      /\ Len(old) # 0
  <2> HIDE DEF TurnParts, old
  <2>1. old \in Seq(TurnParts)
    BY DEF old
  <2> QED BY <1>1, <2>1
<1>3. /\ Len(all) = Len(old) + Len(parts) /\ all \in Seq(TurnParts)
      /\ \A j \in 1..Len(old) + Len(parts) :
            all[j] = IF j <= Len(old) THEN old[j] ELSE parts[j - Len(old)]
  <2> HIDE DEF TurnParts
  <2> QED BY ConcatProperties
<1> HIDE DEF all, old
<1>4. DOMAIN all = 1..Len(old) + Len(parts)
  <2> HIDE DEF TurnParts
  <2> QED BY <1>3
<1>5. ASSUME NEW j \in DOMAIN all PROVE all[j].kind = "result"
  <2>1. CASE j <= Len(old)
    <3>1. j \in DOMAIN old
      BY <1>2, <1>4, <2>1
    <3> QED BY <1>1, <1>3, <1>4, <2>1, <3>1
  <2>2. CASE ~(j <= Len(old))
    <3>1. j - Len(old) \in DOMAIN parts
      BY <1>2, <1>4, <2>2
    <3> QED BY <1>3, <1>4, <2>2, <3>1
  <2> QED BY <2>1, <2>2
<1>6. all # <<>>
  <2>1. Len(all) # 0 /\ Len(<<>>) = 0
    BY <1>2, <1>3
  <2> QED BY <2>1
<1>7. Message(turn.role, all).role = turn.role /\ Message(turn.role, all).parts = all
  BY DEF Message
<1>8. \A p \in Range(all) : p.kind = "result"
  BY <1>5 DEF Range
<1>9. OnlyResults(Message(turn.role, all))
  BY <1>1, <1>6, <1>7, <1>8 DEF OnlyResults
<1> QED BY <1>9 DEF all, old

\* A turn of one result has only results.
LEMMA OnlyTheseResults ==
    ASSUME NEW parts \in Seq(TurnParts), Len(parts) = 1,
           \A k \in DOMAIN parts : parts[k].kind = "result"
    PROVE  OnlyResults(Message("user", parts))
<1>1. Message("user", parts).role = "user" /\ Message("user", parts).parts = parts
  BY DEF Message
<1>2. parts # <<>>
  <2>1. Len(parts) = 1 /\ Len(<<>>) = 0
    OBVIOUS
  <2>2. Len(parts) # Len(<<>>)
    BY <2>1
  <2> QED BY <2>2, Zenon
<1>3. \A p \in Range(parts) : p.kind = "result"
  BY DEF Range
<1> QED BY <1>1, <1>2, <1>3 DEF OnlyResults

\* A call that is in the turns is one of the messages so far.
LEMMA CallSoFar ==
    ASSUME NEW m, NEW u, NEW protocol, NEW h, NEW i, NEW T, NEW U, Step(m, u, protocol, h, i, T, U),
           NEW a, NEW b, CallAt(u, a, b), NEW t, NEW k, Place(U, t, k, "call", u[a].parts[b].n)
    PROVE  a \in 1..i
<1>1. Disciplined(u, m) /\ i \in 0..Len(u) /\ Carried(U, protocol, u, i)
  BY StepFacts DEF Step
<1>2. PICK c \in 1..i : \E d : CallAt(u, c, d) /\ u[c].parts[d].n = u[a].parts[b].n
  BY <1>1, CallFrom
<1>3. PICK d : CallAt(u, c, d) /\ u[c].parts[d].n = u[a].parts[b].n
  BY <1>2
<1>4. c = a
  BY <1>1, <1>3, OneCall
<1> QED BY <1>4

\* The calls of a turn remain those of one message.
LEMMA OneMessageOn ==
    ASSUME NEW m, NEW u, NEW protocol \in {"google", "jetbrains"},
           NEW h, NEW i, NEW T, NEW U, Step(m, u, protocol, h, i, T, U),
           U = AddMessage(protocol, T, u, i), OfOneMessage(T, u)
    PROVE  OfOneMessage(U, u)
<1>1. protocol \in Protocols /\ protocol # "responses" /\ protocol # "anthropic"
  BY DEF Protocols, Routes
<1>2. /\ Len(T) \in Nat /\ DOMAIN T = 1..Len(T) /\ Disciplined(u, m)
      /\ \A a \in 1..i : a \in 1..h \/ a = i
  BY StepFacts
\* The turn of a call that is added is new.
<1>3. ASSUME NEW b, CallAt(u, i, b), NEW t, NEW k, Place(U, t, k, "call", u[i].parts[b].n)
      PROVE  t \notin DOMAIN T
  <2>1. u[i].role = "assistant"
    BY <1>2, <1>3, PartFacts DEF CallAt
  <2>2. ~Joins(protocol, T, u, i)
    BY <1>1, <2>1 DEF Joins
  <2>3. Len(U) = Len(T) + 1
    <3>1. protocol \in Protocols /\ protocol # "responses" /\ u[i].role # "system"
      BY <1>1, <2>1
    <3> QED BY <2>2, <3>1, NewTurn
  <2>4. NewAt(T, U, t, k)
    BY <1>3, PlaceStays
  <2>5. t = Len(U)
    BY <1>1, <2>4, NewInLast
  <2> QED BY <1>2, <2>3, <2>5
<1>4. ASSUME NEW a, NEW b, CallAt(u, a, b), NEW t, NEW k, Place(U, t, k, "call", u[a].parts[b].n)
      PROVE  \/ a \in 1..h /\ Place(T, t, k, "call", u[a].parts[b].n) /\ t \in DOMAIN T
             \/ a = i /\ t \notin DOMAIN T
  <2>1. a \in 1..i
    BY <1>4, CallSoFar
  <2>2. CASE a \in 1..h
    <3>1. Place(T, t, k, "call", u[a].parts[b].n)
      BY <1>4, <2>2, PlaceStays
    <3> QED BY <2>2, <3>1 DEF Place, PartAt
  <2>3. CASE a = i
    BY <1>3, <1>4, <2>3
  <2> QED BY <1>2, <2>1, <2>2, <2>3
<1> SUFFICES \A t, k, x, a, b, c, d :
                /\ CallAt(u, a, b) /\ Place(U, t, k, "call", u[a].parts[b].n)
                /\ CallAt(u, c, d) /\ Place(U, t, x, "call", u[c].parts[d].n)
                => a = c
  BY DEF OfOneMessage
<1> TAKE t, k, x, a, b, c, d
<1> HAVE /\ CallAt(u, a, b) /\ Place(U, t, k, "call", u[a].parts[b].n)
         /\ CallAt(u, c, d) /\ Place(U, t, x, "call", u[c].parts[d].n)
<1>5. \/ Place(T, t, k, "call", u[a].parts[b].n) /\ t \in DOMAIN T
      \/ a = i /\ t \notin DOMAIN T
  BY <1>4
<1>6. \/ Place(T, t, x, "call", u[c].parts[d].n) /\ t \in DOMAIN T
      \/ c = i /\ t \notin DOMAIN T
  BY <1>4
<1> QED BY <1>5, <1>6 DEF OfOneMessage

\* The results of one message's calls remain together.
LEMMA TogetherOn ==
    ASSUME NEW m, NEW u, NEW protocol \in {"google", "jetbrains"},
           NEW h, NEW i, NEW T, NEW U, Step(m, u, protocol, h, i, T, U),
           U = AddMessage(protocol, T, u, i), Together(T, u, h), GoesOn(protocol, T, u, h)
    PROVE  Together(U, u, i) /\ GoesOn(protocol, U, u, i)
<1>1. protocol \in Protocols /\ protocol # "responses" /\ protocol # "anthropic"
  BY DEF Protocols, Routes
<1>2. /\ Len(T) \in Nat /\ DOMAIN T = 1..Len(T) /\ DOMAIN U = 1..Len(U) /\ Len(U) \in Nat
      /\ Disciplined(u, m) /\ h \in Nat /\ i = h + 1
      /\ i \in DOMAIN u /\ T \in Seq(TurnSet) /\ U \in Seq(TurnSet)
      /\ \A a \in 1..i : a \in 1..h \/ a = i
  BY StepFacts
<1>3. ASSUME ToolAt(u, i), NEW t, NEW k, Place(U, t, k, "result", u[i].parts[1].n)
      PROVE  t = Len(U)
  <2>1. NewAt(T, U, t, k)
    BY <1>3, PlaceStays
  <2> QED BY <1>1, <2>1, NewInLast
<1>4. ASSUME NEW l \in 1..h, ToolAt(u, l), NEW t, NEW k, Place(U, t, k, "result", u[l].parts[1].n)
      PROVE  Place(T, t, k, "result", u[l].parts[1].n)
  BY <1>4, PlaceStays
\* A result of a call that has another result already goes with it.
<1>5. ASSUME NEW a, ResultOf(u, i, a), NEW l \in 1..h, ResultOf(u, l, a),
             NEW t, NEW k, Place(U, t, k, "result", u[l].parts[1].n)
      PROVE  t = Len(U)
  <2>1. ResultOf(u, h, a)
    BY <1>2, <1>5, ResultsFollow
  <2>2. ToolAt(u, h) /\ h \in 1..h /\ ToolAt(u, l)
    BY <1>2, <1>5, <2>1 DEF ResultOf
  <2>3. PICK s, x : Place(T, s, x, "result", u[h].parts[1].n)
    <3>1. Disciplined(u, m) /\ h \in 0..Len(u) /\ Carried(T, protocol, u, h)
      BY StepFacts DEF Step
    <3> QED BY <2>2, <3>1, ResultTo
  <2>4. Place(T, t, k, "result", u[l].parts[1].n)
    BY <1>4, <1>5, <2>2
  <2>5. t = s
    BY <1>5, <2>1, <2>2, <2>3, <2>4 DEF Together
  <2>6. s = Len(T) /\ ResultsGoOn(protocol, T)
    BY <2>2, <2>3 DEF GoesOn
  <2>7. Joins(protocol, T, u, i) /\ u[i].role # "system"
    BY <1>1, <1>5, <2>6 DEF Joins, ResultOf, ToolAt
  <2>8. Len(U) = Len(T)
    BY <1>1, <2>7, LastGoesOn
  <2> QED BY <2>5, <2>6, <2>8
<1>6. Together(U, u, i)
  <2> SUFFICES ASSUME NEW a, NEW l \in 1..i, NEW g \in 1..i, ResultOf(u, l, a), ResultOf(u, g, a),
                      NEW t, NEW k, NEW s, NEW x,
                      Place(U, t, k, "result", u[l].parts[1].n), Place(U, s, x, "result", u[g].parts[1].n)
               PROVE  t = s
    BY DEF Together
  <2>1. ToolAt(u, l) /\ ToolAt(u, g)
    BY DEF ResultOf
  <2>2. CASE l \in 1..h /\ g \in 1..h
    <3>1. Place(T, t, k, "result", u[l].parts[1].n) /\ Place(T, s, x, "result", u[g].parts[1].n)
      BY <1>4, <2>1, <2>2
    <3> QED BY <2>2, <3>1 DEF Together
  <2>3. CASE l = i \/ g = i
    <3>1. t = Len(U)
      BY <1>2, <1>3, <1>5, <2>1, <2>3
    <3>2. s = Len(U)
      BY <1>2, <1>3, <1>5, <2>1, <2>3
    <3> QED BY <3>1, <3>2
  <2> QED BY <1>2, <2>2, <2>3
<1>7. ASSUME ToolAt(u, i) PROVE ResultsGoOn(protocol, U)
  <2>1. u[i].role = "tool" /\ Side(u[i].role) = "user"
    BY <1>7 DEF ToolAt, Side
  <2>2. PICK t, k : Place(U, t, k, "result", u[i].parts[1].n)
    <3>1. Disciplined(u, m) /\ i \in 0..Len(u) /\ Carried(U, protocol, u, i) /\ i \in 1..i
      BY StepFacts DEF Step
    <3> QED BY <1>7, <3>1, ResultTo
  <2>3. t = Len(U) /\ Len(U) \in DOMAIN U
    BY <1>3, <1>7, <2>2 DEF Place, PartAt
  <2>4. U # <<>>
    <3>1. DOMAIN <<>> = {}
      OBVIOUS
    <3> QED BY <2>3, <3>1
  <2>5. HasResult(Last(U))
    BY <2>2, <2>3 DEF HasResult, Last, Range, Place, PartAt
  <2>6. ASSUME protocol = "google" PROVE OnlyResults(Last(U))
    <3> DEFINE parts == AddedParts(protocol, u, i)
    <3>1. /\ parts \in Seq(TurnParts) /\ Len(parts) = 1
          /\ \A j \in DOMAIN parts : parts[j].kind = "result"
      <4>1. u \in Seq(MessageSet) /\ Shaped(u[i]) /\ Len(u[i].parts) = 1
        <5>1. u \in Seq(MessageSet) /\ Shaped(u[i])
          BY <1>2, PartFacts
        <5> QED BY <2>1, <5>1 DEF Shaped
      <4>2. Copies(protocol, u, i, parts)
        BY <1>2, <4>1, AddedCopies
      <4> QED BY <2>1, <4>1, <4>2 DEF Copies
    <3>2. \/ /\ Joins(protocol, T, u, i) /\ T # <<>>
             /\ Last(U) = Message(Last(T).role, Last(T).parts \o parts)
          \/ Last(U) = Message("user", parts)
      <4>1. protocol \in Protocols /\ protocol # "responses" /\ u[i].role # "system"
        BY <1>1, <2>1
      <4>2. CASE Joins(protocol, T, u, i)
        BY <4>1, <4>2, LastGoesOn
      <4>3. CASE ~Joins(protocol, T, u, i)
        <5>1. Last(U) = Message(Side(u[i].role), AddedParts(protocol, u, i))
          BY <4>1, <4>3, NewTurn
        <5> QED BY <2>1, <5>1 DEF parts
      <4> QED BY <4>2, <4>3
    <3> HIDE DEF parts
    <3>3. CASE /\ Joins(protocol, T, u, i) /\ T # <<>>
               /\ Last(U) = Message(Last(T).role, Last(T).parts \o parts)
      <4>1. OnlyResults(Last(T))
        BY <2>6, <3>3 DEF Joins, ResultsGoOn
      <4>2. Last(T) \in TurnSet
        <5> HIDE DEF TurnSet
        <5> QED BY <1>2, <3>3 DEF Last
      <4>3. Last(T).parts \in Seq(TurnParts)
        BY <4>2 DEF TurnSet
      <4> QED BY <3>1, <3>3, <4>1, <4>3, MoreResults
    <3>4. CASE Last(U) = Message("user", parts)
      BY <3>1, <3>4, OnlyTheseResults
    <3> QED BY <3>2, <3>3, <3>4
  <2> QED BY <2>4, <2>5, <2>6 DEF ResultsGoOn
<1>8. GoesOn(protocol, U, u, i)
  BY <1>3, <1>7 DEF GoesOn
<1> QED BY <1>6, <1>8

\* In the bodies of Google and JetBrains the results of a message's calls are in one turn.
LEMMA ResultsTogether ==
    ASSUME NEW m, NEW protocol \in {"google", "jetbrains"}, NEW u, Disciplined(u, m),
           NEW f, Turns(f, protocol, u)
    PROVE  OfOneMessage(f[Len(u)], u) /\ Together(f[Len(u)], u, Len(u))
<1> DEFINE n == Len(u)
           Good(i) == OfOneMessage(f[i], u) /\ Together(f[i], u, i) /\ GoesOn(protocol, f[i], u, i)
           Q == {i \in 0..n : Good(i)}
<1>1. n \in Nat /\ 0 \in 0..n /\ 0 \in Nat /\ n \in 0..n /\ DOMAIN u = 1..n
  BY PartFacts
<1>2. 0 \in Q
  <2>1. DOMAIN f[0] = {} /\ 1..0 = {} /\ ~(0 \in 1..n)
    BY DEF Turns
  <2>2. Good(0)
    BY <1>1, <2>1 DEF OfOneMessage, Together, GoesOn, ToolAt, Place, PartAt
  <2> QED BY <1>1, <2>2
<1>3. ASSUME NEW h \in 0..n, h \in Q, h # n PROVE h + 1 \in Q
  <2>1. PICK i : i = h + 1
    OBVIOUS
  <2>2. Step(m, u, protocol, h, i, f[h], f[i]) /\ i \in 1..n /\ f[i] = AddMessage(protocol, f[h], u, i)
    <3>1. Step(m, u, protocol, h, i, f[h], f[i]) /\ i \in 1..n
      BY <1>3, <2>1, TurnSteps
    <3>2. i - 1 = h
      BY <1>1, <2>1
    <3> QED BY <3>1, <3>2 DEF Turns
  <2>3. OfOneMessage(f[h], u) /\ Together(f[h], u, h) /\ GoesOn(protocol, f[h], u, h)
    BY <1>3
  <2>4. OfOneMessage(f[i], u)
    BY <2>2, <2>3, OneMessageOn
  <2>5. Together(f[i], u, i) /\ GoesOn(protocol, f[i], u, i)
    BY <2>2, <2>3, TogetherOn
  <2>6. i \in 0..n
    BY <1>1, <2>2
  <2> QED BY <2>1, <2>4, <2>5, <2>6
<1> HIDE DEF n
<1>4. \A i \in 0..n : i \in Q
  <2> HIDE DEF Q
  <2> QED BY <1>1, <1>2, <1>3, UpTo
<1> QED BY <1>1, <1>4 DEF n

\* What it is for a turn to answer another.
LEMMA AnswerPlaces ==
    ASSUME NEW T, NEW i \in DOMAIN T, NEW j \in Answers(T, i)
    PROVE  j \in DOMAIN T /\ \E e, k, x : Place(T, i, k, "call", e) /\ Place(T, j, x, "result", e)
<1>1. PICK e : e \in Numbers(Range(T[i].parts), "call") /\ e \in Numbers(Range(T[j].parts), "result")
  BY DEF Answers
<1>2. \E k : Place(T, i, k, "call", e)
  BY <1>1 DEF Numbers, Range, Place, PartAt
<1>3. j \in DOMAIN T /\ \E x : Place(T, j, x, "result", e)
  BY <1>1 DEF Numbers, Range, Place, PartAt, Answers
<1> QED BY <1>2, <1>3

\* A turn with calls is answered.
LEMMA AnswersThere ==
    ASSUME NEW T, EachOnce(T, "call"), EachOnce(T, "result"), NEW i \in DOMAIN T,
           \E p \in Range(T[i].parts) : p.kind = "call"
    PROVE  \E j : j \in Answers(T, i)
<1>1. PICK k : k \in DOMAIN T[i].parts /\ T[i].parts[k].kind = "call"
  BY DEF Range
<1>2. PICK e : e = T[i].parts[k].n
  OBVIOUS
<1>3. Place(T, i, k, "call", e)
  BY <1>1, <1>2 DEF Place, PartAt
<1>4. e \in Numbers(PartsIn(T), "call")
  BY <1>3, NumbersIn
<1>5. Numbers(PartsIn(T), "call") = Numbers(PartsIn(T), "result")
  BY DEF EachOnce
<1>6. PICK j, x : Place(T, j, x, "result", e)
  BY <1>4, <1>5, NumbersIn
<1>7. e \in Numbers(Range(T[i].parts), "call")
  BY <1>3 DEF Numbers, Range, Place, PartAt
<1>8. j \in DOMAIN T /\ e \in Numbers(Range(T[j].parts), "result")
  BY <1>6 DEF Numbers, Range, Place, PartAt
<1> QED BY <1>7, <1>8 DEF Answers

\* There the calls of a turn have their answers in one turn.
LEMMA OneAnswer ==
    ASSUME NEW m, NEW u, Disciplined(u, m), NEW protocol, NEW T, Carried(T, protocol, u, Len(u)),
           OfOneMessage(T, u), Together(T, u, Len(u)),
           NEW i \in DOMAIN T, NEW j \in Answers(T, i), NEW g \in Answers(T, i)
    PROVE  j = g
<1> DEFINE n == Len(u)
<1>1. n \in Nat /\ n \in 0..Len(u) /\ DOMAIN u = 1..n
  BY PartFacts
\* The results of either turn are of calls of one message.
<1>2. ASSUME NEW s \in Answers(T, i)
      PROVE  \E a, b, k : /\ CallAt(u, a, b) /\ Place(T, i, k, "call", u[a].parts[b].n)
                          /\ \E l \in 1..n : \E x : /\ ResultOf(u, l, a)
                                                    /\ Place(T, s, x, "result", u[l].parts[1].n)
  <2>1. PICK e, k, x : Place(T, i, k, "call", e) /\ Place(T, s, x, "result", e)
    BY <1>2, AnswerPlaces
  <2>2. PICK l \in 1..n : ToolAt(u, l) /\ u[l].parts[1].n = e
    BY <1>1, <2>1, ResultFrom
  <2>3. PICK a, b : Returns(u, l, a, b) /\ CallAt(u, a, b) /\ u[a].parts[b].n = u[l].parts[1].n
    BY <1>1, <2>2, CallOfResult
  <2> QED BY <2>1, <2>2, <2>3 DEF ResultOf
<1> HIDE DEF n
<1>3. PICK a, b, k : /\ CallAt(u, a, b) /\ Place(T, i, k, "call", u[a].parts[b].n)
                     /\ \E l \in 1..n : \E x : /\ ResultOf(u, l, a)
                                               /\ Place(T, j, x, "result", u[l].parts[1].n)
  BY <1>2
<1>4. PICK c, d, y : /\ CallAt(u, c, d) /\ Place(T, i, y, "call", u[c].parts[d].n)
                     /\ \E l \in 1..n : \E x : /\ ResultOf(u, l, c)
                                               /\ Place(T, g, x, "result", u[l].parts[1].n)
  BY <1>2
<1>5. a = c
  BY <1>3, <1>4 DEF OfOneMessage
<1> QED BY <1>3, <1>4, <1>5 DEF Together, n

-----------------------------------------------------------------------------
(* Anthropic: the roles alternate, the results are in the next turn.       *)

Alternates(T) ==
    /\ \A t \in DOMAIN T : T[t].role \in {"user", "model"}
    /\ Alternating(T)

\* As long as only the user and tools speak, a call is in the last turn or in
\* the one before.
Recent(T, u, i) ==
    \A a \in 1..i : \A b : CallAt(u, a, b) /\ SinceThen(u, a, i) =>
        \A t, k : Place(T, t, k, "call", u[a].parts[b].n) => t = Len(T) \/ t + 1 = Len(T)

NextTurn(T) ==
    \A t, k, s, x, e : Place(T, t, k, "call", e) /\ Place(T, s, x, "result", e) => s = t + 1

\* Roles alternate after a message more, which joins a turn of its role.
LEMMA AlternatesOn ==
    ASSUME NEW m, NEW u, NEW h, NEW i, NEW T, NEW U, Step(m, u, "anthropic", h, i, T, U),
           U = AddMessage("anthropic", T, u, i), Alternates(T)
    PROVE  Alternates(U)
<1>1. "anthropic" \in Protocols /\ "anthropic" # "responses"
  BY DEF Protocols, Routes
<1>2. /\ Len(T) \in Nat /\ DOMAIN T = 1..Len(T) /\ DOMAIN U = 1..Len(U) /\ Len(U) \in Nat
      /\ Disciplined(u, m) /\ i \in 1..Len(u) /\ T \in Seq(TurnSet)
      /\ Prolongs(T, U, Side(u[i].role))
  BY StepFacts
<1>3. u[i].role # "system" => Side(u[i].role) \in {"user", "model"}
  <2>1. u[i] \in MessageSet
    BY <1>2, PartFacts
  <2>2. u[i].role \in {"user", "system", "assistant", "tool"}
    BY <2>1 DEF MessageSet
  <2> QED BY <2>2 DEF Side
<1>4. \A t \in DOMAIN T : t \in DOMAIN U /\ U[t].role = T[t].role
  BY <1>2 DEF Prolongs
<1>5. CASE u[i].role = "system"
  <2>1. U = T
    <3>1. InLast("anthropic", T, U, u, i)
      BY <1>1, HowAdded
    <3> QED BY <1>5, <3>1 DEF InLast
  <2> QED BY <2>1
<1>6. CASE u[i].role # "system" /\ Joins("anthropic", T, u, i)
  <2>1. Len(U) = Len(T)
    BY <1>1, <1>6, LastGoesOn
  <2>2. DOMAIN U = DOMAIN T
    BY <1>2, <2>1
  <2>3. \A t \in DOMAIN U : U[t].role = T[t].role
    BY <1>4, <2>2
  <2>4. ASSUME NEW t \in 1..(Len(U) - 1) PROVE U[t].role # U[t + 1].role
    <3>1. t \in 1..(Len(T) - 1) /\ t \in DOMAIN U /\ t + 1 \in DOMAIN U
      BY <1>2, <2>1
    <3> QED BY <2>3, <3>1 DEF Alternates, Alternating
  <2>5. \A t \in DOMAIN U : U[t].role \in {"user", "model"}
    BY <2>2, <2>3 DEF Alternates
  <2> QED BY <2>4, <2>5 DEF Alternates, Alternating
<1>7. CASE u[i].role # "system" /\ ~Joins("anthropic", T, u, i)
  <2>1. Len(U) = Len(T) + 1
    BY <1>1, <1>7, NewTurn
  <2>2. Len(U) \notin DOMAIN T /\ Len(U) \in DOMAIN U
    BY <1>2, <2>1
  <2>3. U[Len(U)].role = Side(u[i].role)
    BY <1>2, <2>2 DEF Prolongs
  <2>4. T # <<>> => T[Len(T)].role # Side(u[i].role)
    BY <1>7 DEF Joins, Last
  <2>5. ASSUME NEW t \in 1..(Len(U) - 1) PROVE U[t].role # U[t + 1].role
    <3>1. t \in DOMAIN T /\ t \in Nat /\ t >= 1 /\ t <= Len(T)
      BY <1>2, <2>1
    <3>2. CASE t = Len(T)
      <4>1. T # <<>>
        <5>1. DOMAIN <<>> = {}
          OBVIOUS
        <5> QED BY <3>1, <5>1
      <4>2. t + 1 = Len(U)
        BY <2>1, <3>2
      <4> QED BY <1>4, <2>3, <2>4, <3>1, <3>2, <4>1, <4>2
    <3>3. CASE t # Len(T)
      <4>1. t \in 1..(Len(T) - 1) /\ t + 1 \in DOMAIN T
        BY <1>2, <3>1, <3>3
      <4>2. T[t].role # T[t + 1].role
        BY <4>1 DEF Alternates, Alternating
      <4> QED BY <1>4, <3>1, <4>1, <4>2
    <3> QED BY <3>2, <3>3
  <2>6. ASSUME NEW t \in DOMAIN U PROVE U[t].role \in {"user", "model"}
    <3>1. t \in DOMAIN T \/ t = Len(U)
      BY <1>2, <2>1
    <3> QED BY <1>3, <1>4, <1>7, <2>3, <3>1 DEF Alternates
  <2> QED BY <2>5, <2>6 DEF Alternates, Alternating
<1> QED BY <1>5, <1>6, <1>7

\* Results remain in the very next turn after their calls.
LEMMA NextTurnOn ==
    ASSUME NEW m, NEW u, NEW h, NEW i, NEW T, NEW U, Step(m, u, "anthropic", h, i, T, U),
           U = AddMessage("anthropic", T, u, i), Alternates(T), Recent(T, u, h), NextTurn(T)
    PROVE  Recent(U, u, i) /\ NextTurn(U)
<1>1. "anthropic" \in Protocols /\ "anthropic" # "responses"
  BY DEF Protocols, Routes
<1>2. /\ Len(T) \in Nat /\ DOMAIN T = 1..Len(T) /\ DOMAIN U = 1..Len(U) /\ Len(U) \in Nat
      /\ Disciplined(u, m) /\ i \in 1..Len(u) /\ i \in 0..Len(u) /\ h \in 0..Len(u)
      /\ DOMAIN u = 1..Len(u) /\ Len(u) \in Nat /\ h \in Nat /\ i = h + 1
      /\ (\A a \in 1..h : a \in 1..i) /\ (\A a \in 1..i : a \in 1..h \/ a = i)
  BY StepFacts
<1>3. Carried(T, "anthropic", u, h) /\ Carried(U, "anthropic", u, i)
  BY DEF Step
\* What the user and the tools say goes to the turn after the model's last.
<1>4. ASSUME NEW a \in 1..h, NEW b, CallAt(u, a, b), SinceThen(u, a, h), u[i].role \in {"user", "tool"},
             NEW t, NEW k, Place(T, t, k, "call", u[a].parts[b].n)
      PROVE  t + 1 = Len(U)
  <2>1. t = Len(T) \/ t + 1 = Len(T)
    BY <1>4 DEF Recent
  <2>2. T[t].role = "model" /\ t \in DOMAIN T
    <3>1. T[t].role = "model"
      BY <1>2, <1>3, <1>4, CallFrom
    <3> QED BY <1>4, <3>1 DEF Place, PartAt
  <2>3. Side(u[i].role) = "user" /\ u[i].role # "system"
    BY <1>4 DEF Side
  <2>4. T # <<>>
    <3>1. DOMAIN <<>> = {}
      OBVIOUS
    <3> QED BY <2>2, <3>1
  <2>5. CASE t = Len(T)
    <3>1. ~Joins("anthropic", T, u, i)
      BY <2>2, <2>3, <2>5 DEF Joins, Last
    <3>2. Len(U) = Len(T) + 1
      BY <1>1, <2>3, <3>1, NewTurn
    <3> QED BY <2>5, <3>2
  <2>6. CASE t + 1 = Len(T)
    <3>1. t \in 1..(Len(T) - 1) /\ t + 1 \in DOMAIN T
      BY <1>2, <2>2, <2>6
    <3>2. T[t].role # T[t + 1].role /\ T[t + 1].role \in {"user", "model"}
      BY <3>1 DEF Alternates, Alternating
    <3>3. T[Len(T)].role = "user"
      BY <2>2, <2>6, <3>2
    <3>4. Joins("anthropic", T, u, i)
      BY <2>3, <2>4, <3>3 DEF Joins, Last
    <3>5. Len(U) = Len(T)
      BY <1>1, <2>3, <3>4, LastGoesOn
    <3> QED BY <2>6, <3>5
  <2> QED BY <2>1, <2>5, <2>6
<1>5. ASSUME NEW a \in 1..i, NEW b, CallAt(u, a, b), SinceThen(u, a, i),
             NEW t, NEW k, Place(U, t, k, "call", u[a].parts[b].n)
      PROVE  t = Len(U) \/ t + 1 = Len(U)
  <2>1. CASE a = i
    <3>1. NewAt(T, U, t, k)
      BY <1>5, <2>1, PlaceStays
    <3> QED BY <1>1, <3>1, NewInLast
  <2>2. CASE a \in 1..h
    <3>1. SinceThen(u, a, h) /\ u[i].role \in {"user", "tool"}
      BY <1>2, <1>5, <2>2, SinceLess
    <3>2. Place(T, t, k, "call", u[a].parts[b].n)
      BY <1>5, <2>2, PlaceStays
    <3> QED BY <1>4, <1>5, <2>2, <3>1, <3>2
  <2> QED BY <1>2, <2>1, <2>2
<1>6. Recent(U, u, i)
  BY <1>5 DEF Recent
<1>7. ASSUME NEW t, NEW k, NEW s, NEW x, NEW e, Place(U, t, k, "call", e), Place(U, s, x, "result", e)
      PROVE  s = t + 1
  <2>1. PICK l \in 1..i : ToolAt(u, l) /\ u[l].parts[1].n = e
    BY <1>2, <1>3, <1>7, ResultFrom
  <2>2. PICK a, b : Returns(u, l, a, b) /\ a \in 1..l - 1 /\ CallAt(u, a, b) /\ u[a].parts[b].n = e
    <3>1. l \in DOMAIN u
      BY <1>2, <2>1
    <3> QED BY <1>2, <2>1, <3>1, CallOfResult
  <2>3. a \in 1..h /\ a < l
    BY <1>2, <2>1, <2>2
  <2>4. Place(T, t, k, "call", e)
    BY <1>7, <2>2, <2>3, PlaceStays
  <2>5. CASE l \in 1..h
    <3>1. Place(T, s, x, "result", e)
      BY <1>7, <2>1, <2>5, PlaceStays
    <3> QED BY <2>4, <3>1 DEF NextTurn
  <2>6. CASE l = i
    <3>1. NewAt(T, U, s, x)
      BY <1>7, <2>1, <2>6, PlaceStays
    <3>2. s = Len(U)
      BY <1>1, <3>1, NewInLast
    <3>3. SinceThen(u, a, h)
      <4>1. \A g \in (a + 1)..(i - 1) : u[g].role \in {"user", "tool"}
        BY <2>2, <2>6 DEF Returns
      <4>2. i - 1 = h
        BY <1>2
      <4> QED BY <4>1, <4>2 DEF SinceThen
    <3>4. u[i].role \in {"user", "tool"}
      BY <2>1, <2>6 DEF ToolAt
    <3>5. t + 1 = Len(U)
      BY <1>4, <2>2, <2>3, <2>4, <3>3, <3>4
    <3> QED BY <3>2, <3>5
  <2> QED BY <1>2, <2>1, <2>5, <2>6
<1> QED BY <1>6, <1>7 DEF NextTurn

\* In the body for Anthropic the roles alternate and results are in the very next turn.
LEMMA NextTurns ==
    ASSUME NEW m, NEW u, Disciplined(u, m), NEW f, Turns(f, "anthropic", u)
    PROVE  Alternates(f[Len(u)]) /\ NextTurn(f[Len(u)])
<1> DEFINE n == Len(u)
           Good(i) == Alternates(f[i]) /\ Recent(f[i], u, i) /\ NextTurn(f[i])
           Q == {i \in 0..n : Good(i)}
<1>1. n \in Nat /\ 0 \in 0..n /\ 0 \in Nat /\ n \in 0..n /\ DOMAIN u = 1..n
  BY PartFacts
<1>2. 0 \in Q
  <2>1. DOMAIN f[0] = {} /\ 1..0 = {} /\ 1..(Len(f[0]) - 1) = {}
    BY DEF Turns
  <2>2. Good(0)
    BY <2>1 DEF Alternates, Alternating, Recent, NextTurn, Place, PartAt
  <2> QED BY <1>1, <2>2
<1>3. ASSUME NEW h \in 0..n, h \in Q, h # n PROVE h + 1 \in Q
  <2>1. PICK i : i = h + 1
    OBVIOUS
  <2>2. Step(m, u, "anthropic", h, i, f[h], f[i]) /\ i \in 1..n
    BY <1>3, <2>1, TurnSteps
  <2>3. f[i] = AddMessage("anthropic", f[h], u, i)
    <3>1. i - 1 = h
      BY <1>1, <2>1
    <3> QED BY <2>2, <3>1 DEF Turns
  <2>4. Alternates(f[h]) /\ Recent(f[h], u, h) /\ NextTurn(f[h])
    BY <1>3
  <2>5. Alternates(f[i])
    BY <2>2, <2>3, <2>4, AlternatesOn
  <2>6. Recent(f[i], u, i) /\ NextTurn(f[i])
    BY <2>2, <2>3, <2>4, NextTurnOn
  <2>7. i \in 0..n
    BY <1>1, <2>2
  <2> QED BY <2>1, <2>5, <2>6, <2>7
<1> HIDE DEF n
<1>4. \A i \in 0..n : i \in Q
  <2> HIDE DEF Q
  <2> QED BY <1>1, <1>2, <1>3, UpTo
<1> QED BY <1>1, <1>4 DEF n

-----------------------------------------------------------------------------
(* The requests are well formed.                                           *)

Calling(turns) == {i \in DOMAIN turns : \E p \in Range(turns[i].parts) : p.kind = "call"}

\* What BodiesWellFormed says of one request.
WellFormed(protocol, turns) ==
    /\ EachOnce(turns, "call") /\ EachOnce(turns, "result")
    /\ \A i \in Calling(turns) : AnsweredInTurn(protocol, turns, i)
    /\ protocol \in {"google", "jetbrains"} =>
          \A i \in Calling(turns) : \E j \in DOMAIN turns : Answers(turns, i) = {j}
    /\ protocol = "anthropic" =>
          Alternating(turns) /\ \A i \in Calling(turns) : Answers(turns, i) = {i + 1}

\* The turns made of any disciplined conversation are well formed.
LEMMA TurnsWellFormed ==
    ASSUME ConversationInv, MessagesInv, Pending = <<>>, NEW protocol \in Protocols,
           NEW f, Turns(f, protocol, Messages)
    PROVE  WellFormed(protocol, f[Len(Messages)])
<1> DEFINE u == Messages
           T == f[Len(u)]
<1>1. Disciplined(u, made)
  BY DEF MessagesInv
<1>2. Len(u) \in 0..Len(u)
  <2> HIDE DEF u
  <2>1. Len(u) \in Nat
    BY <1>1, PartFacts
  <2> QED BY <2>1
<1>3. Carried(T, protocol, u, Len(u))
  <2> HIDE DEF u
  <2>1. Turns(f, protocol, u)
    BY DEF u
  <2> QED BY <1>1, <1>2, <2>1, TurnsCarry
<1>4. EachOnce(T, "call") /\ EachOnce(T, "result")
  BY <1>3, AllOnce
<1>5. Turns(f, protocol, u)
  OBVIOUS
<1> HIDE DEF u
<1>6. Ordered(protocol, T)
  BY <1>1, <1>5, TurnsOrdered
<1>7. ASSUME NEW i \in Calling(T) PROVE i \in DOMAIN T /\ \E j : j \in Answers(T, i)
  <2>1. i \in DOMAIN T /\ \E p \in Range(T[i].parts) : p.kind = "call"
    BY <1>7 DEF Calling
  <2> HIDE DEF T
  <2> QED BY <1>4, <2>1, AnswersThere
<1>8. \A i \in Calling(T) : AnsweredInTurn(protocol, T, i)
  <2> HIDE DEF T
  <2> QED BY <1>6, <1>7, OrderedAnswers
<1>9. ASSUME protocol \in {"google", "jetbrains"}, NEW i \in Calling(T)
      PROVE  \E j \in DOMAIN T : Answers(T, i) = {j}
  <2>1. OfOneMessage(T, u) /\ Together(T, u, Len(u))
    BY <1>1, <1>5, <1>9, ResultsTogether
  <2>2. PICK j : j \in Answers(T, i)
    BY <1>7, <1>9
  <2> HIDE DEF T
  <2>3. i \in DOMAIN T /\ j \in DOMAIN T
    BY <1>7, <1>9, <2>2, AnswerPlaces
  <2>4. \A g \in Answers(T, i) : g = j
    BY <1>1, <1>3, <2>1, <2>2, <2>3, OneAnswer
  <2> QED BY <2>2, <2>3, <2>4
<1>10. ASSUME protocol = "anthropic"
       PROVE  Alternating(T) /\ \A i \in Calling(T) : Answers(T, i) = {i + 1}
  <2>1. Alternates(T) /\ NextTurn(T)
    BY <1>1, <1>5, <1>10, NextTurns
  <2> HIDE DEF T
  <2>2. ASSUME NEW i \in Calling(T) PROVE Answers(T, i) = {i + 1}
    <3>1. ASSUME NEW g \in Answers(T, i) PROVE g = i + 1
      <4>1. PICK e, k, x : Place(T, i, k, "call", e) /\ Place(T, g, x, "result", e)
        BY <1>7, <2>2, <3>1, AnswerPlaces
      <4> QED BY <2>1, <4>1 DEF NextTurn
    <3>2. \E g : g \in Answers(T, i)
      BY <1>7, <2>2
    <3> QED BY <3>1, <3>2
  <2> QED BY <2>1, <2>2 DEF Alternates
<1>11. WellFormed(protocol, T)
  <2> HIDE DEF T
  <2> QED BY <1>4, <1>8, <1>9, <1>10 DEF WellFormed
<1> QED BY <1>11 DEF u

\* A request without messages gets a turn of the user.
LEMMA LoneTurn ==
    ASSUME NEW protocol, WellFormed(protocol, <<>>)
    PROVE  WellFormed(protocol, <<Message("user", <<>>)>>)
<1> DEFINE turn == Message("user", <<>>)
           T == <<turn>>
<1>1. turn.parts = <<>>
  BY DEF Message
<1> HIDE DEF turn
<1>2. DOMAIN T = {1} /\ T[1] = turn /\ Len(T) = 1
  OBVIOUS
<1> HIDE DEF T
<1>3. \A t, k : ~PartAt(T, t, k)
  <2>1. DOMAIN <<>> = {}
    OBVIOUS
  <2> QED BY <1>1, <1>2, <2>1 DEF PartAt
<1>4. \A t, k : ~PartAt(<<>>, t, k)
  <2>1. DOMAIN <<>> = {}
    OBVIOUS
  <2> QED BY <2>1 DEF PartAt
<1>5. Calling(T) = {}
  BY <1>3 DEF Calling, Range, PartAt
<1>6. ASSUME NEW kind, EachOnce(<<>>, kind) PROVE EachOnce(T, kind)
  <2>1. \A e : e \in Numbers(PartsIn(T), kind) <=> e \in Numbers(PartsIn(<<>>), kind)
    BY <1>3, <1>4, NumbersIn DEF Place
  <2>2. Numbers(PartsIn(T), kind) = Numbers(PartsIn(<<>>), kind)
    BY <2>1
  <2>3. Numbers(PartsIn(T), kind) = 1..made
    BY <1>6, <2>2 DEF EachOnce
  <2> QED BY <1>3, <2>3 DEF EachOnce, PartAt
<1>7. Alternating(T)
  <2>1. 1..(Len(T) - 1) = {}
    BY <1>2
  <2> QED BY <2>1 DEF Alternating
<1>8. WellFormed(protocol, T)
  BY <1>5, <1>6, <1>7 DEF WellFormed
<1> QED BY <1>8 DEF T, turn

\* Of any conversation in which no call waits, each of five clients makes a body
\* that has every call and every result once, and a result after its call and
\* before the model goes on: Vertex (_build_request_body), Google
\* (_google_contents_and_system), JetBrains (_build_anthropic_request_body),
\* Foundry's Anthropic and Responses.  For Google and JetBrains the results of a
\* turn are in one turn, and for Anthropic in the very next one, where roles
\* alternate.  Nothing is assumed of who answered which turn, of the order of
\* results, or of what the user says beside them.
THEOREM BodiesAreWellFormed == Conversation => []BodiesWellFormed
<1>1. ConversationInv /\ MessagesInv => BodiesWellFormed
  <2> SUFFICES ASSUME ConversationInv, MessagesInv, Pending = <<>>, NEW protocol \in Protocols
               PROVE  WellFormed(protocol, Body(protocol, Messages))
    BY DEF BodiesWellFormed, WellFormed, Calling
  <2> DEFINE u == Messages
             empty == <<Message("user", <<>>)>>
  <2>1. u \in Seq(MessageSet) /\ \A i \in DOMAIN u : Shaped(u[i])
    BY DEF MessagesInv, Disciplined
  <2> HIDE DEF u
  <2>2. PICK f : /\ Turns(f, protocol, u)
                 /\ Body(protocol, u) = IF f[Len(u)] = <<>> /\ protocol \in {"google", "anthropic"}
                                        THEN empty ELSE f[Len(u)]
    BY <2>1, BodyIsTurns
  <2>3. WellFormed(protocol, f[Len(u)])
    BY <2>2, TurnsWellFormed DEF u
  <2>4. CASE f[Len(u)] = <<>>
    <3>1. WellFormed(protocol, empty)
      BY <2>3, <2>4, LoneTurn
    <3> HIDE DEF empty
    <3>2. WellFormed(protocol, Body(protocol, u))
      BY <2>2, <2>3, <3>1
    <3> QED BY <3>2 DEF u
  <2>5. CASE f[Len(u)] # <<>>
    <3>1. Body(protocol, u) = f[Len(u)]
      BY <2>2, <2>5
    <3>2. WellFormed(protocol, Body(protocol, u))
      BY <2>3, <3>1
    <3> QED BY <3>2 DEF u
  <2> QED BY <2>4, <2>5
<1> QED BY <1>1, MessagesInvariance, PTL
=============================================================================
