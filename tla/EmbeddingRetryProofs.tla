------------------------ MODULE EmbeddingRetryProofs ------------------------
(***************************************************************************)
(* Theorems about EmbeddingRetry for any requests and batches, any number  *)
(* of slots and attempts, any delays.                                      *)
(*                                                                         *)
(* BatchInv says for one batch how its stage, its timer and its accounts   *)
(* go together; with the count of the slots (UpstreamSlotsConserved) it is *)
(* inductive.  NothingAfterAnswer needs in addition that exactly the       *)
(* batches of a request that has not begun are idle.                       *)
(***************************************************************************)
EXTENDS EmbeddingRetry, FiniteSetTheorems, SequenceTheorems, TLAPS, WellFoundedInduction

---------------------------------------------------------------------------
(* Sequences.                                                              *)

\* A non-empty set of natural numbers has a least element.
LEMMA LeastNatural ==
  ASSUME NEW P, P \subseteq Nat, P # {}
  PROVE  \E k \in P : \A j \in P : k <= j
<1> DEFINE R == OpToRel(<, Nat)
<1>1. \A x, y \in Nat : x < y => <<x, y>> \in R
  BY DEF OpToRel
<1>2. IsWellFoundedOn(R, Nat)
  BY NatLessThanWellFounded
<1> HIDE DEF R
<1>3. PICK k \in P : \A j \in P : ~(<<j, k>> \in R)
  BY <1>2, WFMin
<1>4. \A j \in P : j \in Nat /\ k \in Nat /\ ~(j < k)
  BY <1>1, <1>3
<1> QED
  BY <1>4

\* Removing an element keeps the type, however often it occurs.
LEMMA RemoveFirstType ==
  ASSUME NEW S, NEW s \in Seq(S), NEW e
  PROVE  RemoveFirst(s, e) \in Seq(S)
<1>1. CASE ~ \E i \in 1..Len(s) : s[i] = e
  BY <1>1 DEF RemoveFirst
<1>2. CASE \E i \in 1..Len(s) : s[i] = e
  <2> DEFINE I == {i \in 1..Len(s) : s[i] = e}
             k == SelectInSeq(s, LAMBDA v : v = e)
  <2>1. I \subseteq Nat /\ I # {}
    BY <1>2
  <2>2. k = CHOOSE x \in I : \A y \in I : x <= y
    BY <2>1 DEF SelectInSeq, Min
  <2>3. k \in I
    <3> HIDE DEF I, k
    <3> QED
      BY <2>1, <2>2, LeastNatural
  <2>4. k \in 1..Len(s)
    BY <2>3
  <2>5. RemoveFirst(s, e) = SubSeq(s, 1, k - 1) \o SubSeq(s, k + 1, Len(s))
    BY <1>2 DEF RemoveFirst, RemoveAt
  <2> HIDE DEF k
  <2>6. \A i \in 1..Len(s) : s[i] \in S
    BY ElementOfSeq
  <2>7. SubSeq(s, 1, k - 1) \in Seq(S) /\ SubSeq(s, k + 1, Len(s)) \in Seq(S)
    BY <2>4, <2>6, SubSeqProperties
  <2> QED
    BY <2>5, <2>7, ConcatProperties
<1> QED
  BY <1>1, <1>2

Types ==
    /\ now \in Nat
    /\ req \in [Requests -> {"new", "running", "closing", "answered"}]
    /\ stage \in [Batches -> Stage]
    /\ free \in Nat
    /\ retry \in [Batches -> Nat]
    /\ deadline \in [Batches -> Nat]
    /\ timer \in [Batches -> Nat]
    /\ sends \in [Batches -> Nat]
    /\ recorded \in [Batches -> Nat]
    /\ final \in [Batches -> Nat]

\* A timeout runs exactly while a batch retries, it ends at the deadline, and it
\* is served in time.
TimerInv(b) ==
    /\ stage[b] = "idle" => Runs(b)
    /\ stage[b] \in {"idle", "tokenline", "token"} => retry[b] = 0
    /\ stage[b] = "sleep" => retry[b] > 0
    /\ Retrying(b) => timer[b] = deadline[b] /\ timer[b] > 0
    /\ ~Retrying(b) => timer[b] = 0
    /\ Runs(b) /\ timer[b] > 0 => now <= timer[b]

SendsInv(b) ==
    /\ sends[b] = recorded[b] + One(stage[b] = "send")
    /\ final[b] <= 1
    /\ final[b] = 1 => stage[b] \in Ended

BatchInv == \A b \in Batches : TimerInv(b) /\ SendsInv(b)

RequestInv ==
    \A r \in Requests : \A b \in Of(r) :
        /\ req[r] = "new" => stage[b] = "idle"
        /\ req[r] \in {"running", "closing"} => stage[b] # "idle"

IInv == Types /\ BatchInv /\ RequestInv /\ UpstreamSlotsConserved /\ NothingAfterAnswer

---------------------------------------------------------------------------
(* Facts about the operators.                                              *)

Holders == {b \in Batches : stage[b] \in Holding}

\* When one batch changes its stage the number of holders changes by what this
\* batch gains or gives up.
LEMMA HoldersChange ==
    ASSUME Types, NEW b \in Batches, NEW s \in Stage,
           stage' = [stage EXCEPT ![b] = s]
    PROVE  /\ Cardinality(Holders) \in Nat /\ Cardinality(Holders') \in Nat
           /\ Cardinality(Holders') + One(stage[b] \in Holding)
                = Cardinality(Holders) + One(s \in Holding)
<1>1. IsFiniteSet(Holders)
  BY RetryAssumption, FS_Subset DEF Holders
<1>2. Cardinality(Holders) \in Nat
  BY <1>1, FS_CardinalityType
<1>3. CASE s \in Holding
  <2>1. Holders' = Holders \union {b}
    BY <1>3 DEF Holders, Types
  <2>2. Cardinality(Holders') = IF b \in Holders THEN Cardinality(Holders)
                                                 ELSE Cardinality(Holders) + 1
    BY <1>1, <2>1, FS_AddElement
  <2> QED
    BY <1>2, <1>3, <2>2 DEF Holders, One
<1>4. CASE s \notin Holding
  <2>1. Holders' = Holders \ {b}
    BY <1>4 DEF Holders, Types
  <2>2. Cardinality(Holders') = IF b \in Holders THEN Cardinality(Holders) - 1
                                                 ELSE Cardinality(Holders)
    BY <1>1, <2>1, FS_RemoveElement
  <2>3. b \in Holders => Cardinality(Holders) # 0
    BY <1>1, FS_EmptySet
  <2> QED
    BY <1>2, <1>4, <2>2, <2>3 DEF Holders, One
<1> QED
  BY <1>3, <1>4

\* What a batch gains the pool gives up.
LEMMA Exchange ==
    \A f, g, c, d, old, new \in Nat :
        g + new = f + old /\ d + old = c + new => g + d = f + c
OBVIOUS

\* Slots stay conserved when free changes against the stage of one batch.
LEMMA SlotsChange ==
    ASSUME Types, UpstreamSlotsConserved, NEW b \in Batches, NEW s \in Stage,
           stage' = [stage EXCEPT ![b] = s],
           free' \in Nat,
           free' + One(s \in Holding) = free + One(stage[b] \in Holding)
    PROVE  UpstreamSlotsConserved'
<1>1. free + Cardinality(Holders) = MaxInflight
  BY DEF UpstreamSlotsConserved, Holders
<1>2. /\ One(stage[b] \in Holding) \in Nat /\ One(s \in Holding) \in Nat
      /\ free \in Nat
  BY DEF One, Types
<1>3. free' + Cardinality(Holders') = free + Cardinality(Holders)
  <2>1. /\ Cardinality(Holders) \in Nat /\ Cardinality(Holders') \in Nat
        /\ Cardinality(Holders') + One(stage[b] \in Holding)
             = Cardinality(Holders) + One(s \in Holding)
    BY HoldersChange
  <2> QED
    BY <1>2, <2>1, Exchange
<1> QED
  BY <1>1, <1>3 DEF UpstreamSlotsConserved, Holders

\* A live batch belongs to no request that is new or answered.
LEMMA LiveRequest ==
    ASSUME IInv, NEW b \in Batches, stage[b] \notin Ended \union {"idle"},
           NEW s \in Stage \ {"idle"}, stage' = [stage EXCEPT ![b] = s], req' = req
    PROVE  RequestInv' /\ NothingAfterAnswer'
BY DEF IInv, Types, RequestInv, NothingAfterAnswer, Of

LEMMA OfType == \A r \in Requests : Of(r) \subseteq Batches
BY RetryAssumption DEF Of

---------------------------------------------------------------------------
(* Steps.                                                                  *)

LEMMA InitIInv == Init => IInv
<1> SUFFICES ASSUME Init PROVE IInv
  OBVIOUS
<1>1. Types
  BY RetryAssumption DEF Init, Types, Stage
<1>2. BatchInv
  BY DEF Init, BatchInv, TimerInv, SendsInv, Retrying, Runs, One, Ended
<1>3. RequestInv /\ NothingAfterAnswer
  BY OfType DEF Init, RequestInv, NothingAfterAnswer
<1>4. UpstreamSlotsConserved
  <2>1. Holders = {}
    BY DEF Init, Holding, Holders
  <2>2. Cardinality(Holders) = 0
    BY <2>1, FS_EmptySet
  <2> QED
    BY <2>2, RetryAssumption DEF UpstreamSlotsConserved, Init, Holders
<1> QED
  BY <1>1, <1>2, <1>3, <1>4 DEF IInv

\* The end of a live task.
LEMMA EndStep ==
    ASSUME IInv, NEW b \in Batches, NEW s \in Ended,
           stage[b] \notin Ended \union {"idle"}, End(b, s)
    PROVE  IInv'
<1> USE DEF End, Finish
<1>0. s \in Stage \ {"idle"}
  BY DEF Stage, Ended
<1>1. Types'
  BY <1>0 DEF IInv, Types, One
<1>2. BatchInv'
  <2> SUFFICES ASSUME NEW x \in Batches PROVE TimerInv(x)' /\ SendsInv(x)'
    BY DEF BatchInv
  <2> USE DEF IInv, Types, BatchInv
  <2>1. TimerInv(x)'
    BY DEF TimerInv, Retrying, Runs, Ended
  <2>2. SendsInv(x)'
    BY DEF SendsInv, One, Ended
  <2> QED
    BY <2>1, <2>2
<1>3. RequestInv' /\ NothingAfterAnswer'
  BY <1>0, LiveRequest
<1>4. UpstreamSlotsConserved'
  <2>1. free' + One(s \in Holding) = free + One(stage[b] \in Holding)
    BY DEF IInv, Types, One, Holding, Ended
  <2> QED
    BY <1>0, <1>1, <2>1, SlotsChange DEF IInv, Types
<1> QED
  BY <1>1, <1>2, <1>3, <1>4 DEF IInv

\* A step that moves one batch between stages that are not ended.
LEMMA MoveStep ==
    ASSUME IInv, NEW b \in Batches, NEW s \in Stage \ {"idle"},
           stage[b] \notin Ended \union {"idle"},
           stage' = [stage EXCEPT ![b] = s], req' = req,
           Types', BatchInv',
           free' + One(s \in Holding) = free + One(stage[b] \in Holding)
    PROVE  IInv'
<1>1. RequestInv' /\ NothingAfterAnswer'
  BY LiveRequest
<1>2. UpstreamSlotsConserved'
  BY SlotsChange DEF IInv, Types
<1> QED
  BY <1>1, <1>2 DEF IInv

LEMMA RequestStepInv ==
    ASSUME IInv, NEW r \in Requests,
           Reject(r) \/ Collect(r) \/ Fail(r) \/ Disconnect(r) \/ Close(r)
    PROVE  IInv'
<1> USE DEF IInv
<1>1. UNCHANGED <<now, stage, free, line, timerVars, historyVars>>
  BY DEF Reject, Collect, Fail, Disconnect, Close, CancelBatches
<1>2. cancelled \subseteq cancelled'
  BY DEF Reject, Collect, Fail, Disconnect, Close, CancelBatches
<1>3. Types'
  BY <1>1 DEF Types, timerVars, historyVars, Reject, Collect, Fail, Disconnect, Close,
              CancelBatches
<1>4. BatchInv'
  <2>1. ASSUME NEW b \in Batches, stage[b] = "idle", Runs(b) PROVE b \notin cancelled'
    BY <2>1 DEF RequestInv, Runs, Reject, Collect, Fail, Disconnect, Close, CancelBatches
  <2> QED
    BY <1>1, <1>2, <2>1 DEF BatchInv, TimerInv, SendsInv, Retrying, Runs, timerVars,
                            historyVars
<1>5. \A x \in Requests \ {r} : req'[x] = req[x]
  BY DEF Types, Reject, Collect, Fail, Disconnect, Close, CancelBatches
<1>6. req'[r] = "answered" \/ (req'[r] = "closing" /\ req[r] = "running")
  BY DEF Types, Reject, Collect, Fail, Disconnect, Close, CancelBatches
<1>7. req'[r] = "answered" => \A b \in Of(r) : stage[b] \in Ended \union {"idle"}
  BY DEF Types, RequestInv, Reject, Collect, Fail, Disconnect, Close, CancelBatches, Ended
<1>8. RequestInv'
  BY <1>1, <1>5, <1>6 DEF RequestInv, Of
<1>9. NothingAfterAnswer'
  BY <1>1, <1>5, <1>7 DEF NothingAfterAnswer, Of
<1>10. UpstreamSlotsConserved'
  BY <1>1 DEF UpstreamSlotsConserved
<1> QED
  BY <1>3, <1>4, <1>8, <1>9, <1>10

LEMMA BeginStep ==
    ASSUME IInv, NEW r \in Requests, Begin(r)
    PROVE  IInv'
<1> USE DEF IInv, Begin
<1>1. Types'
  BY DEF Types, Stage, Waiting, timerVars, historyVars
<1>2. \A b \in Of(r) : b \in Batches /\ stage[b] = "idle"
  BY OfType DEF RequestInv
<1>3. BatchInv'
  BY <1>2 DEF Types, BatchInv, TimerInv, SendsInv, Retrying, Runs, One, Ended, timerVars,
              historyVars
<1>4. \A x \in Requests \ {r} : Of(x) \intersect Of(r) = {} /\ req'[x] = req[x]
  BY RetryAssumption DEF Types
<1>5. \A x \in Requests \ {r} : \A b \in Of(x) : stage'[b] = stage[b]
  BY <1>4, OfType
<1>6. req'[r] = "running"
  BY DEF Types
<1>7. RequestInv'
  <2>1. ASSUME NEW x \in Requests, NEW b \in Of(x)
        PROVE  /\ req'[x] = "new" => stage'[b] = "idle"
               /\ req'[x] \in {"running", "closing"} => stage'[b] # "idle"
    <3>1. CASE x = r
      BY <1>2, <1>6, <2>1, <3>1 DEF Types
    <3>2. CASE x # r
      BY <1>4, <1>5, <2>1, <3>2 DEF RequestInv
    <3> QED
      BY <3>1, <3>2
  <2> QED
    BY <2>1 DEF RequestInv, Of
<1>8. NothingAfterAnswer'
  <2>1. ASSUME NEW x \in Requests, req'[x] = "answered", NEW b \in Of(x)
        PROVE  stage'[b] \in Ended \union {"idle"}
    BY <1>4, <1>5, <1>6, <2>1 DEF NothingAfterAnswer
  <2> QED
    BY <2>1 DEF NothingAfterAnswer, Of
<1>9. Holders' = Holders
  BY <1>2 DEF Holders, Holding, Types
<1>10. UpstreamSlotsConserved'
  BY <1>9 DEF UpstreamSlotsConserved, Holders
<1> QED
  BY <1>1, <1>3, <1>7, <1>8, <1>10

LEMMA TakeStep ==
    ASSUME IInv, NEW b \in Batches, NEW s \in {"token", "admit"}, free > 0,
           stage[b] = IF s = "token" THEN "tokenline" ELSE "line", Take(b, s)
    PROVE  IInv'
<1> USE DEF Take, timerVars, historyVars
<1>1. Types'
  BY DEF IInv, Types, Stage, Holding
<1>2. BatchInv'
  BY DEF IInv, Types, BatchInv, TimerInv, SendsInv, Retrying, Runs, One, Ended
<1>3. free' + One(s \in Holding) = free + One(stage[b] \in Holding)
  BY DEF IInv, Types, One, Holding
<1>4. s \in Stage \ {"idle"} /\ stage[b] \notin Ended \union {"idle"}
  BY DEF Stage, Holding, Ended
<1> QED
  BY <1>1, <1>2, <1>3, <1>4, MoveStep

LEMMA TokenStep ==
    ASSUME IInv, NEW b \in Batches, Token(b)
    PROVE  IInv'
<1> DEFINE s == stage'[b]
<1>0. /\ stage[b] = "token" /\ free' = free + 1
      /\ s \in {"line", "failed"} /\ stage' = [stage EXCEPT ![b] = s]
      /\ UNCHANGED <<now, req, cancelled, retry, deadline, wake, timer, sends, recorded, final>>
  BY DEF IInv, Types, Token, timerVars, historyVars
<1> HIDE DEF s
<1>1. Types'
  BY <1>0 DEF IInv, Types, Stage, Waiting, Ended
<1>2. BatchInv'
  BY <1>0 DEF IInv, Types, BatchInv, TimerInv, SendsInv, Retrying, Runs, One, Ended
<1>3. free' + One(s \in Holding) = free + One(stage[b] \in Holding)
  BY <1>0 DEF IInv, Types, One, Holding
<1>4. s \in Stage \ {"idle"} /\ stage[b] \notin Ended \union {"idle"}
  BY <1>0 DEF Stage, Waiting, Ended
<1> QED
  BY <1>0, <1>1, <1>2, <1>3, <1>4, MoveStep

LEMMA AdmitStep ==
    ASSUME IInv, NEW b \in Batches, Admit(b)
    PROVE  IInv'
<1> USE DEF Admit, timerVars
<1>1. Types'
  BY DEF IInv, Types, Stage, Holding
<1>2. BatchInv'
  BY DEF IInv, Types, BatchInv, TimerInv, SendsInv, Retrying, Runs, One, Ended
<1>3. free' + One("send" \in Holding) = free + One(stage[b] \in Holding)
  BY DEF IInv, Types, One, Holding
<1>4. "send" \in Stage \ {"idle"} /\ stage[b] \notin Ended \union {"idle"}
  BY DEF Stage, Holding, Ended
<1> QED
  BY <1>1, <1>2, <1>3, <1>4, MoveStep

LEMMA BusyStep ==
    ASSUME IInv, NEW b \in Batches, Busy(b)
    PROVE  IInv'
<1> DEFINE due == IF retry[b] = 0 THEN now + RetryTimeout ELSE deadline[b]
           s == stage'[b]
<1>1. /\ stage[b] = "send" /\ Runs(b)
      /\ deadline' = [deadline EXCEPT ![b] = due]
      /\ recorded' = [recorded EXCEPT ![b] = @ + 1]
      /\ free' = free + 1
      /\ UNCHANGED <<now, req, cancelled, line, sends, final>>
  BY DEF Busy
<1>2. due \in Nat /\ due > 0 /\ now <= due
  BY RetryAssumption DEF IInv, Types, BatchInv, TimerInv, Retrying, Busy
<1>3. \/ /\ s = "sleep" /\ stage' = [stage EXCEPT ![b] = "sleep"]
         /\ retry' = [retry EXCEPT ![b] = @ + 1]
         /\ timer' = [timer EXCEPT ![b] = due]
      \/ /\ s = "error" /\ stage' = [stage EXCEPT ![b] = "error"]
         /\ timer' = [timer EXCEPT ![b] = 0]
         /\ retry' = retry
  BY DEF IInv, Types, Busy, Armed
<1> HIDE DEF due, s
<1>4. Types'
  BY <1>1, <1>2, <1>3 DEF IInv, Types, Stage, Ended
<1>5. BatchInv'
  <2> SUFFICES ASSUME NEW x \in Batches PROVE TimerInv(x)' /\ SendsInv(x)'
    BY DEF BatchInv
  <2> USE DEF IInv, Types, BatchInv
  <2>1. TimerInv(x)'
    BY <1>1, <1>2, <1>3 DEF TimerInv, Retrying, Runs, Ended
  <2>2. SendsInv(x)'
    BY <1>1, <1>3 DEF SendsInv, One, Ended
  <2> QED
    BY <2>1, <2>2
<1>6. free' + One(s \in Holding) = free + One(stage[b] \in Holding)
  BY <1>1, <1>3 DEF IInv, Types, One, Holding
<1>7. s \in Stage \ {"idle"} /\ stage[b] \notin Ended \union {"idle"}
  BY <1>1, <1>3 DEF Stage, Ended
<1> QED
  BY <1>1, <1>3, <1>4, <1>5, <1>6, <1>7, MoveStep

LEMMA WakeStep ==
    ASSUME IInv, NEW b \in Batches, Wake(b)
    PROVE  IInv'
<1> USE DEF Wake, timerVars, historyVars
<1>1. Types'
  BY DEF IInv, Types, Stage, Waiting
<1>2. BatchInv'
  BY DEF IInv, Types, BatchInv, TimerInv, SendsInv, Retrying, Runs, One, Ended
<1>3. free' + One("line" \in Holding) = free + One(stage[b] \in Holding)
  BY DEF IInv, Types, One, Holding
<1>4. "line" \in Stage \ {"idle"} /\ stage[b] \notin Ended \union {"idle"}
  BY DEF Stage, Waiting, Ended
<1> QED
  BY <1>1, <1>2, <1>3, <1>4, MoveStep

LEMMA TickStep == IInv /\ Tick => IInv'
BY DEF IInv, Types, BatchInv, TimerInv, SendsInv, RequestInv, UpstreamSlotsConserved,
       NothingAfterAnswer, Retrying, Runs, Tick, timerVars, historyVars

LEMMA IInvStep == IInv /\ [Next]_vars => IInv'
<1> SUFFICES ASSUME IInv, [Next]_vars PROVE IInv'
  OBVIOUS
<1>1. ASSUME NEW r \in Requests,
             Reject(r) \/ Begin(r) \/ Disconnect(r) \/ RequestStep(r)
      PROVE  IInv'
  BY <1>1, RequestStepInv, BeginStep DEF RequestStep
<1>2. ASSUME NEW b \in Batches, BatchStep(b)
      PROVE  IInv'
  <2>1. CASE Stop(b)
    <3>1. stage[b] # "idle"
      BY <2>1 DEF Stop, IInv, BatchInv, TimerInv, Runs
    <3> QED
      BY <2>1, <3>1, EndStep DEF Stop, Ended
  <2>2. CASE Acquire(b)
    <3>1. CASE stage[b] = "tokenline"
      BY <2>2, <3>1, TakeStep DEF Acquire
    <3>2. CASE stage[b] = "line" /\ Take(b, "admit")
      BY <2>2, <3>2, TakeStep DEF Acquire
    <3>3. CASE stage[b] = "line" /\ End(b, "error")
      BY <3>3, EndStep DEF Ended
    <3> QED
      BY <2>2, <3>1, <3>2, <3>3 DEF Acquire
  <2>3. CASE Refuse(b)
    BY <2>3, EndStep DEF Refuse, Ended
  <2>4. CASE Answer(b)
    BY <2>4, EndStep DEF Answer, Ended
  <2>5. CASE Expire(b)
    <3>1. Retrying(b)
      BY <2>5 DEF Expire, IInv, Types, BatchInv, TimerInv
    <3> QED
      BY <2>5, <3>1, EndStep DEF Expire, Retrying, Ended
  <2> QED
    BY <1>2, <2>1, <2>2, <2>3, <2>4, <2>5, TokenStep, AdmitStep, BusyStep, WakeStep
    DEF BatchStep
<1>3. CASE UNCHANGED vars
  BY <1>3 DEF vars, IInv, Types, BatchInv, TimerInv, SendsInv, RequestInv,
              UpstreamSlotsConserved, NothingAfterAnswer, Retrying, Runs
<1> QED
  BY <1>1, <1>2, <1>3, TickStep DEF Next

---------------------------------------------------------------------------
(* Theorems.                                                               *)

\* The invariant holds in every reachable state.
LEMMA SpecIInv == Spec => []IInv
BY InitIInv, IInvStep, PTL DEF Spec

\* No history of backoffs, timeouts, failures and cancellations loses or doubles
\* a slot of the upstream semaphore.
THEOREM UpstreamSlotsAreConserved == Spec => []UpstreamSlotsConserved
<1>1. IInv => UpstreamSlotsConserved
  BY DEF IInv
<1> QED
  BY <1>1, SpecIInv, PTL

\* The first 429/503 sets one deadline for all retries of a batch.
THEOREM RetriesEndInTime == Spec => []RetryInTime
<1>1. IInv => RetryInTime
  BY DEF IInv, BatchInv, TimerInv, RetryInTime
<1> QED
  BY <1>1, SpecIInv, PTL

\* Every transmission is recorded once, and none follows one that may have been
\* charged.
THEOREM EverySendIsAccounted == Spec => []SendsAccounted
<1>1. IInv => SendsAccounted
  BY DEF IInv, BatchInv, SendsInv, SendsAccounted
<1> QED
  BY <1>1, SpecIInv, PTL

\* No batch outlives the answer to its request.
THEOREM AnswersAreFinal == Spec => []NothingAfterAnswer
<1>1. IInv => NothingAfterAnswer
  BY DEF IInv
<1> QED
  BY <1>1, SpecIInv, PTL

---------------------------------------------------------------------------
(* The types of all variables, and the bounds of the counters.             *)

\* A batch has been sent once for every retry, and once more after the last.
BoundsInv(b) ==
    /\ retry[b] <= MaxAttempts - 1
    /\ deadline[b] <= MaxTime /\ timer[b] <= MaxTime
    /\ sends[b] <= retry[b] + 1
    /\ stage[b] \notin {"send"} \union Ended => sends[b] <= retry[b]

Bounded ==
    /\ now <= MaxTime
    /\ cancelled \subseteq Batches
    /\ line \in Seq(Batches)
    /\ wake \in [Batches -> 0..MaxTime]
    /\ \A b \in Batches : BoundsInv(b)

\* Nobody waits for less than nothing.
LEMMA DelaysType == \A k : Delays(k) \subseteq Nat
BY RetryAssumption DEF Delays, Backoffs

LEMMA InitBounded == Init => Bounded
BY RetryAssumption DEF Init, Bounded, BoundsInv

LEMMA EndBounded ==
    ASSUME IInv, Bounded, NEW b \in Batches, NEW s \in Ended, End(b, s)
    PROVE  Bounded'
<1>1. line' \in Seq(Batches)
  BY RemoveFirstType DEF Bounded, End, Finish, Without
<1>2. /\ UNCHANGED <<now, retry, deadline, sends>>
      /\ timer' = [timer EXCEPT ![b] = 0]
      /\ stage' = [stage EXCEPT ![b] = s]
  BY DEF End, Finish
<1>3. /\ timer \in [Batches -> Nat] /\ stage \in [Batches -> Stage]
      /\ MaxTime \in Nat
  BY RetryAssumption DEF IInv, Types
<1>4. \A x \in Batches : BoundsInv(x)
  BY DEF Bounded
<1>5. BoundsInv(b)'
  BY <1>2, <1>3, <1>4 DEF BoundsInv
<1>6. \A x \in Batches \ {b} : BoundsInv(x)'
  BY <1>2, <1>3, <1>4 DEF BoundsInv
<1> QED
  BY <1>1, <1>5, <1>6 DEF Bounded, End, Finish

LEMMA BatchStepBounded ==
    ASSUME IInv, Bounded, NEW b \in Batches, BatchStep(b)
    PROVE  Bounded'
<1> USE DEF timerVars, historyVars
<1>1. CASE \E s \in Ended : End(b, s)
  BY <1>1, EndBounded
<1>2. CASE Stop(b) \/ Refuse(b) \/ Answer(b) \/ Expire(b)
  BY <1>1, <1>2 DEF Stop, Refuse, Answer, Expire, Ended
<1>3. ASSUME NEW s \in {"token", "admit"}, stage[b] \in Waiting, Take(b, s)
      PROVE  Bounded'
  <2>1. line' \in Seq(Batches)
    BY <1>3, RemoveFirstType DEF Bounded, Take, Without
  <2>2. \A x \in Batches : BoundsInv(x)'
    BY <1>3 DEF IInv, Types, Bounded, BoundsInv, Take, Waiting, Ended
  <2> QED
    BY <1>3, <2>1, <2>2 DEF Bounded, Take
<1>4. CASE Acquire(b)
  BY <1>1, <1>3, <1>4 DEF Acquire, Ended
<1>5. CASE Token(b)
  <2>1. line' \in Seq(Batches)
    <3>1. line' = Append(line, b) \/ line' = line
      BY <1>5 DEF Token
    <3>2. line \in Seq(Batches)
      BY DEF Bounded
    <3> QED
      BY <3>1, <3>2
  <2>2. \A x \in Batches : BoundsInv(x)'
    BY <1>5 DEF IInv, Types, Bounded, BoundsInv, Token, Ended
  <2> QED
    BY <1>5, <2>1, <2>2 DEF Bounded, Token
<1>6. CASE Admit(b)
  <2>1. /\ stage[b] \notin {"send"} \union Ended
        /\ stage' = [stage EXCEPT ![b] = "send"]
        /\ sends' = [sends EXCEPT ![b] = @ + 1]
        /\ UNCHANGED <<now, retry, deadline, timer>>
    BY <1>6 DEF Admit, Ended
  <2>2. /\ sends \in [Batches -> Nat] /\ retry \in [Batches -> Nat]
        /\ stage \in [Batches -> Stage]
    BY DEF IInv, Types
  <2>3. \A x \in Batches : BoundsInv(x)
    BY DEF Bounded
  <2>4. BoundsInv(b)'
    BY <2>1, <2>2, <2>3 DEF BoundsInv
  <2>5. \A x \in Batches \ {b} : BoundsInv(x)'
    BY <2>1, <2>2, <2>3 DEF BoundsInv
  <2> QED
    BY <1>6, <2>4, <2>5 DEF Bounded, Admit
<1>7. CASE Busy(b)
  <2> DEFINE due == IF retry[b] = 0 THEN now + RetryTimeout ELSE deadline[b]
  <2>1. /\ stage[b] = "send" /\ due <= MaxTime
        /\ deadline' = [deadline EXCEPT ![b] = due]
        /\ UNCHANGED <<now, req, cancelled, line, sends, final>>
    BY <1>7 DEF Busy
  <2>2. due \in Nat
    BY RetryAssumption DEF IInv, Types
  <2>3. \/ /\ retry[b] < MaxAttempts - 1 /\ stage'[b] = "sleep"
           /\ retry' = [retry EXCEPT ![b] = @ + 1]
           /\ timer' = [timer EXCEPT ![b] = due]
        \/ /\ stage'[b] = "error" /\ retry' = retry
           /\ timer' = [timer EXCEPT ![b] = 0]
    BY <1>7 DEF IInv, Types, Busy, Armed
  <2>4. \A x \in Batches \ {b} : stage'[x] = stage[x]
    BY <1>7 DEF IInv, Types, Busy
  <2>5. wake' \in [Batches -> 0..MaxTime]
    <3>1. CASE UNCHANGED <<retry, wake>>
      BY <3>1 DEF Bounded
    <3>2. CASE \E d \in Delays(retry[b]) : now + d < due /\ wake' = [wake EXCEPT ![b] = now + d]
      <4>1. PICK d \in Nat : now + d < due /\ wake' = [wake EXCEPT ![b] = now + d]
        BY <3>2, DelaysType
      <4>2. now + d \in 0..MaxTime
        <5>1. now \in Nat /\ MaxTime \in Nat
          BY RetryAssumption DEF IInv, Types
        <5> HIDE DEF due
        <5> QED
          BY <2>1, <2>2, <4>1, <5>1
      <4> HIDE DEF due
      <4> QED
        BY <4>1, <4>2 DEF Bounded
    <3> QED
      BY <1>7, <3>1, <3>2 DEF Busy
  <2> HIDE DEF due
  <2>6. BoundsInv(b)'
    BY <2>1, <2>2, <2>3, RetryAssumption DEF IInv, Types, Bounded, BoundsInv, Ended
  <2>7. \A x \in Batches \ {b} : BoundsInv(x)'
    BY <2>1, <2>3, <2>4 DEF IInv, Types, Bounded, BoundsInv
  <2> QED
    BY <2>1, <2>5, <2>6, <2>7 DEF Bounded
<1>8. CASE Wake(b)
  <2>1. line' \in Seq(Batches)
    BY <1>8 DEF Bounded, Wake
  <2>2. \A x \in Batches : BoundsInv(x)'
    BY <1>8 DEF IInv, Types, Bounded, BoundsInv, Wake, Ended
  <2> QED
    BY <1>8, <2>1, <2>2 DEF Bounded, Wake
<1> QED
  BY <1>2, <1>4, <1>5, <1>6, <1>7, <1>8 DEF BatchStep

LEMMA BoundedStep == IInv /\ Bounded /\ [Next]_vars => Bounded'
<1> SUFFICES ASSUME IInv, Bounded, [Next]_vars PROVE Bounded'
  OBVIOUS
<1> USE DEF timerVars, historyVars
<1>1. CASE UNCHANGED vars
  BY <1>1 DEF vars, Bounded, BoundsInv
<1>2. ASSUME NEW r \in Requests, Begin(r)
      PROVE  Bounded'
  <2>1. batches[r] \in Seq(Batches)
    BY RetryAssumption
  <2>2. line' \in Seq(Batches)
    BY <1>2, <2>1, ConcatProperties DEF Begin, Bounded
  <2>3. \A b \in Of(r) : b \in Batches /\ stage[b] = "idle"
    BY <1>2, OfType DEF Begin, IInv, RequestInv
  <2>4. \A b \in Batches : BoundsInv(b)'
    BY <1>2, <2>3 DEF IInv, Types, Begin, Bounded, BoundsInv, Ended
  <2> QED
    BY <1>2, <2>2, <2>4 DEF Begin, Bounded
<1>3. ASSUME NEW r \in Requests, Reject(r) \/ Disconnect(r) \/ RequestStep(r)
      PROVE  Bounded'
  <2>1. /\ UNCHANGED <<now, stage, line, retry, deadline, wake, timer, sends>>
        /\ cancelled' = cancelled \/ cancelled' = cancelled \union {b \in Of(r) : stage[b] \notin Ended}
    BY <1>3 DEF Reject, Disconnect, RequestStep, Collect, Fail, Close, CancelBatches
  <2> QED
    BY <2>1, OfType DEF Bounded, BoundsInv
<1>4. CASE Tick
  BY <1>4, RetryAssumption DEF Tick, IInv, Types, Bounded, BoundsInv
<1> QED
  BY <1>1, <1>2, <1>3, <1>4, BatchStepBounded DEF Next

\* Every variable keeps its type: in particular no batch is sent more often than
\* it has attempts, and the semaphore never has more slots than it began with.
THEOREM RetryTypes == Spec => []TypeOK
<1>1. IInv /\ Bounded => TypeOK
  <2> SUFFICES ASSUME IInv, Bounded PROVE TypeOK
    OBVIOUS
  <2>1. free \in 0..MaxInflight
    <3>1. free + Cardinality(Holders) = MaxInflight /\ free \in Nat
      BY DEF IInv, Types, UpstreamSlotsConserved, Holders
    <3>2. Cardinality(Holders) \in Nat
      BY RetryAssumption, FS_Subset, FS_CardinalityType DEF Holders
    <3> QED
      BY <3>1, <3>2, RetryAssumption
  <2>2. \A b \in Batches : /\ retry[b] \in 0..MaxAttempts - 1
                            /\ deadline[b] \in 0..MaxTime /\ timer[b] \in 0..MaxTime
                            /\ sends[b] \in 0..MaxAttempts
    BY RetryAssumption DEF IInv, Types, Bounded, BoundsInv
  <2>3. /\ retry \in [Batches -> 0..MaxAttempts - 1]
        /\ deadline \in [Batches -> 0..MaxTime] /\ timer \in [Batches -> 0..MaxTime]
        /\ sends \in [Batches -> 0..MaxAttempts]
    BY <2>2 DEF IInv, Types
  <2>4. now \in 0..MaxTime
    BY RetryAssumption DEF IInv, Types, Bounded
  <2> QED
    BY <2>1, <2>3, <2>4 DEF IInv, Types, Bounded, TypeOK
<1>2. IInv /\ Bounded /\ [Next]_vars => (IInv /\ Bounded)'
  BY IInvStep, BoundedStep
<1>3. Init => IInv /\ Bounded
  BY InitIInv, InitBounded
<1> QED
  BY <1>1, <1>2, <1>3, PTL DEF Spec

=============================================================================
