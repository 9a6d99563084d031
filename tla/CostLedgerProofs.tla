------------------------- MODULE CostLedgerProofs -------------------------
(***************************************************************************)
(* Proofs about CostLedger, for any pods, attempts, costs, limits and      *)
(* windows, and any distance between the clocks of the pods.               *)
(*                                                                         *)
(* BudgetBound is not inductive by itself.  What it needs (IInv below):    *)
(* the lock has one holder, whose decision stays valid while it holds the  *)
(* lock (DraftFits); a committed row is older than no clock (NotFuture);   *)
(* and a row that a prune took away is settled and older than every        *)
(* window (OldWhenGone, which is where Retention >= ShortWindow and        *)
(* Retention >= Day enter).                                                *)
(***************************************************************************)
EXTENDS CostLedger, TLAPS, FiniteSetTheorems, WellFoundedInduction

---------------------------------------------------------------------------
(* Natural numbers.                                                        *)

\* A non-empty set of natural numbers has a least element.
LEMMA LeastNatural ==
  ASSUME NEW P, P \subseteq Nat, P # {}
  PROVE  \E k \in P : \A j \in P : k <= j
<1> DEFINE R == OpToRel(<, Nat)
<1>1. \A x, y \in Nat : x < y => <<x, y>> \in R
  BY DEF OpToRel
<1>2. IsWellFoundedOn(R, Nat)
  BY NatLessThanWellFounded
<1> HIDE DEF R
<1>3. PICK k \in P : \A j \in P : ~(<<j, k>> \in R)
  BY <1>2, WFMin
<1>4. \A j \in P : j \in Nat /\ k \in Nat /\ ~(j < k)
  BY <1>1, <1>3
<1> QED
  BY <1>4

\* The multiple of d at or below t lies less than d below it ...
LEMMA FloorBounds ==
  ASSUME NEW d \in Nat \ {0}, NEW t \in Nat
  PROVE  /\ (t \div d) * d \in Nat
         /\ (t \div d) * d <= t
         /\ t < (t \div d) * d + d
<1>1. /\ t \div d \in Int
      /\ t = d * (t \div d) + (t % d)
      /\ t % d \in 0..(d - 1)
  OBVIOUS
<1>2. t \div d >= 0
  OBVIOUS
<1> QED
  BY <1>1, <1>2

\* ... and never moves back when t advances.
LEMMA FloorMonotone ==
  ASSUME NEW d \in Nat \ {0}, NEW s \in Nat, NEW t \in Nat, s <= t
  PROVE  (s \div d) * d <= (t \div d) * d
<1> DEFINE p == s \div d
           q == t \div d
<1>1. /\ p \in Int /\ q \in Int
      /\ p * d <= s /\ t < q * d + d
  BY FloorBounds
<1> HIDE DEF p, q
<1>2. p <= q
  <2>1. SUFFICES ASSUME p >= q + 1 PROVE FALSE
    BY <1>1
  <2>2. p * d >= (q + 1) * d
    BY <1>1, <2>1
  <2>3. (q + 1) * d = q * d + d
    BY <1>1
  <2> QED
    BY <1>1, <2>2, <2>3
<1>3. p * d <= q * d
  BY <1>1, <1>2
<1> QED
  BY <1>3 DEF p, q

---------------------------------------------------------------------------
(* Sums.                                                                   *)

Money == Costs \union {0}

LEMMA MoneyIsNat == Money \subseteq Nat
BY LedgerAssumption DEF Money

\* More attempts, and a higher amount for each, never make a smaller sum.
LEMMA TotalMonotone ==
  ASSUME NEW f \in [Attempts -> Money], NEW g \in [Attempts -> Money],
         NEW T \in SUBSET Attempts, NEW S \in SUBSET T,
         \A a \in S : f[a] <= g[a]
  PROVE  /\ Total(f, S) \in Nat
         /\ Total(g, T) \in Nat
         /\ Total(f, S) <= Total(g, T)
<1> DEFINE Ok(X, Y) == (\A a \in X : f[a] <= g[a]) =>
                          /\ Total(f, X) \in Nat
                          /\ Total(g, Y) \in Nat
                          /\ Total(f, X) <= Total(g, Y)
           Bad == {n \in Nat : \E Y \in SUBSET Attempts : \E X \in SUBSET Y :
                                  Cardinality(Y) = n /\ ~Ok(X, Y)}
<1>1. \A Y \in SUBSET Attempts : IsFiniteSet(Y) /\ Cardinality(Y) \in Nat
  BY LedgerAssumption, FS_Subset, FS_CardinalityType
<1>2. ASSUME NEW h \in [Attempts -> Money]
      PROVE  /\ Total(h, {}) = 0
             /\ \A X \in SUBSET Attempts, a \in Attempts :
                   a \notin X => Total(h, X \union {a}) = h[a] + Total(h, X)
             /\ \A a \in Attempts : h[a] \in Nat
  BY TotalAssumption, MoneyIsNat DEF Money
<1>3. Bad = {}
  <2>1. SUFFICES ASSUME Bad # {} PROVE FALSE
    OBVIOUS
  <2>2. PICK n \in Bad : \A m \in Bad : n <= m
    <3>1. Bad \subseteq Nat
      OBVIOUS
    <3> HIDE DEF Bad
    <3> QED
      BY <3>1, <2>1, LeastNatural
  <2>3. PICK Y \in SUBSET Attempts : \E X \in SUBSET Y : Cardinality(Y) = n /\ ~Ok(X, Y)
    BY <2>2
  <2>4. PICK X \in SUBSET Y : Cardinality(Y) = n /\ ~Ok(X, Y)
    BY <2>3
  <2>5. CASE Y = {}
    <3>1. X = {}
      BY <2>5
    <3>2. Total(f, X) = 0 /\ Total(g, Y) = 0
      BY <3>1, <2>5, <1>2
    <3> QED
      BY <3>2, <2>4
  <2>6. CASE Y # {}
    <3>1. PICK a \in Y : TRUE
      BY <2>6
    <3> DEFINE Y0 == Y \ {a}
               X0 == X \ {a}
    <3>2. Y0 \in SUBSET Attempts /\ X0 \in SUBSET Y0 /\ X0 \in SUBSET Attempts /\ a \in Attempts
      BY <3>1
    <3>3. Cardinality(Y0) = n - 1 /\ Cardinality(Y0) \in Nat
      <4>1. Cardinality(Y \ {a}) = Cardinality(Y) - 1
        BY <1>1, <3>1, FS_RemoveElement
      <4> QED
        BY <4>1, <2>4, <1>1, <3>2
    <3>4. Ok(X0, Y0)
      <4>1. (n - 1) \notin Bad
        BY <2>2, <3>3
      <4>2. ~Ok(X0, Y0) => (n - 1) \in Bad
        BY <3>2, <3>3
      <4> QED
        BY <4>1, <4>2
    <3>5. Y = Y0 \union {a} /\ a \notin Y0 /\ a \notin X0
      BY <3>1
    <3>6. Total(g, Y) = g[a] + Total(g, Y0)
      <4> HIDE DEF Y0
      <4> QED
        BY <3>2, <3>5, <1>2
    <3>7. CASE a \in X
      <4>1. X = X0 \union {a}
        BY <3>7
      <4>2. Total(f, X) = f[a] + Total(f, X0)
        <5> HIDE DEF X0
        <5> QED
          BY <4>1, <3>2, <3>5, <1>2
      <4>3. Ok(X, Y)
        <5>1. ASSUME \A b \in X : f[b] <= g[b]
              PROVE  /\ Total(f, X) \in Nat
                     /\ Total(g, Y) \in Nat
                     /\ Total(f, X) <= Total(g, Y)
          <6>1. /\ Total(f, X0) \in Nat /\ Total(g, Y0) \in Nat
                /\ Total(f, X0) <= Total(g, Y0)
            BY <3>4, <5>1
          <6>2. f[a] \in Nat /\ g[a] \in Nat /\ f[a] <= g[a]
            BY <3>2, <3>7, <5>1, <1>2
          <6> HIDE DEF X0, Y0
          <6> QED
            BY <6>1, <6>2, <3>6, <4>2
        <5> QED
          BY <5>1
      <4> QED
        BY <4>3, <2>4
    <3>8. CASE a \notin X
      <4>1. X = X0
        BY <3>8
      <4>2. Ok(X, Y)
        <5>1. ASSUME \A b \in X : f[b] <= g[b]
              PROVE  /\ Total(f, X) \in Nat
                     /\ Total(g, Y) \in Nat
                     /\ Total(f, X) <= Total(g, Y)
          <6>1. /\ Total(f, X0) \in Nat /\ Total(g, Y0) \in Nat
                /\ Total(f, X0) <= Total(g, Y0)
            BY <3>4, <5>1
          <6>2. g[a] \in Nat /\ Total(f, X) = Total(f, X0)
            BY <3>2, <1>2, <4>1
          <6> HIDE DEF X0, Y0
          <6> QED
            BY <6>1, <6>2, <3>6
        <5> QED
          BY <5>1
      <4> QED
        BY <4>2, <2>4
    <3> QED
      BY <3>7, <3>8
  <2> QED
    BY <2>5, <2>6
<1>4. Ok(S, T)
  <2>1. Cardinality(T) \in Nat
    BY <1>1
  <2>2. ~Ok(S, T) => Cardinality(T) \in Bad
    BY <2>1
  <2> QED
    BY <2>2, <1>3
<1> QED
  BY <1>4

---------------------------------------------------------------------------
(* The inductive invariant.                                                *)

\* The lock belongs to the one attempt whose transaction is between the lock
\* and its end.
LockHeld == \A a \in Attempts : job[a] \in {"locked", "drafted"} <=> lock = a

\* How far a transaction is shows in its row.
JobRow ==
    \A a \in Attempts :
        /\ caller[a] = "idle" => job[a] = "none"
        /\ rows[a].status # "none" => job[a] \in {"drafted", "ended"}
        /\ job[a] = "drafted" => rows[a].status \in {"reserved", "blocked"}
        /\ a \in ledger => job[a] = "ended"
        /\ rows[a].status = "reserved" => rows[a].estimated = rows[a].forecast
        /\ rows[a].status \in {"none", "blocked"} => rows[a].estimated = 0
        /\ job[a] \in {"ready", "locked", "drafted"} => rows[a].forecast \in Costs

\* No row is younger than the clock of its pod.
NotFuture == \A a \in Attempts : rows[a].created <= clock[Home[a]]

\* A reservation leaves the table only settled, and older than the retention.
OldWhenGone ==
    \A a \in Admitted : a \notin ledger => rows[a].status = "finalized" /\ Pruned(a)

\* A decision is still right while its transaction is open.
DraftFits ==
    \A a \in Attempts, cost \in Money, t \in 0..MaxTime :
        job[a] = "drafted" /\ rows[a].forecast = cost /\ rows[a].created = t
            => (rows[a].status = "reserved" <=> Fits(cost, t))

\* Who may send, or has sent, owns a reservation.
PaidRow ==
    \A a \in Attempts :
        /\ caller[a] \in {"admitted", "sending"} =>
              a \in ledger /\ rows[a].status = "reserved" /\ usage[a] = Unset
        /\ usage[a] # Unset \/ caller[a] = "sending" => a \in paid
        /\ a \in paid => a \in Admitted /\ caller[a] \in {"sending", "gone"}

IInv ==
    /\ TypeOK
    /\ LockHeld
    /\ JobRow
    /\ NotFuture
    /\ OldWhenGone
    /\ DraftFits
    /\ BudgetBound
    /\ PaidRow

---------------------------------------------------------------------------
(* Amounts and windows.                                                    *)

LEMMA RowTypes ==
  ASSUME TypeOK, NEW a \in Attempts
  PROVE  /\ rows[a] \in Row
         /\ rows[a].status \in RowStatus
         /\ rows[a].forecast \in Money /\ rows[a].forecast \in Nat
         /\ rows[a].estimated \in Money /\ rows[a].estimated \in Nat
         /\ rows[a].created \in Nat /\ rows[a].created \in 0..MaxTime
         /\ Home[a] \in Pods
<1>1. rows[a] \in Row
  BY DEF TypeOK
<1>2. /\ rows[a].status \in RowStatus
      /\ rows[a].forecast \in Money /\ rows[a].estimated \in Money
      /\ rows[a].created \in 0..MaxTime
  BY <1>1 DEF Row, Money
<1>3. rows[a].created \in Nat
  BY <1>2, LedgerAssumption
<1>4. Home[a] \in Pods
  BY LedgerAssumption
<1>5. rows[a].forecast \in Nat /\ rows[a].estimated \in Nat
  BY <1>2, MoneyIsNat
<1> QED
  BY <1>1, <1>2, <1>3, <1>4, <1>5

LEMMA AmountTypes ==
  ASSUME TypeOK
  PROVE  /\ Amount \in [Attempts -> Money]
         /\ Foreseen \in [Attempts -> Money]
         /\ \A a \in Attempts :
              /\ Amount[a] \in Nat /\ Foreseen[a] \in Nat
              /\ Foreseen[a] <= Amount[a] /\ Foreseen[a] <= rows[a].forecast
              /\ rows[a].status = "reserved" => Amount[a] = rows[a].forecast
                                                /\ Foreseen[a] = rows[a].forecast
<1>1. ASSUME NEW a \in Attempts
      PROVE  /\ Amount[a] \in Money
             /\ Amount[a] \in Nat
             /\ rows[a].status = "reserved" => Amount[a] = rows[a].forecast
  <2>1. rows[a].forecast \in Money /\ rows[a].estimated \in Money /\ 0 \in Money
    BY RowTypes DEF Money
  <2>2. Amount[a] = CASE rows[a].status = "reserved"  -> rows[a].forecast
                      [] rows[a].status = "finalized" -> rows[a].estimated
                      [] OTHER                        -> 0
    BY DEF Amount
  <2>3. Amount[a] \in Money /\ (rows[a].status = "reserved" => Amount[a] = rows[a].forecast)
    BY <2>1, <2>2
  <2> QED
    BY <2>3, MoneyIsNat
<1>2. Amount \in [Attempts -> Money]
  BY <1>1 DEF Amount
<1>3. ASSUME NEW a \in Attempts
      PROVE  /\ Foreseen[a] = IF Amount[a] <= rows[a].forecast THEN Amount[a]
                              ELSE rows[a].forecast
             /\ rows[a].forecast \in Money /\ rows[a].forecast \in Nat
  BY RowTypes DEF Foreseen
<1>4. ASSUME NEW a \in Attempts
      PROVE  /\ Foreseen[a] \in Money /\ Foreseen[a] \in Nat
             /\ Foreseen[a] <= Amount[a] /\ Foreseen[a] <= rows[a].forecast
             /\ rows[a].status = "reserved" => Foreseen[a] = rows[a].forecast
  BY <1>1, <1>3
<1>5. Foreseen \in [Attempts -> Money]
  <2>1. Foreseen = [a \in Attempts |-> Foreseen[a]]
    BY DEF Foreseen
  <2> QED
    BY <2>1, <1>4
<1> QED
  BY <1>1, <1>2, <1>4, <1>5

LEMMA NextAmountType ==
  ASSUME TypeOK'
  PROVE  Amount' \in [Attempts -> Money]
<1>1. ASSUME NEW a \in Attempts
      PROVE  /\ rows'[a].forecast \in Money /\ rows'[a].estimated \in Money
             /\ 0 \in Money
  BY DEF TypeOK, Row, Money
<1> QED
  BY <1>1 DEF Amount

LEMMA NextForeseenType ==
  ASSUME TypeOK'
  PROVE  Foreseen' \in [Attempts -> Money]
<1>1. ASSUME NEW a \in Attempts
      PROVE  /\ rows'[a].forecast \in Money /\ rows'[a].estimated \in Money
             /\ 0 \in Money
  BY DEF TypeOK, Row, Money
<1>2. ASSUME NEW a \in Attempts
      PROVE  Amount'[a] \in Money
  BY <1>1 DEF Amount
<1>3. ASSUME NEW a \in Attempts
      PROVE  (IF Amount'[a] <= rows'[a].forecast THEN Amount'[a] ELSE rows'[a].forecast) \in Money
  BY <1>1, <1>2
<1> QED
  BY <1>3 DEF Foreseen

\* Both windows that end at t begin at most Retention before t.
LEMMA WindowStarts ==
  ASSUME NEW t \in Nat
  PROVE  /\ t - ShortWindow \in Int /\ t - Retention <= t - ShortWindow
         /\ DayStart(t) \in Int /\ t - Retention <= DayStart(t)
         /\ \A s \in Nat : s <= t => s - ShortWindow <= t - ShortWindow
                                     /\ DayStart(s) <= DayStart(t)
<1>1. ShortWindow \in Nat /\ Day \in Nat \ {0} /\ Retention \in Nat
      /\ Retention >= ShortWindow /\ Retention >= Day
  BY LedgerAssumption, RetentionAssumption
<1>2. DayStart(t) \in Nat /\ t < DayStart(t) + Day
  BY <1>1, FloorBounds DEF DayStart
<1>3. \A s \in Nat : s <= t => DayStart(s) <= DayStart(t)
  BY <1>1, FloorMonotone DEF DayStart
<1> QED
  BY <1>1, <1>2, <1>3

\* A step that admits nothing new and touches no admitted row keeps the bound.
LEMMA HistoryKeepsBudget ==
  ASSUME IInv, TypeOK',
         \A p \in Pods : clock[p] <= clock'[p],
         Admitted' \subseteq Admitted,
         \A a \in Admitted' : Foreseen'[a] <= Foreseen[a]
                              /\ rows'[a].created = rows[a].created
                              /\ (rows'[a].status = "reserved" => rows[a].status = "reserved")
  PROVE  BudgetBound'
<1>1. ASSUME NEW c \in Int
      PROVE  Total(Foreseen', Answerable(c)') <= Total(Foreseen, Answerable(c))
             /\ Total(Foreseen', Answerable(c)') \in Nat
             /\ Total(Foreseen, Answerable(c)) \in Nat
  <2>1. Answerable(c)' \in SUBSET Answerable(c) /\ Answerable(c) \in SUBSET Attempts
        /\ Answerable(c)' \subseteq Admitted'
    BY DEF Answerable, Admitted
  <2>2. Foreseen' \in [Attempts -> Money] /\ Foreseen \in [Attempts -> Money]
    BY AmountTypes, NextForeseenType DEF IInv
  <2>3. \A a \in Answerable(c)' : Foreseen'[a] <= Foreseen[a]
    BY <2>1
  <2> QED
    BY <2>1, <2>2, <2>3, TotalMonotone
<1>2. ASSUME NEW t \in 0..MaxTime, Current(t)'
      PROVE  /\ Total(Foreseen', Answerable(t - ShortWindow)') <= ShortLimit
             /\ Total(Foreseen', Answerable(DayStart(t))') <= DailyLimit
  <2>1. t \in Nat /\ MaxTime \in Nat /\ ShortLimit \in Nat /\ DailyLimit \in Nat
    BY LedgerAssumption
  <2>2. Current(t)
    <3>1. \A p \in Pods : clock[p] \in Nat /\ clock'[p] \in Nat
      BY LedgerAssumption DEF IInv, TypeOK
    <3> QED
      BY <3>1, <1>2, <2>1 DEF Current
  <2>3. /\ Total(Foreseen, Answerable(t - ShortWindow)) <= ShortLimit
        /\ Total(Foreseen, Answerable(DayStart(t))) <= DailyLimit
    BY <2>2 DEF IInv, BudgetBound
  <2>4. t - ShortWindow \in Int /\ DayStart(t) \in Int
    BY <2>1, WindowStarts
  <2> QED
    BY <2>1, <2>3, <2>4, <1>1
<1> QED
  BY <1>2 DEF BudgetBound

\* In particular one that leaves the admitted rows as they are.
LEMMA KeptBudget ==
  ASSUME IInv, TypeOK',
         \A p \in Pods : clock[p] <= clock'[p],
         \A a \in Admitted' : a \in Admitted /\ rows'[a] = rows[a]
  PROVE  BudgetBound'
<1>1. TypeOK /\ \A a \in Attempts : Foreseen[a] \in Nat
  BY AmountTypes DEF IInv
<1>2. ASSUME NEW a \in Admitted'
      PROVE  Foreseen'[a] <= Foreseen[a]
  <2>1. a \in Attempts /\ rows'[a] = rows[a]
    BY <1>2 DEF Admitted
  <2>2. Amount'[a] = Amount[a]
    BY <2>1 DEF Amount
  <2>3. Foreseen'[a] = Foreseen[a]
    BY <2>1, <2>2 DEF Foreseen
  <2> QED
    BY <1>1, <2>1, <2>3
<1> QED
  BY <1>2, HistoryKeepsBudget

\* Settling a reservation charges at most its forecast to what was foreseen.
LEMMA SettleKeepsBudget ==
  ASSUME IInv, TypeOK', NEW a \in Attempts, Settle(a)
  PROVE  BudgetBound'
<1>1. /\ TypeOK /\ \A b \in Attempts : Foreseen[b] \in Nat
      /\ \A p \in Pods : clock[p] \in Nat
  BY AmountTypes, LedgerAssumption DEF IInv, TypeOK
<1>2. Foreseen[a] = rows[a].forecast /\ rows[a].forecast \in Nat
  BY <1>1, AmountTypes, RowTypes DEF Settle
<1>3. /\ rows[a].status = "reserved" /\ rows'[a].status = "finalized"
      /\ rows'[a].forecast = rows[a].forecast /\ rows'[a].created = rows[a].created
      /\ \A b \in Attempts \ {a} : rows'[b] = rows[b]
  BY <1>1 DEF Settle, TypeOK, Row
<1>4. Amount'[a] \in Nat
  BY NextAmountType, MoneyIsNat
<1>5. Foreseen'[a] <= Foreseen[a]
  <2>1. Foreseen'[a] = IF Amount'[a] <= rows'[a].forecast THEN Amount'[a]
                       ELSE rows'[a].forecast
    BY DEF Foreseen
  <2> QED
    BY <2>1, <1>2, <1>3, <1>4
<1>6. ASSUME NEW b \in Attempts \ {a}
      PROVE  Foreseen'[b] <= Foreseen[b]
  <2>1. Amount'[b] = Amount[b]
    BY <1>3 DEF Amount
  <2>2. Foreseen'[b] = Foreseen[b]
    BY <1>3, <2>1 DEF Foreseen
  <2> QED
    BY <1>1, <2>2
<1>7. Admitted' \subseteq Admitted /\ Admitted' \subseteq Attempts
  BY <1>3 DEF Admitted, Settle
<1>8. \A p \in Pods : clock[p] <= clock'[p]
  BY <1>1 DEF Settle
<1> QED
  BY <1>3, <1>5, <1>6, <1>7, <1>8, HistoryKeepsBudget

\* Admitting the attempt whose decision was taken under the lock keeps it.
LEMMA CommitKeepsBudget ==
  ASSUME IInv, TypeOK', NEW a \in Attempts,
         job[a] = "drafted",
         job' = [job EXCEPT ![a] = "ended"],
         UNCHANGED <<clock, rows>>
  PROVE  BudgetBound'
<1>1. TypeOK /\ Foreseen' = Foreseen
  BY DEF IInv, Foreseen, Amount
<1>2. CASE rows[a].status # "reserved"
  <2>1. Admitted' = Admitted
    BY <1>2, <1>1 DEF IInv, TypeOK, JobRow, Admitted
  <2>2. \A b \in Attempts : Foreseen'[b] <= Foreseen[b]
    BY <1>1, AmountTypes
  <2>3. \A p \in Pods : clock[p] <= clock'[p]
    BY LedgerAssumption, <1>1 DEF TypeOK
  <2> QED
    BY <2>1, <2>2, <2>3, HistoryKeepsBudget DEF Admitted
<1>3. CASE rows[a].status = "reserved"
  <2>1. Admitted' = Admitted \union {a} /\ a \notin ledger
    BY <1>3, <1>1 DEF IInv, TypeOK, JobRow, Admitted
  <2>2. Fits(rows[a].forecast, rows[a].created)
    <3>1. rows[a].forecast \in Money /\ rows[a].created \in 0..MaxTime
      BY <1>1, RowTypes
    <3> QED
      BY <1>3, <3>1 DEF IInv, DraftFits
  <2>3. rows[a].created \in Nat /\ rows[a].forecast \in Nat
    BY <1>1, RowTypes
  <2>4. ASSUME NEW t \in 0..MaxTime, Current(t)', NEW c \in Int, NEW d \in Int,
               c <= d, t - Retention <= d
        PROVE  /\ Total(Foreseen', Answerable(d)') <= SpendSince(c) + rows[a].forecast
               /\ Total(Foreseen', Answerable(d)') \in Nat
               /\ SpendSince(c) \in Nat
    <3>1. CountedSince(c) \in SUBSET Attempts /\ a \notin CountedSince(c)
      BY <1>1, <2>1 DEF CountedSince, TypeOK
    <3>2. Answerable(d)' \subseteq CountedSince(c) \union {a}
      <4>1. SUFFICES ASSUME NEW b \in Answerable(d)', b # a
                     PROVE  b \in CountedSince(c)
        OBVIOUS
      <4>2. b \in Admitted /\ (rows[b].created >= d \/ rows[b].status = "reserved")
        BY <4>1, <2>1 DEF Answerable
      <4>3. b \in Attempts /\ rows[b].created \in Nat
        BY <4>2, <1>1, RowTypes DEF Admitted
      <4>4. b \in ledger
        <5>1. SUFFICES ASSUME b \notin ledger PROVE FALSE
          OBVIOUS
        <5>2. rows[b].status = "finalized" /\ Pruned(b)
          BY <5>1, <4>2 DEF IInv, OldWhenGone
        <5>3. PICK p \in Pods : rows[b].created < clock[p] - Retention
          BY <5>2 DEF Pruned
        <5>4. clock[p] \in Nat /\ clock[p] <= t /\ t \in Nat /\ Retention \in Nat
          BY <2>4, <1>1, LedgerAssumption, RetentionAssumption DEF TypeOK, Current
        <5> QED
          BY <5>2, <5>3, <5>4, <4>2, <4>3, <2>4
      <4> QED
        BY <4>2, <4>3, <4>4, <2>4 DEF CountedSince
    <3>3. /\ Total(Foreseen, Answerable(d)') <= Total(Amount, CountedSince(c) \union {a})
          /\ Total(Foreseen, Answerable(d)') \in Nat
      <4>1. Answerable(d)' \in SUBSET (CountedSince(c) \union {a})
            /\ CountedSince(c) \union {a} \in SUBSET Attempts
        BY <3>1, <3>2
      <4>2. \A b \in Answerable(d)' : Foreseen[b] <= Amount[b]
        BY <4>1, <1>1, AmountTypes
      <4>3. Foreseen \in [Attempts -> Money] /\ Amount \in [Attempts -> Money]
        BY <1>1, AmountTypes
      <4> QED
        BY <4>1, <4>2, <4>3, TotalMonotone
    <3>4. /\ Total(Amount, CountedSince(c) \union {a}) = Amount[a] + Total(Amount, CountedSince(c))
          /\ Amount[a] = rows[a].forecast
      <4>1. Amount \in [Attempts -> Costs \union {0}]
        BY <1>1, AmountTypes DEF Money
      <4> QED
        BY <4>1, <3>1, <1>1, <1>3, AmountTypes, TotalAssumption
    <3>5. Total(Amount, CountedSince(c)) \in Nat
      <4>1. Amount \in [Attempts -> Money] /\ \A b \in Attempts : Amount[b] \in Nat
        BY <1>1, AmountTypes
      <4>2. \A b \in CountedSince(c) : Amount[b] <= Amount[b]
        BY <4>1, <3>1
      <4> QED
        BY <4>1, <4>2, <3>1, TotalMonotone
    <3> QED
      BY <3>3, <3>4, <3>5, <2>3, <1>1 DEF SpendSince
  <2>5. ASSUME NEW t \in 0..MaxTime, Current(t)'
        PROVE  /\ Total(Foreseen', Answerable(t - ShortWindow)') <= ShortLimit
               /\ Total(Foreseen', Answerable(DayStart(t))') <= DailyLimit
    <3> DEFINE s == rows[a].created
    <3>1. s \in Nat /\ t \in Nat /\ s <= t
      <4>1. s <= clock[Home[a]] /\ Home[a] \in Pods
        BY <1>1, RowTypes DEF IInv, NotFuture
      <4>2. clock[Home[a]] \in Nat /\ clock[Home[a]] <= t /\ t \in Nat
        BY <4>1, <2>5, <1>1, LedgerAssumption DEF TypeOK, Current
      <4> QED
        BY <4>1, <4>2, <2>3
    <3>2. /\ s - ShortWindow \in Int /\ t - ShortWindow \in Int
          /\ s - ShortWindow <= t - ShortWindow /\ t - Retention <= t - ShortWindow
          /\ DayStart(s) \in Int /\ DayStart(t) \in Int
          /\ DayStart(s) <= DayStart(t) /\ t - Retention <= DayStart(t)
      BY <3>1, WindowStarts
    <3>3. /\ SpendSince(s - ShortWindow) + rows[a].forecast <= ShortLimit
          /\ SpendSince(DayStart(s)) + rows[a].forecast <= DailyLimit
      BY <2>2 DEF Fits
    <3> HIDE DEF s
    <3>4. /\ Total(Foreseen', Answerable(t - ShortWindow)')
                <= SpendSince(s - ShortWindow) + rows[a].forecast
          /\ Total(Foreseen', Answerable(t - ShortWindow)') \in Nat
          /\ SpendSince(s - ShortWindow) \in Nat
      BY <2>4, <2>5, <3>2
    <3>5. /\ Total(Foreseen', Answerable(DayStart(t))')
                <= SpendSince(DayStart(s)) + rows[a].forecast
          /\ Total(Foreseen', Answerable(DayStart(t))') \in Nat
          /\ SpendSince(DayStart(s)) \in Nat
      BY <2>4, <2>5, <3>2
    <3> QED
      BY <3>3, <3>4, <3>5, <2>3, LedgerAssumption
  <2> QED
    BY <2>5 DEF BudgetBound
<1> QED
  BY <1>2, <1>3

---------------------------------------------------------------------------
(* Every step keeps the type invariant.                                    *)

LEMMA InitIInv == Init => IInv
<1>1. SUFFICES ASSUME Init PROVE IInv
  OBVIOUS
<1>2. TypeOK
  BY <1>1, LedgerAssumption
     DEF Init, TypeOK, Row, NoRow, RowStatus, JobState, CallerState
<1>3. LockHeld /\ JobRow /\ DraftFits /\ PaidRow
  BY <1>1, LedgerAssumption DEF Init, LockHeld, JobRow, DraftFits, PaidRow, NoRow
<1>4. NotFuture
  BY <1>1, LedgerAssumption DEF Init, NotFuture, NoRow
<1>5. Admitted = {}
  BY <1>1 DEF Init, Admitted
<1>6. BudgetBound
  <2>1. ASSUME NEW c PROVE Total(Foreseen, Answerable(c)) = 0
    <3>1. Answerable(c) = {}
      BY <1>5 DEF Answerable
    <3>2. Foreseen \in [Attempts -> Costs \union {0}]
      BY <1>2, AmountTypes DEF Money
    <3> QED
      BY <3>1, <3>2, TotalAssumption
  <2> QED
    BY <2>1, LedgerAssumption DEF BudgetBound
<1> QED
  BY <1>2, <1>3, <1>4, <1>5, <1>6 DEF IInv, OldWhenGone

LEMMA TypeStep ==
  ASSUME TypeOK, [Next]_vars
  PROVE  TypeOK'
<1>1. CASE UNCHANGED vars
  BY <1>1 DEF vars, TypeOK
<1>2. ASSUME NEW a \in Attempts, Attempt(a)
      PROVE  TypeOK'
  <2>1. /\ clock[Home[a]] \in 0..MaxTime
        /\ 0 \in 0..MaxTime
    BY LedgerAssumption DEF TypeOK
  <2>2. CASE Preflight(a)
    BY <2>2, <2>1 DEF Preflight, TypeOK, Row, RowStatus, JobState, CallerState
  <2>3. CASE Lock(a)
    BY <2>3 DEF Lock, TypeOK, JobState
  <2>4. CASE Decide(a)
    BY <2>4 DEF Decide, TypeOK, Row, RowStatus, JobState
  <2>5. CASE Commit(a) \/ CommitUnheard(a)
    BY <2>5 DEF Commit, CommitUnheard, Unlock, TypeOK, JobState, CallerState
  <2>6. CASE Abort(a)
    BY <2>6, <2>1 DEF Abort, Unlock, TypeOK, Row, RowStatus, NoRow, JobState, CallerState
  <2>7. CASE GiveUp(a) \/ Send(a)
    BY <2>7 DEF GiveUp, Send, TypeOK, CallerState
  <2>8. CASE Respond(a) \/ Drop(a)
    BY <2>8 DEF Respond, Drop, TypeOK, CallerState
  <2>9. CASE Settle(a)
    <3>1. usage[a] \in Costs \union {0}
      BY <2>9 DEF Settle, TypeOK
    <3>2. [rows[a] EXCEPT !.status = "finalized", !.estimated = usage[a]] \in Row
      BY <3>1 DEF TypeOK, Row, RowStatus
    <3>3. rows' = [rows EXCEPT ![a] = [rows[a] EXCEPT !.status = "finalized", !.estimated = usage[a]]]
      BY <2>9 DEF Settle, TypeOK
    <3>4. rows' \in [Attempts -> Row]
      BY <3>2, <3>3 DEF TypeOK
    <3> QED
      BY <2>9, <3>4 DEF Settle, TypeOK
  <2> QED
    BY <1>2, <2>2, <2>3, <2>4, <2>5, <2>6, <2>7, <2>8, <2>9 DEF Attempt
<1>3. ASSUME NEW p \in Pods, Prune(p) \/ Tick(p) \/ Crash(p)
      PROVE  TypeOK'
  <2>1. CASE Prune(p)
    BY <2>1 DEF Prune, TypeOK
  <2>2. CASE Tick(p)
    BY <2>2, LedgerAssumption DEF Tick, TypeOK
  <2>3. CASE Crash(p)
    <3>1. NoRow \in Row
      BY LedgerAssumption DEF NoRow, Row, RowStatus
    <3> QED
      BY <2>3, <3>1 DEF Crash, TypeOK, JobState, CallerState
  <2> QED
    BY <1>3, <2>1, <2>2, <2>3
<1> QED
  BY <1>1, <1>2, <1>3 DEF Next

---------------------------------------------------------------------------
(* Every step keeps the bookkeeping of locks, jobs and reservations.       *)

LEMMA LockHeldStep ==
  ASSUME TypeOK, LockHeld, JobRow, [Next]_vars
  PROVE  LockHeld'
<1>1. CASE UNCHANGED vars
  BY <1>1 DEF vars, LockHeld
<1>2. ASSUME NEW a \in Attempts, Attempt(a)
      PROVE  LockHeld'
  <2>1. NoHolder \notin Attempts
    BY LedgerAssumption
  <2>2. CASE Preflight(a) \/ Lock(a)
    BY <2>1, <2>2 DEF Preflight, Lock, LockHeld, JobRow, TypeOK
  <2>3. CASE Decide(a)
    BY <2>3 DEF Decide, LockHeld, TypeOK
  <2>4. CASE Commit(a) \/ CommitUnheard(a) \/ Abort(a)
    BY <2>1, <2>4 DEF Commit, CommitUnheard, Abort, Unlock, LockHeld, TypeOK
  <2>5. CASE UNCHANGED <<lock, job>>
    BY <2>5 DEF LockHeld
  <2> QED
    BY <1>2, <2>2, <2>3, <2>4, <2>5
    DEF Attempt, GiveUp, Send, Respond, Drop, Settle
<1>3. ASSUME NEW p \in Pods, Prune(p) \/ Tick(p) \/ Crash(p)
      PROVE  LockHeld'
  <2>1. CASE Crash(p)
    <3>1. NoHolder \notin Attempts
      BY LedgerAssumption
    <3> QED
      BY <2>1, <3>1 DEF Crash, Running, LockHeld, TypeOK
  <2> QED
    BY <1>3, <2>1 DEF Prune, Tick, LockHeld
<1> QED
  BY <1>1, <1>2, <1>3 DEF Next

LEMMA JobRowStep ==
  ASSUME TypeOK, LockHeld, JobRow, PaidRow, [Next]_vars
  PROVE  JobRow'
<1>1. CASE UNCHANGED vars
  BY <1>1 DEF vars, JobRow
<1>2. ASSUME NEW a \in Attempts, Attempt(a)
      PROVE  JobRow'
  <2>1. CASE Preflight(a)
    BY <2>1 DEF Preflight, JobRow, TypeOK
  <2>2. CASE Lock(a)
    BY <2>2 DEF Lock, JobRow, TypeOK
  <2>3. CASE Decide(a)
    BY <2>3 DEF Decide, JobRow, TypeOK, Row
  <2>4. CASE Commit(a) \/ CommitUnheard(a)
    BY <2>4 DEF Commit, CommitUnheard, JobRow, TypeOK, CallerState
  <2>5. CASE Abort(a)
    BY <2>5 DEF Abort, JobRow, TypeOK, NoRow
  <2>6. CASE GiveUp(a) \/ Send(a) \/ Respond(a) \/ Drop(a)
    BY <2>6 DEF GiveUp, Send, Respond, Drop, JobRow, TypeOK
  <2>7. CASE Settle(a)
    BY <2>7 DEF Settle, JobRow, TypeOK, Row
  <2> QED
    BY <1>2, <2>1, <2>2, <2>3, <2>4, <2>5, <2>6, <2>7 DEF Attempt
<1>3. ASSUME NEW p \in Pods, Prune(p) \/ Tick(p) \/ Crash(p)
      PROVE  JobRow'
  <2>1. CASE Crash(p)
    BY <2>1 DEF Crash, Running, JobRow, TypeOK, NoRow
  <2> QED
    BY <1>3, <2>1 DEF Prune, Tick, JobRow
<1> QED
  BY <1>1, <1>2, <1>3 DEF Next

LEMMA NotFutureStep ==
  ASSUME TypeOK, NotFuture, [Next]_vars
  PROVE  NotFuture'
<1>1. /\ Home \in [Attempts -> Pods] /\ MaxTime \in Nat
      /\ \A p \in Pods : clock[p] \in Nat
      /\ \A b \in Attempts : rows[b].created \in Nat
  BY LedgerAssumption, RowTypes DEF TypeOK
<1>2. CASE UNCHANGED vars
  BY <1>2 DEF vars, NotFuture
<1>3. ASSUME NEW a \in Attempts, Attempt(a)
      PROVE  NotFuture'
  <2>1. CASE Preflight(a)
    BY <1>1, <2>1 DEF Preflight, NotFuture, TypeOK
  <2>2. CASE Decide(a)
    BY <1>1, <2>2 DEF Decide, NotFuture, TypeOK, Row
  <2>3. CASE Abort(a)
    BY <1>1, <2>3 DEF Abort, NotFuture, TypeOK, NoRow
  <2>4. CASE Settle(a)
    BY <1>1, <2>4 DEF Settle, NotFuture, TypeOK, Row
  <2>5. CASE UNCHANGED <<clock, rows>>
    BY <2>5 DEF NotFuture
  <2> QED
    BY <1>3, <2>1, <2>2, <2>3, <2>4, <2>5
    DEF Attempt, Lock, Commit, CommitUnheard, GiveUp, Send, Respond, Drop
<1>4. ASSUME NEW p \in Pods, Prune(p) \/ Tick(p) \/ Crash(p)
      PROVE  NotFuture'
  <2>1. CASE Tick(p)
    BY <1>1, <2>1 DEF Tick, NotFuture, TypeOK
  <2>2. CASE Crash(p)
    BY <1>1, <2>2 DEF Crash, NotFuture, TypeOK, NoRow
  <2> QED
    BY <1>4, <2>1, <2>2 DEF Prune, NotFuture
<1> QED
  BY <1>2, <1>3, <1>4 DEF Next

LEMMA PaidRowStep ==
  ASSUME TypeOK, LockHeld, JobRow, PaidRow, [Next]_vars
  PROVE  PaidRow'
<1>1. CASE UNCHANGED vars
  BY <1>1 DEF vars, PaidRow, Admitted
<1>2. ASSUME NEW a \in Attempts, Attempt(a)
      PROVE  PaidRow'
  <2>1. CASE Preflight(a)
    BY <2>1 DEF Preflight, JobRow, PaidRow, Admitted, TypeOK
  <2>2. CASE Lock(a)
    BY <2>2 DEF Lock, JobRow, PaidRow, Admitted, TypeOK
  <2>3. CASE Decide(a)
    BY <2>3 DEF Decide, JobRow, PaidRow, Admitted, TypeOK, Row
  <2>4. CASE Commit(a) \/ CommitUnheard(a)
    BY <2>4 DEF Commit, CommitUnheard, JobRow, PaidRow, Admitted, TypeOK, CallerState
  <2>5. CASE Abort(a)
    BY <2>5 DEF Abort, JobRow, PaidRow, Admitted, TypeOK, NoRow
  <2>6. CASE GiveUp(a) \/ Send(a)
    BY <2>6 DEF GiveUp, Send, JobRow, PaidRow, Admitted, TypeOK
  <2>7. CASE Respond(a) \/ Drop(a)
    BY <2>7 DEF Respond, Drop, JobRow, PaidRow, Admitted, TypeOK
  <2>8. CASE Settle(a)
    BY <2>8 DEF Settle, JobRow, PaidRow, Admitted, TypeOK, Row
  <2> QED
    BY <1>2, <2>1, <2>2, <2>3, <2>4, <2>5, <2>6, <2>7, <2>8 DEF Attempt
<1>3. ASSUME NEW p \in Pods, Prune(p) \/ Tick(p) \/ Crash(p)
      PROVE  PaidRow'
  <2>1. CASE Crash(p)
    BY <2>1 DEF Crash, Running, JobRow, PaidRow, Admitted, TypeOK, NoRow
  <2>2. CASE Prune(p)
    BY <2>2 DEF Prune, PaidRow, Admitted, TypeOK
  <2>3. CASE Tick(p)
    BY <2>3 DEF Tick, PaidRow, Admitted
  <2> QED
    BY <1>3, <2>1, <2>2, <2>3
<1> QED
  BY <1>1, <1>2, <1>3 DEF Next

\* A row that is settled stays as it is, and one that is gone stays gone.
LEMMA OldWhenGoneStep ==
  ASSUME IInv, [Next]_vars
  PROVE  OldWhenGone'
<1>1. TypeOK /\ JobRow /\ OldWhenGone /\ Retention \in Nat
      /\ MaxTime \in Nat /\ \A p \in Pods : clock[p] \in Nat
      /\ \A a \in Attempts : rows[a].created \in Nat
  BY LedgerAssumption, RetentionAssumption, RowTypes DEF IInv, TypeOK
<1>2. CASE UNCHANGED vars
  BY <1>1, <1>2 DEF vars, OldWhenGone, Admitted, Pruned
<1>3. ASSUME NEW a \in Attempts, Attempt(a)
      PROVE  OldWhenGone'
  <2>1. clock' = clock
    BY <1>3 DEF Attempt, Preflight, Lock, Decide, Commit, CommitUnheard, Abort,
                GiveUp, Send, Respond, Drop, Settle
  <2>2. SUFFICES ASSUME NEW b \in Admitted', b \notin ledger'
                 PROVE  b \in Admitted /\ b \notin ledger /\ rows'[b] = rows[b]
    BY <1>1, <2>1, <2>2 DEF OldWhenGone, Pruned
  <2>3. CASE Preflight(a)
    BY <1>1, <2>2, <2>3 DEF Preflight, Admitted, TypeOK
  <2>4. CASE Lock(a)
    BY <1>1, <2>2, <2>4 DEF Lock, Admitted, TypeOK
  <2>5. CASE Decide(a)
    BY <1>1, <2>2, <2>5 DEF Decide, Admitted, TypeOK
  <2>6. CASE Commit(a) \/ CommitUnheard(a)
    BY <1>1, <2>2, <2>6 DEF Commit, CommitUnheard, Admitted, TypeOK
  <2>7. CASE Abort(a)
    BY <1>1, <2>2, <2>7 DEF Abort, Admitted, TypeOK, NoRow
  <2>8. CASE Settle(a)
    BY <1>1, <2>2, <2>8 DEF Settle, Admitted, TypeOK
  <2>9. CASE UNCHANGED <<rows, job, ledger>>
    BY <2>2, <2>9 DEF Admitted
  <2> QED
    BY <1>3, <2>3, <2>4, <2>5, <2>6, <2>7, <2>8, <2>9
    DEF Attempt, GiveUp, Send, Respond, Drop
<1>4. ASSUME NEW p \in Pods, Prune(p) \/ Tick(p) \/ Crash(p)
      PROVE  OldWhenGone'
  <2>1. SUFFICES ASSUME NEW b \in Admitted', b \notin ledger'
                 PROVE  rows'[b].status = "finalized" /\ Pruned(b)'
    BY DEF OldWhenGone
  <2>2. CASE Prune(p)
    <3>1. b \in Admitted /\ b \in Attempts /\ rows' = rows /\ clock' = clock
      BY <2>1, <2>2 DEF Prune, Admitted
    <3>2. CASE b \in ledger
      <4>1. ~(rows[b].created >= clock[p] - Retention) /\ rows[b].status # "reserved"
        BY <2>1, <2>2, <3>2 DEF Prune
      <4>2. clock[p] \in Nat /\ rows[b].created \in Nat
        BY <1>1, <3>1
      <4>3. rows[b].created < clock[p] - Retention
        BY <1>1, <4>1, <4>2
      <4> QED
        BY <3>1, <4>1, <4>3 DEF Admitted, Pruned
    <3>3. CASE b \notin ledger
      BY <1>1, <3>1, <3>3 DEF OldWhenGone, Pruned
    <3> QED
      BY <3>2, <3>3
  <2>3. CASE Tick(p)
    <3>1. b \in Admitted /\ b \notin ledger /\ rows' = rows /\ b \in Attempts
      BY <2>1, <2>3 DEF Tick, Admitted
    <3>2. PICK q \in Pods : rows[b].created < clock[q] - Retention
      BY <1>1, <3>1 DEF OldWhenGone, Pruned
    <3>3. clock'[q] \in Nat /\ clock[q] <= clock'[q]
      BY <1>1, <2>3 DEF Tick, TypeOK
    <3>4. rows[b].created < clock'[q] - Retention
      BY <1>1, <3>1, <3>2, <3>3
    <3> QED
      BY <1>1, <3>1, <3>4 DEF OldWhenGone, Pruned
  <2>4. CASE Crash(p)
    <3>1. b \in Admitted /\ b \notin ledger /\ rows'[b] = rows[b] /\ clock' = clock
      BY <1>1, <2>1, <2>4 DEF Crash, Running, Admitted, TypeOK, NoRow, JobRow
    <3> QED
      BY <1>1, <3>1 DEF OldWhenGone, Pruned
  <2> QED
    BY <1>4, <2>2, <2>3, <2>4
<1> QED
  BY <1>2, <1>3, <1>4 DEF Next

---------------------------------------------------------------------------
(* Every step keeps the decisions and the budget.                          *)

\* A step that leaves the table alone does not change what is spent.
LEMMA SpendKept ==
  ASSUME TypeOK, ledger' = ledger, \A b \in ledger : rows'[b] = rows[b],
         NEW x, NEW t, TypeOK'
  PROVE  Fits(x, t)' <=> Fits(x, t)
<1>1. ASSUME NEW c
      PROVE  SpendSince(c)' = SpendSince(c)
  <2>1. CountedSince(c)' = CountedSince(c) /\ CountedSince(c) \in SUBSET Attempts
        /\ CountedSince(c) \subseteq ledger
    BY DEF CountedSince, TypeOK
  <2>2. Amount \in [Attempts -> Money] /\ \A b \in Attempts : Amount[b] \in Nat
    BY AmountTypes
  <2>3. Amount' \in [Attempts -> Money]
    BY NextAmountType
  <2>4. \A b \in CountedSince(c) : Amount'[b] = Amount[b]
    BY <2>1 DEF Amount
  <2>5. \A b \in CountedSince(c) : Amount'[b] <= Amount[b] /\ Amount[b] <= Amount'[b]
    BY <2>1, <2>2, <2>4
  <2>6. /\ Total(Amount, CountedSince(c)) <= Total(Amount', CountedSince(c))
        /\ Total(Amount', CountedSince(c)) <= Total(Amount, CountedSince(c))
        /\ Total(Amount, CountedSince(c)) \in Nat
        /\ Total(Amount', CountedSince(c)) \in Nat
    BY <2>1, <2>2, <2>3, <2>5, TotalMonotone
  <2>7. Total(Amount, CountedSince(c)) = Total(Amount', CountedSince(c))
    BY <2>6
  <2> QED
    BY <2>1, <2>7 DEF SpendSince
<1> QED
  BY <1>1 DEF Fits

LEMMA DraftFitsStep ==
  ASSUME IInv, [Next]_vars, TypeOK', LockHeld'
  PROVE  DraftFits'
<1>1. TypeOK /\ JobRow /\ LockHeld /\ DraftFits /\ NoHolder \notin Attempts
  BY LedgerAssumption DEF IInv
<1>2. SUFFICES ASSUME NEW b \in Attempts, NEW cost \in Money, NEW t \in 0..MaxTime,
                      job'[b] = "drafted",
                      rows'[b].forecast = cost, rows'[b].created = t
               PROVE  rows'[b].status = "reserved" <=> Fits(cost, t)'
  BY DEF DraftFits
<1>3. lock' = b
  BY <1>2 DEF LockHeld
<1>4. ledger' = ledger /\ \A c \in ledger : rows'[c] = rows[c]
  <2>1. CASE UNCHANGED vars
    BY <2>1 DEF vars
  <2>2. ASSUME NEW a \in Attempts, Attempt(a)
        PROVE  ledger' = ledger /\ \A c \in ledger : rows'[c] = rows[c]
    <3>1. CASE Preflight(a) \/ Decide(a) \/ Abort(a)
      BY <1>1, <3>1 DEF Preflight, Decide, Abort, JobRow, TypeOK
    <3>2. CASE Commit(a) \/ CommitUnheard(a)
      BY <1>1, <1>2, <1>3, <3>2 DEF Commit, CommitUnheard, Unlock, LockHeld
    <3>3. CASE Settle(a)
      BY <1>1, <1>3, <3>3 DEF Settle
    <3> QED
      BY <2>2, <3>1, <3>2, <3>3 DEF Attempt, Lock, GiveUp, Send, Respond, Drop
  <2>3. ASSUME NEW p \in Pods, Prune(p) \/ Tick(p) \/ Crash(p)
        PROVE  ledger' = ledger /\ \A c \in ledger : rows'[c] = rows[c]
    <3>1. CASE Prune(p)
      BY <1>1, <1>3, <3>1 DEF Prune
    <3>2. CASE Crash(p)
      BY <1>1, <3>2 DEF Crash, Running, JobRow, TypeOK
    <3> QED
      BY <2>3, <3>1, <3>2 DEF Tick
  <2> QED
    BY <2>1, <2>2, <2>3 DEF Next
<1>5. rows'[b].status = "reserved" <=> Fits(cost, t)
  <2>1. CASE UNCHANGED <<rows, job>>
    BY <1>1, <1>2, <2>1 DEF DraftFits
  <2>2. CASE UNCHANGED vars
    BY <2>1, <2>2 DEF vars
  <2>3. ASSUME NEW a \in Attempts, Attempt(a)
        PROVE  rows'[b].status = "reserved" <=> Fits(cost, t)
    <3>1. CASE Decide(a) /\ a = b
      <4>1. rows'[b].status = "reserved" <=> Fits(rows[b].forecast, rows[b].created)
        BY <1>1, <1>2, <3>1 DEF Decide, TypeOK, Row
      <4>2. rows'[b].forecast = rows[b].forecast /\ rows'[b].created = rows[b].created
        BY <1>1, <3>1 DEF Decide, TypeOK, Row
      <4> QED
        BY <1>2, <4>1, <4>2
    <3>2. CASE rows'[b] = rows[b] /\ job'[b] = job[b]
      BY <1>1, <1>2, <3>2 DEF DraftFits
    <3>3. CASE Settle(a)
      BY <1>1, <1>3, <3>3 DEF Settle
    <3>4. CASE a = b
      BY <1>1, <1>2, <2>3, <3>1, <3>2, <3>3, <3>4
      DEF Attempt, Preflight, Lock, Commit, CommitUnheard, Abort,
          GiveUp, Send, Respond, Drop, TypeOK
    <3>5. CASE a # b
      BY <1>1, <2>3, <3>2, <3>5
      DEF Attempt, Preflight, Lock, Decide, Commit, CommitUnheard, Abort,
          GiveUp, Send, Respond, Drop, Settle, TypeOK
    <3> QED
      BY <3>4, <3>5
  <2>4. ASSUME NEW p \in Pods, Prune(p) \/ Tick(p) \/ Crash(p)
        PROVE  rows'[b].status = "reserved" <=> Fits(cost, t)
    <3>1. CASE Crash(p)
      BY <1>1, <1>2, <3>1 DEF Crash, Running, DraftFits, TypeOK, NoRow
    <3> QED
      BY <2>1, <2>4, <3>1 DEF Prune, Tick
  <2> QED
    BY <2>2, <2>3, <2>4 DEF Next
<1> QED
  BY <1>1, <1>4, <1>5, SpendKept

LEMMA BudgetStep ==
  ASSUME IInv, [Next]_vars, TypeOK'
  PROVE  BudgetBound'
<1>1. /\ TypeOK /\ JobRow /\ LockHeld /\ BudgetBound /\ MaxTime \in Nat
      /\ \A p \in Pods : clock[p] \in Nat
      /\ \A a \in Attempts : Foreseen[a] \in Nat
  BY LedgerAssumption, AmountTypes DEF IInv, TypeOK
<1>2. CASE \/ UNCHANGED vars
           \/ \E p \in Pods : Prune(p)
           \/ \E a \in Attempts : Lock(a) \/ GiveUp(a) \/ Send(a) \/ Respond(a) \/ Drop(a)
  <2>1. clock' = clock /\ rows' = rows
        /\ \A b \in Admitted' : b \in Admitted
    BY <1>1, <1>2 DEF vars, Prune, Lock, GiveUp, Send, Respond, Drop, TypeOK, Admitted
  <2> QED
    BY <1>1, <2>1, KeptBudget
<1>3. CASE \E p \in Pods : Tick(p)
  <2>1. rows' = rows /\ Admitted' = Admitted /\ \A p \in Pods : clock[p] <= clock'[p]
    BY <1>1, <1>3 DEF Tick, TypeOK, Admitted
  <2> QED
    BY <1>1, <2>1, KeptBudget
<1>4. CASE \E p \in Pods : Crash(p)
  <2>1. /\ clock' = clock
        /\ \A b \in Admitted' : b \in Admitted /\ rows'[b] = rows[b]
    BY <1>1, <1>4 DEF Crash, Running, Admitted, TypeOK, NoRow
  <2> QED
    BY <1>1, <2>1, KeptBudget
<1>5. ASSUME NEW a \in Attempts, Preflight(a) \/ Decide(a) \/ Abort(a)
      PROVE  BudgetBound'
  <2>1. /\ clock' = clock
        /\ \A b \in Admitted' : b \in Admitted /\ rows'[b] = rows[b]
    BY <1>1, <1>5 DEF Preflight, Decide, Abort, Admitted, TypeOK, NoRow
  <2> QED
    BY <1>1, <2>1, KeptBudget
<1>6. ASSUME NEW a \in Attempts, Commit(a) \/ CommitUnheard(a)
      PROVE  BudgetBound'
  BY <1>6, CommitKeepsBudget DEF Commit, CommitUnheard
<1>7. ASSUME NEW a \in Attempts, Settle(a)
      PROVE  BudgetBound'
  BY <1>7, SettleKeepsBudget
<1> QED
  BY <1>2, <1>3, <1>4, <1>5, <1>6, <1>7 DEF Next, Attempt

---------------------------------------------------------------------------
(* The theorems.                                                           *)

\* IInv holds in every reachable state of the ledger: the types, the single
\* holder of the advisory lock, the validity of an open decision, the budget.
THEOREM SpecIInv == Spec => []IInv
<1>1. IInv /\ [Next]_vars => IInv'
  <2>1. SUFFICES ASSUME IInv, [Next]_vars PROVE IInv'
    OBVIOUS
  <2>2. TypeOK' /\ LockHeld' /\ JobRow' /\ NotFuture' /\ PaidRow'
    BY <2>1, TypeStep, LockHeldStep, JobRowStep, NotFutureStep, PaidRowStep DEF IInv
  <2>3. OldWhenGone' /\ DraftFits' /\ BudgetBound'
    BY <2>1, <2>2, OldWhenGoneStep, DraftFitsStep, BudgetStep
  <2> QED
    BY <2>2, <2>3 DEF IInv
<1> QED
  BY <1>1, InitIInv, PTL DEF Spec

\* Every variable keeps its type: a row never gets a status, an amount or a
\* time that the schema of the table would refuse.
THEOREM SpecTypeOK == Spec => []TypeOK
<1>1. IInv => TypeOK
  BY DEF IInv
<1> QED
  BY <1>1, SpecIInv, PTL

\* Concurrent preflights of any number of pods never admit more than a budget
\* allows, up to the documented overshoot: what calls cost beyond their forecast.
THEOREM BudgetIsNeverOvercommitted == Spec => []BudgetBound
<1>1. IInv => BudgetBound
  BY DEF IInv
<1> QED
  BY <1>1, SpecIInv, PTL

\* A request that went out is charged in the ledger, whatever crashes, is
\* dropped or is pruned afterwards.
THEOREM EveryPaidRequestIsCharged == Spec => []PaidIsCharged
<1>1. IInv => PaidIsCharged
  <2>1. SUFFICES ASSUME IInv, NEW a \in paid
                 PROVE  /\ rows[a].status \in {"reserved", "finalized"}
                        /\ rows[a].status = "reserved" =>
                              a \in ledger /\ rows[a].estimated = rows[a].forecast
                        /\ a \notin ledger => Pruned(a)
    BY DEF PaidIsCharged
  <2>2. a \in Attempts
    BY <2>1 DEF IInv, TypeOK
  <2>3. a \in Admitted
    BY <2>1, <2>2 DEF IInv, PaidRow
  <2>4. rows[a].status = "reserved" => rows[a].estimated = rows[a].forecast
    BY <2>1, <2>2 DEF IInv, JobRow
  <2>5. a \notin ledger => rows[a].status = "finalized" /\ Pruned(a)
    BY <2>1, <2>3 DEF IInv, OldWhenGone
  <2> QED
    BY <2>3, <2>4, <2>5 DEF Admitted
<1> QED
  BY <1>1, SpecIInv, PTL

\* A committed row changes once at most: from reserved to the cost of the usage
\* its call reported.  Crashes, aborts and prunes never touch an open reservation.
THEOREM CommittedRowsSettleOnce == Spec => SettledOnce
<1> DEFINE Kept(a) ==
       /\ rows[a].status = "reserved" => a \in ledger'
       /\ rows'[a] # rows[a] =>
             /\ rows[a].status = "reserved"
             /\ usage[a] # Unset
             /\ rows'[a].estimated = usage[a]
<1>1. ASSUME IInv, Next, NEW b \in ledger
      PROVE  Kept(b)
  <2>1. TypeOK /\ JobRow /\ b \in Attempts /\ job[b] = "ended" /\ caller[b] # "idle"
    BY <1>1 DEF IInv, TypeOK, JobRow
  <2>2. ASSUME NEW a \in Attempts, Attempt(a)
        PROVE  Kept(b)
    <3>1. CASE Settle(a)
      BY <2>1, <3>1 DEF Settle, TypeOK, Row
    <3>2. CASE Preflight(a) \/ Decide(a) \/ Abort(a)
      BY <2>1, <3>2 DEF Preflight, Decide, Abort, TypeOK
    <3>3. CASE rows' = rows /\ ledger \subseteq ledger'
      BY <1>1, <3>3
    <3> QED
      BY <2>2, <3>1, <3>2, <3>3
      DEF Attempt, Lock, Commit, CommitUnheard, GiveUp, Send, Respond, Drop
  <2>3. ASSUME NEW p \in Pods, Prune(p) \/ Tick(p) \/ Crash(p)
        PROVE  Kept(b)
    <3>1. CASE Prune(p)
      BY <1>1, <3>1 DEF Prune
    <3>2. CASE Tick(p)
      BY <1>1, <3>2 DEF Tick
    <3>3. CASE Crash(p)
      BY <1>1, <2>1, <3>3 DEF Crash, Running, TypeOK
    <3> QED
      BY <2>3, <3>1, <3>2, <3>3
  <2> QED
    BY <1>1, <2>2, <2>3 DEF Next
<1>2. IInv /\ [Next]_vars => [\A a \in ledger : Kept(a)]_vars
  BY <1>1
<1> QED
  BY <1>2, SpecIInv, PTL DEF Spec, SettledOnce

---------------------------------------------------------------------------
(* The ledger implements AtomicAdmission.                                  *)

Table == [a \in ledger |-> rows[a]]

\* The sums of the two specifications agree.
LEMMA SameAffordable ==
  ASSUME TypeOK, NEW cost, NEW t
  PROVE  Atomic!Affordable(cost, t) <=> Fits(cost, t)
<1>1. DOMAIN Table = ledger /\ ledger \subseteq Attempts
      /\ \A a \in ledger : Table[a] = rows[a]
  BY DEF Table, TypeOK
<1>2. ASSUME NEW c
      PROVE  Atomic!Spend(c) = SpendSince(c)
  <2> DEFINE S == CountedSince(c)
             Owed == Atomic!Owed
  <2>1. Atomic!Spend(c) = Total(Owed, S) /\ S \in SUBSET Attempts /\ S \subseteq ledger
    <3>1. {a \in DOMAIN Table : \/ Table[a].created >= c
                                \/ Table[a].status = "reserved"} = S
      BY <1>1 DEF CountedSince
    <3> QED
      BY <3>1, <1>1 DEF Atomic!Spend, Table, CountedSince
  <2>2. Amount \in [Attempts -> Money] /\ \A a \in Attempts : Amount[a] \in Nat
    BY AmountTypes
  <2>3. ASSUME NEW a \in Attempts
        PROVE  /\ Owed[a] \in Money
               /\ a \in ledger => Owed[a] = Amount[a]
    <3>1. /\ rows[a].forecast \in Money /\ rows[a].estimated \in Money /\ 0 \in Money
      BY RowTypes DEF Money
    <3>2. Owed[a] = IF a \notin ledger THEN 0
                    ELSE IF rows[a].status = "reserved" THEN rows[a].forecast
                    ELSE IF rows[a].status = "finalized" THEN rows[a].estimated
                    ELSE 0
      BY <1>1 DEF Atomic!Owed, Table
    <3>3. Amount[a] = IF rows[a].status = "reserved" THEN rows[a].forecast
                      ELSE IF rows[a].status = "finalized" THEN rows[a].estimated
                      ELSE 0
      BY DEF Amount
    <3> QED
      BY <3>1, <3>2, <3>3
  <2>4. Owed \in [Attempts -> Money]
    <3>1. Owed = [a \in Attempts |-> Owed[a]]
      BY DEF Atomic!Owed
    <3> HIDE DEF Owed
    <3> QED
      BY <2>3, <3>1
  <2>5. \A a \in S : Owed[a] <= Amount[a] /\ Amount[a] <= Owed[a]
    BY <2>1, <2>2, <2>3
  <2> HIDE DEF Owed, S
  <2>6. /\ Total(Owed, S) <= Total(Amount, S) /\ Total(Amount, S) <= Total(Owed, S)
        /\ Total(Owed, S) \in Nat /\ Total(Amount, S) \in Nat
    BY <2>1, <2>2, <2>4, <2>5, TotalMonotone
  <2>7. Total(Owed, S) = Total(Amount, S)
    BY <2>6
  <2> QED
    BY <2>1, <2>7 DEF SpendSince, S
<1> QED
  BY <1>2 DEF Atomic!Affordable, Fits, DayStart

LEMMA CommitImplements ==
  ASSUME IInv, NEW a \in Attempts, job[a] = "drafted",
         ledger' = ledger \union {a}, rows' = rows
  PROVE  Atomic!Next
<1>1. /\ TypeOK /\ rows[a] \in Row /\ rows[a].created \in 0..MaxTime
      /\ a \notin ledger /\ rows[a].forecast \in Costs
      /\ rows[a].status \in {"reserved", "blocked"}
  BY RowTypes DEF IInv, JobRow
<1>2. /\ rows[a].status = "reserved" => rows[a].estimated = rows[a].forecast
      /\ rows[a].status = "blocked" => rows[a].estimated = 0
  BY DEF IInv, JobRow
<1>3. rows[a].status = "reserved" <=> Fits(rows[a].forecast, rows[a].created)
  BY <1>1 DEF IInv, DraftFits, Money
<1>4. rows[a] = [status |-> rows[a].status, forecast |-> rows[a].forecast,
                 estimated |-> rows[a].estimated, created |-> rows[a].created]
  BY <1>1 DEF Row
<1>5. Atomic!Insert(a, rows[a])
  BY <1>1 DEF Atomic!Insert
<1>6. CASE rows[a].status = "reserved"
  <2>1. Atomic!Admit(a, rows[a].forecast, rows[a].created)
    <3>1. rows[a] = [status |-> "reserved", forecast |-> rows[a].forecast,
                     estimated |-> rows[a].forecast, created |-> rows[a].created]
      BY <1>2, <1>4, <1>6
    <3>2. Atomic!Affordable(rows[a].forecast, rows[a].created)
      BY <1>1, <1>3, <1>6, SameAffordable
    <3> QED
      BY <1>5, <3>1, <3>2 DEF Atomic!Admit, Atomic!Insert
  <2> QED
    BY <2>1, <1>1 DEF Atomic!Next, Atomic!Admit, Atomic!Insert
<1>7. CASE rows[a].status = "blocked"
  <2>1. Atomic!Refuse(a, rows[a].forecast, rows[a].created)
    <3>1. rows[a] = [status |-> "blocked", forecast |-> rows[a].forecast,
                     estimated |-> 0, created |-> rows[a].created]
      BY <1>2, <1>4, <1>7
    <3>2. ~Atomic!Affordable(rows[a].forecast, rows[a].created)
      BY <1>1, <1>3, <1>7, SameAffordable
    <3> QED
      BY <1>5, <3>1, <3>2 DEF Atomic!Refuse, Atomic!Insert
  <2> QED
    BY <2>1, <1>1 DEF Atomic!Next, Atomic!Refuse, Atomic!Insert
<1> QED
  BY <1>1, <1>6, <1>7

\* The many statements of a preflight, interleaved over pods that crash and time
\* out, amount to one atomic check-and-reserve on the table.
THEOREM LedgerIsAtomic == Spec => ImplementsAtomicAdmission
<1>1. Init => Atomic!Init
  BY DEF Init, Atomic!Init
<1>2. ASSUME IInv, Next
      PROVE  Atomic!Next \/ UNCHANGED Table
  <2>1. TypeOK /\ JobRow
    BY <1>2 DEF IInv
  <2>2. CASE ledger' = ledger /\ \A a \in ledger : rows'[a] = rows[a]
    BY <2>2 DEF Table
  <2>3. ASSUME NEW a \in Attempts, Attempt(a)
        PROVE  Atomic!Next \/ UNCHANGED Table
    <3>1. CASE Commit(a) \/ CommitUnheard(a)
      BY <1>2, <3>1, CommitImplements DEF Commit, CommitUnheard
    <3>2. CASE Settle(a)
      <4>1. a \in ledger /\ usage[a] \in Costs \union {0}
        BY <2>1, <3>2 DEF Settle, TypeOK
      <4>2. Atomic!Settle(a, usage[a])
        BY <2>1, <3>2, <4>1 DEF Settle, Atomic!Settle, TypeOK, Row
      <4> QED
        BY <4>1, <4>2 DEF Atomic!Next, Atomic!Settle
    <3>3. CASE Preflight(a) \/ Decide(a) \/ Abort(a)
      BY <2>1, <2>2, <3>3 DEF Preflight, Decide, Abort, JobRow, TypeOK
    <3> QED
      BY <2>2, <2>3, <3>1, <3>2, <3>3
      DEF Attempt, Lock, GiveUp, Send, Respond, Drop
  <2>4. ASSUME NEW p \in Pods, Prune(p) \/ Tick(p) \/ Crash(p)
        PROVE  Atomic!Next \/ UNCHANGED Table
    <3>1. CASE Prune(p)
      <4>1. ledger' \in SUBSET Attempts /\ ledger' \subseteq ledger /\ rows' = rows
            /\ \A b \in ledger \ ledger' : rows[b].status # "reserved"
        BY <2>1, <3>1 DEF Prune, TypeOK
      <4>2. Atomic!Forget(ledger')
        BY <4>1 DEF Atomic!Forget
      <4> QED
        BY <4>1, <4>2 DEF Atomic!Next, Atomic!Forget
    <3>2. CASE Crash(p)
      BY <2>1, <2>2, <3>2 DEF Crash, Running, JobRow, TypeOK
    <3> QED
      BY <2>2, <2>4, <3>1, <3>2 DEF Tick
  <2> QED
    BY <1>2, <2>3, <2>4 DEF Next
<1>3. IInv /\ [Next]_vars => [Atomic!Next]_Table
  BY <1>2 DEF vars, Table
<1> QED
  BY <1>1, <1>3, SpecIInv, PTL DEF Spec, ImplementsAtomicAdmission, Atomic!Spec, Table

===========================================================================
