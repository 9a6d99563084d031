------------------------- MODULE AtomicAdmission -------------------------
(***************************************************************************)
(* What the cost ledger promises its pods: a reservation is admitted in    *)
(* one step that adds up the table and compares, an open reservation is    *)
(* settled at most once, and only settled or refused rows disappear.       *)
(***************************************************************************)
EXTENDS Integers

CONSTANTS Attempts, Costs, ShortLimit, DailyLimit, ShortWindow, Day, MaxTime, Total(_, _)

VARIABLE table     \* from the attempts in the table to their rows

Init == table = << >>

Owed == [a \in Attempts |->
            IF a \notin DOMAIN table THEN 0
            ELSE IF table[a].status = "reserved" THEN table[a].forecast
            ELSE IF table[a].status = "finalized" THEN table[a].estimated
            ELSE 0]

Spend(cutoff) ==
    Total(Owed, {a \in DOMAIN table : \/ table[a].created >= cutoff
                                      \/ table[a].status = "reserved"})

Affordable(cost, t) ==
    /\ Spend(t - ShortWindow) + cost <= ShortLimit
    /\ Spend((t \div Day) * Day) + cost <= DailyLimit

Insert(a, row) ==
    /\ a \notin DOMAIN table
    /\ table' = [b \in DOMAIN table \union {a} |-> IF b = a THEN row ELSE table[b]]

Admit(a, cost, t) ==
    /\ Insert(a, [status |-> "reserved", forecast |-> cost, estimated |-> cost, created |-> t])
    /\ Affordable(cost, t)

Refuse(a, cost, t) ==
    /\ Insert(a, [status |-> "blocked", forecast |-> cost, estimated |-> 0, created |-> t])
    /\ ~Affordable(cost, t)

Settle(a, cost) ==
    /\ a \in DOMAIN table
    /\ table[a].status = "reserved"
    /\ table' = [table EXCEPT ![a].status = "finalized", ![a].estimated = cost]

Forget(S) ==
    /\ \A a \in DOMAIN table \ S : table[a].status # "reserved"
    /\ table' = [a \in DOMAIN table \intersect S |-> table[a]]

Next ==
    \/ \E a \in Attempts, cost \in Costs, t \in 0..MaxTime : Admit(a, cost, t) \/ Refuse(a, cost, t)
    \/ \E a \in Attempts, cost \in Costs \union {0} : Settle(a, cost)
    \/ \E S \in SUBSET Attempts : Forget(S)

Spec == Init /\ [][Next]_table

===========================================================================
