--------------------------- MODULE MCCostLedger ---------------------------
(* A small instance of CostLedger: two pods, the first with two of the     *)
(* three attempts.                                                         *)
EXTENDS CostLedger, FiniteSetsExt, TLC

CONSTANTS a1, a2, a3, p1, p2

MCAttempts == {a1, a2, a3}
MCPods == {p1, p2}
MCHome == [a \in MCAttempts |-> IF a = a3 THEN p2 ELSE p1]
MCTwoHome == [a \in {a1, a3} |-> IF a = a3 THEN p2 ELSE p1]
MCTotal(f, S) == MapThenSumSet(LAMBDA a : f[a], S)
Symmetry == Permutations({a1, a2})

===========================================================================
