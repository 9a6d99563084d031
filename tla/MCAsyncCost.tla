---------------------------- MODULE MCAsyncCost ----------------------------
(* Small instances of AsyncCost for TLC.                                   *)
EXTENDS AsyncCost, TLC

CONSTANTS c1, c2, c3, c4

Symmetry == Permutations(Calls)

===========================================================================
