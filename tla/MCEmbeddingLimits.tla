----------------------- MODULE MCEmbeddingLimits -----------------------
(* A small instance of EmbeddingLimits for TLC: without symmetry, since   *)
(* liveness is checked as well.                                           *)
EXTENDS EmbeddingLimits

CONSTANTS r1, r2, r3

ThreeRequests == {r1, r2, r3}

=========================================================================
