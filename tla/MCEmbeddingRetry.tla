-------------------------- MODULE MCEmbeddingRetry --------------------------
(* A request of two batches and one of a single batch.                     *)
EXTENDS EmbeddingRetry

CONSTANTS r1, r2, b1, b2, b3

MCBatches == [r \in {r1, r2} |-> IF r = r1 THEN <<b1, b2>> ELSE <<b3>>]

=============================================================================
