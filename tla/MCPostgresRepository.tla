------------------------ MODULE MCPostgresRepository ------------------------
(* Threads that share one repository.                                      *)
EXTENDS PostgresRepository, TLC

CONSTANTS t1, t2, t3

Symmetry == Permutations(Threads)

=============================================================================
