------------------------ MODULE MCPostgresEventLog ------------------------
(***************************************************************************)
(* Bounded instances of PostgresEventLog.  One of two events is poison, so  *)
(* that the quarantine and its replay happen.  Producers and workers are    *)
(* interchangeable; the run that checks liveness does not use the symmetry. *)
(***************************************************************************)
EXTENDS PostgresEventLog, TLC

Symmetry == Permutations(Producers) \cup Permutations(Consumers)
=============================================================================
