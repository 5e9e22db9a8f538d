-------------------------- MODULE MCPostgresLedger --------------------------
(***************************************************************************)
(* Bounded instance of PostgresLedger.  The operation ids bound the length  *)
(* of a history; ids and accounts are interchangeable.                      *)
(***************************************************************************)
EXTENDS PostgresLedger, TLC

Symmetry == Permutations(OpIds) \cup Permutations(Accounts)
=============================================================================
