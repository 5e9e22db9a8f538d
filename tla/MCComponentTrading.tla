------------------------- MODULE MCComponentTrading -------------------------
(***************************************************************************)
(* Bounded instances of ComponentTrading.                                   *)
(***************************************************************************)
EXTENDS ComponentTrading, TLC

Symmetry == Permutations(Accounts) \cup Permutations(Commands)
              \cup Permutations(OrderIds)
=============================================================================
