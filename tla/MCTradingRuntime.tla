------------------------- MODULE MCTradingRuntime -------------------------
(***************************************************************************)
(* Bounded instances of TradingRuntime; accounts, commands and order ids    *)
(* are interchangeable.                                                     *)
(***************************************************************************)
EXTENDS TradingRuntime, TLC

Symmetry == Permutations(Accounts) \cup Permutations(Commands)
              \cup Permutations(OrderIds)
=============================================================================
