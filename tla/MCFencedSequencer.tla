------------------------- MODULE MCFencedSequencer -------------------------
(***************************************************************************)
(* Bounded instance of FencedSequencer: two replicas, two open             *)
(* transactions, three commands.  The command set bounds the journal, the   *)
(* epochs and the snapshots, so no further bound is needed.                 *)
(***************************************************************************)
EXTENDS FencedSequencer, TLC

Symmetry == Permutations(Procs) \cup Permutations(Commands)
              \cup Permutations(Slots)
=============================================================================
