---------------------------- MODULE MCTurnCycle ----------------------------
(* Instances of TurnCycle for TLC. *)
EXTENDS TurnCycle, TLC

Symmetry == Permutations(Saves) \cup Permutations(Procs)
=============================================================================
