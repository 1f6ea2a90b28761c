----------------------------- MODULE MCHandoff -----------------------------
(* Small instances of Handoff: two humans; one installation each, or a     *)
(* second installation of the first human.                                 *)
EXTENDS Handoff, TLC

CONSTANTS alice, bob, a1, a2, b1

TwoPlayers == <<alice, bob>>

\* Saves and operations are interchangeable. A fresh operation is drawn with
\* CHOOSE among ids that occur nowhere in the state, so that a permutation of
\* these leaves the state alone and takes one choice to any other.
Symmetry == Permutations(Hashes) \cup Permutations(Ops)

InstallationOf == [c \in Clients |-> IF c = b1 THEN bob ELSE alice]
=============================================================================
