--------------------------- MODULE MCReceiveTurn ---------------------------
(* Instance of ReceiveTurn for TLC. *)
EXTENDS ReceiveTurn

CONSTANTS n1

\* Later turns reuse the file name of the first.
MCNameOf == [t \in 1..MaxTurn |-> n1]
=============================================================================
