---------------------------- MODULE MCMatchInit ----------------------------
(* Instances of MatchInit for TLC. *)
EXTENDS MatchInit

CONSTANTS c1, c2, c3, cfgA, cfgB

\* Two installations with the same configuration and one that differs.
MCConfig == [c \in Clients |-> IF c = c3 THEN cfgB ELSE cfgA]
=============================================================================
