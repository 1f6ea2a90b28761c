---------------------------- MODULE MCHandoffCall ----------------------------
(* The instances of MCHandoff, of the handoff as its caller sees it.       *)
EXTENDS HandoffCall, MCHandoff
=============================================================================
