--------------------------- MODULE MCRelayThreads ---------------------------
(* Instances of RelayThreads for TLC. *)
EXTENDS RelayThreads
=============================================================================
