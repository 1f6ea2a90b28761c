----------------------------- MODULE HandoffCall -----------------------------
(***************************************************************************)
(* The handoff as its caller sees it (HandoffPort). What one call has done *)
(* cannot be read off the storage once others have gone on, so a history   *)
(* variable that no step reads is added to Handoff: whether the running    *)
(* call of each client has had its save accepted.                          *)
(***************************************************************************)
EXTENDS Handoff

VARIABLE did

\* The step of client c that replaces the manifest.
Replaces(c) == pc[c] = "replace" /\ pc'[c] # "replace" /\ manifest' # manifest

Recorded(c) == pc'[c] \notin {"idle", "down"} /\ (did[c] \/ Replaces(c))

CallInit == Init /\ did = [c \in Clients |-> FALSE]

CallNext == Next /\ did' = [c \in Clients |-> Recorded(c)]

CallSpec == CallInit /\ [][CallNext]_<<vars, did>>

-----------------------------------------------------------------------------
Calls == INSTANCE HandoffPort WITH
  ledger  <- IF manifest = Torn THEN <<Torn>> ELSE manifest.hashes,
  turn    <- IF manifest = Torn THEN Nil ELSE manifest.cur,
  sending <- [c \in Clients |-> IF pc[c] \in {"idle", "down"} THEN Nil ELSE cand[c]],
  taken   <- did,
  answer  <- [c \in Clients |-> IF pc[c] = "reconcile" THEN res[c] ELSE Nil],
  noted   <- [c \in Clients |-> IF journal[c] = Nil THEN Nil ELSE journal[c].sha]

\* A handoff keeps its promise to its caller, whatever fails and whoever stops:
\* it commits its save at most once, COMMITTED is said only of a save this call
\* committed, a refusal or a held lock only where it committed nothing, and of a
\* save it committed without being able to say so the journal keeps the record
\* (execute_handoff, HandoffResult.outcome).
CallerSpec == Calls!PortSpec

-----------------------------------------------------------------------------
(* The inductive invariant *)

BeforeLabels ==
  {"idle", "down", "mkdir", "lock_json", "begin", "begin_failed", "resume", "read_manifest"}

AfterLabels == {"release", "remove_json", "remove_dir", "clear"}

\* Where a call is tells what it has done: nothing up to the replacement, and
\* from there on the outcome it has decided on agrees with what it did, and the
\* journal still names its save.
CallInv ==
  /\ did \in [Clients -> BOOLEAN]
  /\ \A c \in Clients :
       /\ pc[c] \in BeforeLabels \cup WorkLabels => ~did[c]
       /\ pc[c] = "record" => did[c]
       /\ pc[c] \in AfterLabels =>
            /\ journal[c] = [op |-> op[c], sha |-> cand[c]]
            /\ \/ res[c] = "COMMITTED" /\ did[c]
               \/ res[c] = "IDEMPOTENT_ACK"
               \/ res[c] \in TerminalRejects /\ ~did[c]
       /\ pc[c] = "reconcile" => res[c] # Nil
=============================================================================
