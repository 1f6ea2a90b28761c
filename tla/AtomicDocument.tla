--------------------------- MODULE AtomicDocument ---------------------------
(***************************************************************************)
(* What local/json_store.py promises of one document: every reader finds   *)
(* it absent or whole, a failed or interrupted write leaves the previous   *)
(* document, and a loss of power brings back a document that was there.    *)
(***************************************************************************)
CONSTANTS
  Documents,    \* what callers write
  Nothing,      \* the document does not exist
  Replaceable   \* written by atomic_write_bytes, else published once

VARIABLES
  value,        \* what a reader finds
  kept          \* what a reader may find after a loss of power

docVars == <<value, kept>>

DocInit == value = Nothing /\ kept = {Nothing}

\* Every earlier document may still be the one on the disk.
Write ==
  /\ value' \in Documents
  /\ Replaceable \/ value = Nothing
  /\ kept' = kept \cup {value'}

LosePower == value' \in kept /\ kept' = {value'}

DocNext == Write \/ LosePower

DocSpec == DocInit /\ [][DocNext]_docVars
=============================================================================
