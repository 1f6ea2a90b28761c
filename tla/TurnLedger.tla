----------------------------- MODULE TurnLedger -----------------------------
(***************************************************************************)
(* What the relay promises about a match: a ledger of accepted saves that  *)
(* only grows, one save at a time, in the players' fixed rotation, never   *)
(* the same save twice and never a save whose bytes are not stored intact. *)
(***************************************************************************)
EXTENDS Naturals, Sequences, Functions

CONSTANTS PlayerOrder, Hashes

VARIABLES
  ledger,  \* the hashes accepted so far, in order
  turn,    \* the player who may send the next save
  stored   \* the saves whose exact bytes the storage holds

lvars == <<ledger, turn, stored>>

\* Whose turn it is after n accepted saves.
PlayerAt(n) == PlayerOrder[(n % Len(PlayerOrder)) + 1]

LedgerInit == ledger = <<>> /\ turn = PlayerAt(0) /\ stored = {}

Store(h) == stored' = stored \cup {h} /\ UNCHANGED <<ledger, turn>>

Accept(h) ==
  /\ h \in stored /\ h \notin Range(ledger)
  /\ ledger' = Append(ledger, h)
  /\ turn' = PlayerAt(Len(ledger) + 1)
  /\ UNCHANGED stored

LedgerNext == \E h \in Hashes : Store(h) \/ Accept(h)

LedgerSpec == LedgerInit /\ [][LedgerNext]_lvars
=============================================================================
