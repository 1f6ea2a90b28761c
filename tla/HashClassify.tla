---------------------------- MODULE HashClassify ----------------------------
(***************************************************************************)
(* How a candidate save is classified against the manifest's list of       *)
(* accepted hashes before anything is uploaded (protocol/hash_classify.py).*)
(* The operators are pure: a hash and a player are opaque values, the      *)
(* evidence is the pair of Booleans the local journal gives for the hash.  *)
(***************************************************************************)
EXTENDS Naturals, Sequences, Functions

HashClassification ==
  {"REJECT_INCOMING", "IDEMPOTENT_ACK", "JOURNAL_ONLY_ACK", "STALE_REPLAY",
   "NEW_HANDOFF_CANDIDATE"}

\* Whether digest is the last entry of hashes; no entry is the latest of none.
IsLatest(digest, hashes) == hashes # <<>> /\ hashes[Len(hashes)] = digest

\* The source tests the cases in this order and returns at the first match.
\* attempted and accepted are the two fields of PriorAttemptEvidence; sender
\* is the manifest's last_sender_id (no player when nothing was sent yet).
ClassifyCandidateHash(digest, hashes, local, current, sender, attempted, accepted) ==
  CASE IsLatest(digest, hashes) /\ local = current -> "REJECT_INCOMING"
    [] IsLatest(digest, hashes) /\ local # current /\ local = sender /\ attempted
         -> "IDEMPOTENT_ACK"
    [] OTHER ->
         IF accepted THEN "JOURNAL_ONLY_ACK"
         ELSE IF digest \in Range(hashes) THEN "STALE_REPLAY"
         ELSE "NEW_HANDOFF_CANDIDATE"

\* players.py: the human after `after` in relay order, wrapping to the first.
NextHumanPlayerId(players, after) ==
  LET index == CHOOSE i \in DOMAIN players : players[i] = after
  IN players[(index % Len(players)) + 1]
=============================================================================
