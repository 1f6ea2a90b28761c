----------------------------- MODULE HandoffPort -----------------------------
(***************************************************************************)
(* What handing over a turn promises its caller: one call has its save     *)
(* accepted at most once, in the turn of its player and with the save      *)
(* noted before, and its answer says what became of the save. A definite   *)
(* answer leaves no note; without one the note of an accepted save stays,  *)
(* over a stop of the client too, until the ledger itself confirms it.     *)
(***************************************************************************)
EXTENDS Naturals, Sequences, Functions

CONSTANTS Clients, PlayerOrder, PlayerOf, Hashes, Nil

VARIABLES
  ledger,   \* the saves accepted so far, in order
  turn,     \* the player who may send the next one
  sending,  \* the save of the running call of each client
  taken,    \* whether this call has had it accepted
  answer,   \* what the call has answered
  noted     \* the save each client would take up again after a stop

pvars == <<ledger, turn, sending, taken, answer, noted>>

Acknowledged == {"COMMITTED", "IDEMPOTENT_ACK"}

Refused ==
  {"REJECT_INCOMING", "JOURNAL_ONLY_ACK", "STALE_REPLAY", "NOT_CURRENT_OWNER",
   "INVALID_MANIFEST", "HARD_INTEGRITY_FAILURE", "LOCK_OWNERSHIP_LOST"}

Busy == {"LOCK_HELD", "LOCK_UNREADABLE"}

Unsure == {"TRANSPORT_FAILURE", "LOCK_CLEANUP_AMBIGUOUS"}

PlayerAt(n) == PlayerOrder[(n % Len(PlayerOrder)) + 1]

LastAccepted == IF ledger = <<>> THEN Nil ELSE ledger[Len(ledger)]

PortInit ==
  /\ ledger = <<>> /\ turn = PlayerAt(0)
  /\ sending = [c \in Clients |-> Nil] /\ taken = [c \in Clients |-> FALSE]
  /\ answer = [c \in Clients |-> Nil] /\ noted = [c \in Clients |-> Nil]

Begin(c, h) ==
  /\ sending[c] = Nil /\ sending' = [sending EXCEPT ![c] = h]
  /\ UNCHANGED <<ledger, turn, taken, answer, noted>>

Running(c) == sending[c] # Nil /\ answer[c] = Nil

NoteSave(c) == noted' = [noted EXCEPT ![c] = sending[c]]

DropNote(c) == noted' = [noted EXCEPT ![c] = Nil]

Note(c) ==
  /\ Running(c) /\ ~taken[c] /\ NoteSave(c)
  /\ UNCHANGED <<ledger, turn, sending, taken, answer>>

Accept(c) ==
  /\ Running(c) /\ ~taken[c] /\ noted[c] = sending[c]
  /\ turn = PlayerOf[c] /\ sending[c] \notin Range(ledger)
  /\ ledger' = Append(ledger, sending[c]) /\ turn' = PlayerAt(Len(ledger) + 1)
  /\ taken' = [taken EXCEPT ![c] = TRUE]
  /\ UNCHANGED <<sending, answer, noted>>

Answer(c, o) ==
  /\ Running(c) /\ answer' = [answer EXCEPT ![c] = o]
  /\ \/ /\ o \in Acknowledged /\ sending[c] \in Range(ledger)
        /\ o = "COMMITTED" => taken[c]
        /\ DropNote(c)
     \/ o \in Refused /\ ~taken[c] /\ DropNote(c)
     \/ o \in Busy /\ ~taken[c] /\ UNCHANGED noted
     \/ /\ o \in Unsure /\ (NoteSave(c) \/ UNCHANGED noted)
        /\ taken[c] => noted'[c] = sending[c]
  /\ UNCHANGED <<ledger, turn, sending, taken>>

\* The caller has gone on, or was stopped.
Over(c) ==
  /\ sending' = [sending EXCEPT ![c] = Nil] /\ taken' = [taken EXCEPT ![c] = FALSE]
  /\ answer' = [answer EXCEPT ![c] = Nil]

\* What is noted needs no further attempt once the ledger ends with it.
Settled(c) == UNCHANGED noted \/ (noted[c] = LastAccepted /\ DropNote(c))

Return(c) == answer[c] # Nil /\ Over(c) /\ Settled(c) /\ UNCHANGED <<ledger, turn>>

Stop(c) == Over(c) /\ UNCHANGED <<ledger, turn, noted>>

Settle(c) ==
  /\ sending[c] = Nil /\ noted[c] = LastAccepted /\ DropNote(c)
  /\ UNCHANGED <<ledger, turn, sending, taken, answer>>

PortNext ==
  \E c \in Clients :
    \/ Note(c) \/ Accept(c) \/ Return(c) \/ Stop(c) \/ Settle(c)
    \/ \E h \in Hashes : Begin(c, h)
    \/ \E o \in Acknowledged \cup Refused \cup Busy \cup Unsure : Answer(c, o)

PortSpec == PortInit /\ [][PortNext]_pvars
=============================================================================
