-------------------------- MODULE HandoffCallProofs --------------------------
(***************************************************************************)
(* A handoff keeps its promise to its caller (HandoffPort), for any number *)
(* of installations, players, saves and operations and any number of       *)
(* faults, crashes, repairs and sweeps: where a call is tells what it has  *)
(* done, and every way out of it answers accordingly.                      *)
(***************************************************************************)
EXTENDS HandoffCall, HandoffProofs

\* What CallInv says of one client.
CallOf(c) ==
  /\ pc[c] \in BeforeLabels \cup WorkLabels => ~did[c]
  /\ pc[c] = "record" => did[c]
  /\ pc[c] \in AfterLabels =>
       /\ journal[c] = [op |-> op[c], sha |-> cand[c]]
       /\ \/ res[c] = "COMMITTED" /\ did[c]
          \/ res[c] = "IDEMPOTENT_ACK"
          \/ res[c] \in TerminalRejects /\ ~did[c]
  /\ pc[c] = "reconcile" => res[c] # Nil

\* Nothing of the handoff of client c changes.
Untouched(c) ==
  /\ pc'[c] = pc[c] /\ op'[c] = op[c] /\ cand'[c] = cand[c]
  /\ res'[c] = res[c] /\ journal'[c] = journal[c]

Moves(c) == ExecuteHandoff(c) \/ ClientStep(c) \/ Crash(c) \/ Restart(c)

\* A step of a client touches the handoff of no other one.
LEMMA OthersUntouched ==
  ASSUME TypeOK, NEW c \in Clients, Moves(c), NEW d \in Clients, d # c
  PROVE  Untouched(d)
<1> USE DEF Untouched, TypeOK, Goto, Return, ReleaseWith, durable, request
<1>1. CASE \/ ExecuteHandoff(c) \/ AcquireMkdir(c) \/ AcquireWriteLockJson(c)
           \/ BeginHandoff(c) \/ ResumeExistingLock(c) \/ ReadManifest(c)
  BY <1>1 DEF ExecuteHandoff, AcquireMkdir, AcquireWriteLockJson, BeginHandoff,
     ResumeExistingLock, ReadManifest
<1>2. CASE \/ StageAndVerifyUpload(c) \/ PublishOrReuseFinal(c) \/ ArchiveStage(c)
           \/ ArchivePublish(c)
  BY <1>2 DEF StageAndVerifyUpload, PublishOrReuseFinal, ArchiveStage, ArchivePublish
<1>3. CASE \/ WriteTempManifest(c) \/ ConfirmLock(c) \/ ReplaceManifest(c)
           \/ RecordCommit(c) \/ ReconcileUncertainCommit(c)
  BY <1>3 DEF WriteTempManifest, ConfirmLock, ReplaceManifest, RecordCommit,
     ReconcileUncertainCommit
<1>4. CASE \/ ReleaseCheck(c) \/ ReleaseRemoveJson(c) \/ ReleaseRemoveDir(c)
           \/ ClearInProgress(c) \/ Reconcile(c) \/ Crash(c) \/ Restart(c)
  BY <1>4 DEF ReleaseCheck, ReleaseRemoveJson, ReleaseRemoveDir, ClearInProgress, Reconcile,
     Crash, Restart, Forget
<1> QED
  BY <1>1, <1>2, <1>3, <1>4 DEF Moves, ClientStep

\* A step of no client, a repair or a sweep, touches none and not the manifest.
LEMMA AdminUntouched ==
  ASSUME RepairStep \/ SweepStep \/ UNCHANGED vars
  PROVE  UNCHANGED <<manifest, durable, pc, request, res>>
BY DEF RepairStep, RepairPreview, RepairConfirm, RepairRemoveJson, RepairRemoveDir, SweepStep,
   SweepInspect, SweepRemove, RemoveTemp, vars, remote

\* The history variable of a client that stays where it is.
LEMMA DidUntouched ==
  ASSUME CallInv, did' = [c \in Clients |-> Recorded(c)], NEW d \in Clients, Untouched(d)
  PROVE  did'[d] = did[d]
BY DEF CallInv, Recorded, Replaces, Untouched, BeforeLabels

\* Away from the replacement of the manifest a call that goes on has done what
\* it had done before.
LEMMA DidKept ==
  ASSUME CallInv, did' = [c \in Clients |-> Recorded(c)], NEW c \in Clients,
         pc[c] # "replace" \/ UNCHANGED manifest
  PROVE  did'[c] = (pc'[c] \notin {"idle", "down"} /\ did[c])
BY DEF CallInv, Recorded, Replaces

\* A client that is not touched keeps its part of the invariant.
LEMMA UntouchedKept ==
  ASSUME CallInv, did' = [c \in Clients |-> Recorded(c)], NEW d \in Clients, Untouched(d)
  PROVE  CallOf(d)'
BY DidUntouched DEF CallInv, CallOf, Untouched

-----------------------------------------------------------------------------
\* A client that moves keeps its part of the invariant.
LEMMA MoverKept ==
  ASSUME HandoffInv, CallInv, did' = [c \in Clients |-> Recorded(c)], NEW c \in Clients, Moves(c)
  PROVE  CallOf(c)'
<1>types. /\ pc \in [Clients -> Labels] /\ op \in [Clients -> Ops \cup {Nil}]
          /\ cand \in [Clients -> Hashes \cup {Nil}]
          /\ journal \in [Clients -> Progress \cup {Nil}]
          /\ res \in [Clients -> HandoffOutcome \cup {Nil}]
  BY DEF HandoffInv, TypeOK
<1>of. CallOf(c)
  BY DEF CallInv, CallOf
<1>noted. pc[c] \in OwnerLabels => journal[c] = [op |-> op[c], sha |-> cand[c]]
  BY DEF HandoffInv, JournalInv
<1>outcomes. Nil \notin {"COMMITTED", "IDEMPOTENT_ACK", "LOCK_HELD", "LOCK_UNREADABLE",
                  "TRANSPORT_FAILURE", "LOCK_CLEANUP_AMBIGUOUS"} /\ Nil \notin TerminalRejects
  BY NilAssumption DEF HandoffOutcome
<1>did. pc[c] # "replace" \/ UNCHANGED manifest
          => did'[c] = (pc'[c] \notin {"idle", "down"} /\ did[c])
  BY DidKept
<1> USE <1>types, <1>of, <1>did, <1>noted, <1>outcomes
    DEF CallOf, BeforeLabels, WorkLabels, BaseLabels, OwnerLabels, AfterLabels, Goto, Return,
        ReleaseWith, remote, durable, request
<1>1. CASE \/ ExecuteHandoff(c) \/ AcquireMkdir(c) \/ AcquireWriteLockJson(c)
           \/ BeginHandoff(c) \/ ResumeExistingLock(c)
  BY <1>1 DEF ExecuteHandoff, AcquireMkdir, AcquireWriteLockJson, BeginHandoff,
     ResumeExistingLock
<1>2. CASE ReadManifest(c)
  BY <1>2 DEF ReadManifest
<1>3. CASE StageAndVerifyUpload(c)
  BY <1>3 DEF StageAndVerifyUpload, TerminalRejects
<1>4. CASE PublishOrReuseFinal(c)
  BY <1>4 DEF PublishOrReuseFinal, TerminalRejects
<1>5. CASE ArchiveStage(c)
  BY <1>5 DEF ArchiveStage, TerminalRejects
<1>6. CASE ArchivePublish(c)
  BY <1>6 DEF ArchivePublish, TerminalRejects
<1>7. CASE WriteTempManifest(c) \/ ConfirmLock(c)
  BY <1>7 DEF WriteTempManifest, ConfirmLock, TerminalRejects
<1>8. CASE ReplaceManifest(c)
  <2>1. CommitManifest(c) => manifest' # manifest
    <3>1. /\ manTmp[op[c]] \in {NewManifest(c), Nil} /\ base[c] = manifest
          /\ manifest \in Manifests
      BY <1>8 DEF ReplaceManifest, HandoffInv, TypeOK, ManifestValid, StagedInv, WorkInv
    <3>2. CommitManifest(c) => manifest'.seq = manifest.seq + 1
      BY <3>1 DEF CommitManifest, NewManifest
    <3> QED
      BY <3>1, <3>2 DEF Manifests
  <2>2. did'[c] = (pc'[c] \notin {"idle", "down"} /\ (did[c] \/ Replaces(c)))
    BY DEF Recorded
  <2> QED
    BY <1>8, <2>1, <2>2 DEF ReplaceManifest, Replaces
<1>9. CASE RecordCommit(c) \/ ReconcileUncertainCommit(c)
  BY <1>9 DEF RecordCommit, ReconcileUncertainCommit
<1>10. CASE ReleaseCheck(c) \/ ReleaseRemoveJson(c) \/ ReleaseRemoveDir(c)
  BY <1>10 DEF ReleaseCheck, ReleaseRemoveJson, ReleaseRemoveDir
<1>11. CASE ClearInProgress(c)
  BY <1>11 DEF ClearInProgress
<1>12. CASE Reconcile(c) \/ Crash(c) \/ Restart(c)
  BY <1>12 DEF Reconcile, Crash, Restart, Forget
<1> QED
  BY <1>1, <1>2, <1>3, <1>4, <1>5, <1>6, <1>7, <1>8, <1>9, <1>10, <1>11, <1>12
     DEF Moves, ClientStep

\* Every step keeps the invariant of the calls.
LEMMA CallStep ==
  ASSUME HandoffInv, CallInv, [CallNext]_<<vars, did>>
  PROVE  CallInv'
<1>1. CASE UNCHANGED <<vars, did>>
  BY <1>1 DEF vars, durable, request, CallInv
<1>2. CASE CallNext
  <2>1. did' = [c \in Clients |-> Recorded(c)] /\ did' \in [Clients -> BOOLEAN]
    BY <1>2 DEF CallNext, Recorded, Replaces, CallInv
  <2>2. ASSUME NEW d \in Clients PROVE CallOf(d)'
    <3>1. CASE RepairStep \/ SweepStep
      BY <2>1, <3>1, AdminUntouched, UntouchedKept DEF Untouched, durable, request
    <3>2. ASSUME NEW c \in Clients, Moves(c) PROVE CallOf(d)'
      BY <2>1, <3>2, MoverKept, OthersUntouched, UntouchedKept DEF HandoffInv
    <3> QED
      BY <1>2, <3>1, <3>2 DEF CallNext, Next, Moves
  <2> QED
    BY <2>1, <2>2 DEF CallInv, CallOf
<1> QED
  BY <1>1, <1>2

-----------------------------------------------------------------------------
(* The refinement *)

\* The mapped variables, as HandoffCall's instance of HandoffPort names them.
LedgerOf == IF manifest = Torn THEN <<Torn>> ELSE manifest.hashes

TurnOf == IF manifest = Torn THEN Nil ELSE manifest.cur

Sending == [c \in Clients |-> IF pc[c] \in {"idle", "down"} THEN Nil ELSE cand[c]]

Answers == [c \in Clients |-> IF pc[c] = "reconcile" THEN res[c] ELSE Nil]

Noted == [c \in Clients |-> IF journal[c] = Nil THEN Nil ELSE journal[c].sha]

\* All but client c is as before, as far as its caller can see.
Others(c) ==
  \A d \in Clients \ {c} :
    Sending'[d] = Sending[d] /\ Answers'[d] = Answers[d] /\ Noted'[d] = Noted[d]
      /\ did'[d] = did[d]

RunningLabels == Labels \ {"idle", "down", "reconcile"}

\* A call that is under way sends its save and has not answered.
LEMMA UnderWay ==
  ASSUME HandoffInv, NEW c \in Clients, pc[c] \in RunningLabels
  PROVE  Sending[c] = cand[c] /\ cand[c] \in Hashes /\ cand[c] # Nil /\ Answers[c] = Nil
BY NilAssumption DEF RunningLabels, Sending, Answers, HandoffInv, RequestInv

\* A client that moves leaves what the callers of the others see.
LEMMA OthersSame ==
  ASSUME HandoffInv, CallInv, did' = [d \in Clients |-> Recorded(d)], NEW c \in Clients, Moves(c)
  PROVE  Others(c)
<1> SUFFICES ASSUME NEW d \in Clients \ {c}
             PROVE  Sending'[d] = Sending[d] /\ Answers'[d] = Answers[d]
                      /\ Noted'[d] = Noted[d] /\ did'[d] = did[d]
  BY DEF Others
<1>1. Untouched(d)
  BY OthersUntouched DEF HandoffInv
<1> QED
  BY <1>1, DidUntouched DEF Untouched, Sending, Answers, Noted

\* A step inside a call that leaves the manifest, the journal and what the call
\* has done alone is hidden from the caller.
LEMMA Hidden ==
  ASSUME HandoffInv, did \in [Clients -> BOOLEAN], did' \in [Clients -> BOOLEAN],
         NEW c \in Clients, Others(c), pc[c] \in RunningLabels, pc'[c] \in RunningLabels,
         UNCHANGED <<manifest, cand, journal>>, did'[c] = did[c]
  PROVE  UNCHANGED Calls!pvars
<1>1. Sending' = Sending /\ Answers' = Answers /\ Noted' = Noted
  BY DEF Others, RunningLabels, Sending, Answers, Noted
<1>2. did' = did
  BY DEF Others
<1> QED
  BY <1>1, <1>2 DEF Calls!pvars, Sending, Answers, Noted

\* A call ends with outcome o: it answers o, and the conditions on its answer
\* are those of HandoffPort.
LEMMA Answered ==
  ASSUME HandoffInv, did \in [Clients -> BOOLEAN], did' \in [Clients -> BOOLEAN],
         NEW c \in Clients, Others(c), pc[c] \in RunningLabels, pc'[c] = "reconcile",
         UNCHANGED <<manifest, cand>>, did'[c] = did[c], NEW o, res'[c] = o,
         \/ /\ o \in Calls!Acknowledged /\ cand[c] \in Range(manifest.hashes)
            /\ (o = "COMMITTED" => did[c]) /\ journal'[c] = Nil
         \/ o \in Calls!Refused /\ ~did[c] /\ journal'[c] = Nil
         \/ o \in Calls!Busy /\ ~did[c] /\ UNCHANGED journal
         \/ o \in Calls!Unsure /\ ~did[c] /\ UNCHANGED journal
         \/ /\ o \in Calls!Unsure
            /\ journal'[c] = [op |-> op[c], sha |-> cand[c]]
  PROVE  Calls!PortNext
<1>1. /\ Sending[c] = cand[c] /\ cand[c] # Nil /\ Answers[c] = Nil
  BY UnderWay
<1>2. Sending' = Sending
  BY <1>1 DEF Others, Sending
<1>3. Answers' = [Answers EXCEPT ![c] = o]
  BY DEF Others, Answers
<1>4. did' = did
  BY DEF Others
<1>5. LedgerOf' = LedgerOf /\ TurnOf' = TurnOf
  BY DEF LedgerOf, TurnOf
<1>6. /\ UNCHANGED journal => Noted' = Noted
      /\ journal'[c] = Nil => Noted' = [Noted EXCEPT ![c] = Nil]
      /\ journal'[c] = [op |-> op[c], sha |-> cand[c]]
           => Noted' = [Noted EXCEPT ![c] = cand[c]]
  <2>1. ASSUME journal'[c] = Nil PROVE Noted' = [Noted EXCEPT ![c] = Nil]
    BY <2>1 DEF Others, Noted
  <2>2. ASSUME journal'[c] = [op |-> op[c], sha |-> cand[c]]
        PROVE  Noted' = [Noted EXCEPT ![c] = cand[c]]
    <3>1. [op |-> op[c], sha |-> cand[c]] \in Progress
      BY <1>1, UnderWay DEF Progress, HandoffInv, RequestInv, RunningLabels
    <3>2. Noted'[c] = cand[c]
      BY <2>2, <3>1, NilAssumption DEF Noted
    <3> QED
      BY <3>2 DEF Others, Noted
  <2> QED
    BY <2>1, <2>2 DEF Noted
<1>7. manifest # Torn /\ Range(LedgerOf) = Calls!Range(LedgerOf)
  BY DEF HandoffInv, ManifestValid, Range, Calls!Range
<1>8. Calls!Answer(c, o)
  BY <1>1, <1>2, <1>3, <1>4, <1>5, <1>6, <1>7
     DEF Calls!Answer, Calls!Running, Calls!NoteSave, Calls!DropNote, Calls!Acknowledged,
         Calls!Refused, Calls!Busy, Calls!Unsure, LedgerOf, TurnOf, Sending, Answers, Noted
<1> QED
  BY <1>8 DEF Calls!PortNext

\* Up to the replacement of the manifest a call has done nothing, and from its
\* first write under the lock on the journal names its save.
LEMMA DoneOrNoted ==
  ASSUME HandoffInv, CallInv, NEW c \in Clients, pc[c] \in RunningLabels
  PROVE  ~did[c] \/ journal[c] = [op |-> op[c], sha |-> cand[c]]
BY DEF RunningLabels, Labels, CallInv, BeforeLabels, AfterLabels, WorkLabels, BaseLabels,
   OwnerLabels, HandoffInv, JournalInv

\* A step that leaves the manifest and the journal alone is hidden, or a failure
\* of which the caller learns.
LEMMA Inside ==
  ASSUME HandoffInv, CallInv, CallInv', did' = [d \in Clients |-> Recorded(d)],
         NEW c \in Clients, Moves(c), UNCHANGED <<manifest, cand, journal>>,
         pc[c] \in RunningLabels,
         \/ pc'[c] \in RunningLabels
         \/ pc'[c] = "reconcile" /\ res'[c] \in Calls!Unsure
         \/ pc'[c] = "reconcile" /\ res'[c] \in Calls!Busy /\ pc[c] \in BeforeLabels
  PROVE  Calls!PortNext \/ UNCHANGED Calls!pvars
<1>1. did'[c] = did[c] /\ did \in [Clients -> BOOLEAN] /\ did' \in [Clients -> BOOLEAN]
  BY DidKept DEF CallInv, RunningLabels
<1>2. Others(c)
  BY OthersSame
<1>3. CASE pc'[c] \in RunningLabels
  BY <1>1, <1>2, <1>3, Hidden
<1>4. CASE pc'[c] = "reconcile" /\ res'[c] \in Calls!Unsure
  <2>1. \/ ~did[c] /\ UNCHANGED journal
        \/ journal'[c] = [op |-> op[c], sha |-> cand[c]]
    BY DoneOrNoted
  <2> QED
    BY <1>1, <1>2, <1>4, <2>1, Answered
<1>5. CASE pc'[c] = "reconcile" /\ res'[c] \in Calls!Busy /\ pc[c] \in BeforeLabels
  <2>1. ~did[c]
    BY <1>5 DEF CallInv
  <2> QED
    BY <1>1, <1>2, <1>5, <2>1, Answered
<1> QED
  BY <1>3, <1>4, <1>5

\* The replacement of the manifest accepts the save of the call.
LEMMA Accepting ==
  ASSUME HandoffInv, HandoffInv', CallInv, CallInv', did' = [d \in Clients |-> Recorded(d)],
         NEW c \in Clients, ReplaceManifest(c), CommitManifest(c)
  PROVE  Calls!Accept(c)
<1>1. /\ pc[c] = "replace" /\ pc'[c] \in {"record", "uncertain"} /\ manTmp[op[c]] # Nil
      /\ UNCHANGED <<cand, journal>> /\ ~did[c]
  BY DEF ReplaceManifest, CommitManifest, Goto, Return, HandoffInv, TypeOK, durable, request,
     CallInv, WorkLabels, BaseLabels, OwnerLabels
<1>2. /\ manifest' = NewManifest(c) /\ base[c] = manifest /\ manifest \in Manifests
      /\ manifest # Torn /\ manifest' # Torn /\ manifest.cur = PlayerOf[c]
      /\ cand[c] \in Hashes /\ cand[c] # Nil /\ cand[c] \notin Range(manifest.hashes)
      /\ journal[c] = [op |-> op[c], sha |-> cand[c]] /\ journal[c] # Nil
  <2>1. /\ op[c] \in Ops /\ cand[c] \in Hashes /\ cand[c] # Nil
        /\ manifest \in Manifests /\ manifest # Torn /\ manifest' # Torn
    BY <1>1, NilAssumption DEF HandoffInv, TypeOK, RequestInv, ManifestValid
  <2>2. /\ base[c] = manifest /\ manifest.cur = PlayerOf[c]
        /\ cand[c] \notin Range(manifest.hashes)
    BY <1>1 DEF HandoffInv, WorkInv, WorkLabels, BaseLabels, OwnerLabels
  <2>3. manifest' = NewManifest(c)
    BY <1>1 DEF HandoffInv, StagedInv, CommitManifest
  <2>4. journal[c] = [op |-> op[c], sha |-> cand[c]]
    BY <1>1 DEF HandoffInv, JournalInv, OwnerLabels
  <2>5. journal[c] # Nil
    BY <2>1, <2>4, NilAssumption DEF Progress
  <2> QED
    BY <2>1, <2>2, <2>3, <2>4, <2>5
<1>3. /\ manifest'.hashes = Append(manifest.hashes, cand[c])
      /\ manifest'.seq = Len(manifest.hashes) + 1
  BY <1>2 DEF NewManifest, HandoffInv, ManifestValid
<1>4. manifest'.cur = Ledger!PlayerAt(Len(manifest.hashes) + 1)
  BY <1>3 DEF HandoffInv, TurnInv
<1>5. Others(c)
  BY OthersSame DEF Moves, ClientStep
<1>6. did' = [did EXCEPT ![c] = TRUE]
  <2>1. manifest' # manifest
    BY <1>2, <1>3 DEF HandoffInv, ManifestValid, Manifests
  <2>2. did'[c] = TRUE
    BY <1>1, <2>1 DEF Recorded, Replaces
  <2> QED
    BY <1>5, <2>2 DEF Others, CallInv
<1>7. /\ Sending[c] = cand[c] /\ Answers[c] = Nil /\ Noted[c] = cand[c]
  BY <1>1, <1>2 DEF Sending, Answers, Noted
<1>8. Sending' = Sending /\ Answers' = Answers /\ Noted' = Noted
  BY <1>1, <1>5 DEF Others, Sending, Answers, Noted
<1>9. /\ LedgerOf = manifest.hashes /\ TurnOf = manifest.cur
      /\ LedgerOf' = Append(LedgerOf, cand[c]) /\ TurnOf' = Calls!PlayerAt(Len(LedgerOf) + 1)
  BY <1>2, <1>3, <1>4 DEF LedgerOf, TurnOf, Calls!PlayerAt, Ledger!PlayerAt
<1> QED
  BY <1>1, <1>2, <1>6, <1>7, <1>8, <1>9
     DEF Calls!Accept, Calls!Running, Calls!Range, Range, LedgerOf, TurnOf, Sending, Answers,
         Noted

\* The caller goes on or is stopped: whatever is left of the call is the note.
LEMMA Ending ==
  ASSUME HandoffInv, CallInv, CallInv', did' = [d \in Clients |-> Recorded(d)],
         NEW c \in Clients, Reconcile(c) \/ Crash(c)
  PROVE  Calls!Over(c) /\ UNCHANGED LedgerOf /\ UNCHANGED TurnOf
<1>1. Moves(c) /\ pc'[c] \in {"idle", "down"} /\ UNCHANGED manifest
  BY DEF Reconcile, Crash, Moves, ClientStep, HandoffInv, TypeOK, remote
<1>2. Others(c)
  BY <1>1, OthersSame
<1>3. ~did'[c]
  BY <1>1 DEF CallInv, BeforeLabels
<1>4. /\ Sending' = [Sending EXCEPT ![c] = Nil] /\ Answers' = [Answers EXCEPT ![c] = Nil]
      /\ did' = [did EXCEPT ![c] = FALSE]
  <2>1. Sending' = [Sending EXCEPT ![c] = Nil]
    <3>1. Sending'[c] = Nil
      BY <1>1 DEF Sending
    <3> QED
      BY <1>2, <3>1 DEF Others, Sending
  <2>2. Answers' = [Answers EXCEPT ![c] = Nil]
    <3>1. Answers'[c] = Nil
      BY <1>1 DEF Answers
    <3> QED
      BY <1>2, <3>1 DEF Others, Answers
  <2>3. did' = [did EXCEPT ![c] = FALSE]
    BY <1>2, <1>3 DEF Others, CallInv
  <2> QED
    BY <2>1, <2>2, <2>3
<1> QED
  BY <1>1, <1>4 DEF Calls!Over, LedgerOf, TurnOf, Sending, Answers

\* An attributed journal names the last save of the ledger.
LEMMA AttributedIsLast ==
  ASSUME HandoffInv, NEW c \in Clients, JournalAttributed(c)
  PROVE  Noted[c] = Calls!LastAccepted
BY DEF JournalAttributed, IsLatest, Calls!LastAccepted, Noted, HandoffInv, ManifestValid

\* The reconcile after a handoff is the return of the call, or settles what is noted.
LEMMA ReturnStep ==
  ASSUME HandoffInv, CallInv, CallInv', did' = [d \in Clients |-> Recorded(d)],
         NEW c \in Clients, Reconcile(c)
  PROVE  Calls!PortNext \/ UNCHANGED Calls!pvars
<1>1. Others(c)
  BY OthersSame DEF Moves, ClientStep
<1>2. Calls!Over(c) /\ LedgerOf' = LedgerOf /\ TurnOf' = TurnOf
  BY Ending
<1>3. \/ UNCHANGED journal
      \/ JournalAttributed(c) /\ journal' = [journal EXCEPT ![c] = Nil]
  BY DEF Reconcile
<1>4. \/ Noted' = Noted
      \/ Noted[c] = Calls!LastAccepted /\ Noted' = [Noted EXCEPT ![c] = Nil]
  <2>1. journal \in [Clients -> Progress \cup {Nil}]
    BY DEF HandoffInv, TypeOK
  <2> QED
    BY <1>1, <1>3, <2>1, AttributedIsLast DEF Noted, Others
<1>5. CASE pc[c] = "reconcile"
  <2>1. Answers[c] # Nil
    BY <1>5 DEF Answers, CallInv
  <2>2. Calls!Return(c)
    BY <1>2, <1>4, <2>1 DEF Calls!Return, Calls!Settled, Calls!DropNote, LedgerOf, TurnOf,
       Answers, Noted
  <2> QED
    BY <2>2 DEF Calls!PortNext
<1>6. CASE pc[c] = "idle"
  <2>1. Sending[c] = Nil /\ Answers[c] = Nil /\ ~did[c]
    BY <1>6 DEF Sending, Answers, CallInv, BeforeLabels
  <2>2. Sending' = Sending /\ Answers' = Answers /\ did' = did
    <3>1. /\ Sending' = [Sending EXCEPT ![c] = Nil] /\ Answers' = [Answers EXCEPT ![c] = Nil]
          /\ did' = [did EXCEPT ![c] = FALSE]
      BY <1>2 DEF Calls!Over, Sending, Answers
    <3>2. Sending' = Sending
      BY <2>1, <3>1 DEF Sending
    <3>3. Answers' = Answers
      BY <2>1, <3>1 DEF Answers
    <3>4. did' = did
      BY <2>1, <3>1 DEF CallInv
    <3> QED
      BY <3>2, <3>3, <3>4
  <2>3. Calls!Settle(c) \/ UNCHANGED Calls!pvars
    BY <1>2, <1>4, <2>1, <2>2 DEF Calls!Settle, Calls!DropNote, Calls!pvars, LedgerOf, TurnOf,
       Sending, Answers, Noted
  <2> QED
    BY <2>3 DEF Calls!PortNext
<1> QED
  BY <1>5, <1>6 DEF Reconcile

\* A client that moves makes a step of the port or one hidden from its caller.
LEMMA MoverStep ==
  ASSUME HandoffInv, HandoffInv', CallInv, CallInv', did' = [d \in Clients |-> Recorded(d)],
         NEW c \in Clients, Moves(c)
  PROVE  Calls!PortNext \/ UNCHANGED Calls!pvars
<1>types. pc \in [Clients -> Labels] /\ res \in [Clients -> HandoffOutcome \cup {Nil}]
  BY DEF HandoffInv, TypeOK
<1>kept. /\ did \in [Clients -> BOOLEAN] /\ did' \in [Clients -> BOOLEAN]
         /\ pc[c] # "replace" \/ UNCHANGED manifest
              => did'[c] = (pc'[c] \notin {"idle", "down"} /\ did[c])
  BY DidKept DEF CallInv
<1>others. Others(c)
  BY OthersSame
<1>1. CASE ExecuteHandoff(c)
  <2>1. PICK h \in Hashes : cand' = [cand EXCEPT ![c] = h]
    BY <1>1 DEF ExecuteHandoff
  <2>2. /\ pc[c] = "idle" /\ pc'[c] = "mkdir" /\ cand'[c] = h /\ ~did[c]
        /\ UNCHANGED <<manifest, journal>>
    BY <1>1, <1>types, <2>1 DEF ExecuteHandoff, Goto, remote, durable, HandoffInv, TypeOK, CallInv,
       BeforeLabels
  <2>3. /\ Sending[c] = Nil /\ Sending'[c] = h /\ Answers[c] = Nil /\ Answers'[c] = Nil
    BY <2>2 DEF Sending, Answers
  <2>4. Sending' = [Sending EXCEPT ![c] = h]
    BY <1>others, <2>3 DEF Others, Sending
  <2>5. Answers' = Answers
    BY <1>others, <2>3 DEF Others, Answers
  <2>6. did' = did
    BY <1>others, <1>kept, <2>2 DEF Others
  <2>7. Noted' = Noted /\ LedgerOf' = LedgerOf /\ TurnOf' = TurnOf
    BY <2>2 DEF Noted, LedgerOf, TurnOf
  <2>8. Calls!Begin(c, h)
    BY <2>3, <2>4, <2>5, <2>6, <2>7
       DEF Calls!Begin, Sending, Answers, Noted, LedgerOf, TurnOf
  <2> QED
    BY <2>8 DEF Calls!PortNext
<1>2. CASE BeginHandoff(c)
  <2>1. /\ pc[c] \in {"begin", "begin_failed"} /\ pc[c] \in RunningLabels /\ ~did[c]
        /\ UNCHANGED <<manifest, cand>> /\ journal'[c] = [op |-> op[c], sha |-> cand[c]]
    BY <1>2 DEF BeginHandoff, RunningLabels, Labels, CallInv, BeforeLabels, remote, request,
       HandoffInv, TypeOK
  <2>2. CASE pc[c] = "begin_failed"
    <3>1. pc'[c] = "reconcile" /\ res'[c] = "TRANSPORT_FAILURE"
      BY <1>2, <1>types, <2>2 DEF BeginHandoff, Return
    <3>2. did'[c] = did[c]
      BY <1>kept, <2>1, <3>1
    <3> QED
      BY <1>kept, <1>others, <2>1, <3>1, <3>2, Answered DEF Calls!Unsure
  <2>3. CASE pc[c] = "begin"
    <3>1. pc'[c] = "read_manifest"
      BY <1>2, <1>types, <2>3 DEF BeginHandoff, Goto
    <3>2. /\ Sending[c] = cand[c] /\ cand[c] \in Hashes /\ cand[c] # Nil /\ Answers[c] = Nil
      BY <2>1, UnderWay
    <3>3. Sending'[c] = cand[c] /\ Answers'[c] = Nil
      BY <2>1, <3>1 DEF Sending, Answers
    <3>4. Sending' = Sending
      BY <1>others, <3>2, <3>3 DEF Others, Sending
    <3>5. Answers' = Answers
      BY <1>others, <3>2, <3>3 DEF Others, Answers
    <3>6. did' = did
      BY <1>others, <1>kept, <2>1, <3>1 DEF Others
    <3>7. Noted' = [Noted EXCEPT ![c] = cand[c]]
      <4>1. [op |-> op[c], sha |-> cand[c]] \in Progress
        BY <2>1, <3>2 DEF Progress, HandoffInv, RequestInv, RunningLabels
      <4>2. Noted'[c] = cand[c]
        BY <2>1, <4>1, NilAssumption DEF Noted
      <4> QED
        BY <1>others, <4>2 DEF Others, Noted
    <3>8. LedgerOf' = LedgerOf /\ TurnOf' = TurnOf
      BY <2>1 DEF LedgerOf, TurnOf
    <3>9. Calls!Note(c)
      BY <2>1, <3>2, <3>4, <3>5, <3>6, <3>7, <3>8
         DEF Calls!Note, Calls!Running, Calls!NoteSave, Sending, Answers, Noted, LedgerOf, TurnOf
    <3> QED
      BY <3>9 DEF Calls!PortNext
  <2> QED
    BY <2>1, <2>2, <2>3
<1>3. CASE AcquireMkdir(c) \/ AcquireWriteLockJson(c) \/ ResumeExistingLock(c)
  <2>1. /\ UNCHANGED <<manifest, cand, journal>> /\ pc[c] \in RunningLabels
        /\ pc[c] \in BeforeLabels
    BY <1>3 DEF AcquireMkdir, AcquireWriteLockJson, ResumeExistingLock, remote, durable,
       request, RunningLabels, Labels, BeforeLabels
  <2>2. \/ pc'[c] \in RunningLabels
        \/ pc'[c] = "reconcile" /\ res'[c] \in Calls!Unsure \cup Calls!Busy
    BY <1>3, <1>types DEF AcquireMkdir, AcquireWriteLockJson, ResumeExistingLock, Goto, Return,
       RunningLabels, Labels, Calls!Unsure, Calls!Busy
  <2> QED
    BY <2>1, <2>2, Inside
<1>4. CASE \/ ReadManifest(c) \/ StageAndVerifyUpload(c) \/ PublishOrReuseFinal(c)
           \/ ArchiveStage(c) \/ ArchivePublish(c) \/ WriteTempManifest(c) \/ ConfirmLock(c)
  <2>1. /\ UNCHANGED <<manifest, cand, journal>> /\ pc[c] \in RunningLabels
    BY <1>4 DEF ReadManifest, StageAndVerifyUpload, PublishOrReuseFinal, ArchiveStage,
       ArchivePublish, WriteTempManifest, ConfirmLock, remote, durable, request, RunningLabels,
       Labels
  <2>2. \/ pc'[c] \in RunningLabels
        \/ pc'[c] = "reconcile" /\ res'[c] \in Calls!Unsure
    BY <1>4, <1>types DEF ReadManifest, StageAndVerifyUpload, PublishOrReuseFinal, ArchiveStage,
       ArchivePublish, WriteTempManifest, ConfirmLock, Goto, Return, ReleaseWith,
       RunningLabels, Labels, Calls!Unsure
  <2> QED
    BY <2>1, <2>2, Inside
<1>5. CASE ReplaceManifest(c)
  <2>1. CASE CommitManifest(c)
    BY <1>5, <2>1, Accepting DEF Calls!PortNext
  <2>2. CASE UNCHANGED manifest
    <3>1. /\ UNCHANGED <<cand, journal>> /\ pc[c] \in RunningLabels
      BY <1>5 DEF ReplaceManifest, durable, request, RunningLabels, Labels
    <3>2. \/ pc'[c] \in RunningLabels
          \/ pc'[c] = "reconcile" /\ res'[c] \in Calls!Unsure
      BY <1>5, <1>types DEF ReplaceManifest, Goto, Return, RunningLabels, Labels, Calls!Unsure
    <3> QED
      BY <2>2, <3>1, <3>2, Inside
  <2> QED
    BY <1>5, <2>1, <2>2 DEF ReplaceManifest
<1>6. CASE \/ RecordCommit(c) \/ ReconcileUncertainCommit(c) \/ ReleaseCheck(c)
           \/ ReleaseRemoveJson(c) \/ ReleaseRemoveDir(c)
  <2>1. /\ UNCHANGED <<manifest, cand, journal>> /\ pc[c] \in RunningLabels
    BY <1>6 DEF RecordCommit, ReconcileUncertainCommit, ReleaseCheck, ReleaseRemoveJson,
       ReleaseRemoveDir, remote, durable, request, RunningLabels, Labels
  <2>2. \/ pc'[c] \in RunningLabels
        \/ pc'[c] = "reconcile" /\ res'[c] \in Calls!Unsure
    BY <1>6, <1>types DEF RecordCommit, ReconcileUncertainCommit, ReleaseCheck,
       ReleaseRemoveJson, ReleaseRemoveDir, Goto, Return, ReleaseWith, RunningLabels, Labels,
       Calls!Unsure
  <2> QED
    BY <2>1, <2>2, Inside
<1>7. CASE ClearInProgress(c)
  <2>1. /\ pc[c] = "clear" /\ pc'[c] = "reconcile" /\ res'[c] = res[c]
        /\ UNCHANGED <<manifest, cand>> /\ journal'[c] = Nil
    BY <1>7, <1>types DEF ClearInProgress, Goto, remote, request, HandoffInv, TypeOK
  <2>2. /\ pc[c] \in RunningLabels /\ did'[c] = did[c]
    BY <1>kept, <2>1 DEF RunningLabels, Labels
  <2>3. \/ res[c] = "COMMITTED" /\ did[c]
        \/ res[c] = "IDEMPOTENT_ACK"
        \/ res[c] \in Calls!Refused /\ ~did[c]
    BY <2>1 DEF CallInv, AfterLabels, TerminalRejects, Calls!Refused
  <2>4. res[c] \in Calls!Acknowledged => cand[c] \in Range(manifest.hashes)
    BY DEF HandoffInv, AcknowledgedIsAccepted, Calls!Acknowledged
  <2>5. CASE res[c] \in Calls!Acknowledged
    <3>1. res[c] = "COMMITTED" => did[c]
      BY <2>3 DEF Calls!Refused
    <3> QED
      BY <1>kept, <1>others, <2>1, <2>2, <2>4, <2>5, <3>1, Answered
  <2>6. CASE res[c] \in Calls!Refused /\ ~did[c]
    BY <1>kept, <1>others, <2>1, <2>2, <2>6, Answered
  <2> QED
    BY <2>3, <2>5, <2>6 DEF Calls!Acknowledged
<1>8. CASE Reconcile(c)
  BY <1>8, ReturnStep
<1>9. CASE Crash(c)
  <2>1. Noted' = Noted
    BY <1>9 DEF Crash, durable, Noted
  <2>2. Calls!Stop(c)
    BY <1>9, <2>1, Ending DEF Calls!Stop, LedgerOf, TurnOf, Noted
  <2> QED
    BY <2>2 DEF Calls!PortNext
<1>10. CASE Restart(c)
  <2>1. /\ pc[c] = "down" /\ pc'[c] = "idle" /\ UNCHANGED <<manifest, journal>> /\ ~did[c]
    BY <1>10, <1>types DEF Restart, Goto, remote, durable, CallInv, BeforeLabels
  <2>2. Sending' = Sending
    <3>1. Sending[c] = Nil /\ Sending'[c] = Nil
      BY <2>1 DEF Sending
    <3> QED
      BY <1>others, <3>1 DEF Others, Sending
  <2>3. Answers' = Answers
    <3>1. Answers[c] = Nil /\ Answers'[c] = Nil
      BY <2>1 DEF Answers
    <3> QED
      BY <1>others, <3>1 DEF Others, Answers
  <2>4. did' = did
    BY <1>others, <1>kept, <2>1 DEF Others
  <2>5. Noted' = Noted
    BY <2>1 DEF Noted
  <2> QED
    BY <2>1, <2>2, <2>3, <2>4, <2>5 DEF Calls!pvars, Sending, Answers, Noted
<1> QED
  BY <1>1, <1>2, <1>3, <1>4, <1>5, <1>6, <1>7, <1>8, <1>9, <1>10 DEF Moves, ClientStep

\* Where a call is tells what it has done, in every reachable state.
THEOREM CallInvariant == ASSUME CarefulRepair PROVE CallSpec => [](HandoffInv /\ CallInv)
<1>1. CallInit => HandoffInv /\ CallInv
  <2>1. CallInit => HandoffInv
    BY InitInv DEF CallInit
  <2>2. CallInit => CallInv
    BY DEF CallInit, Init, CallInv, BeforeLabels, AfterLabels
  <2> QED
    BY <2>1, <2>2
<1>2. HandoffInv /\ CallInv /\ [CallNext]_<<vars, did>> => HandoffInv' /\ CallInv'
  <2>1. [CallNext]_<<vars, did>> => [Next]_vars
    BY DEF CallNext
  <2> QED
    BY <2>1, StepInv, CallStep
<1> QED
  BY <1>1, <1>2, PTL DEF CallSpec

\* The handoff implements HandoffPort: what its answer says of the save is true,
\* and of a save that was accepted without an answer the journal keeps the record.
THEOREM PortRefinement == ASSUME CarefulRepair PROVE CallSpec => CallerSpec
<1>1. CallInit => Calls!PortInit
  <2> SUFFICES ASSUME CallInit PROVE Calls!PortInit
    OBVIOUS
  <2>1. ManifestValid /\ TurnInv
    BY InitInv DEF HandoffInv, CallInit
  <2>2. manifest.hashes = <<>> /\ manifest.seq = 0
    BY DEF CallInit, Init, SequenceZeroManifest
  <2> QED
    BY <2>1, <2>2 DEF CallInit, Init, Calls!PortInit, ManifestValid, TurnInv, Ledger!PlayerAt,
       Calls!PlayerAt
<1>2. ASSUME HandoffInv, HandoffInv', CallInv, CallInv', [CallNext]_<<vars, did>>
      PROVE  [Calls!PortNext]_(Calls!pvars)
  <2>1. CASE UNCHANGED <<vars, did>>
    BY <2>1 DEF vars, remote, durable, request, Calls!pvars
  <2>2. CASE CallNext
    <3>1. did' = [c \in Clients |-> Recorded(c)]
      BY <2>2 DEF CallNext
    <3>2. ASSUME NEW c \in Clients, Moves(c) PROVE [Calls!PortNext]_(Calls!pvars)
      BY <1>2, <3>1, <3>2, MoverStep
    <3>3. CASE RepairStep \/ SweepStep
      <4>1. UNCHANGED <<manifest, journal, pc, op, cand, res>>
        BY <3>3, AdminUntouched DEF durable, request
      <4>2. ASSUME NEW c \in Clients PROVE did'[c] = did[c]
        BY <1>2, <3>1, <4>1, DidUntouched DEF Untouched
      <4>3. did' = did
        BY <1>2, <4>2 DEF CallInv
      <4> QED
        BY <4>1, <4>3 DEF Calls!pvars
    <3> QED
      BY <2>2, <3>2, <3>3 DEF CallNext, Next, Moves
  <2> QED
    BY <1>2, <2>1, <2>2
<1>3. HandoffInv /\ CallInv /\ HandoffInv' /\ CallInv' /\ [CallNext]_<<vars, did>>
        => [Calls!PortNext]_(Calls!pvars)
  BY <1>2
<1> QED
  BY <1>1, <1>3, CallInvariant, PTL DEF CallSpec, CallerSpec, Calls!PortSpec
=============================================================================
