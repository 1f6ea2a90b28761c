------------------------------ MODULE Handoff ------------------------------
(***************************************************************************)
(* The commit of one turn to the shared match directory: the upload lock,  *)
(* the staged save, the archived manifest and the replacement of           *)
(* manifest.json, as protocol/handoff.py and protocol/lock.py perform them *)
(* on the storage, the local journal that survives a crash, its recovery   *)
(* by local/reconcile.py, the confirmed repair of an abandoned lock and    *)
(* the sweep of temporary files.                                           *)
(*                                                                         *)
(* One action is one storage call that changes something, with the reads   *)
(* around it of objects nobody else writes, or one durable journal write,  *)
(* so a crash, a lost answer or another client may come between any two.   *)
(***************************************************************************)
EXTENDS HashClassify, FiniteSets

CONSTANTS
  Clients,       \* installations of the relay (client_id)
  PlayerOrder,   \* manifest.players: the humans in relay order
  PlayerOf,      \* the player each installation is configured for
  Hashes,        \* SHA-256 values of the saves; a save is its hash
  Ops,           \* operation ids
  Nil,           \* absent file, empty journal, no value (None)
  Torn,          \* bytes of a partial or damaged write
  CarefulRepair, \* whether "the original client is stopped" is true when confirmed
  MaxFaults,     \* bound: storage calls that fail or lose their answer
  MaxCrashes,    \* bound: client stops
  MaxRepairs,    \* bound: repair previews
  MaxSweeps      \* bound: sweeps of temporary/

Players == Range(PlayerOrder)

ASSUME ConstantsAssumption ==
  /\ PlayerOrder \in Seq(Players) /\ PlayerOrder # <<>> /\ IsInjective(PlayerOrder)
  /\ PlayerOf \in [Clients -> Players]
  /\ CarefulRepair \in BOOLEAN
  /\ MaxFaults \in Nat /\ MaxCrashes \in Nat /\ MaxRepairs \in Nat /\ MaxSweeps \in Nat

VARIABLES
  manifest,   \* manifest.json, the authoritative state of the match
  saves,      \* saves/: [seq, hash] names the path, content its bytes
  history,    \* history/: archived manifests by path
  upTmp,      \* temporary/{op}.upload, by operation
  histTmp,    \* temporary/history-{op}.json
  manTmp,     \* temporary/manifest-{op}.json
  lockDir,    \* the directory locks/upload.lock/: "present" or "absent"
  lockJson,   \* locks/upload.lock/lock.json
  journal,    \* in_progress_handoff of each client, durable
  attempted,  \* attempted_handoff_hashes of each client, durable
  accepted,   \* historically_accepted_hashes of each client, durable
  pc,         \* where each client's execute_handoff is
  op, cand,   \* the operation id and the outgoing save of the running handoff
  base,       \* the manifest it read under the lock
  res,        \* HandoffResult.outcome, once decided
  repair,     \* the confirmed repair of the lock under way
  sweep,      \* the files a sweep of temporary/ has still to remove
  budget      \* what is left of the bounds

remote   == <<manifest, saves, history, upTmp, histTmp, manTmp>>
lock     == <<lockDir, lockJson>>
durable  == <<journal, attempted, accepted>>
request  == <<op, cand, base>>
admin    == <<repair, sweep>>
vars     == <<remote, lock, durable, pc, request, res, admin, budget>>

-----------------------------------------------------------------------------
LockExists == lockDir = "present"

Contents == Hashes \cup {Torn}

LockDocs == [op : Ops, client : Clients]

\* lock.json as client c writes it; the player follows from the client.
Document(c) == [op |-> op[c], client |-> c]

Progress == [op : Ops, sha : Hashes]

\* The path of the archive of manifest m: its sequence and the digest of its
\* bytes, for which the operation that wrote it stands.
HistoryPath(m) == [seq |-> m.seq, op |-> m.op]

HistoryPaths == [seq : Nat, op : Ops \cup {Nil}]

Manifests ==
  [seq : Nat, cur : Players, sender : Players \cup {Nil}, hashes : Seq(Hashes),
   op : Ops \cup {Nil}, prev : HistoryPaths \cup {Nil}]

\* Seeded fault: no current player until the first save is accepted.
SequenceZeroManifest_NoOwner ==
  [seq |-> 0, cur |-> Nil, sender |-> Nil, hashes |-> <<>>, op |-> Nil, prev |-> Nil]

SequenceZeroManifest ==
  [seq |-> 0, cur |-> PlayerOrder[1], sender |-> Nil, hashes |-> <<>>,
   op |-> Nil, prev |-> Nil]

\* The manifest client c means to commit over the one it read.
NewManifest(c) ==
  [seq    |-> base[c].seq + 1,
   cur    |-> NextHumanPlayerId(PlayerOrder, PlayerOf[c]),
   sender |-> PlayerOf[c],
   hashes |-> Append(base[c].hashes, cand[c]),
   op     |-> op[c],
   prev   |-> HistoryPath(base[c])]

\* The object at path (seq, hash) of saves/, and at path p of history/.
SavesAt(seq, hash) == {s \in saves : s.seq = seq /\ s.hash = hash}

HistoryAt(p) == {x \in history : x.path = p}

\* The files of temporary/ and what is in them.
TempPaths == [kind : {"upload", "history", "manifest"}, op : Ops]

TempAt(p) == CASE p.kind = "upload"   -> upTmp[p.op]
               [] p.kind = "history"  -> histTmp[p.op]
               [] p.kind = "manifest" -> manTmp[p.op]

TerminalRejects ==
  {"REJECT_INCOMING", "JOURNAL_ONLY_ACK", "STALE_REPLAY", "NOT_CURRENT_OWNER",
   "INVALID_MANIFEST", "HARD_INTEGRITY_FAILURE", "LOCK_OWNERSHIP_LOST"}

HandoffOutcome ==
  TerminalRejects \cup
  {"COMMITTED", "IDEMPOTENT_ACK", "LOCK_HELD", "LOCK_UNREADABLE",
   "TRANSPORT_FAILURE", "LOCK_CLEANUP_AMBIGUOUS"}

ASSUME NilAssumption ==
  /\ Nil \notin Players \cup Hashes \cup Ops \cup LockDocs \cup Progress
  /\ Nil \notin Manifests \cup HistoryPaths \cup HandoffOutcome
  /\ Torn \notin Hashes \cup LockDocs \cup Manifests \cup {Nil}

\* operation_id_factory: a UUID that occurs nowhere yet.
OpsInUse ==
  {op[c] : c \in Clients} \cup
  {o \in Ops :
     \/ upTmp[o] # Nil \/ histTmp[o] # Nil \/ manTmp[o] # Nil
     \/ \E c \in Clients : journal[c] # Nil /\ journal[c].op = o
     \/ \E d \in {lockJson, repair.seen} : d \in LockDocs /\ d.op = o
     \/ manifest # Torn /\ manifest.op = o
     \/ \E x \in history : x.path.op = o
     \/ \E p \in sweep : p.op = o}

FreshOps == Ops \ OpsInUse

-----------------------------------------------------------------------------
Init ==
  /\ manifest = SequenceZeroManifest
  /\ saves = {} /\ history = {}
  /\ upTmp   = [o \in Ops |-> Nil]
  /\ histTmp = [o \in Ops |-> Nil]
  /\ manTmp  = [o \in Ops |-> Nil]
  /\ lockDir = "absent" /\ lockJson = Nil
  /\ journal   = [c \in Clients |-> Nil]
  /\ attempted = [c \in Clients |-> {}]
  /\ accepted  = [c \in Clients |-> {}]
  /\ pc   = [c \in Clients |-> "idle"]
  /\ op   = [c \in Clients |-> Nil]
  /\ cand = [c \in Clients |-> Nil]
  /\ base = [c \in Clients |-> Nil]
  /\ res  = [c \in Clients |-> Nil]
  /\ repair = [step |-> "none", seen |-> Nil]
  /\ sweep  = {}
  /\ budget = [fault |-> MaxFaults, crash |-> MaxCrashes,
               repair |-> MaxRepairs, sweep |-> MaxSweeps]

NoFault == UNCHANGED budget

\* A StorageTransportError: the call had no effect, or its answer was lost.
Fault == /\ budget.fault > 0
         /\ budget' = [budget EXCEPT !.fault = @ - 1]

Goto(c, label) == pc' = [pc EXCEPT ![c] = label] /\ UNCHANGED res

\* commit_handoff returns; execute_handoff always reconciles next.
Return(c, outcome) ==
  /\ pc'  = [pc EXCEPT ![c] = "reconcile"]
  /\ res' = [res EXCEPT ![c] = outcome]

\* TERMINAL_RELEASE and SUCCESS_RELEASE of _apply_cleanup.
ReleaseWith(c, outcome) ==
  /\ pc'  = [pc EXCEPT ![c] = "release"]
  /\ res' = [res EXCEPT ![c] = outcome]

-----------------------------------------------------------------------------
(* execute_handoff and the upload lock *)

\* An operation id left in the journal is taken up again, whatever the bytes.
ExecuteHandoff(c) ==
  /\ pc[c] = "idle"
  /\ \E h \in Hashes, o \in Ops :
       /\ IF journal[c] # Nil THEN o = journal[c].op
                              ELSE FreshOps # {} /\ o = CHOOSE f \in FreshOps : TRUE
       /\ op'   = [op EXCEPT ![c] = o]
       /\ cand' = [cand EXCEPT ![c] = h]
  /\ Goto(c, "mkdir")
  /\ UNCHANGED <<remote, lock, durable, base, admin, budget>>

\* When the answer to a mkdir that took effect is lost, the adapter either
\* fails or finds the directory and reports that it already exists.
AcquireMkdir(c) ==
  /\ pc[c] = "mkdir"
  /\ \/ LockExists /\ NoFault /\ Goto(c, "resume") /\ UNCHANGED lockDir
     \/ ~LockExists /\ NoFault /\ Goto(c, "lock_json") /\ lockDir' = "present"
     \/ /\ Fault /\ Return(c, "TRANSPORT_FAILURE")
        /\ UNCHANGED lockDir \/ lockDir' = "present"
     \/ ~LockExists /\ Fault /\ Goto(c, "resume") /\ lockDir' = "present"
  /\ UNCHANGED <<remote, lockJson, durable, request, admin>>

AcquireWriteLockJson(c) ==
  /\ pc[c] = "lock_json"
  /\ \/ /\ LockExists /\ lockJson = Nil /\ NoFault
        /\ lockJson' = Document(c) /\ Goto(c, "begin")
     \/ /\ LockExists /\ lockJson = Nil /\ Fault
        /\ lockJson' \in {Nil, Torn, Document(c)} /\ Goto(c, "begin_failed")
     \/ /\ ~(LockExists /\ lockJson = Nil) /\ NoFault
        /\ Goto(c, "begin_failed") /\ UNCHANGED lockJson
  /\ UNCHANGED <<remote, lockDir, durable, request, admin>>

\* journal.begin_handoff, after lock.json was written and after it failed.
BeginHandoff(c) ==
  /\ pc[c] \in {"begin", "begin_failed"}
  /\ journal' = [journal EXCEPT ![c] = [op |-> op[c], sha |-> cand[c]]]
  /\ attempted' = [attempted EXCEPT ![c] = @ \cup {cand[c]}]
  /\ IF pc[c] = "begin" THEN Goto(c, "read_manifest")
                        ELSE Return(c, "TRANSPORT_FAILURE")
  /\ UNCHANGED <<remote, lock, accepted, request, admin, budget>>

\* inspect_upload_lock finds a readable lock document.
LockReadable == LockExists /\ lockJson \in LockDocs

\* Seeded fault: a lock without lock.json is taken for the client's own.
ResumeExistingLock_AdoptUnreadable(c) ==
  /\ pc[c] = "resume" /\ NoFault
  /\ IF ~LockReadable \/ lockJson = Document(c)
     THEN Goto(c, "read_manifest") ELSE Return(c, "LOCK_HELD")
  /\ UNCHANGED <<remote, lock, durable, request, admin>>

\* Seeded fault: an existing lock is never resumed.
ResumeExistingLock_Never(c) ==
  /\ pc[c] = "resume" /\ NoFault /\ Return(c, "LOCK_HELD")
  /\ UNCHANGED <<remote, lock, durable, request, admin>>

ResumeExistingLock(c) ==
  /\ pc[c] = "resume"
  /\ \/ Fault /\ Return(c, "TRANSPORT_FAILURE")
     \/ ~LockReadable /\ NoFault /\ Return(c, "LOCK_UNREADABLE")
     \/ /\ LockReadable /\ NoFault
        /\ IF /\ lockJson = Document(c)
              /\ journal[c] = [op |-> op[c], sha |-> cand[c]]
           THEN Goto(c, "read_manifest")
           ELSE Return(c, "LOCK_HELD")
  /\ UNCHANGED <<remote, lock, durable, request, admin>>

-----------------------------------------------------------------------------
(* _run_owned_handoff *)

\* Seeded fault: whose turn it is, is not checked again under the lock.
ClassifyUnderLock_AnyPlayer(c) ==
  IF manifest = Torn THEN "INVALID_MANIFEST"
  ELSE ClassifyCandidateHash(cand[c], manifest.hashes, PlayerOf[c], manifest.cur,
         manifest.sender, cand[c] \in attempted[c], cand[c] \in accepted[c])

\* What the manifest and the journal say of the candidate, as an outcome.
ClassifyUnderLock(c) ==
  IF manifest = Torn THEN "INVALID_MANIFEST"
  ELSE LET class == ClassifyCandidateHash(cand[c], manifest.hashes, PlayerOf[c],
                      manifest.cur, manifest.sender,
                      cand[c] \in attempted[c], cand[c] \in accepted[c])
       IN IF class = "NEW_HANDOFF_CANDIDATE" /\ manifest.cur # PlayerOf[c]
          THEN "NOT_CURRENT_OWNER" ELSE class

RecordHistoricalAcceptance(c) ==
  accepted' = [accepted EXCEPT ![c] = @ \cup {cand[c]}]

ReadManifest(c) ==
  /\ pc[c] = "read_manifest"
  /\ \/ Fault /\ Return(c, "TRANSPORT_FAILURE") /\ UNCHANGED <<base, accepted>>
     \/ /\ ClassifyUnderLock(c) = "NEW_HANDOFF_CANDIDATE" /\ NoFault
        /\ base' = [base EXCEPT ![c] = manifest]
        /\ Goto(c, "stage") /\ UNCHANGED accepted
     \/ /\ ClassifyUnderLock(c) = "IDEMPOTENT_ACK" /\ NoFault
        /\ RecordHistoricalAcceptance(c)
        /\ ReleaseWith(c, "IDEMPOTENT_ACK") /\ UNCHANGED base
     \/ /\ ClassifyUnderLock(c) \in TerminalRejects /\ NoFault
        /\ ReleaseWith(c, ClassifyUnderLock(c)) /\ UNCHANGED <<base, accepted>>
  /\ UNCHANGED <<remote, lock, journal, attempted, op, cand, admin>>

\* A staged object with the right bytes is kept, anything else overwritten;
\* the complete read-back then finds a write that was damaged silently.
StageAndVerifyUpload(c) ==
  /\ pc[c] = "stage"
  /\ \/ /\ NoFault /\ Goto(c, "publish")
        /\ upTmp' = [upTmp EXCEPT ![op[c]] = cand[c]]
     \/ /\ upTmp[op[c]] # cand[c] /\ Fault
        /\ ReleaseWith(c, "HARD_INTEGRITY_FAILURE")
        /\ upTmp' = [upTmp EXCEPT ![op[c]] = Torn]
     \/ /\ Fault /\ Return(c, "TRANSPORT_FAILURE")
        /\ \E left \in {upTmp[op[c]], Torn, cand[c]} :
             /\ upTmp[op[c]] = cand[c] => left = cand[c]
             /\ upTmp' = [upTmp EXCEPT ![op[c]] = left]
  /\ UNCHANGED <<manifest, saves, history, histTmp, manTmp, lock, durable, request, admin>>

\* The rename of the staged save to its final path, and what it leaves.
PublishedSave(c) ==
  [seq |-> base[c].seq + 1, hash |-> cand[c], content |-> upTmp[op[c]]]

MoveUploadToSaves(c) ==
  /\ saves' = saves \cup {PublishedSave(c)}
  /\ upTmp' = [upTmp EXCEPT ![op[c]] = Nil]

\* Seeded fault: a staged save that is gone is taken for a published one.
PublishOrReuseFinal_MissingIsDone(c) ==
  /\ pc[c] = "publish" /\ NoFault /\ Goto(c, "archive")
  /\ IF upTmp[op[c]] = Nil THEN UNCHANGED <<saves, upTmp>> ELSE MoveUploadToSaves(c)
  /\ UNCHANGED <<manifest, history, histTmp, manTmp, lock, durable, request, admin>>

PublishOrReuseFinal(c) ==
  LET final == SavesAt(base[c].seq + 1, cand[c])
      Verified(content) == IF content = cand[c] THEN Goto(c, "archive")
                           ELSE ReleaseWith(c, "HARD_INTEGRITY_FAILURE")
  IN /\ pc[c] = "publish"
     /\ \/ /\ upTmp[op[c]] = Nil /\ NoFault
           /\ Return(c, "TRANSPORT_FAILURE") /\ UNCHANGED <<saves, upTmp>>
        \/ /\ upTmp[op[c]] # Nil /\ final = {} /\ NoFault
           /\ MoveUploadToSaves(c) /\ Verified(upTmp[op[c]])
        \/ /\ upTmp[op[c]] # Nil /\ final # {} /\ NoFault
           /\ UNCHANGED <<saves, upTmp>>
           /\ \E s \in final : Verified(s.content)
        \/ /\ Fault /\ Return(c, "TRANSPORT_FAILURE")
           /\ \/ UNCHANGED <<saves, upTmp>>
              \/ upTmp[op[c]] # Nil /\ final = {} /\ MoveUploadToSaves(c)
     /\ UNCHANGED <<manifest, history, histTmp, manTmp, lock, durable, request, admin>>

\* The bytes read under the lock are staged for history/; a staged object of
\* the same operation with other bytes is never overwritten, and a damaged write
\* is found by the read-back.
ArchiveStage(c) ==
  /\ pc[c] = "archive"
  /\ \/ /\ histTmp[op[c]] \in {Nil, base[c]} /\ NoFault /\ Goto(c, "archive_publish")
        /\ histTmp' = [histTmp EXCEPT ![op[c]] = base[c]]
     \/ /\ histTmp[op[c]] \notin {Nil, base[c]} /\ NoFault
        /\ ReleaseWith(c, "HARD_INTEGRITY_FAILURE") /\ UNCHANGED histTmp
     \/ /\ histTmp[op[c]] = Nil /\ Fault
        /\ ReleaseWith(c, "HARD_INTEGRITY_FAILURE")
        /\ histTmp' = [histTmp EXCEPT ![op[c]] = Torn]
     \/ /\ Fault /\ Return(c, "TRANSPORT_FAILURE")
        /\ \E left \in {histTmp[op[c]], Torn, base[c]} :
             /\ histTmp[op[c]] # Nil => left = histTmp[op[c]]
             /\ histTmp' = [histTmp EXCEPT ![op[c]] = left]
  /\ UNCHANGED <<manifest, saves, history, upTmp, manTmp, lock, durable, request, admin>>

MoveTempToHistory(c) ==
  /\ history' = history \cup {[path |-> HistoryPath(base[c]), content |-> histTmp[op[c]]]}
  /\ histTmp' = [histTmp EXCEPT ![op[c]] = Nil]

\* Seeded fault: a failed archive does not stop the commit.
ArchivePublish_BestEffort(c) ==
  /\ pc[c] = "archive_publish" /\ Goto(c, "temp_manifest")
  /\ \/ NoFault /\ MoveTempToHistory(c)
     \/ Fault /\ UNCHANGED <<history, histTmp>>
  /\ UNCHANGED <<manifest, saves, upTmp, manTmp, lock, durable, request, admin>>

ArchivePublish(c) ==
  LET final == HistoryAt(HistoryPath(base[c]))
      Verified(content) == IF content = base[c] THEN Goto(c, "temp_manifest")
                           ELSE ReleaseWith(c, "HARD_INTEGRITY_FAILURE")
  IN /\ pc[c] = "archive_publish"
     /\ \/ /\ histTmp[op[c]] = Nil /\ NoFault
           /\ Return(c, "TRANSPORT_FAILURE") /\ UNCHANGED <<history, histTmp>>
        \/ /\ histTmp[op[c]] # Nil /\ final = {} /\ NoFault
           /\ MoveTempToHistory(c) /\ Verified(histTmp[op[c]])
        \/ /\ histTmp[op[c]] # Nil /\ final # {} /\ NoFault
           /\ UNCHANGED <<history, histTmp>>
           /\ \E x \in final : Verified(x.content)
        \/ /\ Fault /\ Return(c, "TRANSPORT_FAILURE")
           /\ \/ UNCHANGED <<history, histTmp>>
              \/ histTmp[op[c]] # Nil /\ final = {} /\ MoveTempToHistory(c)
     /\ UNCHANGED <<manifest, saves, upTmp, manTmp, lock, durable, request, admin>>

\* Seeded fault: a temporary manifest of an earlier attempt is reused.
WriteTempManifest_Reuse(c) ==
  /\ pc[c] = "temp_manifest"
  /\ \/ /\ NoFault /\ Goto(c, "confirm")
        /\ manTmp' = [manTmp EXCEPT ![op[c]] = IF @ = Nil THEN NewManifest(c) ELSE @]
     \/ /\ Fault /\ Return(c, "TRANSPORT_FAILURE")
        /\ manTmp' = [manTmp EXCEPT ![op[c]] = Torn]
  /\ UNCHANGED <<manifest, saves, history, upTmp, histTmp, lock, durable, request, admin>>

\* Always overwritten: a torn file of an earlier attempt is never committed.
WriteTempManifest(c) ==
  /\ pc[c] = "temp_manifest"
  /\ \/ /\ NoFault /\ Goto(c, "confirm")
        /\ manTmp' = [manTmp EXCEPT ![op[c]] = NewManifest(c)]
     \/ /\ Fault /\ Return(c, "TRANSPORT_FAILURE")
        /\ \E left \in {manTmp[op[c]], Torn, NewManifest(c)} :
             manTmp' = [manTmp EXCEPT ![op[c]] = left]
  /\ UNCHANGED <<manifest, saves, history, upTmp, histTmp, lock, durable, request, admin>>

\* check_lock_ownership immediately before the commit.
ConfirmLock(c) ==
  /\ pc[c] = "confirm"
  /\ \/ Fault /\ Return(c, "TRANSPORT_FAILURE")
     \/ /\ LockExists /\ lockJson = Document(c) /\ NoFault /\ Goto(c, "replace")
     \/ /\ ~(LockExists /\ lockJson = Document(c)) /\ NoFault
        /\ ReleaseWith(c, "LOCK_OWNERSHIP_LOST")
  /\ UNCHANGED <<remote, lock, durable, request, admin>>

\* The rename of the temporary manifest over manifest.json: the commit point.
CommitManifest(c) ==
  /\ manTmp[op[c]] # Nil
  /\ manifest' = manTmp[op[c]]
  /\ manTmp' = [manTmp EXCEPT ![op[c]] = Nil]

ReplaceManifest(c) ==
  /\ pc[c] = "replace"
  /\ \/ CommitManifest(c) /\ NoFault /\ Goto(c, "record")
     \/ CommitManifest(c) /\ Fault /\ Goto(c, "uncertain")
     \/ UNCHANGED <<manifest, manTmp>> /\ Fault /\ Goto(c, "uncertain")
     \/ /\ manTmp[op[c]] = Nil /\ NoFault
        /\ Return(c, "TRANSPORT_FAILURE") /\ UNCHANGED <<manifest, manTmp>>
  /\ UNCHANGED <<saves, history, upTmp, histTmp, lock, durable, request, admin>>

RecordCommit(c) ==
  /\ pc[c] = "record"
  /\ RecordHistoricalAcceptance(c)
  /\ ReleaseWith(c, "COMMITTED")
  /\ UNCHANGED <<remote, lock, journal, attempted, request, admin, budget>>

\* Seeded fault: a manifest that can be read counts as the committed one.
ReconcileUncertainCommit_AnyManifest(c) ==
  /\ pc[c] = "uncertain" /\ NoFault
  /\ RecordHistoricalAcceptance(c) /\ ReleaseWith(c, "IDEMPOTENT_ACK")
  /\ UNCHANGED <<remote, lock, journal, attempted, request, admin>>

\* Seeded fault: the read-back that fails is taken for a replace that failed.
ReconcileUncertainCommit_LostIsRefused(c) ==
  /\ pc[c] = "uncertain"
  /\ \/ /\ manifest = NewManifest(c) /\ NoFault
        /\ RecordHistoricalAcceptance(c) /\ ReleaseWith(c, "IDEMPOTENT_ACK")
     \/ /\ manifest # NewManifest(c) /\ NoFault
        /\ Return(c, "TRANSPORT_FAILURE") /\ UNCHANGED accepted
     \/ Fault /\ ReleaseWith(c, "HARD_INTEGRITY_FAILURE") /\ UNCHANGED accepted
  /\ UNCHANGED <<remote, lock, journal, attempted, request, admin>>

\* Only the exact intended bytes prove that the replace took effect.
ReconcileUncertainCommit(c) ==
  /\ pc[c] = "uncertain"
  /\ \/ /\ manifest = NewManifest(c) /\ NoFault
        /\ RecordHistoricalAcceptance(c) /\ ReleaseWith(c, "IDEMPOTENT_ACK")
     \/ /\ manifest # NewManifest(c) /\ NoFault
        /\ Return(c, "TRANSPORT_FAILURE") /\ UNCHANGED accepted
     \/ Fault /\ Return(c, "TRANSPORT_FAILURE") /\ UNCHANGED accepted
  /\ UNCHANGED <<remote, lock, journal, attempted, request, admin>>

-----------------------------------------------------------------------------
(* _apply_cleanup and release_owned_upload_lock *)

ReleaseCheck(c) ==
  /\ pc[c] = "release"
  /\ \/ Fault /\ Return(c, "LOCK_CLEANUP_AMBIGUOUS")
     \/ LockExists /\ lockJson = Document(c) /\ NoFault /\ Goto(c, "remove_json")
     \/ /\ LockExists /\ lockJson \in {Nil, Torn} /\ NoFault
        /\ Return(c, "LOCK_CLEANUP_AMBIGUOUS")
     \/ /\ LockExists => lockJson \in LockDocs \ {Document(c)}
        /\ NoFault /\ Goto(c, "clear")
  /\ UNCHANGED <<remote, lock, durable, request, admin>>

ReleaseRemoveJson(c) ==
  /\ pc[c] = "remove_json"
  /\ \/ NoFault /\ Goto(c, "remove_dir") /\ lockJson' = Nil
     \/ /\ Fault /\ Return(c, "LOCK_CLEANUP_AMBIGUOUS")
        /\ lockJson' \in {lockJson, Nil}
  /\ UNCHANGED <<remote, lockDir, durable, request, admin>>

\* The storage removes only an empty directory.
RemoveLockDir == IF lockJson = Nil THEN lockDir' = "absent" ELSE UNCHANGED lockDir

\* An absent directory is as good as a removed one; a full one is not removed.
ReleaseRemoveDir(c) ==
  /\ pc[c] = "remove_dir"
  /\ \/ lockJson = Nil /\ NoFault /\ Goto(c, "clear") /\ RemoveLockDir
     \/ /\ lockJson # Nil /\ NoFault
        /\ Return(c, "LOCK_CLEANUP_AMBIGUOUS") /\ UNCHANGED lockDir
     \/ /\ Fault /\ Return(c, "LOCK_CLEANUP_AMBIGUOUS")
        /\ UNCHANGED lockDir \/ RemoveLockDir
  /\ UNCHANGED <<remote, lockJson, durable, request, admin>>

ClearInProgress(c) ==
  /\ pc[c] = "clear"
  /\ journal' = [journal EXCEPT ![c] = Nil]
  /\ Goto(c, "reconcile")
  /\ UNCHANGED <<remote, lock, attempted, accepted, request, admin, budget>>

-----------------------------------------------------------------------------
(* reconcile, crashes *)

\* attribute_journal_against_manifest: begin_handoff stores no sequence, so
\* the manifest must name the journal's operation and end with its hash.
JournalAttributed(c) ==
  /\ journal[c] # Nil /\ manifest # Torn
  /\ manifest.op = journal[c].op
  /\ IsLatest(journal[c].sha, manifest.hashes)
  /\ manifest.sender = PlayerOf[c]

\* A returned handoff leaves nothing behind but its durable records.
Forget(c) ==
  /\ op'   = [op EXCEPT ![c] = Nil]
  /\ cand' = [cand EXCEPT ![c] = Nil]
  /\ base' = [base EXCEPT ![c] = Nil]
  /\ res'  = [res EXCEPT ![c] = Nil]

\* The journal part of reconcile_match, which closes execute_handoff and runs
\* on every tick: an attributed journal is cleared, the lock is not looked at.
Reconcile(c) ==
  /\ pc[c] = "reconcile" \/ (pc[c] = "idle" /\ JournalAttributed(c))
  /\ \/ /\ JournalAttributed(c) /\ NoFault
        /\ journal' = [journal EXCEPT ![c] = Nil]
     \/ ~JournalAttributed(c) /\ NoFault /\ UNCHANGED journal
     \/ pc[c] = "reconcile" /\ Fault /\ UNCHANGED journal
  /\ pc' = [pc EXCEPT ![c] = "idle"]
  /\ Forget(c)
  /\ UNCHANGED <<remote, lock, attempted, accepted, admin>>

Crash(c) ==
  /\ pc[c] # "down" /\ budget.crash > 0
  /\ budget' = [budget EXCEPT !.crash = @ - 1]
  /\ pc' = [pc EXCEPT ![c] = "down"]
  /\ Forget(c)
  /\ UNCHANGED <<remote, lock, durable, admin>>

\* Nobody starts a client again while a repair relies on its being stopped.
Restart(c) ==
  /\ pc[c] = "down"
  /\ CarefulRepair => repair.step \in {"none", "previewed"}
  /\ Goto(c, "idle")
  /\ UNCHANGED <<remote, lock, durable, request, admin, budget>>

-----------------------------------------------------------------------------
(* repair_abandoned_upload_lock *)

\* seen = Nil is the observation MISSING_LOCK_JSON, Torn is MALFORMED.
RepairPreview ==
  /\ repair.step = "none" /\ LockExists /\ budget.repair > 0
  /\ budget' = [budget EXCEPT !.repair = @ - 1]
  /\ repair' = [step |-> "previewed", seen |-> lockJson]
  /\ UNCHANGED <<remote, lock, durable, pc, request, res, sweep>>

\* Seeded fault: the confirmation does not ask whether the client is stopped.
OriginalClientStopped_NotAsked == TRUE

\* What the user confirms; a lock that names nobody may be anybody's.
OriginalClientStopped ==
  IF repair.seen \in LockDocs THEN pc[repair.seen.client] = "down"
                              ELSE \A c \in Clients : pc[c] = "down"

RepairDone == repair' = [step |-> "none", seen |-> Nil]

\* The lock is inspected again and must still be the one previewed.
RepairConfirm ==
  /\ repair.step = "previewed"
  /\ CarefulRepair => OriginalClientStopped
  /\ \/ Fault /\ RepairDone
     \/ ~(LockExists /\ lockJson = repair.seen) /\ NoFault /\ RepairDone
     \/ /\ LockExists /\ lockJson = repair.seen /\ NoFault
        /\ repair' = [repair EXCEPT !.step =
                        IF lockJson = Nil THEN "remove_dir" ELSE "remove_json"]
  /\ UNCHANGED <<remote, lock, durable, pc, request, res, sweep>>

\* A lock.json that disappeared meanwhile means the lock changed.
RepairRemoveJson ==
  /\ repair.step = "remove_json"
  /\ \/ /\ lockJson # Nil /\ NoFault /\ lockJson' = Nil
        /\ repair' = [repair EXCEPT !.step = "remove_dir"]
     \/ lockJson = Nil /\ NoFault /\ RepairDone /\ UNCHANGED lockJson
     \/ Fault /\ RepairDone /\ lockJson' \in {lockJson, Nil}
  /\ UNCHANGED <<remote, lockDir, durable, pc, request, res, sweep>>

RepairRemoveDir ==
  /\ repair.step = "remove_dir"
  /\ RepairDone
  /\ \/ NoFault /\ RemoveLockDir
     \/ Fault /\ (UNCHANGED lockDir \/ RemoveLockDir)
  /\ UNCHANGED <<remote, lockJson, durable, pc, request, res, sweep>>

-----------------------------------------------------------------------------
(* cleanup_temporary_orphans: one look at the lock, then removals *)

\* The files then in temporary/ are named, except those of the operation in
\* the lock; a lock that cannot be read stops the sweep before it starts.
SweepInspect ==
  /\ sweep = {} /\ budget.sweep > 0
  /\ budget' = [budget EXCEPT !.sweep = @ - 1]
  /\ ~LockExists \/ LockReadable
  /\ sweep' = {p \in TempPaths : /\ TempAt(p) # Nil
                                 /\ LockExists => p.op # lockJson.op}
  /\ UNCHANGED <<remote, lock, durable, pc, request, res, repair>>

RemoveTemp(p) ==
  /\ upTmp'   = IF p.kind = "upload"   THEN [upTmp EXCEPT ![p.op] = Nil] ELSE upTmp
  /\ histTmp' = IF p.kind = "history"  THEN [histTmp EXCEPT ![p.op] = Nil] ELSE histTmp
  /\ manTmp'  = IF p.kind = "manifest" THEN [manTmp EXCEPT ![p.op] = Nil] ELSE manTmp

\* Each file is tried once, whatever happened to the lock since; a failure
\* ends the sweep.
SweepRemove(p) ==
  /\ p \in sweep
  /\ \/ NoFault /\ sweep' = sweep \ {p} /\ RemoveTemp(p)
     \/ /\ Fault /\ sweep' = {}
        /\ RemoveTemp(p) \/ UNCHANGED <<upTmp, histTmp, manTmp>>
  /\ UNCHANGED <<manifest, saves, history, lock, durable, pc, request, res, repair>>

-----------------------------------------------------------------------------
ClientStep(c) ==
  \/ AcquireMkdir(c) \/ AcquireWriteLockJson(c) \/ BeginHandoff(c)
  \/ ResumeExistingLock(c) \/ ReadManifest(c) \/ StageAndVerifyUpload(c)
  \/ PublishOrReuseFinal(c) \/ ArchiveStage(c) \/ ArchivePublish(c)
  \/ WriteTempManifest(c) \/ ConfirmLock(c) \/ ReplaceManifest(c)
  \/ RecordCommit(c) \/ ReconcileUncertainCommit(c) \/ ReleaseCheck(c)
  \/ ReleaseRemoveJson(c) \/ ReleaseRemoveDir(c) \/ ClearInProgress(c)
  \/ Reconcile(c)

RepairStep == RepairPreview \/ RepairConfirm \/ RepairRemoveJson \/ RepairRemoveDir

SweepStep == SweepInspect \/ \E p \in TempPaths : SweepRemove(p)

Next ==
  \/ \E c \in Clients : ExecuteHandoff(c) \/ ClientStep(c) \/ Crash(c) \/ Restart(c)
  \/ RepairStep
  \/ SweepStep

Spec == Init /\ [][Next]_vars
-----------------------------------------------------------------------------
(* Correctness *)

Labels ==
  {"idle", "mkdir", "lock_json", "begin", "begin_failed", "resume",
   "read_manifest", "stage", "publish", "archive", "archive_publish",
   "temp_manifest", "confirm", "replace", "record", "uncertain", "release",
   "remove_json", "remove_dir", "clear", "reconcile", "down"}

\* Every file, journal entry and local of the handoff has its type; bytes may
\* be torn wherever the storage adapter writes in place.
TypeOK ==
  /\ manifest \in Manifests \cup {Torn}
  /\ saves \subseteq [seq : Nat, hash : Hashes, content : Contents]
  /\ history \subseteq [path : HistoryPaths, content : Manifests \cup {Torn}]
  /\ upTmp   \in [Ops -> Contents \cup {Nil}]
  /\ histTmp \in [Ops -> Manifests \cup {Torn, Nil}]
  /\ manTmp  \in [Ops -> Manifests \cup {Torn, Nil}]
  /\ lockDir \in {"present", "absent"}
  /\ lockJson \in LockDocs \cup {Torn, Nil}
  /\ journal   \in [Clients -> Progress \cup {Nil}]
  /\ attempted \in [Clients -> SUBSET Hashes]
  /\ accepted  \in [Clients -> SUBSET Hashes]
  /\ pc   \in [Clients -> Labels]
  /\ op   \in [Clients -> Ops \cup {Nil}]
  /\ cand \in [Clients -> Hashes \cup {Nil}]
  /\ base \in [Clients -> Manifests \cup {Nil}]
  /\ res  \in [Clients -> HandoffOutcome \cup {Nil}]
  /\ repair \in [step : {"none", "previewed", "remove_json", "remove_dir"},
                 seen : LockDocs \cup {Torn, Nil}]
  /\ sweep \subseteq TempPaths
  /\ budget \in [fault : Nat, crash : Nat, repair : Nat, sweep : Nat]

\* The committed manifest is always whole, counts its accepted hashes and
\* never lists one twice (INV-02, INV-03): resumed operations, reused
\* temporary files and lost answers of the replace never break that.
ManifestValid ==
  /\ manifest # Torn
  /\ manifest.seq = Len(manifest.hashes)
  /\ IsInjective(manifest.hashes)

\* Every save the manifest has ever accepted is in saves/ under its sequence
\* number with exactly its bytes (INV-04, INV-05).
AcceptedSavesStored ==
  manifest # Torn =>
    \A i \in 1..Len(manifest.hashes) :
      [seq |-> i, hash |-> manifest.hashes[i], content |-> manifest.hashes[i]] \in saves

\* The archived manifests are exactly the past of the current one: none is
\* missing, and no archive holds a manifest of a line that was abandoned.
HistoryIsPast ==
  manifest # Torn =>
    /\ \A i \in 0..(manifest.seq - 1) :
         \E x \in history : x.content # Torn /\ x.content.seq = i
    /\ \A x \in history :
         /\ x.content # Torn /\ x.content.seq <= manifest.seq
         /\ x.path = HistoryPath(x.content)
         /\ x.content.hashes = SubSeq(manifest.hashes, 1, x.content.seq)
    /\ manifest.prev # Nil => \E x \in history : x.path = manifest.prev

\* The labels at which a client acts as the owner of the upload lock.
OwnerLabels ==
  {"read_manifest", "stage", "publish", "archive", "archive_publish",
   "temp_manifest", "confirm", "replace", "record", "uncertain"}

\* At most one client is between acquiring the upload lock and releasing it,
\* and its journal can resume the operation should it crash there.
OneOwner ==
  \A c \in Clients : pc[c] \in OwnerLabels =>
    /\ \A d \in Clients \ {c} : pc[d] \notin OwnerLabels
    /\ journal[c] = [op |-> op[c], sha |-> cand[c]]

\* The manifest a client is about to replace is still the one it read: no
\* accepted turn is overwritten by a commit from an older state.
NoLostTurn ==
  \A c \in Clients : pc[c] = "replace" => manifest = base[c]

\* A save the client reports as handed over, or remembers as accepted, is in
\* the manifest; JOURNAL_ONLY_ACK would refuse any other save for ever.
AcknowledgedIsAccepted ==
  \A c \in Clients :
    /\ accepted[c] \subseteq Range(manifest.hashes)
    /\ res[c] \in {"COMMITTED", "IDEMPOTENT_ACK"} => cand[c] \in Range(manifest.hashes)

\* A client only ever removes the lock.json it wrote itself (INV-13): between
\* the ownership check of the release and the removal the lock cannot have
\* become another client's. Only a confirmed repair removes a foreign one.
ForeignLockKept ==
  [][\A c \in Clients :
       pc[c] = "remove_json" /\ lockJson # Nil /\ lockJson' = Nil /\ pc'[c] # pc[c]
         => lockJson = Document(c)]_vars

\* What the protocol promises, read off the storage.
StoredIntact == {h \in Hashes : \E s \in saves : s.hash = h /\ s.content = h}

Ledger == INSTANCE TurnLedger WITH
  ledger <- IF manifest = Torn THEN <<Torn>> ELSE manifest.hashes,
  turn   <- IF manifest = Torn THEN Nil ELSE manifest.cur,
  stored <- StoredIntact

\* The handoff implements the ledger: whatever fails, a step of any client
\* leaves the accepted turns alone or adds one, of the player whose turn it
\* is, whose bytes are stored (INV-01 to INV-06, INV-08, INV-10).
LedgerSpec == Ledger!LedgerSpec

-----------------------------------------------------------------------------
(* The inductive invariant *)

\* A running handoff has its operation and save, and past the classification
\* the manifest it read; a client without one has no outcome to report.
BaseLabels == OwnerLabels \ {"read_manifest"}

RequestInv ==
  \A c \in Clients :
    /\ pc[c] \notin {"idle", "down"} => op[c] \in Ops /\ cand[c] \in Hashes
    /\ pc[c] \in BaseLabels => base[c] \in Manifests
    /\ pc[c] \in {"idle", "down"} => res[c] = Nil

HolderLabels == OwnerLabels \cup {"begin", "release", "remove_json"}

BareLockLabels == {"lock_json", "remove_dir"}

\* Who is at which label determines the lock on the storage: the complete
\* lock names the client that holds it, a bare directory has one maker or one
\* remover, and a repair under way touches only the lock of a stopped client.
LockInv ==
  /\ lockJson # Nil => LockExists
  /\ \A c \in Clients : pc[c] \in HolderLabels => LockExists /\ lockJson = Document(c)
  /\ \A c \in Clients : pc[c] \in BareLockLabels =>
       /\ LockExists /\ lockJson = Nil
       /\ \A d \in Clients \ {c} : pc[d] \notin BareLockLabels
  /\ repair.step = "remove_json" =>
       LockExists /\ lockJson = repair.seen /\ lockJson # Nil /\ OriginalClientStopped
  /\ repair.step = "remove_dir" =>
       /\ LockExists /\ lockJson = Nil
       /\ \A c \in Clients : pc[c] \notin BareLockLabels

JournalInv ==
  \A c \in Clients :
    pc[c] \in OwnerLabels => journal[c] = [op |-> op[c], sha |-> cand[c]]

\* From the classification to the commit the owner works on the current
\* manifest, it is its turn, and its save is new.
WorkLabels == BaseLabels \ {"record", "uncertain"}

WorkInv ==
  \A c \in Clients : pc[c] \in WorkLabels =>
    /\ manifest = base[c] /\ manifest.cur = PlayerOf[c]
    /\ cand[c] \notin Range(manifest.hashes)

\* The staged objects hold what was verified, or are swept away.
StagedInv ==
  \A c \in Clients :
    /\ pc[c] = "publish" => upTmp[op[c]] \in {cand[c], Nil}
    /\ pc[c] = "archive_publish" => histTmp[op[c]] \in {base[c], Nil}
    /\ pc[c] \in {"confirm", "replace"} => manTmp[op[c]] \in {NewManifest(c), Nil}

\* Whatever is in saves/ is intact, and the save to be accepted is there.
SavesInv ==
  /\ \A s \in saves : s.content = s.hash
  /\ \A c \in Clients : pc[c] \in WorkLabels \ {"stage", "publish"} =>
       [seq |-> base[c].seq + 1, hash |-> cand[c], content |-> cand[c]] \in saves

CommitInv ==
  \A c \in Clients : pc[c] = "record" => cand[c] \in Range(manifest.hashes)

\* The player to move is the one the number of accepted saves says.
TurnInv == manifest.cur = Ledger!PlayerAt(manifest.seq)

HandoffInv ==
  /\ TypeOK /\ RequestInv /\ LockInv /\ JournalInv /\ WorkInv /\ StagedInv
  /\ SavesInv /\ CommitInv /\ ManifestValid /\ AcceptedSavesStored
  /\ AcknowledgedIsAccepted /\ TurnInv

-----------------------------------------------------------------------------
(* Progress *)

\* Fairness: a running client goes on, a stopped one is started again, and the
\* save whose handoff is in progress is sent again and again, as every tick of
\* the fully managed mode does while its candidate file is unchanged.
RetrySameSave(c) ==
  journal[c] # Nil /\ ExecuteHandoff(c) /\ cand'[c] = journal[c].sha

FairSpec ==
  /\ Spec
  /\ \A c \in Clients : /\ WF_vars(ClientStep(c)) /\ WF_vars(Restart(c))
                        /\ SF_vars(RetrySameSave(c))

\* The client's lock is complete and its journal names the same operation.
OwnLockInPlace(c) ==
  journal[c] # Nil /\ LockExists /\ lockJson = [op |-> journal[c].op, client |-> c]

\* A handoff interrupted under its own complete lock is brought to an end by
\* retrying, whatever was lost or half written before, unless the removal of
\* the lock is itself interrupted and leaves the directory without lock.json.
RetryResolves ==
  \A c \in Clients : OwnLockInPlace(c) ~> (journal[c] = Nil \/ lockJson = Nil)

\* handoff.py:610 keeps the journal when the release of the lock failed, "for
\* recovery": an idle client whose committed operation still holds the upload
\* lock would still have the journal that can release it.
CommittedLockRecoverable ==
  \A c \in Clients :
    /\ pc[c] = "idle" /\ LockReadable /\ lockJson.client = c
    /\ manifest # Torn /\ manifest.op = lockJson.op
    => journal[c] # Nil
=============================================================================
