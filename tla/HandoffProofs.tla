--------------------------- MODULE HandoffProofs ---------------------------
(***************************************************************************)
(* Proofs about the handoff, for any number of installations, players,     *)
(* saves and operations and any number of faults, crashes, repairs and     *)
(* sweeps.                                                                 *)
(***************************************************************************)
EXTENDS Handoff, TLAPS

\* The next human in relay order is a player of the match, also after the
\* last one (players.py wraps to the first).
LEMMA NextHumanIsPlayer ==
  ASSUME NEW p \in Players
  PROVE  NextHumanPlayerId(PlayerOrder, p) \in Players
<1> DEFINE n == Len(PlayerOrder)
           index == CHOOSE i \in DOMAIN PlayerOrder : PlayerOrder[i] = p
<1>1. n \in Nat /\ n > 0 /\ DOMAIN PlayerOrder = 1..n
  BY ConstantsAssumption
<1>2. \E i \in DOMAIN PlayerOrder : PlayerOrder[i] = p
  BY DEF Players, Range
<1>3. index \in 1..n
  BY <1>1, <1>2
<1>4. (index % n) + 1 \in 1..n
  BY <1>1, <1>3
<1>5. NextHumanPlayerId(PlayerOrder, p) = PlayerOrder[(index % n) + 1]
  BY DEF NextHumanPlayerId
<1> QED
  BY <1>1, <1>4, <1>5 DEF Players, Range

\* What a client commits is a well-typed manifest.
LEMMA NewManifestType ==
  ASSUME NEW c \in Clients, base[c] \in Manifests, cand[c] \in Hashes, op[c] \in Ops
  PROVE  /\ NewManifest(c) \in Manifests
         /\ HistoryPath(base[c]) \in HistoryPaths
<1>1. PlayerOf[c] \in Players
  BY ConstantsAssumption
<1>2. NextHumanPlayerId(PlayerOrder, PlayerOf[c]) \in Players
  BY <1>1, NextHumanIsPlayer
<1>3. HistoryPath(base[c]) \in HistoryPaths
  BY DEF Manifests, HistoryPath, HistoryPaths
<1>4. Append(base[c].hashes, cand[c]) \in Seq(Hashes)
  BY DEF Manifests
<1> QED
  BY <1>1, <1>2, <1>3, <1>4 DEF NewManifest, Manifests

\* The types hold initially, and no handoff is running then.
LEMMA InitType == Init => TypeOK /\ RequestInv
<1> SUFFICES ASSUME Init PROVE TypeOK /\ RequestInv
  OBVIOUS
<1>1. PlayerOrder[1] \in Players
  BY ConstantsAssumption DEF Players, Range
<1>2. SequenceZeroManifest \in Manifests
  BY <1>1 DEF SequenceZeroManifest, Manifests
<1>3. TypeOK
  BY <1>2, ConstantsAssumption DEF Init, TypeOK, Labels
<1>4. RequestInv
  BY DEF Init, RequestInv, BaseLabels, OwnerLabels
<1> QED
  BY <1>3, <1>4

\* Every step keeps the types, and keeps a running handoff supplied with what
\* its later steps read.
LEMMA TypeStep ==
  ASSUME TypeOK, RequestInv, [Next]_vars
  PROVE  TypeOK' /\ RequestInv'
<1> USE DEF RequestInv, BaseLabels, OwnerLabels, Labels, NoFault, Fault, Goto, Return,
            ReleaseWith, RepairDone, remote, lock, durable, request, admin
<1>1. ASSUME NEW c \in Clients, ExecuteHandoff(c) PROVE TypeOK' /\ RequestInv'
  BY <1>1 DEF TypeOK, ExecuteHandoff
<1>2. ASSUME NEW c \in Clients, AcquireMkdir(c) PROVE TypeOK' /\ RequestInv'
  BY <1>2 DEF TypeOK, AcquireMkdir, LockExists, HandoffOutcome, TerminalRejects
<1>3. ASSUME NEW c \in Clients, AcquireWriteLockJson(c) PROVE TypeOK' /\ RequestInv'
  BY <1>3 DEF TypeOK, AcquireWriteLockJson, Document, LockDocs
<1>4. ASSUME NEW c \in Clients, BeginHandoff(c) PROVE TypeOK' /\ RequestInv'
  BY <1>4 DEF TypeOK, BeginHandoff, Progress, HandoffOutcome, TerminalRejects
<1>5. ASSUME NEW c \in Clients, ResumeExistingLock(c) PROVE TypeOK' /\ RequestInv'
  BY <1>5 DEF TypeOK, ResumeExistingLock, HandoffOutcome, TerminalRejects
<1>6. ASSUME NEW c \in Clients, ReadManifest(c) PROVE TypeOK' /\ RequestInv'
  <2>1. ClassifyUnderLock(c) = "NEW_HANDOFF_CANDIDATE" => manifest \in Manifests
    BY DEF TypeOK, ClassifyUnderLock
  <2>2. pc[c] = "read_manifest" /\ cand[c] \in Hashes
    BY <1>6 DEF ReadManifest
  <2>3. base' \in [Clients -> Manifests \cup {Nil}] /\ (pc'[c] = "stage" => base'[c]
  \in Manifests)
        /\ \A d \in Clients \ {c} : base'[d] = base[d]
    BY <1>6, <2>1 DEF TypeOK, ReadManifest
  <2>4. accepted' \in [Clients -> SUBSET Hashes]
    BY <1>6, <2>2 DEF TypeOK, ReadManifest, RecordHistoricalAcceptance
  <2>5. pc' \in [Clients -> Labels] /\ pc'[c] \in {"reconcile", "stage", "release"}
        /\ \A d \in Clients \ {c} : pc'[d] = pc[d]
    BY <1>6 DEF TypeOK, ReadManifest
  <2>6. res' \in [Clients -> HandoffOutcome \cup {Nil}]
        /\ \A d \in Clients \ {c} : res'[d] = res[d]
    BY <1>6 DEF TypeOK, ReadManifest, HandoffOutcome, TerminalRejects
  <2>7. budget' \in [fault : Nat, crash : Nat, repair : Nat, sweep : Nat]
    BY <1>6 DEF TypeOK, ReadManifest
  <2>8. UNCHANGED <<remote, lock, journal, attempted, op, cand, admin>>
    BY <1>6 DEF ReadManifest
  <2>9. TypeOK'
    BY <2>3, <2>4, <2>5, <2>6, <2>7, <2>8 DEF TypeOK
  <2>10. RequestInv'
    BY <2>2, <2>3, <2>5, <2>6, <2>8
  <2> QED BY <2>9, <2>10
<1>7. ASSUME NEW c \in Clients, StageAndVerifyUpload(c) PROVE TypeOK' /\ RequestInv'
  BY <1>7 DEF TypeOK, StageAndVerifyUpload, Contents, HandoffOutcome, TerminalRejects
<1>8. ASSUME NEW c \in Clients, PublishOrReuseFinal(c) PROVE TypeOK' /\ RequestInv'
  <2>1. pc[c] = "publish" /\ op[c] \in Ops /\ cand[c] \in Hashes /\ base[c].seq + 1
  \in Nat
    BY <1>8 DEF PublishOrReuseFinal, Manifests
  <2>2. upTmp[op[c]] # Nil /\ MoveUploadToSaves(c) =>
          /\ saves' \subseteq [seq : Nat, hash : Hashes, content : Contents]
          /\ upTmp' \in [Ops -> Contents \cup {Nil}]
    BY <2>1 DEF TypeOK, MoveUploadToSaves, PublishedSave
  <2>3. saves' \subseteq [seq : Nat, hash : Hashes, content : Contents]
        /\ upTmp' \in [Ops -> Contents \cup {Nil}]
    BY <1>8, <2>2 DEF TypeOK, PublishOrReuseFinal
  <2>4. pc' \in [Clients -> Labels] /\ pc'[c] \in {"reconcile", "archive", "release"}
        /\ \A d \in Clients \ {c} : pc'[d] = pc[d]
    BY <1>8 DEF TypeOK, PublishOrReuseFinal
  <2>5. res' \in [Clients -> HandoffOutcome \cup {Nil}]
        /\ \A d \in Clients \ {c} : res'[d] = res[d]
    BY <1>8 DEF TypeOK, PublishOrReuseFinal, HandoffOutcome, TerminalRejects
  <2>6. budget' \in [fault : Nat, crash : Nat, repair : Nat, sweep : Nat]
    BY <1>8 DEF TypeOK, PublishOrReuseFinal
  <2>7. UNCHANGED <<manifest, history, histTmp, manTmp, lock, durable, request, admin>>
    BY <1>8 DEF PublishOrReuseFinal
  <2>8. TypeOK'
    BY <2>3, <2>4, <2>5, <2>6, <2>7 DEF TypeOK
  <2>9. RequestInv'
    BY <2>1, <2>4, <2>5, <2>7
  <2> QED BY <2>8, <2>9
<1>9. ASSUME NEW c \in Clients, ArchiveStage(c) PROVE TypeOK' /\ RequestInv'
  BY <1>9 DEF TypeOK, ArchiveStage, HandoffOutcome, TerminalRejects
<1>10. ASSUME NEW c \in Clients, ArchivePublish(c) PROVE TypeOK' /\ RequestInv'
  BY <1>10, NewManifestType DEF TypeOK, ArchivePublish, MoveTempToHistory,
     HistoryAt, HandoffOutcome, TerminalRejects
<1>11. ASSUME NEW c \in Clients, WriteTempManifest(c) PROVE TypeOK' /\ RequestInv'
  BY <1>11, NewManifestType DEF TypeOK, WriteTempManifest, HandoffOutcome, TerminalRejects
<1>12. ASSUME NEW c \in Clients, ConfirmLock(c) PROVE TypeOK' /\ RequestInv'
  BY <1>12 DEF TypeOK, ConfirmLock, HandoffOutcome, TerminalRejects
<1>13. ASSUME NEW c \in Clients, ReplaceManifest(c) PROVE TypeOK' /\ RequestInv'
  <2>1. pc[c] = "replace" /\ op[c] \in Ops
    BY <1>13 DEF ReplaceManifest
  <2>2. manifest' \in Manifests \cup {Torn} /\ manTmp' \in [Ops -> Manifests \cup
  {Torn, Nil}]
    BY <1>13, <2>1 DEF TypeOK, ReplaceManifest, CommitManifest
  <2>3. pc' \in [Clients -> Labels] /\ pc'[c] \in {"record", "uncertain", "reconcile"}
        /\ \A d \in Clients \ {c} : pc'[d] = pc[d]
    BY <1>13 DEF TypeOK, ReplaceManifest
  <2>4. res' \in [Clients -> HandoffOutcome \cup {Nil}]
        /\ \A d \in Clients \ {c} : res'[d] = res[d]
    BY <1>13 DEF TypeOK, ReplaceManifest, HandoffOutcome, TerminalRejects
  <2>5. budget' \in [fault : Nat, crash : Nat, repair : Nat, sweep : Nat]
    BY <1>13 DEF TypeOK, ReplaceManifest
  <2>6. UNCHANGED <<saves, history, upTmp, histTmp, lock, durable, request, admin>>
    BY <1>13 DEF ReplaceManifest
  <2>7. TypeOK'
    BY <2>2, <2>3, <2>4, <2>5, <2>6 DEF TypeOK
  <2>8. RequestInv'
    BY <2>1, <2>3, <2>4, <2>6
  <2> QED BY <2>7, <2>8
<1>14. ASSUME NEW c \in Clients, RecordCommit(c) PROVE TypeOK' /\ RequestInv'
  BY <1>14 DEF TypeOK, RecordCommit, RecordHistoricalAcceptance, HandoffOutcome,
     TerminalRejects
<1>15. ASSUME NEW c \in Clients, ReconcileUncertainCommit(c) PROVE TypeOK' /\ RequestInv'
  BY <1>15 DEF TypeOK, ReconcileUncertainCommit, RecordHistoricalAcceptance,
     HandoffOutcome, TerminalRejects
<1>16. ASSUME NEW c \in Clients, ReleaseCheck(c) PROVE TypeOK' /\ RequestInv'
  BY <1>16 DEF TypeOK, ReleaseCheck, HandoffOutcome, TerminalRejects
<1>17. ASSUME NEW c \in Clients, ReleaseRemoveJson(c) PROVE TypeOK' /\ RequestInv'
  BY <1>17 DEF TypeOK, ReleaseRemoveJson, HandoffOutcome, TerminalRejects
<1>18. ASSUME NEW c \in Clients, ReleaseRemoveDir(c) PROVE TypeOK' /\ RequestInv'
  BY <1>18 DEF TypeOK, ReleaseRemoveDir, RemoveLockDir, HandoffOutcome, TerminalRejects
<1>19. ASSUME NEW c \in Clients, ClearInProgress(c) PROVE TypeOK' /\ RequestInv'
  BY <1>19 DEF TypeOK, ClearInProgress
<1>20. ASSUME NEW c \in Clients, Reconcile(c) PROVE TypeOK' /\ RequestInv'
  BY <1>20 DEF TypeOK, Reconcile, Forget
<1>21. ASSUME NEW c \in Clients, Crash(c) PROVE TypeOK' /\ RequestInv'
  BY <1>21 DEF TypeOK, Crash, Forget
<1>22. ASSUME NEW c \in Clients, Restart(c) PROVE TypeOK' /\ RequestInv'
  BY <1>22 DEF TypeOK, Restart
<1>23. ASSUME RepairPreview PROVE TypeOK' /\ RequestInv'
  BY <1>23 DEF TypeOK, RepairPreview
<1>24. ASSUME RepairConfirm PROVE TypeOK' /\ RequestInv'
  BY <1>24 DEF TypeOK, RepairConfirm
<1>25. ASSUME RepairRemoveJson PROVE TypeOK' /\ RequestInv'
  BY <1>25 DEF TypeOK, RepairRemoveJson
<1>26. ASSUME RepairRemoveDir PROVE TypeOK' /\ RequestInv'
  BY <1>26 DEF TypeOK, RepairRemoveDir, RemoveLockDir
<1>27. ASSUME SweepInspect PROVE TypeOK' /\ RequestInv'
  BY <1>27 DEF TypeOK, SweepInspect
<1>28. ASSUME NEW p \in TempPaths, SweepRemove(p) PROVE TypeOK' /\ RequestInv'
  BY <1>28 DEF TypeOK, SweepRemove, RemoveTemp
<1>29. CASE UNCHANGED vars
  BY <1>29 DEF TypeOK, vars
<1> QED
  BY <1>1, <1>2, <1>3, <1>4, <1>5, <1>6, <1>7, <1>8, <1>9, <1>10, <1>11, <1>12,
     <1>13, <1>14, <1>15, <1>16, <1>17, <1>18, <1>19, <1>20, <1>21, <1>22, <1>23,
     <1>24, <1>25, <1>26, <1>27, <1>28, <1>29
  DEF Next, ClientStep, RepairStep, SweepStep

\* Whatever fails and in whichever order the steps of the clients, of a repair
\* and of a sweep come, every file, journal entry and local stays well typed.
THEOREM TypeCorrect == Spec => []TypeOK
<1>1. Init => TypeOK /\ RequestInv
  BY InitType
<1>2. TypeOK /\ RequestInv /\ [Next]_vars => TypeOK' /\ RequestInv'
  BY TypeStep
<1> QED
  BY <1>1, <1>2, PTL DEF Spec

\* Two clients never hold the same complete lock: lock.json names its client.
LEMMA HolderIsUnique ==
  ASSUME LockInv, NEW c \in Clients, NEW d \in Clients,
         pc[c] \in HolderLabels, pc[d] \in HolderLabels
  PROVE  c = d
BY DEF LockInv, Document

\* A truthful confirmation of the repair keeps the lock and its holder in step.
LEMMA LockStep ==
  ASSUME CarefulRepair, TypeOK, RequestInv, LockInv, [Next]_vars
  PROVE  LockInv'
<1> USE NilAssumption DEF LockInv, HolderLabels, BareLockLabels, OwnerLabels,
      LockExists, Document,
      OriginalClientStopped, NoFault, Fault, Goto, Return, ReleaseWith, RepairDone,
      remote, lock, durable, request, admin
<1>types. /\ pc \in [Clients -> Labels] /\ op \in [Clients -> Ops \cup {Nil}]
          /\ lockDir \in {"present", "absent"} /\ lockJson \in LockDocs \cup {Torn, Nil}
          /\ repair.step \in {"none", "previewed", "remove_json", "remove_dir"}
          /\ repair = [step |-> repair.step, seen |-> repair.seen]
          /\ repair.seen \in LockDocs => repair.seen.client \in Clients
          /\ \A c \in Clients : op[c] \in Ops => Document(c) \in LockDocs
          /\ \A c \in Clients : pc[c] \notin {"idle", "down"} => op[c] \in Ops
  BY DEF TypeOK, RequestInv, LockDocs
<1>1. ASSUME NEW c \in Clients, ExecuteHandoff(c) PROVE LockInv'
  BY <1>1 DEF TypeOK, ExecuteHandoff
<1>2. ASSUME NEW c \in Clients, AcquireMkdir(c) PROVE LockInv'
  <2>1. CASE LockExists /\ lockDir' = "present" /\ pc'[c] \in {"resume", "reconcile"}
    BY <1>2, <2>1, <1>types DEF AcquireMkdir
  <2>2. CASE ~LockExists /\ lockDir' = "present" /\ pc'[c] \in {"resume", "reconcile"}
    BY <1>2, <2>2, <1>types DEF AcquireMkdir
  <2>3. CASE ~LockExists /\ lockDir' = "present" /\ pc'[c] = "lock_json"
    BY <1>2, <2>3, <1>types DEF AcquireMkdir
  <2>4. CASE ~LockExists /\ UNCHANGED lockDir /\ pc'[c] = "reconcile"
    BY <1>2, <2>4, <1>types DEF AcquireMkdir
  <2> QED BY <1>2, <1>types, <2>1, <2>2, <2>3, <2>4 DEF AcquireMkdir
<1>3. ASSUME NEW c \in Clients, AcquireWriteLockJson(c) PROVE LockInv'
  BY <1>3, <1>types DEF AcquireWriteLockJson
<1>4. ASSUME NEW c \in Clients, BeginHandoff(c) PROVE LockInv'
  <2>1. CASE pc[c] = "begin"
    BY <1>4, <2>1, <1>types DEF BeginHandoff
  <2>2. CASE pc[c] = "begin_failed"
    BY <1>4, <2>2, <1>types DEF BeginHandoff
  <2> QED BY <1>4, <2>1, <2>2 DEF BeginHandoff
<1>5. ASSUME NEW c \in Clients, ResumeExistingLock(c) PROVE LockInv'
  BY <1>5, <1>types DEF ResumeExistingLock, LockReadable
<1>6. ASSUME NEW c \in Clients, ReadManifest(c) PROVE LockInv'
  BY <1>6 DEF TypeOK, ReadManifest
<1>7. ASSUME NEW c \in Clients, StageAndVerifyUpload(c) PROVE LockInv'
  BY <1>7 DEF TypeOK, StageAndVerifyUpload
<1>8. ASSUME NEW c \in Clients, PublishOrReuseFinal(c) PROVE LockInv'
  BY <1>8 DEF TypeOK, PublishOrReuseFinal
<1>9. ASSUME NEW c \in Clients, ArchiveStage(c) PROVE LockInv'
  BY <1>9 DEF TypeOK, ArchiveStage
<1>10. ASSUME NEW c \in Clients, ArchivePublish(c) PROVE LockInv'
  BY <1>10 DEF TypeOK, ArchivePublish
<1>11. ASSUME NEW c \in Clients, WriteTempManifest(c) PROVE LockInv'
  BY <1>11 DEF TypeOK, WriteTempManifest
<1>12. ASSUME NEW c \in Clients, ConfirmLock(c) PROVE LockInv'
  BY <1>12 DEF TypeOK, ConfirmLock
<1>13. ASSUME NEW c \in Clients, ReplaceManifest(c) PROVE LockInv'
  BY <1>13 DEF TypeOK, ReplaceManifest
<1>14. ASSUME NEW c \in Clients, RecordCommit(c) PROVE LockInv'
  BY <1>14 DEF TypeOK, RecordCommit
<1>15. ASSUME NEW c \in Clients, ReconcileUncertainCommit(c) PROVE LockInv'
  BY <1>15 DEF TypeOK, ReconcileUncertainCommit
<1>16. ASSUME NEW c \in Clients, ReleaseCheck(c) PROVE LockInv'
  BY <1>16 DEF TypeOK, ReleaseCheck
<1>17. ASSUME NEW c \in Clients, ReleaseRemoveJson(c) PROVE LockInv'
  BY <1>17, <1>types DEF ReleaseRemoveJson
<1>18. ASSUME NEW c \in Clients, ReleaseRemoveDir(c) PROVE LockInv'
  BY <1>18, <1>types DEF ReleaseRemoveDir, RemoveLockDir
<1>19. ASSUME NEW c \in Clients, ClearInProgress(c) PROVE LockInv'
  BY <1>19 DEF TypeOK, ClearInProgress
<1>20. ASSUME NEW c \in Clients, Reconcile(c) PROVE LockInv'
  BY <1>20 DEF TypeOK, Reconcile, Forget
<1>21. ASSUME NEW c \in Clients, Crash(c) PROVE LockInv'
  BY <1>21 DEF TypeOK, Crash, Forget
<1>22. ASSUME NEW c \in Clients, Restart(c) PROVE LockInv'
  BY <1>22 DEF TypeOK, Restart, OriginalClientStopped
<1>23. ASSUME RepairPreview PROVE LockInv'
  BY <1>23 DEF TypeOK, RepairPreview
<1>24. ASSUME RepairConfirm PROVE LockInv'
  BY <1>24 DEF TypeOK, RepairConfirm
<1>25. ASSUME RepairRemoveJson PROVE LockInv'
  BY <1>25 DEF TypeOK, RepairRemoveJson
<1>26. ASSUME RepairRemoveDir PROVE LockInv'
  BY <1>26, <1>types DEF RepairRemoveDir, RemoveLockDir
<1>27. ASSUME SweepInspect PROVE LockInv'
  BY <1>27 DEF TypeOK, SweepInspect
<1>28. ASSUME NEW p \in TempPaths, SweepRemove(p) PROVE LockInv'
  BY <1>28 DEF TypeOK, SweepRemove, RemoveTemp
<1>29. ASSUME UNCHANGED vars PROVE LockInv'
  BY <1>29 DEF vars
<1> QED
  BY <1>1, <1>2, <1>3, <1>4, <1>5, <1>6, <1>7, <1>8, <1>9, <1>10, <1>11, <1>12,
     <1>13, <1>14, <1>15, <1>16, <1>17, <1>18, <1>19, <1>20, <1>21, <1>22, <1>23,
     <1>24, <1>25, <1>26, <1>27, <1>28, <1>29
  DEF Next, ClientStep, RepairStep, SweepStep

\* The owner's journal can resume the operation it is working on.
LEMMA JournalStep ==
  ASSUME TypeOK, RequestInv, JournalInv, [Next]_vars
  PROVE  JournalInv'
<1> USE DEF JournalInv, OwnerLabels, NoFault, Fault, Goto, Return, ReleaseWith,
      remote, lock, durable, request, admin
<1>types. /\ pc \in [Clients -> Labels] /\ op \in [Clients -> Ops \cup {Nil}]
          /\ cand \in [Clients -> Hashes \cup {Nil}]
          /\ journal \in [Clients -> Progress \cup {Nil}]
  BY DEF TypeOK
<1>1. ASSUME NEW c \in Clients, ExecuteHandoff(c) PROVE JournalInv'
  BY <1>1, <1>types DEF ExecuteHandoff
<1>2. ASSUME NEW c \in Clients, AcquireMkdir(c) PROVE JournalInv'
  BY <1>2, <1>types DEF AcquireMkdir
<1>3. ASSUME NEW c \in Clients, AcquireWriteLockJson(c) PROVE JournalInv'
  BY <1>3, <1>types DEF AcquireWriteLockJson
<1>4. ASSUME NEW c \in Clients, BeginHandoff(c) PROVE JournalInv'
  BY <1>4, <1>types DEF BeginHandoff
<1>5. ASSUME NEW c \in Clients, ResumeExistingLock(c) PROVE JournalInv'
  BY <1>5, <1>types DEF ResumeExistingLock
<1>6. ASSUME NEW c \in Clients, ReadManifest(c) PROVE JournalInv'
  BY <1>6, <1>types DEF ReadManifest
<1>7. ASSUME NEW c \in Clients, StageAndVerifyUpload(c) PROVE JournalInv'
  BY <1>7, <1>types DEF StageAndVerifyUpload
<1>8. ASSUME NEW c \in Clients, PublishOrReuseFinal(c) PROVE JournalInv'
  BY <1>8, <1>types DEF PublishOrReuseFinal
<1>9. ASSUME NEW c \in Clients, ArchiveStage(c) PROVE JournalInv'
  BY <1>9, <1>types DEF ArchiveStage
<1>10. ASSUME NEW c \in Clients, ArchivePublish(c) PROVE JournalInv'
  BY <1>10, <1>types DEF ArchivePublish
<1>11. ASSUME NEW c \in Clients, WriteTempManifest(c) PROVE JournalInv'
  BY <1>11, <1>types DEF WriteTempManifest
<1>12. ASSUME NEW c \in Clients, ConfirmLock(c) PROVE JournalInv'
  BY <1>12, <1>types DEF ConfirmLock
<1>13. ASSUME NEW c \in Clients, ReplaceManifest(c) PROVE JournalInv'
  BY <1>13, <1>types DEF ReplaceManifest
<1>14. ASSUME NEW c \in Clients, RecordCommit(c) PROVE JournalInv'
  BY <1>14, <1>types DEF RecordCommit
<1>15. ASSUME NEW c \in Clients, ReconcileUncertainCommit(c) PROVE JournalInv'
  BY <1>15, <1>types DEF ReconcileUncertainCommit
<1>16. ASSUME NEW c \in Clients, ReleaseCheck(c) PROVE JournalInv'
  BY <1>16, <1>types DEF ReleaseCheck
<1>17. ASSUME NEW c \in Clients, ReleaseRemoveJson(c) PROVE JournalInv'
  BY <1>17, <1>types DEF ReleaseRemoveJson
<1>18. ASSUME NEW c \in Clients, ReleaseRemoveDir(c) PROVE JournalInv'
  BY <1>18, <1>types DEF ReleaseRemoveDir
<1>19. ASSUME NEW c \in Clients, ClearInProgress(c) PROVE JournalInv'
  BY <1>19, <1>types DEF ClearInProgress
<1>20. ASSUME NEW c \in Clients, Reconcile(c) PROVE JournalInv'
  BY <1>20, <1>types DEF Reconcile, Forget
<1>21. ASSUME NEW c \in Clients, Crash(c) PROVE JournalInv'
  BY <1>21, <1>types DEF Crash, Forget
<1>22. ASSUME NEW c \in Clients, Restart(c) PROVE JournalInv'
  BY <1>22, <1>types DEF Restart
<1>23. ASSUME RepairPreview PROVE JournalInv'
  BY <1>23, <1>types DEF RepairPreview
<1>24. ASSUME RepairConfirm PROVE JournalInv'
  BY <1>24, <1>types DEF RepairConfirm
<1>25. ASSUME RepairRemoveJson PROVE JournalInv'
  BY <1>25, <1>types DEF RepairRemoveJson
<1>26. ASSUME RepairRemoveDir PROVE JournalInv'
  BY <1>26, <1>types DEF RepairRemoveDir
<1>27. ASSUME SweepInspect PROVE JournalInv'
  BY <1>27, <1>types DEF SweepInspect
<1>28. ASSUME NEW p \in TempPaths, SweepRemove(p) PROVE JournalInv'
  BY <1>28, <1>types DEF SweepRemove, RemoveTemp
<1>29. ASSUME UNCHANGED vars PROVE JournalInv'
  BY <1>29, <1>types DEF vars
<1> QED
  BY <1>1, <1>2, <1>3, <1>4, <1>5, <1>6, <1>7, <1>8, <1>9, <1>10, <1>11, <1>12,
     <1>13, <1>14, <1>15, <1>16, <1>17, <1>18, <1>19, <1>20, <1>21, <1>22, <1>23,
     <1>24, <1>25, <1>26, <1>27, <1>28, <1>29
  DEF Next, ClientStep, RepairStep, SweepStep

\* A save is a new candidate only if it is this player's turn and the manifest
\* has never accepted it (the order of the tests in hash_classify.py).
LEMMA NewCandidate ==
  ASSUME NEW c \in Clients, ClassifyUnderLock(c) = "NEW_HANDOFF_CANDIDATE"
  PROVE  /\ manifest # Torn /\ manifest.cur = PlayerOf[c]
         /\ cand[c] \notin Range(manifest.hashes)
BY DEF ClassifyUnderLock, ClassifyCandidateHash

\* Only the latest save of the manifest is acknowledged as handed over.
LEMMA AcknowledgedCandidate ==
  ASSUME NEW c \in Clients, manifest \in Manifests,
         ClassifyUnderLock(c) = "IDEMPOTENT_ACK"
  PROVE  cand[c] \in Range(manifest.hashes)
BY DEF ClassifyUnderLock, ClassifyCandidateHash, IsLatest, Range, Manifests

\* Two clients at a label of the lock's owner are one and the same.
LEMMA OwnerIsUnique ==
  ASSUME LockInv, NEW c \in Clients, NEW d \in Clients,
         pc[c] \in OwnerLabels, pc[d] \in OwnerLabels
  PROVE  c = d
BY HolderIsUnique DEF HolderLabels

\* The owner works on the manifest that is current: nobody else replaces it.
LEMMA WorkStep ==
  ASSUME TypeOK, RequestInv, LockInv, WorkInv, [Next]_vars
  PROVE  WorkInv'
<1> USE DEF WorkInv, WorkLabels, BaseLabels, OwnerLabels, NoFault, Fault, Goto,
      Return, ReleaseWith, remote, lock, durable, request, admin
<1>types. /\ pc \in [Clients -> Labels] /\ op \in [Clients -> Ops \cup {Nil}]
          /\ cand \in [Clients -> Hashes \cup {Nil}]
          /\ base \in [Clients -> Manifests \cup {Nil}]
  BY DEF TypeOK
<1>alone. \A c, d \in Clients : pc[c] \in OwnerLabels /\ pc[d] \in OwnerLabels => c = d
  BY OwnerIsUnique
<1>1. ASSUME NEW c \in Clients, ExecuteHandoff(c) PROVE WorkInv'
  BY <1>1, <1>types DEF ExecuteHandoff
<1>2. ASSUME NEW c \in Clients, AcquireMkdir(c) PROVE WorkInv'
  BY <1>2, <1>types DEF AcquireMkdir
<1>3. ASSUME NEW c \in Clients, AcquireWriteLockJson(c) PROVE WorkInv'
  BY <1>3, <1>types DEF AcquireWriteLockJson
<1>4. ASSUME NEW c \in Clients, BeginHandoff(c) PROVE WorkInv'
  BY <1>4, <1>types DEF BeginHandoff
<1>5. ASSUME NEW c \in Clients, ResumeExistingLock(c) PROVE WorkInv'
  BY <1>5, <1>types DEF ResumeExistingLock
<1>6. ASSUME NEW c \in Clients, ReadManifest(c) PROVE WorkInv'
  BY <1>6, <1>types, NewCandidate DEF ReadManifest
<1>7. ASSUME NEW c \in Clients, StageAndVerifyUpload(c) PROVE WorkInv'
  BY <1>7, <1>types DEF StageAndVerifyUpload
<1>8. ASSUME NEW c \in Clients, PublishOrReuseFinal(c) PROVE WorkInv'
  BY <1>8, <1>types DEF PublishOrReuseFinal
<1>9. ASSUME NEW c \in Clients, ArchiveStage(c) PROVE WorkInv'
  BY <1>9, <1>types DEF ArchiveStage
<1>10. ASSUME NEW c \in Clients, ArchivePublish(c) PROVE WorkInv'
  BY <1>10, <1>types DEF ArchivePublish
<1>11. ASSUME NEW c \in Clients, WriteTempManifest(c) PROVE WorkInv'
  BY <1>11, <1>types DEF WriteTempManifest
<1>12. ASSUME NEW c \in Clients, ConfirmLock(c) PROVE WorkInv'
  BY <1>12, <1>types DEF ConfirmLock
<1>13. ASSUME NEW c \in Clients, ReplaceManifest(c) PROVE WorkInv'
  BY <1>13, <1>types, <1>alone DEF ReplaceManifest, CommitManifest
<1>14. ASSUME NEW c \in Clients, RecordCommit(c) PROVE WorkInv'
  BY <1>14, <1>types DEF RecordCommit
<1>15. ASSUME NEW c \in Clients, ReconcileUncertainCommit(c) PROVE WorkInv'
  BY <1>15, <1>types DEF ReconcileUncertainCommit
<1>16. ASSUME NEW c \in Clients, ReleaseCheck(c) PROVE WorkInv'
  BY <1>16, <1>types DEF ReleaseCheck
<1>17. ASSUME NEW c \in Clients, ReleaseRemoveJson(c) PROVE WorkInv'
  BY <1>17, <1>types DEF ReleaseRemoveJson
<1>18. ASSUME NEW c \in Clients, ReleaseRemoveDir(c) PROVE WorkInv'
  BY <1>18, <1>types DEF ReleaseRemoveDir
<1>19. ASSUME NEW c \in Clients, ClearInProgress(c) PROVE WorkInv'
  BY <1>19, <1>types DEF ClearInProgress
<1>20. ASSUME NEW c \in Clients, Reconcile(c) PROVE WorkInv'
  BY <1>20, <1>types DEF Reconcile, Forget
<1>21. ASSUME NEW c \in Clients, Crash(c) PROVE WorkInv'
  BY <1>21, <1>types DEF Crash, Forget
<1>22. ASSUME NEW c \in Clients, Restart(c) PROVE WorkInv'
  BY <1>22, <1>types DEF Restart
<1>23. ASSUME RepairPreview PROVE WorkInv'
  BY <1>23, <1>types DEF RepairPreview
<1>24. ASSUME RepairConfirm PROVE WorkInv'
  BY <1>24, <1>types DEF RepairConfirm
<1>25. ASSUME RepairRemoveJson PROVE WorkInv'
  BY <1>25, <1>types DEF RepairRemoveJson
<1>26. ASSUME RepairRemoveDir PROVE WorkInv'
  BY <1>26, <1>types DEF RepairRemoveDir
<1>27. ASSUME SweepInspect PROVE WorkInv'
  BY <1>27, <1>types DEF SweepInspect
<1>28. ASSUME NEW p \in TempPaths, SweepRemove(p) PROVE WorkInv'
  BY <1>28, <1>types DEF SweepRemove, RemoveTemp
<1>29. ASSUME UNCHANGED vars PROVE WorkInv'
  BY <1>29, <1>types DEF vars
<1> QED
  BY <1>1, <1>2, <1>3, <1>4, <1>5, <1>6, <1>7, <1>8, <1>9, <1>10, <1>11, <1>12,
     <1>13, <1>14, <1>15, <1>16, <1>17, <1>18, <1>19, <1>20, <1>21, <1>22, <1>23,
     <1>24, <1>25, <1>26, <1>27, <1>28, <1>29
  DEF Next, ClientStep, RepairStep, SweepStep

\* Nobody but the owner and a sweep touches the objects an owner has staged.
LEMMA StagedStep ==
  ASSUME TypeOK, RequestInv, LockInv, StagedInv, [Next]_vars
  PROVE  StagedInv'
<1> USE DEF StagedInv, OwnerLabels, NewManifest, NoFault, Fault, Goto, Return,
      ReleaseWith, remote, lock, durable, request, admin
<1>types. /\ pc \in [Clients -> Labels] /\ op \in [Clients -> Ops \cup {Nil}]
          /\ cand \in [Clients -> Hashes \cup {Nil}]
          /\ base \in [Clients -> Manifests \cup {Nil}]
          /\ upTmp   \in [Ops -> Contents \cup {Nil}]
          /\ histTmp \in [Ops -> Manifests \cup {Torn, Nil}]
          /\ manTmp  \in [Ops -> Manifests \cup {Torn, Nil}]
          /\ \A c \in Clients : pc[c] \notin {"idle", "down"} => op[c] \in Ops
  BY DEF TypeOK, RequestInv
<1>alone. \A c, d \in Clients : pc[c] \in OwnerLabels /\ pc[d] \in OwnerLabels => c = d
  BY OwnerIsUnique
<1>1. ASSUME NEW c \in Clients, ExecuteHandoff(c) PROVE StagedInv'
  BY <1>1, <1>types DEF ExecuteHandoff
<1>2. ASSUME NEW c \in Clients, AcquireMkdir(c) PROVE StagedInv'
  BY <1>2, <1>types DEF AcquireMkdir
<1>3. ASSUME NEW c \in Clients, AcquireWriteLockJson(c) PROVE StagedInv'
  BY <1>3, <1>types DEF AcquireWriteLockJson
<1>4. ASSUME NEW c \in Clients, BeginHandoff(c) PROVE StagedInv'
  BY <1>4, <1>types DEF BeginHandoff
<1>5. ASSUME NEW c \in Clients, ResumeExistingLock(c) PROVE StagedInv'
  BY <1>5, <1>types DEF ResumeExistingLock
<1>6. ASSUME NEW c \in Clients, ReadManifest(c) PROVE StagedInv'
  BY <1>6, <1>types DEF ReadManifest
<1>7. ASSUME NEW c \in Clients, StageAndVerifyUpload(c) PROVE StagedInv'
  BY <1>7, <1>types, <1>alone DEF StageAndVerifyUpload
<1>8. ASSUME NEW c \in Clients, PublishOrReuseFinal(c) PROVE StagedInv'
  BY <1>8, <1>types, <1>alone DEF PublishOrReuseFinal, MoveUploadToSaves
<1>9. ASSUME NEW c \in Clients, ArchiveStage(c) PROVE StagedInv'
  BY <1>9, <1>types, <1>alone DEF ArchiveStage
<1>10. ASSUME NEW c \in Clients, ArchivePublish(c) PROVE StagedInv'
  BY <1>10, <1>types, <1>alone DEF ArchivePublish, MoveTempToHistory
<1>11. ASSUME NEW c \in Clients, WriteTempManifest(c) PROVE StagedInv'
  BY <1>11, <1>types, <1>alone DEF WriteTempManifest
<1>12. ASSUME NEW c \in Clients, ConfirmLock(c) PROVE StagedInv'
  BY <1>12, <1>types DEF ConfirmLock
<1>13. ASSUME NEW c \in Clients, ReplaceManifest(c) PROVE StagedInv'
  BY <1>13, <1>types, <1>alone DEF ReplaceManifest, CommitManifest
<1>14. ASSUME NEW c \in Clients, RecordCommit(c) PROVE StagedInv'
  BY <1>14, <1>types DEF RecordCommit
<1>15. ASSUME NEW c \in Clients, ReconcileUncertainCommit(c) PROVE StagedInv'
  BY <1>15, <1>types DEF ReconcileUncertainCommit
<1>16. ASSUME NEW c \in Clients, ReleaseCheck(c) PROVE StagedInv'
  BY <1>16, <1>types DEF ReleaseCheck
<1>17. ASSUME NEW c \in Clients, ReleaseRemoveJson(c) PROVE StagedInv'
  BY <1>17, <1>types DEF ReleaseRemoveJson
<1>18. ASSUME NEW c \in Clients, ReleaseRemoveDir(c) PROVE StagedInv'
  BY <1>18, <1>types DEF ReleaseRemoveDir
<1>19. ASSUME NEW c \in Clients, ClearInProgress(c) PROVE StagedInv'
  BY <1>19, <1>types DEF ClearInProgress
<1>20. ASSUME NEW c \in Clients, Reconcile(c) PROVE StagedInv'
  BY <1>20, <1>types DEF Reconcile, Forget
<1>21. ASSUME NEW c \in Clients, Crash(c) PROVE StagedInv'
  BY <1>21, <1>types DEF Crash, Forget
<1>22. ASSUME NEW c \in Clients, Restart(c) PROVE StagedInv'
  BY <1>22, <1>types DEF Restart
<1>23. ASSUME RepairPreview PROVE StagedInv'
  BY <1>23, <1>types DEF RepairPreview
<1>24. ASSUME RepairConfirm PROVE StagedInv'
  BY <1>24, <1>types DEF RepairConfirm
<1>25. ASSUME RepairRemoveJson PROVE StagedInv'
  BY <1>25, <1>types DEF RepairRemoveJson
<1>26. ASSUME RepairRemoveDir PROVE StagedInv'
  BY <1>26, <1>types DEF RepairRemoveDir
<1>27. ASSUME SweepInspect PROVE StagedInv'
  BY <1>27, <1>types DEF SweepInspect
<1>28. ASSUME NEW p \in TempPaths, SweepRemove(p) PROVE StagedInv'
  BY <1>28, <1>types DEF SweepRemove, RemoveTemp
<1>29. ASSUME UNCHANGED vars PROVE StagedInv'
  BY <1>29, <1>types DEF vars
<1> QED
  BY <1>1, <1>2, <1>3, <1>4, <1>5, <1>6, <1>7, <1>8, <1>9, <1>10, <1>11, <1>12,
     <1>13, <1>14, <1>15, <1>16, <1>17, <1>18, <1>19, <1>20, <1>21, <1>22, <1>23,
     <1>24, <1>25, <1>26, <1>27, <1>28, <1>29
  DEF Next, ClientStep, RepairStep, SweepStep

\* Only verified bytes are moved to saves/, and what is there stays.
LEMMA SavesStep ==
  ASSUME TypeOK, RequestInv, LockInv, StagedInv, SavesInv, [Next]_vars
  PROVE  SavesInv'
<1> USE DEF SavesInv, WorkLabels, BaseLabels, OwnerLabels, NoFault, Fault, Goto,
      Return, ReleaseWith, remote, lock, durable, request, admin
<1>types. /\ pc \in [Clients -> Labels] /\ op \in [Clients -> Ops \cup {Nil}]
          /\ cand \in [Clients -> Hashes \cup {Nil}]
          /\ base \in [Clients -> Manifests \cup {Nil}]
  BY DEF TypeOK
<1>1. ASSUME NEW c \in Clients, ExecuteHandoff(c) PROVE SavesInv'
  BY <1>1, <1>types DEF ExecuteHandoff
<1>2. ASSUME NEW c \in Clients, AcquireMkdir(c) PROVE SavesInv'
  BY <1>2, <1>types DEF AcquireMkdir
<1>3. ASSUME NEW c \in Clients, AcquireWriteLockJson(c) PROVE SavesInv'
  BY <1>3, <1>types DEF AcquireWriteLockJson
<1>4. ASSUME NEW c \in Clients, BeginHandoff(c) PROVE SavesInv'
  BY <1>4, <1>types DEF BeginHandoff
<1>5. ASSUME NEW c \in Clients, ResumeExistingLock(c) PROVE SavesInv'
  BY <1>5, <1>types DEF ResumeExistingLock
<1>6. ASSUME NEW c \in Clients, ReadManifest(c) PROVE SavesInv'
  BY <1>6, <1>types DEF ReadManifest
<1>7. ASSUME NEW c \in Clients, StageAndVerifyUpload(c) PROVE SavesInv'
  BY <1>7, <1>types DEF StageAndVerifyUpload
<1>8. ASSUME NEW c \in Clients, PublishOrReuseFinal(c) PROVE SavesInv'
  <2> DEFINE stored == [seq |-> base[c].seq + 1, hash |-> cand[c], content |-> cand[c]]
  <2>1. upTmp[op[c]] # Nil => PublishedSave(c) = stored
    BY <1>8 DEF PublishOrReuseFinal, PublishedSave, StagedInv
  <2>2. \A x \in saves' : x.content = x.hash
    BY <1>8, <2>1 DEF PublishOrReuseFinal, MoveUploadToSaves
  <2>3. \A x \in SavesAt(base[c].seq + 1, cand[c]) : x = stored
    BY DEF SavesAt, TypeOK
  <2>4. pc'[c] = "archive" => stored \in saves'
    BY <1>8, <1>types, <2>1, <2>3 DEF PublishOrReuseFinal, MoveUploadToSaves, SavesAt
  <2>5. /\ saves \subseteq saves' /\ UNCHANGED <<base, cand>>
        /\ pc[c] = "publish" /\ pc'[c] \in {"archive", "release", "reconcile"}
        /\ \A d \in Clients \ {c} : pc'[d] = pc[d]
    BY <1>8, <1>types DEF PublishOrReuseFinal, MoveUploadToSaves
  <2> QED BY <2>2, <2>4, <2>5
<1>9. ASSUME NEW c \in Clients, ArchiveStage(c) PROVE SavesInv'
  BY <1>9, <1>types DEF ArchiveStage
<1>10. ASSUME NEW c \in Clients, ArchivePublish(c) PROVE SavesInv'
  BY <1>10, <1>types DEF ArchivePublish
<1>11. ASSUME NEW c \in Clients, WriteTempManifest(c) PROVE SavesInv'
  BY <1>11, <1>types DEF WriteTempManifest
<1>12. ASSUME NEW c \in Clients, ConfirmLock(c) PROVE SavesInv'
  BY <1>12, <1>types DEF ConfirmLock
<1>13. ASSUME NEW c \in Clients, ReplaceManifest(c) PROVE SavesInv'
  BY <1>13, <1>types DEF ReplaceManifest
<1>14. ASSUME NEW c \in Clients, RecordCommit(c) PROVE SavesInv'
  BY <1>14, <1>types DEF RecordCommit
<1>15. ASSUME NEW c \in Clients, ReconcileUncertainCommit(c) PROVE SavesInv'
  BY <1>15, <1>types DEF ReconcileUncertainCommit
<1>16. ASSUME NEW c \in Clients, ReleaseCheck(c) PROVE SavesInv'
  BY <1>16, <1>types DEF ReleaseCheck
<1>17. ASSUME NEW c \in Clients, ReleaseRemoveJson(c) PROVE SavesInv'
  BY <1>17, <1>types DEF ReleaseRemoveJson
<1>18. ASSUME NEW c \in Clients, ReleaseRemoveDir(c) PROVE SavesInv'
  BY <1>18, <1>types DEF ReleaseRemoveDir
<1>19. ASSUME NEW c \in Clients, ClearInProgress(c) PROVE SavesInv'
  BY <1>19, <1>types DEF ClearInProgress
<1>20. ASSUME NEW c \in Clients, Reconcile(c) PROVE SavesInv'
  BY <1>20, <1>types DEF Reconcile, Forget
<1>21. ASSUME NEW c \in Clients, Crash(c) PROVE SavesInv'
  BY <1>21, <1>types DEF Crash, Forget
<1>22. ASSUME NEW c \in Clients, Restart(c) PROVE SavesInv'
  BY <1>22, <1>types DEF Restart
<1>23. ASSUME RepairPreview PROVE SavesInv'
  BY <1>23, <1>types DEF RepairPreview
<1>24. ASSUME RepairConfirm PROVE SavesInv'
  BY <1>24, <1>types DEF RepairConfirm
<1>25. ASSUME RepairRemoveJson PROVE SavesInv'
  BY <1>25, <1>types DEF RepairRemoveJson
<1>26. ASSUME RepairRemoveDir PROVE SavesInv'
  BY <1>26, <1>types DEF RepairRemoveDir
<1>27. ASSUME SweepInspect PROVE SavesInv'
  BY <1>27, <1>types DEF SweepInspect
<1>28. ASSUME NEW p \in TempPaths, SweepRemove(p) PROVE SavesInv'
  BY <1>28, <1>types DEF SweepRemove, RemoveTemp
<1>29. ASSUME UNCHANGED vars PROVE SavesInv'
  BY <1>29, <1>types DEF vars
<1> QED
  BY <1>1, <1>2, <1>3, <1>4, <1>5, <1>6, <1>7, <1>8, <1>9, <1>10, <1>11, <1>12,
     <1>13, <1>14, <1>15, <1>16, <1>17, <1>18, <1>19, <1>20, <1>21, <1>22, <1>23,
     <1>24, <1>25, <1>26, <1>27, <1>28, <1>29
  DEF Next, ClientStep, RepairStep, SweepStep

\* saves/ only grows, and the one step that changes the manifest puts the
\* owner's temporary manifest in its place.
LEMMA ManifestChange ==
  ASSUME [Next]_vars
  PROVE  /\ saves \subseteq saves'
         /\ \/ UNCHANGED saves
            \/ \E c \in Clients : /\ pc[c] = "publish"
                                  /\ saves' = saves \cup {PublishedSave(c)}
         /\ \/ UNCHANGED manifest
            \/ \E c \in Clients : /\ pc[c] = "replace" /\ manTmp[op[c]] # Nil
                                  /\ manifest' = manTmp[op[c]] /\ UNCHANGED saves
<1> USE DEF remote
<1>1. ASSUME NEW c \in Clients, PublishOrReuseFinal(c)
      PROVE  /\ pc[c] = "publish" /\ UNCHANGED manifest
             /\ UNCHANGED saves \/ saves' = saves \cup {PublishedSave(c)}
  BY <1>1 DEF PublishOrReuseFinal, MoveUploadToSaves
<1>2. ASSUME NEW c \in Clients, ReplaceManifest(c)
      PROVE  /\ UNCHANGED saves
             /\ \/ UNCHANGED manifest
                \/ pc[c] = "replace" /\ manTmp[op[c]] # Nil /\ manifest' = manTmp[op[c]]
  BY <1>2 DEF ReplaceManifest, CommitManifest
<1>3. ASSUME NEW c \in Clients,
             \/ ExecuteHandoff(c) \/ AcquireMkdir(c) \/ AcquireWriteLockJson(c)
             \/ BeginHandoff(c) \/ ResumeExistingLock(c) \/ ReadManifest(c)
             \/ StageAndVerifyUpload(c) \/ ArchiveStage(c) \/ ArchivePublish(c)
             \/ WriteTempManifest(c) \/ ConfirmLock(c)
      PROVE  UNCHANGED <<manifest, saves>>
  BY <1>3 DEF ExecuteHandoff, AcquireMkdir, AcquireWriteLockJson, BeginHandoff,
       ResumeExistingLock, ReadManifest, StageAndVerifyUpload, ArchiveStage,
       ArchivePublish, WriteTempManifest, ConfirmLock
<1>4. ASSUME NEW c \in Clients,
             \/ RecordCommit(c) \/ ReconcileUncertainCommit(c) \/ ReleaseCheck(c)
             \/ ReleaseRemoveJson(c) \/ ReleaseRemoveDir(c) \/ ClearInProgress(c)
             \/ Reconcile(c) \/ Crash(c) \/ Restart(c)
      PROVE  UNCHANGED <<manifest, saves>>
  BY <1>4 DEF RecordCommit, ReconcileUncertainCommit, ReleaseCheck, ReleaseRemoveJson,
       ReleaseRemoveDir, ClearInProgress, Reconcile, Crash, Restart
<1>5. ASSUME RepairStep \/ SweepStep PROVE UNCHANGED <<manifest, saves>>
  BY <1>5 DEF RepairStep, RepairPreview, RepairConfirm, RepairRemoveJson, RepairRemoveDir,
       SweepStep, SweepInspect, SweepRemove
<1>6. ASSUME UNCHANGED vars PROVE UNCHANGED <<manifest, saves>>
  BY <1>6 DEF vars
<1> QED
  BY <1>1, <1>2, <1>3, <1>4, <1>5, <1>6 DEF Next, ClientStep

\* Appending a save adds it and loses none.
LEMMA AppendRange ==
  ASSUME NEW s \in Seq(Hashes), NEW h \in Hashes
  PROVE  h \in Range(Append(s, h)) /\ Range(s) \subseteq Range(Append(s, h))
BY DEF Range

\* Appending a save that is not in the list keeps the list free of repetitions.
LEMMA AppendKeepsInjective ==
  ASSUME NEW s \in Seq(Hashes), NEW h \in Hashes, IsInjective(s), h \notin Range(s)
  PROVE  IsInjective(Append(s, h))
<1>1. /\ Append(s, h) \in Seq(Hashes) /\ Len(Append(s, h)) = Len(s) + 1
      /\ \A i \in 1..Len(s) : Append(s, h)[i] = s[i]
      /\ Append(s, h)[Len(s) + 1] = h /\ DOMAIN s = 1..Len(s)
      /\ DOMAIN Append(s, h) = 1..(Len(s) + 1) /\ Len(s) \in Nat
  OBVIOUS
<1>2. \A i \in 1..Len(s) : s[i] # h
  BY <1>1 DEF Range
<1>3. \A i, j \in 1..Len(s) : s[i] = s[j] => i = j
  BY <1>1 DEF IsInjective
<1>4. \A i, j \in 1..(Len(s) + 1) : Append(s, h)[i] = Append(s, h)[j] => i = j
  BY <1>1, <1>2, <1>3
<1> QED
  BY <1>1, <1>4 DEF IsInjective

\* The manifest is replaced by its valid successor, whose save is stored.
LEMMA ManifestStep ==
  ASSUME TypeOK, RequestInv, LockInv, WorkInv, StagedInv, SavesInv, ManifestValid,
         AcceptedSavesStored, [Next]_vars
  PROVE  ManifestValid' /\ AcceptedSavesStored'
<1>1. CASE UNCHANGED manifest
  BY <1>1, ManifestChange DEF ManifestValid, AcceptedSavesStored
<1>2. ASSUME NEW c \in Clients, pc[c] = "replace", manTmp[op[c]] # Nil,
             manifest' = manTmp[op[c]], UNCHANGED saves
      PROVE  ManifestValid' /\ AcceptedSavesStored'
  <2>1. /\ manifest' = NewManifest(c) /\ base[c] = manifest /\ manifest \in Manifests
        /\ op[c] \in Ops /\ cand[c] \in Hashes /\ cand[c] \notin Range(manifest.hashes)
        /\ [seq |-> base[c].seq + 1, hash |-> cand[c], content |-> cand[c]] \in saves
    BY <1>2 DEF TypeOK, RequestInv, WorkInv, WorkLabels, BaseLabels, OwnerLabels,
       StagedInv,
         SavesInv, ManifestValid
  <2>2. manifest'.hashes = Append(manifest.hashes, cand[c]) /\ manifest'.seq =
  manifest.seq + 1
    BY <2>1 DEF NewManifest
  <2>3. manifest' # Torn
    BY <2>1, NewManifestType, NilAssumption
  <2>4. manifest.hashes \in Seq(Hashes) /\ manifest.seq = Len(manifest.hashes)
    BY <2>1 DEF Manifests, ManifestValid
  <2>5. IsInjective(manifest'.hashes)
    BY <2>1, <2>2, <2>4, AppendKeepsInjective DEF ManifestValid
  <2>6. ManifestValid'
    BY <2>2, <2>3, <2>4, <2>5 DEF ManifestValid
  <2>7. \A i \in 1..Len(manifest'.hashes) :
          [seq |-> i, hash |-> manifest'.hashes[i], content |-> manifest'.hashes[i]]
          \in saves
    BY <2>1, <2>2, <2>4 DEF AcceptedSavesStored, ManifestValid
  <2> QED
    BY <1>2, <2>6, <2>7 DEF AcceptedSavesStored
<1> QED
  BY <1>1, <1>2, ManifestChange

\* The list of accepted saves never loses one, and a replacement of the
\* manifest adds the owner's save.
LEMMA AcceptedGrows ==
  ASSUME TypeOK, RequestInv, WorkInv, StagedInv, ManifestValid, [Next]_vars
  PROVE  /\ Range(manifest.hashes) \subseteq Range(manifest'.hashes)
         /\ \A c \in Clients :
              pc[c] = "replace" /\ manTmp[op[c]] # Nil /\ manifest' = manTmp[op[c]]
              => cand[c] \in Range(manifest'.hashes)
<1>1. ASSUME NEW c \in Clients, pc[c] = "replace", manTmp[op[c]] # Nil,
             manifest' = manTmp[op[c]]
      PROVE  /\ Range(manifest.hashes) \subseteq Range(manifest'.hashes)
             /\ cand[c] \in Range(manifest'.hashes)
  <2>1. /\ manifest' = NewManifest(c) /\ base[c] = manifest /\ manifest \in Manifests
        /\ cand[c] \in Hashes /\ cand[c] \notin Range(manifest.hashes)
    BY <1>1 DEF TypeOK, RequestInv, WorkInv, WorkLabels, BaseLabels, OwnerLabels,
       StagedInv,
         ManifestValid
  <2>2. manifest'.hashes = Append(manifest.hashes, cand[c]) /\ manifest.hashes \in
  Seq(Hashes)
    BY <2>1 DEF NewManifest, Manifests
  <2> QED
    BY <2>1, <2>2, AppendRange
<1> QED
  BY <1>1, ManifestChange

\* What a client acknowledges or remembers as accepted is in the manifest.
LEMMA AcknowledgeStep ==
  ASSUME TypeOK, RequestInv, WorkInv, StagedInv, ManifestValid, CommitInv,
         AcknowledgedIsAccepted, [Next]_vars
  PROVE  (CommitInv /\ AcknowledgedIsAccepted)'
<1> USE DEF CommitInv, AcknowledgedIsAccepted, NoFault, Fault, Goto, Return,
      ReleaseWith, remote, lock, durable, request, admin
<1>types. /\ pc \in [Clients -> Labels] /\ op \in [Clients -> Ops \cup {Nil}]
          /\ cand \in [Clients -> Hashes \cup {Nil}]
          /\ base \in [Clients -> Manifests \cup {Nil}]
          /\ accepted \in [Clients -> SUBSET Hashes]
          /\ res \in [Clients -> HandoffOutcome \cup {Nil}]
          /\ manifest \in Manifests /\ Nil \notin {"COMMITTED", "IDEMPOTENT_ACK"}
          /\ \A c \in Clients : pc[c] \in {"idle", "down"} => res[c] = Nil
  BY NilAssumption DEF TypeOK, RequestInv, ManifestValid, HandoffOutcome
<1>grows. /\ Range(manifest.hashes) \subseteq Range(manifest'.hashes)
          /\ \A c \in Clients :
               pc[c] = "replace" /\ manTmp[op[c]] # Nil /\ manifest' = manTmp[op[c]]
               => cand[c] \in Range(manifest'.hashes)
  BY AcceptedGrows
<1>1. ASSUME NEW c \in Clients, ExecuteHandoff(c)
      PROVE  (CommitInv /\ AcknowledgedIsAccepted)'
  BY <1>1, <1>types DEF ExecuteHandoff
<1>2. ASSUME NEW c \in Clients, AcquireMkdir(c)
      PROVE  (CommitInv /\ AcknowledgedIsAccepted)'
  BY <1>2, <1>types DEF AcquireMkdir
<1>3. ASSUME NEW c \in Clients, AcquireWriteLockJson(c)
      PROVE  (CommitInv /\ AcknowledgedIsAccepted)'
  BY <1>3, <1>types DEF AcquireWriteLockJson
<1>4. ASSUME NEW c \in Clients, BeginHandoff(c)
      PROVE  (CommitInv /\ AcknowledgedIsAccepted)'
  BY <1>4, <1>types DEF BeginHandoff
<1>5. ASSUME NEW c \in Clients, ResumeExistingLock(c)
      PROVE  (CommitInv /\ AcknowledgedIsAccepted)'
  BY <1>5, <1>types DEF ResumeExistingLock
<1>6. ASSUME NEW c \in Clients, ReadManifest(c)
      PROVE  (CommitInv /\ AcknowledgedIsAccepted)'
  BY <1>6, <1>types, AcknowledgedCandidate DEF ReadManifest,
     RecordHistoricalAcceptance, TerminalRejects
<1>7. ASSUME NEW c \in Clients, StageAndVerifyUpload(c)
      PROVE  (CommitInv /\ AcknowledgedIsAccepted)'
  BY <1>7, <1>types DEF StageAndVerifyUpload
<1>8. ASSUME NEW c \in Clients, PublishOrReuseFinal(c)
      PROVE  (CommitInv /\ AcknowledgedIsAccepted)'
  BY <1>8, <1>types DEF PublishOrReuseFinal
<1>9. ASSUME NEW c \in Clients, ArchiveStage(c)
      PROVE  (CommitInv /\ AcknowledgedIsAccepted)'
  BY <1>9, <1>types DEF ArchiveStage
<1>10. ASSUME NEW c \in Clients, ArchivePublish(c)
      PROVE  (CommitInv /\ AcknowledgedIsAccepted)'
  BY <1>10, <1>types DEF ArchivePublish
<1>11. ASSUME NEW c \in Clients, WriteTempManifest(c)
      PROVE  (CommitInv /\ AcknowledgedIsAccepted)'
  BY <1>11, <1>types DEF WriteTempManifest
<1>12. ASSUME NEW c \in Clients, ConfirmLock(c)
      PROVE  (CommitInv /\ AcknowledgedIsAccepted)'
  BY <1>12, <1>types DEF ConfirmLock
<1>13. ASSUME NEW c \in Clients, ReplaceManifest(c)
      PROVE  (CommitInv /\ AcknowledgedIsAccepted)'
  BY <1>13, <1>types, <1>grows DEF ReplaceManifest, CommitManifest
<1>14. ASSUME NEW c \in Clients, RecordCommit(c)
      PROVE  (CommitInv /\ AcknowledgedIsAccepted)'
  BY <1>14, <1>types DEF RecordCommit, RecordHistoricalAcceptance
<1>15. ASSUME NEW c \in Clients, ReconcileUncertainCommit(c)
      PROVE  (CommitInv /\ AcknowledgedIsAccepted)'
  <2>1. /\ pc[c] = "uncertain" /\ UNCHANGED <<manifest, cand>>
        /\ pc' = [pc EXCEPT ![c] = pc'[c]] /\ pc'[c] \in {"release", "reconcile"}
    BY <1>15, <1>types DEF ReconcileUncertainCommit
  <2>2. CASE /\ manifest = NewManifest(c) /\ ReleaseWith(c, "IDEMPOTENT_ACK")
             /\ RecordHistoricalAcceptance(c)
    <3>1. cand[c] \in Range(manifest.hashes)
      BY <2>1, <2>2, AppendRange DEF NewManifest, RequestInv, BaseLabels,
         OwnerLabels, Manifests
    <3> QED BY <2>1, <2>2, <3>1, <1>types DEF RecordHistoricalAcceptance
  <2>3. CASE UNCHANGED accepted /\ Return(c, "TRANSPORT_FAILURE")
    BY <2>1, <2>3, <1>types
  <2> QED BY <1>15, <2>2, <2>3 DEF ReconcileUncertainCommit
<1>16. ASSUME NEW c \in Clients, ReleaseCheck(c)
      PROVE  (CommitInv /\ AcknowledgedIsAccepted)'
  BY <1>16, <1>types DEF ReleaseCheck
<1>17. ASSUME NEW c \in Clients, ReleaseRemoveJson(c)
      PROVE  (CommitInv /\ AcknowledgedIsAccepted)'
  BY <1>17, <1>types DEF ReleaseRemoveJson
<1>18. ASSUME NEW c \in Clients, ReleaseRemoveDir(c)
      PROVE  (CommitInv /\ AcknowledgedIsAccepted)'
  BY <1>18, <1>types DEF ReleaseRemoveDir
<1>19. ASSUME NEW c \in Clients, ClearInProgress(c)
      PROVE  (CommitInv /\ AcknowledgedIsAccepted)'
  BY <1>19, <1>types DEF ClearInProgress
<1>20. ASSUME NEW c \in Clients, Reconcile(c) PROVE (CommitInv /\ AcknowledgedIsAccepted)'
  BY <1>20, <1>types DEF Reconcile, Forget
<1>21. ASSUME NEW c \in Clients, Crash(c) PROVE (CommitInv /\ AcknowledgedIsAccepted)'
  BY <1>21, <1>types DEF Crash, Forget
<1>22. ASSUME NEW c \in Clients, Restart(c) PROVE (CommitInv /\ AcknowledgedIsAccepted)'
  BY <1>22, <1>types DEF Restart
<1>23. ASSUME RepairPreview PROVE (CommitInv /\ AcknowledgedIsAccepted)'
  BY <1>23, <1>types DEF RepairPreview
<1>24. ASSUME RepairConfirm PROVE (CommitInv /\ AcknowledgedIsAccepted)'
  BY <1>24, <1>types DEF RepairConfirm
<1>25. ASSUME RepairRemoveJson PROVE (CommitInv /\ AcknowledgedIsAccepted)'
  BY <1>25, <1>types DEF RepairRemoveJson
<1>26. ASSUME RepairRemoveDir PROVE (CommitInv /\ AcknowledgedIsAccepted)'
  BY <1>26, <1>types DEF RepairRemoveDir
<1>27. ASSUME SweepInspect PROVE (CommitInv /\ AcknowledgedIsAccepted)'
  BY <1>27, <1>types DEF SweepInspect
<1>28. ASSUME NEW p \in TempPaths, SweepRemove(p)
      PROVE  (CommitInv /\ AcknowledgedIsAccepted)'
  BY <1>28, <1>types DEF SweepRemove, RemoveTemp
<1>29. ASSUME UNCHANGED vars PROVE (CommitInv /\ AcknowledgedIsAccepted)'
  BY <1>29, <1>types DEF vars
<1> QED
  BY <1>1, <1>2, <1>3, <1>4, <1>5, <1>6, <1>7, <1>8, <1>9, <1>10, <1>11, <1>12,
     <1>13, <1>14, <1>15, <1>16, <1>17, <1>18, <1>19, <1>20, <1>21, <1>22, <1>23,
     <1>24, <1>25, <1>26, <1>27, <1>28, <1>29
  DEF Next, ClientStep, RepairStep, SweepStep

\* Quotient and remainder are unique.
LEMMA RemainderUnique ==
  ASSUME NEW n \in Nat, n > 0, NEW q \in Nat, NEW r \in 0..(n - 1),
         NEW k \in Nat, k = n * q + r
  PROVE  k % n = r
BY SMT

\* One more than k leaves the next remainder, wrapping from n - 1 to 0.
LEMMA RemainderSucc ==
  ASSUME NEW n \in Nat, n > 0, NEW k \in Nat
  PROVE  (k + 1) % n = ((k % n) + 1) % n
<1> DEFINE q == k \div n
           r == k % n
<1>1. q \in Nat /\ r \in 0..(n - 1) /\ k = n * q + r
  BY Z3
<1> HIDE DEF q, r
<1>2. CASE r + 1 < n
  <2>1. r + 1 \in 0..(n - 1) /\ k + 1 = n * q + (r + 1) /\ r + 1 = n * 0 + (r + 1)
    BY <1>1, <1>2
  <2>2. (k + 1) % n = r + 1
    BY <1>1, <2>1, RemainderUnique
  <2>3. (r + 1) % n = r + 1
    BY <1>1, <2>1, RemainderUnique
  <2> QED BY <2>2, <2>3 DEF r
<1>3. CASE r + 1 = n
  <2>1. 0 \in 0..(n - 1) /\ k + 1 = n * (q + 1) + 0 /\ r + 1 = n * 1 + 0 /\ q + 1 \in Nat
    BY <1>1, <1>3
  <2>2. (k + 1) % n = 0 /\ (r + 1) % n = 0
    BY <1>1, <2>1, RemainderUnique
  <2> QED BY <2>2 DEF r
<1> QED BY <1>1, <1>2, <1>3

\* Going to the next human is counting one turn more: the wrap of players.py
\* agrees with the count of accepted saves.
LEMMA NextHumanFollows ==
  ASSUME NEW k \in Nat
  PROVE  NextHumanPlayerId(PlayerOrder, Ledger!PlayerAt(k)) = Ledger!PlayerAt(k + 1)
<1> DEFINE n == Len(PlayerOrder)
           at == (k % n) + 1
           index == CHOOSE i \in DOMAIN PlayerOrder : PlayerOrder[i] = Ledger!PlayerAt(k)
<1>1. n \in Nat /\ n > 0 /\ DOMAIN PlayerOrder = 1..n
  BY ConstantsAssumption
<1>2. k % n \in 0..(n - 1)
  BY <1>1
<1>3. at \in DOMAIN PlayerOrder /\ PlayerOrder[at] = Ledger!PlayerAt(k)
  BY <1>1, <1>2 DEF Ledger!PlayerAt
<1>4. index = at
  BY <1>3, ConstantsAssumption DEF IsInjective
<1>5. (at % n) + 1 = ((k + 1) % n) + 1
  BY <1>1, RemainderSucc
<1> QED
  BY <1>4, <1>5 DEF NextHumanPlayerId, Ledger!PlayerAt

\* The player to move keeps agreeing with the number of accepted saves.
LEMMA TurnStep ==
  ASSUME TypeOK, RequestInv, WorkInv, StagedInv, ManifestValid, TurnInv, [Next]_vars
  PROVE  TurnInv'
<1>1. CASE UNCHANGED manifest
  BY <1>1 DEF TurnInv, Ledger!PlayerAt
<1>2. ASSUME NEW c \in Clients, pc[c] = "replace", manTmp[op[c]] # Nil,
             manifest' = manTmp[op[c]], UNCHANGED saves
      PROVE  TurnInv'
  <2>1. /\ manifest' = NewManifest(c) /\ base[c] = manifest /\ manifest \in Manifests
        /\ manifest.cur = PlayerOf[c]
    BY <1>2 DEF TypeOK, RequestInv, WorkInv, WorkLabels, BaseLabels, OwnerLabels,
       StagedInv,
         ManifestValid
  <2>2. manifest.seq \in Nat /\ manifest'.seq = manifest.seq + 1
        /\ manifest'.cur = NextHumanPlayerId(PlayerOrder, manifest.cur)
    BY <2>1 DEF NewManifest, Manifests
  <2> QED
    BY <2>2, NextHumanFollows DEF TurnInv
<1> QED
  BY <1>1, <1>2, ManifestChange

\* The inductive invariant holds initially.
LEMMA InitInv == Init => HandoffInv
<1> SUFFICES ASSUME Init PROVE HandoffInv
  OBVIOUS
<1>1. TypeOK /\ RequestInv
  BY InitType
<1>2. LockInv /\ JournalInv /\ WorkInv /\ StagedInv /\ CommitInv /\ SavesInv
  BY NilAssumption DEF Init, LockInv, JournalInv, WorkInv, StagedInv, CommitInv,
     SavesInv, WorkLabels,
       BaseLabels, HolderLabels, BareLockLabels, OwnerLabels
<1>3. /\ manifest.hashes = <<>> /\ manifest.seq = 0
      /\ manifest.cur = PlayerOrder[1] /\ manifest # Torn
  <2>1. manifest \in Manifests
    BY <1>1, ConstantsAssumption DEF Init, SequenceZeroManifest, Manifests, Players, Range
  <2> QED
    BY <2>1, NilAssumption DEF Init, SequenceZeroManifest
<1>4. ManifestValid /\ AcceptedSavesStored
  BY <1>3 DEF ManifestValid, AcceptedSavesStored, IsInjective
<1>5. AcknowledgedIsAccepted
  BY NilAssumption DEF Init, AcknowledgedIsAccepted, HandoffOutcome
<1>6. TurnInv
  <2>1. 0 % Len(PlayerOrder) = 0
    BY ConstantsAssumption, RemainderUnique
  <2> QED
    BY <1>3, <2>1 DEF TurnInv, Ledger!PlayerAt
<1> QED
  BY <1>1, <1>2, <1>4, <1>5, <1>6 DEF HandoffInv

\* Every step keeps it, if repairs are confirmed truthfully.
LEMMA StepInv ==
  ASSUME CarefulRepair, HandoffInv, [Next]_vars
  PROVE  HandoffInv'
<1> USE DEF HandoffInv
<1>1. TypeOK' /\ RequestInv'
  BY TypeStep
<1>2. LockInv'
  BY LockStep
<1>3. JournalInv' /\ WorkInv' /\ StagedInv' /\ SavesInv'
  BY JournalStep, WorkStep, StagedStep, SavesStep
<1>4. ManifestValid' /\ AcceptedSavesStored'
  BY ManifestStep
<1>5. CommitInv' /\ AcknowledgedIsAccepted'
  BY AcknowledgeStep
<1>6. TurnInv'
  BY TurnStep
<1> QED
  BY <1>1, <1>2, <1>3, <1>4, <1>5, <1>6

\* The inductive invariant holds in every reachable state.
THEOREM Invariant == ASSUME CarefulRepair PROVE Spec => []HandoffInv
<1>1. Init => HandoffInv
  BY InitInv
<1>2. HandoffInv /\ [Next]_vars => HandoffInv'
  BY StepInv
<1> QED
  BY <1>1, <1>2, PTL DEF Spec

\* One client at a time works under the upload lock, with a journal that can
\* resume its operation.
THEOREM MutualExclusion == ASSUME CarefulRepair PROVE Spec => []OneOwner
<1>1. HandoffInv => OneOwner
  BY OwnerIsUnique DEF HandoffInv, OneOwner, JournalInv
<1> QED
  BY <1>1, Invariant, PTL

\* The manifest a client replaces is the one it read under the lock.
THEOREM TurnsAreKept == ASSUME CarefulRepair PROVE Spec => []NoLostTurn
<1>1. HandoffInv => NoLostTurn
  BY DEF HandoffInv, NoLostTurn, WorkInv, WorkLabels, BaseLabels, OwnerLabels
<1> QED
  BY <1>1, Invariant, PTL

\* The manifest is whole and without repetitions (Manifest, _run_owned_handoff).
THEOREM ManifestSafe == ASSUME CarefulRepair PROVE Spec => []ManifestValid
<1>1. HandoffInv => ManifestValid
  BY DEF HandoffInv
<1> QED
  BY <1>1, Invariant, PTL

\* The bytes of every save the manifest lists are stored.
THEOREM SavesStored == ASSUME CarefulRepair PROVE Spec => []AcceptedSavesStored
<1>1. HandoffInv => AcceptedSavesStored
  BY DEF HandoffInv
<1> QED
  BY <1>1, Invariant, PTL

\* No client reports or remembers as accepted what the manifest does not list.
THEOREM AcknowledgmentSound == ASSUME CarefulRepair PROVE Spec => []AcknowledgedIsAccepted
<1>1. HandoffInv => AcknowledgedIsAccepted
  BY DEF HandoffInv
<1> QED
  BY <1>1, Invariant, PTL

\* A release removes no lock.json but its own.
THEOREM ReleaseOwnLockOnly == ASSUME CarefulRepair PROVE Spec => ForeignLockKept
<1>1. HandoffInv /\ [Next]_vars =>
        [\A c \in Clients :
           pc[c] = "remove_json" /\ lockJson # Nil /\ lockJson' = Nil /\ pc'[c] # pc[c]
             => lockJson = Document(c)]_vars
  BY DEF HandoffInv, LockInv, HolderLabels
<1> QED
  BY <1>1, Invariant, PTL DEF Spec, ForeignLockKept

\* Read as a ledger, the storage only ever makes steps of the ledger.
THEOREM Refinement == ASSUME CarefulRepair PROVE Spec => LedgerSpec
<1> USE DEF Ledger!lvars
<1>1. Init => Ledger!LedgerInit
  <2> SUFFICES ASSUME Init PROVE Ledger!LedgerInit
    OBVIOUS
  <2>1. ManifestValid /\ TurnInv
    BY InitInv DEF HandoffInv
  <2>2. manifest.hashes = <<>> /\ manifest.seq = 0 /\ StoredIntact = {}
    BY DEF Init, SequenceZeroManifest, StoredIntact
  <2> QED
    BY <2>1, <2>2 DEF Ledger!LedgerInit, ManifestValid, TurnInv
<1>2. HandoffInv /\ HandoffInv' /\ [Next]_vars => [Ledger!LedgerNext]_(Ledger!lvars)
  <2> SUFFICES ASSUME HandoffInv, HandoffInv', [Next]_vars
               PROVE  [Ledger!LedgerNext]_(Ledger!lvars)
    OBVIOUS
  <2>1. manifest # Torn /\ manifest' # Torn
    BY DEF HandoffInv, ManifestValid
  <2>2. CASE UNCHANGED <<manifest, saves>>
    BY <2>2 DEF StoredIntact
  <2>3. ASSUME NEW c \in Clients, pc[c] = "publish", UNCHANGED manifest,
               saves' = saves \cup {PublishedSave(c)}
        PROVE  [Ledger!LedgerNext]_(Ledger!lvars)
    <3>1. cand[c] \in Hashes /\ PublishedSave(c).hash = cand[c]
      BY <2>3 DEF HandoffInv, RequestInv, PublishedSave
    <3>2. StoredIntact' = StoredIntact \/ StoredIntact' = StoredIntact \cup {cand[c]}
      BY <2>3, <3>1 DEF StoredIntact
    <3> QED
      BY <2>3, <3>1, <3>2 DEF Ledger!LedgerNext, Ledger!Store
  <2>4. ASSUME NEW c \in Clients, pc[c] = "replace", manTmp[op[c]] # Nil,
               manifest' = manTmp[op[c]], UNCHANGED saves
        PROVE  [Ledger!LedgerNext]_(Ledger!lvars)
    <3>1. /\ manifest' = NewManifest(c) /\ base[c] = manifest /\ manifest \in Manifests
          /\ cand[c] \in Hashes /\ cand[c] \notin Range(manifest.hashes)
          /\ [seq |-> base[c].seq + 1, hash |-> cand[c], content |-> cand[c]] \in saves
      BY <2>4 DEF HandoffInv, TypeOK, RequestInv, WorkInv, WorkLabels, BaseLabels,
         OwnerLabels,
           StagedInv, SavesInv, ManifestValid
    <3>2. cand[c] \in StoredIntact /\ UNCHANGED StoredIntact
      BY <2>4, <3>1 DEF StoredIntact
    <3>3. manifest'.hashes = Append(manifest.hashes, cand[c]) /\ manifest'.seq =
    Len(manifest.hashes) + 1
      BY <3>1 DEF NewManifest, HandoffInv, ManifestValid
    <3>4. manifest'.cur = Ledger!PlayerAt(Len(manifest.hashes) + 1)
      BY <3>3 DEF HandoffInv, TurnInv
    <3>5. Ledger!Accept(cand[c])
      BY <2>1, <3>1, <3>2, <3>3, <3>4 DEF Ledger!Accept, Ledger!PlayerAt,
         Ledger!Range, Range
    <3> QED
      BY <3>1, <3>5 DEF Ledger!LedgerNext
  <2> QED
    BY <2>2, <2>3, <2>4, ManifestChange
<1> QED
  BY <1>1, <1>2, Invariant, PTL DEF Spec, LedgerSpec, Ledger!LedgerSpec

-----------------------------------------------------------------------------
(* history/ is the past of the manifest. The archive of a manifest is put  *)
(* in place by the owner of the lock while that manifest is the current    *)
(* one, and the manifest is replaced only after its archive was verified.  *)

\* The archive of manifest m, complete.
ArchiveOf(m) == [path |-> HistoryPath(m), content |-> m]

\* From the verified archive to the replacement of the manifest.
CommitLabels == {"temp_manifest", "confirm", "replace"}

ArchivedInv ==
  \A c \in Clients : pc[c] \in CommitLabels => ArchiveOf(base[c]) \in history

-----------------------------------------------------------------------------
\* A client comes to the commit through the archive only, and keeps its base.
LEMMA CommitAfterArchive ==
  ASSUME TypeOK, [Next]_vars, NEW d \in Clients, pc'[d] \in CommitLabels
  PROVE  base'[d] = base[d] /\ (pc[d] \in CommitLabels \/ ArchivePublish(d))
<1> USE DEF CommitLabels, Goto, Return, ReleaseWith, request, admin
<1>types. pc \in [Clients -> Labels] /\ base \in [Clients -> Manifests \cup {Nil}]
  BY DEF TypeOK
<1>1. ASSUME NEW c \in Clients,
             \/ ExecuteHandoff(c) \/ AcquireMkdir(c) \/ AcquireWriteLockJson(c)
             \/ BeginHandoff(c) \/ ResumeExistingLock(c)
      PROVE  base' = base /\ (d = c => pc'[d] \notin CommitLabels) /\ (d # c => pc'[d] = pc[d])
  BY <1>1, <1>types DEF ExecuteHandoff, AcquireMkdir, AcquireWriteLockJson, BeginHandoff,
       ResumeExistingLock
<1>2. ASSUME NEW c \in Clients, ReadManifest(c)
      PROVE  d # c /\ base'[d] = base[d] /\ pc'[d] = pc[d]
  BY <1>2, <1>types DEF ReadManifest
<1>3. ASSUME NEW c \in Clients,
             StageAndVerifyUpload(c) \/ PublishOrReuseFinal(c) \/ ArchiveStage(c)
      PROVE  base' = base /\ d # c /\ pc'[d] = pc[d]
  BY <1>3, <1>types DEF StageAndVerifyUpload, PublishOrReuseFinal, ArchiveStage
<1>4. ASSUME NEW c \in Clients, ArchivePublish(c)
      PROVE  base' = base /\ (d = c \/ pc'[d] = pc[d])
  BY <1>4, <1>types DEF ArchivePublish
<1>5. ASSUME NEW c \in Clients, WriteTempManifest(c) \/ ConfirmLock(c)
      PROVE  base' = base /\ pc[c] \in CommitLabels /\ (d = c \/ pc'[d] = pc[d])
  BY <1>5, <1>types DEF WriteTempManifest, ConfirmLock
<1>6. ASSUME NEW c \in Clients,
             \/ ReplaceManifest(c) \/ RecordCommit(c) \/ ReconcileUncertainCommit(c)
             \/ ReleaseCheck(c) \/ ReleaseRemoveJson(c) \/ ReleaseRemoveDir(c)
             \/ ClearInProgress(c) \/ Restart(c)
      PROVE  base' = base /\ d # c /\ pc'[d] = pc[d]
  BY <1>6, <1>types DEF ReplaceManifest, RecordCommit, ReconcileUncertainCommit,
       ReleaseCheck, ReleaseRemoveJson, ReleaseRemoveDir, ClearInProgress, Restart
<1>7. ASSUME NEW c \in Clients, Reconcile(c) \/ Crash(c)
      PROVE  d # c /\ base'[d] = base[d] /\ pc'[d] = pc[d]
  BY <1>7, <1>types DEF Reconcile, Crash, Forget
<1>8. ASSUME RepairStep \/ SweepStep \/ UNCHANGED vars
      PROVE  base' = base /\ pc' = pc
  BY <1>8 DEF RepairStep, RepairPreview, RepairConfirm, RepairRemoveJson, RepairRemoveDir,
       SweepStep, SweepInspect, SweepRemove, vars
<1> QED
  BY <1>1, <1>2, <1>3, <1>4, <1>5, <1>6, <1>7, <1>8 DEF Next, ClientStep

\* Only the archive step adds to history/, and it moves the staged file there.
LEMMA HistoryChange ==
  ASSUME [Next]_vars
  PROVE  \/ UNCHANGED history
         \/ \E c \in Clients :
              /\ pc[c] = "archive_publish" /\ histTmp[op[c]] # Nil /\ UNCHANGED manifest
              /\ history' = history \cup
                   {[path |-> HistoryPath(base[c]), content |-> histTmp[op[c]]]}
<1> USE DEF remote
<1>1. ASSUME NEW c \in Clients, ArchivePublish(c)
      PROVE  /\ pc[c] = "archive_publish" /\ UNCHANGED manifest
             /\ \/ UNCHANGED history
                \/ /\ histTmp[op[c]] # Nil
                   /\ history' = history \cup
                        {[path |-> HistoryPath(base[c]), content |-> histTmp[op[c]]]}
  BY <1>1 DEF ArchivePublish, MoveTempToHistory
<1>2. ASSUME NEW c \in Clients,
             \/ ExecuteHandoff(c) \/ AcquireMkdir(c) \/ AcquireWriteLockJson(c)
             \/ BeginHandoff(c) \/ ResumeExistingLock(c) \/ ReadManifest(c)
             \/ StageAndVerifyUpload(c) \/ PublishOrReuseFinal(c) \/ ArchiveStage(c)
             \/ WriteTempManifest(c) \/ ConfirmLock(c) \/ ReplaceManifest(c)
      PROVE  UNCHANGED history
  BY <1>2 DEF ExecuteHandoff, AcquireMkdir, AcquireWriteLockJson, BeginHandoff,
       ResumeExistingLock, ReadManifest, StageAndVerifyUpload, PublishOrReuseFinal,
       ArchiveStage, WriteTempManifest, ConfirmLock, ReplaceManifest
<1>3. ASSUME NEW c \in Clients,
             \/ RecordCommit(c) \/ ReconcileUncertainCommit(c) \/ ReleaseCheck(c)
             \/ ReleaseRemoveJson(c) \/ ReleaseRemoveDir(c) \/ ClearInProgress(c)
             \/ Reconcile(c) \/ Crash(c) \/ Restart(c)
      PROVE  UNCHANGED history
  BY <1>3 DEF RecordCommit, ReconcileUncertainCommit, ReleaseCheck, ReleaseRemoveJson,
       ReleaseRemoveDir, ClearInProgress, Reconcile, Crash, Restart
<1>4. ASSUME RepairStep \/ SweepStep \/ UNCHANGED vars PROVE UNCHANGED history
  BY <1>4 DEF RepairStep, RepairPreview, RepairConfirm, RepairRemoveJson, RepairRemoveDir,
       SweepStep, SweepInspect, SweepRemove, vars
<1> QED
  BY <1>1, <1>2, <1>3, <1>4 DEF Next, ClientStep

\* What is at the path of an archive when the owner goes on to commit is the
\* archive of its base, put there just now or found there and verified.
LEMMA ArchivedStep ==
  ASSUME HandoffInv, ArchivedInv, [Next]_vars
  PROVE  ArchivedInv'
<1> SUFFICES ASSUME NEW d \in Clients, pc'[d] \in CommitLabels
             PROVE  ArchiveOf(base'[d]) \in history'
  BY DEF ArchivedInv, CommitLabels, ArchiveOf, HistoryPath
<1>1. base'[d] = base[d] /\ (pc[d] \in CommitLabels \/ ArchivePublish(d))
  BY CommitAfterArchive DEF HandoffInv
<1>2. history \subseteq history'
  BY HistoryChange
<1>3. CASE pc[d] \in CommitLabels
  BY <1>1, <1>2, <1>3 DEF ArchivedInv
<1>4. CASE ArchivePublish(d)
  <2>1. /\ pc[d] = "archive_publish" /\ pc'[d] = "temp_manifest"
        /\ histTmp[op[d]] \in {base[d], Nil}
    BY <1>4 DEF ArchivePublish, Goto, Return, ReleaseWith, CommitLabels, HandoffInv, TypeOK,
         StagedInv
  <2>2. CASE histTmp[op[d]] # Nil /\ MoveTempToHistory(d)
    BY <1>1, <2>1, <2>2 DEF MoveTempToHistory, ArchiveOf
  <2>3. CASE \E x \in HistoryAt(HistoryPath(base[d])) : x.content = base[d]
    <3>1. PICK x \in history : x.path = HistoryPath(base[d]) /\ x.content = base[d]
      BY <2>3 DEF HistoryAt
    <3>2. x \in [path : HistoryPaths, content : Manifests \cup {Torn}]
      BY DEF HandoffInv, TypeOK
    <3>3. x = ArchiveOf(base[d])
      BY <3>1, <3>2 DEF ArchiveOf
    <3> QED
      BY <1>1, <1>2, <3>3
  <2>4. \/ histTmp[op[d]] # Nil /\ MoveTempToHistory(d)
        \/ \E x \in HistoryAt(HistoryPath(base[d])) : x.content = base[d]
    BY <1>4, <2>1 DEF ArchivePublish, Goto, Return, ReleaseWith, HandoffInv, TypeOK
  <2> QED
    BY <2>2, <2>3, <2>4
<1> QED
  BY <1>1, <1>3, <1>4

-----------------------------------------------------------------------------
\* A list that grows at its end keeps its beginnings.
LEMMA BeginningsKept ==
  ASSUME NEW s \in Seq(Hashes), NEW h \in Hashes, NEW k \in Nat, k <= Len(s)
  PROVE  SubSeq(Append(s, h), 1, k) = SubSeq(s, 1, k)
<1>1. /\ Append(s, h) \in Seq(Hashes) /\ Len(Append(s, h)) = Len(s) + 1
      /\ \A i \in 1..Len(s) : Append(s, h)[i] = s[i]
  OBVIOUS
<1>2. /\ SubSeq(Append(s, h), 1, k) \in Seq(Hashes) /\ SubSeq(s, 1, k) \in Seq(Hashes)
      /\ Len(SubSeq(Append(s, h), 1, k)) = k /\ Len(SubSeq(s, 1, k)) = k
      /\ \A i \in 1..k : SubSeq(Append(s, h), 1, k)[i] = Append(s, h)[i]
      /\ \A i \in 1..k : SubSeq(s, 1, k)[i] = s[i]
  BY <1>1
<1> QED
  BY <1>1, <1>2

\* The current manifest joins the past, and the next one takes its place.
LEMMA PastStep ==
  ASSUME HandoffInv, ArchivedInv, HistoryIsPast, [Next]_vars
  PROVE  HistoryIsPast'
<1>0. /\ manifest \in Manifests /\ manifest # Torn /\ manifest.hashes \in Seq(Hashes)
      /\ manifest.seq = Len(manifest.hashes) /\ manifest.seq \in Nat
      /\ HandoffInv /\ TypeOK
  BY DEF HandoffInv, TypeOK, ManifestValid, Manifests
<1>1. CASE UNCHANGED <<manifest, history>>
  BY <1>1 DEF HistoryIsPast
<1>2. ASSUME NEW c \in Clients, pc[c] = "archive_publish", histTmp[op[c]] # Nil,
             UNCHANGED manifest,
             history' = history \cup
               {[path |-> HistoryPath(base[c]), content |-> histTmp[op[c]]]}
      PROVE  HistoryIsPast'
  <2>1. histTmp[op[c]] = manifest /\ base[c] = manifest
    BY <1>2, <1>0 DEF HandoffInv, StagedInv, WorkInv, WorkLabels, BaseLabels, OwnerLabels
  <2>2. history' = history \cup {ArchiveOf(manifest)}
    BY <1>2, <2>1 DEF ArchiveOf
  <2>3. manifest.hashes = SubSeq(manifest.hashes, 1, manifest.seq)
    BY <1>0
  <2> DEFINE Past(x) == /\ x.content # Torn /\ x.content.seq <= manifest.seq
                        /\ x.path = HistoryPath(x.content)
                        /\ x.content.hashes = SubSeq(manifest.hashes, 1, x.content.seq)
  <2>4. Past(ArchiveOf(manifest))
    BY <1>0, <2>3 DEF ArchiveOf
  <2>5. \A x \in history : Past(x)
    BY <1>0 DEF HistoryIsPast
  <2>6. \A x \in history' : Past(x)
    BY <2>2, <2>4, <2>5
  <2>7. history \subseteq history'
    BY <2>2
  <2> QED
    BY <1>0, <1>2, <2>6, <2>7 DEF HistoryIsPast
<1>3. ASSUME NEW c \in Clients, pc[c] = "replace", manTmp[op[c]] # Nil,
             manifest' = manTmp[op[c]], UNCHANGED history
      PROVE  HistoryIsPast'
  <2>1. /\ manifest' = NewManifest(c) /\ base[c] = manifest
        /\ op[c] \in Ops /\ cand[c] \in Hashes /\ ArchiveOf(manifest) \in history
    BY <1>3 DEF HandoffInv, TypeOK, RequestInv, WorkInv, WorkLabels, BaseLabels, OwnerLabels,
         StagedInv, ArchivedInv, CommitLabels
  <2>2. /\ manifest'.hashes = Append(manifest.hashes, cand[c])
        /\ manifest'.seq = manifest.seq + 1 /\ manifest'.prev = HistoryPath(manifest)
    BY <2>1 DEF NewManifest
  <2>3. \A i \in 0..(manifest'.seq - 1) :
          \E x \in history' : x.content # Torn /\ x.content.seq = i
    <3> SUFFICES ASSUME NEW i \in 0..manifest.seq
                 PROVE  \E x \in history : x.content # Torn /\ x.content.seq = i
      BY <1>0, <1>3, <2>2
    <3>1. CASE i = manifest.seq
      BY <1>0, <2>1, <3>1 DEF ArchiveOf
    <3>2. CASE i \in 0..(manifest.seq - 1)
      BY <1>0, <3>2 DEF HistoryIsPast
    <3> QED
      BY <1>0, <3>1, <3>2
  <2>4. ASSUME NEW x \in history
        PROVE  /\ x.content # Torn /\ x.content.seq <= manifest'.seq
               /\ x.path = HistoryPath(x.content)
               /\ x.content.hashes = SubSeq(manifest'.hashes, 1, x.content.seq)
    <3>1. /\ x.content # Torn /\ x.content.seq <= manifest.seq
          /\ x.path = HistoryPath(x.content)
          /\ x.content.hashes = SubSeq(manifest.hashes, 1, x.content.seq)
      BY <1>0, <2>4 DEF HistoryIsPast
    <3>2. x.content.seq \in Nat
      BY <1>0, <2>4, <3>1 DEF TypeOK, Manifests
    <3>3. SubSeq(manifest'.hashes, 1, x.content.seq) = SubSeq(manifest.hashes, 1, x.content.seq)
      BY <1>0, <2>1, <2>2, <3>1, <3>2, BeginningsKept
    <3> QED
      BY <1>0, <2>2, <3>1, <3>2, <3>3
  <2>5. \E x \in history' : x.path = manifest'.prev
    BY <1>3, <2>1, <2>2 DEF ArchiveOf
  <2> QED
    BY <1>3, <2>3, <2>4, <2>5 DEF HistoryIsPast
<1>4. manifest' # manifest =>
        \E c \in Clients : /\ pc[c] = "replace" /\ manTmp[op[c]] # Nil
                           /\ manifest' = manTmp[op[c]]
  BY ManifestChange
<1>5. ASSUME manifest' # manifest PROVE UNCHANGED history
  BY <1>5, HistoryChange
<1> QED
  BY <1>1, <1>2, <1>3, <1>4, <1>5, HistoryChange

\* Nothing the handoff accepted is forgotten and nothing it abandoned is kept:
\* the archives are the manifests there were, one for every accepted save.
THEOREM HistoryKept == ASSUME CarefulRepair PROVE Spec => []HistoryIsPast
<1> DEFINE PastInv == HandoffInv /\ ArchivedInv /\ HistoryIsPast
<1>1. Init => ArchivedInv /\ HistoryIsPast
  <2> SUFFICES ASSUME Init PROVE ArchivedInv /\ HistoryIsPast
    OBVIOUS
  <2>1. history = {} /\ manifest.seq = 0 /\ manifest.prev = Nil
        /\ \A c \in Clients : pc[c] = "idle"
    BY DEF Init, SequenceZeroManifest
  <2>2. 0..(manifest.seq - 1) = {}
    BY <2>1
  <2> QED
    BY <2>1, <2>2 DEF ArchivedInv, CommitLabels, HistoryIsPast
<1>2. PastInv /\ [Next]_vars => PastInv'
  BY StepInv, ArchivedStep, PastStep
<1>3. Init => PastInv
  BY <1>1, InitInv
<1>4. PastInv => HistoryIsPast
  OBVIOUS
<1> HIDE DEF PastInv
<1> QED
  BY <1>2, <1>3, <1>4, PTL DEF Spec
=============================================================================
