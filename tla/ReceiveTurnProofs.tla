------------------------- MODULE ReceiveTurnProofs -------------------------
(***************************************************************************)
(* Proofs about ReceiveTurn, for any number of Relays, turns, file names   *)
(* and troubles: the files are whole, the identity is one, what is         *)
(* reported is on the disk, no file is overwritten, and the documents of   *)
(* Relay are atomic. That a turn is received in the end stays with TLC.    *)
(***************************************************************************)
EXTENDS ReceiveTurn, TLAPS

\* What a name shows of the data written under it: nothing or all of it.
Kept(data) == {Nil} \cup [data : data, synced : {TRUE}]

\* Everything a name shows, or may show after a loss of power, was whole and
\* on the disk before it got the name.
DiskWhole ==
  /\ durable[Installation] \subseteq Kept(ClientIds)
  /\ durable[MatchState] \subseteq Kept(Records)
  /\ \A name \in Names : durable[name] \subseteq Kept(Turns \cup {Foreign})

\* What a reconcile holds for present is present, unless the player has
\* touched its name since the reconcile began.
Present(known, t) == NameOf[t] \in known.touched \/ files[NameOf[t]] = Whole(t)

Knowledge ==
  \A p \in Relays :
    /\ pc[p] = "evidence" => loc[p].turn \in Turns
    /\ pc[p] \in {"promote", "publish", "compare"} => loc[p].art \in Turns
    /\ pc[p] = "download" /\ loc[p].rec.downloaded # Nil
         => Present(loc[p], loc[p].rec.downloaded)
    /\ pc[p] = "store" /\ loc[p].out = "MY_TURN_DOWNLOADED"
         => loc[p].rec.downloaded # Nil /\ Present(loc[p], loc[p].rec.downloaded)

\* The inductive invariant.
RecvInv == TypeOK /\ DiskWhole /\ OneIdentity /\ Knowledge /\ ReadyIsOnDisk

-----------------------------------------------------------------------------
(* The files *)

LEMMA WholeIsThere ==
  ASSUME NEW data \in Contents \cup Records \cup ClientIds
  PROVE  Whole(data) # Nil
<1>1. Whole(data) \in [data : Contents \cup Records \cup ClientIds, synced : BOOLEAN]
  BY DEF Whole, Entry
<1> QED
  BY <1>1, ReceiveAssumption

\* What the steps do to the files: a Relay publishes a whole document or save
\* under a free name, or replaces the match state by whole records.
LEMMA RelayWrites ==
  ASSUME RecvInv, NEW p \in Relays, RelayStep(p)
  PROVE  \/ UNCHANGED disk
         \/ files[Installation] = Nil /\ Show(Installation, Whole(NewClientId(p)))
         \/ \E name \in Names, t \in Turns : files[name] = Nil /\ Show(name, Whole(t))
         \/ Show(MatchState, Whole(loc[p].rec))
<1> USE DEF TemporaryFile, Whole
<1>1. CASE ReadIdentity(p) \/ ReadWinner(p)
  BY <1>1 DEF ReadIdentity, ReadWinner, TryReadInstallation, StartFails
<1>2. CASE CreateIdentity(p)
  BY <1>2 DEF CreateIdentity, PublishNoReplace, StartFails
<1>3. CASE LoadMatchState(p)
  BY <1>3 DEF LoadMatchState, Raise
<1>4. CASE ReadManifest(p)
  BY <1>4 DEF ReadManifest, Looks, Fails
<1>5. CASE Evidence(p) \/ Download(p)
  BY <1>5 DEF Evidence, Download, Looks, Fails
<1>6. CASE Promote(p) \/ Compare(p)
  BY <1>6 DEF Promote, Compare, ComparePresent, Looks, Fails
<1>7. CASE Publish(p)
  <2>1. loc[p].art \in Turns /\ Destination(p) \in Names
    BY <1>7, ReceiveAssumption DEF Publish, RecvInv, Knowledge, Destination, Turns
  <2> QED
    BY <1>7, <2>1 DEF Publish, PublishNoReplace, Raise
<1>8. CASE WriteMatchState(p)
  BY <1>8 DEF WriteMatchState, AtomicWriteBytes, Raise
<1> QED
  BY <1>1, <1>2, <1>3, <1>4, <1>5, <1>6, <1>7, <1>8 DEF RelayStep

\* What one change of a name does to the names.
LEMMA ShowWhole ==
  ASSUME RecvInv, NEW path \in Paths, NEW entry, Show(path, entry),
         path = Installation => entry \in Kept(ClientIds),
         path = MatchState => entry \in Kept(Records),
         path \in Names => entry \in Kept(Turns \cup {Foreign})
  PROVE  /\ DiskWhole'
         /\ DOMAIN files' = Paths /\ DOMAIN durable' = Paths
         /\ \A q \in Paths : files'[q] \in durable'[q]
<1>1. DOMAIN files = Paths /\ DOMAIN durable = Paths /\ \A q \in Paths : files[q] \in durable[q]
  BY DEF RecvInv, TypeOK
<1>2. \A q \in Paths : /\ files'[q] = IF q = path THEN entry ELSE files[q]
                       /\ durable'[q] = IF q = path THEN durable[q] \cup {entry} ELSE durable[q]
  BY <1>1 DEF Show
<1>3. DOMAIN files' = Paths /\ DOMAIN durable' = Paths
  BY <1>1 DEF Show
<1>4. Installation \in Paths /\ MatchState \in Paths /\ Names \subseteq Paths
      /\ Installation # MatchState /\ Installation \notin Names /\ MatchState \notin Names
  BY ReceiveAssumption DEF Paths, Installation, MatchState
<1>5. DiskWhole
  BY DEF RecvInv
<1>6. durable'[Installation] \subseteq Kept(ClientIds)
  BY <1>2, <1>4, <1>5 DEF DiskWhole
<1>7. durable'[MatchState] \subseteq Kept(Records)
  BY <1>2, <1>4, <1>5 DEF DiskWhole
<1>8. \A name \in Names : durable'[name] \subseteq Kept(Turns \cup {Foreign})
  BY <1>2, <1>4, <1>5 DEF DiskWhole
<1> QED
  BY <1>1, <1>2, <1>3, <1>6, <1>7, <1>8 DEF DiskWhole

\* A loss of power brings back what a name may show, whole.
LEMMA PowerBringsBack ==
  ASSUME RecvInv, PowerLoss PROVE \A q \in Paths : files'[q] \in durable[q]
<1>a. Installation # MatchState /\ Installation \notin Names /\ MatchState \notin Names
  BY ReceiveAssumption DEF Installation, MatchState
<1>1. \A path \in Paths : \A e \in durable[path] : Survives(e) = e
  <2>1. \A path \in Paths : durable[path] \subseteq Kept(ClientIds)
           \/ durable[path] \subseteq Kept(Records) \/ durable[path] \subseteq Kept(Turns \cup {Foreign})
    BY DEF RecvInv, DiskWhole, Paths
  <2>2. \A data, e : e \in Kept(data) => Survives(e) = e
    BY DEF Kept, Survives
  <2> QED
    BY <2>1, <2>2
<1>2. \A q \in Paths : files'[q] \in durable[q]
  <2> PICK identity \in durable[Installation], records \in durable[MatchState],
           saves \in {f \in [Names -> UNION {durable[name] : name \in Names}] :
                        \A name \in Names : f[name] \in durable[name]} :
        files' = [path \in Paths |-> Survives(CASE path = Installation -> identity
                                                [] path = MatchState -> records
                                                [] path \in Names -> saves[path])]
    BY DEF PowerLoss
  <2> SUFFICES ASSUME NEW q \in Paths PROVE files'[q] \in durable[q]
    OBVIOUS
  <2>1. CASE q = Installation
    BY <1>a, <1>1, <2>1
  <2>2. CASE q = MatchState
    BY <1>a, <1>1, <2>2
  <2>3. CASE q \in Names
    BY <1>a, <1>1, <2>3
  <2> QED
    BY <2>1, <2>2, <2>3 DEF Paths
<1> QED
  BY <1>2

LEMMA DiskKept ==
  ASSUME RecvInv, [Next]_vars
  PROVE  /\ DiskWhole'
         /\ DOMAIN files' = Paths /\ DOMAIN durable' = Paths
         /\ \A q \in Paths : files'[q] \in durable'[q]
<1> USE DEF RecvInv
<1>a. Installation \in Paths /\ MatchState \in Paths /\ Names \subseteq Paths
      /\ Installation # MatchState /\ Installation \notin Names /\ MatchState \notin Names
  BY ReceiveAssumption DEF Paths, Installation, MatchState
<1>b. DOMAIN files = Paths /\ DOMAIN durable = Paths /\ \A q \in Paths : files[q] \in durable[q]
  BY DEF TypeOK
<1>1. ASSUME UNCHANGED disk
      PROVE  /\ DiskWhole'
             /\ DOMAIN files' = Paths /\ DOMAIN durable' = Paths
             /\ \A q \in Paths : files'[q] \in durable'[q]
  BY <1>b, <1>1 DEF disk, DiskWhole
<1>2. ASSUME NEW p \in Relays, RelayStep(p)
      PROVE  /\ DiskWhole'
             /\ DOMAIN files' = Paths /\ DOMAIN durable' = Paths
             /\ \A q \in Paths : files'[q] \in durable'[q]
  <2>1. Whole(NewClientId(p)) \in Kept(ClientIds)
    BY DEF Whole, Entry, NewClientId, ClientIds, Kept, TypeOK
  <2>2. Whole(loc[p].rec) \in Kept(Records)
    BY DEF Whole, Entry, Kept, TypeOK
  <2>3. \A t \in Turns : Whole(t) \in Kept(Turns \cup {Foreign})
    BY DEF Whole, Entry, Kept
  <2>4. CASE files[Installation] = Nil /\ Show(Installation, Whole(NewClientId(p)))
    BY <1>a, <2>1, <2>4, ShowWhole
  <2>5. CASE \E name \in Names, t \in Turns : files[name] = Nil /\ Show(name, Whole(t))
    <3> PICK name \in Names, t \in Turns : Show(name, Whole(t))
      BY <2>5
    <3> QED
      BY <1>a, <2>3, ShowWhole
  <2>6. CASE Show(MatchState, Whole(loc[p].rec))
    BY <1>a, <2>2, <2>6, ShowWhole
  <2> QED
    BY <1>1, <1>2, <2>4, <2>5, <2>6, RelayWrites
<1>3. ASSUME NEW name \in Names, UserChanges(name)
      PROVE  /\ DiskWhole'
             /\ DOMAIN files' = Paths /\ DOMAIN durable' = Paths
             /\ \A q \in Paths : files'[q] \in durable'[q]
  <2> PICK entry \in {Nil, Whole(Foreign)} : Show(name, entry)
    BY <1>3 DEF UserChanges
  <2>1. entry \in Kept(Turns \cup {Foreign})
    <3>1. Whole(Foreign) \in Kept(Turns \cup {Foreign})
      BY DEF Whole, Entry, Kept
    <3>2. Nil \in Kept(Turns \cup {Foreign})
      BY DEF Kept
    <3> QED
      BY <3>1, <3>2
  <2> QED
    BY <1>a, <2>1, ShowWhole
<1>4. CASE PowerLoss
  <2>2. \A q \in Paths : files'[q] \in durable[q]
    BY <1>4, PowerBringsBack
  <2>3. DOMAIN files' = Paths
    BY <1>4 DEF PowerLoss
  <2>4. durable' = [q \in Paths |-> {files'[q]}]
    BY <1>4 DEF PowerLoss
  <2>5. \A q \in Paths : durable'[q] = {files'[q]} /\ durable'[q] \subseteq durable[q]
    BY <2>2, <2>4
  <2>6. DOMAIN durable' = Paths
    BY <2>4
  <2> QED
    BY <1>a, <2>3, <2>5, <2>6 DEF DiskWhole
<1>5. CASE HandOver \/ UNCHANGED vars \/ \E p \in Relays : Start(p) \/ Stop(p)
  BY <1>1, <1>5 DEF HandOver, vars, Start, Stop
<1> QED
  BY <1>2, <1>3, <1>4, <1>5 DEF Next

\* A file in the PBEM directory is lost or changed only with the power or by
\* the player; the identity only with the power.
LEMMA FilesStay ==
  ASSUME RecvInv, NEW p \in Relays, RelayStep(p)
  PROVE  /\ \A name \in Names : files[name] # Nil => files'[name] = files[name]
         /\ files[Installation] # Nil => files'[Installation] = files[Installation]
<1>a. Installation \in Paths /\ MatchState \in Paths /\ Names \subseteq Paths
      /\ Installation # MatchState /\ Installation \notin Names /\ MatchState \notin Names
  BY ReceiveAssumption DEF Paths, Installation, MatchState
<1>b. DOMAIN files = Paths
  BY DEF RecvInv, TypeOK
<1>1. CASE UNCHANGED disk
  BY <1>1 DEF disk
<1>2. CASE files[Installation] = Nil /\ Show(Installation, Whole(NewClientId(p)))
  BY <1>a, <1>b, <1>2 DEF Show
<1>3. CASE \E name \in Names, t \in Turns : files[name] = Nil /\ Show(name, Whole(t))
  BY <1>a, <1>b, <1>3 DEF Show
<1>4. CASE Show(MatchState, Whole(loc[p].rec))
  BY <1>a, <1>b, <1>4 DEF Show
<1> QED
  BY <1>1, <1>2, <1>3, <1>4, RelayWrites

-----------------------------------------------------------------------------
(* The types of what a Relay knows *)

Known == [rec : Records, turn : Turns \cup {Nil}, art : Turns \cup {Nil},
          out : States \cup {Nil}, touched : SUBSET Names]

Memory ==
  /\ id \in [Relays -> ClientIds \cup {Nil}] /\ pc \in [Relays -> Labels]
  /\ loc \in [Relays -> Known]
  /\ ready \in [Relays -> Turns \cup {Nil}] /\ troubles \in Nat

LEMMA NewReconcileType == NewReconcile \in Known
BY DEF NewReconcile, Known, EmptyRecords, Records

LEMMA LearnType ==
  ASSUME Memory, NEW p \in Relays, NEW new \in Known, NEW label \in Labels, Learn(p, new, label)
  PROVE  loc' \in [Relays -> Known] /\ pc' \in [Relays -> Labels]
BY DEF Memory, Learn, Goto

LEMMA ConcludeType ==
  ASSUME Memory, NEW p \in Relays, NEW new \in Known, NEW state \in States, Conclude(p, new, state)
  PROVE  loc' \in [Relays -> Known] /\ pc' \in [Relays -> Labels]
<1>1. [new EXCEPT !.turn = Nil, !.art = Nil, !.out = state] \in Known
  BY DEF Known
<1> QED
  BY <1>1, LearnType DEF Conclude, Labels, Reconciling

LEMMA FailsType ==
  ASSUME Memory, NEW p \in Relays, NEW state \in States, Fails(p, state)
  PROVE  Memory'
<1>1. loc[p] \in Known
  BY DEF Memory
<1> QED
  BY <1>1, ConcludeType DEF Fails, Trouble, Memory, relay

LEMMA RaiseType == ASSUME Memory, NEW p \in Relays, Raise(p) PROVE Memory'
BY NewReconcileType, LearnType DEF Raise, Trouble, Memory, Labels

\* What is read of a document is of its kind.
LEMMA ReadsWhole ==
  ASSUME RecvInv
  PROVE  /\ files[Installation] # Nil => /\ files[Installation].data \in ClientIds
                                         /\ files[Installation] = Whole(files[Installation].data)
         /\ files[MatchState] # Nil => files[MatchState].data \in Records
<1>1. files[Installation] \in Kept(ClientIds) /\ files[MatchState] \in Kept(Records)
  BY DEF RecvInv, TypeOK, DiskWhole, Paths
<1> QED
  BY <1>1 DEF Kept, Whole, Entry

LEMMA MemoryKept == ASSUME RecvInv, [Next]_vars PROVE Memory' /\ turn' \in Turns /\ owner' \in {"local", "other"}
<1>a. Memory /\ turn \in Turns /\ owner \in {"local", "other"}
  BY DEF RecvInv, TypeOK, Memory, Known
<1>b. ASSUME NEW p \in Relays PROVE loc[p] \in Known
  BY <1>a, <1>b DEF Memory
<1>1. CASE HandOver
  BY <1>1, <1>a, ReceiveAssumption DEF HandOver, Turns, Memory, relay
<1>2. CASE UNCHANGED vars
  BY <1>2, <1>a DEF vars, remote, relay, Memory
<1>3. ASSUME ~HandOver, Next PROVE UNCHANGED remote
  BY <1>3 DEF Next, RelayStep, Start, ReadIdentity, CreateIdentity, ReadWinner, LoadMatchState,
       ReadManifest, Evidence, Download, Promote, Publish, Compare, WriteMatchState, Stop,
       UserChanges, PowerLoss, TryReadInstallation, StartFails, Looks, Fails, Raise, ComparePresent
<1>4. ASSUME NEW p \in Relays, Start(p) \/ Stop(p) PROVE Memory'
  <2>1. CASE Start(p)
    BY <1>a, <2>1 DEF Start, Goto, Memory, Labels
  <2>2. CASE Stop(p)
    BY <1>a, <2>2, NewReconcileType, LearnType DEF Stop, Trouble, Memory, Labels
  <2> QED
    BY <1>4, <2>1, <2>2
<1>5. ASSUME NEW p \in Relays, RelayStep(p) PROVE Memory'
  <2>1. ASSUME NEW absent \in Labels, TryReadInstallation(p, absent) PROVE Memory'
    BY <1>a, <2>1, ReadsWhole DEF TryReadInstallation, NoTrouble, Goto, Memory, Labels
  <2>2. ASSUME StartFails(p) PROVE Memory'
    BY <1>a, <2>2 DEF StartFails, Trouble, Goto, Memory, Labels
  <2>3. CASE ReadIdentity(p) \/ ReadWinner(p)
    BY <2>1, <2>2, <2>3 DEF ReadIdentity, ReadWinner, Labels
  <2>4. CASE CreateIdentity(p)
    <3>1. NewClientId(p) \in ClientIds
      BY <1>a DEF NewClientId, ClientIds, Memory
    <3> QED
      BY <1>a, <2>2, <2>4, <3>1 DEF CreateIdentity, NoTrouble, Goto, Memory, Labels
  <2>5. CASE LoadMatchState(p)
    <3>1. ASSUME files[MatchState] # Nil
          PROVE  [NewReconcile EXCEPT !.rec = files[MatchState].data] \in Known
      BY <3>1, ReadsWhole, NewReconcileType DEF Known
    <3>2. CASE Raise(p)
      BY <1>a, <3>2, RaiseType
    <3>3. CASE ~Raise(p)
      <4>1. loc' \in [Relays -> Known] /\ pc' \in [Relays -> Labels]
        BY <1>a, <2>5, <3>1, <3>3, NewReconcileType, LearnType
           DEF LoadMatchState, Labels, Reconciling
      <4> QED
        BY <1>a, <2>5, <3>3, <4>1 DEF LoadMatchState, Memory
    <3> QED
      BY <3>2, <3>3
  <2>6. CASE ReadManifest(p)
    <3> DEFINE read == [loc[p] EXCEPT !.turn = turn]
    <3>1. read \in Known
      BY <1>a, <1>b DEF Known
    <3> HIDE DEF read
    <3>2. CASE Fails(p, "ERROR")
      BY <1>a, <3>2, FailsType DEF States
    <3>3. CASE ~Fails(p, "ERROR")
      <4>1. loc' \in [Relays -> Known] /\ pc' \in [Relays -> Labels]
        BY <1>a, <2>6, <3>1, <3>3, ConcludeType, LearnType
           DEF ReadManifest, Labels, Reconciling, States, read
      <4> QED
        BY <1>a, <2>6, <3>3, <4>1 DEF ReadManifest, Looks, Memory
    <3> QED
      BY <3>2, <3>3
  <2>7. CASE Evidence(p)
    <3>1. \A t \in Turns \cup {Nil} : [loc[p] EXCEPT !.rec.downloaded = t] \in Known
      BY <1>b DEF Known, Records
    <3>2. PriorDownload(loc[p].rec, loc[p].turn) \in Turns \cup {Nil}
      BY <2>7 DEF PriorDownload, Evidence, RecvInv, Knowledge
    <3>3. loc' \in [Relays -> Known] /\ pc' \in [Relays -> Labels]
      BY <1>a, <2>7, <3>1, <3>2, LearnType DEF Evidence, Labels, Reconciling
    <3> QED
      BY <1>a, <2>7, <3>3 DEF Evidence, NoTrouble, Trouble, Memory
  <2>8. CASE Download(p)
    <3>1. [loc[p] EXCEPT !.art = turn] \in Known
      BY <1>a, <1>b DEF Known
    <3>2. CASE Fails(p, "DOWNLOADING")
      BY <1>a, <3>2, FailsType DEF States
    <3>3. CASE ~Fails(p, "DOWNLOADING")
      <4>1. loc' \in [Relays -> Known] /\ pc' \in [Relays -> Labels]
        BY <1>a, <1>b, <2>8, <3>1, <3>3, ConcludeType, LearnType
           DEF Download, Labels, Reconciling, States
      <4> QED
        BY <1>a, <2>8, <3>3, <4>1 DEF Download, Looks, Memory
    <3> QED
      BY <3>2, <3>3
  <2>9. ASSUME ComparePresent(p), loc[p].art \in Turns PROVE Memory'
    <3>1. [loc[p] EXCEPT !.rec.downloaded = loc[p].art] \in Known
      BY <1>b, <2>9 DEF Known, Records
    <3>2. loc' \in [Relays -> Known] /\ pc' \in [Relays -> Labels]
      BY <1>a, <1>b, <2>9, <3>1, ConcludeType DEF ComparePresent, States
    <3> QED
      BY <1>a, <2>9, <3>2 DEF ComparePresent, Looks, Memory
  <2>10. CASE Promote(p) \/ Compare(p)
    <3>1. loc[p].art \in Turns
      BY <2>10 DEF Promote, Compare, RecvInv, Knowledge
    <3>2. ASSUME Looks, Learn(p, loc[p], "publish") PROVE Memory'
      <4>1. loc' \in [Relays -> Known] /\ pc' \in [Relays -> Labels]
        BY <1>a, <1>b, <3>2, LearnType DEF Labels, Reconciling
      <4> QED
        BY <1>a, <3>2, <4>1 DEF Looks, Memory
    <3> QED
      BY <1>a, <2>9, <2>10, <3>1, <3>2, FailsType DEF Promote, Compare, States
  <2>11. CASE Publish(p)
    <3>1. ASSUME Learn(p, loc[p], "compare") PROVE loc' \in [Relays -> Known] /\ pc' \in [Relays -> Labels]
      BY <1>a, <1>b, <3>1, LearnType DEF Labels, Reconciling
    <3> QED
      BY <1>a, <2>11, <3>1, RaiseType DEF Publish, NoTrouble, Memory
  <2>12. CASE WriteMatchState(p)
    <3>1. CASE Raise(p)
      BY <1>a, <3>1, RaiseType
    <3>2. CASE ~Raise(p)
      <4>1. loc' \in [Relays -> Known] /\ pc' \in [Relays -> Labels]
        BY <1>a, <2>12, <3>2, NewReconcileType, LearnType DEF WriteMatchState, Labels
      <4>2. Reported(loc[p]) \in Turns \cup {Nil}
        BY <1>b DEF Reported, Known, Records
      <4> QED
        BY <1>a, <2>12, <3>2, <4>1, <4>2 DEF WriteMatchState, NoTrouble, Memory
    <3> QED
      BY <3>1, <3>2
  <2> QED
    BY <1>5, <2>3, <2>4, <2>5, <2>6, <2>7, <2>8, <2>10, <2>11, <2>12 DEF RelayStep
<1>6. ASSUME NEW name \in Names, UserChanges(name) PROVE Memory'
  <2>1. \A p \in Relays : [loc[p] EXCEPT !.touched = @ \cup {name}] \in Known
    BY <1>b DEF Known
  <2>2. loc' \in [Relays -> Known]
    BY <1>b, <1>6, <2>1 DEF UserChanges
  <2> QED
    BY <1>a, <1>6, <2>2 DEF UserChanges, Trouble, Memory
<1>7. CASE PowerLoss
  <2>1. /\ troubles' = troubles - 1 /\ troubles > 0
        /\ pc' = [p \in Relays |-> "off"] /\ loc' = [p \in Relays |-> NewReconcile]
        /\ id' = [p \in Relays |-> Nil] /\ ready' = id'
    BY <1>7 DEF PowerLoss, Trouble
  <2>2. loc' \in [Relays -> Known]
    BY <2>1, NewReconcileType
  <2>3. id' \in [Relays -> ClientIds \cup {Nil}] /\ ready' \in [Relays -> Turns \cup {Nil}]
    BY <2>1
  <2>4. pc' \in [Relays -> Labels]
    BY <2>1 DEF Labels
  <2>5. troubles' \in Nat
    BY <1>a, <2>1 DEF Memory
  <2>6. turn' = turn /\ owner' = owner
    BY <1>7 DEF PowerLoss, remote
  <2> QED
    BY <1>a, <2>2, <2>3, <2>4, <2>5, <2>6 DEF Memory
<1> QED
  BY <1>1, <1>2, <1>3, <1>4, <1>5, <1>6, <1>7, <1>a DEF Next, remote, HandOver, relay

-----------------------------------------------------------------------------
(* The identity, and what is reported *)

LEMMA IdentityKept == ASSUME RecvInv, [Next]_vars PROVE OneIdentity'
<1>a. Memory /\ OneIdentity
  BY DEF RecvInv, TypeOK, Memory, Known
<1>1. ASSUME UNCHANGED <<files, id>> PROVE OneIdentity'
  BY <1>a, <1>1 DEF OneIdentity
<1>2. ASSUME NEW p \in Relays, RelayStep(p) PROVE OneIdentity'
  <2>1. files[Installation] # Nil => files'[Installation] = files[Installation]
    BY <1>2, FilesStay
  <2>2. ASSUME id' = id PROVE OneIdentity'
    <3> SUFFICES ASSUME NEW q \in Relays, id[q] # Nil PROVE files'[Installation] = Whole(id[q])
      BY <2>2 DEF OneIdentity
    <3>1. files[Installation] = Whole(id[q])
      BY <1>a DEF OneIdentity
    <3>2. files[Installation] # Nil
      BY <1>a, <3>1, WholeIsThere DEF Memory
    <3> QED
      BY <2>1, <3>1, <3>2
  <2>3. ASSUME NEW absent, TryReadInstallation(p, absent) PROVE OneIdentity'
    <3>1. CASE id' = id
      BY <2>2, <3>1
    <3>2. CASE id' # id
      <4>1. id' = [id EXCEPT ![p] = files[Installation].data] /\ files' = files
            /\ files[Installation] # Nil
        BY <2>3, <3>2 DEF TryReadInstallation, disk
      <4>2. files[Installation] = Whole(files[Installation].data)
        BY <4>1, ReadsWhole
      <4> QED
        BY <1>a, <4>1, <4>2 DEF OneIdentity, Memory
    <3> QED
      BY <3>1, <3>2
  <2>4. CASE CreateIdentity(p)
    <3>1. CASE id' = id
      BY <2>2, <3>1
    <3>2. CASE id' # id
      <4>1. id' = [id EXCEPT ![p] = NewClientId(p)] /\ files[Installation] = Nil
            /\ Show(Installation, Whole(NewClientId(p)))
        BY <2>4, <3>2
           DEF CreateIdentity, StartFails, PublishNoReplace, TemporaryFile, Whole
      <4>2. files'[Installation] = Whole(NewClientId(p))
        BY <4>1 DEF Show, RecvInv, TypeOK, Paths
      <4>3. \A q \in Relays : id[q] = Nil
        <5> SUFFICES ASSUME NEW q \in Relays, id[q] # Nil PROVE FALSE
          OBVIOUS
        <5>1. Nil = Whole(id[q])
          BY <1>a, <4>1 DEF OneIdentity
        <5> QED
          BY <1>a, <5>1, WholeIsThere DEF Memory
      <4> QED
        BY <1>a, <4>1, <4>2, <4>3 DEF OneIdentity, Memory
    <3> QED
      BY <3>1, <3>2
  <2>5. ASSUME StartFails(p) PROVE OneIdentity'
    BY <1>1, <2>5 DEF StartFails, disk
  <2>6. CASE ReadIdentity(p) \/ ReadWinner(p)
    BY <2>3, <2>5, <2>6 DEF ReadIdentity, ReadWinner
  <2>7. CASE ~(CreateIdentity(p) \/ ReadIdentity(p) \/ ReadWinner(p))
    <3>1. id' = id
      BY <1>2, <2>7 DEF RelayStep, LoadMatchState, ReadManifest, Evidence, Download, Promote,
         Publish, Compare, WriteMatchState, Looks, Fails, Raise, ComparePresent
    <3> QED
      BY <2>2, <3>1
  <2> QED
    BY <2>4, <2>6, <2>7
<1>3. CASE \E p \in Relays : Start(p) \/ Stop(p)
  BY <1>a, <1>3 DEF Start, Stop, disk, OneIdentity, Memory
<1>4. ASSUME NEW name \in Names, UserChanges(name) PROVE OneIdentity'
  <2>1. files'[Installation] = files[Installation] /\ id' = id
    BY <1>4, ReceiveAssumption DEF UserChanges, Show, RecvInv, TypeOK, Paths
  <2> QED
    BY <1>a, <2>1 DEF OneIdentity
<1>5. CASE PowerLoss
  BY <1>5 DEF PowerLoss, OneIdentity
<1>6. CASE HandOver \/ UNCHANGED vars
  BY <1>1, <1>6 DEF HandOver, vars, disk, relay
<1> QED
  BY <1>2, <1>3, <1>4, <1>5, <1>6 DEF Next

\* What holds of a file, in a step that leaves the files of the directory.
LEMMA PresentKept ==
  ASSUME RecvInv, NEW known, NEW t \in Turns, Present(known, t),
         \A name \in Names : files[name] # Nil => files'[name] = files[name]
  PROVE  NameOf[t] \in known.touched \/ files'[NameOf[t]] = Whole(t)
<1>1. NameOf[t] \in Names
  BY ReceiveAssumption DEF Turns
<1>2. Whole(t) # Nil
  BY WholeIsThere DEF Contents
<1> QED
  BY <1>1, <1>2 DEF Present

\* One Relay's step leaves what the others know and report.
LEMMA OthersKeep ==
  ASSUME RecvInv, NEW p \in Relays, RelayStep(p), NEW q \in Relays, q # p
  PROVE  pc'[q] = pc[q] /\ loc'[q] = loc[q] /\ ready'[q] = ready[q]
<1>a. Memory
  BY DEF RecvInv, TypeOK, Memory, Known
<1> QED
  BY <1>a DEF RelayStep, ReadIdentity, CreateIdentity, ReadWinner, LoadMatchState,
     ReadManifest, Evidence, Download, Promote, Publish, Compare, WriteMatchState,
     TryReadInstallation, StartFails, Looks, Fails, Raise, ComparePresent, Conclude, Learn, Goto,
     Memory

KnowledgeOf(p) ==
  /\ pc[p] = "evidence" => loc[p].turn \in Turns
  /\ pc[p] \in {"promote", "publish", "compare"} => loc[p].art \in Turns
  /\ pc[p] = "download" /\ loc[p].rec.downloaded # Nil
       => Present(loc[p], loc[p].rec.downloaded)
  /\ pc[p] = "store" /\ loc[p].out = "MY_TURN_DOWNLOADED"
       => loc[p].rec.downloaded # Nil /\ Present(loc[p], loc[p].rec.downloaded)
ReadyOf(p) == ready[p] # Nil => files[NameOf[ready[p]]] = Whole(ready[p])

\* A step of a Relay keeps what it and the others know and have reported.
LEMMA RelayKnows ==
  ASSUME RecvInv, NEW p \in Relays, RelayStep(p), Memory', NEW q \in Relays
  PROVE  KnowledgeOf(q)' /\ ReadyOf(q)'
<1>a. Memory /\ turn \in Turns /\ KnowledgeOf(q) /\ ReadyOf(q) /\ KnowledgeOf(p) /\ ReadyOf(p)
  BY DEF RecvInv, TypeOK, Memory, Known, Knowledge, ReadyIsOnDisk, KnowledgeOf, ReadyOf
<1>b. \A name \in Names : files[name] # Nil => files'[name] = files[name]
  BY FilesStay
<1>c. ASSUME NEW t \in Turns, NEW known, Present(known, t)
      PROVE  NameOf[t] \in known.touched \/ files'[NameOf[t]] = Whole(t)
  BY <1>b, <1>c, PresentKept
<1>d. ASSUME NEW r \in Relays PROVE loc[r] \in Known /\ loc[r].rec.downloaded \in Turns \cup {Nil}
  BY <1>a DEF Memory, Known, Records
<1>e. ASSUME NEW r \in Relays, ReadyOf(r), ready'[r] = ready[r] PROVE ReadyOf(r)'
  <2>1. CASE ready[r] = Nil
    BY <1>e, <2>1 DEF ReadyOf
  <2>2. CASE ready[r] # Nil
    <3>1. ready[r] \in Turns
      BY <1>a, <2>2 DEF Memory
    <3>2. NameOf[ready[r]] \in Names /\ Whole(ready[r]) # Nil
      BY <3>1, ReceiveAssumption, WholeIsThere DEF Turns, Contents
    <3> QED
      BY <1>b, <1>e, <2>2, <3>2 DEF ReadyOf
  <2> QED
    BY <2>1, <2>2
<1>f. ASSUME NEW r \in Relays, KnowledgeOf(r), loc'[r] = loc[r],
             pc'[r] = pc[r] \/ pc'[r] \in {"off", "identity", "create", "winner", "idle", "manifest"}
      PROVE  KnowledgeOf(r)'
  BY <1>c, <1>d, <1>f DEF KnowledgeOf, Present
<1>1. CASE q # p
  BY <1>1, <1>a, <1>e, <1>f, OthersKeep
<1>2. CASE q = p
  <2>0. KnowledgeOf(p)' /\ ReadyOf(p)'
    <3>1. CASE ReadIdentity(p) \/ CreateIdentity(p) \/ ReadWinner(p)
      <4>1. loc'[p] = loc[p] /\ ready'[p] = ready[p]
            /\ pc'[p] \in {"off", "identity", "create", "winner", "idle"}
        BY <3>1, <1>a DEF ReadIdentity, CreateIdentity, ReadWinner, TryReadInstallation, StartFails,
             Goto, Memory
      <4> QED
        BY <1>a, <1>e, <1>f, <4>1
    <3>2. ASSUME Conclude(p, loc[p], "ERROR") \/ Conclude(p, loc[p], "DOWNLOADING")
          PROVE  KnowledgeOf(p)'
      <4>1. pc'[p] = "store" /\ loc'[p].out \in {"ERROR", "DOWNLOADING"}
        <5>1. ASSUME NEW state \in States, Conclude(p, loc[p], state)
              PROVE  pc'[p] = "store" /\ loc'[p].out = state
          BY <5>1, <1>a, <1>d DEF Conclude, Learn, Goto, Memory, Known
        <5> QED
          BY <3>2, <5>1 DEF States
      <4> QED
        BY <4>1 DEF KnowledgeOf
    <3>3. ASSUME Fails(p, "ERROR") \/ Fails(p, "DOWNLOADING") PROVE KnowledgeOf(p)' /\ ReadyOf(p)'
      BY <3>2, <3>3, <1>a, <1>e DEF Fails
    <3>4. ASSUME Raise(p) PROVE KnowledgeOf(p)' /\ ReadyOf(p)'
      <4>1. pc'[p] = "idle" /\ ready' = ready
        BY <3>4, <1>a DEF Raise, Learn, Goto, Memory
      <4> QED
        BY <1>a, <1>e, <4>1 DEF KnowledgeOf
    <3>5. CASE LoadMatchState(p)
      <4>1. CASE Raise(p)
        BY <3>4, <4>1
      <4>2. CASE ~Raise(p)
        <5>1. pc'[p] = "manifest" /\ ready'[p] = Nil
          BY <3>5, <4>2, <1>a DEF LoadMatchState, Learn, Goto, Memory
        <5> QED
          BY <5>1 DEF KnowledgeOf, ReadyOf
      <4> QED
        BY <4>1, <4>2
    <3>6. CASE ReadManifest(p)
      <4>1. CASE Fails(p, "ERROR")
        BY <3>3, <4>1
      <4>2. CASE ~Fails(p, "ERROR")
        <5> DEFINE read == [loc[p] EXCEPT !.turn = turn]
        <5>1. ready'[p] = ready[p]
          BY <3>6, <4>2 DEF ReadManifest, Looks
        <5>2. CASE Conclude(p, read, "WAITING_FOR_OTHER_PLAYER")
          <6>1. pc'[p] = "store" /\ loc'[p].out = "WAITING_FOR_OTHER_PLAYER"
            BY <1>a, <1>d, <5>2 DEF Conclude, Learn, Goto, Memory, Known
          <6> QED
            BY <1>a, <1>e, <5>1, <6>1 DEF KnowledgeOf
        <5>3. CASE Learn(p, read, "evidence")
          <6>1. pc'[p] = "evidence" /\ loc'[p].turn = turn
            BY <1>a, <1>d, <5>3 DEF Learn, Goto, Memory, Known
          <6> QED
            BY <1>a, <1>e, <5>1, <6>1 DEF KnowledgeOf
        <5> QED
          BY <3>6, <4>2, <5>2, <5>3 DEF ReadManifest
      <4> QED
        BY <4>1, <4>2
    <3>7. CASE Evidence(p)
      <4> DEFINE t == loc'[p].rec.downloaded
      <4>1. pc'[p] = "download" /\ ready'[p] = ready[p]
        BY <3>7, <1>a DEF Evidence, Learn, Goto, Memory
      <4>2. t \in {PriorDownload(loc[p].rec, loc[p].turn), Nil} /\ UNCHANGED files
        BY <3>7, <1>a, <1>d DEF Evidence, Learn, Goto, Memory, Known, Records, disk
      <4>3. t # Nil => files[NameOf[t]] = Whole(t)
        BY <4>2 DEF PriorDownload
      <4> QED
        BY <1>a, <1>e, <4>1, <4>2, <4>3 DEF KnowledgeOf, Present
    <3>8. CASE Download(p)
      <4>1. CASE Fails(p, "DOWNLOADING")
        BY <3>3, <4>1
      <4>2. CASE ~Fails(p, "DOWNLOADING")
        <5>1. ready'[p] = ready[p] /\ UNCHANGED files /\ pc[p] = "download"
          BY <3>8, <4>2 DEF Download, Looks, disk
        <5>2. CASE Conclude(p, loc[p], "DOWNLOADING")
          BY <1>a, <1>e, <3>2, <5>1, <5>2
        <5>3. CASE loc[p].rec.downloaded = turn /\ Conclude(p, loc[p], "MY_TURN_DOWNLOADED")
          <6>1. pc'[p] = "store" /\ loc'[p].rec = loc[p].rec /\ loc'[p].touched = loc[p].touched
            BY <1>a, <1>d, <5>3 DEF Conclude, Learn, Goto, Memory, Known
          <6>2. loc[p].rec.downloaded # Nil
            BY <1>a, <5>3, ReceiveAssumption DEF Contents
          <6>3. Present(loc[p], loc[p].rec.downloaded)
            BY <1>a, <5>1, <6>2 DEF KnowledgeOf
          <6> QED
            BY <1>a, <1>e, <5>1, <6>1, <6>2, <6>3 DEF KnowledgeOf, Present
        <5>4. CASE Learn(p, [loc[p] EXCEPT !.art = turn], "promote")
          <6>1. pc'[p] = "promote" /\ loc'[p].art = turn
            BY <1>a, <1>d, <5>4 DEF Learn, Goto, Memory, Known
          <6> QED
            BY <1>a, <1>e, <5>1, <6>1 DEF KnowledgeOf
        <5> QED
          BY <3>8, <4>2, <5>2, <5>3, <5>4 DEF Download
      <4> QED
        BY <4>1, <4>2
    <3>9. ASSUME ComparePresent(p), loc[p].art \in Turns PROVE KnowledgeOf(p)' /\ ReadyOf(p)'
      <4>1. ready'[p] = ready[p] /\ UNCHANGED files
        BY <3>9 DEF ComparePresent, Looks, disk
      <4>2. CASE Conclude(p, loc[p], "ERROR")
        BY <1>a, <1>e, <3>2, <4>1, <4>2
      <4>3. CASE ExactMatch(p) /\ Conclude(p, [loc[p] EXCEPT !.rec.downloaded = loc[p].art], "MY_TURN_DOWNLOADED")
        <5>1. pc'[p] = "store" /\ loc'[p].rec.downloaded = loc[p].art
          BY <1>a, <1>d, <4>3 DEF Conclude, Learn, Goto, Memory, Known, Records
        <5>2. files[NameOf[loc[p].art]] = Whole(loc[p].art) /\ loc[p].art # Nil
          BY <4>3, <3>9, ReceiveAssumption DEF ExactMatch, Destination, Contents
        <5> QED
          BY <1>a, <1>e, <4>1, <5>1, <5>2 DEF KnowledgeOf, Present
      <4> QED
        BY <3>9, <4>2, <4>3 DEF ComparePresent
    <3>10. ASSUME NEW label \in {"publish", "compare"}, Learn(p, loc[p], label), ready' = ready,
                  loc[p].art \in Turns
           PROVE  KnowledgeOf(p)' /\ ReadyOf(p)'
      <4>1. pc'[p] = label /\ loc'[p] = loc[p]
        BY <1>a, <3>10 DEF Learn, Goto, Memory
      <4> QED
        BY <1>a, <1>e, <3>10, <4>1 DEF KnowledgeOf
    <3>11. CASE Promote(p) \/ Compare(p) \/ Publish(p)
      <4>1. loc[p].art \in Turns
        BY <3>11, <1>a DEF Promote, Compare, Publish, KnowledgeOf
      <4> QED
        BY <3>3, <3>4, <3>9, <3>10, <3>11, <4>1 DEF Promote, Compare, Publish, Looks
    <3>12. CASE WriteMatchState(p)
      <4>1. CASE Raise(p)
        BY <3>4, <4>1
      <4>2. CASE ~Raise(p)
        <5>1. pc'[p] = "idle" /\ ready'[p] = Reported(loc[p]) /\ pc[p] = "store"
          BY <3>12, <4>2, <1>a DEF WriteMatchState, Learn, Goto, Memory
        <5>2. ASSUME Reported(loc[p]) # Nil
              PROVE  files'[NameOf[Reported(loc[p])]] = Whole(Reported(loc[p]))
          <6> DEFINE t == loc[p].rec.downloaded
          <6>1. Reported(loc[p]) = t /\ loc[p].out = "MY_TURN_DOWNLOADED" /\ NameOf[t] \notin loc[p].touched
            BY <5>2 DEF Reported
          <6>2. t \in Turns /\ Present(loc[p], t)
            BY <1>a, <1>d, <5>1, <6>1 DEF KnowledgeOf
          <6> QED
            BY <1>c, <6>1, <6>2
        <5> QED
          BY <5>1, <5>2 DEF KnowledgeOf, ReadyOf
      <4> QED
        BY <4>1, <4>2
    <3> QED
      BY <3>1, <3>5, <3>6, <3>7, <3>8, <3>11, <3>12 DEF RelayStep
  <2> QED
    BY <1>2, <2>0
<1> QED
  BY <1>1, <1>2

LEMMA KnowledgeKept == ASSUME RecvInv, [Next]_vars, Memory' PROVE Knowledge' /\ ReadyIsOnDisk'
<1> SUFFICES ASSUME NEW q \in Relays PROVE KnowledgeOf(q)' /\ ReadyOf(q)'
  BY DEF Knowledge, ReadyIsOnDisk, KnowledgeOf, ReadyOf
<1>a. Memory /\ KnowledgeOf(q) /\ ReadyOf(q)
  BY DEF RecvInv, TypeOK, Memory, Known, Knowledge, ReadyIsOnDisk, KnowledgeOf, ReadyOf
<1>1. CASE \E p \in Relays : RelayStep(p)
  BY <1>1, RelayKnows
<1>2. ASSUME NEW p \in Relays, Start(p) \/ Stop(p) PROVE KnowledgeOf(q)' /\ ReadyOf(q)'
  <2>1. UNCHANGED files /\ (q # p => pc'[q] = pc[q] /\ loc'[q] = loc[q] /\ ready'[q] = ready[q])
        /\ (q = p => pc'[q] \in {"off", "identity"} /\ ready'[q] \in {Nil, ready[q]})
    BY <1>2, <1>a DEF Start, Stop, Learn, Goto, Memory, disk
  <2> QED
    BY <1>a, <2>1 DEF KnowledgeOf, ReadyOf, Present
<1>3. ASSUME NEW name \in Names, UserChanges(name) PROVE KnowledgeOf(q)' /\ ReadyOf(q)'
  <2>1. pc' = pc /\ \A n \in Names \ {name} : files'[n] = files[n]
    BY <1>3 DEF UserChanges, Show, RecvInv, TypeOK, Paths
  <2>2. /\ loc'[q].rec = loc[q].rec /\ loc'[q].out = loc[q].out
        /\ loc'[q].turn = loc[q].turn /\ loc'[q].art = loc[q].art
        /\ pc[q] \in Reconciling => loc'[q].touched = loc[q].touched \cup {name}
    BY <1>3, <1>a DEF UserChanges, Memory, Known
  <2>3. loc[q].rec.downloaded \in Turns \cup {Nil} /\ ready[q] \in Turns \cup {Nil}
    BY <1>a DEF Memory, Known, Records
  <2>4. \A t \in Turns : NameOf[t] \in Names
    BY ReceiveAssumption DEF Turns
  <2>5. KnowledgeOf(q)'
    BY <1>a, <2>1, <2>2, <2>3, <2>4 DEF KnowledgeOf, Present, Reconciling
  <2>6. ready'[q] = IF ready[q] # Nil /\ NameOf[ready[q]] = name THEN Nil ELSE ready[q]
    BY <1>3 DEF UserChanges
  <2>7. ReadyOf(q)'
    BY <1>a, <2>1, <2>3, <2>4, <2>6 DEF ReadyOf
  <2> QED
    BY <2>5, <2>7
<1>4. CASE PowerLoss
  BY <1>4 DEF PowerLoss, KnowledgeOf, ReadyOf
<1>5. CASE HandOver \/ UNCHANGED vars
  <2>1. UNCHANGED <<files, pc, loc, ready>>
    BY <1>5 DEF HandOver, vars, disk, relay
  <2> QED
    BY <1>a, <2>1 DEF KnowledgeOf, ReadyOf, Present
<1> QED
  BY <1>1, <1>2, <1>3, <1>4, <1>5 DEF Next

-----------------------------------------------------------------------------
(* The theorems *)

LEMMA EntryTypes ==
  ASSUME NEW data, NEW kept \in SUBSET Kept(data) PROVE kept \subseteq EntryOf(data \cup {Torn})
BY DEF Kept, EntryOf

LEMMA TypeKept == ASSUME RecvInv, [Next]_vars PROVE TypeOK'
<1>1. Memory' /\ turn' \in Turns /\ owner' \in {"local", "other"}
  BY MemoryKept
<1>2. /\ DiskWhole' /\ DOMAIN files' = Paths /\ DOMAIN durable' = Paths
      /\ \A q \in Paths : files'[q] \in durable'[q]
  BY DiskKept
<1>3. /\ durable'[Installation] \subseteq EntryOf(ClientIds \cup {Torn})
      /\ durable'[MatchState] \subseteq EntryOf(Records \cup {Torn})
  BY <1>2, EntryTypes DEF DiskWhole
<1>4. \A name \in Names : durable'[name] \subseteq EntryOf(Contents)
  BY <1>2 DEF DiskWhole, Kept, EntryOf, Contents
<1> QED
  BY <1>1, <1>2, <1>3, <1>4 DEF TypeOK, Memory, Known

\* The types, whole files, the one identity and the reports hold together: what
\* is reported rests on files that nobody but the player and the power changes.
THEOREM Invariant == Spec => []RecvInv
<1>1. Init => RecvInv
  <2> SUFFICES ASSUME Init PROVE RecvInv
    OBVIOUS
  <2>a. Installation \in Paths /\ MatchState \in Paths /\ Names \subseteq Paths
    BY DEF Paths
  <2>1. \A q \in Paths : durable[q] = {Nil} /\ files[q] = Nil
    BY DEF Init
  <2>2. DiskWhole
    BY <2>a, <2>1 DEF DiskWhole, Kept
  <2>3. Memory
    BY NewReconcileType, ReceiveAssumption DEF Init, Memory, Labels
  <2>4. OneIdentity /\ Knowledge /\ ReadyIsOnDisk
    BY DEF Init, OneIdentity, Knowledge, ReadyIsOnDisk
  <2>5. turn \in Turns /\ owner \in {"local", "other"}
    BY ReceiveAssumption DEF Init, Turns
  <2>6. DOMAIN files = Paths /\ DOMAIN durable = Paths
    BY DEF Init
  <2>7. TypeOK
    BY <2>a, <2>1, <2>3, <2>5, <2>6 DEF TypeOK, Memory, Known, EntryOf
  <2> QED
    BY <2>2, <2>4, <2>7 DEF RecvInv
<1>2. RecvInv /\ [Next]_vars => RecvInv'
  BY TypeKept, DiskKept, MemoryKept, IdentityKept, KnowledgeKept DEF RecvInv
<1> QED
  BY <1>1, <1>2, PTL DEF Spec

\* Every state is well typed.
THEOREM TypeCorrect == Spec => []TypeOK
<1>1. RecvInv => TypeOK
  BY DEF RecvInv
<1> QED
  BY <1>1, Invariant, PTL

\* No name of the PBEM directory ever shows a part of a save.
THEOREM WholeSaves == Spec => []SavesWhole
<1>1. RecvInv => SavesWhole
  <2> SUFFICES ASSUME RecvInv, NEW name \in Names, files[name] # Nil PROVE files[name].data # Torn
    BY DEF SavesWhole
  <2>1. files[name] \in Kept(Turns \cup {Foreign})
    BY DEF RecvInv, TypeOK, DiskWhole, Paths
  <2> QED
    BY <2>1, ReceiveAssumption DEF Kept
<1> QED
  BY <1>1, Invariant, PTL

\* All Relays work under the identity that is on the disk.
THEOREM IdentityIsOne == Spec => []OneIdentity
<1>1. RecvInv => OneIdentity
  BY DEF RecvInv
<1> QED
  BY <1>1, Invariant, PTL

\* A turn reported as downloaded is on the disk as it was accepted.
THEOREM ReportsOnDisk == Spec => []ReadyIsOnDisk
<1>1. RecvInv => ReadyIsOnDisk
  BY DEF RecvInv
<1> QED
  BY <1>1, Invariant, PTL

\* No Relay changes a file that is in the PBEM directory.
THEOREM NothingOverwritten == Spec => NoFileOverwritten
<1>1. RecvInv /\ [Next]_vars
        => [(\E p \in Relays : RelayStep(p)) =>
              \A name \in Names : files[name] # Nil => files'[name] = files[name]]_vars
  BY FilesStay
<1> QED
  BY <1>1, Invariant, PTL DEF Spec, NoFileOverwritten

-----------------------------------------------------------------------------
(* The documents *)

\* What a step does to one path: nothing, a new entry, or a loss of power.
LEMMA PathChanges ==
  ASSUME RecvInv, [Next]_vars
  PROVE  /\ \/ files'[MatchState] = files[MatchState] /\ durable'[MatchState] = durable[MatchState]
            \/ \E rec \in Records : /\ files'[MatchState] = Whole(rec)
                                    /\ durable'[MatchState] = durable[MatchState] \cup {Whole(rec)}
            \/ /\ files'[MatchState] \in durable[MatchState]
               /\ durable'[MatchState] = {files'[MatchState]}
         /\ \/ /\ files'[Installation] = files[Installation]
               /\ durable'[Installation] = durable[Installation]
            \/ \E client \in ClientIds :
                 /\ files[Installation] = Nil /\ files'[Installation] = Whole(client)
                 /\ durable'[Installation] = durable[Installation] \cup {Whole(client)}
            \/ /\ files'[Installation] \in durable[Installation]
               /\ durable'[Installation] = {files'[Installation]}
<1>a. Installation \in Paths /\ MatchState \in Paths /\ Names \subseteq Paths
      /\ Installation # MatchState /\ Installation \notin Names /\ MatchState \notin Names
  BY ReceiveAssumption DEF Paths, Installation, MatchState
<1>b. DOMAIN files = Paths /\ DOMAIN durable = Paths
  BY DEF RecvInv, TypeOK
<1>1. CASE UNCHANGED disk
  BY <1>1 DEF disk
<1>2. ASSUME NEW name \in Names, NEW entry, Show(name, entry)
      PROVE  /\ files'[MatchState] = files[MatchState] /\ durable'[MatchState] = durable[MatchState]
             /\ files'[Installation] = files[Installation]
             /\ durable'[Installation] = durable[Installation]
  BY <1>a, <1>b, <1>2 DEF Show
<1>3. ASSUME NEW p \in Relays, RelayStep(p), ~UNCHANGED disk
      PROVE  \/ files[Installation] = Nil /\ Show(Installation, Whole(NewClientId(p)))
             \/ Show(MatchState, Whole(loc[p].rec))
             \/ \E name \in Names, entry \in {Whole(t) : t \in Turns} : Show(name, entry)
  BY <1>3, RelayWrites
<1>4. CASE \E p \in Relays : RelayStep(p)
  <2> PICK p \in Relays : RelayStep(p)
    BY <1>4
  <2>1. NewClientId(p) \in ClientIds /\ loc[p].rec \in Records
    BY DEF RecvInv, TypeOK, NewClientId, ClientIds
  <2>2. CASE files[Installation] = Nil /\ Show(Installation, Whole(NewClientId(p)))
    BY <1>a, <1>b, <2>1, <2>2 DEF Show
  <2>3. CASE Show(MatchState, Whole(loc[p].rec))
    BY <1>a, <1>b, <2>1, <2>3 DEF Show
  <2> QED
    BY <1>1, <1>2, <1>3, <2>2, <2>3
<1>5. CASE \E name \in Names : UserChanges(name)
  BY <1>2, <1>5 DEF UserChanges
<1>6. CASE PowerLoss
  <2>1. durable' = [q \in Paths |-> {files'[q]}]
    BY <1>6 DEF PowerLoss
  <2>2. files'[MatchState] \in durable[MatchState] /\ files'[Installation] \in durable[Installation]
    BY <1>6, <1>a, PowerBringsBack
  <2> QED
    BY <1>a, <2>1, <2>2
<1>7. CASE HandOver \/ UNCHANGED vars \/ \E p \in Relays : Start(p) \/ Stop(p)
  BY <1>1, <1>7 DEF HandOver, vars, Start, Stop
<1> QED
  BY <1>4, <1>5, <1>6, <1>7 DEF Next

LEMMA DataOfWhole ==
  ASSUME NEW data \in Records \cup ClientIds PROVE DataOf(Whole(data)) = data
<1>1. Whole(data) # Nil
  BY WholeIsThere
<1> QED
  BY <1>1 DEF DataOf, Whole, Entry

\* The match state implements the atomic document: a step maps to a write, a
\* loss of power, or nothing.
THEOREM StateRefines == Spec => StateIsAtomic
<1>1. Init => StateDocument!DocInit
  BY DEF Init, StateDocument!DocInit, DataOf, Paths
<1>2. RecvInv /\ [Next]_vars => [StateDocument!DocNext]_(StateDocument!docVars)
  <2> SUFFICES ASSUME RecvInv, [Next]_vars
               PROVE  [StateDocument!DocNext]_(StateDocument!docVars)
    OBVIOUS
  <2> USE DEF StateDocument!docVars, StateDocument!DocNext, StateDocument!Write, StateDocument!LosePower
  <2>1. CASE files'[MatchState] = files[MatchState] /\ durable'[MatchState] = durable[MatchState]
    BY <2>1
  <2>2. CASE \E rec \in Records : /\ files'[MatchState] = Whole(rec)
                                  /\ durable'[MatchState] = durable[MatchState] \cup {Whole(rec)}
    BY <2>2, DataOfWhole
  <2>3. CASE /\ files'[MatchState] \in durable[MatchState]
             /\ durable'[MatchState] = {files'[MatchState]}
    BY <2>3
  <2> QED
    BY <2>1, <2>2, <2>3, PathChanges
<1> QED
  BY <1>1, <1>2, Invariant, PTL DEF Spec, StateIsAtomic, StateDocument!DocSpec

\* The identity implements the atomic document that is published once.
THEOREM IdentityRefines == Spec => IdentityIsAtomic
<1>1. Init => IdentityDocument!DocInit
  BY DEF Init, IdentityDocument!DocInit, DataOf, Paths
<1>2. RecvInv /\ [Next]_vars => [IdentityDocument!DocNext]_(IdentityDocument!docVars)
  <2> SUFFICES ASSUME RecvInv, [Next]_vars
               PROVE  [IdentityDocument!DocNext]_(IdentityDocument!docVars)
    OBVIOUS
  <2> USE DEF IdentityDocument!docVars, IdentityDocument!DocNext, IdentityDocument!Write,
              IdentityDocument!LosePower
  <2>1. CASE /\ files'[Installation] = files[Installation]
             /\ durable'[Installation] = durable[Installation]
    BY <2>1
  <2>2. CASE \E client \in ClientIds :
               /\ files[Installation] = Nil /\ files'[Installation] = Whole(client)
               /\ durable'[Installation] = durable[Installation] \cup {Whole(client)}
    BY <2>2, DataOfWhole DEF DataOf
  <2>3. CASE /\ files'[Installation] \in durable[Installation]
             /\ durable'[Installation] = {files'[Installation]}
    BY <2>3
  <2> QED
    BY <2>1, <2>2, <2>3, PathChanges
<1> QED
  BY <1>1, <1>2, Invariant, PTL DEF Spec, IdentityIsAtomic, IdentityDocument!DocSpec
=============================================================================
