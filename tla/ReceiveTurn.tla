---------------------------- MODULE ReceiveTurn ----------------------------
(***************************************************************************)
(* How a turn reaches the disk of its player: the identity of the          *)
(* installation, the records of the match, and the download, the           *)
(* verification and the promotion of the accepted save into the PBEM       *)
(* directory (local/json_store.py, local/store.py, local/promote.py,       *)
(* local/download_validate.py, protocol/download.py and that part of       *)
(* local/reconcile.py).                                                    *)
(*                                                                         *)
(* Several Relays of one user share the files. One action is what a Relay  *)
(* does up to the next look at shared files or the storage; in between the *)
(* manifest, the files and the other Relays move on, the Relay may stop.   *)
(* A temporary file has a name of its own that nobody looks for, so it is  *)
(* part of the step that gives it its final name. When the power fails,    *)
(* contents that were not synchronized are torn, and each name may show    *)
(* again what it showed before, since no directory is synchronized.        *)
(* It begins with the first save, made by the other player.                *)
(***************************************************************************)
EXTENDS Naturals

CONSTANTS
  Relays,        \* running copies of Relay
  Names,         \* file names of saves in the PBEM directory
  NameOf,        \* original_filename of the save that begins each turn
  Nil,           \* no value (None), no file
  Torn,          \* contents of a file that was not written to its end
  Foreign,       \* contents of a file that Relay has not downloaded
  MaxTurn,       \* bound: protocol_sequence
  MaxTroubles    \* bound: failing calls to the storage or the disk, stops of a
                 \* Relay, losses of power, and files the player changes

Installation == "installation.json"
MatchState   == "state.json"
Paths        == {Installation, MatchState} \cup Names

Turns == 1..MaxTurn

\* The save that begins turn t is told from every other by its hash.
Contents == Turns \cup {Torn, Foreign}

\* MatchLocalRecords: the turn of downloaded_save; verified_remote and the rest
\* are not read where a turn is received.
Records == [downloaded : Turns \cup {Nil}]

\* The UUIDs that starts of a Relay draw.
ClientIds == Relays \X Nat

\* The directories of saves and of Relay's own documents are different ones.
ASSUME ReceiveAssumption ==
  /\ MaxTurn \in Nat \ {0} /\ NameOf \in [1..MaxTurn -> Names]
  /\ MaxTroubles \in Nat
  /\ {Installation, MatchState} \cap Names = {}
  /\ Torn # Foreign /\ Torn \notin Turns \cup Records \cup ClientIds
  /\ Nil \notin Contents \cup Records \cup ClientIds
  /\ Nil \notin [data : Contents \cup Records \cup ClientIds, synced : BOOLEAN]

VARIABLES
  turn, owner,   \* the manifest: protocol_sequence and current_player_id
  files,         \* what the file system shows: each path's entry
  durable,       \* what it may show of each path after a loss of power
  id,            \* client_id a Relay works with
  pc, loc,       \* the step of each Relay and what its reconcile knows
  ready,         \* the turn it has reported as downloaded, until the player
                 \* changes the file
  troubles       \* what is left of the bound

remote == <<turn, owner>>
disk   == <<files, durable>>
relay  == <<id, pc, loc, ready>>
vars   == <<remote, disk, relay, troubles>>

EmptyRecords == [downloaded |-> Nil]

Entry(data, synced) == [data |-> data, synced |-> synced]

Whole(data) == Entry(data, TRUE)

NewReconcile ==
  [rec  |-> EmptyRecords,  \* records, as they will be stored
   turn |-> Nil,           \* protocol_sequence of the manifest that was read
   art  |-> Nil,           \* the turn whose save was verified
   out  |-> Nil,           \* operational_state
   touched |-> {}]         \* names the player has changed since it began

Init ==
  /\ turn = 1 /\ owner = "local"
  /\ files = [path \in Paths |-> Nil] /\ durable = [path \in Paths |-> {Nil}]
  /\ id = [p \in Relays |-> Nil]
  /\ pc = [p \in Relays |-> "off"]
  /\ loc = [p \in Relays |-> NewReconcile]
  /\ ready = [p \in Relays |-> Nil]
  /\ troubles = MaxTroubles

-----------------------------------------------------------------------------
(* The file system, as json_store.py and promote.py call it *)

Trouble == troubles > 0 /\ troubles' = troubles - 1

NoTrouble == UNCHANGED troubles

Goto(p, label) == pc' = [pc EXCEPT ![p] = label]

\* Seeded fault: the temporary file is not synchronized.
TemporaryFile_NoFsync(data) == Entry(data, FALSE)

\* open, _write_fsync: complete and on the disk before it gets its name.
TemporaryFile(data) == Entry(data, TRUE)

\* The directory shows the entry from now on; the disk follows some time.
Show(path, entry) ==
  /\ files' = [files EXCEPT ![path] = entry]
  /\ durable' = [durable EXCEPT ![path] = @ \cup {entry}]

AtomicWriteBytes(path, data) == Show(path, TemporaryFile(data))

\* Seeded fault: publication replaces what is there.
PublishNoReplace_Replaces(path, data) == AtomicWriteBytes(path, data)

\* publish_no_replace: a name that exists is left alone.
PublishNoReplace(path, data) ==
  IF files[path] = Nil THEN Show(path, TemporaryFile(data)) ELSE UNCHANGED disk

-----------------------------------------------------------------------------
(* get_or_create_installation_identity *)

Start(p) ==
  /\ pc[p] = "off" /\ Goto(p, "identity")
  /\ UNCHANGED <<remote, disk, id, loc, ready, troubles>>

\* Relay does not come up; the player starts it again.
StartFails(p) ==
  /\ Trouble /\ Goto(p, "off")
  /\ UNCHANGED <<remote, disk, id, loc, ready>>

\* _try_read_installation: a document that is not valid is an error.
TryReadInstallation(p, absent) ==
  /\ NoTrouble
  /\ IF files[Installation] = Nil THEN Goto(p, absent) /\ UNCHANGED id
     ELSE IF files[Installation].data = Torn THEN Goto(p, "off") /\ UNCHANGED id
     ELSE id' = [id EXCEPT ![p] = files[Installation].data] /\ Goto(p, "idle")
  /\ UNCHANGED <<remote, disk, loc, ready>>

ReadIdentity(p) ==
  /\ pc[p] = "identity"
  /\ TryReadInstallation(p, "create") \/ StartFails(p)

\* A UUID: no two starts draw the same.
NewClientId(p) == <<p, troubles>>

\* Seeded fault: the own identity is used although another was published.
CreateIdentity_OwnCandidate(p) ==
  /\ pc[p] = "create" /\ NoTrouble /\ PublishNoReplace(Installation, NewClientId(p))
  /\ id' = [id EXCEPT ![p] = NewClientId(p)] /\ Goto(p, "idle")
  /\ UNCHANGED <<remote, loc, ready>>

\* atomic_publish_no_replace_bytes
CreateIdentity(p) ==
  /\ pc[p] = "create"
  /\ \/ /\ NoTrouble /\ PublishNoReplace(Installation, NewClientId(p))
        /\ IF files[Installation] = Nil
           THEN id' = [id EXCEPT ![p] = NewClientId(p)] /\ Goto(p, "idle")
           ELSE Goto(p, "winner") /\ UNCHANGED id
        /\ UNCHANGED <<remote, loc, ready>>
     \/ StartFails(p)

\* Another Relay's identity was there first, and is this one's too.
ReadWinner(p) ==
  /\ pc[p] = "winner"
  /\ TryReadInstallation(p, "off") \/ StartFails(p)

-----------------------------------------------------------------------------
(* reconcile_match, where it receives a turn *)

Learn(p, new, label) == loc' = [loc EXCEPT ![p] = new] /\ Goto(p, label)

\* The reconcile ends with the state it stores and reports.
Conclude(p, new, state) ==
  Learn(p, [new EXCEPT !.turn = Nil, !.art = Nil, !.out = state], "store")

\* A call fails; the reconcile goes on to store what came of it.
Fails(p, state) ==
  /\ Trouble /\ Conclude(p, loc[p], state)
  /\ UNCHANGED <<remote, disk, id, ready>>

\* An exception leaves reconcile_match: nothing is stored or reported.
Raise(p) ==
  /\ Trouble /\ Learn(p, NewReconcile, "idle")
  /\ UNCHANGED <<remote, disk, id, ready>>

\* What a step that only looks leaves alone.
Looks == UNCHANGED <<remote, disk, id, ready, troubles>>

\* A torn document is an error of every reconcile: the match stands still.
LoadMatchState(p) ==
  /\ pc[p] = "idle"
  /\ \/ /\ IF files[MatchState] = Nil
           THEN Learn(p, NewReconcile, "manifest")
           ELSE /\ files[MatchState].data # Torn
                /\ Learn(p, [NewReconcile EXCEPT !.rec = files[MatchState].data], "manifest")
        /\ ready' = [ready EXCEPT ![p] = Nil]
        /\ UNCHANGED <<remote, disk, id, troubles>>
     \/ Raise(p)

ReadManifest(p) ==
  /\ pc[p] = "manifest"
  /\ LET read == [loc[p] EXCEPT !.turn = turn]
     IN \/ /\ Looks
           /\ IF owner = "other" THEN Conclude(p, read, "WAITING_FOR_OTHER_PLAYER")
              ELSE Learn(p, read, "evidence")
        \/ Fails(p, "ERROR")

\* Seeded fault: the record is believed without a look at the file.
PriorDownload_RecordOnly(rec, t) == IF rec.downloaded = t THEN t ELSE Nil

\* validated_prior_download_evidence: the record is of the turn that was read
\* and the file it names still has the contents.
PriorDownload(rec, t) ==
  IF rec.downloaded = t /\ files[NameOf[t]] = Whole(t) THEN t ELSE Nil

\* Without evidence the record is dropped. A file that cannot be read is none.
Evidence(p) ==
  /\ pc[p] = "evidence"
  /\ LET keep(t) == [loc[p] EXCEPT !.rec.downloaded = t]
     IN \/ Learn(p, keep(PriorDownload(loc[p].rec, loc[p].turn)), "download") /\ NoTrouble
        \/ Learn(p, keep(Nil), "download") /\ Trouble
  /\ UNCHANGED <<remote, disk, id, ready>>

\* download_accepted_save reads the manifest once more. What it reads of the
\* save is the save, or is refused for its size or its hash.
Download(p) ==
  /\ pc[p] = "download"
  /\ \/ /\ Looks
        /\ IF owner = "other" THEN Conclude(p, loc[p], "DOWNLOADING")
           ELSE IF loc[p].rec.downloaded = turn
           THEN Conclude(p, loc[p], "MY_TURN_DOWNLOADED")
           ELSE Learn(p, [loc[p] EXCEPT !.art = turn], "promote")
     \/ Fails(p, "DOWNLOADING")

-----------------------------------------------------------------------------
(* promote_verified_download *)

Destination(p) == NameOf[loc[p].art]

\* Seeded fault: a file of the name counts as the save.
ExactMatch_ByName(p) == files[Destination(p)] # Nil

\* _exact_match
ExactMatch(p) == files[Destination(p)] = Whole(loc[p].art)

\* PROMOTED or ALREADY_PRESENT, else CONFLICT or VERIFY_FAILURE.
ComparePresent(p) ==
  /\ Looks
  /\ IF ExactMatch(p)
     THEN Conclude(p, [loc[p] EXCEPT !.rec.downloaded = loc[p].art], "MY_TURN_DOWNLOADED")
     ELSE Conclude(p, loc[p], "ERROR")

\* The destination is looked at, and the save written to a temporary file.
Promote(p) ==
  /\ pc[p] = "promote"
  /\ \/ files[Destination(p)] # Nil /\ ComparePresent(p)
     \/ files[Destination(p)] = Nil /\ Looks /\ Learn(p, loc[p], "publish")
     \/ Fails(p, "ERROR")

\* An error of publish_no_replace is a LocalStoreIOError, no OSError, and so
\* not an outcome of the promotion.
Publish(p) ==
  /\ pc[p] = "publish"
  /\ \/ /\ NoTrouble /\ PublishNoReplace(Destination(p), loc[p].art)
        /\ Learn(p, loc[p], "compare")
        /\ UNCHANGED <<remote, id, ready>>
     \/ Raise(p)

\* The published file is read again. Where another writer won its file is
\* compared, never replaced.
Compare(p) ==
  /\ pc[p] = "compare"
  /\ ComparePresent(p) \/ Fails(p, "ERROR")

-----------------------------------------------------------------------------
\* What the result says of the PBEM directory, unless it is out of date.
Reported(known) ==
  LET t == known.rec.downloaded
  IN IF known.out = "MY_TURN_DOWNLOADED" /\ NameOf[t] \notin known.touched THEN t ELSE Nil

WriteMatchState(p) ==
  /\ pc[p] = "store"
  /\ \/ /\ NoTrouble /\ AtomicWriteBytes(MatchState, loc[p].rec)
        /\ Learn(p, NewReconcile, "idle")
        /\ ready' = [ready EXCEPT ![p] = Reported(loc[p])]
        /\ UNCHANGED <<remote, id>>
     \/ Raise(p)

RelayStep(p) ==
  \/ ReadIdentity(p) \/ CreateIdentity(p) \/ ReadWinner(p)
  \/ LoadMatchState(p) \/ ReadManifest(p) \/ Evidence(p) \/ Download(p)
  \/ Promote(p) \/ Publish(p) \/ Compare(p) \/ WriteMatchState(p)

-----------------------------------------------------------------------------
(* The surroundings *)

\* A handoff of the local player, by this or another installation, and one of
\* the other players.
HandOver ==
  /\ turn < MaxTurn /\ turn' = turn + 1
  /\ owner' = IF owner = "local" THEN "other" ELSE "local"
  /\ UNCHANGED <<disk, relay, troubles>>

Stop(p) ==
  /\ pc[p] # "off" /\ Trouble /\ Learn(p, NewReconcile, "off")
  /\ id' = [id EXCEPT ![p] = Nil] /\ ready' = [ready EXCEPT ![p] = Nil]
  /\ UNCHANGED <<remote, disk>>

\* Of contents that were not synchronized only a part is on the disk.
Survives(entry) ==
  IF entry = Nil \/ entry.synced THEN entry ELSE Whole(Torn)

PowerLoss ==
  /\ Trouble
  /\ \E identity \in durable[Installation], records \in durable[MatchState],
        saves \in {f \in [Names -> UNION {durable[name] : name \in Names}] :
                     \A name \in Names : f[name] \in durable[name]} :
       files' = [path \in Paths |-> Survives(CASE path = Installation -> identity
                                               [] path = MatchState -> records
                                               [] path \in Names -> saves[path])]
  /\ durable' = [path \in Paths |-> {files'[path]}]
  /\ pc' = [p \in Relays |-> "off"] /\ loc' = [p \in Relays |-> NewReconcile]
  /\ id' = [p \in Relays |-> Nil] /\ ready' = id'
  /\ UNCHANGED remote

Reconciling ==
  {"manifest", "evidence", "download", "promote", "publish", "compare", "store"}

\* The player, or Civilization, removes a file or saves under its name.
UserChanges(name) ==
  /\ Trouble
  /\ \E entry \in {Nil, Whole(Foreign)} \ {files[name]} :
       Show(name, entry)
  /\ loc' = [p \in Relays |-> IF pc[p] \in Reconciling
                              THEN [loc[p] EXCEPT !.touched = @ \cup {name}] ELSE loc[p]]
  /\ ready' = [p \in Relays |-> IF ready[p] # Nil /\ NameOf[ready[p]] = name
                                THEN Nil ELSE ready[p]]
  /\ UNCHANGED <<remote, id, pc>>

Next ==
  \/ \E p \in Relays : Start(p) \/ RelayStep(p) \/ Stop(p)
  \/ \E name \in Names : UserChanges(name)
  \/ HandOver \/ PowerLoss

Spec == Init /\ [][Next]_vars

\* The player starts Relay again, and the worker polls for ever.
Fairness == \A p \in Relays : WF_vars(Start(p)) /\ WF_vars(RelayStep(p))

FairSpec == Spec /\ Fairness

-----------------------------------------------------------------------------
(* Properties *)

Labels == {"off", "identity", "create", "winner", "idle"} \cup Reconciling

States ==
  {"WAITING_FOR_OTHER_PLAYER", "DOWNLOADING", "MY_TURN_DOWNLOADED", "ERROR"}

EntryOf(data) == {Nil} \cup [data : data, synced : BOOLEAN]

\* The types of the state; the installation document holds an identity, the
\* match state its records, and a name in the PBEM directory a save.
TypeOK ==
  /\ turn \in Turns /\ owner \in {"local", "other"}
  /\ DOMAIN files = Paths /\ DOMAIN durable = Paths
  /\ durable[Installation] \subseteq EntryOf(ClientIds \cup {Torn})
  /\ durable[MatchState] \subseteq EntryOf(Records \cup {Torn})
  /\ \A name \in Names : durable[name] \subseteq EntryOf(Contents)
  /\ \A path \in Paths : files[path] \in durable[path]
  /\ id \in [Relays -> ClientIds \cup {Nil}] /\ pc \in [Relays -> Labels]
  /\ loc \in [Relays -> [rec : Records, turn : Turns \cup {Nil}, art : Turns \cup {Nil},
                         out : States \cup {Nil}, touched : SUBSET Names]]
  /\ ready \in [Relays -> Turns \cup {Nil}] /\ troubles \in Nat

\* Whatever stops, fails or loses power, nothing that carries the name of a
\* save is an incomplete file: Civilization never loads half a save.
SavesWhole == \A name \in Names : files[name] # Nil => files[name].data # Torn

\* Relays that are started at the same time, stopped and started again all work
\* under the one identity that is on the disk; two of them would take each
\* other's lock and journal for a stranger's.
OneIdentity ==
  \A p \in Relays : id[p] # Nil => files[Installation] = Whole(id[p])

\* A turn reported as downloaded is there under its name, as it was accepted,
\* until the player changes the file.
ReadyIsOnDisk ==
  \A p \in Relays : ready[p] # Nil => files[NameOf[ready[p]]] = Whole(ready[p])

\* No step of a Relay changes a file of the PBEM directory that is there: what
\* the player or Civilization put under a name is never overwritten.
NoFileOverwritten ==
  [][(\E p \in Relays : RelayStep(p)) =>
       \A name \in Names : files[name] # Nil => files'[name] = files[name]]_vars

DataOf(entry) == IF entry = Nil THEN Nil ELSE entry.data

StateDocument == INSTANCE AtomicDocument WITH
  Documents <- Records, Nothing <- Nil, Replaceable <- TRUE,
  value <- DataOf(files[MatchState]), kept <- {DataOf(e) : e \in durable[MatchState]}

IdentityDocument == INSTANCE AtomicDocument WITH
  Documents <- ClientIds, Nothing <- Nil, Replaceable <- FALSE,
  value <- DataOf(files[Installation]), kept <- {DataOf(e) : e \in durable[Installation]}

\* The records of the match are an atomic document: a write that fails or is
\* interrupted leaves the previous records, and nobody ever reads a part.
StateIsAtomic == StateDocument!DocSpec

\* The identity is an atomic document that is written once.
IdentityIsAtomic == IdentityDocument!DocSpec

Received(t) ==
  /\ files[MatchState] # Nil /\ files[MatchState].data.downloaded = t
  /\ files[NameOf[t]] = Whole(t)

\* Another file has the name of the save; only the player can resolve it.
Conflict(t) == files[NameOf[t]] \notin {Nil, Whole(t)}

\* Once the match and its surroundings rest, a turn of the local player is on
\* the disk and in the records for good, whatever stop, failed call or loss of
\* power came before, unless another file has its name.
TurnReceived == <>[](owner = "local" => Received(turn) \/ Conflict(turn))
=============================================================================
