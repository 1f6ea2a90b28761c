# Verification of civ4-turn-relay

civ4-turn-relay passes the saves of a Civilization IV play-by-mail match between
the players' computers. Every installation ("client") runs the same desktop
program. The match lives in one directory of an SFTP server that all clients can
write; there is no server program. `manifest.json` in that directory says whose
turn it is and which saves were accepted; a client that finished its turn takes
the *upload lock*, uploads the save, archives the old manifest and replaces the
manifest. In *fully managed* mode the client also starts Civilization when a turn
arrives, recognises the save the player made, sends it and terminates
Civilization afterwards.

Everything that makes this hard to test is in this project's scope: clients that
interleave on a storage without transactions, calls whose answer is lost, torn
writes, clients that stop between any two calls, a user, a poll timer, a file
watcher and a game process that act on the same records, and the launch of a
program that several Relays on one computer must not start twice.

The modules are TLA+; TLC checks them on small instances and TLAPS checks the
proofs. Paths below are relative to `src/src/civ4_turn_relay/` unless they start
with `docs/` (which is `src/docs/`).

## 1. Inventory

| Component | State it keeps | Operations | Modelled in |
|---|---|---|---|
| Handoff protocol (`protocol/handoff.py`, `hash_classify.py`, `players.py`) | `manifest.json`, `saves/`, `history/`, `temporary/` on the storage | `commit_handoff` and its steps | `Handoff`, `HashClassify`; promises: `TurnLedger`, to the caller `HandoffPort` |
| Upload lock (`protocol/lock.py`) | directory `locks/upload.lock/` and its `lock.json` | acquire, resume, ownership check, release, confirmed repair | `Handoff` |
| Cleanup (`protocol/cleanup.py`) | none | sweep of `temporary/` | `Handoff` |
| Durable journal (`local/journal.py`, `protocol/journal.py`) | operation in progress, attempted and accepted hashes | begin, record, clear | `Handoff`, `TurnCycle` (abstracted) |
| Match initialization (`protocol/initialize.py`) | root and subdirectories, first manifest | `initialize_match`, `initialize_or_join` | `MatchInit` |
| Turn cycle (`local/reconcile.py`, `orchestrate.py`, `detect.py`, `handoff_evidence.py`, `app/relay_client.py`, `app/process_runtime.py`) | durable records of a match (verified turn, baseline, candidate, association, pending close, launch attempt, journal) and the session in memory | tick, reconcile, handoff, launch, close, user requests, restart | `TurnCycle` |
| Launch guard and supervision (`process/guard.py`, `windows.py`) | a named mutex of the system, running processes | guarded launch, probe, terminate | `LaunchGuard` (launch), promise: `GuardedLaunch`; answers in `TurnCycle` |
| UI worker and quit flow (`ui/controller.py`, `ui/app.py`) | worker thread, queues, busy flags, quit gate | dispatch, poll, finish, shutdown | `WorkerHub` |
| File watching (`fs/`) | observer threads, the poller's last scan, the dirty flag of a session | start, fall back, poll, report an event, stop | `FileWatch`; with the threads of the program: `RelayThreads`; an event in `TurnCycle` |
| Download and promotion (`protocol/download.py`, `local/download_validate.py`, `local/promote.py`) | downloaded bytes, the file in the PBEM directory | evidence, download, verify, promote, compare | `ReceiveTurn`; one outcome in `TurnCycle` |
| Local store (`local/json_store.py`, `store.py`, `records.py`) | `installation.json`, `state.json` of a match | atomic replacement, publication without replacing | `ReceiveTurn`; promise: `AtomicDocument` |
| Storage adapters (`storage/port.py`, `paramiko_sftp.py`, `errors.py`) | the connection, the probed capabilities | connect, probe, the nine calls of the port | `SftpStorage`; promise: `StoragePort` |
| Values (`domain/`) | none | parsing, validation | rules of the manifest in `Handoff` |
| Launch command, configuration loading, windows, dialogs, tray, test doubles | none of the core | | not modelled |

How they interact:

- The GUI thread posts commands to the worker thread (`RelayWorkerHub` ->
  `MatchWorker`); the worker calls `RelayClient` for a command or, on a timer,
  `tick` for every open match, and reports by signals.
- `RelayClient.tick` probes the process, reconciles, acts on the intents of the
  reconciliation (send, launch, terminate), reconciling again after each of them.
- `reconcile_match` reads the manifest, recovers the journal, downloads the save,
  looks for a new save in the PBEM directory and writes the durable records.
- `execute_handoff` runs `commit_handoff` against the storage, which other clients
  use at the same time.
- `attempt_launch` runs the guarded launch, which other Relays on the computer run
  too.
- Every call of the protocol goes through the storage port; the SFTP adapter turns
  it into checks, a request and a second look on one connection.
- The observer threads of the PBEM directories set a flag that the worker reads and
  clears; the worker's polls replace an observer that died.

What is hard, and the property that makes the component correct:

- *Handoff*: many calls, each of which may fail, be applied without an answer, or
  leave torn bytes, with crashes and other clients in between. The match must stay
  a ledger: one owner of the lock, a manifest that is always whole and only grows,
  every accepted save stored, nobody told of a turn that was not accepted.
- *Match initialization*: several clients create the same tree; nobody may reset
  a match or report one that is not there.
- *Turn cycle*: durable records, memory, files and processes fall out of step.
  Only proven commits may lead to a termination, candidates must be new, a turn is
  launched once, and it is eventually launched unless its one attempt is spent.
- *Launch guard*: check and spawn of several Relays, crashes of the holder.
- *Download and promotion*: Relays that share a disk, power that fails between a
  write and its synchronization, a player who puts a file under the same name. No
  half save may carry the name of a save, no file of the player may be overwritten,
  and what is reported as received must be there.
- *Storage adapter*: an answer that is lost, or an error that has to be explained by
  a second look while another client acts. An answer may not say more than what the
  call did, since `Handoff` builds on it.
- *File watching*: the observer dies, events are lost, the flag is cleared while a
  change is coming in. Every change must still be seen.
- *Worker*: two threads, nested quit questions, a join with a timeout. The client
  is never closed in use and no match stays busy for ever.

`PROJECT.json` lists the hazards line by line with the properties that cover them.

## 2. Modules

| Module | What it is |
|---|---|
| `HashClassify` | `classify_candidate_hash` and the player order as operators |
| `TurnLedger` | abstract specification: a ledger of accepted saves in turn order |
| `Handoff` | the handoff, the lock, its repair, the sweep, crash recovery |
| `HandoffProofs` | proofs about `Handoff` |
| `HandoffPort` | abstract specification: one handoff as its caller sees it |
| `HandoffCall`, `HandoffCallProofs` | `Handoff` with a history variable for each call, and the proof that it implements `HandoffPort` |
| `MatchInit`, `MatchInitProofs` | initialization of a match, and its proofs |
| `GuardedLaunch` | abstract specification: one launch as its caller sees it |
| `LaunchGuard`, `LaunchGuardProofs` | the guarded launch, and its proofs |
| `TurnCycle`, `TurnCycleProofs` | one installation through its turns, and the proofs |
| `WorkerHub` | the two threads of the desktop program |
| `FileWatch` | how the change of a directory becomes a reconcile |
| `RelayThreads` | `WorkerHub` and `FileWatch` composed |
| `WorkerHubProofs` | proofs about `WorkerHub`, and that `RelayThreads` implements it |
| `AtomicDocument` | abstract specification: a document written at once |
| `ReceiveTurn`, `ReceiveTurnProofs` | identity, records, download and promotion, and the proofs |
| `StoragePort` | abstract specification: a call of the storage and its answer |
| `SftpStorage`, `SftpStorageProofs` | the SFTP adapter, and its proofs |
| `MC*` | instances for TLC; one `.cfg` per run |

How they rely on each other (`implements` is checked and proved, `is the step` is how
the abstraction was chosen): `SftpStorage` implements `StoragePort`, whose answers are
the ones `Handoff` and `MatchInit` let a call have; `Handoff` implements `TurnLedger`
and, call by call, `HandoffPort`, which is what `TurnCycle` takes for granted in its one
step `CommitHandoff`; `LaunchGuard` implements `GuardedLaunch`, which is what
`TurnCycle` takes for granted in its steps `Launch` and `Defer`; `ReceiveTurn` is its
step `LookedAt`, and its documents implement `AtomicDocument`, which justifies records
that change at once everywhere else; `RelayThreads` is the thread in which all of it
runs.

Definitions named `X_Something` with a comment "Seeded fault" are variants of `X`
that a plausible mistake in the code would give. No specification uses them; each
one shows that a property would notice the mistake.

### 2.1 Handoff

Variables are the files of the match directory, the durable journal of each
client, the position (`pc`) and local values of each running `execute_handoff`,
and the two administrative operations. One action is one storage call that
changes something, or one durable journal write; a crash or another client can
come between any two. `PlayerOrder` and `PlayerOf` give the humans and the
installation's player; one player may have several installations.

`ExecuteHandoff` starts or retries (taking up the journal's operation id, as
`relay_client.py:549-569` does), then the lock (`AcquireMkdir`, `lock.json`,
`ResumeExistingLock`), the journal entry, the classification under the lock, the
staged upload and its publication, the archive, the temporary manifest, the last
ownership check, the atomic replacement, the reconciliation of an uncertain
commit, and the release. `Reconcile` is the recovery of the journal in
`reconcile.py`.

Modelling decisions:

- A failing call may have been applied or not; writes in place may leave `Torn`
  content, since the SFTP adapter writes without a rename of its own. A publish or
  mkdir whose answer was lost can come back as "already exists", which the code
  treats as a reuse.
- Reads are merged with the neighbouring mutating call where only the operation
  itself writes the object (its temporary files) or where the object never changes
  once written (published saves). Inspecting the lock is one step; the removal of a
  lock goes through "directory without `lock.json`", so each answer the code can
  compose from its two reads is also one of a single instant.
- Silent damage of a write is modelled where the code reads back (save, archive).
  The temporary manifest is not read back; a write of it that succeeds is taken to
  have stored its bytes. That assumption is listed as a hazard.
- `CarefulRepair = TRUE` says that whoever confirms "the original client is
  stopped" tells the truth. The run `repair` uses it, and its seeded fault is
  exactly the untruthful confirmation, which loses turns.
- `TurnLedger` promises something about the match; `HandoffPort` about one call.
  Between a call's `Begin` and `Return` its save is accepted at most once, by that call,
  in its player's turn and after it was noted in the journal. `COMMITTED` is said only of a
  save this call had accepted, an acknowledgment only of one in the manifest, a refusal
  or a held lock only where this call had nothing accepted; each of the first and of the
  refusals leaves no note. `TRANSPORT_FAILURE` and `LOCK_CLEANUP_AMBIGUOUS` say nothing,
  and then the note of an accepted save stays, over a stop too, until the ledger ends with
  that save. Once others have gone on, the storage no longer tells what one call did; so
  `HandoffCall` adds the history variable `did` to `Handoff`, which no step reads.
- A save is its hash. Not modelled: missing capabilities of the server, objects of
  the wrong kind, requests of a dead client still under way in the network,
  collisions of the 12 digits of the operation id, timestamps.

### 2.2 TurnCycle

A two-player match seen from one installation. `rec` is what is on disk, `ses`
what is in memory and lost when Relay stops, `files` the PBEM directory, `alive`
the Civilization processes, `hashes`/`cur` the manifest. One action is one
reconcile, one handoff or one call of the supervisor; `pc` and `call` say where
the handler goes on, and Civilization, the user, the other player and a stop of
Relay come between them. `game`, `made` and `ses.auto` are ghosts: what a process
was started for, in which turn a save was made, and for which turns polling made the
launch that it counts in `auto_launch_attempted_key`.

The mode is drawn at the start (`Modes`). `EditMatch` changes it while the match is
open: `open_match` of the worker stores the configuration, keeps the session that exists
and ticks at once, and an error leaves the match as it is. What the fully managed
mode left in the records or the session meets standard mode this way, and the other
way round. A command that raises shows a snapshot all the same, a poll that raises
does not (`RaiseError`).

A handoff is one step here because `Handoff` has its steps; the journal it leaves
when refused or failed is nondeterministic over what those steps leave. The two
manifest reads of a reconcile are one. A reused pid counts as not running, as in
`observation_matches_association`. A file looks stable when nobody writes it;
observing one often enough is nondeterministic. A save and a process name are used
once, which bounds the number of turns. Failing writes of the local store are left
out.

The observers of the file watcher always run, so a file event may set the dirty flag at
any time and any snapshot may reconcile, whatever the last reconcile left of the flag (in
every run; a command shows one snapshot or two, so at most two reconciles of this kind
follow a tick).

What a reconcile makes durable comes in two parts: the journal is cleared on disk as soon
as its operation is attributed, the records that follow from it are written at the end. A
stop or a lost connection in between leaves the first without the second
(`JournalCleared`, in `RelayStops` and `ReconcileFailed`). What the recovery of the journal
has proved, with a read of the manifest of its own, is kept even when the read of the
reconcile finds an unusable text (`Recovered`).

Detection knows a file of the baseline by path and hash, a save sent or accepted by its
hash alone. `over` has the baseline saves that were put over another file of the baseline
since it was captured (`UserCopiesSave`, which the player may do at any time and without
a bound; the save of the turn is not overwritten): at that path their content is not known
and becomes a candidate.

### 2.3 LaunchGuard

The mutex object of Windows with recursive ownership, abandonment by a crash and
the open handles that keep it in existence (a handle whose `CloseHandle` failed is
`leaked`). One action per system call of `execute_guarded_launch`. The scan is
atomic, as one snapshot of the process list is; a process without a name that
cannot be opened is not modelled. A process name may be used again once no Relay
refers to it. Recording the launched process comes after the release of the guard
and is `PersistProcessAssociation` of `TurnCycle`.

`GuardedLaunch` is the launch for its caller: it spawns once at most, only while no
process launched by a Relay runs, and answers with one of the five outcomes that mean
"nothing was spawned" or one of the three that mean "one was". `TurnCycle` forgets the
attempt of a deferred launch and tries it again, which is only right if the outcome is
true whatever else failed on the way, the release of the mutex and the closing of its
handle included.

### 2.4 MatchInit

Every storage call of `initialize_match`: root, four subdirectories, temporary
manifest, replacement, classification after an uncertain replacement, and the
store of the configuration by `initialize_or_join`. A manifest is its
configuration and sequence: clients with equal configurations write equal bytes.
`RemoveIncompleteTree` is the operator that `docs/DESIGN_SPEC.md:473` and
`docs/SYNC_PROTOCOL.md:96` name, who acts when no initialization is running.

### 2.5 WorkerHub

The GUI thread with the quit gate and its nested questions, the worker thread with
its queue, the signals back. A modal question lets events through but no commands.
After `quit()` the thread finishes queued calls or ends between two of them,
nondeterministically. Signals disconnected at shutdown are lost; queued calls are
not. What a snapshot shows is left out.

### 2.6 ReceiveTurn

Two views of a disk: `files` is what the file system shows, `durable` what each name
may show after a loss of power (nothing synchronizes a directory, so a name may go
back to what it showed before; contents that were not synchronized are torn). A
Relay starts, takes or creates the identity of the installation
(`load_or_create`: two that start together both publish, one wins, the other reads
the winner's), and then reconciles: it loads its records, reads the manifest, takes
the evidence of an earlier download, downloads, verifies, promotes by a publication
that replaces nothing, compares when something is there, and stores its records.

One action is what a Relay does up to its next look at something shared. The temporary
file (write, `fsync`) belongs to the action that renames or links it, since its name is
unique and nobody looks for it; that it is synchronized before it gets its name is in
the action (`TemporaryFile`, and what becomes of half saves without it:
`TemporaryFile_NoFsync`). A player may put a file of its own under any name, or remove
one (`UserChanges`). Civilization's own saves are such changes. The save of a turn is
its turn number. A failing call of disk or storage, a stop, a loss of power and a change
by the player each cost one of `MaxTroubles`.

### 2.7 SftpStorage and StoragePort

`StoragePort` says what the callers rely on: a call takes effect at one moment or
not at all, never on what another client has put in place unless it is the call that
replaces; every answer but a failed transport, mapped or raised, tells whether it
took effect. `write_file` is the exception and takes effect in two parts, which is
what `Handoff` calls `Torn`. The protocol writes with it only under names that no
other client uses, an assumption of the module (`Private`), with `lock.json` below
the directory its owner has just made.

`SftpStorage` has the steps of the adapter: connect and return at once when a
client is set, the probe of the four capabilities with its clean-up, the gate on
the capabilities, the checks before the request, the request, the second look that
explains an error of OpenSSH ("failure" says nothing about the reason), and the
answer. Between any two of them other clients act or the connection goes, and the server
may refuse any request for a reason that has nothing to do with the objects (permission,
space, an overloaded disk: `Refused`, at most `MaxRefusals` times). The steps of the probe
take such a refusal for what the code takes it for: for the refusal the probe wanted to
see (the second mkdir; the second rename, with the write of its source in the same `try`),
or for the end of the probe; a removal of the clean-up that is refused is passed over. The
checks of one call that precede its request (parents, kinds, presence) are one look.
`Servers` ranges over what a server may be: exclusive creation or not, a rename that
refuses, replaces, or replaces and then reports a failure, the POSIX rename or not,
reads that return what was written or not, a match directory or not yet.

### 2.8 FileWatch and RelayThreads

A directory is the number of its changes. `FileWatch` has the observer thread with
the events it has still to report, `MatchMonitor` with its primary and its fallback,
the poller with its last scan, and what `reconcile` and `snapshot` do to the dirty
flag. `reconcile` looks first and clears the flag at its end, so an event that comes
in between is forgotten: the model has both steps. `RelayThreads` adds these steps to
those of `WorkerHub`: opening a match starts its monitor, a poll ticks and a snapshot
refreshes, closing the client stops the monitors.

## 3. Runs

Passing runs:

| Run | Instance | Shows |
|---|---|---|
| `crash` | 2 players, 2 saves, 3 operations, 2 faults, 1 crash | `ManifestValid`, `OneOwner`, `HistoryIsPast`, `AcknowledgedIsAccepted`; the refinements `LedgerSpec` and, under `CallSpec`, `CallerSpec` |
| `repair` | 2 installations of one player, 1 fault, 1 crash, 1 repair | the inductive invariant `HandoffInv`, `NoLostTurn`, `ForeignLockKept` |
| `progress` | 1 client, 4 operations, 2 faults, 1 crash, 1 sweep | `RetryResolves`; `AcceptedSavesStored` under a stale sweep |
| `turns` | both modes and their change, 3 saves, 2 processes, file events at any time, 1 fault, 1 stop, 2 user requests (1 in fully managed mode) | `EntitlementSound`, `TerminatesOnlyCommitted`, `CandidateIsNew`, `ProcessedAccepted`, `OneAutomaticLaunch`, `StandardActsOnRequest` |
| `turn_progress` | fully managed, 3 saves, 2 processes, file events at any time, 1 stop | `EntitlementUsed`, `TurnStartedOrSpent` |
| `two_relays` | 2 Relays, 2 process names, 2 faults, 1 crash, 1 start by the user | `OneRelayCiv`, `GuardIsGivenUp`; the refinement `LaunchSpec` |
| `threads` | 2 matches, one of them followed, 1 quit question within another, 1 change, 1 fault | `ClientOutlivesWorker`, `BusyExact`, `BusyEnds`, `WorkerStops`, `ChangesSeen` |
| `init_race` | 3 clients with 2 configurations, 2 faults, 1 crash, 1 handoff | `TreeComplete`, `ReportsTrue`, `NeverReset` |
| `receive` | 2 Relays, 3 turns with one file name, 2 troubles of any kind | `SavesWhole`, `OneIdentity`, `ReadyIsOnDisk`, `NoFileOverwritten`; the refinements `StateIsAtomic` and `IdentityIsAtomic`; `TurnReceived` |
| `sftp` | 25 servers, every operation of the port, 2 steps of other clients, 2 lost or refused connections, 1 refused request | `CapabilitiesTrue`, `ProbeRemoved`; `PortKept`, the refinement of `StoragePort` while the verified capabilities are real |

Why these bounds. Two saves and three operation ids let a turn be committed by one
player and the next one attempted, retried under the same operation and refused; two
faults are what an uncertain commit followed by a failed check, or a failed release
followed by a failed retry, needs, and a call that commits and cannot say so; one crash
can come at every step. In `repair` two installations of one player are what it takes
for a second client to have the turn while the first one's lock is abandoned. Three
saves and two processes give two full turns of the local player with a process of the
last turn still around. Two process names suffice for two launches side by side. Two
faults in `two_relays` let the mutex stay owned through a leaked handle and be acquired
recursively. In `turns` one of the two requests can be a change of the mode. The types
of `TurnCycle`, `LaunchGuard` and `ReceiveTurn` are part of the proofs and not of a run.
In `receive` all turns have the same file name, which makes every earlier save a
conflict of the next; two troubles are what a loss of power after a stop, or a file of
the player next to a failed call, needs, and two Relays race for the identity. In `sftp`
three paths (a lock directory, a temporary file, the place it is published to) are what
one call names; two connections lost are one during the probe and one during the call
after it; one refused request can be the one that the probe mistakes for a capability,
one of its clean-up, or one of the call. In `threads` one change that an observer may
miss, and one death of the observer or failed reconcile, are what the fallback is for.
All bounds are constants that appear in guards only.

`CHECK_DEADLOCK FALSE` stands in the runs of `Handoff` and `TurnCycle`, where
operation ids, saves and processes run out, and a behaviour then really stops.
Symmetry is used for saves, operations and process names in safety runs, and never
where liveness is checked.

Fairness:

- `Handoff!FairSpec`: a running client goes on (WF) and a stopped one is started
  again (WF). The save of an interrupted handoff is sent again and again (SF):
  every tick of the fully managed mode that finds the candidate unchanged calls
  `execute_handoff`, and another step of the client may disable it in between.
- `TurnCycle!LiveSpec`: the poll timer (`QTimer`) keeps firing (WF of `Tick`),
  handlers run to their end (WF), and files that nobody writes are found unchanged by
  later polls (SF of `LatePoll`: of the reconciles a tick begins with, again and again one
  comes so late that every file seen before counts as stable).
- `LaunchGuard!LiveSpec`: a launch that began goes on (WF).
- `ReceiveTurn!FairSpec`: the player starts Relay again after a stop, and the worker
  polls for ever (WF of `Start` and of every step of a Relay). `TurnReceived` excepts
  what only the player can resolve: another file under the name of the save.
- `RelayThreads!ThreadsLiveSpec`: the GUI thread goes on and calls of the client return (WF);
  the worker's event loop looks at queued calls and at `quit()` in every round, the
  timer's calls notwithstanding (SF).

`turn_progress` has no requests of the user, which are not fair. It has every file event.
That a turn is always started in the end, as `process/guard.py:207-212` and
`docs/DESKTOP_CLIENT.md:139-141` promise of a deferred launch, is false with them (see
*The turn that was never started*), so `TurnStartedOrSpent` says what the code does
instead: a turn that waits is started, unless its launch is on record as attempted *and*
this run of Relay has used up the one attempt it grants in spite of the record. A turn
that lacks one of the two marks, after a deferral, a restart or an exit of the blocking Civilization,
is never left lying.

Runs that show a disagreement between the code and what the repository says of it
(`findings` in `PROJECT.json` quotes both sides):

| Run | What happens |
|---|---|
| `committed_lock` | After a commit whose lock release failed the journal is kept "for recovery", and the reconciliation right after it clears it: the client can no longer release its own lock |
| `stale_save` | A save left over from an earlier turn is sent by polling as the next turn, since detection uses the last baseline whichever turn it belongs to |

Other disagreements met while modelling, present in the models unless said otherwise,
and not given a run:

- *The turn that was never started.* A launch deferred by the guard forgets its attempt
  so that "a later ordinary tick may retry the guarded launch"
  (`process/guard.py:207-212`, `docs/DESKTOP_CLIENT.md:139`). A file event lets the
  snapshot reconcile in between (`app/relay_client.py:657`); it stores the attempt
  anew and nobody acts on its intent, so no tick launches again:
  "Relay retries the guarded launch on later ordinary polls" (`docs/DESKTOP_CLIENT.md:139`)
  does not hold then. `TurnStartedOrSpent` has exactly this exception;
  `[]<>~TurnNotStarted`, without it, is violated in the instance of `turn_progress`.
- *The baseline save that is offered.* "Hash MUST be absent from the play-session
  baseline" (`docs/SYNC_PROTOCOL.md:250`), and an overwritten path is acceptable only if
  the new hash satisfies all exclusions (line 254, PT-21 in line 505;
  `docs/DESIGN_SPEC.md:367, 374`). `local/detect.py:292-308` and `337-340` exclude a
  hash of the baseline only at its own path and at paths the baseline does not have. An
  old save that was never sent becomes a candidate when it is copied over another file
  of the baseline, and as the only one it is sent by polling. `CandidateIsNew` has exactly
  this exception (`over`); without it, it is violated in the instance of `turns`.
- *The capability that was not proved.* An adapter that cannot provide atomic
  `mkdir` failure semantics "MUST report that protocol guarantees cannot be met"
  (`docs/SYNC_PROTOCOL.md:306`). The probe takes any `OSError` of its second mkdir for the
  refusal that shows exclusive creation (`storage/paramiko_sftp.py:482-484`), and the write
  of `probe-a2` stands in the same `try` as the rename that must be refused (`492-501`). A
  quota or permission error there verifies a capability the server may lack.
  `CapabilitiesTrue` therefore promises all four only where no request was refused for
  such a reason, and atomic replacement and readback always; `PortKept` promises the port
  while the verified capabilities are real.
- *The turn that is played while Civilization is closed.* A right to close with
  `close_requested`, found after a restart, terminates the process at once
  (`app/relay_client.py:1209`), although it may play the next turn by then;
  `docs/DESIGN_SPEC.md:448` says "Relay MUST NEVER terminate during save creation,
  verification, upload, or commit".
- *The second automatic launch.* The comment at `app/relay_client.py:339` promises
  "exactly one automatic attempt for each *new* (sequence, accepted-hash) turn in this
  Relay session". The attempt is counted before the handoff of the same tick
  (`app/relay_client.py:381`). When the other player moves before the reconcile that
  ends the handoff, that reconcile wants a start, the tick launches without counting
  it, and after an exit of Civilization without a save the next tick launches the same
  turn again. `OneAutomaticLaunch` is therefore about counted launches, and holds with
  three processes too.
- `app/relay_client.py:116-120` gives the pending turn a fresh automatic launch
  after a restart, where `docs/DESIGN_SPEC.md:467` says a restart must not launch
  the same accepted sequence twice (`OneAutomaticLaunch` is stated per run of Relay).
- `select_candidate` (`app/relay_client.py:530`) stores the user's choice, and the
  snapshot right after it reconciles, sees several candidates again and drops it
  (`local/reconcile.py:172`; `docs/SYNC_PROTOCOL.md:255` asks for a selection).
- The guard is released (`process/guard.py:354`) before the association with the
  launched process is stored (`app/relay_client.py:1083`);
  `docs/DESKTOP_CLIENT.md:115` has the opposite order. When Relay stops in between,
  the process is nobody's: it is never closed, and defers every launch until it exits.
- `lock.json` is written before the journal entry (`protocol/lock.py:852`): a crash
  between the two leaves a lock its own client cannot resume, where
  `docs/SYNC_PROTOCOL.md:417` lists no orphans. Only the confirmed repair removes it.
  This is why `RetryResolves` assumes the journal in place.
- *No reconnect.* `connect` returns at once while `_sftp` is set
  (`storage/paramiko_sftp.py:84`), so after a lost connection every call fails until
  the application is closed. `docs/SYNC_PROTOCOL.md:404` has "Reconnect after network
  loss", and `docs/DESIGN_SPEC.md:518` (FR-005) has interrupted operations resolved by
  retries. A probe that fails leaves `_sftp` set as well: the capabilities stay
  unverified and are not probed again.
- An `SSHException` or `EOFError` of a lost connection is not mapped to a storage error
  and reaches the caller as it is (`raised` in `StoragePort`); a publication that loses
  a race against another client is answered as a failed transport.
- `promote` catches `OSError` only, and the publication without replacing raises a
  `LocalStoreIOError`: that failure ends the whole reconcile.
- No directory is synchronized (`local/json_store.py`). After a loss of power an
  identity already used, or a record already stored, may be gone. The properties of
  `ReceiveTurn` are stated so that they hold nevertheless: the documents are whole,
  and one that was there may come back.
- Two Relays that share `%APPDATA%` overwrite each other's `state.json`: `StateIsAtomic`
  holds, a lost update between load and store is possible, and only the file on the
  disk decides what was received.
- An event between the look of a reconcile and its end is forgotten with the flag
  (`app/relay_client.py:300`). `ChangesSeen` holds because every tick reconciles anyway
  (`docs/DESIGN_SPEC.md:374`: polling "MUST remain a fallback").
- Not in a model: the process id could be given to another process between the probe of
  its identity and the termination (`process/windows.py:769`), and a process that may
  not be opened counts as not running (`process/windows.py:236`).

## 4. Proofs

All theorems hold for every value of the constants that the named assumptions allow:
any number of clients, players, saves, processes, Relays, matches, operations, and
all bounds.

`HandoffProofs` (assumptions: `ConstantsAssumption` and `NilAssumption` of `Handoff`; all but
`TypeCorrect` also `CarefulRepair`):

- `TypeCorrect`: types, with careless repairs too.
- `Invariant`: `HandoffInv`, from which `MutualExclusion` (`OneOwner`),
  `TurnsAreKept` (`NoLostTurn`), `ManifestSafe` (`ManifestValid`), `SavesStored`
  (`AcceptedSavesStored`), `AcknowledgmentSound` and `ReleaseOwnLockOnly`
  (`ForeignLockKept`) follow.
- `Refinement`: `Handoff` implements `TurnLedger`.

None of these properties is inductive by itself. `HandoffInv` adds what the code
relies on without saying it: `LockInv` (who is at which label determines the lock
on the storage, so two holders would have written the same `lock.json`),
`JournalInv`, `WorkInv` (from the classification to the commit the owner's manifest
is the current one, because only an owner replaces it), `StagedInv` (the staged
files hold the verified bytes or are gone: that is all a sweep can do),
`SavesInv`, and `TurnInv` (the current player is the one the sequence number
gives, which needs the arithmetic of the player order). Each conjunct has a lemma
with one step per action. `TypeStep` comes first because the others use the types;
`LockStep` is the only place where `CarefulRepair` is used.

`HistoryKept` (`HistoryIsPast`), in the same module and under the same assumptions, has an
invariant of its own. `ArchivedInv` says that from the verified
archive to the replacement of the manifest the archive of the base is in `history/`;
with `HandoffInv` (the base is the current manifest at these labels) the replacement
can then only extend a past that is complete. Two lemmas say that `history` changes by
one archive of the current manifest at a time (`HistoryChange`), and that a client
comes to the commit through the archive only (`CommitAfterArchive`).

`HandoffCallProofs` (the same assumptions): `CallInvariant` and, from it,
`PortRefinement` (`CallerSpec`). `CallInv` says what the label of a call tells of what it
has done: up to the replacement of the manifest nothing, and during the cleanup that
follows the outcome agrees with it and the journal still names the save. The rest is in
`HandoffInv`: `WorkInv`, that the manifest a call replaces is the current one, in which it is
the turn of its player and the save is new (so that the replacement is an `Accept` and not a
step without effect); and `JournalInv`, that the save was noted before. Each label
then maps to one action of `HandoffPort` or to a stutter: the replacement to
`Accept`, the end of the handoff to `Answer`, the reconcile after it to `Return` or
`Settle`, a crash to `Stop`.

`TurnCycleProofs` (assumption: `ConstantsAssumption`): `TypeCorrect` (`TypeOK`),
`EntitlementsSound` (`EntitlementSound`), `OnlyCommittedTerminated`
(`TerminatesOnlyCommitted`) and `CandidatesNew` (`CandidateIsNew`), from `Invariant`
(`CycleInv`). What Relay may terminate is decided from records that other handlers wrote
long before, so the invariant follows a process: at the label `persist` it was launched
for the turn the records have verified (`HandlerInv`); an association names a process
launched for its turn, and so does an entitlement, whose turn is over besides
(`GoodRecords`). It also follows a save of the baseline: a candidate among them was put
over another since the baseline was captured, and no step but a new capture forgets
that. The lemmas go through a reconcile in the order of the code: evidence is proven by
the manifest, applied to the records, the directory is looked at, the intents are
concluded, each keeping `GoodRecords`.

`NoSecondCountedLaunch` (`OneAutomaticLaunch`) needs a second invariant on top,
`AttemptInv`: once polling has counted a launch for the current turn, the durable
`launch_attempt` and the key of the session both name that turn, no reconcile under
way asks for a start, and the intents still to be acted upon hold none. Both are
needed: `launch_attempt` keeps a reconcile that does not ask for a start from wanting
one, and the key keeps the next tick from asking.

`OnlyAcceptedWrittenOff` (`ProcessedAccepted`) follows a reconcile once more: evidence
that counts names the last save of the manifest (`EvidenceAccepted`), and no step but
the application of evidence adds to the saves that are written off (`Honest`).
`StandardModePassive` (`StandardActsOnRequest`) has the invariant `StandardInv`: in
standard mode no handler is at a step that sends for a tick or terminates, and a start
that lies ahead, or that a reconcile under way was asked for, comes from the request of
the user. It needs the mode to change only while no handler runs, which the worker
thread guarantees, and the guards on the mode that the code repeats at each step;
without the one in `_track_close_progress` (`TrackCloseProgress_AnyMode`) it fails.

`ReceiveTurnProofs` (assumption: `ReceiveAssumption`): `TypeCorrect` (`TypeOK`),
`WholeSaves` (`SavesWhole`), `IdentityIsOne` (`OneIdentity`), `ReportsOnDisk`
(`ReadyIsOnDisk`), `NothingOverwritten` (`NoFileOverwritten`), and the refinements
`StateRefines` and `IdentityRefines` to `AtomicDocument`, from `Invariant` (`RecvInv`).
It adds `DiskWhole` (nothing gets a name before it is synchronized, so whatever a loss
of power brings back is whole) and `Knowledge` (what a reconcile holds for present is
present, unless the player has touched its name since it began): without the second a
report could rest on a look that is out of date.

`SftpStorageProofs` (assumption: `SftpAssumption`): `TypeCorrect`, `CapabilitiesSound`
(`CapabilitiesTrue`) and `Refinement` (`PortKept`), from `Invariant` (`SftpInv`).
`FullRefinement` (`PortSpec`) says that on servers with all four semantics, or where no
request is refused for a reason of the server's own, the adapter implements the port without
condition.
`ProbeInv` says that what the probe has found is as true as `CapabilitiesTrue` promises, or
that an error will end it;
`CallInv`, that at every step the answer still to come fits what the call has done, in
particular that an error is looked into only over the connection that brought it, so
that a second look after an effect is never taken for a refusal (a write that the server
cut short is the exception, and its answer says nothing); `PrivateInv`, that
nobody else writes the temporary files. `ProbesRemoved` (`ProbeRemoved`) has `LeftInv`
besides: the steps of a probe (`ProbeSteps`) run only over a connection that was opened, and a
connection that is set but gone was lost at some time, so what a clean-up leaves was left
for want of a connection or because the server refused to remove it.

`WorkerHubProofs` (assumptions of `WorkerHub` and `RelayThreads`): `ClientIsOutlived`
(`ClientOutlivesWorker`) and `BusyFlagsExact` (`BusyExact`) from `Invariant` (`HubInv`),
and `ThreadsAreHub`: the threads with the file watching implement the specification of
the hub alone, so both hold of the composition. `HubInv` adds that until a shutdown
begins the worker is told neither to stop nor to prepare it (`BeforeShutdown`), and that
a command runs alone (`OneCommand`); `BusyExact` counts calls in a queue, for which the
module has lemmas about occurrences in a sequence.

`LaunchGuardProofs`: `Invariant` (`GuardInv`) and `OneCivilization`
(`OneRelayCiv`), for any number of Relays, faults and crashes. `GuardInv` adds to
`OneRelayCiv` that whoever is between acquisition and release owns the mutex and
has an open handle (so the object cannot go away), and that at the spawn no
process launched by a Relay is running. `Refinement` (`LaunchSpec`) needs two invariants more:
`AnswerInv`, that up to the spawn nothing was spawned and from the outcome on the
outcome says what was, which no failure of the clean-up changes; and `StarterInv`, that a
process that does not run has no starter, so that a name used again starts afresh.

`MatchInitProofs`: `Invariant` (`InitInv`), `TruthfulReports` (`ReportsTrue`),
`CompleteTrees` (`TreeComplete`), `MatchNeverReset` (`NeverReset`). `InitInv` says that one
initialization at a time builds the tree and that there is no manifest until it
tries the replacement.

Only model-checked: every liveness property, since TLAPS cannot prove fairness arguments
(`RetryResolves`, `EntitlementUsed`, `TurnStartedOrSpent`, `GuardIsGivenUp`, `BusyEnds`,
`WorkerStops`, `ChangesSeen`, `TurnReceived`). Every safety invariant, action property and
refinement of a passing run is a theorem.

## 5. What is not modelled

- Host keys, authentication, symbolic links, invalid paths and the parsing of listings
  in the SFTP adapter; the choice of the error for a missing or unreadable object.
- The configuration of a match and changes of it other than of the mode, several open
  matches sharing one Civilization.
- The reuse of a process id by another program; `TurnCycle` and `LaunchGuard` take a
  process as its identity (pid, creation token, executable).
- The repair of a lock path occupied by an object of the wrong kind
  (`protocol/lock.py:1096`), missing capabilities in the handoff and the initialization,
  timestamps.
- The threads inside the watchdog library and Paramiko; diagnostics and logs.
- Configuration loading, launch command, windows, dialogs, tray, redaction, and the test
  doubles: formatting, display or values that do not change; nothing of them changes the
  state the modules have.

## 6. Plan

Done, in this order: the handoff with its lock and recovery, its ledger and proofs;
the turn cycle; the launch guard; the worker; match initialization; the reception of a
turn and the local documents with their abstract document; the SFTP adapter with the
storage port; the file watching, composed with the threads; the contracts of one handoff
and one launch; the change of the mode; proofs about all of them.

Next:

1. `Supervision`: probe and termination of `process/windows.py` call by call, with the
   reuse of process ids, under `TerminatePendingClose`.
2. A second open match in `TurnCycle`.
3. `ReceiveTurn` with the steps of `ReconcileMatch` around it, shown to implement
   `LookedAt`.
