----------------------------- MODULE TurnCycle -----------------------------
(***************************************************************************)
(* One installation's cycle of a turn in a match of two: the reconcile of  *)
(* the durable records with the manifest, the detection of the outgoing    *)
(* save, the automatic handoff, and the launch and the termination of      *)
(* Civilization (app/relay_client.py, app/process_runtime.py,              *)
(* local/reconcile.py, local/orchestrate.py, local/detect.py).             *)
(*                                                                         *)
(* The worker thread runs one handler at a time. One action is one         *)
(* reconcile, one handoff, or one call to the process supervisor; between  *)
(* two of them the other player may move, Civilization may save or exit,   *)
(* and Relay may stop. The handoff is a single step here (see Handoff).    *)
(***************************************************************************)
EXTENDS Naturals, Sequences, FiniteSets, Functions

CONSTANTS
  Saves,         \* contents of save files; a save is its hash
  Procs,         \* exact process identities: pid, creation token, executable
  Nil,           \* absent record, no value (None)
  Modes,         \* whether turn_handling_mode may be FULLY_MANAGED, or not, or both
  MaxFaults,     \* bound: failing calls to storage, disk or supervisor
  MaxStops,      \* bound: stops of Relay
  MaxRequests,   \* bound: requests of the user to Relay in standard mode
  MaxManagedRequests  \* bound: the same in fully managed mode

Maybe(S) == S \cup {Nil}

\* What is known of a process: the turn Relay launched it for, the turn played.
Games == [for : Maybe(Nat), plays : Maybe(Nat)]

ASSUME ConstantsAssumption ==
  /\ Modes \subseteq BOOLEAN
  /\ MaxFaults \in Nat /\ MaxStops \in Nat /\ MaxRequests \in Nat
  /\ MaxManagedRequests \in Nat
  /\ Nil \notin Saves \cup Procs \cup Nat /\ Nil \notin Games

VARIABLES
  hashes, cur,  \* the manifest: accepted_save_hashes, and "local" or "other"
  files,        \* complete saves in the PBEM directory
  writing,      \* the save a Civilization is writing: [save, proc] or Nil
  made,         \* the turn during which each save was begun, Nil if unused
  over,         \* baseline saves put over another one since the baseline was taken
  alive,        \* running Civilization processes
  game,         \* of each process: the turn Relay launched it for, the turn played
  rec,          \* MatchLocalRecords, durable
  ses,          \* _MatchSession and ProcessCoordinator, lost when Relay stops
  pc, cmd,      \* the step of the running handler, and which handler it is
  call,         \* the arguments of a reconcile and the step it returns to
  out,          \* the state and the intents of the last reconcile
  budget        \* what is left of the bounds

remote  == <<hashes, cur>>
disk    == <<files, writing, made, over>>
machine == <<alive, game>>
relay   == <<rec, ses, pc, cmd, call, out>>
vars    == <<remote, disk, machine, relay, budget>>

Turn == Len(hashes)  \* protocol_sequence

-----------------------------------------------------------------------------
NewRecords ==
  [verified  |-> Nil,  \* verified_remote
   baseline  |-> Nil,  \* play_session_baseline: the files before the launch
   seen      |-> {},   \* stability_observations
   attempt   |-> Nil,  \* launch_attempt: the turn it is for
   candidate |-> Nil,  \* outgoing_candidate
   processed |-> {},   \* processed_outgoing_hashes
   assoc     |-> Nil,  \* process_association: [proc, turn]
   pending   |-> Nil,  \* pending_post_commit_close: [proc, turn, requested]
   journal   |-> Nil,  \* in_progress_handoff: the save
   managed   |-> TRUE] \* turn_handling_mode of the stored configuration

\* The match is configured for fully managed turns.
Managed == rec.managed

NewSession ==
  [obs     |-> Nil,    \* process_observation: [proc, running]
   autoKey |-> Nil,    \* auto_launch_attempted_key
   lastAuto |-> Nil,   \* last_auto_handoff_sha256
   lastOut |-> Nil,    \* last_outgoing_bytes
   dirty   |-> TRUE,
   identity |-> Nil,   \* _session_identity
   running |-> FALSE,  \* _session_running
   acted   |-> Nil,    \* _terminate_acted_operation_id, by the turn committed
   closing |-> Nil,    \* _close_identity
   closed  |-> FALSE,  \* _safely_closed
   auto    |-> {}]     \* turns of the counted launches since the user last asked for one

Init ==
  /\ hashes = <<>> /\ cur \in {"local", "other"}
  /\ files = {} /\ writing = Nil /\ over = {} /\ made = [s \in Saves |-> Nil]
  /\ alive = {} /\ game = [p \in Procs |-> Nil]
  /\ \E mode \in Modes : rec = [NewRecords EXCEPT !.managed = mode]
  /\ ses = NewSession
  /\ pc = "idle" /\ cmd = "none"
  /\ call = Nil /\ out = [state |-> Nil, intents |-> {}]
  /\ budget = [fault |-> MaxFaults, stop |-> MaxStops,
               request |-> IF Managed THEN MaxManagedRequests ELSE MaxRequests]

NoFault == UNCHANGED budget

Fault == budget.fault > 0 /\ budget' = [budget EXCEPT !.fault = @ - 1]

Goto(label) == pc' = label /\ UNCHANGED call

\* A handler calls reconcile and goes on at the step ret.
CallReconcile(start, evidence, ret) ==
  /\ pc' = "reconcile"
  /\ call' = [start |-> start, evidence |-> evidence, ret |-> ret]

-----------------------------------------------------------------------------
(* observe_outgoing_candidates *)

\* A file is known content if it was received, accepted, or sent by this
\* installation, or was there before the launch: at its own path, or at one that
\* was free then. At the path of another baseline file only that file is known.
KnownSaves(r) == r.processed \cup Range(hashes) \cup (r.baseline \ over)

\* stable are the files two observations of this play session found unchanged.
Detect(r, present, stable, scanFails) ==
  IF r.baseline = Nil \/ scanFails
  THEN [outcome |-> IF r.baseline = Nil THEN "MISSING_BASELINE" ELSE "IO_FAILURE",
        candidates |-> {}, seen |-> {}]
  ELSE LET potential == present \ KnownSaves(r)
           ready     == potential \cap stable
       IN [outcome    |-> CASE Cardinality(ready) > 1 -> "MULTIPLE_CANDIDATES"
                            [] Cardinality(ready) = 1 -> "ONE_CANDIDATE"
                            [] ready = {} -> IF potential # {} \/ writing # Nil
                                             THEN "STABILIZING" ELSE "NO_CANDIDATE",
           candidates |-> ready,
           seen       |-> r.seen \cup potential]

ApplyDetection(r, det) ==
  [r EXCEPT !.seen = det.seen,
            !.candidate = CASE det.outcome = "ONE_CANDIDATE" ->
                                 CHOOSE s \in det.candidates : TRUE
                            [] det.outcome = "MULTIPLE_CANDIDATES" -> Nil
                            [] OTHER -> @]

-----------------------------------------------------------------------------
(* reconcile_match and decide_intents *)

\* The probe of the process has found it running, or found it gone.
SeenRunning(proc) == ses.obs = [proc |-> proc, running |-> TRUE]

SeenExited(proc) == ses.obs = [proc |-> proc, running |-> FALSE]

MatchedRunning(r) == r.assoc # Nil /\ SeenRunning(r.assoc.proc)

MatchedExited(r) == r.assoc # Nil /\ SeenExited(r.assoc.proc)

DropExited(pending) ==
  IF pending # Nil /\ SeenExited(pending.proc) THEN Nil ELSE pending

\* Seeded fault: a handoff in progress counts as committed.
JournalEvidence_Unproven ==
  IF rec.journal = Nil THEN Nil ELSE [save |-> rec.journal, turn |-> Turn]

\* _recover_journal: the manifest ends with the save of the journal.
JournalEvidence ==
  IF rec.journal # Nil /\ Turn > 0 /\ hashes[Turn] = rec.journal /\ cur = "other"
  THEN [save |-> rec.journal, turn |-> Turn - 1] ELSE Nil

\* The process launched for the committed turn may be closed from now on.
ApplyExactHandoffEvidence(r, ev) ==
  IF r.journal \notin {Nil, ev.save} THEN r
  ELSE [r EXCEPT
         !.processed = @ \cup {ev.save}, !.candidate = Nil, !.journal = Nil,
         !.pending = IF @ = Nil /\ r.assoc # Nil /\ r.assoc.turn = ev.turn
                     THEN [proc |-> r.assoc.proc, turn |-> ev.turn, requested |-> FALSE]
                     ELSE @]

\* The manifest read by the reconcile is the one the evidence speaks of.
EvidenceCurrent(ev) ==
  ev # Nil /\ ev.turn + 1 = Turn /\ hashes[Turn] = ev.save /\ cur = "other"

LaunchStates == {"WAITING_FOR_MY_FIRST_SAVE", "MY_TURN_DOWNLOADED"}

OperationalState(r, ev, det) ==
  CASE cur = "other" -> IF r.journal # Nil /\ ev = Nil
                        THEN "UPLOADING" ELSE "WAITING_FOR_OTHER_PLAYER"
    [] cur = "local" /\ det = Nil -> "DOWNLOADING"
    [] cur = "local" /\ det # Nil ->
         IF det.outcome = "ONE_CANDIDATE" THEN "OUTGOING_SAVE_DETECTED"
         ELSE IF MatchedRunning(r) /\ r.baseline # Nil THEN "CIV_RUNNING"
         ELSE IF Turn = 0 THEN "WAITING_FOR_MY_FIRST_SAVE" ELSE "MY_TURN_DOWNLOADED"

WantsClose(r, ev) ==
  /\ Managed /\ r.pending # Nil /\ ~r.pending.requested
  /\ ev # Nil => r.pending.turn = ev.turn
  /\ SeenRunning(r.pending.proc)

OutgoingActivity == {"ONE_CANDIDATE", "STABILIZING", "MULTIPLE_CANDIDATES"}

WantsStart(state, r, det, start) ==
  /\ state \in LaunchStates /\ ~MatchedRunning(r)
  /\ IF Managed
     THEN /\ det.outcome \notin OutgoingActivity
          /\ \/ start
             \/ /\ r.attempt = Nil \/ r.attempt # r.verified
                /\ r.assoc = Nil \/ MatchedExited(r)
     ELSE start

DecideIntents(state, r, ev, det, start) ==
  (IF WantsClose(r, ev) THEN {"CLOSE"} ELSE {}) \cup
  (IF state = "OUTGOING_SAVE_DETECTED" THEN {"SEND"} ELSE {}) \cup
  (IF WantsStart(state, r, det, start) THEN {"START"} ELSE {})

\* Seeded fault: the candidate of the last session is kept.
CaptureBaseline_KeepsCandidate(r, present) ==
  [r EXCEPT !.baseline = present, !.seen = {}, !.attempt = r.verified]

\* Before Civilization is started the files present are recorded, and the
\* observations and the candidate of the last session forgotten.
CaptureBaseline(r, present) ==
  [r EXCEPT !.baseline = present, !.seen = {}, !.candidate = Nil, !.attempt = r.verified]

\* The records and the evidence when the handler brought none.
Recovered(evidence) ==
  IF evidence # Nil \/ JournalEvidence = Nil THEN [rec |-> rec, ev |-> evidence]
  ELSE [rec |-> ApplyExactHandoffEvidence(rec, JournalEvidence), ev |-> JournalEvidence]

\* First the evidence of a handoff, given or recovered from the journal, is
\* brought into the records.
Attributed(evidence) ==
  LET given    == Recovered(evidence).ev
      ev       == IF EvidenceCurrent(given) THEN given ELSE Nil
      verified == [Recovered(evidence).rec EXCEPT !.verified = Turn]
      applied  == IF ev = Nil THEN verified ELSE ApplyExactHandoffEvidence(verified, ev)
  IN [rec |-> [applied EXCEPT !.pending = DropExited(@)], ev |-> ev]

\* Then a turn of the local player is downloaded and the directory looked at.
LookedAt(r, stable, fault) ==
  LET ready   == cur = "local" /\ (Turn = 0 \/ fault # "download")
      present == IF ready /\ Turn > 0 THEN files \cup {hashes[Turn]} ELSE files
      det     == IF ready THEN Detect(r, present, stable, fault = "scan") ELSE Nil
  IN [rec |-> IF ready THEN ApplyDetection(r, det) ELSE r, files |-> present, det |-> det]

\* Then the intents are decided; a launch needs its baseline.
Concluded(ev, look, start, fault) ==
  LET state    == OperationalState(look.rec, ev, look.det)
      intents  == DecideIntents(state, look.rec, ev, look.det, start)
      closed   == IF "CLOSE" \in intents THEN [look.rec EXCEPT !.pending.requested = TRUE]
                  ELSE look.rec
      starting == "START" \in intents /\ fault # "capture"
  IN [rec  |-> IF starting THEN CaptureBaseline(closed, look.files) ELSE closed,
      over |-> IF starting THEN {} ELSE over,
      out  |-> [state   |-> state,
               intents |-> IF starting THEN intents ELSE intents \ {"START"}]]

LocalFaults == {"download", "scan", "capture"}

\* The journal is cleared on disk as soon as it is attributed, before the
\* records that follow from it are written.
JournalCleared == [rec EXCEPT !.journal = Attributed(call.evidence).rec.journal]

\* Without the manifest only what the journal, read with a manifest of its own,
\* has proved is recorded. Where the text of the manifest is unusable a close may
\* still be asked for; a failed transport asks for nothing and keeps no more than
\* that the journal is cleared.
ReconcileFailed ==
  /\ Fault /\ UNCHANGED <<files, over>>
  /\ \/ rec' \in {rec, JournalCleared} /\ out' = [state |-> "ERROR", intents |-> {}]
     \/ \E r \in {[rec |-> rec, ev |-> call.evidence], Recovered(call.evidence)} :
          /\ rec' = r.rec
          /\ out' = [state |-> "ERROR",
                     intents |-> IF WantsClose(r.rec, r.ev) THEN {"CLOSE"} ELSE {}]

ReconcileMatch(stable) ==
  /\ pc = "reconcile"
  /\ \/ ReconcileFailed
     \/ \E fault \in {Nil} \cup LocalFaults :
          /\ IF fault = Nil THEN NoFault ELSE cur = "local" /\ Fault
          /\ \E a \in {Attributed(call.evidence)} :
             \E look \in {LookedAt(a.rec, stable, fault)} :
             \E done \in {Concluded(a.ev, look, call.start, fault)} :
               rec' = done.rec /\ files' = look.files /\ over' = done.over /\ out' = done.out
  /\ ses' = [ses EXCEPT !.dirty = FALSE]
  /\ pc' = call.ret /\ call' = Nil
  /\ UNCHANGED <<remote, writing, made, machine, cmd>>

Reconcile == \E stable \in SUBSET (rec.seen \cap files) : ReconcileMatch(stable)

-----------------------------------------------------------------------------
(* open_match, tick and request_start *)

Idle == pc = "idle"

\* The match was opened, which begins with a tick.
Open == Idle /\ cmd # "none"

Request == budget.request > 0 /\ budget' = [budget EXCEPT !.request = @ - 1]

\* ProcessCoordinator.probe: an exact match makes p the process of the session.
Probe(session, p) ==
  IF p \in alive THEN [session EXCEPT !.identity = p, !.running = TRUE]
  ELSE [session EXCEPT !.running = @ /\ session.identity # p]

\* set_process_observation
Observe(session, p, up) ==
  [session EXCEPT !.obs = [proc |-> p, running |-> up], !.dirty = TRUE]

\* _refresh_process_observation of the associated process, if there is one.
Probed ==
  IF rec.assoc = Nil THEN ses
  ELSE Observe(Probe(ses, rec.assoc.proc), rec.assoc.proc, rec.assoc.proc \in alive)

\* The user opens the match again with another turn_handling_mode. A session
\* there is keeps everything but its configuration; a tick follows at once.
EditMatch ==
  /\ Open /\ Request
  /\ \/ \E mode \in Modes \ {Managed} : rec' = [rec EXCEPT !.managed = mode] /\ Goto("opened")
     \/ Goto("snapshot") /\ UNCHANGED rec  \* the configuration cannot be written
  /\ UNCHANGED <<remote, disk, machine, ses, cmd, out>>

\* The handler of the poll timer, and what a match opened or retried begins
\* with. When the probe fails the last observation stays.
Tick ==
  /\ Idle \/ pc = "opened"
  /\ cmd' = "tick"
  /\ \/ NoFault /\ ses' = Probed
     \/ Fault /\ rec.assoc # Nil /\ UNCHANGED ses
  /\ CallReconcile(FALSE, Nil, "decide")
  /\ UNCHANGED <<remote, disk, machine, rec, out>>

RequestStart ==
  /\ Open /\ Request /\ cmd' = "start"
  /\ ses' = [Probed EXCEPT !.auto = @ \ {Turn}]
  /\ CallReconcile(TRUE, Nil, "launch")
  /\ UNCHANGED <<remote, disk, machine, rec, out>>

\* Seeded fault: what was attempted for the turn is not remembered.
NeedsOneAutoAttempt_Always ==
  Managed /\ out.state \in LaunchStates /\ "START" \notin out.intents

\* Seeded fault: a launch another run of Relay has recorded is not tried again.
NeedsOneAutoAttempt_NotAfterStop ==
  /\ Managed /\ out.state \in LaunchStates /\ "START" \notin out.intents
  /\ rec.verified \notin {ses.autoKey, rec.attempt}

\* One attempt per turn and session is granted although the durable
\* launch_attempt says that the turn was launched before.
NeedsOneAutoAttempt ==
  /\ Managed /\ out.state \in LaunchStates /\ "START" \notin out.intents
  /\ ses.autoKey # rec.verified

AutoAttempt ==
  /\ pc = "decide" /\ NeedsOneAutoAttempt
  /\ CallReconcile(TRUE, Nil, "decided")
  /\ UNCHANGED <<remote, disk, machine, rec, ses, cmd, out, budget>>

\* The rest of the decision: send the candidate now, or look after the process.
Decide ==
  /\ pc = "decided" \/ (pc = "decide" /\ ~NeedsOneAutoAttempt)
  /\ ses' = [ses EXCEPT !.autoKey = IF "START" \in out.intents THEN rec.verified ELSE @]
  /\ Goto(IF /\ Managed /\ "SEND" \in out.intents
             /\ rec.candidate \notin {Nil, ses.lastAuto}
          THEN "commit" ELSE "launch")
  /\ UNCHANGED <<remote, disk, machine, rec, cmd, out, budget>>

-----------------------------------------------------------------------------
(* execute_handoff *)

RequestSend ==
  /\ Open /\ Request /\ cmd' = "send" /\ Goto("commit")
  /\ UNCHANGED <<remote, disk, machine, rec, ses, out>>

\* The save to send: the candidate, or what was sent last when there is none.
Payload == IF rec.candidate # Nil THEN rec.candidate ELSE ses.lastOut

\* An exception ends the poll of the match; a command, which may be a tick too,
\* still shows a snapshot.
AfterError == IF cmd = "tick" THEN {"idle", "snapshot"} ELSE {"snapshot"}

RaiseError == \E label \in AfterError : Goto(label)

CandidateGone ==
  /\ pc = "commit" /\ rec.candidate # Nil /\ rec.candidate \notin files
  /\ rec' = [rec EXCEPT !.candidate = Nil]
  /\ RaiseError
  /\ UNCHANGED <<remote, disk, machine, ses, cmd, out, budget>>

NothingToSend ==
  /\ pc = "commit" /\ Payload = Nil /\ RaiseError
  /\ UNCHANGED <<remote, disk, machine, rec, ses, cmd, out, budget>>

AcceptedRemotely(s) == hashes' = Append(hashes, s) /\ cur' = "other"

AfterCommit == IF cmd = "tick" THEN "launch" ELSE "snapshot"

\* attribute_handoff_result: the answer proves that this save ended the turn
\* the records had verified.
ResultEvidence(s, turn) ==
  IF rec.verified = turn THEN [save |-> s, turn |-> turn] ELSE Nil

Remember(s, sentByTick) ==
  ses' = [ses EXCEPT !.lastOut = s, !.lastAuto = IF sentByTick THEN s ELSE @]

\* What commit_handoff comes to: the turn is handed over, was handed over
\* before, is refused, or the outcome is uncertain and the journal may stay.
CommitHandoff ==
  /\ pc = "commit" /\ Payload # Nil
  /\ rec.candidate # Nil => rec.candidate \in files
  /\ LET s    == Payload
         new  == cur = "local" /\ s \notin Range(hashes)
         mine == cur = "other" /\ Turn > 0 /\ hashes[Turn] = s
     IN \/ /\ new /\ NoFault /\ AcceptedRemotely(s)
           /\ rec' = [rec EXCEPT !.journal = Nil]
           /\ Remember(s, cmd = "tick")
           /\ CallReconcile(FALSE, ResultEvidence(s, Turn), AfterCommit)
        \/ /\ mine /\ NoFault /\ UNCHANGED remote
           /\ rec' = [rec EXCEPT !.journal = Nil]
           /\ Remember(s, cmd = "tick")
           /\ CallReconcile(FALSE, IF rec.journal = s THEN ResultEvidence(s, Turn - 1) ELSE Nil,
                            AfterCommit)
        \/ /\ ~new /\ ~mine /\ NoFault /\ UNCHANGED remote
           /\ \E j \in {rec.journal, Nil} : rec' = [rec EXCEPT !.journal = j]
           /\ Remember(s, FALSE) /\ CallReconcile(FALSE, Nil, AfterCommit)
        \/ /\ Fault
           /\ \/ UNCHANGED remote /\ \E j \in {rec.journal, s} : rec' = [rec EXCEPT !.journal = j]
              \/ new /\ AcceptedRemotely(s) /\ rec' = [rec EXCEPT !.journal = s]
           /\ Remember(s, FALSE)
           /\ CallReconcile(FALSE, Nil, AfterCommit) \/ RaiseError
  /\ UNCHANGED <<disk, machine, cmd, out>>

-----------------------------------------------------------------------------
(* _act_on_process_intents: the launch *)

\* A process has an identity no process had before.
Spawn(p, turn) ==
  /\ game[p] = Nil
  /\ alive' = alive \cup {p}
  /\ game' = [game EXCEPT ![p] = [for |-> turn, plays |-> turn]]

\* The guarded launch found another Civilization or could not exclude one:
\* the attempt does not count.
Defer ==
  /\ rec' = [rec EXCEPT !.attempt = Nil] /\ Goto("close")
  /\ UNCHANGED <<machine, ses>>

\* The tick has noted this launch as its attempt for the turn.
CountedByTick == cmd = "tick" /\ ses.autoKey = rec.verified

Launched(p) ==
  /\ Spawn(p, rec.verified)
  /\ ses' = [ses EXCEPT !.identity = p, !.running = TRUE,
                        !.closing = Nil, !.closed = FALSE,
                        !.auto = IF CountedByTick THEN @ \cup {rec.verified} ELSE @]
  /\ Goto("persist") /\ UNCHANGED rec

\* Nothing could be started, or what was started could not be identified.
LaunchFailed ==
  /\ UNCHANGED machine \/ \E p \in Procs : Spawn(p, Nil)
  /\ Goto("close") /\ UNCHANGED <<rec, ses>>

Launch ==
  /\ pc = "launch"
  /\ \/ /\ "START" \notin out.intents \/ ses.running
        /\ Goto("close") /\ UNCHANGED <<machine, rec, ses, budget>>
     \/ /\ "START" \in out.intents /\ ~ses.running
        /\ \/ alive # {} /\ NoFault /\ Defer
           \/ alive = {} /\ NoFault /\ \E p \in Procs : Launched(p)
           \/ Fault /\ Defer
           \/ alive = {} /\ Fault /\ LaunchFailed
  /\ UNCHANGED <<remote, disk, cmd, out>>

\* The identity launched is written down with the turn it was launched for.
PersistProcessAssociation ==
  /\ pc = "persist"
  /\ rec' = [rec EXCEPT !.assoc = [proc |-> ses.identity, turn |-> rec.verified]]
  /\ ses' = Observe(ses, ses.identity, TRUE)
  /\ CallReconcile(FALSE, Nil, "close")
  /\ UNCHANGED <<remote, disk, machine, cmd, out, budget>>

-----------------------------------------------------------------------------
(* The termination after the commit *)

MarkCloseRequested == rec' = [rec EXCEPT !.pending.requested = TRUE]

KilledWriting(p) == IF writing # Nil /\ writing.proc = p THEN Nil ELSE writing

NoteSafelyClosed(session) == [session EXCEPT !.closed = TRUE, !.running = FALSE]

\* _terminate_pending_close once the coordinator has answered: a process known
\* to be gone is observed as such and reconciled.
TerminateAnswered(session, next) ==
  LET p == rec.pending.proc
  IN IF session.closed
     THEN ses' = Observe(session, p, FALSE) /\ CallReconcile(FALSE, Nil, next)
     ELSE ses' = session /\ Goto(next)

\* terminate_after_commit of the entitled process; next is the step after it.
TerminatePendingClose(user, next) ==
  LET p       == rec.pending.proc
      closing == [ses EXCEPT !.closing = p]
      acting  == [Probe(closing, p) EXCEPT !.acted = rec.pending.turn, !.closed = FALSE]
  IN \/ /\ ~user /\ ses.acted = rec.pending.turn
        /\ Goto(next) /\ UNCHANGED <<rec, ses, alive, writing, budget>>
     \/ /\ user \/ ses.acted # rec.pending.turn
        /\ MarkCloseRequested
        /\ \/ /\ p \notin alive /\ NoFault /\ UNCHANGED <<alive, writing>>
              /\ TerminateAnswered(NoteSafelyClosed(closing), next)
           \/ /\ Fault /\ UNCHANGED <<alive, writing>>  \* the probe fails
              /\ TerminateAnswered(ses, next)
           \/ /\ p \in alive /\ Fault /\ UNCHANGED <<alive, writing>>  \* it does not exit
              /\ TerminateAnswered(acting, next)
           \/ /\ p \in alive /\ alive' = alive \ {p} /\ writing' = KilledWriting(p)
              /\ \/ NoFault /\ TerminateAnswered(NoteSafelyClosed(acting), next)
                 \/ Fault /\ TerminateAnswered(acting, next)  \* the second probe fails

\* The close intent of the last reconcile is acted on.
CloseEntitledAfterCommit ==
  /\ pc = "close"
  /\ LET next == IF cmd = "tick" THEN "track" ELSE "snapshot"
     IN IF Managed /\ "CLOSE" \in out.intents /\ rec.pending # Nil
        THEN TerminatePendingClose(FALSE, next)
        ELSE Goto(next) /\ UNCHANGED <<rec, ses, alive, writing, budget>>
  /\ UNCHANGED <<remote, files, made, over, game, cmd, out>>

\* Seeded fault: a close begun by an earlier session is left to the user.
TrackCloseProgress_NoRecovery ==
  /\ pc = "track" /\ Goto("watch")
  /\ UNCHANGED <<remote, disk, machine, rec, ses, cmd, out, budget>>

\* Seeded fault: a close asked for in standard mode is carried out by a tick.
TrackCloseProgress_AnyMode ==
  /\ pc = "track"
  /\ IF rec.pending # Nil /\ rec.pending.requested
     THEN TerminatePendingClose(FALSE, "watch")
     ELSE Goto("watch") /\ UNCHANGED <<rec, ses, alive, writing, budget>>
  /\ UNCHANGED <<remote, files, made, over, game, cmd, out>>

\* _track_close_progress: a close begun by an earlier session is tried again.
TrackCloseProgress ==
  /\ pc = "track"
  /\ IF Managed /\ rec.pending # Nil /\ rec.pending.requested
     THEN TerminatePendingClose(FALSE, "watch")
     ELSE Goto("watch") /\ UNCHANGED <<rec, ses, alive, writing, budget>>
  /\ UNCHANGED <<remote, files, made, over, game, cmd, out>>

\* A process being closed is probed until it is gone.
WatchClosing ==
  /\ pc = "watch"
  /\ LET p == ses.closing
     IN \/ /\ p = Nil \/ ses.closed
           /\ NoFault /\ Goto("snapshot") /\ UNCHANGED ses
        \/ /\ p # Nil /\ ~ses.closed /\ Fault
           /\ Goto("snapshot") /\ UNCHANGED ses
        \/ /\ p \in alive /\ ~ses.closed /\ NoFault
           /\ ses' = Probe(ses, p) /\ Goto("snapshot")
        \/ /\ p \in Procs \ alive /\ ~ses.closed /\ NoFault
           /\ ses' = Observe(NoteSafelyClosed(ses), p, FALSE)
           /\ CallReconcile(FALSE, Nil, "snapshot")
  /\ UNCHANGED <<remote, disk, machine, rec, cmd, out>>

\* request_civ_close: the user closes a process Relay is entitled to close.
RequestCivClose ==
  /\ Open /\ rec.pending # Nil /\ cmd' = "close"
  /\ budget.request > 0
  /\ LET p     == rec.pending.proc
         asked == [budget EXCEPT !.request = @ - 1]
     IN \/ /\ p \notin alive /\ budget' = asked /\ Goto("snapshot")
           /\ ses' = Probe(ses, p) /\ UNCHANGED <<rec, alive, writing>>
        \/ /\ p \in alive /\ Managed /\ budget' = asked
           /\ pc' = "user close" /\ UNCHANGED <<call, rec, ses, alive, writing>>
        \/ /\ p \in alive /\ ~Managed /\ budget' = asked /\ Goto("snapshot")
           /\ MarkCloseRequested
           /\ ses' = [Probe(ses, p) EXCEPT !.closing = p, !.closed = FALSE]
           /\ UNCHANGED <<alive, writing>>
  /\ UNCHANGED <<remote, files, made, over, game, out>>

UserTerminates ==
  /\ pc = "user close" /\ TerminatePendingClose(TRUE, "snapshot")
  /\ UNCHANGED <<remote, files, made, over, game, cmd, out>>

-----------------------------------------------------------------------------
(* snapshot, process_status and select_candidate *)

\* A snapshot reconciles when something changed since the last reconcile, such
\* as a file the watcher may report at any time; nobody acts on the intents. A
\* tick that was a command shows a second one.
Snapshot ==
  /\ pc \in {"snapshot", "second"}
  /\ \/ \E next \in {"second", "status"} : /\ next # pc
                                            /\ CallReconcile(FALSE, Nil, next)
     \/ ~ses.dirty /\ Goto("status")
  /\ UNCHANGED <<remote, disk, machine, rec, ses, cmd, out, budget>>

\* The status displayed probes the process being closed, unless a message
\* about the last launch takes its place.
ProcessStatus ==
  /\ pc = "status" /\ Goto("idle")
  /\ \/ UNCHANGED ses
     \/ /\ ses.closing # Nil /\ ~ses.closed
        /\ ses' = IF ses.closing \in alive THEN Probe(ses, ses.closing) ELSE NoteSafelyClosed(ses)
  /\ UNCHANGED <<remote, disk, machine, rec, cmd, out, budget>>

\* The user chooses among several candidates; the detection this begins with is
\* recorded even if it no longer finds several.
SelectCandidate ==
  /\ Open /\ Request /\ Goto("snapshot")
  /\ \E stable \in SUBSET (rec.seen \cap files) :
       LET det == Detect(rec, files, stable, FALSE)
           now == ApplyDetection(rec, det)
       IN IF det.outcome = "MULTIPLE_CANDIDATES"
          THEN cmd' = "select" /\ \E s \in det.candidates : rec' = [now EXCEPT !.candidate = s]
          ELSE cmd' = "observe" /\ rec' = now
  /\ ses' = [ses EXCEPT !.dirty = TRUE]
  /\ UNCHANGED <<remote, disk, machine, out>>

-----------------------------------------------------------------------------
(* The other player, Civilization, the user, and the end of Relay *)

OutsideRelay == UNCHANGED <<rec, ses, pc, cmd, call, out>>

\* The other player hands over a save of its own.
OtherMoves ==
  /\ cur = "other"
  /\ \E s \in Saves : /\ made[s] = Nil
                      /\ made' = [made EXCEPT ![s] = Turn]
                      /\ hashes' = Append(hashes, s)
  /\ cur' = "local"
  /\ OutsideRelay /\ UNCHANGED <<files, writing, over, machine, budget>>

\* The player opens the received save, or a new game, in a running Civilization.
CivLoads(p) ==
  /\ p \in alive /\ cur = "local"
  /\ Turn > 0 => hashes[Turn] \in files
  /\ game[p].plays # Turn
  /\ game' = [game EXCEPT ![p].plays = Turn]
  /\ OutsideRelay /\ UNCHANGED <<remote, disk, alive, budget>>

CivSaveBegin(p) ==
  /\ p \in alive /\ game[p].plays # Nil /\ writing = Nil
  /\ \E s \in Saves : /\ made[s] = Nil
                      /\ made' = [made EXCEPT ![s] = game[p].plays]
                      /\ writing' = [save |-> s, proc |-> p]
  /\ OutsideRelay /\ UNCHANGED <<remote, files, over, machine, budget>>

CivSaveEnd ==
  /\ writing # Nil
  /\ files' = files \cup {writing.save} /\ writing' = Nil
  /\ OutsideRelay /\ UNCHANGED <<remote, made, over, machine, budget>>

CivExits(p) ==
  /\ p \in alive /\ alive' = alive \ {p} /\ writing' = KilledWriting(p)
  /\ OutsideRelay /\ UNCHANGED <<remote, files, made, over, game, budget>>

UserStartsCiv(p) ==
  /\ Request /\ Spawn(p, Nil)
  /\ OutsideRelay /\ UNCHANGED <<remote, disk>>

UserRemovesSave(s) ==
  /\ Request /\ s \in files /\ files' = files \ {s}
  /\ OutsideRelay /\ UNCHANGED <<remote, writing, made, over, machine>>

\* The user puts the content of one file of the baseline over another one, which
\* is not the save of the turn.
UserCopiesSave(s, t) ==
  /\ rec.baseline # Nil /\ {s, t} \subseteq (files \cap rec.baseline) \ over
  /\ s # t /\ (cur = "other" \/ t \notin Range(hashes))
  /\ files' = files \ {t} /\ over' = over \cup {s}
  /\ OutsideRelay /\ UNCHANGED <<remote, writing, made, machine, budget>>

\* Relay is closed, or the machine restarted, at any point of a handler. It
\* opens the match again with the next tick. A reconcile cut short may have
\* cleared the journal.
RelayStops ==
  /\ budget.stop > 0 /\ budget' = [budget EXCEPT !.stop = @ - 1]
  /\ UNCHANGED rec \/ (pc = "reconcile" /\ rec' = JournalCleared)
  /\ ses' = NewSession /\ pc' = "idle" /\ cmd' = "none" /\ call' = Nil
  /\ out' = [state |-> Nil, intents |-> {}]
  /\ UNCHANGED <<remote, disk, machine>>

-----------------------------------------------------------------------------
Handler ==
  \/ Reconcile \/ AutoAttempt \/ Decide
  \/ CandidateGone \/ NothingToSend \/ CommitHandoff
  \/ Launch \/ PersistProcessAssociation
  \/ CloseEntitledAfterCommit \/ TrackCloseProgress \/ WatchClosing \/ UserTerminates
  \/ Snapshot \/ ProcessStatus

UserRequest == RequestStart \/ RequestSend \/ SelectCandidate \/ RequestCivClose \/ EditMatch

Environment ==
  \/ OtherMoves \/ CivSaveEnd
  \/ \E p \in Procs : CivLoads(p) \/ CivSaveBegin(p) \/ CivExits(p) \/ UserStartsCiv(p)
  \/ \E s \in Saves : UserRemovesSave(s) \/ \E t \in Saves : UserCopiesSave(s, t)

Next == Tick \/ Handler \/ UserRequest \/ Environment \/ RelayStops

Spec == Init /\ [][Next]_vars

\* The reconcile a tick begins with, late enough for all files seen to be stable.
LatePoll ==
  pc = "reconcile" /\ call.ret = "decide" /\ ReconcileMatch(rec.seen \cap files)

\* The poll timer keeps firing and handlers run to their end. Files nobody
\* writes to are found unchanged by later polls.
LiveSpec == Spec /\ WF_vars(Tick) /\ WF_vars(Handler) /\ SF_vars(LatePoll)

-----------------------------------------------------------------------------
(* Properties *)

Labels == {"idle", "opened", "reconcile", "decide", "decided", "commit", "launch", "persist", "close",
           "track", "watch", "user close", "snapshot", "second", "status"}

\* The types of the durable records and of the session.
Records ==
  [verified : Maybe(Nat), baseline : Maybe(SUBSET Saves), seen : SUBSET Saves,
   attempt : Maybe(Nat), candidate : Maybe(Saves), processed : SUBSET Saves,
   assoc : Maybe([proc : Procs, turn : Nat]),
   pending : Maybe([proc : Procs, turn : Nat, requested : BOOLEAN]),
   journal : Maybe(Saves), managed : BOOLEAN]

Sessions ==
  [obs : Maybe([proc : Procs, running : BOOLEAN]), autoKey : Maybe(Nat),
   lastAuto : Maybe(Saves), lastOut : Maybe(Saves), dirty : BOOLEAN,
   identity : Maybe(Procs), running : BOOLEAN, acted : Maybe(Nat),
   closing : Maybe(Procs), closed : BOOLEAN, auto : SUBSET Nat]

Evidence == [save : Saves, turn : Nat]

\* The steps at which a reconcile returns to its handler.
Returns == {"decide", "decided", "launch", "close", "track", "watch", "snapshot", "second", "status"}

Calls == [start : BOOLEAN, evidence : Maybe(Evidence), ret : Returns]

\* Types of the manifest, the records, the session and the handler.
TypeOK ==
  /\ hashes \in Seq(Saves) /\ cur \in {"local", "other"}
  /\ files \subseteq Saves /\ writing \in Maybe([save : Saves, proc : Procs])
  /\ made \in [Saves -> Maybe(Nat)] /\ over \subseteq Saves
  /\ game \in [Procs -> Maybe(Games)] /\ alive \subseteq {p \in Procs : game[p] # Nil}
  /\ rec \in Records /\ ses \in Sessions
  /\ pc \in Labels /\ cmd \in {"none", "tick", "start", "send", "select", "observe", "close"}
  /\ call \in Maybe(Calls) /\ (pc = "reconcile" => call \in Calls)
  /\ out.intents \subseteq {"CLOSE", "SEND", "START"}

\* Steps of Relay, unlike those of Civilization and its user, move the handler.
RelayTerminates(p) == p \in alive \ alive' /\ pc' # pc

RelayLaunches(p) == p \in alive' \ alive /\ pc' # pc

SentByTick(s) == hashes' = Append(hashes, s) /\ cmd = "tick" /\ pc' # pc

\* The durable entitlement to close a process (pending_post_commit_close)
\* names a process Relay launched for a turn whose save has been accepted,
\* whatever handler, restart or recovery of the journal wrote it.
EntitlementSound ==
  rec.pending # Nil =>
    /\ rec.pending.turn < Turn
    /\ game[rec.pending.proc].for = rec.pending.turn

\* Relay terminates no process but one it launched itself, and only after the
\* turn it launched it for was handed over (terminate_after_commit).
TerminatesOnlyCommitted ==
  [][\A p \in Procs : RelayTerminates(p) => game[p].for \in 0..(Turn - 1)]_vars

\* While Relay keeps running, polling does not launch Civilization for a turn
\* again once it has counted a launch for it (auto_launch_attempted_key), unless
\* the user asks for a start in between (tick, decide_intents).
OneAutomaticLaunch ==
  [][\A p \in Procs : RelayLaunches(p) /\ cmd = "tick" => rec.verified \notin ses.auto]_vars

\* What Relay offers to send was not in the directory when Civilization was
\* last started, or has been put over another of the files there since: capturing
\* a baseline forgets the candidate found before. The exception is the code's, the
\* documents exclude every save of the baseline (SYNC_PROTOCOL.md 6.2).
CandidateIsNew ==
  rec.candidate # Nil =>
    rec.baseline # Nil /\ (rec.candidate \in rec.baseline => rec.candidate \in over)

\* In standard mode Relay terminates nothing, launches only what the user asked
\* to start, and a tick sends nothing, whatever was intended, marked or asked
\* for while the match was in fully managed mode (DESIGN_SPEC.md 8.5).
StandardActsOnRequest ==
  [][~Managed =>
       /\ \A p \in Procs : ~RelayTerminates(p) /\ (RelayLaunches(p) => cmd = "start")
       /\ \A s \in Saves : ~SentByTick(s)]_vars

\* A save the records write off as sent (processed_outgoing_hashes) is one the
\* match has accepted: no save the player made is silently never offered again.
ProcessedAccepted == rec.processed \subseteq Range(hashes)

\* An entitlement to close Civilization is used or falls away, across a stop
\* of Relay too (_track_close_progress).
EntitlementUsed == rec.pending # Nil ~> rec.pending = Nil

\* The local player's turn lies there, no Civilization runs, and none was ever
\* started for it, though at most one save waits to be sent.
TurnNotStarted ==
  /\ cur = "local" /\ alive = {}
  /\ \A p \in Procs : game[p] # Nil => game[p].for # Turn
  /\ \E p \in Procs : game[p] = Nil
  /\ Cardinality(files \ Range(hashes)) < 2

\* Relay launches Civilization for a turn, after a launch deferred because of
\* another Civilization or a stop of Relay too, unless its launch is on record as
\* attempted (launch_attempt) and this run of Relay has had the one attempt it
\* grants in spite of the record (auto_launch_attempted_key). Both come together
\* without a launch where the file watcher lets a snapshot reconcile, whose
\* intent to start nobody acts on; guard.py:207-212 promises the retry there too.
TurnStartedOrSpent ==
  []<>(TurnNotStarted => rec.attempt = Turn /\ ses.autoKey = Turn)

-----------------------------------------------------------------------------
(* Statements of the documents that the code does not keep *)

\* A save sent by polling was made during the turn it ends.
OnlySavesOfTheTurn ==
  [][\A s \in Saves : SentByTick(s) => made[s] = Turn]_vars
=============================================================================
