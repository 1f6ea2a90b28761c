-------------------------- MODULE TurnCycleProofs --------------------------
(***************************************************************************)
(* Proofs about the turn cycle, for any number of saves, processes, stops, *)
(* faults and requests and in both modes. What Relay may terminate is      *)
(* decided long before it terminates, from records that other handlers     *)
(* wrote; the invariant follows the process of a turn from its launch over *)
(* its association to the entitlement.                                     *)
(***************************************************************************)
EXTENDS TurnCycle, FiniteSetTheorems, TLAPS

\* Process p was launched by Relay for turn t, with g the processes known.
LaunchedFor(g, p, t) == g[p] # Nil /\ g[p].for = t

\* Records r speak of processes g, of t accepted turns, and of the saves o put
\* over others, as they are.
GoodRecords(r, g, t, o) ==
  /\ r \in Records
  /\ r.assoc # Nil => LaunchedFor(g, r.assoc.proc, r.assoc.turn)
  /\ r.pending # Nil => r.pending.turn < t /\ LaunchedFor(g, r.pending.proc, r.pending.turn)
  /\ r.candidate # Nil => r.baseline # Nil /\ (r.candidate \in r.baseline => r.candidate \in o)

\* A start is intended for a verified turn only, a process just launched is the
\* session's until it is recorded, and what the user closes was entitled.
HandlerInv ==
  /\ "START" \in out.intents => rec.verified # Nil
  /\ pc = "persist" => /\ ses.identity # Nil /\ rec.verified # Nil
                       /\ LaunchedFor(game, ses.identity, rec.verified)
  /\ pc = "user close" => rec.pending # Nil

CycleInv == TypeOK /\ GoodRecords(rec, game, Turn, over) /\ HandlerInv

\* What a step leaves that is no reconcile: processes known stay what they were,
\* and accepted turns stay accepted.
Onward ==
  /\ Turn \in Nat /\ Turn' \in Nat /\ Turn <= Turn' /\ over \subseteq over'
  /\ \A p \in Procs : game[p] # Nil => game'[p] # Nil /\ game'[p].for = game[p].for

LEMMA OnwardKeeps ==
  ASSUME Onward, NEW r, GoodRecords(r, game, Turn, over)
  PROVE  GoodRecords(r, game', Turn', over')
BY DEF Onward, GoodRecords, LaunchedFor, Records, Maybe

-----------------------------------------------------------------------------
(* The records a reconcile computes *)

\* Exact evidence of a committed turn grants nothing but the process that was
\* launched for that turn.
LEMMA EvidenceApplied ==
  ASSUME NEW r, GoodRecords(r, game, Turn, over), NEW ev \in Evidence, ev.turn < Turn
  PROVE  /\ GoodRecords(ApplyExactHandoffEvidence(r, ev), game, Turn, over)
         /\ ApplyExactHandoffEvidence(r, ev).verified = r.verified
<1> DEFINE pending == IF r.pending = Nil /\ r.assoc # Nil /\ r.assoc.turn = ev.turn
                      THEN [proc |-> r.assoc.proc, turn |-> ev.turn, requested |-> FALSE]
                      ELSE r.pending
           applied == [r EXCEPT !.processed = @ \cup {ev.save}, !.candidate = Nil,
                                !.journal = Nil, !.pending = pending]
<1>1. r \in Records
  BY DEF GoodRecords
<1>2. ApplyExactHandoffEvidence(r, ev) \in {r, applied}
  BY <1>1 DEF ApplyExactHandoffEvidence, Records
<1>3. /\ pending \in Maybe([proc : Procs, turn : Nat, requested : BOOLEAN])
      /\ pending # Nil => pending.turn < Turn /\ LaunchedFor(game, pending.proc, pending.turn)
  BY DEF GoodRecords, Records, Maybe, Evidence
<1> HIDE DEF pending
<1>4. applied \in Records
  BY <1>1, <1>3 DEF Records, Maybe, Evidence
<1>5. /\ applied.assoc = r.assoc /\ applied.pending = pending /\ applied.candidate = Nil
      /\ applied.verified = r.verified
  BY <1>1 DEF Records
<1>6. GoodRecords(applied, game, Turn, over)
  BY <1>3, <1>4, <1>5 DEF GoodRecords
<1> QED
  BY <1>2, <1>5, <1>6

LEMMA JournalEvidenceType ==
  ASSUME TypeOK
  PROVE  JournalEvidence # Nil => JournalEvidence \in Evidence /\ JournalEvidence.turn < Turn
BY DEF TypeOK, JournalEvidence, Turn, Evidence, Records, Maybe

LEMMA DropKeeps ==
  ASSUME NEW r, GoodRecords(r, game, Turn, over)
  PROVE  /\ GoodRecords([r EXCEPT !.pending = DropExited(@)], game, Turn, over)
         /\ [r EXCEPT !.pending = DropExited(@)].verified = r.verified
<1>1. r \in Records /\ DropExited(r.pending) \in {r.pending, Nil}
  BY DEF GoodRecords, DropExited
<1> QED
  BY <1>1 DEF GoodRecords, Records, Maybe

LEMMA VerifiedKeeps ==
  ASSUME TypeOK, NEW r, GoodRecords(r, game, Turn, over)
  PROVE  /\ GoodRecords([r EXCEPT !.verified = Turn], game, Turn, over)
         /\ [r EXCEPT !.verified = Turn].verified = Turn
<1>1. Turn \in Nat
  BY DEF TypeOK, Turn
<1> QED
  BY <1>1 DEF GoodRecords, Records, Maybe

\* The journal adds evidence of a turn that was accepted, and what follows from it.
LEMMA RecoveredGood ==
  ASSUME TypeOK, GoodRecords(rec, game, Turn, over), NEW e \in Maybe(Evidence)
  PROVE  /\ GoodRecords(Recovered(e).rec, game, Turn, over)
         /\ Recovered(e).rec.verified = rec.verified /\ Recovered(e).ev \in Maybe(Evidence)
<1>1. CASE e # Nil \/ JournalEvidence = Nil
  BY <1>1 DEF Recovered
<1>2. CASE ~(e # Nil \/ JournalEvidence = Nil)
  <2>1. JournalEvidence \in Evidence /\ JournalEvidence.turn < Turn
    BY <1>2, JournalEvidenceType
  <2>2. /\ Recovered(e).rec = ApplyExactHandoffEvidence(rec, JournalEvidence)
        /\ Recovered(e).ev = JournalEvidence
    BY <1>2 DEF Recovered
  <2> QED
    BY <2>1, <2>2, EvidenceApplied DEF Maybe
<1> QED
  BY <1>1, <1>2

\* Evidence speaks of the manifest just read, or counts for nothing.
LEMMA AttributedGood ==
  ASSUME TypeOK, GoodRecords(rec, game, Turn, over), NEW e \in Maybe(Evidence)
  PROVE  /\ GoodRecords(Attributed(e).rec, game, Turn, over)
         /\ Attributed(e).rec.verified = Turn
<1> DEFINE given     == Recovered(e).ev
           ev        == IF EvidenceCurrent(given) THEN given ELSE Nil
           recovered == Recovered(e).rec
           verified  == [recovered EXCEPT !.verified = Turn]
           applied   == IF ev = Nil THEN verified ELSE ApplyExactHandoffEvidence(verified, ev)
<1>1. GoodRecords(recovered, game, Turn, over)
  BY RecoveredGood
<1>2. GoodRecords(verified, game, Turn, over) /\ verified.verified = Turn
  BY <1>1, VerifiedKeeps
<1>3. ev # Nil => ev \in Evidence /\ ev.turn < Turn
  <2>1. ev # Nil => given # Nil /\ ev = given /\ given.turn + 1 = Turn
    BY DEF EvidenceCurrent
  <2>2. given # Nil => given \in Evidence
    BY RecoveredGood DEF Maybe
  <2> QED
    BY <2>1, <2>2 DEF Evidence
<1>4. GoodRecords(applied, game, Turn, over) /\ applied.verified = Turn
  BY <1>2, <1>3, EvidenceApplied
<1>5. Attributed(e).rec = [applied EXCEPT !.pending = DropExited(@)]
  BY DEF Attributed
<1> HIDE DEF applied
<1> QED
  BY <1>4, <1>5, DropKeeps

\* The journal cleared ahead of the other records disturbs none of them.
LEMMA JournalClearedGood ==
  ASSUME TypeOK, GoodRecords(rec, game, Turn, over), call \in Calls
  PROVE  GoodRecords(JournalCleared, game, Turn, over) /\ JournalCleared.verified = rec.verified
<1>1. Attributed(call.evidence).rec.journal \in Maybe(Saves) /\ rec \in Records
  BY AttributedGood DEF GoodRecords, Records, Calls
<1> QED
  BY <1>1 DEF JournalCleared, GoodRecords, Records, Maybe

\* A detected candidate is a file that the baseline does not know, or that was put
\* over another one since.
LEMMA DetectionGood ==
  ASSUME TypeOK, NEW r, GoodRecords(r, game, Turn, over), NEW present \in SUBSET Saves,
         NEW stable, NEW fails \in BOOLEAN
  PROVE  LET det == Detect(r, present, stable, fails)
         IN /\ GoodRecords(ApplyDetection(r, det), game, Turn, over)
            /\ ApplyDetection(r, det).verified = r.verified
            /\ \A s \in det.candidates : GoodRecords([ApplyDetection(r, det)
                                                        EXCEPT !.candidate = s], game, Turn, over)
<1> DEFINE det == Detect(r, present, stable, fails)
           now == ApplyDetection(r, det)
<1>0. r \in Records
  BY DEF GoodRecords
<1>1. /\ det.candidates \subseteq Saves /\ det.seen \subseteq Saves
      /\ \A s \in det.candidates : r.baseline # Nil /\ (s \in r.baseline => s \in over)
      /\ det.outcome = "ONE_CANDIDATE" => det.candidates # {}
  <2>1. CASE r.baseline = Nil \/ fails
    BY <2>1 DEF Detect
  <2>2. CASE ~(r.baseline = Nil \/ fails)
    <3> DEFINE potential == present \ KnownSaves(r)
               ready     == potential \cap stable
    <3>1. /\ det.candidates = ready /\ det.seen = r.seen \cup potential
          /\ det.outcome = CASE Cardinality(ready) > 1 -> "MULTIPLE_CANDIDATES"
                             [] Cardinality(ready) = 1 -> "ONE_CANDIDATE"
                             [] ready = {} -> IF potential # {} \/ writing # Nil
                                              THEN "STABILIZING" ELSE "NO_CANDIDATE"
      BY <2>2 DEF Detect
    <3>2. ready = {} => Cardinality(ready) = 0
      BY FS_EmptySet
    <3>3. ready = {} => det.outcome # "ONE_CANDIDATE"
      BY <3>1, <3>2
    <3> QED
      BY <1>0, <2>2, <3>1, <3>3 DEF KnownSaves, Records
  <2> QED
    BY <2>1, <2>2
<1>2. \E c \in det.candidates \cup {r.candidate, Nil} :
        now = [r EXCEPT !.seen = det.seen, !.candidate = c]
  <2> DEFINE chosen == CHOOSE s \in det.candidates : TRUE
  <2>1. det.outcome = "ONE_CANDIDATE" => chosen \in det.candidates
    BY <1>1
  <2> HIDE DEF det
  <2>2. now = [r EXCEPT !.seen = det.seen,
                 !.candidate = CASE det.outcome = "ONE_CANDIDATE" -> chosen
                                 [] det.outcome = "MULTIPLE_CANDIDATES" -> Nil
                                 [] OTHER -> @]
    BY DEF ApplyDetection
  <2> QED
    BY <1>0, <2>1, <2>2 DEF Records
<1>3. \A c \in det.candidates \cup {r.candidate, Nil} :
        /\ GoodRecords([r EXCEPT !.seen = det.seen, !.candidate = c], game, Turn, over)
        /\ [r EXCEPT !.seen = det.seen, !.candidate = c].verified = r.verified
  <2> HIDE DEF det
  <2> QED
    BY <1>0, <1>1 DEF GoodRecords, Records, Maybe
<1>4. \A s \in det.candidates :
        [now EXCEPT !.candidate = s] = [r EXCEPT !.seen = det.seen, !.candidate = s]
  <2> HIDE DEF det, now
  <2> QED
    BY <1>0, <1>2 DEF Records
<1> HIDE DEF det, now
<1>5. /\ GoodRecords(now, game, Turn, over) /\ now.verified = r.verified
      /\ \A s \in det.candidates : GoodRecords([now EXCEPT !.candidate = s], game, Turn, over)
  <2>1. GoodRecords(now, game, Turn, over) /\ now.verified = r.verified
    <3>1. PICK c \in det.candidates \cup {r.candidate, Nil} :
            now = [r EXCEPT !.seen = det.seen, !.candidate = c]
      BY <1>2
    <3> DEFINE chosen == [r EXCEPT !.seen = det.seen, !.candidate = c]
    <3>2. GoodRecords(chosen, game, Turn, over) /\ chosen.verified = r.verified
      BY <1>3
    <3>3. now = chosen
      BY <3>1
    <3> HIDE DEF chosen
    <3> QED
      BY <3>2, <3>3
  <2>2. \A s \in det.candidates : GoodRecords([now EXCEPT !.candidate = s], game, Turn, over)
    BY <1>3, <1>4
  <2> QED
    BY <2>1, <2>2
<1> QED
  BY <1>5 DEF det, now

LEMMA LookedAtGood ==
  ASSUME TypeOK, NEW r, GoodRecords(r, game, Turn, over), NEW stable, NEW fault
  PROVE  LET look == LookedAt(r, stable, fault)
         IN /\ GoodRecords(look.rec, game, Turn, over) /\ look.rec.verified = r.verified
            /\ look.files \subseteq Saves
<1> DEFINE ready   == cur = "local" /\ (Turn = 0 \/ fault # "download")
           present == IF ready /\ Turn > 0 THEN files \cup {hashes[Turn]} ELSE files
           det     == IF ready THEN Detect(r, present, stable, fault = "scan") ELSE Nil
<1>1. present \in SUBSET Saves
  BY DEF TypeOK, Turn
<1>2. ready => LET d == Detect(r, present, stable, fault = "scan")
               IN GoodRecords(ApplyDetection(r, d), game, Turn, over)
                  /\ ApplyDetection(r, d).verified = r.verified
  BY <1>1, DetectionGood
<1>3. LookedAt(r, stable, fault)
        = [rec |-> IF ready THEN ApplyDetection(r, det) ELSE r, files |-> present, det |-> det]
  BY DEF LookedAt
<1>4. /\ LookedAt(r, stable, fault).rec = IF ready THEN ApplyDetection(r, det) ELSE r
      /\ LookedAt(r, stable, fault).files = present
  BY <1>3
<1>5. ready => det = Detect(r, present, stable, fault = "scan")
  OBVIOUS
<1> HIDE DEF present, ready, det
<1> QED
  BY <1>1, <1>2, <1>4, <1>5

LEMMA ConcludedGood ==
  ASSUME NEW look, GoodRecords(look.rec, game, Turn, over), look.files \subseteq Saves,
         NEW ev, NEW start, NEW fault
  PROVE  LET done == Concluded(ev, look, start, fault)
         IN /\ GoodRecords(done.rec, game, Turn, done.over) /\ done.over \subseteq over
            /\ done.rec.verified = look.rec.verified
            /\ done.out.intents \subseteq {"CLOSE", "SEND", "START"}
<1> DEFINE state    == OperationalState(look.rec, ev, look.det)
           intents  == DecideIntents(state, look.rec, ev, look.det, start)
           closed   == IF "CLOSE" \in intents
                       THEN [look.rec EXCEPT !.pending.requested = TRUE] ELSE look.rec
           starting == "START" \in intents /\ fault # "capture"
<1>1. intents \subseteq {"CLOSE", "SEND", "START"}
  BY DEF DecideIntents
<1>2. "CLOSE" \in intents => look.rec.pending # Nil
  BY DEF DecideIntents, WantsClose
<1>3. Concluded(ev, look, start, fault) =
        [rec  |-> IF starting THEN CaptureBaseline(closed, look.files) ELSE closed,
         over |-> IF starting THEN {} ELSE over,
         out  |-> [state |-> state, intents |-> IF starting THEN intents ELSE intents \ {"START"}]]
  BY DEF Concluded
<1> HIDE DEF intents, state
<1>4. GoodRecords(closed, game, Turn, over) /\ closed.verified = look.rec.verified
  BY <1>2 DEF GoodRecords, Records, Maybe
<1> HIDE DEF closed
<1>5. /\ GoodRecords(CaptureBaseline(closed, look.files), game, Turn, {})
      /\ CaptureBaseline(closed, look.files).verified = closed.verified
  BY <1>4 DEF GoodRecords, Records, Maybe, CaptureBaseline
<1> HIDE DEF starting
<1>6. LET done == Concluded(ev, look, start, fault)
      IN /\ done.rec = IF starting THEN CaptureBaseline(closed, look.files) ELSE closed
         /\ done.over = IF starting THEN {} ELSE over
         /\ done.out.intents \subseteq intents
  BY <1>3
<1> QED
  BY <1>1, <1>4, <1>5, <1>6

-----------------------------------------------------------------------------
(* The steps *)

\* A call of reconcile returns to a step that asks nothing of the records.
LEMMA ReconcileStep ==
  ASSUME CycleInv, NEW stable, ReconcileMatch(stable)
  PROVE  CycleInv'
<1> USE DEF remote, machine
<1>0. /\ TypeOK /\ GoodRecords(rec, game, Turn, over) /\ HandlerInv /\ rec \in Records
      /\ pc = "reconcile" /\ call \in Calls /\ ses \in Sessions
  BY DEF CycleInv, ReconcileMatch, TypeOK
<1>1. /\ ses' \in Sessions /\ pc' \in Returns /\ call' = Nil
      /\ UNCHANGED <<hashes, cur, writing, made, alive, game, cmd>> /\ Turn' = Turn
  BY <1>0 DEF ReconcileMatch, Sessions, Turn, Calls
<1>2. /\ rec' \in Records /\ GoodRecords(rec', game, Turn, over') /\ files' \subseteq Saves
      /\ over' \subseteq Saves
      /\ out'.intents \subseteq {"CLOSE", "SEND", "START"}
      /\ "START" \in out'.intents => rec'.verified # Nil
  <2>1. CASE ReconcileFailed
    <3>1. /\ files' = files /\ over' = over /\ out'.intents \subseteq {"CLOSE"}
          /\ rec' \in {rec, JournalCleared, Recovered(call.evidence).rec}
      BY <2>1 DEF ReconcileFailed
    <3>2. GoodRecords(rec', game, Turn, over) /\ call.evidence \in Maybe(Evidence)
      BY <1>0, <3>1, RecoveredGood, JournalClearedGood DEF Calls
    <3> QED
      BY <1>0, <3>1, <3>2 DEF TypeOK, GoodRecords
  <2>2. ASSUME NEW fault,
               \E a \in {Attributed(call.evidence)} :
               \E look \in {LookedAt(a.rec, stable, fault)} :
               \E done \in {Concluded(a.ev, look, call.start, fault)} :
                 rec' = done.rec /\ files' = look.files /\ over' = done.over /\ out' = done.out
        PROVE  /\ GoodRecords(rec', game, Turn, over') /\ rec'.verified = Turn
               /\ files' \subseteq Saves /\ over' \subseteq Saves
               /\ out'.intents \subseteq {"CLOSE", "SEND", "START"}
    <3> DEFINE a    == Attributed(call.evidence)
               look == LookedAt(a.rec, stable, fault)
               done == Concluded(a.ev, look, call.start, fault)
    <3>1. rec' = done.rec /\ files' = look.files /\ over' = done.over /\ out' = done.out
      BY <2>2
    <3>2. GoodRecords(a.rec, game, Turn, over) /\ a.rec.verified = Turn
      BY <1>0, AttributedGood DEF Calls
    <3> HIDE DEF a
    <3>3. /\ GoodRecords(look.rec, game, Turn, over) /\ look.rec.verified = Turn
          /\ look.files \subseteq Saves
      BY <1>0, <3>2, LookedAtGood
    <3> HIDE DEF look
    <3>4. /\ GoodRecords(done.rec, game, Turn, done.over) /\ done.rec.verified = Turn
          /\ done.over \subseteq Saves
          /\ done.out.intents \subseteq {"CLOSE", "SEND", "START"}
      BY <1>0, <3>3, ConcludedGood DEF TypeOK
    <3> HIDE DEF done
    <3> QED
      BY <3>1, <3>3, <3>4
  <2>3. \/ ReconcileFailed
        \/ \E fault \in {Nil} \cup LocalFaults :
             \E a \in {Attributed(call.evidence)} :
             \E look \in {LookedAt(a.rec, stable, fault)} :
             \E done \in {Concluded(a.ev, look, call.start, fault)} :
               rec' = done.rec /\ files' = look.files /\ over' = done.over /\ out' = done.out
    BY DEF ReconcileMatch
  <2>4. Turn # Nil
    BY <1>0, ConstantsAssumption DEF TypeOK, Turn
  <2> QED
    BY <2>1, <2>2, <2>3, <2>4 DEF GoodRecords
<1>3. TypeOK'
  BY <1>0, <1>1, <1>2 DEF TypeOK, Returns, Labels, Maybe
<1>4. HandlerInv'
  BY <1>1, <1>2 DEF HandlerInv, Returns
<1> QED
  BY <1>1, <1>2, <1>3, <1>4 DEF CycleInv

\* A step that leaves the records, or forgets what they were about to use.
LEMMA FrameStep ==
  ASSUME CycleInv, TypeOK', Onward, rec' = rec, HandlerInv'
  PROVE  CycleInv'
BY OnwardKeeps DEF CycleInv

\* Observations and probes keep the type of the session.
LEMMA SessionTypes ==
  ASSUME NEW s \in Sessions, NEW p \in Procs, NEW up \in BOOLEAN
  PROVE  /\ Probe(s, p) \in Sessions /\ Observe(s, p, up) \in Sessions
         /\ NoteSafelyClosed(s) \in Sessions
         /\ [s EXCEPT !.closing = p] \in Sessions
         /\ [s EXCEPT !.closing = p, !.closed = FALSE] \in Sessions
         /\ \A t \in Nat : [s EXCEPT !.acted = t, !.closed = FALSE] \in Sessions
<1>1. Probe(s, p) \in Sessions
  <2> DEFINE still == s.running /\ s.identity # p
  <2>1. Probe(s, p) = IF p \in alive THEN [s EXCEPT !.identity = p, !.running = TRUE]
                                     ELSE [s EXCEPT !.running = still]
    BY DEF Probe, Sessions
  <2>2. still \in BOOLEAN
    BY DEF Sessions
  <2> HIDE DEF still
  <2> QED
    BY <2>1, <2>2 DEF Sessions, Maybe
<1>2. Observe(s, p, up) \in Sessions
  BY DEF Observe, Sessions, Maybe
<1>3. NoteSafelyClosed(s) \in Sessions
  BY DEF NoteSafelyClosed, Sessions
<1>4. /\ [s EXCEPT !.closing = p] \in Sessions
      /\ [s EXCEPT !.closing = p, !.closed = FALSE] \in Sessions
  BY DEF Sessions, Maybe
<1>5. \A t \in Nat : [s EXCEPT !.acted = t, !.closed = FALSE] \in Sessions
  BY DEF Sessions, Maybe
<1> QED
  BY <1>1, <1>2, <1>3, <1>4, <1>5

\* The records stay good when a close is marked as requested.
LEMMA MarkKeeps ==
  ASSUME GoodRecords(rec, game, Turn, over), rec.pending # Nil, MarkCloseRequested
  PROVE  GoodRecords(rec', game, Turn, over) /\ rec'.verified = rec.verified
<1>1. rec.pending \in [proc : Procs, turn : Nat, requested : BOOLEAN]
  BY DEF GoodRecords, Records, Maybe
<1>2. /\ rec' = [rec EXCEPT !.pending.requested = TRUE] /\ rec \in Records
  BY DEF MarkCloseRequested, GoodRecords
<1>3. rec'.pending = [rec.pending EXCEPT !.requested = TRUE]
  BY <1>2 DEF Records
<1> QED
  BY <1>1, <1>2, <1>3 DEF GoodRecords, Records, Maybe

\* The handler goes to a step, or to a reconcile whose arguments are there.
Moved == /\ pc' \in Labels /\ call' \in Maybe(Calls)
         /\ pc' = "reconcile" => call' \in Calls

LEMMA CallMoves ==
  ASSUME NEW start \in BOOLEAN, NEW e \in Maybe(Evidence), NEW ret \in Returns,
         CallReconcile(start, e, ret)
  PROVE  Moved /\ pc' = "reconcile"
BY DEF Moved, CallReconcile, Calls, Labels, Maybe

LEMMA GotoMoves ==
  ASSUME TypeOK, NEW label \in Labels \ {"reconcile"}, Goto(label)
  PROVE  Moved /\ pc' = label
BY DEF Moved, Goto, TypeOK

\* What a termination, refused, failed or done, does to the records, the
\* session and the processes.
LEMMA TerminateStep ==
  ASSUME CycleInv, rec.pending # Nil, NEW user \in BOOLEAN,
         NEW next \in {"track", "watch", "snapshot"}, TerminatePendingClose(user, next),
         UNCHANGED <<remote, files, made, over, game, cmd, out>>
  PROVE  CycleInv' /\ alive' \in {alive, alive \ {rec.pending.proc}}
<1> DEFINE p       == rec.pending.proc
           closing == [ses EXCEPT !.closing = p]
           acting  == [Probe(closing, p) EXCEPT !.acted = rec.pending.turn, !.closed = FALSE]
<1> USE DEF remote
<1>0. /\ TypeOK /\ HandlerInv /\ ses \in Sessions /\ GoodRecords(rec, game, Turn, over)
      /\ p \in Procs /\ rec.pending.turn \in Nat
  BY DEF CycleInv, TypeOK, GoodRecords, Records, Maybe
<1>1. /\ closing \in Sessions /\ NoteSafelyClosed(closing) \in Sessions
      /\ acting \in Sessions /\ NoteSafelyClosed(acting) \in Sessions
  <2>1. closing \in Sessions
    BY <1>0, SessionTypes
  <2> HIDE DEF closing
  <2>2. Probe(closing, p) \in Sessions
    BY <1>0, <2>1, SessionTypes
  <2>3. acting \in Sessions
    BY <1>0, <2>2, SessionTypes
  <2> HIDE DEF acting
  <2> QED
    BY <1>0, <2>1, <2>3, SessionTypes
<1> HIDE DEF closing, acting
<1>g. next \in Returns /\ next \in Labels \ {"reconcile"} /\ Nil \in Maybe(Evidence)
  BY DEF Returns, Labels, Maybe
<1>2. ASSUME NEW s \in Sessions, TerminateAnswered(s, next)
      PROVE  ses' \in Sessions /\ Moved /\ pc' \in {next, "reconcile"}
  <2>1. Observe(s, p, FALSE) \in Sessions
    BY <1>0, SessionTypes
  <2> QED
    BY <1>0, <1>2, <1>g, <2>1, CallMoves, GotoMoves DEF TerminateAnswered
<1>3. /\ ses' \in Sessions /\ alive' \in {alive, alive \ {p}} /\ writing' \in {writing, Nil}
      /\ rec' = rec \/ MarkCloseRequested
      /\ Moved /\ pc' \in {next, "reconcile"}
  <2>1. CASE ~user /\ ses.acted = rec.pending.turn
             /\ Goto(next) /\ UNCHANGED <<rec, ses, alive, writing, budget>>
    BY <1>0, <1>g, <2>1, GotoMoves
  <2>2. CASE MarkCloseRequested /\ UNCHANGED <<alive, writing>>
             /\ \E s \in {NoteSafelyClosed(closing), ses, acting} : TerminateAnswered(s, next)
    BY <1>0, <1>1, <1>2, <2>2
  <2>3. CASE MarkCloseRequested /\ alive' = alive \ {p} /\ writing' = KilledWriting(p)
             /\ \E s \in {NoteSafelyClosed(acting), acting} : TerminateAnswered(s, next)
    BY <1>0, <1>1, <1>2, <2>3 DEF KilledWriting
  <2> QED
    BY <2>1, <2>2, <2>3 DEF TerminatePendingClose, closing, acting
<1>4. GoodRecords(rec', game, Turn, over) /\ rec'.verified = rec.verified
  BY <1>0, <1>3, MarkKeeps
<1>5. Turn' = Turn
  BY DEF Turn
<1>6. TypeOK'
  <2>1. /\ rec' \in Records /\ ses' \in Sessions /\ alive' \subseteq {q \in Procs : game'[q] # Nil}
        /\ writing' \in Maybe([save : Saves, proc : Procs])
    BY <1>0, <1>3, <1>4 DEF TypeOK, GoodRecords, Maybe
  <2> QED
    BY <1>0, <1>3, <2>1 DEF TypeOK, Moved
<1>7. HandlerInv'
  BY <1>0, <1>3, <1>4 DEF HandlerInv
<1> QED
  BY <1>3, <1>4, <1>5, <1>6, <1>7 DEF CycleInv

Commands == {"none", "tick", "start", "send", "select", "observe", "close"}

\* Steps of a handler between its effects on files and processes.
LEMMA QuietStep ==
  ASSUME CycleInv, UNCHANGED <<remote, disk, machine, out>>,
         GoodRecords(rec', game, Turn, over), rec'.verified = rec.verified,
         ses' \in Sessions, cmd' \in Commands, Moved, pc' \notin {"persist", "user close"}
  PROVE  CycleInv'
<1> USE DEF remote, disk, machine
<1>1. Turn' = Turn
  BY DEF Turn
<1>2. TypeOK'
  BY DEF CycleInv, TypeOK, GoodRecords, Moved, Commands
<1>3. HandlerInv'
  BY DEF CycleInv, HandlerInv
<1> QED
  BY <1>1, <1>2, <1>3 DEF CycleInv

LEMMA TickStep ==
  ASSUME CycleInv, Tick \/ AutoAttempt \/ Decide \/ RequestStart \/ RequestSend
                     \/ CandidateGone \/ NothingToSend \/ Snapshot \/ EditMatch
  PROVE  CycleInv'
<1>0. /\ TypeOK /\ GoodRecords(rec, game, Turn, over) /\ rec \in Records /\ ses \in Sessions
      /\ cmd \in Commands /\ Nil \in Maybe(Evidence)
  BY DEF CycleInv, TypeOK, Commands, Maybe
<1>1. Probed \in Sessions
  <2>1. rec.assoc # Nil => rec.assoc.proc \in Procs
    BY <1>0 DEF Records, Maybe
  <2>2. rec.assoc # Nil => Probe(ses, rec.assoc.proc) \in Sessions
    BY <1>0, <2>1, SessionTypes
  <2>3. \A up \in BOOLEAN : rec.assoc # Nil =>
          Observe(Probe(ses, rec.assoc.proc), rec.assoc.proc, up) \in Sessions
    BY <2>1, <2>2, SessionTypes
  <2> DEFINE up == rec.assoc.proc \in alive
  <2>4. up \in BOOLEAN
    OBVIOUS
  <2>5. Probed = IF rec.assoc = Nil THEN ses
                 ELSE Observe(Probe(ses, rec.assoc.proc), rec.assoc.proc, up)
    BY DEF Probed
  <2> HIDE DEF up
  <2> QED
    BY <1>0, <2>3, <2>4, <2>5
<1>2. CASE Tick
  <2>1. ses' \in Sessions /\ cmd' \in Commands
    BY <1>0, <1>1, <1>2 DEF Tick, Commands
  <2>2. Moved /\ pc' = "reconcile"
    BY <1>0, <1>2, CallMoves DEF Tick, Returns
  <2> QED
    BY <1>0, <1>2, <2>1, <2>2, QuietStep DEF Tick
<1>3. CASE AutoAttempt
  <2>1. Moved /\ pc' = "reconcile"
    BY <1>0, <1>3, CallMoves DEF AutoAttempt, Returns
  <2> QED
    BY <1>0, <1>3, <2>1, QuietStep DEF AutoAttempt
<1>4. CASE Decide
  <2>1. ses' \in Sessions
    BY <1>0, <1>4 DEF Decide, Sessions, Records
  <2>2. Moved /\ pc' \in {"commit", "launch"}
    BY <1>0, <1>4, GotoMoves DEF Decide, Labels
  <2> QED
    BY <1>0, <1>4, <2>1, <2>2, QuietStep DEF Decide
<1>5. CASE RequestStart
  <2>1. [Probed EXCEPT !.auto = @ \ {Turn}] \in Sessions
    BY <1>1 DEF Sessions
  <2>2. ses' \in Sessions /\ cmd' \in Commands
    BY <1>5, <2>1 DEF RequestStart, Commands
  <2>3. Moved /\ pc' = "reconcile"
    BY <1>0, <1>5, CallMoves DEF RequestStart, Returns
  <2> QED
    BY <1>0, <1>5, <2>2, <2>3, QuietStep DEF RequestStart
<1>6. CASE RequestSend
  <2>1. Moved /\ pc' = "commit"
    BY <1>0, <1>6, GotoMoves DEF RequestSend, Labels
  <2> QED
    BY <1>0, <1>6, <2>1, QuietStep DEF RequestSend, Commands
<1>7. CASE CandidateGone \/ NothingToSend
  <2>1. Moved /\ pc' \in {"idle", "snapshot"}
    BY <1>0, <1>7, GotoMoves DEF CandidateGone, NothingToSend, RaiseError, AfterError, Labels
  <2>2. GoodRecords(rec', game, Turn, over) /\ rec'.verified = rec.verified
    BY <1>0, <1>7 DEF CandidateGone, NothingToSend, GoodRecords, Records, Maybe
  <2> QED
    BY <1>0, <1>7, <2>1, <2>2, QuietStep DEF CandidateGone, NothingToSend
<1>8. CASE Snapshot
  <2>1. Moved /\ pc' \in {"reconcile", "status"}
    BY <1>0, <1>8, CallMoves, GotoMoves DEF Snapshot, Returns, Labels
  <2> QED
    BY <1>0, <1>8, <2>1, QuietStep DEF Snapshot
<1>9. CASE EditMatch
  <2>1. Moved /\ pc' \in {"opened", "snapshot"}
    BY <1>0, <1>9, GotoMoves DEF EditMatch, Labels
  <2>2. GoodRecords(rec', game, Turn, over) /\ rec'.verified = rec.verified
    BY <1>0, <1>9, ConstantsAssumption DEF EditMatch, GoodRecords, Records
  <2> QED
    BY <1>0, <1>9, <2>1, <2>2, QuietStep DEF EditMatch
<1> QED
  BY <1>2, <1>3, <1>4, <1>5, <1>6, <1>7, <1>8, <1>9

\* The looks at a process being closed, and the requests of the user.
LEMMA WatchStep ==
  ASSUME CycleInv, WatchClosing \/ ProcessStatus \/ SelectCandidate
  PROVE  CycleInv'
<1>0. /\ TypeOK /\ GoodRecords(rec, game, Turn, over) /\ rec \in Records /\ ses \in Sessions
      /\ cmd \in Commands /\ Nil \in Maybe(Evidence)
      /\ ses.closing # Nil => ses.closing \in Procs
  BY DEF CycleInv, TypeOK, Commands, Maybe, Sessions
<1>1. CASE WatchClosing
  <2>1. ses' \in Sessions
    <3>1. ses.closing \in Procs => /\ NoteSafelyClosed(ses) \in Sessions
                                   /\ Probe(ses, ses.closing) \in Sessions
      BY <1>0, SessionTypes
    <3>2. ses.closing \in Procs =>
            Observe(NoteSafelyClosed(ses), ses.closing, FALSE) \in Sessions
      BY <3>1, SessionTypes
    <3>3. ses' \in {ses, Probe(ses, ses.closing),
                    Observe(NoteSafelyClosed(ses), ses.closing, FALSE)}
          /\ (ses' = ses \/ ses.closing \in Procs)
      BY <1>0, <1>1 DEF WatchClosing, TypeOK
    <3> QED
      BY <1>0, <3>1, <3>2, <3>3
  <2>2. Moved /\ pc' \in {"snapshot", "reconcile"}
    BY <1>0, <1>1, CallMoves, GotoMoves DEF WatchClosing, Returns, Labels
  <2> QED
    BY <1>0, <1>1, <2>1, <2>2, QuietStep DEF WatchClosing
<1>2. CASE ProcessStatus
  <2>1. ses' \in Sessions
    <3>1. ses.closing # Nil => /\ Probe(ses, ses.closing) \in Sessions
                               /\ NoteSafelyClosed(ses) \in Sessions
      BY <1>0, SessionTypes
    <3> QED
      BY <1>0, <1>2, <3>1 DEF ProcessStatus
  <2>2. Moved /\ pc' = "idle"
    BY <1>0, <1>2, GotoMoves DEF ProcessStatus, Labels
  <2> QED
    BY <1>0, <1>2, <2>1, <2>2, QuietStep DEF ProcessStatus
<1>3. CASE SelectCandidate
  <2>1. /\ ses' \in Sessions /\ cmd' \in Commands
    BY <1>0, <1>3 DEF SelectCandidate, Sessions, Commands
  <2>2. Moved /\ pc' = "snapshot"
    BY <1>0, <1>3, GotoMoves DEF SelectCandidate, Labels
  <2>3. PICK stable \in SUBSET (rec.seen \cap files) :
          LET det == Detect(rec, files, stable, FALSE)
              now == ApplyDetection(rec, det)
          IN rec' = now \/ \E s \in det.candidates : rec' = [now EXCEPT !.candidate = s]
    BY <1>3 DEF SelectCandidate
  <2> DEFINE det == Detect(rec, files, stable, FALSE)
             now == ApplyDetection(rec, det)
  <2>4. /\ GoodRecords(now, game, Turn, over) /\ now.verified = rec.verified
        /\ \A s \in det.candidates : GoodRecords([now EXCEPT !.candidate = s], game, Turn, over)
    BY <1>0, DetectionGood DEF TypeOK
  <2>5. rec' = now \/ \E s \in det.candidates : rec' = [now EXCEPT !.candidate = s]
    BY <2>3
  <2> HIDE DEF det, now
  <2>6. \A s \in det.candidates : [now EXCEPT !.candidate = s].verified = now.verified
    BY <2>4 DEF GoodRecords, Records
  <2>7. GoodRecords(rec', game, Turn, over) /\ rec'.verified = rec.verified
    BY <2>4, <2>5, <2>6
  <2>8. UNCHANGED <<remote, disk, machine, out>>
    BY <1>3 DEF SelectCandidate
  <2> QED
    BY <2>1, <2>2, <2>7, <2>8, QuietStep
<1> QED
  BY <1>1, <1>2, <1>3

\* A handoff changes the manifest and the journal, and evidence is only given
\* of what the manifest then shows.
LEMMA CommitStep ==
  ASSUME CycleInv, CommitHandoff
  PROVE  CycleInv'
<1> USE DEF remote, disk, machine
<1>0. /\ TypeOK /\ HandlerInv /\ GoodRecords(rec, game, Turn, over) /\ rec \in Records
      /\ ses \in Sessions /\ Nil \in Maybe(Evidence) /\ hashes \in Seq(Saves)
      /\ Payload \in Saves /\ pc = "commit"
  BY DEF CycleInv, TypeOK, Maybe, CommitHandoff, Payload, Records, Sessions
<1> DEFINE s == Payload
<1>1. /\ UNCHANGED <<files, writing, made, over, alive, game, cmd, out>>
      /\ UNCHANGED remote \/ AcceptedRemotely(s)
  BY DEF CommitHandoff
<1>2. /\ hashes' \in Seq(Saves) /\ cur' \in {"local", "other"}
      /\ Turn \in Nat /\ Turn' \in Nat /\ Turn <= Turn'
  BY <1>0, <1>1 DEF AcceptedRemotely, Turn, TypeOK
<1>3. \E j \in Saves \cup {Nil} : rec' = [rec EXCEPT !.journal = j]
  BY <1>0 DEF CommitHandoff, Records, Maybe
<1>4. GoodRecords(rec', game, Turn, over) /\ rec'.verified = rec.verified
  BY <1>0, <1>3 DEF GoodRecords, Records, Maybe
<1>5. \E auto \in BOOLEAN : Remember(s, auto)
  <2>1. (cmd = "tick") \in BOOLEAN
    OBVIOUS
  <2> QED
    BY <2>1 DEF CommitHandoff
<1>6. ses' \in Sessions
  BY <1>0, <1>5 DEF Remember, Sessions, Maybe
<1>7. \A t \in Nat : ResultEvidence(s, t) \in Maybe(Evidence)
  BY <1>0 DEF ResultEvidence, Evidence, Maybe
<1>8. AfterCommit \in Returns /\ AfterError \subseteq Labels \ {"reconcile", "persist", "user close"}
  BY DEF AfterCommit, AfterError, Returns, Labels
<1>9. \/ \E e \in Maybe(Evidence) : CallReconcile(FALSE, e, AfterCommit)
      \/ \E label \in AfterError : Goto(label)
  <2>1. Turn > 0 => Turn - 1 \in Nat
    BY <1>2
  <2> QED
    BY <1>0, <1>2, <1>7, <2>1 DEF CommitHandoff, RaiseError
<1>10. Moved /\ pc' \notin {"persist", "user close"}
  <2>1. ASSUME NEW e \in Maybe(Evidence), CallReconcile(FALSE, e, AfterCommit)
        PROVE  Moved /\ pc' = "reconcile"
    BY <1>8, <2>1, CallMoves
  <2> QED
    BY <1>0, <1>8, <1>9, <2>1, GotoMoves
<1>11. GoodRecords(rec', game', Turn', over')
  BY <1>0, <1>1, <1>2, <1>4, OnwardKeeps DEF Onward
<1>12. TypeOK'
  BY <1>0, <1>1, <1>2, <1>6, <1>10, <1>11 DEF TypeOK, Moved, GoodRecords
<1>13. HandlerInv'
  BY <1>0, <1>1, <1>4, <1>10 DEF HandlerInv
<1> QED
  BY <1>11, <1>12, <1>13 DEF CycleInv

\* A new process gets an identity of its own, so that what is known of the
\* others stays.
LEMMA SpawnKeeps ==
  ASSUME TypeOK, NEW p \in Procs, NEW t \in Maybe(Nat), Spawn(p, t), UNCHANGED <<hashes, over>>
  PROVE  /\ Onward /\ alive' \subseteq {q \in Procs : game'[q] # Nil} /\ game' \in [Procs -> Maybe(Games)]
         /\ LaunchedFor(game', p, t)
<1>1. [for |-> t, plays |-> t] \in Games /\ Nil \notin Games
  BY ConstantsAssumption DEF Games
<1>2. game[p] = Nil /\ game' = [game EXCEPT ![p] = [for |-> t, plays |-> t]]
  BY DEF Spawn
<1>3. game' \in [Procs -> Maybe(Games)] /\ game'[p] = [for |-> t, plays |-> t]
      /\ \A q \in Procs \ {p} : game'[q] = game[q]
  BY <1>1, <1>2 DEF TypeOK, Maybe
<1>4. Turn' = Turn /\ Turn \in Nat
  BY DEF Turn, TypeOK
<1> QED
  BY <1>1, <1>2, <1>3, <1>4 DEF Onward, Spawn, TypeOK, LaunchedFor

LEMMA LaunchStep ==
  ASSUME CycleInv, Launch
  PROVE  CycleInv'
<1> USE DEF remote, disk, machine
<1>0. /\ TypeOK /\ HandlerInv /\ GoodRecords(rec, game, Turn, over) /\ rec \in Records
      /\ ses \in Sessions /\ "close" \in Labels \ {"reconcile"}
      /\ "persist" \in Labels \ {"reconcile"} /\ Turn' = Turn
      /\ UNCHANGED <<hashes, cur, files, writing, made, over, cmd, out>>
  BY DEF CycleInv, TypeOK, Labels, Launch, Turn
<1>1. CASE Goto("close") /\ UNCHANGED <<alive, game>> /\ UNCHANGED ses
             /\ (UNCHANGED rec \/ Defer)
  <2>1. GoodRecords(rec', game, Turn, over) /\ rec'.verified = rec.verified
    BY <1>0, <1>1 DEF Defer, GoodRecords, Records, Maybe
  <2>2. Moved /\ pc' = "close"
    BY <1>0, <1>1, GotoMoves
  <2> QED
    BY <1>0, <1>1, <2>1, <2>2, QuietStep DEF TypeOK, Commands
<1>2. ASSUME NEW p \in Procs, Launched(p), "START" \in out.intents
      PROVE  CycleInv'
  <2>1. rec.verified \in Nat /\ rec.verified # Nil /\ rec.verified \in Maybe(Nat)
    BY <1>0, <1>2 DEF HandlerInv, Records, Maybe
  <2>2. /\ Onward /\ alive' \subseteq {q \in Procs : game'[q] # Nil} /\ game' \in [Procs -> Maybe(Games)]
        /\ LaunchedFor(game', p, rec.verified)
    BY <1>0, <1>2, <2>1, SpawnKeeps DEF Launched
  <2>3. rec' = rec /\ ses' \in Sessions /\ ses'.identity = p
    BY <1>0, <1>2, <2>1 DEF Launched, Sessions, Maybe
  <2>4. Moved /\ pc' = "persist"
    BY <1>0, <1>2, GotoMoves DEF Launched
  <2>5. TypeOK'
    BY <1>0, <2>2, <2>3, <2>4 DEF TypeOK, Moved
  <2>6. p # Nil
    BY ConstantsAssumption
  <2>7. HandlerInv'
    BY <1>0, <2>1, <2>2, <2>3, <2>4, <2>6 DEF HandlerInv
  <2> QED
    BY <2>2, <2>3, <2>5, <2>7, FrameStep
<1>3. CASE LaunchFailed
  <2>1. Moved /\ pc' = "close" /\ rec' = rec /\ ses' = ses
    BY <1>0, <1>3, GotoMoves DEF LaunchFailed
  <2>2. /\ Onward /\ alive' \subseteq {q \in Procs : game'[q] # Nil} /\ game' \in [Procs -> Maybe(Games)]
    <3>1. CASE UNCHANGED machine
      BY <1>0, <3>1 DEF Onward, TypeOK, Turn
    <3>2. ASSUME NEW p \in Procs, Spawn(p, Nil)
          PROVE  /\ Onward /\ alive' \subseteq {q \in Procs : game'[q] # Nil} /\ game' \in [Procs -> Maybe(Games)]
      BY <1>0, <3>2, SpawnKeeps DEF Maybe
    <3> QED
      BY <1>3, <3>1, <3>2 DEF LaunchFailed
  <2>3. TypeOK'
    BY <1>0, <2>1, <2>2 DEF TypeOK, Moved
  <2>4. HandlerInv'
    BY <1>0, <2>1 DEF HandlerInv
  <2> QED
    BY <2>1, <2>2, <2>3, <2>4, FrameStep
<1> QED
  BY <1>1, <1>2, <1>3 DEF Launch, Defer

LEMMA PersistStep ==
  ASSUME CycleInv, PersistProcessAssociation
  PROVE  CycleInv'
<1>0. /\ TypeOK /\ HandlerInv /\ GoodRecords(rec, game, Turn, over) /\ rec \in Records
      /\ ses \in Sessions /\ pc = "persist" /\ Nil \in Maybe(Evidence)
      /\ cmd \in Commands
  BY DEF CycleInv, TypeOK, PersistProcessAssociation, Maybe, Commands
<1>1. /\ ses.identity \in Procs /\ rec.verified \in Nat
      /\ LaunchedFor(game, ses.identity, rec.verified)
  BY <1>0 DEF HandlerInv, Sessions, Records, Maybe
<1>2. /\ rec' = [rec EXCEPT !.assoc = [proc |-> ses.identity, turn |-> rec.verified]]
      /\ ses' = Observe(ses, ses.identity, TRUE)
      /\ CallReconcile(FALSE, Nil, "close") /\ cmd' = cmd
      /\ UNCHANGED <<remote, disk, machine, out>>
  BY DEF PersistProcessAssociation
<1>3. GoodRecords(rec', game, Turn, over) /\ rec'.verified = rec.verified
  BY <1>0, <1>1, <1>2 DEF GoodRecords, Records, Maybe
<1>4. ses' \in Sessions
  BY <1>0, <1>1, <1>2, SessionTypes
<1>5. Moved /\ pc' = "reconcile"
  BY <1>0, <1>2, CallMoves DEF Returns
<1> QED
  BY <1>0, <1>2, <1>3, <1>4, <1>5, QuietStep

\* The steps that may terminate the process of a committed turn.
LEMMA CloseStep ==
  ASSUME CycleInv, CloseEntitledAfterCommit \/ TrackCloseProgress \/ UserTerminates
  PROVE  CycleInv' /\ alive' \in {alive, alive \ {rec.pending.proc}}
                   /\ (alive' # alive => rec.pending # Nil)
<1>0. /\ TypeOK /\ HandlerInv /\ GoodRecords(rec, game, Turn, over) /\ ses \in Sessions
      /\ cmd \in Commands
  BY DEF CycleInv, TypeOK, Commands
<1>1. ASSUME NEW next \in {"track", "watch", "snapshot"},
             Goto(next) /\ UNCHANGED <<rec, ses, alive, writing, budget>>,
             UNCHANGED <<remote, files, made, over, game, cmd, out>>
      PROVE  CycleInv' /\ alive' = alive
  <2>1. Moved /\ pc' = next
    BY <1>0, <1>1, GotoMoves DEF Labels
  <2> QED
    BY <1>0, <1>1, <2>1, QuietStep DEF remote, disk, machine
<1>2. CASE CloseEntitledAfterCommit
  <2> DEFINE next == IF cmd = "tick" THEN "track" ELSE "snapshot"
  <2>1. next \in {"track", "watch", "snapshot"}
    OBVIOUS
  <2>2. UNCHANGED <<remote, files, made, over, game, cmd, out>>
    BY <1>2 DEF CloseEntitledAfterCommit
  <2>3. \/ rec.pending # Nil /\ TerminatePendingClose(FALSE, next)
        \/ Goto(next) /\ UNCHANGED <<rec, ses, alive, writing, budget>>
    BY <1>2 DEF CloseEntitledAfterCommit
  <2> HIDE DEF next
  <2> QED
    BY <1>1, <2>1, <2>2, <2>3, TerminateStep
<1>3. CASE TrackCloseProgress
  <2>1. UNCHANGED <<remote, files, made, over, game, cmd, out>>
    BY <1>3 DEF TrackCloseProgress
  <2>2. \/ rec.pending # Nil /\ TerminatePendingClose(FALSE, "watch")
        \/ Goto("watch") /\ UNCHANGED <<rec, ses, alive, writing, budget>>
    BY <1>3 DEF TrackCloseProgress
  <2> QED
    BY <1>1, <2>1, <2>2, TerminateStep
<1>4. CASE UserTerminates
  <2>1. /\ UNCHANGED <<remote, files, made, over, game, cmd, out>>
        /\ rec.pending # Nil /\ TerminatePendingClose(TRUE, "snapshot")
    BY <1>0, <1>4 DEF UserTerminates, HandlerInv
  <2> QED
    BY <2>1, TerminateStep
<1> QED
  BY <1>2, <1>3, <1>4

LEMMA RequestCloseStep ==
  ASSUME CycleInv, RequestCivClose
  PROVE  CycleInv' /\ alive' = alive
<1> USE DEF remote, disk, machine
<1> DEFINE p == rec.pending.proc
<1>0. /\ TypeOK /\ HandlerInv /\ GoodRecords(rec, game, Turn, over) /\ ses \in Sessions
      /\ p \in Procs /\ rec.pending # Nil /\ rec \in Records
      /\ UNCHANGED <<remote, disk, machine, out>> /\ cmd' = "close"
  <2>1. rec.pending # Nil /\ UNCHANGED <<remote, files, made, over, game, out>> /\ cmd' = "close"
        /\ alive' = alive /\ writing' = writing
    BY DEF RequestCivClose
  <2> QED
    BY <2>1 DEF CycleInv, TypeOK, Records, Maybe
<1>1. /\ Probe(ses, p) \in Sessions
      /\ [Probe(ses, p) EXCEPT !.closing = p, !.closed = FALSE] \in Sessions
  BY <1>0, SessionTypes
<1>2. CASE Goto("snapshot")
  <2>1. Moved /\ pc' = "snapshot"
    BY <1>0, <1>2, GotoMoves DEF Labels
  <2>2. ses' \in Sessions
    BY <1>1, <1>2, <2>1 DEF RequestCivClose
  <2>3. rec' = rec \/ MarkCloseRequested
    BY <1>2, <2>1 DEF RequestCivClose
  <2>4. GoodRecords(rec', game, Turn, over) /\ rec'.verified = rec.verified
    BY <1>0, <2>3, MarkKeeps
  <2> QED
    BY <1>0, <2>1, <2>2, <2>4, QuietStep DEF Commands
<1>3. CASE pc' = "user close" /\ UNCHANGED <<call, rec, ses, alive, writing>>
  <2>1. TypeOK' /\ HandlerInv' /\ Turn' = Turn
    BY <1>0, <1>3 DEF TypeOK, HandlerInv, Labels, Turn
  <2> QED
    BY <1>0, <1>3, <2>1 DEF CycleInv
<1> QED
  BY <1>0, <1>2, <1>3 DEF RequestCivClose

\* Outside Relay processes come and go and turns are accepted, but no process
\* becomes another turn's.
LEMMA EnvironmentStep ==
  ASSUME CycleInv, Environment
  PROVE  CycleInv' /\ pc' = pc
<1> USE DEF remote, disk, machine, OutsideRelay
<1>0. /\ TypeOK /\ HandlerInv /\ Turn \in Nat
  BY DEF CycleInv, TypeOK, Turn
<1>1. UNCHANGED <<rec, ses, pc, cmd, call, out>>
  BY DEF Environment, OtherMoves, CivSaveEnd, CivLoads, CivSaveBegin, CivExits,
         UserStartsCiv, UserRemovesSave, UserCopiesSave
<1>2. ASSUME Onward, hashes' \in Seq(Saves), cur' \in {"local", "other"}, files' \subseteq Saves,
             over' \subseteq Saves, writing' \in Maybe([save : Saves, proc : Procs]),
             made' \in [Saves -> Maybe(Nat)], alive' \subseteq {q \in Procs : game'[q] # Nil},
             game' \in [Procs -> Maybe(Games)]
      PROVE  CycleInv'
  <2>1. TypeOK'
    BY <1>0, <1>1, <1>2 DEF TypeOK
  <2>2. HandlerInv'
    BY <1>0, <1>1, <1>2 DEF HandlerInv, Onward, LaunchedFor, TypeOK, Sessions, Maybe
  <2> QED
    BY <1>1, <1>2, <2>1, <2>2, FrameStep
<1>3. ASSUME UNCHANGED <<game, over>>, Turn' = Turn PROVE Onward
  BY <1>0, <1>3 DEF Onward
<1>4. CASE OtherMoves
  <2>1. hashes' \in Seq(Saves) /\ Turn' = Turn + 1
    BY <1>0, <1>4 DEF OtherMoves, TypeOK, Turn
  <2>2. made' \in [Saves -> Maybe(Nat)]
    BY <1>0, <1>4 DEF OtherMoves, TypeOK, Maybe
  <2>3. Onward
    BY <1>0, <1>4, <2>1 DEF OtherMoves, Onward
  <2> QED
    BY <1>0, <1>2, <1>4, <2>1, <2>2, <2>3 DEF OtherMoves, TypeOK
<1>5. CASE CivSaveEnd
  <2>1. files' \subseteq Saves /\ Turn' = Turn
    BY <1>0, <1>5 DEF CivSaveEnd, TypeOK, Maybe, Turn
  <2> QED
    BY <1>0, <1>2, <1>3, <1>5, <2>1 DEF CivSaveEnd, TypeOK, Maybe
<1>6. ASSUME NEW p \in Procs, CivLoads(p) PROVE CycleInv'
  <2>1. game[p] # Nil
    BY <1>0, <1>6 DEF CivLoads, TypeOK
  <2>2. /\ Turn' = Turn /\ over' = over /\ game' = [game EXCEPT ![p].plays = Turn]
    BY <1>6 DEF CivLoads, Turn
  <2>3. game[p] \in Games /\ [game[p] EXCEPT !.plays = Turn] \in Games
        /\ [game[p] EXCEPT !.plays = Turn].for = game[p].for
    BY <1>0, <2>1 DEF TypeOK, Games, Maybe
  <2>4. game' \in [Procs -> Maybe(Games)] /\ Onward
    BY <1>0, <2>2, <2>3, ConstantsAssumption DEF TypeOK, Maybe, Onward
  <2>5. alive' \subseteq {q \in Procs : game'[q] # Nil}
    BY <1>0, <1>6, <2>4 DEF CivLoads, TypeOK, Onward
  <2> QED
    BY <1>0, <1>2, <1>6, <2>4, <2>5 DEF CivLoads, TypeOK
<1>7. ASSUME NEW p \in Procs, CivSaveBegin(p) PROVE CycleInv'
  <2>1. Turn' = Turn /\ game[p].plays \in Maybe(Nat)
    BY <1>0, <1>7 DEF CivSaveBegin, Turn, TypeOK, Games, Maybe
  <2>2. made' \in [Saves -> Maybe(Nat)] /\ writing' \in Maybe([save : Saves, proc : Procs])
    BY <1>0, <1>7, <2>1 DEF CivSaveBegin, TypeOK, Maybe
  <2> QED
    BY <1>0, <1>2, <1>3, <1>7, <2>1, <2>2 DEF CivSaveBegin, TypeOK
<1>8. ASSUME NEW p \in Procs, CivExits(p) PROVE CycleInv'
  <2>1. Turn' = Turn /\ writing' \in {writing, Nil} /\ alive' \subseteq {q \in Procs : game'[q] # Nil}
    BY <1>0, <1>8 DEF CivExits, KilledWriting, Turn, TypeOK
  <2> QED
    BY <1>0, <1>2, <1>3, <1>8, <2>1 DEF CivExits, TypeOK, Maybe
<1>9. ASSUME NEW p \in Procs, UserStartsCiv(p) PROVE CycleInv'
  <2>1. /\ Onward /\ alive' \subseteq {q \in Procs : game'[q] # Nil} /\ game' \in [Procs -> Maybe(Games)]
    BY <1>0, <1>9, SpawnKeeps DEF UserStartsCiv, Maybe
  <2> QED
    BY <1>0, <1>2, <1>9, <2>1 DEF UserStartsCiv, TypeOK
<1>10. ASSUME NEW s \in Saves, UserRemovesSave(s) PROVE CycleInv'
  <2>1. Turn' = Turn /\ files' \subseteq Saves
    BY <1>0, <1>10 DEF UserRemovesSave, Turn, TypeOK
  <2> QED
    BY <1>0, <1>2, <1>3, <1>10, <2>1 DEF UserRemovesSave, TypeOK
<1>11. ASSUME NEW s \in Saves, NEW t \in Saves, UserCopiesSave(s, t) PROVE CycleInv'
  <2>1. Turn' = Turn /\ files' \subseteq Saves /\ over' \subseteq Saves /\ over \subseteq over'
    BY <1>0, <1>11 DEF UserCopiesSave, Turn, TypeOK
  <2>2. Onward
    BY <1>0, <1>11, <2>1 DEF UserCopiesSave, Onward
  <2> QED
    BY <1>0, <1>2, <1>11, <2>1, <2>2 DEF UserCopiesSave, TypeOK
<1> QED
  BY <1>1, <1>4, <1>5, <1>6, <1>7, <1>8, <1>9, <1>10, <1>11 DEF Environment

LEMMA StopStep ==
  ASSUME CycleInv, RelayStops \/ UNCHANGED vars
  PROVE  CycleInv'
<1>1. CASE RelayStops
  <2>1. NewSession \in Sessions
    BY DEF NewSession, Sessions, Maybe
  <2>2. GoodRecords(rec', game, Turn, over)
    BY <1>1, JournalClearedGood DEF RelayStops, CycleInv, TypeOK
  <2>3. TypeOK' /\ HandlerInv' /\ Turn' = Turn
    BY <1>1, <2>1, <2>2 DEF RelayStops, CycleInv, TypeOK, GoodRecords, HandlerInv, Turn,
                            Labels, Maybe, remote, disk, machine
  <2> QED
    BY <1>1, <2>2, <2>3 DEF RelayStops, CycleInv, machine, disk
<1>2. CASE UNCHANGED vars
  <2>1. TypeOK' /\ HandlerInv' /\ Turn' = Turn
    BY <1>2 DEF CycleInv, TypeOK, HandlerInv, Turn, vars, remote, disk, machine, relay
  <2> QED
    BY <1>2, <2>1 DEF CycleInv, vars, machine, relay, disk
<1> QED
  BY <1>1, <1>2

LEMMA InitInv == Init => CycleInv
<1> SUFFICES ASSUME Init PROVE CycleInv
  OBVIOUS
<1>1. PICK mode \in Modes : rec = [NewRecords EXCEPT !.managed = mode]
  BY DEF Init
<1>2. mode \in BOOLEAN
  BY ConstantsAssumption
<1>3. /\ rec \in Records /\ rec.assoc = Nil /\ rec.pending = Nil /\ rec.candidate = Nil
  BY <1>1, <1>2 DEF NewRecords, Records, Maybe
<1>4. GoodRecords(rec, game, Turn, over)
  BY <1>3 DEF GoodRecords
<1>5. ses \in Sessions
  BY DEF Init, NewSession, Sessions, Maybe
<1>6. TypeOK
  BY <1>3, <1>5 DEF Init, TypeOK, Labels, Maybe
<1>7. HandlerInv
  BY DEF Init, HandlerInv
<1> QED
  BY <1>4, <1>6, <1>7 DEF CycleInv

LEMMA StepInv ==
  ASSUME CycleInv, [Next]_vars
  PROVE  CycleInv'
<1>1. CASE Reconcile
  BY <1>1, ReconcileStep DEF Reconcile
<1> QED
  BY <1>1, TickStep, WatchStep, CommitStep, LaunchStep, PersistStep, CloseStep,
     RequestCloseStep, EnvironmentStep, StopStep DEF Next, Handler, UserRequest

-----------------------------------------------------------------------------
\* What Relay has written down of processes, turns and saves is true, from the
\* launch of a process to the end of its entitlement.
THEOREM Invariant == Spec => []CycleInv
<1> QED
  BY InitInv, StepInv, PTL DEF Spec

\* Every record, session and handler state is well typed.
THEOREM TypeCorrect == Spec => []TypeOK
<1>1. CycleInv => TypeOK
  BY DEF CycleInv
<1> QED
  BY <1>1, Invariant, PTL

\* A process Relay holds itself entitled to close was launched by it for a turn
\* that has been accepted.
THEOREM EntitlementsSound == Spec => []EntitlementSound
<1>1. CycleInv => EntitlementSound
  BY DEF CycleInv, GoodRecords, LaunchedFor, EntitlementSound
<1> QED
  BY <1>1, Invariant, PTL

\* A save offered for sending was not there when Civilization was started, unless
\* it was put over another file of that time since.
THEOREM CandidatesNew == Spec => []CandidateIsNew
<1>1. CycleInv => CandidateIsNew
  BY DEF CycleInv, GoodRecords, CandidateIsNew
<1> QED
  BY <1>1, Invariant, PTL

\* The steps at which Relay terminates a process, and which process it is.
LEMMA TerminatesWhere ==
  ASSUME CycleInv, [Next]_vars, NEW p \in Procs, RelayTerminates(p)
  PROVE  /\ CloseEntitledAfterCommit \/ TrackCloseProgress \/ UserTerminates
         /\ p = rec.pending.proc /\ rec.pending # Nil
<1>1. p \in alive /\ p \notin alive' /\ pc' # pc
  BY DEF RelayTerminates
<1>2. CloseEntitledAfterCommit \/ TrackCloseProgress \/ UserTerminates
  BY <1>1, EnvironmentStep, RequestCloseStep
     DEF Next, Handler, UserRequest, Tick, Reconcile, ReconcileMatch, AutoAttempt, Decide,
         CandidateGone, NothingToSend, CommitHandoff, Launch, Defer, Launched, LaunchFailed,
         Spawn, PersistProcessAssociation, WatchClosing, Snapshot, ProcessStatus, EditMatch,
         RequestStart, RequestSend, SelectCandidate, RelayStops, vars, disk, machine
<1> QED
  BY <1>1, <1>2, CloseStep

\* Relay terminates only what it launched itself for a turn handed over since.
THEOREM OnlyCommittedTerminated == Spec => TerminatesOnlyCommitted
<1>1. ASSUME CycleInv, [Next]_vars, NEW p \in Procs, RelayTerminates(p)
      PROVE  game[p].for \in 0..(Turn - 1)
  <2>1. p = rec.pending.proc /\ rec.pending # Nil
    BY <1>1, TerminatesWhere
  <2>2. /\ rec.pending.turn < Turn /\ game[p].for = rec.pending.turn
        /\ rec.pending.turn \in Nat /\ Turn \in Nat
    BY <1>1, <2>1 DEF CycleInv, GoodRecords, LaunchedFor, Records, Maybe, TypeOK, Turn
  <2> QED
    BY <2>2
<1>2. CycleInv /\ [Next]_vars =>
        [\A p \in Procs : RelayTerminates(p) => game[p].for \in 0..(Turn - 1)]_vars
  BY <1>1
<1> QED
  BY <1>2, Invariant, PTL DEF Spec, TerminatesOnlyCommitted

-----------------------------------------------------------------------------
(* Automatic launches *)

\* A launch that polling has counted for the current turn is remembered twice,
\* in the durable launch_attempt and in the session, and nothing between two
\* polls makes Relay want a start for it but the user.
AttemptInv ==
  /\ ses.auto \subseteq 0..Turn
  /\ rec.verified # Nil => rec.verified <= Turn
  /\ Turn \in ses.auto =>
       /\ rec.verified = Turn /\ rec.attempt = Turn /\ ses.autoKey = Turn
       /\ ~(pc = "reconcile" /\ call.start)
  /\ "START" \in out.intents /\ pc \notin {"persist", "reconcile"}
       => rec.verified \notin ses.auto
  /\ "START" \in out.intents /\ pc \in {"decide", "decided", "launch"}
       => rec.attempt = rec.verified

\* The step leaves what AttemptInv speaks of; turns may be accepted meanwhile.
Aside ==
  /\ rec'.attempt = rec.attempt /\ rec'.verified = rec.verified
  /\ ses'.auto = ses.auto /\ ses'.autoKey = ses.autoKey /\ out' = out
  /\ \/ pc' = pc /\ call' = call
     \/ pc' = "reconcile" /\ ~call'.start
     \/ /\ pc' \notin {"reconcile", "persist", "decide", "decided", "launch"}
        /\ pc \notin {"reconcile", "persist"}

LEMMA AsideKeeps ==
  ASSUME CycleInv, AttemptInv, Aside, Turn' \in Nat, Turn <= Turn'
  PROVE  AttemptInv'
<1>1. Turn \in Nat /\ rec.verified \in Maybe(Nat)
  BY DEF CycleInv, TypeOK, Turn, Records
<1>2. ses'.auto \subseteq 0..Turn'
  BY <1>1 DEF AttemptInv, Aside
<1>3. rec'.verified # Nil => rec'.verified <= Turn'
  BY <1>1 DEF AttemptInv, Aside, Maybe
<1>4. Turn' \in ses'.auto => Turn' = Turn /\ Turn \in ses.auto
  BY <1>1 DEF AttemptInv, Aside
<1>5. Turn' \in ses'.auto =>
        /\ rec'.verified = Turn' /\ rec'.attempt = Turn' /\ ses'.autoKey = Turn'
        /\ ~(pc' = "reconcile" /\ call'.start)
  BY <1>4 DEF AttemptInv, Aside
<1>6. /\ "START" \in out'.intents /\ pc' \notin {"persist", "reconcile"}
           => rec'.verified \notin ses'.auto
      /\ "START" \in out'.intents /\ pc' \in {"decide", "decided", "launch"}
           => rec'.attempt = rec'.verified
  BY DEF AttemptInv, Aside
<1> QED
  BY <1>2, <1>3, <1>5, <1>6 DEF AttemptInv

\* What is written into the records before the intents are concluded leaves
\* the attempt.
LEMMA EvidenceKeepsAttempt ==
  ASSUME NEW r \in Records, NEW ev
  PROVE  ApplyExactHandoffEvidence(r, ev).attempt = r.attempt
BY DEF ApplyExactHandoffEvidence, Records

LEMMA AttributedKeepsAttempt ==
  ASSUME TypeOK, GoodRecords(rec, game, Turn, over), NEW e \in Maybe(Evidence)
  PROVE  Attributed(e).rec.attempt = rec.attempt
<1> DEFINE given     == Recovered(e).ev
           ev        == IF EvidenceCurrent(given) THEN given ELSE Nil
           recovered == Recovered(e).rec
           verified  == [recovered EXCEPT !.verified = Turn]
           applied   == IF ev = Nil THEN verified ELSE ApplyExactHandoffEvidence(verified, ev)
<1>1. rec \in Records
  BY DEF GoodRecords
<1>2. GoodRecords(recovered, game, Turn, over) /\ recovered.attempt = rec.attempt
  BY <1>1, RecoveredGood, EvidenceKeepsAttempt DEF Recovered
<1> HIDE DEF recovered
<1>3. verified \in Records /\ verified.attempt = rec.attempt
  <2>1. GoodRecords(verified, game, Turn, over)
    BY <1>2, VerifiedKeeps
  <2>2. verified.attempt = recovered.attempt
    BY <1>2 DEF GoodRecords, Records
  <2> QED
    BY <1>2, <2>1, <2>2 DEF GoodRecords
<1> HIDE DEF verified
<1>4. ev # Nil => ev \in Evidence /\ ev.turn < Turn
  <2>1. ev # Nil => given # Nil /\ ev = given /\ given.turn + 1 = Turn
    BY DEF EvidenceCurrent
  <2>2. given # Nil => given \in Evidence
    BY RecoveredGood DEF Maybe
  <2> QED
    BY <2>1, <2>2 DEF Evidence
<1>5. GoodRecords(verified, game, Turn, over)
  BY <1>2, VerifiedKeeps DEF verified
<1> HIDE DEF ev
<1>6. applied.attempt = rec.attempt /\ GoodRecords(applied, game, Turn, over)
  BY <1>3, <1>4, <1>5, EvidenceApplied, EvidenceKeepsAttempt
<1>7. Attributed(e).rec = [applied EXCEPT !.pending = DropExited(@)]
  BY DEF Attributed, ev, verified, recovered
<1> HIDE DEF applied
<1> QED
  BY <1>6, <1>7 DEF GoodRecords, Records

LEMMA LookedAtKeepsAttempt ==
  ASSUME NEW r \in Records, NEW stable, NEW fault
  PROVE  LookedAt(r, stable, fault).rec.attempt = r.attempt
<1> DEFINE ready   == cur = "local" /\ (Turn = 0 \/ fault # "download")
           present == IF ready /\ Turn > 0 THEN files \cup {hashes[Turn]} ELSE files
           det     == IF ready THEN Detect(r, present, stable, fault = "scan") ELSE Nil
<1>1. LookedAt(r, stable, fault)
        = [rec |-> IF ready THEN ApplyDetection(r, det) ELSE r, files |-> present, det |-> det]
  BY DEF LookedAt
<1>2. ApplyDetection(r, det).attempt = r.attempt
  BY DEF ApplyDetection, Records
<1> HIDE DEF ready, present, det
<1> QED
  BY <1>1, <1>2

\* An intended start is an attempt for the verified turn, and without a request
\* no second one is intended.
LEMMA ConcludedAttempt ==
  ASSUME NEW look, look.rec \in Records, NEW ev, NEW start, NEW fault
  PROVE  LET done == Concluded(ev, look, start, fault)
         IN /\ "START" \in done.out.intents => done.rec.attempt = look.rec.verified
            /\ ~start /\ look.rec.attempt = look.rec.verified /\ look.rec.attempt # Nil
                 => "START" \notin done.out.intents /\ done.rec.attempt = look.rec.attempt
<1> DEFINE state    == OperationalState(look.rec, ev, look.det)
           intents  == DecideIntents(state, look.rec, ev, look.det, start)
           closed   == IF "CLOSE" \in intents
                       THEN [look.rec EXCEPT !.pending.requested = TRUE] ELSE look.rec
           starting == "START" \in intents /\ fault # "capture"
           done     == Concluded(ev, look, start, fault)
<1>1. /\ done.rec = IF starting THEN CaptureBaseline(closed, look.files) ELSE closed
      /\ done.out.intents = IF starting THEN intents ELSE intents \ {"START"}
  BY DEF Concluded
<1>2. /\ closed.attempt = look.rec.attempt /\ closed.verified = look.rec.verified
      /\ CaptureBaseline(closed, look.files).attempt = look.rec.verified
  <2>1. DOMAIN closed = DOMAIN look.rec /\ closed = [i \in DOMAIN look.rec |-> closed[i]]
        /\ closed.attempt = look.rec.attempt /\ closed.verified = look.rec.verified
    BY DEF Records
  <2> HIDE DEF closed
  <2> QED
    BY <2>1 DEF CaptureBaseline, Records
<1>3. ~start /\ look.rec.attempt = look.rec.verified /\ look.rec.attempt # Nil
        => "START" \notin intents
  BY DEF DecideIntents, WantsStart
<1> HIDE DEF intents, closed, done
<1>4. /\ "START" \in done.out.intents => done.rec.attempt = look.rec.verified
      /\ ~start /\ look.rec.attempt = look.rec.verified /\ look.rec.attempt # Nil
           => "START" \notin done.out.intents /\ done.rec.attempt = look.rec.attempt
  BY <1>1, <1>2, <1>3
<1> QED
  BY <1>4 DEF done

LEMMA ReconcileAttempt ==
  ASSUME CycleInv, NEW stable, ReconcileMatch(stable)
  PROVE  /\ rec'.verified \in {rec.verified, Turn}
         /\ "START" \in out'.intents => rec'.attempt = Turn /\ rec'.verified = Turn
         /\ ~call.start /\ rec.attempt = Turn
              => "START" \notin out'.intents /\ rec'.attempt = Turn
<1>0. /\ TypeOK /\ GoodRecords(rec, game, Turn, over) /\ call \in Calls /\ Turn \in Nat /\ Turn # Nil
  BY ConstantsAssumption DEF CycleInv, ReconcileMatch, TypeOK, Turn
<1>1. CASE ReconcileFailed
  <2>1. /\ rec' \in {rec, JournalCleared, Recovered(call.evidence).rec}
        /\ out'.intents \subseteq {"CLOSE"}
    BY <1>1 DEF ReconcileFailed
  <2>2. /\ rec'.verified = rec.verified
    BY <1>0, <2>1, RecoveredGood, JournalClearedGood DEF Calls
  <2>3. rec'.attempt = rec.attempt
    BY <1>0, <2>1, EvidenceKeepsAttempt DEF JournalCleared, Recovered, GoodRecords, Records
  <2> QED
    BY <2>1, <2>2, <2>3
<1>2. ASSUME NEW fault,
             \E a \in {Attributed(call.evidence)} :
             \E look \in {LookedAt(a.rec, stable, fault)} :
             \E done \in {Concluded(a.ev, look, call.start, fault)} :
               rec' = done.rec /\ files' = look.files /\ over' = done.over /\ out' = done.out
      PROVE  /\ rec'.verified = Turn
             /\ "START" \in out'.intents => rec'.attempt = Turn
             /\ ~call.start /\ rec.attempt = Turn
                  => "START" \notin out'.intents /\ rec'.attempt = Turn
  <2> DEFINE a    == Attributed(call.evidence)
             look == LookedAt(a.rec, stable, fault)
             done == Concluded(a.ev, look, call.start, fault)
  <2>1. rec' = done.rec /\ out' = done.out
    BY <1>2
  <2>2. /\ GoodRecords(a.rec, game, Turn, over) /\ a.rec.verified = Turn
        /\ a.rec.attempt = rec.attempt
    BY <1>0, AttributedGood, AttributedKeepsAttempt DEF Calls
  <2> HIDE DEF a
  <2>3. /\ GoodRecords(look.rec, game, Turn, over) /\ look.rec.verified = Turn
        /\ look.rec.attempt = rec.attempt /\ look.files \subseteq Saves /\ look.rec \in Records
    BY <1>0, <2>2, LookedAtGood, LookedAtKeepsAttempt DEF GoodRecords
  <2> HIDE DEF look
  <2>4. /\ done.rec.verified = Turn
        /\ "START" \in done.out.intents => done.rec.attempt = Turn
        /\ ~call.start /\ rec.attempt = Turn
             => "START" \notin done.out.intents /\ done.rec.attempt = Turn
    BY <1>0, <2>3, ConcludedGood, ConcludedAttempt
  <2> HIDE DEF done
  <2> QED
    BY <2>1, <2>4
<1>3. \/ ReconcileFailed
      \/ \E fault \in {Nil} \cup LocalFaults :
           \E a \in {Attributed(call.evidence)} :
           \E look \in {LookedAt(a.rec, stable, fault)} :
           \E done \in {Concluded(a.ev, look, call.start, fault)} :
             rec' = done.rec /\ files' = look.files /\ over' = done.over /\ out' = done.out
  BY DEF ReconcileMatch
<1> QED
  BY <1>1, <1>2, <1>3

LEMMA ReconcileKeepsAttempts ==
  ASSUME CycleInv, AttemptInv, NEW stable, ReconcileMatch(stable)
  PROVE  AttemptInv'
<1>0. /\ Turn \in Nat /\ Turn' = Turn /\ pc = "reconcile" /\ pc' \in Returns /\ call' = Nil
      /\ call \in Calls /\ call.start \in BOOLEAN
      /\ ses'.auto = ses.auto /\ ses'.autoKey = ses.autoKey
  BY DEF CycleInv, TypeOK, ReconcileMatch, Turn, Sessions, Calls, remote
<1>1. Turn \in ses.auto => ~call.start /\ rec.attempt = Turn /\ rec.verified = Turn
                           /\ ses.autoKey = Turn
  BY <1>0 DEF AttemptInv
<1>2. Turn \in ses.auto => rec'.attempt = Turn /\ rec'.verified = Turn
                           /\ "START" \notin out'.intents
  BY <1>1, ReconcileAttempt
<1>3. rec'.verified # Nil => rec'.verified <= Turn
  BY <1>0, ReconcileAttempt DEF AttemptInv
<1>4. "START" \in out'.intents => rec'.attempt = Turn /\ rec'.verified = Turn
                                  /\ Turn \notin ses.auto
  BY <1>2, ReconcileAttempt
<1>5. pc' # "reconcile"
  BY <1>0 DEF Returns
<1>6. ses'.auto \subseteq 0..Turn'
  BY <1>0 DEF AttemptInv
<1> QED
  BY <1>0, <1>1, <1>2, <1>3, <1>4, <1>5, <1>6 DEF AttemptInv

\* Probes and observations leave what the session counts.
LEMMA SessionCounts ==
  ASSUME NEW s \in Sessions, NEW p, NEW up
  PROVE  /\ Probe(s, p).auto = s.auto /\ Probe(s, p).autoKey = s.autoKey
         /\ Observe(s, p, up).auto = s.auto /\ Observe(s, p, up).autoKey = s.autoKey
         /\ NoteSafelyClosed(s).auto = s.auto /\ NoteSafelyClosed(s).autoKey = s.autoKey
BY DEF Probe, Observe, NoteSafelyClosed, Sessions

LEMMA ObserveCounts ==
  ASSUME NEW s \in Sessions, NEW p \in Procs
  PROVE  \A up \in BOOLEAN : /\ Observe(s, p, up) \in Sessions
                             /\ Observe(s, p, up).auto = s.auto
                             /\ Observe(s, p, up).autoKey = s.autoKey
<1>1. SUFFICES ASSUME NEW up \in BOOLEAN
               PROVE  /\ Observe(s, p, up) \in Sessions
                      /\ Observe(s, p, up).auto = s.auto
                      /\ Observe(s, p, up).autoKey = s.autoKey
  OBVIOUS
<1>2. Observe(s, p, up) \in Sessions
  BY SessionTypes
<1> QED
  BY <1>2 DEF Observe, Sessions

LEMMA ProbedCounts ==
  ASSUME CycleInv
  PROVE  Probed \in Sessions /\ Probed.auto = ses.auto /\ Probed.autoKey = ses.autoKey
<1>0. ses \in Sessions /\ rec \in Records
  BY DEF CycleInv, TypeOK
<1>1. CASE rec.assoc = Nil
  BY <1>0, <1>1 DEF Probed
<1>2. CASE rec.assoc # Nil
  <2> DEFINE p  == rec.assoc.proc
             up == p \in alive
  <2>1. p \in Procs /\ up \in BOOLEAN
    BY <1>0, <1>2 DEF Records, Maybe
  <2>2. Probed = Observe(Probe(ses, p), p, up)
    BY <1>2 DEF Probed
  <2> HIDE DEF p, up
  <2>3. Probe(ses, p) \in Sessions /\ Probe(ses, p).auto = ses.auto
        /\ Probe(ses, p).autoKey = ses.autoKey
    BY <1>0, <2>1, SessionTypes, SessionCounts
  <2>4. \A u \in BOOLEAN : /\ Observe(Probe(ses, p), p, u) \in Sessions
                           /\ Observe(Probe(ses, p), p, u).auto = ses.auto
                           /\ Observe(Probe(ses, p), p, u).autoKey = ses.autoKey
    BY <2>1, <2>3, ObserveCounts
  <2> QED
    BY <2>1, <2>2, <2>4
<1> QED
  BY <1>1, <1>2

\* Decisions of a tick: an attempt is granted only if none was counted.
LEMMA DecisionKeepsAttempts ==
  ASSUME CycleInv, AttemptInv, AutoAttempt \/ Decide \/ RequestStart
  PROVE  AttemptInv'
<1>0. /\ TypeOK /\ ses \in Sessions /\ rec \in Records /\ Turn \in Nat
      /\ Turn' = Turn /\ rec' = rec /\ out' = out
  <2>1. UNCHANGED <<remote, rec, out>>
    BY DEF AutoAttempt, Decide, RequestStart
  <2> QED
    BY <2>1 DEF CycleInv, TypeOK, Turn, remote
<1>1. CASE AutoAttempt
  <2>1. /\ ses' = ses /\ pc' = "reconcile" /\ ses.autoKey # rec.verified
    BY <1>1 DEF AutoAttempt, NeedsOneAutoAttempt, CallReconcile
  <2>2. Turn \notin ses.auto
    BY <2>1 DEF AttemptInv
  <2> QED
    BY <1>0, <2>1, <2>2 DEF AttemptInv
<1>2. CASE Decide
  <2>1. /\ ses' = [ses EXCEPT !.autoKey = IF "START" \in out.intents THEN rec.verified ELSE @]
        /\ pc \in {"decide", "decided"} /\ pc' \in {"commit", "launch"}
    BY <1>2 DEF Decide, Goto
  <2>2. /\ ses'.auto = ses.auto
        /\ ses'.autoKey = IF "START" \in out.intents THEN rec.verified ELSE ses.autoKey
    BY <1>0, <2>1 DEF Sessions
  <2>3. "START" \in out.intents => rec.verified \notin ses.auto
    BY <2>1 DEF AttemptInv
  <2>4. Turn \in ses.auto => ses'.autoKey = Turn
    BY <2>2, <2>3 DEF AttemptInv
  <2> QED
    BY <1>0, <2>1, <2>2, <2>3, <2>4 DEF AttemptInv
<1>3. CASE RequestStart
  <2>1. ses' = [Probed EXCEPT !.auto = @ \ {Turn}] /\ pc' = "reconcile"
    BY <1>3 DEF RequestStart, CallReconcile
  <2>2. ses'.auto = ses.auto \ {Turn}
    BY <2>1, ProbedCounts DEF Sessions
  <2> QED
    BY <1>0, <2>1, <2>2 DEF AttemptInv
<1> QED
  BY <1>1, <1>2, <1>3

\* A launch is counted for the turn verified, which was not counted before, and
\* is deferred only where none is counted.
LEMMA LaunchKeepsAttempts ==
  ASSUME CycleInv, AttemptInv, Launch
  PROVE  AttemptInv'
<1>0. /\ TypeOK /\ HandlerInv /\ ses \in Sessions /\ rec \in Records /\ Turn \in Nat
      /\ Turn' = Turn /\ out' = out /\ pc = "launch"
  BY DEF CycleInv, TypeOK, Turn, Launch, remote
<1>1. CASE rec' = rec /\ ses' = ses /\ Goto("close")
  <2>1. Aside
    BY <1>0, <1>1 DEF Aside, Goto
  <2> QED
    BY <1>0, <2>1, AsideKeeps
<1>2. CASE "START" \in out.intents /\ Defer
  <2>1. Turn \notin ses.auto
    BY <1>0, <1>2 DEF AttemptInv
  <2>2. ses' = ses /\ pc' = "close" /\ rec'.verified = rec.verified
    BY <1>0, <1>2 DEF Defer, Goto, Records
  <2> QED
    BY <1>0, <2>1, <2>2 DEF AttemptInv
<1>3. ASSUME NEW p \in Procs, Launched(p), "START" \in out.intents
      PROVE  AttemptInv'
  <2>1. /\ rec' = rec /\ pc' = "persist" /\ ses'.autoKey = ses.autoKey
        /\ ses'.auto = IF CountedByTick THEN ses.auto \cup {rec.verified} ELSE ses.auto
    BY <1>0, <1>3 DEF Launched, Goto, Sessions
  <2>2. rec.verified \in Nat /\ rec.verified <= Turn /\ rec.attempt = rec.verified
    BY <1>0, <1>3 DEF HandlerInv, AttemptInv, Records, Maybe
  <2>3. ses'.auto \subseteq 0..Turn
    BY <1>0, <2>1, <2>2 DEF AttemptInv
  <2>4. Turn \in ses'.auto => rec.verified = Turn /\ rec.attempt = Turn /\ ses.autoKey = Turn
    BY <2>1, <2>2 DEF AttemptInv, CountedByTick
  <2> QED
    BY <1>0, <2>1, <2>2, <2>3, <2>4 DEF AttemptInv
<1> QED
  BY <1>0, <1>1, <1>2, <1>3 DEF Launch, LaunchFailed

\* Whatever closes a process counts no launch.
LEMMA CloseAside ==
  ASSUME CycleInv, CloseEntitledAfterCommit \/ TrackCloseProgress \/ UserTerminates
  PROVE  Aside
<1>0. /\ TypeOK /\ HandlerInv /\ ses \in Sessions /\ rec \in Records /\ GoodRecords(rec, game, Turn, over)
  BY DEF CycleInv, TypeOK
<1>1. ASSUME NEW next \in {"track", "watch", "snapshot"}, NEW user \in BOOLEAN,
             TerminatePendingClose(user, next), rec.pending # Nil, out' = out,
             pc \notin {"reconcile", "persist"}
      PROVE  Aside
  <2> DEFINE p       == rec.pending.proc
             closing == [ses EXCEPT !.closing = p]
             acting  == [Probe(closing, p) EXCEPT !.acted = rec.pending.turn, !.closed = FALSE]
             Same(s) == s \in Sessions /\ s.auto = ses.auto /\ s.autoKey = ses.autoKey
  <2>1. p \in Procs /\ rec.pending.turn \in Nat
    BY <1>0, <1>1 DEF Records, Maybe
  <2>2. Same(ses) /\ Same(closing)
    BY <1>0, <2>1, SessionTypes DEF Sessions
  <2>3. Same(acting)
    <3> HIDE DEF closing
    <3>1. Same(Probe(closing, p))
      BY <2>1, <2>2, SessionTypes, SessionCounts
    <3> QED
      BY <2>1, <3>1, SessionTypes DEF Sessions
  <2> HIDE DEF closing, acting
  <2>4. Same(NoteSafelyClosed(closing)) /\ Same(NoteSafelyClosed(acting))
    BY <2>1, <2>2, <2>3, SessionTypes, SessionCounts
  <2>5. ASSUME NEW s, Same(s), TerminateAnswered(s, next)
        PROVE  /\ Same(ses') /\ ((pc' = "reconcile" /\ ~call'.start) \/ pc' = next)
    <3>1. Same(Observe(s, p, FALSE))
      BY <2>1, <2>5, ObserveCounts
    <3>2. CASE s.closed
      <4>1. ses' = Observe(s, p, FALSE) /\ CallReconcile(FALSE, Nil, next)
        BY <2>5, <3>2 DEF TerminateAnswered
      <4> QED
        BY <3>1, <4>1 DEF CallReconcile
    <3>3. CASE ~s.closed
      <4>1. ses' = s /\ Goto(next)
        BY <2>5, <3>3 DEF TerminateAnswered
      <4> QED
        BY <2>5, <4>1 DEF Goto
    <3> QED
      BY <3>2, <3>3
  <2>6. rec'.attempt = rec.attempt /\ rec'.verified = rec.verified
    BY <1>0, <1>1 DEF TerminatePendingClose, MarkCloseRequested, Records
  <2>7. Same(ses') /\ ((pc' = "reconcile" /\ ~call'.start) \/ pc' = next)
    <3>1. \/ ses' = ses /\ Goto(next)
          \/ \E s \in {ses, acting, NoteSafelyClosed(closing), NoteSafelyClosed(acting)} :
               TerminateAnswered(s, next)
      BY <1>1 DEF TerminatePendingClose, closing, acting
    <3> QED
      BY <2>2, <2>3, <2>4, <2>5, <3>1 DEF Goto
  <2> QED
    BY <1>1, <2>6, <2>7 DEF Aside
<1>2. ASSUME NEW next \in {"track", "watch", "snapshot"}, Goto(next), rec' = rec, ses' = ses,
             out' = out, pc \notin {"reconcile", "persist"}
      PROVE  Aside
  BY <1>2 DEF Goto, Aside
<1>3. CASE CloseEntitledAfterCommit
  <2> DEFINE next == IF cmd = "tick" THEN "track" ELSE "snapshot"
  <2>1. next \in {"track", "watch", "snapshot"} /\ FALSE \in BOOLEAN
    OBVIOUS
  <2>2. /\ out' = out /\ pc \notin {"reconcile", "persist"}
        /\ \/ rec.pending # Nil /\ TerminatePendingClose(FALSE, next)
           \/ Goto(next) /\ UNCHANGED <<rec, ses, alive, writing, budget>>
    BY <1>3 DEF CloseEntitledAfterCommit
  <2> HIDE DEF next
  <2> QED
    BY <1>1, <1>2, <2>1, <2>2
<1>4. CASE TrackCloseProgress
  <2>1. /\ out' = out /\ pc \notin {"reconcile", "persist"}
        /\ \/ rec.pending # Nil /\ TerminatePendingClose(FALSE, "watch")
           \/ Goto("watch") /\ UNCHANGED <<rec, ses, alive, writing, budget>>
    BY <1>4 DEF TrackCloseProgress
  <2> QED
    BY <1>1, <1>2, <2>1
<1>5. CASE UserTerminates
  <2>1. /\ out' = out /\ pc \notin {"reconcile", "persist"}
        /\ rec.pending # Nil /\ TerminatePendingClose(TRUE, "snapshot")
    BY <1>0, <1>5 DEF UserTerminates, HandlerInv
  <2> QED
    BY <1>1, <2>1
<1> QED
  BY <1>3, <1>4, <1>5

\* Neither do the other steps of Relay but a handoff, which ends the turn.
LEMMA QuietAside ==
  ASSUME CycleInv, \/ Tick \/ RequestSend \/ CandidateGone \/ NothingToSend \/ Snapshot
                   \/ PersistProcessAssociation \/ WatchClosing \/ ProcessStatus
                   \/ SelectCandidate \/ RequestCivClose \/ EditMatch
  PROVE  Aside /\ hashes' = hashes
<1>0. /\ TypeOK /\ HandlerInv /\ ses \in Sessions /\ rec \in Records /\ GoodRecords(rec, game, Turn, over)
      /\ ses.closing # Nil => ses.closing \in Procs
  BY DEF CycleInv, TypeOK, Sessions, Maybe
<1> DEFINE Same(s) == s \in Sessions /\ s.auto = ses.auto /\ s.autoKey = ses.autoKey
           Quiet   == \/ pc' = "reconcile" /\ ~call'.start
                      \/ /\ pc' \notin {"reconcile", "persist", "decide", "decided", "launch"}
                         /\ pc \notin {"reconcile", "persist"}
<1>1. Same(ses)
  BY <1>0
<1>2. ASSUME Same(ses'), Quiet, out' = out, hashes' = hashes,
             rec'.attempt = rec.attempt, rec'.verified = rec.verified
      PROVE  Aside /\ hashes' = hashes
  BY <1>2 DEF Aside
<1>3. CASE Tick
  <2>1. Same(ses')
    BY <1>0, <1>1, <1>3, ProbedCounts DEF Tick
  <2> QED
    BY <1>2, <1>3, <2>1 DEF Tick, CallReconcile, remote
<1>4. CASE RequestSend
  BY <1>1, <1>2, <1>4 DEF RequestSend, Open, Idle, Goto, remote
<1>5. CASE CandidateGone \/ NothingToSend
  <2>1. rec'.attempt = rec.attempt /\ rec'.verified = rec.verified
    BY <1>0, <1>5 DEF CandidateGone, NothingToSend, Records
  <2>2. Quiet
    BY <1>5 DEF CandidateGone, NothingToSend, RaiseError, AfterError, Goto
  <2> QED
    BY <1>1, <1>2, <1>5, <2>1, <2>2 DEF CandidateGone, NothingToSend, remote
<1>6. CASE Snapshot
  <2>1. Quiet
    BY <1>6 DEF Snapshot, CallReconcile, Goto
  <2> QED
    BY <1>1, <1>2, <1>6, <2>1 DEF Snapshot, remote
<1>7. CASE PersistProcessAssociation
  <2>1. ses.identity \in Procs
    BY <1>0, <1>7 DEF HandlerInv, PersistProcessAssociation, Sessions, Maybe
  <2>2. TRUE \in BOOLEAN /\ ses' = Observe(ses, ses.identity, TRUE)
    BY <1>7 DEF PersistProcessAssociation
  <2>3. Same(ses')
    BY <1>0, <2>1, <2>2, ObserveCounts
  <2>4. rec'.attempt = rec.attempt /\ rec'.verified = rec.verified
    BY <1>0, <1>7 DEF PersistProcessAssociation, Records
  <2> QED
    BY <1>2, <1>7, <2>3, <2>4 DEF PersistProcessAssociation, CallReconcile, remote
<1>8. CASE WatchClosing
  <2> DEFINE p == ses.closing
  <2>1. p \in Procs => /\ Same(Probe(ses, p)) /\ Same(NoteSafelyClosed(ses))
    BY <1>0, SessionTypes, SessionCounts
  <2>2. p \in Procs => Same(Observe(NoteSafelyClosed(ses), p, FALSE))
    BY <2>1, ObserveCounts
  <2>3. /\ ses' \in {ses, Probe(ses, p), Observe(NoteSafelyClosed(ses), p, FALSE)}
        /\ ses' = ses \/ p \in Procs
    BY <1>0, <1>8 DEF WatchClosing, TypeOK
  <2>4. Quiet
    <3>1. pc = "watch" /\ (CallReconcile(FALSE, Nil, "snapshot") \/ Goto("snapshot"))
      BY <1>8 DEF WatchClosing
    <3>2. CASE CallReconcile(FALSE, Nil, "snapshot")
      BY <3>2 DEF CallReconcile
    <3>3. CASE Goto("snapshot")
      BY <3>1, <3>3 DEF Goto
    <3> QED
      BY <3>1, <3>2, <3>3
  <2> QED
    BY <1>1, <1>2, <1>8, <2>1, <2>2, <2>3, <2>4 DEF WatchClosing, remote
<1>9. CASE ProcessStatus
  <2>1. ses.closing # Nil => Same(Probe(ses, ses.closing)) /\ Same(NoteSafelyClosed(ses))
    BY <1>0, SessionTypes, SessionCounts
  <2>2. Same(ses')
    BY <1>1, <1>9, <2>1 DEF ProcessStatus
  <2> QED
    BY <1>2, <1>9, <2>2 DEF ProcessStatus, Goto, remote
<1>10. CASE SelectCandidate
  <2>1. PICK stable \in SUBSET (rec.seen \cap files) :
          LET det == Detect(rec, files, stable, FALSE)
              now == ApplyDetection(rec, det)
          IN rec' = now \/ \E s \in det.candidates : rec' = [now EXCEPT !.candidate = s]
    BY <1>10 DEF SelectCandidate
  <2> DEFINE det == Detect(rec, files, stable, FALSE)
             now == ApplyDetection(rec, det)
  <2>2. rec' = now \/ \E s \in det.candidates : rec' = [now EXCEPT !.candidate = s]
    BY <2>1
  <2>3. GoodRecords(now, game, Turn, over) /\ now.verified = rec.verified
    BY <1>0, DetectionGood DEF TypeOK
  <2> HIDE DEF det
  <2>4. now.attempt = rec.attempt
    BY <1>0 DEF ApplyDetection, Records
  <2> HIDE DEF now
  <2>5. rec'.attempt = rec.attempt /\ rec'.verified = rec.verified
    BY <2>2, <2>3, <2>4 DEF GoodRecords, Records
  <2>6. Same(ses')
    BY <1>0, <1>10 DEF SelectCandidate, Sessions
  <2>7. Quiet /\ out' = out /\ hashes' = hashes
    BY <1>10 DEF SelectCandidate, Open, Idle, Goto, remote
  <2> QED
    BY <1>2, <2>5, <2>6, <2>7
<1>11. CASE RequestCivClose
  <2> DEFINE p == rec.pending.proc
  <2>1. p \in Procs
    BY <1>0, <1>11 DEF RequestCivClose, Records, Maybe
  <2>2. Same(Probe(ses, p))
    BY <1>0, <2>1, SessionTypes, SessionCounts
  <2>3. Same([Probe(ses, p) EXCEPT !.closing = p, !.closed = FALSE])
    BY <2>1, <2>2, SessionTypes DEF Sessions
  <2>4. ses' \in {ses, Probe(ses, p), [Probe(ses, p) EXCEPT !.closing = p, !.closed = FALSE]}
    BY <1>11 DEF RequestCivClose
  <2>5. rec'.attempt = rec.attempt /\ rec'.verified = rec.verified
    BY <1>0, <1>11 DEF RequestCivClose, MarkCloseRequested, Records
  <2>6. Quiet /\ out' = out /\ hashes' = hashes
    BY <1>11 DEF RequestCivClose, Open, Idle, Goto, remote
  <2> QED
    BY <1>1, <1>2, <2>2, <2>3, <2>4, <2>5, <2>6
<1>12. CASE EditMatch
  <2>1. rec'.attempt = rec.attempt /\ rec'.verified = rec.verified
    BY <1>0, <1>12 DEF EditMatch, Records
  <2>2. Quiet
    BY <1>12 DEF EditMatch, Open, Idle, Goto
  <2> QED
    BY <1>1, <1>2, <1>12, <2>1, <2>2 DEF EditMatch, remote
<1> QED
  BY <1>3, <1>4, <1>5, <1>6, <1>7, <1>8, <1>9, <1>10, <1>11, <1>12

LEMMA CommitAside ==
  ASSUME CycleInv, CommitHandoff
  PROVE  Aside /\ Turn' \in {Turn, Turn + 1}
<1>0. /\ ses \in Sessions /\ rec \in Records /\ hashes \in Seq(Saves) /\ Payload \in Saves
      /\ pc = "commit" /\ out' = out
  BY DEF CycleInv, TypeOK, CommitHandoff, Payload, Records, Sessions, Maybe
<1>1. hashes' = hashes \/ hashes' = Append(hashes, Payload)
  BY DEF CommitHandoff, AcceptedRemotely, remote
<1>2. \E j \in Maybe(Saves) : rec' = [rec EXCEPT !.journal = j]
  BY <1>0 DEF CommitHandoff, Records, Maybe
<1>3. \E b \in BOOLEAN : Remember(Payload, b)
  <2>1. (cmd = "tick") \in BOOLEAN /\ FALSE \in BOOLEAN
    OBVIOUS
  <2> QED
    BY <2>1 DEF CommitHandoff
<1>4. \/ pc' = "reconcile" /\ ~call'.start
      \/ pc' \in {"idle", "snapshot"}
  <2>1. \/ \E e : CallReconcile(FALSE, e, AfterCommit)
        \/ \E label \in AfterError : Goto(label)
    BY DEF CommitHandoff, RaiseError
  <2>2. AfterError \subseteq {"idle", "snapshot"}
    BY DEF AfterError
  <2>3. ASSUME NEW e, CallReconcile(FALSE, e, AfterCommit)
        PROVE  pc' = "reconcile" /\ ~call'.start
    BY <2>3 DEF CallReconcile
  <2> QED
    BY <2>1, <2>2, <2>3 DEF Goto
<1>5. ses'.auto = ses.auto /\ ses'.autoKey = ses.autoKey
  BY <1>0, <1>3 DEF Remember, Sessions
<1>6. rec'.attempt = rec.attempt /\ rec'.verified = rec.verified
  BY <1>0, <1>2 DEF Records
<1>7. Aside
  BY <1>0, <1>4, <1>5, <1>6 DEF Aside
<1>8. Turn' \in {Turn, Turn + 1}
  BY <1>0, <1>1 DEF Turn
<1> QED
  BY <1>7, <1>8

LEMMA EnvironmentAside ==
  ASSUME CycleInv, Environment
  PROVE  Aside /\ Turn' \in {Turn, Turn + 1} /\ pc' = pc
<1>1. UNCHANGED <<rec, ses, pc, cmd, call, out>>
  BY DEF Environment, OtherMoves, CivSaveEnd, CivLoads, CivSaveBegin, CivExits,
         UserStartsCiv, UserRemovesSave, UserCopiesSave, OutsideRelay
<1>2. hashes' = hashes \/ \E s \in Saves : hashes' = Append(hashes, s)
  BY DEF Environment, OtherMoves, CivSaveEnd, CivLoads, CivSaveBegin, CivExits,
         UserStartsCiv, UserRemovesSave, UserCopiesSave, remote
<1>3. Turn' \in {Turn, Turn + 1}
  BY <1>2 DEF CycleInv, TypeOK, Turn
<1> QED
  BY <1>1, <1>3 DEF Aside

LEMMA StopKeepsAttempts ==
  ASSUME CycleInv, AttemptInv, RelayStops \/ UNCHANGED vars
  PROVE  AttemptInv'
<1>1. CASE RelayStops
  <2>1. rec'.verified = rec.verified
    BY <1>1, JournalClearedGood DEF RelayStops, CycleInv, TypeOK
  <2> QED
    BY <1>1, <2>1 DEF RelayStops, NewSession, AttemptInv, Turn, remote
<1>2. CASE UNCHANGED vars
  BY <1>2 DEF AttemptInv, Turn, vars, remote, relay
<1> QED
  BY <1>1, <1>2

LEMMA StepAttempts ==
  ASSUME CycleInv, AttemptInv, [Next]_vars
  PROVE  AttemptInv'
<1>0. Turn \in Nat
  BY DEF CycleInv, TypeOK, Turn
<1>1. ASSUME Aside, Turn' \in {Turn, Turn + 1}
      PROVE  AttemptInv'
  BY <1>0, <1>1, AsideKeeps
<1>2. ASSUME hashes' = hashes
      PROVE  Turn' = Turn
  BY <1>2 DEF Turn
<1>3. CASE Reconcile
  BY <1>3, ReconcileKeepsAttempts DEF Reconcile
<1>4. CASE AutoAttempt \/ Decide \/ RequestStart
  BY <1>4, DecisionKeepsAttempts
<1>5. CASE Launch
  BY <1>5, LaunchKeepsAttempts
<1>6. CASE CommitHandoff
  BY <1>1, <1>6, CommitAside
<1>7. CASE CloseEntitledAfterCommit \/ TrackCloseProgress \/ UserTerminates
  <2>1. hashes' = hashes
    BY <1>7 DEF CloseEntitledAfterCommit, TrackCloseProgress, UserTerminates, remote
  <2> QED
    BY <1>1, <1>2, <1>7, <2>1, CloseAside
<1>8. CASE \/ Tick \/ RequestSend \/ CandidateGone \/ NothingToSend \/ Snapshot
           \/ PersistProcessAssociation \/ WatchClosing \/ ProcessStatus
           \/ SelectCandidate \/ RequestCivClose \/ EditMatch
  BY <1>1, <1>2, <1>8, QuietAside
<1>9. CASE Environment
  BY <1>1, <1>9, EnvironmentAside
<1>10. CASE RelayStops \/ UNCHANGED vars
  BY <1>10, StopKeepsAttempts
<1> QED
  BY <1>3, <1>4, <1>5, <1>6, <1>7, <1>8, <1>9, <1>10 DEF Next, Handler, UserRequest

\* The step at which Relay launches a process.
LEMMA LaunchesWhere ==
  ASSUME CycleInv, [Next]_vars, NEW p \in Procs, RelayLaunches(p)
  PROVE  pc = "launch" /\ "START" \in out.intents
<1>1. p \notin alive /\ p \in alive' /\ pc' # pc
  BY DEF RelayLaunches
<1>2. Launch
  BY <1>1, EnvironmentAside, CloseStep, RequestCloseStep
     DEF Next, Handler, UserRequest, Tick, Reconcile, ReconcileMatch, AutoAttempt, Decide,
         CandidateGone, NothingToSend, CommitHandoff, PersistProcessAssociation,
         WatchClosing, Snapshot, ProcessStatus, RequestStart, RequestSend, EditMatch,
         SelectCandidate, RelayStops, vars, machine
<1> QED
  BY <1>1, <1>2 DEF Launch, machine

\* Polling does not launch Civilization for a turn again once it has counted a
\* launch for it, unless the user asks: launch_attempt and the attempt of the
\* session say so together.
THEOREM NoSecondCountedLaunch == Spec => OneAutomaticLaunch
<1>1. Init => AttemptInv
  BY DEF Init, NewRecords, NewSession, AttemptInv
<1>2. Spec => [](CycleInv /\ AttemptInv)
  BY <1>1, InitInv, StepInv, StepAttempts, PTL DEF Spec
<1>3. ASSUME CycleInv, AttemptInv, [Next]_vars, NEW p \in Procs, RelayLaunches(p), cmd = "tick"
      PROVE  rec.verified \notin ses.auto
  <2>1. pc = "launch" /\ "START" \in out.intents
    BY <1>3, LaunchesWhere
  <2> QED
    BY <1>3, <2>1 DEF AttemptInv
<1>4. CycleInv /\ AttemptInv /\ [Next]_vars =>
        [\A p \in Procs : RelayLaunches(p) /\ cmd = "tick" => rec.verified \notin ses.auto]_vars
  BY <1>3
<1> QED
  BY <1>2, <1>4, PTL DEF Spec, OneAutomaticLaunch

-----------------------------------------------------------------------------
(* Saves written off, and the mode of the match *)

\* What a reconcile adds to the records q computed from r: it leaves the mode,
\* and writes off nothing but accepted saves.
Honest(r, q) ==
  q.managed = r.managed /\ q.processed \subseteq r.processed \cup Range(hashes)

\* Evidence of an accepted save writes off that save and no other.
LEMMA EvidenceHonest ==
  ASSUME NEW r \in Records, NEW ev, ev.save \in Range(hashes)
  PROVE  Honest(r, ApplyExactHandoffEvidence(r, ev))
BY DEF Honest, ApplyExactHandoffEvidence, Records

\* Evidence that counts names the last save the match has accepted.
LEMMA EvidenceAccepted ==
  ASSUME TypeOK, NEW ev, \/ ev \in Evidence /\ EvidenceCurrent(ev)
                         \/ ev = JournalEvidence /\ JournalEvidence # Nil
  PROVE  ev.save \in Range(hashes)
<1>1. hashes \in Seq(Saves) /\ Turn \in Nat
  BY DEF TypeOK, Turn
<1>2. Turn > 0 /\ ev.save = hashes[Turn]
  BY <1>1 DEF EvidenceCurrent, JournalEvidence, Evidence
<1> QED
  BY <1>1, <1>2 DEF Range, Turn

\* What the journal adds is honest.
LEMMA RecoveredHonest ==
  ASSUME TypeOK, GoodRecords(rec, game, Turn, over), NEW e
  PROVE  Honest(rec, Recovered(e).rec)
<1>1. JournalEvidence # Nil => JournalEvidence.save \in Range(hashes)
  BY EvidenceAccepted
<1> QED
  BY <1>1, EvidenceHonest DEF Recovered, Honest, GoodRecords

\* What a reconcile attributes, from its caller or the journal, is honest.
LEMMA AttributedHonest ==
  ASSUME TypeOK, GoodRecords(rec, game, Turn, over), NEW e \in Maybe(Evidence)
  PROVE  Honest(rec, Attributed(e).rec)
<1> DEFINE given     == Recovered(e).ev
           ev        == IF EvidenceCurrent(given) THEN given ELSE Nil
           recovered == Recovered(e).rec
           verified  == [recovered EXCEPT !.verified = Turn]
           applied   == IF ev = Nil THEN verified ELSE ApplyExactHandoffEvidence(verified, ev)
<1>1. rec \in Records
  BY DEF GoodRecords
<1>3. ev # Nil => ev \in Evidence /\ ev.turn < Turn /\ ev.save \in Range(hashes)
  <2>1. ev # Nil => given # Nil /\ ev = given /\ given.turn + 1 = Turn /\ EvidenceCurrent(given)
    BY DEF EvidenceCurrent
  <2>2. given # Nil => given \in Evidence
    BY RecoveredGood DEF Maybe
  <2> HIDE DEF ev, given
  <2>3. ev # Nil => ev.save \in Range(hashes)
    BY <2>1, <2>2, EvidenceAccepted
  <2>4. Turn \in Nat
    BY DEF TypeOK, Turn
  <2> QED
    BY <2>1, <2>2, <2>3, <2>4 DEF Evidence
<1>4. GoodRecords(recovered, game, Turn, over) /\ Honest(rec, recovered)
  BY RecoveredGood, RecoveredHonest
<1> HIDE DEF recovered, ev
<1>5. GoodRecords(verified, game, Turn, over) /\ verified \in Records
  BY <1>4, VerifiedKeeps DEF GoodRecords
<1>6. Honest(rec, verified)
  BY <1>4 DEF Honest, GoodRecords, Records
<1> HIDE DEF verified
<1>7. applied \in Records /\ Honest(rec, applied)
  <2>1. ev # Nil => /\ GoodRecords(ApplyExactHandoffEvidence(verified, ev), game, Turn, over)
                    /\ Honest(verified, ApplyExactHandoffEvidence(verified, ev))
    BY <1>3, <1>5, EvidenceApplied, EvidenceHonest
  <2> QED
    BY <1>5, <1>6, <2>1 DEF Honest, GoodRecords
<1>8. Attributed(e).rec = [applied EXCEPT !.pending = DropExited(@)]
  BY DEF Attributed, ev, verified, recovered
<1> HIDE DEF applied
<1> QED
  BY <1>7, <1>8 DEF Honest, Records

\* The look at the directory writes nothing off.
LEMMA LookedAtHonest ==
  ASSUME NEW r \in Records, NEW stable, NEW fault
  PROVE  Honest(r, LookedAt(r, stable, fault).rec)
<1> DEFINE ready   == cur = "local" /\ (Turn = 0 \/ fault # "download")
           present == IF ready /\ Turn > 0 THEN files \cup {hashes[Turn]} ELSE files
           det     == IF ready THEN Detect(r, present, stable, fault = "scan") ELSE Nil
<1>1. LookedAt(r, stable, fault)
        = [rec |-> IF ready THEN ApplyDetection(r, det) ELSE r, files |-> present, det |-> det]
  BY DEF LookedAt
<1>2. Honest(r, ApplyDetection(r, det)) /\ Honest(r, r)
  BY DEF ApplyDetection, Records, Honest
<1> HIDE DEF ready, present, det
<1> QED
  BY <1>1, <1>2

\* In standard mode a start is intended only where one was asked for.
LEMMA ConcludedHonest ==
  ASSUME NEW look, look.rec \in Records, NEW ev, NEW start, NEW fault
  PROVE  LET done == Concluded(ev, look, start, fault)
         IN /\ Honest(look.rec, done.rec)
            /\ "START" \in done.out.intents => start \/ Managed
<1> DEFINE state    == OperationalState(look.rec, ev, look.det)
           intents  == DecideIntents(state, look.rec, ev, look.det, start)
           closed   == IF "CLOSE" \in intents
                       THEN [look.rec EXCEPT !.pending.requested = TRUE] ELSE look.rec
           starting == "START" \in intents /\ fault # "capture"
           done     == Concluded(ev, look, start, fault)
<1>1. /\ done.rec = IF starting THEN CaptureBaseline(closed, look.files) ELSE closed
      /\ done.out.intents = IF starting THEN intents ELSE intents \ {"START"}
  BY DEF Concluded
<1>2. /\ Honest(look.rec, closed)
      /\ Honest(look.rec, CaptureBaseline(closed, look.files))
  <2>1. /\ DOMAIN closed = DOMAIN look.rec /\ closed = [i \in DOMAIN look.rec |-> closed[i]]
        /\ closed.managed = look.rec.managed /\ closed.processed = look.rec.processed
    BY DEF Records
  <2> HIDE DEF closed
  <2> QED
    BY <2>1 DEF CaptureBaseline, Records, Honest
<1>3. "START" \in intents => start \/ Managed
  BY DEF DecideIntents, WantsStart
<1> HIDE DEF intents, closed, done
<1>4. Honest(look.rec, done.rec) /\ ("START" \in done.out.intents => start \/ Managed)
  BY <1>1, <1>2, <1>3
<1> QED
  BY <1>4 DEF done

\* A whole reconcile is honest, and intends a start only as asked or as the mode has it.
LEMMA ReconcileHonest ==
  ASSUME CycleInv, NEW stable, ReconcileMatch(stable)
  PROVE  Honest(rec, rec') /\ ("START" \in out'.intents => call.start \/ Managed)
<1>0. TypeOK /\ GoodRecords(rec, game, Turn, over) /\ call \in Calls
  BY DEF CycleInv, ReconcileMatch, TypeOK
<1>1. CASE ReconcileFailed
  <2>1. /\ rec' \in {rec, JournalCleared, Recovered(call.evidence).rec}
        /\ out'.intents \subseteq {"CLOSE"}
    BY <1>1 DEF ReconcileFailed
  <2>2. Honest(rec, rec) /\ Honest(rec, JournalCleared)
    BY <1>0 DEF Honest, JournalCleared, GoodRecords, Records
  <2> QED
    BY <1>0, <2>1, <2>2, RecoveredHonest
<1>2. ASSUME NEW fault,
             \E a \in {Attributed(call.evidence)} :
             \E look \in {LookedAt(a.rec, stable, fault)} :
             \E done \in {Concluded(a.ev, look, call.start, fault)} :
               rec' = done.rec /\ files' = look.files /\ over' = done.over /\ out' = done.out
      PROVE  Honest(rec, rec') /\ ("START" \in out'.intents => call.start \/ Managed)
  <2> DEFINE a    == Attributed(call.evidence)
             look == LookedAt(a.rec, stable, fault)
             done == Concluded(a.ev, look, call.start, fault)
  <2>1. rec' = done.rec /\ out' = done.out
    BY <1>2
  <2>2. GoodRecords(a.rec, game, Turn, over) /\ a.rec.verified = Turn /\ Honest(rec, a.rec)
    BY <1>0, AttributedGood, AttributedHonest DEF Calls
  <2> HIDE DEF a
  <2>3. look.rec \in Records /\ Honest(a.rec, look.rec)
    BY <1>0, <2>2, LookedAtGood, LookedAtHonest DEF GoodRecords
  <2> HIDE DEF look
  <2>4. Honest(look.rec, done.rec) /\ ("START" \in done.out.intents => call.start \/ Managed)
    BY <2>3, ConcludedHonest
  <2> HIDE DEF done
  <2> QED
    BY <2>1, <2>2, <2>3, <2>4 DEF Honest
<1>3. \/ ReconcileFailed
      \/ \E fault \in {Nil} \cup LocalFaults :
           \E a \in {Attributed(call.evidence)} :
           \E look \in {LookedAt(a.rec, stable, fault)} :
           \E done \in {Concluded(a.ev, look, call.start, fault)} :
             rec' = done.rec /\ files' = look.files /\ over' = done.over /\ out' = done.out
  BY DEF ReconcileMatch
<1> QED
  BY <1>1, <1>2, <1>3

\* A step that is no reconcile writes off no save, and forgets no accepted one.
LEMMA OthersWriteOffNothing ==
  ASSUME CycleInv, [Next]_vars, ~Reconcile
  PROVE  rec'.processed = rec.processed /\ Range(hashes) \subseteq Range(hashes')
<1>0. rec \in Records /\ hashes \in Seq(Saves)
  BY DEF CycleInv, TypeOK
<1>1. hashes' = hashes \/ \E s : hashes' = Append(hashes, s)
  BY DEF Next, Handler, UserRequest, Environment, Tick, AutoAttempt, Decide, CandidateGone,
     NothingToSend, CommitHandoff, AcceptedRemotely, Launch, PersistProcessAssociation,
     CloseEntitledAfterCommit, TrackCloseProgress, WatchClosing, UserTerminates, Snapshot,
     ProcessStatus, RequestStart, RequestSend, SelectCandidate, RequestCivClose, EditMatch,
     OtherMoves, CivSaveEnd, CivLoads, CivSaveBegin, CivExits, UserStartsCiv,
     UserRemovesSave, UserCopiesSave, RelayStops, vars, remote
<1>2. Range(hashes) \subseteq Range(hashes')
  BY <1>0, <1>1 DEF Range
<1>3. CASE SelectCandidate
  <2>1. PICK stable \in SUBSET (rec.seen \cap files) :
          LET now == ApplyDetection(rec, Detect(rec, files, stable, FALSE))
          IN rec' = now \/ \E s : rec' = [now EXCEPT !.candidate = s]
    BY <1>3 DEF SelectCandidate
  <2> DEFINE det == Detect(rec, files, stable, FALSE)
             now == ApplyDetection(rec, det)
  <2> HIDE DEF det
  <2>2. rec' = now \/ \E s : rec' = [now EXCEPT !.candidate = s]
    BY <2>1 DEF det
  <2>3. now.processed = rec.processed
    BY <1>0 DEF ApplyDetection, Records
  <2>4. now \in Records
    BY <1>0, DetectionGood DEF CycleInv, TypeOK, GoodRecords, det
  <2> HIDE DEF now
  <2>5. rec'.processed = now.processed
    BY <2>2, <2>4 DEF Records
  <2> QED
    BY <1>2, <2>3, <2>5
<1>4. CASE CloseEntitledAfterCommit \/ TrackCloseProgress \/ UserTerminates
  <2>1. rec' \in {rec, [rec EXCEPT !.pending.requested = TRUE]}
    BY <1>4 DEF CloseEntitledAfterCommit, TrackCloseProgress, UserTerminates,
       TerminatePendingClose, MarkCloseRequested
  <2> QED
    BY <1>0, <1>2, <2>1 DEF Records
<1>5. CASE CandidateGone \/ CommitHandoff \/ Launch \/ PersistProcessAssociation
           \/ RequestCivClose \/ EditMatch \/ RelayStops
  <2>1. \/ rec' = rec
        \/ rec' = [rec EXCEPT !.candidate = Nil]
        \/ \E j : rec' = [rec EXCEPT !.journal = j]
        \/ rec' = [rec EXCEPT !.attempt = Nil]
        \/ \E a : rec' = [rec EXCEPT !.assoc = a]
        \/ rec' = [rec EXCEPT !.pending.requested = TRUE]
        \/ \E mode : rec' = [rec EXCEPT !.managed = mode]
    BY <1>5 DEF CandidateGone, CommitHandoff, Launch, Defer, Launched, LaunchFailed,
       PersistProcessAssociation, RequestCivClose, MarkCloseRequested, EditMatch, RelayStops,
       JournalCleared
  <2>2. rec'.processed = rec.processed
    BY <1>0, <2>1 DEF Records
  <2> QED
    BY <1>2, <2>2
<1>6. CASE \/ Tick \/ AutoAttempt \/ Decide \/ NothingToSend \/ WatchClosing \/ Snapshot
           \/ ProcessStatus \/ RequestStart \/ RequestSend \/ Environment \/ UNCHANGED vars
  <2>1. rec' = rec
    BY <1>6 DEF Environment, Tick, AutoAttempt, Decide, NothingToSend, WatchClosing, Snapshot,
       ProcessStatus, RequestStart, RequestSend, OtherMoves, CivSaveEnd, CivLoads, CivSaveBegin,
       CivExits, UserStartsCiv, UserRemovesSave, UserCopiesSave, OutsideRelay, vars, relay
  <2> QED
    BY <1>2, <2>1
<1> QED
  BY <1>3, <1>4, <1>5, <1>6 DEF Next, Handler, UserRequest

\* A save that Relay never offers again because it was sent is an accepted one,
\* over lost answers, stops and the recovery of a handoff from the journal.
THEOREM OnlyAcceptedWrittenOff == Spec => []ProcessedAccepted
<1>1. Init => ProcessedAccepted
  BY DEF Init, NewRecords, ProcessedAccepted
<1>2. ASSUME CycleInv, ProcessedAccepted, [Next]_vars
      PROVE  ProcessedAccepted'
  <2>1. CASE Reconcile
    <3>1. Honest(rec, rec') /\ hashes' = hashes
      BY <1>2, <2>1, ReconcileHonest DEF Reconcile, ReconcileMatch, remote
    <3> QED
      BY <1>2, <3>1 DEF Honest, ProcessedAccepted
  <2>2. CASE ~Reconcile
    BY <1>2, <2>2, OthersWriteOffNothing DEF ProcessedAccepted
  <2> QED
    BY <2>1, <2>2
<1> QED
  BY <1>1, <1>2, Invariant, PTL DEF Spec

\* Outside fully managed mode no step lies ahead that sends, starts or
\* terminates by itself, though the mode changes while a match is open.
StandardInv ==
  /\ pc = "user close" \/ (pc = "commit" /\ cmd = "tick") => Managed
  /\ pc = "reconcile" /\ call.start => cmd = "start" \/ Managed
  /\ pc \in {"decide", "decided", "launch"} /\ "START" \in out.intents
       => cmd = "start" \/ Managed

\* The handler is at a step, or in a reconcile, that StandardInv asks nothing of.
AtRest ==
  /\ pc' \notin {"user close", "commit", "decide", "decided", "launch"}
  /\ pc' = "reconcile" => ~call'.start

\* A reconcile that is not asked to start leads to no step of StandardInv.
LEMMA QuietCall ==
  ASSUME NEW e, NEW ret, CallReconcile(FALSE, e, ret)
  PROVE  AtRest
BY DEF CallReconcile, AtRest

\* Every handler that follows another one keeps StandardInv, a change of the mode included.
LEMMA StandardKept ==
  ASSUME CycleInv, StandardInv, [Next]_vars
  PROVE  StandardInv'
<1>0. /\ rec \in Records /\ pc \in Labels
      /\ pc = "reconcile" => call \in Calls
  BY DEF CycleInv, TypeOK
<1>1. ASSUME AtRest PROVE StandardInv'
  BY <1>1 DEF AtRest, StandardInv
<1>2. CASE Reconcile
  <2>1. PICK stable : ReconcileMatch(stable)
    BY <1>2 DEF Reconcile
  <2>2. /\ Honest(rec, rec') /\ ("START" \in out'.intents => call.start \/ Managed)
        /\ pc = "reconcile" /\ pc' \in Returns /\ cmd' = cmd
    BY <1>0, <2>1, ReconcileHonest DEF ReconcileMatch, Calls
  <2> QED
    BY <2>2 DEF StandardInv, Managed, Honest, Returns
<1>3. CASE Tick \/ CandidateGone \/ NothingToSend \/ Snapshot \/ ProcessStatus \/ WatchClosing
           \/ PersistProcessAssociation \/ SelectCandidate \/ EditMatch \/ RelayStops
  <2>1. \/ \E e, ret : CallReconcile(FALSE, e, ret)
        \/ pc' \in {"idle", "snapshot", "status", "opened"}
    BY <1>3 DEF Tick, CandidateGone, NothingToSend, RaiseError, AfterError, Snapshot,
       ProcessStatus, WatchClosing, PersistProcessAssociation, SelectCandidate, EditMatch,
       RelayStops, Goto
  <2>2. AtRest
    BY <2>1, QuietCall DEF AtRest
  <2> QED
    BY <1>1, <2>2
<1>4. CASE Launch
  <2>1. pc' \in {"close", "persist"}
    BY <1>4 DEF Launch, Defer, Launched, LaunchFailed, Goto
  <2> QED
    BY <1>1, <2>1 DEF AtRest
<1>5. CASE CloseEntitledAfterCommit \/ TrackCloseProgress \/ UserTerminates
  <2>1. ASSUME NEW user, NEW next \in {"track", "watch", "snapshot"},
               TerminatePendingClose(user, next)
        PROVE  pc' = next \/ \E e, ret : CallReconcile(FALSE, e, ret)
    BY <2>1 DEF TerminatePendingClose, TerminateAnswered, Goto
  <2>2. \/ pc' \in {"track", "watch", "snapshot"}
        \/ \E e, ret : CallReconcile(FALSE, e, ret)
    BY <1>5, <2>1 DEF CloseEntitledAfterCommit, TrackCloseProgress, UserTerminates, Goto
  <2>3. AtRest
    BY <2>2, QuietCall DEF AtRest
  <2> QED
    BY <1>1, <2>3
<1>6. CASE CommitHandoff
  <2>1. \/ \E e : CallReconcile(FALSE, e, AfterCommit)
        \/ RaiseError
    BY <1>6 DEF CommitHandoff
  <2>2. AtRest
    BY <2>1, QuietCall DEF AtRest, RaiseError, AfterError, Goto
  <2> QED
    BY <1>1, <2>2
<1>7. CASE AutoAttempt \/ Decide
  <2>1. /\ rec' = rec /\ cmd' = cmd /\ out' = out /\ pc \in {"decide", "decided"}
        /\ (pc' = "reconcile" => Managed) /\ (pc' = "commit" => Managed)
        /\ pc' \in {"reconcile", "commit", "launch"}
    BY <1>7 DEF AutoAttempt, NeedsOneAutoAttempt, Decide, CallReconcile, Goto
  <2> QED
    BY <2>1 DEF StandardInv, Managed
<1>8. CASE RequestStart \/ RequestSend
  <2>1. \/ pc' = "reconcile" /\ cmd' = "start"
        \/ pc' = "commit" /\ cmd' = "send"
    BY <1>8 DEF RequestStart, RequestSend, CallReconcile, Goto
  <2> QED
    BY <2>1 DEF StandardInv
<1>9. CASE RequestCivClose
  <2>1. \/ pc' = "snapshot"
        \/ pc' = "user close" /\ Managed /\ rec' = rec
    BY <1>9 DEF RequestCivClose, Goto
  <2> QED
    BY <2>1 DEF StandardInv, Managed
<1>10. CASE Environment \/ UNCHANGED vars
  <2>1. UNCHANGED <<rec, pc, cmd, call, out>>
    BY <1>10 DEF Environment, OtherMoves, CivSaveEnd, CivLoads, CivSaveBegin, CivExits,
       UserStartsCiv, UserRemovesSave, UserCopiesSave, OutsideRelay, vars, relay
  <2> QED
    BY <2>1 DEF StandardInv, Managed
<1> QED
  BY <1>2, <1>3, <1>4, <1>5, <1>6, <1>7, <1>8, <1>9, <1>10 DEF Next, Handler, UserRequest

\* In standard mode Relay terminates nothing, starts only what was asked for and
\* sends nothing on a tick, whatever the match was in the middle of when its
\* mode was changed.
THEOREM StandardModePassive == Spec => StandardActsOnRequest
<1>1. Init => StandardInv
  BY DEF Init, StandardInv
<1>2. Spec => [](CycleInv /\ StandardInv)
  BY <1>1, InitInv, StepInv, StandardKept, PTL DEF Spec
<1>3. ASSUME CycleInv, StandardInv, [Next]_vars, ~Managed, NEW p \in Procs
      PROVE  ~RelayTerminates(p) /\ (RelayLaunches(p) => cmd = "start")
  <2>1. ASSUME RelayTerminates(p) PROVE FALSE
    <3>1. p \in alive /\ p \notin alive'
      BY <2>1 DEF RelayTerminates
    <3>2. CloseEntitledAfterCommit \/ TrackCloseProgress \/ UserTerminates
      BY <1>3, <2>1, TerminatesWhere
    <3>3. ~UserTerminates
      BY <1>3 DEF StandardInv, UserTerminates
    <3> QED
      BY <1>3, <3>1, <3>2, <3>3 DEF CloseEntitledAfterCommit, TrackCloseProgress
  <2>2. ASSUME RelayLaunches(p) PROVE cmd = "start"
    BY <1>3, <2>2, LaunchesWhere DEF StandardInv
  <2> QED
    BY <2>1, <2>2
<1>4. ASSUME CycleInv, StandardInv, [Next]_vars, ~Managed, NEW s \in Saves
      PROVE  ~SentByTick(s)
  <2>1. SUFFICES ASSUME hashes' = Append(hashes, s), cmd = "tick", pc' # pc PROVE FALSE
    BY DEF SentByTick
  <2>2. hashes' # hashes
    BY <1>4, <2>1 DEF CycleInv, TypeOK
  <2>3. ~CommitHandoff
    BY <1>4, <2>1 DEF StandardInv, CommitHandoff
  <2>4. ~Environment
    BY <1>4, <2>1, EnvironmentAside
  <2> QED
    BY <1>4, <2>2, <2>3, <2>4
       DEF Next, Handler, UserRequest, Tick, Reconcile, ReconcileMatch, AutoAttempt, Decide,
           CandidateGone, NothingToSend, Launch, PersistProcessAssociation, EditMatch,
           CloseEntitledAfterCommit, TrackCloseProgress, WatchClosing, UserTerminates, Snapshot,
           ProcessStatus, RequestStart, RequestSend, SelectCandidate, RequestCivClose,
           RelayStops, vars, remote
<1>5. CycleInv /\ StandardInv /\ [Next]_vars =>
        [~Managed =>
           /\ \A p \in Procs : ~RelayTerminates(p) /\ (RelayLaunches(p) => cmd = "start")
           /\ \A s \in Saves : ~SentByTick(s)]_vars
  BY <1>3, <1>4
<1> QED
  BY <1>2, <1>5, PTL DEF Spec, StandardActsOnRequest
=============================================================================
