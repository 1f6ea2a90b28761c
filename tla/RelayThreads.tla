---------------------------- MODULE RelayThreads ----------------------------
(***************************************************************************)
(* The threads of the desktop client together: the GUI thread and the      *)
(* worker (WorkerHub), and the observers of the PBEM directories           *)
(* (FileWatch), which set a flag that the worker reads and clears. What a  *)
(* call of the worker does to the sessions is added to the steps of        *)
(* WorkerHub; a tick or a snapshot first looks and later concludes.        *)
(***************************************************************************)
EXTENDS WorkerHub

CONSTANTS
  Watched,     \* the matches whose directories are followed
  MaxChanges, MaxFaults   \* bounds of FileWatch

ASSUME WatchedAssumption ==
  /\ Watched \subseteq Games /\ MaxChanges \in Nat /\ MaxFaults \in Nat
  /\ Nil \notin Nat \cup {"primary", "fallback"}

VARIABLES directory, unreported, observer, active, scanned, dirty, looked, known, changes, faults

Watch == INSTANCE FileWatch WITH Games <- Watched

session == <<dirty, looked, known>>
watch == <<directory, unreported, observer, active, scanned, session, changes, faults>>

ThreadsInit == Init /\ Watch!Init

\* A command that opens a match starts its monitor; that one and most others
\* also reconcile. Whether their reconcile succeeds is told in the snapshot.
Command(g) ==
  /\ CommandEnds(g)
  /\ \/ g \in Watched /\ Watch!StartMonitor(g) /\ UNCHANGED session
     \/ UNCHANGED watch

\* Seeded fault: a tick reconciles only a match of which an event has come.
Due_ByEvent(g) == g \in dirty \/ known[g] = Nil

\* A tick always reconciles; a snapshot does when the session is dirty.
Due(g) == run.what = "poll" \/ g \in dirty \/ known[g] = Nil

ReconcileBegins(g) ==
  /\ run # Nil /\ run.what \in {"poll", "snapshot"} /\ g \in run.games \cap Watched
  /\ looked[g] = Nil /\ Due(g)
  /\ IF run.what = "poll" THEN Watch!Tick(g) ELSE Watch!Refresh(g)
  /\ UNCHANGED vars

ReconcileEnds(g) ==
  /\ MatchDone(g)
  /\ IF g \notin Watched \/ (looked[g] = Nil /\ ~Due(g)) THEN UNCHANGED watch
     ELSE looked[g] # Nil /\ (Watch!Conclude(g) \/ Watch!Fail(g))

WorkerCalls == \E g \in Games : Command(g) \/ ReconcileBegins(g) \/ ReconcileEnds(g)

\* Whatever closes the client stops the monitors.
GuiThread ==
  /\ User \/ Gui
  /\ IF closed' = closed THEN UNCHANGED watch ELSE Watch!StopMonitors

ThreadsNext ==
  \/ GuiThread
  \/ WorkerCalls
  \/ (TakeCall \/ Poll \/ ThreadEnds \/ Done) /\ UNCHANGED watch
  \/ Watch!Surroundings /\ UNCHANGED vars

ThreadsSpec == ThreadsInit /\ [][ThreadsNext]_<<vars, watch>>

\* As in WorkerHub; the timer's events are handled in every round, too.
ThreadsLiveSpec ==
  /\ ThreadsSpec
  /\ WF_<<vars, watch>>(Gui /\ GuiThread) /\ WF_<<vars, watch>>(WorkerCalls)
  /\ SF_<<vars, watch>>(TakeCall /\ UNCHANGED watch)
  /\ SF_<<vars, watch>>(Poll /\ UNCHANGED watch)
  /\ SF_<<vars, watch>>(ThreadEnds /\ UNCHANGED watch)

\* Every change of the directory of an open match is seen by a reconcile while
\* polling runs: the events may be lost with a dead observer, before the first
\* scan of the poller, or between the look and the end of a reconcile.
ChangesSeen ==
  \A g \in Watched : (g \in open /\ timer) ~> (known[g] = <<directory[g]>> \/ shutDown)
=============================================================================
