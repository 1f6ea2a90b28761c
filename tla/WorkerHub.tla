----------------------------- MODULE WorkerHub -----------------------------
(***************************************************************************)
(* The two threads of the desktop client (ui/controller.py, ui/app.py):    *)
(* the GUI thread with RelayWorkerHub and the quit flow of                 *)
(* RelayApplication, and the worker thread with MatchWorker, which does    *)
(* all work of the RelayClient. They talk through queued signals; either   *)
(* queue is handled in order by its thread. A call to the RelayClient      *)
(* takes time: it begins in one step of the worker and ends in another,    *)
(* and meanwhile the GUI thread goes on, or waits for the worker to stop.  *)
(***************************************************************************)
EXTENDS Naturals, Sequences, FiniteSets

CONSTANTS
  Games,      \* matches
  Nil,        \* no value
  MaxAsking   \* bound: quit questions open at once, one nested in another

Runs == [what : {"command", "snapshot", "poll"}, games : SUBSET Games]

ASSUME ConstantsAssumption == MaxAsking \in Nat \ {0} /\ Nil \notin Games \cup Runs

VARIABLES
  gui,        \* "starting", "idle" in its event loop, or "joining" the worker
  asking,     \* the open quit questions, by what asked for the quit
  inbox,      \* matches of the command_finished signals queued to the hub
  busy,       \* RelayWorkerHub._busy
  shutDown,   \* RelayWorkerHub._shut_down
  quitPosted, \* _shutdown_quit_posted; the signals are disconnected with it
  closed,     \* the RelayClient is closed: _client_closed, _shut_down of the application
  exited,     \* the event loop of the application was left
  queue,      \* calls queued to the worker
  run,        \* the call the worker is in, or Nil
  open,       \* MatchWorker._open_ids
  timer,      \* the poll timer runs
  stopping,   \* MatchWorker._shutting_down
  ended       \* the worker thread has finished

vars == <<gui, asking, inbox, busy, shutDown, quitPosted, closed, exited, queue, run, open,
          timer, stopping, ended>>
hubVars == <<busy, shutDown, quitPosted, closed, exited>>
workerVars == <<run, open, timer, stopping, ended>>

Init ==
  /\ gui = "starting" /\ asking = <<>> /\ inbox = <<>> /\ busy = {}
  /\ shutDown = FALSE /\ quitPosted = FALSE /\ closed = FALSE /\ exited = FALSE
  /\ queue = <<>> /\ run = Nil /\ open = {}
  /\ timer = FALSE /\ stopping = FALSE /\ ended = FALSE

Call(what, game) == [what |-> what, game |-> game]

\* A signal to the worker reaches it until it is disconnected.
Emit(call) == queue' = IF quitPosted THEN queue ELSE Append(queue, call)

-----------------------------------------------------------------------------
(* GUI thread: commands *)

\* Seeded fault: a command is sent although one for the match is on its way.
Dispatch_Duplicates(g) ==
  /\ gui \in {"starting", "idle"} /\ asking = <<>> /\ ~exited
  /\ ~shutDown
  /\ busy' = busy \cup {g}
  /\ Emit(Call("command", g))
  /\ UNCHANGED <<gui, asking, inbox, shutDown, quitPosted, closed, exited, workerVars>>

\* Any command of the user for a match, and open_match for a stored one at the
\* start. A question to the user keeps the window from sending commands.
Dispatch(g) ==
  /\ gui \in {"starting", "idle"} /\ asking = <<>> /\ ~exited
  /\ ~shutDown /\ g \notin busy
  /\ busy' = busy \cup {g}
  /\ Emit(Call("command", g))
  /\ UNCHANGED <<gui, asking, inbox, shutDown, quitPosted, closed, exited, workerVars>>

\* The end of RelayApplication.start.
StartPolling ==
  /\ gui = "starting" /\ gui' = "idle"
  /\ Emit(Call("start_polling", Nil))
  /\ UNCHANGED <<asking, inbox, hubVars, workerVars>>

OnCommandFinished ==
  /\ gui = "idle" /\ ~exited /\ inbox # <<>>
  /\ inbox' = Tail(inbox) /\ busy' = busy \ {Head(inbox)}
  /\ UNCHANGED <<gui, asking, shutDown, quitPosted, closed, exited, queue, workerVars>>

-----------------------------------------------------------------------------
(* GUI thread: the quit flow *)

\* The application is let go once the worker has been joined and the client closed.
CloseAndExit ==
  /\ closed' = TRUE /\ exited' = TRUE /\ gui' = "idle"
  /\ UNCHANGED <<inbox, busy, quitPosted, queue, workerVars>>

\* Seeded fault: the worker is told to prepare but its loop is not told to quit.
BeginShutdown_NoQuit ==
  /\ shutDown' = TRUE
  /\ \/ ended /\ CloseAndExit
     \/ /\ ~ended /\ gui' = "joining" /\ quitPosted' = quitPosted
        /\ Emit(Call("prepare_shutdown", Nil))
        /\ UNCHANGED <<inbox, busy, closed, exited, workerVars>>

\* RelayWorkerHub.shutdown up to the wait for the thread. prepare_shutdown and
\* the end of the thread's event loop are asked for once.
BeginShutdown ==
  /\ shutDown' = TRUE
  /\ \/ ended /\ CloseAndExit
     \/ /\ ~ended /\ gui' = "joining" /\ quitPosted' = TRUE
        /\ Emit(Call("prepare_shutdown", Nil))
        /\ UNCHANGED <<inbox, busy, closed, exited, workerVars>>

\* request_quit, from the menu or the tray, or through the quit gate by a Quit
\* event, which is ignored while the gate is being asked. Whether a match is
\* active, so that the user has to confirm, is not modelled.
RequestQuit(from) ==
  /\ gui = "idle" /\ ~exited
  /\ from = "event" => \A i \in 1..Len(asking) : asking[i] # "event"
  /\ \/ /\ Len(asking) < MaxAsking /\ asking' = Append(asking, from)
        /\ UNCHANGED <<gui, inbox, hubVars, queue, workerVars>>
     \/ BeginShutdown /\ UNCHANGED asking

\* The innermost question is answered.
Answer ==
  /\ gui = "idle" /\ ~exited /\ asking # <<>>
  /\ asking' = SubSeq(asking, 1, Len(asking) - 1)
  /\ \/ BeginShutdown
     \/ UNCHANGED <<gui, inbox, hubVars, queue, workerVars>>

Joined ==
  /\ gui = "joining" /\ ended
  /\ CloseAndExit /\ UNCHANGED <<asking, shutDown>>

\* Seeded fault: the client is closed although the worker could not be joined.
JoinTimesOut_Closes ==
  /\ gui = "joining" /\ ~ended /\ gui' = "idle" /\ closed' = TRUE
  /\ UNCHANGED <<asking, inbox, busy, shutDown, quitPosted, exited, queue, workerVars>>

\* JOIN_TIMED_OUT: Relay stays open and the quit can be asked for again.
JoinTimesOut ==
  /\ gui = "joining" /\ ~ended /\ gui' = "idle"
  /\ UNCHANGED <<asking, inbox, hubVars, queue, workerVars>>

-----------------------------------------------------------------------------
(* Worker thread *)

\* Work on the next queued call begins, unless the call only sets the timer.
\* _run_command refuses a command once prepare_shutdown has run.
TakeCall ==
  /\ ~ended /\ run = Nil /\ queue # <<>> /\ queue' = Tail(queue)
  /\ LET call == Head(queue) IN
       /\ run' = IF call.what = "command" /\ ~stopping
                 THEN [what |-> "command", games |-> {call.game}] ELSE Nil
       /\ timer' = CASE call.what = "start_polling" -> ~stopping
                     [] call.what = "prepare_shutdown" -> FALSE
                     [] OTHER -> timer
       /\ stopping' = (stopping \/ call.what = "prepare_shutdown")
  /\ UNCHANGED <<gui, asking, inbox, hubVars, open, ended>>

\* command_finished.emit, unless the hub has disconnected.
EmitFinished(g) == inbox' = IF quitPosted THEN inbox ELSE Append(inbox, g)

\* Seeded fault: a command that raises does not report its end.
CommandEnds_OnlyAccepted(g) ==
  /\ run # Nil /\ run.what = "command" /\ g \in run.games
  /\ \E accepted \in BOOLEAN :
       /\ open' = IF accepted THEN open \cup {g} ELSE open
       /\ IF accepted THEN EmitFinished(g) ELSE UNCHANGED inbox
       /\ run' = IF g \in open' /\ ~stopping THEN [what |-> "snapshot", games |-> {g}] ELSE Nil
  /\ UNCHANGED <<gui, asking, hubVars, queue, timer, stopping, ended>>

\* A command ends, accepted, rejected or with an exception; its match stays
\* open once it was opened, and a snapshot of it is taken.
CommandEnds(g) ==
  /\ run # Nil /\ run.what = "command" /\ g \in run.games
  /\ \E accepted \in BOOLEAN : open' = IF accepted THEN open \cup {g} ELSE open
  /\ EmitFinished(g)
  /\ run' = IF g \in open' /\ ~stopping THEN [what |-> "snapshot", games |-> {g}] ELSE Nil
  /\ UNCHANGED <<gui, asking, hubVars, queue, timer, stopping, ended>>

\* The timer calls poll, which ticks the open matches one by one. The timer is
\* stopped before _shutting_down is seen by poll.
Poll ==
  /\ ~ended /\ run = Nil /\ timer /\ open # {}
  /\ run' = [what |-> "poll", games |-> open]
  /\ UNCHANGED <<gui, asking, inbox, hubVars, queue, open, timer, stopping, ended>>

\* A snapshot, or the tick of a match in a poll, is done or has failed.
MatchDone(g) ==
  /\ run # Nil /\ run.what \in {"snapshot", "poll"} /\ g \in run.games
  /\ run' = IF run.games = {g} THEN Nil ELSE [run EXCEPT !.games = @ \ {g}]
  /\ UNCHANGED <<gui, asking, inbox, hubVars, queue, open, timer, stopping, ended>>

\* The event loop of the thread ends between two calls, with the queued ones
\* done or, when the last was the timer's, not.
ThreadEnds ==
  /\ quitPosted /\ ~ended /\ run = Nil
  /\ ended' = TRUE
  /\ UNCHANGED <<gui, asking, inbox, hubVars, queue, run, open, timer, stopping>>

-----------------------------------------------------------------------------
User ==
  \/ \E g \in Games : Dispatch(g)
  \/ \E from \in {"menu", "event"} : RequestQuit(from)
  \/ Answer
Gui == StartPolling \/ OnCommandFinished \/ Joined \/ JoinTimesOut
Calling == \E g \in Games : CommandEnds(g) \/ MatchDone(g)
Worker == TakeCall \/ Poll \/ Calling

\* When both threads have ended nothing happens any more.
Done == exited /\ UNCHANGED vars

Next == User \/ Gui \/ Worker \/ ThreadEnds \/ Done

Spec == Init /\ [][Next]_vars

\* The GUI thread goes on and calls of the RelayClient return. The worker's
\* event loop takes queued calls in every round, the timer's calls or not, and
\* after every round sees whether it was told to quit: hence the strong fairness.
LiveSpec ==
  /\ Spec
  /\ WF_vars(Gui) /\ WF_vars(Calling)
  /\ SF_vars(TakeCall) /\ SF_vars(ThreadEnds)

-----------------------------------------------------------------------------
(* Properties *)

Calls == {Call("command", g) : g \in Games}
           \cup {Call("start_polling", Nil), Call("prepare_shutdown", Nil)}

\* Types of the two threads' state.
TypeOK ==
  /\ gui \in {"starting", "idle", "joining"} /\ asking \in Seq({"menu", "event"})
  /\ inbox \in Seq(Games) /\ busy \subseteq Games
  /\ {shutDown, quitPosted, closed, exited, timer, stopping, ended} \subseteq BOOLEAN
  /\ queue \in Seq(Calls)
  /\ run \in {Nil} \cup Runs
  /\ open \subseteq Games

\* The RelayClient outlives its use: it is closed only when the worker is in no
\* call and will begin none, however often the join timed out before, and the
\* application exits only then (RelayWorkerHub.shutdown, request_quit).
ClientOutlivesWorker ==
  /\ closed => ended /\ run = Nil
  /\ exited => closed

\* The commands on their way for match g: queued, running, or finished with
\* the hub not told yet.
Occurrences(s, x) == Cardinality({i \in 1..Len(s) : s[i] = x})
OnTheirWay(g) ==
  Occurrences(queue, Call("command", g)) + Occurrences(inbox, g)
  + (IF run # Nil /\ run.what = "command" /\ g \in run.games THEN 1 ELSE 0)

\* The busy flag of a match is exact until a shutdown begins: one command is on
\* its way when it is set and none when it is not, so that no command runs twice
\* and no match is left refusing commands (_dispatchable, _on_command_finished).
BusyExact ==
  ~shutDown => \A g \in Games : OnTheirWay(g) = IF g \in busy THEN 1 ELSE 0

\* A match accepts commands again, however the last one ended.
BusyEnds == \A g \in Games : (g \in busy) ~> (g \notin busy \/ shutDown)

\* A worker told to quit does, so that a quit asked for again succeeds.
WorkerStops == shutDown ~> ended
=============================================================================
