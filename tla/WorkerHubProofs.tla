-------------------------- MODULE WorkerHubProofs --------------------------
(***************************************************************************)
(* Proofs about WorkerHub and RelayThreads, for any matches and any number *)
(* of open quit questions: the client outlives its use by the worker, the  *)
(* busy flags are exact, and with the watching of the directories added    *)
(* the two threads still do only what WorkerHub lets them do.              *)
(***************************************************************************)
EXTENDS RelayThreads, FiniteSetTheorems, SequenceTheorems, TLAPS

-----------------------------------------------------------------------------
(* How often a value occurs in a queue *)

LEMMA OccurrencesType ==
  ASSUME NEW S, NEW s \in Seq(S), NEW x
  PROVE  /\ IsFiniteSet({i \in 1..Len(s) : s[i] = x})
         /\ Occurrences(s, x) \in Nat
<1>1. IsFiniteSet(1..Len(s))
  BY FS_Interval
<1>2. IsFiniteSet({i \in 1..Len(s) : s[i] = x})
  BY <1>1, FS_Subset
<1> QED
  BY <1>2, FS_CardinalityType DEF Occurrences

LEMMA OccurrencesEmpty == ASSUME NEW x PROVE Occurrences(<<>>, x) = 0
<1>1. {i \in 1..Len(<<>>) : <<>>[i] = x} = {}
  OBVIOUS
<1> QED
  BY <1>1, FS_EmptySet DEF Occurrences

LEMMA OccurrencesAppend ==
  ASSUME NEW S, NEW s \in Seq(S), NEW e \in S, NEW x
  PROVE  Occurrences(Append(s, e), x) = Occurrences(s, x) + IF e = x THEN 1 ELSE 0
<1> DEFINE P == {i \in 1..Len(s) : s[i] = x}
           Q == {i \in 1..Len(Append(s, e)) : Append(s, e)[i] = x}
           n == Len(s) + 1
<1>1. Len(s) \in Nat /\ Len(Append(s, e)) = n
  BY AppendProperties, LenProperties
<1>2. Append(s, e)[n] = e /\ \A i \in 1..Len(s) : Append(s, e)[i] = s[i]
  BY AppendProperties
<1>3. Q = IF e = x THEN P \cup {n} ELSE P
  BY <1>1, <1>2
<1>4. IsFiniteSet(P) /\ Cardinality(P) \in Nat
  BY OccurrencesType DEF Occurrences
<1>5. n \notin P
  BY <1>1
<1>6. Cardinality(P \cup {n}) = Cardinality(P) + 1
  BY <1>4, <1>5, FS_AddElement
<1>7. Occurrences(s, x) = Cardinality(P) /\ Occurrences(Append(s, e), x) = Cardinality(Q)
  BY DEF Occurrences
<1> HIDE DEF P, Q
<1> QED
  BY <1>3, <1>4, <1>6, <1>7

LEMMA OccurrencesTail ==
  ASSUME NEW S, NEW s \in Seq(S), s # <<>>, NEW x
  PROVE  Occurrences(s, x) = Occurrences(Tail(s), x) + IF Head(s) = x THEN 1 ELSE 0
<1> DEFINE P == {i \in 1..Len(Tail(s)) : Tail(s)[i] = x}
           Q == {i \in 1..Len(s) : s[i] = x}
           R == {i \in 2..Len(s) : s[i] = x}
           shift == [i \in P |-> i + 1]
<1>1. /\ Len(s) \in Nat \ {0} /\ Len(Tail(s)) = Len(s) - 1 /\ Tail(s) \in Seq(S)
      /\ \A i \in 1..Len(Tail(s)) : Tail(s)[i] = s[i + 1]
      /\ Head(s) = s[1]
  BY HeadTailProperties, LenProperties, EmptySeq
<1>2. IsFiniteSet(P) /\ Cardinality(P) \in Nat
  BY <1>1, OccurrencesType DEF Occurrences
<1>3. shift \in Bijection(P, R)
  <2>1. shift \in [P -> R]
    BY <1>1
  <2>2. \A i, j \in P : shift[i] = shift[j] => i = j
    BY <1>1
  <2>3. \A k \in R : \E i \in P : shift[i] = k
    <3> SUFFICES ASSUME NEW k \in R PROVE k - 1 \in P /\ shift[k - 1] = k
      OBVIOUS
    <3> QED
      BY <1>1
  <2> QED
    BY <2>1, <2>2, <2>3 DEF Bijection, Injection, Surjection, IsInjective
<1>4. IsFiniteSet(R) /\ Cardinality(R) = Cardinality(P)
  BY <1>2, <1>3, FS_Bijection DEF ExistsBijection
<1>5. Q = IF Head(s) = x THEN R \cup {1} ELSE R
  BY <1>1
<1>6. Cardinality(R \cup {1}) = Cardinality(R) + 1
  <2>1. 1 \notin R
    OBVIOUS
  <2> QED
    BY <1>4, <2>1, FS_AddElement
<1>7. Occurrences(s, x) = Cardinality(Q) /\ Occurrences(Tail(s), x) = Cardinality(P)
  BY DEF Occurrences
<1> HIDE DEF P, Q, R
<1> QED
  BY <1>2, <1>4, <1>5, <1>6, <1>7

-----------------------------------------------------------------------------
(* WorkerHub *)

\* Until a shutdown begins the worker is not told to prepare one, and a
\* command is the only one the worker is in.
BeforeShutdown ==
  ~shutDown => /\ ~stopping /\ ~quitPosted
               /\ \A i \in 1..Len(queue) : queue[i] # Call("prepare_shutdown", Nil)
OneCommand ==
  run # Nil /\ run.what = "command" => \E g \in Games : run.games = {g}

\* The inductive invariant.
HubInv == TypeOK /\ ClientOutlivesWorker /\ (ended => run = Nil) /\ BeforeShutdown
            /\ OneCommand /\ BusyExact

LEMMA CallsFacts ==
  /\ \A g \in Games : Call("command", g) \in Calls
  /\ Call("start_polling", Nil) \in Calls /\ Call("prepare_shutdown", Nil) \in Calls
BY DEF Calls

LEMMA TypeKept == ASSUME TypeOK, [Next]_vars PROVE TypeOK'
<1> USE DEF TypeOK, hubVars, workerVars
<1>1. CASE \E g \in Games : Dispatch(g)
  BY <1>1, CallsFacts DEF Dispatch, Emit
<1>2. CASE StartPolling
  BY <1>2, CallsFacts DEF StartPolling, Emit
<1>3. CASE OnCommandFinished
  BY <1>3 DEF OnCommandFinished
<1>4. ASSUME BeginShutdown, UNCHANGED asking \/ asking' \in Seq({"menu", "event"})
      PROVE  TypeOK'
  <2>1. CASE ended /\ CloseAndExit
    BY <1>4, <2>1 DEF BeginShutdown, CloseAndExit
  <2>2. CASE ~ended
    <3>1. queue' \in {queue, Append(queue, Call("prepare_shutdown", Nil))}
      BY <1>4, <2>2 DEF BeginShutdown, Emit
    <3>2. queue' \in Seq(Calls)
      BY <3>1, CallsFacts
    <3> QED
      BY <1>4, <2>2, <3>2 DEF BeginShutdown, CloseAndExit
  <2> QED
    BY <1>4, <2>1, <2>2 DEF BeginShutdown
<1>5. CASE \E from \in {"menu", "event"} : RequestQuit(from)
  <2> SUFFICES ASSUME NEW from \in {"menu", "event"}, RequestQuit(from) PROVE TypeOK'
    BY <1>5
  <2>1. CASE asking' = Append(asking, from) /\ UNCHANGED <<gui, inbox, hubVars, queue, workerVars>>
    BY <2>1
  <2> QED
    BY <1>4, <2>1 DEF RequestQuit
<1>6. CASE Answer
  <2>1. asking' \in Seq({"menu", "event"})
    BY <1>6 DEF Answer
  <2> QED
    BY <1>4, <1>6, <2>1 DEF Answer
<1>7. CASE Joined
  BY <1>7 DEF Joined, CloseAndExit
<1>8. CASE JoinTimesOut
  BY <1>8 DEF JoinTimesOut
<1>9. CASE TakeCall
  <2> DEFINE call == Head(queue)
  <2>1. call \in Calls /\ queue' \in Seq(Calls)
    BY <1>9 DEF TakeCall
  <2>2. call.what = "command" => call.game \in Games
    BY <2>1 DEF Calls, Call
  <2> HIDE DEF call
  <2>3. run' \in {Nil} \cup Runs
    BY <1>9, <2>2 DEF TakeCall, Runs, call
  <2>4. timer' \in BOOLEAN /\ stopping' \in BOOLEAN
    BY <1>9 DEF TakeCall
  <2> QED
    BY <1>9, <2>1, <2>3, <2>4 DEF TakeCall
<1>10. CASE Poll
  BY <1>10 DEF Poll, Runs
<1>11. CASE \E g \in Games : CommandEnds(g)
  BY <1>11 DEF CommandEnds, EmitFinished, Runs
<1>12. CASE \E g \in Games : MatchDone(g)
  BY <1>12 DEF MatchDone, Runs
<1>13. CASE ThreadEnds
  BY <1>13 DEF ThreadEnds
<1>14. CASE UNCHANGED vars
  BY <1>14 DEF vars
<1> QED
  BY <1>1, <1>2, <1>3, <1>5, <1>6, <1>7, <1>8, <1>9, <1>10, <1>11, <1>12, <1>13, <1>14
     DEF Next, User, Gui, Worker, Calling, Done

\* The client is closed by a GUI thread that has seen the worker end.
LEMMA OutlivesKept ==
  ASSUME HubInv, [Next]_vars
  PROVE  ClientOutlivesWorker' /\ (ended' => run' = Nil)
<1> USE DEF HubInv, ClientOutlivesWorker, hubVars, workerVars
<1>1. ASSUME BeginShutdown PROVE ClientOutlivesWorker' /\ (ended' => run' = Nil)
  BY <1>1 DEF BeginShutdown, CloseAndExit
<1>2. CASE User
  BY <1>1, <1>2 DEF User, Dispatch, RequestQuit, Answer
<1>3. CASE Gui
  BY <1>3 DEF Gui, StartPolling, OnCommandFinished, Joined, JoinTimesOut, CloseAndExit
<1>4. CASE Worker
  <2>1. ~ended /\ UNCHANGED hubVars /\ ended' = ended
    BY <1>4 DEF Worker, TakeCall, Poll, Calling, CommandEnds, MatchDone
  <2> QED
    BY <2>1
<1>5. CASE ThreadEnds
  BY <1>5 DEF ThreadEnds
<1>6. CASE UNCHANGED vars
  BY <1>6 DEF vars
<1> QED
  BY <1>2, <1>3, <1>4, <1>5, <1>6 DEF Next, Done

\* The call to prepare a shutdown is queued by the shutdown only.
LEMMA BeforeShutdownKept ==
  ASSUME HubInv, [Next]_vars
  PROVE  BeforeShutdown'
<1> USE DEF HubInv, TypeOK, BeforeShutdown, hubVars, workerVars
<1>1. ASSUME BeginShutdown PROVE BeforeShutdown'
  BY <1>1 DEF BeginShutdown
<1>2. ASSUME NEW call \in Calls, call.what # "prepare_shutdown", ~shutDown, ~shutDown', Emit(call),
             stopping' = stopping, quitPosted' = quitPosted
      PROVE  BeforeShutdown'
  <2>1. queue' = Append(queue, call)
    BY <1>2 DEF Emit
  <2>2. Len(queue') = Len(queue) + 1 /\ queue'[Len(queue) + 1] = call
        /\ \A i \in 1..Len(queue) : queue'[i] = queue[i]
    BY <1>2, <2>1, AppendProperties
  <2>3. Len(queue) \in Nat /\ \A i \in 1..Len(queue') : i \in 1..Len(queue) \/ i = Len(queue) + 1
    BY <2>2, LenProperties
  <2>4. call # Call("prepare_shutdown", Nil)
    BY <1>2 DEF Call
  <2> QED
    BY <1>2, <2>2, <2>3, <2>4
<1>3. CASE \E g \in Games : Dispatch(g)
  <2> SUFFICES ASSUME NEW g \in Games, Dispatch(g) PROVE BeforeShutdown'
    BY <1>3
  <2>1. Call("command", g) \in Calls /\ Call("command", g).what # "prepare_shutdown"
    BY CallsFacts DEF Call
  <2> QED
    BY <1>2, <2>1 DEF Dispatch
<1>4. CASE (\E from \in {"menu", "event"} : RequestQuit(from)) \/ Answer
  BY <1>1, <1>4 DEF RequestQuit, Answer
<1>5. CASE StartPolling
  <2>1. /\ Call("start_polling", Nil) \in Calls
        /\ Call("start_polling", Nil).what # "prepare_shutdown"
    BY CallsFacts DEF Call
  <2> QED
    BY <1>2, <1>5, <2>1 DEF StartPolling
<1>6. CASE OnCommandFinished \/ Joined \/ JoinTimesOut
  BY <1>6 DEF OnCommandFinished, Joined, JoinTimesOut, CloseAndExit
<1>7. CASE TakeCall
  <2>1. Len(queue') = Len(queue) - 1 /\ \A i \in 1..Len(queue') : queue'[i] = queue[i + 1]
    BY <1>7, HeadTailProperties DEF TakeCall
  <2>2. Len(queue) \in Nat /\ Len(queue) > 0 /\ Head(queue) = queue[1] /\ Head(queue) \in Calls
    BY <1>7, LenProperties, EmptySeq DEF TakeCall
  <2>3. queue[1].what = "prepare_shutdown" => queue[1] = Call("prepare_shutdown", Nil)
    BY <2>2 DEF Calls, Call
  <2>4. ASSUME ~shutDown PROVE queue[1].what # "prepare_shutdown"
    BY <2>2, <2>3, <2>4
  <2> QED
    BY <1>7, <2>1, <2>2, <2>4 DEF TakeCall
<1>8. CASE Poll
  BY <1>8 DEF Poll
<1>9. CASE Calling
  BY <1>9 DEF Calling, CommandEnds, MatchDone
<1>10. CASE ThreadEnds
  BY <1>10 DEF ThreadEnds
<1>11. CASE UNCHANGED vars
  BY <1>11 DEF vars
<1> QED
  BY <1>3, <1>4, <1>5, <1>6, <1>7, <1>8, <1>9, <1>10, <1>11 DEF Next, User, Gui, Worker, Done

LEMMA OneCommandKept == ASSUME HubInv, [Next]_vars PROVE OneCommand'
<1> USE DEF HubInv, OneCommand, hubVars, workerVars
<1>1. CASE TakeCall
  <2>1. Head(queue) \in Calls
    BY <1>1 DEF TakeCall, TypeOK
  <2>2. Head(queue).what = "command" => Head(queue).game \in Games
    BY <2>1 DEF Calls, Call
  <2> QED
    BY <1>1, <2>2 DEF TakeCall
<1>2. CASE Poll
  BY <1>2 DEF Poll
<1>3. CASE Calling
  BY <1>3 DEF Calling, CommandEnds, MatchDone, TypeOK, Runs
<1>4. CASE run' = run
  BY <1>4
<1> QED
  BY <1>1, <1>2, <1>3, <1>4
     DEF Next, User, Gui, Worker, Done, Dispatch, RequestQuit, Answer, BeginShutdown, CloseAndExit,
         StartPolling, OnCommandFinished, Joined, JoinTimesOut, ThreadEnds, vars

\* A command of match g moves on its way from the queue to the worker and on
\* to the hub, and the busy flag is cleared when the hub takes it.
InRun(g) == IF run # Nil /\ run.what = "command" /\ g \in run.games THEN 1 ELSE 0

LEMMA BusyKept == ASSUME HubInv, [Next]_vars PROVE BusyExact'
<1> SUFFICES ASSUME ~shutDown', NEW h \in Games
             PROVE  OnTheirWay(h)' = IF h \in busy' THEN 1 ELSE 0
  BY DEF BusyExact
<1> DEFINE C == Call("command", h)
<1> USE DEF hubVars, workerVars
<1>a. TypeOK /\ OneCommand /\ BeforeShutdown
  BY DEF HubInv
<1>b. queue \in Seq(Calls) /\ inbox \in Seq(Games) /\ C \in Calls
  BY <1>a, CallsFacts DEF TypeOK
<1>c. /\ Occurrences(queue, C) \in Nat /\ Occurrences(inbox, h) \in Nat
      /\ InRun(h) \in {0, 1}
  BY <1>b, OccurrencesType DEF InRun
<1>d. OnTheirWay(h) = Occurrences(queue, C) + Occurrences(inbox, h) + InRun(h)
  BY DEF OnTheirWay, InRun
<1>e. OnTheirWay(h)' = Occurrences(queue', C) + Occurrences(inbox', h) + InRun(h)'
  BY DEF OnTheirWay, InRun
<1>f. ASSUME ~shutDown PROVE OnTheirWay(h) = IF h \in busy THEN 1 ELSE 0
  BY <1>f DEF HubInv, BusyExact
<1>g. ASSUME run' = run PROVE InRun(h)' = InRun(h)
  BY <1>g DEF InRun
<1> HIDE DEF C
<1>1. CASE \E g \in Games : Dispatch(g)
  <2> SUFFICES ASSUME NEW g \in Games, Dispatch(g)
               PROVE  OnTheirWay(h)' = IF h \in busy' THEN 1 ELSE 0
    BY <1>1
  <2>1. ~shutDown /\ g \notin busy /\ busy' = busy \cup {g} /\ inbox' = inbox /\ run' = run
        /\ queue' = Append(queue, Call("command", g))
    BY <1>a DEF Dispatch, Emit, BeforeShutdown
  <2>2. Occurrences(queue', C) = Occurrences(queue, C) + IF g = h THEN 1 ELSE 0
    <3>1. Call("command", g) \in Calls /\ (Call("command", g) = C <=> g = h)
      BY CallsFacts DEF Call, C
    <3> QED
      BY <1>b, <2>1, <3>1, OccurrencesAppend
  <2> QED
    BY <1>c, <1>d, <1>e, <1>f, <1>g, <2>1, <2>2
<1>2. CASE StartPolling
  <2>1. ~shutDown /\ busy' = busy /\ inbox' = inbox /\ run' = run
        /\ queue' = Append(queue, Call("start_polling", Nil))
    BY <1>2, <1>a DEF StartPolling, Emit, BeforeShutdown
  <2>2. Occurrences(queue', C) = Occurrences(queue, C)
    <3>1. Call("start_polling", Nil) \in Calls /\ Call("start_polling", Nil) # C
      BY CallsFacts DEF Call, C
    <3> QED
      BY <1>b, <1>c, <2>1, <3>1, OccurrencesAppend
  <2> QED
    BY <1>c, <1>d, <1>e, <1>f, <1>g, <2>1, <2>2
<1>3. CASE OnCommandFinished
  <2>1. ~shutDown /\ busy' = busy \ {Head(inbox)} /\ inbox' = Tail(inbox) /\ run' = run
        /\ queue' = queue /\ inbox # <<>>
    BY <1>3 DEF OnCommandFinished
  <2>2. Occurrences(inbox, h) = Occurrences(inbox', h) + IF Head(inbox) = h THEN 1 ELSE 0
    BY <1>b, <2>1, OccurrencesTail
  <2>3. Occurrences(inbox', h) \in Nat
    BY <1>b, <2>1, HeadTailProperties, OccurrencesType
  <2> QED
    BY <1>c, <1>d, <1>e, <1>f, <1>g, <2>1, <2>2, <2>3
<1>4. CASE TakeCall
  <2>1. /\ ~shutDown /\ busy' = busy /\ inbox' = inbox /\ queue' = Tail(queue)
        /\ queue # <<>> /\ run = Nil /\ ~stopping
    BY <1>4, <1>a DEF TakeCall, BeforeShutdown
  <2>2. Occurrences(queue, C) = Occurrences(queue', C) + IF Head(queue) = C THEN 1 ELSE 0
    BY <1>b, <2>1, OccurrencesTail
  <2>3. Occurrences(queue', C) \in Nat
    BY <1>b, <2>1, HeadTailProperties, OccurrencesType
  <2>4. InRun(h) = 0
    BY <2>1 DEF InRun
  <2>5. InRun(h)' = IF Head(queue) = C THEN 1 ELSE 0
    <3>1. run' = IF Head(queue).what = "command"
                 THEN [what |-> "command", games |-> {Head(queue).game}] ELSE Nil
      BY <1>4, <2>1 DEF TakeCall
    <3>2. Head(queue) \in Calls
      BY <1>b, <2>1
    <3>3. Head(queue) = C <=> Head(queue).what = "command" /\ Head(queue).game = h
      BY <3>2 DEF Calls, Call, C
    <3>4. Head(queue).what = "command" => Head(queue).game \in Games
      BY <3>2 DEF Calls, Call
    <3>5. ASSUME Head(queue).what = "command"
          PROVE  [what |-> "command", games |-> {Head(queue).game}] # Nil
      BY <3>4, <3>5, ConstantsAssumption DEF Runs
    <3> QED
      BY <3>1, <3>3, <3>5 DEF InRun
  <2> QED
    BY <1>c, <1>d, <1>e, <1>f, <2>1, <2>2, <2>3, <2>4, <2>5
<1>5. CASE \E g \in Games : CommandEnds(g)
  <2> SUFFICES ASSUME NEW g \in Games, CommandEnds(g)
               PROVE  OnTheirWay(h)' = IF h \in busy' THEN 1 ELSE 0
    BY <1>5
  <2>1. /\ ~shutDown /\ busy' = busy /\ queue' = queue /\ inbox' = Append(inbox, g)
        /\ run # Nil /\ run.what = "command" /\ run.games = {g}
    BY <1>a DEF CommandEnds, EmitFinished, BeforeShutdown, OneCommand
  <2>2. Occurrences(inbox', h) = Occurrences(inbox, h) + IF g = h THEN 1 ELSE 0
    BY <1>b, <2>1, OccurrencesAppend
  <2>3. InRun(h) = IF g = h THEN 1 ELSE 0
    BY <2>1 DEF InRun
  <2>4. InRun(h)' = 0
    BY DEF CommandEnds, InRun
  <2> QED
    BY <1>c, <1>d, <1>e, <1>f, <2>1, <2>2, <2>3, <2>4
<1>6. CASE Poll \/ \E g \in Games : MatchDone(g)
  <2>1. /\ ~shutDown /\ busy' = busy /\ queue' = queue /\ inbox' = inbox
    BY <1>6 DEF Poll, MatchDone
  <2>2. InRun(h) = 0 /\ InRun(h)' = 0
    BY <1>6, <1>a DEF Poll, MatchDone, InRun, TypeOK, Runs
  <2> QED
    BY <1>c, <1>d, <1>e, <1>f, <2>1, <2>2
<1>7. CASE ~shutDown /\ UNCHANGED <<busy, queue, inbox, run>>
  BY <1>7, <1>d, <1>e, <1>f, <1>g
<1>8. ~BeginShutdown
  BY <1>a DEF BeginShutdown, BeforeShutdown
<1>9. Joined => UNCHANGED <<busy, queue, inbox, run, shutDown>>
  BY DEF Joined, CloseAndExit
<1> QED
  BY <1>1, <1>2, <1>3, <1>4, <1>5, <1>6, <1>7, <1>8, <1>9
     DEF Next, User, Gui, Worker, Calling, Done, RequestQuit, Answer, JoinTimesOut, ThreadEnds, vars

-----------------------------------------------------------------------------
\* The types of both threads' state hold, the worker calls no closed client,
\* and before a shutdown every busy flag stands for one command on its way.
THEOREM Invariant == Spec => []HubInv
<1>1. Init => HubInv
  <2>1. Init => TypeOK
    <3> SUFFICES ASSUME Init PROVE TypeOK
      OBVIOUS
    <3>1. asking \in Seq({"menu", "event"}) /\ inbox \in Seq(Games) /\ queue \in Seq(Calls)
      BY EmptySeq DEF Init
    <3>2. {shutDown, quitPosted, closed, exited, timer, stopping, ended} \subseteq BOOLEAN
      BY Zenon DEF Init
    <3>3. gui \in {"starting", "idle", "joining"} /\ busy \subseteq Games
          /\ run \in {Nil} \cup Runs /\ open \subseteq Games
      BY DEF Init
    <3> QED
      BY <3>1, <3>2, <3>3 DEF TypeOK
  <2>2. Init => ClientOutlivesWorker /\ OneCommand /\ (ended => run = Nil)
    BY DEF Init, ClientOutlivesWorker, OneCommand
  <2>3. Init => BeforeShutdown
    BY DEF Init, BeforeShutdown
  <2>4. Init => BusyExact
    BY OccurrencesEmpty DEF Init, BusyExact, OnTheirWay
  <2> QED
    BY <2>1, <2>2, <2>3, <2>4 DEF HubInv
<1>2. HubInv /\ [Next]_vars => HubInv'
  BY TypeKept, OutlivesKept, BeforeShutdownKept, OneCommandKept, BusyKept DEF HubInv
<1> QED
  BY <1>1, <1>2, PTL DEF Spec

\* With the watching of the directories the threads do what they do without
\* it: the steps of FileWatch change nothing the GUI thread or the worker's
\* loop goes by.
THEOREM ThreadsAreHub == ThreadsSpec => Spec
<1>1. ThreadsInit => Init
  BY DEF ThreadsInit
<1>2. [ThreadsNext]_<<vars, watch>> => [Next]_vars
  BY DEF ThreadsNext, GuiThread, WorkerCalls, Command, ReconcileBegins, ReconcileEnds,
         Next, Worker, Calling
<1> QED
  BY <1>1, <1>2, PTL DEF ThreadsSpec, Spec

\* The client is closed only when the worker is in no call and will begin none,
\* and the application exits only then.
THEOREM ClientIsOutlived == ThreadsSpec => []ClientOutlivesWorker
<1>1. HubInv => ClientOutlivesWorker
  BY DEF HubInv
<1> QED
  BY <1>1, Invariant, ThreadsAreHub, PTL

\* No command of a match runs twice, and no match is left refusing commands.
THEOREM BusyFlagsExact == ThreadsSpec => []BusyExact
<1>1. HubInv => BusyExact
  BY DEF HubInv
<1> QED
  BY <1>1, Invariant, ThreadsAreHub, PTL

=============================================================================
