------------------------- MODULE LaunchGuardProofs -------------------------
(***************************************************************************)
(* For any number of Relays, processes, faults and crashes the guarded     *)
(* launch keeps its inductive invariant, and so at most one running        *)
(* Civilization was launched by a Relay.                                   *)
(***************************************************************************)
EXTENDS LaunchGuard, TLAPS

\* The conjuncts of GuardInv about one Relay.
RelayInv(r) ==
  /\ pc[r] \in Labels \ {"idle"} => r \in handles
  /\ Holds(r) => mutex.owner = r /\ mutex.count > 0
  /\ pc[r] = "spawn" => \A p \in Procs : ~LaunchedByRelay(p)
  /\ pc[r] = "verify" => proc[r] # Nil

\* No two Relays hold the guard.
LEMMA Exclusion ==
  ASSUME GuardInv, NEW r \in Relays, NEW s \in Relays, Holds(r), Holds(s)
  PROVE  r = s
BY DEF GuardInv

\* The initial state: nothing runs and nobody holds the guard (Init).
LEMMA InitInv == Init => GuardInv
BY ConstantsAssumption
   DEF Init, GuardInv, TypeOK, OneRelayCiv, Free, Labels, Holds, LaunchedByRelay

\* Every step keeps the types of the mutex, the processes and the launches.
LEMMA TypeStep == GuardInv /\ [Next]_vars => TypeOK'
<1> SUFFICES ASSUME GuardInv, TypeOK, [Next]_vars PROVE TypeOK'
  BY DEF GuardInv
<1> USE ConstantsAssumption DEF TypeOK, Labels, GuardedLaunchOutcome, Goto, Return, Primary,
        NoFault, Fault
<1>1. ASSUME NEW r \in Relays, CreateMutex(r) PROVE TypeOK'
  BY <1>1 DEF CreateMutex
<1>2. ASSUME NEW r \in Relays, WaitForSingleObject(r) PROVE TypeOK'
  BY <1>2 DEF WaitForSingleObject
<1>3. ASSUME NEW r \in Relays, WaitFails(r) PROVE TypeOK'
  BY <1>3 DEF WaitFails, Unless, Free
<1>4. ASSUME NEW r \in Relays, Scan(r) PROVE TypeOK'
  BY <1>4 DEF Scan
<1>5. ASSUME NEW r \in Relays, SpawnFails(r) PROVE TypeOK'
  BY <1>5 DEF SpawnFails
<1>6. ASSUME NEW r \in Relays, NEW p \in Procs, Spawn(r, p) PROVE TypeOK'
  BY <1>6 DEF Spawn
<1>7. ASSUME NEW r \in Relays, Verify(r) PROVE TypeOK'
  BY <1>7 DEF Verify
<1>8. ASSUME NEW r \in Relays, ReleaseMutex(r) PROVE TypeOK'
  <2>1. mutex.count \in Nat /\ mutex.count # 0
    BY <1>8 DEF ReleaseMutex, GuardInv, Holds
  <2>2. mutex.count - 1 \in Nat
    BY <2>1
  <2>3. mutex' \in [owner : Relays \cup {Nil}, count : Nat, abandoned : BOOLEAN]
    <3>1. CASE UNCHANGED mutex
      BY <3>1
    <3>2. CASE mutex' = [mutex EXCEPT !.owner = Nil, !.count = 0]
      BY <3>2
    <3>3. CASE mutex' = [mutex EXCEPT !.count = @ - 1]
      BY <2>2, <3>3
    <3> QED
      BY <1>8, <3>1, <3>2, <3>3 DEF ReleaseMutex
  <2> QED
    BY <1>8, <2>3 DEF ReleaseMutex
<1>9. ASSUME NEW r \in Relays, CloseHandle(r) PROVE TypeOK'
  BY <1>9 DEF CloseHandle, Unless, Free
<1>10. ASSUME NEW r \in Relays, Crash(r) PROVE TypeOK'
  <2>1. [Free EXCEPT !.abandoned = TRUE]
          \in [owner : Relays \cup {Nil}, count : Nat, abandoned : BOOLEAN]
    BY DEF Free
  <2>2. mutex' \in [owner : Relays \cup {Nil}, count : Nat, abandoned : BOOLEAN]
    BY <1>10, <2>1 DEF Crash, Unless, Free
  <2> QED
    BY <1>10, <2>2 DEF Crash
<1>11. ASSUME NEW p \in Procs, CivExits(p) PROVE TypeOK'
  BY <1>11 DEF CivExits
<1>12. ASSUME NEW p \in Procs, UserStarts(p) PROVE TypeOK'
  BY <1>12 DEF UserStarts
<1>13. CASE UNCHANGED vars
  BY <1>13 DEF vars
<1> QED
  BY <1>1, <1>2, <1>3, <1>4, <1>5, <1>6, <1>7, <1>8, <1>9, <1>10, <1>11, <1>12, <1>13
     DEF Next, Launching, Environment

\* The invariant without its types: what a step has to keep besides TypeOK.
Core ==
  /\ OneRelayCiv
  /\ \A r \in Relays : RelayInv(r)
  /\ mutex.owner = Nil => mutex.count = 0
  /\ \A p \in Procs : p \in alive => by[p] # Nil

\* GuardInv is the types and the rest, the part of each Relay named RelayInv.
LEMMA CoreInv == GuardInv <=> TypeOK /\ Core
BY DEF GuardInv, Core, RelayInv

\* Every step keeps the invariant: a step of the holder of the guard leaves the
\* other Relays outside, and a step of any other Relay leaves the mutex to it.
LEMMA CoreStep == GuardInv /\ [Next]_vars => Core'
<1> SUFFICES ASSUME GuardInv, TypeOK, Core, TypeOK', [Next]_vars PROVE Core'
  BY TypeStep, CoreInv
<1> USE ConstantsAssumption DEF TypeOK, Labels, Goto, Return, Primary, NoFault, Fault,
        Core, RelayInv, OneRelayCiv, Holds, LaunchedByRelay
<1>1. ASSUME NEW r \in Relays, CreateMutex(r) PROVE Core'
  BY <1>1 DEF CreateMutex
<1>2. ASSUME NEW r \in Relays, WaitForSingleObject(r) PROVE Core'
  BY <1>2 DEF WaitForSingleObject
<1>3. ASSUME NEW r \in Relays, WaitFails(r) PROVE Core'
  BY <1>3 DEF WaitFails, Unless, Free
<1>4. ASSUME NEW r \in Relays, Scan(r) PROVE Core'
  BY <1>4 DEF Scan
<1>5. ASSUME NEW r \in Relays, SpawnFails(r) PROVE Core'
  BY <1>5 DEF SpawnFails
<1>6. ASSUME NEW r \in Relays, NEW p \in Procs, Spawn(r, p) PROVE Core'
  BY <1>6 DEF Spawn, New
<1>7. ASSUME NEW r \in Relays, Verify(r) PROVE Core'
  BY <1>7 DEF Verify
<1>8. ASSUME NEW r \in Relays, ReleaseMutex(r) PROVE Core'
  <2>1. mutex.owner = r /\ mutex.count \in Nat /\ mutex.count > 0
    BY <1>8 DEF ReleaseMutex
  <2>2. ASSUME NEW s \in Relays, s # r PROVE ~Holds(s) /\ pc'[s] = pc[s]
    BY <1>8, <2>1, <2>2 DEF ReleaseMutex
  <2>3. pc'[r] = "close" /\ r \in handles
    BY <1>8 DEF ReleaseMutex
  <2>4. \A s \in Relays : RelayInv(s)'
    BY <1>8, <2>2, <2>3 DEF ReleaseMutex
  <2>5. mutex'.owner = Nil => mutex'.count = 0
    <3>1. CASE UNCHANGED mutex
      BY <3>1
    <3>2. CASE mutex' = [mutex EXCEPT !.owner = Nil, !.count = 0]
      BY <3>2
    <3>3. CASE mutex' = [mutex EXCEPT !.count = @ - 1]
      BY <2>1, <3>3
    <3> QED
      BY <1>8, <3>1, <3>2, <3>3 DEF ReleaseMutex
  <2> QED
    BY <1>8, <2>4, <2>5 DEF ReleaseMutex
<1>9. ASSUME NEW r \in Relays, CloseHandle(r) PROVE Core'
  BY <1>9 DEF CloseHandle, Unless, Free
<1>10. ASSUME NEW r \in Relays, Crash(r) PROVE Core'
  BY <1>10 DEF Crash, Unless, Free
<1>11. ASSUME NEW p \in Procs, CivExits(p) PROVE Core'
  BY <1>11 DEF CivExits
<1>12. ASSUME NEW p \in Procs, UserStarts(p) PROVE Core'
  BY <1>12 DEF UserStarts, New
<1>13. CASE UNCHANGED vars
  BY <1>13 DEF vars
<1> QED
  BY <1>1, <1>2, <1>3, <1>4, <1>5, <1>6, <1>7, <1>8, <1>9, <1>10, <1>11, <1>12, <1>13
     DEF Next, Launching, Environment

\* The invariant that ties the steps of the Relays to the mutex and to the
\* running processes holds in every reachable state (execute_guarded_launch).
THEOREM Invariant == Spec => []GuardInv
<1>1. GuardInv /\ [Next]_vars => GuardInv'
  BY TypeStep, CoreStep, CoreInv
     DEF GuardInv, Core, RelayInv, OneRelayCiv, Holds, LaunchedByRelay
<1> QED
  BY InitInv, <1>1, PTL DEF Spec

\* Never two running Civilizations launched by Relays, whatever crashes and
\* fails: the check and the spawn are one protected operation.
THEOREM OneCivilization == Spec => []OneRelayCiv
<1>1. GuardInv => OneRelayCiv
  BY DEF GuardInv
<1> QED
  BY Invariant, <1>1, PTL

-----------------------------------------------------------------------------
(* The guarded launch implements the abstract one *)

\* What a launch spawned, by the step it is at, and what its outcome says of it:
\* until the spawn nothing, from the outcome on what the outcome stands for.
AnswerInv ==
  \A r \in Relays :
    /\ pc[r] \in {"wait", "scan", "spawn"} => proc[r] = Nil
    /\ pc[r] \in {"release", "close"} => result[r] \in Launches!Outcomes(proc[r])

\* A process that does not run was started by nobody.
StarterInv == \A p \in Procs \ alive : by[p] = Nil

\* Every step keeps the outcome in agreement with what was spawned: the cleanup
\* of the guard changes neither (execute_guarded_launch).
LEMMA AnswerStep == GuardInv /\ AnswerInv /\ [Next]_vars => AnswerInv'
<1> SUFFICES ASSUME GuardInv, AnswerInv, [Next]_vars PROVE AnswerInv'
  OBVIOUS
<1> USE DEF AnswerInv, Goto, Return, Primary, GuardInv, TypeOK, Labels,
        Launches!Outcomes, Launches!NothingSpawned, Launches!SpawnedOnce
<1>1. ASSUME NEW r \in Relays, CreateMutex(r) PROVE AnswerInv'
  BY <1>1 DEF CreateMutex
<1>2. ASSUME NEW r \in Relays, WaitForSingleObject(r) PROVE AnswerInv'
  BY <1>2 DEF WaitForSingleObject
<1>3. ASSUME NEW r \in Relays, WaitFails(r) PROVE AnswerInv'
  BY <1>3 DEF WaitFails
<1>4. ASSUME NEW r \in Relays, Scan(r) PROVE AnswerInv'
  BY <1>4 DEF Scan
<1>5. ASSUME NEW r \in Relays, SpawnFails(r) PROVE AnswerInv'
  BY <1>5 DEF SpawnFails
<1>6. ASSUME NEW r \in Relays, NEW p \in Procs, Spawn(r, p) PROVE AnswerInv'
  BY <1>6 DEF Spawn
<1>7. ASSUME NEW r \in Relays, Verify(r) PROVE AnswerInv'
  BY <1>7 DEF Verify
<1>8. ASSUME NEW r \in Relays, ReleaseMutex(r) PROVE AnswerInv'
  BY <1>8 DEF ReleaseMutex
<1>9. ASSUME NEW r \in Relays, CloseHandle(r) PROVE AnswerInv'
  BY <1>9 DEF CloseHandle
<1>10. ASSUME NEW r \in Relays, Crash(r) PROVE AnswerInv'
  BY <1>10 DEF Crash
<1>11. CASE Environment \/ UNCHANGED vars
  BY <1>11 DEF Environment, CivExits, UserStarts, vars
<1> QED
  BY <1>1, <1>2, <1>3, <1>4, <1>5, <1>6, <1>7, <1>8, <1>9, <1>10, <1>11 DEF Next, Launching

\* A process runs with the starter it was given; only one that has ended is started again.
LEMMA StarterStep == GuardInv /\ StarterInv /\ [Next]_vars => StarterInv'
<1> SUFFICES ASSUME GuardInv, StarterInv, [Next]_vars PROVE StarterInv'
  OBVIOUS
<1> USE DEF StarterInv, GuardInv, TypeOK
<1>1. ASSUME NEW r \in Relays, NEW p \in Procs, Spawn(r, p) PROVE StarterInv'
  BY <1>1 DEF Spawn
<1>2. ASSUME NEW p \in Procs, CivExits(p) \/ UserStarts(p) PROVE StarterInv'
  BY <1>2 DEF CivExits, UserStarts
<1>3. CASE UNCHANGED <<alive, by>>
  BY <1>3
<1> QED
  BY <1>1, <1>2, <1>3
     DEF Next, Launching, Environment, CreateMutex, WaitForSingleObject, WaitFails, Scan,
         SpawnFails, Verify, ReleaseMutex, CloseHandle, Crash, vars

\* The mapped variables, as LaunchGuard's instance of GuardedLaunch names them.
Open == {r \in Relays : pc[r] # "idle"}

Answers == [r \in Relays |-> IF pc[r] = "idle" THEN result[r] ELSE Nil]

Starters == [p \in Procs |-> IF p \in alive THEN by[p] ELSE Nil]

\* A step of a Relay that neither begins a launch nor ends one shows its caller
\* nothing.
LEMMA Hidden ==
  ASSUME GuardInv, NEW r \in Relays, NEW label \in Labels, label # "idle", pc[r] # "idle",
         Goto(r, label), UNCHANGED <<alive, by, proc>>,
         \A s \in Relays \ {r} : result'[s] = result[s]
  PROVE  UNCHANGED Launches!gvars
<1>1. Open' = Open
  BY DEF Open, Goto, GuardInv, TypeOK
<1>2. Answers' = Answers
  <2>1. ASSUME NEW s \in Relays
        PROVE  (IF pc[s] = "idle" THEN result[s] ELSE Nil)'
                 = (IF pc[s] = "idle" THEN result[s] ELSE Nil)
    BY DEF Goto, GuardInv, TypeOK
  <2> QED
    BY <2>1 DEF Answers
<1>3. Starters' = Starters
  BY DEF Starters
<1> QED
  BY <1>1, <1>2, <1>3 DEF Launches!gvars, Open, Answers, Starters

\* A step with which a launch ends returns its outcome.
LEMMA Ends ==
  ASSUME GuardInv, NEW r \in Relays, pc[r] # "idle", Goto(r, "idle"),
         UNCHANGED <<alive, by, proc>>, result' \in [Relays -> GuardedLaunchOutcome \cup {Nil}],
         result'[r] \in Launches!Outcomes(proc[r]),
         \A s \in Relays \ {r} : result'[s] = result[s]
  PROVE  Launches!Answer(r)
<1>1. r \in Open /\ Open' = Open \ {r}
  BY DEF Open, Goto, GuardInv, TypeOK
<1>2. Answers' = [Answers EXCEPT ![r] = result'[r]]
  <2>1. ASSUME NEW s \in Relays PROVE Answers'[s] = [Answers EXCEPT ![r] = result'[r]][s]
    BY DEF Answers, Goto, GuardInv, TypeOK
  <2> QED
    BY <2>1 DEF Answers
<1>3. Starters' = Starters
  BY DEF Starters
<1> QED
  BY <1>1, <1>2, <1>3 DEF Launches!Answer, Open, Answers, Starters

\* Every step of the guarded launch is a step of the abstract one or shows
\* nothing of it.
LEMMA LaunchStep ==
  GuardInv /\ AnswerInv /\ StarterInv /\ [Next]_vars => [Launches!LaunchNext]_(Launches!gvars)
<1> SUFFICES ASSUME GuardInv, TypeOK, AnswerInv, StarterInv, [Next]_vars, TypeOK'
             PROVE  Launches!LaunchNext \/ UNCHANGED Launches!gvars
  BY TypeStep DEF GuardInv
<1> USE DEF Labels
<1>1. ASSUME NEW r \in Relays, CreateMutex(r)
      PROVE  Launches!Begin(r) \/ Launches!Refuse(r)
  <2>1. r \notin Open /\ Starters' = Starters
    BY <1>1 DEF CreateMutex, Open, Starters
  <2>2. CASE Goto(r, "wait") /\ UNCHANGED result
    <3>1. Open' = Open \cup {r}
      BY <2>2 DEF Open, Goto, TypeOK
    <3>2. ASSUME NEW s \in Relays PROVE Answers'[s] = [Answers EXCEPT ![r] = Nil][s]
      BY <2>2 DEF Answers, Goto, TypeOK
    <3>3. Answers' = [Answers EXCEPT ![r] = Nil]
      BY <3>2 DEF Answers
    <3> QED
      BY <1>1, <2>1, <3>1, <3>3 DEF CreateMutex, Launches!Begin, Open, Answers, Starters
  <2>3. CASE Return(r, "GUARD_UNAVAILABLE")
    <3>1. Open' = Open
      BY <1>1, <2>3 DEF CreateMutex, Open, Return, Goto, TypeOK
    <3>2. ASSUME NEW s \in Relays
          PROVE  Answers'[s] = [Answers EXCEPT ![r] = "GUARD_UNAVAILABLE"][s]
      BY <2>3 DEF Answers, Return, Goto, TypeOK
    <3>3. Answers' = [Answers EXCEPT ![r] = "GUARD_UNAVAILABLE"]
      BY <3>2 DEF Answers
    <3>4. "GUARD_UNAVAILABLE" \in Launches!Outcomes(Nil)
      BY DEF Launches!Outcomes, Launches!NothingSpawned
    <3> QED
      BY <1>1, <2>1, <3>1, <3>3, <3>4 DEF CreateMutex, Launches!Refuse, Open, Answers, Starters
  <2> QED
    BY <1>1, <2>2, <2>3 DEF CreateMutex
<1>2. ASSUME NEW r \in Relays, WaitForSingleObject(r) PROVE UNCHANGED Launches!gvars
  BY <1>2, Hidden DEF WaitForSingleObject
<1>3. ASSUME NEW r \in Relays, WaitFails(r) PROVE Launches!Answer(r)
  <2>1. proc[r] = Nil /\ {"GUARD_BUSY", "GUARD_UNAVAILABLE"} \subseteq Launches!Outcomes(Nil)
    BY <1>3 DEF WaitFails, AnswerInv, Launches!Outcomes, Launches!NothingSpawned
  <2> QED
    BY <1>3, <2>1, Ends DEF WaitFails, Return, TypeOK
<1>4. ASSUME NEW r \in Relays, Scan(r) PROVE UNCHANGED Launches!gvars
  BY <1>4, Hidden DEF Scan, Primary, TypeOK
<1>5. ASSUME NEW r \in Relays, SpawnFails(r) PROVE UNCHANGED Launches!gvars
  BY <1>5, Hidden DEF SpawnFails, Primary, TypeOK
<1>6. ASSUME NEW r \in Relays, NEW p \in Procs, Spawn(r, p) PROVE Launches!SpawnCiv(r, p)
  <2>1. r \in Open /\ Open' = Open
    BY <1>6 DEF Spawn, Open, Goto, TypeOK
  <2>2. ASSUME NEW s \in Relays PROVE Answers'[s] = Answers[s]
    BY <1>6 DEF Spawn, Answers, Goto, TypeOK
  <2>3. Answers' = Answers
    BY <2>2 DEF Answers
  <2>4. ASSUME NEW q \in Procs PROVE Starters'[q] = [Starters EXCEPT ![p] = r][q]
    BY <1>6 DEF Spawn, Starters, TypeOK
  <2>5. Starters' = [Starters EXCEPT ![p] = r]
    BY <2>4 DEF Starters
  <2>6. Starters[p] = Nil /\ \A q \in Procs : Starters[q] \notin Relays
    BY <1>6, ConstantsAssumption DEF Spawn, New, Starters, GuardInv, LaunchedByRelay
  <2>7. proc[r] = Nil /\ proc' = [proc EXCEPT ![r] = p]
    BY <1>6 DEF Spawn, AnswerInv
  <2> QED
    BY <2>1, <2>3, <2>5, <2>6, <2>7 DEF Launches!SpawnCiv, Open, Answers, Starters
<1>7. ASSUME NEW r \in Relays, Verify(r) PROVE UNCHANGED Launches!gvars
  BY <1>7, Hidden DEF Verify, Primary, TypeOK
<1>8. ASSUME NEW r \in Relays, ReleaseMutex(r) PROVE UNCHANGED Launches!gvars
  BY <1>8, Hidden DEF ReleaseMutex
<1>9. ASSUME NEW r \in Relays, CloseHandle(r) PROVE Launches!Answer(r)
  BY <1>9, Ends DEF CloseHandle, AnswerInv, TypeOK
<1>10. ASSUME NEW r \in Relays, Crash(r) PROVE Launches!Forget(r)
  <2>1. Open' = Open \ {r} /\ Starters' = Starters
    BY <1>10 DEF Crash, Open, Starters, TypeOK
  <2>2. ASSUME NEW s \in Relays PROVE Answers'[s] = [Answers EXCEPT ![r] = Nil][s]
    BY <1>10 DEF Crash, Answers, TypeOK
  <2>3. Answers' = [Answers EXCEPT ![r] = Nil]
    BY <2>2 DEF Answers
  <2> QED
    BY <1>10, <2>1, <2>3 DEF Crash, Launches!Forget, Open, Answers, Starters
<1>11. ASSUME NEW p \in Procs, CivExits(p) PROVE Launches!Outside(p)
  <2>1. ASSUME NEW q \in Procs PROVE Starters'[q] = [Starters EXCEPT ![p] = Nil][q]
    BY <1>11 DEF CivExits, Starters, TypeOK
  <2>2. Starters' = [Starters EXCEPT ![p] = Nil] /\ Starters[p] # Nil
    BY <1>11, <2>1 DEF CivExits, Starters, GuardInv
  <2>3. Open' = Open /\ Answers' = Answers
    BY <1>11 DEF CivExits, Open, Answers
  <2> QED
    BY <1>11, <2>2, <2>3 DEF CivExits, Launches!Outside, Open, Answers, Starters
<1>12. ASSUME NEW p \in Procs, UserStarts(p) PROVE Launches!Outside(p)
  <2>1. ASSUME NEW q \in Procs PROVE Starters'[q] = [Starters EXCEPT ![p] = "user"][q]
    BY <1>12 DEF UserStarts, Starters, TypeOK
  <2>2. Starters' = [Starters EXCEPT ![p] = "user"] /\ Starters[p] = Nil
    BY <1>12, <2>1 DEF UserStarts, New, Starters
  <2>3. Open' = Open /\ Answers' = Answers
    BY <1>12 DEF UserStarts, Open, Answers
  <2> QED
    BY <1>12, <2>2, <2>3 DEF UserStarts, Launches!Outside, Open, Answers, Starters
<1>13. CASE UNCHANGED vars
  BY <1>13 DEF vars, Launches!gvars
<1> QED
  BY <1>1, <1>2, <1>3, <1>4, <1>5, <1>6, <1>7, <1>8, <1>9, <1>10, <1>11, <1>12, <1>13
     DEF Next, Launching, Environment, Launches!LaunchNext

\* The guarded launch keeps its promise to its caller, for any number of Relays,
\* failures and crashes: a deferred or failed outcome means that nothing was
\* spawned, and no launch spawns twice or beside a Civilization a Relay launched.
THEOREM Refinement == Spec => LaunchSpec
<1>1. Init => Launches!LaunchInit
  BY DEF Init, Launches!LaunchInit
<1>2. Init => AnswerInv /\ StarterInv
  BY DEF Init, AnswerInv, StarterInv
<1>3. Spec => [](GuardInv /\ AnswerInv /\ StarterInv)
  BY Invariant, <1>2, AnswerStep, StarterStep, PTL DEF Spec
<1> QED
  BY <1>1, <1>3, LaunchStep, PTL DEF Spec, LaunchSpec, Launches!LaunchSpec
=============================================================================
