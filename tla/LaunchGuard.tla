---------------------------- MODULE LaunchGuard ----------------------------
(***************************************************************************)
(* The guarded launch of Civilization by several Relays on one computer    *)
(* (process/guard.py, process/windows.py): a named mutex of the operating  *)
(* system is acquired, the processes of the machine are scanned for the    *)
(* configured executable, Civilization is spawned and verified, and the    *)
(* mutex released. One action is one call to the operating system; between *)
(* two of them the other Relays go on, any Relay may crash, Civilization   *)
(* may exit, and the user may start one outside Relay.                     *)
(***************************************************************************)
EXTENDS Naturals, FiniteSets

CONSTANTS
  Relays,      \* instances of Relay targeting one executable; each launches
               \* from a single thread
  Procs,       \* names for processes; one is used again once nobody knows it
  Nil,         \* no value
  MaxFaults,   \* bound: failing calls to the operating system
  MaxCrashes,  \* bound: crashes of a Relay
  MaxStarts    \* bound: starts of Civilization by the user

ASSUME ConstantsAssumption ==
  /\ MaxFaults \in Nat /\ MaxCrashes \in Nat /\ MaxStarts \in Nat
  /\ Nil \notin Relays \cup Procs
  /\ "user" \notin Relays /\ Nil # "user"

VARIABLES
  mutex,    \* the named mutex: its owner, how often it owns it, abandoned
  handles,  \* Relays with a handle of the running launch
  leaked,   \* Relays whose CloseHandle failed
  alive,    \* running processes of the executable
  by,       \* who started a running process: a Relay, "user", or Nil
  pc,       \* the step of each Relay
  proc,     \* the process a Relay spawned in the running launch
  result,   \* GuardedLaunchOutcome of the last launch of each Relay
  budget    \* what is left of the bounds

vars == <<mutex, handles, leaked, alive, by, pc, proc, result, budget>>

Free == [owner |-> Nil, count |-> 0, abandoned |-> FALSE]

Init ==
  /\ mutex = Free /\ handles = {} /\ leaked = {}
  /\ alive = {} /\ by = [p \in Procs |-> Nil]
  /\ pc = [r \in Relays |-> "idle"] /\ proc = [r \in Relays |-> Nil]
  /\ result = [r \in Relays |-> Nil]
  /\ budget = [fault |-> MaxFaults, crash |-> MaxCrashes, start |-> MaxStarts]

NoFault == UNCHANGED budget

Fault == budget.fault > 0 /\ budget' = [budget EXCEPT !.fault = @ - 1]

Goto(r, label) == pc' = [pc EXCEPT ![r] = label]

Return(r, outcome) == result' = [result EXCEPT ![r] = outcome] /\ Goto(r, "idle")

\* The outcome of the scan or of the launch is kept while the guard is released.
Primary(r, outcome) == result' = [result EXCEPT ![r] = outcome] /\ Goto(r, "release")

\* A mutex object to which no handle is open any more is gone, owned or not.
Unless(open, m) == IF open = {} THEN Free ELSE m

-----------------------------------------------------------------------------
(* WindowsNamedMutexLaunchGuard.acquire *)

CreateMutex(r) ==
  /\ pc[r] = "idle"
  /\ \/ /\ NoFault /\ handles' = handles \cup {r}
        /\ Goto(r, "wait") /\ UNCHANGED result
     \/ /\ Fault /\ Return(r, "GUARD_UNAVAILABLE") /\ UNCHANGED handles
  /\ proc' = [proc EXCEPT ![r] = Nil]
  /\ UNCHANGED <<mutex, leaked, alive, by>>

\* Ownership is recursive, and an abandoned mutex has no owner.
WaitForSingleObject(r) ==
  /\ pc[r] = "wait" /\ mutex.owner \in {Nil, r}
  /\ mutex' = [owner |-> r, count |-> mutex.count + 1, abandoned |-> FALSE]
  /\ Goto(r, "scan")
  /\ UNCHANGED <<handles, leaked, alive, by, proc, result, budget>>

\* The wait ends without ownership: the handle is closed again.
WaitFails(r) ==
  /\ pc[r] = "wait"
  /\ \/ /\ mutex.owner \notin {Nil, r} /\ NoFault
        /\ Return(r, "GUARD_BUSY") /\ UNCHANGED leaked
     \/ /\ Fault /\ Return(r, "GUARD_UNAVAILABLE")
        /\ leaked' \in {leaked, leaked \cup {r}}
  /\ handles' = handles \ {r}
  /\ mutex' = Unless(handles' \cup leaked', mutex)
  /\ UNCHANGED <<alive, by, proc>>

-----------------------------------------------------------------------------
(* execute_guarded_launch *)

\* Seeded fault: a scan that fails does not stop the launch.
Scan_FailsOpen(r) ==
  /\ pc[r] = "scan"
  /\ \/ /\ alive = {} /\ NoFault /\ Goto(r, "spawn") /\ UNCHANGED result
     \/ /\ alive # {} /\ NoFault /\ Primary(r, "EXISTING_CIV_DETECTED")
     \/ /\ Fault /\ Goto(r, "spawn") /\ UNCHANGED result
  /\ UNCHANGED <<mutex, handles, leaked, alive, by, proc>>

\* Seeded fault: when the scan is not clear the guard is kept.
Scan_KeepsGuard(r) ==
  /\ pc[r] = "scan"
  /\ \/ /\ alive = {} /\ NoFault /\ Goto(r, "spawn") /\ UNCHANGED result
     \/ /\ alive # {} /\ NoFault /\ Return(r, "EXISTING_CIV_DETECTED")
     \/ /\ Fault /\ Return(r, "SCAN_INDETERMINATE")
  /\ UNCHANGED <<mutex, handles, leaked, alive, by, proc>>

\* classify_scan_entries: a process of the executable defers the launch; so
\* does a scan that fails, or one that cannot tell the path of such a process.
Scan(r) ==
  /\ pc[r] = "scan"
  /\ \/ /\ alive = {} /\ NoFault /\ Goto(r, "spawn") /\ UNCHANGED result
     \/ /\ alive # {} /\ NoFault /\ Primary(r, "EXISTING_CIV_DETECTED")
     \/ /\ Fault /\ Primary(r, "SCAN_INDETERMINATE")
  /\ UNCHANGED <<mutex, handles, leaked, alive, by, proc>>

\* Steam cannot be started, or the executable cannot.
SpawnFails(r) ==
  /\ pc[r] = "spawn" /\ Fault /\ Primary(r, "SPAWN_FAILURE")
  /\ UNCHANGED <<mutex, handles, leaked, alive, by, proc>>

\* The name p can stand for a new process: pid and creation time are its own.
New(p) == p \notin alive /\ \A r \in Relays : proc[r] # p

Spawn(r, p) ==
  /\ pc[r] = "spawn" /\ New(p)
  /\ alive' = alive \cup {p} /\ by' = [by EXCEPT ![p] = r]
  /\ proc' = [proc EXCEPT ![r] = p]
  /\ Goto(r, "verify")
  /\ UNCHANGED <<mutex, handles, leaked, result, budget>>

\* The spawned process is looked up; an inaccessible one counts as exited.
Verify(r) ==
  /\ pc[r] = "verify"
  /\ \/ proc[r] \in alive /\ NoFault /\ Primary(r, "LAUNCHED")
     \/ proc[r] \notin alive /\ NoFault /\ Primary(r, "EXITED_IMMEDIATELY")
     \/ Fault /\ \E o \in {"EXITED_IMMEDIATELY", "IDENTITY_UNVERIFIED"} : Primary(r, o)
  /\ UNCHANGED <<mutex, handles, leaked, alive, by, proc>>

\* Seeded fault: when the guard cannot be released the launch is tried again.
ReleaseMutex_Retries(r) ==
  /\ pc[r] = "release"
  /\ \/ /\ NoFault /\ Goto(r, "close")
        /\ mutex' = IF mutex.count = 1 THEN [mutex EXCEPT !.owner = Nil, !.count = 0]
                    ELSE [mutex EXCEPT !.count = @ - 1]
     \/ Fault /\ Goto(r, "scan") /\ UNCHANGED mutex
  /\ UNCHANGED <<handles, leaked, alive, by, proc, result>>

\* ReleaseMutex; when it fails the result stands and the mutex stays owned.
ReleaseMutex(r) ==
  /\ pc[r] = "release" /\ Goto(r, "close")
  /\ \/ /\ NoFault
        /\ mutex' = IF mutex.count = 1 THEN [mutex EXCEPT !.owner = Nil, !.count = 0]
                    ELSE [mutex EXCEPT !.count = @ - 1]
     \/ Fault /\ UNCHANGED mutex
  /\ UNCHANGED <<handles, leaked, alive, by, proc, result>>

\* CloseHandle, whether or not the mutex could be released.
CloseHandle(r) ==
  /\ pc[r] = "close"
  /\ Goto(r, "idle")
  /\ \/ NoFault /\ UNCHANGED leaked
     \/ Fault /\ leaked' = leaked \cup {r}
  /\ handles' = handles \ {r}
  /\ mutex' = Unless(handles' \cup leaked', mutex)
  /\ UNCHANGED <<alive, by, proc, result>>

-----------------------------------------------------------------------------
(* Crashes, Civilization and the user *)

\* The system closes the handles of a crashed Relay and takes its mutex away.
Crash(r) ==
  /\ budget.crash > 0 /\ budget' = [budget EXCEPT !.crash = @ - 1]
  /\ pc' = [pc EXCEPT ![r] = "idle"]
  /\ proc' = [proc EXCEPT ![r] = Nil] /\ result' = [result EXCEPT ![r] = Nil]
  /\ handles' = handles \ {r} /\ leaked' = leaked \ {r}
  /\ mutex' = Unless(handles' \cup leaked',
                     IF mutex.owner = r THEN [Free EXCEPT !.abandoned = TRUE] ELSE mutex)
  /\ UNCHANGED <<alive, by>>

CivExits(p) ==
  /\ p \in alive /\ alive' = alive \ {p} /\ by' = [by EXCEPT ![p] = Nil]
  /\ UNCHANGED <<mutex, handles, leaked, pc, proc, result, budget>>

UserStarts(p) ==
  /\ budget.start > 0 /\ budget' = [budget EXCEPT !.start = @ - 1]
  /\ New(p) /\ by' = [by EXCEPT ![p] = "user"] /\ alive' = alive \cup {p}
  /\ UNCHANGED <<mutex, handles, leaked, pc, proc, result>>

-----------------------------------------------------------------------------
Launching(r) ==
  \/ WaitForSingleObject(r) \/ WaitFails(r)
  \/ Scan(r) \/ SpawnFails(r) \/ (\E p \in Procs : Spawn(r, p)) \/ Verify(r)
  \/ ReleaseMutex(r) \/ CloseHandle(r)

Environment == \E p \in Procs : CivExits(p) \/ UserStarts(p)

Next ==
  \/ \E r \in Relays : CreateMutex(r) \/ Launching(r) \/ Crash(r)
  \/ Environment

Spec == Init /\ [][Next]_vars

\* A launch that has begun goes on.
LiveSpec == Spec /\ \A r \in Relays : WF_vars(Launching(r))

-----------------------------------------------------------------------------
(* Properties *)

Labels == {"idle", "wait", "scan", "spawn", "verify", "release", "close"}

\* GuardedLaunchOutcome, as far as a launch that reaches the guard returns it.
GuardedLaunchOutcome ==
  {"LAUNCHED", "EXISTING_CIV_DETECTED", "GUARD_BUSY", "SCAN_INDETERMINATE", "SPAWN_FAILURE",
   "EXITED_IMMEDIATELY", "IDENTITY_UNVERIFIED", "GUARD_UNAVAILABLE"}

\* Types of the mutex, the processes and the launches.
TypeOK ==
  /\ mutex \in [owner : Relays \cup {Nil}, count : Nat, abandoned : BOOLEAN]
  /\ handles \subseteq Relays /\ leaked \subseteq Relays
  /\ alive \subseteq Procs /\ by \in [Procs -> Relays \cup {"user", Nil}]
  /\ pc \in [Relays -> Labels] /\ proc \in [Relays -> Procs \cup {Nil}]
  /\ result \in [Relays -> GuardedLaunchOutcome \cup {Nil}]
  /\ budget \in [fault : Nat, crash : Nat, start : Nat]

LaunchedByRelay(p) == p \in alive /\ by[p] \in Relays

\* Two Relays never both pass the check and both launch: of the running
\* processes at most one was launched by a Relay, after crashes that abandon
\* the guard and failures to release it too.
OneRelayCiv ==
  \A p, q \in Procs : LaunchedByRelay(p) /\ LaunchedByRelay(q) => p = q

Holds(r) == pc[r] \in {"scan", "spawn", "verify", "release"}

\* Whoever holds the guard has an open handle and owns the mutex, so that no
\* other Relay gets past it, and what it is about to spawn beside was not
\* launched by a Relay.
GuardInv ==
  /\ TypeOK /\ OneRelayCiv
  /\ \A r \in Relays :
       /\ pc[r] \in Labels \ {"idle"} => r \in handles
       /\ Holds(r) => mutex.owner = r /\ mutex.count > 0
       /\ pc[r] = "spawn" => \A p \in Procs : ~LaunchedByRelay(p)
       /\ pc[r] = "verify" => proc[r] # Nil
  /\ mutex.owner = Nil => mutex.count = 0
  /\ \A p \in Procs : p \in alive => by[p] # Nil

\* The launch as its caller sees it: its outcome counts once it has returned.
Launches == INSTANCE GuardedLaunch WITH
  open    <- {r \in Relays : pc[r] # "idle"},
  spawned <- proc,
  answer  <- [r \in Relays |-> IF pc[r] = "idle" THEN result[r] ELSE Nil],
  starter <- [p \in Procs |-> IF p \in alive THEN by[p] ELSE Nil]

\* The guarded launch keeps its promise: however the guard, the scan and the
\* cleanup fail, one launch spawns at most one Civilization, beside none that a
\* Relay launched, and returns a deferred or failed outcome only when it spawned
\* nothing (LAUNCH_DEFERRED_OUTCOMES, execute_guarded_launch).
LaunchSpec == Launches!LaunchSpec

\* The guard does not stay taken: it is given up after every outcome of the
\* launch, and taken from a Relay that crashes (execute_guarded_launch). Only
\* a call that fails, ReleaseMutex above all, can leave it owned.
GuardIsGivenUp == (mutex.owner # Nil) ~> (mutex.owner = Nil \/ budget.fault < MaxFaults)
=============================================================================
