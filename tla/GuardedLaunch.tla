---------------------------- MODULE GuardedLaunch ----------------------------
(***************************************************************************)
(* What a guarded launch promises its caller: it spawns Civilization at    *)
(* most once, and only while no Civilization launched by a Relay runs; and *)
(* the outcome tells whether anything was spawned, so that a deferred or   *)
(* failed launch may be tried again and no other may.                      *)
(***************************************************************************)
CONSTANTS Relays, Procs, Nil

VARIABLES
  open,     \* Relays in a launch
  spawned,  \* the process the running or last launch of each Relay spawned
  answer,   \* the outcome of the last launch of each Relay, once returned
  starter   \* who started each running process: a Relay or "user"

gvars == <<open, spawned, answer, starter>>

\* Outcomes after which the launch may be tried again: deferred or failed.
NothingSpawned ==
  {"EXISTING_CIV_DETECTED", "GUARD_BUSY", "SCAN_INDETERMINATE", "GUARD_UNAVAILABLE",
   "SPAWN_FAILURE"}

SpawnedOnce == {"LAUNCHED", "EXITED_IMMEDIATELY", "IDENTITY_UNVERIFIED"}

\* Outcomes a launch may return that spawned p, or nothing.
Outcomes(p) == IF p = Nil THEN NothingSpawned ELSE SpawnedOnce

LaunchInit ==
  /\ open = {} /\ starter = [p \in Procs |-> Nil]
  /\ spawned = [r \in Relays |-> Nil] /\ answer = [r \in Relays |-> Nil]

Begin(r) ==
  /\ r \notin open /\ open' = open \cup {r}
  /\ spawned' = [spawned EXCEPT ![r] = Nil] /\ answer' = [answer EXCEPT ![r] = Nil]
  /\ UNCHANGED starter

\* The launch is over before it has begun.
Refuse(r) ==
  /\ r \notin open
  /\ spawned' = [spawned EXCEPT ![r] = Nil]
  /\ \E o \in Outcomes(Nil) : answer' = [answer EXCEPT ![r] = o]
  /\ UNCHANGED <<open, starter>>

SpawnCiv(r, p) ==
  /\ r \in open /\ spawned[r] = Nil /\ starter[p] = Nil
  /\ \A q \in Procs : starter[q] \notin Relays
  /\ spawned' = [spawned EXCEPT ![r] = p] /\ starter' = [starter EXCEPT ![p] = r]
  /\ UNCHANGED <<open, answer>>

Answer(r) ==
  /\ r \in open /\ open' = open \ {r}
  /\ \E o \in Outcomes(spawned[r]) : answer' = [answer EXCEPT ![r] = o]
  /\ UNCHANGED <<spawned, starter>>

\* A Relay that crashes forgets its launch; what it spawned runs on.
Forget(r) ==
  /\ open' = open \ {r}
  /\ spawned' = [spawned EXCEPT ![r] = Nil] /\ answer' = [answer EXCEPT ![r] = Nil]
  /\ UNCHANGED starter

Outside(p) ==
  /\ \/ starter[p] # Nil /\ starter' = [starter EXCEPT ![p] = Nil]
     \/ starter[p] = Nil /\ starter' = [starter EXCEPT ![p] = "user"]
  /\ UNCHANGED <<open, spawned, answer>>

LaunchNext ==
  \/ \E r \in Relays :
       Begin(r) \/ Refuse(r) \/ Answer(r) \/ Forget(r) \/ \E p \in Procs : SpawnCiv(r, p)
  \/ \E p \in Procs : Outside(p)

LaunchSpec == LaunchInit /\ [][LaunchNext]_gvars
=============================================================================
