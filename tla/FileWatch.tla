----------------------------- MODULE FileWatch -----------------------------
(***************************************************************************)
(* How Relay learns that a PBEM directory has changed (fs/, and the        *)
(* monitor and the dirty flag of a session in app/relay_client.py). The    *)
(* observer thread of watchdog reports changes by setting the flag; a      *)
(* MatchMonitor replaces an observer that has died by polling. A reconcile *)
(* looks at the directory and clears the flag when it is done, which the   *)
(* observer does not wait for. A directory is the number of its changes.   *)
(***************************************************************************)
EXTENDS Naturals

CONSTANTS
  Games,       \* matches, each with its PBEM directory
  Nil,         \* no value
  MaxChanges,  \* bound: changes of the directories
  MaxFaults    \* bound: observers that do not start or die, failing reconciles

VARIABLES
  directory,   \* what is in the directory of each match
  unreported,  \* matches of whose change the observer has still to report
  observer,    \* the observer thread of each match
  active,      \* MatchMonitor._active
  scanned,     \* PollingWatcher._mtimes
  dirty,       \* matches whose session.dirty is set
  looked,      \* what the reconcile in progress has seen of the directory
  known,       \* what last_reconcile has seen of it: <<>> when that failed
  changes, faults  \* what is left of the bounds

monitors == <<unreported, observer, active, scanned>>
session  == <<dirty, looked, known>>
watch    == <<directory, monitors, session, changes, faults>>

Init ==
  /\ directory = [g \in Games |-> 0] /\ unreported = {}
  /\ observer = [g \in Games |-> "none"] /\ active = [g \in Games |-> Nil]
  /\ scanned = [g \in Games |-> 0]
  /\ dirty = Games /\ looked = [g \in Games |-> Nil] /\ known = [g \in Games |-> Nil]
  /\ changes = MaxChanges /\ faults = MaxFaults

Fault == faults > 0 /\ faults' = faults - 1

-----------------------------------------------------------------------------
(* MatchMonitor *)

\* The poller takes what is there for granted and reports what changes later.
Fallback(g) ==
  /\ active' = [active EXCEPT ![g] = "fallback"]
  /\ scanned' = [scanned EXCEPT ![g] = directory[g]]

\* start stops the watchers of the match first, with what they had to report.
StartMonitor(g) ==
  /\ unreported' = unreported \ {g}
  /\ \/ /\ observer' = [observer EXCEPT ![g] = "alive"]
        /\ active' = [active EXCEPT ![g] = "primary"] /\ UNCHANGED <<scanned, faults>>
     \/ observer' = [observer EXCEPT ![g] = "none"] /\ Fallback(g) /\ Fault
  /\ UNCHANGED <<directory, changes>>

\* poll, at the beginning of a tick: an observer that is not healthy any more
\* is given up for good, and the poller scans once its interval is over.
PollMonitor(g) ==
  IF active[g] = "primary" /\ observer[g] # "alive"
  THEN Fallback(g) /\ UNCHANGED <<dirty, unreported, observer>>
  ELSE /\ \/ /\ active[g] = "fallback"
             /\ scanned' = [scanned EXCEPT ![g] = directory[g]]
             /\ dirty' = IF scanned[g] = directory[g] THEN dirty ELSE dirty \cup {g}
          \/ UNCHANGED <<scanned, dirty>>
       /\ UNCHANGED <<active, unreported, observer>>

\* RelayClient.close
StopMonitors ==
  /\ active' = [g \in Games |-> Nil] /\ observer' = [g \in Games |-> "none"]
  /\ unreported' = {}
  /\ UNCHANGED <<directory, scanned, session, changes, faults>>

-----------------------------------------------------------------------------
(* RelayClient: reconcile, and the tick and snapshot that call it *)

Look(g) ==
  /\ looked' = [looked EXCEPT ![g] = directory[g]]
  /\ UNCHANGED <<directory, known, changes, faults>>

Tick(g) == PollMonitor(g) /\ Look(g)

Refresh(g) == Look(g) /\ UNCHANGED <<monitors, dirty>>

\* What was seen becomes the result; an event that came since is forgotten.
Conclude(g) ==
  /\ known' = [known EXCEPT ![g] = <<looked[g]>>] /\ looked' = [looked EXCEPT ![g] = Nil]
  /\ dirty' = dirty \ {g}
  /\ UNCHANGED <<directory, monitors, changes, faults>>

\* After a StorageTransportError its failure is the result and the session
\* counts as clean; any other error leaves both as they were.
Fail(g) ==
  /\ Fault /\ looked' = [looked EXCEPT ![g] = Nil]
  /\ \/ known' = [known EXCEPT ![g] = <<>>] /\ dirty' = dirty \ {g}
     \/ UNCHANGED <<known, dirty>>
  /\ UNCHANGED <<directory, monitors, changes>>

-----------------------------------------------------------------------------
(* The directories and the observer threads *)

Change(g) ==
  /\ changes > 0 /\ changes' = changes - 1
  /\ directory' = [directory EXCEPT ![g] = @ + 1]
  /\ unreported' = IF observer[g] = "alive" THEN unreported \cup {g} ELSE unreported
  /\ UNCHANGED <<observer, active, scanned, session, faults>>

\* The callback of _start_monitor, in the observer thread.
OnEvent(g) ==
  /\ g \in unreported /\ unreported' = unreported \ {g} /\ dirty' = dirty \cup {g}
  /\ UNCHANGED <<directory, observer, active, scanned, looked, known, changes, faults>>

ObserverDies(g) ==
  /\ observer[g] = "alive" /\ observer' = [observer EXCEPT ![g] = "dead"] /\ Fault
  /\ unreported' = unreported \ {g}
  /\ UNCHANGED <<directory, active, scanned, session, changes>>

Surroundings == \E g \in Games : Change(g) \/ OnEvent(g) \/ ObserverDies(g)
=============================================================================
