----------------------------- MODULE MatchInit -----------------------------
(***************************************************************************)
(* Creating or joining a match on the server (protocol/initialize.py,      *)
(* RelayClient.initialize_or_join). Several installations may initialize   *)
(* the same match at once. One action is one call to the storage; a call   *)
(* may fail, or take effect and lose its response, and a client may crash  *)
(* between two calls. The match itself goes on once it has a manifest.     *)
(***************************************************************************)
EXTENDS Naturals

CONSTANTS
  Clients,     \* installations
  Configs,     \* match configurations: players and display name
  Config,      \* the configuration each client holds for the match
  Subdirs,     \* how many directories a game root needs
  Nil,         \* no value
  MaxFaults,   \* bound: failing calls to the storage
  MaxCrashes,  \* bound: crashes of a client
  MaxMoves     \* bound: handoffs accepted after the initialization

ASSUME ConstantsAssumption ==
  /\ Config \in [Clients -> Configs]
  /\ Subdirs \in Nat \ {0} /\ MaxFaults \in Nat /\ MaxCrashes \in Nat /\ MaxMoves \in Nat
  /\ Nil \notin Clients \cup Configs \cup {"CREATED", "JOINED_EXISTING"}
  /\ Nil \notin [config : Configs, sequence : Nat]

VARIABLES
  root,      \* the game root exists
  dirs,      \* how many of REQUIRED_SUBDIRECTORIES exist, made in their order
  temp,      \* clients whose temporary manifest is stored
  manifest,  \* manifest.json: configuration and sequence, or Nil
  pc,        \* the step of each client
  made,      \* directories a client has made in the running initialization
  result,    \* InitializeResult.outcome of the last initialization
  stored,    \* clients whose store holds the match configuration
  budget     \* what is left of the bounds

vars == <<root, dirs, temp, manifest, pc, made, result, stored, budget>>
remote == <<root, dirs, temp, manifest>>

Init ==
  /\ root = FALSE /\ dirs = 0 /\ temp = {} /\ manifest = Nil
  /\ pc = [c \in Clients |-> "idle"] /\ made = [c \in Clients |-> 0]
  /\ result = [c \in Clients |-> Nil] /\ stored = {}
  /\ budget = [fault |-> MaxFaults, crash |-> MaxCrashes, move |-> MaxMoves]

NoFault == UNCHANGED budget

Fault == budget.fault > 0 /\ budget' = [budget EXCEPT !.fault = @ - 1]

Goto(c, label) == pc' = [pc EXCEPT ![c] = label]

\* InitializeResult.initialized
Initialized(outcome) == outcome \in {"CREATED", "JOINED_EXISTING"}

\* Seeded fault: the configuration is stored whatever the outcome.
Return_StoresAlways(c, outcome) ==
  /\ result' = [result EXCEPT ![c] = outcome]
  /\ Goto(c, "store")

\* initialize_match returns; an initialized match is stored next.
Return(c, outcome) ==
  /\ result' = [result EXCEPT ![c] = outcome]
  /\ Goto(c, IF Initialized(outcome) THEN "store" ELSE "idle")

SequenceZero(c) == [config |-> Config[c], sequence |-> 0]

-----------------------------------------------------------------------------
(* initialize_match *)

\* mkdir of the game root, which only one client succeeds with. A response
\* that is lost is an error, or the root is found to exist.
MkdirRoot(c) ==
  /\ pc[c] = "idle" /\ made' = [made EXCEPT ![c] = 0]
  /\ \/ ~root /\ NoFault /\ root' = TRUE /\ Goto(c, "mkdir") /\ UNCHANGED result
     \/ root /\ NoFault /\ Goto(c, "classify") /\ UNCHANGED <<root, result>>
     \/ Fault /\ root' \in {root, TRUE} /\ Return(c, "TRANSPORT_FAILURE")
     \/ Fault /\ root' = TRUE /\ Goto(c, "classify") /\ UNCHANGED result
  /\ UNCHANGED <<dirs, temp, manifest, stored>>

\* Seeded fault: a tree that only lacks its manifest is silently finished.
ClassifyExistingGameRoot_Finishes(c) ==
  /\ pc[c] = "classify"
  /\ \/ manifest # Nil /\ NoFault /\ Return(c, "JOINED_EXISTING")
     \/ /\ manifest = Nil /\ NoFault
        /\ IF dirs = Subdirs THEN Goto(c, "write") /\ UNCHANGED result
           ELSE Return(c, "INCOMPLETE_OR_CONFLICTING")
     \/ Fault /\ Return(c, "TRANSPORT_FAILURE")
  /\ UNCHANGED <<remote, made, stored>>

\* _classify_existing_game_root
ClassifyExistingGameRoot(c) ==
  /\ pc[c] = "classify"
  /\ \/ manifest # Nil /\ NoFault /\ Return(c, "JOINED_EXISTING")
     \/ manifest = Nil /\ NoFault /\ Return(c, "INCOMPLETE_OR_CONFLICTING")
     \/ Fault /\ Return(c, "TRANSPORT_FAILURE")
  /\ UNCHANGED <<remote, made, stored>>

\* Seeded fault: the last directory is not waited for.
MkdirSubdirectory_NotLast(c) ==
  /\ pc[c] = "mkdir" /\ made[c] < Subdirs
  /\ \/ /\ NoFault /\ dirs' = IF made[c] + 1 < Subdirs THEN dirs + 1 ELSE dirs
        /\ made' = [made EXCEPT ![c] = @ + 1]
        /\ Goto(c, IF made[c] + 1 = Subdirs THEN "write" ELSE "mkdir")
        /\ UNCHANGED result
     \/ Fault /\ dirs' \in {dirs, dirs + 1} /\ Return(c, "TRANSPORT_FAILURE") /\ UNCHANGED made
  /\ UNCHANGED <<root, temp, manifest, stored>>

\* One of the directories; whoever made the root makes them all.
MkdirSubdirectory(c) ==
  /\ pc[c] = "mkdir" /\ made[c] < Subdirs
  /\ \/ /\ NoFault /\ dirs' = dirs + 1
        /\ made' = [made EXCEPT ![c] = @ + 1]
        /\ Goto(c, IF made[c] + 1 = Subdirs THEN "write" ELSE "mkdir")
        /\ UNCHANGED result
     \/ Fault /\ dirs' \in {dirs, dirs + 1} /\ Return(c, "TRANSPORT_FAILURE") /\ UNCHANGED made
  /\ UNCHANGED <<root, temp, manifest, stored>>

\* A storage error leads to TRANSPORT_FAILURE, a transport error to another
\* look at the server.
Uncertain(c) == Return(c, "TRANSPORT_FAILURE") \/ (Goto(c, "uncertain") /\ UNCHANGED result)

WriteTempManifest(c) ==
  /\ pc[c] = "write"
  /\ \/ NoFault /\ temp' = temp \cup {c} /\ Goto(c, "replace") /\ UNCHANGED result
     \/ Fault /\ temp' \in {temp, temp \cup {c}} /\ Uncertain(c)
  /\ UNCHANGED <<root, dirs, manifest, made, stored>>

Replace(c) == temp' = temp \ {c} /\ manifest' = SequenceZero(c)

\* The commit point of the initialization.
AtomicReplace(c) ==
  /\ pc[c] = "replace"
  /\ \/ NoFault /\ Replace(c) /\ Return(c, "CREATED")
     \/ Fault /\ (Replace(c) \/ UNCHANGED <<temp, manifest>>) /\ Uncertain(c)
  /\ UNCHANGED <<root, dirs, made, stored>>

\* Seeded fault: an error of the replacement is taken for a success.
ClassifyUncertainCommit_Assumes(c) ==
  /\ pc[c] = "uncertain" /\ NoFault /\ Return(c, "CREATED")
  /\ UNCHANGED <<remote, made, stored>>

\* _classify_uncertain_commit: the bytes decide.
ClassifyUncertainCommit(c) ==
  /\ pc[c] = "uncertain"
  /\ \/ manifest = SequenceZero(c) /\ NoFault /\ Return(c, "CREATED")
     \/ manifest \notin {Nil, SequenceZero(c)} /\ NoFault /\ Return(c, "JOINED_EXISTING")
     \/ manifest = Nil /\ NoFault /\ Return(c, "TRANSPORT_FAILURE")
     \/ Fault /\ Return(c, "TRANSPORT_FAILURE")
  /\ UNCHANGED <<remote, made, stored>>

\* write_match_config, in initialize_or_join
WriteMatchConfig(c) ==
  /\ pc[c] = "store" /\ stored' = stored \cup {c} /\ Goto(c, "idle")
  /\ UNCHANGED <<remote, made, result, budget>>

-----------------------------------------------------------------------------
(* Crashes, the match and the operator *)

Crash(c) ==
  /\ budget.crash > 0 /\ budget' = [budget EXCEPT !.crash = @ - 1]
  /\ pc[c] # "idle" /\ Goto(c, "idle") /\ result' = [result EXCEPT ![c] = Nil]
  /\ UNCHANGED <<remote, made, stored>>

\* A handoff of a client that knows the match.
HandoffAccepted ==
  /\ budget.move > 0 /\ budget' = [budget EXCEPT !.move = @ - 1]
  /\ manifest # Nil
  /\ manifest' = [config |-> manifest.config, sequence |-> manifest.sequence + 1]
  /\ UNCHANGED <<root, dirs, temp, pc, made, result, stored>>

Building(c) == pc[c] \in {"mkdir", "write", "replace", "uncertain"}

\* An incomplete tree is removed by hand once its initialization has stopped.
RemoveIncompleteTree ==
  /\ root /\ manifest = Nil /\ \A c \in Clients : ~Building(c)
  /\ root' = FALSE /\ dirs' = 0 /\ temp' = {}
  /\ UNCHANGED <<manifest, pc, made, result, stored, budget>>

-----------------------------------------------------------------------------
Step(c) ==
  \/ MkdirRoot(c) \/ ClassifyExistingGameRoot(c) \/ MkdirSubdirectory(c)
  \/ WriteTempManifest(c) \/ AtomicReplace(c) \/ ClassifyUncertainCommit(c)
  \/ WriteMatchConfig(c)

Next == (\E c \in Clients : Step(c) \/ Crash(c)) \/ HandoffAccepted \/ RemoveIncompleteTree

Spec == Init /\ [][Next]_vars

-----------------------------------------------------------------------------
(* Properties *)

InitializeOutcome ==
  {"CREATED", "JOINED_EXISTING", "INCOMPLETE_OR_CONFLICTING", "TRANSPORT_FAILURE"}
Labels == {"idle", "mkdir", "classify", "write", "replace", "uncertain", "store"}
Manifests == [config : Configs, sequence : Nat]

\* Types of the tree on the server and of the initializations.
TypeOK ==
  /\ root \in BOOLEAN /\ dirs \in 0..Subdirs /\ temp \subseteq Clients
  /\ manifest \in Manifests \cup {Nil}
  /\ pc \in [Clients -> Labels] /\ made \in [Clients -> 0..Subdirs]
  /\ result \in [Clients -> InitializeOutcome \cup {Nil}] /\ stored \subseteq Clients
  /\ budget \in [fault : Nat, crash : Nat, move : Nat]

\* An initialization never resets a match: once there is a manifest its
\* configuration stays and its sequence never goes back, whoever initializes the
\* match again or comes back late with an uncertain commit.
NeverReset ==
  [][manifest # Nil => /\ manifest' # Nil /\ manifest'.config = manifest.config
                       /\ manifest'.sequence >= manifest.sequence]_vars

\* A match with a manifest has its root and every directory a handoff uses.
TreeComplete == manifest # Nil => root /\ dirs = Subdirs

\* Whoever was told the match is initialized, or has stored it, knows a match
\* that exists, and one reported created has the reporter's configuration.
ReportsTrue ==
  /\ \A c \in Clients : Initialized(result[c]) \/ c \in stored => manifest # Nil
  /\ \A c \in Clients : result[c] = "CREATED" => manifest.config = Config[c]

\* At most one initialization builds the tree at a time, in a root that is
\* there, with the directories made so far, and until it tries the replacement
\* there is no manifest.
OneBuilder ==
  /\ \A c, d \in Clients : Building(c) /\ Building(d) => c = d
  /\ \A c \in Clients :
       /\ Building(c) => root
       /\ pc[c] = "mkdir" => dirs = made[c] /\ made[c] < Subdirs
       /\ pc[c] \in {"write", "replace"} => manifest = Nil /\ dirs = Subdirs
       /\ pc[c] = "mkdir" => manifest = Nil
       /\ pc[c] = "uncertain" => dirs = Subdirs
       /\ pc[c] = "uncertain" /\ manifest # Nil => manifest.config = Config[c]
       /\ pc[c] = "store" => Initialized(result[c])

\* The inductive invariant: the tree is in the hands of one initialization, and
\* what is there fits how far it has come.
InitInv ==
  /\ TypeOK /\ OneBuilder /\ TreeComplete /\ ReportsTrue
  /\ ~root => dirs = 0 /\ manifest = Nil
=============================================================================
