-------------------------- MODULE MatchInitProofs --------------------------
(***************************************************************************)
(* For any number of installations, faults and crashes an initialization   *)
(* never resets a match, and what it reports and stores is true.           *)
(***************************************************************************)
EXTENDS MatchInit, TLAPS

\* The initial state: nothing is on the server and nobody initializes (Init).
LEMMA InitState == Init => InitInv
<1> SUFFICES ASSUME Init PROVE InitInv
  OBVIOUS
<1>1. 0 \in 0..Subdirs /\ MaxFaults \in Nat /\ MaxCrashes \in Nat /\ MaxMoves \in Nat
  BY ConstantsAssumption
<1>2. TypeOK
  BY <1>1 DEF Init, TypeOK, Labels
<1>3. OneBuilder /\ TreeComplete
  BY DEF Init, OneBuilder, TreeComplete, Building
<1>4. ReportsTrue
  BY ConstantsAssumption DEF Init, ReportsTrue, Initialized
<1> QED
  BY <1>2, <1>3, <1>4 DEF Init, InitInv

\* Every step keeps the types of the tree and of the initializations.
LEMMA TypeStep == InitInv /\ [Next]_vars => TypeOK'
<1> SUFFICES ASSUME InitInv, TypeOK, [Next]_vars PROVE TypeOK'
  BY DEF InitInv
<1> USE ConstantsAssumption DEF TypeOK, Labels, InitializeOutcome, Goto, Return, NoFault, Fault,
        remote
<1>1. ASSUME NEW c \in Clients, MkdirRoot(c) PROVE TypeOK'
  <2>1. 0 \in 0..Subdirs
    OBVIOUS
  <2>2. pc' \in [Clients -> Labels]
    BY <1>1 DEF MkdirRoot
  <2>3. result' \in [Clients -> InitializeOutcome \cup {Nil}]
    BY <1>1 DEF MkdirRoot
  <2>4. root' \in BOOLEAN
    BY <1>1, Zenon DEF MkdirRoot
  <2>5. made' \in [Clients -> 0..Subdirs]
    BY <1>1, <2>1 DEF MkdirRoot
  <2>6. budget' \in [fault : Nat, crash : Nat, move : Nat]
    <3>1. NoFault \/ Fault
      BY <1>1, Zenon DEF MkdirRoot
    <3> QED
      BY <3>1
  <2> QED
    BY <1>1, <2>2, <2>3, <2>4, <2>5, <2>6 DEF MkdirRoot
<1>2. ASSUME NEW c \in Clients, ClassifyExistingGameRoot(c) PROVE TypeOK'
  BY <1>2 DEF ClassifyExistingGameRoot
<1>3. ASSUME NEW c \in Clients, MkdirSubdirectory(c) PROVE TypeOK'
  BY <1>3 DEF MkdirSubdirectory, InitInv, OneBuilder
<1>4. ASSUME NEW c \in Clients, WriteTempManifest(c) PROVE TypeOK'
  BY <1>4 DEF WriteTempManifest, Uncertain
<1>5. ASSUME NEW c \in Clients, AtomicReplace(c) PROVE TypeOK'
  BY <1>5 DEF AtomicReplace, Uncertain, Replace, SequenceZero, Manifests
<1>6. ASSUME NEW c \in Clients, ClassifyUncertainCommit(c) PROVE TypeOK'
  BY <1>6 DEF ClassifyUncertainCommit
<1>7. ASSUME NEW c \in Clients, WriteMatchConfig(c) PROVE TypeOK'
  BY <1>7 DEF WriteMatchConfig
<1>8. ASSUME NEW c \in Clients, Crash(c) PROVE TypeOK'
  BY <1>8 DEF Crash
<1>9. CASE HandoffAccepted
  <2>1. manifest \in [config : Configs, sequence : Nat]
    BY <1>9 DEF HandoffAccepted, Manifests
  <2>2. manifest' \in Manifests
    BY <1>9, <2>1 DEF HandoffAccepted, Manifests
  <2>3. budget' \in [fault : Nat, crash : Nat, move : Nat]
    BY <1>9 DEF HandoffAccepted
  <2> QED
    BY <1>9, <2>2, <2>3 DEF HandoffAccepted
<1>10. CASE RemoveIncompleteTree
  <2>1. 0 \in 0..Subdirs
    OBVIOUS
  <2>2. root' \in BOOLEAN
    BY <1>10, Zenon DEF RemoveIncompleteTree
  <2> QED
    BY <1>10, <2>1, <2>2 DEF RemoveIncompleteTree
<1>11. CASE UNCHANGED vars
  BY <1>11 DEF vars
<1> QED
  BY <1>1, <1>2, <1>3, <1>4, <1>5, <1>6, <1>7, <1>8, <1>9, <1>10, <1>11 DEF Next, Step

\* What a step has to keep besides the types.
Core ==
  /\ OneBuilder /\ TreeComplete /\ ReportsTrue
  /\ ~root => dirs = 0 /\ manifest = Nil

\* Every step keeps the rest of the invariant: only the client that made the
\* root goes on to build, and nobody else touches the tree until it has ended.
LEMMA CoreStep == InitInv /\ [Next]_vars => Core'
<1> SUFFICES ASSUME InitInv, TypeOK, Core, TypeOK', [Next]_vars PROVE Core'
  BY TypeStep DEF InitInv, Core
<1> USE ConstantsAssumption DEF TypeOK, Labels, Manifests, Goto, Return, NoFault, Fault, remote,
        Core, OneBuilder, TreeComplete, ReportsTrue, Building, Initialized
<1>1. ASSUME NEW c \in Clients, MkdirRoot(c) PROVE Core'
  <2>1. CASE ~root /\ NoFault /\ root' = TRUE /\ Goto(c, "mkdir") /\ UNCHANGED result
    BY <1>1, <2>1 DEF MkdirRoot
  <2>2. CASE root' = TRUE /\ Goto(c, "classify") /\ UNCHANGED result
    BY <1>1, <2>2 DEF MkdirRoot
  <2>3. CASE root' \in {root, TRUE} /\ Return(c, "TRANSPORT_FAILURE")
    <3>1. /\ pc'[c] = "idle" /\ result'[c] = "TRANSPORT_FAILURE"
          /\ \A d \in Clients \ {c} : pc'[d] = pc[d] /\ result'[d] = result[d] /\ made'[d] = made[d]
          /\ UNCHANGED <<dirs, manifest, stored>>
      BY <1>1, <2>3 DEF MkdirRoot
    <3>2. root => root'
      BY <2>3
    <3>3. OneBuilder'
      BY <3>1, <3>2
    <3>4. TreeComplete' /\ (~root' => dirs' = 0 /\ manifest' = Nil)
      BY <3>1, <3>2
    <3>5. ReportsTrue'
      BY <3>1
    <3> QED
      BY <3>3, <3>4, <3>5
  <2> QED
    BY <1>1, <2>1, <2>2, <2>3 DEF MkdirRoot
<1>2. ASSUME NEW c \in Clients, ClassifyExistingGameRoot(c) PROVE Core'
  BY <1>2 DEF ClassifyExistingGameRoot
<1>3. ASSUME NEW c \in Clients, MkdirSubdirectory(c) PROVE Core'
  BY <1>3 DEF MkdirSubdirectory
<1>4. ASSUME NEW c \in Clients, WriteTempManifest(c) PROVE Core'
  BY <1>4 DEF WriteTempManifest, Uncertain
<1>5. ASSUME NEW c \in Clients, AtomicReplace(c) PROVE Core'
  BY <1>5 DEF AtomicReplace, Uncertain, Replace, SequenceZero
<1>6. ASSUME NEW c \in Clients, ClassifyUncertainCommit(c) PROVE Core'
  BY <1>6 DEF ClassifyUncertainCommit, SequenceZero
<1>7. ASSUME NEW c \in Clients, WriteMatchConfig(c) PROVE Core'
  BY <1>7 DEF WriteMatchConfig
<1>8. ASSUME NEW c \in Clients, Crash(c) PROVE Core'
  BY <1>8 DEF Crash
<1>9. CASE HandoffAccepted
  BY <1>9 DEF HandoffAccepted
<1>10. CASE RemoveIncompleteTree
  BY <1>10 DEF RemoveIncompleteTree
<1>11. CASE UNCHANGED vars
  BY <1>11 DEF vars
<1> QED
  BY <1>1, <1>2, <1>3, <1>4, <1>5, <1>6, <1>7, <1>8, <1>9, <1>10, <1>11 DEF Next, Step

\* The tree is built by one initialization at a time, and what is on the server
\* fits how far it has come (initialize_match).
THEOREM Invariant == Spec => []InitInv
<1>1. InitInv /\ [Next]_vars => InitInv'
  BY TypeStep, CoreStep DEF InitInv, Core
<1> QED
  BY InitState, <1>1, PTL DEF Spec

\* Nobody is told of, or stores, a match that does not exist
\* (InitializeResult.initialized).
THEOREM TruthfulReports == Spec => []ReportsTrue
<1>1. InitInv => ReportsTrue
  BY DEF InitInv
<1> QED
  BY Invariant, <1>1, PTL

\* The tree of a match that exists is complete (_finish_new_match).
THEOREM CompleteTrees == Spec => []TreeComplete
<1>1. InitInv => TreeComplete
  BY DEF InitInv
<1> QED
  BY Invariant, <1>1, PTL

\* An initialization never replaces the manifest of a match (initialize_match).
THEOREM MatchNeverReset == Spec => NeverReset
<1> DEFINE Kept == manifest # Nil => /\ manifest' # Nil /\ manifest'.config = manifest.config
                                     /\ manifest'.sequence >= manifest.sequence
<1>1. InitInv /\ [Next]_vars => [Kept]_vars
  <2> SUFFICES ASSUME InitInv, TypeOK, OneBuilder, [Next]_vars, manifest # Nil
               PROVE  /\ manifest' # Nil /\ manifest'.config = manifest.config
                      /\ manifest'.sequence >= manifest.sequence
    BY DEF InitInv
  <2>1. manifest \in Manifests /\ manifest.sequence \in Nat
    BY DEF TypeOK, Manifests
  <2>2. CASE HandoffAccepted
    BY <2>1, <2>2, ConstantsAssumption DEF HandoffAccepted, Manifests
  <2>3. CASE UNCHANGED manifest
    BY <2>1, <2>3
  <2>4. ASSUME NEW c \in Clients, AtomicReplace(c) PROVE FALSE
    BY <2>4 DEF AtomicReplace, OneBuilder
  <2> QED
    BY <2>2, <2>3, <2>4
       DEF Next, Step, vars, remote, MkdirRoot, ClassifyExistingGameRoot, MkdirSubdirectory,
           WriteTempManifest, ClassifyUncertainCommit, WriteMatchConfig, Crash,
           RemoveIncompleteTree
<1> QED
  BY Invariant, <1>1, PTL DEF Spec, NeverReset
=============================================================================
