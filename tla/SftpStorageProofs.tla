------------------------- MODULE SftpStorageProofs -------------------------
(***************************************************************************)
(* Proofs about SftpStorage, for all paths, calls, servers and bounds: the *)
(* types and the inductive invariant hold, a verified capability is real   *)
(* where no request was refused, and the adapter implements the storage    *)
(* port where its capabilities are real.                                   *)
(***************************************************************************)
EXTENDS SftpStorage, TLAPS

\* What the checks before a request answer is an answer of the port.
LEMMA PrecheckAnswers ==
  ASSUME NEW c
  PROVE  Precheck(c) \in {"go", "wrong_kind", "not_found", "not_empty", "exists"}
BY DEF Precheck

\* A request that fails uses up a refusal at most.
LEMMA RefusalsCounted ==
  ASSUME TypeOK
  PROVE  /\ Refused => refusals' \in 0..MaxRefusals /\ refusals' < MaxRefusals
         /\ Fails => refusals' \in 0..MaxRefusals
         /\ Arrives => refusals' = refusals
BY SftpAssumption DEF TypeOK, Refused, Fails, Arrives

\* No step gives a refusal back or makes another server of this one.
LEMMA RefusalsKept ==
  ASSUME TypeOK, [Next]_vars
  PROVE  /\ srv' = srv /\ refusals' \in 0..MaxRefusals
         /\ refusals' = MaxRefusals => refusals = MaxRefusals
         /\ refusals < MaxRefusals => refusals' < MaxRefusals
<1>1. \/ refusals' = refusals
      \/ Refused
  <2>1. CASE ProbeStep
    BY <2>1 DEF ProbeStep, ProbeMkdir, ProbeExclusive, ProbePublish, ProbeRefusal, ProbeReplace,
       ProbeReadback, ProbeCleanup, CleanupProbe, RefusalUnread, Fails, Arrives
  <2>2. CASE CallStep
    BY <2>2 DEF CallStep, OpenConnection, Gate, Check, Request, WriteBytes, Response, Recheck,
       Finish, Lost, Fails, Arrives, bounds
  <2>3. CASE ~ProbeStep /\ ~CallStep
    BY <2>3 DEF Next, vars, bounds, Invoke, Close, Disconnect, OtherClient
  <2> QED
    BY <2>1, <2>2, <2>3
<1>2. srv' = srv
  BY DEF Next, vars, ProbeStep, CallStep, Invoke, OpenConnection, ProbeMkdir, ProbeExclusive,
     ProbePublish, ProbeRefusal, ProbeReplace, ProbeReadback, ProbeCleanup, Probing, Gate, Check,
     Request, WriteBytes, Response, Recheck, Close, Disconnect, OtherClient
<1> QED
  BY <1>1, <1>2, RefusalsCounted DEF TypeOK

\* Every step keeps the types.
LEMMA TypeKept == ASSUME SftpInv, [Next]_vars PROVE TypeOK'
<1> USE SftpAssumption DEF SftpInv, TypeOK, CallInv, Labels, Answers, Uncertain, connection, adapter, ongoing, bounds, Goto
<1>0. refusals' \in 0..MaxRefusals
  BY RefusalsKept
<1>a. srv.exclusive \in BOOLEAN /\ srv.readback \in BOOLEAN
  BY DEF Semantics
<1>b. ASSUME Probing, pc \in Labels, pc # "idle", pc' \in Labels \ {"idle"},
             got' \in [Capabilities -> BOOLEAN], probe' \in BOOLEAN,
             err' \in {Nil, "transport", "capability"}
      PROVE  TypeOK'
  BY <1>0, <1>b DEF Probing
<1>1. CASE \E c \in Calls : Invoke(c)
  BY <1>0, <1>1 DEF Invoke
<1>2. CASE OpenConnection
  <2>1. drops' \in 0..MaxDrops
    BY <1>0, <1>2 DEF OpenConnection
  <2>2. CASE Goto("probeMkdir")
    <3>1. /\ sftp' = TRUE /\ alive' = TRUE /\ got' = Unverified
          /\ UNCHANGED <<srv, server, caps, probe, call, answer, err, did, others>>
      BY <1>0, <1>2, <2>2 DEF OpenConnection, Finish
    <3>2. got' \in [Capabilities -> BOOLEAN]
      BY <3>1 DEF Unverified
    <3> QED
      BY <1>0, <1>2, <2>1, <2>2, <3>1, <3>2 DEF OpenConnection
  <2>3. CASE Finish("transport")
    <3>1. UNCHANGED <<srv, server, sftp, alive, caps, got, probe, did, others>>
      BY <1>0, <1>2, <2>3 DEF OpenConnection, Finish
    <3> QED
      BY <1>0, <2>1, <2>3, <3>1 DEF Finish
  <2> QED
    BY <1>0, <1>2, <2>2, <2>3 DEF OpenConnection
<1>3. CASE ProbeMkdir
  BY <1>0, <1>3 DEF ProbeMkdir, Refused, Fails, Arrives, ProbeRaises, Probing
<1>4. CASE ProbeExclusive
  <2>1. CASE ProbeRaises("capability")
    BY <1>b, <1>4, <2>1 DEF ProbeExclusive, ProbeRaises
  <2>2. ASSUME NEW holds \in BOOLEAN, Found("exclusive", holds, "probePublish")
        PROVE  TypeOK'
    BY <1>b, <1>4, <2>2 DEF ProbeExclusive, Found, Capabilities
  <2> QED
    BY <1>a, <1>4, <2>1, <2>2 DEF ProbeExclusive
<1>5. CASE ProbePublish
  BY <1>0, <1>5 DEF ProbePublish, Refused, Fails, Arrives, ProbeRaises, Probing
<1>6. CASE ProbeRefusal
  <2>1. ASSUME NEW error \in {"transport", "capability"}, ProbeRaises(error)
        PROVE  TypeOK'
    BY <1>b, <1>6, <2>1 DEF ProbeRefusal, ProbeRaises
  <2>2. ASSUME NEW holds \in BOOLEAN, Found("publish", holds, "probeReplace")
        PROVE  TypeOK'
    BY <1>b, <1>6, <2>2 DEF ProbeRefusal, Found, Capabilities
  <2>3. (srv.rename = "refuses" /\ srv.readback) \in BOOLEAN
    BY <1>a
  <2> QED
    BY <1>a, <1>6, <2>1, <2>2, <2>3 DEF ProbeRefusal, RefusalUnread
<1>7. CASE ProbeReplace
  <2>1. CASE ProbeRaises("capability")
    BY <1>b, <1>7, <2>1 DEF ProbeReplace, ProbeRaises
  <2>2. CASE Found("replace", srv.readback, "probeReadback")
    BY <1>a, <1>b, <1>7, <2>2 DEF ProbeReplace, Found, Capabilities
  <2> QED
    BY <1>7, <2>1, <2>2 DEF ProbeReplace
<1>8. CASE ProbeReadback
  <2>1. CASE ProbeRaises("capability")
    BY <1>b, <1>8, <2>1 DEF ProbeReadback, ProbeRaises
  <2>2. (got["publish"] /\ srv.readback) \in BOOLEAN
    BY <1>a DEF Capabilities
  <2>3. CASE Found("readback", got["publish"] /\ srv.readback, "probeCleanup")
    BY <1>b, <1>8, <2>2, <2>3 DEF ProbeReadback, Found, Capabilities
  <2> QED
    BY <1>8, <2>1, <2>3 DEF ProbeReadback
<1>9. CASE ProbeCleanup
  BY <1>0, <1>9 DEF ProbeCleanup, Refused, Fails, Arrives, CleanupProbe, Finish
<1>10. CASE Gate
  BY <1>0, <1>10 DEF Gate, Finish
<1>11. CASE Check
  BY <1>0, <1>11, PrecheckAnswers DEF Check, Refused, Fails, Arrives, Lost, Finish
<1>12. CASE Request
  BY <1>0, <1>12 DEF Request, Refused, Fails, Arrives, Unanswered, Finish, Put, Move, Carries, Refusal
<1>13. CASE WriteBytes
  BY <1>0, <1>13 DEF WriteBytes, Refused, Fails, Arrives, Unanswered, Finish, Put
<1>14. CASE Response
  BY <1>0, <1>14 DEF Response, Unanswered, Finish
<1>15. CASE Recheck
  BY <1>0, <1>15 DEF Recheck, Refused, Fails, Arrives, Lost, Mapped, Finish
<1>16. CASE Close
  BY <1>0, <1>16 DEF Close, Unverified
<1>17. CASE Disconnect
  <2>1. drops' \in 0..MaxDrops
    BY <1>0, <1>17 DEF Disconnect
  <2>2. /\ alive' = FALSE
        /\ UNCHANGED <<srv, server, sftp, probe, caps, got, pc, call, answer, err, did, others>>
    BY <1>0, <1>17 DEF Disconnect
  <2> QED
    BY <1>0, <2>1, <2>2
<1>18. CASE \E path \in Paths : OtherClient(path)
  BY <1>0, <1>18 DEF OtherClient, Put, After
<1>19. CASE UNCHANGED vars
  BY <1>0, <1>19 DEF vars
<1> QED
  BY <1>1, <1>2, <1>3, <1>4, <1>5, <1>6, <1>7, <1>8, <1>9, <1>10, <1>11, <1>12, <1>13, <1>14, <1>15, <1>16, <1>17, <1>18, <1>19 DEF Next, ProbeStep, CallStep

\* Every step keeps what the probe has found true.
LEMMA ProbeKept == ASSUME SftpInv, [Next]_vars PROVE ProbeInv'
<1> USE SftpAssumption DEF SftpInv, TypeOK, ProbeInv, CallInv, Labels, Sound, Real, Unverified, Capabilities, connection, adapter, ongoing, bounds, Goto
<1>0. /\ srv' = srv /\ (refusals' = MaxRefusals => refusals = MaxRefusals)
      /\ Refused => refusals' < MaxRefusals /\ refusals' # MaxRefusals
  BY RefusalsKept, RefusalsCounted, SftpAssumption
<1>1. CASE \E c \in Calls : Invoke(c)
  BY <1>0, <1>1 DEF Invoke
<1>2. CASE OpenConnection
  BY <1>0, <1>2 DEF OpenConnection, Finish
<1>3. CASE ProbeMkdir
  BY <1>0, <1>3 DEF ProbeMkdir, Refused, Fails, Arrives, ProbeRaises, Probing
<1>4. CASE ProbeExclusive
  BY <1>0, <1>4 DEF ProbeExclusive, Refused, Fails, Arrives, ProbeRaises, Found, Probing
<1>5. CASE ProbePublish
  BY <1>0, <1>5 DEF ProbePublish, Refused, Fails, Arrives, ProbeRaises, Probing
<1>6. CASE ProbeRefusal
  BY <1>0, <1>6 DEF ProbeRefusal, RefusalUnread, Refused, Fails, Arrives, ProbeRaises, Found, Probing
<1>7. CASE ProbeReplace
  BY <1>0, <1>7 DEF ProbeReplace, Refused, Fails, Arrives, ProbeRaises, Found, Probing
<1>8. CASE ProbeReadback
  BY <1>0, <1>8 DEF ProbeReadback, Refused, Fails, Arrives, ProbeRaises, Found, Probing
<1>9. CASE ProbeCleanup
  BY <1>0, <1>9 DEF ProbeCleanup, Refused, Fails, Arrives, CleanupProbe, Finish
<1>10. CASE Gate
  BY <1>0, <1>10 DEF Gate, Finish
<1>11. CASE Check
  BY <1>0, <1>11 DEF Check, Refused, Fails, Arrives, Lost, Finish
<1>12. CASE Request
  BY <1>0, <1>12 DEF Request, Refused, Fails, Arrives, Unanswered, Finish
<1>13. CASE WriteBytes
  BY <1>0, <1>13 DEF WriteBytes, Refused, Fails, Arrives, Unanswered, Finish
<1>14. CASE Response
  BY <1>0, <1>14 DEF Response, Unanswered, Finish
<1>15. CASE Recheck
  BY <1>0, <1>15 DEF Recheck, Refused, Fails, Arrives, Lost, Mapped, Finish
<1>16. CASE Close
  BY <1>0, <1>16 DEF Close
<1>17. CASE Disconnect
  BY <1>0, <1>17 DEF Disconnect
<1>18. CASE \E path \in Paths : OtherClient(path)
  BY <1>0, <1>18 DEF OtherClient
<1>19. CASE UNCHANGED vars
  BY <1>0, <1>19 DEF vars
<1> QED
  BY <1>1, <1>2, <1>3, <1>4, <1>5, <1>6, <1>7, <1>8, <1>9, <1>10, <1>11, <1>12, <1>13, <1>14, <1>15, <1>16, <1>17, <1>18, <1>19 DEF Next, ProbeStep, CallStep

\* Every step keeps the answer to come in step with what the call has done.
LEMMA CallKept == ASSUME SftpInv, [Next]_vars PROVE CallInv'
<1> USE SftpAssumption DEF SftpInv, TypeOK, CallInv, Labels, CutShort, Mutating, connection, adapter, ongoing, bounds, Goto
<1>1. CASE \E c \in Calls : Invoke(c)
  BY <1>1 DEF Invoke
<1>2. CASE OpenConnection
  BY <1>2 DEF OpenConnection, Finish
<1>3. CASE ProbeMkdir
  BY <1>3 DEF ProbeMkdir, Refused, Fails, Arrives, ProbeRaises, Probing
<1>4. CASE ProbeExclusive
  BY <1>4 DEF ProbeExclusive, Refused, Fails, Arrives, ProbeRaises, Found, Probing
<1>5. CASE ProbePublish
  BY <1>5 DEF ProbePublish, Refused, Fails, Arrives, ProbeRaises, Probing
<1>6. CASE ProbeRefusal
  BY <1>6 DEF ProbeRefusal, RefusalUnread, Refused, Fails, Arrives, ProbeRaises, Found, Probing
<1>7. CASE ProbeReplace
  BY <1>7 DEF ProbeReplace, Refused, Fails, Arrives, ProbeRaises, Found, Probing
<1>8. CASE ProbeReadback
  BY <1>8 DEF ProbeReadback, Refused, Fails, Arrives, ProbeRaises, Found, Probing
<1>9. CASE ProbeCleanup
  BY <1>9 DEF ProbeCleanup, Refused, Fails, Arrives, CleanupProbe, Finish
<1>10. CASE Gate
  BY <1>10 DEF Gate, Finish, Needs
<1>11. CASE Check
  BY <1>11, PrecheckAnswers DEF Check, Refused, Fails, Arrives, Lost, Finish, Needs
<1>12. CASE Request
  BY <1>12 DEF Request, Refused, Fails, Arrives, Unanswered, Finish, Refusal
<1>13. CASE WriteBytes
  BY <1>13 DEF WriteBytes, Refused, Fails, Arrives, Unanswered, Finish
<1>14. CASE Response
  BY <1>14 DEF Response, Unanswered, Finish
<1>15. CASE Recheck
  BY <1>15 DEF Recheck, Refused, Fails, Arrives, Lost, Mapped, Finish
<1>16. CASE Close
  BY <1>16 DEF Close
<1>17. CASE Disconnect
  BY <1>17 DEF Disconnect
<1>18. CASE \E path \in Paths : OtherClient(path)
  BY <1>18 DEF OtherClient
<1>19. CASE UNCHANGED vars
  BY <1>19 DEF vars
<1> QED
  BY <1>1, <1>2, <1>3, <1>4, <1>5, <1>6, <1>7, <1>8, <1>9, <1>10, <1>11, <1>12, <1>13, <1>14, <1>15, <1>16, <1>17, <1>18, <1>19 DEF Next, ProbeStep, CallStep

\* Every step keeps other contents out of the private names.
LEMMA PrivateKept == ASSUME SftpInv, [Next]_vars PROVE PrivateInv'
<1> USE SftpAssumption DEF SftpInv, TypeOK, CallInv, PrivateInv, Labels, connection, adapter, ongoing, bounds, Goto
<1>1. CASE \E c \in Calls : Invoke(c)
  BY <1>1 DEF Invoke
<1>2. CASE OpenConnection
  BY <1>2 DEF OpenConnection, Finish
<1>3. CASE ProbeMkdir
  BY <1>3 DEF ProbeMkdir, Refused, Fails, Arrives, ProbeRaises, Probing
<1>4. CASE ProbeExclusive
  BY <1>4 DEF ProbeExclusive, Refused, Fails, Arrives, ProbeRaises, Found, Probing
<1>5. CASE ProbePublish
  BY <1>5 DEF ProbePublish, Refused, Fails, Arrives, ProbeRaises, Probing
<1>6. CASE ProbeRefusal
  BY <1>6 DEF ProbeRefusal, RefusalUnread, Refused, Fails, Arrives, ProbeRaises, Found, Probing
<1>7. CASE ProbeReplace
  BY <1>7 DEF ProbeReplace, Refused, Fails, Arrives, ProbeRaises, Found, Probing
<1>8. CASE ProbeReadback
  BY <1>8 DEF ProbeReadback, Refused, Fails, Arrives, ProbeRaises, Found, Probing
<1>9. CASE ProbeCleanup
  BY <1>9 DEF ProbeCleanup, Refused, Fails, Arrives, CleanupProbe, Finish
<1>10. CASE Gate
  BY <1>10 DEF Gate, Finish
<1>11. CASE Check
  BY <1>11 DEF Check, Refused, Fails, Arrives, Lost, Finish
<1>12. CASE Request
  BY <1>12 DEF Request, Refused, Fails, Arrives, Unanswered, Finish, Carries, Put, Move, Accepts, Mutating, IsFile
<1>13. CASE WriteBytes
  BY <1>13 DEF WriteBytes, Refused, Fails, Arrives, Unanswered, Finish, Put
<1>14. CASE Response
  BY <1>14 DEF Response, Unanswered, Finish
<1>15. CASE Recheck
  BY <1>15 DEF Recheck, Refused, Fails, Arrives, Lost, Mapped, Finish
<1>16. CASE Close
  BY <1>16 DEF Close
<1>17. CASE Disconnect
  BY <1>17 DEF Disconnect
<1>18. CASE \E path \in Paths : OtherClient(path)
  <2>1. PICK path \in Paths : OtherClient(path)
    BY <1>18
  <2>2. PICK object \in After(path) : Put(path, object)
    BY <2>1 DEF OtherClient
  <2>3. path \in Private => object = Nil
    BY <2>2 DEF After
  <2> QED
    BY <2>2, <2>3 DEF Put
<1>19. CASE UNCHANGED vars
  BY <1>19 DEF vars
<1> QED
  BY <1>1, <1>2, <1>3, <1>4, <1>5, <1>6, <1>7, <1>8, <1>9, <1>10, <1>11, <1>12, <1>13, <1>14, <1>15, <1>16, <1>17, <1>18, <1>19 DEF Next, ProbeStep, CallStep

\* What the probe has found, the answer to come and the files of this client
\* agree with the connection and the server in every reachable state.
THEOREM Invariant == Spec => []SftpInv
<1>1. Init => SftpInv
  <2> SUFFICES ASSUME Init PROVE SftpInv
    OBVIOUS
  <2>1. TypeOK
    <3>1. others \in 0..MaxOthers /\ drops \in 0..MaxDrops /\ refusals \in 0..MaxRefusals
      BY SftpAssumption DEF Init
    <3>2. caps \in [Capabilities -> BOOLEAN] /\ got \in [Capabilities -> BOOLEAN]
      BY DEF Init, Unverified
    <3> QED
      BY <3>1, <3>2 DEF Init, TypeOK, Labels, Answers
  <2>2. ProbeInv
    BY DEF Init, ProbeInv, Sound, Real, Unverified, Capabilities
  <2>3. CallInv
    BY DEF Init, CallInv, Labels
  <2>4. PrivateInv
    BY SftpAssumption DEF Init, PrivateInv
  <2> QED
    BY <2>1, <2>2, <2>3, <2>4 DEF SftpInv
<1>2. SftpInv /\ [Next]_vars => SftpInv'
  BY TypeKept, ProbeKept, CallKept, PrivateKept DEF SftpInv
<1> QED
  BY <1>1, <1>2, PTL DEF Spec

\* Every variable has its type, and a call is open exactly while the adapter is
\* at work on it.
THEOREM TypeCorrect == Spec => []TypeOK
<1>1. SftpInv => TypeOK
  BY DEF SftpInv
<1> QED
  BY Invariant, <1>1, PTL

\* A capability that connect has verified is one the server has, on any server
\* and wherever the connection is lost: each of the four where no request was
\* refused, atomic_replace and complete_readback always.
THEOREM CapabilitiesSound == Spec => []CapabilitiesTrue
<1>1. SftpInv => CapabilitiesTrue
  BY DEF SftpInv, ProbeInv, CapabilitiesTrue
<1> QED
  BY Invariant, <1>1, PTL

-----------------------------------------------------------------------------
ProbeSteps == {"probeMkdir", "probeExclusive", "probePublish", "probeRefusal", "probeReplace",
               "probeReadback", "probeCleanup"}

\* A probe runs only over a connection that was opened, and a connection that
\* is set but gone was lost at some time: so what the probe could not remove was
\* left for want of a connection, or the server refused it.
LeftInv ==
  /\ sftp /\ ~alive => drops < MaxDrops
  /\ pc \in ProbeSteps => sftp
  /\ ProbeRemoved

\* Every step keeps what is known of a probe's objects.
LEMMA LeftKept == ASSUME SftpInv, LeftInv, [Next]_vars PROVE LeftInv'
<1> USE SftpAssumption DEF LeftInv, ProbeRemoved, ProbeSteps, connection, adapter, ongoing, bounds, Goto
<1>0. /\ sftp \in BOOLEAN /\ alive \in BOOLEAN /\ probe \in BOOLEAN /\ pc \in Labels
      /\ drops \in 0..MaxDrops /\ (refusals < MaxRefusals => refusals' < MaxRefusals)
  BY RefusalsKept DEF SftpInv, TypeOK
<1>1. CASE \E c \in Calls : Invoke(c)
  BY <1>0, <1>1 DEF Invoke
<1>2. CASE OpenConnection
  BY <1>0, <1>2 DEF OpenConnection, Finish
<1>3. CASE ProbeMkdir \/ ProbeExclusive \/ ProbePublish \/ ProbeRefusal \/ ProbeReplace \/ ProbeReadback
  <2>1. /\ sftp /\ UNCHANGED <<sftp, alive, drops>>
        /\ pc' \in ProbeSteps \ {"probeMkdir"}
    BY <1>3 DEF ProbeMkdir, ProbeExclusive, ProbePublish, ProbeRefusal, ProbeReplace,
       ProbeReadback, RefusalUnread, ProbeRaises, Found, Probing
  <2> QED
    BY <1>0, <2>1
<1>4. CASE ProbeCleanup
  <2>1. /\ sftp /\ UNCHANGED <<sftp, alive, drops>> /\ pc' \in {"idle", "gate"}
    BY <1>4 DEF ProbeCleanup, Finish
  <2>2. probe' => ~alive \/ Refused
    BY <1>4 DEF ProbeCleanup, CleanupProbe, Fails
  <2>3. Refused => refusals' < MaxRefusals
    BY RefusalsCounted DEF SftpInv
  <2> QED
    BY <2>1, <2>2, <2>3
<1>5. CASE Gate \/ Check \/ Request \/ WriteBytes \/ Response \/ Recheck
  <2>1. /\ pc \notin ProbeSteps /\ pc' \notin ProbeSteps
        /\ UNCHANGED <<sftp, alive, probe, drops>>
    BY <1>5 DEF Gate, Check, Request, WriteBytes, Response, Recheck, Unanswered, Lost, Finish
  <2> QED
    BY <1>0, <2>1
<1>6. CASE Close
  BY <1>0, <1>6 DEF Close
<1>7. CASE Disconnect
  BY <1>0, <1>7 DEF Disconnect
<1>8. CASE \E path \in Paths : OtherClient(path)
  BY <1>8 DEF OtherClient
<1>9. CASE UNCHANGED vars
  BY <1>9 DEF vars
<1> QED
  BY <1>1, <1>2, <1>3, <1>4, <1>5, <1>6, <1>7, <1>8, <1>9 DEF Next, ProbeStep, CallStep

\* What a capability probe has put on the server is there after the probe only
\* where a connection was lost or a request refused, whatever the server can do
\* and whichever of the probe's requests failed.
THEOREM ProbesRemoved == Spec => []ProbeRemoved
<1>1. Init => LeftInv
  BY DEF Init, LeftInv, ProbeRemoved, ProbeSteps
<1>2. SftpInv /\ LeftInv /\ [Next]_vars => LeftInv'
  BY LeftKept
<1>3. LeftInv => ProbeRemoved
  BY DEF LeftInv
<1> QED
  BY Invariant, <1>1, <1>2, <1>3, PTL DEF Spec

-----------------------------------------------------------------------------
\* The end of a call is an answer of the port where it fits what the call did.
LEMMA FinishAnswers ==
  ASSUME TypeOK, pc # "idle", NEW a, AnswerFits(a), Finish(a), UNCHANGED <<server, did, others>>
  PROVE  PortAnswer
BY DEF TypeOK, Finish, PortAnswer

\* With real capabilities every step of the adapter is a step of the port, or none.
LEMMA PortStep == ASSUME SftpInv, [Next]_vars, Real(caps) PROVE [PortNext]_portVars
<1> USE SftpAssumption DEF SftpInv, portVars, ongoing, bounds
<1>1. CASE \E c \in Calls : Invoke(c)
  <2>1. PICK c \in Calls : Invoke(c)
    BY <1>1
  <2>2. PortInvoke
    BY <2>1 DEF Invoke, PortInvoke, TypeOK
  <2> QED
    BY <2>2 DEF PortNext
<1>2. CASE OpenConnection
  <2>1. CASE Finish("transport")
    <3>1. PortAnswer
      BY <1>2, <2>1, FinishAnswers DEF OpenConnection, AnswerFits, Uncertain
    <3> QED
      BY <3>1 DEF PortNext
  <2>2. CASE UNCHANGED <<ongoing, server, did, others>>
    BY <2>2
  <2> QED
    BY <1>2, <2>1, <2>2 DEF OpenConnection
<1>3. CASE ProbeMkdir \/ ProbeExclusive \/ ProbePublish \/ ProbeRefusal \/ ProbeReplace \/ ProbeReadback
  <2>1. UNCHANGED <<server, call, answer, did, others>>
    BY <1>3 DEF ProbeMkdir, ProbeExclusive, ProbePublish, ProbeRefusal, ProbeReplace,
       ProbeReadback, Probing
  <2> QED
    BY <2>1
<1>4. CASE ProbeCleanup
  <2>1. /\ pc # "idle" /\ did = "no" /\ err \in {Nil, "transport", "capability"}
        /\ UNCHANGED <<server, did, others>>
    BY <1>4 DEF ProbeCleanup, CallInv, Labels
  <2>2. CASE \E a \in {"transport", "capability"} : Finish(a)
    <3>1. PICK a \in {"transport", "capability"} : Finish(a)
      BY <2>2
    <3>2. PortAnswer
      BY <2>1, <3>1, FinishAnswers DEF AnswerFits, Uncertain
    <3> QED
      BY <3>2 DEF PortNext
  <2>3. CASE UNCHANGED ongoing
    BY <2>1, <2>3
  <2> QED
    BY <1>4, <2>1, <2>2, <2>3 DEF ProbeCleanup
<1>5. CASE Gate
  <2>1. /\ pc # "idle" /\ did = "no" /\ UNCHANGED <<server, did, others>>
    BY <1>5 DEF Gate, CallInv, Labels
  <2>2. CASE Finish("capability")
    <3>1. PortAnswer
      BY <2>1, <2>2, FinishAnswers DEF AnswerFits
    <3> QED
      BY <3>1 DEF PortNext
  <2>3. CASE call.op = "capabilities" /\ Finish("ok")
    <3>1. PortAnswer
      BY <2>1, <2>3, FinishAnswers DEF AnswerFits, Mutating
    <3> QED
      BY <3>1 DEF PortNext
  <2>4. CASE UNCHANGED ongoing
    BY <2>1, <2>4
  <2> QED
    BY <1>5, <2>2, <2>3, <2>4 DEF Gate
<1>6. CASE Check
  <2>1. /\ pc # "idle" /\ did = "no" /\ UNCHANGED <<server, did, others>>
    BY <1>6 DEF Check, CallInv, Labels
  <2>2. CASE Lost \/ Finish("transport")
    <3>1. PICK a \in Uncertain : Finish(a)
      BY <2>2 DEF Lost, Uncertain
    <3>2. PortAnswer
      BY <2>1, <3>1, FinishAnswers DEF AnswerFits
    <3> QED
      BY <3>2 DEF PortNext
  <2>3. CASE Precheck(call) # "go" /\ Finish(Precheck(call))
    <3>1. Precheck(call) \in {"wrong_kind", "not_found", "not_empty", "exists"}
      BY <2>3, PrecheckAnswers
    <3>2. PortAnswer
      BY <2>1, <2>3, <3>1, FinishAnswers DEF AnswerFits
    <3> QED
      BY <3>2 DEF PortNext
  <2>4. CASE UNCHANGED ongoing
    BY <2>1, <2>4
  <2> QED
    BY <1>6, <2>2, <2>3, <2>4 DEF Check
<1>7. CASE Request
  <2>1. /\ pc = "request" /\ did = "no" /\ call # Nil /\ call \in Calls
        /\ \A c \in Needs(call.op) : caps[c]
    BY <1>7 DEF Request, CallInv, TypeOK, Labels
  <2>2. CASE Unanswered /\ UNCHANGED <<server, did>>
    <3>1. CASE Finish("raised")
      <4>1. PortAnswer
        BY <1>7, <2>1, <2>2, <3>1, FinishAnswers DEF Request, AnswerFits, Uncertain
      <4> QED
        BY <4>1 DEF PortNext
    <3>2. CASE UNCHANGED <<call, answer>>
      BY <1>7, <2>2, <3>2 DEF Request
    <3> QED
      BY <2>2, <3>1, <3>2 DEF Unanswered
  <2>3. CASE UNCHANGED <<server, did, call, answer>>
    BY <1>7, <2>3 DEF Request
  <2>4. CASE Accepts(call) /\ call.op \in Mutating \ {"write_file"} /\ Carries(call)
             /\ did' = "yes" /\ UNCHANGED ongoing
    <3>1. call.op = "mkdir" => server[call.dst] = Nil
      BY <2>1, <2>4 DEF Accepts, Needs, Real
    <3>2. call.op = "publish_no_replace" => server[call.dst] = Nil
      BY <2>1, <2>4 DEF Accepts, Needs, Real
    <3>3. Effect(call)
      BY <2>4, <3>1, <3>2 DEF Effect, Accepts, Carries, Mutating, Put
    <3>4. PortEffect
      BY <1>7, <2>1, <2>4, <3>3 DEF PortEffect, Request
    <3> QED
      BY <3>4 DEF PortNext
  <2>5. CASE call.op = "write_file" /\ Put(call.dst, Part) /\ did' = "part" /\ UNCHANGED ongoing
    <3>1. PortWrite
      BY <1>7, <2>1, <2>5 DEF PortWrite, Request, PrivateInv
    <3> QED
      BY <3>1 DEF PortNext
  <2> QED
    BY <1>7, <2>2, <2>3, <2>4, <2>5 DEF Request
<1>8. CASE WriteBytes
  <2>1. /\ pc = "writing" /\ did = "part" /\ call # Nil /\ call \in Calls
        /\ call.op = "write_file" /\ UNCHANGED others
    BY <1>8 DEF WriteBytes, CallInv, TypeOK, Labels
  <2>2. CASE Unanswered /\ UNCHANGED <<server, did>>
    <3>1. CASE Finish("raised")
      <4>1. PortAnswer
        BY <2>1, <2>2, <3>1, FinishAnswers DEF AnswerFits, Uncertain
      <4> QED
        BY <4>1 DEF PortNext
    <3>2. CASE UNCHANGED <<call, answer>>
      BY <2>1, <2>2, <3>2
    <3> QED
      BY <2>2, <3>1, <3>2 DEF Unanswered
  <2>3. CASE /\ did' = "yes" /\ UNCHANGED ongoing
             /\ IF server[call.dst] = Part THEN Put(call.dst, Mine) ELSE UNCHANGED server
    <3>1. PortWrite
      BY <2>1, <2>3 DEF PortWrite, PrivateInv
    <3> QED
      BY <3>1 DEF PortNext
  <2> QED
    BY <1>8, <2>2, <2>3 DEF WriteBytes
<1>9. CASE Response
  <2>1. pc = "response" /\ UNCHANGED <<server, did, others>>
    BY <1>9 DEF Response
  <2>2. CASE err = Nil /\ Finish("ok")
    <3>1. PortAnswer
      BY <2>1, <2>2, FinishAnswers DEF AnswerFits, CallInv
    <3> QED
      BY <3>1 DEF PortNext
  <2>3. CASE Finish("raised")
    <3>1. PortAnswer
      BY <2>1, <2>3, FinishAnswers DEF AnswerFits, Uncertain
    <3> QED
      BY <3>1 DEF PortNext
  <2>4. CASE UNCHANGED <<call, answer>>
    BY <2>1, <2>4
  <2> QED
    BY <1>9, <2>2, <2>3, <2>4 DEF Response, Unanswered
<1>10. CASE Recheck
  <2>1. pc = "recheck" /\ UNCHANGED <<server, did, others>>
    BY <1>10 DEF Recheck
  <2>2. PICK a : Finish(a) /\ (a \in Uncertain \/ (did = "no" /\ a # "ok"))
    BY <1>10, <2>1 DEF Recheck, Lost, Mapped, CallInv, CutShort, Uncertain
  <2>3. PortAnswer
    BY <2>1, <2>2, FinishAnswers DEF AnswerFits
  <2> QED
    BY <2>3 DEF PortNext
<1>11. CASE Close \/ Disconnect \/ UNCHANGED vars
  <2>1. UNCHANGED <<server, call, answer, did, others>>
    BY <1>11 DEF Close, Disconnect, vars
  <2> QED
    BY <2>1
<1>12. CASE \E path \in Paths : OtherClient(path)
  <2>1. PortOthers
    BY <1>12 DEF OtherClient, PortOthers, TypeOK
  <2> QED
    BY <2>1 DEF PortNext
<1> QED
  BY <1>1, <1>2, <1>3, <1>4, <1>5, <1>6, <1>7, <1>8, <1>9, <1>10, <1>11, <1>12
     DEF Next, ProbeStep, CallStep

\* The adapter implements the storage port for as long as the capabilities it has
\* verified are real: a call takes effect once or not at all, never over another
\* client's object, and no definite answer is wrong, on any server, for any calls,
\* any loss of connections and any refused requests.
THEOREM Refinement == Spec => PortKept
<1>1. Init => PortInit
  BY DEF Init, PortInit
<1>2. SftpInv /\ [Next]_vars => [Real(caps) => PortNext]_portVars
  BY PortStep
<1> QED
  BY Invariant, <1>1, <1>2, PTL DEF Spec, PortKept

\* Where every server has what the adapter needs, or none refuses a request for
\* a reason of its own, the adapter implements the storage port outright.
THEOREM FullRefinement ==
  ASSUME \/ \A s \in Servers : s.exclusive /\ s.rename = "refuses" /\ s.posix /\ s.readback
         \/ MaxRefusals = 0
  PROVE  Spec => PortSpec
<1>1. SftpInv => Real(caps)
  <2> SUFFICES ASSUME SftpInv PROVE Real(caps)
    OBVIOUS
  <2>1. srv \in Servers /\ refusals \in 0..MaxRefusals /\ Sound(caps)
    BY DEF SftpInv, TypeOK, ProbeInv
  <2>2. CASE MaxRefusals = 0
    BY <2>1, <2>2 DEF Sound
  <2>3. CASE \A s \in Servers : s.exclusive /\ s.rename = "refuses" /\ s.posix /\ s.readback
    BY <2>1, <2>3 DEF Real
  <2> QED
    BY <2>2, <2>3
<1>2. Init => PortInit
  BY DEF Init, PortInit
<1>3. SftpInv /\ [Next]_vars => [PortNext]_portVars
  BY <1>1, PortStep
<1> QED
  BY Invariant, <1>2, <1>3, PTL DEF Spec, PortSpec
=============================================================================
