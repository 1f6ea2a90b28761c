---------------------------- MODULE SftpStorage ----------------------------
(***************************************************************************)
(* The SFTP adapter (storage/paramiko_sftp.py): how one call of the        *)
(* storage port becomes checks, a request and a second look over a         *)
(* connection that may be lost at any moment, on a server that may refuse  *)
(* any request and whose semantics the adapter probes once per connection, *)
(* while other clients work on the same objects.                           *)
(***************************************************************************)
EXTENDS Naturals

CONSTANTS
  Paths,         \* paths below the remote root
  Private,       \* those with a unique name of this client (temporary files)
  Calls,         \* the calls of the protocol: [op, src, dst, overwrite]
  Servers,       \* the servers there are: see Semantics
  Nil,           \* no object, no call, no answer
  Dir, Full,     \* an empty directory, and one with children
  Part, Mine,    \* a file of this client, in part and complete
  Foreign,       \* a file of another client
  MaxOthers,     \* bound: steps of other clients
  MaxDrops,      \* bound: lost and refused connections
  MaxRefusals    \* bound: requests refused for want of permission, space and the like

Operations == {"capabilities", "mkdir", "write_file", "read_file", "list_dir",
               "remove_file", "remove_dir", "publish_no_replace", "atomic_replace"}

\* What the adapter asks of a server (a rename onto a file may also replace it
\* and report a failure), and whether the match's directory exists.
Semantics == [exclusive : BOOLEAN, rename : {"refuses", "replaces", "clobbers"},
              posix : BOOLEAN, readback : BOOLEAN, rooted : BOOLEAN]

ASSUME SftpAssumption ==
  /\ Private \subseteq Paths /\ Servers \subseteq Semantics
  /\ Calls \subseteq [op : Operations, src : Paths, dst : Paths, overwrite : BOOLEAN]
  /\ \A c \in Calls : c.op = "write_file" => c.dst \in Private
  /\ \A c \in Calls : c.op \in {"mkdir", "publish_no_replace", "atomic_replace"}
                        => c.dst \notin Private
  /\ Nil \notin Calls /\ Nil \notin {"failure", "not_found", "transport", "capability"}
  /\ MaxOthers \in Nat /\ MaxDrops \in Nat /\ MaxRefusals \in Nat

VARIABLES
  srv,           \* the semantics of this server
  server,        \* the objects on it
  probe,         \* objects of a capability probe are on it
  sftp, alive,   \* _sftp is set, and its connection still works
  caps, got,     \* _capabilities, and what the running probe has found
  pc, call, answer,  \* the step of the call in progress, and the last answer
  err,           \* the error that is being dealt with
  did,           \* how much of the call has taken effect on the server
  others, drops, refusals  \* what is left of the bounds

connection == <<sftp, alive>>
adapter    == <<caps, got, probe>>
ongoing    == <<call, answer, err>>
bounds     == <<others, drops, refusals>>
vars == <<srv, server, connection, adapter, pc, ongoing, did, bounds>>

INSTANCE StoragePort

Capabilities == {"exclusive", "publish", "replace", "readback"}

Unverified == [c \in Capabilities |-> FALSE]

Init ==
  /\ srv \in Servers /\ server = [path \in Paths |-> Nil] /\ probe = FALSE
  /\ sftp = FALSE /\ alive = FALSE /\ caps = Unverified /\ got = Unverified
  /\ pc = "idle" /\ call = Nil /\ answer = Nil /\ err = Nil /\ did = "no"
  /\ others = MaxOthers /\ drops = MaxDrops /\ refusals = MaxRefusals

Goto(label) == pc' = label

Finish(a) == answer' = a /\ call' = Nil /\ err' = Nil /\ Goto("idle")

\* A connection that is gone shows as an OSError, which the adapter maps, or
\* as an SSHException or EOFError, which it does not.
Lost == \E a \in Uncertain : Finish(a)

\* The server refuses a request that arrived, for a reason that has nothing to do
\* with the objects.
Refused == alive /\ refusals > 0 /\ refusals' = refusals - 1

\* A request brings an error, or reaches the server, which decides on it.
Fails == Refused \/ (~alive /\ UNCHANGED refusals)

Arrives == alive /\ UNCHANGED refusals

-----------------------------------------------------------------------------
(* connect and _verify_capabilities *)

\* connect returns at once while _sftp is set, whatever became of it.
Invoke(c) ==
  /\ pc = "idle" /\ call' = c /\ did' = "no" /\ answer' = Nil
  /\ Goto(IF sftp THEN "gate" ELSE "open")
  /\ UNCHANGED <<srv, server, connection, adapter, err, bounds>>

OpenConnection ==
  /\ pc = "open"
  /\ \/ /\ sftp' = TRUE /\ alive' = TRUE /\ got' = Unverified /\ Goto("probeMkdir")
        /\ UNCHANGED <<caps, probe, ongoing, drops>>
     \/ /\ drops > 0 /\ drops' = drops - 1 /\ Finish("transport")
        /\ UNCHANGED <<connection, adapter>>
  /\ UNCHANGED <<srv, server, did, others, refusals>>

\* The probe is over with an error; what it has put on the server is removed.
ProbeRaises(error) == err' = error /\ Goto("probeCleanup") /\ UNCHANGED <<got, probe>>

Found(capability, holds, label) ==
  /\ got' = [got EXCEPT ![capability] = holds] /\ Goto(label)
  /\ UNCHANGED <<err, probe>>

Probing == UNCHANGED <<srv, server, connection, caps, call, answer, did, others, drops>>

ProbeMkdir ==
  /\ pc = "probeMkdir" /\ Probing
  /\ \/ Arrives /\ probe' = TRUE /\ Goto("probeExclusive") /\ UNCHANGED <<err, got>>
     \/ Fails /\ ProbeRaises("capability")

\* Any OSError of the second mkdir counts as its refusal.
ProbeExclusive ==
  /\ pc = "probeExclusive" /\ Probing
  /\ \/ Arrives /\ Found("exclusive", srv.exclusive, "probePublish")
     \/ Fails /\ Found("exclusive", TRUE, "probePublish")
     \/ ~alive /\ UNCHANGED refusals /\ ProbeRaises("capability")

ProbePublish ==
  /\ pc = "probePublish" /\ Probing
  /\ \/ Arrives /\ Goto("probeRefusal") /\ UNCHANGED <<err, got, probe>>
     \/ Fails /\ ProbeRaises("capability")

\* The look at the destination after an error may itself end in one.
RefusalUnread ==
  /\ Fails /\ (alive => srv.rename # "replaces")
  /\ \E error \in {"transport", "capability"} : ProbeRaises(error)

\* Seeded fault: a rename that reports a failure counts as refused.
ProbeRefusal_NotReread ==
  /\ pc = "probeRefusal" /\ Probing
  /\ \/ Arrives /\ Found("publish", srv.rename # "replaces", "probeReplace")
     \/ RefusalUnread

\* A refused rename must have left the destination alone. So does one that was
\* never asked for: the write of its source is taken for the rename.
ProbeRefusal ==
  /\ pc = "probeRefusal" /\ Probing
  /\ \/ Arrives /\ Found("publish", srv.rename = "refuses" /\ srv.readback, "probeReplace")
     \/ Refused /\ Found("publish", srv.readback, "probeReplace")
     \/ RefusalUnread

\* Where the server does not know posix-rename the probe ends with its error.
ProbeReplace ==
  /\ pc = "probeReplace" /\ Probing
  /\ \/ Arrives /\ srv.posix /\ Found("replace", srv.readback, "probeReadback")
     \/ Arrives /\ ~srv.posix /\ ProbeRaises("capability")
     \/ Fails /\ ProbeRaises("capability")

\* The file that the first two renames had as their destination is read again:
\* it holds what it held then if the second rename did not happen.
ProbeReadback ==
  /\ pc = "probeReadback" /\ Probing
  /\ \/ Arrives /\ Found("readback", got["publish"] /\ srv.readback, "probeCleanup")
     \/ Fails /\ ProbeRaises("capability")

\* Seeded fault: what the probe has put on the server is left there.
CleanupProbe_Leaves == UNCHANGED <<probe, refusals>>

\* A removal that fails is passed over.
CleanupProbe ==
  \/ Arrives /\ probe' = FALSE
  \/ Fails /\ UNCHANGED probe

\* The probe is cleaned up on every path before the verdict.
ProbeCleanup ==
  /\ pc = "probeCleanup" /\ CleanupProbe
  /\ IF err # Nil THEN Finish(err) /\ UNCHANGED caps
     ELSE /\ caps' = got
          /\ IF \A c \in Capabilities : got[c] THEN Goto("gate") /\ UNCHANGED ongoing
             ELSE Finish("capability")
  /\ UNCHANGED <<srv, server, connection, got, did, others, drops>>

-----------------------------------------------------------------------------
(* The operations *)

Needs(op) ==
  CASE op = "mkdir" -> {"exclusive"}
    [] op = "publish_no_replace" -> {"publish"}
    [] op = "atomic_replace" -> {"replace"}
    [] op = "read_file" -> {"readback"}
    [] OTHER -> {}

\* _require_capability
Gate ==
  /\ pc = "gate"
  /\ IF \E c \in Needs(call.op) : ~caps[c] THEN Finish("capability")
     ELSE IF call.op = "capabilities" THEN Finish("ok")
     ELSE Goto("check") /\ UNCHANGED ongoing
  /\ UNCHANGED <<srv, server, connection, adapter, did, bounds>>

\* What _stat_kind tells of the objects before the request, as the answer it
\* leads to, or "go".
Precheck(c) ==
  LET s == server[c.src]
      d == server[c.dst]
      moves   == c.op \in {"publish_no_replace", "atomic_replace"}
      creates == moves \/ c.op \in {"mkdir", "write_file"}
      onFile  == c.op \in {"read_file", "remove_file"}
      onDir   == c.op \in {"list_dir", "remove_dir"}
  IN IF moves /\ s \in {Dir, Full} THEN "wrong_kind"
     ELSE IF moves /\ s = Nil THEN "not_found"
     ELSE IF (moves \/ onFile \/ c.op = "write_file") /\ d \in {Dir, Full} THEN "wrong_kind"
     ELSE IF onDir /\ IsFile(d) THEN "wrong_kind"
     ELSE IF (onFile \/ onDir) /\ d = Nil THEN "not_found"
     ELSE IF c.op = "remove_dir" /\ d = Full THEN "not_empty"
     ELSE IF c.op = "publish_no_replace" /\ IsFile(d) THEN "exists"
     ELSE IF c.op = "write_file" /\ ~c.overwrite /\ IsFile(d) THEN "exists"
     ELSE IF creates /\ ~srv.rooted THEN "not_found"
     ELSE "go"

Check ==
  /\ pc = "check"
  /\ \/ ~alive /\ UNCHANGED refusals /\ Lost
     \/ Refused /\ Finish("transport")
     \/ /\ Arrives
        /\ IF Precheck(call) # "go" THEN Finish(Precheck(call))
           ELSE Goto("request") /\ UNCHANGED ongoing
  /\ UNCHANGED <<srv, server, connection, adapter, did, others, drops>>

\* What the server makes of a request it accepts.
Carries(c) ==
  CASE c.op = "mkdir" -> Put(c.dst, IF server[c.dst] = Nil THEN Dir ELSE server[c.dst])
    [] c.op \in {"remove_file", "remove_dir"} -> Put(c.dst, Nil)
    [] OTHER -> Move(c.src, c.dst)

\* Its semantics decide on what is there.
Accepts(c) ==
  LET s == server[c.src]
      d == server[c.dst]
  IN CASE c.op = "mkdir" -> d = Nil \/ (~srv.exclusive /\ d = Dir)
       [] c.op = "write_file" -> d \notin {Dir, Full}
       [] c.op = "publish_no_replace" -> IsFile(s) /\ (d = Nil \/ (srv.rename # "refuses" /\ IsFile(d)))
       [] c.op = "atomic_replace" -> srv.posix /\ IsFile(s) /\ d \notin {Dir, Full}
       [] c.op \in {"remove_file", "read_file"} -> IsFile(d)
       [] c.op = "remove_dir" -> d = Dir
       [] c.op = "list_dir" -> d \in {Dir, Full}

\* The server's code for a missing object; everything else is a plain failure.
Refusal(c) ==
  IF server[c.dst] = Nil \/ (c.op \in {"publish_no_replace", "atomic_replace"}
                             /\ server[c.src] = Nil)
  THEN "not_found" ELSE "failure"

\* A request over a lost connection ends in an OSError, which is looked into,
\* or in an error that escapes.
Unanswered ==
  \/ err' = "failure" /\ Goto("recheck") /\ UNCHANGED <<call, answer>>
  \/ Finish("raised")

Request ==
  /\ pc = "request"
  /\ \/ ~alive /\ UNCHANGED refusals /\ Unanswered /\ UNCHANGED <<server, did>>
     \/ /\ Refused /\ err' = "failure" /\ Goto("response")
        /\ UNCHANGED <<server, did, call, answer>>
     \/ /\ Arrives /\ ~Accepts(call) /\ err' = Refusal(call) /\ Goto("response")
        /\ UNCHANGED <<server, did, call, answer>>
     \/ /\ Arrives /\ Accepts(call) /\ call.op \in Mutating \ {"write_file"}
        /\ Carries(call) /\ did' = "yes" /\ Goto("response") /\ UNCHANGED ongoing
     \/ /\ Arrives /\ Accepts(call) /\ call.op = "write_file"
        /\ Put(call.dst, Part) /\ did' = "part" /\ Goto("writing") /\ UNCHANGED ongoing
     \/ /\ Arrives /\ Accepts(call) /\ call.op \notin Mutating
        /\ Goto("response") /\ UNCHANGED <<server, did, ongoing>>
  /\ UNCHANGED <<srv, connection, adapter, others, drops>>

\* The bytes of a file that was opened for writing, until another client
\* removes it, the server takes no more, or the connection is lost.
WriteBytes ==
  /\ pc = "writing"
  /\ \/ ~alive /\ UNCHANGED refusals /\ Unanswered /\ UNCHANGED <<server, did>>
     \/ /\ Refused /\ err' = "failure" /\ Goto("response")
        /\ UNCHANGED <<server, did, call, answer>>
     \/ /\ Arrives /\ did' = "yes" /\ Goto("response") /\ UNCHANGED ongoing
        /\ IF server[call.dst] = Part THEN Put(call.dst, Mine) ELSE UNCHANGED server
  /\ UNCHANGED <<srv, connection, adapter, others, drops>>

\* The answer of the server arrives, or the connection is lost before.
Response ==
  /\ pc = "response"
  /\ \/ alive /\ err = Nil /\ Finish("ok")
     \/ alive /\ err # Nil /\ Goto("recheck") /\ UNCHANGED ongoing
     \/ ~alive /\ Unanswered
  /\ UNCHANGED <<srv, server, connection, adapter, did, bounds>>

\* _raise_mapped
Mapped == IF err = "not_found" THEN "not_found" ELSE "transport"

\* Seeded fault: a lost connection is opened again for the second look, which
\* takes what this call has made for another client's.
Recheck_Reconnects ==
  /\ pc = "recheck"
  /\ LET s == server[call.src]
         d == server[call.dst]
     IN IF call.op = "mkdir" /\ d \in {Dir, Full} THEN Finish("exists")
        ELSE IF call.op = "mkdir" /\ IsFile(d) THEN Finish("wrong_kind")
        ELSE IF call.op = "publish_no_replace" /\ IsFile(d) /\ s = Nil THEN Finish("exists")
        ELSE Finish(Mapped)
  /\ UNCHANGED <<srv, server, connection, adapter, did, bounds>>

\* After an error mkdir and publish_no_replace look again, over the same
\* connection; the others map the error (_raise_mapped).
Recheck ==
  /\ pc = "recheck"
  /\ LET s     == server[call.src]
         d     == server[call.dst]
         looks == call.op \in {"mkdir", "publish_no_replace"}
     IN \/ looks /\ Refused /\ Finish("transport")
        \/ /\ UNCHANGED refusals
           /\ IF call.op = "atomic_replace" THEN Finish("transport")
              ELSE IF ~looks THEN Finish(Mapped)
              ELSE IF ~alive THEN Lost
              ELSE IF call.op = "mkdir" /\ d \in {Dir, Full} THEN Finish("exists")
              ELSE IF call.op = "mkdir" /\ IsFile(d) THEN Finish("wrong_kind")
              ELSE IF call.op = "publish_no_replace" /\ IsFile(d) /\ s = Nil THEN Finish("exists")
              ELSE Finish(Mapped)
  /\ UNCHANGED <<srv, server, connection, adapter, did, others, drops>>

\* close, by RelayClient.close; a later call opens a new connection.
Close ==
  /\ pc = "idle" /\ sftp /\ sftp' = FALSE /\ alive' = FALSE /\ caps' = Unverified
  /\ UNCHANGED <<srv, server, got, probe, pc, ongoing, did, bounds>>

-----------------------------------------------------------------------------
(* The surroundings *)

Disconnect ==
  /\ alive /\ drops > 0 /\ drops' = drops - 1 /\ alive' = FALSE
  /\ UNCHANGED <<srv, server, sftp, adapter, pc, ongoing, did, others, refusals>>

\* Other clients make and remove objects, and sweep temporary files.
After(path) ==
  IF path \in Private THEN {Nil}
  ELSE CASE server[path] = Nil -> {Dir, Foreign}
         [] server[path] = Dir -> {Full, Nil}
         [] server[path] = Full -> {Dir}
         [] OTHER -> {Nil}

OtherClient(path) ==
  /\ srv.rooted /\ others > 0 /\ others' = others - 1
  /\ \E object \in After(path) \ {server[path]} : Put(path, object)
  /\ UNCHANGED <<srv, connection, adapter, pc, ongoing, did, drops, refusals>>

ProbeStep ==
  \/ ProbeMkdir \/ ProbeExclusive \/ ProbePublish \/ ProbeRefusal
  \/ ProbeReplace \/ ProbeReadback \/ ProbeCleanup

CallStep ==
  OpenConnection \/ Gate \/ Check \/ Request \/ WriteBytes \/ Response \/ Recheck

Next ==
  \/ \E c \in Calls : Invoke(c)
  \/ ProbeStep \/ CallStep \/ Close \/ Disconnect
  \/ \E path \in Paths : OtherClient(path)

Spec == Init /\ [][Next]_vars

-----------------------------------------------------------------------------
(* Properties *)

Labels == {"idle", "open", "probeMkdir", "probeExclusive", "probePublish", "probeRefusal",
           "probeReplace", "probeReadback", "probeCleanup", "gate", "check", "request",
           "writing", "response", "recheck"}

Answers == {"ok", "capability", "transport", "raised", "not_found", "exists", "wrong_kind",
            "not_empty"}

\* Every variable has its type, a call is open exactly while the adapter is at
\* work on it, and only a client that is set has a connection.
TypeOK ==
  /\ srv \in Servers /\ server \in [Paths -> {Nil, Dir, Full, Part, Mine, Foreign}]
  /\ probe \in BOOLEAN /\ sftp \in BOOLEAN /\ alive \in BOOLEAN /\ (alive => sftp)
  /\ caps \in [Capabilities -> BOOLEAN] /\ got \in [Capabilities -> BOOLEAN]
  /\ pc \in Labels /\ call \in Calls \cup {Nil} /\ (call = Nil <=> pc = "idle")
  /\ answer \in Answers \cup {Nil}
  /\ err \in {Nil, "failure", "not_found", "transport", "capability"}
  /\ did \in {"no", "part", "yes"}
  /\ others \in 0..MaxOthers /\ drops \in 0..MaxDrops
  /\ refusals \in 0..MaxRefusals

Real(found) ==
  /\ found["exclusive"] => srv.exclusive
  /\ found["publish"] => srv.rename = "refuses"
  /\ found["replace"] => srv.posix
  /\ found["readback"] => srv.readback

\* The probe proves atomic replacing and reading back, but takes any error for
\* the refusal of the second mkdir and of the second rename.
Sound(found) ==
  /\ found["replace"] => srv.posix
  /\ found["readback"] => srv.readback
  /\ refusals = MaxRefusals => Real(found)

\* A capability that commits rely on is one this server really has, wherever the
\* connection was lost during the probe. Where the server refused a request for
\* another reason this holds of atomic_replace and complete_readback only;
\* SYNC_PROTOCOL.md 7.1 demands it of the mkdir too.
CapabilitiesTrue == Sound(caps)

\* A probe leaves nothing on the server unless its connection was lost or the
\* server refused to remove it.
ProbeRemoved ==
  probe /\ pc \notin {"probeExclusive", "probePublish", "probeRefusal", "probeReplace",
                      "probeReadback", "probeCleanup"}
    => drops < MaxDrops \/ refusals < MaxRefusals

\* The adapter implements the storage port for as long as the capabilities it has
\* verified are real: a call takes effect once or not at all, never over another
\* client's object, and no definite answer is wrong.
PortKept == PortInit /\ [][Real(caps) => PortNext]_portVars

-----------------------------------------------------------------------------
(* The inductive invariant of the proofs *)

\* What the probe has found so far is as true as it can be, or the connection is
\* lost and an error will end the probe.
ProbeInv ==
  /\ pc \in {"probeMkdir", "probeExclusive"} => got = Unverified
  /\ pc = "probePublish" => ~alive \/ Sound(got)
  /\ pc \in {"probeRefusal", "probeReplace", "probeReadback"} => Sound(got)
  /\ pc = "probeCleanup" /\ err = Nil => Sound(got)
  /\ Sound(caps)

\* The server has taken a part of a file only.
CutShort == did = "part" /\ err = "failure" /\ call.op = "write_file"

\* The answer still to be given fits what the call has done: an error is only
\* looked into over the connection that brought it.
CallInv ==
  /\ pc \in Labels \ {"idle", "writing", "response", "recheck"} => did = "no"
  /\ pc \in Labels \ {"probeCleanup", "response", "recheck"} => err = Nil
  /\ pc = "probeCleanup" => err \in {Nil, "transport", "capability"}
  /\ pc = "writing" => did = "part" /\ call.op = "write_file"
  /\ pc = "response" => IF err = Nil THEN call.op \in Mutating => did = "yes"
                        ELSE did = "no" \/ CutShort
  /\ pc = "recheck" /\ (alive \/ err = "not_found") => did = "no" \/ CutShort
  /\ pc \in {"check", "request"} => \A c \in Needs(call.op) : caps[c]

\* No other client writes under a name of this one.
PrivateInv == \A path \in Private : server[path] \in {Nil, Part, Mine}

\* The probe, the call in progress and the files of this client are as the
\* answers to come need them: what TypeOK, CapabilitiesTrue and the storage
\* port rest on.
SftpInv == TypeOK /\ ProbeInv /\ CallInv /\ PrivateInv
=============================================================================
