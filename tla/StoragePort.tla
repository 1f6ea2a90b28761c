---------------------------- MODULE StoragePort ----------------------------
(***************************************************************************)
(* What the protocol relies on when it calls the storage (storage/port.py, *)
(* storage/errors.py): a call takes effect at one moment or not at all,    *)
(* only a call that replaces touches what another client has put in place, *)
(* and every answer but a failed transport says whether it took effect.    *)
(* Only write_file takes effect in two parts: it empties the file first.   *)
(***************************************************************************)
CONSTANTS
  Calls,         \* [op, src, dst, overwrite]
  Nil,           \* no object, no call, no answer
  Dir, Full,     \* a directory, and one with children
  Part, Mine     \* a file of this client, in part and complete

VARIABLES
  server,        \* the objects on the server
  call, answer,  \* the call in progress, and the answer to the last one
  did,           \* how much of the call has taken effect: "no", "part", "yes"
  others         \* steps left to the other clients

portVars == <<server, call, answer, did, others>>

IsFile(object) == object \notin {Nil, Dir, Full}

Put(path, object) == server' = [server EXCEPT ![path] = object]

Move(src, dst) == server' = [server EXCEPT ![dst] = server[src], ![src] = Nil]

\* The effect of each operation, where it may happen at all.
Effect(c) ==
  \/ c.op = "mkdir"      /\ server[c.dst] = Nil /\ Put(c.dst, Dir)
  \/ c.op = "remove_file" /\ IsFile(server[c.dst]) /\ Put(c.dst, Nil)
  \/ c.op = "remove_dir" /\ server[c.dst] = Dir /\ Put(c.dst, Nil)
  \/ c.op = "publish_no_replace" /\ IsFile(server[c.src]) /\ server[c.dst] = Nil
                                 /\ Move(c.src, c.dst)
  \/ c.op = "atomic_replace" /\ IsFile(server[c.src]) /\ server[c.dst] \notin {Dir, Full}
                             /\ Move(c.src, c.dst)

Mutating == {"mkdir", "write_file", "remove_file", "remove_dir", "publish_no_replace",
             "atomic_replace"}

\* Answers that leave open whether the call took effect.
Uncertain == {"transport", "raised"}

AnswerFits(a) ==
  \/ a \in Uncertain
  \/ a = "ok" /\ (call.op \in Mutating => did = "yes")
  \/ a \notin Uncertain \cup {"ok"} /\ did = "no"

PortInit == call = Nil /\ answer = Nil /\ did = "no"

PortInvoke ==
  /\ call = Nil /\ call' \in Calls /\ did' = "no" /\ answer' = Nil
  /\ UNCHANGED <<server, others>>

PortEffect ==
  /\ call # Nil /\ did = "no" /\ did' = "yes" /\ Effect(call)
  /\ UNCHANGED <<call, answer, others>>

PortWrite ==
  /\ call # Nil /\ call.op = "write_file" /\ server[call.dst] \in {Nil, Part, Mine}
  /\ \/ did = "no" /\ did' = "part" /\ Put(call.dst, Part)
     \/ did = "part" /\ did' = "yes"
        /\ IF server[call.dst] = Part THEN Put(call.dst, Mine) ELSE UNCHANGED server
  /\ UNCHANGED <<call, answer, others>>

PortAnswer ==
  /\ call # Nil /\ call' = Nil /\ AnswerFits(answer')
  /\ UNCHANGED <<server, did, others>>

PortOthers == others' # others /\ UNCHANGED <<call, answer, did>>

PortNext == PortInvoke \/ PortEffect \/ PortWrite \/ PortAnswer \/ PortOthers

PortSpec == PortInit /\ [][PortNext]_portVars
=============================================================================
