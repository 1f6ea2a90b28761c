--------------------------- MODULE MCSftpStorage ---------------------------
(* Instances of SftpStorage for TLC: a lock directory, a temporary file and  *)
(* the place it is published to.                                             *)
EXTENDS SftpStorage

CONSTANTS lock, temp, final

On(op, path) == [op |-> op, src |-> path, dst |-> path, overwrite |-> FALSE]

MCCalls ==
  {On("capabilities", final), On("mkdir", lock), On("remove_dir", lock), On("list_dir", lock),
   On("read_file", final), On("remove_file", temp), On("write_file", temp),
   [On("write_file", temp) EXCEPT !.overwrite = TRUE],
   [op |-> "publish_no_replace", src |-> temp, dst |-> final, overwrite |-> FALSE],
   [op |-> "atomic_replace", src |-> temp, dst |-> final, overwrite |-> FALSE]}

\* A server without a match yet is told apart only by capable ones.
MCServers ==
  {s \in Semantics : ~s.rooted => s.exclusive /\ s.rename = "refuses" /\ s.posix /\ s.readback}
=============================================================================
