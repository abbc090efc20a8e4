----------------------------- MODULE MCSessions -----------------------------
(* The sessions the server keeps, and the editor of a site an owner works in   *)
(* with one of them.  They share no state: the first step says which of the    *)
(* two moves, and the other stays where it started.  The sessions are those of *)
(* one user; they and the requests are interchangeable.                        *)
EXTENDS SetupEditor, Sessions, TLC

VARIABLE machine

OneUser == [s \in Sids |-> "a"]

\* A machine that does not move needs one start only.
AllInit ==
  /\ machine \in {"server", "editor"}
  /\ Init /\ SessionsInit
  /\ machine # "editor" => slug = NoTenant

AllNext ==
  /\ UNCHANGED machine
  /\ \/ machine = "server" /\ SessionsNext /\ UNCHANGED vars
     \/ machine = "editor" /\ Next /\ UNCHANGED sessionsVars

AllSpec == AllInit /\ [][AllNext]_<<vars, sessionsVars, machine>>

Interchangeable == Permutations(Procs) \cup Permutations(Sids)
=============================================================================
