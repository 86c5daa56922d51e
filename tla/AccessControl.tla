--------------------------- MODULE AccessControl ---------------------------
(***************************************************************************)
(* What the access-control lists of src/core/mib_view.c promise: for each  *)
(* community or user, the set of oids it may read and the set it may       *)
(* write.                                                                  *)
(***************************************************************************)
EXTENDS Oid

CONSTANTS
  Principal,       \* community and user names
  Universe         \* the oids of interest

VARIABLES readable, writable

vars == <<readable, writable>>

Subtree(o) == {u \in Universe : Covers(o, u)}

Init ==
  /\ readable = [p \in Principal |-> {}]
  /\ writable = [p \in Principal |-> {}]

\* Write access brings read access with it.
Grant(p, o, a) ==
  /\ readable' = [readable EXCEPT ![p] = @ \cup Subtree(o)]
  /\ writable' = [writable EXCEPT ![p] = IF a = "WRITE" THEN @ \cup Subtree(o) ELSE @]

\* Taking away read access takes away write access.
Revoke(p, a) ==
  /\ readable' = [readable EXCEPT ![p] = IF a = "READ" THEN {} ELSE @]
  /\ writable' = [writable EXCEPT ![p] = {}]

\* A call that changes nothing for its principal is no step.
Next ==
  /\ vars' # vars
  /\ \E p \in Principal, a \in {"READ", "WRITE"} :
       Revoke(p, a) \/ \E o \in Universe : Grant(p, o, a)

Spec == Init /\ [][Next]_vars
=============================================================================
