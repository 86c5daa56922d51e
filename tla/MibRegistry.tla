---------------------------- MODULE MibRegistry ----------------------------
(***************************************************************************)
(* What the mib-tree of src/core/mib_tree.c promises to those who register *)
(* and unregister nodes: a set of oids that have a handler, and the set of *)
(* oids reserved as groups above them.                                     *)
(***************************************************************************)
EXTENDS Oid

CONSTANTS Path, Callback, MaxLen

VARIABLES
  instances,       \* pairs <<oid, handler>>
  groups,          \* oids of groups; they outlive their children
  refs,            \* handlers referenced
  ret              \* what the last registration returned

vars == <<instances, groups, refs, ret>>

InstanceOids == {x[1] : x \in instances}
ProperPrefixes(o) == {p \in Path : Covers(p, o) /\ p # o}

Init == instances = {} /\ groups = {<<>>} /\ refs = {} /\ ret = 0

\* The oid is that of a node, or would be below an instance.
Overlaps(o) == o \in groups \/ \E p \in InstanceOids : Covers(p, o)

Register(o, c) ==
  /\ c \notin refs /\ ~ Overlaps(o) /\ Len(o) <= MaxLen
  /\ instances' = instances \cup {<<o, c>>}
  /\ groups' = groups \cup ProperPrefixes(o)
  /\ refs' = refs \cup {c} /\ ret' = 0

\* A registration that fails changes nothing, but keeps the handler alive.
RegisterFails(o, c) ==
  /\ c \notin refs /\ (Overlaps(o) \/ Len(o) > MaxLen)
  /\ refs' = refs \cup {c} /\ ret' = -1
  /\ UNCHANGED <<instances, groups>>

\* Everything at or below t, and exactly that, goes.
Delete(t) ==
  /\ instances' = {x \in instances : ~ Covers(t, x[1])}
  /\ groups' = {g \in groups : ~ Covers(t, g)}
  /\ refs' = refs \ {x[2] : x \in instances \ instances'}
  /\ UNCHANGED ret

\* The oid of a node, or that of an instance followed by one sub-identifier.
Unregister(o) ==
  \/ o # <<>> /\ Delete(o)
  \/ o # <<>> /\ SubSeq(o, 1, Len(o) - 1) \in InstanceOids /\ Delete(SubSeq(o, 1, Len(o) - 1))

Next ==
  \E o \in Path : \/ Unregister(o)
                  \/ \E c \in Callback : Register(o, c) \/ RegisterFails(o, c)

Spec == Init /\ [][Next]_vars
=============================================================================
