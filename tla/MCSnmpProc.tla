----------------------------- MODULE MCSnmpProc -----------------------------
(* Two groups with four variables, of which one cannot be read and one     *)
(* cannot be set without an error.  The view lists have the whole mib, one  *)
(* group, two disjoint views, and a view that is a variable.                *)
EXTENDS SnmpProc

MCNode == {<<1>>, <<2>>}
MCVar == {<<1, 1>>, <<1, 2>>, <<2, 1>>, <<2, 2>>}
MCKnown == MCVar \cup {<<1, 3>>}
MCObject == MCKnown
MCTagOf == [x \in MCVar |-> IF x = <<1, 2>> THEN "STR" ELSE "INT"]
MCGetFails == {<<2, 2>>}
MCSetFails == {<<1, 2>>}

MCViewLists ==
  {[READ |-> <<<<>>>>, WRITE |-> <<<<1>>>>],
   [READ |-> <<<<1>>, <<2>>>>, WRITE |-> <<<<1>>, <<2>>>>],
   [READ |-> <<<<1, 1>>, <<2>>>>, WRITE |-> <<>>]}

ReadOid == {<<>>, <<1>>, <<1, 1>>, <<1, 2>>, <<1, 3>>, <<2, 1>>, <<2, 2>>}
WriteOid == {<<1>>, <<1, 1>>, <<1, 2>>, <<2, 1>>}

Lists(n, oids, tags) == [1 .. n -> [oid : oids, tag : tags]]

Message(version, known, types, lists, es, ei) ==
  [version : version, known : known, type : types,
   err_stat : es, err_idx : ei, vbs : lists]

One == Lists(1, ReadOid, {"NUL"})
Reads == {<<>>} \cup One \cup Lists(2, ReadOid, {"NUL"})
Writes == {<<>>} \cup Lists(1, WriteOid, {"INT", "STR"}) \cup Lists(2, WriteOid, {"INT", "STR"})

\* Requests of all types, from known and unknown principals, with none to two
\* bindings and none to two repetitions; some with error fields that are not zero,
\* and a message that is not a request.
MCMessages ==
  Message({"v2c"}, {TRUE}, {"GET", "GETNEXT"}, Reads, {0}, {0})
    \cup Message({"v2c"}, {TRUE}, {"SET"}, Writes, {0}, {0})
    \cup Message({"v2c"}, {TRUE}, {"BULKGET"}, Reads, {0}, {0, 2})
    \cup Message({"v2c"}, {TRUE}, {"BULKGET"}, One, {1}, {1})
    \cup Message({"v3"}, BOOLEAN, {"GET", "GETNEXT", "SET"}, One, {0}, {0})
    \cup Message({"v2c"}, {FALSE}, {"GET", "BULKGET"}, One \cup Lists(2, {<<1, 1>>}, {"NUL"}), {0}, {0, 1})
    \cup Message({"v2c"}, {TRUE}, {"GET", "SET"}, One, {2}, {1})
    \cup Message({"v3"}, {TRUE}, {"TRAP"}, {<<>>}, {0}, {0})
=============================================================================
