----------------------------- MODULE MCMibTree -----------------------------
(* Nested oids, up to one sub-identifier longer than may be registered, for *)
(* overlaps and whole subtrees; a group has up to two children, so that its *)
(* arrays grow.                                                             *)
EXTENDS MibTree

Deep == {<<>>, <<1>>, <<1, 0>>, <<1, 1>>, <<1, 1, 1>>, <<1, 1, 2>>, <<1, 1, 1, 1>>, <<2>>}
=============================================================================
