---------------------------- MODULE MCMibSearch ----------------------------
(* Sub-identifiers 1 and 3 in the tree; requests also below, between and    *)
(* beyond them.  Every handler has object 1 only, and that of <<1, 3>>      *)
(* raises an error for <<1, 2>>.  The node with four sub-identifiers fills  *)
(* the stack, and any variable that it serves is beyond the limit.          *)
EXTENDS MibSearch

MCPath == {<<>>, <<1>>, <<3>>, <<1, 1>>, <<1, 1, 1>>, <<1, 1, 1, 3>>, <<1, 3>>, <<3, 1>>}
MCRows == {{}, {<<1>>}, {<<1>>, <<1, 2>>}}
MCKnown == [p \in MCPath |-> IF p = <<1, 3>> THEN {<<1>>} ELSE {<<1>>, <<1, 0>>, <<1, 2>>}]
MCFailing == {<<1, 2>>}
MCViewOid == {<<>>, <<1>>, <<2>>, <<1, 1>>, <<1, 2>>, <<1, 1, 1>>, <<3, 1>>}
MCReqOid == {<<>>, <<0>>, <<1>>, <<2>>, <<3>>, <<1, 0>>, <<1, 1>>, <<1, 2>>, <<1, 3>>, <<1, 4>>,
             <<1, 1, 0>>, <<1, 1, 1>>, <<1, 1, 1, 2>>, <<1, 3, 1>>, <<1, 3, 1, 2>>, <<3, 1>>, <<3, 1, 1>>, <<3, 2>>}
=============================================================================
