----------------------------- MODULE MCMibView -----------------------------
(* A root view, two nested ones on one branch and one on another for one       *)
(* community; one view for each of the other names.                            *)
EXTENDS MibView

CONSTANT c1

MCViewOid == {<<>>, <<1>>, <<1, 1>>, <<1, 2>>, <<2>>}
MCGiven == [p \in Principal |-> IF p = c1 THEN MCViewOid ELSE {<<1>>}]
=============================================================================
