----------------------------- MODULE MibLookup -----------------------------
(***************************************************************************)
(* What request processing sees of the views and of the mib-tree, as       *)
(* operators: iterating over a list of views, and the results of           *)
(* mib_tree_search and mib_tree_search_next.  MibView shows that the lists *)
(* are what next_view needs to enumerate them, and MibSearch that the      *)
(* loops over the tree compute the results.                                *)
(***************************************************************************)
EXTENDS Oid

NULL == <<-1>>     \* the null pointer: not the oid of a view or node

GEN_ERR == 5       \* an error status that the get function of a variable returns

\* mutant: the view itself is returned again
Mut_next_view(vs, v) ==
  IF v = NULL THEN IF vs = <<>> THEN NULL ELSE vs[1]
  ELSE IF \E i \in 1 .. (Len(vs) - 1) : vs[i] = v THEN v ELSE NULL

\* mib_community_next_view, mib_user_next_view: the first view of the list for
\* v = NULL, else the one after the first occurrence of v that is not the last.
next_view(vs, v) ==
  LET at == {i \in 1 .. (Len(vs) - 1) : vs[i] = v}
  IN  IF v = NULL
      THEN IF vs = <<>> THEN NULL ELSE vs[1]
      ELSE IF at = {} THEN NULL ELSE vs[1 + CHOOSE i \in at : \A j \in at : i <= j]

\* mib_community_view_cover, mib_user_view_cover
view_cover(vs, o) == \E i \in 1 .. Len(vs) : oid_cover(vs[i], o) > 0
-----------------------------------------------------------------------------
\* What the GETNEXT handler of a group finds among the oids beyond the given one.
Least(S) == CHOOSE s \in S : \A t \in S : s = t \/ OidLess(s, t)

\* The tag that mib_tree_search ends with, where vars are the oids of the
\* variables served and known those at which, if none is, only the instance is
\* missing: the oids of instance nodes, and those within an accessible object of
\* a handler.  Anywhere else the object is missing, also below an instance node.
SearchTag(known, vars, view, o) ==
  CASE ~ Covers(view, o) -> "NO_SUCH_OBJ"
    [] Covers(view, o) /\ o \in vars -> "VALUE"
    [] OTHER -> IF o \in known THEN "NO_SUCH_INST" ELSE "NO_SUCH_OBJ"

\* A request ahead of a view that lies within an instance node starts at the
\* oid of the view, which excludes a variable of that very oid.
From(inst, view, o) ==
  IF OidLess(o, view) /\ \E p \in inst : Covers(p, view) THEN view ELSE o

\* The variables that handlers are asked for by mib_tree_search_next: beyond the
\* oid and in the view, or served by the node that the view lies within.
Asked(inst, vars, view, o) ==
  {x \in vars : /\ Covers(view, o) \/ OidLess(o, view)
                /\ OidLess(From(inst, view, o), x)
                /\ Covers(view, x) \/ \E p \in inst : Covers(p, view) /\ Covers(p, x)}

\* The oid that goes with the error when the get function of variable x reports
\* one: the oid looked for, as far as it was followed.
Echo(inst, view, o, x) ==
  LET at == CHOOSE p \in inst : Covers(p, x)
      from == IF Covers(view, o) THEN o ELSE view
  IN  IF Covers(at, from) THEN from ELSE at

\* The result of mib_tree_search_next; failing are the variables whose get
\* function reports an error.
SearchNext(inst, vars, failing, view, o) ==
  LET S == Asked(inst, vars, view, o)
      x == Least(S)
  IN  CASE S # {} /\ x \in failing ->
             [tag |-> "VALUE", oid |-> Echo(inst, view, o, x), err |-> GEN_ERR]
        [] S # {} /\ x \notin failing /\ Covers(view, x) ->
             [tag |-> "VALUE", oid |-> x, err |-> 0]
        [] OTHER -> [tag |-> "END_OF_MIB_VIEW", oid |-> o, err |-> 0]
=============================================================================
