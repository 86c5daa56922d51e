----------------------------- MODULE MibSearch -----------------------------
(***************************************************************************)
(* Searching the mib-tree within one view: mib_tree_search (GET, SET) and  *)
(* mib_tree_search_next (GETNEXT) of src/core/mib_tree.c, one loop         *)
(* iteration per step.  The tree is any that module MibTree can build: its *)
(* arrays are sorted and its pointers match them, so the child of a group  *)
(* is named here by the sub-identifier that leads to it.                   *)
(*                                                                         *)
(* The Lua handler of an instance node (src/lualib/smartsnmp/init.lua,     *)
(* module LuaGroup) knows the oids, below that of the node, of the         *)
(* variables it serves (rows), and for GETNEXT finds the least one greater *)
(* than the one it is given.  Reading some of them (Failing) reports an    *)
(* error instead of a value.  Known are the oids within its accessible     *)
(* objects of which the get function answers: if such a one is not served  *)
(* the instance is missing, and of any other, also of one for which the    *)
(* handler raises an error, the object.                                    *)
(***************************************************************************)
EXTENDS MibLookup, Lists, FiniteSets

CONSTANTS
  Path,            \* oids of nodes
  Rows,            \* sets of oids, below the node's, that a handler may serve
  Failing,         \* those of them that report an error
  Known,           \* Known[p]: oids of which the handler of node p has the object
  ViewOid,         \* views, and
  ReqOid,          \* oids of requests
  MIB_OID_MAX_LEN  \* size of the traversal stack, and limit of an answer's oid

ASSUME SearchAssumption ==
  /\ Path \subseteq SmallOID /\ ViewOid \subseteq SmallOID /\ ReqOid \subseteq SmallOID
  /\ <<>> \in Path /\ \A p \in Path : p # <<>> => Front(p) \in Path
  /\ {} \in Rows /\ \A r \in Rows : r \subseteq SmallOID \ {<<>>} /\ IsFiniteSet(r)
  /\ Known \in [Path -> SUBSET (SmallOID \ {<<>>})]
  /\ MIB_OID_MAX_LEN \in Nat /\ \A p \in Path : Len(p) <= MIB_OID_MAX_LEN

Root == <<>>

VARIABLES
  type, sub_id,    \* the tree
  rows,            \* rows[p]: what the handler of instance p serves
  pc,              \* "idle", "walk", "next", "backtrack", "done" or "aborted"
  request,         \* "GET" or "GETNEXT"
  view, orig,      \* the other arguments
  buf, pos,        \* ret_oid->oid, and how far the cursor oid is in it
  id_len,          \* sub-identifiers that the cursor has left
  node,            \* the loop's cursor in the tree
  immediate,       \* search state: take the first, whatever the oid
  p_nbl, stk,      \* backlog entry popped (its n_idx), and the stack
  tag, answer,     \* the result: a tag, the oid that goes with it,
  err_stat         \* and the error status of the handler

treevars == <<type, sub_id, rows>>
args == <<request, view, orig>>
vars == <<treevars, args, pc, buf, pos, id_len, node, immediate, p_nbl, stk, tag, answer, err_stat>>

NoEntry == -2             \* p_nbl == NULL
None == -1                \* n_idx beside a NULL node

TypeOK ==
  /\ type \in [Path -> {"group", "instance", "free"}]
  /\ sub_id \in [Path -> SmallOID] /\ rows \in [Path -> Rows]
  /\ pc \in {"idle", "walk", "next", "backtrack", "done", "aborted"}
  /\ request \in {"GET", "GETNEXT"} /\ view \in SmallOID /\ orig \in SmallOID
  /\ buf \in SmallOID /\ pos \in Nat /\ id_len \in Nat
  /\ node \in Path \cup {NULL} /\ immediate \in BOOLEAN
  /\ p_nbl \in Nat \cup {NoEntry, None}
  /\ stk \in Seq([node : Path \cup {NULL}, n_idx : Nat \cup {None}])
  /\ tag \in {"NONE", "VALUE", "NO_SUCH_OBJ", "NO_SUCH_INST", "END_OF_MIB_VIEW"}
  /\ answer \in SmallOID /\ err_stat \in {0, GEN_ERR}
-----------------------------------------------------------------------------
\* The trees that registration and unregistration can build: every node hangs on
\* a group, a group may have lost all its children, and had some within the limit.
Trees ==
  {t \in [Path -> {"group", "instance", "free"}] :
     /\ t[Root] = "group"
     /\ \A p \in Path \ {Root} : t[p] # "free" => t[Front(p)] = "group"
     /\ \A p \in Path : t[p] = "group" => Len(p) < MIB_OID_MAX_LEN}

ChildIds(t, p) == {Last(q) : q \in {r \in Path \ {Root} : Front(r) = p /\ t[r] # "free"}}

\* sub_id of a group: the sub-identifiers of its children, in ascending order.
Children(t, p) ==
  LET ids == ChildIds(t, p)
      arrays == UNION {[1 .. n -> ids] : n \in 0 .. Half}
  IN  CHOOSE s \in arrays : StrictlySorted(s) /\ \A c \in ids : Contains(s, c)

Init ==
  /\ type \in Trees
  /\ sub_id = [p \in Path |-> Children(type, p)]
  /\ rows \in [Path -> Rows]
  /\ \A p \in Path : IF type[p] = "instance" THEN rows[p] \subseteq Known[p] ELSE rows[p] = {}
  /\ pc = "idle" /\ request = "GET" /\ view = <<>> /\ orig = <<>>
  /\ buf = <<>> /\ pos = 0 /\ id_len = 0 /\ node = Root /\ immediate = FALSE
  /\ p_nbl = NoEntry /\ stk = <<>> /\ tag = "NONE" /\ answer = <<>> /\ err_stat = 0

sub_id_cnt(n) == Len(sub_id[n])
Search == oid_binary_search(sub_id[node], buf[pos + 1])
Child(i) == Append(node, sub_id[node][i + 1])

\* The result, and the end of the call.
Answer(t, o, e) ==
  /\ pc' = "done" /\ tag' = t /\ answer' = o /\ err_stat' = e
  /\ buf' = <<>> /\ pos' = 0 /\ id_len' = 0 /\ node' = Root /\ immediate' = FALSE
  /\ p_nbl' = NoEntry /\ stk' = <<>>
-----------------------------------------------------------------------------
(***************************************************************************)
(* mib_tree_search, which GETNEXT also uses, on the oid of the view, to    *)
(* find where to start.                                                    *)
(***************************************************************************)
StartWalk(o) ==
  /\ pc' = "walk" /\ buf' = o /\ pos' = 0 /\ id_len' = Len(o) /\ node' = Root
  /\ UNCHANGED <<treevars, immediate, p_nbl, stk, tag, answer, err_stat>>

\* mutant: the view is not looked at
Mut_mib_tree_search(v, o) ==
  /\ pc = "idle"
  /\ request' = "GET" /\ view' = v /\ orig' = o
  /\ StartWalk(o)

mib_tree_search(v, o) ==
  /\ pc = "idle"
  /\ request' = "GET" /\ view' = v /\ orig' = o
  /\ IF oid_cover(v, o) <= 0
     THEN Answer("NO_SUCH_OBJ", o, 0) /\ UNCHANGED treevars
     ELSE StartWalk(o)

Ahead(v, o) == oid_cmp(o, v) < 0

mib_tree_search_next(v, o) ==
  /\ pc = "idle"
  /\ request' = "GETNEXT" /\ view' = v /\ orig' = o
  /\ IF oid_cover(v, o) > 0 \/ Ahead(v, o)
     THEN StartWalk(v)
     ELSE /\ pc' = "backtrack" /\ node' = NULL
          /\ UNCHANGED <<treevars, buf, pos, id_len, immediate, p_nbl, stk, tag, answer, err_stat>>

\* What mib_tree_search_next does once the walk to the view's oid has returned:
\* the given oid takes the place of the view's when it is within the view.
EnterNext ==
  LET in == oid_cover(view, orig) > 0
      o == IF in THEN orig ELSE view
  IN  /\ pc' = "next" /\ buf' = o /\ id_len' = IF Len(o) > pos THEN Len(o) - pos ELSE 0
      /\ immediate' = IF in THEN Len(orig) <= pos ELSE type[node] = "group"
      /\ UNCHANGED <<pos, node, p_nbl, stk, tag, answer, err_stat>>

WalkReturns(t, e) ==
  /\ IF request = "GET" THEN Answer(t, orig, e) ELSE EnterNext
  /\ UNCHANGED <<treevars, args>>

Walking == pc = "walk" /\ id_len > 0

WalkDescend ==
  /\ Walking /\ type[node] = "group" /\ Search >= 0
  /\ pos' = pos + 1 /\ id_len' = id_len - 1 /\ node' = Child(Search)
  /\ UNCHANGED <<treevars, args, pc, buf, immediate, p_nbl, stk, tag, answer, err_stat>>

WalkAbsent ==
  /\ Walking /\ type[node] = "group" /\ Search < 0
  /\ WalkReturns("NO_SUCH_OBJ", 0)

\* The tag that the GET handler of node p returns, or that a failing call leaves.
HandlerTag(p, row) ==
  IF row \in rows[p] THEN "VALUE" ELSE IF row \in Known[p] THEN "NO_SUCH_INST" ELSE "NO_SUCH_OBJ"

\* mib_instance_search: the handler is asked for the rest of the oid.
WalkInstance ==
  /\ Walking /\ type[node] = "instance"
  /\ LET row == SubSeq(buf, pos + 1, Len(buf))
     IN  WalkReturns(HandlerTag(node, row), IF row \in rows[node] \cap Failing THEN GEN_ERR ELSE 0)

WalkEnd ==
  /\ pc = "walk" /\ id_len = 0
  /\ WalkReturns(IF type[node] = "instance" THEN "NO_SUCH_INST" ELSE "NO_SUCH_OBJ", 0)

walk == WalkDescend \/ WalkAbsent \/ WalkInstance \/ WalkEnd
-----------------------------------------------------------------------------
\* mutant: the stack is one entry too small
Mut_nbl_push(e) == IF Len(stk) < MIB_OID_MAX_LEN - 1 THEN Append(stk, e) ELSE stk

(***************************************************************************)
(* The loop of mib_tree_search_next.                                       *)
(***************************************************************************)
nbl_push(e) == IF Len(stk) < MIB_OID_MAX_LEN THEN Append(stk, e) ELSE stk

\* Go down to child i and remember that child i + 1 is next.  An empty group has
\* a zero and NULL in slot 0.
Descend(i) ==
  /\ stk' = nbl_push(IF i + 1 >= sub_id_cnt(node) THEN [node |-> NULL, n_idx |-> None]
                     ELSE [node |-> node, n_idx |-> i + 1])
  /\ pos' = pos + 1
  /\ LET id == IF sub_id_cnt(node) = 0 THEN 0 ELSE sub_id[node][i + 1]
     IN  buf' = IF pos < Len(buf) THEN [buf EXCEPT ![pos + 1] = id] ELSE Append(buf, id)
  /\ node' = IF sub_id_cnt(node) = 0 THEN NULL ELSE Child(i)

AtGroup == pc = "next" /\ node # NULL /\ type[node] = "group"

NextImmediate ==
  /\ AtGroup /\ immediate
  /\ Descend(IF p_nbl # NoEntry THEN p_nbl ELSE 0)
  /\ p_nbl' = NoEntry
  /\ UNCHANGED <<treevars, args, pc, id_len, immediate, tag, answer, err_stat>>

\* Where the sub-identifier is, or would be.
Index == IF Search < 0 THEN -Search - 1 ELSE Search

\* Every sub-identifier is less than the one asked for: backtrack.
NextPast ==
  /\ AtGroup /\ ~ immediate /\ Search < 0 /\ Index = sub_id_cnt(node)
  /\ pc' = "backtrack" /\ immediate' = TRUE
  /\ UNCHANGED <<treevars, args, buf, pos, id_len, node, p_nbl, stk, tag, answer, err_stat>>

\* mutant: the search state is not switched
Mut_NextAll ==
  /\ AtGroup /\ ~ immediate /\ Search < 0 /\ Index # sub_id_cnt(node) /\ Index = 0
  /\ UNCHANGED vars

\* Every sub-identifier is greater: start over in the immediate state.
NextAll ==
  /\ AtGroup /\ ~ immediate /\ Search < 0 /\ Index # sub_id_cnt(node) /\ Index = 0
  /\ immediate' = TRUE
  /\ UNCHANGED <<treevars, args, pc, buf, pos, id_len, node, p_nbl, stk, tag, answer, err_stat>>

NextMatch ==
  /\ AtGroup /\ ~ immediate
  /\ Search < 0 => Index # sub_id_cnt(node) /\ Index # 0
  /\ Descend(Index)
  /\ id_len' = id_len - 1
  /\ immediate' = (Search < 0 \/ (id_len = 1 /\ type[Child(Index)] = "group"))
  /\ UNCHANGED <<treevars, args, pc, p_nbl, tag, answer, err_stat>>

\* The oids that the handler finds beyond the cursor's, and the least of them.
Start == IF immediate \/ id_len = 0 THEN <<>> ELSE SubSeq(buf, pos + 1, pos + id_len)
Beyond == {s \in rows[node] : OidLess(Start, s)}
Fails == Least(Beyond) \in Failing

\* An error leaves the rest of the oid, of inst_id_len, as it was.
Found == SubSeq(buf, 1, pos) \o (IF Fails THEN Start ELSE Least(Beyond))

AtInstance == pc = "next" /\ node # NULL /\ type[node] = "instance"
TooLong == Beyond # {} /\ Len(Found) > MIB_OID_MAX_LEN

\* The assertion on the length of what was found, in the view or not.
NextAborts ==
  /\ AtInstance /\ TooLong
  /\ pc' = "aborted"
  /\ UNCHANGED <<treevars, args, buf, pos, id_len, node, immediate, p_nbl, stk, tag, answer, err_stat>>

NextInstance ==
  /\ AtInstance /\ ~ TooLong
  /\ IF Beyond # {} /\ oid_cover(view, Found) # 0
     THEN Answer("VALUE", Found, IF Fails THEN GEN_ERR ELSE 0)
     ELSE pc' = "backtrack" /\ UNCHANGED <<buf, pos, id_len, node, immediate, p_nbl, stk, tag, answer, err_stat>>
  /\ UNCHANGED <<treevars, args>>

NextNull ==
  /\ pc = "next" /\ node = NULL
  /\ pc' = "backtrack"
  /\ UNCHANGED <<treevars, args, buf, pos, id_len, node, immediate, p_nbl, stk, tag, answer, err_stat>>

\* mutant: the cursor in the oid is not set back
Mut_Pop ==
  /\ pc = "backtrack" /\ stk # <<>>
  /\ stk' = Front(stk) /\ node' = Last(stk).node /\ p_nbl' = Last(stk).n_idx
  /\ immediate' = TRUE /\ pc' = "next"
  /\ UNCHANGED <<treevars, args, buf, pos, id_len, tag, answer, err_stat>>

Pop ==
  /\ pc = "backtrack" /\ stk # <<>>
  /\ stk' = Front(stk) /\ node' = Last(stk).node /\ p_nbl' = Last(stk).n_idx
  /\ pos' = pos - 1 /\ immediate' = TRUE /\ pc' = "next"
  /\ UNCHANGED <<treevars, args, buf, id_len, tag, answer, err_stat>>

EndOfView ==
  /\ pc = "backtrack" /\ stk = <<>>
  /\ Answer("END_OF_MIB_VIEW", orig, 0)
  /\ UNCHANGED <<treevars, args>>

search_next ==
  \/ NextImmediate \/ NextPast \/ NextAll \/ NextMatch
  \/ NextAborts \/ NextInstance \/ NextNull \/ Pop \/ EndOfView
-----------------------------------------------------------------------------
\* The caller has taken the answer.
Taken ==
  /\ pc = "done"
  /\ pc' = "idle" /\ tag' = "NONE" /\ answer' = <<>> /\ err_stat' = 0
  /\ request' = "GET" /\ view' = <<>> /\ orig' = <<>>
  /\ UNCHANGED <<treevars, buf, pos, id_len, node, immediate, p_nbl, stk>>

Call ==
  \E v \in ViewOid, o \in ReqOid : mib_tree_search(v, o) \/ mib_tree_search_next(v, o)

Step == walk \/ search_next

Next == Call \/ Step \/ Taken

\* A search, once started, runs.
Spec == Init /\ [][Next]_vars /\ WF_vars(Step)
-----------------------------------------------------------------------------
Instances == {p \in Path : type[p] = "instance"}

\* The variables served in the tree, and those that report an error.
Served == UNION {{p \o s : s \in rows[p]} : p \in Path}
Erring == UNION {{p \o s : s \in rows[p] \cap Failing} : p \in Path}

\* The oids at which an instance is missing rather than an object.
KnownOids == Instances \cup UNION {{p \o s : s \in Known[p]} : p \in Instances}

\* GET finds a variable exactly if it is served and in the view.  Otherwise it
\* answers that the instance is missing exactly if the oid is in the view and is
\* that of an instance node or within an accessible object of the one handler
\* responsible for it, and that the object is missing everywhere else.
GetFinds ==
  pc = "done" /\ request = "GET" => tag = SearchTag(KnownOids, Served, view, orig)

Result == [tag |-> tag, oid |-> answer, err |-> err_stat]

\* GETNEXT answers with the closest next variable of the view, whatever mixture
\* of empty groups, handlers without variables, matches and backtracking the
\* walk goes through.  A view that names just one variable is the exception:
\* for a request ahead of it mib_tree_search_next starts behind that variable.
NextIsClosest ==
  pc = "done" /\ request = "GETNEXT" =>
    Result = SearchNext(Instances, Served, Erring, view, orig)

\* The cursor in the tree and the oid being put together agree: the buffer up to
\* the cursor is the path of the node, also after any number of pops.
CursorMatches ==
  TypeOK /\ (pc \in {"walk", "next"} /\ node # NULL => node = SubSeq(buf, 1, pos))

\* The search ends, and with an answer: mib_tree_search_next fails its assertion
\* on the length of the oid found only where a variable is served whose oid is
\* longer than MIB_OID_MAX_LEN.
SearchReturns ==
  pc \in {"walk", "next", "backtrack"} ~>
    (pc = "done" \/ (pc = "aborted" /\ \E x \in Served : Len(x) > MIB_OID_MAX_LEN))
=============================================================================
