------------------------------ MODULE MibTree ------------------------------
(***************************************************************************)
(* The mib-tree: registration and unregistration in src/core/mib_tree.c.   *)
(* Inner nodes are groups, which hold a sorted array of sub-identifiers    *)
(* and a parallel array of child pointers; leaves are instance nodes,      *)
(* which hold a reference to the Lua handler that answers for them.        *)
(*                                                                         *)
(* The address of a node is the oid at which it was allocated, and "free"  *)
(* memory cannot be read: a step through a dangling pointer is not enabled *)
(* and shows as a deadlock.  sub_id[n] and sub_ptr[n] have sub_id_cnt      *)
(* elements, and slot 0 of an empty group, which the code keeps at 0 and   *)
(* NULL, is read as such.  A loop that shifts array elements is one step.  *)
(*                                                                         *)
(* The program has one thread, so a call runs to its end; each iteration   *)
(* of its loops is a step.                                                 *)
(***************************************************************************)
EXTENDS Oid, Lists

CONSTANTS
  Path,            \* the oids at which there may be a node
  Callback,        \* references that luaL_ref can hand out
  MIB_OID_MAX_LEN  \* longest oid; the size of the traversal stack

ASSUME TreeAssumption ==
  /\ Path \subseteq OID
  /\ <<>> \in Path
  /\ \A p \in Path : p # <<>> => Front(p) \in Path
  /\ MIB_OID_MAX_LEN \in Nat \ {0}

NULL == <<-1>>     \* no node has this address
Root == <<>>       \* mib_dummy_node

VARIABLES
  type,            \* "group", "instance", or "free"
  sub_id, sub_ptr, \* children of a group
  sub_id_cap,      \* slots allocated for them
  callback,        \* handler of an instance
  refs,            \* handlers that Lua keeps alive for us
  pc,              \* "idle", or the loop being executed
  oid, cb, ret,    \* arguments of the call, and what mib_node_reg returned
  at,              \* sub-identifiers of oid consumed
  node,            \* the loop's cursor
  parent, sub_idx, \* struct node_pair: the link that leads to node
  p_nbl,           \* the backlog entry just popped: its n_idx, or NoEntry
  stk              \* stack of backlog entries [node, n_idx]

tree == <<type, sub_id, sub_ptr, sub_id_cap, callback>>
call == <<pc, oid, cb, ret, at, node, parent, sub_idx, p_nbl, stk>>
vars == <<tree, refs, call>>

None == -1                \* n_idx of the last sub-node
NoEntry == -2             \* p_nbl == NULL
NoCallback == "none"

Backlog == [node : Path, n_idx : Nat \cup {None}]

TypeOK ==
  /\ type \in [Path -> {"group", "instance", "free"}]
  /\ sub_id \in [Path -> Seq(SubId)]
  /\ sub_ptr \in [Path -> Seq(Path)]
  /\ sub_id_cap \in [Path -> Nat]
  /\ callback \in [Path -> Callback \cup {NoCallback}]
  /\ refs \subseteq Callback
  /\ pc \in {"idle", "insert", "find", "delete", "backtrack"}
  /\ oid \in OID /\ cb \in Callback \cup {NoCallback} /\ ret \in {0, -1}
  /\ at \in Nat /\ node \in Path \cup {NULL}
  /\ parent \in Path /\ sub_idx \in Nat
  /\ p_nbl \in Nat \cup {None, NoEntry} /\ stk \in Seq(Backlog)

\* mib_dummy_node_init
Init ==
  /\ type = [p \in Path |-> IF p = Root THEN "group" ELSE "free"]
  /\ sub_id = [p \in Path |-> <<>>]
  /\ sub_ptr = [p \in Path |-> <<>>]
  /\ sub_id_cap = [p \in Path |-> IF p = Root THEN 1 ELSE 0]
  /\ callback = [p \in Path |-> NoCallback]
  /\ refs = {}
  /\ pc = "idle" /\ oid = <<>> /\ cb = NoCallback /\ ret = 0
  /\ at = 0 /\ node = Root /\ parent = Root /\ sub_idx = 0
  /\ p_nbl = NoEntry /\ stk = <<>>
-----------------------------------------------------------------------------
sub_id_cnt(n) == Len(sub_id[n])
is_raw_group(n) == sub_id_cnt(n) = 0
alloc_nr(x) == ((x + 2) * 3) \div 2

\* The next sub-identifier of the argument, and where the cursor's array has it.
NextId == oid[at + 1]
Search == oid_binary_search(sub_id[node], NextId)
Child(i) == sub_ptr[node][i + 1]
IdLeft == Len(oid) - at

\* The end of a call; what its local variables held is gone.
Return ==
  /\ pc' = "idle" /\ oid' = <<>> /\ cb' = NoCallback
  /\ at' = 0 /\ node' = Root /\ parent' = Root /\ sub_idx' = 0
  /\ p_nbl' = NoEntry /\ stk' = <<>>
-----------------------------------------------------------------------------
(***************************************************************************)
(* Registration.  The Lua binding takes a reference to the handler, and    *)
(* does not give it back when the registration fails.                      *)
(***************************************************************************)
mib_node_reg(o, c) ==
  /\ pc = "idle"
  /\ c \notin refs
  /\ refs' = refs \cup {c}
  /\ IF Len(o) = 0 \/ Len(o) > MIB_OID_MAX_LEN
     THEN ret' = -1 /\ UNCHANGED <<pc, oid, cb>>
     ELSE pc' = "insert" /\ oid' = o /\ cb' = c /\ UNCHANGED ret
  /\ UNCHANGED <<tree, at, node, parent, sub_idx, p_nbl, stk>>

\* A new node as child number i of the cursor, which already has room for it:
\* the instance itself when no sub-identifier is left, otherwise a group.
Allocate(i) ==
  LET new == Append(node, NextId)
      last == IdLeft = 1
  IN  /\ sub_id' = [sub_id EXCEPT ![node] = InsertAt(@, i + 1, NextId)]
      /\ sub_ptr' = [sub_ptr EXCEPT ![node] = InsertAt(@, i + 1, new)]
      /\ type' = [type EXCEPT ![new] = IF last THEN "instance" ELSE "group"]
      /\ callback' = [callback EXCEPT ![new] = IF last THEN cb ELSE NoCallback]
      /\ IF last
         THEN Return /\ ret' = 0
         ELSE /\ at' = at + 1 /\ node' = new
              /\ UNCHANGED <<pc, oid, cb, ret, parent, sub_idx, p_nbl, stk>>

\* Memory for the node that Allocate makes, and for the arrays of the cursor.
NewCap(cap) ==
  sub_id_cap' = [sub_id_cap EXCEPT ![node] = cap,
                   ![Append(node, NextId)] = IF IdLeft = 1 THEN 0 ELSE 1]

Inserting == pc = "insert" /\ IdLeft > 0 /\ type[node] = "group"

InsertRaw ==
  /\ Inserting /\ is_raw_group(node)
  /\ Allocate(0) /\ NewCap(sub_id_cap[node])
  /\ UNCHANGED refs

\* mutant: the walk does not go down
Mut_InsertDescend ==
  /\ Inserting /\ ~ is_raw_group(node) /\ Search >= 0
  /\ UNCHANGED vars

InsertDescend ==
  /\ Inserting /\ ~ is_raw_group(node) /\ Search >= 0
  /\ at' = at + 1 /\ node' = Child(Search)
  /\ UNCHANGED <<tree, refs, pc, oid, cb, ret, parent, sub_idx, p_nbl, stk>>

\* group_node_expand makes room at the index found.
InsertExpand ==
  /\ Inserting /\ ~ is_raw_group(node) /\ Search < 0
  /\ Allocate(-Search - 1)
  /\ NewCap(IF sub_id_cnt(node) + 1 > sub_id_cap[node]
            THEN alloc_nr(sub_id_cap[node]) ELSE sub_id_cap[node])
  /\ UNCHANGED refs

\* An instance is in the way, or the oid is that of a node.
InsertFail ==
  /\ pc = "insert" /\ type[node] # "free"
  /\ IdLeft = 0 \/ type[node] = "instance"
  /\ Return /\ ret' = -1
  /\ UNCHANGED <<tree, refs>>

mib_tree_instance_insert == InsertRaw \/ InsertDescend \/ InsertExpand \/ InsertFail
-----------------------------------------------------------------------------
mib_node_unreg(o) ==
  /\ pc = "idle"
  /\ pc' = "find" /\ oid' = o
  /\ UNCHANGED <<tree, refs, cb, ret, at, node, parent, sub_idx, p_nbl, stk>>

Finding == pc = "find" /\ node # NULL /\ IdLeft > 0

FindDescend ==
  /\ Finding /\ type[node] = "group" /\ Search >= 0
  /\ at' = at + 1 /\ sub_idx' = Search /\ parent' = node /\ node' = Child(Search)
  /\ UNCHANGED <<tree, refs, pc, oid, cb, ret, p_nbl, stk>>

\* Nothing there: an absent sub-identifier, or more than one beyond an instance.
FindMiss ==
  /\ Finding
  /\ \/ type[node] = "group" /\ Search < 0
     \/ type[node] = "instance" /\ IdLeft # 1
  /\ Return
  /\ UNCHANGED <<tree, refs, ret>>

\* Found; one sub-identifier beyond an instance finds the instance.  The root is
\* not deleted.
FindHit ==
  /\ pc = "find" /\ node # NULL /\ type[node] # "free"
  /\ IdLeft = 0 \/ (type[node] = "instance" /\ IdLeft = 1)
  /\ IF node = Root
     THEN Return
     ELSE pc' = "delete" /\ UNCHANGED <<oid, cb, at, node, parent, sub_idx, p_nbl, stk>>
  /\ UNCHANGED <<tree, refs, ret>>

mib_tree_node_search == FindDescend \/ FindMiss \/ FindHit
-----------------------------------------------------------------------------
(***************************************************************************)
(* Deletion, __mib_tree_delete: depth first, with a stack of the groups    *)
(* whose children are being deleted.                                       *)
(***************************************************************************)
Deleting(t) == pc = "delete" /\ node # NULL /\ type[node] = t

\* Child to visit; a group comes back once per child, and a last time to go.
DelIndex == IF p_nbl # NoEntry THEN p_nbl ELSE 0

nbl_push(e) == IF Len(stk) < MIB_OID_MAX_LEN THEN Append(stk, e) ELSE stk

DelDescend ==
  /\ Deleting("group") /\ DelIndex # None
  /\ stk' = nbl_push([node |-> node,
                      n_idx |-> IF DelIndex + 1 >= sub_id_cnt(node) THEN None ELSE DelIndex + 1])
  /\ node' = IF is_raw_group(node) THEN NULL ELSE Child(DelIndex)
  /\ p_nbl' = NoEntry
  /\ UNCHANGED <<tree, refs, pc, oid, cb, ret, at, parent, sub_idx>>

\* The memory of node n is given back.
Free(n) ==
  /\ type' = [type EXCEPT ![n] = "free"]
  /\ sub_id' = [sub_id EXCEPT ![n] = <<>>]
  /\ sub_ptr' = [sub_ptr EXCEPT ![n] = <<>>]
  /\ sub_id_cap' = [sub_id_cap EXCEPT ![n] = 0]
  /\ callback' = [callback EXCEPT ![n] = NoCallback]

mib_group_node_delete ==
  /\ Deleting("group") /\ DelIndex = None
  /\ Free(node)
  /\ pc' = "backtrack" /\ p_nbl' = NoEntry
  /\ UNCHANGED <<refs, oid, cb, ret, at, node, parent, sub_idx, stk>>

\* mutant: the handler is unreferenced and the node kept
Mut_mib_instance_node_delete ==
  /\ Deleting("instance")
  /\ refs' = refs \ {callback[node]}
  /\ pc' = "backtrack"
  /\ UNCHANGED <<tree, oid, cb, ret, at, node, parent, sub_idx, p_nbl, stk>>

\* mutant: the handler is not unreferenced
Mut_KeepRef ==
  /\ Deleting("instance")
  /\ Free(node)
  /\ pc' = "backtrack"
  /\ UNCHANGED <<refs, oid, cb, ret, at, node, parent, sub_idx, p_nbl, stk>>

\* The handler is unreferenced (mib_handler_unref) before the node is freed.
mib_instance_node_delete ==
  /\ Deleting("instance")
  /\ refs' = refs \ {callback[node]}
  /\ Free(node)
  /\ pc' = "backtrack"
  /\ UNCHANGED <<oid, cb, ret, at, node, parent, sub_idx, p_nbl, stk>>

DelNull ==
  /\ pc = "delete" /\ node = NULL
  /\ pc' = "backtrack"
  /\ UNCHANGED <<tree, refs, oid, cb, ret, at, node, parent, sub_idx, p_nbl, stk>>

Pop ==
  /\ pc = "backtrack" /\ stk # <<>>
  /\ node' = Last(stk).node /\ p_nbl' = Last(stk).n_idx /\ stk' = Front(stk)
  /\ pc' = "delete"
  /\ UNCHANGED <<tree, refs, oid, cb, ret, at, parent, sub_idx>>

\* mutant: the pointers are not moved along with the sub-identifiers
Mut_ShrinkIds ==
  /\ pc = "backtrack" /\ stk = <<>>
  /\ sub_id' = [sub_id EXCEPT ![parent] = RemoveAt(@, sub_idx + 1)]
  /\ sub_ptr' = [sub_ptr EXCEPT ![parent] = Front(@)]
  /\ Return
  /\ UNCHANGED <<type, sub_id_cap, callback, refs, ret>>

\* All of the subtree is gone: its link is taken out of the parent's arrays.
group_node_shrink ==
  /\ pc = "backtrack" /\ stk = <<>>
  /\ sub_id' = [sub_id EXCEPT ![parent] = RemoveAt(@, sub_idx + 1)]
  /\ sub_ptr' = [sub_ptr EXCEPT ![parent] = RemoveAt(@, sub_idx + 1)]
  /\ Return
  /\ UNCHANGED <<type, sub_id_cap, callback, refs, ret>>

mib_tree_delete ==
  \/ DelDescend \/ mib_group_node_delete \/ mib_instance_node_delete
  \/ DelNull \/ Pop \/ group_node_shrink
-----------------------------------------------------------------------------
TreeStep == mib_tree_instance_insert \/ mib_tree_node_search \/ mib_tree_delete

TreeCall ==
  \E o \in Path : mib_node_unreg(o) \/ \E c \in Callback : mib_node_reg(o, c)

Next == TreeCall \/ TreeStep

\* A call, once started, runs; nothing obliges anybody to call.
Spec == Init /\ [][Next]_vars /\ WF_vars(TreeStep)
-----------------------------------------------------------------------------
Busy == pc \in {"delete", "backtrack"}

\* The node at which mib_node_unreg was found to delete.
Target == Append(parent, sub_id[parent][sub_idx + 1])

Instance(p) == type[p] = "instance"

\* In every group the sub-identifiers are strictly ascending (the binary search
\* relies on it) and fit the memory allocated, whatever sequence of expansions
\* and shrinkings led there (group_node_expand, group_node_shrink); only groups
\* have children, and the root stays.
ArraysSound ==
  /\ TypeOK /\ type[Root] = "group"
  /\ \A p \in Path : /\ StrictlySorted(sub_id[p])
                     /\ Len(sub_ptr[p]) = Len(sub_id[p])
                     /\ Len(sub_id[p]) <= sub_id_cap[p]
                     /\ IF type[p] = "group" THEN sub_id_cap[p] > 0 ELSE sub_id[p] = <<>>
                     /\ type[p] # "free" => Len(p) <= MIB_OID_MAX_LEN

\* The two arrays of a group stay in step through insertions and removals:
\* the pointer beside a sub-identifier leads to the node allocated for it.
LinksMatch ==
  \A p \in Path : \A i \in 1 .. Len(sub_ptr[p]) :
    sub_ptr[p][i] = Append(p, sub_id[p][i])

\* The child of a group on the stack that __mib_tree_delete is at, counted from
\* 1: the one before n_idx, or the last one; 0 in a group without children.
AtChild(n, n_idx) == IF n_idx = None THEN Len(sub_ptr[n]) ELSE n_idx

\* The pointers to nodes that __mib_tree_delete has freed already: in each group
\* on the stack those before the child it is at, and in the end that one too.
Gone(p, i) ==
  \/ \E k \in 1 .. Len(stk) :
       /\ p = stk[k].node
       /\ \/ i < AtChild(p, stk[k].n_idx)
          \/ i = AtChild(p, stk[k].n_idx) /\ k = Len(stk) /\ pc = "backtrack"
  \/ pc = "delete" /\ p = node /\ p_nbl # NoEntry /\ i <= AtChild(p, p_nbl)
  \/ pc = "backtrack" /\ stk = <<>> /\ p = parent /\ i = sub_idx + 1

\* A pointer leads to freed memory only while __mib_tree_delete runs, and then
\* exactly if the deletion has been there.
NoDangling ==
  \A p \in Path : \A i \in 1 .. Len(sub_ptr[p]) :
    type[sub_ptr[p][i]] = "free" <=> Gone(p, i)

\* Every node in memory hangs on a group that is in memory: __mib_tree_delete
\* frees children before parents and loses none of them.
NoOrphans ==
  \A p \in Path \ {Root} : type[p] # "free" =>
    type[Front(p)] = "group" /\ Contains(sub_ptr[Front(p)], p)

\* The pointers and the nodes in memory are those of a tree, also between the
\* steps of mib_node_unreg: each pointer leads to its own node, none to freed
\* memory, and no node is lost.
LinksSound == LinksMatch /\ NoDangling /\ NoOrphans

\* The walks of an insertion and of a search are at the node that the
\* sub-identifiers consumed lead to; the link to it is what is remembered.
WalkSound ==
  /\ pc = "idle" => oid = Root /\ at = 0 /\ node = Root
  /\ pc \in {"insert", "find"} =>
       /\ oid \in Path /\ at <= Len(oid) /\ node = SubSeq(oid, 1, at) /\ type[node] # "free"
  /\ pc = "insert" => Len(oid) \in 1 .. MIB_OID_MAX_LEN
  /\ pc = "find" /\ at > 0 =>
       sub_idx < Len(sub_ptr[parent]) /\ sub_ptr[parent][sub_idx + 1] = node
  /\ ~ Busy => stk = <<>> /\ p_nbl = NoEntry

\* Node n with backlog index n_idx, at depth d below the target of a deletion.
FrameSound(n, n_idx, d) ==
  /\ type[n] = "group" /\ Covers(Target, n) /\ Len(n) = Len(Target) + d
  /\ n_idx # None => n_idx \in 1 .. (Len(sub_ptr[n]) - 1)

\* The node that a deletion is at, at depth d.
Visited(n, d) ==
  IF d = 0 THEN n = Target
  ELSE LET c == AtChild(stk[d].node, stk[d].n_idx)
       IN  c > 0 /\ sub_ptr[stk[d].node][c] = n

\* The stack of __mib_tree_delete holds the path from the node to be deleted to
\* the node it is at, so that it never has more entries than there are
\* sub-identifiers, and nbl_push never finds it full.
DeletionSound ==
  Busy =>
    /\ sub_idx < Len(sub_ptr[parent])
    /\ \A k \in 1 .. Len(stk) :
         FrameSound(stk[k].node, stk[k].n_idx, k - 1) /\ Visited(stk[k].node, k - 1)
    /\ pc = "delete" /\ node # NULL =>
         /\ type[node] # "free" /\ Covers(Target, node) /\ Len(node) = Len(Target) + Len(stk)
         /\ Visited(node, Len(stk))
         /\ p_nbl # NoEntry => FrameSound(node, p_nbl, Len(stk))
    /\ pc = "delete" /\ node = NULL =>
         /\ stk # <<>> /\ p_nbl = NoEntry
         /\ AtChild(Last(stk).node, Last(stk).n_idx) = 0

\* The tree is sound as a data structure at every step of a registration or a
\* removal: the binary search of a group finds ascending sub-identifiers within
\* the memory allocated, and the pointers beside them lead to exactly the nodes
\* in memory.
TreeSound == ArraysSound /\ LinksSound /\ WalkSound /\ DeletionSound

\* The handler of an instance is alive, and no two instances share one, so that
\* mib_handler_unref hits each handler once; nor does the registration under way.
HandlersLive ==
  /\ \A p, q \in Path : Instance(p) =>
       /\ callback[p] \in refs
       /\ Instance(q) /\ p # q => callback[p] # callback[q]
  /\ pc = "insert" => cb \in refs /\ \A p \in Path : Instance(p) => callback[p] # cb

\* Every registration and unregistration returns: the loops end.
CallReturns == pc # "idle" ~> pc = "idle"
-----------------------------------------------------------------------------
(***************************************************************************)
(* Seen from outside a registration happens when the walk meets a group    *)
(* without children, from where it cannot fail, or makes the first node;   *)
(* an unregistration when the node to delete is found.                     *)
(***************************************************************************)
Decided == Inserting /\ is_raw_group(node)
Going(p) == Busy /\ Covers(Target, p)

Instances ==
  {<<p, callback[p]>> : p \in {q \in Path : Instance(q) /\ ~ Going(q)}}
    \cup (IF Decided THEN {<<oid, cb>>} ELSE {})

Groups ==
  {p \in Path : type[p] = "group" /\ ~ Going(p)}
    \cup (IF Decided THEN {p \in Path : Covers(p, oid) /\ p # oid} ELSE {})

References ==
  refs \ ({callback[p] : p \in {q \in Path : Instance(q) /\ Going(q)}}
            \cup (IF pc = "insert" /\ ~ Decided THEN {cb} ELSE {}))

Returned == IF Decided THEN 0 ELSE ret

Registry == INSTANCE MibRegistry WITH
  MaxLen <- MIB_OID_MAX_LEN,
  instances <- Instances, groups <- Groups, refs <- References, ret <- Returned

\* The tree of nodes and arrays implements a plain set of oids with handlers: a
\* registration adds exactly one, or fails for an overlap and changes nothing;
\* an unregistration removes one whole subtree and releases its handlers.
ImplementsRegistry == Registry!Spec
=============================================================================
