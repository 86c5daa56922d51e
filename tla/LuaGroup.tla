------------------------------ MODULE LuaGroup ------------------------------
(***************************************************************************)
(* The handler of a mib group: mib_node_search of lualib/smartsnmp/init.lua *)
(* with the index table it makes for every call and the search through it, *)
(* called by mib_instance_search of src/core/mib_tree.c.                   *)
(*                                                                         *)
(* A group is a record: scalars, a set of object numbers; tables, which    *)
(* gives for an object number the entry number (NoEntry for a table        *)
(* without one), the numbers of the columns, and the dimensions of the     *)
(* index, each a set of elements; access and tag of every variable, and    *)
(* failing, the instances whose get function reports an error.  A variable *)
(* is named by its oid in the group, <<object>> or <<object, entry,        *)
(* column>>, an instance by that of the variable and the index.  An index  *)
(* element is a sequence: of one id, or of several if the table's keys are *)
(* strings.                                                                *)
(*                                                                         *)
(* The Lua error raised anywhere in the handler is caught by lua_pcall.    *)
(***************************************************************************)
EXTENDS MibLookup, SequencesExt

CONSTANTS
  Groups,          \* the groups considered
  Requests         \* records [op, oid, tag]: what mib_instance_search is asked

NoEntry == 0
UNACCESS == 6
WRONG_TYPE == 7
NOT_WRITABLE == 17

VARIABLES
  group,           \* the group,
  value,           \* and the Lua type of the value that each instance has now
  call,            \* the call being served
  pc,              \* "idle", "collect", "separate", "serve", "getnext", "read"
                   \* or "done"
  unseen,          \* objects that pairs(group) has not come to
  scalars,         \* scalar_indexes[1]
  tab,             \* group_indexes
  i,               \* position in it
  oid,             \* the table that req_sub_oid and rsp_sub_oid both name
  offset, dim, record, \* arguments of getnext; record[d] is [offset, pos]
  set_called,      \* instances of which the set function was called, and tag
  rsp              \* what mib_instance_search leaves in ret_oid: err, tag, oid

gen == <<unseen, scalars, tab>>
next == <<offset, dim, record>>
vars == <<group, value, call, pc, gen, i, oid, next, set_called, rsp>>

Variables(g) == DOMAIN g.access
Objects(g) == g.scalars \cup DOMAIN g.tables

NoCall == [op |-> "NONE", oid |-> <<>>, tag |-> "NUL"]
NoAnswer == [err |-> 0, tag |-> "NUL", oid |-> <<>>]

Init ==
  /\ group \in Groups /\ value = group.value
  /\ call = NoCall /\ pc = "idle"
  /\ unseen = {} /\ scalars = {} /\ tab = <<>> /\ i = 1
  /\ oid = <<>> /\ offset = 1 /\ dim = 1 /\ record = <<>>
  /\ set_called = {} /\ rsp = NoAnswer

\* mib_instance_search calls the handler, which begins with the index table.
mib_instance_search(c) ==
  /\ pc = "idle"
  /\ call' = c /\ oid' = c.oid
  /\ pc' = "collect"
  /\ unseen' = Objects(group) /\ scalars' = {} /\ tab' = <<>> /\ i' = 1
  /\ offset' = 1 /\ dim' = 1 /\ record' = <<>>
  /\ set_called' = {} /\ rsp' = NoAnswer
  /\ UNCHANGED <<group, value>>
-----------------------------------------------------------------------------
\* A dimension: its elements in ascending order (table.sort).
Ascending(S) == SetToSortSeq(S, OidLess)

Ids(S) == {<<n>> : n \in S}

\* The matrix of table n: object, entry and column numbers, and the index.
Matrix(n) ==
  LET t == group.tables[n]
  IN  IF t.entry = NoEntry THEN << <<<<n>>>> >>
      ELSE << <<<<n>>>>, <<<<t.entry>>>>, Ascending(Ids(t.columns)) >>
             \o [d \in 1 .. Len(t.indexes) |-> Ascending(t.indexes[d])]

Number(matrix) == matrix[1][1][1]

\* mutant: the table goes to the end
Mut_Position(n) == Len(tab) + 1

\* Where the insertion sort by table number puts table n.
Position(n) ==
  LET greater == {k \in 1 .. Len(tab) : n < Number(tab[k])}
  IN  IF greater = {} THEN Len(tab) + 1 ELSE Min(greater)

\* pairs visits the objects in an order of its own.
Collect(n) ==
  /\ pc = "collect" /\ n \in unseen
  /\ unseen' = unseen \ {n}
  /\ IF n \in group.scalars
     THEN scalars' = scalars \cup {n} /\ UNCHANGED tab
     ELSE tab' = InsertAt(tab, Position(n), Matrix(n)) /\ UNCHANGED scalars
  /\ UNCHANGED <<group, value, call, pc, i, oid, next, set_called, rsp>>

CollectEnd ==
  /\ pc = "collect" /\ unseen = {}
  /\ pc' = "separate"
  /\ UNCHANGED <<group, value, call, gen, i, oid, next, set_called, rsp>>

ScalarMatrix(S) == << Ascending(Ids(S)), <<<<0>>>> >>

\* The scalars ahead of the table at i become a matrix of their own.
Separate ==
  LET ahead == {n \in scalars : n <= Number(tab[i])}
  IN  /\ pc = "separate" /\ i <= Len(tab)
      /\ IF ahead = {}
         THEN i' = i + 1 /\ UNCHANGED tab
         ELSE i' = i + 2 /\ tab' = InsertAt(tab, i, ScalarMatrix(ahead))
      /\ scalars' = scalars \ ahead
      /\ UNCHANGED <<group, value, call, pc, unseen, oid, next, set_called, rsp>>

SeparateEnd ==
  /\ pc = "separate" /\ i > Len(tab)
  /\ tab' = IF scalars = {} THEN tab ELSE Append(tab, ScalarMatrix(scalars))
  /\ scalars' = {}
  /\ pc' = "serve" /\ i' = 1
  /\ UNCHANGED <<group, value, call, unseen, oid, next, set_called, rsp>>

group_index_table_generator == (\E n \in unseen : Collect(n)) \/ CollectEnd \/ Separate \/ SeparateEnd
-----------------------------------------------------------------------------
\* What lua_pcall and the code after it make of the values returned: an oid is
\* taken over for GETNEXT only, and not with an error or without a value.
Answer(err, tag, o) ==
  [err |-> err, tag |-> tag,
   oid |-> IF err = 0 /\ tag \notin {"NO_SUCH_OBJ", "NO_SUCH_INST"} /\ call.op = "GETNEXT"
           THEN o ELSE call.oid]

Raised == Answer(0, "NO_SUCH_OBJ", call.oid)

Respond(r) == rsp' = r /\ pc' = "done"

\* The dimension of the matrix that has the object; 0 stands for nil.
effective_object_index ==
  LET at == {k \in 1 .. Len(tab) : oid # <<>> /\ \E j \in 1 .. Len(tab[k][1]) : tab[k][1][j] = <<oid[1]>>}
  IN  IF at = {} THEN 0 ELSE Len(tab[Min(at)])

IsScalar == effective_object_index = 2
IsTable == effective_object_index >= 4

Variable(o) == IF Len(o) = 2 THEN <<o[1]>> ELSE SubSeq(o, 1, 3)
Column == Len(oid) >= 3 /\ Variable(oid) \in Variables(group)

\* The Lua type that goes with a tag, and that of the value that
\* mib_instance_search pushes for a SET.
LuaType(tag) ==
  CASE tag = "INT" -> "number" [] tag = "OCTSTR" -> "string" [] OTHER -> "table"

Pushed(tag) == IF tag = "IPADDR" THEN "string" ELSE LuaType(tag)

Accessible ==
  IF IsScalar THEN group.access[<<oid[1]>>] # "UNA"
  ELSE IsTable /\ Column /\ group.access[Variable(oid)] # "UNA"

\* The oid names an instance, one that exists or not.
Instance == IF IsScalar THEN oid = <<oid[1], 0>> ELSE Len(oid) >= 4

Serving(op) == pc = "serve" /\ call.op = op

\* mutant: the type is not checked
Mut_SetVerdict ==
  CASE ~ IsScalar /\ ~ IsTable -> NOT_WRITABLE
    [] (IsScalar \/ IsTable) /\ ~ (Accessible /\ Instance) -> UNACCESS
    [] OTHER -> 0

SetVerdict ==
  CASE ~ IsScalar /\ ~ IsTable -> NOT_WRITABLE
    [] (IsScalar \/ IsTable) /\ ~ (Accessible /\ Instance) -> UNACCESS
    [] OTHER -> IF call.tag # group.tag[Variable(oid)] THEN WRONG_TYPE ELSE 0

\* A read-only variable has no set function: calling it is an error.
HasSetF == SetVerdict = 0 /\ group.access[Variable(oid)] = "RW"

\* handlers[SNMP_REQ_SET] without a call of the set function.
SetRefused ==
  /\ Serving("SET") /\ ~ HasSetF
  /\ Respond(IF SetVerdict # 0 THEN Answer(SetVerdict, call.tag, oid) ELSE Raised)
  /\ UNCHANGED <<group, value, call, gen, i, oid, next, set_called>>

\* The set function stores the value unless it reports error e; afterwards the
\* type of the value is checked.
SetCalled(e) ==
  /\ Serving("SET") /\ HasSetF
  /\ set_called' = {oid}
  /\ value' = IF e = 0 /\ oid \in DOMAIN value THEN [value EXCEPT ![oid] = Pushed(call.tag)] ELSE value
  /\ Respond(IF Pushed(call.tag) = LuaType(call.tag) THEN Answer(e, call.tag, oid) ELSE Raised)
  /\ UNCHANGED <<group, call, gen, i, oid, next>>

\* The values that the get function of an instance returns, and the check of them.
Got(o) ==
  LET tag == group.tag[Variable(o)]
  IN  IF value[o] = LuaType(tag) THEN Answer(IF o \in group.failing THEN GEN_ERR ELSE 0, tag, o) ELSE Raised

\* handlers[SNMP_REQ_GET]
handle_get ==
  /\ Serving("GET")
  /\ Respond(CASE ~ Accessible -> Answer(0, "NO_SUCH_OBJ", oid)
               [] Accessible /\ (~ Instance \/ oid \notin DOMAIN value) -> Answer(0, "NO_SUCH_INST", oid)
               [] OTHER -> Got(oid))
  /\ UNCHANGED <<group, value, call, gen, i, oid, next, set_called>>
-----------------------------------------------------------------------------
it == tab[i]
elem == it[dim]

Enter == offset' = 1 /\ dim' = 1 /\ record' = <<>> /\ pc' = "getnext"

\* handlers[SNMP_REQ_GETNEXT]: the first matrix, if there is any.
handle_getnext ==
  /\ Serving("GETNEXT")
  /\ IF tab = <<>>
     THEN Respond(Answer(0, "NO_SUCH_OBJ", oid)) /\ UNCHANGED next
     ELSE Enter /\ UNCHANGED rsp
  /\ UNCHANGED <<group, value, call, gen, i, oid, set_called>>

\* Positions of the element that are equal, up to the first difference or the
\* end of the oid, where the subtraction raises an error.
Same(e) == {j \in 0 .. Len(e) : \A k \in 1 .. j : offset + k - 1 <= Len(oid) /\ oid[offset + k - 1] = e[k]}

RaisesAt(e) == Max(Same(e)) < Len(e) /\ offset + Max(Same(e)) > Len(oid)

compare(e) ==
  LET j == Max(Same(e))
  IN  CASE j < Len(e) -> oid[offset + j] - e[j + 1]
        [] j = Len(e) /\ Len(e) > 1 -> Len(oid) - offset + 1 - Len(e)
        [] OTHER -> 0

\* The element at which the loop over the dimension is left.
Stops(k) ==
  \/ RaisesAt(elem[k]) \/ compare(elem[k]) < 0
  \/ compare(elem[k]) = 0 /\ dim < Len(it)

StopsAt == {k \in 1 .. Len(elem) : Stops(k)}

\* Element k is taken: down to the next dimension.
Record(k) ==
  /\ record' = Append(SubSeq(record, 1, dim - 1), [offset |-> offset, pos |-> k])
  /\ offset' = offset + Len(elem[k]) /\ dim' = dim + 1

concat(o, e) == SubSeq(oid, 1, o - 1) \o e

\* mutant: an oid at an inner dimension keeps what follows
Mut_Take(k, o) ==
  /\ oid' = IF Len(oid) >= offset THEN [oid EXCEPT ![offset] = elem[k][1]] ELSE o
  /\ IF dim = Len(it) THEN pc' = "read" /\ UNCHANGED next ELSE Record(k) /\ UNCHANGED pc

\* Element k becomes part of the oid, which is the result at the last dimension.
Take(k, o) ==
  /\ oid' = o
  /\ IF dim = Len(it) THEN pc' = "read" /\ UNCHANGED next ELSE Record(k) /\ UNCHANGED pc

\* The matrix has nothing to offer: the next one, or the end.
NextMatrix ==
  /\ i' = i + 1
  /\ IF i < Len(tab)
     THEN Enter /\ UNCHANGED rsp
     ELSE Respond(Answer(0, "NO_SUCH_OBJ", oid)) /\ UNCHANGED next

InGetnext == pc = "getnext" /\ elem # <<>>
Rest == <<group, value, call, gen, set_called>>

EmptyDim ==
  /\ pc = "getnext" /\ elem = <<>>
  /\ NextMatrix
  /\ UNCHANGED <<Rest, oid>>

FirstElement ==
  /\ InGetnext /\ offset > Len(oid)
  /\ Take(1, oid \o elem[1])
  /\ UNCHANGED <<Rest, i, rsp>>

Scan ==
  LET k == Min(StopsAt)
  IN  /\ InGetnext /\ offset <= Len(oid) /\ StopsAt # {}
      /\ CASE RaisesAt(elem[k]) ->
                Respond(Raised) /\ UNCHANGED <<oid, next>>
           [] ~ RaisesAt(elem[k]) /\ compare(elem[k]) < 0 ->
                Take(k, concat(offset, elem[k])) /\ UNCHANGED rsp
           [] OTHER -> Record(k) /\ UNCHANGED <<oid, pc, rsp>>
      /\ UNCHANGED <<Rest, i>>

\* The dimensions above that have a further element.
Open == {d \in 1 .. (dim - 1) : record[d].pos < Len(it[d])}

\* mutant: the outermost one that has
Mut_BackTo == Min(Open)

BackTo == Max(Open)

Backtrack ==
  /\ InGetnext /\ offset <= Len(oid) /\ StopsAt = {}
  /\ IF Open = {}
     THEN NextMatrix /\ UNCHANGED oid
     ELSE /\ dim' = BackTo /\ offset' = record[BackTo].offset
          /\ oid' = concat(record[BackTo].offset, it[BackTo][record[BackTo].pos + 1])
          /\ UNCHANGED <<i, record, pc, rsp>>
  /\ UNCHANGED Rest

getnext == EmptyDim \/ FirstElement \/ Scan \/ Backtrack
-----------------------------------------------------------------------------
Readable(o) == o \in DOMAIN value /\ group.access[Variable(o)] # "UNA"

\* mutant: the column number stays
Mut_SkipColumn == IF Len(oid) = 2 THEN oid ELSE [oid EXCEPT ![4] = 0]

\* Where the search goes on behind an instance that cannot be read.
SkipColumn == IF Len(oid) = 2 THEN oid ELSE [oid EXCEPT ![3] = @ + 1, ![4] = 0]

ReadMalformed ==
  /\ pc = "read" /\ Len(oid) # 2 /\ Len(oid) < 4
  /\ Respond(Raised)
  /\ UNCHANGED <<Rest, i, oid, next>>

ReadValue ==
  /\ pc = "read" /\ Len(oid) \notin {1, 3} /\ Readable(oid)
  /\ Respond(Got(oid))
  /\ UNCHANGED <<Rest, i, oid, next>>

ReadNothing ==
  /\ pc = "read" /\ Len(oid) \notin {1, 3} /\ ~ Readable(oid)
  /\ oid' = SkipColumn
  /\ Enter
  /\ UNCHANGED <<Rest, i, rsp>>

\* The result has been used by the search in the mib-tree.
Taken ==
  /\ pc = "done"
  /\ pc' = "idle" /\ call' = NoCall /\ tab' = <<>> /\ i' = 1 /\ oid' = <<>>
  /\ offset' = 1 /\ dim' = 1 /\ record' = <<>> /\ set_called' = {} /\ rsp' = NoAnswer
  /\ UNCHANGED <<group, value, unseen, scalars>>

mib_node_search ==
  \/ group_index_table_generator
  \/ SetRefused \/ (\E e \in {0, GEN_ERR} : SetCalled(e)) \/ handle_get \/ handle_getnext
  \/ getnext \/ ReadMalformed \/ ReadValue \/ ReadNothing

Next == (\E c \in Requests : mib_instance_search(c)) \/ mib_node_search \/ Taken

\* The handler runs once it is called, and its result is taken.
Spec == Init /\ [][Next]_vars /\ WF_vars(mib_node_search) /\ WF_vars(Taken)
-----------------------------------------------------------------------------
\* The instances that the index lists make, and those of them to be answered.
Candidates ==
  {<<n, 0>> : n \in group.scalars} \cup
  UNION {LET t == group.tables[n]
             rows == IF Len(t.indexes) = 1 THEN t.indexes[1]
                     ELSE {x \o y : x \in t.indexes[1], y \in t.indexes[2]}
         IN  {<<n, t.entry, c>> \o x : c \in t.columns, x \in rows} :
         n \in {m \in DOMAIN group.tables : Len(group.tables[m].indexes) \in {1, 2}}}

Beyond(o) == {x \in Candidates : OidLess(o, x) /\ Readable(x)}

\* The oid asked for is cut off in the middle of an index of several ids.
CutOff(o) ==
  \E n \in DOMAIN group.tables : \E d \in DOMAIN group.tables[n].indexes :
    \E e \in group.tables[n].indexes[d] :
      Len(o) > 3 /\ o[1] = n /\ Len(o) < 3 + Len(e) /\ Covers(SubSeq(o, 4, Len(o)), e)

\* Every table has an index, and every value the Lua type of its tag.
WellFormed ==
  /\ \A n \in DOMAIN group.tables : group.tables[n].indexes # <<>>
  /\ \A o \in DOMAIN value : value[o] = LuaType(group.tag[Variable(o)])

Done(op) == pc = "done" /\ call.op = op

\* Whatever order pairs visits the objects in, group_index_table_generator makes
\* an index table with every object once and in ascending order, each table with
\* a matrix of its own: getnext goes through it from the front.
IndexTableOrdered ==
  pc \in {"serve", "getnext", "read", "done"} =>
    LET firsts == FlattenSeq([k \in 1 .. Len(tab) |-> tab[k][1]])
    IN  /\ firsts = Ascending(Ids(Objects(group)))
        /\ \A k \in 1 .. Len(tab) :
             LET objs == {e[1] : e \in Range(tab[k][1])}
             IN  IF objs \subseteq group.scalars THEN tab[k] = ScalarMatrix(objs)
                 ELSE tab[k] = Matrix(Number(tab[k]))

\* GETNEXT answers with an instance beyond the oid asked for, of the right tag,
\* and one that can be read: the oid is rewritten in place, dimension by
\* dimension, and cut off and continued on the way.
NextIsInstance ==
  Done("GETNEXT") /\ rsp.err = 0 /\ rsp.tag # "NO_SUCH_OBJ" =>
    rsp.oid \in Beyond(call.oid) /\ rsp.tag = group.tag[Variable(rsp.oid)]

\* GETNEXT passes over an instance that can be read only if an instance of the
\* same table ahead of it cannot: then getnext goes on in the next column, beyond
\* index 0.  (An oid cut off within an index of several ids, a table without
\* index and a value of another type raise an error in the handler.)
NothingSkipped ==
  Done("GETNEXT") /\ WellFormed /\ ~ CutOff(call.oid) /\ rsp.err = 0 =>
    \A x \in Beyond(call.oid) :
      \/ rsp.tag # "NO_SUCH_OBJ" /\ ~ OidLess(x, rsp.oid)
      \/ \E u \in Candidates : ~ Readable(u) /\ u[1] = x[1] /\ Len(x) > 2 /\ OidLess(call.oid, u) /\ OidLess(u, x)

\* A set function is called for a variable that has one and with a value of its
\* type only, and what is answered is what it did, for all types but IpAddress:
\* that one is stored, in a form that the get function cannot return, and then
\* refused (return_value_check).
SetAnswered ==
  Done("SET") =>
    /\ \A o \in set_called :
         o = call.oid /\ group.access[Variable(o)] = "RW" /\ call.tag = group.tag[Variable(o)]
    /\ rsp.err = 0 /\ rsp.tag # "NO_SUCH_OBJ" => set_called = {call.oid}
    /\ set_called # {} /\ rsp.tag = "NO_SUCH_OBJ" <=> set_called # {} /\ call.tag = "IPADDR"

\* The handler returns: the search through the index table ends, in groups with
\* empty tables, absent rows and columns that cannot be read.
HandlerReturns == pc # "idle" ~> pc = "idle"
=============================================================================
