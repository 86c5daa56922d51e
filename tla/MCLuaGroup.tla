----------------------------- MODULE MCLuaGroup -----------------------------
(* Groups with scalars around tables, a cascaded index with absent rows and *)
(* index 0, an index of two ids, a column that cannot be accessed, a table  *)
(* without rows, one without an entry, and a group without objects.         *)
EXTENDS LuaGroup

Table(columns, indexes) == [entry |-> 1, columns |-> columns, indexes |-> indexes]

\* A group: tables is a function of the object numbers, una and ro the variables
\* that cannot be accessed or set, ip those of type IpAddress.
Group(sc, tables, una, ro, ip, absent, failing) ==
  LET columns(n) == {<<n, 1, c>> : c \in tables[n].columns}
      all == Ids(sc) \cup UNION {columns(n) : n \in DOMAIN tables}
      rows(n) == IF tables[n].indexes = <<>> THEN {}
                 ELSE IF Len(tables[n].indexes) = 1 THEN tables[n].indexes[1]
                 ELSE {x \o y : x \in tables[n].indexes[1], y \in tables[n].indexes[2]}
      insts == {<<n, 0>> : n \in sc} \cup UNION {{c \o x : c \in columns(n), x \in rows(n)} : n \in DOMAIN tables}
      tag == [v \in all |-> IF v \in ip THEN "IPADDR" ELSE IF v[1] % 2 = 0 THEN "OCTSTR" ELSE "INT"]
  IN  [scalars |-> sc, tables |-> tables,
       access |-> [v \in all |-> IF v \in una THEN "UNA" ELSE IF v \in ro THEN "RO" ELSE "RW"],
       tag |-> tag, failing |-> failing,
       value |-> [o \in insts \ absent |-> LuaType(tag[Variable(o)])]]

Plain == Group({1, 2}, (3 :> Table({1, 2}, <<{<<1>>, <<2>>}>>)), {}, {<<1>>}, {<<3, 1, 2>>}, {}, {<<3, 1, 1, 2>>})
Around == Group({1, 3}, (2 :> Table({1, 3}, <<{<<0>>, <<2>>}>>)), {<<3>>}, {}, {}, {<<2, 1, 1, 2>>}, {})
Cascaded == Group({2}, (1 :> Table({1, 2, 3}, <<{<<1>>, <<2>>}, {<<0>>, <<2>>}>>)), {<<1, 1, 2>>}, {}, {}, {<<1, 1, 3, 2, 0>>}, {})
Pairs == Group({3}, (1 :> Table({1}, <<{<<1, 1>>, <<1, 3>>, <<2, 2>>}>>) @@ 2 :> Table({1}, <<{}>>)), {}, {}, {}, {}, {})
NoRows == Group({1, 3}, (2 :> [entry |-> NoEntry, columns |-> {}, indexes |-> <<>>]), {}, {}, {}, {<<1, 0>>}, {})
Nothing == Group({}, [n \in {} |-> 0], {}, {}, {}, {}, {})

MCGroups == {Plain, Around, Cascaded, Pairs, NoRows, Nothing}

\* MaxLen: one id more than the longest instance oid in Plain and Around.
MaxLen == 4
Short == UNION {[1 .. n -> 0 .. 3] : n \in 0 .. MaxLen}
Long == {<<1, 1>> \o s : s \in UNION {[1 .. n -> 0 .. 3] : n \in 1 .. 3}}

MCRequests ==
  [op : {"GETNEXT"}, oid : Short \cup Long, tag : {"NUL"}]
    \cup [op : {"GET"}, oid : {o \in Short : Len(o) < 3} \cup Long, tag : {"NUL"}]
    \cup [op : {"SET"}, oid : {o \in Short : Len(o) \in {1, 2}} \cup Long \cup {<<3, 1, 1, 1>>, <<3, 1, 2, 1>>}, tag : {"INT", "OCTSTR", "IPADDR"}]
=============================================================================
