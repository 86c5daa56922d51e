------------------------------ MODULE MCAgentX ------------------------------
(* Two or three groups with up to two variables each, of which one cannot  *)
(* be read and one cannot be set; the master sends two requests, the first *)
(* of which has one or two search ranges or bindings of all kinds.         *)
EXTENDS AgentX

MCPath == {<<>>, <<1>>, <<2>>, <<1, 1>>, <<1, 2>>}
MCVar == {<<1, 1, 1>>, <<1, 1, 3>>, <<1, 2, 1>>, <<2, 1, 0>>, <<2, 2>>}
MCKnown == MCVar \cup {<<1, 1, 2>>}
MCObject == MCKnown \cup {<<2, 1>>}
MCTagOf == [x \in MCVar |-> IF x = <<1, 2, 1>> THEN "STR" ELSE "INT"]
MCGetFails == {<<2, 2>>}
MCSetFails == {<<1, 1, 3>>}

Op(op, oid) == [op |-> op, oid |-> oid, prefix |-> TRUE]

\* Separate groups; a group above others and its unregistration; an oid outside
\* of 1.3.6.1, and 1.3.6.1 itself.
MCScripts ==
  {<<Op("open", <<>>), Op("reg", <<1, 1>>), Op("reg", <<2>>)>>,
   <<Op("open", <<>>), Op("reg", <<1, 1>>), Op("reg", <<1>>), Op("unreg", <<1>>)>>,
   <<Op("open", <<>>), Op("reg", <<2>>), Op("unreg", <<2>>), Op("reg", <<1, 2>>)>>,
   <<Op("open", <<>>), [op |-> "reg", oid |-> <<2>>, prefix |-> FALSE], Op("reg", <<>>)>>}

Starts == {<<1>>, <<1, 1>>, <<1, 1, 1>>, <<1, 1, 2>>, <<1, 1, 3>>, <<2, 1>>}
Ends == {<<>>, <<1, 1, 3>>, <<2>>, <<2, 1, 0>>}

SearchRange(start, si, end, ei) ==
  [start |-> start, start_include |-> si, end |-> end, end_include |-> ei]

\* Whether the end is included matters where it is the oid of a variable.
Single == {<<SearchRange(s, i, e, j)>> :
             s \in Starts, e \in Ends \cap MCVar, i \in BOOLEAN, j \in BOOLEAN}
          \cup {<<SearchRange(s, i, e, FALSE)>> : s \in Starts, e \in Ends \ MCVar, i \in BOOLEAN}
Several == {<<SearchRange(s, i, <<2>>, FALSE), SearchRange(<<1, 1, 1>>, FALSE, e, FALSE)>> :
              s \in {<<1>>, <<1, 1, 1>>, <<1, 1, 3>>}, e \in {<<2>>, <<3>>}, i \in BOOLEAN}
Plain == {<<SearchRange(s, FALSE, <<>>, FALSE)>> : s \in Starts}
Sets == LET b == [oid : {<<1, 1>>, <<1, 1, 1>>, <<1, 1, 3>>}, tag : {"INT", "STR"}]
            second == [oid : {<<1, 1, 1>>, <<1, 1, 3>>}, tag : {"INT"}]
        IN  {<<x>> : x \in b} \cup {<<x, y>> : x \in b, y \in second}

Req(types, lists) == [type : types, list : lists]

MCEarlyRequests ==
  Req({"GETNEXT"}, {<<SearchRange(<<1>>, TRUE, <<2>>, FALSE)>>})
    \cup Req({"TESTSET"}, {<<[oid |-> <<1, 1, 1>>, tag |-> "INT"]>>})
    \cup Req({"BAD"}, {<<>>})

MCRequests ==
  MCEarlyRequests \cup Req({"GET"}, Plain) \cup Req({"GETNEXT"}, Single \cup Several)
    \cup Req({"GETBULK"}, Plain) \cup Req({"TESTSET"}, Sets)
    \cup Req({"COMMITSET", "UNDOSET", "CLEANUPSET", "INDEXALLOC"}, {<<>>})
=============================================================================
