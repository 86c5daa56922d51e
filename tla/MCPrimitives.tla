---------------------------- MODULE MCPrimitives ----------------------------
(***************************************************************************)
(* The loops over oids, the BER codec and the codecs of SNMP and AgentX    *)
(* messages: one of these machines per behaviour, while the others are     *)
(* where they end.                                                         *)
(***************************************************************************)
EXTENDS OidCmp, OidSearch, BerCodec, SnmpCodec, AgentXCodec, FiniteSets, FiniteSetsExt

VARIABLE machine   \* the one that runs

AllVars == <<machine, CmpVars, SearchVars, BerVars, CodecVars, XVars>>

CmpEnded == src = <<>> /\ target = <<>> /\ i = 0 /\ cmp_pc = "done" /\ cmp_ret = 0
SearchEnded ==
  arr = <<>> /\ oid = 0 /\ low = -1 /\ high = 0 /\ search_pc = "done" /\ search_ret = -1

Init ==
  \/ machine = "cmp" /\ CmpInit /\ SearchEnded /\ BerIdle /\ CodecInit /\ XIdle
  \/ machine = "search" /\ CmpEnded /\ SearchInit /\ BerIdle /\ CodecInit /\ XIdle
  \/ machine = "ber" /\ CmpEnded /\ SearchEnded /\ BerInit /\ CodecInit /\ XIdle
  \/ machine = "codec" /\ CmpEnded /\ SearchEnded /\ BerIdle /\ CodecInit /\ XIdle
  \/ machine = "agentx" /\ CmpEnded /\ SearchEnded /\ BerIdle /\ CodecInit /\ XInit

Search ==
  machine = "search" /\ SearchNext /\ UNCHANGED <<machine, CmpVars, BerVars, CodecVars, XVars>>

Next ==
  \/ machine = "cmp" /\ CmpNext /\ UNCHANGED <<machine, SearchVars, BerVars, CodecVars, XVars>>
  \/ Search
  \/ machine = "ber" /\ BerNext /\ UNCHANGED <<machine, CmpVars, SearchVars, CodecVars, XVars>>
  \/ machine = "codec" /\ CodecNext /\ UNCHANGED <<machine, CmpVars, SearchVars, BerVars, XVars>>
  \/ machine = "agentx" /\ XNext /\ UNCHANGED <<machine, CmpVars, SearchVars, BerVars, CodecVars>>

Spec == Init /\ [][Next]_AllVars /\ WF_AllVars(Search)
-----------------------------------------------------------------------------
\* Every oid of up to three of these sub-identifiers: small ones and, Half being
\* 4, ones beyond 2^31.
MCOids == UNION {[1 .. n -> {0, 1, 3, 4, 7}] : n \in 0 .. 3}

\* Every strictly sorted array of up to five sub-identifiers.
MCArr == {a \in UNION {[1 .. n -> SubId] : n \in 0 .. 5} : StrictlySorted(a)}

\* Numbers around every place where the number of bytes changes, for an int of
\* three bytes; oids with sub-identifiers of one to five bytes, with first bytes
\* that BER can express and others, and of more than 255 bytes; strings.
Edges == {128, 256, 32768, 65536, 8388608, 16777216}
Near == UNION {(e - 2) .. (e + 1) : e \in Edges} \cup (0 .. 260)
MCValues ==
  [type : {"INT", "CNT"}, v : {n \in Near \cup {0 - n : n \in Near} : n \in -8388608 .. 8388607}]
  \cup [type : {"GAU", "TIMETICKS"}, v : {n \in Near : n < 16777216}]
  \cup [type : {"OBJID"},
        v : {f \o t : f \in {<<0, 0>>, <<1, 3>>, <<2, 39>>, <<1, 40>>, <<6, 15>>, <<6, 16>>},
                      t \in UNION {[1 .. n -> {0, 127, 128, 16383, 16384, 268435456, 2147483647}] : n \in 0 .. 2}}
            \cup {<<>>, <<1>>}
            \cup {[k \in 1 .. 64 |-> IF k <= 2 THEN 1 ELSE x] : x \in {127, 2097152, 268435456}}]
  \cup [type : {"OCTSTR", "IPADDR", "NUL"}, v : {<<>>}]
  \cup [type : {"OCTSTR"}, v : {[k \in 1 .. n |-> 7] : n \in {1, 4, 127, 128, 255, 256, 300}}]
-----------------------------------------------------------------------------
\* Bindings with what the search finds for them.
Found(o, type, v, err) == [oid |-> o, type |-> type, v |-> v, err |-> err]
Binding(o, value_len, found) ==
  [tag |-> "SEQ", oid_tag |-> "OBJID", oid |-> ber_oid_enc(o), value_len |-> value_len,
   len |-> Tlv(Len(ber_oid_enc(o))) + Tlv(value_len), found |-> found]

OidA == <<1, 3, 6>>
OidB == <<1, 3, 6, 200>>
A == Binding(OidA, 0, Found(OidA, "INT", 128, 0))
B == Binding(OidB, 2, Found(OidA, "OCTSTR", [k \in 1 .. 130 |-> 7], 0))
E == Binding(OidB, 0, Found(OidB, "NUL", <<>>, 5))
Lists == {<<>>, <<A>>, <<A, B>>, <<E, A>>}

\* 64 sub-identifiers in 249, 255, 256 or 311 bytes, as a name and as a value;
\* oids to be set, of fewer, of as many and of more bytes than elements.
Wide(n) == [k \in 1 .. 64 |-> IF k <= 2 THEN 1 ELSE IF k <= 2 + n THEN 268435456 ELSE 2097152]
WideOids == {Wide(n) : n \in {0, 6, 7, 62}}
Echoed(o) == Binding(o, 0, Found(o, "NUL", <<>>, 0))
Names(o) == Binding(OidA, 0, Found(OidA, "OBJID", o, 0))
OidLists ==
  {<<A, Echoed(o)>> : o \in WideOids}
  \cup {<<Names(o)>> : o \in WideOids \cup {OidA, OidB, <<1, 3, 200, 200>>, <<>>, <<1>>}}
Many == [k \in 1 .. 130 |-> IF k = 130 THEN E ELSE A]

Size(vbs) ==
  MapThenSumSet(LAMBDA vb : Tlv(vb.len) * Cardinality({k \in DOMAIN vbs : vbs[k] = vb}),
                {vbs[k] : k \in DOMAIN vbs})

\* A request: ints gives the integers, extra the field that is one byte longer
\* than necessary.  The lengths of containers other than the list of bindings are
\* not used by the decoder.
Datagram(ver, type, ints, extra, strlen, vbs) ==
  [tag |-> "SEQ", fits |-> TRUE, vbs |-> vbs,
   hdr |-> [k \in DOMAIN Layout(ver) |->
     LET f == Layout(ver)[k]
         n == IF f.name = "ver" THEN ver ELSE IF f.name \in DOMAIN ints THEN ints[f.name] ELSE 1
     IN  CASE f.tag = "INT" -> [tag |-> "INT", val |-> n,
                                len |-> ber_int_enc_try(n) + (IF extra = f.name THEN 1 ELSE 0)]
           [] f.tag = "PDU" -> [tag |-> type, val |-> 0, len |-> 0]
           [] OTHER -> [tag |-> f.tag, val |-> 0,
                        len |-> CASE f.name = "vb_list" -> Size(vbs)
                                  [] f.name = "msg_flags" -> 1
                                  [] f.name \in DOMAIN SizeOf -> strlen
                                  [] OTHER -> 0]]]

Pdu0(err_stat, err_idx, req_id) == [err_stat |-> err_stat, err_idx |-> err_idx, req_id |-> req_id]
Plain == Pdu0(0, 0, 200)
Ok(ver) == Datagram(ver, "GET", Plain, "none", 9, <<A, B>>)

Answered ==
  {Datagram(ver, type, Plain, "none", 9, vbs) :
     ver \in {1, 3}, type \in {"GET", "GETNEXT", "SET", "RESP"}, vbs \in Lists}
  \cup {Datagram(3, "GET", Plain, extra, 9, <<E, A>>) :
          extra \in {"ver", "req_id", "err_stat", "err_idx", "msg_id", "engine_time"}}
  \cup {Datagram(ver, "BULKGET", Pdu0(nr, reps, 70000), "none", 32, vbs) :
          ver \in {1, 3}, nr \in {0, 1}, reps \in {0, 2, 12}, vbs \in {<<A>>, <<E, B>>}}
  \cup {Datagram(ver, type, Plain, "none", 9, vbs) :
          ver \in {1, 3}, type \in {"GET", "SET"}, vbs \in OidLists}
  \cup {[Ok(3) EXCEPT !.hdr[5].len = n] : n \in {0, 4}}
  \cup {Datagram(1, "BULKGET", Pdu0(0, 130, 1), "none", 9, <<A>>),
        Datagram(1, "GET", Plain, "none", 9, Many)}

\* Flags that do not fit, alone and with a defect before and after them.
LongFlags == [Ok(3) EXCEPT !.hdr[5].len = FlagsRoom + 1]
Overrunning == {LongFlags, [LongFlags EXCEPT !.hdr[3].tag = "NUL"], [LongFlags EXCEPT !.hdr[6].tag = "NUL"]}

\* The same with one defect.
Defects ==
  {[Ok(3) EXCEPT !.hdr[k].tag = "NUL"] : k \in DOMAIN Layout(3)}
  \cup {[Ok(1) EXCEPT !.hdr[k].tag = "NUL"] : k \in DOMAIN Layout(1)}
  \cup {[Ok(3) EXCEPT !.hdr[k].len = SizeOf[Layout(3)[k].name]] :
          k \in {j \in DOMAIN Layout(3) : Layout(3)[j].name \in DOMAIN SizeOf}}
  \cup {[Ok(1) EXCEPT !.vbs[k].tag = "NUL"] : k \in 1 .. 2}
  \cup {[Ok(1) EXCEPT !.vbs[2].oid_tag = "NUL"], [Ok(1) EXCEPT !.vbs[2].value_len = 1025]}
  \cup {[Ok(1) EXCEPT !.vbs[2].oid = ber_oid_enc([k \in 1 .. 65 |-> 1])]}
  \cup {[Ok(1) EXCEPT !.tag = "NUL"], [Ok(1) EXCEPT !.fits = FALSE]}

MCDatagrams == Answered \cup Overrunning \cup Defects
-----------------------------------------------------------------------------
\* Oids of 0, 3, 5, 6, 64 and 65 sub-identifiers, one with a prefix over a byte.
Internet(s) == <<1, 3, 6, 1>> \o s
XOids ==
  {<<>>, <<1, 3, 6>>, Internet(<<2>>), Internet(<<0, 7>>), Internet(<<4, 1, 70000>>), Internet(<<300, 1>>)}
  \cup {Internet([k \in 1 .. n |-> k]) : n \in {60, 61}}

Valued ==
  [type : {"INT", "CNT", "GAU", "TIMETICKS", "CNT64"}, v : {0, 1, 256, 16777217}]
  \cup [type : {"OCTSTR"}, v : {Zeros(n) : n \in {0, 1, 3, 4, 5, 1024, 1025}}]
  \cup [type : {"IPADDR"}, v : {<<10, 0, 0, 1>>}]
  \cup [type : {"OBJID"}, v : XOids]
  \cup [type : {"NUL", "NO_SUCH_OBJ", "END_OF_MIB_VIEW"}, v : {0}]

XBindings == {XBinding(o, t.type, t.type, t.v) : o \in XOids, t \in Valued}
Refused == {XBinding(o, "NO_SUCH_INST", t.type, 0) : o \in XOids, t \in Valued}
Mixed == XBinding(Internet(<<2, 1>>), "OCTSTR", "OCTSTR", <<1, 2, 3, 4, 5>>)

XAnswer(type, list) == [kind |-> "answer", type |-> type, ctx_len |-> -1, list |-> list]
XRequest(type, ctx_len, list) == [kind |-> "request", type |-> type, ctx_len |-> ctx_len, list |-> list]

MCXMessages ==
  {XAnswer(type, l) : type \in {"GET", "TESTSET"},
                      l \in {<<>>} \cup {<<b>> : b \in XBindings} \cup {<<Mixed, b, Mixed>> : b \in XBindings}}
  \cup {XAnswer("TESTSET", l) : l \in {<<b, Mixed>> : b \in Refused}}
  \cup {XRequest(type, c, l) :
          type \in {"GET", "GETNEXT", "GETBULK"}, c \in {-1, 0, 1, 4, 40, 41},
          l \in {<<>>} \cup {<<XRange(s, si, e, ~ si)>> : s \in XOids, e \in XOids, si \in BOOLEAN}
               \cup {<<XRange(s, TRUE, <<>>, FALSE), XRange(Internet(<<2>>), FALSE, s, TRUE)>> : s \in XOids}}
=============================================================================
