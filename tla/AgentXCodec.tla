----------------------------- MODULE AgentXCodec -----------------------------
(***************************************************************************)
(* The bytes of AgentX messages: agentx_value_enc and agentx_value_dec     *)
(* (src/core/agentx_encoder.c, agentx_decoder.c), the response that        *)
(* agentx_response_pdu writes (agentx_msg_out.c) for the bindings that     *)
(* agentx_get, agentx_getnext or agentx_set collect (agentx_msg_proc.c),   *)
(* and the parsing of bindings and search ranges (agentx_msg_in.c).  A     *)
(* response is read back with the decoder that the agent has for responses,*)
(* a request is one of the master's.                                       *)
(*                                                                         *)
(* The byte order is that of the machine (little endian), whatever the     *)
(* flags of the message say: only the header, the type of a binding and    *)
(* the length of the context are converted.  Names that the SNMP codec has *)
(* too begin with x_ here.                                                 *)
(***************************************************************************)
EXTENDS Integers, Sequences
LOCAL INSTANCE SequencesExt

\* Records [kind, type, ctx_len, list]: an "answer" with the bindings (XBinding)
\* that the handler of type has collected, or a "request" of type with ranges
\* (XRange).  A ctx_len of -1 is a message without a context.
CONSTANT XMessages

X_OID_MAX_LEN == 64
X_VALUE_MAX_LEN == 1024
ContextSize == 41

XHdrSize == 20

\* A binding that a search has left: tag is that of the value found, type the one
\* that is answered (they differ if a variable to be set does not exist).
XBinding(oid, tag, type, v) == [oid |-> oid, tag |-> tag, type |-> type, v |-> v]
XRange(start, si, end, ei) == [start |-> start, start_include |-> si, end |-> end, end_include |-> ei]

TypeCode ==
  [INT |-> 2, OCTSTR |-> 4, NUL |-> 5, OBJID |-> 6, IPADDR |-> 64, CNT |-> 65, GAU |-> 66,
   TIMETICKS |-> 67, CNT64 |-> 70, NO_SUCH_OBJ |-> 128, NO_SUCH_INST |-> 129, END_OF_MIB_VIEW |-> 130]

Long == {"INT", "CNT", "GAU", "TIMETICKS"}
Text == {"OCTSTR", "IPADDR"}

U32(n) == <<n % 256, (n \div 256) % 256, (n \div 65536) % 256, n \div 16777216>>
U32At(b, p) == b[p] + 256 * b[p + 1] + 65536 * b[p + 2] + 16777216 * b[p + 3]
Zeros(n) == [i \in 1 .. n |-> 0]
U32s(s) == [j \in 1 .. 4 * Len(s) |-> U32(s[(j + 3) \div 4])[((j - 1) % 4) + 1]]

uint_sizeof(n) == ((n + 3) \div 4) * 4

VARIABLES
  x_pc,      \* "start", "write", "parse", "done" or "failed"
  x_msg,     \* the message
  x_pdu,     \* bytes of it
  x_room,    \* bytes allocated for it
  x_vbs,     \* vb_out_list: [oid, type, room, bytes]
  x_at,      \* position of the parser
  x_left,    \* pdu_hdr.payload_length (below 0 where the unsigned one wraps)
  x_list     \* vb_in_list or sr_in_list

XVars == <<x_pc, x_msg, x_pdu, x_room, x_vbs, x_at, x_left, x_list>>

XNoMessage == [kind |-> "request", type |-> "CLOSE", ctx_len |-> -1, list |-> <<>>]

XRest == x_pdu = <<>> /\ x_room = 0 /\ x_vbs = <<>> /\ x_at = 1 /\ x_left = 0 /\ x_list = <<>>
XIdle == x_pc = "done" /\ x_msg = XNoMessage /\ XRest
XInit == x_pc = "start" /\ x_msg \in XMessages /\ XRest
-----------------------------------------------------------------------------
\* The number of bytes for len elements.
agentx_value_enc_try(len, type) ==
  CASE type \in Long -> 4
    [] type = "CNT64" -> 8
    [] type = "OBJID" -> 4 * len
    [] type \in Text -> len
    [] OTHER -> 0

\* len sub-identifiers from v on; what lies behind v is 0 here.
agentx_value_enc(v, len, type) ==
  CASE type \in Long -> U32(v)
    [] type = "CNT64" -> U32(v) \o Zeros(4)
    [] type = "OBJID" -> U32s([i \in 1 .. len |-> IF i <= Len(v) THEN v[i] ELSE 0])
    [] type \in Text -> v
    [] OTHER -> <<>>

Elems(v, type) == IF type \in Text \cup {"OBJID"} THEN Len(v) ELSE 1

\* The end of the loop bodies of agentx_get, agentx_getnext and agentx_set: the
\* last one gives the number of bytes for that of elements.
Collected(b) ==
  LET room == agentx_value_enc_try(Elems(b.v, b.tag), b.tag)
      count == IF x_msg.type = "TESTSET" THEN room ELSE Elems(b.v, b.tag)
  IN  [oid |-> b.oid, type |-> b.type, room |-> room, bytes |-> agentx_value_enc(b.v, count, b.tag)]

\* An oid of n sub-identifiers takes a header, and those beyond the fifth.
ObjidSize(n) == 4 + (IF n > 5 THEN 4 * (n - 5) ELSE 0)

Objid(o, include) ==
  <<IF Len(o) > 5 THEN (Len(o) - 5) % 256 ELSE 0, IF Len(o) > 4 THEN o[5] % 256 ELSE 0, include, 0>>
    \o U32s(SubSeq(o, 6, Len(o)))

\* The loop that computes the length of the PDU, for one binding.
DataSize(vb) ==
  CASE vb.type \in Long -> 4
    [] vb.type = "CNT64" -> 8
    [] vb.type \in Text -> 4 + uint_sizeof(Len(vb.bytes))
    [] vb.type = "OBJID" -> ObjidSize(Len(vb.bytes) \div 4)
    [] OTHER -> 0

\* mutant: the padding of a string is not counted
Mut_VarbindSize(vb) ==
  4 + ObjidSize(Len(vb.oid)) + (IF vb.type \in Text THEN 4 + Len(vb.bytes) ELSE DataSize(vb))

VarbindSize(vb) == 4 + ObjidSize(Len(vb.oid)) + DataSize(vb)

\* n bytes that are read from a value whether they have been written or not.
Sized(bytes, n, junk) == IF Len(bytes) = n THEN bytes ELSE [i \in 1 .. n |-> junk]

Data(vb, junk) ==
  LET n == Len(vb.bytes)
  IN  CASE vb.type \in Long -> Sized(vb.bytes, 4, junk)
        [] vb.type = "CNT64" -> Sized(vb.bytes, 8, junk)
        [] vb.type \in Text -> U32(n) \o vb.bytes \o Zeros(uint_sizeof(n) - n)
        [] vb.type = "OBJID" -> Objid([i \in 1 .. (n \div 4) |-> U32At(vb.bytes, 4 * i - 3)], 0)
        [] OTHER -> <<>>

\* The first half of agentx_response_pdu: length, header and the fixed fields.
StartResponse ==
  LET vbs == [k \in 1 .. Len(x_msg.list) |-> Collected(x_msg.list[k])]
  IN  /\ x_pc = "start" /\ x_msg.kind = "answer"
      /\ x_vbs' = vbs
      /\ x_room' = XHdrSize + 8 + FoldLeft(LAMBDA n, vb : n + VarbindSize(vb), 0, vbs)
      /\ x_pdu' = Zeros(XHdrSize + 8)
      /\ x_pc' = "write" /\ x_at' = 1
      /\ UNCHANGED <<x_msg, x_left, x_list>>

\* One round of its second loop.
x_WriteVarbind ==
  /\ x_pc = "write" /\ x_at <= Len(x_vbs)
  /\ \E junk \in {0, 127} :
       LET vb == x_vbs[x_at]
       IN  x_pdu' = x_pdu \o <<TypeCode[vb.type], 0, 0, 0>> \o Objid(vb.oid, 0) \o Data(vb, junk)
  /\ x_at' = x_at + 1
  /\ UNCHANGED <<x_pc, x_msg, x_room, x_vbs, x_left, x_list>>
-----------------------------------------------------------------------------
\* What the master sends (external): a context, the fields of a GETBULK, ranges.
Include(b) == IF b THEN 1 ELSE 0

ContextBytes == IF x_msg.ctx_len < 0 THEN 0 ELSE 4 + uint_sizeof(x_msg.ctx_len)
FixedBytes == CASE x_msg.kind = "answer" -> 8 [] x_msg.type = "GETBULK" -> 4 [] OTHER -> 0

MasterSends ==
  LET ranges == [k \in 1 .. Len(x_msg.list) |->
                   Objid(x_msg.list[k].start, Include(x_msg.list[k].start_include))
                     \o Objid(x_msg.list[k].end, Include(x_msg.list[k].end_include))]
  IN  Zeros(XHdrSize + ContextBytes + FixedBytes) \o FlattenSeq(ranges)

\* agentx_decode fails: agentx_datagram_clear.
XFail == x_pc' = "failed" /\ x_list' = <<>>

\* pdu_hdr_parse: the context, if its length fits, and the fields of a response or
\* a GETBULK are taken off the payload.  An answer is received once it is written.
x_pdu_hdr_parse ==
  /\ IF x_msg.kind = "answer"
     THEN x_pc = "write" /\ x_at > Len(x_vbs) /\ UNCHANGED <<x_pdu, x_room>>
     ELSE x_pc = "start" /\ x_pdu' = MasterSends /\ x_room' = Len(MasterSends)
  /\ IF x_msg.ctx_len + 1 > ContextSize
     THEN XFail /\ UNCHANGED <<x_at, x_left>>
     ELSE /\ x_pc' = "parse" /\ x_list' = <<>>
          /\ x_at' = XHdrSize + ContextBytes + FixedBytes + 1
          /\ x_left' = x_room' - XHdrSize - ContextBytes - FixedBytes
  /\ UNCHANGED <<x_msg, x_vbs>>

\* The bytes that a value at position p takes in memory once it is decoded.  A
\* number is given eight, as the case has no break.
agentx_value_dec_try(p, type) ==
  CASE type \in Long \cup {"CNT64"} -> 8
    [] type \in Text -> U32At(x_pdu, p)
    [] type = "OBJID" -> IF x_pdu[p] = 0 /\ x_pdu[p + 1] = 0 THEN 0 ELSE 4 * (x_pdu[p] + 5)
    [] OTHER -> 0

\* The value, and how many bytes of the message it took.
agentx_value_dec(p, type) ==
  LET n == x_pdu[p]
      Sub(i) == U32At(x_pdu, p + 4 * i)
  IN  CASE type \in Long -> [v |-> U32At(x_pdu, p), used |-> 4]
        [] type = "CNT64" -> [v |-> U32At(x_pdu, p), used |-> 8]
        [] type \in Text -> [v |-> SubSeq(x_pdu, p + 4, p + 3 + U32At(x_pdu, p)),
                             used |-> 4 + uint_sizeof(U32At(x_pdu, p))]
        [] type = "OBJID" /\ n = 0 /\ x_pdu[p + 1] = 0 -> [v |-> <<>>, used |-> 4]
        [] type = "OBJID" /\ ~ (n = 0 /\ x_pdu[p + 1] = 0) ->
             [v |-> <<1, 3, 6, 1, x_pdu[p + 1]>> \o [i \in 1 .. n |-> Sub(i)], used |-> 4 + 4 * n]
        [] OTHER -> [v |-> <<>>, used |-> 0]

XStep(item, used) ==
  /\ x_list' = Append(x_list, item)
  /\ x_left' = x_left - used /\ x_at' = x_at + used
  /\ UNCHANGED x_pc

OidTooLong(p) == agentx_value_dec_try(p, "OBJID") \div 4 > X_OID_MAX_LEN

\* One round of var_bind_parse, with var_bind_alloc.
x_var_bind_parse ==
  /\ x_pc = "parse" /\ x_left > 0 /\ x_msg.kind = "answer"
  /\ LET type == CHOOSE t \in DOMAIN TypeCode : TypeCode[t] = x_pdu[x_at]
         o == agentx_value_dec(x_at + 4, "OBJID")
         at == x_at + 4 + o.used
         d == agentx_value_dec(at, type)
     IN  IF OidTooLong(x_at + 4) \/ agentx_value_dec_try(at, type) > X_VALUE_MAX_LEN
         THEN XFail /\ UNCHANGED <<x_left, x_at>>
         ELSE XStep([oid |-> o.v, type |-> type, v |-> d.v,
                     fits |-> /\ 4 * Len(o.v) <= agentx_value_dec_try(x_at + 4, "OBJID")
                              /\ agentx_value_enc_try(Elems(d.v, type), type) <= agentx_value_dec_try(at, type)],
                    4 + o.used + d.used)
  /\ UNCHANGED <<x_msg, x_pdu, x_room, x_vbs>>

\* One round of search_range_parse, with search_range_alloc.
x_search_range_parse ==
  /\ x_pc = "parse" /\ x_left > 0 /\ x_msg.kind = "request"
  /\ LET s == agentx_value_dec(x_at, "OBJID")
         at == x_at + s.used
         e == agentx_value_dec(at, "OBJID")
     IN  IF OidTooLong(x_at) \/ OidTooLong(at)
         THEN XFail /\ UNCHANGED <<x_left, x_at>>
         ELSE XStep(XRange(s.v, x_pdu[x_at + 2] # 0, e.v, x_pdu[at + 2] # 0), s.used + e.used)
  /\ UNCHANGED <<x_msg, x_pdu, x_room, x_vbs>>

x_parsed ==
  /\ x_pc = "parse" /\ x_left = 0
  /\ x_pc' = "done"
  /\ UNCHANGED <<x_msg, x_pdu, x_room, x_vbs, x_at, x_left, x_list>>

XNext ==
  \/ StartResponse \/ x_WriteVarbind
  \/ x_pdu_hdr_parse \/ x_var_bind_parse \/ x_search_range_parse \/ x_parsed
-----------------------------------------------------------------------------
\* The oids that a header with a prefix of one byte can express.
XExpressible(o) ==
  \/ o = <<>>
  \/ /\ Len(o) >= 5 /\ SubSeq(o, 1, 4) = <<1, 3, 6, 1>>
     /\ o[5] \in 0 .. 255 /\ (Len(o) = 5 => o[5] # 0)

XTooLong ==
  \/ x_msg.ctx_len >= ContextSize
  \/ \E k \in 1 .. Len(x_msg.list) :
       IF x_msg.kind = "request"
       THEN Len(x_msg.list[k].start) > X_OID_MAX_LEN \/ Len(x_msg.list[k].end) > X_OID_MAX_LEN
       ELSE Len(x_vbs[k].oid) > X_OID_MAX_LEN \/ Len(x_vbs[k].bytes) > X_VALUE_MAX_LEN

\* A value that agentx_set answers as a number of bytes for a number of
\* sub-identifiers.
Miscounted(b) == x_msg.type = "TESTSET" /\ b.tag = "OBJID" /\ b.v # <<>>

\* What agentx_response_pdu writes fills exactly what it allocated, and is read
\* back by var_bind_parse as the same bindings, and search_range_parse reads the
\* ranges that the master wrote: all of the payload is used, everything decoded
\* fits the memory allocated for it, and nothing is left after a failure, which
\* only too long an oid, value or context causes.  This is for oids that begin
\* with 1.3.6.1, as nothing else can be expressed; and the value of an object
\* identifier that agentx_set answers is excepted: it is written four times as
\* long as it is, past what was allocated for it.
AgentXRoundTrip ==
  /\ \A k \in 1 .. Len(x_vbs) :
       Len(x_vbs[k].bytes) <= x_vbs[k].room \/ Miscounted(x_msg.list[k])
  /\ Len(x_pdu) <= x_room /\ x_left >= 0
  /\ x_pc = "failed" => XTooLong /\ x_list = <<>>
  /\ x_pc = "done" =>
       /\ Len(x_pdu) = x_room /\ ~ XTooLong /\ Len(x_list) = Len(x_msg.list)
       /\ \A k \in 1 .. Len(x_msg.list) :
            LET b == x_msg.list[k]
                r == x_list[k]
            IN  IF x_msg.kind = "request"
                THEN XExpressible(b.start) /\ XExpressible(b.end) => r = b
                ELSE /\ r.fits /\ r.type = b.type
                     /\ XExpressible(b.oid) => r.oid = b.oid
                     /\ ~ Miscounted(b) /\ b.tag = b.type
                          /\ (b.type = "OBJID" => XExpressible(b.v))
                          /\ b.type \in Long \cup Text \cup {"OBJID", "CNT64"} => r.v = b.v
=============================================================================
