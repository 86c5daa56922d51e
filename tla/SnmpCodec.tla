------------------------------ MODULE SnmpCodec ------------------------------
(***************************************************************************)
(* A message between datagram and request: snmpd_recv and snmp_decode      *)
(* (src/core/snmp_msg_in.c) take it apart field by field, the handlers     *)
(* collect the bindings of the response (snmp_msg_proc.c), and asn1_encode *)
(* and snmp_response (snmp_msg_out.c) compute all lengths and write it.    *)
(*                                                                         *)
(* struct snmp_datagram keeps, for each field, the length that was decoded *)
(* from the request.  asn1_encode uses these lengths again for the values  *)
(* it writes.  Lengths are real lengths here; the contents of strings are  *)
(* left out.  What the search finds for a binding is an input: module      *)
(* SnmpProc is about it.  Bytes beyond the end of an allocated block are   *)
(* taken to be written all the same; the properties say when there are     *)
(* any.                                                                    *)
(***************************************************************************)
EXTENDS Ber
LOCAL INSTANCE FiniteSetsExt

CONSTANT Datagrams   \* records [tag, fits, hdr, vbs], see MCPrimitives

\* The fields in the order in which they are decoded and written, with their tags.
F(name, tag) == [name |-> name, tag |-> tag]

Global ==
  << F("msg", "SEQ"), F("msg_id", "INT"), F("msg_size", "INT"), F("msg_flags", "OCTSTR"),
     F("msg_model", "INT") >>

Security ==
  << F("secur_str", "OCTSTR"), F("secur_para", "SEQ"), F("engine_id", "OCTSTR"),
     F("engine_boots", "INT"), F("engine_time", "INT"), F("user_name", "OCTSTR"),
     F("auth_para", "OCTSTR"), F("priv_para", "OCTSTR") >>

Scope == << F("scope", "SEQ"), F("context_id", "OCTSTR") >>

Pdu ==
  << F("context_name", "OCTSTR"), F("pdu", "PDU"), F("req_id", "INT"), F("err_stat", "INT"),
     F("err_idx", "INT"), F("vb_list", "SEQ") >>

Layout(version) ==
  << F("ver", "INT") >> \o (IF version >= 3 THEN Global \o Security \o Scope ELSE <<>>) \o Pdu

Name == {Layout(3)[k].name : k \in DOMAIN Layout(3)}

\* Fields of which only tag and length are read: their content is the next fields.
Container == {"msg", "secur_str", "secur_para", "scope", "pdu", "vb_list"}

\* The arrays for strings, of struct snmp_datagram; one byte is for the final NUL.
SizeOf ==
  [n \in {"engine_id", "context_id", "user_name", "auth_para", "priv_para", "context_name"} |->
     IF n \in {"engine_id", "context_id"} THEN 33 ELSE 41]

\* msg_flags is no array but one byte, with three bytes of padding before
\* msg_flags_len; its length is not checked.
FlagsRoom == 4

MIB_OID_MAX_LEN == 64
MIB_VALUE_MAX_LEN == 1024
EngineIdLen == 14
Request == {"GET", "GETNEXT", "SET", "BULKGET"}

VARIABLES
  codec_pc,          \* "idle", "decode", "varbinds", "process", "write", "bindings",
                     \* "sent", or "refused", "dropped", "ignored": no response,
                     \* or "overrun": decoding has overwritten the lengths it goes by
  dgram,             \* the datagram received
  field,             \* position in Layout, or in the list of bindings
  sdg,               \* snmp_datagram: len, val, type, vb_in and vb_out
  repeat, vb_in_cnt, \* of the handler
  alloc, pos,        \* bytes allocated for the response, and written so far
  out                \* the fields written: [name, tagged, start, declared, end]

CodecVars == <<codec_pc, dgram, field, sdg, repeat, vb_in_cnt, alloc, pos, out>>

Cleared ==
  [len |-> [n \in Name |-> 0], val |-> [n \in Name |-> 0], type |-> "NONE",
   vb_in |-> <<>>, vb_out |-> <<>>]

NoDatagram == [tag |-> "SEQ", fits |-> TRUE, hdr |-> <<>>, vbs |-> <<>>]

CodecInit ==
  /\ codec_pc = "idle" /\ dgram = NoDatagram /\ field = 1 /\ sdg = Cleared
  /\ repeat = 0 /\ vb_in_cnt = 0 /\ alloc = 0 /\ pos = 0 /\ out = <<>>
-----------------------------------------------------------------------------
\* The next datagram.  The tag of the whole and its length are checked before
\* anything is decoded; only then is the one before it cleared.
snmpd_recv(d) ==
  /\ codec_pc \in {"idle", "refused", "dropped", "ignored", "sent"}
  /\ dgram' = d
  /\ IF d.tag = "SEQ" /\ d.fits
     THEN codec_pc' = "decode" /\ sdg' = Cleared
     ELSE codec_pc' = "refused" /\ sdg' = sdg
  /\ field' = 1 /\ repeat' = 0 /\ vb_in_cnt' = 0 /\ alloc' = 0 /\ pos' = 0 /\ out' = <<>>

Expected == Layout(IF field = 1 THEN 0 ELSE sdg.val["ver"])

TooLong(f, e) == f.name \in DOMAIN SizeOf /\ e.len + 1 > SizeOf[f.name]

Accepted(f, e) == (f.tag = "PDU" \/ e.tag = f.tag) /\ ~ TooLong(f, e)

\* mutant: only the list of bindings is given up
Mut_snmp_datagram_clear == [sdg EXCEPT !.vb_in = <<>>]

snmp_datagram_clear == Cleared

\* DECODE_FINISH with dec_fail: what is dispatched then is a cleared datagram.
Fail ==
  /\ sdg' = snmp_datagram_clear
  /\ codec_pc' = IF sdg'.type \in Request THEN "process" ELSE "dropped"
  /\ UNCHANGED <<dgram, field, repeat, vb_in_cnt, alloc, pos, out>>

Overruns(f, e) == f.name = "msg_flags" /\ e.len > FlagsRoom

\* One field of snmp_decode, global_data_decode, security_parameter_decode or
\* pdu_hdr_parse.  Flags that do not fit overwrite msg_flags_len, by which the
\* decoder then finds the next field: nothing is said about what follows.
DecodeField ==
  /\ codec_pc = "decode"
  /\ LET f == Expected[field]
         e == dgram.hdr[field]
     IN  IF ~ Accepted(f, e) THEN Fail
         ELSE /\ sdg' = [sdg EXCEPT !.len[f.name] = e.len,
                                    !.val[f.name] = IF f.tag = "INT" THEN e.val ELSE @,
                                    !.type = IF f.tag = "PDU" THEN e.tag ELSE @]
              /\ CASE Overruns(f, e) -> codec_pc' = "overrun" /\ field' = field
                   [] f.name = "vb_list" -> codec_pc' = "varbinds" /\ field' = 1
                   [] OTHER -> codec_pc' = codec_pc /\ field' = field + 1
              /\ UNCHANGED <<dgram, repeat, vb_in_cnt, alloc, pos, out>>

\* var_bind_alloc: the tag of the oid, its number of elements and the size of the
\* value are checked before a binding is allocated.
var_bind_alloc(vb) ==
  /\ vb.oid_tag = "OBJID"
  /\ ber_value_dec_try(vb.oid, "OBJID") <= MIB_OID_MAX_LEN
  /\ vb.value_len <= MIB_VALUE_MAX_LEN

\* One round of var_bind_parse: vb_list_len counts down to zero.
DecodeVarbind ==
  /\ codec_pc = "varbinds" /\ sdg.len["vb_list"] > 0
  /\ LET vb == dgram.vbs[field]
     IN  IF vb.tag # "SEQ" \/ ~ var_bind_alloc(vb) THEN Fail
         ELSE /\ sdg' = [sdg EXCEPT !.vb_in = Append(@, ber_value_dec(vb.oid, "OBJID", <<>>)),
                                    !.len["vb_list"] = @ - (1 + ber_length_enc_try(vb.len) + vb.len)]
              /\ field' = field + 1
              /\ UNCHANGED <<codec_pc, dgram, repeat, vb_in_cnt, alloc, pos, out>>

\* snmp_request_dispatch, up to the loop of the handler.
snmp_request_dispatch ==
  /\ codec_pc = "varbinds" /\ sdg.len["vb_list"] = 0
  /\ IF sdg.type \in Request
     THEN /\ codec_pc' = "process"
          /\ repeat' = IF sdg.type = "BULKGET" THEN sdg.val["err_idx"] ELSE 1
          /\ sdg' = [sdg EXCEPT !.type = IF sdg.vb_in = <<>> THEN "REPO" ELSE "RESP",
                                !.val["err_idx"] = IF sdg.type = "BULKGET" THEN 0 ELSE @]
     ELSE codec_pc' = "ignored" /\ UNCHANGED <<repeat, sdg>>
  /\ field' = 1
  /\ UNCHANGED <<dgram, vb_in_cnt, alloc, pos, out>>
-----------------------------------------------------------------------------
\* A field takes its tag, its length and its content.
Tlv(len) == 1 + ber_length_enc_try(len) + len

RequestLayout == Layout(dgram.hdr[1].val)
Requested == dgram.hdr[Len(RequestLayout) - 4].tag

\* What ber_value_enc is asked to encode: the value, but of an oid in a SET as many
\* elements as its encoding has bytes, with what lies behind it in memory.
Encoded(found, room) ==
  IF Requested = "SET" /\ found.type = "OBJID"
  THEN [k \in 1 .. room |-> IF k <= Len(found.v) THEN found.v[k] ELSE 0]
  ELSE found.v

\* The end of the loop body of the handlers: the value found is encoded into the
\* room allocated for it, the first error is noted, and all lengths of the binding
\* are computed.
Emit ==
  /\ codec_pc = "process" /\ repeat > 0 /\ field <= Len(sdg.vb_in)
  /\ LET found == dgram.vbs[field].found
         room == ber_value_enc_try(found.v, found.type)
         value_len == Len(ber_value_enc(Encoded(found, room), found.type))
         vb_len == Tlv(ber_value_enc_try(found.oid, "OBJID")) + Tlv(value_len)
         first == found.err # 0 /\ sdg.val["err_stat"] = 0
     IN  sdg' = [sdg EXCEPT !.val["err_stat"] = IF first THEN found.err ELSE @,
                            !.val["err_idx"] = IF first THEN vb_in_cnt + 1 ELSE @,
                            !.len["vb_list"] = @ + Tlv(vb_len),
                            !.vb_out = Append(@, [vb_len |-> vb_len, oid |-> found.oid,
                                                  room |-> room, value_len |-> value_len])]
  /\ vb_in_cnt' = vb_in_cnt + 1 /\ field' = field + 1
  /\ UNCHANGED <<codec_pc, dgram, repeat, alloc, pos, out>>

EndOfPass ==
  /\ codec_pc = "process" /\ repeat > 0 /\ field > Len(sdg.vb_in)
  /\ repeat' = repeat - 1 /\ field' = 1
  /\ UNCHANGED <<codec_pc, dgram, sdg, vb_in_cnt, alloc, pos, out>>

v3 == sdg.val["ver"] >= 3

TlvSum(names, len) == MapThenSumSet(LAMBDA n : Tlv(len[n]), names)

global_data_encode_try == TlvSum({"msg_id", "msg_size", "msg_flags", "msg_model"}, sdg.len)

security_parameter_encode_try ==
  TlvSum({"engine_id", "engine_boots", "engine_time", "user_name", "auth_para", "priv_para"},
         [sdg.len EXCEPT !["engine_id"] = EngineIdLen])

\* mutant: the context id is not counted
Mut_ScopeLen(pdu_len) == Tlv(pdu_len) + Tlv(sdg.len["context_name"])

ScopeLen(pdu_len) ==
  Tlv(pdu_len) + Tlv(sdg.len["context_name"]) + (IF v3 THEN Tlv(EngineIdLen) ELSE 0)

\* The first half of asn1_encode: all lengths, inside out, and the buffer.
asn1_encode ==
  /\ codec_pc = "process" /\ repeat = 0
  /\ LET pdu_len == TlvSum({"vb_list", "req_id", "err_stat", "err_idx"}, sdg.len)
         scope_len == ScopeLen(pdu_len)
         para == security_parameter_encode_try
         msg_len == global_data_encode_try
         data_len == Tlv(sdg.len["ver"]) + scope_len
                     + (IF v3 THEN Tlv(msg_len) + Tlv(Tlv(para)) + 1 + ber_length_enc_try(scope_len) ELSE 0)
         lens == [sdg.len EXCEPT !["pdu"] = pdu_len, !["scope"] = scope_len]
         lens3 == [lens EXCEPT !["context_id"] = EngineIdLen, !["engine_id"] = EngineIdLen,
                               !["secur_para"] = para, !["secur_str"] = Tlv(para), !["msg"] = msg_len]
     IN  /\ sdg' = [sdg EXCEPT !.len = IF v3 THEN lens3 ELSE lens]
         /\ alloc' = Tlv(data_len)
         /\ pos' = 1 + Len(ber_length_enc(data_len))
  /\ codec_pc' = "write" /\ field' = 1
  /\ UNCHANGED <<dgram, repeat, vb_in_cnt, out>>

\* A field as it is written at position p: the length kept for it, then content.
Written(name, p, declared, content) ==
  LET start == p + 1 + Len(ber_length_enc(declared))
  IN  [name |-> name, tagged |-> p, start |-> start, declared |-> declared, end |-> start + content]

Content(f) ==
  CASE f.name \in Container -> 0
    [] f.tag = "INT" -> Len(ber_int_enc(sdg.val[f.name]))
    [] OTHER -> sdg.len[f.name]

\* The second half of asn1_encode, with global_data_encode and
\* security_parameter_encode: one field after the other.
WriteField ==
  /\ codec_pc = "write"
  /\ LET f == Layout(sdg.val["ver"])[field]
         w == Written(f.name, pos, sdg.len[f.name], Content(f))
     IN  /\ out' = Append(out, w) /\ pos' = w.end
         /\ IF f.name = "vb_list"
            THEN codec_pc' = "bindings" /\ field' = 1
            ELSE codec_pc' = codec_pc /\ field' = field + 1
  /\ UNCHANGED <<dgram, sdg, repeat, vb_in_cnt, alloc>>

\* The loop of snmp_response.
WriteVarbind ==
  /\ codec_pc = "bindings" /\ field <= Len(sdg.vb_out)
  /\ LET vb == sdg.vb_out[field]
         seq == Written("vb", pos, vb.vb_len, 0)
         oid_len == ber_value_enc_try(vb.oid, "OBJID")
         o == Written("oid", seq.end, oid_len, Len(ber_value_enc(vb.oid, "OBJID")))
         v == Written("value", o.end, vb.value_len, vb.value_len)
     IN  out' = out \o << [seq EXCEPT !.end = v.end], o, v >> /\ pos' = v.end
  /\ field' = field + 1
  /\ UNCHANGED <<codec_pc, dgram, sdg, repeat, vb_in_cnt, alloc>>

\* As many bytes as were allocated are sent, whatever has been written.
snmp_response ==
  /\ codec_pc = "bindings" /\ field > Len(sdg.vb_out)
  /\ codec_pc' = "sent"
  /\ UNCHANGED <<dgram, field, sdg, repeat, vb_in_cnt, alloc, pos, out>>

CodecNext ==
  \/ \E d \in Datagrams : snmpd_recv(d)
  \/ DecodeField \/ DecodeVarbind \/ snmp_request_dispatch
  \/ Emit \/ EndOfPass \/ asn1_encode \/ WriteField \/ WriteVarbind \/ snmp_response
-----------------------------------------------------------------------------
\* Something in the datagram is not as snmp_decode expects it, in a field before
\* the one at position n of the header, or in its bindings.
DefectBefore(n) ==
  \E k \in DOMAIN RequestLayout :
    /\ k < n
    /\ \/ RequestLayout[k].tag # "PDU" /\ dgram.hdr[k].tag # RequestLayout[k].tag
       \/ /\ RequestLayout[k].name \in DOMAIN SizeOf
          /\ dgram.hdr[k].len >= SizeOf[RequestLayout[k].name]

DefectiveBinding ==
  \E k \in DOMAIN dgram.vbs :
    \/ dgram.vbs[k].tag # "SEQ" \/ dgram.vbs[k].oid_tag # "OBJID"
    \/ Len(ber_oid_dec(dgram.vbs[k].oid)) > MIB_OID_MAX_LEN
    \/ dgram.vbs[k].value_len > MIB_VALUE_MAX_LEN

Defective ==
  \/ dgram.tag # "SEQ" \/ ~ dgram.fits
  \/ DefectBefore(Len(RequestLayout) + 1)
  \/ DefectiveBinding

HasLongFlags ==
  \E k \in DOMAIN RequestLayout :
    RequestLayout[k].name = "msg_flags" /\ dgram.hdr[k].len > FlagsRoom

\* snmp_decode takes a datagram whole or not at all.  One with a wrong tag or an
\* oid, a value or one of the six strings too long for its array is dropped
\* wherever the defect is: nothing of what was decoded before it is left, least of
\* all the type of the PDU, by which the datagram would still be dispatched and
\* answered.  Any other is handed on with all its bindings and with all it holds in
\* place.  The one exception are the flags of version 3, whose length nobody
\* checks: the decoder runs over them exactly if they are longer than the four
\* bytes up to msg_flags_len and no field up to them is defective.
DecodeAllOrNothing ==
  /\ codec_pc \in {"refused", "dropped"} => Defective /\ out = <<>>
  /\ codec_pc = "dropped" => sdg = Cleared /\ (HasLongFlags => DefectBefore(6))
  /\ codec_pc = "overrun" => HasLongFlags /\ ~ DefectBefore(6)
  /\ codec_pc \in {"ignored", "sent"} =>
       /\ ~ Defective /\ ~ HasLongFlags
       /\ sdg.type = Requested \/ sdg.type \in {"RESP", "REPO"}
       /\ sdg.vb_in = [k \in DOMAIN dgram.vbs |-> ber_oid_dec(dgram.vbs[k].oid)]

Field(name) == out[CHOOSE k \in DOMAIN out : out[k].name = name]

\* Where the content of a field must end: containers end where the next one
\* of their level starts, or with the message.
End(w) ==
  CASE w.name = "msg" -> Field("secur_str").tagged
    [] w.name \in {"secur_str", "secur_para"} -> Field("scope").tagged
    [] w.name \in {"scope", "pdu", "vb_list"} -> pos
    [] OTHER -> w.end

\* A receiver that follows the lengths finds every field, and the end, and nothing
\* has been written beyond the room allocated for it.
Decodable ==
  /\ \A k \in DOMAIN out : out[k].start + out[k].declared = End(out[k])
  /\ pos = alloc
  /\ \A k \in DOMAIN sdg.vb_out : sdg.vb_out[k].value_len <= sdg.vb_out[k].room

IntField(name) == dgram.hdr[CHOOSE k \in DOMAIN RequestLayout : RequestLayout[k].name = name]

\* The integers of the request are as short as the agent itself would write them,
\* and so is the error index of the response in the place of that of the request.
LengthsStillHold ==
  /\ \A k \in DOMAIN RequestLayout :
       RequestLayout[k].tag = "INT" => dgram.hdr[k].len = ber_int_enc_try(dgram.hdr[k].val)
  /\ IntField("err_idx").len = ber_int_enc_try(sdg.val["err_idx"])

\* An oid that was to be set is cut off: it has at least as many elements as bytes
\* are counted for it, and so many of them fit into these bytes.
CutToFit(oid) ==
  LET n == Len(ber_oid_enc(oid)) % 256
  IN  n <= Len(oid) /\ Len(ber_oid_enc(SubSeq(oid, 1, n))) <= n

\* The oids of the response, as names and as values, take less than 256 bytes, but
\* for those that were to be set.
OidsStillFit ==
  sdg.vb_out # <<>> =>
    \A k \in DOMAIN dgram.vbs :
      LET found == dgram.vbs[k].found
      IN  /\ Len(ber_oid_enc(found.oid)) < 256
          /\ found.type = "OBJID" =>
               IF Requested = "SET" THEN CutToFit(found.v) ELSE Len(ber_oid_enc(found.v)) < 256

\* asn1_encode takes the lengths of the request's integers for those of the
\* response, and ber_oid_enc_try counts the bytes of an oid in a uint8_t.  Exactly
\* if these lengths still hold and the oids fit, the response is one that a
\* receiver can decode, with lengths that fit at every level of nesting, with as
\* many bytes sent as were written and with every value in its room.  They do not
\* hold after a GETBULK whose max-repetitions take two bytes, after a request with
\* integers that are longer than necessary, if a name of 64 sub-identifiers of
\* five bytes each is echoed, or after a SET of an oid of more bytes than elements.
ResponseDecodable == codec_pc = "sent" => (Decodable <=> LengthsStillHold /\ OidsStillFit)
=============================================================================
