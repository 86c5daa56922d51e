------------------------------ MODULE BerCodec ------------------------------
(***************************************************************************)
(* A value on its way through the agent's codec: room for it is allocated  *)
(* by ber_value_enc_try and it is written by ber_value_enc (snmp_get and   *)
(* the others of snmp_msg_proc.c), its length and its bytes are put into   *)
(* the message (snmp_response), and a receiver with the same decoder takes *)
(* them out (var_bind_alloc of snmp_msg_in.c, ber_value_dec).              *)
(***************************************************************************)
EXTENDS Ber

CONSTANT Values    \* records [type, v]

VARIABLES
  ber_pc,          \* "value", "written", "sent" or "read"
  ber_in,          \* the value
  ber_room,        \* bytes allocated
  ber_buf,         \* bytes written
  ber_out          \* [value, elems]: what is read back

BerVars == <<ber_pc, ber_in, ber_room, ber_buf, ber_out>>

Nothing == [value |-> <<>>, elems |-> 0]

BerIdle ==
  /\ ber_pc = "read" /\ ber_in = [type |-> "NUL", v |-> <<>>]
  /\ ber_room = 0 /\ ber_buf = <<0>> /\ ber_out = Nothing

BerInit ==
  /\ ber_pc = "value" /\ ber_in \in Values
  /\ ber_room = 0 /\ ber_buf = <<>> /\ ber_out = Nothing

Write ==
  /\ ber_pc = "value"
  /\ ber_room' = ber_value_enc_try(ber_in.v, ber_in.type)
  /\ ber_buf' = ber_value_enc(ber_in.v, ber_in.type)
  /\ ber_pc' = "written"
  /\ UNCHANGED <<ber_in, ber_out>>

Send ==
  /\ ber_pc = "written"
  /\ ber_buf' = ber_length_enc(Len(ber_buf)) \o ber_buf
  /\ ber_pc' = "sent"
  /\ UNCHANGED <<ber_in, ber_room, ber_out>>

Read ==
  /\ ber_pc = "sent"
  /\ LET l == ber_length_dec(ber_buf)
         content == SubSeq(ber_buf, l.len + 1, l.len + l.value)
     IN  ber_out' = [value |-> ber_value_dec(content, ber_in.type, <<>>),
                     elems |-> ber_value_dec_try(content, ber_in.type)]
  /\ ber_pc' = "read"
  /\ UNCHANGED <<ber_in, ber_room, ber_buf>>

BerNext == Write \/ Send \/ Read
-----------------------------------------------------------------------------
\* The oids that BER can express: two sub-identifiers at least, the first two in
\* one byte.
Expressible(oid) == Len(oid) >= 2 /\ oid[2] < 40 /\ oid[1] * 40 + oid[2] < 256

Elements == IF ber_in.type \in Signed \cup Unsigned THEN 1 ELSE Len(ber_in.v)

\* A value written by ber_value_enc is read back as the same value by ber_value_dec,
\* the sign and the leading bytes of numbers included, and it fills exactly the
\* room that ber_value_enc_try asked for, an oid provided that it is expressible
\* and takes less than 256 bytes (ber_oid_enc_try counts in a uint8_t).
BerRoundTrip ==
  LET content == IF ber_pc = "written" THEN Len(ber_buf)
                 ELSE Len(ber_buf) - ber_length_enc_try(ber_length_dec(ber_buf).value)
  IN  /\ ber_pc # "value" /\ (ber_in.type = "OBJID" => content < 256) => ber_room = content
      /\ ber_pc = "read" /\ (ber_in.type = "OBJID" => Expressible(ber_in.v))
           => /\ ber_out.value = ber_in.v
              /\ ber_out.elems = Elements
=============================================================================
