--------------------------------- MODULE Ber ---------------------------------
(***************************************************************************)
(* The BER codec of src/core/snmp_encoder.c and snmp_decoder.c, as built   *)
(* on a little endian machine: what is written for a value, and what is    *)
(* read back.  Bytes are bytes; only the width of an int, SizeOfInt, is a  *)
(* constant.  The functions with _try in their name compute how many bytes *)
(* (or elements) the function without it produces.                         *)
(***************************************************************************)
EXTENDS Integers, Sequences
LOCAL INSTANCE SequencesExt

CONSTANT SizeOfInt

\* The bytes of an int in memory, most significant first.
Bytes(v) == [i \in 1 .. SizeOfInt |-> (v \div 256 ^ (SizeOfInt - i)) % 256]

\* The loops that skip leading bytes; one byte is always left.
Skip(a, pad) ==
  LET first == CHOOSE k \in 1 .. SizeOfInt :
                 /\ k = SizeOfInt \/ a[k] # pad
                 /\ \A j \in 1 .. (k - 1) : a[j] = pad
  IN  SubSeq(a, first, SizeOfInt)

Pad(v) == IF v >= 0 THEN 0 ELSE 255
SignLost(v, s) == (s[1] >= 128) # (v < 0)

ber_int_enc_try(v) ==
  LET s == Skip(Bytes(v), Pad(v)) IN Len(s) + (IF SignLost(v, s) THEN 1 ELSE 0)

\* mutant: no byte is added to keep the sign
Mut_ber_int_enc(v) == Skip(Bytes(v), Pad(v))

ber_int_enc(v) ==
  LET s == Skip(Bytes(v), Pad(v)) IN IF SignLost(v, s) THEN <<Pad(v)>> \o s ELSE s

ber_uint_enc_try(v) ==
  LET s == Skip(Bytes(v), 0) IN Len(s) + (IF s[1] >= 128 THEN 1 ELSE 0)

ber_uint_enc(v) ==
  LET s == Skip(Bytes(v), 0) IN IF s[1] >= 128 THEN <<0>> \o s ELSE s

ber_length_enc_try(v) ==
  Len(Skip(Bytes(v), 0)) + (IF v > 127 THEN 1 ELSE 0)

ber_length_enc(v) ==
  LET s == Skip(Bytes(v), 0) IN IF v > 127 THEN <<128 + Len(s)>> \o s ELSE s

\* The bytes of one sub-identifier (of 32 bits: five groups of seven).
Groups(id) ==
  LET n == CHOOSE k \in 1 .. 5 : /\ k = 5 \/ id \div 128 ^ k = 0
                                 /\ k = 1 \/ id \div 128 ^ (k - 1) # 0
  IN  [i \in 1 .. n |-> ((id \div 128 ^ (n - i)) % 128) + (IF i < n THEN 128 ELSE 0)]

SubIds(oid) == [i \in 1 .. (Len(oid) - 2) |-> Groups(oid[i + 2])]

\* The count is kept in a uint8_t.
ber_oid_enc_try(oid) ==
  IF Len(oid) < 2 THEN Len(oid)
  ELSE (1 + Len(FlattenSeq(SubIds(oid)))) % 256

ber_oid_enc(oid) ==
  CASE oid = <<>> -> <<>>
    [] Len(oid) = 1 -> <<oid[1] % 256>>
    [] OTHER -> <<(oid[1] * 40 + oid[2]) % 256>> \o FlattenSeq(SubIds(oid))

\* A value is a number, a sequence of sub-identifiers or a sequence of bytes.
Signed == {"INT", "CNT"}
Unsigned == {"GAU", "TIMETICKS"}
String == {"OCTSTR", "IPADDR"}

ber_value_enc_try(v, type) ==
  CASE type \in Signed -> ber_int_enc_try(v)
    [] type \in Unsigned -> ber_uint_enc_try(v)
    [] type = "OBJID" -> ber_oid_enc_try(v)
    [] type \in String -> Len(v)
    [] OTHER -> 0

ber_value_enc(v, type) ==
  CASE type \in Signed -> ber_int_enc(v)
    [] type \in Unsigned -> ber_uint_enc(v)
    [] type = "OBJID" -> ber_oid_enc(v)
    [] type \in String -> v
    [] OTHER -> <<>>
-----------------------------------------------------------------------------
\* value << 8 | byte, in an int.
Shift(v, b) == (v % 256 ^ (SizeOfInt - 1)) * 256 + b

AsSigned(v) == IF v >= (256 ^ SizeOfInt) \div 2 THEN v - 256 ^ SizeOfInt ELSE v

\* A negative number starts from the bytes that sign extension adds: the code
\* shifts SizeOfInt - Len(buf) bytes 0xff in.
ber_int_dec(buf) ==
  LET sign == IF buf[1] >= 128 THEN 256 ^ (SizeOfInt - Len(buf)) - 1 ELSE 0
  IN  AsSigned(FoldLeft(Shift, sign, buf))

ber_uint_dec(buf) == FoldLeft(Shift, 0, buf)

ber_oid_dec_try(buf) ==
  2 + Len(SelectSeq(Tail(buf), LAMBDA b : b < 128))

\* Each byte without the top bit ends a sub-identifier.
ber_oid_dec(buf) ==
  LET ends == SelectSeq([k \in DOMAIN buf |-> k], LAMBDA k : k = 1 \/ buf[k] < 128)
      Id(k) == FoldLeft(LAMBDA id, b : (id * 128) + (b % 128), 0, SubSeq(buf, ends[k] + 1, ends[k + 1]))
  IN  <<buf[1] \div 40, buf[1] % 40>> \o [k \in 1 .. (Len(ends) - 1) |-> Id(k)]

\* The number of elements, zero for an empty buffer, and the value, which is left
\* as it was then (none here).
ber_value_dec_try(buf, type) ==
  CASE buf = <<>> -> 0
    [] buf # <<>> /\ type \in Signed \cup Unsigned -> 1
    [] buf # <<>> /\ type = "OBJID" -> ber_oid_dec_try(buf)
    [] buf # <<>> /\ type \in String -> Len(buf)
    [] OTHER -> 0

ber_value_dec(buf, type, none) ==
  CASE buf = <<>> -> none
    [] buf # <<>> /\ type \in Signed -> ber_int_dec(buf)
    [] buf # <<>> /\ type \in Unsigned -> ber_uint_dec(buf)
    [] buf # <<>> /\ type = "OBJID" -> ber_oid_dec(buf)
    [] buf # <<>> /\ type \in String -> buf
    [] OTHER -> none

ber_length_dec_try(buf) == IF buf[1] >= 128 THEN 1 + (buf[1] % 128) ELSE 1

ber_length_dec(buf) ==
  LET len == ber_length_dec_try(buf)
  IN  [len |-> len, value |-> FoldLeft(Shift, 0, SubSeq(buf, IF buf[1] >= 128 THEN 2 ELSE 1, len))]
=============================================================================
