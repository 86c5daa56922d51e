-------------------------------- MODULE Oid --------------------------------
(***************************************************************************)
(* Object identifiers and the comparison helpers of src/core/mib_tree.c:   *)
(* oid_cmp, oid_cover and oid_binary_search, as closed forms.  OidCmp and  *)
(* OidSearch model the loops that compute the first and the last, and show *)
(* that they compute these.                                                *)
(*                                                                         *)
(* A sub-identifier is an unsigned machine word (oid_t, uint32_t) and      *)
(* oid_cmp subtracts two of them and reads the difference as a signed      *)
(* int, so the word width is a parameter: Half is 2^31 in the program.     *)
(***************************************************************************)
EXTENDS Integers, Sequences

CONSTANT Half      \* half the range of oid_t

ASSUME HalfAssumption == Half \in Nat \ {0}

Word == 2 * Half
SubId == 0 .. (Word - 1)
OID == Seq(SubId)

\* Sub-identifiers for which the signed difference keeps its sign.
SmallSubId == 0 .. (Half - 1)
SmallOID == Seq(SmallSubId)
-----------------------------------------------------------------------------
\* (int)(x - y) for two unsigned words: the two's complement wrap-around.
int_diff(x, y) ==
  CASE x - y >= Half -> x - y - Word
    [] x - y < -Half -> x - y + Word
    [] OTHER -> x - y

\* The positions, within both oids, at which they differ.
Diff(src, target) ==
  {i \in 1 .. Len(src) : i <= Len(target) /\ src[i] # target[i]}

FirstDiff(src, target) ==
  CHOOSE i \in Diff(src, target) : \A j \in Diff(src, target) : i <= j

oid_cmp(src, target) ==
  IF Diff(src, target) = {}
  THEN Len(src) - Len(target)
  ELSE int_diff(src[FirstDiff(src, target)], target[FirstDiff(src, target)])

\* 1: oid1 covers (is a prefix of, or equals) oid2; -1: oid2 covers oid1.
oid_cover(oid1, oid2) ==
  IF Len(oid1) <= Len(oid2) /\ oid_cmp(oid1, SubSeq(oid2, 1, Len(oid1))) = 0
  THEN 1
  ELSE IF Len(oid2) <= Len(oid1) /\ oid_cmp(SubSeq(oid1, 1, Len(oid2)), oid2) = 0
       THEN -1
       ELSE 0
-----------------------------------------------------------------------------
\* Number of elements of a sorted array that are not greater than the target.
NotGreater(arr, oid) ==
  CHOOSE p \in 0 .. Len(arr) : /\ \A i \in 1 .. p : arr[i] <= oid
                               /\ \A i \in (p + 1) .. Len(arr) : arr[i] > oid

\* As in C the index returned counts from 0, and a target that is absent gives
\* -(insertion index) - 1.
oid_binary_search(arr, oid) ==
  LET p == NotGreater(arr, oid)
  IN  IF p = 0 \/ arr[p] # oid THEN -p - 1 ELSE p - 1

StrictlySorted(arr) ==
  \A i, j \in 1 .. Len(arr) : i < j => arr[i] < arr[j]
-----------------------------------------------------------------------------
\* The order and the covering relation that SNMP means.
Covers(o, p) ==
  Len(o) <= Len(p) /\ \A i \in 1 .. Len(o) : o[i] = p[i]

OidLess(o, p) ==
  \/ o # p /\ Covers(o, p)
  \/ \E i \in 1 .. Len(o) : /\ i <= Len(p)
                            /\ o[i] < p[i]
                            /\ \A j \in 1 .. (i - 1) : o[j] = p[j]
=============================================================================
