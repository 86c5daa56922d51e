------------------------------- MODULE Lists --------------------------------
(***************************************************************************)
(* Lists and arrays as sequences.  All operators but the last are those of *)
(* SequencesExt; they are repeated here so that the proofs about them do   *)
(* not carry that module and all that it extends.                          *)
(***************************************************************************)
EXTENDS Integers, Sequences

Contains(s, e) == \E i \in 1 .. Len(s) : s[i] = e

InsertAt(s, i, e) == SubSeq(s, 1, i - 1) \o <<e>> \o SubSeq(s, i, Len(s))

RemoveAt(s, i) == SubSeq(s, 1, i - 1) \o SubSeq(s, i + 1, Len(s))

Front(s) == SubSeq(s, 1, Len(s) - 1)

Last(s) == s[Len(s)]

\* No element is there twice.
Unique(s) == \A i, j \in 1 .. Len(s) : s[i] = s[j] => i = j
=============================================================================
