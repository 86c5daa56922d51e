------------------------------- MODULE OidCmp -------------------------------
(***************************************************************************)
(* The loop of oid_cmp (src/core/mib_tree.c): walk both oids while both    *)
(* have sub-identifiers left and their signed difference is zero.          *)
(***************************************************************************)
EXTENDS Oid

CONSTANT Oids      \* the oids compared

ASSUME OidsAssumption == Oids \subseteq OID

VARIABLES
  src, target,     \* the arguments
  i,               \* sub-identifiers consumed so far
  cmp_pc,              \* "loop" or "done"
  cmp_ret              \* value returned, once cmp_pc = "done"

CmpVars == <<src, target, i, cmp_pc, cmp_ret>>

CmpTypeOK ==
  /\ src \in Oids /\ target \in Oids
  /\ i \in 0 .. Len(src) /\ i <= Len(target)
  /\ cmp_pc \in {"loop", "done"} /\ cmp_ret \in Int

CmpInit ==
  /\ src \in Oids /\ target \in Oids
  /\ i = 0 /\ cmp_pc = "loop" /\ cmp_ret = 0

SrcLeft == Len(src) - i
TargetLeft == Len(target) - i

CmpStep ==
  /\ cmp_pc = "loop" /\ SrcLeft > 0 /\ TargetLeft > 0
  /\ int_diff(src[i + 1], target[i + 1]) = 0
  /\ i' = i + 1
  /\ UNCHANGED <<src, target, cmp_pc, cmp_ret>>

\* mutant: the operands are subtracted the wrong way round
Mut_CmpReturnDiff ==
  /\ cmp_pc = "loop" /\ SrcLeft > 0 /\ TargetLeft > 0
  /\ int_diff(src[i + 1], target[i + 1]) # 0
  /\ cmp_ret' = int_diff(target[i + 1], src[i + 1])
  /\ cmp_pc' = "done"
  /\ UNCHANGED <<src, target, i>>

CmpReturnDiff ==
  /\ cmp_pc = "loop" /\ SrcLeft > 0 /\ TargetLeft > 0
  /\ int_diff(src[i + 1], target[i + 1]) # 0
  /\ cmp_ret' = int_diff(src[i + 1], target[i + 1])
  /\ cmp_pc' = "done"
  /\ UNCHANGED <<src, target, i>>

CmpReturnLen ==
  /\ cmp_pc = "loop" /\ (SrcLeft = 0 \/ TargetLeft = 0)
  /\ cmp_ret' = SrcLeft - TargetLeft
  /\ cmp_pc' = "done"
  /\ UNCHANGED <<src, target, i>>

CmpNext == CmpStep \/ CmpReturnDiff \/ CmpReturnLen

CmpSpec == CmpInit /\ [][CmpNext]_CmpVars
-----------------------------------------------------------------------------
\* The loop of oid_cmp computes the closed form that the other modules use.
CmpCorrect == cmp_pc = "done" => cmp_ret = oid_cmp(src, target)

\* For sub-identifiers below 2^31 the sign of what oid_cmp returns is the
\* lexicographic order SNMP asks for; GETNEXT and the sorted view lists need it.
\* (Beyond 2^31 the signed difference wraps and the order is not even transitive.)
CmpIsOrder ==
  cmp_pc = "done" /\ src \in SmallOID /\ target \in SmallOID
    => /\ cmp_ret < 0 <=> OidLess(src, target)
       /\ cmp_ret > 0 <=> OidLess(target, src)

\* oid_cmp tells equal oids from different ones over the whole range of oid_t,
\* wrap-around included: oid_cover and mib_view_search only test for zero.
CmpZeroIsEqual == cmp_pc = "done" => (cmp_ret = 0 <=> src = target)

\* oid_cover is the prefix relation, and prefers "oid1 covers" for equal oids.
CoverIsPrefix ==
  /\ oid_cover(src, target) = 1 <=> Covers(src, target)
  /\ oid_cover(src, target) = -1 <=> Covers(target, src) /\ src # target

\* What the rest of the agent takes oid_cmp and oid_cover for: the closed form that
\* the other modules use, the order of oids, a test for equality over all oids, and
\* the prefix relation.
OidOrder == CmpCorrect /\ CmpIsOrder /\ CmpZeroIsEqual /\ CoverIsPrefix

\* Loop invariant: the sub-identifiers consumed so far agree.
CmpInv ==
  /\ CmpTypeOK
  /\ \A j \in 1 .. i : src[j] = target[j]
  /\ CmpCorrect
=============================================================================
