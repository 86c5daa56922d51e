----------------------------- MODULE OidProofs -----------------------------
(***************************************************************************)
(* Facts about oid_cmp, oid_cover, oid_binary_search and the order of      *)
(* oids, for every word width and oids of any length, and about the        *)
(* operators on lists and arrays of module Lists.                          *)
(***************************************************************************)
EXTENDS Oid, Lists, FiniteSets, TLAPS, WellFoundedInduction

(***************************************************************************)
(* Sequences, for the arrays of the code.                                  *)
(***************************************************************************)
\* An array of small words is an array of words.
LEMMA SeqWiden ==
  ASSUME NEW S, NEW T, S \subseteq T, NEW s \in Seq(S)
  PROVE  s \in Seq(T)
OBVIOUS

\* Two arrays are the same when their lengths and their elements are.
LEMMA SeqSame ==
  ASSUME NEW S, NEW s \in Seq(S), NEW t \in Seq(S),
         Len(s) = Len(t), \A k \in 1 .. Len(s) : s[k] = t[k]
  PROVE  s = t
OBVIOUS

\* What the empty array is.
LEMMA EmptyIs ==
  ASSUME NEW S
  PROVE  <<>> \in Seq(S) /\ Len(<<>>) = 0 /\ \A s \in Seq(S) : s # <<>> => Len(s) \in Nat \ {0}
OBVIOUS

\* What an array with one more element at its end is.
LEMMA AppendIs ==
  ASSUME NEW S, NEW s \in Seq(S), NEW x \in S
  PROVE  /\ Append(s, x) \in Seq(S) /\ Append(s, x) # <<>> /\ Len(Append(s, x)) = Len(s) + 1
         /\ Append(s, x)[Len(s) + 1] = x /\ \A k \in 1 .. Len(s) : Append(s, x)[k] = s[k]
OBVIOUS

\* What one array after another is: oid_cpy behind the prefix.
LEMMA ConcatIs ==
  ASSUME NEW S, NEW s \in Seq(S), NEW t \in Seq(S)
  PROVE  /\ s \o t \in Seq(S) /\ Len(s \o t) = Len(s) + Len(t)
         /\ \A k \in 1 .. Len(s) + Len(t) : (s \o t)[k] = IF k <= Len(s) THEN s[k] ELSE t[k - Len(s)]
OBVIOUS

\* What a part of an array is.
LEMMA SubSeqIs ==
  ASSUME NEW S, NEW s, NEW m \in Int, NEW n \in Int, \A k \in m .. n : s[k] \in S
  PROVE  /\ SubSeq(s, m, n) \in Seq(S) /\ Len(SubSeq(s, m, n)) = IF m <= n THEN n - m + 1 ELSE 0
         /\ \A k \in 1 .. n - m + 1 : SubSeq(s, m, n)[k] = s[m + k - 1]
OBVIOUS

\* What an array with one element assigned is.
LEMMA ExceptIs ==
  ASSUME NEW S, NEW s \in Seq(S), NEW i \in 1 .. Len(s), NEW e \in S
  PROVE  /\ [s EXCEPT ![i] = e] \in Seq(S) /\ Len([s EXCEPT ![i] = e]) = Len(s)
         /\ \A j \in 1 .. Len(s) : [s EXCEPT ![i] = e][j] = IF j = i THEN e ELSE s[j]
OBVIOUS

\* A part of a finite set is finite.
LEMMA FinitePart ==
  ASSUME NEW S, IsFiniteSet(S), NEW T \in SUBSET S
  PROVE  IsFiniteSet(T)
<1>1. PICK q \in Seq(S) : \A x \in S : \E n \in 1 .. Len(q) : q[n] = x
  BY DEF IsFiniteSet
<1>2. CASE T = {}
  <2>1. <<>> \in Seq(T)
    OBVIOUS
  <2> QED
    BY <1>2, <2>1 DEF IsFiniteSet
<1>3. ASSUME NEW t \in T PROVE IsFiniteSet(T)
  <2> DEFINE u == [n \in 1 .. Len(q) |-> IF q[n] \in T THEN q[n] ELSE t]
  <2>1. u \in Seq(T) /\ Len(u) = Len(q)
    OBVIOUS
  <2>2. ASSUME NEW x \in T PROVE \E n \in 1 .. Len(u) : u[n] = x
    <3>1. PICK n \in 1 .. Len(q) : q[n] = x
      BY <1>1
    <3> QED
      BY <2>1, <3>1
  <2> HIDE DEF u
  <2> QED
    BY <2>1, <2>2 DEF IsFiniteSet
<1> QED
  BY <1>2, <1>3
-----------------------------------------------------------------------------

\* The order of the natural numbers, as a relation.
LEMMA NatOrder ==
  \E R : IsWellFoundedOn(R, Nat) /\ \A k, n \in Nat : k < n => <<k, n>> \in R
<1> DEFINE R == OpToRel(<, Nat)
<1>1. IsWellFoundedOn(R, Nat)
  BY NatLessThanWellFounded
<1>2. \A k, n \in Nat : k < n => <<k, n>> \in R
  BY DEF OpToRel
<1> HIDE DEF R
<1> QED
  BY <1>1, <1>2

\* Every non-empty set of numbers has a least element: the first position at
\* which two oids differ exists.
LEMMA LeastElement ==
  ASSUME NEW S \in SUBSET Nat, S # {}
  PROVE  \E m \in S : \A k \in S : m <= k
<1>1. PICK R : IsWellFoundedOn(R, Nat) /\ \A k, n \in Nat : k < n => <<k, n>> \in R
  BY NatOrder
<1>2. IsWellFoundedOn(R, Nat)
  BY <1>1
<1>3. \A k, n \in Nat : k < n => <<k, n>> \in R
  BY <1>1
<1>4. PICK m \in S : \A k \in S : ~ (<<k, m>> \in R)
  BY <1>2, WFMin
<1>5. ASSUME NEW k \in S PROVE m <= k
  <2>1. ~ (<<k, m>> \in R)
    BY <1>4
  <2>2. ~ (k < m)
    BY <2>1, <1>3
  <2> QED
    BY <2>2
<1> QED
  BY <1>5

\* The first position at which two oids differ: before it they agree.
LEMMA FirstDiffIsFirst ==
  ASSUME NEW s \in OID, NEW t \in OID, Diff(s, t) # {}
  PROVE  /\ FirstDiff(s, t) \in Diff(s, t)
         /\ \A j \in 1 .. (FirstDiff(s, t) - 1) : s[j] = t[j]
<1>1. Diff(s, t) \in SUBSET Nat
  BY DEF Diff
<1>2. \E m \in Diff(s, t) : \A k \in Diff(s, t) : m <= k
  BY <1>1, LeastElement
<1>3. /\ FirstDiff(s, t) \in Diff(s, t)
      /\ \A k \in Diff(s, t) : FirstDiff(s, t) <= k
  BY <1>2 DEF FirstDiff
<1>4. ASSUME NEW j \in 1 .. (FirstDiff(s, t) - 1) PROVE s[j] = t[j]
  BY <1>3 DEF Diff, OID
<1> QED
  BY <1>3, <1>4

\* The signed difference of two words is zero only for equal words, and keeps
\* the sign of the difference below 2^31.
LEMMA IntDiff ==
  ASSUME NEW x \in SubId, NEW y \in SubId
  PROVE  /\ int_diff(x, y) \in Int
         /\ int_diff(x, y) = 0 <=> x = y
         /\ x \in SmallSubId /\ y \in SmallSubId => int_diff(x, y) = x - y
BY HalfAssumption DEF int_diff, SubId, SmallSubId, Word

\* Oids below 2^31 are oids.
LEMMA SmallIsOid == SmallOID \subseteq OID
<1>1. SmallSubId \subseteq SubId
  BY HalfAssumption DEF SmallSubId, SubId, Word
<1> QED
  BY <1>1, SeqWiden DEF SmallOID, OID

\* oid_cmp is zero exactly for equal oids, over the whole range of oid_t.
LEMMA CmpZero ==
  ASSUME NEW s \in OID, NEW t \in OID
  PROVE  oid_cmp(s, t) \in Int /\ (oid_cmp(s, t) = 0 <=> s = t)
<1>1. CASE Diff(s, t) = {}
  <2>1. \A i \in 1 .. Len(s) : i <= Len(t) => s[i] = t[i]
    BY <1>1 DEF Diff
  <2>2. oid_cmp(s, t) = Len(s) - Len(t)
    BY <1>1 DEF oid_cmp
  <2>3. Len(s) = Len(t) => s = t
    BY <2>1, SeqSame DEF OID
  <2>4. Len(s) \in Nat /\ Len(t) \in Nat
    BY DEF OID
  <2> QED
    BY <2>2, <2>3, <2>4
<1>2. CASE Diff(s, t) # {}
  <2> DEFINE d == FirstDiff(s, t)
  <2>1. d \in Diff(s, t)
    BY <1>2, FirstDiffIsFirst
  <2>3. oid_cmp(s, t) = int_diff(s[d], t[d])
    BY <1>2 DEF oid_cmp
  <2> HIDE DEF d
  <2>2. d \in 1 .. Len(s) /\ d <= Len(t) /\ s[d] # t[d] /\ s[d] \in SubId /\ t[d] \in SubId
    BY <2>1 DEF Diff, OID
  <2> QED
    BY <2>2, <2>3, IntDiff
<1> QED
  BY <1>1, <1>2

\* For sub-identifiers below 2^31 the sign of oid_cmp is the order of oids.
LEMMA CmpSign ==
  ASSUME NEW s \in SmallOID, NEW t \in SmallOID
  PROVE  /\ oid_cmp(s, t) < 0 <=> OidLess(s, t)
         /\ oid_cmp(s, t) > 0 <=> OidLess(t, s)
<1>0. s \in OID /\ t \in OID
  BY SmallIsOid
<1>a. Len(s) \in Nat /\ Len(t) \in Nat
  BY <1>0 DEF OID
<1>b. ASSUME NEW i \in 1 .. Len(s) PROVE s[i] \in SmallSubId
  BY DEF SmallOID
<1>c. ASSUME NEW i \in 1 .. Len(t) PROVE t[i] \in SmallSubId
  BY DEF SmallOID
<1>1. CASE Diff(s, t) = {}
  <2>1. \A i \in 1 .. Len(s) : i <= Len(t) => s[i] = t[i]
    BY <1>1 DEF Diff
  <2>2. oid_cmp(s, t) = Len(s) - Len(t)
    BY <1>1 DEF oid_cmp
  <2>3. OidLess(s, t) <=> s # t /\ Covers(s, t)
    BY <2>1, <1>a, <1>b, <1>c DEF OidLess, SmallSubId
  <2>4. OidLess(t, s) <=> t # s /\ Covers(t, s)
    BY <2>1, <1>a, <1>b, <1>c DEF OidLess, SmallSubId
  <2>5. Len(s) = Len(t) <=> s = t
    BY <2>1, <1>0, SeqSame DEF OID
  <2> QED
    BY <2>1, <2>2, <2>3, <2>4, <2>5, <1>a DEF Covers
<1>2. CASE Diff(s, t) # {}
  <2> DEFINE d == FirstDiff(s, t)
  <2>1. d \in Diff(s, t) /\ \A j \in 1 .. (d - 1) : s[j] = t[j]
    BY <1>0, <1>2, FirstDiffIsFirst
  <2>3. oid_cmp(s, t) = int_diff(s[d], t[d])
    BY <1>2 DEF oid_cmp
  <2> HIDE DEF d
  <2>2. d \in 1 .. Len(s) /\ d <= Len(t) /\ s[d] # t[d]
    BY <2>1 DEF Diff
  <2>4. s[d] \in SmallSubId /\ t[d] \in SmallSubId /\ s[d] \in SubId /\ t[d] \in SubId
    BY <2>2, <1>0, <1>a, <1>b, <1>c DEF OID
  <2>5. oid_cmp(s, t) = s[d] - t[d]
    BY <2>3, <2>4, IntDiff
  <2>6. ~ Covers(s, t) /\ ~ Covers(t, s)
    BY <2>2, <1>a DEF Covers
  <2>7. OidLess(s, t) <=> s[d] < t[d]
    <3>1. ASSUME NEW i \in 1 .. Len(s), i <= Len(t), s[i] < t[i],
                 \A j \in 1 .. (i - 1) : s[j] = t[j]
          PROVE  i = d
      <4>1. s[i] \in Int /\ t[i] \in Int
        BY <3>1, <1>a, <1>b, <1>c DEF SmallSubId
      <4> QED
        BY <3>1, <4>1, <2>1, <2>2, <1>a
    <3> QED
      BY <3>1, <2>1, <2>2, <2>6 DEF OidLess
  <2>8. OidLess(t, s) <=> t[d] < s[d]
    <3>1. ASSUME NEW i \in 1 .. Len(t), i <= Len(s), t[i] < s[i],
                 \A j \in 1 .. (i - 1) : t[j] = s[j]
          PROVE  i = d
      <4>1. s[i] \in Int /\ t[i] \in Int
        BY <3>1, <1>a, <1>b, <1>c DEF SmallSubId
      <4> QED
        BY <3>1, <4>1, <2>1, <2>2, <1>a
    <3> QED
      BY <3>1, <2>1, <2>2, <2>6, <1>a DEF OidLess
  <2> QED
    BY <2>4, <2>5, <2>7, <2>8 DEF SmallSubId
<1> QED
  BY <1>1, <1>2

\* oid_cover is the prefix relation; equal oids count as "oid1 covers oid2".
LEMMA CoverPrefix ==
  ASSUME NEW s \in OID, NEW t \in OID
  PROVE  /\ oid_cover(s, t) = 1 <=> Covers(s, t)
         /\ oid_cover(s, t) = -1 <=> Covers(t, s) /\ s # t
         /\ oid_cover(s, t) \in {-1, 0, 1}
<1>1. ASSUME NEW o \in OID, NEW p \in OID, Len(o) <= Len(p)
      PROVE  /\ SubSeq(p, 1, Len(o)) \in OID
             /\ o = SubSeq(p, 1, Len(o)) <=> \A i \in 1 .. Len(o) : o[i] = p[i]
  <2> DEFINE q == SubSeq(p, 1, Len(o))
  <2>1. Len(o) \in Nat /\ Len(p) \in Nat /\ \A i \in 1 .. Len(o) : p[i] \in SubId
    BY <1>1 DEF OID
  <2>2. q \in OID /\ Len(q) = Len(o) /\ \A i \in 1 .. Len(o) : q[i] = p[i]
    BY <1>1, <2>1 DEF OID
  <2> HIDE DEF q
  <2>3. (\A i \in 1 .. Len(o) : o[i] = q[i]) => o = q
    BY <2>2, SeqSame DEF OID
  <2>4. q \in OID /\ (o = q <=> \A i \in 1 .. Len(o) : o[i] = p[i])
    BY <2>2, <2>3
  <2> QED
    BY <2>4 DEF q
<1>2. ASSUME NEW o \in OID, NEW p \in OID, Len(o) <= Len(p)
      PROVE  /\ oid_cmp(o, SubSeq(p, 1, Len(o))) = 0 <=> Covers(o, p)
             /\ oid_cmp(SubSeq(p, 1, Len(o)), o) = 0 <=> Covers(o, p)
  <2> DEFINE q == SubSeq(p, 1, Len(o))
  <2>1. q \in OID /\ (o = q <=> Covers(o, p))
    BY <1>1, <1>2 DEF Covers
  <2> HIDE DEF q
  <2>2. (oid_cmp(o, q) = 0 <=> Covers(o, p)) /\ (oid_cmp(q, o) = 0 <=> Covers(o, p))
    BY <2>1, CmpZero
  <2> QED
    BY <2>2 DEF q
<1>3. Covers(s, t) => Len(s) <= Len(t)
  BY DEF Covers
<1>4. Covers(t, s) => Len(t) <= Len(s)
  BY DEF Covers
<1>5. Covers(s, t) /\ Covers(t, s) <=> s = t
  <2>1. Len(s) \in Nat /\ Len(t) \in Nat
    BY DEF OID
  <2>2. s = t => Covers(s, t) /\ Covers(t, s)
    BY <2>1 DEF Covers
  <2>3. Covers(s, t) /\ Covers(t, s) => s = t
    BY <2>1, SeqSame DEF Covers, OID
  <2> QED
    BY <2>2, <2>3
<1>6. oid_cover(s, t) = 1 <=> Covers(s, t)
  BY <1>2, <1>3 DEF oid_cover
<1>7. oid_cover(s, t) = -1 <=> Covers(t, s) /\ s # t
  BY <1>2, <1>3, <1>4, <1>5 DEF oid_cover
<1> QED
  BY <1>6, <1>7 DEF oid_cover

\* What the callers test of oid_cover: its sign.
LEMMA CoverSign ==
  ASSUME NEW s \in OID, NEW t \in OID
  PROVE  /\ oid_cover(s, t) > 0 <=> Covers(s, t)
         /\ oid_cover(s, t) < 0 <=> Covers(t, s) /\ s # t
         /\ oid_cover(s, t) = 0 <=> ~ Covers(s, t) /\ ~ Covers(t, s)
<1>1. s = t => Covers(s, t)
  BY DEF Covers, OID
<1> QED
  BY <1>1, CoverPrefix

\* Covering is transitive.
LEMMA CoversTransitive ==
  ASSUME NEW s \in OID, NEW t \in OID, NEW u \in OID, Covers(s, t), Covers(t, u)
  PROVE  Covers(s, u)
BY DEF Covers, OID

\* Two oids that cover a third are comparable.
LEMMA CoversLinear ==
  ASSUME NEW s \in OID, NEW t \in OID, NEW u \in OID, Covers(s, u), Covers(t, u)
  PROVE  Covers(s, t) \/ Covers(t, s)
BY DEF Covers, OID

\* The order of oids is total.
LEMMA OidLessTotal ==
  ASSUME NEW s \in SmallOID, NEW t \in SmallOID
  PROVE  /\ s = t \/ OidLess(s, t) \/ OidLess(t, s)
         /\ ~ (OidLess(s, t) /\ OidLess(t, s))
         /\ ~ OidLess(s, s)
BY SmallIsOid, CmpZero, CmpSign

\* The order of oids is transitive.
LEMMA OidLessTransitive ==
  ASSUME NEW s \in SmallOID, NEW t \in SmallOID, NEW u \in SmallOID,
         OidLess(s, t), OidLess(t, u)
  PROVE  OidLess(s, u)
<1> DEFINE At(o, p, i) == /\ i \in 1 .. Len(o) /\ i <= Len(p) /\ o[i] < p[i]
                          /\ \A j \in 1 .. (i - 1) : o[j] = p[j]
<1>0. s \in OID /\ t \in OID /\ u \in OID
  BY SmallIsOid
<1>1. /\ Len(s) \in Nat /\ Len(t) \in Nat /\ Len(u) \in Nat
      /\ \A i \in 1 .. Len(s) : s[i] \in Int
      /\ \A i \in 1 .. Len(t) : t[i] \in Int
      /\ \A i \in 1 .. Len(u) : u[i] \in Int
  <2>1. ASSUME NEW o \in SmallOID
        PROVE  Len(o) \in Nat /\ \A i \in 1 .. Len(o) : o[i] \in Int
    BY HalfAssumption DEF SmallOID, SmallSubId
  <2> QED
    BY <2>1
<1>2. CASE Covers(s, t) /\ Covers(t, u)
  <2>1. Covers(s, u)
    BY <1>0, <1>2, CoversTransitive
  <2>2. s # u
    <3>1. s = u => Covers(t, s)
      BY <1>2
    <3>2. Covers(t, s) => s = t
      BY <1>0, <1>2, CoverPrefix
    <3>3. ~ OidLess(s, s)
      BY OidLessTotal
    <3> QED
      BY <3>1, <3>2, <3>3
  <2> QED
    BY <2>1, <2>2 DEF OidLess
<1>3. CASE Covers(s, t) /\ \E i : At(t, u, i)
  <2>1. PICK i : At(t, u, i)
    BY <1>3
  <2>2. CASE i <= Len(s)
    BY <1>1, <1>3, <2>1, <2>2 DEF OidLess, Covers
  <2>3. CASE i > Len(s)
    <3>1. Covers(s, u) /\ Len(s) < Len(u)
      BY <1>1, <1>3, <2>1, <2>3 DEF Covers
    <3> QED
      BY <1>1, <3>1 DEF OidLess
  <2> QED
    BY <1>1, <2>1, <2>2, <2>3
<1>4. CASE (\E i : At(s, t, i)) /\ Covers(t, u)
  <2>1. PICK i : At(s, t, i)
    BY <1>4
  <2> QED
    BY <1>1, <1>4, <2>1 DEF OidLess, Covers
<1>5. CASE (\E i : At(s, t, i)) /\ \E i : At(t, u, i)
  <2>1. PICK i : At(s, t, i)
    BY <1>5
  <2>2. PICK k : At(t, u, k)
    BY <1>5
  <2>3. CASE i < k
    BY <1>1, <2>1, <2>2, <2>3 DEF OidLess
  <2>4. CASE k < i
    <3>1. At(s, u, k)
      BY <1>1, <2>1, <2>2, <2>4
    <3> QED
      BY <3>1 DEF OidLess
  <2>5. CASE i = k
    <3>1. At(s, u, k)
      BY <1>1, <2>1, <2>2, <2>5
    <3> QED
      BY <3>1 DEF OidLess
  <2> QED
    BY <2>1, <2>2, <2>3, <2>4, <2>5, <1>1
<1> QED
  BY <1>2, <1>3, <1>4, <1>5 DEF OidLess

\* Small oids are sequences of numbers.
LEMMA SmallFacts ==
  ASSUME NEW o \in SmallOID
  PROVE  o \in OID /\ Len(o) \in Nat /\ \A i \in 1 .. Len(o) : o[i] \in Int
<1>1. SmallSubId \subseteq Int
  BY HalfAssumption DEF SmallSubId
<1>2. Len(o) \in Nat /\ \A i \in 1 .. Len(o) : o[i] \in SmallSubId
  BY DEF SmallOID
<1> QED
  BY <1>1, <1>2, SmallIsOid

\* What an oid covers does not come before it.
LEMMA CoversOrder ==
  ASSUME NEW v \in SmallOID, NEW x \in SmallOID, Covers(v, x)
  PROVE  (v = x \/ OidLess(v, x)) /\ ~ OidLess(x, v)
<1>1. v = x \/ OidLess(v, x)
  BY DEF OidLess
<1> QED
  BY <1>1, OidLessTotal

\* A subtree is an interval of the order: what lies between two of its oids is in it.
LEMMA CoversInterval ==
  ASSUME NEW v \in SmallOID, NEW o \in SmallOID, NEW y \in SmallOID, NEW x \in SmallOID,
         Covers(v, o), Covers(v, x), OidLess(o, y), OidLess(y, x)
  PROVE  Covers(v, y)
<1>1. /\ Len(v) \in Nat /\ Len(o) \in Nat /\ Len(y) \in Nat /\ Len(x) \in Nat
      /\ \A i \in 1 .. Len(v) : v[i] \in Int
      /\ \A i \in 1 .. Len(o) : o[i] \in Int
      /\ \A i \in 1 .. Len(y) : y[i] \in Int
      /\ \A i \in 1 .. Len(x) : x[i] \in Int
      /\ v \in OID /\ o \in OID /\ y \in OID /\ x \in OID
  BY SmallFacts
<1>2. CASE Covers(o, y)
  BY <1>1, <1>2, CoversTransitive
<1>3. CASE ~ Covers(o, y)
  <2>1. PICK i \in 1 .. Len(o) : i <= Len(y) /\ o[i] < y[i] /\ \A j \in 1 .. (i - 1) : o[j] = y[j]
    BY <1>3 DEF OidLess
  <2>2. CASE i > Len(v)
    BY <1>1, <2>1, <2>2 DEF Covers
  <2>3. CASE i <= Len(v)
    <3>1. /\ i \in 1 .. Len(v) /\ i \in 1 .. Len(x) /\ i \in 1 .. Len(y)
          /\ x[i] = v[i] /\ o[i] = v[i] /\ v[i] < y[i]
          /\ \A j \in 1 .. (i - 1) : x[j] = y[j]
      <4>1. Len(v) <= Len(o) /\ Len(v) <= Len(x)
        BY DEF Covers
      <4>2. \A j \in 1 .. Len(v) : o[j] = v[j] /\ x[j] = v[j]
        BY DEF Covers
      <4>3. i \in 1 .. Len(v) /\ i \in 1 .. Len(x) /\ i \in 1 .. Len(y)
        BY <1>1, <2>1, <2>3, <4>1
      <4>4. x[i] = v[i] /\ o[i] = v[i] /\ v[i] < y[i]
        BY <2>1, <4>2, <4>3
      <4>5. ASSUME NEW j \in 1 .. (i - 1) PROVE x[j] = y[j]
        <5>1. j \in 1 .. Len(v)
          BY <1>1, <4>3
        <5>2. o[j] = y[j]
          BY <2>1
        <5> QED
          BY <4>2, <5>1, <5>2
      <4> QED
        BY <4>3, <4>4, <4>5
    <3>2. ~ Covers(y, x)
      BY <1>1, <3>1 DEF Covers
    <3>3. PICK k \in 1 .. Len(y) : k <= Len(x) /\ y[k] < x[k] /\ \A j \in 1 .. (k - 1) : y[j] = x[j]
      BY <3>2 DEF OidLess
    <3>4. k \in Int /\ i \in Int /\ y[k] \in Int /\ x[k] \in Int /\ y[i] \in Int /\ x[i] \in Int
      BY <1>1, <3>1, <3>3
    <3>5. CASE k < i
      BY <3>1, <3>3, <3>4, <3>5
    <3>6. CASE k = i
      BY <3>1, <3>3, <3>4, <3>6
    <3>7. CASE i < k
      BY <3>1, <3>3, <3>4, <3>7
    <3> QED
      BY <3>4, <3>5, <3>6, <3>7
  <2> QED
    BY <1>1, <2>1, <2>2, <2>3
<1> QED
  BY <1>2, <1>3

\* An oid ahead of one in a subtree is ahead of the subtree or in it.
LEMMA AheadOrWithin ==
  ASSUME NEW v \in SmallOID, NEW o \in SmallOID, NEW x \in SmallOID, Covers(v, x), OidLess(o, x)
  PROVE  OidLess(o, v) \/ Covers(v, o)
<1>1. Covers(v, v)
  BY SmallFacts DEF Covers
<1>2. o = v \/ OidLess(o, v) \/ OidLess(v, o)
  BY OidLessTotal
<1>3. CASE OidLess(v, o)
  BY <1>1, <1>3, CoversInterval
<1> QED
  BY <1>1, <1>2, <1>3

\* A subtree that begins before an oid outside it ends before it, too.
LEMMA SubtreeBefore ==
  ASSUME NEW v \in SmallOID, NEW w \in SmallOID, NEW x \in SmallOID,
         OidLess(v, w), ~ Covers(v, w), Covers(v, x)
  PROVE  OidLess(x, w)
<1>1. /\ Len(v) \in Nat /\ Len(w) \in Nat /\ Len(x) \in Nat
  BY SmallFacts
<1>2. PICK i \in 1 .. Len(v) : i <= Len(w) /\ v[i] < w[i] /\ \A j \in 1 .. (i - 1) : v[j] = w[j]
  BY DEF OidLess
<1>3. i \in 1 .. Len(x) /\ x[i] < w[i] /\ \A j \in 1 .. (i - 1) : x[j] = w[j]
  BY <1>1, <1>2 DEF Covers
<1> QED
  BY <1>2, <1>3 DEF OidLess

\* A finite set of oids has a least one: the closest next variable exists.
LEMMA LeastOid ==
  ASSUME NEW S \in SUBSET SmallOID, IsFiniteSet(S), S # {}
  PROVE  \E s \in S : \A t \in S : s = t \/ OidLess(s, t)
<1>1. PICK q \in Seq(S) : \A x \in S : \E n \in 1 .. Len(q) : q[n] = x
  BY DEF IsFiniteSet
<1> DEFINE Found(n) == \E s \in S : \A k \in 1 .. n : s = q[k] \/ OidLess(s, q[k])
           N == {n \in 0 .. Len(q) : ~ Found(n)}
<1>2. ASSUME N # {} PROVE FALSE
  <2>1. N \in SUBSET Nat
    OBVIOUS
  <2>2. PICK m \in N : \A k \in N : m <= k
    BY <1>2, <2>1, LeastElement
  <2>3. m \in 0 .. Len(q) /\ ~ Found(m)
    BY <2>2
  <2>4. m # 0
    BY <2>3
  <2>5. Found(m - 1)
    <3>1. m - 1 \in 0 .. Len(q) /\ ~ (m <= m - 1)
      BY <2>3, <2>4
    <3> HIDE DEF Found
    <3> QED
      BY <2>2, <3>1
  <2>6. PICK s \in S : \A k \in 1 .. m - 1 : s = q[k] \/ OidLess(s, q[k])
    BY <2>5
  <2>7. q[m] \in S
    BY <2>3, <2>4
  <2>8. CASE s = q[m] \/ OidLess(s, q[m])
    <3>1. \A k \in 1 .. m : k \in 1 .. m - 1 \/ k = m
      BY <2>3
    <3> QED
      BY <2>3, <2>6, <2>8, <3>1
  <2>9. CASE ~ (s = q[m] \/ OidLess(s, q[m]))
    <3>1. OidLess(q[m], s)
      BY <2>7, <2>9, OidLessTotal
    <3>2. ASSUME NEW k \in 1 .. m PROVE q[m] = q[k] \/ OidLess(q[m], q[k])
      <4>1. k = m \/ k \in 1 .. m - 1
        BY <2>3
      <4>2. q[k] \in S
        BY <2>3
      <4> QED
        BY <2>6, <2>7, <3>1, <4>1, <4>2, OidLessTransitive
    <3> QED
      BY <2>3, <2>7, <3>2
  <2> QED
    BY <2>8, <2>9
<1>3. Len(q) \in 0 .. Len(q)
  OBVIOUS
<1>4. PICK s \in S : \A k \in 1 .. Len(q) : s = q[k] \/ OidLess(s, q[k])
  BY <1>2, <1>3
<1> QED
  BY <1>1, <1>4
-----------------------------------------------------------------------------
\* What RemoveAt returns.
LEMMA RemoveAtFacts ==
  ASSUME NEW S, NEW s \in Seq(S), NEW i \in 1 .. Len(s)
  PROVE  /\ RemoveAt(s, i) \in Seq(S)
         /\ Len(RemoveAt(s, i)) = Len(s) - 1
         /\ \A j \in 1 .. (Len(s) - 1) : RemoveAt(s, i)[j] = IF j < i THEN s[j] ELSE s[j + 1]
<1> DEFINE a == SubSeq(s, 1, i - 1)
           b == SubSeq(s, i + 1, Len(s))
<1>0. Len(s) \in Nat /\ i \in Nat /\ i >= 1 /\ i <= Len(s)
  OBVIOUS
<1>1. a \in Seq(S) /\ Len(a) = i - 1 /\ \A j \in 1 .. (i - 1) : a[j] = s[j]
  <2>1. \A j \in 1 .. (i - 1) : s[j] \in S
    BY <1>0
  <2>2. 1 \in Int /\ i - 1 \in Int
    BY <1>0
  <2>3. /\ a \in Seq(S)
        /\ Len(a) = IF 1 <= i - 1 THEN i - 1 - 1 + 1 ELSE 0
        /\ \A j \in 1 .. (i - 1 - 1 + 1) : a[j] = s[1 + j - 1]
    BY <2>1, <2>2, SubSeqIs
  <2> HIDE DEF a
  <2>4. Len(a) = i - 1
    BY <1>0, <2>3
  <2>5. \A j \in 1 .. (i - 1) : j \in 1 .. (i - 1 - 1 + 1) /\ 1 + j - 1 = j
    BY <1>0
  <2> QED
    BY <2>3, <2>4, <2>5
<1>2. b \in Seq(S) /\ Len(b) = Len(s) - i /\ \A j \in 1 .. (Len(s) - i) : b[j] = s[i + j]
  <2>1. \A j \in (i + 1) .. Len(s) : s[j] \in S
    BY <1>0
  <2>2. i + 1 \in Int /\ Len(s) \in Int
    BY <1>0
  <2>3. /\ b \in Seq(S)
        /\ Len(b) = IF i + 1 <= Len(s) THEN Len(s) - (i + 1) + 1 ELSE 0
        /\ \A j \in 1 .. (Len(s) - (i + 1) + 1) : b[j] = s[i + 1 + j - 1]
    BY <2>1, <2>2, SubSeqIs
  <2> HIDE DEF b
  <2> QED
    BY <1>0, <2>3
<1>3. RemoveAt(s, i) = a \o b
  BY DEF RemoveAt
<1> HIDE DEF a, b
<1>4. /\ a \o b \in Seq(S) /\ Len(a \o b) = Len(a) + Len(b)
      /\ \A j \in 1 .. Len(a) + Len(b) : (a \o b)[j] = IF j <= Len(a) THEN a[j] ELSE b[j - Len(a)]
  BY <1>1, <1>2, ConcatIs
<1>5. ASSUME NEW j \in 1 .. (Len(s) - 1)
      PROVE  (a \o b)[j] = IF j < i THEN s[j] ELSE s[j + 1]
  <2>1. CASE j < i
    BY <2>1, <1>0, <1>1, <1>2, <1>4
  <2>2. CASE ~ (j < i)
    <3>1. j - (i - 1) \in 1 .. (Len(s) - i) /\ i + (j - (i - 1)) = j + 1
      BY <2>2, <1>0
    <3>2. (a \o b)[j] = b[j - (i - 1)]
      BY <2>2, <1>0, <1>1, <1>2, <1>4
    <3>3. b[j - (i - 1)] = s[i + (j - (i - 1))]
      BY <3>1, <1>2
    <3> QED
      BY <2>2, <3>1, <3>2, <3>3
  <2> QED
    BY <2>1, <2>2
<1> QED
  BY <1>0, <1>1, <1>2, <1>3, <1>4, <1>5

\* What InsertAt returns.
LEMMA InsertAtFacts ==
  ASSUME NEW S, NEW s \in Seq(S), NEW i \in 1 .. (Len(s) + 1), NEW e \in S
  PROVE  /\ InsertAt(s, i, e) \in Seq(S)
         /\ Len(InsertAt(s, i, e)) = Len(s) + 1
         /\ \A j \in 1 .. (Len(s) + 1) :
              /\ j < i => InsertAt(s, i, e)[j] = s[j]
              /\ j = i => InsertAt(s, i, e)[j] = e
              /\ j > i => InsertAt(s, i, e)[j] = s[j - 1]
<1> DEFINE a == SubSeq(s, 1, i - 1)
           b == SubSeq(s, i, Len(s))
<1>0. Len(s) \in Nat /\ i \in Nat /\ i >= 1 /\ i <= Len(s) + 1
  OBVIOUS
<1>1. a \in Seq(S) /\ Len(a) = i - 1 /\ \A j \in 1 .. (i - 1) : a[j] = s[j]
  <2>1. \A j \in 1 .. (i - 1) : s[j] \in S
    BY <1>0
  <2>2. 1 \in Int /\ i - 1 \in Int
    BY <1>0
  <2>3. /\ a \in Seq(S)
        /\ Len(a) = IF 1 <= i - 1 THEN i - 1 - 1 + 1 ELSE 0
        /\ \A j \in 1 .. (i - 1 - 1 + 1) : a[j] = s[1 + j - 1]
    BY <2>1, <2>2, SubSeqIs
  <2> HIDE DEF a
  <2>4. Len(a) = i - 1
    BY <1>0, <2>3
  <2>5. \A j \in 1 .. (i - 1) : j \in 1 .. (i - 1 - 1 + 1) /\ 1 + j - 1 = j
    BY <1>0
  <2> QED
    BY <2>3, <2>4, <2>5
<1>2. b \in Seq(S) /\ Len(b) = Len(s) + 1 - i /\ \A j \in 1 .. (Len(s) + 1 - i) : b[j] = s[i + j - 1]
  <2>1. \A j \in i .. Len(s) : s[j] \in S
    BY <1>0
  <2>2. i \in Int /\ Len(s) \in Int
    BY <1>0
  <2>3. /\ b \in Seq(S)
        /\ Len(b) = IF i <= Len(s) THEN Len(s) - i + 1 ELSE 0
        /\ \A j \in 1 .. (Len(s) - i + 1) : b[j] = s[i + j - 1]
    BY <2>1, <2>2, SubSeqIs
  <2> HIDE DEF b
  <2> QED
    BY <1>0, <2>3
<1> HIDE DEF a, b
<1> DEFINE c == a \o <<e>>
<1>3. InsertAt(s, i, e) = c \o b
  BY DEF InsertAt, a, b
<1>4. c \in Seq(S) /\ Len(c) = i /\ \A j \in 1 .. i : c[j] = IF j < i THEN s[j] ELSE e
  <2>1. <<e>> \in Seq(S) /\ Len(<<e>>) = 1 /\ <<e>>[1] = e
    OBVIOUS
  <2>2. /\ c \in Seq(S) /\ Len(c) = Len(a) + Len(<<e>>)
        /\ \A j \in 1 .. Len(a) + Len(<<e>>) :
             c[j] = IF j <= Len(a) THEN a[j] ELSE <<e>>[j - Len(a)]
    BY <1>1, <2>1, ConcatIs
  <2> HIDE DEF c
  <2>a. Len(a) = i - 1 /\ Len(a) + Len(<<e>>) = i
    BY <1>0, <1>1, <2>1
  <2>3. \A j \in 1 .. i : c[j] = IF j <= i - 1 THEN a[j] ELSE <<e>>[j - (i - 1)]
    BY ONLY <2>2, <2>a
  <2>4. Len(c) = i
    BY <2>2, <2>a
  <2>5. ASSUME NEW j \in 1 .. i PROVE c[j] = IF j < i THEN s[j] ELSE e
    <3>1. CASE j < i
      BY <3>1, <1>0, <1>1, <2>3
    <3>2. CASE ~ (j < i)
      <4>1. j - (i - 1) = 1
        BY <1>0, <3>2
      <4> QED
        BY <2>1, <2>3, <3>2, <4>1
    <3> QED
      BY <3>1, <3>2
  <2> QED
    BY <2>2, <2>4, <2>5
<1> HIDE DEF c
<1>5. /\ c \o b \in Seq(S) /\ Len(c \o b) = Len(c) + Len(b)
      /\ \A j \in 1 .. Len(c) + Len(b) : (c \o b)[j] = IF j <= Len(c) THEN c[j] ELSE b[j - Len(c)]
  BY <1>2, <1>4, ConcatIs
<1>a. Len(c) = i /\ Len(c) + Len(b) = Len(s) + 1
  BY <1>0, <1>2, <1>4
<1>b. \A j \in 1 .. (Len(s) + 1) : (c \o b)[j] = IF j <= i THEN c[j] ELSE b[j - i]
  BY ONLY <1>5, <1>a
<1>6. ASSUME NEW j \in 1 .. (Len(s) + 1)
      PROVE  /\ j < i => (c \o b)[j] = s[j]
             /\ j = i => (c \o b)[j] = e
             /\ j > i => (c \o b)[j] = s[j - 1]
  <2>1. CASE j <= i
    BY <2>1, <1>0, <1>4, <1>b
  <2>2. CASE ~ (j <= i)
    <3>1. j - i \in 1 .. (Len(s) + 1 - i) /\ i + (j - i) - 1 = j - 1
      BY <2>2, <1>0
    <3>2. (c \o b)[j] = b[j - i]
      BY <2>2, <1>b
    <3>3. b[j - i] = s[i + (j - i) - 1]
      BY <3>1, <1>2
    <3> QED
      BY <2>2, <3>1, <3>2, <3>3, <1>0
  <2> QED
    BY <2>1, <2>2
<1> QED
  BY <1>3, <1>5, <1>6, <1>a

\* The entries after a deletion: all but the one taken out.
LEMMA RemoveEntries ==
  ASSUME NEW S, NEW s \in Seq(S), NEW n \in 1 .. Len(s), Unique(s)
  PROVE  /\ \A o : Contains(RemoveAt(s, n), o) <=> Contains(s, o) /\ o # s[n]
         /\ Unique(RemoveAt(s, n))
<1> DEFINE r == RemoveAt(s, n)
<1>1. Len(s) \in Nat /\ n \in Nat
  OBVIOUS
<1>2. Len(r) = Len(s) - 1 /\ \A j \in 1 .. (Len(s) - 1) : r[j] = IF j < n THEN s[j] ELSE s[j + 1]
  BY RemoveAtFacts
<1> HIDE DEF r
<1>3. \A j \in 1 .. Len(s) : j # n => s[j] # s[n]
  BY DEF Unique
<1>4. ASSUME NEW o, Contains(r, o) PROVE Contains(s, o) /\ o # s[n]
  <2>1. PICK j \in 1 .. (Len(s) - 1) : r[j] = o
    BY <1>2, <1>4 DEF Contains
  <2>2. CASE j < n
    BY <1>1, <1>2, <1>3, <2>1, <2>2 DEF Contains
  <2>3. CASE ~ (j < n)
    <3>1. j + 1 \in 1 .. Len(s) /\ j + 1 # n /\ o = s[j + 1]
      BY <1>1, <1>2, <2>1, <2>3
    <3> QED
      BY <1>3, <3>1 DEF Contains
  <2> QED
    BY <2>2, <2>3
<1>5. ASSUME NEW o, Contains(s, o), o # s[n] PROVE Contains(r, o)
  <2>1. PICK j \in 1 .. Len(s) : s[j] = o
    BY <1>5 DEF Contains
  <2>2. CASE j < n
    <3>1. j \in 1 .. (Len(s) - 1) /\ r[j] = o
      BY <1>1, <1>2, <2>1, <2>2
    <3> QED
      BY <1>2, <3>1 DEF Contains
  <2>3. CASE ~ (j < n)
    <3>1. j - 1 \in 1 .. (Len(s) - 1) /\ ~ (j - 1 < n) /\ (j - 1) + 1 = j
      BY <1>1, <1>5, <2>1, <2>3
    <3>2. r[j - 1] = o
      BY <1>2, <2>1, <3>1
    <3> QED
      BY <1>2, <3>1, <3>2 DEF Contains
  <2> QED
    BY <2>2, <2>3
<1>6. Unique(r)
  <2> SUFFICES ASSUME NEW i \in 1 .. (Len(s) - 1), NEW j \in 1 .. (Len(s) - 1), r[i] = r[j]
               PROVE  i = j
    BY <1>2 DEF Unique
  <2> DEFINE up(k) == IF k < n THEN k ELSE k + 1
  <2>1. /\ up(i) \in 1 .. Len(s) /\ up(j) \in 1 .. Len(s)
        /\ up(i) = up(j) => i = j
    BY <1>1
  <2>2. r[i] = s[up(i)] /\ r[j] = s[up(j)]
    BY <1>2
  <2> HIDE DEF up
  <2> QED
    BY <2>1, <2>2 DEF Unique
<1> QED
  BY <1>4, <1>5, <1>6 DEF r

\* The entries after an insertion: the old ones and the new one.
LEMMA InsertEntries ==
  ASSUME NEW S, NEW s \in Seq(S), NEW n \in 1 .. (Len(s) + 1), NEW e \in S, NEW o
  PROVE  Contains(InsertAt(s, n, e), o) <=> Contains(s, o) \/ o = e
<1> DEFINE r == InsertAt(s, n, e)
<1>1. Len(s) \in Nat /\ n \in Nat
  OBVIOUS
<1>2. /\ Len(r) = Len(s) + 1
      /\ \A j \in 1 .. (Len(s) + 1) :
           /\ j < n => r[j] = s[j]
           /\ j = n => r[j] = e
           /\ j > n => r[j] = s[j - 1]
  <2>1. Len(r) = Len(s) + 1
    BY InsertAtFacts
  <2>2. ASSUME NEW j \in 1 .. (Len(s) + 1)
        PROVE  /\ j < n => r[j] = s[j]
               /\ j = n => r[j] = e
               /\ j > n => r[j] = s[j - 1]
    BY InsertAtFacts
  <2> QED
    BY ONLY <2>1, <2>2
<1> HIDE DEF r
<1>3. ASSUME Contains(r, o) PROVE Contains(s, o) \/ o = e
  <2>1. PICK j \in 1 .. (Len(s) + 1) : r[j] = o
    BY <1>2, <1>3 DEF Contains
  <2>2. CASE j < n
    <3>1. j \in 1 .. Len(s) /\ s[j] = o
      BY <1>1, <1>2, <2>1, <2>2
    <3> QED
      BY <3>1 DEF Contains
  <2>3. CASE j = n
    BY <1>2, <2>1, <2>3, <1>1
  <2>4. CASE j > n
    <3>1. j - 1 \in 1 .. Len(s) /\ s[j - 1] = o
      BY <1>1, <1>2, <2>1, <2>4
    <3> QED
      BY <3>1 DEF Contains
  <2> QED
    BY <1>1, <2>2, <2>3, <2>4
<1>4. ASSUME Contains(s, o) PROVE Contains(r, o)
  <2>1. PICK j \in 1 .. Len(s) : s[j] = o
    BY <1>4 DEF Contains
  <2>2. CASE j < n
    <3>1. j \in 1 .. (Len(s) + 1) /\ r[j] = o
      BY <1>1, <1>2, <2>1, <2>2
    <3> QED
      BY <1>2, <3>1 DEF Contains
  <2>3. CASE ~ (j < n)
    <3>1. j + 1 \in 1 .. (Len(s) + 1) /\ j + 1 > n /\ (j + 1) - 1 = j
      BY <1>1, <2>1, <2>3
    <3>2. r[j + 1] = o
      BY <1>2, <2>1, <3>1
    <3> QED
      BY <1>2, <3>1, <3>2 DEF Contains
  <2> QED
    BY <2>2, <2>3
<1>5. Contains(r, e)
  <2>1. n \in 1 .. (Len(s) + 1) /\ r[n] = e
    BY <1>1, <1>2
  <2> QED
    BY <1>2, <2>1 DEF Contains
<1> QED
  BY <1>3, <1>4, <1>5 DEF r

\* A new name at the head of a list.
LEMMA PrependEntries ==
  ASSUME NEW S, NEW s \in Seq(S), NEW c \in S, Unique(s), ~ Contains(s, c)
  PROVE  Unique(<<c>> \o s) /\ \A o : Contains(<<c>> \o s, o) <=> Contains(s, o) \/ o = c
<1> DEFINE r == <<c>> \o s
<1>1. Len(s) \in Nat
  OBVIOUS
<1>2. Len(r) = Len(s) + 1 /\ \A j \in 1 .. (Len(s) + 1) : r[j] = IF j = 1 THEN c ELSE s[j - 1]
  <2>1. <<c>> \in Seq(S) /\ Len(<<c>>) = 1 /\ <<c>>[1] = c
    OBVIOUS
  <2>2. /\ Len(r) = Len(<<c>>) + Len(s)
        /\ \A j \in 1 .. Len(<<c>>) + Len(s) :
             r[j] = IF j <= Len(<<c>>) THEN <<c>>[j] ELSE s[j - Len(<<c>>)]
    BY <2>1, ConcatIs
  <2>3. \A j \in 1 .. (1 + Len(s)) : r[j] = IF j <= 1 THEN <<c>>[j] ELSE s[j - 1]
    BY <2>1, <2>2
  <2> HIDE DEF r
  <2> QED
    BY <1>1, <2>1, <2>2, <2>3
<1> HIDE DEF r
<1>3. \A j \in 1 .. (Len(s) + 1) : j # 1 => j - 1 \in 1 .. Len(s)
  BY <1>1
<1>4. Unique(r)
  <2> SUFFICES ASSUME NEW i \in 1 .. (Len(s) + 1), NEW j \in 1 .. (Len(s) + 1), r[i] = r[j]
               PROVE  i = j
    BY <1>2 DEF Unique
  <2>1. CASE i # 1 /\ j # 1
    <3>1. s[i - 1] = s[j - 1] /\ i - 1 \in 1 .. Len(s) /\ j - 1 \in 1 .. Len(s)
      BY <1>2, <1>3, <2>1
    <3>2. i - 1 = j - 1
      BY <3>1 DEF Unique
    <3> QED
      BY <3>2, <1>1
  <2>2. CASE i = 1 /\ j # 1
    BY <1>2, <1>3, <2>2 DEF Contains
  <2>3. CASE i # 1 /\ j = 1
    BY <1>2, <1>3, <2>3 DEF Contains
  <2> QED
    BY <2>1, <2>2, <2>3
<1>5. ASSUME NEW o PROVE Contains(r, o) <=> Contains(s, o) \/ o = c
  <2>1. ASSUME Contains(r, o) PROVE Contains(s, o) \/ o = c
    BY <1>2, <1>3, <2>1 DEF Contains
  <2>2. Contains(r, c)
    <3>1. 1 \in 1 .. Len(r) /\ r[1] = c
      BY <1>1, <1>2
    <3> QED
      BY <3>1 DEF Contains
  <2>3. ASSUME Contains(s, o) PROVE Contains(r, o)
    <3>1. PICK j \in 1 .. Len(s) : s[j] = o
      BY <2>3 DEF Contains
    <3>2. j + 1 \in 1 .. (Len(s) + 1) /\ j + 1 # 1 /\ (j + 1) - 1 = j
      BY <1>1
    <3>3. j + 1 \in 1 .. Len(r) /\ r[j + 1] = o
      BY <1>2, <3>1, <3>2
    <3> QED
      BY <3>3 DEF Contains
  <2> QED
    BY <2>1, <2>2, <2>3
<1> QED
  BY <1>4, <1>5 DEF r

\* An element put behind the first i elements of a list.
LEMMA InsertBehind ==
  ASSUME NEW S, NEW s \in Seq(S), NEW i \in 0 .. Len(s), NEW e \in S
  PROVE  /\ InsertAt(s, i + 1, e) \in Seq(S)
         /\ Len(InsertAt(s, i + 1, e)) = Len(s) + 1
         /\ \A o : Contains(InsertAt(s, i + 1, e), o) <=> Contains(s, o) \/ o = e
         /\ \A j \in 1 .. (Len(s) + 1) :
              /\ j < i + 1 => InsertAt(s, i + 1, e)[j] = s[j]
              /\ j = i + 1 => InsertAt(s, i + 1, e)[j] = e
              /\ j > i + 1 => InsertAt(s, i + 1, e)[j] = s[j - 1]
<1>1. Len(s) \in Nat
  OBVIOUS
<1>2. i + 1 \in 1 .. (Len(s) + 1)
  BY <1>1
<1>3. PICK n \in 1 .. (Len(s) + 1) : n = i + 1
  BY <1>2
<1>4. InsertAt(s, n, e) \in Seq(S) /\ Len(InsertAt(s, n, e)) = Len(s) + 1
  BY InsertAtFacts
<1>5. ASSUME NEW j \in 1 .. (Len(s) + 1)
      PROVE  /\ j < n => InsertAt(s, n, e)[j] = s[j]
             /\ j = n => InsertAt(s, n, e)[j] = e
             /\ j > n => InsertAt(s, n, e)[j] = s[j - 1]
  BY InsertAtFacts
<1>6. ASSUME NEW o PROVE Contains(InsertAt(s, n, e), o) <=> Contains(s, o) \/ o = e
  BY InsertEntries
<1> QED
  BY ONLY <1>3, <1>4, <1>5, <1>6

\* An ascending array with a sub-identifier put in its place.
LEMMA InsertSorted ==
  ASSUME NEW a \in Seq(SubId), StrictlySorted(a), NEW x \in SubId, NEW i \in 0 .. Len(a),
         \A j \in 1 .. i : a[j] < x, \A j \in (i + 1) .. Len(a) : a[j] > x
  PROVE  StrictlySorted(InsertAt(a, i + 1, x))
<1> DEFINE b == InsertAt(a, i + 1, x)
<1>1. Len(a) \in Nat /\ i \in Nat /\ x \in Int /\ \A j \in 1 .. Len(a) : a[j] \in Int
  <2>1. SubId \subseteq Int
    BY HalfAssumption DEF SubId, Word
  <2>2. Len(a) \in Nat /\ \A j \in 1 .. Len(a) : a[j] \in SubId
    OBVIOUS
  <2>3. i \in Nat
    BY <2>2
  <2> QED
    BY ONLY <2>1, <2>2, <2>3, x \in SubId
<1>2. i + 1 \in 1 .. (Len(a) + 1)
  BY <1>1
<1>3. /\ Len(b) = Len(a) + 1
      /\ \A j \in 1 .. (Len(a) + 1) : /\ j < i + 1 => b[j] = a[j]
                                      /\ j = i + 1 => b[j] = x
                                      /\ j > i + 1 => b[j] = a[j - 1]
  BY InsertBehind
<1> HIDE DEF b
<1>4. \A j, k \in 1 .. Len(a) : j < k => a[j] < a[k]
  BY DEF StrictlySorted
<1>5. ASSUME NEW j \in 1 .. (Len(a) + 1), NEW k \in 1 .. (Len(a) + 1), j < k
      PROVE  b[j] < b[k]
  <2>1. CASE k < i + 1
    BY <1>1, <1>3, <1>4, <1>5, <2>1
  <2>2. CASE k = i + 1
    BY <1>1, <1>3, <1>5, <2>2
  <2>3. CASE k > i + 1 /\ j < i + 1
    <3>1. b[j] = a[j] /\ b[k] = a[k - 1] /\ j \in 1 .. i /\ k - 1 \in (i + 1) .. Len(a)
      BY <1>1, <1>3, <2>3
    <3>2. a[j] < x /\ a[k - 1] > x /\ a[j] \in Int /\ a[k - 1] \in Int
      BY <1>1, <3>1
    <3> QED
      BY <1>1, <3>1, <3>2
  <2>4. CASE k > i + 1 /\ j = i + 1
    <3>1. b[j] = x /\ b[k] = a[k - 1] /\ k - 1 \in (i + 1) .. Len(a)
      BY <1>1, <1>3, <2>4
    <3> QED
      BY <1>1, <3>1
  <2>5. CASE k > i + 1 /\ j > i + 1
    <3>1. b[j] = a[j - 1] /\ b[k] = a[k - 1] /\ j - 1 \in 1 .. Len(a) /\ k - 1 \in 1 .. Len(a)
          /\ j - 1 < k - 1
      BY <1>1, <1>3, <1>5, <2>5
    <3> QED
      BY <1>4, <3>1
  <2> QED
    BY <1>1, <2>1, <2>2, <2>3, <2>4, <2>5
<1> QED
  BY <1>3, <1>5 DEF StrictlySorted, b
-----------------------------------------------------------------------------
\* What oid_binary_search returns for an ascending array.
LEMMA SearchFacts ==
  ASSUME NEW a \in Seq(SubId), StrictlySorted(a), NEW x \in SubId
  PROVE  LET r == oid_binary_search(a, x)
         IN  /\ r \in Int
             /\ r >= 0 => r + 1 \in 1 .. Len(a) /\ a[r + 1] = x
             /\ r < 0 => /\ -r - 1 \in 0 .. Len(a)
                         /\ \A i \in 1 .. (-r - 1) : a[i] < x
                         /\ \A i \in (-r) .. Len(a) : a[i] > x
<1> DEFINE P(q) == /\ \A k \in 1 .. q : a[k] <= x
                   /\ \A k \in (q + 1) .. Len(a) : a[k] > x
           p == NotGreater(a, x)
<1>1. /\ Len(a) \in Nat /\ x \in Int
      /\ \A i \in 1 .. Len(a) : a[i] \in Int
      /\ \A i, j \in 1 .. Len(a) : i < j => a[i] < a[j]
  <2>1. SubId \subseteq Int
    BY HalfAssumption DEF SubId, Word
  <2>2. Len(a) \in Nat /\ \A i \in 1 .. Len(a) : a[i] \in SubId
    OBVIOUS
  <2> QED
    BY <2>1, <2>2 DEF StrictlySorted
<1>2. \E q \in 0 .. Len(a) : P(q)
  <2> DEFINE G == {q \in 0 .. Len(a) : \A k \in (q + 1) .. Len(a) : a[k] > x}
  <2>1. Len(a) \in G
    BY <1>1
  <2>2. G \in SUBSET Nat /\ G # {}
    BY <1>1, <2>1
  <2>3. PICK q \in G : \A k \in G : q <= k
    BY <2>2, LeastElement
  <2>4. ASSUME NEW k \in 1 .. q PROVE a[k] <= x
    <3>0. q \in 0 .. Len(a) /\ \A j \in (q + 1) .. Len(a) : a[j] > x
      OBVIOUS
    <3>a. q \in 1 .. Len(a) /\ q - 1 \in 0 .. Len(a) /\ ~ (q <= q - 1)
      BY <1>1, <3>0
    <3>1. q - 1 \notin G /\ q - 1 \in 0 .. Len(a) /\ q \in 1 .. Len(a)
      BY <2>3, <3>a
    <3>2. PICK j \in q .. Len(a) : ~ (a[j] > x)
      BY <3>1, <1>1
    <3>3. j = q
      BY <1>1, <3>0, <3>1, <3>2
    <3>4. a[q] <= x
      BY <1>1, <3>1, <3>2, <3>3
    <3> QED
      BY <1>1, <3>1, <3>4
  <2> QED
    BY <2>3, <2>4
<1>3. p \in 0 .. Len(a) /\ P(p)
  <2>1. p = CHOOSE q \in 0 .. Len(a) : P(q)
    BY DEF NotGreater
  <2> HIDE DEF P, p
  <2> QED
    BY <1>2, <2>1
<1>4. oid_binary_search(a, x) = IF p = 0 \/ a[p] # x THEN -p - 1 ELSE p - 1
  BY DEF oid_binary_search
<1> HIDE DEF p
<1>5. CASE p = 0
  BY <1>1, <1>3, <1>4, <1>5
<1>6. CASE p # 0 /\ a[p] # x
  <2>1. \A i \in 1 .. p : a[i] < x
    BY <1>1, <1>3, <1>6
  <2> QED
    BY <1>1, <1>3, <1>4, <1>6, <2>1
<1>7. CASE p # 0 /\ a[p] = x
  BY <1>1, <1>3, <1>4, <1>7
<1> QED
  BY <1>5, <1>6, <1>7

\* An oid with one sub-identifier more.
LEMMA AppendFacts ==
  ASSUME NEW o \in OID, NEW x \in SubId
  PROVE  /\ Append(o, x) \in OID /\ Len(Append(o, x)) = Len(o) + 1
         /\ Front(Append(o, x)) = o /\ Last(Append(o, x)) = x
         /\ Covers(o, Append(o, x))
         /\ \A t \in OID : Covers(t, Append(o, x)) <=> Covers(t, o) \/ t = Append(o, x)
<1> DEFINE s == Append(o, x)
<1>1. /\ s \in Seq(SubId) /\ Len(s) = Len(o) + 1 /\ Len(o) \in Nat
      /\ \A i \in 1 .. Len(o) : s[i] = o[i]
      /\ s[Len(o) + 1] = x
  BY DEF OID
<1> HIDE DEF s
<1>2. Front(s) = o
  <2>1. \A i \in 1 .. Len(o) : s[i] \in SubId
    BY <1>1
  <2>2. /\ SubSeq(s, 1, Len(o)) \in Seq(SubId)
        /\ Len(SubSeq(s, 1, Len(o))) = IF 1 <= Len(o) THEN Len(o) - 1 + 1 ELSE 0
        /\ \A i \in 1 .. (Len(o) - 1 + 1) : SubSeq(s, 1, Len(o))[i] = s[1 + i - 1]
    BY <1>1, <2>1, SubSeqIs
  <2>3. Front(s) = SubSeq(s, 1, Len(o))
    BY <1>1 DEF Front
  <2> DEFINE f == SubSeq(s, 1, Len(o))
  <2>4. Len(f) = Len(o) /\ \A i \in 1 .. Len(o) : f[i] = o[i]
    BY <1>1, <2>2
  <2> QED
    BY <2>2, <2>3, <2>4, SeqSame DEF OID
<1>3. ASSUME NEW t \in OID PROVE Covers(t, s) <=> Covers(t, o) \/ t = s
  <2>1. Len(t) \in Nat /\ t \in Seq(SubId)
    BY DEF OID
  <2>2. Covers(t, o) => Covers(t, s)
    BY <1>1, <2>1 DEF Covers
  <2>3. t = s => Covers(t, s)
    BY <2>1 DEF Covers
  <2>4. ASSUME Covers(t, s), ~ Covers(t, o) PROVE t = s
    <3>1. Len(t) = Len(s)
      BY <1>1, <2>1, <2>4 DEF Covers
    <3> QED
      BY <1>1, <2>1, <2>4, <3>1, SeqSame DEF Covers
  <2> QED
    BY <2>2, <2>3, <2>4
<1>4. Covers(o, s)
  BY <1>1 DEF Covers
<1> QED
  BY <1>1, <1>2, <1>3, <1>4 DEF s, OID, Last

\* The first n sub-identifiers of an oid.
LEMMA PrefixFacts ==
  ASSUME NEW o \in OID, NEW n \in 0 .. Len(o)
  PROVE  /\ SubSeq(o, 1, n) \in OID /\ Len(SubSeq(o, 1, n)) = n
         /\ \A i \in 1 .. n : SubSeq(o, 1, n)[i] = o[i]
         /\ Covers(SubSeq(o, 1, n), o)
         /\ n = 0 => SubSeq(o, 1, n) = <<>>
         /\ n = Len(o) => SubSeq(o, 1, n) = o
<1>1. Len(o) \in Nat /\ o \in Seq(SubId) /\ \A i \in 1 .. Len(o) : o[i] \in SubId
  BY DEF OID
<1>2. /\ SubSeq(o, 1, n) \in Seq(SubId)
      /\ Len(SubSeq(o, 1, n)) = IF 1 <= n THEN n - 1 + 1 ELSE 0
      /\ \A i \in 1 .. (n - 1 + 1) : SubSeq(o, 1, n)[i] = o[1 + i - 1]
  BY <1>1, SubSeqIs
<1> DEFINE s == SubSeq(o, 1, n)
<1>3. s \in OID /\ Len(s) = n /\ \A i \in 1 .. n : s[i] = o[i]
  <2> HIDE DEF s
  <2>1. \A i \in 1 .. n : i \in 1 .. (n - 1 + 1) /\ 1 + i - 1 = i
    BY <1>1
  <2> QED
    BY <1>1, <1>2, <2>1 DEF OID, s
<1>4. Covers(s, o)
  BY <1>1, <1>3 DEF Covers
<1>5. n = 0 => s = <<>>
  BY <1>3 DEF OID
<1>6. n = Len(o) => s = o
  BY <1>1, <1>3, SeqSame DEF OID
<1> QED
  BY <1>3, <1>4, <1>5, <1>6

\* Prefixes grow one by one.
LEMMA PrefixStep ==
  ASSUME NEW o \in OID, NEW n \in 0 .. (Len(o) - 1)
  PROVE  /\ SubSeq(o, 1, n + 1) = Append(SubSeq(o, 1, n), o[n + 1])
         /\ Front(SubSeq(o, 1, n + 1)) = SubSeq(o, 1, n)
         /\ o[n + 1] \in SubId
<1>1. Len(o) \in Nat /\ o \in Seq(SubId) /\ n + 1 \in 1 .. Len(o) /\ n \in 0 .. Len(o)
  BY DEF OID
<1>2. o[n + 1] \in SubId
  BY <1>1
<1> DEFINE s == SubSeq(o, 1, n)
           t == SubSeq(o, 1, n + 1)
<1>3. s \in OID /\ Len(s) = n /\ \A i \in 1 .. n : s[i] = o[i]
  BY <1>1, PrefixFacts
<1>4. n + 1 \in 0 .. Len(o)
  BY <1>1
<1>5. t \in OID /\ Len(t) = n + 1 /\ \A i \in 1 .. (n + 1) : t[i] = o[i]
  BY <1>4, PrefixFacts
<1> HIDE DEF s, t
<1>6. /\ Append(s, o[n + 1]) \in Seq(SubId) /\ Len(Append(s, o[n + 1])) = n + 1
      /\ \A i \in 1 .. n : Append(s, o[n + 1])[i] = s[i]
      /\ Append(s, o[n + 1])[n + 1] = o[n + 1]
  BY <1>2, <1>3, AppendIs DEF OID
<1>7. ASSUME NEW i \in 1 .. (n + 1) PROVE t[i] = Append(s, o[n + 1])[i]
  BY <1>1, <1>3, <1>5, <1>6
<1>8. t = Append(s, o[n + 1])
  BY <1>5, <1>6, <1>7, SeqSame DEF OID
<1>9. Front(t) = s
  BY <1>2, <1>3, <1>8, AppendFacts
<1> QED
  BY <1>2, <1>8, <1>9 DEF s, t

\* What covers an oid is one of its prefixes.
LEMMA CoversIsPrefix ==
  ASSUME NEW o \in OID, NEW p \in OID, Covers(p, o)
  PROVE  Len(p) \in 0 .. Len(o) /\ p = SubSeq(o, 1, Len(p)) /\ (Len(p) = Len(o) => p = o)
<1>1. /\ Len(o) \in Nat /\ Len(p) \in Nat /\ Len(p) \in 0 .. Len(o)
      /\ \A i \in 1 .. Len(p) : p[i] = o[i]
  BY DEF OID, Covers
<1>2. /\ SubSeq(o, 1, Len(p)) \in OID /\ Len(SubSeq(o, 1, Len(p))) = Len(p)
      /\ \A i \in 1 .. Len(p) : SubSeq(o, 1, Len(p))[i] = o[i]
  BY <1>1, PrefixFacts
<1>3. p = SubSeq(o, 1, Len(p))
  BY <1>1, <1>2, SeqSame DEF OID
<1>4. Len(p) = Len(o) => SubSeq(o, 1, Len(p)) = o
  BY <1>1, PrefixFacts
<1> QED
  BY <1>1, <1>3, <1>4

\* An ascending array stays so when an element is taken out.
LEMMA RemoveSorted ==
  ASSUME NEW a \in Seq(SubId), StrictlySorted(a), NEW n \in 1 .. Len(a)
  PROVE  StrictlySorted(RemoveAt(a, n))
<1> DEFINE b == RemoveAt(a, n)
           up(k) == IF k < n THEN k ELSE k + 1
<1>1. Len(a) \in Nat /\ n \in Nat
  OBVIOUS
<1>2. Len(b) = Len(a) - 1 /\ \A j \in 1 .. (Len(a) - 1) : b[j] = IF j < n THEN a[j] ELSE a[j + 1]
  BY RemoveAtFacts
<1> HIDE DEF b
<1> SUFFICES ASSUME NEW i \in 1 .. (Len(a) - 1), NEW j \in 1 .. (Len(a) - 1), i < j
             PROVE  b[i] < b[j]
  BY <1>2 DEF StrictlySorted, b
<1>3. up(i) \in 1 .. Len(a) /\ up(j) \in 1 .. Len(a) /\ up(i) < up(j)
  BY <1>1
<1>4. b[i] = a[up(i)] /\ b[j] = a[up(j)]
  BY <1>2
<1> HIDE DEF up
<1> QED
  BY <1>3, <1>4 DEF StrictlySorted
=============================================================================
