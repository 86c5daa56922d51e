------------------------- MODULE MibDescentProofs --------------------------
(***************************************************************************)
(* Searching a tree, first part: what the oids, the nodes and the served   *)
(* variables of any tree have to do with each other, what a search is to   *)
(* find, the invariant of the search, and the steps of                     *)
(* mib_tree_search_next that lead from a group down to its children.       *)
(***************************************************************************)
EXTENDS MibSearch, OidProofs

\* Most steps are first-order reasoning; those that are not cite SMT.
USE Zenon

\* An oid after all of a subtree.
After(p, x) == OidLess(p, x) /\ ~ Covers(p, x)

\* Oids put together.
LEMMA ConcatFacts ==
  ASSUME NEW p \in SmallOID, NEW s \in SmallOID
  PROVE  /\ p \o s \in SmallOID /\ Len(p \o s) = Len(p) + Len(s)
         /\ \A i \in 1 .. Len(p) : (p \o s)[i] = p[i]
         /\ \A i \in 1 .. Len(s) : (p \o s)[Len(p) + i] = s[i]
         /\ Covers(p, p \o s) /\ (s # <<>> => p \o s # p) /\ (s = <<>> => p \o s = p)
<1>1. /\ p \o s \in Seq(SmallSubId) /\ Len(p \o s) = Len(p) + Len(s)
      /\ \A i \in 1 .. Len(p) + Len(s) : (p \o s)[i] = IF i <= Len(p) THEN p[i] ELSE s[i - Len(p)]
  BY ConcatIs DEF SmallOID
<1>2. Len(p) \in Nat /\ Len(s) \in Nat /\ (s # <<>> => Len(s) > 0)
  BY SMT DEF SmallOID
<1>3. \A i \in 1 .. Len(p) : (p \o s)[i] = p[i]
  BY <1>1, <1>2, SMT
<1>4. ASSUME NEW i \in 1 .. Len(s) PROVE (p \o s)[Len(p) + i] = s[i]
  <2>1. Len(p) + i \in 1 .. Len(p) + Len(s) /\ ~ (Len(p) + i <= Len(p)) /\ Len(p) + i - Len(p) = i
    BY <1>2, SMT
  <2> QED
    BY <1>1, <2>1, SMT
<1>5. s = <<>> => p \o s = p
  BY <1>1, <1>2, SMT DEF SmallOID
<1>6. s # <<>> => p \o s # p
  BY <1>1, <1>2, SMT
<1> QED
  BY <1>1, <1>2, <1>3, <1>4, <1>5, <1>6, SMT DEF Covers, SmallOID

\* What an oid covers is the oid and the rest.
LEMMA SplitFacts ==
  ASSUME NEW p \in SmallOID, NEW x \in SmallOID, Covers(p, x)
  PROVE  LET s == SubSeq(x, Len(p) + 1, Len(x))
         IN  s \in SmallOID /\ x = p \o s /\ (x # p => s # <<>>)
<1> DEFINE s == SubSeq(x, Len(p) + 1, Len(x))
<1>1. Len(p) \in Nat /\ Len(x) \in Nat /\ Len(p) <= Len(x) /\ \A i \in 1 .. Len(p) : p[i] = x[i]
  BY SMT DEF SmallOID, Covers
<1>2. /\ s \in Seq(SmallSubId)
      /\ Len(s) = IF Len(p) + 1 <= Len(x) THEN Len(x) - (Len(p) + 1) + 1 ELSE 0
      /\ \A i \in 1 .. Len(x) - (Len(p) + 1) + 1 : s[i] = x[Len(p) + 1 + i - 1]
  <2>1. Len(p) + 1 \in 1 .. (Len(x) + 1) /\ Len(x) \in (Len(p) + 1 - 1) .. Len(x)
    BY <1>1, SMT
  <2>2. PICK m : m = Len(p) + 1
    OBVIOUS
  <2>3. m \in 1 .. (Len(x) + 1) /\ Len(x) \in (m - 1) .. Len(x)
    BY <2>1, <2>2, SMT
  <2>4. /\ SubSeq(x, m, Len(x)) \in Seq(SmallSubId)
        /\ Len(SubSeq(x, m, Len(x))) = IF m <= Len(x) THEN Len(x) - m + 1 ELSE 0
        /\ \A i \in 1 .. Len(x) - m + 1 : SubSeq(x, m, Len(x))[i] = x[m + i - 1]
    BY <2>3, SubSeqIs, SMT DEF SmallOID
  <2> QED
    BY <2>2, <2>4
<1> HIDE DEF s
<1>3. Len(s) = Len(x) - Len(p) /\ s \in SmallOID
  BY <1>1, <1>2, SMT DEF SmallOID
<1>4. ASSUME NEW i \in 1 .. Len(s) PROVE s[i] = x[Len(p) + i]
  <2>1. i \in 1 .. Len(x) - (Len(p) + 1) + 1 /\ Len(p) + 1 + i - 1 = Len(p) + i
    BY <1>1, <1>3, SMT
  <2> QED
    BY <1>2, <2>1
<1>5. x = p \o s
  <2>1. p \o s \in Seq(SmallSubId) /\ x \in Seq(SmallSubId) /\ Len(p \o s) = Len(x)
    BY <1>1, <1>3, ConcatFacts, SMT DEF SmallOID
  <2>2. ASSUME NEW i \in 1 .. Len(x) PROVE x[i] = (p \o s)[i]
    <3>1. CASE i <= Len(p)
      BY <1>1, <1>3, <3>1, ConcatFacts, SMT
    <3>2. CASE ~ (i <= Len(p))
      <4>0. i - Len(p) \in 1 .. Len(s) /\ i = Len(p) + (i - Len(p))
        BY <1>1, <1>3, <3>2, SMT
      <4>1. PICK j \in 1 .. Len(s) : i = Len(p) + j
        BY <4>0
      <4> QED
        BY <1>3, <1>4, <4>1, ConcatFacts, SMT
    <3> QED
      BY <3>1, <3>2
  <2> QED
    BY <2>1, <2>2, SeqSame
<1>6. x # p => s # <<>>
  BY <1>3, <1>5, ConcatFacts
<1> QED
  BY <1>3, <1>5, <1>6 DEF s

\* Behind a common beginning the rests decide.
LEMMA ConcatLess ==
  ASSUME NEW p \in SmallOID, NEW s \in SmallOID, NEW t \in SmallOID, OidLess(s, t)
  PROVE  OidLess(p \o s, p \o t)
<1> DEFINE a == p \o s
           b == p \o t
           n == Len(p)
<1>1. n \in Nat /\ Len(s) \in Nat /\ Len(t) \in Nat
  BY SmallFacts
<1>2. /\ Len(a) = n + Len(s) /\ \A i \in 1 .. n : a[i] = p[i]
      /\ \A i \in 1 .. Len(s) : a[n + i] = s[i]
  BY ConcatFacts
<1>3. /\ Len(b) = n + Len(t) /\ \A i \in 1 .. n : b[i] = p[i]
      /\ \A i \in 1 .. Len(t) : b[n + i] = t[i]
  BY ConcatFacts
<1> HIDE DEF a, b, n
<1>4. ASSUME NEW j, NEW k \in 1 .. (n + j), j \in Nat, j <= Len(s), j <= Len(t),
             \A i \in 1 .. j : s[i] = t[i]
      PROVE  a[k] = b[k]
  <2>1. CASE k <= n
    BY <1>1, <1>2, <1>3, <2>1, SMT
  <2>2. CASE ~ (k <= n)
    <3>1. k - n \in 1 .. j /\ k = n + (k - n)
      BY <1>1, <1>4, <2>2, SMT
    <3>2. PICK i \in 1 .. j : k = n + i
      BY <3>1
    <3>3. i \in 1 .. Len(s) /\ i \in 1 .. Len(t)
      BY <1>1, <1>4, <3>2, SMT
    <3> QED
      BY <1>2, <1>3, <1>4, <3>2, <3>3
  <2> QED
    BY <2>1, <2>2
<1>5. CASE s # t /\ Covers(s, t)
  <2>1. Len(s) <= Len(t) /\ \A i \in 1 .. Len(s) : s[i] = t[i]
    BY <1>5 DEF Covers
  <2>2. Len(s) # Len(t)
    <3>1. Len(s) = Len(t) => s = t
      BY <2>1, SeqSame DEF SmallOID
    <3> QED
      BY <1>5, <3>1
  <2>3. ASSUME NEW k \in 1 .. Len(a) PROVE a[k] = b[k]
    <3>1. k \in 1 .. (n + Len(s))
      BY <1>2
    <3>2. Len(s) <= Len(s)
      BY <1>1, SMT
    <3> QED
      BY <1>1, <1>4, <2>1, <3>1, <3>2
  <2>4. Len(a) <= Len(b) /\ Len(a) # Len(b)
    BY <1>1, <1>2, <1>3, <2>1, <2>2, SMT
  <2> QED
    BY <2>3, <2>4 DEF Covers, OidLess, a, b
<1>6. CASE \E i \in 1 .. Len(s) : i <= Len(t) /\ s[i] < t[i] /\ \A j \in 1 .. (i - 1) : s[j] = t[j]
  <2>1. PICK i \in 1 .. Len(s) : i <= Len(t) /\ s[i] < t[i] /\ \A j \in 1 .. (i - 1) : s[j] = t[j]
    BY <1>6
  <2>2. PICK m : m = n + i
    OBVIOUS
  <2>3. m \in 1 .. Len(a) /\ m <= Len(b)
    BY <1>1, <1>2, <1>3, <2>1, <2>2, SMT
  <2>4. a[m] < b[m]
    BY <1>1, <1>2, <1>3, <2>1, <2>2, SMT
  <2>5. ASSUME NEW k \in 1 .. (m - 1) PROVE a[k] = b[k]
    <3>1. PICK h : h = i - 1
      OBVIOUS
    <3>2. k \in 1 .. (n + h) /\ h \in Nat /\ h <= Len(s) /\ h <= Len(t)
      BY <1>1, <2>1, <2>2, <3>1, SMT
    <3> QED
      BY <1>4, <2>1, <3>1, <3>2
  <2> QED
    BY <2>3, <2>4, <2>5 DEF OidLess, a, b
<1> QED
  BY <1>5, <1>6 DEF OidLess

\* So equal beginnings can be cancelled.
LEMMA ConcatOrder ==
  ASSUME NEW p \in SmallOID, NEW s \in SmallOID, NEW t \in SmallOID
  PROVE  (OidLess(p \o s, p \o t) <=> OidLess(s, t)) /\ (p \o s = p \o t => s = t)
<1>1. (OidLess(s, t) => OidLess(p \o s, p \o t)) /\ (OidLess(t, s) => OidLess(p \o t, p \o s))
  BY ConcatLess
<1>2. p \o s \in SmallOID /\ p \o t \in SmallOID
  BY ConcatFacts
<1>3. OidLess(p \o s, p \o t) => OidLess(s, t)
  BY <1>1, <1>2, OidLessTotal
<1>4. p \o s = p \o t => s = t
  BY <1>1, <1>2, OidLessTotal
<1> QED
  BY <1>1, <1>3, <1>4

\* One sub-identifier more.
LEMMA ChildFacts ==
  ASSUME NEW g \in SmallOID, NEW c \in SmallSubId
  PROVE  /\ Append(g, c) \in SmallOID /\ Len(Append(g, c)) = Len(g) + 1 /\ Append(g, c)[Len(g) + 1] = c
         /\ \A i \in 1 .. Len(g) : Append(g, c)[i] = g[i]
         /\ Covers(g, Append(g, c)) /\ OidLess(g, Append(g, c))
         /\ \A x \in SmallOID :
              Covers(Append(g, c), x) <=> Covers(g, x) /\ Len(x) > Len(g) /\ x[Len(g) + 1] = c
<1> DEFINE h == Append(g, c)
<1>1. /\ h \in SmallOID /\ Len(h) = Len(g) + 1 /\ h[Len(g) + 1] = c /\ Len(g) \in Nat
      /\ \A i \in 1 .. Len(g) : h[i] = g[i]
  BY SMT DEF SmallOID
<1> HIDE DEF h
<1>2. Covers(g, h) /\ g # h
  BY <1>1, SMT DEF Covers
<1>3. ASSUME NEW x \in SmallOID
      PROVE  Covers(h, x) <=> Covers(g, x) /\ Len(x) > Len(g) /\ x[Len(g) + 1] = c
  <2>0. Len(x) \in Nat
    BY SmallFacts
  <2>1. ASSUME Covers(h, x) PROVE Covers(g, x) /\ Len(x) > Len(g) /\ x[Len(g) + 1] = c
    BY <1>1, <2>0, <2>1, SMT DEF Covers
  <2>2. ASSUME Covers(g, x), Len(x) > Len(g), x[Len(g) + 1] = c PROVE Covers(h, x)
    <3>1. ASSUME NEW i \in 1 .. Len(h) PROVE h[i] = x[i]
      <4>1. CASE i <= Len(g)
        BY <1>1, <2>2, <4>1, SMT DEF Covers
      <4>2. CASE ~ (i <= Len(g))
        <5>1. i = Len(g) + 1
          BY <1>1, <4>2, SMT
        <5> QED
          BY <1>1, <2>2, <5>1
      <4> QED
        BY <4>1, <4>2
    <3> QED
      BY <1>1, <2>0, <2>2, <3>1, SMT DEF Covers
  <2> QED
    BY <2>1, <2>2
<1> QED
  BY <1>1, <1>2, <1>3 DEF OidLess, h

\* How the subtrees of a group's children lie in the order.
LEMMA ChildOrder ==
  ASSUME NEW g \in SmallOID, NEW c \in SmallSubId, NEW x \in SmallOID
  PROVE  /\ Covers(g, x) /\ Len(x) > Len(g) /\ x[Len(g) + 1] < c => OidLess(x, Append(g, c))
         /\ Covers(g, x) /\ Len(x) > Len(g) /\ x[Len(g) + 1] > c => After(Append(g, c), x)
         /\ After(g, x) => After(Append(g, c), x)
         /\ After(Append(g, c), x) =>
              After(g, x) \/ (Covers(g, x) /\ Len(x) > Len(g) /\ x[Len(g) + 1] > c)
<1>1. PICK h \in SmallOID : h = Append(g, c)
  BY ChildFacts
<1>2. PICK n \in Nat : n = Len(g) + 1
  BY SmallFacts, SMT
<1>3. /\ Len(h) = n /\ h[n] = c /\ Len(g) \in Nat /\ Len(x) \in Nat /\ \A i \in 1 .. Len(g) : h[i] = g[i]
      /\ Covers(g, h) /\ OidLess(g, h) /\ c \in Int /\ (\A i \in 1 .. Len(x) : x[i] \in Int)
      /\ Covers(h, x) <=> Covers(g, x) /\ Len(x) > Len(g) /\ x[n] = c
  <2>1. c \in Int
    BY HalfAssumption, SMT DEF SmallSubId
  <2>2. Len(g) \in Nat /\ Len(x) \in Nat /\ \A i \in 1 .. Len(x) : x[i] \in Int
    BY SmallFacts
  <2>3. /\ Len(h) = n /\ h[n] = c /\ (\A i \in 1 .. Len(g) : h[i] = g[i]) /\ Covers(g, h) /\ OidLess(g, h)
        /\ Covers(h, x) <=> Covers(g, x) /\ Len(x) > Len(g) /\ x[n] = c
    BY <1>1, <1>2, ChildFacts, SMT
  <2> QED
    BY <2>1, <2>2, <2>3
<1>4. ASSUME Covers(g, x), Len(x) > Len(g)
      PROVE  /\ n \in 1 .. Len(h) /\ n \in 1 .. Len(x) /\ x[n] \in Int
             /\ \A j \in 1 .. (n - 1) : x[j] = h[j]
  BY <1>2, <1>3, <1>4, SMT DEF Covers
<1>5. ASSUME Covers(g, x), Len(x) > Len(g), x[n] < c PROVE OidLess(x, h)
  BY <1>3, <1>4, <1>5, SMT DEF OidLess
<1>6. ASSUME Covers(g, x), Len(x) > Len(g), x[n] > c PROVE After(h, x)
  <2>1. OidLess(h, x)
    BY <1>3, <1>4, <1>6, SMT DEF OidLess
  <2>2. ~ Covers(h, x)
    BY <1>3, <1>4, <1>6, SMT
  <2> QED
    BY <2>1, <2>2 DEF After
<1>7. ASSUME After(g, x) PROVE After(h, x)
  <2>1. OidLess(h, x)
    BY <1>3, <1>7, SubtreeBefore DEF After
  <2> QED
    BY <1>3, <1>7, <2>1 DEF After
<1>8. ASSUME After(h, x), ~ After(g, x) PROVE Covers(g, x) /\ Len(x) > Len(g) /\ x[n] > c
  <2>1. OidLess(g, x)
    BY <1>3, <1>8, OidLessTransitive DEF After
  <2>2. Covers(g, x) /\ g # x
    BY <1>8, <2>1, OidLessTotal DEF After
  <2>3. Len(x) > Len(g)
    <3>1. Len(x) = Len(g) => x = g
      BY <2>2, SeqSame DEF Covers, SmallOID
    <3> QED
      BY <1>3, <2>2, <3>1, SMT DEF Covers
  <2>4. x[n] # c
    BY <1>3, <1>8, <2>2, <2>3 DEF After
  <2>5. ~ (x[n] < c)
    <3>1. OidLess(x, h) => FALSE
      BY <1>8, OidLessTotal DEF After
    <3> QED
      BY <1>5, <2>2, <2>3, <3>1
  <2> QED
    BY <1>3, <1>4, <2>2, <2>3, <2>4, <2>5, SMT
<1> QED
  BY <1>1, <1>2, <1>5, <1>6, <1>7, <1>8

\* An oid that does not come before another one is it, below it or after it.
LEMMA NotBefore ==
  ASSUME NEW p \in SmallOID, NEW x \in SmallOID
  PROVE  ~ OidLess(x, p) <=> Covers(p, x) \/ After(p, x)
<1>1. Covers(p, p)
  BY SmallFacts, SMT DEF Covers
<1>2. Covers(p, x) => ~ OidLess(x, p)
  BY CoversOrder
<1>3. After(p, x) => ~ OidLess(x, p)
  BY OidLessTotal DEF After
<1>4. ~ OidLess(x, p) => p = x \/ OidLess(p, x)
  BY OidLessTotal
<1> QED
  BY <1>1, <1>2, <1>3, <1>4 DEF After

\* The beginning of an oid.
LEMMA PrefixIs ==
  ASSUME NEW o \in SmallOID, NEW n \in 0 .. Len(o)
  PROVE  /\ SubSeq(o, 1, n) \in SmallOID /\ Len(SubSeq(o, 1, n)) = n /\ Covers(SubSeq(o, 1, n), o)
         /\ \A i \in 1 .. n : SubSeq(o, 1, n)[i] = o[i]
         /\ n = Len(o) => SubSeq(o, 1, n) = o
         /\ n < Len(o) => SubSeq(o, 1, n + 1) = Append(SubSeq(o, 1, n), o[n + 1]) /\ o[n + 1] \in SmallSubId
         /\ \A m \in 0 .. n : SubSeq(SubSeq(o, 1, n), 1, m) = SubSeq(o, 1, m)
<1>0. o \in OID /\ Len(o) \in Nat /\ \A i \in 1 .. Len(o) : o[i] \in SmallSubId
  BY SmallIsOid, SMT DEF SmallOID
<1>1. /\ SubSeq(o, 1, n) \in OID /\ Len(SubSeq(o, 1, n)) = n /\ Covers(SubSeq(o, 1, n), o)
      /\ \A i \in 1 .. n : SubSeq(o, 1, n)[i] = o[i]
      /\ n = Len(o) => SubSeq(o, 1, n) = o
  BY <1>0, PrefixFacts
<1>2. ASSUME NEW k \in 0 .. Len(o) PROVE SubSeq(o, 1, k) \in Seq(SmallSubId)
  <2>1. k \in (1 - 1) .. Len(o) /\ 1 \in 1 .. (Len(o) + 1)
    BY <1>0, SMT
  <2> QED
    BY <2>1, SubSeqIs, SMT DEF SmallOID
<1>3. n < Len(o) => SubSeq(o, 1, n + 1) = Append(SubSeq(o, 1, n), o[n + 1]) /\ o[n + 1] \in SmallSubId
  <2>1. n < Len(o) => n \in 0 .. (Len(o) - 1) /\ n + 1 \in 1 .. Len(o)
    BY <1>0, SMT
  <2> QED
    BY <1>0, <2>1, PrefixStep
<1>4. ASSUME NEW m \in 0 .. n PROVE SubSeq(SubSeq(o, 1, n), 1, m) = SubSeq(o, 1, m)
  <2> DEFINE t == SubSeq(o, 1, n)
  <2>1. t \in SmallOID /\ t \in OID /\ Len(t) = n /\ (\A i \in 1 .. n : t[i] = o[i]) /\ m \in 0 .. Len(o)
    BY <1>0, <1>1, <1>2, SMT DEF SmallOID
  <2> HIDE DEF t
  <2>2. /\ SubSeq(t, 1, m) \in OID /\ Len(SubSeq(t, 1, m)) = m
        /\ \A i \in 1 .. m : SubSeq(t, 1, m)[i] = t[i]
    BY <2>1, PrefixFacts
  <2>3. /\ SubSeq(o, 1, m) \in OID /\ Len(SubSeq(o, 1, m)) = m
        /\ \A i \in 1 .. m : SubSeq(o, 1, m)[i] = o[i]
    BY <1>0, <2>1, PrefixFacts
  <2>4. \A i \in 1 .. m : SubSeq(t, 1, m)[i] = SubSeq(o, 1, m)[i]
    BY <2>1, <2>2, <2>3, SMT
  <2>5. SubSeq(t, 1, m) = SubSeq(o, 1, m)
    BY <2>2, <2>3, <2>4, SeqSame DEF OID
  <2> QED
    BY <2>5 DEF t
<1> QED
  BY <1>1, <1>2, <1>3, <1>4 DEF SmallOID

\* Every set of sub-identifiers can be put in ascending order.
LEMMA SortedArray ==
  ASSUME NEW S \in SUBSET SmallSubId
  PROVE  \E s \in UNION {[1 .. n -> S] : n \in 0 .. Half} : StrictlySorted(s) /\ \A c \in S : Contains(s, c)
<1> DEFINE Good(T, k) ==
             \E n \in 0 .. k : \E s \in [1 .. n -> T] : StrictlySorted(s) /\ \A c \in T : Contains(s, c)
           N == {k \in 0 .. Half : \E T \in SUBSET (0 .. k - 1) : ~ Good(T, k)}
<1>1. Half \in Nat /\ SmallSubId = 0 .. Half - 1
  BY HalfAssumption, SMT DEF SmallSubId
<1>2. ASSUME N # {} PROVE FALSE
  <2>1. N \in SUBSET Nat
    BY <1>1, SMT
  <2>2. PICK m \in N : \A k \in N : m <= k
    BY <1>2, <2>1, LeastElement
  <2>3. PICK T \in SUBSET (0 .. m - 1) : ~ Good(T, m)
    BY <2>2
  <2>4. m \in 0 .. Half
    BY <2>2
  <2>5. m # 0
    <3>1. ASSUME m = 0 PROVE Good(T, m)
      <4>1. T = {} /\ 0 \in 0 .. m
        BY <3>1, SMT
      <4>2. <<>> \in [1 .. 0 -> T] /\ StrictlySorted(<<>>)
        BY SMT DEF StrictlySorted
      <4> QED
        BY <4>1, <4>2
    <3> QED
      BY <2>3, <3>1
  <2> DEFINE e == m - 1
             U == T \ {e}
  <2>6. e \in 0 .. Half /\ ~ (m <= e) /\ U \in SUBSET (0 .. e - 1)
    BY <1>1, <2>3, <2>4, <2>5, SMT
  <2>7. Good(U, e)
    <3> HIDE DEF Good, U, e
    <3> QED
      BY <2>2, <2>6
  <2>8. PICK n \in 0 .. e : \E s \in [1 .. n -> U] : StrictlySorted(s) /\ \A c \in U : Contains(s, c)
    BY <2>7
  <2>9. PICK s \in [1 .. n -> U] : StrictlySorted(s) /\ \A c \in U : Contains(s, c)
    BY <2>8
  <2>10. n \in Nat /\ n \in 0 .. m /\ n + 1 \in 0 .. m /\ e \in Int
    BY <1>1, <2>4, <2>5, <2>8, SMT
  <2> HIDE DEF e, N
  <2>11. CASE e \notin T
    <3>1. U = T
      BY <2>11
    <3> QED
      BY <2>3, <2>9, <2>10, <3>1
  <2>12. CASE e \in T
    <3>1. /\ s \in Seq(T) /\ Len(s) = n
          /\ \A i \in 1 .. n : s[i] \in U /\ s[i] < e
      <4>1. s \in Seq(T) /\ Len(s) = n
        BY <2>9, <2>10, SMT
      <4>2. \A x \in U : x < e
        BY <2>6, <2>10, SMT
      <4> QED
        BY <2>9, <4>1, <4>2
    <3> DEFINE t == Append(s, e)
    <3>2. t \in [1 .. n + 1 -> T] /\ Len(t) = n + 1 /\ t[n + 1] = e /\ \A i \in 1 .. n : t[i] = s[i]
      <4>1. t \in Seq(T) /\ Len(t) = n + 1 /\ t[n + 1] = e /\ \A i \in 1 .. n : t[i] = s[i]
        BY <2>10, <2>12, <3>1, AppendIs, SMT
      <4> HIDE DEF t
      <4> QED
        BY <2>10, <4>1, SMT
    <3> HIDE DEF t
    <3>3. StrictlySorted(t)
      <4> SUFFICES ASSUME NEW i \in 1 .. Len(t), NEW j \in 1 .. Len(t), i < j PROVE t[i] < t[j]
        BY DEF StrictlySorted
      <4>1. i \in 1 .. n /\ (j = n + 1 \/ j \in 1 .. n)
        BY <2>10, <3>2, SMT
      <4> QED
        BY <2>9, <3>1, <3>2, <4>1 DEF StrictlySorted
    <3>4. ASSUME NEW c \in T PROVE Contains(t, c)
      <4>1. n + 1 \in 1 .. Len(t) /\ 1 .. n \subseteq 1 .. Len(t)
        BY <2>10, <3>2, SMT
      <4>2. CASE c = e
        BY <3>2, <4>1, <4>2 DEF Contains
      <4>3. CASE c # e
        <5>1. PICK i \in 1 .. n : s[i] = c
          BY <2>9, <3>1, <4>3 DEF Contains
        <5> QED
          BY <3>2, <4>1, <5>1 DEF Contains
      <4> QED
        BY <4>2, <4>3
    <3> QED
      BY <2>3, <2>10, <3>2, <3>3, <3>4
  <2> QED
    BY <2>11, <2>12
<1>3. Half \in 0 .. Half
  BY <1>1, SMT
<1>4. Good(S, Half)
  BY <1>1, <1>2, <1>3
<1>5. PICK n \in 0 .. Half : \E s \in [1 .. n -> S] : StrictlySorted(s) /\ \A c \in S : Contains(s, c)
  BY <1>4
<1> QED
  BY <1>5
-----------------------------------------------------------------------------
(***************************************************************************)
(* The tree: what registration builds.                                     *)
(***************************************************************************)
TreeInv ==
  /\ type \in [Path -> {"group", "instance", "free"}]
  /\ sub_id \in [Path -> SmallOID] /\ rows \in [Path -> Rows]
  /\ type[Root] = "group"
  /\ \A p \in Path \ {Root} : type[p] # "free" => type[Front(p)] = "group"
  /\ \A p \in Path : type[p] = "group" => Len(p) < MIB_OID_MAX_LEN
  /\ \A p \in Path : type[p] # "instance" => rows[p] = {}
  /\ \A p \in Path : StrictlySorted(sub_id[p])
  /\ \A p \in Path : \A c : Contains(sub_id[p], c) <=>
       c \in SmallSubId /\ Append(p, c) \in Path /\ type[Append(p, c)] # "free"

\* An oid that is not empty is a shorter one and a sub-identifier.
LEMMA FrontLast ==
  ASSUME NEW o \in SmallOID, o # <<>>
  PROVE  /\ Front(o) \in SmallOID /\ Last(o) \in SmallSubId /\ o = Append(Front(o), Last(o))
         /\ Len(o) \in Nat \ {0} /\ Front(o) = SubSeq(o, 1, Len(o) - 1) /\ Len(Front(o)) = Len(o) - 1
<1>1. Len(o) \in Nat \ {0}
  BY SMT DEF SmallOID
<1>2. PICK n \in 0 .. Len(o) : n = Len(o) - 1
  <2>1. Len(o) - 1 \in 0 .. Len(o)
    BY <1>1, SMT
  <2> QED
    BY <2>1
<1>3. n + 1 = Len(o) /\ n < Len(o) /\ SubSeq(o, 1, n + 1) = o
  <2>1. n + 1 = Len(o) /\ n < Len(o) /\ Len(o) \in 0 .. Len(o)
    BY <1>1, <1>2, SMT
  <2> QED
    BY <2>1, PrefixIs
<1>4. Front(o) = SubSeq(o, 1, n) /\ Last(o) = o[n + 1]
  BY <1>2, <1>3 DEF Front, Last
<1>5. /\ SubSeq(o, 1, n) \in SmallOID /\ Len(SubSeq(o, 1, n)) = n
      /\ SubSeq(o, 1, n + 1) = Append(SubSeq(o, 1, n), o[n + 1]) /\ o[n + 1] \in SmallSubId
  BY <1>3, PrefixIs
<1> QED
  BY <1>1, <1>2, <1>3, <1>4, <1>5

\* The initial trees are such.
LEMMA InitTree == Init => TreeInv
<1> SUFFICES ASSUME Init PROVE TreeInv
  OBVIOUS
<1>1. /\ type \in [Path -> {"group", "instance", "free"}] /\ type[Root] = "group"
      /\ \A p \in Path \ {Root} : type[p] # "free" => type[Front(p)] = "group"
      /\ \A p \in Path : type[p] = "group" => Len(p) < MIB_OID_MAX_LEN
      /\ \A p \in Path : type[p] # "instance" => rows[p] = {}
      /\ rows \in [Path -> Rows] /\ sub_id = [p \in Path |-> Children(type, p)]
  BY DEF Init, Trees
<1>2. Path \subseteq SmallOID
  BY SearchAssumption
<1>3. ASSUME NEW p \in Path, NEW c
      PROVE  c \in ChildIds(type, p) <=> c \in SmallSubId /\ Append(p, c) \in Path /\ type[Append(p, c)] # "free"
  <2>1. ASSUME c \in ChildIds(type, p)
        PROVE  c \in SmallSubId /\ Append(p, c) \in Path /\ type[Append(p, c)] # "free"
    <3>1. PICK r \in Path \ {Root} : Front(r) = p /\ type[r] # "free" /\ c = Last(r)
      BY <2>1 DEF ChildIds
    <3>2. r \in SmallOID /\ r # <<>>
      BY <1>2, <3>1 DEF Root
    <3> QED
      BY <3>1, <3>2, FrontLast
  <2>2. ASSUME c \in SmallSubId, Append(p, c) \in Path, type[Append(p, c)] # "free"
        PROVE  c \in ChildIds(type, p)
    <3>1. p \in OID /\ c \in SubId
      BY <1>2, <2>2, SmallIsOid, HalfAssumption, SMT DEF SmallSubId, SubId, Word
    <3>2. Front(Append(p, c)) = p /\ Last(Append(p, c)) = c /\ Len(Append(p, c)) = Len(p) + 1
      BY <3>1, AppendFacts
    <3>3. Append(p, c) # Root
      <4>1. Len(p) \in Nat /\ Len(Root) = 0
        BY <3>1, SMT DEF Root, OID
      <4> QED
        BY <3>2, <4>1, SMT
    <3> QED
      BY <2>2, <3>2, <3>3 DEF ChildIds
  <2> QED
    BY <2>1, <2>2
<1>4. ASSUME NEW p \in Path
      PROVE  /\ sub_id[p] \in SmallOID /\ StrictlySorted(sub_id[p])
             /\ \A c : Contains(sub_id[p], c) <=> c \in ChildIds(type, p)
  <2> DEFINE S == ChildIds(type, p)
  <2>1. S \in SUBSET SmallSubId
    BY <1>3
  <2>2. sub_id[p] = Children(type, p)
    BY <1>1
  <2> HIDE DEF S
  <2>3. /\ sub_id[p] \in UNION {[1 .. n -> S] : n \in 0 .. Half} /\ StrictlySorted(sub_id[p])
        /\ \A c \in S : Contains(sub_id[p], c)
    <3>1. \E s \in UNION {[1 .. n -> S] : n \in 0 .. Half} : StrictlySorted(s) /\ \A c \in S : Contains(s, c)
      BY <2>1, SortedArray
    <3>2. sub_id[p] = CHOOSE s \in UNION {[1 .. n -> S] : n \in 0 .. Half} :
                        StrictlySorted(s) /\ \A c \in S : Contains(s, c)
      BY <2>2 DEF Children, S
    <3> QED
      BY <3>1, <3>2
  <2>4. PICK n \in 0 .. Half : sub_id[p] \in [1 .. n -> S]
    BY <2>3
  <2>5. sub_id[p] \in Seq(S) /\ sub_id[p] \in Seq(SmallSubId)
    <3>1. sub_id[p] \in Seq(S)
      BY <2>4, HalfAssumption, SMT
    <3> QED
      BY <2>1, <3>1, SeqWiden
  <2>6. \A c : Contains(sub_id[p], c) => c \in S
    BY <2>5, SMT DEF Contains
  <2> QED
    BY <2>3, <2>5, <2>6 DEF SmallOID, S
<1>5. sub_id \in [Path -> SmallOID]
  BY <1>1, <1>4
<1> QED
  BY <1>1, <1>3, <1>4, <1>5 DEF TreeInv

Node(n) == n \in Path /\ type[n] # "free"

\* The paths of nodes are small oids.
LEMMA PathFacts ==
  ASSUME TreeInv, NEW p \in Path
  PROVE  /\ p \in SmallOID /\ p \in OID /\ Len(p) \in Nat /\ sub_id[p] \in SmallOID /\ sub_id[p] \in OID
         /\ rows[p] \subseteq SmallOID \ {<<>>} /\ IsFiniteSet(rows[p])
         /\ type[p] \in {"group", "instance", "free"}
<1>1. p \in SmallOID /\ sub_id[p] \in SmallOID /\ rows[p] \in Rows /\ type[p] \in {"group", "instance", "free"}
  BY SearchAssumption DEF TreeInv
<1>2. rows[p] \subseteq SmallOID \ {<<>>} /\ IsFiniteSet(rows[p])
  BY <1>1, SearchAssumption
<1> QED
  BY <1>1, <1>2, SmallFacts

\* A path to a node leads over groups that hang on each other.
LEMMA Ancestors ==
  ASSUME TreeInv, NEW q, Node(q), NEW p \in SmallOID, Covers(p, q)
  PROVE  Node(p) /\ (p # q => type[p] = "group")
<1> DEFINE Good(r) == Node(r) /\ (r # q => type[r] = "group")
           D == {k \in 0 .. Len(q) : ~ Good(SubSeq(q, 1, Len(q) - k))}
<1>1. q \in Path /\ q \in SmallOID /\ q \in OID /\ Len(q) \in Nat
  BY PathFacts DEF Node
<1>2. ASSUME D # {} PROVE FALSE
  <2>1. PICK k \in D : \A j \in D : k <= j
    <3>1. D \in SUBSET Nat
      BY <1>1, SMT
    <3> QED
      BY <1>2, <3>1, LeastElement
  <2>2. k \in 0 .. Len(q) /\ ~ Good(SubSeq(q, 1, Len(q) - k))
    OBVIOUS
  <2>3. k # 0
    <3>1. SubSeq(q, 1, Len(q)) = q /\ Len(q) - 0 = Len(q)
      BY <1>1, PrefixIs, SMT
    <3> QED
      BY <2>2, <3>1
  <2>4. k - 1 \in 0 .. Len(q) /\ k - 1 \notin D
    BY <1>1, <2>1, <2>2, <2>3, SMT
  <2>5. PICK n \in 0 .. (Len(q) - 1) : n = Len(q) - k /\ n + 1 = Len(q) - (k - 1)
    <3>1. Len(q) - k \in 0 .. (Len(q) - 1) /\ (Len(q) - k) + 1 = Len(q) - (k - 1)
      BY <1>1, <2>2, <2>3, SMT
    <3> QED
      BY <3>1
  <2>6. Good(SubSeq(q, 1, n + 1))
    BY <2>4, <2>5
  <2>7. /\ n \in 0 .. Len(q) /\ n < Len(q) /\ n + 1 \in 0 .. Len(q)
        /\ Front(SubSeq(q, 1, n + 1)) = SubSeq(q, 1, n) /\ Len(SubSeq(q, 1, n + 1)) = n + 1
    <3>1. n \in 0 .. Len(q) /\ n < Len(q) /\ n + 1 \in 0 .. Len(q)
      BY <1>1, <2>5, SMT
    <3> QED
      BY <1>1, <3>1, PrefixStep, PrefixIs
  <2>8. PICK r : r = SubSeq(q, 1, n + 1) /\ r # Root
    <3>1. n + 1 # 0 /\ Len(Root) = 0
      BY <2>5, SMT DEF Root
    <3> QED
      BY <2>7, <3>1
  <2>9. SubSeq(q, 1, n) \in Path /\ type[SubSeq(q, 1, n)] = "group"
    <3>1. r \in Path \ {Root} /\ type[r] # "free" /\ Front(r) = SubSeq(q, 1, n) /\ r # <<>>
      BY <2>6, <2>7, <2>8 DEF Node, Root
    <3>2. Front(r) \in Path
      BY <3>1, SearchAssumption
    <3>3. type[Front(r)] = "group"
      BY <3>1 DEF TreeInv
    <3> QED
      BY <3>1, <3>2, <3>3
  <2>10. Good(SubSeq(q, 1, n))
    BY <2>9 DEF Node
  <2> QED
    BY <2>2, <2>5, <2>10
<1>3. Len(p) \in 0 .. Len(q) /\ p = SubSeq(q, 1, Len(p))
  BY <1>1, SmallFacts, CoversIsPrefix
<1>4. PICK k \in 0 .. Len(q) : Len(q) - k = Len(p)
  <2>1. Len(q) - Len(p) \in 0 .. Len(q) /\ Len(q) - (Len(q) - Len(p)) = Len(p)
    BY <1>1, <1>3, SMT
  <2> QED
    BY <2>1
<1>5. Good(p)
  BY <1>2, <1>3, <1>4
<1> QED
  BY <1>5

\* No instance node is above another node.
LEMMA OneInstance ==
  ASSUME TreeInv, NEW p \in Path, type[p] = "instance", NEW q, Node(q), Covers(p, q)
  PROVE  p = q
BY Ancestors, PathFacts

\* A variable has the oid of a node and, below it, one that the node's handler serves.
LEMMA ServedIs ==
  ASSUME NEW x
  PROVE  x \in Served <=> \E p \in Path : \E s \in rows[p] : x = p \o s
<1>1. ASSUME x \in Served PROVE \E p \in Path : \E s \in rows[p] : x = p \o s
  <2>1. PICK W \in {{p \o s : s \in rows[p]} : p \in Path} : x \in W
    BY <1>1 DEF Served
  <2>2. PICK p \in Path : W = {p \o s : s \in rows[p]}
    BY <2>1
  <2> QED
    BY <2>1, <2>2
<1>2. ASSUME NEW p \in Path, NEW s \in rows[p], x = p \o s PROVE x \in Served
  <2>1. x \in {p \o r : r \in rows[p]}
    BY <1>2
  <2> QED
    BY <2>1 DEF Served
<1> QED
  BY <1>1, <1>2

\* A variable lies below one instance node, whose handler serves it.
LEMMA ServedFacts ==
  ASSUME TreeInv, NEW x
  PROVE  x \in Served <=> \E p \in Path : \E s \in rows[p] :
           /\ type[p] = "instance" /\ x = p \o s /\ s \in SmallOID /\ s # <<>>
           /\ x \in SmallOID /\ Covers(p, x) /\ x # p
<1>1. ASSUME NEW p \in Path, NEW s \in rows[p], x = p \o s
      PROVE  /\ type[p] = "instance" /\ s \in SmallOID /\ s # <<>>
             /\ x \in SmallOID /\ Covers(p, x) /\ x # p
  <2>1. p \in SmallOID /\ s \in SmallOID /\ s # <<>>
    BY PathFacts
  <2>2. type[p] = "instance"
    BY DEF TreeInv
  <2> QED
    BY <1>1, <2>1, <2>2, ConcatFacts
<1> QED
  BY <1>1, ServedIs

\* What an instance node covers is served exactly if its handler serves the rest.
LEMMA ServedHere ==
  ASSUME TreeInv, NEW p \in Path, type[p] = "instance", NEW x \in SmallOID, Covers(p, x)
  PROVE  x \in Served <=> SubSeq(x, Len(p) + 1, Len(x)) \in rows[p]
<1>1. PICK s \in SmallOID : s = SubSeq(x, Len(p) + 1, Len(x)) /\ x = p \o s
  BY PathFacts, SplitFacts
<1>2. ASSUME x \in Served PROVE s \in rows[p]
  <2>1. PICK q \in Path : \E t \in rows[q] :
          type[q] = "instance" /\ x = q \o t /\ t \in SmallOID /\ Covers(q, x)
    BY <1>2, ServedFacts
  <2>2. p = q
    <3>1. p \in OID /\ q \in OID /\ x \in OID
      BY PathFacts, SmallFacts
    <3>2. Covers(p, q) \/ Covers(q, p)
      BY <2>1, <3>1, CoversLinear
    <3> QED
      BY <2>1, <3>2, OneInstance DEF Node
  <2>3. PICK t \in rows[q] : x = q \o t /\ t \in SmallOID
    BY <2>1
  <2>4. s = t
    <3>1. p \in SmallOID /\ p \o s = p \o t
      BY <1>1, <2>2, <2>3, PathFacts
    <3> QED
      BY <1>1, <2>3, <3>1, ConcatOrder
  <2> QED
    BY <2>2, <2>3, <2>4
<1>3. ASSUME s \in rows[p] PROVE x \in Served
  BY <1>1, <1>3, ServedIs
<1> QED
  BY <1>1, <1>2, <1>3

\* The children of a group that a path goes over are in its array.
LEMMA ChildOnPath ==
  ASSUME TreeInv, NEW g \in Path, type[g] = "group", NEW q, Node(q), Covers(g, q), g # q
  PROVE  /\ Len(q) > Len(g) /\ q[Len(g) + 1] \in SmallSubId /\ Contains(sub_id[g], q[Len(g) + 1])
         /\ Covers(Append(g, q[Len(g) + 1]), q)
<1>1. /\ g \in SmallOID /\ g \in OID /\ q \in SmallOID /\ q \in OID
      /\ Len(g) \in Nat /\ Len(q) \in Nat
  BY PathFacts DEF Node
<1>2. Len(g) \in 0 .. Len(q) /\ g = SubSeq(q, 1, Len(g)) /\ Len(g) # Len(q)
  BY <1>1, CoversIsPrefix
<1>3. Len(g) < Len(q)
  BY <1>1, <1>2, SMT
<1>4. q[Len(g) + 1] \in SmallSubId
  BY <1>1, <1>2, <1>3, PrefixIs
<1>5. PICK c \in SmallSubId : c = q[Len(g) + 1]
  BY <1>4
<1>6. Append(g, c) \in SmallOID /\ Covers(Append(g, c), q)
  BY <1>1, <1>3, <1>5, ChildFacts
<1>7. Node(Append(g, c))
  BY <1>6, Ancestors
<1>8. Contains(sub_id[g], c)
  BY <1>5, <1>7 DEF TreeInv, Node
<1> QED
  BY <1>3, <1>5, <1>6, <1>8

\* What is served below a group is served below one of its children.
LEMMA ServedChild ==
  ASSUME TreeInv, NEW g \in Path, type[g] = "group", NEW x \in Served, Covers(g, x)
  PROVE  Len(x) > Len(g) /\ x[Len(g) + 1] \in SmallSubId /\ Contains(sub_id[g], x[Len(g) + 1])
<1>1. PICK p \in Path : type[p] = "instance" /\ x \in SmallOID /\ Covers(p, x)
  BY ServedFacts
<1>2. p \in OID /\ g \in OID /\ x \in OID /\ Node(p) /\ Node(g) /\ Len(g) \in Nat
  BY <1>1, PathFacts, SmallFacts DEF Node
<1>3. Covers(g, p) /\ g # p
  <2>1. Covers(g, p) \/ Covers(p, g)
    BY <1>1, <1>2, CoversLinear
  <2>2. Covers(p, g) => p = g
    BY <1>1, <1>2, OneInstance
  <2>3. p # g
    BY <1>1
  <2> QED
    BY <2>1, <2>2, <2>3
<1>4. Len(p) > Len(g) /\ p[Len(g) + 1] \in SmallSubId /\ Contains(sub_id[g], p[Len(g) + 1])
  BY <1>2, <1>3, ChildOnPath
<1>5. Len(p) <= Len(x) /\ p[Len(g) + 1] = x[Len(g) + 1] /\ Len(p) \in Nat /\ Len(x) \in Nat
  <2>1. Len(p) \in Nat /\ Len(x) \in Nat /\ Len(p) <= Len(x)
    BY <1>1, <1>2, SMT DEF Covers, OID
  <2>2. Len(g) + 1 \in 1 .. Len(p)
    BY <1>2, <1>4, <2>1, SMT
  <2> QED
    BY <1>1, <2>1, <2>2 DEF Covers
<1> QED
  BY <1>2, <1>4, <1>5, SMT

\* The variables that report an error.
LEMMA ErringHere ==
  ASSUME TreeInv, NEW p \in Path, type[p] = "instance", NEW s \in rows[p]
  PROVE  p \o s \in Erring <=> s \in Failing
<1>1. ASSUME s \in Failing PROVE p \o s \in Erring
  <2>1. p \o s \in {p \o r : r \in rows[p] \cap Failing}
    BY <1>1
  <2> QED
    BY <2>1 DEF Erring
<1>2. ASSUME p \o s \in Erring PROVE s \in Failing
  <2>1. PICK W \in {{q \o r : r \in rows[q] \cap Failing} : q \in Path} : p \o s \in W
    BY <1>2 DEF Erring
  <2>2. PICK q \in Path : W = {q \o r : r \in rows[q] \cap Failing}
    BY <2>1
  <2>3. PICK r \in rows[q] \cap Failing : p \o s = q \o r
    BY <2>1, <2>2
  <2>4. p \in SmallOID /\ s \in SmallOID /\ q \in SmallOID /\ r \in SmallOID
    BY <2>3, PathFacts
  <2>5. p \o s \in SmallOID /\ Covers(p, p \o s) /\ Covers(q, p \o s)
    BY <2>3, <2>4, ConcatFacts
  <2>6. type[q] = "instance"
    BY <2>3 DEF TreeInv
  <2>7. p = q
    <3>1. Covers(p, q) \/ Covers(q, p)
      BY <2>4, <2>5, SmallFacts, CoversLinear
    <3> QED
      BY <2>6, <3>1, OneInstance DEF Node
  <2>8. s = r
    BY <2>3, <2>4, <2>7, ConcatOrder
  <2> QED
    BY <2>3, <2>8
<1> QED
  BY <1>1, <1>2

\* The least of some oids is the one not after any.
LEMMA LeastIs ==
  ASSUME NEW S \in SUBSET SmallOID, NEW y \in S, \A t \in S : y = t \/ OidLess(y, t)
  PROVE  Least(S) = y
<1>1. ASSUME NEW z \in S, \A t \in S : z = t \/ OidLess(z, t) PROVE z = y
  BY <1>1, OidLessTotal
<1> QED
  BY <1>1 DEF Least
-----------------------------------------------------------------------------
(***************************************************************************)
(* What a call of mib_tree_search_next is to find.                         *)
(***************************************************************************)
In == Covers(view, orig)
Started == In \/ OidLess(orig, view)

\* The oid that the cursor starts from.
Aim == IF In THEN orig ELSE view

Wanted == Asked(Instances, Served, view, orig)
Closest == SearchNext(Instances, Served, Erring, view, orig)
EndResult == [tag |-> "END_OF_MIB_VIEW", oid |-> orig, err |-> 0]

\* The node at which the walk along the view's oid ends: it has no child on that
\* way, and nothing to find if the way goes on.
IsTop(t) ==
  /\ Node(t) /\ Covers(t, view)
  /\ type[t] = "group" /\ t # view => ~ Contains(sub_id[t], view[Len(t) + 1])
Barren(t) == type[t] = "group" /\ t # view

\* The oid that the cursor starts from is that of the view or below.
LEMMA AimFacts ==
  ASSUME view \in SmallOID, orig \in SmallOID
  PROVE  Aim \in SmallOID /\ Covers(view, Aim)
BY SmallFacts, SMT DEF Aim, In, Covers

\* What is wanted lies after that oid.
LEMMA WantedIs ==
  ASSUME TreeInv, view \in SmallOID, orig \in SmallOID, Started, NEW x
  PROVE  x \in Wanted <=>
           /\ x \in Served /\ OidLess(Aim, x)
           /\ Covers(view, x) \/ \E p \in Instances : Covers(p, view) /\ Covers(p, x)
<1> DEFINE R == Covers(view, x) \/ \E p \in Instances : Covers(p, view) /\ Covers(p, x)
           F == From(Instances, view, orig)
<1>1. x \in Served => x \in SmallOID /\ \E p \in Instances : Covers(p, x)
  BY ServedFacts DEF Instances
<1>2. x \in Wanted <=> x \in Served /\ OidLess(F, x) /\ R
  BY DEF Wanted, Asked, Started, In
<1>3. CASE In
  <2>1. F = orig /\ Aim = orig
    BY <1>3, CoversOrder DEF From, In, Aim
  <2> HIDE DEF F, R
  <2>2. QED
    BY <1>2, <2>1 DEF R
<1>4. CASE ~ In
  <2>1. OidLess(orig, view) /\ Aim = view
    BY <1>4 DEF Started, Aim
  <2>2. CASE \E p \in Instances : Covers(p, view)
    <3>1. F = view
      BY <2>1, <2>2 DEF From
    <3> HIDE DEF F, R
    <3> QED
      BY <1>2, <2>1, <3>1 DEF R
  <2>3. CASE ~ \E p \in Instances : Covers(p, view)
    <3>1. F = orig /\ (R <=> Covers(view, x))
      BY <2>3 DEF From
    <3> HIDE DEF F, R
    <3>2. ASSUME x \in Served, Covers(view, x) PROVE OidLess(orig, x) /\ OidLess(view, x)
      <4>1. x \in SmallOID /\ x # view
        BY <1>1, <2>3, <3>2
      <4>2. OidLess(view, x)
        BY <3>2, <4>1, CoversOrder
      <4> QED
        BY <2>1, <4>1, <4>2, OidLessTransitive
    <3> QED
      BY <1>2, <2>1, <3>1, <3>2 DEF R
  <2> QED
    BY <2>2, <2>3
<1> QED
  BY <1>3, <1>4

\* A group that the way of the view leaves: no node of the way is below it.
LEMMA WayEnds ==
  ASSUME TreeInv, view \in SmallOID, NEW t, IsTop(t), Barren(t), NEW q, Node(q), Covers(t, q), t # q
  PROVE  ~ Covers(q, view) /\ ~ Covers(view, q)
<1>1. t \in Path /\ type[t] = "group" /\ t # view /\ Covers(t, view) /\ ~ Contains(sub_id[t], view[Len(t) + 1])
  BY DEF IsTop, Barren, Node
<1>2. Len(q) > Len(t) /\ Contains(sub_id[t], q[Len(t) + 1]) /\ Len(t) \in Nat /\ Len(q) \in Nat /\ q \in SmallOID
  BY <1>1, ChildOnPath, PathFacts DEF Node
<1>3. Len(view) > Len(t) /\ Len(view) \in Nat
  <2>1. Len(t) \in 0 .. Len(view) /\ (Len(t) = Len(view) => t = view) /\ Len(view) \in Nat
    BY <1>1, PathFacts, SmallFacts, CoversIsPrefix
  <2> QED
    BY <1>1, <2>1, SMT
<1>4. Len(t) + 1 \in 1 .. Len(q) /\ Len(t) + 1 \in 1 .. Len(view)
  BY <1>2, <1>3, SMT
<1>5. q[Len(t) + 1] # view[Len(t) + 1]
  BY <1>1, <1>2
<1> QED
  BY <1>4, <1>5 DEF Covers

\* All that is wanted lies below the node where the walk ends, and nothing if the
\* way goes on from a group.
LEMMA TopCovers ==
  ASSUME TreeInv, view \in SmallOID, orig \in SmallOID, Started, NEW t, IsTop(t), NEW x \in Wanted
  PROVE  Covers(t, x) /\ ~ Barren(t)
<1>1. t \in Path /\ Node(t) /\ Covers(t, view) /\ t \in OID /\ view \in OID
  BY PathFacts, SmallFacts DEF IsTop, Node
<1>2. x \in Served /\ (Covers(view, x) \/ \E p \in Instances : Covers(p, view) /\ Covers(p, x))
  BY WantedIs
<1>3. PICK q \in Path : type[q] = "instance" /\ x \in SmallOID /\ Covers(q, x)
  BY <1>2, ServedFacts
<1>4. Node(q) /\ q \in OID /\ x \in OID
  BY <1>3, PathFacts, SmallFacts DEF Node
<1>5. Covers(view, q) \/ Covers(q, view)
  <2>1. CASE Covers(view, x)
    BY <1>1, <1>3, <1>4, <2>1, CoversLinear
  <2>2. CASE \E p \in Instances : Covers(p, view) /\ Covers(p, x)
    <3>1. PICK p \in Path : type[p] = "instance" /\ Covers(p, view) /\ Covers(p, x)
      BY <2>2 DEF Instances
    <3>2. p \in OID /\ Node(p)
      BY <3>1, PathFacts DEF Node
    <3>3. p = q
      BY <1>3, <1>4, <3>1, <3>2, CoversLinear, OneInstance
    <3> QED
      BY <3>1, <3>3
  <2> QED
    BY <1>2, <2>1, <2>2
<1>6. Covers(t, q)
  <2>1. CASE Covers(view, q)
    BY <1>1, <1>4, <2>1, CoversTransitive
  <2>2. CASE Covers(q, view)
    <3>1. Covers(t, q) \/ Covers(q, t)
      BY <1>1, <1>4, <2>2, CoversLinear
    <3>2. Covers(t, t)
      BY <1>1, SMT DEF Covers, OID
    <3> QED
      BY <1>1, <1>3, <3>1, <3>2, OneInstance
  <2> QED
    BY <1>5, <2>1, <2>2
<1>7. Covers(t, x)
  BY <1>1, <1>3, <1>4, <1>6, CoversTransitive
<1>8. ASSUME Barren(t) PROVE FALSE
  <2>1. t # q
    BY <1>3, <1>8 DEF Barren
  <2> QED
    BY <1>4, <1>5, <1>6, <1>8, <2>1, WayEnds
<1> QED
  BY <1>7, <1>8

\* The answer, if nothing is wanted and if y is the closest of what is.
LEMMA ClosestIs ==
  ASSUME TreeInv, view \in SmallOID, orig \in SmallOID
  PROVE  /\ Wanted = {} => Closest = EndResult
         /\ \A y \in Wanted : (\A z \in Wanted : y = z \/ OidLess(y, z)) =>
              Closest = IF y \in Erring
                        THEN [tag |-> "VALUE", oid |-> Echo(Instances, view, orig, y), err |-> GEN_ERR]
                        ELSE IF Covers(view, y) THEN [tag |-> "VALUE", oid |-> y, err |-> 0] ELSE EndResult
<1>1. Wanted = {} => Closest = EndResult
  BY DEF Wanted, Closest, EndResult, SearchNext
<1>2. ASSUME NEW y \in Wanted, \A z \in Wanted : y = z \/ OidLess(y, z)
      PROVE  Closest = IF y \in Erring
                       THEN [tag |-> "VALUE", oid |-> Echo(Instances, view, orig, y), err |-> GEN_ERR]
                       ELSE IF Covers(view, y) THEN [tag |-> "VALUE", oid |-> y, err |-> 0] ELSE EndResult
  <2>1. Wanted \in SUBSET SmallOID
    <3>1. Wanted \subseteq Served
      BY DEF Wanted, Asked
    <3> QED
      BY <3>1, ServedFacts
  <2>2. Least(Wanted) = y
    BY <1>2, <2>1, LeastIs
  <2>3. Wanted # {}
    OBVIOUS
  <2> QED
    BY <2>2, <2>3 DEF Closest, SearchNext, Wanted, EndResult
<1> QED
  BY <1>1, <1>2
-----------------------------------------------------------------------------
(***************************************************************************)
(* The inductive invariant.                                                *)
(***************************************************************************)
\* The node at the bottom of the stack: the one that the walk ended at.
Top(b, p, s) == SubSeq(b, 1, p - Len(s))

\* A stack entry, for group g whose child c the cursor went down to, names the
\* next child: all variables further down or up to it are done with.
NoChild == [node |-> NULL, n_idx |-> None]
Entry == [node : Path \cup {NULL}, n_idx : Nat \cup {None}]

Level(t, g, c, e) ==
  /\ g \in Path /\ type[g] = "group"
  /\ \/ e = NoChild /\ \A d : Contains(sub_id[g], d) => d <= c
     \/ /\ e.node = g /\ e.n_idx \in 1 .. (Len(sub_id[g]) - 1) /\ sub_id[g][e.n_idx] = c
        /\ ~ Barren(t) => ~ OidLess(Append(g, sub_id[g][e.n_idx + 1]), Aim)

Shape(b, p, s) ==
  /\ p <= Len(b) /\ Len(s) <= p /\ IsTop(Top(b, p, s))
  /\ \A k \in 1 .. Len(s) :
       Level(Top(b, p, s), SubSeq(b, 1, p - Len(s) + k - 1), b[p - Len(s) + k], s[k])

At(b, p, n) == Node(n) /\ n = SubSeq(b, 1, p)

\* As long as the oid looked for leads the way.
Exact(b, p, l, n, e) ==
  b = Aim /\ l = Len(Aim) - p /\ e = NoEntry /\ (type[n] = "group" => l > 0)

\* Once the first variable found will do: it is the closest one.
First(n, e) == Append(n, sub_id[n][(IF e = NoEntry THEN 0 ELSE e) + 1])
Bound(n, e) == IF e = NoEntry THEN n ELSE First(n, e)
Immediate(t, n, e) ==
  /\ e = NoEntry \/ (type[n] = "group" /\ e \in 0 .. (Len(sub_id[n]) - 1))
  /\ \A x \in Wanted : ~ OidLess(x, Bound(n, e))
  /\ ~ Barren(t) => IF type[n] = "instance" THEN ~ OidLess(n, Aim)
                    ELSE sub_id[n] # <<>> => ~ OidLess(First(n, e), Aim)

\* All that is wanted is after subtree p.
Behind(p) == \A x \in Wanted : After(p, x)

IdleInv == pc \in {"idle", "done"} => stk = <<>> /\ p_nbl = NoEntry /\ pos = 0 /\ buf = <<>>

WalkInv ==
  pc = "walk" =>
    /\ IF request = "GET" THEN buf = orig /\ In ELSE buf = view /\ Started
    /\ pos <= Len(buf) /\ id_len = Len(buf) - pos /\ At(buf, pos, node)
    /\ stk = <<>> /\ p_nbl = NoEntry

NextInv ==
  pc = "next" =>
    /\ request = "GETNEXT" /\ Started /\ Shape(buf, pos, stk)
    /\ IF node = NULL THEN Behind(SubSeq(buf, 1, pos))
       ELSE /\ At(buf, pos, node)
            /\ immediate => Immediate(Top(buf, pos, stk), node, p_nbl)
            /\ ~ immediate => Exact(buf, pos, id_len, node, p_nbl)

BackInv ==
  pc = "backtrack" =>
    /\ request = "GETNEXT" /\ (~ Started => stk = <<>>)
    /\ Started => /\ Shape(buf, pos, stk)
                  /\ Behind(SubSeq(buf, 1, pos)) \/ (stk = <<>> /\ Closest = EndResult)

SearchInv ==
  /\ TypeOK /\ TreeInv /\ IdleInv /\ WalkInv /\ NextInv /\ BackInv /\ GetFinds /\ NextIsClosest

\* A call leaves the tree, its arguments and so all that is said about them alone.
LEMMA Frame ==
  ASSUME UNCHANGED <<treevars, args>>
  PROVE  /\ Wanted' = Wanted /\ Closest' = Closest /\ EndResult' = EndResult /\ Aim' = Aim
         /\ (Started' <=> Started) /\ (In' <=> In) /\ (TreeInv' <=> TreeInv)
         /\ \A b, p, s : Shape(b, p, s)' <=> Shape(b, p, s)
         /\ \A b, p, n : At(b, p, n)' <=> At(b, p, n)
         /\ \A b, p, l, n, e : Exact(b, p, l, n, e)' <=> Exact(b, p, l, n, e)
         /\ \A t, n, e : Immediate(t, n, e)' <=> Immediate(t, n, e)
         /\ \A p : Behind(p)' <=> Behind(p)
<1>1. /\ type' = type /\ sub_id' = sub_id /\ rows' = rows
      /\ request' = request /\ view' = view /\ orig' = orig
  BY DEF treevars, args
<1>2. Instances' = Instances /\ Served' = Served /\ Erring' = Erring
  BY <1>1, SMT DEF Instances, Served, Erring
<1>3. /\ Wanted' = Wanted /\ Closest' = Closest /\ EndResult' = EndResult /\ Aim' = Aim
      /\ (Started' <=> Started) /\ (In' <=> In)
  BY <1>1, <1>2 DEF Wanted, Closest, EndResult, Aim, Started, In
<1>4. TreeInv' <=> TreeInv
  BY <1>1 DEF TreeInv
<1>5. \A t : (IsTop(t)' <=> IsTop(t)) /\ (Barren(t)' <=> Barren(t)) /\ (Node(t)' <=> Node(t))
  BY <1>1 DEF IsTop, Barren, Node
<1>6. \A t, g, c, e : Level(t, g, c, e)' <=> Level(t, g, c, e)
  BY <1>1, <1>3, <1>5, SMT DEF Level
<1>7. \A b, p, s : Shape(b, p, s)' <=> Shape(b, p, s)
  BY <1>5, <1>6, SMT DEF Shape
<1>8. \A b, p, n : At(b, p, n)' <=> At(b, p, n)
  BY <1>5 DEF At
<1>9. \A b, p, l, n, e : Exact(b, p, l, n, e)' <=> Exact(b, p, l, n, e)
  BY <1>1, <1>3 DEF Exact
<1>10. \A t, n, e : Immediate(t, n, e)' <=> Immediate(t, n, e)
  BY <1>1, <1>3, <1>5, SMT DEF Immediate, Bound, First
<1>11. \A p : Behind(p)' <=> Behind(p)
  BY <1>3 DEF Behind
<1> QED
  BY <1>3, <1>4, <1>7, <1>8, <1>9, <1>10, <1>11

\* Oids that agree up to n have the same prefix there.
LEMMA SamePrefix ==
  ASSUME NEW a \in SmallOID, NEW b \in SmallOID, NEW n \in Nat, n <= Len(a), n <= Len(b),
         \A i \in 1 .. n : a[i] = b[i]
  PROVE  SubSeq(a, 1, n) = SubSeq(b, 1, n)
<1>1. n \in 0 .. Len(a) /\ n \in 0 .. Len(b)
  BY SmallFacts, SMT
<1>2. /\ SubSeq(a, 1, n) \in Seq(SmallSubId) /\ Len(SubSeq(a, 1, n)) = n /\ \A i \in 1 .. n : SubSeq(a, 1, n)[i] = a[i]
      /\ SubSeq(b, 1, n) \in Seq(SmallSubId) /\ Len(SubSeq(b, 1, n)) = n /\ \A i \in 1 .. n : SubSeq(b, 1, n)[i] = b[i]
  BY <1>1, PrefixIs DEF SmallOID
<1> QED
  BY <1>2, SeqSame

\* The stack after a push.
LEMMA PushShape ==
  ASSUME NEW b \in SmallOID, NEW p \in Nat, NEW s \in Seq(Entry), Shape(b, p, s), NEW e \in Entry,
         NEW B \in SmallOID, p + 1 <= Len(B), \A i \in 1 .. p : B[i] = b[i],
         Level(Top(b, p, s), SubSeq(b, 1, p), B[p + 1], e)
  PROVE  /\ Shape(B, p + 1, Append(s, e)) /\ Top(B, p + 1, Append(s, e)) = Top(b, p, s)
         /\ SubSeq(B, 1, p + 1) = Append(SubSeq(b, 1, p), B[p + 1])
<1> DEFINE r == Append(s, e)
           n == p - Len(s)
<1>1. p <= Len(b) /\ Len(s) <= p /\ Len(s) \in Nat /\ Len(b) \in Nat /\ Len(B) \in Nat
  BY SmallFacts, SMT DEF Shape
<1>2. Len(r) = Len(s) + 1 /\ r[Len(s) + 1] = e /\ \A k \in 1 .. Len(s) : r[k] = s[k]
  BY SMT
<1>3. p + 1 - Len(r) = n /\ n \in Nat /\ n <= p
  BY <1>1, <1>2, SMT
<1>4. ASSUME NEW m \in 0 .. p PROVE SubSeq(B, 1, m) = SubSeq(b, 1, m)
  <2>1. m \in Nat /\ m <= Len(b) /\ m <= Len(B) /\ \A i \in 1 .. m : B[i] = b[i]
    BY <1>1, SMT
  <2> QED
    BY <2>1, SamePrefix
<1> HIDE DEF r
<1>5. Top(B, p + 1, r) = Top(b, p, s)
  BY <1>3, <1>4, SMT DEF Top
<1>6. ASSUME NEW k \in 1 .. Len(r)
      PROVE  Level(Top(b, p, s), SubSeq(B, 1, n + k - 1), B[n + k], r[k])
  <2>1. CASE k \in 1 .. Len(s)
    <3>1. n + k - 1 \in 0 .. p /\ n + k \in 1 .. p
      BY <1>1, <1>3, <2>1, SMT
    <3>2. SubSeq(B, 1, n + k - 1) = SubSeq(b, 1, n + k - 1) /\ B[n + k] = b[n + k] /\ r[k] = s[k]
      BY <1>2, <1>4, <2>1, <3>1
    <3> QED
      BY <2>1, <3>2 DEF Shape
  <2>2. CASE k = Len(s) + 1
    <3>1. n + k - 1 = p /\ n + k = p + 1
      BY <1>1, <2>2, SMT
    <3>2. SubSeq(B, 1, p) = SubSeq(b, 1, p)
      BY <1>4, SMT
    <3> QED
      BY <1>2, <2>2, <3>1, <3>2
  <2> QED
    BY <1>1, <1>2, <2>1, <2>2, SMT
<1>7. Shape(B, p + 1, r)
  <2>1. Len(r) <= p + 1 /\ IsTop(Top(B, p + 1, r))
    BY <1>1, <1>2, <1>5, SMT DEF Shape
  <2>2. ASSUME NEW k \in 1 .. Len(r)
        PROVE  Level(Top(B, p + 1, r), SubSeq(B, 1, p + 1 - Len(r) + k - 1), B[p + 1 - Len(r) + k], r[k])
    BY <1>3, <1>5, <1>6
  <2> QED
    BY <2>1, <2>2, SMT DEF Shape
<1>8. SubSeq(B, 1, p + 1) = Append(SubSeq(b, 1, p), B[p + 1])
  <2>1. p \in 0 .. Len(B) /\ p < Len(B) /\ p \in 0 .. p
    BY <1>1, SMT
  <2>2. SubSeq(B, 1, p + 1) = Append(SubSeq(B, 1, p), B[p + 1])
    BY <2>1, PrefixIs
  <2> QED
    BY <1>4, <2>1, <2>2
<1> QED
  BY <1>5, <1>7, <1>8 DEF r

\* The stack after a pop.
LEMMA PopShape ==
  ASSUME NEW b \in SmallOID, NEW p \in Nat, NEW s \in Seq(Entry), Shape(b, p, s), s # <<>>
  PROVE  /\ p - 1 \in Nat /\ Front(s) \in Seq(Entry) /\ Last(s) \in Entry
         /\ Shape(b, p - 1, Front(s)) /\ Top(b, p - 1, Front(s)) = Top(b, p, s)
         /\ Level(Top(b, p, s), SubSeq(b, 1, p - 1), b[p], Last(s))
         /\ SubSeq(b, 1, p) = Append(SubSeq(b, 1, p - 1), b[p]) /\ b[p] \in SmallSubId
<1> DEFINE r == Front(s)
           n == p - Len(s)
<1>1. p <= Len(b) /\ Len(s) <= p /\ Len(s) \in Nat \ {0} /\ Len(b) \in Nat
  BY SmallFacts, SMT DEF Shape
<1>2. r \in Seq(Entry) /\ Len(r) = Len(s) - 1 /\ Last(s) = s[Len(s)] /\ Last(s) \in Entry
      /\ \A k \in 1 .. (Len(s) - 1) : r[k] = s[k]
  <2>1. PICK m \in Nat : m = Len(s) - 1
    BY <1>1, SMT
  <2>2. m \in 0 .. Len(s) /\ 1 \in 1 .. (Len(s) + 1) /\ m \in (1 - 1) .. Len(s)
    BY <1>1, <2>1, SMT
  <2>3. /\ r \in Seq(Entry) /\ Len(r) = IF 1 <= m THEN m - 1 + 1 ELSE 0
        /\ \A i \in 1 .. m - 1 + 1 : r[i] = s[1 + i - 1]
    BY <2>1, <2>2, SubSeqIs, SMT DEF Front
  <2>4. Len(r) = m /\ m - 1 + 1 = m
    BY <2>3, SMT
  <2>5. ASSUME NEW k \in 1 .. (Len(s) - 1) PROVE r[k] = s[k]
    <3>1. 1 + k - 1 = k
      BY SMT
    <3> QED
      BY <2>1, <2>3, <2>4, <3>1
  <2> QED
    BY <1>1, <2>1, <2>3, <2>4, <2>5, SMT DEF Last
<1> HIDE DEF r
<1>3. (p - 1) - Len(r) = n /\ n \in Nat /\ Len(r) <= p - 1 /\ p - 1 <= Len(b) /\ p - 1 \in Nat
      /\ n + Len(s) = p /\ n + Len(s) - 1 = p - 1
  BY <1>1, <1>2, SMT
<1>4. Top(b, p - 1, r) = Top(b, p, s)
  BY <1>3 DEF Top
<1>5. ASSUME NEW k \in 1 .. Len(r)
      PROVE  Level(Top(b, p, s), SubSeq(b, 1, n + k - 1), b[n + k], r[k])
  <2>1. k \in 1 .. Len(s) /\ r[k] = s[k]
    BY <1>1, <1>2, SMT
  <2> QED
    BY <2>1 DEF Shape
<1>6. Shape(b, p - 1, r)
  <2>1. IsTop(Top(b, p - 1, r))
    BY <1>4 DEF Shape
  <2> QED
    BY <1>3, <1>4, <1>5, <2>1 DEF Shape
<1>7. Level(Top(b, p, s), SubSeq(b, 1, p - 1), b[p], Last(s))
  <2>1. Len(s) \in 1 .. Len(s)
    BY <1>1, SMT
  <2>2. Level(Top(b, p, s), SubSeq(b, 1, n + Len(s) - 1), b[n + Len(s)], s[Len(s)])
    BY <2>1 DEF Shape
  <2> QED
    BY <1>2, <1>3, <2>2
<1>8. SubSeq(b, 1, p) = Append(SubSeq(b, 1, p - 1), b[p]) /\ b[p] \in SmallSubId
  <2>1. PICK m \in 0 .. Len(b) : m = p - 1
    BY <1>1, <1>3, SMT
  <2>2. m < Len(b) /\ m + 1 = p
    BY <1>1, <1>3, <2>1, SMT
  <2> QED
    BY <2>1, <2>2, PrefixIs, SMT
<1> QED
  BY <1>2, <1>3, <1>4, <1>6, <1>7, <1>8 DEF r

\* A null pointer is not a node.
LEMMA NullIsNoNode == TreeInv => NULL \notin Path
<1> SUFFICES ASSUME NULL \in SmallOID PROVE FALSE
  BY SearchAssumption
<1>1. NULL[1] \in SmallSubId /\ NULL[1] = -1
  BY SMT DEF NULL, SmallOID
<1> QED
  BY <1>1, SMT DEF SmallSubId

\* The children of a group are nodes.
LEMMA ChildIs ==
  ASSUME TreeInv, NEW g \in Path, NEW i \in 1 .. Len(sub_id[g])
  PROVE  /\ sub_id[g][i] \in SmallSubId /\ Contains(sub_id[g], sub_id[g][i])
         /\ Node(Append(g, sub_id[g][i]))
         /\ \A j \in 1 .. Len(sub_id[g]) : /\ i < j => sub_id[g][i] < sub_id[g][j]
                                           /\ i = j \/ sub_id[g][i] # sub_id[g][j]
<1>1. Contains(sub_id[g], sub_id[g][i])
  BY DEF Contains
<1>2. sub_id[g][i] \in SmallSubId /\ Node(Append(g, sub_id[g][i]))
  BY <1>1 DEF TreeInv, Node
<1>3. StrictlySorted(sub_id[g]) /\ Len(sub_id[g]) \in Nat /\ \A j \in 1 .. Len(sub_id[g]) : sub_id[g][j] \in Int
  BY PathFacts, SmallFacts DEF TreeInv
<1> QED
  BY <1>1, <1>2, <1>3, SMT DEF StrictlySorted

\* What is served and not before a group, nor below its first children, is not
\* before the next child.
LEMMA FromChild ==
  ASSUME TreeInv, NEW g \in Path, type[g] = "group", NEW i \in 1 .. Len(sub_id[g]),
         NEW x \in Served, Covers(g, x) \/ After(g, x),
         Covers(g, x) => \A j \in 1 .. (i - 1) : sub_id[g][j] # x[Len(g) + 1]
  PROVE  ~ OidLess(x, Append(g, sub_id[g][i]))
<1>1. PICK c \in SmallSubId : c = sub_id[g][i]
  BY ChildIs
<1>2. g \in SmallOID /\ x \in SmallOID /\ Append(g, c) \in SmallOID
  BY PathFacts, ServedFacts, ChildFacts
<1>3. CASE After(g, x)
  BY <1>1, <1>2, <1>3, ChildOrder, NotBefore
<1>4. CASE Covers(g, x)
  <2>1. Len(x) > Len(g) /\ x[Len(g) + 1] \in SmallSubId /\ Contains(sub_id[g], x[Len(g) + 1])
    BY <1>4, ServedChild
  <2>2. PICK j \in 1 .. Len(sub_id[g]) : sub_id[g][j] = x[Len(g) + 1]
    BY <2>1 DEF Contains
  <2>3. Len(sub_id[g]) \in Nat
    BY PathFacts, SmallFacts
  <2>4. j = i \/ i < j
    BY <1>4, <2>2, <2>3, SMT
  <2>5. CASE j = i
    <3>1. Covers(Append(g, c), x)
      BY <1>1, <1>2, <1>4, <2>1, <2>2, <2>5, ChildFacts
    <3> QED
      BY <1>1, <1>2, <3>1, NotBefore
  <2>6. CASE i < j
    <3>1. c < x[Len(g) + 1]
      BY <1>1, <2>2, <2>6, ChildIs
    <3>2. x[Len(g) + 1] > c
      BY <2>1, <3>1, HalfAssumption DEF SmallSubId
    <3>3. After(Append(g, c), x)
      BY <1>2, <1>4, <2>1, <3>2, ChildOrder
    <3> QED
      BY <1>1, <1>2, <3>3, NotBefore
  <2> QED
    BY <2>4, <2>5, <2>6
<1> QED
  BY <1>3, <1>4

\* What is wanted, seen from a group on the way to the oid looked for.
LEMMA FromAim ==
  ASSUME TreeInv, view \in SmallOID, orig \in SmallOID, Started, NEW x \in Wanted,
         NEW g \in Path, Covers(g, Aim)
  PROVE  /\ Covers(g, x) \/ After(g, x)
         /\ type[g] = "group" /\ Len(Aim) > Len(g) /\ Covers(g, x) =>
              /\ x[Len(g) + 1] \in Int /\ Aim[Len(g) + 1] \in SmallSubId
              /\ x[Len(g) + 1] >= Aim[Len(g) + 1]
<1>1. x \in Served /\ OidLess(Aim, x) /\ x \in SmallOID /\ Aim \in SmallOID /\ g \in SmallOID
  BY WantedIs, ServedFacts, AimFacts, PathFacts
<1>2. ~ OidLess(x, g)
  <2>1. g = Aim \/ OidLess(g, Aim)
    BY <1>1, CoversOrder
  <2> QED
    BY <1>1, <2>1, OidLessTransitive, OidLessTotal
<1>3. ASSUME type[g] = "group", Len(Aim) > Len(g), Covers(g, x)
      PROVE  /\ x[Len(g) + 1] \in Int /\ Aim[Len(g) + 1] \in SmallSubId
             /\ x[Len(g) + 1] >= Aim[Len(g) + 1]
  <2>1. Len(x) > Len(g) /\ x[Len(g) + 1] \in SmallSubId
    BY <1>1, <1>3, ServedChild
  <2>2. PICK c \in SmallSubId : c = Aim[Len(g) + 1]
    <3>1. Len(g) \in 0 .. Len(Aim)
      BY <1>1, <1>3, SmallFacts, SMT
    <3> QED
      BY <1>1, <1>3, <3>1, PrefixIs
  <2>3. x[Len(g) + 1] \in Int /\ c \in Int
    BY <2>1, HalfAssumption, SMT DEF SmallSubId
  <2>4. ASSUME x[Len(g) + 1] < c PROVE FALSE
    <3>1. OidLess(x, Append(g, c)) /\ Append(g, c) \in SmallOID /\ Covers(Append(g, c), Aim)
      <4>1. OidLess(x, Append(g, c))
        BY <1>1, <1>3, <2>1, <2>4, ChildOrder
      <4>2. Append(g, c) \in SmallOID /\ Covers(Append(g, c), Aim)
        BY <1>1, <1>3, <2>2, ChildFacts
      <4> QED
        BY <4>1, <4>2
    <3>2. Append(g, c) = Aim \/ OidLess(Append(g, c), Aim)
      BY <1>1, <3>1, CoversOrder
    <3> QED
      BY <1>1, <3>1, <3>2, OidLessTransitive, OidLessTotal
  <2> QED
    BY <2>2, <2>3, <2>4, SMT
<1> QED
  BY <1>1, <1>2, <1>3, NotBefore

\* The next sub-identifier written into the oid.
Put(b, p, c) == IF p < Len(b) THEN [b EXCEPT ![p + 1] = c] ELSE Append(b, c)

\* It leaves the ones before it alone.
LEMMA Written ==
  ASSUME NEW b \in SmallOID, NEW p \in Nat, p <= Len(b), NEW c \in SmallSubId
  PROVE  /\ Put(b, p, c) \in SmallOID /\ p + 1 <= Len(Put(b, p, c)) /\ Put(b, p, c)[p + 1] = c
         /\ \A i \in 1 .. p : Put(b, p, c)[i] = b[i]
         /\ p < Len(b) /\ b[p + 1] = c => Put(b, p, c) = b
<1>0. PICK B : B = Put(b, p, c) /\ B = IF p < Len(b) THEN [b EXCEPT ![p + 1] = c] ELSE Append(b, c)
  BY DEF Put
<1>1. b \in Seq(SmallSubId) /\ Len(b) \in Nat
  BY SMT DEF SmallOID
<1>2. /\ B \in SmallOID /\ p + 1 <= Len(B) /\ B[p + 1] = c /\ \A i \in 1 .. p : B[i] = b[i]
      /\ p < Len(b) /\ b[p + 1] = c => B = b
  <2>1. CASE p < Len(b)
    <3>1. p + 1 \in 1 .. Len(b)
      BY <1>1, <2>1, SMT
    <3>2. /\ B \in Seq(SmallSubId) /\ Len(B) = Len(b)
          /\ \A i \in 1 .. Len(b) : B[i] = IF i = p + 1 THEN c ELSE b[i]
      BY <1>0, <1>1, <2>1, <3>1, ExceptIs, SMT
    <3>3. \A i \in 1 .. p : B[i] = b[i]
      BY <1>1, <2>1, <3>2, SMT
    <3>4. b[p + 1] = c => B = b
      BY <1>1, <3>2, SeqSame
    <3> QED
      BY <2>1, <3>1, <3>2, <3>3, <3>4, SMT DEF SmallOID
  <2>2. CASE ~ (p < Len(b))
    <3>1. p = Len(b) /\ B = Append(b, c)
      BY <1>0, <1>1, <2>2, SMT
    <3> QED
      BY <1>1, <2>2, <3>1, SMT DEF SmallOID
  <2> QED
    BY <2>1, <2>2
<1> QED
  BY <1>0, <1>2
-----------------------------------------------------------------------------
\* The variables of the search while it runs.
LEMMA RunFacts ==
  ASSUME SearchInv
  PROVE  /\ TreeInv /\ view \in SmallOID /\ orig \in SmallOID /\ buf \in SmallOID
         /\ pos \in Nat /\ id_len \in Nat /\ stk \in Seq(Entry) /\ Len(buf) \in Nat /\ Len(stk) \in Nat
         /\ node \in Path \cup {NULL} /\ NULL \notin Path
<1>1. /\ TreeInv /\ view \in SmallOID /\ orig \in SmallOID /\ buf \in SmallOID
      /\ pos \in Nat /\ id_len \in Nat /\ stk \in Seq(Entry) /\ node \in Path \cup {NULL}
  BY DEF SearchInv, TypeOK, Entry
<1> QED
  BY <1>1, SmallFacts, NullIsNoNode, SMT

\* What has to be shown of a step that stays in the loop,
LEMMA ToNext ==
  ASSUME SearchInv, UNCHANGED <<treevars, args>>, TypeOK', pc' = "next", request = "GETNEXT", Started,
         NEW B, buf' = B, NEW P, pos' = P, NEW S, stk' = S, NEW N, node' = N, Shape(B, P, S),
         N = NULL => Behind(SubSeq(B, 1, P)),
         N # NULL => /\ At(B, P, N)
                     /\ immediate' => Immediate(Top(B, P, S), N, p_nbl')
                     /\ ~ immediate' => Exact(B, P, id_len', N, p_nbl')
  PROVE  SearchInv'
<1>1. TreeInv' /\ Started' /\ request' = request
  BY Frame DEF SearchInv, args
<1>2. Shape(B, P, S)' /\ (N = NULL => Behind(SubSeq(B, 1, P))')
  BY Frame
<1>3. N # NULL => At(B, P, N)' /\ (immediate' => Immediate(Top(B, P, S), N, p_nbl)')
                  /\ (~ immediate' => Exact(B, P, id_len, N, p_nbl)')
  <2>1. PICK e, l : e = p_nbl' /\ l = id_len'
    OBVIOUS
  <2>2. N # NULL => At(B, P, N)' /\ (immediate' => Immediate(Top(B, P, S), N, e)')
                    /\ (~ immediate' => Exact(B, P, l, N, e)')
    BY <2>1, Frame
  <2> QED
    BY <2>1, <2>2
<1>4. NextInv'
  BY <1>1, <1>2, <1>3 DEF NextInv
<1> QED
  BY <1>1, <1>4 DEF SearchInv, IdleInv, WalkInv, BackInv, GetFinds, NextIsClosest

\* of one that leaves it to backtrack,
LEMMA ToBack ==
  ASSUME SearchInv, UNCHANGED <<treevars, args>>, TypeOK', pc' = "backtrack", request = "GETNEXT", Started,
         NEW B, buf' = B, NEW P, pos' = P, NEW S, stk' = S, Shape(B, P, S),
         Behind(SubSeq(B, 1, P)) \/ (S = <<>> /\ Closest = EndResult)
  PROVE  SearchInv'
<1>1. TreeInv' /\ Started' /\ request' = request /\ Closest' = Closest /\ EndResult' = EndResult
  BY Frame DEF SearchInv, args
<1>2. Shape(B, P, S)' /\ (Behind(SubSeq(B, 1, P)) => Behind(SubSeq(B, 1, P))')
  BY Frame
<1>3. BackInv'
  BY <1>1, <1>2 DEF BackInv
<1> QED
  BY <1>1, <1>3 DEF SearchInv, IdleInv, WalkInv, NextInv, GetFinds, NextIsClosest

\* and of one that ends the call.
LEMMA ToDone ==
  ASSUME SearchInv, UNCHANGED <<treevars, args>>, NEW t, NEW o \in SmallOID, NEW e, Answer(t, o, e),
         t \in {"VALUE", "NO_SUCH_OBJ", "NO_SUCH_INST", "END_OF_MIB_VIEW"}, e \in {0, GEN_ERR},
         request = "GET" => t = SearchTag(KnownOids, Served, view, orig),
         request = "GETNEXT" => [tag |-> t, oid |-> o, err |-> e] = Closest
  PROVE  SearchInv'
<1>1. TreeInv' /\ request' = request /\ view' = view /\ orig' = orig /\ Closest' = Closest
      /\ type' = type /\ rows' = rows /\ sub_id' = sub_id
  BY Frame DEF SearchInv, args, treevars
<1>2. /\ pc' = "done" /\ tag' = t /\ answer' = o /\ err_stat' = e /\ buf' = <<>> /\ pos' = 0 /\ id_len' = 0
      /\ node' = Root /\ immediate' = FALSE /\ p_nbl' = NoEntry /\ stk' = <<>>
  BY DEF Answer
<1>3. TypeOK'
  <2>1. <<>> \in SmallOID /\ Root \in Path /\ <<>> \in Seq(Entry)
    BY SearchAssumption, SMT DEF SmallOID, Root
  <2> QED
    BY <1>1, <1>2, <2>1 DEF SearchInv, TypeOK, Entry
<1>4. GetFinds'
  <2>1. Instances' = Instances /\ Served' = Served
    BY <1>1, SMT DEF Instances, Served
  <2>2. KnownOids' = KnownOids
    BY <2>1 DEF KnownOids
  <2> QED
    BY <1>1, <1>2, <2>1, <2>2 DEF GetFinds
<1>5. NextIsClosest'
  BY <1>1, <1>2 DEF NextIsClosest, Result, Closest
<1> QED
  BY <1>1, <1>2, <1>3, <1>4, <1>5 DEF SearchInv, IdleInv, WalkInv, NextInv, BackInv

\* Going down to child i + 1.
LEMMA DescendStep ==
  ASSUME SearchInv, AtGroup, NEW i \in Nat, i < Len(sub_id[node]), Descend(i),
         ~ Barren(Top(buf, pos, stk)) /\ i + 1 < Len(sub_id[node]) =>
            ~ OidLess(Append(node, sub_id[node][i + 2]), Aim)
  PROVE  /\ buf' \in SmallOID /\ pos' = pos + 1 /\ node' = Append(node, sub_id[node][i + 1])
         /\ Node(node') /\ stk' \in Seq(Entry) /\ Shape(buf', pos', stk')
         /\ Top(buf', pos', stk') = Top(buf, pos, stk) /\ SubSeq(buf', 1, pos') = node'
         /\ pos < Len(buf) /\ buf[pos + 1] = sub_id[node][i + 1] => buf' = buf
<1>0. /\ TreeInv /\ buf \in SmallOID /\ pos \in Nat /\ stk \in Seq(Entry)
      /\ Len(stk) \in Nat /\ Len(buf) \in Nat /\ NULL \notin Path
  BY RunFacts
<1>1. /\ node \in Path /\ type[node] = "group" /\ node = SubSeq(buf, 1, pos)
      /\ Shape(buf, pos, stk) /\ pos <= Len(buf) /\ Len(stk) <= pos
  BY <1>0, RunFacts DEF AtGroup, SearchInv, NextInv, At, Node, Shape
<1> DEFINE n == Len(sub_id[node])
           c == sub_id[node][i + 1]
           e == IF i + 1 >= n THEN NoChild ELSE [node |-> node, n_idx |-> i + 1]
<1>2. n \in Nat /\ n # 0 /\ i + 1 \in 1 .. n
  BY <1>0, <1>1, PathFacts, SmallFacts, SMT
<1>3. c \in SmallSubId /\ Node(Append(node, c))
  BY <1>0, <1>1, <1>2, ChildIs
<1>4. Len(stk) < MIB_OID_MAX_LEN
  <2>1. Len(node) = pos
    <3>1. pos \in 0 .. Len(buf)
      BY <1>0, <1>1, SMT
    <3> QED
      BY <1>0, <1>1, <3>1, PrefixIs
  <2>2. Len(node) < MIB_OID_MAX_LEN
    BY <1>0, <1>1 DEF TreeInv
  <2> QED
    BY <1>0, <1>1, <2>1, <2>2, SearchAssumption, SMT
<1>5. stk' = Append(stk, e) /\ pos' = pos + 1 /\ node' = Append(node, c)
      /\ buf' = IF pos < Len(buf) THEN [buf EXCEPT ![pos + 1] = c] ELSE Append(buf, c)
  BY <1>2, <1>4 DEF Descend, nbl_push, sub_id_cnt, Child, NoChild
<1> HIDE DEF c
<1>6. PICK B : B = buf'
  OBVIOUS
<1>7. /\ B \in SmallOID /\ pos + 1 <= Len(B) /\ B[pos + 1] = c /\ \A k \in 1 .. pos : B[k] = buf[k]
      /\ pos < Len(buf) /\ buf[pos + 1] = c => B = buf
  <2>1. B = Put(buf, pos, c)
    BY <1>5, <1>6 DEF Put
  <2>2. buf \in SmallOID /\ pos \in Nat /\ pos <= Len(buf) /\ c \in SmallSubId
    BY <1>0, <1>1, <1>3
  <2>3. /\ Put(buf, pos, c) \in SmallOID /\ pos + 1 <= Len(Put(buf, pos, c)) /\ Put(buf, pos, c)[pos + 1] = c
        /\ \A k \in 1 .. pos : Put(buf, pos, c)[k] = buf[k]
        /\ pos < Len(buf) /\ buf[pos + 1] = c => Put(buf, pos, c) = buf
    BY <2>2, Written, SMT
  <2> QED
    BY <2>1, <2>3
<1>8. e \in Entry
  BY <1>1, <1>2, SMT DEF Entry, NoChild
<1>9. Level(Top(buf, pos, stk), node, c, e)
  <2>1. CASE i + 1 >= n
    <3>1. i + 1 = n /\ e = NoChild
      BY <1>2, <2>1, SMT
    <3>2. ASSUME NEW d, Contains(sub_id[node], d) PROVE d <= c
      <4>1. PICK j \in 1 .. n : d = sub_id[node][j]
        BY <3>2 DEF Contains
      <4>2. d \in SmallSubId /\ (j < i + 1 => d < c) /\ (j = i + 1 => d = c)
        BY <1>0, <1>1, <1>2, <4>1, ChildIs DEF c
      <4>3. j < i + 1 \/ j = i + 1
        BY <1>2, <3>1, SMT
      <4> QED
        BY <1>3, <4>2, <4>3, HalfAssumption, SMT DEF SmallSubId
    <3> QED
      BY <1>1, <3>1, <3>2 DEF Level
  <2>2. CASE ~ (i + 1 >= n)
    <3>1. i + 1 < n /\ i + 1 \in 1 .. (n - 1) /\ (i + 1) + 1 = i + 2
      BY <1>2, <2>2, SMT
    <3>2. e.node = node /\ e.n_idx = i + 1
      BY <2>2
    <3>3. ~ Barren(Top(buf, pos, stk)) => ~ OidLess(Append(node, sub_id[node][e.n_idx + 1]), Aim)
      BY <3>1, <3>2
    <3> QED
      BY <1>1, <3>1, <3>2, <3>3 DEF Level, c
  <2> QED
    BY <2>1, <2>2
<1> HIDE DEF e
<1>10. /\ Shape(B, pos + 1, Append(stk, e)) /\ Top(B, pos + 1, Append(stk, e)) = Top(buf, pos, stk)
       /\ SubSeq(B, 1, pos + 1) = Append(node, c)
  <2>1. Level(Top(buf, pos, stk), SubSeq(buf, 1, pos), B[pos + 1], e)
    BY <1>1, <1>7, <1>9
  <2>2. /\ Shape(B, pos + 1, Append(stk, e)) /\ Top(B, pos + 1, Append(stk, e)) = Top(buf, pos, stk)
        /\ SubSeq(B, 1, pos + 1) = Append(SubSeq(buf, 1, pos), B[pos + 1])
    BY <1>0, <1>1, <1>7, <1>8, <2>1, PushShape, SMT
  <2> QED
    BY <1>1, <1>7, <2>2
<1>11. Append(stk, e) \in Seq(Entry)
  BY <1>0, <1>8, SMT
<1> QED
  BY <1>3, <1>5, <1>6, <1>7, <1>10, <1>11 DEF c

\* The children of a group are in the order of their sub-identifiers.
LEMMA SiblingOrder ==
  ASSUME TreeInv, NEW g \in Path, NEW i \in 1 .. Len(sub_id[g]), NEW j \in 1 .. Len(sub_id[g]), i < j,
         NEW a \in SmallOID, ~ OidLess(Append(g, sub_id[g][i]), a)
  PROVE  ~ OidLess(Append(g, sub_id[g][j]), a)
<1>1. PICK c \in SmallSubId, d \in SmallSubId : c = sub_id[g][i] /\ d = sub_id[g][j] /\ c < d
  BY ChildIs
<1>2. g \in SmallOID
  BY PathFacts
<1>3. /\ Append(g, c) \in SmallOID /\ Append(g, d) \in SmallOID /\ Covers(g, Append(g, c))
      /\ Len(Append(g, c)) > Len(g) /\ Append(g, c)[Len(g) + 1] = c
  <2>1. Len(g) \in Nat
    BY <1>2, SmallFacts
  <2>2. /\ Append(g, c) \in SmallOID /\ Append(g, d) \in SmallOID /\ Covers(g, Append(g, c))
        /\ Len(Append(g, c)) = Len(g) + 1 /\ Append(g, c)[Len(g) + 1] = c
    BY <1>2, ChildFacts
  <2> QED
    BY <2>1, <2>2, SMT
<1>4. OidLess(Append(g, c), Append(g, d))
  BY <1>1, <1>2, <1>3, ChildOrder
<1> QED
  BY <1>1, <1>3, <1>4, OidLessTransitive

\* At a node that is not before the oid looked for, with all that is wanted not
\* before the node, the first variable will do.
LEMMA ImmediateAt ==
  ASSUME TreeInv, view \in SmallOID, orig \in SmallOID, NEW t, NEW h, Node(h),
         \A x \in Wanted : ~ OidLess(x, h), ~ Barren(t) => ~ OidLess(h, Aim)
  PROVE  Immediate(t, h, NoEntry)
<1>1. h \in Path /\ h \in SmallOID /\ Aim \in SmallOID /\ Len(sub_id[h]) \in Nat /\ sub_id[h] \in SmallOID
  BY PathFacts, AimFacts, SmallFacts DEF Node
<1>2. ASSUME ~ OidLess(h, Aim), sub_id[h] # <<>> PROVE ~ OidLess(First(h, NoEntry), Aim)
  <2>1. 1 \in 1 .. Len(sub_id[h])
    BY <1>1, <1>2, SMT DEF SmallOID
  <2>2. PICK c \in SmallSubId : c = sub_id[h][1]
    BY <1>1, <2>1, ChildIs
  <2>3. First(h, NoEntry) = Append(h, c)
    BY <2>2, SMT DEF First
  <2>4. Append(h, c) \in SmallOID /\ OidLess(h, Append(h, c))
    BY <1>1, ChildFacts
  <2> QED
    BY <1>1, <1>2, <2>3, <2>4, OidLessTransitive
<1> QED
  BY <1>2 DEF Immediate, Bound

\* The search in the immediate state at a group.
LEMMA ImmediateStep ==
  ASSUME SearchInv, NextImmediate
  PROVE  SearchInv'
<1>0. /\ TreeInv /\ view \in SmallOID /\ orig \in SmallOID /\ buf \in SmallOID /\ Aim \in SmallOID
      /\ pos \in Nat /\ id_len \in Nat /\ stk \in Seq(Entry) /\ Len(buf) \in Nat /\ NULL \notin Path
  BY RunFacts, AimFacts
<1> DEFINE i == IF p_nbl # NoEntry THEN p_nbl ELSE 0
           t == Top(buf, pos, stk)
<1>1. /\ AtGroup /\ immediate /\ Descend(i) /\ p_nbl' = NoEntry /\ immediate' = immediate /\ pc' = "next"
      /\ UNCHANGED <<treevars, args>> /\ UNCHANGED <<id_len, tag, answer, err_stat>>
  BY DEF NextImmediate, AtGroup
<1>2. /\ node \in Path /\ type[node] = "group" /\ node = SubSeq(buf, 1, pos) /\ node \in SmallOID
      /\ request = "GETNEXT" /\ Started /\ Shape(buf, pos, stk) /\ Immediate(t, node, p_nbl)
      /\ pos <= Len(buf) /\ sub_id[node] \in SmallOID /\ Len(sub_id[node]) \in Nat
  <2>1. /\ node \in Path /\ type[node] = "group" /\ node = SubSeq(buf, 1, pos)
        /\ request = "GETNEXT" /\ Started /\ Shape(buf, pos, stk) /\ Immediate(t, node, p_nbl)
    BY <1>0, <1>1, RunFacts DEF AtGroup, SearchInv, NextInv, At
  <2> QED
    BY <1>0, <2>1, PathFacts, SmallFacts DEF Shape
<1>3. p_nbl = NoEntry \/ p_nbl \in 0 .. (Len(sub_id[node]) - 1)
  BY <1>2 DEF Immediate
<1>4. TypeOK' <=> buf' \in SmallOID /\ pos' \in Nat /\ node' \in Path \cup {NULL} /\ stk' \in Seq(Entry)
  <2>1. TypeOK
    BY DEF SearchInv
  <2> QED
    BY <1>1, <2>1 DEF TypeOK, treevars, args, Entry
<1>5. CASE sub_id[node] = <<>>
  <2>1. p_nbl = NoEntry /\ i = 0 /\ Len(sub_id[node]) = 0
    BY <1>3, <1>5, SMT
  <2>2. /\ stk' = nbl_push(NoChild) /\ pos' = pos + 1 /\ node' = NULL
        /\ buf' = Put(buf, pos, 0)
    BY <1>1, <2>1, SMT DEF Descend, sub_id_cnt, Put, NoChild
  <2>3. stk' = Append(stk, NoChild)
    <3>1. Len(node) = pos
      <4>1. pos \in 0 .. Len(buf)
        BY <1>0, <1>2, SMT
      <4> QED
        BY <1>0, <1>2, <4>1, PrefixIs
    <3>2. Len(node) < MIB_OID_MAX_LEN
      BY <1>0, <1>2 DEF TreeInv
    <3>3. Len(stk) <= pos
      BY <1>2 DEF Shape
    <3>4. Len(stk) < MIB_OID_MAX_LEN
      BY <1>0, <3>1, <3>2, <3>3, SearchAssumption, SMT
    <3> QED
      BY <2>2, <3>4 DEF nbl_push
  <2>4. 0 \in SmallSubId
    BY HalfAssumption, SMT DEF SmallSubId
  <2>5. PICK B \in SmallOID : B = buf' /\ pos + 1 <= Len(B) /\ B[pos + 1] = 0 /\ \A k \in 1 .. pos : B[k] = buf[k]
    <3>1. /\ Put(buf, pos, 0) \in SmallOID /\ pos + 1 <= Len(Put(buf, pos, 0)) /\ Put(buf, pos, 0)[pos + 1] = 0
          /\ \A k \in 1 .. pos : Put(buf, pos, 0)[k] = buf[k]
      BY <1>0, <1>2, <2>4, Written, SMT
    <3> QED
      BY <2>2, <3>1
  <2>6. Level(t, SubSeq(buf, 1, pos), B[pos + 1], NoChild)
    <3>1. \A d : ~ Contains(sub_id[node], d)
      BY <2>1, SMT DEF Contains
    <3> QED
      BY <1>2, <3>1 DEF Level
  <2>7. NoChild \in Entry
    BY DEF NoChild, Entry
  <2>8. /\ Shape(B, pos + 1, Append(stk, NoChild)) /\ Top(B, pos + 1, Append(stk, NoChild)) = t
        /\ SubSeq(B, 1, pos + 1) = Append(node, 0)
    <3>1. /\ Shape(B, pos + 1, Append(stk, NoChild)) /\ Top(B, pos + 1, Append(stk, NoChild)) = t
          /\ SubSeq(B, 1, pos + 1) = Append(SubSeq(buf, 1, pos), B[pos + 1])
      <4> HIDE DEF NoChild
      <4> QED
        BY <1>0, <1>2, <2>5, <2>6, <2>7, PushShape, SMT
    <3> QED
      BY <1>2, <2>5, <3>1
  <2>9. Behind(Append(node, 0))
    <3> SUFFICES ASSUME NEW x \in Wanted PROVE After(Append(node, 0), x)
      BY DEF Behind
    <3>1. x \in Served /\ x \in SmallOID /\ ~ OidLess(x, node)
      <4>1. ~ OidLess(x, node)
        BY <1>2, <2>1 DEF Immediate, Bound
      <4> QED
        BY <1>0, <1>2, <4>1, WantedIs, ServedFacts
    <3>2. ~ Covers(node, x)
      <4>1. \A d : ~ Contains(sub_id[node], d)
        BY <2>1, SMT DEF Contains
      <4> QED
        BY <1>0, <1>2, <3>1, <4>1, ServedChild
    <3>3. After(node, x)
      BY <1>2, <3>1, <3>2, NotBefore
    <3> QED
      BY <1>2, <2>4, <3>1, <3>3, ChildOrder
  <2>10. TypeOK'
    <3>1. Append(stk, NoChild) \in Seq(Entry)
      BY <1>0, <2>7, SMT
    <3> QED
      BY <1>0, <1>4, <2>2, <2>3, <2>5, <3>1, SMT
  <2> HIDE DEF NoChild
  <2> QED
    BY <1>1, <1>2, <2>2, <2>3, <2>5, <2>8, <2>9, <2>10, ToNext
<1>6. CASE sub_id[node] # <<>>
  <2>1. i \in Nat /\ i < Len(sub_id[node]) /\ i + 1 \in 1 .. Len(sub_id[node])
    BY <1>2, <1>3, <1>6, SMT DEF SmallOID
  <2>2. PICK h : h = Append(node, sub_id[node][i + 1])
    OBVIOUS
  <2>3. h = First(node, p_nbl) /\ Node(h) /\ (~ Barren(t) => ~ OidLess(h, Aim))
    <3>1. h = First(node, p_nbl)
      BY <1>3, <2>2 DEF First
    <3>2. Node(h)
      BY <1>0, <1>2, <2>1, <2>2, ChildIs
    <3>3. ~ Barren(t) => ~ OidLess(h, Aim)
      BY <1>2, <1>6, <3>1 DEF Immediate
    <3> QED
      BY <3>1, <3>2, <3>3
  <2> HIDE DEF i
  <2>4. ASSUME ~ Barren(t), i + 1 < Len(sub_id[node])
        PROVE  ~ OidLess(Append(node, sub_id[node][i + 2]), Aim)
    <3>1. PICK j \in 1 .. Len(sub_id[node]) : j = i + 2 /\ i + 1 < j
      BY <1>2, <2>1, <2>4, SMT
    <3> QED
      BY <1>0, <1>2, <2>1, <2>2, <2>3, <2>4, <3>1, SiblingOrder, SMT
  <2>5. /\ buf' \in SmallOID /\ pos' = pos + 1 /\ node' = h
        /\ stk' \in Seq(Entry) /\ Shape(buf', pos', stk') /\ Top(buf', pos', stk') = t
        /\ SubSeq(buf', 1, pos') = h
    BY <1>1, <2>1, <2>2, <2>4, DescendStep
  <2>6. ASSUME NEW x \in Wanted PROVE ~ OidLess(x, h)
    <3>1. CASE p_nbl # NoEntry
      BY <1>2, <2>3, <3>1 DEF Immediate, Bound
    <3>2. CASE p_nbl = NoEntry
      <4>1. ~ OidLess(x, node)
        BY <1>2, <3>2 DEF Immediate, Bound
      <4>2. x \in Served /\ x \in SmallOID
        BY <1>0, <1>2, WantedIs, ServedFacts
      <4>3. Covers(node, x) \/ After(node, x)
        BY <1>2, <4>1, <4>2, NotBefore
      <4>4. i + 1 = 1 /\ 1 \in 1 .. Len(sub_id[node]) /\ 1 .. (1 - 1) = {}
        BY <2>1, <3>2, SMT DEF i
      <4> QED
        BY <1>0, <1>2, <2>2, <4>2, <4>3, <4>4, FromChild
    <3> QED
      BY <3>1, <3>2
  <2>7. Immediate(t, h, NoEntry)
    BY <1>0, <2>3, <2>6, ImmediateAt
  <2>8. At(buf', pos', h)
    BY <2>3, <2>5 DEF At
  <2>9. TypeOK'
    BY <1>0, <1>4, <2>3, <2>5, SMT DEF Node
  <2>10. h # NULL
    BY <1>0, <2>3 DEF Node
  <2> QED
    BY <1>1, <1>2, <2>5, <2>7, <2>8, <2>9, <2>10, ToNext
<1> QED
  BY <1>5, <1>6

\* At a group on the way to the oid looked for: the position of its next
\* sub-identifier among the children.
LEMMA ExactFacts ==
  ASSUME SearchInv, AtGroup, ~ immediate
  PROVE  /\ node \in Path /\ node = SubSeq(buf, 1, pos) /\ Len(node) = pos /\ node \in SmallOID
         /\ request = "GETNEXT" /\ Started /\ Shape(buf, pos, stk)
         /\ buf = Aim /\ Aim \in SmallOID /\ id_len = Len(Aim) - pos /\ pos < Len(Aim) /\ p_nbl = NoEntry
         /\ Covers(node, Aim) /\ Aim[pos + 1] \in SmallSubId /\ Len(sub_id[node]) \in Nat
         /\ Search \in Int
         /\ Search >= 0 => /\ Index = Search /\ Index + 1 \in 1 .. Len(sub_id[node])
                           /\ sub_id[node][Index + 1] = Aim[pos + 1]
         /\ Search < 0 => /\ Index \in 0 .. Len(sub_id[node])
                          /\ \A j \in 1 .. Index : sub_id[node][j] < Aim[pos + 1]
                          /\ \A j \in (Index + 1) .. Len(sub_id[node]) : sub_id[node][j] > Aim[pos + 1]
<1>0. /\ TreeInv /\ view \in SmallOID /\ orig \in SmallOID /\ pos \in Nat /\ NULL \notin Path
      /\ Aim \in SmallOID /\ Len(Aim) \in Nat
  BY RunFacts, AimFacts, SmallFacts
<1>1. /\ node \in Path /\ node = SubSeq(buf, 1, pos) /\ type[node] = "group"
      /\ request = "GETNEXT" /\ Started /\ Shape(buf, pos, stk)
      /\ buf = Aim /\ id_len = Len(Aim) - pos /\ id_len > 0 /\ p_nbl = NoEntry
  BY <1>0, RunFacts DEF AtGroup, SearchInv, NextInv, At, Exact
<1>2. pos \in 0 .. Len(Aim) /\ pos < Len(Aim)
  BY <1>0, <1>1, SMT
<1>3. Len(node) = pos /\ Covers(node, Aim) /\ Aim[pos + 1] \in SmallSubId
  BY <1>0, <1>1, <1>2, PrefixIs
<1>4. /\ node \in SmallOID /\ sub_id[node] \in OID /\ StrictlySorted(sub_id[node]) /\ Len(sub_id[node]) \in Nat
  BY <1>0, <1>1, PathFacts, SmallFacts DEF TreeInv
<1>5. Aim[pos + 1] \in SubId /\ sub_id[node] \in Seq(SubId)
  BY <1>3, <1>4, HalfAssumption, SMT DEF SmallSubId, SubId, Word, OID
<1>6. PICK r : r = oid_binary_search(sub_id[node], Aim[pos + 1])
  OBVIOUS
<1>7. /\ r \in Int
      /\ r >= 0 => r + 1 \in 1 .. Len(sub_id[node]) /\ sub_id[node][r + 1] = Aim[pos + 1]
      /\ r < 0 => /\ -r - 1 \in 0 .. Len(sub_id[node])
                  /\ \A j \in 1 .. (-r - 1) : sub_id[node][j] < Aim[pos + 1]
                  /\ \A j \in (-r) .. Len(sub_id[node]) : sub_id[node][j] > Aim[pos + 1]
  BY <1>4, <1>5, <1>6, SearchFacts
<1>8. Search = r
  BY <1>1, <1>6, SMT DEF Search
<1>9. (r >= 0 => Index = r) /\ (r < 0 => Index = -r - 1 /\ Index + 1 = -r)
  BY <1>7, <1>8, SMT DEF Index
<1>10. /\ r >= 0 => /\ Index + 1 \in 1 .. Len(sub_id[node]) /\ sub_id[node][Index + 1] = Aim[pos + 1]
       /\ r < 0 => /\ Index \in 0 .. Len(sub_id[node])
                   /\ \A j \in 1 .. Index : sub_id[node][j] < Aim[pos + 1]
                   /\ \A j \in (Index + 1) .. Len(sub_id[node]) : sub_id[node][j] > Aim[pos + 1]
  BY <1>7, <1>9
<1> QED
  BY <1>0, <1>1, <1>2, <1>3, <1>4, <1>7, <1>8, <1>9, <1>10

\* A child with a greater sub-identifier than the oid looked for is after it.
LEMMA ChildAfterAim ==
  ASSUME TreeInv, NEW a \in SmallOID, NEW g \in Path, Covers(g, a), Len(a) > Len(g),
         NEW j \in 1 .. Len(sub_id[g]), sub_id[g][j] > a[Len(g) + 1]
  PROVE  ~ OidLess(Append(g, sub_id[g][j]), a)
<1>1. PICK c \in SmallSubId : c = sub_id[g][j]
  BY ChildIs
<1>2. g \in SmallOID /\ Len(g) \in Nat /\ a[Len(g) + 1] \in Int /\ c \in Int
  <2>1. g \in SmallOID /\ Len(g) \in Nat
    BY PathFacts
  <2>2. Len(a) \in Nat /\ Len(g) + 1 \in 1 .. Len(a)
    BY <2>1, SmallFacts, SMT
  <2> QED
    BY <2>1, <2>2, SmallFacts, HalfAssumption, SMT DEF SmallSubId
<1>3. a[Len(g) + 1] < c
  BY <1>1, <1>2
<1>4. OidLess(a, Append(g, c)) /\ Append(g, c) \in SmallOID
  BY <1>2, <1>3, ChildOrder, ChildFacts
<1> QED
  BY <1>1, <1>4, OidLessTotal

\* Nothing left below the group.
LEMMA PastStep ==
  ASSUME SearchInv, NextPast
  PROVE  SearchInv'
<1>0. TreeInv /\ view \in SmallOID /\ orig \in SmallOID /\ AtGroup /\ ~ immediate /\ type[node] = "group"
  BY RunFacts DEF NextPast, AtGroup
<1>1. /\ Search < 0 /\ Index = Len(sub_id[node]) /\ pc' = "backtrack" /\ immediate' = TRUE
      /\ UNCHANGED <<treevars, args>> /\ buf' = buf /\ pos' = pos /\ stk' = stk
      /\ UNCHANGED <<id_len, node, p_nbl, tag, answer, err_stat>>
  BY DEF NextPast, sub_id_cnt
<1>2. /\ node \in Path /\ node = SubSeq(buf, 1, pos) /\ Len(node) = pos /\ node \in SmallOID
      /\ request = "GETNEXT" /\ Started /\ Shape(buf, pos, stk) /\ Covers(node, Aim) /\ pos < Len(Aim)
      /\ \A j \in 1 .. Len(sub_id[node]) : sub_id[node][j] < Aim[pos + 1]
  BY <1>0, <1>1, ExactFacts
<1>3. Behind(node)
  <2> SUFFICES ASSUME NEW x \in Wanted PROVE After(node, x)
    BY DEF Behind
  <2>1. x \in Served
    BY <1>0, <1>2, WantedIs, SMT
  <2>2. Len(Aim) > Len(node)
    BY <1>2, RunFacts, AimFacts, SmallFacts, SMT
  <2>3. /\ Covers(node, x) \/ After(node, x)
        /\ Covers(node, x) => /\ x[pos + 1] \in Int /\ Aim[pos + 1] \in SmallSubId
                              /\ x[pos + 1] >= Aim[pos + 1]
    BY <1>0, <1>2, <2>2, FromAim
  <2>4. ASSUME Covers(node, x) PROVE FALSE
    <3>1. Contains(sub_id[node], x[pos + 1])
      BY <1>0, <1>2, <2>1, <2>4, ServedChild
    <3>2. x[pos + 1] < Aim[pos + 1]
      BY <1>2, <3>1 DEF Contains
    <3>3. Aim[pos + 1] \in Int
      BY <2>3, <2>4, HalfAssumption, SMT DEF SmallSubId
    <3> QED
      BY <2>3, <2>4, <3>2, <3>3, SMT
  <2> QED
    BY <2>3, <2>4
<1>4. TypeOK'
  <2>1. TypeOK
    BY DEF SearchInv
  <2> QED
    BY <1>1, <2>1 DEF TypeOK, treevars, args
<1> QED
  BY <1>1, <1>2, <1>3, <1>4, ToBack

\* All children of the group are after the oid looked for.
LEMMA AllStep ==
  ASSUME SearchInv, NextAll
  PROVE  SearchInv'
<1>0. TreeInv /\ view \in SmallOID /\ orig \in SmallOID /\ AtGroup /\ ~ immediate /\ type[node] = "group"
      /\ NULL \notin Path
  BY RunFacts DEF NextAll, AtGroup
<1>1. /\ Search < 0 /\ Index # Len(sub_id[node]) /\ Index = 0 /\ pc' = "next" /\ immediate' = TRUE
      /\ UNCHANGED <<treevars, args>> /\ buf' = buf /\ pos' = pos /\ stk' = stk /\ node' = node
      /\ p_nbl' = p_nbl /\ UNCHANGED <<id_len, tag, answer, err_stat>>
  BY <1>0 DEF NextAll, sub_id_cnt, AtGroup
<1>2. /\ node \in Path /\ node = SubSeq(buf, 1, pos) /\ Len(node) = pos /\ node \in SmallOID
      /\ request = "GETNEXT" /\ Started /\ Shape(buf, pos, stk) /\ Covers(node, Aim) /\ pos < Len(Aim)
      /\ Aim \in SmallOID /\ p_nbl = NoEntry
      /\ 1 \in 1 .. Len(sub_id[node]) /\ sub_id[node][1] > Aim[pos + 1]
  <2>1. /\ node \in Path /\ node = SubSeq(buf, 1, pos) /\ Len(node) = pos /\ node \in SmallOID
        /\ request = "GETNEXT" /\ Started /\ Shape(buf, pos, stk) /\ Covers(node, Aim) /\ pos < Len(Aim)
        /\ Aim \in SmallOID /\ p_nbl = NoEntry /\ Len(sub_id[node]) \in Nat
        /\ \A j \in (0 + 1) .. Len(sub_id[node]) : sub_id[node][j] > Aim[pos + 1]
    BY <1>0, <1>1, ExactFacts
  <2>2. 1 \in 1 .. Len(sub_id[node]) /\ 1 \in (0 + 1) .. Len(sub_id[node])
    BY <1>1, <2>1, SMT
  <2> QED
    BY <2>1, <2>2
<1>3. Immediate(Top(buf, pos, stk), node, NoEntry)
  <2>1. ASSUME NEW x \in Wanted PROVE ~ OidLess(x, node)
    <3>1. x \in SmallOID
      BY <1>0, <1>2, WantedIs, ServedFacts
    <3>2. Covers(node, x) \/ After(node, x)
      BY <1>0, <1>2, FromAim
    <3> QED
      BY <1>2, <3>1, <3>2, NotBefore
  <2>2. Len(Aim) > Len(node)
    BY <1>2, RunFacts, AimFacts, SmallFacts
  <2>3. ~ OidLess(Append(node, sub_id[node][1]), Aim)
    BY <1>0, <1>2, <2>2, ChildAfterAim
  <2>4. First(node, NoEntry) = Append(node, sub_id[node][1])
    BY SMT DEF First
  <2> QED
    BY <1>0, <2>1, <2>3, <2>4 DEF Immediate, Bound
<1>4. At(buf, pos, node)
  BY <1>0, <1>2 DEF At, Node
<1>5. TypeOK'
  <2>1. TypeOK
    BY DEF SearchInv
  <2> QED
    BY <1>1, <2>1 DEF TypeOK, treevars, args
<1>6. node # NULL
  BY <1>0, <1>2
<1> QED
  BY <1>1, <1>2, <1>3, <1>4, <1>5, <1>6, ToNext

\* Down to the child that matches, or to the next one.
LEMMA MatchStep ==
  ASSUME SearchInv, NextMatch
  PROVE  SearchInv'
<1>0. /\ TreeInv /\ view \in SmallOID /\ orig \in SmallOID /\ AtGroup /\ ~ immediate /\ type[node] = "group"
      /\ NULL \notin Path /\ pos \in Nat /\ id_len \in Nat
  BY RunFacts DEF NextMatch, AtGroup
<1> DEFINE n == Len(sub_id[node])
           t == Top(buf, pos, stk)
           h == Append(node, sub_id[node][Index + 1])
<1>1. /\ Search < 0 => Index # n /\ Index # 0
      /\ Descend(Index) /\ id_len' = id_len - 1 /\ pc' = "next" /\ p_nbl' = p_nbl
      /\ immediate' = (Search < 0 \/ (id_len = 1 /\ type[h] = "group"))
      /\ UNCHANGED <<treevars, args>> /\ UNCHANGED <<tag, answer, err_stat>>
  BY <1>0 DEF NextMatch, sub_id_cnt, AtGroup, Child
<1>2. immediate' <=> Search < 0 \/ (id_len = 1 /\ type[h] = "group")
  BY <1>1
<1>3. /\ node \in Path /\ node = SubSeq(buf, 1, pos) /\ Len(node) = pos /\ node \in SmallOID
      /\ request = "GETNEXT" /\ Started /\ Shape(buf, pos, stk)
      /\ buf = Aim /\ Aim \in SmallOID /\ id_len = Len(Aim) - pos /\ pos < Len(Aim) /\ p_nbl = NoEntry
      /\ Covers(node, Aim) /\ Aim[pos + 1] \in SmallSubId /\ n \in Nat /\ Search \in Int
  BY <1>0, ExactFacts
<1>4. Search >= 0 => Index + 1 \in 1 .. n /\ Index \in Int /\ sub_id[node][Index + 1] = Aim[pos + 1]
  BY <1>0, <1>3, ExactFacts
<1>5. Search < 0 => /\ Index \in 0 .. n
                    /\ \A j \in 1 .. Index : sub_id[node][j] < Aim[pos + 1]
                    /\ \A j \in (Index + 1) .. n : sub_id[node][j] > Aim[pos + 1]
  BY <1>0, ExactFacts
<1>6. Index \in Nat /\ Index < n /\ Index + 1 \in 1 .. n
  BY <1>1, <1>3, <1>4, <1>5, SMT
<1>7. Len(Aim) > Len(node) /\ Aim[Len(node) + 1] = Aim[pos + 1] /\ Len(Aim) \in Nat
  BY <1>0, <1>3, SmallFacts
<1>8. ASSUME Index + 1 < n PROVE ~ OidLess(Append(node, sub_id[node][Index + 2]), Aim)
  <2>1. PICK j \in 1 .. n : j = Index + 2 /\ Index + 1 < j /\ j \in (Index + 1) .. n
    BY <1>3, <1>6, <1>8, SMT
  <2>2. sub_id[node][j] > Aim[pos + 1]
    <3>1. CASE Search < 0
      BY <1>5, <2>1, <3>1
    <3>2. CASE Search >= 0
      <4>1. Aim[pos + 1] < sub_id[node][j] /\ sub_id[node][j] \in SmallSubId
        BY <1>0, <1>3, <1>4, <1>6, <2>1, <3>2, ChildIs
      <4> QED
        BY <1>3, <4>1, HalfAssumption DEF SmallSubId
    <3> QED
      BY <1>3, <3>1, <3>2, SMT
  <2> QED
    BY <1>0, <1>3, <1>7, <2>1, <2>2, ChildAfterAim
<1>9. /\ buf' \in SmallOID /\ pos' = pos + 1 /\ node' = h /\ Node(h) /\ stk' \in Seq(Entry)
      /\ Shape(buf', pos', stk') /\ Top(buf', pos', stk') = t /\ SubSeq(buf', 1, pos') = h
      /\ buf[pos + 1] = sub_id[node][Index + 1] => buf' = buf
  BY <1>0, <1>1, <1>3, <1>6, <1>8, DescendStep
<1> HIDE DEF h
<1>10. h # NULL /\ h \in Path /\ h \in SmallOID
  BY <1>0, <1>9, PathFacts DEF Node
<1>11. immediate' => Immediate(t, h, NoEntry)
  <2>1. CASE Search < 0
    <3>1. ~ OidLess(h, Aim)
      <4>1. Index + 1 \in (Index + 1) .. n
        BY <1>3, <1>6, SMT
      <4> QED
        BY <1>0, <1>3, <1>5, <1>6, <1>7, <2>1, <4>1, ChildAfterAim DEF h
    <3>2. ASSUME NEW x \in Wanted PROVE ~ OidLess(x, h)
      <4>1. x \in Served
        BY <1>0, <1>3, WantedIs
      <4>2. /\ Covers(node, x) \/ After(node, x)
            /\ Covers(node, x) => x[pos + 1] \in Int /\ x[pos + 1] >= Aim[pos + 1]
        BY <1>0, <1>3, <1>7, FromAim
      <4>3. ASSUME Covers(node, x), NEW j \in 1 .. Index PROVE sub_id[node][j] # x[pos + 1]
        <5>1. sub_id[node][j] < Aim[pos + 1]
          BY <1>5, <2>1
        <5>2. Aim[pos + 1] \in Int
          BY <1>3, HalfAssumption, SMT DEF SmallSubId
        <5> QED
          BY <4>2, <4>3, <5>1, <5>2, SMT
      <4>4. PICK i \in 1 .. n : i = Index + 1 /\ i - 1 = Index /\ h = Append(node, sub_id[node][i])
        BY <1>6, SMT DEF h
      <4>5. Covers(node, x) => \A j \in 1 .. (i - 1) : sub_id[node][j] # x[Len(node) + 1]
        BY <1>3, <4>3, <4>4
      <4>6. Covers(node, x) \/ After(node, x)
        BY <4>2
      <4>7. ~ OidLess(x, Append(node, sub_id[node][i]))
        BY <1>0, <1>3, <4>1, <4>5, <4>6, FromChild
      <4> QED
        BY <4>4, <4>7
    <3> QED
      BY <1>0, <1>9, <3>1, <3>2, ImmediateAt
  <2>2. CASE Search >= 0 /\ id_len = 1
    <3>1. h = Aim
      <4>1. buf' = Aim /\ pos' = Len(Aim)
        BY <1>3, <1>4, <1>7, <1>9, <2>2, <1>0, SMT
      <4>2. Len(Aim) \in 0 .. Len(Aim)
        BY <1>7, SMT
      <4> QED
        BY <1>3, <1>9, <4>1, <4>2, PrefixIs
    <3>2. ASSUME NEW x \in Wanted PROVE ~ OidLess(x, h)
      <4>1. OidLess(Aim, x) /\ x \in SmallOID
        BY <1>0, <1>3, WantedIs, ServedFacts
      <4> QED
        BY <1>3, <3>1, <4>1, OidLessTotal
    <3>3. ~ OidLess(h, Aim)
      BY <1>3, <3>1, OidLessTotal
    <3> QED
      BY <1>0, <1>9, <3>2, <3>3, ImmediateAt
  <2> QED
    BY <1>3, <1>2, <2>1, <2>2, SMT
<1>12. ~ immediate' => Exact(buf', pos', id_len', h, NoEntry)
  <2> SUFFICES ASSUME ~ immediate' PROVE Exact(buf', pos', id_len', h, NoEntry)
    OBVIOUS
  <2>1. Search >= 0 /\ (type[h] = "group" => id_len # 1)
    BY <1>3, <1>2, SMT
  <2>2. buf' = Aim
    BY <1>3, <1>4, <1>9, <2>1
  <2>3. id_len' = Len(Aim) - pos' /\ (type[h] = "group" => id_len' > 0)
    BY <1>0, <1>1, <1>3, <1>7, <1>9, <2>1, SMT
  <2> QED
    BY <2>2, <2>3 DEF Exact
<1>13. At(buf', pos', h)
  BY <1>9 DEF At
<1>14. TypeOK'
  <2>1. TypeOK
    BY DEF SearchInv
  <2>2. immediate' \in BOOLEAN
    BY <1>1
  <2>3. id_len' \in Nat /\ pos' \in Nat
    BY <1>0, <1>1, <1>3, <1>7, <1>9, SMT
  <2> QED
    BY <1>1, <1>9, <1>10, <2>1, <2>2, <2>3 DEF TypeOK, treevars, args, Entry
<1> QED
  BY <1>1, <1>3, <1>9, <1>10, <1>11, <1>12, <1>13, <1>14, ToNext
=============================================================================
