-------------------------- MODULE MibSearchProofs --------------------------
(***************************************************************************)
(* Searching any tree, in any view, for any oid: mib_tree_search finds     *)
(* what is there and mib_tree_search_next the closest next variable.       *)
(***************************************************************************)
EXTENDS MibDescentProofs

\* Most steps are first-order reasoning; those that are not cite SMT.
USE Zenon

\* Back to the next child of the last group that has one, or past it.
LEMMA PopStep ==
  ASSUME SearchInv, Pop
  PROVE  SearchInv'
<1>0. /\ TreeInv /\ view \in SmallOID /\ orig \in SmallOID /\ buf \in SmallOID /\ pos \in Nat
      /\ stk \in Seq(Entry) /\ NULL \notin Path
  BY RunFacts
<1> DEFINE e == Last(stk)
           g == SubSeq(buf, 1, pos - 1)
           c == buf[pos]
           t == Top(buf, pos, stk)
<1>1. /\ pc = "backtrack" /\ stk # <<>> /\ stk' = Front(stk) /\ node' = e.node /\ p_nbl' = e.n_idx
      /\ pos' = pos - 1 /\ immediate' = TRUE /\ pc' = "next" /\ buf' = buf
      /\ UNCHANGED <<treevars, args>> /\ UNCHANGED <<id_len, tag, answer, err_stat>>
  BY DEF Pop
<1>2. request = "GETNEXT" /\ Started /\ Shape(buf, pos, stk) /\ Behind(SubSeq(buf, 1, pos))
  BY <1>1 DEF SearchInv, BackInv
<1>3. /\ pos - 1 \in Nat /\ Front(stk) \in Seq(Entry) /\ e \in Entry
      /\ Shape(buf, pos - 1, Front(stk)) /\ Top(buf, pos - 1, Front(stk)) = t
      /\ Level(t, g, c, e) /\ SubSeq(buf, 1, pos) = Append(g, c) /\ c \in SmallSubId
  BY <1>0, <1>1, <1>2, PopShape
<1> HIDE DEF e, g, c
<1>4. g \in Path /\ type[g] = "group" /\ g \in SmallOID /\ Len(sub_id[g]) \in Nat
  BY <1>0, <1>3, PathFacts, SmallFacts DEF Level
<1>5. TypeOK'
  <2>1. TypeOK
    BY DEF SearchInv
  <2>2. node' \in Path \cup {NULL} /\ p_nbl' \in Nat \cup {NoEntry, None}
    BY <1>1, <1>3 DEF Entry
  <2> QED
    BY <1>1, <1>3, <2>1, <2>2 DEF TypeOK, treevars, args, Entry
<1>6. ASSUME NEW x \in Wanted
      PROVE  /\ x \in Served /\ x \in SmallOID
             /\ After(g, x) \/ (Covers(g, x) /\ Len(x) > Len(g) /\ x[Len(g) + 1] > c)
  <2>1. x \in Served /\ x \in SmallOID
    BY <1>0, <1>2, WantedIs, ServedFacts
  <2>2. After(Append(g, c), x)
    BY <1>2, <1>3 DEF Behind
  <2> QED
    BY <1>3, <1>4, <2>1, <2>2, ChildOrder
<1>7. CASE e = NoChild /\ \A d : Contains(sub_id[g], d) => d <= c
  <2>1. node' = NULL
    BY <1>1, <1>7 DEF NoChild
  <2>2. Behind(g)
    <3> SUFFICES ASSUME NEW x \in Wanted PROVE After(g, x)
      BY DEF Behind
    <3>1. ASSUME Covers(g, x), x[Len(g) + 1] > c PROVE FALSE
      <4>1. x[Len(g) + 1] \in SmallSubId /\ x[Len(g) + 1] <= c
        BY <1>0, <1>4, <1>6, <1>7, <3>1, ServedChild
      <4> QED
        BY <1>3, <3>1, <4>1, HalfAssumption, SMT DEF SmallSubId
    <3> QED
      BY <1>6, <3>1
  <2> QED
    BY <1>1, <1>2, <1>3, <1>5, <2>1, <2>2, ToNext DEF g
<1>8. CASE /\ e.node = g /\ e.n_idx \in 1 .. (Len(sub_id[g]) - 1) /\ sub_id[g][e.n_idx] = c
           /\ ~ Barren(t) => ~ OidLess(Append(g, sub_id[g][e.n_idx + 1]), Aim)
  <2>1. PICK i \in Nat : i = e.n_idx
    BY <1>8, SMT
  <2>2. /\ i \in 1 .. Len(sub_id[g]) /\ i + 1 \in 1 .. Len(sub_id[g]) /\ i \in 0 .. (Len(sub_id[g]) - 1)
        /\ i # NoEntry /\ (i + 1) - 1 = i
    BY <1>4, <1>8, <2>1, SMT DEF NoEntry
  <2>3. First(g, i) = Append(g, sub_id[g][i + 1]) /\ Bound(g, i) = First(g, i)
    BY <2>2 DEF First, Bound
  <2>4. ASSUME NEW x \in Wanted PROVE ~ OidLess(x, Append(g, sub_id[g][i + 1]))
    <3>1. ASSUME Covers(g, x), NEW j \in 1 .. i PROVE sub_id[g][j] # x[Len(g) + 1]
      <4>1. x[Len(g) + 1] > c
        BY <1>6, <3>1 DEF After
      <4>2. j \in 1 .. Len(sub_id[g]) /\ (j < i \/ j = i)
        BY <1>4, <2>2, SMT
      <4>3. sub_id[g][j] \in SmallSubId /\ (j < i => sub_id[g][j] < c) /\ (j = i => sub_id[g][j] = c)
        BY <1>0, <1>4, <1>8, <2>1, <2>2, <4>2, ChildIs
      <4> QED
        BY <1>3, <4>1, <4>2, <4>3, HalfAssumption, SMT DEF SmallSubId
    <3>2. Covers(g, x) => \A j \in 1 .. ((i + 1) - 1) : sub_id[g][j] # x[Len(g) + 1]
      BY <2>2, <3>1
    <3>3. Covers(g, x) \/ After(g, x)
      BY <1>6
    <3> QED
      BY <1>0, <1>4, <1>6, <2>2, <3>2, <3>3, FromChild
  <2>5. Immediate(t, g, i)
    <3>1. ~ Barren(t) => ~ OidLess(First(g, i), Aim)
      BY <1>8, <2>1, <2>3
    <3> QED
      BY <1>4, <2>2, <2>3, <2>4, <3>1 DEF Immediate
  <2>6. At(buf, pos - 1, g) /\ g # NULL
    BY <1>0, <1>4 DEF At, Node, g
  <2>7. node' = g /\ p_nbl' = i
    BY <1>1, <1>8, <2>1
  <2> QED
    BY <1>1, <1>2, <1>3, <1>5, <2>5, <2>6, <2>7, ToNext
<1> QED
  BY <1>3, <1>7, <1>8 DEF Level

\* The way on, with nothing more below an empty group.
LEMMA NullStep ==
  ASSUME SearchInv, NextNull
  PROVE  SearchInv'
<1>1. /\ pc = "next" /\ node = NULL /\ pc' = "backtrack" /\ UNCHANGED <<treevars, args>>
      /\ buf' = buf /\ pos' = pos /\ stk' = stk
      /\ UNCHANGED <<id_len, node, immediate, p_nbl, tag, answer, err_stat>>
  BY DEF NextNull
<1>2. request = "GETNEXT" /\ Started /\ Shape(buf, pos, stk) /\ Behind(SubSeq(buf, 1, pos))
  BY <1>1 DEF SearchInv, NextInv
<1>3. TypeOK'
  <2>1. TypeOK
    BY DEF SearchInv
  <2> QED
    BY <1>1, <2>1 DEF TypeOK, treevars, args
<1> QED
  BY <1>1, <1>2, <1>3, ToBack

\* With the stack empty nothing of what was wanted is left.
LEMMA EndStep ==
  ASSUME SearchInv, EndOfView
  PROVE  SearchInv'
<1>0. /\ TreeInv /\ view \in SmallOID /\ orig \in SmallOID /\ pos \in Nat
  BY RunFacts
<1>1. /\ pc = "backtrack" /\ stk = <<>> /\ Answer("END_OF_MIB_VIEW", orig, 0) /\ UNCHANGED <<treevars, args>>
  BY DEF EndOfView
<1>2. request = "GETNEXT"
  BY <1>1 DEF SearchInv, BackInv
<1>3. Closest = EndResult
  <2>1. CASE ~ Started
    <3>1. Wanted = {}
      BY <2>1 DEF Wanted, Asked, Started, In
    <3> QED
      BY <1>0, <3>1, ClosestIs
  <2>2. CASE Started /\ Behind(SubSeq(buf, 1, pos))
    <3>1. Shape(buf, pos, stk)
      BY <1>1, <2>2 DEF SearchInv, BackInv
    <3>2. Top(buf, pos, stk) = SubSeq(buf, 1, pos)
      <4>1. pos - 0 = pos /\ Len(stk) = 0
        BY <1>0, <1>1, SMT
      <4> QED
        BY <4>1 DEF Top
    <3>3. ASSUME NEW x \in Wanted PROVE FALSE
      <4>1. Covers(SubSeq(buf, 1, pos), x)
        BY <1>0, <2>2, <3>1, <3>2, TopCovers DEF Shape
      <4>2. After(SubSeq(buf, 1, pos), x)
        BY <2>2 DEF Behind
      <4> QED
        BY <4>1, <4>2 DEF After
    <3>4. Wanted = {}
      BY <3>3
    <3> QED
      BY <1>0, <3>4, ClosestIs
  <2> QED
    BY <1>1, <2>1, <2>2 DEF SearchInv, BackInv
<1> QED
  BY <1>0, <1>1, <1>2, <1>3, ToDone DEF EndResult

\* What the handler of an instance node is asked: for the rest of the oid looked
\* for if that lies below the node, and for the first variable if it does not.
LEMMA InstanceFacts ==
  ASSUME SearchInv, pc = "next", node # NULL, type[node] = "instance"
  PROVE  /\ node \in Path /\ node \in SmallOID /\ node = SubSeq(buf, 1, pos) /\ Len(node) = pos
         /\ request = "GETNEXT" /\ Started /\ Shape(buf, pos, stk)
         /\ Covers(Top(buf, pos, stk), node) /\ (Top(buf, pos, stk) = node => stk = <<>>)
         /\ Start \in SmallOID
         /\ \A x \in Wanted : Covers(node, x) \/ After(node, x)
         /\ ~ Barren(Top(buf, pos, stk)) =>
              /\ node \o Start = IF Covers(node, Aim) THEN Aim ELSE node
              /\ \A s \in rows[node] : OidLess(Start, s) <=> OidLess(Aim, node \o s)
<1>0. /\ TreeInv /\ view \in SmallOID /\ orig \in SmallOID /\ buf \in SmallOID /\ pos \in Nat
      /\ stk \in Seq(Entry) /\ NULL \notin Path /\ Len(buf) \in Nat /\ Len(stk) \in Nat /\ id_len \in Nat
      /\ Aim \in SmallOID /\ Len(Aim) \in Nat
  BY RunFacts, AimFacts, SmallFacts
<1> DEFINE t == Top(buf, pos, stk)
<1>1. /\ node \in Path /\ node = SubSeq(buf, 1, pos) /\ request = "GETNEXT" /\ Started /\ Shape(buf, pos, stk)
      /\ immediate => Immediate(t, node, p_nbl)
      /\ ~ immediate => buf = Aim /\ id_len = Len(Aim) - pos
  BY <1>0, RunFacts DEF SearchInv, NextInv, At, Exact
<1>2. /\ node \in SmallOID /\ pos <= Len(buf) /\ Len(stk) <= pos
      /\ \A s \in rows[node] : s \in SmallOID /\ s # <<>>
  BY <1>0, <1>1, PathFacts DEF Shape
<1>3. Len(node) = pos
  <2>1. pos \in 0 .. Len(buf)
    BY <1>0, <1>2, SMT
  <2> QED
    BY <1>0, <1>1, <2>1, PrefixIs
<1>4. Covers(t, node) /\ (t = node => stk = <<>>)
  <2>1. PICK m \in 0 .. pos : m = pos - Len(stk)
    <3>1. pos - Len(stk) \in 0 .. pos
      BY <1>0, <1>2, SMT
    <3> QED
      BY <3>1
  <2>2. pos \in 0 .. Len(buf) /\ m \in 0 .. Len(node)
    BY <1>0, <1>2, <1>3, SMT
  <2>3. t = SubSeq(node, 1, m)
    BY <1>0, <1>1, <2>1, <2>2, PrefixIs DEF Top
  <2>4. Covers(t, node) /\ Len(t) = m
    BY <1>2, <2>2, <2>3, PrefixIs
  <2>5. ASSUME t = node PROVE stk = <<>>
    <3>1. Len(stk) = 0
      BY <1>0, <1>3, <2>1, <2>4, <2>5, SMT
    <3> QED
      BY <1>0, <3>1, SMT
  <2> QED
    BY <2>4, <2>5
<1> HIDE DEF t
<1>5. CASE ~ immediate
  <2>1. pos \in 0 .. Len(Aim) /\ Covers(node, Aim)
    <3>1. pos \in 0 .. Len(Aim)
      BY <1>0, <1>1, <1>2, <1>5, SMT
    <3> QED
      BY <1>0, <1>1, <1>5, <3>1, PrefixIs
  <2>2. PICK r \in SmallOID : r = SubSeq(Aim, pos + 1, Len(Aim)) /\ Aim = node \o r
    BY <1>0, <1>2, <1>3, <2>1, SplitFacts
  <2>3. Start = r
    <3>1. CASE id_len = 0
      <4>1. Start = <<>>
        BY <3>1 DEF Start
      <4>2. Len(r) = 0
        <5>1. Len(Aim) = Len(node) + Len(r) /\ Len(r) \in Nat
          <6>1. Len(node \o r) = Len(node) + Len(r)
            BY <1>2, ConcatFacts
          <6> QED
            BY <2>2, <6>1, SmallFacts
        <5> QED
          BY <1>0, <1>1, <1>3, <1>5, <3>1, <5>1, SMT
      <4>3. r = <<>>
        BY <2>2, <4>2, SMT DEF SmallOID
      <4> QED
        BY <4>1, <4>3
    <3>2. CASE id_len # 0
      <4>1. pos + id_len = Len(Aim)
        BY <1>0, <1>1, <1>5, SMT
      <4> QED
        BY <1>1, <1>5, <2>2, <3>2, <4>1 DEF Start
    <3> QED
      BY <3>1, <3>2
  <2>4. ASSUME NEW s \in rows[node] PROVE OidLess(Start, s) <=> OidLess(Aim, node \o s)
    <3>1. s \in SmallOID
      BY <1>2
    <3>2. OidLess(node \o r, node \o s) <=> OidLess(r, s)
      BY <1>2, <3>1, ConcatOrder
    <3> QED
      BY <2>2, <2>3, <3>2
  <2>5. ASSUME NEW x \in Wanted PROVE Covers(node, x) \/ After(node, x)
    BY <1>0, <1>1, <2>1, FromAim
  <2> QED
    BY <1>1, <1>2, <1>3, <1>4, <2>1, <2>2, <2>3, <2>4, <2>5 DEF t
<1>6. CASE immediate
  <2>1. Start = <<>> /\ Start \in SmallOID /\ node \o Start = node
    <3>1. Start = <<>> /\ <<>> \in SmallOID
      BY <1>6, SMT DEF Start, SmallOID
    <3> QED
      BY <1>2, <3>1, ConcatFacts
  <2>2. p_nbl = NoEntry /\ (~ Barren(t) => ~ OidLess(node, Aim))
    BY <1>1, <1>6 DEF Immediate
  <2>3. ASSUME NEW x \in Wanted PROVE Covers(node, x) \/ After(node, x)
    <3>1. ~ OidLess(x, node)
      BY <1>1, <1>6, <2>2 DEF Immediate, Bound
    <3>2. x \in SmallOID
      BY <1>0, <1>1, WantedIs, ServedFacts
    <3> QED
      BY <1>2, <3>1, <3>2, NotBefore
  <2>4. ASSUME ~ Barren(t) PROVE node \o Start = IF Covers(node, Aim) THEN Aim ELSE node
    <3>1. Covers(node, Aim) => node = Aim
      BY <1>0, <1>2, <2>2, <2>4, CoversOrder
    <3> QED
      BY <2>1, <3>1
  <2>5. ASSUME ~ Barren(t), NEW s \in rows[node] PROVE OidLess(Start, s) /\ OidLess(Aim, node \o s)
    <3>1. Covers(<<>>, s) /\ <<>> # s
      BY <1>2, SmallFacts, SMT DEF Covers
    <3>2. OidLess(Start, s)
      BY <2>1, <3>1 DEF OidLess
    <3>3. node \o s \in SmallOID /\ Covers(node, node \o s) /\ node \o s # node
      BY <1>2, ConcatFacts
    <3>4. OidLess(node, node \o s)
      BY <1>2, <3>3, CoversOrder
    <3>5. node = Aim \/ OidLess(Aim, node)
      BY <1>0, <1>2, <2>2, <2>5, OidLessTotal
    <3> QED
      BY <1>0, <1>2, <3>2, <3>3, <3>4, <3>5, OidLessTransitive
  <2> QED
    BY <1>1, <1>2, <1>3, <1>4, <2>1, <2>3, <2>4, <2>5 DEF t
<1> QED
  BY <1>5, <1>6

\* The handler finds the closest variable, unless what is wanted is further on.
LEMMA InstanceFinds ==
  ASSUME SearchInv, pc = "next", node # NULL, type[node] = "instance", ~ Barren(Top(buf, pos, stk))
  PROVE  /\ Beyond = {} => Behind(node)
         /\ Beyond # {} =>
              LET y == node \o Least(Beyond)
              IN  /\ Least(Beyond) \in SmallOID /\ y \in Wanted /\ y \in SmallOID
                  /\ \A z \in Wanted : y = z \/ OidLess(y, z)
                  /\ y \in Erring <=> Fails
                  /\ Echo(Instances, view, orig, y) = node \o Start
<1>0. /\ TreeInv /\ view \in SmallOID /\ orig \in SmallOID /\ Aim \in SmallOID /\ Covers(view, Aim)
  BY RunFacts, AimFacts
<1> DEFINE t == Top(buf, pos, stk)
<1>1. /\ node \in Path /\ node \in SmallOID /\ Started /\ IsTop(t) /\ Covers(t, node) /\ Start \in SmallOID
      /\ \A x \in Wanted : Covers(node, x) \/ After(node, x)
      /\ node \o Start = IF Covers(node, Aim) THEN Aim ELSE node
      /\ \A s \in rows[node] : OidLess(Start, s) <=> OidLess(Aim, node \o s)
  BY InstanceFacts DEF Shape
<1>2. /\ Beyond \in SUBSET SmallOID /\ IsFiniteSet(Beyond) /\ Beyond \subseteq rows[node]
  <2>1. Beyond \subseteq rows[node]
    BY DEF Beyond
  <2> QED
    BY <1>0, <1>1, <2>1, PathFacts, FinitePart
<1>3. Covers(view, node) \/ Covers(node, view)
  <2>1. CASE type[t] = "group"
    BY <1>1, <2>1 DEF Barren
  <2>2. CASE type[t] = "instance"
    <3>1. t = node
      BY <1>0, <1>1, <2>2, OneInstance DEF IsTop, Node
    <3> QED
      BY <1>1, <3>1 DEF IsTop
  <2> QED
    BY <1>0, <1>1, <2>1, <2>2, PathFacts DEF IsTop, Node
<1>4. ASSUME NEW s \in rows[node], OidLess(Aim, node \o s)
      PROVE  node \o s \in Wanted
  <2>1. s \in SmallOID /\ node \o s \in SmallOID /\ Covers(node, node \o s)
    BY <1>0, <1>1, PathFacts, ConcatFacts
  <2>2. node \o s \in Served
    BY <1>1, ServedIs
  <2>3. Covers(view, node \o s) \/ \E p \in Instances : Covers(p, view) /\ Covers(p, node \o s)
    <3>1. CASE Covers(view, node)
      BY <1>0, <1>1, <2>1, <3>1, SmallFacts, CoversTransitive
    <3>2. CASE Covers(node, view)
      BY <1>1, <2>1, <3>2 DEF Instances
    <3> QED
      BY <1>3, <3>1, <3>2
  <2> QED
    BY <1>0, <1>1, <1>4, <2>2, <2>3, WantedIs
<1>5. ASSUME NEW x \in Wanted, Covers(node, x)
      PROVE  \E s \in Beyond : x = node \o s
  <2>1. x \in Served /\ OidLess(Aim, x) /\ x \in SmallOID
    BY <1>0, <1>1, WantedIs, ServedFacts
  <2>2. PICK s : s = SubSeq(x, Len(node) + 1, Len(x)) /\ x = node \o s
    BY <1>1, <1>5, <2>1, SplitFacts
  <2>3. s \in rows[node]
    BY <1>0, <1>1, <1>5, <2>1, <2>2, ServedHere
  <2>4. OidLess(Start, s)
    BY <1>1, <2>1, <2>2, <2>3
  <2> QED
    BY <2>2, <2>3, <2>4 DEF Beyond
<1>6. ASSUME Beyond = {} PROVE Behind(node)
  BY <1>1, <1>5, <1>6 DEF Behind
<1>7. ASSUME Beyond # {}
      PROVE  LET y == node \o Least(Beyond)
             IN  /\ Least(Beyond) \in SmallOID /\ y \in Wanted /\ y \in SmallOID
                 /\ \A z \in Wanted : y = z \/ OidLess(y, z)
                 /\ y \in Erring <=> Fails
                 /\ Echo(Instances, view, orig, y) = node \o Start
  <2>1. PICK s \in Beyond : \A u \in Beyond : s = u \/ OidLess(s, u)
    BY <1>2, <1>7, LeastOid
  <2>2. Least(Beyond) = s /\ s \in SmallOID /\ s \in rows[node] /\ OidLess(Start, s)
    <3>1. Least(Beyond) = s
      BY <1>2, <2>1, LeastIs
    <3> QED
      BY <1>2, <2>1, <3>1 DEF Beyond
  <2>3. PICK y : y = node \o s
    OBVIOUS
  <2>4. y \in Wanted /\ y \in SmallOID /\ Covers(node, y)
    <3>1. y \in SmallOID /\ Covers(node, y)
      BY <1>1, <2>2, <2>3, ConcatFacts
    <3>2. OidLess(Aim, node \o s)
      BY <1>1, <2>2
    <3> QED
      BY <1>4, <2>2, <2>3, <3>1, <3>2
  <2>5. ASSUME NEW z \in Wanted PROVE y = z \/ OidLess(y, z)
    <3>1. z \in SmallOID
      BY <1>0, <1>1, WantedIs, ServedFacts
    <3>2. CASE After(node, z)
      BY <1>1, <2>4, <3>1, <3>2, SubtreeBefore DEF After
    <3>3. CASE Covers(node, z)
      <4>1. PICK u \in Beyond : z = node \o u
        BY <1>5, <3>3
      <4>2. u \in SmallOID /\ (s = u \/ OidLess(s, u))
        BY <1>2, <2>1, <4>1
      <4>3. OidLess(s, u) => OidLess(node \o s, node \o u)
        BY <1>1, <2>2, <4>2, ConcatOrder
      <4> QED
        BY <2>3, <4>1, <4>2, <4>3
    <3> QED
      BY <1>1, <3>2, <3>3
  <2>6. y \in Erring <=> Fails
    <3>1. node \o s \in Erring <=> s \in Failing
      BY <1>0, <1>1, <2>2, ErringHere
    <3> QED
      BY <2>2, <2>3, <3>1 DEF Fails
  <2>7. Echo(Instances, view, orig, y) = node \o Start
    <3>1. node \in Instances /\ \A p \in Instances : Covers(p, y) => p = node
      <4>1. node \in Instances
        BY <1>1 DEF Instances
      <4>2. ASSUME NEW p \in Instances, Covers(p, y) PROVE p = node
        <5>1. p \in Path /\ type[p] = "instance" /\ p \in OID /\ Node(p) /\ Node(node)
          BY <1>0, <1>1, PathFacts DEF Instances, Node
        <5>2. Covers(p, node) \/ Covers(node, p)
          BY <1>1, <2>4, <4>2, <5>1, SmallFacts, CoversLinear
        <5> QED
          BY <1>0, <1>1, <5>1, <5>2, OneInstance
      <4> QED
        BY <4>1, <4>2
    <3>2. (CHOOSE p \in Instances : Covers(p, y)) = node
      BY <2>4, <3>1
    <3>3. (IF Covers(view, orig) THEN orig ELSE view) = Aim
      BY DEF Aim, In
    <3>4. Echo(Instances, view, orig, y) = IF Covers(node, Aim) THEN Aim ELSE node
      <4> DEFINE a == CHOOSE p \in Instances : Covers(p, y)
                 f == IF Covers(view, orig) THEN orig ELSE view
      <4>1. Echo(Instances, view, orig, y) = IF Covers(a, f) THEN f ELSE a
        BY DEF Echo
      <4>2. a = node /\ f = Aim
        BY <3>2, <3>3
      <4> HIDE DEF a, f
      <4> QED
        BY <4>1, <4>2
    <3> QED
      BY <1>1, <3>4
  <2> QED
    BY <2>2, <2>3, <2>4, <2>5, <2>6, <2>7
<1> QED
  BY <1>6, <1>7

\* An instance node: the closest variable is found, in the view or not, or the
\* way goes on.
LEMMA InstanceStep ==
  ASSUME SearchInv, NextInstance
  PROVE  SearchInv'
<1>0. /\ TreeInv /\ view \in SmallOID /\ orig \in SmallOID /\ Aim \in SmallOID /\ Covers(view, Aim) /\ view \in OID
      /\ pc = "next" /\ node # NULL /\ type[node] = "instance" /\ UNCHANGED <<treevars, args>>
  BY RunFacts, AimFacts, SmallFacts DEF NextInstance, AtInstance
<1> DEFINE t == Top(buf, pos, stk)
           go == Beyond # {} /\ oid_cover(view, Found) # 0
<1>1. /\ go => Answer("VALUE", Found, IF Fails THEN GEN_ERR ELSE 0)
      /\ ~ go => /\ pc' = "backtrack" /\ buf' = buf /\ pos' = pos /\ stk' = stk
                 /\ UNCHANGED <<id_len, node, immediate, p_nbl, tag, answer, err_stat>>
  BY DEF NextInstance
<1>2. /\ node \in Path /\ node \in SmallOID /\ node \in OID /\ node = SubSeq(buf, 1, pos) /\ Node(node)
      /\ request = "GETNEXT" /\ Started /\ Shape(buf, pos, stk) /\ IsTop(t)
      /\ Covers(t, node) /\ (t = node => stk = <<>>) /\ Start \in SmallOID
  <2>1. /\ node \in Path /\ node \in SmallOID /\ node = SubSeq(buf, 1, pos)
        /\ request = "GETNEXT" /\ Started /\ Shape(buf, pos, stk)
        /\ Covers(t, node) /\ (t = node => stk = <<>>) /\ Start \in SmallOID
    BY <1>0, InstanceFacts
  <2> QED
    BY <1>0, <2>1, SmallFacts DEF Shape, Node
<1>3. ASSUME ~ go PROVE TypeOK'
  <2>1. TypeOK
    BY DEF SearchInv
  <2> QED
    BY <1>0, <1>1, <1>3, <2>1 DEF TypeOK, treevars, args
<1>4. Found = node \o (IF Fails THEN Start ELSE Least(Beyond))
  BY <1>2 DEF Found
<1>5. CASE Barren(t)
  <2>1. Wanted = {}
    BY <1>0, <1>2, <1>5, TopCovers
  <2>2. Behind(SubSeq(buf, 1, pos))
    BY <2>1 DEF Behind
  <2>3. ~ go
    <3> SUFFICES ASSUME Beyond # {} PROVE oid_cover(view, Found) = 0
      OBVIOUS
    <3>1. Least(Beyond) \in SmallOID
      <4>1. Beyond \subseteq rows[node]
        BY DEF Beyond
      <4>2. Beyond \in SUBSET SmallOID /\ IsFiniteSet(Beyond)
        BY <1>0, <1>2, <4>1, PathFacts, FinitePart
      <4>3. PICK s \in Beyond : \A u \in Beyond : s = u \/ OidLess(s, u)
        BY <4>2, LeastOid
      <4> QED
        BY <4>2, <4>3, LeastIs
    <3>2. Found \in SmallOID /\ Found \in OID /\ Covers(node, Found)
      <4>1. PICK s \in SmallOID : Found = node \o s
        BY <1>2, <1>4, <3>1
      <4>2. Found \in SmallOID /\ Covers(node, Found)
        BY <1>2, <4>1, ConcatFacts
      <4> QED
        BY <4>2, SmallFacts
    <3>3. t # node
      BY <1>0, <1>5 DEF Barren
    <3>4. ~ Covers(node, view) /\ ~ Covers(view, node)
      BY <1>0, <1>2, <1>5, <3>3, WayEnds
    <3>5. ~ Covers(view, Found)
      BY <1>0, <1>2, <3>2, <3>4, CoversLinear
    <3>6. ~ Covers(Found, view)
      BY <1>0, <1>2, <3>2, <3>4, CoversTransitive
    <3> QED
      BY <1>0, <3>2, <3>5, <3>6, CoverSign
  <2> HIDE DEF go
  <2> QED
    BY <1>0, <1>1, <1>2, <1>3, <2>2, <2>3, ToBack
<1>6. CASE ~ Barren(t) /\ Beyond = {}
  <2>1. Behind(SubSeq(buf, 1, pos)) /\ ~ go
    BY <1>0, <1>2, <1>6, InstanceFinds
  <2> HIDE DEF go
  <2> QED
    BY <1>0, <1>1, <1>2, <1>3, <2>1, ToBack
<1>7. CASE ~ Barren(t) /\ Beyond # {}
  <2>1. PICK y : y = node \o Least(Beyond)
    OBVIOUS
  <2>2. /\ Least(Beyond) \in SmallOID /\ y \in Wanted /\ y \in SmallOID
        /\ \A z \in Wanted : y = z \/ OidLess(y, z)
        /\ y \in Erring <=> Fails
        /\ Echo(Instances, view, orig, y) = node \o Start
    BY <1>0, <1>7, <2>1, InstanceFinds
  <2>3. Closest = IF y \in Erring
                  THEN [tag |-> "VALUE", oid |-> Echo(Instances, view, orig, y), err |-> GEN_ERR]
                  ELSE IF Covers(view, y) THEN [tag |-> "VALUE", oid |-> y, err |-> 0] ELSE EndResult
    BY <1>0, <2>2, ClosestIs
  <2>4. Covers(view, node) \/ (t = node /\ Covers(node, view))
    <3>1. CASE type[t] = "group"
      BY <1>2, <1>7, <3>1 DEF Barren
    <3>2. CASE type[t] = "instance"
      <4>1. t = node
        BY <1>0, <1>2, <3>2, OneInstance DEF IsTop, Node
      <4> QED
        BY <1>2, <4>1 DEF IsTop
    <3> QED
      BY <1>0, <1>2, <3>1, <3>2, PathFacts DEF IsTop, Node
  <2>5. CASE Fails
    <3>1. Found = node \o Start /\ Found \in SmallOID /\ Covers(node, Found) /\ Found \in OID
      BY <1>2, <1>4, <2>5, ConcatFacts, SmallFacts
    <3>2. Covers(view, Found)
      <4>1. CASE Covers(view, node)
        BY <1>0, <1>2, <3>1, <4>1, CoversTransitive
      <4>2. CASE Covers(node, view)
        <5>1. Covers(node, Aim)
          BY <1>0, <1>2, <4>2, SmallFacts, CoversTransitive
        <5>2. node \o Start = Aim
          BY <1>0, <1>7, <5>1, InstanceFacts
        <5> QED
          BY <1>0, <3>1, <5>2
      <4> QED
        BY <2>4, <4>1, <4>2
    <3>3. Answer("VALUE", Found, GEN_ERR)
      <4>1. go
        BY <1>0, <1>7, <3>1, <3>2, CoverSign
      <4> HIDE DEF go
      <4> QED
        BY <1>1, <2>5, <4>1
    <3>4. [tag |-> "VALUE", oid |-> Found, err |-> GEN_ERR] = Closest
      BY <2>2, <2>3, <2>5, <3>1
    <3> QED
      BY <1>0, <1>2, <3>1, <3>3, <3>4, ToDone
  <2>6. CASE ~ Fails /\ Covers(view, y)
    <3>1. Found = y
      BY <1>4, <2>1, <2>6
    <3>2. Answer("VALUE", y, 0)
      <4>1. y \in OID
        BY <2>2, SmallFacts
      <4>2. go
        BY <1>0, <1>7, <2>6, <3>1, <4>1, CoverSign
      <4> HIDE DEF go
      <4> QED
        BY <1>1, <2>6, <3>1, <4>2
    <3>3. [tag |-> "VALUE", oid |-> y, err |-> 0] = Closest
      BY <2>2, <2>3, <2>6
    <3> QED
      BY <1>0, <1>2, <2>2, <3>2, <3>3, ToDone
  <2>7. CASE ~ Fails /\ ~ Covers(view, y)
    <3>1. Found = y /\ y \in OID
      BY <1>4, <2>1, <2>2, <2>7, SmallFacts
    <3>2. Closest = EndResult
      BY <2>2, <2>3, <2>7
    <3>3. ~ Covers(y, view)
      <4> SUFFICES ASSUME Covers(y, view) PROVE FALSE
        OBVIOUS
      <4>1. OidLess(Aim, y)
        BY <1>0, <1>2, <2>2, WantedIs
      <4>2. (y = view \/ OidLess(y, view)) /\ (view = Aim \/ OidLess(view, Aim))
        BY <1>0, <2>2, CoversOrder
      <4>3. OidLess(view, y)
        BY <1>0, <2>2, <4>1, <4>2, OidLessTransitive
      <4> QED
        BY <1>0, <2>2, <4>2, <4>3, OidLessTotal
    <3>4. ~ go
      BY <1>0, <2>7, <3>1, <3>3, CoverSign
    <3>5. stk = <<>>
      <4>1. Covers(node, y)
        BY <1>2, <2>1, <2>2, ConcatFacts
      <4>2. ~ Covers(view, node)
        BY <1>0, <1>2, <2>7, <3>1, <4>1, CoversTransitive
      <4> QED
        BY <1>2, <2>4, <4>2
    <3> HIDE DEF go
    <3> QED
      BY <1>0, <1>1, <1>2, <1>3, <3>2, <3>4, <3>5, ToBack
  <2> QED
    BY <2>5, <2>6, <2>7
<1> QED
  BY <1>5, <1>6, <1>7

\* A failing assertion ends it all.
LEMMA AbortStep ==
  ASSUME SearchInv, NextAborts
  PROVE  SearchInv'
<1>1. /\ pc' = "aborted" /\ UNCHANGED <<treevars, args>>
      /\ UNCHANGED <<buf, pos, id_len, node, immediate, p_nbl, stk, tag, answer, err_stat>>
  BY DEF NextAborts
<1>2. TypeOK' /\ TreeInv'
  <2>1. TypeOK /\ TreeInv
    BY DEF SearchInv
  <2>2. TypeOK'
    BY <1>1, <2>1 DEF TypeOK, treevars, args
  <2> QED
    BY <1>1, <2>1, <2>2, Frame
<1> QED
  BY <1>1, <1>2 DEF SearchInv, IdleInv, WalkInv, NextInv, BackInv, GetFinds, NextIsClosest
-----------------------------------------------------------------------------
\* The walk at a group with some of the oid left.
LEMMA WalkFacts ==
  ASSUME SearchInv, pc = "walk"
  PROVE  /\ node \in Path /\ Node(node) /\ node \in SmallOID /\ node = SubSeq(buf, 1, pos) /\ Len(node) = pos
         /\ pos <= Len(buf) /\ id_len = Len(buf) - pos /\ Covers(node, buf) /\ (id_len = 0 => node = buf)
         /\ stk = <<>> /\ p_nbl = NoEntry
         /\ request = "GET" => buf = orig /\ In
         /\ request = "GETNEXT" => buf = view /\ Started
         /\ Walking /\ type[node] = "group" =>
              /\ Search \in Int /\ buf[pos + 1] \in SmallSubId
              /\ Search >= 0 => Search + 1 \in 1 .. Len(sub_id[node]) /\ sub_id[node][Search + 1] = buf[pos + 1]
              /\ Search < 0 => ~ Contains(sub_id[node], buf[pos + 1])
<1>0. /\ TreeInv /\ buf \in SmallOID /\ pos \in Nat /\ Len(buf) \in Nat
  BY RunFacts
<1>1. /\ node \in Path /\ Node(node) /\ node = SubSeq(buf, 1, pos) /\ pos <= Len(buf) /\ id_len = Len(buf) - pos
      /\ stk = <<>> /\ p_nbl = NoEntry
      /\ request = "GET" => buf = orig /\ In
      /\ request = "GETNEXT" => buf = view /\ Started
  BY DEF SearchInv, WalkInv, At, Node
<1>2. pos \in 0 .. Len(buf)
  BY <1>0, <1>1, SMT
<1>3. Len(node) = pos /\ Covers(node, buf) /\ node \in SmallOID
  BY <1>0, <1>1, <1>2, PrefixIs
<1>4. ASSUME id_len = 0 PROVE node = buf
  <2>1. pos = Len(buf)
    BY <1>0, <1>1, <1>4, SMT
  <2> QED
    BY <1>0, <1>1, <1>2, <2>1, PrefixIs
<1>5. ASSUME Walking, type[node] = "group"
      PROVE  /\ Search \in Int /\ buf[pos + 1] \in SmallSubId
             /\ Search >= 0 => Search + 1 \in 1 .. Len(sub_id[node]) /\ sub_id[node][Search + 1] = buf[pos + 1]
             /\ Search < 0 => ~ Contains(sub_id[node], buf[pos + 1])
  <2>1. pos < Len(buf)
    BY <1>0, <1>1, <1>5, SMT DEF Walking
  <2>2. PICK c \in SmallSubId : c = buf[pos + 1]
    BY <1>0, <1>2, <2>1, PrefixIs
  <2>3. /\ sub_id[node] \in OID /\ sub_id[node] \in Seq(SubId) /\ StrictlySorted(sub_id[node])
        /\ Len(sub_id[node]) \in Nat /\ c \in SubId /\ c \in Int
        /\ \A j \in 1 .. Len(sub_id[node]) : sub_id[node][j] \in Int
    <3>1. sub_id[node] \in OID /\ sub_id[node] \in SmallOID /\ StrictlySorted(sub_id[node])
      BY <1>0, <1>1, PathFacts DEF TreeInv
    <3>2. c \in SubId /\ c \in Int
      BY HalfAssumption, SMT DEF SmallSubId, SubId, Word
    <3> QED
      BY <3>1, <3>2, SmallFacts DEF OID
  <2>4. PICK r : r = oid_binary_search(sub_id[node], c) /\ r = Search
    BY <2>2 DEF Search
  <2>5. /\ r \in Int
        /\ r >= 0 => r + 1 \in 1 .. Len(sub_id[node]) /\ sub_id[node][r + 1] = c
        /\ r < 0 => /\ -r - 1 \in 0 .. Len(sub_id[node])
                    /\ \A j \in 1 .. (-r - 1) : sub_id[node][j] < c
                    /\ \A j \in (-r) .. Len(sub_id[node]) : sub_id[node][j] > c
    <3>1. PICK a \in Seq(SubId) : a = sub_id[node] /\ StrictlySorted(a)
      BY <2>3
    <3>2. LET q == oid_binary_search(a, c)
          IN  /\ q \in Int
              /\ q >= 0 => q + 1 \in 1 .. Len(a) /\ a[q + 1] = c
              /\ q < 0 => /\ -q - 1 \in 0 .. Len(a)
                          /\ \A j \in 1 .. (-q - 1) : a[j] < c
                          /\ \A j \in (-q) .. Len(a) : a[j] > c
      BY <2>3, <3>1, SearchFacts
    <3> QED
      BY <2>4, <3>1, <3>2
  <2>6. ASSUME r < 0, NEW j \in 1 .. Len(sub_id[node]) PROVE sub_id[node][j] # c
    <3>1. j \in 1 .. (-r - 1) \/ j \in (-r) .. Len(sub_id[node])
      BY <2>3, <2>5, <2>6, SMT
    <3> QED
      BY <2>3, <2>5, <2>6, <3>1, SMT
  <2> QED
    BY <2>2, <2>4, <2>5, <2>6 DEF Contains
<1> QED
  BY <1>1, <1>3, <1>4, <1>5

\* One step down.
LEMMA WalkDescendStep ==
  ASSUME SearchInv, WalkDescend
  PROVE  SearchInv'
<1>0. /\ TreeInv /\ buf \in SmallOID /\ pos \in Nat /\ Len(buf) \in Nat
      /\ Walking /\ pc = "walk" /\ type[node] = "group" /\ Search >= 0 /\ id_len > 0
  BY RunFacts DEF WalkDescend, Walking
<1>1. /\ pos' = pos + 1 /\ id_len' = id_len - 1 /\ node' = Append(node, sub_id[node][Search + 1])
      /\ pc' = "walk" /\ UNCHANGED <<treevars, args>> /\ buf' = buf /\ stk' = stk /\ p_nbl' = p_nbl
      /\ UNCHANGED <<immediate, tag, answer, err_stat>>
  BY <1>0 DEF WalkDescend, Child
<1>2. /\ node \in Path /\ node = SubSeq(buf, 1, pos) /\ pos <= Len(buf) /\ id_len = Len(buf) - pos
      /\ stk = <<>> /\ p_nbl = NoEntry /\ Search + 1 \in 1 .. Len(sub_id[node])
      /\ sub_id[node][Search + 1] = buf[pos + 1]
  BY <1>0, WalkFacts
<1>3. PICK h : h = node' /\ Node(h) /\ h = SubSeq(buf, 1, pos + 1)
  <2>1. Node(Append(node, sub_id[node][Search + 1]))
    BY <1>0, <1>2, ChildIs
  <2>2. pos \in 0 .. Len(buf) /\ pos < Len(buf)
    BY <1>0, <1>2, SMT
  <2>3. SubSeq(buf, 1, pos + 1) = Append(node, buf[pos + 1])
    BY <1>0, <1>2, <2>2, PrefixIs
  <2> QED
    BY <1>1, <1>2, <2>1, <2>3
<1>4. PICK B, P : B = buf' /\ P = pos' /\ At(B, P, h)
  BY <1>1, <1>3 DEF At
<1>5. At(B, P, h)' /\ (In' <=> In) /\ (Started' <=> Started) /\ TreeInv'
  BY <1>0, <1>1, <1>4, Frame
<1>6. pos' <= Len(buf') /\ id_len' = Len(buf') - pos' /\ id_len' \in Nat /\ pos' \in Nat
  BY <1>0, <1>1, <1>2, SMT
<1>7. WalkInv'
  <2>1. request' = request /\ view' = view /\ orig' = orig
    BY <1>1 DEF args
  <2>2. At(buf, pos, node)'
    BY <1>3, <1>4, <1>5
  <2>3. IF request = "GET" THEN buf = orig /\ In ELSE buf = view /\ Started
    BY <1>0 DEF SearchInv, WalkInv
  <2>4. stk' = <<>> /\ p_nbl' = NoEntry
    BY <1>1, <1>2
  <2> QED
    BY <1>1, <1>5, <1>6, <2>1, <2>2, <2>3, <2>4 DEF WalkInv
<1>8. TypeOK'
  <2>1. TypeOK
    BY DEF SearchInv
  <2> QED
    BY <1>1, <1>3, <1>6, <2>1 DEF TypeOK, treevars, args, Node
<1> QED
  BY <1>1, <1>5, <1>7, <1>8 DEF SearchInv, IdleInv, NextInv, BackInv, GetFinds, NextIsClosest

\* The walk along the oid of the view has ended, and the search for the closest
\* next variable begins where it did.
LEMMA EnterStep ==
  ASSUME SearchInv, pc = "walk", request = "GETNEXT", EnterNext, UNCHANGED <<treevars, args>>, IsTop(node)
  PROVE  SearchInv'
<1>0. /\ TreeInv /\ view \in SmallOID /\ orig \in SmallOID /\ pos \in Nat /\ Aim \in SmallOID /\ NULL \notin Path
      /\ Covers(view, Aim) /\ Len(Aim) \in Nat /\ Len(view) \in Nat /\ Len(view) <= Len(Aim)
  <2>1. Aim \in SmallOID /\ Covers(view, Aim)
    BY RunFacts, AimFacts
  <2> QED
    BY <2>1, RunFacts, SmallFacts DEF Covers
<1>1. /\ node \in Path /\ Node(node) /\ node \in SmallOID /\ node = SubSeq(view, 1, pos) /\ Len(node) = pos
      /\ pos <= Len(view) /\ Covers(node, view) /\ stk = <<>> /\ p_nbl = NoEntry /\ Started /\ buf = view
  BY WalkFacts
<1>2. oid_cover(view, orig) > 0 <=> In
  BY <1>0, SmallFacts, CoverSign DEF In
<1>3. /\ pc' = "next" /\ buf' = Aim /\ id_len' = Len(Aim) - pos
      /\ immediate' = (IF In THEN Len(orig) <= pos ELSE type[node] = "group")
      /\ pos' = pos /\ node' = node /\ p_nbl' = NoEntry /\ stk' = <<>>
      /\ UNCHANGED <<tag, answer, err_stat>>
  <2>1. pos <= Len(Aim)
    BY <1>0, <1>1, SMT
  <2>2. (IF Len(Aim) > pos THEN Len(Aim) - pos ELSE 0) = Len(Aim) - pos
    BY <1>0, <2>1, SMT
  <2> QED
    BY <1>1, <1>2, <2>2, SMT DEF EnterNext, Aim
<1>4. immediate' <=> IF In THEN Len(orig) <= pos ELSE type[node] = "group"
  BY <1>3
<1>5. SubSeq(Aim, 1, pos) = node /\ Top(Aim, pos, <<>>) = node /\ Covers(node, Aim)
  <2>1. SubSeq(Aim, 1, pos) = SubSeq(view, 1, pos)
    <3>1. pos <= Len(Aim) /\ \A i \in 1 .. pos : Aim[i] = view[i]
      BY <1>0, <1>1, SMT DEF Covers
    <3> QED
      BY <1>0, <1>1, <3>1, SamePrefix
  <2>2. pos - Len(<<>>) = pos
    BY <1>0, SMT
  <2>3. Covers(node, Aim)
    BY <1>0, <1>1, SmallFacts, CoversTransitive
  <2> QED
    BY <1>1, <2>1, <2>2, <2>3 DEF Top
<1>6. Shape(Aim, pos, <<>>)
  <2>1. pos <= Len(Aim) /\ Len(<<>>) = 0 /\ 0 <= pos /\ 1 .. 0 = {}
    BY <1>0, <1>1, SMT
  <2> QED
    BY <1>5, <2>1 DEF Shape
<1>7. ASSUME ~ immediate' PROVE Exact(Aim, pos, id_len', node, NoEntry)
  <2>1. type[node] = "group" => id_len' > 0
    <3>1. CASE In
      <4>1. Aim = orig /\ Len(orig) > pos
        <5>1. Aim = orig
          BY <3>1 DEF Aim
        <5> QED
          BY <1>0, <1>4, <1>7, <3>1, <5>1, SMT
      <4> QED
        BY <1>0, <1>3, <4>1, SMT
    <3>2. CASE ~ In
      BY <1>4, <1>7, <3>2
    <3> QED
      BY <3>1, <3>2
  <2> QED
    BY <1>3, <2>1 DEF Exact
<1>8. ASSUME immediate' PROVE Immediate(node, node, NoEntry)
  <2>1. ~ Barren(node) => node = Aim
    <3>1. CASE In
      <4>1. Aim = orig /\ Len(Aim) <= pos
        BY <1>4, <1>8, <3>1, SMT DEF Aim
      <4>2. Len(Aim) = pos
        BY <1>0, <1>1, <4>1, SMT
      <4> QED
        BY <1>0, <1>1, <1>5, <4>2, SmallFacts, CoversIsPrefix
    <3>2. CASE ~ In
      BY <1>4, <1>8, <3>2 DEF Barren, Aim
    <3> QED
      BY <3>1, <3>2
  <2>2. ASSUME NEW x \in Wanted PROVE ~ OidLess(x, node)
    <3>1. x \in SmallOID /\ Covers(node, x)
      BY <1>0, <1>1, WantedIs, ServedFacts, TopCovers
    <3> QED
      BY <1>1, <3>1, CoversOrder, SMT
  <2>3. ~ Barren(node) => ~ OidLess(node, Aim)
    BY <1>0, <2>1, OidLessTotal
  <2> QED
    BY <1>0, <1>1, <2>2, <2>3, ImmediateAt
<1>9. At(Aim, pos, node) /\ node # NULL
  BY <1>0, <1>1, <1>5 DEF At
<1>10. TypeOK'
  <2>1. TypeOK
    BY DEF SearchInv
  <2>2. immediate' \in BOOLEAN /\ id_len' \in Nat
    <3>1. immediate' \in BOOLEAN
      <4>1. CASE In
        <5>1. Len(orig) \in Nat /\ immediate' = (Len(orig) <= pos)
          BY <1>0, <1>3, <4>1, SmallFacts
        <5> QED
          BY <1>0, <5>1, SMT
      <4>2. CASE ~ In
        <5>1. immediate' = (type[node] = "group")
          BY <1>3, <4>2
        <5> QED
          BY <5>1, Zenon
      <4> QED
        BY <4>1, <4>2
    <3>2. id_len' \in Nat
      BY <1>0, <1>1, <1>3, SMT
    <3> QED
      BY <3>1, <3>2
  <2>3. <<>> \in Seq(Entry)
    BY SMT
  <2> QED
    BY <1>0, <1>1, <1>3, <2>1, <2>2, <2>3 DEF TypeOK, treevars, args, Entry
<1> QED
  BY <1>1, <1>3, <1>5, <1>6, <1>7, <1>8, <1>9, <1>10, ToNext

\* An oid at which only an instance can be missing is that of an instance node or,
\* below it, one that the node's handler has the object of.
LEMMA KnownIs ==
  ASSUME NEW x
  PROVE  x \in KnownOids <=> x \in Instances \/ \E p \in Instances : \E s \in Known[p] : x = p \o s
<1>1. ASSUME x \in KnownOids, x \notin Instances PROVE \E p \in Instances : \E s \in Known[p] : x = p \o s
  <2>1. PICK W \in {{p \o s : s \in Known[p]} : p \in Instances} : x \in W
    BY <1>1 DEF KnownOids
  <2>2. PICK p \in Instances : W = {p \o s : s \in Known[p]}
    BY <2>1
  <2> QED
    BY <2>1, <2>2
<1>2. ASSUME NEW p \in Instances, NEW s \in Known[p], x = p \o s PROVE x \in KnownOids
  <2>1. x \in {p \o r : r \in Known[p]}
    BY <1>2
  <2> QED
    BY <2>1 DEF KnownOids
<1>3. x \in Instances => x \in KnownOids
  BY DEF KnownOids
<1> QED
  BY <1>1, <1>2, <1>3

\* It lies at or below an instance node.
LEMMA KnownFacts ==
  ASSUME TreeInv, NEW p \in Instances, NEW s \in Known[p]
  PROVE  /\ p \in Path /\ type[p] = "instance" /\ Node(p) /\ p \in SmallOID /\ s \in SmallOID
         /\ p \o s \in SmallOID /\ Covers(p, p \o s)
<1>1. p \in Path /\ type[p] = "instance" /\ Node(p) /\ p \in SmallOID
  BY PathFacts DEF Instances, Node
<1>2. s \in SmallOID
  BY <1>1, SearchAssumption
<1> QED
  BY <1>1, <1>2, ConcatFacts

\* Below an instance node it is its handler that tells.
LEMMA KnownHere ==
  ASSUME TreeInv, NEW p \in Path, type[p] = "instance", NEW x \in SmallOID, Covers(p, x), p # x
  PROVE  x \in KnownOids <=> SubSeq(x, Len(p) + 1, Len(x)) \in Known[p]
<1>1. PICK s \in SmallOID : s = SubSeq(x, Len(p) + 1, Len(x)) /\ x = p \o s
  BY PathFacts, SplitFacts
<1>2. p \in Instances /\ p \in SmallOID /\ p \in OID /\ x \in OID /\ Node(p)
  BY PathFacts, SmallFacts DEF Instances, Node
<1>3. x \notin Instances
  BY <1>2, OneInstance DEF Instances, Node
<1>4. ASSUME NEW q \in Instances, NEW t \in Known[q], x = q \o t PROVE s \in Known[p]
  <2>1. /\ q \in Path /\ type[q] = "instance" /\ Node(q) /\ q \in OID /\ t \in SmallOID /\ Covers(q, x)
    BY <1>4, KnownFacts, SmallFacts
  <2>2. p = q
    BY <1>2, <2>1, CoversLinear, OneInstance
  <2>3. s = t
    BY <1>1, <1>2, <1>4, <2>1, <2>2, ConcatOrder
  <2> QED
    BY <2>2, <2>3
<1>5. ASSUME s \in Known[p] PROVE x \in KnownOids
  BY <1>1, <1>2, <1>5, KnownIs
<1> QED
  BY <1>1, <1>3, <1>4, <1>5, KnownIs

\* The tag for an oid in the view.
LEMMA TagIs ==
  ASSUME In
  PROVE  SearchTag(KnownOids, Served, view, orig) =
           IF orig \in Served THEN "VALUE"
           ELSE IF orig \in KnownOids THEN "NO_SUCH_INST" ELSE "NO_SUCH_OBJ"
BY DEF SearchTag, In

\* An instance on the way of the oid is below the groups that the walk goes over.
LEMMA InstanceAhead ==
  ASSUME SearchInv, pc = "walk", request = "GET", type[node] = "group", NEW p \in Instances, Covers(p, orig)
  PROVE  id_len > 0 /\ Contains(sub_id[node], buf[pos + 1])
<1>1. /\ TreeInv /\ orig \in SmallOID /\ pos \in Nat /\ Len(buf) \in Nat
  BY RunFacts
<1>2. /\ node \in Path /\ Node(node) /\ node \in SmallOID /\ Len(node) = pos
      /\ Covers(node, orig) /\ buf = orig /\ id_len = Len(buf) - pos
  BY WalkFacts
<1>3. p \in Path /\ p \in SmallOID /\ type[p] = "instance" /\ Node(p) /\ p # node
  BY <1>1, PathFacts, SMT DEF Instances, Node
<1>4. Covers(node, p)
  <2>1. Covers(p, node) \/ Covers(node, p)
    BY <1>1, <1>2, <1>3, SmallFacts, CoversLinear
  <2> QED
    BY <1>1, <1>2, <1>3, <2>1, OneInstance, SMT
<1>5. Len(p) > pos /\ Contains(sub_id[node], p[pos + 1])
  BY <1>1, <1>2, <1>3, <1>4, ChildOnPath
<1>6. Len(p) \in Nat /\ Len(p) <= Len(buf) /\ \A i \in 1 .. Len(p) : p[i] = buf[i]
  BY <1>2, <1>3, SmallFacts DEF Covers
<1>7. pos + 1 \in 1 .. Len(p)
  BY <1>1, <1>5, <1>6, SMT
<1> QED
  BY <1>1, <1>2, <1>5, <1>6, <1>7, SMT

\* With no instance on its way the oid is not that of a variable.
LEMMA NoObject ==
  ASSUME TreeInv, In, orig \in SmallOID, \A p \in Instances : ~ Covers(p, orig)
  PROVE  SearchTag(KnownOids, Served, view, orig) = "NO_SUCH_OBJ"
<1>1. orig \notin Served
  BY ServedFacts DEF Instances
<1>2. orig \notin Instances
  <2>1. Covers(orig, orig)
    BY SMT DEF SmallOID, Covers
  <2> QED
    BY <2>1
<1>3. ASSUME NEW p \in Instances, NEW s \in Known[p], orig = p \o s PROVE FALSE
  BY <1>3, KnownFacts
<1>4. orig \notin KnownOids
  BY <1>2, <1>3, KnownIs
<1> QED
  BY <1>1, <1>4, TagIs

\* The walk ends: it is the answer to GET, and the start of the loop for GETNEXT.
LEMMA ReturnStep ==
  ASSUME SearchInv, pc = "walk", NEW t, NEW e, WalkReturns(t, e),
         t \in {"VALUE", "NO_SUCH_OBJ", "NO_SUCH_INST"}, e \in {0, GEN_ERR},
         request = "GET" => t = SearchTag(KnownOids, Served, view, orig),
         request = "GETNEXT" => IsTop(node)
  PROVE  SearchInv'
<1>1. UNCHANGED <<treevars, args>> /\ orig \in SmallOID
  BY RunFacts DEF WalkReturns
<1>2. CASE request = "GET"
  <2>1. Answer(t, orig, e)
    BY <1>2 DEF WalkReturns
  <2> QED
    BY <1>1, <1>2, <2>1, ToDone, SMT
<1>3. CASE request = "GETNEXT"
  <2>1. EnterNext
    BY <1>3 DEF WalkReturns
  <2> QED
    BY <1>1, <1>3, <2>1, EnterStep
<1>4. request \in {"GET", "GETNEXT"}
  BY DEF SearchInv, TypeOK
<1> QED
  BY <1>2, <1>3, <1>4

\* No child of the group leads on.
LEMMA WalkAbsentStep ==
  ASSUME SearchInv, WalkAbsent
  PROVE  SearchInv'
<1>1. /\ Walking /\ pc = "walk" /\ type[node] = "group" /\ Search < 0 /\ WalkReturns("NO_SUCH_OBJ", 0)
      /\ TreeInv /\ orig \in SmallOID
  BY RunFacts DEF WalkAbsent, Walking
<1>2. /\ Node(node) /\ Len(node) = pos /\ Covers(node, buf) /\ ~ Contains(sub_id[node], buf[pos + 1])
      /\ request = "GET" => buf = orig /\ In
      /\ request = "GETNEXT" => buf = view /\ Started
  BY <1>1, WalkFacts
<1>3. ASSUME request = "GET" PROVE "NO_SUCH_OBJ" = SearchTag(KnownOids, Served, view, orig)
  <2>1. \A p \in Instances : ~ Covers(p, orig)
    BY <1>1, <1>2, <1>3, InstanceAhead
  <2> QED
    BY <1>1, <1>2, <1>3, <2>1, NoObject
<1>4. ASSUME request = "GETNEXT" PROVE IsTop(node)
  BY <1>2, <1>4 DEF IsTop
<1> QED
  BY <1>1, <1>3, <1>4, ReturnStep

\* The walk ends at an instance node with some of the oid left.
LEMMA WalkInstanceStep ==
  ASSUME SearchInv, WalkInstance
  PROVE  SearchInv'
<1> DEFINE row == SubSeq(buf, pos + 1, Len(buf))
           t == HandlerTag(node, row)
           e == IF row \in rows[node] \cap Failing THEN GEN_ERR ELSE 0
<1>1. /\ pc = "walk" /\ id_len > 0 /\ type[node] = "instance" /\ WalkReturns(t, e) /\ TreeInv
      /\ orig \in SmallOID /\ pos \in Nat /\ Len(buf) \in Nat
  BY RunFacts DEF WalkInstance, Walking
<1>2. /\ node \in Path /\ Node(node) /\ Len(node) = pos /\ Covers(node, buf) /\ id_len = Len(buf) - pos
      /\ request = "GET" => buf = orig /\ In
      /\ request = "GETNEXT" => buf = view /\ Started
  BY <1>1, WalkFacts
<1>3. ASSUME request = "GET" PROVE t = SearchTag(KnownOids, Served, view, orig)
  <2>1. orig \in Served <=> row \in rows[node]
    BY <1>1, <1>2, <1>3, ServedHere
  <2>2. node # orig
    <3>1. Len(node) # Len(buf)
      BY <1>1, <1>2, SMT
    <3> QED
      BY <1>2, <1>3, <3>1
  <2>3. orig \in KnownOids <=> row \in Known[node]
    BY <1>1, <1>2, <1>3, <2>2, KnownHere
  <2> HIDE DEF row
  <2> QED
    BY <1>2, <1>3, <2>1, <2>3, TagIs DEF HandlerTag
<1>4. ASSUME request = "GETNEXT" PROVE IsTop(node)
  BY <1>1, <1>2, <1>4 DEF IsTop
<1>5. t \in {"VALUE", "NO_SUCH_OBJ", "NO_SUCH_INST"} /\ e \in {0, GEN_ERR}
  BY DEF HandlerTag
<1> HIDE DEF t, e
<1> QED
  BY <1>1, <1>3, <1>4, <1>5, ReturnStep

\* The walk ends at the node of the oid itself, which is not that of a variable.
LEMMA WalkEndStep ==
  ASSUME SearchInv, WalkEnd
  PROVE  SearchInv'
<1> DEFINE t == IF type[node] = "instance" THEN "NO_SUCH_INST" ELSE "NO_SUCH_OBJ"
<1>1. pc = "walk" /\ id_len = 0 /\ WalkReturns(t, 0) /\ TreeInv /\ orig \in SmallOID
  BY RunFacts DEF WalkEnd
<1>2. /\ node \in Path /\ Node(node) /\ Len(node) = pos /\ node = buf /\ Covers(node, buf)
      /\ request = "GET" => buf = orig /\ In
      /\ request = "GETNEXT" => buf = view /\ Started
  BY <1>1, WalkFacts
<1>3. ASSUME request = "GET" PROVE t = SearchTag(KnownOids, Served, view, orig)
  <2>1. CASE type[node] = "instance"
    <3>1. SubSeq(orig, Len(orig) + 1, Len(orig)) = <<>>
      BY <1>1, SMT DEF SmallOID
    <3>2. <<>> \notin rows[node]
      BY <1>1, <1>2, PathFacts
    <3>3. orig \notin Served
      BY <1>1, <1>2, <1>3, <2>1, <3>1, <3>2, ServedHere
    <3>4. orig \in KnownOids
      BY <1>2, <1>3, <2>1, KnownIs DEF Instances
    <3> QED
      BY <1>2, <1>3, <2>1, <3>3, <3>4, TagIs
  <2>2. CASE type[node] # "instance"
    <3>1. type[node] = "group"
      BY <1>1, <1>2, <2>2, PathFacts DEF Node
    <3>2. ASSUME NEW p \in Instances, Covers(p, orig) PROVE FALSE
      <4>1. id_len > 0
        BY <1>1, <1>3, <3>1, <3>2, InstanceAhead
      <4> QED
        BY <1>1, <4>1, SMT
    <3> QED
      BY <1>1, <1>2, <1>3, <2>2, <3>2, NoObject
  <2> QED
    BY <2>1, <2>2
<1>4. ASSUME request = "GETNEXT" PROVE IsTop(node)
  BY <1>2, <1>4 DEF IsTop
<1>5. t \in {"VALUE", "NO_SUCH_OBJ", "NO_SUCH_INST"} /\ 0 \in {0, GEN_ERR}
  OBVIOUS
<1> HIDE DEF t
<1> QED
  BY <1>1, <1>3, <1>4, <1>5, ReturnStep
-----------------------------------------------------------------------------
\* A call leaves the tree alone.
LEMMA SameTree ==
  ASSUME TreeInv, UNCHANGED treevars
  PROVE  TreeInv'
BY DEF TreeInv, treevars

\* The walk starts at the root.
LEMMA StartStep ==
  ASSUME SearchInv, pc = "idle", NEW o \in SmallOID, StartWalk(o), request' \in {"GET", "GETNEXT"},
         view' \in SmallOID, orig' \in SmallOID,
         IF request' = "GET" THEN o = orig' /\ In' ELSE o = view' /\ Started'
  PROVE  SearchInv'
<1>1. /\ pc' = "walk" /\ buf' = o /\ pos' = 0 /\ id_len' = Len(o) /\ node' = Root
      /\ UNCHANGED <<treevars, immediate, p_nbl, stk, tag, answer, err_stat>>
  BY DEF StartWalk
<1>2. stk = <<>> /\ p_nbl = NoEntry
  BY DEF SearchInv, IdleInv
<1>3. TreeInv'
  BY <1>1, SameTree DEF SearchInv
<1>4. Len(o) \in Nat /\ Root \in Path /\ SubSeq(o, 1, 0) = Root
  BY SmallFacts, PrefixFacts, SearchAssumption, SMT DEF Root
<1>5. TypeOK'
  BY <1>1, <1>4 DEF SearchInv, TypeOK, treevars
<1>6. WalkInv'
  <2>1. type'[Root] = "group"
    BY <1>3 DEF TreeInv
  <2>2. At(buf, pos, node)'
    BY <1>1, <1>4, <2>1 DEF At, Node
  <2>3. pos' <= Len(buf') /\ id_len' = Len(buf') - pos'
    BY <1>1, <1>4, SMT
  <2> QED
    BY <1>1, <1>2, <2>2, <2>3 DEF WalkInv
<1> QED
  BY <1>1, <1>3, <1>5, <1>6 DEF SearchInv, IdleInv, NextInv, BackInv, GetFinds, NextIsClosest

\* GET of an oid: the view has to cover it.
LEMMA GetStep ==
  ASSUME SearchInv, NEW v \in ViewOid, NEW o \in ReqOid, mib_tree_search(v, o)
  PROVE  SearchInv'
<1>1. v \in SmallOID /\ o \in SmallOID /\ v \in OID /\ o \in OID
  BY SearchAssumption, SmallFacts
<1>2. pc = "idle" /\ request' = "GET" /\ view' = v /\ orig' = o
  BY DEF mib_tree_search
<1>3. oid_cover(v, o) \in {-1, 0, 1} /\ (oid_cover(v, o) > 0 <=> Covers(v, o)) /\ (In' <=> Covers(v, o))
  BY <1>1, <1>2, CoverPrefix, CoverSign DEF In
<1>4. CASE oid_cover(v, o) <= 0
  <2>1. Answer("NO_SUCH_OBJ", o, 0) /\ UNCHANGED treevars /\ ~ Covers(v, o)
    BY <1>3, <1>4, SMT DEF mib_tree_search
  <2>2. TreeInv'
    BY <2>1, SameTree DEF SearchInv
  <2>3. TypeOK'
    <3>1. <<>> \in SmallOID /\ Root \in Path /\ <<>> \in Seq(Entry)
      BY SearchAssumption, SMT DEF SmallOID, Root
    <3> QED
      BY <1>1, <1>2, <2>1, <3>1 DEF SearchInv, TypeOK, Entry, Answer, treevars
  <2>4. GetFinds'
    BY <1>2, <2>1 DEF GetFinds, SearchTag, Answer
  <2> QED
    BY <1>2, <2>1, <2>2, <2>3, <2>4
    DEF SearchInv, Answer, IdleInv, WalkInv, NextInv, BackInv, NextIsClosest
<1>5. CASE ~ (oid_cover(v, o) <= 0)
  <2>1. StartWalk(o)
    BY <1>5 DEF mib_tree_search
  <2>2. In'
    BY <1>3, <1>5, SMT
  <2> QED
    BY <1>1, <1>2, <2>1, <2>2, StartStep
<1> QED
  BY <1>4, <1>5

\* GETNEXT of an oid: in the view, ahead of it or beyond all of it.
LEMMA GetNextStep ==
  ASSUME SearchInv, NEW v \in ViewOid, NEW o \in ReqOid, mib_tree_search_next(v, o)
  PROVE  SearchInv'
<1>1. v \in SmallOID /\ o \in SmallOID /\ v \in OID /\ o \in OID
  BY SearchAssumption, SmallFacts
<1>2. pc = "idle" /\ request' = "GETNEXT" /\ view' = v /\ orig' = o
  BY DEF mib_tree_search_next
<1>3. Started' <=> oid_cover(v, o) > 0 \/ Ahead(v, o)
  BY <1>1, <1>2, CoverSign, CmpSign DEF Started, In, Ahead
<1>4. CASE oid_cover(v, o) > 0 \/ Ahead(v, o)
  <2>1. StartWalk(v)
    BY <1>4 DEF mib_tree_search_next
  <2> QED
    BY <1>1, <1>2, <1>3, <1>4, <2>1, StartStep
<1>5. CASE ~ (oid_cover(v, o) > 0 \/ Ahead(v, o))
  <2>1. /\ pc' = "backtrack" /\ node' = NULL
        /\ UNCHANGED <<treevars, buf, pos, id_len, immediate, p_nbl, stk, tag, answer, err_stat>>
    BY <1>5 DEF mib_tree_search_next
  <2>2. TreeInv'
    BY <2>1, SameTree DEF SearchInv
  <2>3. TypeOK'
    BY <1>1, <1>2, <2>1 DEF SearchInv, TypeOK, treevars
  <2>4. ~ Started' /\ stk' = <<>>
    BY <1>2, <1>3, <1>5, <2>1 DEF SearchInv, IdleInv
  <2> QED
    BY <1>2, <2>1, <2>2, <2>3, <2>4 DEF SearchInv, IdleInv, WalkInv, NextInv, BackInv, GetFinds, NextIsClosest
<1> QED
  BY <1>4, <1>5

\* The caller takes the answer.
LEMMA TakenStep ==
  ASSUME SearchInv, Taken
  PROVE  SearchInv'
<1>1. /\ pc = "done" /\ pc' = "idle" /\ tag' = "NONE" /\ answer' = <<>> /\ err_stat' = 0
      /\ request' = "GET" /\ view' = <<>> /\ orig' = <<>>
      /\ UNCHANGED <<treevars, buf, pos, id_len, node, immediate, p_nbl, stk>>
  BY DEF Taken
<1>2. TreeInv'
  BY <1>1, SameTree DEF SearchInv
<1>3. TypeOK'
  <2>1. <<>> \in SmallOID
    BY SMT DEF SmallOID
  <2> QED
    BY <1>1, <2>1 DEF SearchInv, TypeOK, treevars
<1>4. IdleInv'
  BY <1>1 DEF SearchInv, IdleInv
<1> QED
  BY <1>1, <1>2, <1>3, <1>4 DEF SearchInv, WalkInv, NextInv, BackInv, GetFinds, NextIsClosest

\* A step that changes nothing.
LEMMA StutterStep ==
  ASSUME SearchInv, UNCHANGED vars
  PROVE  SearchInv'
<1>1. /\ UNCHANGED <<treevars, args>> /\ pc' = pc /\ buf' = buf /\ pos' = pos /\ id_len' = id_len /\ node' = node
      /\ immediate' = immediate /\ p_nbl' = p_nbl /\ stk' = stk
      /\ tag' = tag /\ answer' = answer /\ err_stat' = err_stat
  BY DEF vars
<1>2. TypeOK'
  BY <1>1, SMT DEF SearchInv, TypeOK, treevars, args
<1>3. TreeInv' /\ (In' <=> In) /\ (Started' <=> Started)
  BY <1>1, Frame DEF SearchInv
<1>4. /\ request' = request /\ view' = view /\ orig' = orig
      /\ type' = type /\ rows' = rows /\ sub_id' = sub_id
  BY <1>1 DEF args, treevars
<1>5. IdleInv'
  BY <1>1 DEF SearchInv, IdleInv
<1>6. WalkInv'
  BY <1>1, <1>3, <1>4 DEF SearchInv, WalkInv, At, Node
<1>7. GetFinds' /\ NextIsClosest'
  <2>1. Instances' = Instances /\ Served' = Served /\ Erring' = Erring
    BY <1>4, SMT DEF Instances, Served, Erring
  <2>2. KnownOids' = KnownOids
    BY <2>1 DEF KnownOids
  <2> QED
    BY <1>1, <1>4, <2>1, <2>2 DEF SearchInv, GetFinds, NextIsClosest, Result
<1>8. CASE pc = "next"
  BY <1>1, <1>2, <1>8, ToNext, SMT DEF SearchInv, NextInv
<1>9. CASE pc = "backtrack" /\ Started
  BY <1>1, <1>2, <1>9, ToBack DEF SearchInv, BackInv
<1>10. CASE pc = "backtrack" /\ ~ Started
  <2>1. BackInv'
    BY <1>1, <1>3, <1>4, <1>10 DEF SearchInv, BackInv
  <2>2. NextInv'
    BY <1>1, <1>10 DEF NextInv
  <2> QED
    BY <1>2, <1>3, <1>5, <1>6, <1>7, <2>1, <2>2 DEF SearchInv
<1>11. CASE pc \notin {"next", "backtrack"}
  BY <1>1, <1>2, <1>3, <1>5, <1>6, <1>7, <1>11 DEF SearchInv, NextInv, BackInv
<1> QED
  BY <1>8, <1>9, <1>10, <1>11

\* Before the first call.
LEMMA InitSearch == Init => SearchInv
<1> SUFFICES ASSUME Init PROVE SearchInv
  OBVIOUS
<1>1. TreeInv
  BY InitTree
<1>2. /\ pc = "idle" /\ request = "GET" /\ view = <<>> /\ orig = <<>> /\ buf = <<>> /\ pos = 0 /\ id_len = 0
      /\ node = Root /\ immediate = FALSE /\ p_nbl = NoEntry /\ stk = <<>>
      /\ tag = "NONE" /\ answer = <<>> /\ err_stat = 0
  BY DEF Init
<1>3. TypeOK
  <2>1. <<>> \in SmallOID /\ Root \in Path /\ <<>> \in Seq(Entry)
    BY SearchAssumption, SMT DEF SmallOID, Root
  <2> QED
    BY <1>1, <1>2, <2>1 DEF TreeInv, TypeOK, Entry
<1> QED
  BY <1>1, <1>2, <1>3 DEF SearchInv, IdleInv, WalkInv, NextInv, BackInv, GetFinds, NextIsClosest

(***************************************************************************)
(* The invariant of mib_tree_search and mib_tree_search_next: every entry  *)
(* of the traversal stack names the child that is next, in the order of    *)
(* oids, and whatever is still wanted is not before the cursor.  It holds  *)
(* for every tree, handler, view and request, and every stack that is as   *)
(* deep as the tree.                                                       *)
(***************************************************************************)
THEOREM SearchInvariant == Spec => []SearchInv
<1>1. SearchInv /\ [Next]_vars => SearchInv'
  <2> SUFFICES ASSUME SearchInv, [Next]_vars PROVE SearchInv'
    OBVIOUS
  <2>1. CASE Call
    <3>1. PICK v \in ViewOid, o \in ReqOid : mib_tree_search(v, o) \/ mib_tree_search_next(v, o)
      BY <2>1 DEF Call
    <3> QED
      BY <3>1, GetStep, GetNextStep
  <2>2. CASE walk
    BY <2>2, WalkDescendStep, WalkAbsentStep, WalkInstanceStep, WalkEndStep DEF walk
  <2>3. CASE search_next
    BY <2>3, ImmediateStep, PastStep, AllStep, MatchStep, AbortStep, InstanceStep, NullStep, PopStep, EndStep
    DEF search_next
  <2>4. CASE Taken
    BY <2>4, TakenStep
  <2>5. CASE UNCHANGED vars
    BY <2>5, StutterStep
  <2> QED
    BY <2>1, <2>2, <2>3, <2>4, <2>5 DEF Next, Step
<1> QED
  BY <1>1, InitSearch, PTL DEF Spec

\* mib_tree_search answers GET with a value exactly if the oid is in the view and
\* an instance's handler serves it; with a missing instance exactly if the oid is
\* in the view and otherwise that of an instance node, or within an accessible
\* object of the one handler that the tree has for it; and else with a missing
\* object, as the handler (init.lua) and a failing call of it (mib_tree.c) do.
THEOREM GetAlwaysFinds == Spec => []GetFinds
<1>1. SearchInv => GetFinds
  BY DEF SearchInv
<1> QED
  BY <1>1, SearchInvariant, PTL

\* mib_tree_search_next answers GETNEXT with the closest next variable of the
\* view, through any mixture of matches, pushes, pops, empty groups and handlers
\* that have nothing, and ends with END_OF_MIB_VIEW only if there is none.  It is
\* about calls that return: the oid found may fail the assertion on its length.
THEOREM NextAlwaysClosest == Spec => []NextIsClosest
<1>1. SearchInv => NextIsClosest
  BY DEF SearchInv
<1> QED
  BY <1>1, SearchInvariant, PTL

\* The part of the oid up to the cursor is the path of the cursor's node, in both
\* loops and after any number of pops.
THEOREM CursorAlwaysMatches == Spec => []CursorMatches
<1>1. SearchInv => CursorMatches
  BY DEF SearchInv, CursorMatches, WalkInv, NextInv, At
<1> QED
  BY <1>1, SearchInvariant, PTL
=============================================================================
