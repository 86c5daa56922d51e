--------------------------- MODULE MibViewProofs ---------------------------
(***************************************************************************)
(* The view lists of MibView, for every set of names and of oids: they     *)
(* stay sorted and free of overlaps, and what may be written may be read.  *)
(***************************************************************************)
EXTENDS MibView, OidProofs

-----------------------------------------------------------------------------
\* A list without overlaps and in ascending order.
Good(vs) ==
  \A i, j \in 1 .. Len(vs) :
    (i # j => oid_cover(vs[i], vs[j]) = 0) /\ (i < j => OidLess(vs[i], vs[j]))

\* The two invariants of the view lists, list by list.
LEMMA GoodLists == ViewsAntichain /\ ViewsSorted <=> \A k \in Key : Good(views[k])
BY DEF ViewsAntichain, ViewsSorted, Good

\* Deleting an entry, as the filter does, keeps a list good.
LEMMA RemoveGood ==
  ASSUME NEW s \in Seq(SmallOID), NEW n \in 1 .. Len(s), Good(s)
  PROVE  Good(RemoveAt(s, n))
<1> DEFINE r == RemoveAt(s, n)
           up(j) == IF j < n THEN j ELSE j + 1
<1>1. Len(s) \in Nat /\ n \in Nat
  OBVIOUS
<1>2. Len(r) = Len(s) - 1 /\ \A j \in 1 .. (Len(s) - 1) : r[j] = IF j < n THEN s[j] ELSE s[j + 1]
  BY RemoveAtFacts
<1> HIDE DEF r
<1>3. SUFFICES ASSUME NEW i \in 1 .. (Len(s) - 1), NEW j \in 1 .. (Len(s) - 1)
               PROVE  (i # j => oid_cover(r[i], r[j]) = 0) /\ (i < j => OidLess(r[i], r[j]))
  BY <1>2 DEF Good, r
<1>4. /\ up(i) \in 1 .. Len(s) /\ up(j) \in 1 .. Len(s)
      /\ i # j => up(i) # up(j)
      /\ i < j => up(i) < up(j)
  BY <1>1
<1>5. r[i] = s[up(i)] /\ r[j] = s[up(j)]
  BY <1>2
<1> HIDE DEF up
<1> QED
  BY <1>4, <1>5 DEF Good

\* Inserting an oid that overlaps with no entry before the first greater one, as
\* the add loop does, keeps a list good.
LEMMA InsertGood ==
  ASSUME NEW s \in Seq(SmallOID), NEW n \in 1 .. (Len(s) + 1), NEW e \in SmallOID, Good(s),
         \A j \in 1 .. Len(s) : oid_cover(s[j], e) = 0 /\ (j < n => OidLess(s[j], e)),
         n <= Len(s) => OidLess(e, s[n])
  PROVE  Good(InsertAt(s, n, e))
<1> DEFINE r == InsertAt(s, n, e)
           down(j) == IF j < n THEN j ELSE j - 1
<1>1. Len(s) \in Nat /\ n \in Nat /\ \A j \in 1 .. Len(s) : s[j] \in SmallOID
  OBVIOUS
<1>2. /\ Len(r) = Len(s) + 1
      /\ \A j \in 1 .. (Len(s) + 1) :
           /\ j < n => r[j] = s[j]
           /\ j = n => r[j] = e
           /\ j > n => r[j] = s[j - 1]
  <2>1. Len(r) = Len(s) + 1
    BY InsertAtFacts
  <2>2. ASSUME NEW j \in 1 .. (Len(s) + 1)
        PROVE  /\ j < n => r[j] = s[j]
               /\ j = n => r[j] = e
               /\ j > n => r[j] = s[j - 1]
    BY InsertAtFacts
  <2> QED
    BY ONLY <2>1, <2>2
<1> HIDE DEF r
<1>3. \A j \in 1 .. Len(s) : oid_cover(e, s[j]) = 0
  <2>1. ASSUME NEW j \in 1 .. Len(s) PROVE oid_cover(e, s[j]) = 0
    <3>1. s[j] \in OID /\ e \in OID
      BY <1>1, SmallIsOid
    <3> QED
      BY <3>1, CoverSign
  <2> QED
    BY <2>1
<1>4. \A j \in 1 .. Len(s) : n <= j => OidLess(e, s[j])
  <2>1. ASSUME NEW j \in 1 .. Len(s), n <= j PROVE OidLess(e, s[j])
    <3>1. CASE j = n
      BY <3>1
    <3>2. CASE j # n
      <4>1. n \in 1 .. Len(s) /\ n < j
        BY <2>1, <3>2, <1>1
      <4>2. OidLess(s[n], s[j]) /\ OidLess(e, s[n])
        BY <4>1, <2>1, <1>1 DEF Good
      <4> QED
        BY <4>1, <4>2, <1>1, OidLessTransitive
    <3> QED
      BY <3>1, <3>2
  <2> QED
    BY <2>1
<1>5. SUFFICES ASSUME NEW i \in 1 .. (Len(s) + 1), NEW j \in 1 .. (Len(s) + 1)
               PROVE  (i # j => oid_cover(r[i], r[j]) = 0) /\ (i < j => OidLess(r[i], r[j]))
  BY <1>2 DEF Good, r
<1>6. \A k \in 1 .. (Len(s) + 1) : k # n => down(k) \in 1 .. Len(s) /\ r[k] = s[down(k)]
  BY <1>1, <1>2
<1>7. r[n] = e
  BY <1>1, <1>2
<1>8. CASE i # n /\ j # n
  <2>1. (i # j => down(i) # down(j)) /\ (i < j => down(i) < down(j))
    BY <1>8, <1>1
  <2>2. /\ down(i) \in 1 .. Len(s) /\ down(j) \in 1 .. Len(s)
        /\ r[i] = s[down(i)] /\ r[j] = s[down(j)]
    BY <1>6, <1>8
  <2> HIDE DEF down
  <2> QED
    BY <2>1, <2>2 DEF Good
<1>9. CASE i = n /\ j # n
  <2>1. i < j => n <= down(j)
    BY <1>9, <1>1
  <2>2. down(j) \in 1 .. Len(s) /\ r[j] = s[down(j)] /\ r[i] = e
    BY <1>6, <1>7, <1>9
  <2> HIDE DEF down
  <2> QED
    BY <2>1, <2>2, <1>3, <1>4
<1>10. CASE i # n /\ j = n
  <2>1. i < j => down(i) < n
    BY <1>10, <1>1
  <2>2. down(i) \in 1 .. Len(s) /\ r[i] = s[down(i)] /\ r[j] = e
    BY <1>6, <1>7, <1>10
  <2> HIDE DEF down
  <2> QED
    BY <2>1, <2>2
<1>11. CASE i = n /\ j = n
  BY <1>11, <1>1
<1> QED
  BY <1>8, <1>9, <1>10, <1>11
-----------------------------------------------------------------------------
\* The lists are lists of oids, small enough for oid_cmp to order them.
LEMMA ListTypes ==
  ASSUME TypeOK
  PROVE  /\ <<who, list>> \in Key
         /\ Bound \in Seq(ViewOid) /\ Bound \in Seq(SmallOID)
         /\ oid \in ViewOid /\ oid \in SmallOID
         /\ \A k \in Key : views[k] \in Seq(ViewOid) /\ views[k] \in Seq(SmallOID)
<1>1. ViewOid \subseteq SmallOID
  BY ViewAssumption
<1>2. \A k \in Key : views[k] \in Seq(ViewOid)
  BY DEF TypeOK, Key
<1>3. \A k \in Key : views[k] \in Seq(SmallOID)
  BY <1>1, <1>2, SeqWiden
<1>4. <<who, list>> \in Key
  BY DEF TypeOK, Key
<1> QED
  BY <1>1, <1>2, <1>3, <1>4 DEF TypeOK, Bound

\* The steps, with communities and users taken together.
LEMMA NextCases ==
  ASSUME Next
  PROVE  \/ \E p \in Principal, o \in ViewOid, a \in Attr : StartReg(p, o, a)
         \/ \E p \in Principal, a \in Attr : StartUnreg(p, a)
         \/ FilterCovered \/ FilterDelete \/ FilterSkip \/ FilterEnd
         \/ AddSkip \/ AddInsert
         \/ UnregMatch \/ UnregSkip \/ UnregEnd
<1>1. CASE Call
  BY <1>1, ViewAssumption
     DEF Call, mib_community_reg, mib_user_reg, mib_community_unreg, mib_user_unreg, Principal
<1>2. CASE Step
  BY <1>2 DEF Step, community_view_filter, user_view_filter, view_filter, community_view_add,
     user_view_add, view_add, community_unreg_loop, user_unreg_loop, unreg_loop
<1> QED
  BY <1>1, <1>2 DEF Next

\* What an unregistration leaves of the lists and links.
LEMMA UnregViews ==
  ASSUME UnregMatch
  PROVE  /\ \A k \in Key : views'[k] = IF k[1] = who /\ k[2] \in RemovedAttrs THEN <<>> ELSE views[k]
         /\ vlink' = {l \in vlink : ~(l[1] = who /\ l[2] \in RemovedAttrs)}
BY DEF UnregMatch, view_remove, Key

\* The lists of names stay lists of names.
LEMMA NamesType ==
  ASSUME TypeOK, Next
  PROVE  mib_communities' \in Seq(Community) /\ mib_users' \in Seq(User)
<1> USE DEF TypeOK
<1>1. ASSUME NEW c \in Community, NEW o, NEW a, mib_community_reg(c, o, a)
      PROVE  mib_communities' \in Seq(Community) /\ mib_users' \in Seq(User)
  <2>1. <<c>> \o mib_communities \in Seq(Community)
    BY ConcatIs
  <2> QED
    BY <1>1, <2>1 DEF mib_community_reg, community_create
<1>2. ASSUME NEW u \in User, NEW o, NEW a, mib_user_reg(u, o, a)
      PROVE  mib_communities' \in Seq(Community) /\ mib_users' \in Seq(User)
  <2>1. <<u>> \o mib_users \in Seq(User)
    BY ConcatIs
  <2> QED
    BY <1>2, <2>1 DEF mib_user_reg, user_create
<1>3. CASE UnregMatch
  <2>1. CASE who \in Community
    <3>1. RemoveAt(mib_communities, curr) \in Seq(Community)
      BY <1>3, <2>1, RemoveAtFacts DEF UnregMatch, CallNames
    <3> QED
      BY <1>3, <2>1, <3>1 DEF UnregMatch, CallNames
  <2>2. CASE who \notin Community
    <3>1. RemoveAt(mib_users, curr) \in Seq(User)
      BY <1>3, <2>2, RemoveAtFacts DEF UnregMatch, CallNames
    <3> QED
      BY <1>3, <2>2, <3>1 DEF UnregMatch, CallNames
  <2> QED
    BY <2>1, <2>2
<1>4. CASE UNCHANGED <<mib_communities, mib_users>>
  BY <1>4
<1>5. CASE Call
  BY <1>1, <1>2, <1>4, <1>5 DEF Call, mib_community_unreg, mib_user_unreg, StartUnreg
<1>6. CASE Step
  BY <1>3, <1>4, <1>6 DEF Step, community_view_filter, user_view_filter, view_filter,
     community_view_add, user_view_add, view_add, community_unreg_loop, user_unreg_loop, unreg_loop,
     FilterCovered, FilterDelete, FilterSkip, FilterEnd, AddSkip, AddInsert, UnregSkip, UnregEnd
<1> QED
  BY <1>5, <1>6 DEF Next

\* TypeOK is preserved; the insertion point needs CursorInv.
LEMMA TypeStep ==
  ASSUME TypeOK, CursorInv, [Next]_vars
  PROVE  TypeOK'
<1>1. CASE UNCHANGED vars
  BY <1>1 DEF TypeOK, vars
<1>2. CASE Next
  <2>0. mib_communities' \in Seq(Community) /\ mib_users' \in Seq(User)
    BY <1>2, NamesType
  <2> USE <2>0 DEF TypeOK
  <2>1. ASSUME NEW p \in Principal, NEW o \in ViewOid, NEW a \in Attr, StartReg(p, o, a)
        PROVE  TypeOK'
    BY <2>1 DEF StartReg
  <2>2. ASSUME NEW p \in Principal, NEW a \in Attr, StartUnreg(p, a)
        PROVE  TypeOK'
    BY <2>2 DEF StartUnreg
  <2>3. CASE FilterCovered
    BY <2>3 DEF FilterCovered, BindReturns, Attr
  <2>4. CASE FilterDelete
    <3>1. RemoveAt(Bound, curr) \in Seq(ViewOid)
      BY <2>4, ListTypes, RemoveAtFacts DEF FilterDelete, Filtering
    <3>2. views' \in [Principal \X Attr -> Seq(ViewOid)]
      BY <2>4, <3>1 DEF FilterDelete, Bound
    <3> QED
      BY <2>4, <3>2 DEF FilterDelete
  <2>5. CASE FilterSkip
    BY <2>5 DEF FilterSkip
  <2>6. CASE FilterEnd
    BY <2>6 DEF FilterEnd
  <2>7. CASE AddSkip
    BY <2>7 DEF AddSkip
  <2>8. CASE AddInsert
    <3>1. curr \in 1 .. (Len(Bound) + 1)
      BY <2>8, ListTypes DEF AddInsert, CursorInv
    <3>2. InsertAt(Bound, curr, oid) \in Seq(ViewOid)
      BY <3>1, ListTypes, InsertAtFacts
    <3>3. views' \in [Principal \X Attr -> Seq(ViewOid)]
      BY <2>8, <3>2 DEF AddInsert, Bound
    <3> QED
      BY <2>8, <3>3 DEF AddInsert, BindReturns, Attr
  <2>9. CASE UnregMatch
    <3>1. views' \in [Principal \X Attr -> Seq(ViewOid)]
      BY <2>9 DEF UnregMatch, view_remove
    <3>2. vlink' \subseteq vlink
      BY <2>9 DEF UnregMatch, view_remove
    <3> QED
      BY <2>9, <3>1, <3>2 DEF UnregMatch
  <2>10. CASE UnregSkip
    BY <2>10 DEF UnregSkip
  <2>11. CASE UnregEnd
    BY <2>11 DEF UnregEnd
  <2> QED
    BY <1>2, NextCases, <2>1, <2>2, <2>3, <2>4, <2>5, <2>6, <2>7, <2>8, <2>9, <2>10, <2>11
<1> QED
  BY <1>1, <1>2

\* A step that changes one list, or none, leaves the others as they are.
LEMMA OtherLists ==
  ASSUME TypeOK, NEW new, views' = [views EXCEPT ![<<who, list>>] = new]
  PROVE  /\ views'[<<who, list>>] = new
         /\ \A k \in Key : k # <<who, list>> => views'[k] = views[k]
BY DEF TypeOK, Key

Lists == \A k \in Key : Good(views[k])

\* The lists stay good: a filter step deletes, an add step inserts where
\* CursorInv says it may, an unregistration empties.
LEMMA ListsStep ==
  ASSUME TypeOK, Lists, CursorInv, [Next]_vars
  PROVE  Lists'
<1>1. CASE UNCHANGED views
  BY <1>1 DEF Lists, Good
<1>2. CASE FilterDelete
  <2>1. curr \in 1 .. Len(Bound) /\ Bound \in Seq(SmallOID) /\ Good(Bound)
    BY <1>2, ListTypes DEF FilterDelete, Filtering, TypeOK, Lists, Bound
  <2>2. Good(RemoveAt(Bound, curr))
    BY <2>1, RemoveGood
  <2>3. views' = [views EXCEPT ![<<who, list>>] = RemoveAt(Bound, curr)]
    BY <1>2 DEF FilterDelete, Bound
  <2>4. /\ views'[<<who, list>>] = RemoveAt(Bound, curr)
        /\ \A k \in Key : k # <<who, list>> => views'[k] = views[k]
    BY <2>3, OtherLists
  <2>5. \A k \in Key : Good(views'[k])
    BY <2>2, <2>4 DEF Lists
  <2> QED
    BY <2>5 DEF Lists, Good
<1>3. CASE AddInsert
  <2>1. curr \in 1 .. (Len(Bound) + 1) /\ Bound \in Seq(SmallOID) /\ oid \in SmallOID /\ Good(Bound)
    BY <1>3, ListTypes DEF AddInsert, CursorInv, TypeOK, Lists, Bound
  <2>2. \A j \in 1 .. Len(Bound) : oid_cover(Bound[j], oid) = 0 /\ (j < curr => OidLess(Bound[j], oid))
    BY <1>3 DEF AddInsert, CursorInv
  <2>3. curr <= Len(Bound) => OidLess(oid, Bound[curr])
    <3>1. curr <= Len(Bound) => Bound[curr] \in SmallOID /\ oid_cmp(Bound[curr], oid) > 0
      BY <1>3, <2>1 DEF AddInsert
    <3> QED
      BY <2>1, <3>1, CmpSign
  <2>4. Good(InsertAt(Bound, curr, oid))
    BY <2>1, <2>2, <2>3, InsertGood
  <2>5. views' = [views EXCEPT ![<<who, list>>] = InsertAt(Bound, curr, oid)]
    BY <1>3 DEF AddInsert, Bound
  <2>6. /\ views'[<<who, list>>] = InsertAt(Bound, curr, oid)
        /\ \A k \in Key : k # <<who, list>> => views'[k] = views[k]
    BY <2>5, OtherLists
  <2>7. \A k \in Key : Good(views'[k])
    BY <2>4, <2>6 DEF Lists
  <2> QED
    BY <2>7 DEF Lists, Good
<1>4. CASE UnregMatch
  <2>1. Good(<<>>)
    BY DEF Good
  <2>2. \A k \in Key : views'[k] = <<>> \/ views'[k] = views[k]
    BY <1>4, UnregViews
  <2>3. \A k \in Key : Good(views'[k])
    BY <2>1, <2>2 DEF Lists
  <2> QED
    BY <2>3 DEF Lists, Good
<1> QED
  BY <1>1, <1>2, <1>3, <1>4, NextCases DEF vars, StartReg, StartUnreg, FilterCovered, FilterSkip,
     FilterEnd, AddSkip, UnregSkip, UnregEnd

\* The loops of a registration preserve what they have established.
LEMMA CursorStep ==
  ASSUME TypeOK, Lists, CursorInv, [Next]_vars
  PROVE  CursorInv'
<1>a. Len(Bound) \in Nat /\ curr \in Nat \ {0} /\ TypeOK'
  BY ListTypes, TypeStep DEF TypeOK
<1>b. Len(Bound') \in Nat
  <2>1. <<who', list'>> \in Principal \X Attr /\ views' \in [Principal \X Attr -> Seq(ViewOid)]
    BY <1>a DEF TypeOK
  <2> QED
    BY <2>1 DEF Bound
\* a filter that starts, and no loop at all, has established nothing yet
<1>1. CASE pc' \notin {"filter", "add"}
  BY <1>1 DEF CursorInv
<1>2. CASE pc' = "filter" /\ curr' = 1
  <2>1. \A j \in 1 .. Len(Bound') : ~ (j < curr')
    BY <1>2, <1>b
  <2> QED
    BY <1>2, <2>1, <1>b DEF CursorInv
<1>3. CASE FilterDelete
  <2>1. curr \in 1 .. Len(Bound) /\ Bound \in Seq(SmallOID) /\ pc = "filter"
    BY <1>3, <1>a, ListTypes DEF FilterDelete, Filtering
  <2>2. views' = [views EXCEPT ![<<who, list>>] = RemoveAt(Bound, curr)]
    BY <1>3 DEF FilterDelete, Bound
  <2>3. Bound' = RemoveAt(Bound, curr)
    BY <1>3, <2>2, OtherLists DEF FilterDelete, Bound
  <2>4. /\ Len(Bound') = Len(Bound) - 1
        /\ \A j \in 1 .. (Len(Bound) - 1) : Bound'[j] = IF j < curr THEN Bound[j] ELSE Bound[j + 1]
    BY <2>1, <2>3, RemoveAtFacts
  <2>5. \A j \in 1 .. Len(Bound') : j < curr => oid_cover(Bound'[j], oid) = 0
    BY <2>1, <2>4, <1>a DEF CursorInv
  <2>6. curr <= Len(Bound') + 1
    BY <2>1, <2>4, <1>a
  <2>7. pc' = "filter" /\ curr' = curr /\ oid' = oid
    BY <1>3, <2>1 DEF FilterDelete
  <2> QED
    BY <2>5, <2>6, <2>7 DEF CursorInv
<1>4. CASE FilterSkip
  <2>1. Bound' = Bound /\ oid' = oid /\ curr' = curr + 1 /\ pc = "filter" /\ pc' = "filter"
    BY <1>4 DEF FilterSkip, Filtering, Bound
  <2>2. curr <= Len(Bound) /\ oid_cover(Bound[curr], oid) = 0
    BY <1>4 DEF FilterSkip, Filtering
  <2>3. \A j \in 1 .. Len(Bound) : j < curr + 1 => oid_cover(Bound[j], oid) = 0
    <3>1. \A j \in 1 .. Len(Bound) : j < curr + 1 => j < curr \/ j = curr
      BY <1>a
    <3> QED
      BY <2>1, <2>2, <3>1 DEF CursorInv
  <2>4. curr + 1 <= Len(Bound) + 1
    BY <2>2, <1>a
  <2> QED
    BY <2>1, <2>3, <2>4 DEF CursorInv
<1>5. CASE FilterEnd
  <2>1. Bound' = Bound /\ oid' = oid /\ curr' = 1 /\ pc = "filter" /\ pc' = "add"
    BY <1>5 DEF FilterEnd, Bound
  <2>2. \A j \in 1 .. Len(Bound) : j < curr /\ ~ (j < 1)
    BY <1>5, <1>a DEF FilterEnd
  <2>3. \A j \in 1 .. Len(Bound) : oid_cover(Bound[j], oid) = 0
    BY <2>1, <2>2 DEF CursorInv
  <2> QED
    BY <2>1, <2>2, <2>3, <1>a DEF CursorInv
<1>6. CASE AddSkip
  <2>1. Bound' = Bound /\ oid' = oid /\ curr' = curr + 1 /\ pc = "add" /\ pc' = "add"
    BY <1>6 DEF AddSkip, Bound
  <2>2. curr \in 1 .. Len(Bound) /\ oid_cmp(Bound[curr], oid) <= 0
    BY <1>6, <1>a DEF AddSkip
  <2>3. Bound[curr] \in SmallOID /\ oid \in SmallOID /\ oid_cover(Bound[curr], oid) = 0
    BY <2>1, <2>2, ListTypes DEF CursorInv
  <2>4. OidLess(Bound[curr], oid)
    <3>1. Bound[curr] \in OID /\ oid \in OID
      BY <2>3, SmallIsOid
    <3>2. Bound[curr] # oid
      <4>1. ~ Covers(Bound[curr], oid)
        BY <3>1, <2>3, CoverSign
      <4>2. Covers(oid, oid)
        BY <3>1 DEF Covers, OID
      <4> QED
        BY <4>1, <4>2
    <3>3. oid_cmp(Bound[curr], oid) \in Int /\ oid_cmp(Bound[curr], oid) # 0
      BY <3>1, <3>2, CmpZero
    <3>4. oid_cmp(Bound[curr], oid) < 0
      BY <2>2, <3>3
    <3> QED
      BY <2>3, <3>4, CmpSign
  <2>5. \A j \in 1 .. Len(Bound) : j < curr + 1 => OidLess(Bound[j], oid)
    <3>1. \A j \in 1 .. Len(Bound) : j < curr + 1 => j < curr \/ j = curr
      BY <1>a
    <3> QED
      BY <2>1, <2>4, <3>1 DEF CursorInv
  <2>6. curr + 1 <= Len(Bound) + 1
    BY <2>2, <1>a
  <2> QED
    BY <2>1, <2>5, <2>6 DEF CursorInv
<1>7. CASE UNCHANGED vars
  BY <1>7 DEF vars, CursorInv, Bound
<1> QED
  BY <1>1, <1>2, <1>3, <1>4, <1>5, <1>6, <1>7, NextCases DEF StartReg, StartUnreg, FilterCovered,
     AddInsert, BindReturns, UnregMatch, UnregSkip, UnregEnd
-----------------------------------------------------------------------------
\* A good list has no entry twice.
LEMMA GoodUnique ==
  ASSUME NEW s \in Seq(SmallOID), Good(s)
  PROVE  Unique(s)
<1> SUFFICES ASSUME NEW i \in 1 .. Len(s), NEW j \in 1 .. Len(s), i # j PROVE s[i] # s[j]
  BY DEF Unique
<1>1. s[i] \in OID /\ s[j] \in OID
  BY SmallIsOid
<1>2. ~ Covers(s[i], s[j])
  BY <1>1, CoverSign DEF Good
<1>3. Covers(s[j], s[j])
  BY <1>1 DEF Covers, OID
<1> QED
  BY <1>2, <1>3


\* What the steps do to the entries of the lists.
LEMMA DeleteEffect ==
  ASSUME TypeOK, Lists, FilterDelete
  PROVE  /\ \A o : Contains(views'[<<who, list>>], o) <=> Contains(Bound, o) /\ o # Bound[curr]
         /\ \A k \in Key : k # <<who, list>> => views'[k] = views[k]
         /\ Contains(Bound, Bound[curr]) /\ Bound[curr] \in ViewOid /\ Covers(oid, Bound[curr])
<1>1. curr \in 1 .. Len(Bound) /\ Bound \in Seq(SmallOID) /\ Bound \in Seq(ViewOid) /\ Good(Bound)
  BY ListTypes DEF FilterDelete, Filtering, TypeOK, Lists, Bound
<1>2. views' = [views EXCEPT ![<<who, list>>] = RemoveAt(Bound, curr)]
  BY DEF FilterDelete, Bound
<1>3. /\ views'[<<who, list>>] = RemoveAt(Bound, curr)
      /\ \A k \in Key : k # <<who, list>> => views'[k] = views[k]
  BY <1>2, OtherLists
<1>4. \A o : Contains(RemoveAt(Bound, curr), o) <=> Contains(Bound, o) /\ o # Bound[curr]
  BY <1>1, GoodUnique, RemoveEntries
<1>5. Bound[curr] \in OID /\ oid \in OID
  BY <1>1, ListTypes, SmallIsOid
<1>6. Covers(oid, Bound[curr])
  BY <1>5, CoverSign DEF FilterDelete
<1> QED
  BY <1>1, <1>3, <1>4, <1>6 DEF Contains

\* What inserting an oid does to the list it goes to, and to the others.
LEMMA InsertEffect ==
  ASSUME TypeOK, CursorInv, AddInsert
  PROVE  /\ \A o : Contains(views'[<<who, list>>], o) <=> Contains(Bound, o) \/ o = oid
         /\ \A k \in Key : k # <<who, list>> => views'[k] = views[k]
<1>1. curr \in 1 .. (Len(Bound) + 1) /\ Bound \in Seq(SmallOID) /\ oid \in SmallOID
  BY ListTypes DEF AddInsert, CursorInv, TypeOK
<1>2. views' = [views EXCEPT ![<<who, list>>] = InsertAt(Bound, curr, oid)]
  BY DEF AddInsert, Bound
<1>3. /\ views'[<<who, list>>] = InsertAt(Bound, curr, oid)
      /\ \A k \in Key : k # <<who, list>> => views'[k] = views[k]
  BY <1>2, OtherLists
<1>4. \A o : Contains(InsertAt(Bound, curr, oid), o) <=> Contains(Bound, o) \/ o = oid
  BY <1>1, InsertEntries
<1> QED
  BY <1>3, <1>4

\* A list that has just been made has no entry.
LEMMA EmptyEntries == \A o : ~ Contains(<<>>, o)
BY DEF Contains

\* The back links follow the lists.
LEMMA LinksStep ==
  ASSUME TypeOK, Lists, CursorInv, BackLinks, [Next]_vars
  PROVE  BackLinks'
<1> SUFFICES ASSUME NEW p \in Principal, NEW a \in Attr, NEW o \in ViewOid
             PROVE  <<p, a, o>> \in vlink' <=>
                      \/ Contains(views'[<<p, a>>], o)
                      \/ pc' = "add" /\ <<who', list', oid'>> = <<p, a, o>>
  BY DEF BackLinks, Contains
<1>0. /\ <<p, a>> \in Key
      /\ <<p, a, o>> \in vlink <=> \/ Contains(views[<<p, a>>], o)
                                   \/ pc = "add" /\ <<who, list, oid>> = <<p, a, o>>
  BY DEF BackLinks, Key
<1>1. CASE UNCHANGED <<views, vlink>> /\ pc # "add" /\ pc' # "add"
  BY <1>0, <1>1
<1>2. CASE UNCHANGED <<views, vlink, pc, who, list, oid>>
  BY <1>0, <1>2
<1>3. CASE FilterDelete
  <2>1. /\ vlink' = vlink \ {<<who, list, Bound[curr]>>}
        /\ pc = "filter" /\ pc' = "filter"
    BY <1>3 DEF FilterDelete, Filtering
  <2>2. CASE <<p, a>> = <<who, list>>
    BY <1>0, <1>3, <2>1, <2>2, DeleteEffect DEF Bound
  <2>3. CASE <<p, a>> # <<who, list>>
    BY <1>0, <1>3, <2>1, <2>3, DeleteEffect
  <2> QED
    BY <2>2, <2>3
<1>4. CASE FilterEnd
  BY <1>0, <1>4 DEF FilterEnd
<1>5. CASE AddInsert
  <2>1. vlink' = vlink /\ pc = "add" /\ pc' # "add"
    BY <1>5 DEF AddInsert, BindReturns
  <2>2. CASE <<p, a>> = <<who, list>>
    BY <1>0, <1>5, <2>1, <2>2, InsertEffect DEF Bound
  <2>3. CASE <<p, a>> # <<who, list>>
    BY <1>0, <1>5, <2>1, <2>3, InsertEffect
  <2> QED
    BY <2>2, <2>3
<1>6. CASE UnregMatch
  <2>1. pc = "unreg" /\ pc' = "unreg"
    BY <1>6 DEF UnregMatch
  <2>2. views'[<<p, a>>] = IF p = who /\ a \in RemovedAttrs THEN <<>> ELSE views[<<p, a>>]
    BY <1>0, <1>6, UnregViews
  <2>3. vlink' = {l \in vlink : ~(l[1] = who /\ l[2] \in RemovedAttrs)}
    BY <1>6, UnregViews
  <2>4. <<p, a, o>> \in vlink' <=> <<p, a, o>> \in vlink /\ ~(p = who /\ a \in RemovedAttrs)
    BY <2>3
  <2> QED
    BY <1>0, <2>1, <2>2, <2>4, EmptyEntries
<1> QED
  BY <1>1, <1>2, <1>3, <1>4, <1>5, <1>6, NextCases DEF vars, StartReg, StartUnreg, FilterCovered,
     Filtering, BindReturns, FilterSkip, AddSkip, UnregSkip, UnregEnd

\* ReadableInv, with entries instead of positions.
Readable(p) ==
  \A w \in SmallOID : Contains(views[<<p, "WRITE">>], w) =>
    \/ \E r \in SmallOID : Contains(views[<<p, "READ">>], r) /\ Covers(r, w)
    \/ pc \in {"filter", "add"} /\ who = p /\ Covers(oid, w)

AllReadable == \A p \in Principal : Readable(p)

\* That what may be written may be read, entry by entry.
LEMMA ReadableEntries == TypeOK => (ReadableInv <=> AllReadable)
<1> SUFFICES ASSUME TypeOK PROVE ReadableInv <=> AllReadable
  OBVIOUS
<1>1. ASSUME NEW p \in Principal
      PROVE  views[<<p, "READ">>] \in Seq(SmallOID) /\ views[<<p, "WRITE">>] \in Seq(SmallOID)
  BY ListTypes DEF Key, Attr
<1>2. ASSUME ReadableInv, NEW p \in Principal PROVE Readable(p)
  BY <1>1, <1>2 DEF ReadableInv, Readable, Contains
<1>3. ASSUME AllReadable PROVE ReadableInv
  BY <1>1, <1>3 DEF ReadableInv, AllReadable, Readable, Contains
<1> QED
  BY <1>2, <1>3 DEF AllReadable

\* The write list is bound first: until the read list is done the oid being
\* registered makes up for what it lacks.
LEMMA ReadableStep ==
  ASSUME TypeOK, Lists, CursorInv, ReadableInv, [Next]_vars
  PROVE  ReadableInv'
<1>a. TypeOK'
  BY TypeStep
<1>b. ReadableInv' <=> AllReadable'
  BY <1>a, ReadableEntries, PTL
<1> SUFFICES ASSUME NEW p \in Principal PROVE Readable(p)'
  BY <1>b DEF AllReadable
<1> DEFINE W == views[<<p, "WRITE">>]
           R == views[<<p, "READ">>]
<1>0. /\ Readable(p)
      /\ <<p, "WRITE">> \in Key /\ <<p, "READ">> \in Key /\ list \in Attr
      /\ oid \in SmallOID /\ oid \in OID
  BY ReadableEntries, ListTypes, SmallIsOid DEF AllReadable, Key, Attr, TypeOK
<1>c. \A w \in SmallOID : w \in OID
  BY SmallIsOid
<1>1. CASE views' = views /\ (pc \in {"filter", "add"} /\ who = p =>
             pc' \in {"filter", "add"} /\ who' = who /\ oid' = oid)
  BY <1>0, <1>1 DEF Readable
<1>2. CASE FilterCovered
  <2>1. views' = views /\ who' = who /\ oid' = oid /\ pc = "filter"
    BY <1>2 DEF FilterCovered, Filtering
  <2>2. CASE list = "WRITE" \/ who # p
    BY <1>1, <1>2, <2>1, <2>2 DEF FilterCovered, BindReturns
  <2>3. CASE list = "READ" /\ who = p
    <3>1. curr \in 1 .. Len(Bound) /\ Bound \in Seq(SmallOID) /\ Bound = R
      BY <1>2, <2>3, ListTypes DEF FilterCovered, Filtering, Bound, TypeOK
    <3>2. Bound[curr] \in SmallOID /\ Contains(R, Bound[curr])
      BY <3>1 DEF Contains
    <3>3. Covers(Bound[curr], oid)
      BY <1>0, <1>c, <1>2, <3>2, CoverSign DEF FilterCovered
    <3>4. ASSUME NEW w \in SmallOID, Covers(oid, w) PROVE Covers(Bound[curr], w)
      BY <1>0, <1>c, <3>2, <3>3, <3>4, CoversTransitive
    <3> QED
      BY <1>0, <2>1, <3>2, <3>4 DEF Readable
  <2> QED
    BY <1>0, <2>2, <2>3 DEF Attr
<1>3. CASE FilterDelete
  <2>1. pc' = "filter" /\ pc = "filter" /\ who' = who /\ oid' = oid
    BY <1>3 DEF FilterDelete, Filtering
  <2>2. CASE who # p
    <3>1. views'[<<p, "WRITE">>] = W /\ views'[<<p, "READ">>] = R
      BY <1>0, <1>3, <2>2, DeleteEffect
    <3> QED
      BY <1>0, <2>1, <2>2, <3>1 DEF Readable
  <2>3. CASE who = p /\ list = "WRITE"
    <3>1. views'[<<p, "READ">>] = R /\ \A w : Contains(views'[<<p, "WRITE">>], w) => Contains(W, w)
      BY <1>0, <1>3, <2>3, DeleteEffect DEF Bound
    <3> QED
      BY <1>0, <2>1, <2>3, <3>1 DEF Readable
  <2>4. CASE who = p /\ list = "READ"
    <3>1. /\ views'[<<p, "WRITE">>] = W
          /\ \A r : Contains(R, r) => Contains(views'[<<p, "READ">>], r) \/ r = Bound[curr]
          /\ Covers(oid, Bound[curr]) /\ Bound[curr] \in OID
      BY <1>0, <1>c, <1>3, <2>4, DeleteEffect, ViewAssumption DEF Bound
    <3>2. ASSUME NEW w \in SmallOID, Covers(Bound[curr], w) PROVE Covers(oid, w)
      BY <1>0, <1>c, <3>1, <3>2, CoversTransitive
    <3> QED
      BY <1>0, <2>1, <2>4, <3>1, <3>2 DEF Readable
  <2> QED
    BY <1>0, <2>2, <2>3, <2>4 DEF Attr
<1>4. CASE AddInsert
  <2>1. who' = who /\ oid' = oid /\ pc = "add"
    BY <1>4 DEF AddInsert
  <2>2. CASE who # p
    <3>1. views'[<<p, "WRITE">>] = W /\ views'[<<p, "READ">>] = R
      BY <1>0, <1>4, <2>2, InsertEffect
    <3> QED
      BY <1>0, <2>1, <2>2, <3>1 DEF Readable
  <2>3. CASE who = p /\ list = "WRITE"
    <3>1. pc' = "filter" /\ views'[<<p, "READ">>] = R
      BY <1>0, <1>4, <2>3, InsertEffect DEF AddInsert, BindReturns
    <3>2. \A w : Contains(views'[<<p, "WRITE">>], w) => Contains(W, w) \/ w = oid
      BY <1>4, <2>3, InsertEffect DEF Bound
    <3>3. Covers(oid, oid)
      BY <1>0 DEF Covers, OID
    <3> QED
      BY <1>0, <2>1, <2>3, <3>1, <3>2, <3>3 DEF Readable
  <2>4. CASE who = p /\ list = "READ"
    <3>1. views'[<<p, "WRITE">>] = W
      BY <1>0, <1>4, <2>4, InsertEffect
    <3>2. \A r : Contains(views'[<<p, "READ">>], r) <=> Contains(R, r) \/ r = oid
      BY <1>4, <2>4, InsertEffect DEF Bound
    <3> QED
      BY <1>0, <3>1, <3>2 DEF Readable
  <2> QED
    BY <1>0, <2>2, <2>3, <2>4 DEF Attr
<1>5. CASE UnregMatch
  <2>1. pc = "unreg" /\ "WRITE" \in RemovedAttrs
    BY <1>5 DEF UnregMatch, RemovedAttrs, Attr
  <2>2. CASE who = p
    <3>1. views'[<<p, "WRITE">>] = <<>>
      BY <1>0, <1>5, <2>1, <2>2, UnregViews
    <3> QED
      BY <3>1, EmptyEntries DEF Readable
  <2>3. CASE who # p
    <3>1. views'[<<p, "WRITE">>] = W /\ views'[<<p, "READ">>] = R
      BY <1>0, <1>5, <2>3, UnregViews
    <3> QED
      BY <1>0, <2>1, <3>1 DEF Readable
  <2> QED
    BY <2>2, <2>3
<1> QED
  BY <1>1, <1>2, <1>3, <1>4, <1>5, NextCases DEF vars, StartReg, StartUnreg, FilterSkip, FilterEnd,
     AddSkip, UnregSkip, UnregEnd

\* Communities and users have different names.
LEMMA NamesApart ==
  ASSUME TypeOK
  PROVE  /\ \A p : Contains(mib_communities, p) => p \in Community /\ p \notin User
         /\ \A p : Contains(mib_users, p) => p \in User /\ p \notin Community
<1>1. \A j \in 1 .. Len(mib_communities) : mib_communities[j] \in Community
  BY DEF TypeOK
<1>2. \A j \in 1 .. Len(mib_users) : mib_users[j] \in User
  BY DEF TypeOK
<1> QED
  BY <1>1, <1>2, ViewAssumption DEF Contains

\* A name appears with its first registration and goes with its last view.
LEMMA NamesStep ==
  ASSUME TypeOK, Lists, CursorInv, NamesInv, [Next]_vars
  PROVE  NamesInv'
<1> DEFINE Busy(p) == pc \in {"filter", "add"} /\ who = p
<1>0. /\ Unique(mib_communities) /\ Unique(mib_users)
      /\ mib_communities \in Seq(Community) /\ mib_users \in Seq(User)
      /\ who \in Principal /\ list \in Attr
      /\ \A p \in Principal : <<p, "READ">> \in Key
  BY DEF NamesInv, TypeOK, Key, Attr
<1>a. \A p \in Principal : IF Busy(p) THEN Named(p) ELSE Named(p) <=> views[<<p, "READ">>] # <<>>
  BY DEF NamesInv
<1>1. ASSUME NEW c \in Community, NEW o \in ViewOid, NEW a \in Attr, mib_community_reg(c, o, a)
      PROVE  NamesInv'
  <2>1. /\ Unique(mib_communities')
        /\ \A p : Contains(mib_communities', p) <=> Contains(mib_communities, p) \/ p = c
    <3>1. mib_communities' = IF Contains(mib_communities, c) THEN mib_communities
                             ELSE <<c>> \o mib_communities
      BY <1>1 DEF mib_community_reg, community_create
    <3>2. CASE Contains(mib_communities, c)
      BY <1>0, <3>1, <3>2
    <3>3. CASE ~ Contains(mib_communities, c)
      <4>1. Unique(<<c>> \o mib_communities) /\ \A p : Contains(<<c>> \o mib_communities, p) <=> Contains(mib_communities, p) \/ p = c
        BY <1>0, <3>3, PrependEntries
      <4> QED
        BY <3>1, <3>3, <4>1
    <3> QED
      BY <3>2, <3>3
  <2>2. mib_users' = mib_users /\ views' = views /\ pc = "idle" /\ pc' = "filter" /\ who' = c
    BY <1>1 DEF mib_community_reg, StartReg
  <2> QED
    BY <1>0, <1>a, <2>1, <2>2 DEF NamesInv, Named
<1>2. ASSUME NEW u \in User, NEW o \in ViewOid, NEW a \in Attr, mib_user_reg(u, o, a)
      PROVE  NamesInv'
  <2>1. /\ Unique(mib_users')
        /\ \A p : Contains(mib_users', p) <=> Contains(mib_users, p) \/ p = u
    <3>1. mib_users' = IF Contains(mib_users, u) THEN mib_users ELSE <<u>> \o mib_users
      BY <1>2 DEF mib_user_reg, user_create
    <3>2. CASE Contains(mib_users, u)
      BY <1>0, <3>1, <3>2
    <3>3. CASE ~ Contains(mib_users, u)
      <4>1. Unique(<<u>> \o mib_users) /\ \A p : Contains(<<u>> \o mib_users, p) <=> Contains(mib_users, p) \/ p = u
        BY <1>0, <3>3, PrependEntries
      <4> QED
        BY <3>1, <3>3, <4>1
    <3> QED
      BY <3>2, <3>3
  <2>2. mib_communities' = mib_communities /\ views' = views /\ pc = "idle" /\ pc' = "filter" /\ who' = u
    BY <1>2 DEF mib_user_reg, StartReg
  <2> QED
    BY <1>0, <1>a, <2>1, <2>2 DEF NamesInv, Named
<1>3. CASE UnregMatch
  <2>1. /\ pc = "unreg" /\ pc' = "unreg" /\ who' = who
        /\ curr \in 1 .. Len(CallNames) /\ CallNames[curr] = who
    BY <1>3 DEF UnregMatch, TypeOK
  <2>2. Named(who) /\ views[<<who, "READ">>] # <<>>
    BY <1>0, <1>a, <2>1 DEF Named, CallNames, Contains
  <2>3. CASE list = "WRITE"
    <3>1. \A p \in Principal : views'[<<p, "READ">>] = views[<<p, "READ">>]
      BY <1>0, <1>3, <2>3, UnregViews DEF RemovedAttrs
    <3>2. mib_communities' = mib_communities /\ mib_users' = mib_users
      BY <1>0, <1>3, <2>2, <3>1 DEF UnregMatch, CallNames
    <3> QED
      BY <1>0, <1>a, <2>1, <3>1, <3>2 DEF NamesInv, Named
  <2>4. CASE list = "READ"
    <3>1. /\ views'[<<who, "READ">>] = <<>> /\ views'[<<who, "WRITE">>] = <<>>
          /\ \A p \in Principal : p # who => views'[<<p, "READ">>] = views[<<p, "READ">>]
      <4>1. <<who, "READ">> \in Key /\ <<who, "WRITE">> \in Key /\ RemovedAttrs = {"READ", "WRITE"}
        BY <1>0, <2>4 DEF RemovedAttrs, Attr, Key
      <4> QED
        BY <1>0, <1>3, <4>1, UnregViews
    <3>2. CASE who \in Community
      <4>1. mib_communities' = RemoveAt(mib_communities, curr) /\ mib_users' = mib_users
        BY <1>3, <3>1, <3>2 DEF UnregMatch, CallNames
      <4>2. /\ Unique(mib_communities')
            /\ \A p : Contains(mib_communities', p) <=> Contains(mib_communities, p) /\ p # who
        BY <1>0, <2>1, <3>2, <4>1, RemoveEntries DEF CallNames
      <4>3. ~ Contains(mib_users, who)
        BY <3>2, NamesApart
      <4> QED
        BY <1>0, <1>a, <2>1, <3>1, <4>1, <4>2, <4>3 DEF NamesInv, Named
    <3>3. CASE who \notin Community
      <4>1. mib_users' = RemoveAt(mib_users, curr) /\ mib_communities' = mib_communities
        BY <1>3, <3>1, <3>3 DEF UnregMatch, CallNames
      <4>2. /\ Unique(mib_users')
            /\ \A p : Contains(mib_users', p) <=> Contains(mib_users, p) /\ p # who
        BY <1>0, <2>1, <3>3, <4>1, RemoveEntries DEF CallNames
      <4>3. ~ Contains(mib_communities, who)
        BY <3>3, NamesApart
      <4> QED
        BY <1>0, <1>a, <2>1, <3>1, <4>1, <4>2, <4>3 DEF NamesInv, Named
    <3> QED
      BY <3>2, <3>3
  <2> QED
    BY <1>0, <2>3, <2>4 DEF Attr
\* The other steps leave the names alone, and the views of all principals but
\* one that is being registered.
<1>4. CASE /\ UNCHANGED <<mib_communities, mib_users, who>>
           /\ pc \in {"filter", "add"}
           /\ \A p \in Principal : p # who => views'[<<p, "READ">>] = views[<<p, "READ">>]
           /\ pc' \in {"filter", "add"} \/ views'[<<who, "READ">>] # <<>>
  BY <1>0, <1>a, <1>4 DEF NamesInv, Named
<1>5. CASE /\ UNCHANGED <<mib_communities, mib_users, views>>
           /\ pc \notin {"filter", "add"} /\ pc' \notin {"filter", "add"}
  BY <1>0, <1>a, <1>5 DEF NamesInv, Named
<1>6. CASE UNCHANGED vars
  BY <1>6 DEF vars, NamesInv, Named
<1>7. CASE FilterCovered
  <2>1. list = "READ" => views[<<who, "READ">>] # <<>>
    <3>1. Len(Bound) # 0
      BY <1>7, ListTypes DEF FilterCovered, Filtering, TypeOK
    <3> QED
      BY <3>1 DEF Bound
  <2>2. pc' \in {"filter", "add"} \/ list = "READ"
    BY <1>0, <1>7 DEF FilterCovered, BindReturns, Attr
  <2> QED
    BY <1>4, <1>7, <2>1, <2>2 DEF FilterCovered, Filtering
<1>8. CASE FilterDelete
  <2>1. \A p \in Principal : p # who => views'[<<p, "READ">>] = views[<<p, "READ">>]
    BY <1>0, <1>8, DeleteEffect
  <2> QED
    BY <1>4, <1>8, <2>1 DEF FilterDelete, Filtering
<1>9. CASE AddInsert
  <2>1. \A p \in Principal : p # who => views'[<<p, "READ">>] = views[<<p, "READ">>]
    BY <1>0, <1>9, InsertEffect
  <2>2. list = "READ" => views'[<<who, "READ">>] # <<>>
    BY <1>9, InsertEffect, EmptyEntries
  <2>3. pc' \in {"filter", "add"} \/ list = "READ"
    BY <1>0, <1>9 DEF AddInsert, BindReturns, Attr
  <2> QED
    BY <1>4, <1>9, <2>1, <2>2, <2>3 DEF AddInsert
<1>10. CASE FilterSkip \/ FilterEnd \/ AddSkip
  BY <1>4, <1>10 DEF FilterSkip, Filtering, FilterEnd, AddSkip
<1>11. CASE UnregSkip \/ UnregEnd
  BY <1>5, <1>11 DEF UnregSkip, UnregEnd
<1>12. ASSUME NEW p, NEW a, StartUnreg(p, a) PROVE NamesInv'
  BY <1>5, <1>12 DEF StartUnreg
<1>13. CASE Call
  BY <1>1, <1>2, <1>12, <1>13 DEF Call, mib_community_unreg, mib_user_unreg
<1>14. CASE Step
  BY <1>3, <1>7, <1>8, <1>9, <1>10, <1>11, <1>14 DEF Step, community_view_filter, user_view_filter,
     view_filter, community_view_add, user_view_add, view_add, community_unreg_loop,
     user_unreg_loop, unreg_loop
<1> QED
  BY <1>6, <1>13, <1>14 DEF Next

-----------------------------------------------------------------------------
\* At the start no community and no user is registered.
LEMMA InitInv == Init => ViewInv
<1> SUFFICES ASSUME Init PROVE ViewInv
  OBVIOUS
<1>1. \A k \in Key : views[k] = <<>>
  BY DEF Init, Key
<1>2. TypeOK
  BY DEF Init, TypeOK, Attr
<1>3. ViewsAntichain /\ ViewsSorted
  BY <1>1 DEF ViewsAntichain, ViewsSorted
<1>4. CursorInv
  BY DEF Init, CursorInv
<1>5. ReadableInv
  BY <1>1 DEF ReadableInv, Key, Attr
<1>6. BackLinks
  BY <1>1, EmptyEntries DEF Init, BackLinks, Key
<1>7. NamesInv
  BY <1>1, EmptyEntries DEF Init, NamesInv, Unique, Named, Key, Attr
<1> QED
  BY <1>2, <1>3, <1>4, <1>5, <1>6, <1>7 DEF ViewInv

\* Every registration and unregistration keeps the invariant.
LEMMA StepInv == ViewInv /\ [Next]_vars => ViewInv'
<1> SUFFICES ASSUME ViewInv, [Next]_vars PROVE ViewInv'
  OBVIOUS
<1>1. Lists
  BY GoodLists DEF ViewInv, Lists
<1>2. TypeOK' /\ Lists' /\ CursorInv'
  BY <1>1, TypeStep, ListsStep, CursorStep DEF ViewInv
<1>3. ReadableInv' /\ BackLinks' /\ NamesInv'
  BY <1>1, ReadableStep, LinksStep, NamesStep DEF ViewInv
<1>4. ViewsAntichain' /\ ViewsSorted'
  BY <1>2 DEF Lists, Good, ViewsAntichain, ViewsSorted
<1> QED
  BY <1>2, <1>3, <1>4 DEF ViewInv

\* ViewInv holds throughout every sequence of registrations and unregistrations
\* (mib_community_reg, mib_user_reg and the corresponding unreg functions).
THEOREM ViewInvariant == Spec => []ViewInv
BY InitInv, StepInv, PTL DEF Spec

\* The view lists never hold two views of which one covers the other.
THEOREM NoOverlaps == Spec => []ViewsAntichain
<1>1. ViewInv => ViewsAntichain
  BY DEF ViewInv
<1> QED
  BY <1>1, ViewInvariant, PTL

\* The view lists are in ascending order at every moment.
THEOREM AlwaysSorted == Spec => []ViewsSorted
<1>1. ViewInv => ViewsSorted
  BY DEF ViewInv
<1> QED
  BY <1>1, ViewInvariant, PTL

\* Between calls, what a principal may write it may also read.
THEOREM WriteImpliesRead == Spec => []WritableIsReadable
<1>1. ViewInv => WritableIsReadable
  BY DEF ViewInv, ReadableInv, WritableIsReadable
<1> QED
  BY <1>1, ViewInvariant, PTL

\* The back links of the views are those of the entries in the lists.
THEOREM LinksExact == Spec => []BackLinks
<1>1. ViewInv => BackLinks
  BY DEF ViewInv
<1> QED
  BY <1>1, ViewInvariant, PTL
-----------------------------------------------------------------------------
\* The oids a principal may read and write, as entries of the lists.
Listed(p, a, u) == \E v \in ViewOid : Contains(views[<<p, a>>], v) /\ Covers(v, u)
Busy(p, u) == pc \in {"filter", "add"} /\ who = p /\ Covers(oid, u)

MayFacts ==
  /\ MayRead = [p \in Principal |-> MayRead[p]] /\ MayWrite = [p \in Principal |-> MayWrite[p]]
  /\ \A p \in Principal : MayRead[p] \subseteq ViewOid /\ MayWrite[p] \subseteq ViewOid
  /\ \A p \in Principal, u \in ViewOid :
       /\ u \in MayRead[p] <=> Listed(p, "READ", u) \/ Busy(p, u)
       /\ u \in MayWrite[p] <=> Listed(p, "WRITE", u) \/ (list = "WRITE" /\ Busy(p, u))

\* A view gives access to what it covers.
LEMMA UnderFacts ==
  ASSUME NEW v \in ViewOid
  PROVE  Under[v] = {u \in ViewOid : Covers(v, u)}
<1>1. ViewOid \subseteq OID
  BY ViewAssumption, SmallIsOid
<1>2. ASSUME NEW u \in ViewOid PROVE view_cover(<<v>>, u) <=> Covers(v, u)
  <2>1. Len(<<v>>) = 1 /\ <<v>>[1] = v
    OBVIOUS
  <2>2. view_cover(<<v>>, u) <=> oid_cover(v, u) > 0
    BY <2>1 DEF view_cover
  <2> QED
    BY <1>1, <2>2, CoverSign
<1>3. Under[v] = {u \in ViewOid : view_cover(<<v>>, u)}
  BY DEF Under
<1> QED
  BY <1>2, <1>3

\* What the lists and the registration in progress give access to.
LEMMA MayIs == TypeOK => MayFacts
<1> SUFFICES ASSUME TypeOK PROVE MayFacts
  OBVIOUS
<1>1. ASSUME NEW p \in Principal, NEW a \in Attr
      PROVE  /\ Accessible(p, a) \subseteq ViewOid
             /\ \A u \in ViewOid : u \in Accessible(p, a) <=> Listed(p, a, u)
  <2> DEFINE L == views[<<p, a>>]
  <2>1. \A j \in 1 .. Len(L) : L[j] \in ViewOid
    BY DEF TypeOK
  <2>2. \A j \in 1 .. Len(L) : Under[L[j]] = {u \in ViewOid : Covers(L[j], u)}
    BY <2>1, UnderFacts
  <2>3. \A u : u \in Accessible(p, a) <=> \E j \in 1 .. Len(L) : u \in ViewOid /\ Covers(L[j], u)
    BY <2>2 DEF Accessible
  <2> QED
    BY <2>1, <2>3 DEF Listed, Contains
<1>2. ASSUME NEW p \in Principal
      PROVE  /\ Pending(p) \subseteq ViewOid
             /\ \A u \in ViewOid : u \in Pending(p) <=> Busy(p, u)
  BY UnderFacts DEF Pending, Busy, TypeOK
<1>3. \A p \in Principal :
        /\ MayRead[p] = Accessible(p, "READ") \cup Pending(p)
        /\ MayWrite[p] = Accessible(p, "WRITE") \cup (IF list = "WRITE" THEN Pending(p) ELSE {})
  BY DEF MayRead, MayWrite
<1>4. MayRead = [p \in Principal |-> MayRead[p]] /\ MayWrite = [p \in Principal |-> MayWrite[p]]
  BY DEF MayRead, MayWrite
<1>5. "READ" \in Attr /\ "WRITE" \in Attr
  BY DEF Attr
<1> QED
  BY <1>1, <1>2, <1>3, <1>4, <1>5 DEF MayFacts

\* Nothing changes, seen from outside, if the same oids stay within reach.
LEMMA SameAccess ==
  ASSUME MayFacts, MayFacts',
         \A p \in Principal, u \in ViewOid :
           /\ (Listed(p, "READ", u) \/ Busy(p, u))' <=> Listed(p, "READ", u) \/ Busy(p, u)
           /\ (Listed(p, "WRITE", u) \/ (list = "WRITE" /\ Busy(p, u)))'
                <=> Listed(p, "WRITE", u) \/ (list = "WRITE" /\ Busy(p, u))
  PROVE  UNCHANGED Access!vars
<1>1. ASSUME NEW p \in Principal PROVE MayRead'[p] = MayRead[p] /\ MayWrite'[p] = MayWrite[p]
  BY DEF MayFacts
<1>2. MayRead' = MayRead /\ MayWrite' = MayWrite
  BY <1>1 DEF MayFacts
<1> QED
  BY <1>2 DEF Access!vars

\* The start of a registration, mib_community_reg or mib_user_reg, grants access
\* to the subtree registered.
LEMMA RegGrants ==
  ASSUME MayFacts, MayFacts', NEW p \in Principal, NEW o \in ViewOid, NEW a \in Attr,
         StartReg(p, o, a)
  PROVE  Access!Grant(p, o, a)
<1>1. pc = "idle" /\ pc' = "filter" /\ who' = p /\ oid' = o /\ list' = a /\ views' = views
  BY DEF StartReg
<1> DEFINE T == {u \in ViewOid : Covers(o, u)}
<1>2. Access!Subtree(o) = T
  BY DEF Access!Subtree, Access!Covers, Covers
<1>3. ASSUME NEW q \in Principal, NEW u \in ViewOid
      PROVE  /\ u \in MayRead'[q] <=> u \in MayRead[q] \/ (q = p /\ Covers(o, u))
             /\ u \in MayWrite'[q] <=> u \in MayWrite[q] \/ (q = p /\ a = "WRITE" /\ Covers(o, u))
  <2>1. /\ u \in MayRead[q] <=> Listed(q, "READ", u)
        /\ u \in MayWrite[q] <=> Listed(q, "WRITE", u)
    BY <1>1 DEF MayFacts, Busy
  <2>2. /\ u \in MayRead'[q] <=> Listed(q, "READ", u)' \/ Busy(q, u)'
        /\ u \in MayWrite'[q] <=> Listed(q, "WRITE", u)' \/ (list' = "WRITE" /\ Busy(q, u)')
    BY DEF MayFacts
  <2>3. (Listed(q, "READ", u)' <=> Listed(q, "READ", u)) /\ (Listed(q, "WRITE", u)' <=> Listed(q, "WRITE", u))
    BY <1>1 DEF Listed
  <2>4. Busy(q, u)' <=> q = p /\ Covers(o, u)
    BY <1>1 DEF Busy
  <2> QED
    BY <1>1, <2>1, <2>2, <2>3, <2>4
<1>4. ASSUME NEW q \in Principal
      PROVE  /\ MayRead'[q] = IF q = p THEN MayRead[q] \cup T ELSE MayRead[q]
             /\ MayWrite'[q] = IF q = p /\ a = "WRITE" THEN MayWrite[q] \cup T ELSE MayWrite[q]
  BY <1>3 DEF MayFacts
<1>5. MayRead' = [MayRead EXCEPT ![p] = @ \cup T]
  BY <1>4 DEF MayFacts
<1>6. MayWrite' = [MayWrite EXCEPT ![p] = IF a = "WRITE" THEN @ \cup T ELSE @]
  BY <1>4 DEF MayFacts
<1> QED
  BY <1>2, <1>5, <1>6 DEF Access!Grant

\* A registration that finds its oid covered changes nothing, since the view that
\* covers it covers its subtree.
LEMMA CoveredHides ==
  ASSUME TypeOK, MayFacts, MayFacts', FilterCovered
  PROVE  UNCHANGED Access!vars
<1>1. /\ pc = "filter" /\ who' = who /\ oid' = oid /\ views' = views /\ list \in Attr
      /\ list = "WRITE" => pc' = "filter" /\ list' = "READ"
      /\ list # "WRITE" => pc' = "idle" /\ list' = list
      /\ curr \in 1 .. Len(Bound)
  BY ListTypes DEF FilterCovered, Filtering, BindReturns, TypeOK
<1>2. Bound[curr] \in ViewOid /\ Contains(Bound, Bound[curr]) /\ oid \in ViewOid
  <2>1. Bound \in Seq(ViewOid) /\ oid \in ViewOid
    BY ListTypes DEF TypeOK, Bound
  <2> QED
    BY <1>1, <2>1 DEF Contains
<1>3. Bound[curr] \in OID /\ oid \in OID /\ ViewOid \subseteq OID
  BY <1>2, ViewAssumption, SmallIsOid
<1>4. Covers(Bound[curr], oid)
  BY <1>3, CoverSign DEF FilterCovered
<1>5. ASSUME NEW u \in ViewOid, Covers(oid, u) PROVE Listed(who, list, u)
  <2>1. Covers(Bound[curr], u)
    BY <1>3, <1>4, <1>5, CoversTransitive
  <2> QED
    BY <1>2, <2>1 DEF Listed, Bound
<1>6. \A p, a, u : Listed(p, a, u)' <=> Listed(p, a, u)
  BY <1>1 DEF Listed
<1>7. ASSUME NEW p \in Principal, NEW u \in ViewOid
      PROVE  /\ (Listed(p, "READ", u) \/ Busy(p, u))' <=> Listed(p, "READ", u) \/ Busy(p, u)
             /\ (Listed(p, "WRITE", u) \/ (list = "WRITE" /\ Busy(p, u)))'
                  <=> Listed(p, "WRITE", u) \/ (list = "WRITE" /\ Busy(p, u))
  <2>1. CASE list = "WRITE"
    BY <1>1, <1>5, <1>6, <2>1 DEF Busy
  <2>2. CASE list = "READ"
    BY <1>1, <1>5, <1>6, <2>2 DEF Busy
  <2> QED
    BY <1>1, <2>1, <2>2 DEF Attr
<1> QED
  BY <1>7, SameAccess

\* Deleting a view that the new one covers changes nothing: the subtree is part of
\* the one being registered.
LEMMA DeleteHides ==
  ASSUME TypeOK, Lists, MayFacts, MayFacts', FilterDelete
  PROVE  UNCHANGED Access!vars
<1>1. /\ pc = "filter" /\ pc' = "filter" /\ who' = who /\ oid' = oid /\ list' = list /\ list \in Attr
      /\ oid \in OID /\ ViewOid \subseteq OID /\ who \in Principal
  BY ViewAssumption, SmallIsOid DEF FilterDelete, Filtering, TypeOK
<1>2. /\ \A o : Contains(views'[<<who, list>>], o) <=> Contains(views[<<who, list>>], o) /\ o # Bound[curr]
      /\ \A k \in Key : k # <<who, list>> => views'[k] = views[k]
      /\ Covers(oid, Bound[curr]) /\ Bound[curr] \in ViewOid
  BY DeleteEffect DEF Bound
<1>3. ASSUME NEW u \in ViewOid
      PROVE  Listed(who, list, u)' \/ Covers(oid, u) <=> Listed(who, list, u) \/ Covers(oid, u)
  <2>1. Covers(Bound[curr], u) => Covers(oid, u)
    BY <1>1, <1>2, CoversTransitive
  <2> QED
    BY <1>1, <1>2, <2>1 DEF Listed
<1>4. ASSUME NEW p \in Principal, NEW a \in Attr, <<p, a>> # <<who, list>>, NEW u \in ViewOid
      PROVE  Listed(p, a, u)' <=> Listed(p, a, u)
  BY <1>2, <1>4 DEF Listed, Key
<1>5. \A p, u : Busy(p, u)' <=> Busy(p, u)
  BY <1>1 DEF Busy
<1>6. \A u : Busy(who, u) <=> Covers(oid, u)
  BY <1>1 DEF Busy
<1>7. "READ" \in Attr /\ "WRITE" \in Attr
  BY DEF Attr
<1>8. ASSUME NEW p \in Principal, NEW u \in ViewOid
      PROVE  /\ (Listed(p, "READ", u) \/ Busy(p, u))' <=> Listed(p, "READ", u) \/ Busy(p, u)
             /\ (Listed(p, "WRITE", u) \/ (list = "WRITE" /\ Busy(p, u)))'
                  <=> Listed(p, "WRITE", u) \/ (list = "WRITE" /\ Busy(p, u))
  BY <1>1, <1>3, <1>4, <1>5, <1>6, <1>7
<1> QED
  BY <1>8, SameAccess

\* When the view is in its list the registration need not stand for it any more.
LEMMA InsertHides ==
  ASSUME TypeOK, CursorInv, MayFacts, MayFacts', AddInsert
  PROVE  UNCHANGED Access!vars
<1>1. /\ pc = "add" /\ who' = who /\ oid' = oid /\ list \in Attr
      /\ list = "WRITE" => pc' = "filter" /\ list' = "READ"
      /\ list # "WRITE" => pc' = "idle" /\ list' = list
      /\ oid \in ViewOid /\ who \in Principal
  BY DEF AddInsert, BindReturns, TypeOK
<1>2. /\ \A o : Contains(views'[<<who, list>>], o) <=> Contains(views[<<who, list>>], o) \/ o = oid
      /\ \A k \in Key : k # <<who, list>> => views'[k] = views[k]
  BY InsertEffect DEF Bound
<1>3. ASSUME NEW p \in Principal, NEW a \in Attr, p = who, a = list, NEW u \in ViewOid
      PROVE  Listed(p, a, u)' <=> Listed(p, a, u) \/ Covers(oid, u)
  BY <1>1, <1>2, <1>3 DEF Listed
<1>4. ASSUME NEW p \in Principal, NEW a \in Attr, <<p, a>> # <<who, list>>, NEW u \in ViewOid
      PROVE  Listed(p, a, u)' <=> Listed(p, a, u)
  BY <1>2, <1>4 DEF Listed, Key
<1>6. \A u : Busy(who, u) <=> Covers(oid, u)
  BY <1>1 DEF Busy
<1>7. \A p, u : p # who => ~ Busy(p, u) /\ ~ Busy(p, u)'
  BY <1>1 DEF Busy
<1>8. "READ" \in Attr /\ "WRITE" \in Attr /\ "READ" # "WRITE"
  BY DEF Attr
<1>9. ASSUME NEW p \in Principal, NEW u \in ViewOid
      PROVE  /\ (Listed(p, "READ", u) \/ Busy(p, u))' <=> Listed(p, "READ", u) \/ Busy(p, u)
             /\ (Listed(p, "WRITE", u) \/ (list = "WRITE" /\ Busy(p, u)))'
                  <=> Listed(p, "WRITE", u) \/ (list = "WRITE" /\ Busy(p, u))
  <2>1. CASE p # who
    BY <1>4, <1>7, <1>8, <2>1
  <2>2. CASE p = who /\ list = "WRITE"
    <3>1. Busy(who, u)' <=> Covers(oid, u)
      BY <1>1, <2>2 DEF Busy
    <3> QED
      BY <1>1, <1>3, <1>4, <1>6, <1>8, <2>2, <3>1
  <2>3. CASE p = who /\ list = "READ"
    <3>1. ~ Busy(who, u)'
      BY <1>1, <2>3 DEF Busy
    <3> QED
      BY <1>1, <1>3, <1>4, <1>6, <1>8, <2>3, <3>1
  <2> QED
    BY <1>1, <2>1, <2>2, <2>3 DEF Attr
<1> QED
  BY <1>9, SameAccess

\* Removing the views of a name revokes its access.
LEMMA UnregRevokes ==
  ASSUME TypeOK, MayFacts, MayFacts', UnregMatch
  PROVE  Access!Revoke(who, list)
<1>1. pc = "unreg" /\ pc' = "unreg" /\ who' = who /\ who \in Principal /\ list \in Attr
  BY DEF UnregMatch, TypeOK
<1>2. ASSUME NEW q \in Principal, NEW a \in Attr
      PROVE  views'[<<q, a>>] = IF q = who /\ a \in RemovedAttrs THEN <<>> ELSE views[<<q, a>>]
  <2>1. <<q, a>> \in Key
    BY DEF Key
  <2> QED
    BY <2>1, UnregViews
<1>3. ASSUME NEW q \in Principal, NEW a \in Attr, NEW u \in ViewOid
      PROVE  Listed(q, a, u)' <=> Listed(q, a, u) /\ ~ (q = who /\ a \in RemovedAttrs)
  BY <1>2, EmptyEntries DEF Listed
<1>4. "READ" \in Attr /\ "WRITE" \in Attr
  BY DEF Attr
<1>5. "WRITE" \in RemovedAttrs /\ ("READ" \in RemovedAttrs <=> list = "READ")
  BY DEF RemovedAttrs, Attr
<1>6. ASSUME NEW q \in Principal
      PROVE  /\ MayRead'[q] = IF q = who /\ list = "READ" THEN {} ELSE MayRead[q]
             /\ MayWrite'[q] = IF q = who THEN {} ELSE MayWrite[q]
  <2>1. ASSUME NEW u \in ViewOid
        PROVE  /\ u \in MayRead[q] <=> Listed(q, "READ", u)
               /\ u \in MayWrite[q] <=> Listed(q, "WRITE", u)
               /\ u \in MayRead'[q] <=> Listed(q, "READ", u)'
               /\ u \in MayWrite'[q] <=> Listed(q, "WRITE", u)'
    BY <1>1 DEF MayFacts, Busy
  <2>2. MayRead[q] \subseteq ViewOid /\ MayWrite[q] \subseteq ViewOid
        /\ MayRead'[q] \subseteq ViewOid /\ MayWrite'[q] \subseteq ViewOid
    BY DEF MayFacts
  <2> QED
    BY <1>3, <1>4, <1>5, <2>1, <2>2
<1>7. MayRead' = [MayRead EXCEPT ![who] = IF list = "READ" THEN {} ELSE @]
  BY <1>1, <1>6 DEF MayFacts
<1>8. MayWrite' = [MayWrite EXCEPT ![who] = {}]
  BY <1>1, <1>6 DEF MayFacts
<1> QED
  BY <1>7, <1>8 DEF Access!Revoke

\* Every step of a call is a grant, a revocation, or invisible.
LEMMA StepImplements ==
  ASSUME ViewInv, ViewInv', [Next]_vars
  PROVE  [Access!Next]_(Access!vars)
<1>1. TypeOK /\ Lists /\ CursorInv /\ MayFacts
  BY GoodLists, MayIs DEF ViewInv, Lists
<1>2. MayFacts'
  <2>1. TypeOK'
    BY DEF ViewInv
  <2> QED
    BY <2>1, MayIs, PTL
<1>3. ASSUME NEW p \in Principal, NEW o \in ViewOid, NEW a \in Attr, StartReg(p, o, a)
      PROVE  [Access!Next]_(Access!vars)
  BY <1>1, <1>2, <1>3, RegGrants DEF Access!Next, Attr
<1>4. CASE /\ views' = views /\ pc \notin {"filter", "add"} /\ pc' \notin {"filter", "add"}
  <2>1. ASSUME NEW p \in Principal, NEW u \in ViewOid
        PROVE  /\ (Listed(p, "READ", u) \/ Busy(p, u))' <=> Listed(p, "READ", u) \/ Busy(p, u)
               /\ (Listed(p, "WRITE", u) \/ (list = "WRITE" /\ Busy(p, u)))'
                    <=> Listed(p, "WRITE", u) \/ (list = "WRITE" /\ Busy(p, u))
    BY <1>4 DEF Listed, Busy
  <2> QED
    BY <1>1, <1>2, <2>1, SameAccess
<1>5. CASE UNCHANGED <<views, who, oid, list>> /\ (pc \in {"filter", "add"} <=> pc' \in {"filter", "add"})
  <2>1. ASSUME NEW p \in Principal, NEW u \in ViewOid
        PROVE  /\ (Listed(p, "READ", u) \/ Busy(p, u))' <=> Listed(p, "READ", u) \/ Busy(p, u)
               /\ (Listed(p, "WRITE", u) \/ (list = "WRITE" /\ Busy(p, u)))'
                    <=> Listed(p, "WRITE", u) \/ (list = "WRITE" /\ Busy(p, u))
    BY <1>5 DEF Listed, Busy
  <2> QED
    BY <1>1, <1>2, <2>1, SameAccess
<1>6. CASE FilterCovered \/ FilterDelete \/ AddInsert
  BY <1>1, <1>2, <1>6, CoveredHides, DeleteHides, InsertHides
<1>7. CASE UnregMatch
  <2>1. who \in Principal /\ list \in Attr
    BY <1>1 DEF TypeOK
  <2> QED
    BY <1>1, <1>2, <1>7, <2>1, UnregRevokes DEF Access!Next, Attr
<1>8. CASE Call
  <2>1. ASSUME NEW c \in Community, NEW o \in ViewOid, NEW a \in Attr, mib_community_reg(c, o, a)
        PROVE  [Access!Next]_(Access!vars)
    BY <1>3, <2>1 DEF mib_community_reg, Principal
  <2>2. ASSUME NEW u \in User, NEW o \in ViewOid, NEW a \in Attr, mib_user_reg(u, o, a)
        PROVE  [Access!Next]_(Access!vars)
    BY <1>3, <2>2 DEF mib_user_reg, Principal
  <2>3. ASSUME NEW p, NEW a, StartUnreg(p, a) PROVE [Access!Next]_(Access!vars)
    BY <1>4, <2>3 DEF StartUnreg
  <2> QED
    BY <1>8, <2>1, <2>2, <2>3 DEF Call, mib_community_unreg, mib_user_unreg
<1>9. CASE FilterSkip \/ FilterEnd \/ AddSkip
  BY <1>5, <1>9 DEF FilterSkip, FilterEnd, AddSkip, Filtering
<1>10. CASE UnregSkip \/ UnregEnd
  BY <1>4, <1>10 DEF UnregSkip, UnregEnd
<1>11. CASE UNCHANGED vars
  BY <1>5, <1>11 DEF vars
<1> QED
  BY <1>6, <1>7, <1>8, <1>9, <1>10, <1>11 DEF Next, Step, community_view_filter, user_view_filter,
     view_filter, community_view_add, user_view_add, view_add, community_unreg_loop,
     user_unreg_loop, unreg_loop

\* The lists of mib_view.c, filtered and sorted as they are, implement plain sets
\* of oids: a registration adds exactly the subtree it names, for writing to both
\* sets, and only an unregistration takes away.
THEOREM ViewImplements == Spec => ImplementsAccessControl
<1>1. Init => Access!Init
  <2> SUFFICES ASSUME Init PROVE Access!Init
    OBVIOUS
  <2>1. MayFacts
    BY InitInv, MayIs DEF ViewInv
  <2>2. ASSUME NEW p \in Principal PROVE MayRead[p] = {} /\ MayWrite[p] = {}
    <3>1. views[<<p, "READ">>] = <<>> /\ views[<<p, "WRITE">>] = <<>> /\ pc = "idle"
      BY DEF Init, Attr
    <3>2. \A u \in ViewOid : ~ Listed(p, "READ", u) /\ ~ Listed(p, "WRITE", u) /\ ~ Busy(p, u)
      BY <3>1, EmptyEntries DEF Listed, Busy
    <3> QED
      BY <2>1, <3>2 DEF MayFacts
  <2> QED
    BY <2>1, <2>2 DEF Access!Init, MayFacts
<1>2. ViewInv /\ ViewInv' /\ [Next]_vars => [Access!Next]_(Access!vars)
  BY StepImplements
<1> QED
  BY <1>1, <1>2, ViewInvariant, PTL DEF Spec, ImplementsAccessControl, Access!Spec
=============================================================================
