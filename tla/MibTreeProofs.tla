--------------------------- MODULE MibTreeProofs ---------------------------
(***************************************************************************)
(* The mib-tree is sound as a data structure at every step of every        *)
(* sequence of registrations and unregistrations, and implements the       *)
(* registry of module MibRegistry: for every set of oids, every number of  *)
(* handlers and every length of the traversal stack.                       *)
(***************************************************************************)
EXTENDS MibTree, OidProofs

\* Most steps are first-order reasoning; those that are not cite SMT.
USE Zenon

\* The oids that can be nodes.
LEMMA PathType == Path \subseteq OID /\ Root \in Path /\ NULL \notin Path /\ NULL # Root
<1>1. Path \subseteq OID /\ Root \in Path
  BY TreeAssumption DEF Root
<1>2. ASSUME NEW o \in OID PROVE NULL # o
  <2>1. SubId \subseteq Nat
    BY HalfAssumption, SMT DEF SubId, Word
  <2>2. NULL = o => Len(o) = 1 /\ o[1] = -1
    BY SMT DEF NULL
  <2>3. Len(o) = 1 => o[1] \in SubId
    BY SMT DEF OID
  <2>4. -1 \notin Nat
    BY SMT
  <2> QED
    BY <2>1, <2>2, <2>3, <2>4
<1> QED
  BY <1>1, <1>2

\* The prefixes of an oid at which there may be a node are others.
LEMMA PathPrefix ==
  ASSUME NEW o \in Path, NEW n \in 0 .. Len(o)
  PROVE  SubSeq(o, 1, n) \in Path
<1>1. o \in OID /\ Len(o) \in Nat
  BY PathType, SMT DEF OID
<1> DEFINE S == {m \in 0 .. Len(o) : SubSeq(o, 1, Len(o) - m) \notin Path}
<1>2. S \in SUBSET Nat
  BY <1>1, SMT
<1>3. SUFFICES S = {}
  <2>1. Len(o) - n \in 0 .. Len(o) /\ Len(o) - (Len(o) - n) = n
    BY <1>1, SMT
  <2> QED
    BY <1>3, <2>1
<1>4. SUFFICES ASSUME S # {} PROVE FALSE
  OBVIOUS
<1>5. PICK m \in S : \A k \in S : m <= k
  BY <1>2, <1>4, LeastElement
<1>6. m \in 0 .. Len(o) /\ SubSeq(o, 1, Len(o) - m) \notin Path
  OBVIOUS
<1>7. m # 0
  <2>1. Len(o) - 0 = Len(o) /\ Len(o) \in 0 .. Len(o)
    BY <1>1, SMT
  <2>2. SubSeq(o, 1, Len(o)) = o
    BY <1>1, <2>1, PrefixFacts
  <2> QED
    BY <1>6, <2>1, <2>2
<1>8. m - 1 \in 0 .. Len(o) /\ m - 1 \notin S /\ Len(o) - (m - 1) = (Len(o) - m) + 1
  BY <1>1, <1>5, <1>6, <1>7, SMT
<1>9. SubSeq(o, 1, (Len(o) - m) + 1) \in Path
  BY <1>8
<1>10. Len(o) - m \in 0 .. (Len(o) - 1) /\ (Len(o) - m) + 1 \in 0 .. Len(o)
       /\ (Len(o) - m) + 1 # 0
  BY <1>1, <1>6, <1>7, SMT
<1>11. Front(SubSeq(o, 1, (Len(o) - m) + 1)) = SubSeq(o, 1, Len(o) - m)
  BY <1>1, <1>10, PrefixStep
<1>12. SubSeq(o, 1, (Len(o) - m) + 1) # <<>>
  <2>1. Len(SubSeq(o, 1, (Len(o) - m) + 1)) = (Len(o) - m) + 1
    BY <1>1, <1>10, PrefixFacts
  <2>2. Len(<<>>) = 0
    OBVIOUS
  <2> QED
    BY <1>10, <2>1, <2>2
<1> QED
  BY <1>6, <1>9, <1>11, <1>12, TreeAssumption
-----------------------------------------------------------------------------
\* A pointer of a group, and what it leads to.
LEMMA LinkFacts ==
  ASSUME ArraysSound, LinksMatch, NEW p \in Path, NEW i \in 1 .. Len(sub_ptr[p])
  PROVE  /\ i \in 1 .. Len(sub_id[p]) /\ sub_id[p][i] \in SubId
         /\ sub_ptr[p][i] \in Path /\ sub_ptr[p][i] # Root
         /\ sub_ptr[p][i] = Append(p, sub_id[p][i])
         /\ Len(sub_ptr[p][i]) = Len(p) + 1 /\ Front(sub_ptr[p][i]) = p
         /\ Covers(p, sub_ptr[p][i])
         /\ type[p] = "group"
<1>1. /\ sub_id[p] \in Seq(SubId) /\ sub_ptr[p] \in Seq(Path)
      /\ Len(sub_ptr[p]) = Len(sub_id[p])
      /\ type[p] # "group" => sub_id[p] = <<>>
  BY DEF ArraysSound, TypeOK
<1>2. i \in 1 .. Len(sub_id[p]) /\ sub_id[p][i] \in SubId /\ sub_ptr[p][i] \in Path
  BY <1>1, SMT
<1>3. sub_ptr[p][i] = Append(p, sub_id[p][i])
  BY DEF LinksMatch
<1>4. p \in OID /\ Len(p) \in Nat
  BY PathType, SMT DEF OID
<1>5. /\ Len(sub_ptr[p][i]) = Len(p) + 1 /\ Front(sub_ptr[p][i]) = p
      /\ Covers(p, sub_ptr[p][i])
  BY <1>2, <1>3, <1>4, AppendFacts, SMT
<1>6. sub_ptr[p][i] # Root
  BY <1>4, <1>5, SMT DEF Root
<1>7. type[p] = "group"
  BY <1>1, <1>2, SMT
<1> QED
  BY <1>2, <1>3, <1>5, <1>6, <1>7

\* No two pointers lead to the same node.
LEMMA LinkUnique ==
  ASSUME ArraysSound, LinksMatch,
         NEW p \in Path, NEW i \in 1 .. Len(sub_ptr[p]),
         NEW q \in Path, NEW j \in 1 .. Len(sub_ptr[q]),
         sub_ptr[p][i] = sub_ptr[q][j]
  PROVE  p = q /\ i = j
<1>1. /\ i \in 1 .. Len(sub_id[p]) /\ sub_id[p][i] \in SubId
      /\ sub_ptr[p][i] = Append(p, sub_id[p][i]) /\ Front(sub_ptr[p][i]) = p
  BY LinkFacts
<1>2. /\ j \in 1 .. Len(sub_id[q]) /\ sub_id[q][j] \in SubId
      /\ sub_ptr[q][j] = Append(q, sub_id[q][j]) /\ Front(sub_ptr[q][j]) = q
  BY LinkFacts
<1>3. p = q
  BY <1>1, <1>2
<1>a. ASSUME NEW n \in Path, NEW x \in SubId PROVE Last(Append(n, x)) = x
  BY AppendFacts, PathType
<1>4. Last(sub_ptr[p][i]) = sub_id[p][i] /\ Last(sub_ptr[q][j]) = sub_id[q][j]
  BY <1>1, <1>2, <1>a
<1>5. sub_id[p][i] = sub_id[p][j]
  BY <1>3, <1>4
<1>6. StrictlySorted(sub_id[p]) /\ sub_id[p] \in Seq(SubId) /\ SubId \subseteq Int
  BY HalfAssumption, SMT DEF ArraysSound, TypeOK, SubId, Word
<1>7. ASSUME NEW k \in 1 .. Len(sub_id[p]), NEW l \in 1 .. Len(sub_id[p]), k < l
      PROVE  sub_id[p][k] # sub_id[p][l]
  <2>1. sub_id[p][k] < sub_id[p][l]
    BY <1>6, <1>7 DEF StrictlySorted
  <2>2. sub_id[p][k] \in SubId /\ sub_id[p][l] \in SubId
    BY <1>6, SMT
  <2>3. sub_id[p][k] \in Int /\ sub_id[p][l] \in Int
    BY <1>6, <2>2
  <2> QED
    BY <2>1, <2>3, SMT
<1>8. i < j \/ j < i \/ i = j
  BY <1>1, <1>2, SMT
<1> QED
  BY <1>1, <1>2, <1>3, <1>5, <1>7, <1>8

\* Above a node in memory there are groups all the way to the root, each with a
\* pointer to the next.
LEMMA Ancestors ==
  ASSUME ArraysSound, NoOrphans, NEW p \in Path, type[p] # "free",
         NEW q \in Path, Covers(q, p), q # p
  PROVE  type[q] = "group" /\ Len(q) \in 0 .. (Len(p) - 1)
         /\ Contains(sub_ptr[q], SubSeq(p, 1, Len(q) + 1)) /\ sub_ptr[q] # <<>>
<1>1. p \in OID /\ q \in OID /\ Len(p) \in Nat /\ Len(q) \in Nat
  BY PathType, SMT DEF OID
<1> DEFINE S == {m \in 0 .. Len(p) : type[SubSeq(p, 1, Len(p) - m)] = "free"}
<1>2. S = {}
  <2>1. SUFFICES ASSUME S # {} PROVE FALSE
    OBVIOUS
  <2>2. S \in SUBSET Nat
    BY <1>1, SMT
  <2>3. PICK m \in S : \A k \in S : m <= k
    BY <2>1, <2>2, LeastElement
  <2>4. m \in 0 .. Len(p) /\ type[SubSeq(p, 1, Len(p) - m)] = "free"
    OBVIOUS
  <2>5. m # 0
    <3>1. Len(p) - 0 = Len(p) /\ Len(p) \in 0 .. Len(p)
      BY <1>1, SMT
    <3>2. SubSeq(p, 1, Len(p)) = p
      BY <1>1, <3>1, PrefixFacts
    <3> QED
      BY <2>4, <3>1, <3>2
  <2>6. m - 1 \in 0 .. Len(p) /\ m - 1 \notin S /\ Len(p) - (m - 1) = (Len(p) - m) + 1
    BY <1>1, <2>3, <2>4, <2>5, SMT
  <2> DEFINE s == SubSeq(p, 1, (Len(p) - m) + 1)
  <2>7. type[s] # "free"
    BY <2>6
  <2>8. Len(p) - m \in 0 .. (Len(p) - 1) /\ (Len(p) - m) + 1 \in 0 .. Len(p)
        /\ (Len(p) - m) + 1 # 0
    BY <1>1, <2>4, <2>5, SMT
  <2>9. Front(s) = SubSeq(p, 1, Len(p) - m)
    BY <1>1, <2>8, PrefixStep
  <2>10. s \in Path /\ Len(s) = (Len(p) - m) + 1
    BY <1>1, <2>8, PrefixFacts, PathPrefix
  <2>11. s # Root
    BY <2>8, <2>10 DEF Root
  <2> HIDE DEF s
  <2>12. type[Front(s)] = "group"
    BY <2>7, <2>10, <2>11 DEF NoOrphans
  <2> QED
    BY <2>4, <2>9, <2>12
<1>3. Len(q) \in 0 .. Len(p) /\ q = SubSeq(p, 1, Len(q)) /\ Len(q) # Len(p)
  BY <1>1, CoversIsPrefix
<1>4. Len(q) \in 0 .. (Len(p) - 1) /\ Len(q) + 1 \in 0 .. Len(p) /\ Len(q) + 1 # 0
  BY <1>1, <1>3, SMT
<1> DEFINE s == SubSeq(p, 1, Len(q) + 1)
<1>5. s \in Path /\ Len(s) = Len(q) + 1 /\ Front(s) = q
  <2>1. s \in Path /\ Len(s) = Len(q) + 1
    BY <1>1, <1>4, PrefixFacts, PathPrefix
  <2>2. Front(s) = SubSeq(p, 1, Len(q))
    BY <1>1, <1>4, PrefixStep
  <2> QED
    BY <1>3, <2>1, <2>2
<1>6. type[s] # "free"
  <2>1. Len(p) - (Len(q) + 1) \in 0 .. Len(p) /\ Len(p) - (Len(p) - (Len(q) + 1)) = Len(q) + 1
    BY <1>1, <1>4, SMT
  <2> QED
    BY <1>2, <2>1
<1>7. s # Root
  BY <1>4, <1>5 DEF Root
<1>8. type[q] = "group" /\ Contains(sub_ptr[q], s)
  BY <1>5, <1>6, <1>7 DEF NoOrphans
<1>9. sub_ptr[q] # <<>>
  BY <1>8, SMT DEF Contains
<1> QED
  BY <1>4, <1>8, <1>9
-----------------------------------------------------------------------------
\* Where a walk is, and what the search in the cursor's array finds.
LEMMA WalkFacts ==
  ASSUME TreeSound, pc \in {"insert", "find"}, IdLeft > 0
  PROVE  /\ oid \in Path /\ at \in 0 .. (Len(oid) - 1) /\ NextId \in SubId
         /\ node \in Path /\ Len(node) = at
         /\ Append(node, NextId) = SubSeq(oid, 1, at + 1) /\ Append(node, NextId) \in Path
         /\ Search \in Int
         /\ Search >= 0 => /\ Search + 1 \in 1 .. Len(sub_ptr[node])
                           /\ Child(Search) = SubSeq(oid, 1, at + 1) /\ Child(Search) \in Path
         /\ Search < 0 => /\ -Search - 1 \in 0 .. Len(sub_id[node])
                          /\ \A i \in 1 .. (-Search - 1) : sub_id[node][i] < NextId
                          /\ \A i \in (-Search) .. Len(sub_id[node]) : sub_id[node][i] > NextId
<1>1. /\ oid \in Path /\ at <= Len(oid) /\ node = SubSeq(oid, 1, at)
      /\ at \in Nat
  BY DEF TreeSound, WalkSound, ArraysSound, TypeOK
<1>2. oid \in OID /\ Len(oid) \in Nat
  BY <1>1, PathType, SMT DEF OID
<1>3. at \in 0 .. (Len(oid) - 1) /\ at \in 0 .. Len(oid) /\ at + 1 \in 0 .. Len(oid)
  BY <1>1, <1>2, SMT DEF IdLeft
<1>4. node \in Path /\ Len(node) = at
  BY <1>1, <1>2, <1>3, PathPrefix, PrefixFacts
<1>5. NextId \in SubId /\ Append(node, NextId) = SubSeq(oid, 1, at + 1)
  BY <1>1, <1>2, <1>3, PrefixStep DEF NextId
<1>6. Append(node, NextId) \in Path
  BY <1>1, <1>3, <1>5, PathPrefix
<1>7. /\ sub_id[node] \in Seq(SubId) /\ StrictlySorted(sub_id[node])
      /\ Len(sub_ptr[node]) = Len(sub_id[node])
  BY <1>4 DEF TreeSound, ArraysSound, TypeOK
<1> DEFINE r == oid_binary_search(sub_id[node], NextId)
<1>8. /\ r \in Int
      /\ r >= 0 => r + 1 \in 1 .. Len(sub_id[node]) /\ sub_id[node][r + 1] = NextId
      /\ r < 0 => /\ -r - 1 \in 0 .. Len(sub_id[node])
                  /\ \A i \in 1 .. (-r - 1) : sub_id[node][i] < NextId
                  /\ \A i \in (-r) .. Len(sub_id[node]) : sub_id[node][i] > NextId
  BY <1>5, <1>7, SearchFacts
<1>9. Search = r
  BY DEF Search
<1> HIDE DEF r
<1>10. ASSUME r >= 0
       PROVE  /\ r + 1 \in 1 .. Len(sub_ptr[node])
              /\ Child(r) = SubSeq(oid, 1, at + 1) /\ Child(r) \in Path
  <2>1. r + 1 \in 1 .. Len(sub_ptr[node])
    BY <1>7, <1>8, <1>10
  <2>2. sub_ptr[node][r + 1] = Append(node, sub_id[node][r + 1])
    BY <1>4, <2>1 DEF TreeSound, LinksSound, LinksMatch
  <2>3. sub_ptr[node][r + 1] = SubSeq(oid, 1, at + 1)
    BY <1>5, <1>8, <1>10, <2>2
  <2> QED
    BY <1>5, <1>6, <2>1, <2>3 DEF Child
<1> QED
  BY <1>1, <1>3, <1>4, <1>5, <1>6, <1>8, <1>9, <1>10

\* While nothing is being deleted no pointer dangles.
LEMMA CalmAlive ==
  ASSUME TreeSound, ~ Busy, NEW p \in Path, NEW i \in 1 .. Len(sub_ptr[p])
  PROVE  type[sub_ptr[p][i]] # "free"
<1>1. stk = <<>> /\ pc \notin {"delete", "backtrack"}
  BY DEF TreeSound, WalkSound, Busy
<1>2. ~ Gone(p, i)
  BY <1>1, SMT DEF Gone
<1> QED
  BY <1>2 DEF TreeSound, LinksSound, NoDangling

\* A step that leaves the tree alone leaves it sound.
LEMMA TreeKept ==
  ASSUME ArraysSound, LinksMatch, NoOrphans, UNCHANGED tree, TypeOK'
  PROVE  ArraysSound' /\ LinksMatch' /\ NoOrphans'
<1>1. UNCHANGED <<type, sub_id, sub_ptr, sub_id_cap>>
  BY DEF tree
<1>2. ArraysSound'
  BY <1>1 DEF ArraysSound
<1>3. LinksMatch'
  BY <1>1 DEF LinksMatch
<1>4. NoOrphans'
  BY <1>1 DEF NoOrphans
<1> QED
  BY <1>2, <1>3, <1>4

\* The same for the whole invariant where there is no deletion.
LEMMA CalmStep ==
  ASSUME TreeSound, ~ Busy, UNCHANGED tree, TypeOK', ~ Busy', WalkSound'
  PROVE  TreeSound'
<1>1. ArraysSound' /\ LinksMatch' /\ NoOrphans'
  BY TreeKept DEF TreeSound, LinksSound
<1>2. NoDangling'
  <2>1. stk' = <<>> /\ pc' \notin {"delete", "backtrack"}
    BY DEF WalkSound, Busy
  <2>2. \A p, i : ~ Gone(p, i)'
    BY <2>1, SMT DEF Gone
  <2>3. sub_ptr' = sub_ptr /\ type' = type
    BY DEF tree
  <2> QED
    BY <2>2, <2>3, CalmAlive DEF NoDangling
<1>3. DeletionSound'
  BY DEF DeletionSound
<1> QED
  BY <1>1, <1>2, <1>3 DEF TreeSound, LinksSound
-----------------------------------------------------------------------------
\* The invariant: the tree is sound and its handlers are alive.
TreeInv == TreeSound /\ HandlersLive

\* What a call leaves behind.
LEMMA ReturnSound ==
  ASSUME TreeSound, ~ Busy, UNCHANGED <<tree, refs>>, Return, ret' \in {0, -1}
  PROVE  TreeSound'
<1>1. TypeOK'
  <2>1. Root \in Path /\ <<>> \in OID /\ NoEntry \in Nat \cup {None, NoEntry}
    BY PathType, SMT DEF OID
  <2>2. /\ UNCHANGED <<type, sub_id, sub_ptr, sub_id_cap, callback, refs>>
        /\ pc' = "idle" /\ oid' = <<>> /\ cb' = NoCallback
        /\ at' = 0 /\ node' = Root /\ parent' = Root /\ sub_idx' = 0
        /\ p_nbl' = NoEntry /\ stk' = <<>>
    BY DEF tree, Return
  <2> QED
    BY <2>1, <2>2, SMT DEF TreeSound, ArraysSound, TypeOK
<1>2. ~ Busy' /\ WalkSound'
  BY DEF Return, Busy, WalkSound, Root
<1> QED
  BY <1>1, <1>2, CalmStep

\* Handlers stay alive as long as nothing is released and no instance is made.
LEMMA HandlersKept ==
  ASSUME HandlersLive, UNCHANGED <<type, callback>>, refs \subseteq refs',
         pc' = "insert" => pc = "insert" /\ cb' = cb
  PROVE  HandlersLive'
BY DEF HandlersLive, Instance

\* mib_node_reg starts at the root, and nothing of the tree changes yet.
LEMMA RegStep ==
  ASSUME TreeInv, NEW o \in Path, NEW c \in Callback, mib_node_reg(o, c)
  PROVE  TreeInv'
<1> USE DEF TreeInv
<1>0. pc = "idle" /\ ~ Busy /\ c \notin refs /\ refs' = refs \cup {c} /\ UNCHANGED tree
      /\ UNCHANGED <<at, node, parent, sub_idx, p_nbl, stk>>
  BY DEF mib_node_reg, Busy
<1>1. oid = Root /\ at = 0 /\ node = Root /\ stk = <<>> /\ p_nbl = NoEntry
  BY <1>0 DEF TreeSound, WalkSound
<1>2. o \in OID /\ Len(o) \in Nat /\ SubSeq(o, 1, 0) = Root
  <2>1. o \in OID
    BY PathType
  <2>2. Len(o) \in Nat
    BY <2>1, SMT DEF OID
  <2> QED
    BY <2>1, <2>2, PrefixFacts, SMT DEF Root
<1>3. \A p \in Path : Instance(p) => callback[p] # c
  BY <1>0 DEF HandlersLive
<1>a. UNCHANGED <<type, sub_id, sub_ptr, sub_id_cap, callback>>
  BY <1>0 DEF tree
<1>4. CASE Len(o) = 0 \/ Len(o) > MIB_OID_MAX_LEN
  <2>1. ret' = -1 /\ UNCHANGED <<pc, oid, cb>>
    BY <1>4 DEF mib_node_reg
  <2>2. TypeOK'
    BY <1>0, <1>a, <2>1 DEF TreeSound, ArraysSound, TypeOK
  <2>3. ~ Busy' /\ WalkSound'
    BY <1>0, <1>1, <2>1 DEF Busy, WalkSound
  <2>4. HandlersLive'
    BY <1>0, <1>a, <2>1, HandlersKept
  <2> QED
    BY <1>0, <2>2, <2>3, <2>4, CalmStep
<1>5. CASE ~ (Len(o) = 0 \/ Len(o) > MIB_OID_MAX_LEN)
  <2>1. pc' = "insert" /\ oid' = o /\ cb' = c /\ UNCHANGED ret
    BY <1>5 DEF mib_node_reg
  <2>2. TypeOK'
    BY <1>0, <1>2, <1>a, <2>1 DEF TreeSound, ArraysSound, TypeOK
  <2>3. ~ Busy' /\ WalkSound'
    <3>1. Len(o) \in 1 .. MIB_OID_MAX_LEN
      BY <1>2, <1>5, TreeAssumption, SMT
    <3>2. type[Root] # "free"
      BY DEF TreeSound, ArraysSound
    <3> QED
      BY <1>0, <1>1, <1>2, <1>a, <2>1, <3>1, <3>2, SMT DEF Busy, WalkSound
  <2>4. HandlersLive'
    BY <1>0, <1>3, <1>a, <2>1 DEF HandlersLive, Instance
  <2> QED
    BY <1>0, <2>2, <2>3, <2>4, CalmStep
<1> QED
  BY <1>4, <1>5

\* mib_node_unreg starts at the root, and nothing of the tree changes yet.
LEMMA UnregStep ==
  ASSUME TreeInv, NEW o \in Path, mib_node_unreg(o)
  PROVE  TreeInv'
<1> USE DEF TreeInv
<1>0. /\ pc = "idle" /\ ~ Busy /\ pc' = "find" /\ oid' = o /\ UNCHANGED tree
      /\ UNCHANGED <<refs, cb, ret, at, node, parent, sub_idx, p_nbl, stk>>
  BY DEF mib_node_unreg, Busy
<1>1. oid = Root /\ at = 0 /\ node = Root /\ stk = <<>> /\ p_nbl = NoEntry
  BY <1>0 DEF TreeSound, WalkSound
<1>2. o \in OID /\ Len(o) \in Nat /\ SubSeq(o, 1, 0) = Root
  <2>1. o \in OID
    BY PathType
  <2>2. Len(o) \in Nat
    BY <2>1, SMT DEF OID
  <2> QED
    BY <2>1, <2>2, PrefixFacts, SMT DEF Root
<1>a. UNCHANGED <<type, sub_id, sub_ptr, sub_id_cap, callback>>
  BY <1>0 DEF tree
<1>3. TypeOK'
  BY <1>0, <1>2, <1>a DEF TreeSound, ArraysSound, TypeOK
<1>4. ~ Busy' /\ WalkSound'
  <2>1. type[Root] # "free"
    BY DEF TreeSound, ArraysSound
  <2> QED
    BY <1>0, <1>1, <1>2, <1>a, <2>1, SMT DEF Busy, WalkSound
<1>5. HandlersLive'
  BY <1>0, <1>a, HandlersKept
<1> QED
  BY <1>0, <1>3, <1>4, <1>5, CalmStep

\* mib_tree_instance_insert follows the oid one node down.
LEMMA InsertDescendStep ==
  ASSUME TreeInv, InsertDescend
  PROVE  TreeInv'
<1> USE DEF TreeInv
<1>0. /\ pc = "insert" /\ ~ Busy /\ IdLeft > 0 /\ Search >= 0 /\ UNCHANGED tree
      /\ at' = at + 1 /\ node' = Child(Search)
      /\ UNCHANGED <<refs, pc, oid, cb, ret, parent, sub_idx, p_nbl, stk>>
  BY DEF InsertDescend, Inserting, Busy
<1>1. /\ oid \in Path /\ at \in 0 .. (Len(oid) - 1) /\ node \in Path
      /\ Search + 1 \in 1 .. Len(sub_ptr[node])
      /\ Child(Search) = SubSeq(oid, 1, at + 1) /\ Child(Search) \in Path
  BY <1>0, WalkFacts
<1>2. Len(oid) \in Nat
  BY <1>1, PathType, SMT DEF OID
<1>3. type[Child(Search)] # "free"
  BY <1>0, <1>1, CalmAlive DEF Child
<1>a. UNCHANGED <<type, sub_id, sub_ptr, sub_id_cap, callback>>
  BY <1>0 DEF tree
<1>4. TypeOK'
  <2>1. at' \in Nat /\ node' \in Path
    BY <1>0, <1>1, <1>2, SMT
  <2> QED
    BY <1>0, <1>a, <2>1 DEF TreeSound, ArraysSound, TypeOK
<1>5. ~ Busy' /\ WalkSound'
  <2>1. at + 1 <= Len(oid)
    BY <1>1, <1>2, SMT
  <2>2. Len(oid) \in 1 .. MIB_OID_MAX_LEN /\ stk = <<>> /\ p_nbl = NoEntry
    BY <1>0 DEF TreeSound, WalkSound
  <2> QED
    BY <1>0, <1>1, <1>3, <1>a, <2>1, <2>2 DEF Busy, WalkSound
<1>6. HandlersLive'
  BY <1>0, <1>a, HandlersKept
<1> QED
  BY <1>0, <1>4, <1>5, <1>6, CalmStep

\* mib_tree_node_search follows the oid one node down.
LEMMA FindDescendStep ==
  ASSUME TreeInv, FindDescend
  PROVE  TreeInv'
<1> USE DEF TreeInv
<1>0. /\ pc = "find" /\ ~ Busy /\ IdLeft > 0 /\ Search >= 0 /\ UNCHANGED tree
      /\ at' = at + 1 /\ sub_idx' = Search /\ parent' = node /\ node' = Child(Search)
      /\ UNCHANGED <<refs, pc, oid, cb, ret, p_nbl, stk>>
  BY DEF FindDescend, Finding, Busy
<1>1. /\ oid \in Path /\ at \in 0 .. (Len(oid) - 1) /\ node \in Path
      /\ Search \in Int /\ Search + 1 \in 1 .. Len(sub_ptr[node])
      /\ Child(Search) = SubSeq(oid, 1, at + 1) /\ Child(Search) \in Path
  BY <1>0, WalkFacts
<1>2. Len(oid) \in Nat
  BY <1>1, PathType, SMT DEF OID
<1>3. type[Child(Search)] # "free"
  BY <1>0, <1>1, CalmAlive DEF Child
<1>a. UNCHANGED <<type, sub_id, sub_ptr, sub_id_cap, callback>>
  BY <1>0 DEF tree
<1>4. TypeOK'
  <2>1. at' \in Nat /\ node' \in Path /\ parent' \in Path /\ sub_idx' \in Nat
    BY <1>0, <1>1, <1>2, SMT
  <2> QED
    BY <1>0, <1>a, <2>1 DEF TreeSound, ArraysSound, TypeOK
<1>5. ~ Busy' /\ WalkSound'
  <2>1. at + 1 <= Len(oid)
    BY <1>1, <1>2, SMT
  <2>2. Search < Len(sub_ptr[node]) /\ sub_ptr[node][Search + 1] = Child(Search)
    BY <1>1, SMT DEF Child
  <2>3. stk = <<>> /\ p_nbl = NoEntry
    BY <1>0 DEF TreeSound, WalkSound
  <2> QED
    BY <1>0, <1>1, <1>3, <1>a, <2>1, <2>2, <2>3 DEF Busy, WalkSound
<1>6. HandlersLive'
  BY <1>0, <1>a, HandlersKept
<1> QED
  BY <1>0, <1>4, <1>5, <1>6, CalmStep

\* The ends of the walks that do not find anything to do.
LEMMA GiveUpStep ==
  ASSUME TreeInv, pc \in {"insert", "find"}, Return, ret' \in {0, -1}, UNCHANGED <<tree, refs>>
  PROVE  TreeInv'
<1>1. ~ Busy /\ pc' # "insert"
  BY DEF Busy, Return
<1>2. HandlersLive'
  BY <1>1, HandlersKept DEF TreeInv, tree
<1> QED
  BY <1>1, <1>2, ReturnSound DEF TreeInv
-----------------------------------------------------------------------------
\* The node made by an insertion was not there before.
LEMMA NewIsFree ==
  ASSUME TreeSound, Inserting,
         \A j \in 1 .. Len(sub_id[node]) : sub_id[node][j] # NextId
  PROVE  /\ type[Append(node, NextId)] = "free"
         /\ Append(node, NextId) \in Path \ {Root} /\ Append(node, NextId) # node
         /\ Front(Append(node, NextId)) = node
<1> DEFINE new == Append(node, NextId)
<1>1. node \in Path /\ NextId \in SubId /\ new \in Path
  BY WalkFacts DEF Inserting
<1>2. node \in OID /\ Len(node) \in Nat
  BY <1>1, PathType, SMT DEF OID
<1>3. Front(new) = node /\ Len(new) = Len(node) + 1 /\ Last(new) = NextId
  BY <1>1, <1>2, AppendFacts
<1> HIDE DEF new
<1>4. new # Root /\ new # node
  BY <1>2, <1>3, SMT DEF Root
<1>5. ASSUME type[new] # "free" PROVE FALSE
  <2>1. Contains(sub_ptr[node], new)
    BY <1>1, <1>3, <1>4, <1>5 DEF TreeSound, LinksSound, NoOrphans
  <2>2. PICK j \in 1 .. Len(sub_ptr[node]) : sub_ptr[node][j] = new
    BY <2>1 DEF Contains
  <2>3. j \in 1 .. Len(sub_id[node]) /\ sub_id[node][j] \in SubId /\ new = Append(node, sub_id[node][j])
    BY <1>1, <2>2, LinkFacts DEF TreeSound, LinksSound
  <2>4. Last(new) = sub_id[node][j]
    BY <1>2, <2>3, AppendFacts
  <2> QED
    BY <1>3, <2>3, <2>4
<1> QED
  BY <1>1, <1>3, <1>4, <1>5 DEF new

\* What an insertion adds below a group node keeps the tree sound, whether the
\* group node was empty (raw) or has other children (expanded).
LEMMA AllocateStep ==
  ASSUME TreeInv, Inserting, UNCHANGED refs, NEW i \in 0 .. Len(sub_id[node]),
         \A j \in 1 .. i : sub_id[node][j] < NextId,
         \A j \in (i + 1) .. Len(sub_id[node]) : sub_id[node][j] > NextId,
         Allocate(i), NEW cap \in Nat, Len(sub_id[node]) + 1 <= cap, NewCap(cap)
  PROVE  TreeInv'
<1> DEFINE new == Append(node, NextId)
           a == sub_id[node]
           r == sub_ptr[node]
           last == IdLeft = 1
<1>1. /\ TreeSound /\ HandlersLive /\ pc = "insert" /\ IdLeft > 0 /\ type[node] = "group" /\ ~ Busy
      /\ ArraysSound /\ LinksMatch /\ NoOrphans /\ TypeOK
  BY DEF TreeInv, TreeSound, LinksSound, ArraysSound, Inserting, Busy
<1>2. /\ oid \in Path /\ at \in 0 .. (Len(oid) - 1) /\ NextId \in SubId
      /\ node \in Path /\ Len(node) = at /\ new = SubSeq(oid, 1, at + 1)
  BY <1>1, WalkFacts
<1>3. /\ a \in Seq(SubId) /\ r \in Seq(Path) /\ Len(a) \in Nat /\ Len(r) = Len(a)
      /\ StrictlySorted(a) /\ \A j \in 1 .. Len(a) : a[j] \in Int
      /\ Len(oid) \in Nat /\ oid \in OID /\ NextId \in Int
  <2>1. a \in Seq(SubId) /\ r \in Seq(Path) /\ Len(r) = Len(a) /\ StrictlySorted(a)
    BY <1>1, <1>2 DEF ArraysSound, TypeOK
  <2>2. SubId \subseteq Int
    BY HalfAssumption, SMT DEF SubId, Word
  <2>3. Len(a) \in Nat /\ \A j \in 1 .. Len(a) : a[j] \in SubId
    BY <2>1, SMT
  <2>4. oid \in OID /\ Len(oid) \in Nat
    BY <1>2, PathType, SMT DEF OID
  <2> QED
    BY <1>2, <2>1, <2>2, <2>3, <2>4
<1>4. /\ type[new] = "free" /\ new \in Path /\ new # Root /\ new # node /\ Front(new) = node
  <2>1. \A j \in 1 .. Len(a) : a[j] # NextId
    BY <1>3, SMT
  <2> QED
    BY <1>1, <2>1, NewIsFree
<1> DEFINE ids == InsertAt(a, i + 1, NextId)
           ptrs == InsertAt(r, i + 1, new)
<1>5. /\ sub_id' = [sub_id EXCEPT ![node] = ids]
      /\ sub_ptr' = [sub_ptr EXCEPT ![node] = ptrs]
      /\ type' = [type EXCEPT ![new] = IF last THEN "instance" ELSE "group"]
      /\ callback' = [callback EXCEPT ![new] = IF last THEN cb ELSE NoCallback]
      /\ sub_id_cap' = [sub_id_cap EXCEPT ![node] = cap, ![new] = IF last THEN 0 ELSE 1]
      /\ last => Return /\ ret' = 0
      /\ ~ last => /\ at' = at + 1 /\ node' = new
                   /\ UNCHANGED <<pc, oid, cb, ret, parent, sub_idx, p_nbl, stk>>
  BY DEF Allocate, NewCap
<1>6. i + 1 \in 1 .. (Len(a) + 1) /\ i + 1 \in 1 .. (Len(r) + 1)
  BY <1>3, SMT
<1> HIDE DEF new, last
<1>a. /\ ids \in Seq(SubId) /\ Len(ids) = Len(a) + 1
      /\ \A j \in 1 .. (Len(a) + 1) : /\ j < i + 1 => ids[j] = a[j]
                                      /\ j = i + 1 => ids[j] = NextId
                                      /\ j > i + 1 => ids[j] = a[j - 1]
  <2>1. i \in 0 .. Len(a) /\ a \in Seq(SubId) /\ NextId \in SubId
    BY <1>2, <1>3
  <2> HIDE DEF a
  <2> QED
    BY ONLY <2>1, InsertBehind, SMT
<1>b. /\ ptrs \in Seq(Path) /\ Len(ptrs) = Len(r) + 1
      /\ \A o : Contains(ptrs, o) <=> Contains(r, o) \/ o = new
      /\ \A j \in 1 .. (Len(r) + 1) : /\ j < i + 1 => ptrs[j] = r[j]
                                      /\ j = i + 1 => ptrs[j] = new
                                      /\ j > i + 1 => ptrs[j] = r[j - 1]
  <2>1. i \in 0 .. Len(r) /\ r \in Seq(Path) /\ new \in Path
    BY <1>3, <1>4
  <2> HIDE DEF r
  <2>2. ptrs \in Seq(Path) /\ Len(ptrs) = Len(r) + 1
    BY ONLY <2>1, InsertBehind, SMT
  <2>3. \A o : Contains(ptrs, o) <=> Contains(r, o) \/ o = new
    BY ONLY <2>1, InsertBehind, SMT
  <2>4. \A j \in 1 .. (Len(r) + 1) : /\ j < i + 1 => ptrs[j] = r[j]
                                     /\ j = i + 1 => ptrs[j] = new
                                     /\ j > i + 1 => ptrs[j] = r[j - 1]
    BY ONLY <2>1, InsertBehind, SMT
  <2> QED
    BY ONLY <2>2, <2>3, <2>4
<1>7. ids \in Seq(SubId) /\ Len(ids) = Len(a) + 1 /\ StrictlySorted(ids)
  BY <1>2, <1>3, <1>a, InsertSorted
<1>8. ptrs \in Seq(Path) /\ Len(ptrs) = Len(a) + 1
  BY <1>3, <1>b
<1>9. ASSUME NEW j \in 1 .. (Len(a) + 1)
      PROVE  \/ j = i + 1 /\ ids[j] = NextId /\ ptrs[j] = new
             \/ \E k \in 1 .. Len(a) : ids[j] = a[k] /\ ptrs[j] = r[k]
  <2>1. /\ j < i + 1 => ids[j] = a[j]
        /\ j = i + 1 => ids[j] = NextId
        /\ j > i + 1 => ids[j] = a[j - 1]
    BY <1>a
  <2>2. /\ j < i + 1 => ptrs[j] = r[j]
        /\ j = i + 1 => ptrs[j] = new
        /\ j > i + 1 => ptrs[j] = r[j - 1]
    BY <1>3, <1>b
  <2> HIDE DEF ids, ptrs, a, r
  <2>3. CASE j < i + 1
    BY <1>3, <1>6, <2>1, <2>2, <2>3, SMT
  <2>4. CASE j = i + 1
    BY <2>1, <2>2, <2>4
  <2>5. CASE j > i + 1
    <3>1. j - 1 \in 1 .. Len(a)
      BY <1>3, <1>6, <2>5, SMT
    <3> QED
      BY <2>1, <2>2, <2>5, <3>1
  <2> QED
    BY <1>3, <1>6, <2>3, <2>4, <2>5, SMT
<1>10. \A o : Contains(ptrs, o) <=> Contains(r, o) \/ o = new
  BY <1>b
<1> HIDE DEF ids, ptrs
<1>11. /\ sub_id'[node] = ids /\ \A p \in Path : p # node => sub_id'[p] = sub_id[p]
       /\ sub_ptr'[node] = ptrs /\ \A p \in Path : p # node => sub_ptr'[p] = sub_ptr[p]
       /\ type'[new] = (IF last THEN "instance" ELSE "group")
       /\ \A p \in Path : p # new => type'[p] = type[p]
       /\ callback'[new] = (IF last THEN cb ELSE NoCallback)
       /\ \A p \in Path : p # new => callback'[p] = callback[p]
       /\ sub_id_cap'[node] = cap /\ sub_id_cap'[new] = (IF last THEN 0 ELSE 1)
       /\ \A p \in Path : p # new /\ p # node => sub_id_cap'[p] = sub_id_cap[p]
  BY <1>1, <1>2, <1>4, <1>5 DEF TypeOK
<1>12. TypeOK'
  <2>1. /\ sub_id' \in [Path -> Seq(SubId)] /\ sub_ptr' \in [Path -> Seq(Path)]
        /\ type' \in [Path -> {"group", "instance", "free"}]
        /\ callback' \in [Path -> Callback \cup {NoCallback}]
        /\ sub_id_cap' \in [Path -> Nat]
    BY <1>1, <1>5, <1>7, <1>8 DEF TypeOK
  <2>2. CASE last
    <3>1. Root \in Path /\ <<>> \in OID /\ NoEntry \in Nat \cup {None, NoEntry}
      BY PathType, SMT DEF OID
    <3>2. /\ pc' = "idle" /\ oid' = <<>> /\ cb' = NoCallback
          /\ at' = 0 /\ node' = Root /\ parent' = Root /\ sub_idx' = 0
          /\ p_nbl' = NoEntry /\ stk' = <<>> /\ ret' = 0
      BY <1>5, <2>2 DEF Return
    <3>3. refs' \subseteq Callback
      BY <1>1 DEF TypeOK
    <3> QED
      BY <2>1, <3>1, <3>2, <3>3, SMT DEF TypeOK
  <2>3. CASE ~ last
    <3>0. at' = at + 1 /\ node' = new
      BY <1>5, <2>3
    <3>1. at' \in Nat /\ node' \in Path
      BY <1>2, <1>3, <1>4, <3>0, SMT
    <3> QED
      BY <1>1, <1>5, <2>1, <2>3, <3>1 DEF TypeOK
  <2> QED
    BY <2>2, <2>3
<1>13. ArraysSound'
  <2>1. type'[Root] = "group"
    BY <1>1, <1>4, <1>11, PathType DEF ArraysSound
  <2>2. ASSUME NEW p \in Path
        PROVE  /\ StrictlySorted(sub_id'[p])
               /\ Len(sub_ptr'[p]) = Len(sub_id'[p])
               /\ Len(sub_id'[p]) <= sub_id_cap'[p]
               /\ IF type'[p] = "group" THEN sub_id_cap'[p] > 0 ELSE sub_id'[p] = <<>>
               /\ type'[p] # "free" => Len(p) <= MIB_OID_MAX_LEN
    <3>1. CASE p = node
      <4>1. Len(node) <= MIB_OID_MAX_LEN /\ type'[p] = "group"
        BY <1>1, <1>2, <1>4, <1>11, <3>1 DEF ArraysSound
      <4>2. cap > 0
        BY <1>3, SMT
      <4> QED
        BY <1>3, <1>7, <1>8, <1>11, <3>1, <4>1, <4>2
    <3>2. CASE p = new
      <4>1. sub_id[new] = <<>> /\ Len(sub_ptr[new]) = Len(sub_id[new]) /\ StrictlySorted(sub_id[new])
        BY <1>1, <1>4 DEF ArraysSound
      <4>2. sub_id'[new] = <<>> /\ sub_ptr'[new] = sub_ptr[new]
        BY <1>4, <1>11, <4>1
      <4>3. Len(new) <= MIB_OID_MAX_LEN
        <5>1. Len(new) = at + 1
          BY <1>2, <1>3, PrefixFacts, SMT
        <5>2. Len(oid) <= MIB_OID_MAX_LEN /\ MIB_OID_MAX_LEN \in Nat
          BY <1>1, TreeAssumption, SMT DEF TreeSound, WalkSound
        <5> QED
          BY <1>2, <1>3, <5>1, <5>2, SMT
      <4>4. Len(sub_id[new]) = 0
        BY <4>1, SMT
      <4> QED
        BY <1>11, <3>2, <4>1, <4>2, <4>3, <4>4, SMT
    <3>3. CASE p # node /\ p # new
      BY <1>1, <1>11, <3>3 DEF ArraysSound
    <3> QED
      BY <3>1, <3>2, <3>3
  <2> QED
    BY <1>12, <2>1, <2>2 DEF ArraysSound
<1>14. LinksMatch'
  <2> SUFFICES ASSUME NEW p \in Path, NEW j \in 1 .. Len(sub_ptr'[p])
               PROVE  sub_ptr'[p][j] = Append(p, sub_id'[p][j])
    BY DEF LinksMatch
  <2>1. CASE p = node
    <3>1. j \in 1 .. (Len(a) + 1)
      BY <1>8, <1>11, <2>1
    <3>2. CASE ids[j] = NextId /\ ptrs[j] = new
      BY <1>11, <2>1, <3>2 DEF new
    <3>3. ASSUME NEW k \in 1 .. Len(a), ids[j] = a[k], ptrs[j] = r[k]
          PROVE  ptrs[j] = Append(p, ids[j])
      <4>1. r[k] = Append(node, a[k])
        BY <1>1, <1>2, <1>3 DEF LinksMatch
      <4> QED
        BY <2>1, <3>3, <4>1
    <3> QED
      BY <1>9, <1>11, <2>1, <3>1, <3>2, <3>3
  <2>2. CASE p # node
    BY <1>1, <1>11, <2>2, SMT DEF LinksMatch
  <2> QED
    BY <2>1, <2>2
<1>15. ~ Busy' /\ WalkSound'
  <2>1. CASE last
    BY <1>5, <2>1 DEF Return, Busy, WalkSound, Root
  <2>2. CASE ~ last
    <3>1. at + 1 <= Len(oid) /\ type'[new] # "free"
      BY <1>2, <1>3, <1>11, <2>2, SMT
    <3>2. Len(oid) \in 1 .. MIB_OID_MAX_LEN /\ stk = <<>> /\ p_nbl = NoEntry
      BY <1>1 DEF TreeSound, WalkSound
    <3> QED
      BY <1>1, <1>2, <1>5, <2>2, <3>1, <3>2 DEF Busy, WalkSound
  <2> QED
    BY <2>1, <2>2
<1>16. NoDangling'
  <2>1. stk' = <<>> /\ pc' \notin {"delete", "backtrack"}
    BY <1>15 DEF WalkSound, Busy
  <2>2. \A p, j : ~ Gone(p, j)'
    BY <2>1, SMT DEF Gone
  <2>3. ASSUME NEW p \in Path, NEW j \in 1 .. Len(sub_ptr[p])
        PROVE  type'[sub_ptr[p][j]] # "free"
    <3>1. type[sub_ptr[p][j]] # "free" /\ sub_ptr[p][j] \in Path
      BY <1>1, CalmAlive, LinkFacts
    <3> QED
      BY <1>4, <1>11, <3>1
  <2>4. ASSUME NEW p \in Path, NEW j \in 1 .. Len(sub_ptr'[p])
        PROVE  type'[sub_ptr'[p][j]] # "free"
    <3>1. CASE p = node
      <4>1. j \in 1 .. (Len(a) + 1)
        BY <1>8, <1>11, <3>1
      <4>2. CASE ptrs[j] = new
        BY <1>11, <3>1, <4>2
      <4>3. ASSUME NEW k \in 1 .. Len(a), ptrs[j] = r[k] PROVE type'[ptrs[j]] # "free"
        BY <1>2, <1>3, <2>3, <4>3
      <4> QED
        BY <1>9, <1>11, <3>1, <4>1, <4>2, <4>3
    <3>2. CASE p # node
      BY <1>11, <2>3, <3>2, SMT
    <3> QED
      BY <3>1, <3>2
  <2> QED
    BY <2>2, <2>4 DEF NoDangling
<1>17. NoOrphans'
  <2> SUFFICES ASSUME NEW p \in Path \ {Root}, type'[p] # "free"
               PROVE  type'[Front(p)] = "group" /\ Contains(sub_ptr'[Front(p)], p)
    BY DEF NoOrphans
  <2>1. CASE p = new
    BY <1>1, <1>2, <1>4, <1>10, <1>11, <2>1
  <2>2. CASE p # new
    <3>1. type[p] # "free"
      BY <1>11, <2>2
    <3>2. type[Front(p)] = "group" /\ Contains(sub_ptr[Front(p)], p)
      BY <1>1, <3>1 DEF NoOrphans
    <3>3. Front(p) \in Path
      BY TreeAssumption DEF Root
    <3>4. Front(p) # new
      BY <1>4, <3>2
    <3> QED
      BY <1>10, <1>11, <3>2, <3>3, <3>4
  <2> QED
    BY <2>1, <2>2
<1>18. DeletionSound'
  BY <1>15 DEF DeletionSound
<1>19. HandlersLive'
  <2>1. cb \in refs /\ \A p \in Path : type[p] = "instance" => callback[p] # cb
    BY <1>1 DEF HandlersLive, Instance
  <2>2. \A p, q \in Path : type[p] = "instance" =>
          /\ callback[p] \in refs
          /\ type[q] = "instance" /\ p # q => callback[p] # callback[q]
    BY <1>1 DEF HandlersLive, Instance
  <2>3. CASE last
    <3>1. pc' # "insert"
      BY <1>5, <2>3 DEF Return
    <3> QED
      BY <1>4, <1>11, <2>1, <2>2, <2>3, <3>1, SMT DEF HandlersLive, Instance
  <2>4. CASE ~ last
    <3>1. cb' = cb
      BY <1>5, <2>4
    <3> QED
      BY <1>4, <1>11, <2>1, <2>2, <2>4, <3>1, SMT DEF HandlersLive, Instance
  <2> QED
    BY <2>3, <2>4
<1> QED
  BY <1>13, <1>14, <1>15, <1>16, <1>17, <1>18, <1>19 DEF TreeInv, TreeSound, LinksSound

\* mib_tree_instance_insert at a group node without children.
LEMMA InsertRawStep ==
  ASSUME TreeInv, InsertRaw
  PROVE  TreeInv'
<1>1. /\ Inserting /\ Allocate(0) /\ NewCap(sub_id_cap[node]) /\ UNCHANGED refs
      /\ Len(sub_id[node]) = 0
  BY DEF InsertRaw, is_raw_group, sub_id_cnt
<1>2. node \in Path
  BY <1>1, WalkFacts DEF TreeInv, Inserting
<1>3. sub_id_cap[node] \in Nat /\ sub_id_cap[node] > 0
  BY <1>1, <1>2 DEF TreeInv, TreeSound, ArraysSound, TypeOK, Inserting
<1>4. /\ 0 \in 0 .. Len(sub_id[node]) /\ Len(sub_id[node]) + 1 <= sub_id_cap[node]
      /\ \A j \in 1 .. 0 : sub_id[node][j] < NextId
      /\ \A j \in (0 + 1) .. Len(sub_id[node]) : sub_id[node][j] > NextId
  BY <1>1, <1>3, SMT
<1> QED
  BY <1>1, <1>3, <1>4, AllocateStep

\* mib_tree_instance_insert at a group node with children.
LEMMA InsertExpandStep ==
  ASSUME TreeInv, InsertExpand
  PROVE  TreeInv'
<1> DEFINE i == -Search - 1
           cap == IF sub_id_cnt(node) + 1 > sub_id_cap[node]
                  THEN alloc_nr(sub_id_cap[node]) ELSE sub_id_cap[node]
<1>1. Inserting /\ Search < 0 /\ Allocate(i) /\ NewCap(cap) /\ UNCHANGED refs
  BY DEF InsertExpand
<1>2. /\ node \in Path /\ Search \in Int /\ i \in 0 .. Len(sub_id[node])
      /\ \A j \in 1 .. i : sub_id[node][j] < NextId
      /\ \A j \in (-Search) .. Len(sub_id[node]) : sub_id[node][j] > NextId
  BY <1>1, WalkFacts DEF TreeInv, Inserting
<1>3. /\ sub_id_cap[node] \in Nat /\ Len(sub_id[node]) \in Nat
      /\ Len(sub_id[node]) <= sub_id_cap[node]
  <2>1. sub_id[node] \in Seq(SubId) /\ sub_id_cap[node] \in Nat /\ Len(sub_id[node]) <= sub_id_cap[node]
    BY <1>2 DEF TreeInv, TreeSound, ArraysSound, TypeOK
  <2> QED
    BY <2>1, SMT
<1>4. cap \in Nat /\ Len(sub_id[node]) + 1 <= cap
  BY <1>3, SMT DEF alloc_nr, sub_id_cnt
<1>5. i + 1 = -Search
  BY <1>2, SMT
<1> HIDE DEF i, cap
<1>6. \A j \in (i + 1) .. Len(sub_id[node]) : sub_id[node][j] > NextId
  BY <1>2, <1>5
<1> QED
  BY <1>1, <1>2, <1>4, <1>6, AllocateStep
-----------------------------------------------------------------------------
\* The link that a search has found is that of the node to be deleted.
LEMMA TargetFacts ==
  ASSUME TreeSound, Busy
  PROVE  /\ parent \in Path /\ sub_idx + 1 \in 1 .. Len(sub_ptr[parent])
         /\ Target = sub_ptr[parent][sub_idx + 1] /\ Target \in Path
         /\ Target \in OID /\ parent \in OID
         /\ Len(parent) \in Nat /\ Len(Target) = Len(parent) + 1
<1>1. sub_idx \in Nat /\ parent \in Path /\ sub_idx < Len(sub_ptr[parent]) /\ sub_ptr[parent] \in Seq(Path)
  BY DEF TreeSound, ArraysSound, TypeOK, DeletionSound
<1>2. sub_idx + 1 \in 1 .. Len(sub_ptr[parent])
  BY <1>1, SMT
<1>3. /\ sub_ptr[parent][sub_idx + 1] = Append(parent, sub_id[parent][sub_idx + 1])
      /\ sub_ptr[parent][sub_idx + 1] \in Path
      /\ Len(sub_ptr[parent][sub_idx + 1]) = Len(parent) + 1
  BY <1>1, <1>2, LinkFacts DEF TreeSound, LinksSound
<1>4. Target = sub_ptr[parent][sub_idx + 1]
  BY <1>3 DEF Target
<1>5. parent \in OID /\ Target \in OID /\ Len(parent) \in Nat
  BY <1>1, <1>3, <1>4, PathType, SMT DEF OID
<1> QED
  BY <1>1, <1>2, <1>3, <1>4, <1>5

\* The search has found the node to delete.
LEMMA FindHitStep ==
  ASSUME TreeInv, FindHit
  PROVE  TreeInv'
<1> USE DEF TreeInv
<1>0. /\ pc = "find" /\ ~ Busy /\ type[node] # "free" /\ UNCHANGED <<tree, refs, ret>>
  BY DEF FindHit, Busy
<1>1. CASE node = Root
  <2>1. Return
    BY <1>1 DEF FindHit
  <2>2. ret' \in {0, -1}
    BY <1>0 DEF TreeSound, ArraysSound, TypeOK
  <2> QED
    BY <1>0, <2>1, <2>2, GiveUpStep
<1>2. CASE node # Root
  <2>1. pc' = "delete" /\ UNCHANGED <<oid, cb, at, node, parent, sub_idx, p_nbl, stk>>
    BY <1>2 DEF FindHit
  <2>a. UNCHANGED <<type, sub_id, sub_ptr, sub_id_cap, callback, refs, ret>>
    BY <1>0 DEF tree
  <2>2. TypeOK'
    BY <1>0, <2>1, <2>a DEF TreeSound, ArraysSound, TypeOK
  <2>3. /\ oid \in Path /\ at \in Nat /\ at <= Len(oid) /\ node = SubSeq(oid, 1, at)
        /\ stk = <<>> /\ p_nbl = NoEntry
    BY <1>0 DEF TreeSound, WalkSound, ArraysSound, TypeOK
  <2>4. node \in Path /\ at > 0
    <3>1. oid \in OID /\ Len(oid) \in Nat
      BY <2>3, PathType, SMT DEF OID
    <3>2. at \in 0 .. Len(oid)
      BY <2>3, <3>1, SMT
    <3>3. at # 0
      BY <1>2, <2>3, <3>1, <3>2, PrefixFacts DEF Root
    <3> QED
      BY <2>3, <3>2, <3>3, PathPrefix, SMT
  <2>5. /\ sub_idx < Len(sub_ptr[parent]) /\ sub_ptr[parent][sub_idx + 1] = node
        /\ parent \in Path /\ sub_idx \in Nat
    BY <1>0, <2>4 DEF TreeSound, WalkSound, ArraysSound, TypeOK
  <2>6. Target = node /\ Covers(node, node) /\ Len(node) \in Nat
    <3>1. Len(sub_ptr[parent]) \in Nat
      BY <2>5, SMT DEF TreeSound, ArraysSound, TypeOK
    <3>2. sub_idx + 1 \in 1 .. Len(sub_ptr[parent])
      BY <2>5, <3>1, SMT
    <3>3. sub_ptr[parent][sub_idx + 1] = Append(parent, sub_id[parent][sub_idx + 1])
      BY <2>5, <3>2 DEF TreeSound, LinksSound, LinksMatch
    <3>4. node \in OID
      BY <2>4, PathType
    <3> QED
      BY <2>5, <3>3, <3>4, SMT DEF Target, Covers, OID
  <2>7. Target' = Target
    BY <2>1, <2>a DEF Target
  <2>8. ArraysSound' /\ LinksMatch' /\ NoOrphans'
    BY <1>0, <2>2, TreeKept DEF TreeSound, LinksSound
  <2>9. NoDangling'
    <3>1. \A p, i : ~ Gone(p, i)'
      BY <2>1, <2>3, SMT DEF Gone
    <3> QED
      BY <1>0, <2>a, <3>1, CalmAlive DEF NoDangling
  <2>10. WalkSound'
    BY <2>1 DEF WalkSound, Busy
  <2>11. DeletionSound'
    <3>1. Len(stk) = 0
      BY <2>3
    <3>2. node # NULL
      BY <2>4, PathType
    <3> QED
      BY <1>0, <2>1, <2>3, <2>5, <2>6, <2>7, <2>a, <3>1, <3>2, SMT DEF DeletionSound, Visited
  <2>12. HandlersLive'
    BY <2>1, <2>a, HandlersKept
  <2> QED
    BY <2>8, <2>9, <2>10, <2>11, <2>12 DEF TreeSound, LinksSound
<1> QED
  BY <1>1, <1>2
-----------------------------------------------------------------------------
\* The entries of the stack of a deletion.
LEMMA FrameFacts ==
  ASSUME TreeSound, Busy, NEW k \in 1 .. Len(stk)
  PROVE  /\ stk[k].node \in Path /\ stk[k].n_idx \in Nat \cup {None}
         /\ type[stk[k].node] = "group" /\ Covers(Target, stk[k].node)
         /\ Len(stk[k].node) = Len(Target) + k - 1 /\ Len(Target) \in Nat
         /\ Len(sub_ptr[stk[k].node]) \in Nat
         /\ AtChild(stk[k].node, stk[k].n_idx) \in 0 .. Len(sub_ptr[stk[k].node])
         /\ FrameSound(stk[k].node, stk[k].n_idx, k - 1) /\ Visited(stk[k].node, k - 1)
<1>1. FrameSound(stk[k].node, stk[k].n_idx, k - 1) /\ Visited(stk[k].node, k - 1)
  BY DEF TreeSound, DeletionSound
<1>2. stk \in Seq(Backlog) /\ sub_ptr \in [Path -> Seq(Path)]
  BY DEF TreeSound, ArraysSound, TypeOK
<1>3. stk[k] \in Backlog
  BY <1>2, SMT
<1>4. stk[k].node \in Path /\ stk[k].n_idx \in Nat \cup {None}
  BY <1>3 DEF Backlog
<1>5. sub_ptr[stk[k].node] \in Seq(Path)
  BY <1>2, <1>4
<1>6. Len(sub_ptr[stk[k].node]) \in Nat
  BY <1>5, SMT
<1>7. Len(Target) \in Nat
  BY TargetFacts, SMT
<1>8. AtChild(stk[k].node, stk[k].n_idx) \in 0 .. Len(sub_ptr[stk[k].node])
  BY <1>1, <1>4, <1>6, SMT DEF FrameSound, AtChild
<1>9. Len(stk[k].node) = Len(Target) + k - 1
  BY <1>1, <1>7 DEF FrameSound
<1> QED
  BY <1>1, <1>4, <1>6, <1>7, <1>8, <1>9 DEF FrameSound

\* The node that a deletion is at.
LEMMA CursorFacts ==
  ASSUME TreeSound, pc = "delete", node # NULL
  PROVE  /\ Busy /\ node \in Path /\ type[node] # "free" /\ Covers(Target, node)
         /\ Len(stk) \in Nat /\ Len(Target) \in Nat /\ Len(node) = Len(Target) + Len(stk)
         /\ Visited(node, Len(stk))
         /\ p_nbl # NoEntry => FrameSound(node, p_nbl, Len(stk))
         /\ Len(stk) < MIB_OID_MAX_LEN
         /\ sub_ptr[node] \in Seq(Path) /\ Len(sub_ptr[node]) \in Nat
         /\ Len(sub_id[node]) = Len(sub_ptr[node])
         /\ node # parent /\ \A k \in 1 .. Len(stk) : stk[k].node # node
<1>1. Busy /\ node \in Path /\ stk \in Seq(Backlog)
  BY DEF Busy, TreeSound, ArraysSound, TypeOK
<1>2. /\ type[node] # "free" /\ Covers(Target, node)
      /\ Len(node) = Len(Target) + Len(stk) /\ Visited(node, Len(stk))
      /\ p_nbl # NoEntry => FrameSound(node, p_nbl, Len(stk))
  BY <1>1 DEF TreeSound, DeletionSound
<1>3. Len(Target) = Len(parent) + 1 /\ Len(parent) \in Nat
  BY <1>1, TargetFacts
<1>4. Len(stk) \in Nat
  BY <1>1, SMT
<1>5. Len(node) <= MIB_OID_MAX_LEN /\ MIB_OID_MAX_LEN \in Nat
  BY <1>1, <1>2, TreeAssumption DEF TreeSound, ArraysSound
<1>6. sub_ptr[node] \in Seq(Path) /\ Len(sub_id[node]) = Len(sub_ptr[node])
  BY <1>1 DEF TreeSound, ArraysSound, TypeOK
<1>7. node # parent
  BY <1>2, <1>3, <1>4, SMT
<1>8. ASSUME NEW k \in 1 .. Len(stk) PROVE stk[k].node # node
  <2>1. Len(stk[k].node) = Len(Target) + k - 1
    BY <1>1, FrameFacts
  <2> QED
    BY <1>2, <1>3, <1>4, <2>1, SMT
<1> QED
  BY <1>1, <1>2, <1>3, <1>4, <1>5, <1>6, <1>7, <1>8, SMT

\* mib_group_node_delete pushes the group node and visits its next child.
LEMMA DelDescendStep ==
  ASSUME TreeInv, DelDescend
  PROVE  TreeInv'
<1> USE DEF TreeInv
<1> DEFINE d == DelIndex
           x == IF d + 1 >= sub_id_cnt(node) THEN None ELSE d + 1
           e == [node |-> node, n_idx |-> x]
           L == Len(stk)
           cnt == Len(sub_ptr[node])
<1>0. /\ pc = "delete" /\ node # NULL /\ type[node] = "group" /\ d # None /\ stk' = nbl_push(e)
      /\ node' = (IF is_raw_group(node) THEN NULL ELSE Child(d)) /\ p_nbl' = NoEntry
      /\ UNCHANGED <<refs, pc, oid, cb, ret, at, parent, sub_idx>>
      /\ UNCHANGED <<type, sub_id, sub_ptr, sub_id_cap, callback>>
  BY DEF DelDescend, Deleting, tree
<1>1. /\ Busy /\ node \in Path /\ Covers(Target, node)
      /\ L \in Nat /\ Len(Target) \in Nat /\ Len(node) = Len(Target) + L
      /\ Visited(node, L) /\ (p_nbl # NoEntry => FrameSound(node, p_nbl, L))
      /\ L < MIB_OID_MAX_LEN
      /\ cnt \in Nat /\ Len(sub_id[node]) = cnt
      /\ \A k \in 1 .. L : stk[k].node # node
  BY <1>0, CursorFacts
<1>2. stk \in Seq(Backlog) /\ p_nbl \in Nat \cup {None, NoEntry}
  BY DEF TreeSound, ArraysSound, TypeOK
<1>3. /\ d \in Nat /\ (p_nbl = NoEntry => d = 0)
      /\ p_nbl # NoEntry => d = p_nbl /\ d \in 1 .. (cnt - 1)
  BY <1>0, <1>1, <1>2 DEF DelIndex, FrameSound
<1>4. /\ x \in Nat \cup {None} /\ (x # None => x \in 1 .. (cnt - 1))
      /\ AtChild(node, x) = IF cnt = 0 THEN 0 ELSE d + 1
  BY <1>1, <1>3, SMT DEF AtChild, sub_id_cnt, None
<1>5. e \in Backlog /\ e.node = node /\ e.n_idx = x
  BY <1>1, <1>4 DEF Backlog
<1> HIDE DEF e, x, d
<1>6. stk' = Append(stk, e)
  BY <1>0, <1>1 DEF nbl_push
<1>7. /\ stk' \in Seq(Backlog) /\ Len(stk') = L + 1
      /\ \A k \in 1 .. L : stk'[k] = stk[k]
      /\ stk'[L + 1] = e
  BY <1>2, <1>5, <1>6, AppendIs, SMT
<1> HIDE DEF L
<1>8. Target' = Target
  BY <1>0 DEF Target
<1>9. /\ cnt = 0 => node' = NULL
      /\ cnt # 0 => /\ d + 1 \in 1 .. cnt /\ node' = sub_ptr[node][d + 1] /\ node' \in Path
                    /\ Len(node') = Len(node) + 1 /\ Covers(Target, node')
                    /\ node' # NULL
  <2>1. cnt = 0 => node' = NULL
    BY <1>0, <1>1 DEF is_raw_group, sub_id_cnt
  <2>2. ASSUME cnt # 0
        PROVE  /\ d + 1 \in 1 .. cnt /\ node' = sub_ptr[node][d + 1] /\ node' \in Path
               /\ Len(node') = Len(node) + 1 /\ Covers(Target, node')
               /\ node' # NULL
    <3>1. d + 1 \in 1 .. cnt
      BY <1>1, <1>3, <2>2, SMT
    <3>2. node' = sub_ptr[node][d + 1]
      BY <1>0, <1>1, <2>2 DEF is_raw_group, sub_id_cnt, Child
    <3>3. /\ node' \in Path /\ Len(node') = Len(node) + 1
          /\ sub_id[node][d + 1] \in SubId /\ node' = Append(node, sub_id[node][d + 1])
      BY <1>1, <3>1, <3>2, LinkFacts DEF TreeSound, LinksSound
    <3>4. Covers(Target, node')
      <4>1. node \in OID /\ Target \in OID
        BY <1>1, PathType, TargetFacts
      <4> QED
        BY <1>1, <3>3, <4>1, AppendFacts
    <3> QED
      BY <3>1, <3>2, <3>3, <3>4, PathType
  <2> QED
    BY <2>1, <2>2
<1>10. TypeOK'
  <2>1. node' \in Path \cup {NULL}
    BY <1>9
  <2> QED
    BY <1>0, <1>7, <2>1 DEF TreeSound, ArraysSound, TypeOK
<1>11. ArraysSound' /\ LinksMatch' /\ NoOrphans'
  BY <1>0, <1>10, TreeKept DEF TreeSound, LinksSound, tree
<1>12. NoDangling'
  <2> SUFFICES ASSUME NEW p \in Path, NEW i \in 1 .. Len(sub_ptr[p])
               PROVE  Gone(p, i)' <=> Gone(p, i)
    BY <1>0 DEF NoDangling, TreeSound, LinksSound
  <2> DEFINE Frames == \E k \in 1 .. L : p = stk[k].node /\ i < AtChild(p, stk[k].n_idx)
  <2>0. i \in Nat /\ i >= 1
    BY SMT
  <2>1. Gone(p, i) <=> Frames \/ (p = node /\ p_nbl # NoEntry /\ i <= AtChild(p, p_nbl))
    BY <1>0 DEF Gone, L
  <2>2. Gone(p, i)' <=> \E k \in 1 .. (L + 1) : p = stk'[k].node /\ i < AtChild(p, stk'[k].n_idx)
    <3>1. \A y : AtChild(p, y)' = AtChild(p, y)
      BY <1>0 DEF AtChild
    <3> QED
      BY <1>0, <1>7 DEF Gone, AtChild
  <2>3. (\E k \in 1 .. (L + 1) : p = stk'[k].node /\ i < AtChild(p, stk'[k].n_idx))
        <=> Frames \/ (p = node /\ i < AtChild(p, x))
    <3>1. \A k \in 1 .. (L + 1) : k \in 1 .. L \/ k = L + 1
      BY <1>1, SMT
    <3>2. L + 1 \in 1 .. (L + 1) /\ \A k \in 1 .. L : k \in 1 .. (L + 1)
      BY <1>1, SMT
    <3> QED
      BY <1>5, <1>7, <3>1, <3>2
  <2>4. (p = node /\ i < AtChild(p, x)) <=> (p = node /\ p_nbl # NoEntry /\ i <= AtChild(p, p_nbl))
    <3>1. CASE p_nbl = NoEntry
      BY <1>3, <1>4, <2>0, <3>1, SMT
    <3>2. CASE p_nbl # NoEntry /\ p = node
      <4>1. AtChild(p, p_nbl) = d /\ cnt # 0
        BY <1>1, <1>2, <1>3, <3>2, SMT DEF AtChild, None
      <4> QED
        BY <1>3, <1>4, <2>0, <3>2, <4>1, SMT
    <3> QED
      BY <3>1, <3>2
  <2> QED
    BY <2>1, <2>2, <2>3, <2>4
<1>13. WalkSound'
  BY <1>0 DEF WalkSound, Busy
<1>14. DeletionSound'
  <2>1. sub_idx' < Len(sub_ptr'[parent'])
    BY <1>0, <1>1 DEF TreeSound, DeletionSound
  <2>2. ASSUME NEW k \in 1 .. (L + 1)
        PROVE  (FrameSound(stk[k].node, stk[k].n_idx, k - 1) /\ Visited(stk[k].node, k - 1))'
    <3>1. CASE k \in 1 .. L
      <4>1. FrameSound(stk[k].node, stk[k].n_idx, k - 1) /\ Visited(stk[k].node, k - 1)
        BY <1>1, <3>1, FrameFacts DEF L
      <4>2. k - 1 # 0 => k - 1 \in 1 .. L
        BY <1>1, <3>1, SMT
      <4> QED
        BY <1>0, <1>7, <1>8, <3>1, <4>1, <4>2 DEF FrameSound, Visited, AtChild
    <3>2. CASE k = L + 1
      <4>1. k - 1 = L /\ stk'[k].node = node /\ stk'[k].n_idx = x
        BY <1>1, <1>5, <1>7, <3>2, SMT
      <4>2. L # 0 => L \in 1 .. L
        BY <1>1, SMT
      <4>3. FrameSound(stk[k].node, stk[k].n_idx, k - 1)'
        BY <1>0, <1>1, <1>4, <1>8, <4>1 DEF FrameSound
      <4>4. Visited(stk[k].node, k - 1)'
        BY <1>0, <1>1, <1>7, <1>8, <4>1, <4>2 DEF Visited, AtChild
      <4> QED
        BY <4>3, <4>4
    <3> QED
      BY <1>1, <3>1, <3>2, SMT
  <2>3. ASSUME node' # NULL
        PROVE  /\ type'[node'] # "free" /\ Covers(Target, node)'
               /\ Len(node') = Len(Target') + Len(stk')
               /\ Visited(node, Len(stk))'
    <3>1. /\ d + 1 \in 1 .. cnt /\ node' = sub_ptr[node][d + 1] /\ node' \in Path
          /\ Len(node') = Len(node) + 1 /\ Covers(Target, node')
      BY <1>9, <2>3
    <3>2. type[node'] # "free"
      <4>1. ~ Gone(node, d + 1)
        <5>1. p_nbl # NoEntry => AtChild(node, p_nbl) = d
          BY <1>1, <1>2, <1>3, SMT DEF AtChild, None
        <5> QED
          BY <1>0, <1>1, <1>3, <5>1, SMT DEF Gone, L
      <4> QED
        BY <1>1, <3>1, <4>1 DEF TreeSound, LinksSound, NoDangling
    <3>3. Len(node') = Len(Target') + Len(stk')
      BY <1>1, <1>7, <1>8, <3>1, SMT
    <3>4. Visited(node, Len(stk))'
      <4>1. L + 1 # 0 /\ AtChild(node, x) = d + 1 /\ d + 1 > 0
        BY <1>1, <1>3, <1>4, <3>1, SMT
      <4> QED
        BY <1>0, <1>5, <1>7, <3>1, <4>1 DEF Visited, AtChild
    <3> QED
      BY <1>0, <1>8, <3>1, <3>2, <3>3, <3>4
  <2>4. ASSUME node' = NULL
        PROVE  stk' # <<>> /\ AtChild(Last(stk).node, Last(stk).n_idx)' = 0
    <3>1. cnt = 0
      BY <1>9, <2>4
    <3>2. Last(stk)' = e
      BY <1>7 DEF Last
    <3>3. AtChild(node, x) = 0
      BY <1>4, <3>1
    <3>4. stk' # <<>>
      BY <1>1, <1>7, SMT
    <3> QED
      BY <1>0, <1>5, <3>2, <3>3, <3>4 DEF AtChild
  <2> QED
    BY <1>0, <1>7, <2>1, <2>2, <2>3, <2>4 DEF DeletionSound
<1>15. HandlersLive'
  BY <1>0, HandlersKept
<1> QED
  BY <1>11, <1>12, <1>13, <1>14, <1>15 DEF TreeSound, LinksSound

\* mib_group_node_delete skips a child pointer that is NULL.
LEMMA DelNullStep ==
  ASSUME TreeInv, DelNull
  PROVE  TreeInv'
<1> USE DEF TreeInv
<1>0. /\ pc = "delete" /\ node = NULL /\ pc' = "backtrack" /\ Busy
      /\ UNCHANGED <<refs, oid, cb, ret, at, node, parent, sub_idx, p_nbl, stk>>
      /\ UNCHANGED <<type, sub_id, sub_ptr, sub_id_cap, callback>>
  BY DEF DelNull, tree, Busy
<1>1. stk # <<>> /\ AtChild(stk[Len(stk)].node, stk[Len(stk)].n_idx) = 0
  BY <1>0 DEF TreeSound, DeletionSound, Last
<1>2. TypeOK'
  BY <1>0 DEF TreeSound, ArraysSound, TypeOK
<1>3. ArraysSound' /\ LinksMatch' /\ NoOrphans'
  BY <1>0, <1>2, TreeKept DEF TreeSound, LinksSound, tree
<1>4. NoDangling'
  <2> SUFFICES ASSUME NEW p \in Path, NEW i \in 1 .. Len(sub_ptr[p])
               PROVE  Gone(p, i)' <=> Gone(p, i)
    BY <1>0 DEF NoDangling, TreeSound, LinksSound
  <2>1. i # 0 /\ p # NULL
    BY PathType, SMT
  <2>2. Gone(p, i) <=> \E k \in 1 .. Len(stk) : p = stk[k].node /\ i < AtChild(p, stk[k].n_idx)
    BY <1>0, <2>1 DEF Gone
  <2>3. Gone(p, i)' <=> \E k \in 1 .. Len(stk) :
                          /\ p = stk[k].node
                          /\ \/ i < AtChild(p, stk[k].n_idx)
                             \/ i = AtChild(p, stk[k].n_idx) /\ k = Len(stk)
    BY <1>0, <1>1 DEF Gone, AtChild
  <2> QED
    BY <1>1, <2>1, <2>2, <2>3
<1>5. WalkSound'
  BY <1>0 DEF WalkSound, Busy
<1>6. DeletionSound'
  <2>1. Target' = Target
    BY <1>0 DEF Target
  <2> QED
    BY <1>0, <2>1 DEF TreeSound, DeletionSound, FrameSound, Visited, AtChild
<1>7. HandlersLive'
  BY <1>0, HandlersKept
<1> QED
  BY <1>3, <1>4, <1>5, <1>6, <1>7 DEF TreeSound, LinksSound

\* mib_group_node_delete returns to the parent of a node that is done with.
LEMMA PopStep ==
  ASSUME TreeInv, Pop
  PROVE  TreeInv'
<1> USE DEF TreeInv
<1> DEFINE L == Len(stk)
           n == stk[L].node
           x == stk[L].n_idx
<1>0. /\ pc = "backtrack" /\ stk # <<>> /\ pc' = "delete" /\ Busy
      /\ node' = n /\ p_nbl' = x /\ stk' = SubSeq(stk, 1, L - 1)
      /\ UNCHANGED <<refs, oid, cb, ret, at, parent, sub_idx>>
      /\ UNCHANGED <<type, sub_id, sub_ptr, sub_id_cap, callback>>
  BY DEF Pop, tree, Busy, Last, Front
<1>1. stk \in Seq(Backlog)
  BY DEF TreeSound, ArraysSound, TypeOK
<1>2. L \in Nat /\ L \in 1 .. L
  BY <1>0, <1>1, EmptyIs, SMT
<1>3. /\ stk' \in Seq(Backlog) /\ Len(stk') = L - 1
      /\ \A k \in 1 .. (L - 1) : stk'[k] = stk[k]
  <2>1. \A j \in 1 .. (L - 1) : stk[j] \in Backlog
    BY <1>1, <1>2, SMT
  <2>2. 1 \in Int /\ L - 1 \in Int
    BY <1>2, SMT
  <2>3. /\ stk' \in Seq(Backlog)
        /\ Len(stk') = IF 1 <= L - 1 THEN L - 1 - 1 + 1 ELSE 0
        /\ \A j \in 1 .. (L - 1 - 1 + 1) : stk'[j] = stk[1 + j - 1]
    BY <1>0, <1>1, <2>1, <2>2, SubSeqIs, SMT
  <2>4. \A j \in 1 .. (L - 1) : j \in 1 .. (L - 1 - 1 + 1) /\ 1 + j - 1 = j
    BY <1>2, SMT
  <2> HIDE DEF L
  <2>5. L \in Nat /\ L >= 1
    BY <1>2, SMT
  <2>6. Len(stk') = L - 1
    BY ONLY <2>3, <2>5, SMT
  <2> QED
    BY <2>3, <2>4, <2>6
<1>4. /\ n \in Path /\ x \in Nat \cup {None} /\ type[n] = "group" /\ Covers(Target, n)
      /\ Len(n) = Len(Target) + L - 1 /\ Len(Target) \in Nat
      /\ FrameSound(n, x, L - 1) /\ Visited(n, L - 1)
      /\ AtChild(n, x) \in 0 .. Len(sub_ptr[n]) /\ Len(sub_ptr[n]) \in Nat
  BY <1>0, <1>2, FrameFacts
<1>5. x # NoEntry /\ n # NULL
  BY <1>4, PathType, SMT DEF None, NoEntry
<1> HIDE DEF L, n, x
<1>6. TypeOK'
  BY <1>0, <1>3, <1>4 DEF TreeSound, ArraysSound, TypeOK
<1>7. ArraysSound' /\ LinksMatch' /\ NoOrphans'
  BY <1>0, <1>6, TreeKept DEF TreeSound, LinksSound, tree
<1>8. Target' = Target
  BY <1>0 DEF Target
<1>9. NoDangling'
  <2> SUFFICES ASSUME NEW p \in Path, NEW i \in 1 .. Len(sub_ptr[p])
               PROVE  Gone(p, i)' <=> Gone(p, i)
    BY <1>0 DEF NoDangling, TreeSound, LinksSound
  <2> DEFINE Frames == \E k \in 1 .. (L - 1) : p = stk[k].node /\ i < AtChild(p, stk[k].n_idx)
  <2>1. Gone(p, i)' <=> Frames \/ (p = n /\ i <= AtChild(p, x))
    <3>1. Gone(p, i)' <=> \/ \E k \in 1 .. (L - 1) : p = stk'[k].node /\ i < AtChild(p, stk'[k].n_idx)
                          \/ p = n /\ i <= AtChild(p, x)
      BY <1>0, <1>3, <1>5 DEF Gone, AtChild
    <3> QED
      BY <1>3, <3>1
  <2>2. Gone(p, i) <=> Frames \/ (p = n /\ (i < AtChild(p, x) \/ i = AtChild(p, x)))
    <3>1. Gone(p, i) <=> \E k \in 1 .. L :
                           /\ p = stk[k].node
                           /\ \/ i < AtChild(p, stk[k].n_idx)
                              \/ i = AtChild(p, stk[k].n_idx) /\ k = L
      BY <1>0 DEF Gone, L
    <3>2. \A k \in 1 .. L : k = L \/ (k # L /\ k \in 1 .. (L - 1))
      BY <1>2, SMT
    <3>3. \A k \in 1 .. (L - 1) : k # L /\ k \in 1 .. L
      BY <1>2, SMT
    <3> QED
      BY <1>2, <3>1, <3>2, <3>3 DEF n, x
  <2>3. p = n => (i <= AtChild(p, x) <=> i < AtChild(p, x) \/ i = AtChild(p, x))
    BY <1>4, SMT
  <2> QED
    BY <2>1, <2>2, <2>3
<1>10. WalkSound'
  BY <1>0 DEF WalkSound, Busy
<1>11. DeletionSound'
  <2>1. sub_idx' < Len(sub_ptr'[parent'])
    BY <1>0 DEF TreeSound, DeletionSound
  <2>2. ASSUME NEW k \in 1 .. (L - 1)
        PROVE  (FrameSound(stk[k].node, stk[k].n_idx, k - 1) /\ Visited(stk[k].node, k - 1))'
    <3>1. k \in 1 .. L /\ (k - 1 # 0 => k - 1 \in 1 .. (L - 1))
      BY <1>2, SMT
    <3>2. FrameSound(stk[k].node, stk[k].n_idx, k - 1) /\ Visited(stk[k].node, k - 1)
      BY <1>0, <3>1, FrameFacts DEF L
    <3> QED
      BY <1>0, <1>3, <1>8, <3>1, <3>2 DEF FrameSound, Visited, AtChild
  <2>3. FrameSound(node, p_nbl, Len(stk))'
    BY <1>0, <1>3, <1>4, <1>8 DEF FrameSound
  <2>4. Visited(node, Len(stk))'
    <3>1. L - 1 # 0 => L - 1 \in 1 .. (L - 1)
      BY <1>2, SMT
    <3> QED
      BY <1>0, <1>3, <1>4, <1>8, <3>1 DEF Visited, AtChild
  <2>5. type'[node'] # "free" /\ Covers(Target, node)' /\ Len(node') = Len(Target') + Len(stk')
    BY <1>0, <1>2, <1>3, <1>4, <1>8
  <2> QED
    BY <1>0, <1>3, <1>5, <2>1, <2>2, <2>3, <2>4, <2>5 DEF DeletionSound
<1>12. HandlersLive'
  BY <1>0, HandlersKept
<1> QED
  BY <1>7, <1>9, <1>10, <1>11, <1>12 DEF TreeSound, LinksSound

\* Freeing the node that a deletion is at, when nothing in memory hangs on it,
\* keeps the tree sound: exactly the pointer on top of the stack now dangles.
LEMMA FreeStep ==
  ASSUME TreeSound, pc = "delete", node # NULL,
         type[node] = "instance" \/ (type[node] = "group" /\ p_nbl = None),
         Free(node), pc' = "backtrack", p_nbl' = NoEntry, refs' \subseteq refs,
         UNCHANGED <<oid, cb, ret, at, node, parent, sub_idx, stk>>
  PROVE  TreeSound'
<1> DEFINE L == Len(stk)
<1>1. /\ Busy /\ node \in Path /\ type[node] # "free" /\ Visited(node, L)
      /\ L \in Nat /\ Len(Target) \in Nat /\ Len(node) = Len(Target) + L
      /\ node # parent /\ \A k \in 1 .. L : stk[k].node # node
  BY CursorFacts
<1>2. /\ parent \in Path /\ sub_idx + 1 \in 1 .. Len(sub_ptr[parent])
      /\ Target = sub_ptr[parent][sub_idx + 1]
      /\ Len(parent) \in Nat /\ Len(Target) = Len(parent) + 1
  BY <1>1, TargetFacts
<1>3. TypeOK /\ ArraysSound /\ LinksMatch /\ NoDangling /\ NoOrphans
  BY DEF TreeSound, ArraysSound, LinksSound
<1>4. /\ type'[node] = "free" /\ sub_id'[node] = <<>> /\ sub_ptr'[node] = <<>> /\ sub_id_cap'[node] = 0
      /\ \A p \in Path : p # node => /\ type'[p] = type[p] /\ sub_id'[p] = sub_id[p]
                                     /\ sub_ptr'[p] = sub_ptr[p] /\ sub_id_cap'[p] = sub_id_cap[p]
  BY <1>1, <1>3 DEF Free, TypeOK
<1>5. TypeOK'
  <2>1. <<>> \in Seq(SubId) /\ <<>> \in Seq(Path) /\ NoEntry \in Nat \cup {None, NoEntry}
    BY SMT
  <2>2. /\ type' \in [Path -> {"group", "instance", "free"}]
        /\ sub_id_cap' \in [Path -> Nat]
        /\ callback' \in [Path -> Callback \cup {NoCallback}]
    BY <1>1, <1>3 DEF Free, TypeOK
  <2>3. sub_id' \in [Path -> Seq(SubId)] /\ sub_ptr' \in [Path -> Seq(Path)]
    BY <1>1, <1>3, <2>1 DEF Free, TypeOK
  <2> QED
    BY <1>3, <2>1, <2>2, <2>3 DEF TypeOK
<1>6. node # Root
  <2>1. Len(node) # 0
    BY <1>1, <1>2, SMT
  <2>2. Len(Root) = 0
    BY DEF Root
  <2> QED
    BY <2>1, <2>2
<1>7. ArraysSound'
  <2>1. type'[Root] = "group"
    BY <1>3, <1>4, <1>6, PathType DEF ArraysSound
  <2>2. ASSUME NEW p \in Path
        PROVE  /\ StrictlySorted(sub_id'[p])
               /\ Len(sub_ptr'[p]) = Len(sub_id'[p])
               /\ Len(sub_id'[p]) <= sub_id_cap'[p]
               /\ IF type'[p] = "group" THEN sub_id_cap'[p] > 0 ELSE sub_id'[p] = <<>>
               /\ type'[p] # "free" => Len(p) <= MIB_OID_MAX_LEN
    <3>1. CASE p = node
      <4>1. StrictlySorted(<<>>)
        BY SMT DEF StrictlySorted
      <4> QED
        BY <1>4, <3>1, <4>1, SMT
    <3>2. CASE p # node
      BY <1>3, <1>4, <3>2 DEF ArraysSound
    <3> QED
      BY <3>1, <3>2
  <2> QED
    BY <1>5, <2>1, <2>2 DEF ArraysSound
<1>8. LinksMatch'
  <2> SUFFICES ASSUME NEW p \in Path, NEW i \in 1 .. Len(sub_ptr'[p])
               PROVE  sub_ptr'[p][i] = Append(p, sub_id'[p][i])
    BY DEF LinksMatch
  <2>1. p # node
    BY <1>4, SMT
  <2> QED
    BY <1>3, <1>4, <2>1 DEF LinksMatch
<1> DEFINE top(p, i) == IF L = 0 THEN p = parent /\ i = sub_idx + 1
                        ELSE p = stk[L].node /\ i = AtChild(p, stk[L].n_idx)
<1>9. ASSUME NEW p \in Path, NEW i \in 1 .. Len(sub_ptr[p])
      PROVE  sub_ptr[p][i] = node <=> top(p, i)
  <2>1. CASE L = 0
    <3>1. sub_ptr[parent][sub_idx + 1] = node
      BY <1>1, <1>2, <2>1 DEF Visited
    <3>2. sub_ptr[p][i] = node => p = parent /\ i = sub_idx + 1
      BY <1>2, <1>3, <3>1, LinkUnique, SMT
    <3> QED
      BY <2>1, <3>1, <3>2
  <2>2. CASE L # 0
    <3>1. L \in 1 .. L
      BY <1>1, <2>2, SMT
    <3>2. PICK q, c : /\ q \in Path /\ q = stk[L].node /\ c = AtChild(q, stk[L].n_idx)
                      /\ c \in 0 .. Len(sub_ptr[q]) /\ c > 0 /\ sub_ptr[q][c] = node
      BY <1>1, <2>2, <3>1, FrameFacts DEF Visited
    <3>3. c \in 1 .. Len(sub_ptr[q])
      BY <3>2, SMT
    <3>4. sub_ptr[p][i] = node => p = q /\ i = c
      BY <1>3, <3>2, <3>3, LinkUnique, SMT
    <3> QED
      BY <2>2, <3>2, <3>4
  <2> QED
    BY <2>1, <2>2
<1>10. ASSUME NEW p \in Path, p # node, NEW i \in 1 .. Len(sub_ptr[p])
       PROVE  Gone(p, i)' <=> Gone(p, i) \/ top(p, i)
  <2>1. \A y : AtChild(p, y)' = AtChild(p, y)
    BY <1>4, <1>10 DEF AtChild
  <2>2. Gone(p, i)' <=>
          \/ \E k \in 1 .. L : /\ p = stk[k].node
                               /\ \/ i < AtChild(p, stk[k].n_idx)
                                  \/ i = AtChild(p, stk[k].n_idx) /\ k = L
          \/ stk = <<>> /\ p = parent /\ i = sub_idx + 1
    BY <1>4, <1>10 DEF Gone, AtChild
  <2>3. Gone(p, i) <=> \E k \in 1 .. L : p = stk[k].node /\ i < AtChild(p, stk[k].n_idx)
    BY <1>10 DEF Gone
  <2>4. stk = <<>> <=> L = 0
    BY <1>3, EmptyIs DEF TypeOK
  <2>5. L # 0 => L \in 1 .. L
    BY <1>1, SMT
  <2>6. L = 0 => 1 .. L = {}
    BY <1>1, SMT
  <2> HIDE DEF L
  <2> QED
    BY <2>2, <2>3, <2>4, <2>5, <2>6
<1>11. NoDangling'
  <2> SUFFICES ASSUME NEW p \in Path, NEW i \in 1 .. Len(sub_ptr'[p])
               PROVE  type'[sub_ptr'[p][i]] = "free" <=> Gone(p, i)'
    BY DEF NoDangling
  <2>1. p # node
    BY <1>4, SMT
  <2>2. sub_ptr'[p] = sub_ptr[p] /\ i \in 1 .. Len(sub_ptr[p])
    BY <1>4, <2>1
  <2>3. sub_ptr[p][i] \in Path
    BY <1>3, <2>2, LinkFacts
  <2>4. type'[sub_ptr[p][i]] = "free" <=> type[sub_ptr[p][i]] = "free" \/ sub_ptr[p][i] = node
    BY <1>4, <2>3
  <2>5. type[sub_ptr[p][i]] = "free" <=> Gone(p, i)
    BY <1>3, <2>2 DEF NoDangling
  <2> HIDE DEF top
  <2> QED
    BY <1>9, <1>10, <2>1, <2>2, <2>4, <2>5
<1>12. NoOrphans'
  <2> SUFFICES ASSUME NEW p \in Path \ {Root}, type'[p] # "free"
               PROVE  type'[Front(p)] = "group" /\ Contains(sub_ptr'[Front(p)], p)
    BY DEF NoOrphans
  <2>1. type[p] # "free"
    BY <1>4
  <2>2. type[Front(p)] = "group" /\ Contains(sub_ptr[Front(p)], p)
    BY <1>3, <2>1 DEF NoOrphans
  <2>3. Front(p) \in Path
    BY TreeAssumption DEF Root
  <2>4. Front(p) # node
    <3>1. SUFFICES ASSUME Front(p) = node PROVE FALSE
      OBVIOUS
    <3>2. PICK i \in 1 .. Len(sub_ptr[node]) : sub_ptr[node][i] = p
      BY <2>2, <3>1 DEF Contains
    <3>3. ~ Gone(node, i)
      BY <1>1, <1>3, <2>1, <3>2 DEF NoDangling
    <3>4. p_nbl = None
      BY <2>2, <3>1
    <3>5. i <= AtChild(node, p_nbl) /\ p_nbl # NoEntry
      BY <3>4, SMT DEF AtChild, None, NoEntry
    <3> QED
      BY <3>3, <3>5 DEF Gone
  <2> QED
    BY <1>4, <2>2, <2>3, <2>4
<1>13. WalkSound'
  BY DEF WalkSound, Busy
<1>14. DeletionSound'
  <2>1. Target' = Target
    BY <1>1, <1>2, <1>4 DEF Target
  <2>2. sub_idx' < Len(sub_ptr'[parent'])
    BY <1>1, <1>2, <1>4 DEF TreeSound, DeletionSound
  <2>3. ASSUME NEW k \in 1 .. L
        PROVE  (FrameSound(stk[k].node, stk[k].n_idx, k - 1) /\ Visited(stk[k].node, k - 1))'
    <3>1. /\ FrameSound(stk[k].node, stk[k].n_idx, k - 1) /\ Visited(stk[k].node, k - 1)
          /\ stk[k].node \in Path /\ stk[k].node # node
      BY <1>1, FrameFacts
    <3>2. FrameSound(stk[k].node, stk[k].n_idx, k - 1)'
      BY <1>4, <2>1, <3>1 DEF FrameSound
    <3>3. Visited(stk[k].node, k - 1)'
      <4>1. CASE k - 1 = 0
        BY <2>1, <3>1, <4>1 DEF Visited
      <4>2. CASE k - 1 # 0
        <5>1. k - 1 \in 1 .. L
          BY <1>1, <4>2, SMT
        <5>2. stk[k - 1].node \in Path /\ stk[k - 1].node # node
          BY <1>1, <5>1, FrameFacts
        <5>3. sub_ptr'[stk[k - 1].node] = sub_ptr[stk[k - 1].node]
          BY <1>4, <5>2
        <5> QED
          BY <3>1, <4>2, <5>3 DEF Visited, AtChild
      <4> QED
        BY <4>1, <4>2
    <3> QED
      BY <3>2, <3>3
  <2> QED
    BY <2>2, <2>3 DEF DeletionSound
<1> QED
  BY <1>7, <1>8, <1>11, <1>12, <1>13, <1>14 DEF TreeSound, LinksSound

\* mib_group_node_delete frees a group node all of whose children are gone.
LEMMA GroupDeleteStep ==
  ASSUME TreeInv, mib_group_node_delete
  PROVE  TreeInv'
<1>0. /\ pc = "delete" /\ node # NULL /\ type[node] = "group" /\ DelIndex = None /\ Free(node)
      /\ pc' = "backtrack" /\ p_nbl' = NoEntry
      /\ UNCHANGED <<refs, oid, cb, ret, at, node, parent, sub_idx, stk>>
  BY DEF mib_group_node_delete, Deleting
<1>1. p_nbl = None
  BY <1>0, SMT DEF DelIndex, None
<1>2. TreeSound'
  BY <1>0, <1>1, FreeStep DEF TreeInv
<1>3. HandlersLive'
  <2>1. type \in [Path -> {"group", "instance", "free"}] /\ callback \in [Path -> Callback \cup {NoCallback}]
    BY DEF TreeInv, TreeSound, ArraysSound, TypeOK
  <2>2. \A p \in Path : Instance(p)' => Instance(p) /\ callback'[p] = callback[p]
    BY <1>0, <2>1 DEF Free, Instance
  <2> QED
    BY <1>0, <2>2 DEF TreeInv, HandlersLive
<1> QED
  BY <1>2, <1>3 DEF TreeInv

\* mib_group_node_delete frees an instance node and its handler.
LEMMA InstanceDeleteStep ==
  ASSUME TreeInv, mib_instance_node_delete
  PROVE  TreeInv'
<1>0. /\ pc = "delete" /\ node # NULL /\ type[node] = "instance" /\ Free(node)
      /\ refs' = refs \ {callback[node]} /\ pc' = "backtrack"
      /\ UNCHANGED <<oid, cb, ret, at, node, parent, sub_idx, stk, p_nbl>>
  BY DEF mib_instance_node_delete, Deleting
<1>1. p_nbl = NoEntry /\ node \in Path
  BY <1>0, CursorFacts DEF TreeInv, FrameSound
<1>2. TreeSound'
  BY <1>0, <1>1, FreeStep DEF TreeInv
<1>3. HandlersLive'
  <2>1. type \in [Path -> {"group", "instance", "free"}] /\ callback \in [Path -> Callback \cup {NoCallback}]
    BY DEF TreeInv, TreeSound, ArraysSound, TypeOK
  <2>2. \A p \in Path : Instance(p)' => p # node /\ Instance(p) /\ callback'[p] = callback[p]
    BY <1>0, <1>1, <2>1 DEF Free, Instance
  <2>3. \A p \in Path : Instance(p) /\ p # node => callback[p] # callback[node]
    BY <1>0, <1>1 DEF TreeInv, HandlersLive, Instance
  <2> QED
    BY <1>0, <2>2, <2>3 DEF TreeInv, HandlersLive
<1> QED
  BY <1>2, <1>3 DEF TreeInv

\* mib_tree_node_shrink takes the freed node out of the arrays of its parent.
LEMMA ShrinkStep ==
  ASSUME TreeInv, group_node_shrink
  PROVE  TreeInv'
<1> USE DEF TreeInv
<1>0. /\ pc = "backtrack" /\ stk = <<>> /\ Busy
      /\ UNCHANGED <<type, sub_id_cap, callback, refs, ret>>
      /\ pc' = "idle" /\ oid' = <<>> /\ cb' = NoCallback
      /\ at' = 0 /\ node' = Root /\ parent' = Root /\ sub_idx' = 0
      /\ p_nbl' = NoEntry /\ stk' = <<>>
  BY DEF group_node_shrink, Return, Busy
<1>1. /\ parent \in Path /\ sub_idx + 1 \in 1 .. Len(sub_ptr[parent])
      /\ Target = sub_ptr[parent][sub_idx + 1] /\ Target \in Path
  BY <1>0, TargetFacts
<1>2. TypeOK /\ ArraysSound /\ LinksMatch /\ NoDangling /\ NoOrphans
  BY DEF TreeSound, ArraysSound, LinksSound
<1>3. PICK n \in 1 .. Len(sub_ptr[parent]) : n = sub_idx + 1
  BY <1>1
<1> DEFINE a == sub_id[parent]
           s == sub_ptr[parent]
           a1 == RemoveAt(a, n)
           s1 == RemoveAt(s, n)
<1>4. /\ a \in Seq(SubId) /\ s \in Seq(Path) /\ Len(s) = Len(a) /\ n \in 1 .. Len(a)
      /\ Len(a) \in Nat /\ StrictlySorted(a)
  BY <1>1, <1>2, SMT DEF ArraysSound, TypeOK
<1>5. /\ sub_id'[parent] = a1 /\ sub_ptr'[parent] = s1
      /\ \A p \in Path : p # parent => sub_id'[p] = sub_id[p] /\ sub_ptr'[p] = sub_ptr[p]
  BY <1>1, <1>2, <1>3 DEF group_node_shrink, TypeOK
<1>6. /\ a1 \in Seq(SubId) /\ Len(a1) = Len(a) - 1
      /\ \A j \in 1 .. (Len(a) - 1) : a1[j] = IF j < n THEN a[j] ELSE a[j + 1]
  BY <1>4, RemoveAtFacts
<1>7. /\ s1 \in Seq(Path) /\ Len(s1) = Len(s) - 1
      /\ \A j \in 1 .. (Len(s) - 1) : s1[j] = IF j < n THEN s[j] ELSE s[j + 1]
  BY <1>4, RemoveAtFacts
<1>8. StrictlySorted(a1)
  BY <1>4, RemoveSorted
<1>9. \A o : Contains(s1, o) <=> Contains(s, o) /\ o # s[n]
  <2>1. Unique(s)
    BY <1>1, <1>2, LinkUnique DEF Unique
  <2> QED
    BY <1>4, <2>1, RemoveEntries
<1>10. TypeOK'
  <2>1. Root \in Path /\ <<>> \in OID /\ <<>> \in Seq(Backlog)
    BY PathType, SMT DEF OID
  <2>2. sub_id' \in [Path -> Seq(SubId)] /\ sub_ptr' \in [Path -> Seq(Path)]
    BY <1>1, <1>2, <1>3, <1>6, <1>7 DEF group_node_shrink, TypeOK
  <2> HIDE DEF a1, s1
  <2> QED
    BY <1>0, <1>2, <2>1, <2>2 DEF TypeOK
<1>11. type[parent] = "group"
  BY <1>1, <1>2, LinkFacts
<1> HIDE DEF a1, s1
<1>12. ArraysSound'
  <2>1. type'[Root] = "group"
    BY <1>0, <1>2 DEF ArraysSound
  <2>2. ASSUME NEW p \in Path
        PROVE  /\ StrictlySorted(sub_id'[p])
               /\ Len(sub_ptr'[p]) = Len(sub_id'[p])
               /\ Len(sub_id'[p]) <= sub_id_cap'[p]
               /\ IF type'[p] = "group" THEN sub_id_cap'[p] > 0 ELSE sub_id'[p] = <<>>
               /\ type'[p] # "free" => Len(p) <= MIB_OID_MAX_LEN
    <3>1. CASE p = parent
      <4>1. Len(a) <= sub_id_cap[parent] /\ sub_id_cap[parent] \in Nat /\ sub_id_cap[parent] > 0
            /\ Len(parent) <= MIB_OID_MAX_LEN
        BY <1>1, <1>2, <1>11 DEF ArraysSound, TypeOK
      <4> QED
        BY <1>0, <1>4, <1>5, <1>6, <1>7, <1>8, <1>11, <3>1, <4>1, SMT
    <3>2. CASE p # parent
      BY <1>0, <1>2, <1>5, <3>2 DEF ArraysSound
    <3> QED
      BY <3>1, <3>2
  <2> QED
    BY <1>10, <2>1, <2>2 DEF ArraysSound
<1>13. ASSUME NEW p \in Path, NEW i \in 1 .. Len(sub_ptr'[p])
       PROVE  /\ sub_ptr'[p][i] = Append(p, sub_id'[p][i])
              /\ type'[sub_ptr'[p][i]] # "free"
  <2>1. \A q, j : Gone(q, j) <=> q = parent /\ j = n
    BY <1>0, <1>3, SMT DEF Gone
  <2>2. CASE p = parent
    <3>1. PICK j \in 1 .. Len(s) : j # n /\ s1[i] = s[j] /\ a1[i] = a[j]
      <4>1. i \in 1 .. (Len(s) - 1)
        BY <1>5, <1>7, <2>2
      <4>2. CASE i < n
        <5>1. i \in 1 .. Len(s) /\ i # n
          BY <1>4, <4>1, <4>2, SMT
        <5> QED
          BY <1>4, <1>6, <1>7, <4>1, <4>2, <5>1
      <4>3. CASE ~ (i < n)
        <5>1. i + 1 \in 1 .. Len(s) /\ i + 1 # n
          BY <1>4, <4>1, <4>3, SMT
        <5> QED
          BY <1>4, <1>6, <1>7, <4>1, <4>3, <5>1
      <4> QED
        BY <4>2, <4>3
    <3>2. s[j] = Append(parent, a[j]) /\ type[s[j]] # "free"
      BY <1>1, <1>2, <2>1, <3>1 DEF LinksMatch, NoDangling
    <3> QED
      BY <1>0, <1>5, <2>2, <3>1, <3>2
  <2>3. CASE p # parent
    BY <1>0, <1>2, <1>5, <2>1, <2>3 DEF LinksMatch, NoDangling
  <2> QED
    BY <2>2, <2>3
<1>14. LinksMatch'
  BY <1>13 DEF LinksMatch
<1>15. NoDangling'
  <2>1. \A p, i : ~ Gone(p, i)'
    BY <1>0, SMT DEF Gone
  <2> QED
    BY <1>13, <2>1 DEF NoDangling
<1>16. NoOrphans'
  <2> SUFFICES ASSUME NEW p \in Path \ {Root}, type[p] # "free"
               PROVE  type[Front(p)] = "group" /\ Contains(sub_ptr'[Front(p)], p)
    BY <1>0 DEF NoOrphans
  <2>1. type[Front(p)] = "group" /\ Contains(sub_ptr[Front(p)], p) /\ Front(p) \in Path
    BY <1>2, TreeAssumption DEF NoOrphans, Root
  <2>2. p # s[n]
    <3>1. Gone(parent, n)
      BY <1>0, <1>3 DEF Gone
    <3> QED
      BY <1>1, <1>2, <3>1 DEF NoDangling
  <2> QED
    BY <1>5, <1>9, <2>1, <2>2
<1>17. WalkSound' /\ DeletionSound'
  BY <1>0 DEF WalkSound, DeletionSound, Busy, Root
<1>18. HandlersLive'
  BY <1>0, HandlersKept
<1> QED
  BY <1>12, <1>14, <1>15, <1>16, <1>17, <1>18 DEF TreeSound, LinksSound
-----------------------------------------------------------------------------
\* mib_dummy_node_init makes a sound tree.
LEMMA InitSound ==
  ASSUME Init
  PROVE  TreeInv
<1>1. Root \in Path /\ <<>> \in OID /\ Len(Root) = 0
  BY PathType DEF OID, Root
<1>2. StrictlySorted(<<>>) /\ Len(<<>>) = 0
  BY SMT DEF StrictlySorted
<1>3. TypeOK
  <2>1. <<>> \in Seq(SubId) /\ <<>> \in Seq(Path) /\ <<>> \in Seq(Backlog)
    BY SMT
  <2>2. sub_id \in [Path -> Seq(SubId)] /\ sub_ptr \in [Path -> Seq(Path)]
    BY <2>1 DEF Init
  <2>3. /\ type \in [Path -> {"group", "instance", "free"}]
        /\ sub_id_cap \in [Path -> Nat] /\ callback \in [Path -> Callback \cup {NoCallback}]
    BY DEF Init
  <2> QED
    BY <1>1, <2>1, <2>2, <2>3 DEF Init, TypeOK
<1>4. ArraysSound
  <2>1. ASSUME NEW p \in Path, type[p] # "free" PROVE Len(p) <= MIB_OID_MAX_LEN
    BY <1>1, <2>1, TreeAssumption, SMT DEF Init
  <2> QED
    BY <1>1, <1>2, <1>3, <2>1, SMT DEF Init, ArraysSound
<1>5. LinksSound
  BY <1>2, SMT DEF Init, LinksSound, LinksMatch, NoDangling, NoOrphans
<1>6. WalkSound /\ DeletionSound
  BY DEF Init, WalkSound, DeletionSound, Busy, Root
<1>7. HandlersLive
  BY DEF Init, HandlersLive, Instance
<1> QED
  BY <1>4, <1>5, <1>6, <1>7 DEF TreeInv, TreeSound

\* Every step of mib_node_reg and mib_node_unreg keeps the invariant.
LEMMA NextSound ==
  ASSUME TreeInv, [Next]_vars
  PROVE  TreeInv'
<1>1. CASE TreeCall
  BY <1>1, RegStep, UnregStep DEF TreeCall
<1>2. CASE mib_tree_instance_insert
  <2>1. CASE InsertFail
    BY <2>1, GiveUpStep DEF InsertFail
  <2> QED
    BY <1>2, <2>1, InsertRawStep, InsertDescendStep, InsertExpandStep DEF mib_tree_instance_insert
<1>3. CASE mib_tree_node_search
  <2>1. CASE FindMiss
    <3>1. pc = "find" /\ Return /\ UNCHANGED <<tree, refs, ret>>
      BY <2>1 DEF FindMiss, Finding
    <3>2. ret' \in {0, -1}
      BY <3>1 DEF TreeInv, TreeSound, ArraysSound, TypeOK
    <3> QED
      BY <3>1, <3>2, GiveUpStep
  <2> QED
    BY <1>3, <2>1, FindDescendStep, FindHitStep DEF mib_tree_node_search
<1>4. CASE mib_tree_delete
  BY <1>4, DelDescendStep, GroupDeleteStep, InstanceDeleteStep, DelNullStep, PopStep, ShrinkStep
     DEF mib_tree_delete
<1>5. CASE UNCHANGED vars
  <2>0. /\ UNCHANGED <<type, sub_id, sub_ptr, sub_id_cap, callback, refs>>
        /\ UNCHANGED <<pc, oid, cb, ret, at, node, parent, sub_idx, p_nbl, stk>>
    BY <1>5 DEF vars, tree, call
  <2>1. TypeOK'
    BY <2>0 DEF TreeInv, TreeSound, ArraysSound, TypeOK
  <2>2. ArraysSound' /\ LinksMatch' /\ NoOrphans'
    BY <2>0, <2>1, TreeKept DEF TreeInv, TreeSound, LinksSound, tree
  <2>3. NoDangling'
    BY <2>0, SMT DEF TreeInv, TreeSound, LinksSound, NoDangling, Gone, AtChild
  <2>4. WalkSound'
    BY <2>0 DEF TreeInv, TreeSound, WalkSound, Busy
  <2>5. DeletionSound'
    BY <2>0 DEF TreeInv, TreeSound, DeletionSound, FrameSound, Visited, AtChild, Busy, Target, Last
  <2>6. HandlersLive'
    BY <2>0, HandlersKept DEF TreeInv
  <2> QED
    BY <2>2, <2>3, <2>4, <2>5, <2>6 DEF TreeInv, TreeSound, LinksSound
<1> QED
  BY <1>1, <1>2, <1>3, <1>4, <1>5 DEF Next, TreeStep

\* The tree stays sound and its handlers alive through every sequence of
\* registrations and removals and in the middle of each, whatever the oids and
\* however many.
THEOREM TreeInvariant == Spec => []TreeInv
<1>1. Init => TreeInv
  BY InitSound
<1>2. TreeInv /\ [Next]_vars => TreeInv'
  BY NextSound
<1> QED
  BY <1>1, <1>2, PTL DEF Spec

\* The arrays that the binary search reads are ascending and within the memory
\* allocated, their pointers lead to exactly the nodes in memory, and the stack
\* of __mib_tree_delete never overflows.
THEOREM TreeAlwaysSound == Spec => []TreeSound
BY TreeInvariant, PTL DEF TreeInv

\* mib_handler_unref releases each handler once, and never that of a node that
\* is still in the tree.
THEOREM HandlersAlwaysLive == Spec => []HandlersLive
BY TreeInvariant, PTL DEF TreeInv
-----------------------------------------------------------------------------
(***************************************************************************)
(* The tree implements module MibRegistry.                                 *)
(***************************************************************************)

\* Covering means the same in the registry.
LEMMA SamePrefixes ==
  ASSUME NEW o
  PROVE  /\ \A p : Registry!Covers(p, o) <=> Covers(p, o)
         /\ Registry!ProperPrefixes(o) = {p \in Path : Covers(p, o) /\ p # o}
<1>1. \A p : Registry!Covers(p, o) <=> Covers(p, o)
  BY DEF Covers, Registry!Covers
<1> QED
  BY <1>1 DEF Registry!ProperPrefixes

\* What the registry is seen to hold when no deletion runs.
LEMMA CalmRegistry ==
  ASSUME ~ Busy
  PROVE  /\ Instances = {<<p, callback[p]>> : p \in {q \in Path : Instance(q)}}
                          \cup (IF Decided THEN {<<oid, cb>>} ELSE {})
         /\ Groups = {p \in Path : type[p] = "group"} \cup (IF Decided THEN Registry!ProperPrefixes(oid) ELSE {})
         /\ References = refs \ (IF pc = "insert" /\ ~ Decided THEN {cb} ELSE {})
<1>1. \A p : ~ Going(p)
  BY DEF Going
<1>2. Instances = {<<p, callback[p]>> : p \in {q \in Path : Instance(q)}}
                          \cup (IF Decided THEN {<<oid, cb>>} ELSE {})
  <2>1. {q \in Path : Instance(q) /\ ~ Going(q)} = {q \in Path : Instance(q)}
    BY <1>1
  <2> QED
    BY <2>1 DEF Instances
<1>3. Groups = {p \in Path : type[p] = "group"} \cup (IF Decided THEN Registry!ProperPrefixes(oid) ELSE {})
  BY <1>1, SamePrefixes DEF Groups
<1>4. References = refs \ (IF pc = "insert" /\ ~ Decided THEN {cb} ELSE {})
  <2>1. {q \in Path : Instance(q) /\ Going(q)} = {}
    BY <1>1
  <2> QED
    BY <2>1 DEF References
<1> QED
  BY <1>2, <1>3, <1>4

\* The oids that have a handler in the registry.
LEMMA CalmOids ==
  ASSUME ~ Busy, ~ Decided, NEW o
  PROVE  /\ Registry!InstanceOids = {p \in Path : Instance(p)}
         /\ Registry!Overlaps(o) <=> \/ o \in Path /\ type[o] = "group"
                                     \/ \E p \in Path : Instance(p) /\ Covers(p, o)
<1>1. /\ Instances = {<<p, callback[p]>> : p \in {q \in Path : Instance(q)}}
      /\ Groups = {p \in Path : type[p] = "group"}
  BY CalmRegistry
<1>2. Registry!InstanceOids = {p \in Path : Instance(p)}
  <2>1. ASSUME NEW x \in Instances PROVE x[1] \in {p \in Path : Instance(p)}
    BY <1>1, SMT
  <2>2. ASSUME NEW p \in Path, Instance(p) PROVE \E x \in Instances : p = x[1]
    <3>1. <<p, callback[p]>> \in Instances /\ <<p, callback[p]>>[1] = p
      BY <1>1, <2>2
    <3> QED
      BY <3>1
  <2> QED
    BY <2>1, <2>2 DEF Registry!InstanceOids
<1>3. \A p : Registry!Covers(p, o) <=> Covers(p, o)
  BY SamePrefixes
<1> QED
  BY <1>1, <1>2, <1>3 DEF Registry!Overlaps

\* Nothing in memory is in the way of the oid when the walk has met a group
\* without children above it.
LEMMA RawIsFree ==
  ASSUME TreeSound, NEW n \in Path, type[n] = "group", sub_ptr[n] = <<>>,
         NEW o \in Path, Covers(n, o), n # o
  PROVE  type[o] = "free" /\ \A q \in Path : Instance(q) => ~ Covers(q, o)
<1>1. ArraysSound /\ NoOrphans
  BY DEF TreeSound, LinksSound
<1>2. type[o] = "free"
  BY <1>1, Ancestors
<1>3. ASSUME NEW q \in Path, Instance(q), Covers(q, o) PROVE FALSE
  <2>1. n \in OID /\ o \in OID /\ q \in OID
    BY PathType
  <2>2. Covers(q, n) \/ Covers(n, q)
    BY <1>3, <2>1, CoversLinear
  <2>3. q # n /\ type[q] # "free" /\ type[q] # "group"
    BY <1>3 DEF Instance
  <2>4. CASE Covers(q, n)
    BY <1>1, <2>3, <2>4, Ancestors
  <2>5. CASE Covers(n, q)
    BY <1>1, <2>3, <2>5, Ancestors
  <2> QED
    BY <2>2, <2>4, <2>5
<1> QED
  BY <1>2, <1>3

\* The same where the next node on the way is not in memory.
LEMMA AbsentIsFree ==
  ASSUME TreeSound, NEW n \in Path, type[n] = "group", NEW x \in SubId,
         Append(n, x) \in Path, type[Append(n, x)] = "free",
         NEW o \in Path, Covers(Append(n, x), o)
  PROVE  type[o] = "free" /\ \A q \in Path : Instance(q) => ~ Covers(q, o)
<1> DEFINE c == Append(n, x)
<1>0. /\ c \in Path /\ type[c] = "free" /\ Covers(c, o)
      /\ \A t \in OID : Covers(t, c) <=> Covers(t, n) \/ t = c
  BY PathType, AppendFacts
<1> HIDE DEF c
<1>1. ArraysSound /\ NoOrphans
  BY DEF TreeSound, LinksSound
<1>2. type[o] = "free"
  BY <1>0, <1>1, Ancestors
<1>3. ASSUME NEW q \in Path, Instance(q), Covers(q, o) PROVE FALSE
  <2>1. c \in OID /\ o \in OID /\ q \in OID
    BY <1>0, PathType
  <2>2. Covers(q, c) \/ Covers(c, q)
    BY <1>0, <1>3, <2>1, CoversLinear, SMT
  <2>3. q # n /\ q # c /\ type[q] # "free" /\ type[q] # "group"
    BY <1>0, <1>3 DEF Instance
  <2>4. CASE Covers(q, c)
    <3>1. Covers(q, n)
      BY <1>0, <2>1, <2>3, <2>4
    <3> QED
      BY <1>1, <2>3, <3>1, Ancestors
  <2>5. CASE Covers(c, q)
    BY <1>0, <1>1, <2>3, <2>5, Ancestors
  <2> QED
    BY <2>2, <2>4, <2>5
<1> QED
  BY <1>2, <1>3, SMT

\* The start of a call is the start of a call of the registry.
LEMMA RegImplements ==
  ASSUME TreeInv, NEW o \in Path, NEW c \in Callback, mib_node_reg(o, c)
  PROVE  [Registry!Next]_Registry!vars
<1> USE DEF TreeInv
<1>0. /\ pc = "idle" /\ c \notin refs /\ refs' = refs \cup {c}
      /\ UNCHANGED <<type, sub_id, sub_ptr, sub_id_cap, callback, at, node>>
      /\ ~ Busy /\ ~ Decided /\ ~ Busy'
  BY DEF mib_node_reg, tree, Busy, Decided, Inserting
<1>1. at = 0 /\ node = Root /\ type[Root] = "group"
  BY <1>0 DEF TreeSound, WalkSound, ArraysSound
<1>2. /\ Instances = {<<p, callback[p]>> : p \in {q \in Path : Instance(q)}}
      /\ Groups = {p \in Path : type[p] = "group"}
      /\ References = refs /\ Returned = ret
  BY <1>0, CalmRegistry DEF Returned
<1>3. Instances' = Instances \cup (IF Decided' THEN {<<oid', cb'>>} ELSE {})
  BY <1>0, <1>2 DEF Instances, Going, Instance
<1>4. Groups' = Groups \cup (IF Decided' THEN Registry!ProperPrefixes(oid') ELSE {})
  BY <1>0, <1>2, SamePrefixes DEF Groups, Going
<1>5. References' = refs' \ (IF pc' = "insert" /\ ~ Decided' THEN {cb'} ELSE {})
  BY <1>0 DEF References, Going, Instance
<1>6. CASE Len(o) = 0 \/ Len(o) > MIB_OID_MAX_LEN
  <2>1. ret' = -1 /\ pc' = "idle" /\ ~ Decided'
    BY <1>0, <1>6 DEF mib_node_reg, Decided, Inserting
  <2>2. Len(o) = 0 => Registry!Overlaps(o)
    <3>1. o \in OID /\ Root \in Path
      BY PathType
    <3>2. Len(o) = 0 => o = Root
      BY <3>1, EmptyIs DEF OID, Root
    <3> QED
      BY <1>0, <1>1, <3>1, <3>2, CalmOids
  <2>3. /\ References' = References \cup {c} /\ Returned' = -1
        /\ Instances' = Instances /\ Groups' = Groups
    BY <1>0, <1>2, <1>3, <1>4, <1>5, <2>1 DEF Returned
  <2>4. Registry!RegisterFails(o, c)
    BY <1>0, <1>2, <1>6, <2>2, <2>3 DEF Registry!RegisterFails
  <2> QED
    BY <2>4 DEF Registry!Next
<1>7. CASE ~ (Len(o) = 0 \/ Len(o) > MIB_OID_MAX_LEN)
  <2>1. pc' = "insert" /\ oid' = o /\ cb' = c /\ ret' = ret
    BY <1>7 DEF mib_node_reg
  <2>2. CASE ~ Decided'
    BY <1>0, <1>2, <1>3, <1>4, <1>5, <2>1, <2>2 DEF Returned, Registry!vars
  <2>3. CASE Decided'
    <3>1. /\ References' = References \cup {c} /\ Returned' = 0
          /\ Instances' = Instances \cup {<<o, c>>}
          /\ Groups' = Groups \cup Registry!ProperPrefixes(o)
      BY <1>0, <1>2, <1>3, <1>4, <1>5, <2>1, <2>3 DEF Returned
    <3>2. type[o] = "free" /\ \A q \in Path : Instance(q) => ~ Covers(q, o)
      <4>1. Root \in Path /\ Root # o /\ Covers(Root, o)
        BY <1>7, PathType, SMT DEF Root, Covers, OID
      <4>2. sub_id[Root] = <<>>
        <5>1. Len(sub_id[Root]) = 0 /\ sub_id[Root] \in Seq(SubId)
          BY <1>0, <1>1, <2>3, PathType DEF Decided, is_raw_group, sub_id_cnt, TreeSound, ArraysSound, TypeOK
        <5> QED
          BY <5>1, EmptyIs
      <4>3. sub_ptr[Root] = <<>>
        <5>1. Len(sub_ptr[Root]) = 0 /\ sub_ptr[Root] \in Seq(Path)
          BY <4>1, <4>2 DEF TreeSound, ArraysSound, TypeOK
        <5> QED
          BY <5>1, EmptyIs
      <4> QED
        BY <1>1, <4>1, <4>3, RawIsFree
    <3>3. ~ Registry!Overlaps(o)
      BY <1>0, <3>2, CalmOids
    <3>4. Len(o) <= MIB_OID_MAX_LEN
      BY <1>7, PathType, TreeAssumption, SMT DEF OID
    <3>5. Registry!Register(o, c)
      BY <1>0, <1>2, <3>1, <3>3, <3>4 DEF Registry!Register
    <3> QED
      BY <3>5 DEF Registry!Next
  <2> QED
    BY <2>2, <2>3
<1> QED
  BY <1>6, <1>7

\* The registration under way: its arguments, and the path it walks.
LEMMA InsertFacts ==
  ASSUME TreeInv, pc = "insert", type[node] # "free"
  PROVE  /\ ~ Busy /\ oid \in Path /\ node \in Path /\ cb \in Callback /\ cb \in refs
         /\ Len(oid) <= MIB_OID_MAX_LEN /\ Covers(node, oid)
         /\ IdLeft = 0 => node = oid
         /\ IdLeft > 0 => node # oid
<1>1. /\ oid \in Path /\ at <= Len(oid) /\ node = SubSeq(oid, 1, at) /\ at \in Nat
      /\ Len(oid) \in 1 .. MIB_OID_MAX_LEN /\ refs \subseteq Callback
  BY DEF TreeInv, TreeSound, WalkSound, ArraysSound, TypeOK
<1>2. oid \in OID /\ Len(oid) \in Nat
  BY <1>1, PathType, SMT DEF OID
<1>3. at \in 0 .. Len(oid)
  BY <1>1, <1>2, SMT
<1>4. node \in Path
  BY <1>1, <1>3, PathPrefix
<1>5. Covers(node, oid) /\ (at = Len(oid) => node = oid) /\ Len(node) = at
  BY <1>1, <1>2, <1>3, PrefixFacts
<1>6. IdLeft = 0 <=> at = Len(oid)
  BY <1>1, <1>2, SMT DEF IdLeft
<1>7. IdLeft > 0 => node # oid
  BY <1>1, <1>2, <1>5, SMT DEF IdLeft
<1>8. cb \in refs /\ cb \in Callback
  BY <1>1 DEF TreeInv, HandlersLive
<1>9. Len(oid) <= MIB_OID_MAX_LEN
  BY <1>1, TreeAssumption, SMT
<1>10. ~ Busy
  BY DEF Busy
<1> QED
  BY <1>1, <1>4, <1>5, <1>6, <1>7, <1>8, <1>9, <1>10

\* Walking down during an insertion is invisible in the registry.
LEMMA InsertDescendImplements ==
  ASSUME TreeInv, InsertDescend
  PROVE  [Registry!Next]_Registry!vars
<1>0. /\ Inserting /\ pc = "insert" /\ IdLeft > 0 /\ type[node] = "group" /\ ~ is_raw_group(node)
      /\ Search >= 0 /\ at' = at + 1 /\ node' = Child(Search)
      /\ UNCHANGED <<type, sub_id, sub_ptr, sub_id_cap, callback, refs, pc, oid, cb, ret>>
      /\ ~ Decided /\ ~ Busy'
  BY DEF InsertDescend, Inserting, tree, Decided, Busy
<1>1. ~ Busy /\ oid \in Path /\ cb \in Callback /\ cb \in refs /\ Len(oid) <= MIB_OID_MAX_LEN
  BY <1>0, InsertFacts
<1>2. /\ Instances = {<<p, callback[p]>> : p \in {q \in Path : Instance(q)}}
      /\ Groups = {p \in Path : type[p] = "group"}
      /\ References = refs \ {cb} /\ Returned = ret
  BY <1>0, <1>1, CalmRegistry DEF Returned
<1>3. Instances' = Instances \cup (IF Decided' THEN {<<oid, cb>>} ELSE {})
  BY <1>0, <1>2 DEF Instances, Going, Instance
<1>4. Groups' = Groups \cup (IF Decided' THEN Registry!ProperPrefixes(oid) ELSE {})
  BY <1>0, <1>2, SamePrefixes DEF Groups, Going
<1>5. References' = refs \ (IF ~ Decided' THEN {cb} ELSE {})
  BY <1>0 DEF References, Going, Instance
<1>6. CASE ~ Decided'
  BY <1>0, <1>2, <1>3, <1>4, <1>5, <1>6 DEF Returned, Registry!vars
<1>7. CASE Decided'
  <2>1. /\ References' = References \cup {cb} /\ Returned' = 0 /\ cb \notin References
        /\ Instances' = Instances \cup {<<oid, cb>>}
        /\ Groups' = Groups \cup Registry!ProperPrefixes(oid)
    BY <1>1, <1>2, <1>3, <1>4, <1>5, <1>7 DEF Returned
  <2>2. /\ node' \in Path /\ node' = SubSeq(oid, 1, at + 1) /\ at \in 0 .. (Len(oid) - 1)
    BY <1>0, WalkFacts DEF TreeInv
  <2>3. /\ type[node'] = "group" /\ Len(sub_id[node']) = 0 /\ Len(oid) - (at + 1) > 0
    BY <1>0, <1>7 DEF Decided, Inserting, is_raw_group, sub_id_cnt, IdLeft
  <2>4. Covers(node', oid) /\ node' # oid
    <3>1. oid \in OID /\ Len(oid) \in Nat
      BY <1>1, PathType, SMT DEF OID
    <3>2. at + 1 \in 0 .. Len(oid)
      BY <2>2, <3>1, SMT
    <3>3. Covers(node', oid) /\ Len(node') = at + 1
      BY <2>2, <3>1, <3>2, PrefixFacts
    <3>4. Len(oid) # at + 1
      BY <2>2, <2>3, <3>1, SMT
    <3> QED
      BY <3>3, <3>4
  <2>5. sub_ptr[node'] = <<>>
    <3>1. Len(sub_ptr[node']) = 0 /\ sub_ptr[node'] \in Seq(Path)
      BY <2>2, <2>3 DEF TreeInv, TreeSound, ArraysSound, TypeOK
    <3> QED
      BY <3>1, EmptyIs
  <2>6. PICK n \in Path : n = node'
    BY <2>2
  <2>7. type[oid] = "free" /\ \A q \in Path : Instance(q) => ~ Covers(q, oid)
    BY <1>1, <2>3, <2>4, <2>5, <2>6, RawIsFree DEF TreeInv
  <2>8. ~ Registry!Overlaps(oid)
    BY <1>0, <1>1, <2>7, CalmOids
  <2>9. Registry!Register(oid, cb)
    BY <1>1, <2>1, <2>8 DEF Registry!Register
  <2> QED
    BY <1>1, <2>9 DEF Registry!Next
<1> QED
  BY <1>6, <1>7

\* The registry that the first node made for an oid shows.
LEMMA AllocateShows ==
  ASSUME TreeInv, Inserting, UNCHANGED refs, NEW i, Allocate(i),
         \A j \in 1 .. Len(sub_id[node]) : sub_id[node][j] # NextId
  PROVE  /\ Instances' = {<<p, callback[p]>> : p \in {q \in Path : Instance(q)}} \cup {<<oid, cb>>}
         /\ Groups' = {p \in Path : type[p] = "group"} \cup Registry!ProperPrefixes(oid)
         /\ References' = refs /\ Returned' = 0
<1> DEFINE new == Append(node, NextId)
           last == IdLeft = 1
<1>1. /\ TypeOK /\ pc = "insert" /\ IdLeft > 0 /\ type[node] = "group"
      /\ ArraysSound /\ NoOrphans /\ TreeSound
  BY DEF TreeInv, TreeSound, ArraysSound, LinksSound, Inserting
<1>2. /\ oid \in Path /\ at \in 0 .. (Len(oid) - 1) /\ NextId \in SubId
      /\ node \in Path /\ Len(node) = at /\ new = SubSeq(oid, 1, at + 1)
  BY <1>1, WalkFacts
<1>3. type[new] = "free" /\ new \in Path /\ new # node
  BY <1>1, NewIsFree
<1>4. /\ type' = [type EXCEPT ![new] = IF last THEN "instance" ELSE "group"]
      /\ callback' = [callback EXCEPT ![new] = IF last THEN cb ELSE NoCallback]
      /\ sub_id' = [sub_id EXCEPT ![node] = InsertAt(@, i + 1, NextId)]
      /\ last => pc' = "idle" /\ ret' = 0
      /\ ~ last => /\ at' = at + 1 /\ node' = new
                   /\ UNCHANGED <<pc, oid, cb>>
  BY DEF Allocate, Return
<1>5. oid \in OID /\ Len(oid) \in Nat /\ node \in OID
  BY <1>2, PathType, SMT DEF OID
<1>6. \A t \in OID : Covers(t, new) <=> Covers(t, node) \/ t = new
  BY <1>2, <1>5, AppendFacts
<1>7. Covers(new, oid) /\ Len(new) = at + 1 /\ (at + 1 = Len(oid) => new = oid)
  <2>1. at + 1 \in 0 .. Len(oid)
    BY <1>2, <1>5, SMT
  <2> QED
    BY <1>2, <1>5, <2>1, PrefixFacts, SMT
<1> HIDE DEF new
<1>8. last <=> new = oid
  BY <1>2, <1>5, <1>7, SMT DEF IdLeft
<1> HIDE DEF last
<1>9. \A p : ~ Going(p)'
  BY <1>1, <1>4 DEF Going, Busy
<1>10. CASE last
  <2>1. pc' = "idle" /\ ret' = 0 /\ ~ Decided' /\ Returned' = 0
    BY <1>4, <1>10 DEF Decided, Inserting, Returned
  <2>2. \A p \in Path : Instance(p)' <=> Instance(p) \/ p = oid
    BY <1>1, <1>3, <1>4, <1>8, <1>10 DEF Instance, TypeOK
  <2>3. callback'[oid] = cb /\ \A p \in Path : p # oid => callback'[p] = callback[p]
    BY <1>1, <1>3, <1>4, <1>8, <1>10 DEF TypeOK
  <2>4. ~ Instance(oid)
    BY <1>3, <1>8, <1>10 DEF Instance
  <2>5. Instances' = {<<p, callback[p]>> : p \in {q \in Path : Instance(q)}} \cup {<<oid, cb>>}
    <3>1. Instances' = {<<p, callback'[p]>> : p \in {q \in Path : Instance(q)'}}
      BY <1>9, <2>1 DEF Instances
    <3>2. {q \in Path : Instance(q)'} = {q \in Path : Instance(q)} \cup {oid}
      BY <1>2, <2>2
    <3>3. \A q \in Path : Instance(q) => callback'[q] = callback[q]
      BY <2>3, <2>4
    <3> QED
      BY <2>3, <3>1, <3>2, <3>3
  <2>6. Groups' = {p \in Path : type[p] = "group"} \cup Registry!ProperPrefixes(oid)
    <3>1. Groups' = {p \in Path : type'[p] = "group"}
      BY <1>9, <2>1 DEF Groups
    <3>2. \A p \in Path : type'[p] = "group" <=> type[p] = "group"
      BY <1>1, <1>3, <1>4, <1>10 DEF TypeOK
    <3>3. ASSUME NEW p \in Path, Covers(p, oid), p # oid PROVE type[p] = "group"
      <4>1. Covers(p, node)
        BY <1>6, <1>8, <1>10, <3>3, PathType
      <4> QED
        BY <1>1, <1>2, <4>1, Ancestors
    <3> QED
      BY <3>1, <3>2, <3>3, SamePrefixes
  <2>7. References' = refs
    <3>1. {q \in Path : Instance(q)' /\ Going(q)'} = {}
      BY <1>9
    <3> QED
      BY <2>1, <3>1 DEF References
  <2> QED
    BY <2>1, <2>5, <2>6, <2>7
<1>11. CASE ~ last
  <2>1. pc' = "insert" /\ oid' = oid /\ cb' = cb /\ at' = at + 1 /\ node' = new
    BY <1>1, <1>4, <1>11
  <2>2. Decided' /\ Returned' = 0
    <3>1. IdLeft' > 0
      BY <1>2, <1>5, <1>7, <1>8, <1>11, <2>1, SMT DEF IdLeft
    <3>2. type'[new] = "group"
      BY <1>1, <1>3, <1>4, <1>11 DEF TypeOK
    <3>3. sub_id[new] = <<>>
      BY <1>1, <1>3 DEF ArraysSound
    <3>4. sub_id'[new] = <<>>
      BY <1>1, <1>3, <1>4, <3>3 DEF TypeOK
    <3> QED
      BY <2>1, <3>1, <3>2, <3>4 DEF Decided, Inserting, is_raw_group, sub_id_cnt, Returned
  <2>3. \A p \in Path : Instance(p)' <=> Instance(p)
    BY <1>1, <1>3, <1>4, <1>11 DEF Instance, TypeOK
  <2>4. \A p \in Path : Instance(p) => callback'[p] = callback[p]
    BY <1>1, <1>3, <1>4 DEF TypeOK, Instance
  <2>5. Instances' = {<<p, callback[p]>> : p \in {q \in Path : Instance(q)}} \cup {<<oid, cb>>}
    <3>1. Instances' = {<<p, callback'[p]>> : p \in {q \in Path : Instance(q)'}} \cup {<<oid, cb>>}
      BY <1>9, <2>1, <2>2 DEF Instances
    <3>2. {q \in Path : Instance(q)'} = {q \in Path : Instance(q)}
      BY <2>3
    <3> QED
      BY <2>4, <3>1, <3>2
  <2>6. Groups' = {p \in Path : type[p] = "group"} \cup Registry!ProperPrefixes(oid)
    <3>1. Groups' = {p \in Path : type'[p] = "group"} \cup {p \in Path : Covers(p, oid) /\ p # oid}
      BY <1>9, <2>1, <2>2 DEF Groups
    <3>2. \A p \in Path : type'[p] = "group" <=> type[p] = "group" \/ p = new
      BY <1>1, <1>3, <1>4, <1>11 DEF TypeOK
    <3>3. new \in Path /\ Covers(new, oid) /\ new # oid
      BY <1>3, <1>7, <1>8, <1>11
    <3> QED
      BY <3>1, <3>2, <3>3, SamePrefixes
  <2>7. References' = refs
    <3>1. {q \in Path : Instance(q)' /\ Going(q)'} = {}
      BY <1>9
    <3> QED
      BY <2>2, <3>1 DEF References
  <2> QED
    BY <2>2, <2>5, <2>6, <2>7
<1> QED
  BY <1>10, <1>11

\* An insertion below an empty group node is a registration.
LEMMA InsertRawImplements ==
  ASSUME TreeInv, InsertRaw
  PROVE  UNCHANGED Registry!vars
<1>0. Inserting /\ is_raw_group(node) /\ Allocate(0) /\ UNCHANGED refs /\ Decided
  BY DEF InsertRaw, Decided
<1>1. ~ Busy
  BY <1>0 DEF Inserting, Busy
<1>2. /\ Instances = {<<p, callback[p]>> : p \in {q \in Path : Instance(q)}} \cup {<<oid, cb>>}
      /\ Groups = {p \in Path : type[p] = "group"} \cup Registry!ProperPrefixes(oid)
      /\ References = refs /\ Returned = 0
  BY <1>0, <1>1, CalmRegistry DEF Returned
<1>3. \A j \in 1 .. Len(sub_id[node]) : sub_id[node][j] # NextId
  BY <1>0, SMT DEF is_raw_group, sub_id_cnt
<1>4. PICK z : z = 0
  OBVIOUS
<1> QED
  BY <1>0, <1>2, <1>3, <1>4, AllocateShows DEF Registry!vars

\* An insertion next to other children is a registration.
LEMMA InsertExpandImplements ==
  ASSUME TreeInv, InsertExpand
  PROVE  Registry!Next
<1> DEFINE i == -Search - 1
           new == Append(node, NextId)
<1>0. /\ Inserting /\ ~ is_raw_group(node) /\ Search < 0 /\ Allocate(i) /\ UNCHANGED refs
      /\ pc = "insert" /\ IdLeft > 0 /\ type[node] = "group" /\ ~ Decided /\ TreeSound
  BY DEF InsertExpand, Inserting, Decided, TreeInv
<1>1. ~ Busy /\ oid \in Path /\ cb \in Callback /\ cb \in refs /\ Len(oid) <= MIB_OID_MAX_LEN
  BY <1>0, InsertFacts
<1>2. /\ Instances = {<<p, callback[p]>> : p \in {q \in Path : Instance(q)}}
      /\ Groups = {p \in Path : type[p] = "group"}
      /\ References = refs \ {cb}
  BY <1>0, <1>1, CalmRegistry
<1>3. /\ node \in Path /\ NextId \in SubId /\ new \in Path /\ new = SubSeq(oid, 1, at + 1)
      /\ at \in 0 .. (Len(oid) - 1) /\ Search \in Int /\ i \in 0 .. Len(sub_id[node])
      /\ \A j \in 1 .. i : sub_id[node][j] < NextId
      /\ \A j \in (-Search) .. Len(sub_id[node]) : sub_id[node][j] > NextId
  BY <1>0, WalkFacts
<1>4. \A j \in 1 .. Len(sub_id[node]) : sub_id[node][j] # NextId
  <2> SUFFICES ASSUME NEW j \in 1 .. Len(sub_id[node]) PROVE sub_id[node][j] # NextId
    OBVIOUS
  <2>1. sub_id[node] \in Seq(SubId)
    BY <1>0, <1>3 DEF TreeSound, ArraysSound, TypeOK
  <2>2. sub_id[node][j] \in SubId /\ SubId \subseteq Int /\ Len(sub_id[node]) \in Nat
    BY <2>1, HalfAssumption, SMT DEF SubId, Word
  <2>3. sub_id[node][j] \in Int /\ NextId \in Int
    BY <1>3, <2>2
  <2>4. j \in 1 .. i \/ j \in (-Search) .. Len(sub_id[node])
    BY <1>3, <2>2, SMT
  <2> QED
    BY <1>3, <2>3, <2>4, SMT
<1>5. type[new] = "free"
  BY <1>0, <1>4, NewIsFree
<1>6. Covers(new, oid)
  <2>1. oid \in OID /\ Len(oid) \in Nat
    BY <1>1, PathType, SMT DEF OID
  <2>2. at + 1 \in 0 .. Len(oid)
    BY <1>3, <2>1, SMT
  <2> QED
    BY <1>3, <2>1, <2>2, PrefixFacts
<1>7. type[oid] = "free" /\ \A q \in Path : Instance(q) => ~ Covers(q, oid)
  BY <1>0, <1>1, <1>3, <1>5, <1>6, AbsentIsFree
<1>8. ~ Registry!Overlaps(oid)
  BY <1>0, <1>1, <1>7, CalmOids
<1> HIDE DEF i
<1>9. /\ Instances' = Instances \cup {<<oid, cb>>}
      /\ Groups' = Groups \cup Registry!ProperPrefixes(oid)
      /\ References' = refs /\ Returned' = 0
  BY <1>0, <1>2, <1>4, AllocateShows
<1>10. Registry!Register(oid, cb)
  BY <1>1, <1>2, <1>8, <1>9 DEF Registry!Register
<1> QED
  BY <1>1, <1>10 DEF Registry!Next

\* An insertion that meets an instance or runs out at a node is refused by the
\* registry too.
LEMMA InsertFailImplements ==
  ASSUME TreeInv, InsertFail
  PROVE  Registry!Next
<1>0. /\ pc = "insert" /\ type[node] # "free" /\ (IdLeft = 0 \/ type[node] = "instance")
      /\ pc' = "idle" /\ ret' = -1 /\ ~ Decided /\ ~ Decided' /\ ~ Busy'
      /\ UNCHANGED <<type, callback, refs>>
  BY SMT DEF InsertFail, Return, tree, Decided, Inserting, Busy
<1>1. /\ ~ Busy /\ oid \in Path /\ node \in Path /\ cb \in Callback /\ cb \in refs
      /\ Covers(node, oid) /\ (IdLeft = 0 => node = oid)
  BY <1>0, InsertFacts
<1>2. /\ Instances = {<<p, callback[p]>> : p \in {q \in Path : Instance(q)}}
      /\ Groups = {p \in Path : type[p] = "group"}
      /\ References = refs \ {cb}
  BY <1>0, <1>1, CalmRegistry
<1>3. Instances' = Instances /\ Groups' = Groups /\ References' = refs /\ Returned' = -1
  BY <1>0, <1>2, SMT DEF Instances, Groups, References, Returned, Going, Instance
<1>4. type[node] \in {"group", "instance"}
  BY <1>0, <1>1 DEF TreeInv, TreeSound, ArraysSound, TypeOK
<1>5. Registry!Overlaps(oid)
  BY <1>0, <1>1, <1>4, CalmOids DEF Instance
<1>6. Registry!RegisterFails(oid, cb)
  BY <1>1, <1>2, <1>3, <1>5 DEF Registry!RegisterFails
<1> QED
  BY <1>1, <1>6 DEF Registry!Next

\* The steps of mib_node_unreg until it has found the node change nothing.
LEMMA FindImplements ==
  ASSUME UNCHANGED <<type, callback, refs, ret>>,
         pc \in {"idle", "find"}, pc' \in {"idle", "find"}
  PROVE  UNCHANGED Registry!vars
<1>1. ~ Busy /\ ~ Busy' /\ ~ Decided /\ ~ Decided'
  BY DEF Busy, Decided, Inserting
<1> QED
  BY <1>1 DEF Registry!vars, Instances, Groups, References, Returned, Going, Instance

\* Finding the node to delete takes its subtree out of the registry.
LEMMA FindHitImplements ==
  ASSUME TreeInv, FindHit
  PROVE  [Registry!Next]_Registry!vars
<1>0. /\ pc = "find" /\ UNCHANGED <<type, sub_id, sub_ptr, callback, refs, ret>>
      /\ node # NULL /\ TreeSound
  BY DEF FindHit, tree, TreeInv
<1>1. CASE node = Root
  BY <1>0, <1>1, FindImplements DEF FindHit, Return
<1>2. CASE node # Root
  <2>1. pc' = "delete" /\ UNCHANGED <<node, parent, sub_idx>> /\ Busy' /\ ~ Busy /\ ~ Decided /\ ~ Decided'
    BY <1>0, <1>2 DEF FindHit, Busy, Decided, Inserting
  <2>2. node \in Path
    BY <1>0 DEF TreeSound, ArraysSound, TypeOK
  <2>3. Target' = node
    <3>1. at > 0
      <4>1. oid \in OID /\ node = SubSeq(oid, 1, at) /\ at \in Nat /\ at <= Len(oid)
        BY <1>0 DEF TreeSound, WalkSound, ArraysSound, TypeOK
      <4>2. Len(oid) \in Nat
        BY <4>1, SMT DEF OID
      <4>3. 0 \in 0 .. Len(oid)
        BY <4>2, SMT
      <4>4. at # 0
        BY <1>2, <4>1, <4>3, PrefixFacts DEF Root
      <4> QED
        BY <4>1, <4>4, SMT
    <3>2. /\ sub_idx < Len(sub_ptr[parent]) /\ sub_ptr[parent][sub_idx + 1] = node
          /\ sub_idx \in Nat /\ parent \in Path /\ sub_ptr[parent] \in Seq(Path)
      BY <1>0, <3>1 DEF TreeSound, WalkSound, ArraysSound, TypeOK
    <3>3. sub_idx + 1 \in 1 .. Len(sub_ptr[parent])
      BY <3>2, SMT
    <3>4. sub_ptr[parent][sub_idx + 1] = Append(parent, sub_id[parent][sub_idx + 1])
      BY <1>0, <3>2, <3>3 DEF TreeSound, LinksSound, LinksMatch
    <3> QED
      BY <1>0, <2>1, <3>2, <3>4 DEF Target
  <2>4. \A p : Going(p)' <=> Covers(node, p)
    BY <2>1, <2>3 DEF Going
  <2>5. /\ Instances = {<<p, callback[p]>> : p \in {q \in Path : Instance(q)}}
        /\ Groups = {p \in Path : type[p] = "group"}
        /\ References = refs /\ Returned = ret
    BY <1>0, <2>1, CalmRegistry DEF Returned
  <2>6. \A x \in Instances : x \in Instances' <=> ~ Covers(node, x[1])
    <3> SUFFICES ASSUME NEW p \in Path, Instance(p)
                 PROVE  <<p, callback[p]>> \in Instances' <=> ~ Covers(node, p)
      BY <2>5, SMT
    <3>1. Instances' = {<<q, callback[q]>> : q \in {q \in Path : Instance(q) /\ ~ Covers(node, q)}}
      BY <1>0, <2>1, <2>4 DEF Instances, Instance
    <3> QED
      BY <3>1
  <2>7. Instances' \subseteq Instances
    BY <1>0, <2>1, <2>5 DEF Instances, Instance
  <2>8. Instances' = {x \in Instances : ~ Covers(node, x[1])}
    BY <2>6, <2>7
  <2>9. Groups' = {g \in Groups : ~ Covers(node, g)}
    BY <1>0, <2>1, <2>4, <2>5 DEF Groups
  <2>10. References' = References \ {x[2] : x \in Instances \ Instances'}
    <3>1. References' = refs \ {callback[p] : p \in {q \in Path : Instance(q) /\ Covers(node, q)}}
      BY <1>0, <2>1, <2>4 DEF References, Instance
    <3>2. {callback[p] : p \in {q \in Path : Instance(q) /\ Covers(node, q)}}
            = {x[2] : x \in Instances \ Instances'}
      <4>1. ASSUME NEW p \in Path, Instance(p), Covers(node, p)
            PROVE  \E x \in Instances \ Instances' : callback[p] = x[2]
        <5> DEFINE x == <<p, callback[p]>>
        <5>1. x \in Instances /\ x[1] = p /\ x[2] = callback[p]
          BY <2>5, <4>1
        <5> HIDE DEF x
        <5> QED
          BY <2>6, <4>1, <5>1
      <4>2. ASSUME NEW x \in Instances \ Instances'
            PROVE  \E p \in {q \in Path : Instance(q) /\ Covers(node, q)} : x[2] = callback[p]
        <5>1. PICK p \in Path : Instance(p) /\ x = <<p, callback[p]>>
          BY <2>5
        <5> QED
          BY <2>6, <4>2, <5>1
      <4> QED
        BY <4>1, <4>2, SMT
    <3> QED
      BY <2>5, <3>1, <3>2
  <2>11. Registry!Delete(node)
    <3>1. \A p : Registry!Covers(node, p) <=> Covers(node, p)
      BY SamePrefixes
    <3> QED
      BY <1>0, <2>1, <2>5, <2>8, <2>9, <2>10, <3>1 DEF Registry!Delete, Returned
  <2>12. Registry!Unregister(node)
    BY <1>2, <2>11 DEF Registry!Unregister, Root
  <2> QED
    BY <2>2, <2>12 DEF Registry!Next
<1> QED
  BY <1>1, <1>2

\* The walk of __mib_tree_delete from node to node changes nothing.
LEMMA DelWalkImplements ==
  ASSUME UNCHANGED <<type, sub_id, callback, refs, ret, parent, sub_idx>>, Busy, Busy'
  PROVE  UNCHANGED Registry!vars
<1>1. ~ Decided /\ ~ Decided' /\ pc # "insert" /\ pc' # "insert"
  BY DEF Busy, Decided, Inserting
<1>2. \A p : Going(p)' <=> Going(p)
  BY DEF Going, Target
<1> QED
  BY <1>1, <1>2 DEF Registry!vars, Instances, Groups, References, Returned, Instance

\* Nor does freeing a node, which the registry has lost when it was found.
LEMMA FreeImplements ==
  ASSUME TreeSound, pc = "delete", node # NULL, Free(node), pc' = "backtrack",
         UNCHANGED <<ret, parent, sub_idx>>,
         refs' = IF Instance(node) THEN refs \ {callback[node]} ELSE refs
  PROVE  UNCHANGED Registry!vars
<1>1. /\ Busy /\ node \in Path /\ Covers(Target, node) /\ node # parent
  BY CursorFacts
<1>2. parent \in Path
  BY <1>1, TargetFacts
<1>3. /\ type'[node] = "free"
      /\ \A p \in Path : p # node => /\ type'[p] = type[p] /\ sub_id'[p] = sub_id[p]
                                     /\ callback'[p] = callback[p]
  BY <1>1 DEF Free, TreeSound, ArraysSound, TypeOK
<1>4. ~ Decided /\ ~ Decided' /\ pc # "insert" /\ pc' # "insert" /\ Busy'
  BY DEF Busy, Decided, Inserting
<1>5. Target' = Target
  BY <1>1, <1>2, <1>3 DEF Target
<1>6. Going(node) /\ \A p : Going(p)' <=> Going(p)
  BY <1>1, <1>4, <1>5 DEF Going
<1>7. \A p \in Path : Instance(p)' <=> Instance(p) /\ p # node
  BY <1>3 DEF Instance
<1>8. Instances' = Instances
  <2>1. {q \in Path : Instance(q)' /\ ~ Going(q)'} = {q \in Path : Instance(q) /\ ~ Going(q)}
    BY <1>6, <1>7
  <2>2. \A q \in Path : ~ Going(q) => callback'[q] = callback[q]
    BY <1>3, <1>6
  <2> QED
    BY <1>4, <2>1, <2>2 DEF Instances
<1>9. Groups' = Groups
  <2>1. \A p \in Path : ~ Going(p) => type'[p] = type[p]
    BY <1>3, <1>6
  <2> QED
    BY <1>4, <1>6, <2>1 DEF Groups
<1>10. References' = References
  <2> DEFINE A == {q \in Path : Instance(q) /\ Going(q)}
             B == {q \in Path : Instance(q)' /\ Going(q)'}
  <2>1. A = IF Instance(node) THEN B \cup {node} ELSE B
    BY <1>1, <1>6, <1>7
  <2>2. \A q \in B : callback'[q] = callback[q]
    BY <1>3, <1>7
  <2>3. References' = refs' \ {callback'[p] : p \in B}
    BY <1>4 DEF References
  <2>4. References = refs \ {callback[p] : p \in A}
    BY <1>4 DEF References
  <2> HIDE DEF A, B
  <2>5. {callback'[p] : p \in B} = {callback[p] : p \in B}
    BY <2>2
  <2>6. {callback[p] : p \in A} = {callback[p] : p \in B} \cup (IF Instance(node) THEN {callback[node]} ELSE {})
    BY <2>1
  <2> QED
    BY <2>3, <2>4, <2>5, <2>6
<1>11. Returned' = Returned
  BY <1>4 DEF Returned
<1> QED
  BY <1>8, <1>9, <1>10, <1>11 DEF Registry!vars

\* When group_node_shrink runs, nothing of the subtree is left.
LEMMA ShrinkImplements ==
  ASSUME TreeSound, group_node_shrink
  PROVE  UNCHANGED Registry!vars
<1>0. /\ pc = "backtrack" /\ stk = <<>> /\ pc' = "idle" /\ Busy /\ ~ Busy' /\ ~ Decided /\ ~ Decided'
      /\ UNCHANGED <<type, callback, refs, ret>>
  BY DEF group_node_shrink, Return, Busy, Decided, Inserting
<1>1. /\ parent \in Path /\ sub_idx + 1 \in 1 .. Len(sub_ptr[parent])
      /\ Target = sub_ptr[parent][sub_idx + 1] /\ Target \in Path
  BY <1>0, TargetFacts
<1>2. type[Target] = "free"
  <2>1. Gone(parent, sub_idx + 1)
    BY <1>0 DEF Gone
  <2> QED
    BY <1>1, <2>1 DEF TreeSound, LinksSound, NoDangling
<1>3. \A p \in Path : Going(p) => type[p] = "free"
  BY <1>1, <1>2, Ancestors DEF Going, TreeSound, LinksSound
<1>4. \A p : ~ Going(p)'
  BY <1>0 DEF Going
<1>5. {q \in Path : Instance(q)' /\ ~ Going(q)'} = {q \in Path : Instance(q) /\ ~ Going(q)}
  BY <1>0, <1>3, <1>4 DEF Instance
<1>6. /\ {q \in Path : Instance(q) /\ Going(q)} = {}
      /\ {q \in Path : Instance(q)' /\ Going(q)'} = {}
  BY <1>3, <1>4 DEF Instance
<1>7. Instances' = Instances
  BY <1>0, <1>5 DEF Instances
<1>8. Groups' = Groups
  BY <1>0, <1>3, <1>4 DEF Groups
<1>9. References' = References /\ Returned' = Returned
  BY <1>0, <1>6 DEF References, Returned
<1> QED
  BY <1>7, <1>8, <1>9 DEF Registry!vars

\* Every step of the tree is a step of the registry, or changes nothing there.
LEMMA NextImplements ==
  ASSUME TreeInv, [Next]_vars
  PROVE  [Registry!Next]_Registry!vars
<1>1. CASE TreeCall
  <2>1. ASSUME NEW o \in Path, mib_node_unreg(o) PROVE UNCHANGED Registry!vars
    BY <2>1, FindImplements DEF mib_node_unreg, tree
  <2> QED
    BY <1>1, <2>1, RegImplements DEF TreeCall
<1>2. CASE mib_tree_instance_insert
  BY <1>2, InsertRawImplements, InsertDescendImplements, InsertExpandImplements,
     InsertFailImplements DEF mib_tree_instance_insert
<1>3. CASE mib_tree_node_search
  <2>1. CASE FindDescend
    BY <2>1, FindImplements DEF FindDescend, Finding, tree
  <2>2. CASE FindMiss
    BY <2>2, FindImplements DEF FindMiss, Finding, Return, tree
  <2> QED
    BY <1>3, <2>1, <2>2, FindHitImplements DEF mib_tree_node_search
<1>4. CASE mib_tree_delete
  <2>1. CASE DelDescend \/ DelNull \/ Pop
    <3>1. UNCHANGED <<type, sub_id, callback, refs, ret, parent, sub_idx>> /\ Busy /\ Busy'
      BY <2>1 DEF DelDescend, DelNull, Pop, Deleting, tree, Busy
    <3> QED
      BY <3>1, DelWalkImplements
  <2>2. CASE mib_group_node_delete
    BY <2>2, FreeImplements DEF mib_group_node_delete, Deleting, Instance, TreeInv
  <2>3. CASE mib_instance_node_delete
    BY <2>3, FreeImplements DEF mib_instance_node_delete, Deleting, Instance, TreeInv
  <2> QED
    BY <1>4, <2>1, <2>2, <2>3, ShrinkImplements DEF mib_tree_delete, TreeInv
<1>5. CASE UNCHANGED vars
  BY <1>5 DEF vars, tree, call, Registry!vars, Instances, Groups, References, Returned,
     Instance, Going, Busy, Target, Decided, Inserting, is_raw_group, sub_id_cnt, IdLeft
<1> QED
  BY <1>1, <1>2, <1>3, <1>4, <1>5 DEF Next, TreeStep

\* The tree of groups, arrays and pointers behaves as a plain set of oids with
\* handlers, for every set of oids: mib_node_reg adds exactly one or fails for
\* an overlap, and mib_node_unreg removes one whole subtree with its handlers.
THEOREM TreeImplements == Spec => ImplementsRegistry
<1>1. Init => Registry!Init
  <2> SUFFICES ASSUME Init PROVE Registry!Init
    OBVIOUS
  <2>1. ~ Busy /\ ~ Decided /\ Root \in Path
    BY PathType DEF Init, Busy, Decided, Inserting
  <2>2. /\ Instances = {<<p, callback[p]>> : p \in {q \in Path : Instance(q)}}
        /\ Groups = {p \in Path : type[p] = "group"}
        /\ References = refs /\ Returned = ret
    BY <2>1, CalmRegistry DEF Returned, Init
  <2>3. {q \in Path : Instance(q)} = {} /\ {p \in Path : type[p] = "group"} = {Root}
    BY <2>1 DEF Init, Instance
  <2> QED
    BY <2>2, <2>3 DEF Registry!Init, Init, Root
<1>2. TreeInv /\ [Next]_vars => [Registry!Next]_Registry!vars
  BY NextImplements
<1> QED
  BY <1>1, <1>2, TreeInvariant, PTL DEF Spec, ImplementsRegistry, Registry!Spec
=============================================================================
