--------------------------- MODULE SnmpProcProofs ---------------------------
(***************************************************************************)
(* Requests are answered correctly whatever the mib, the view lists, the   *)
(* number of bindings and of repetitions: GET, GETNEXT, GETBULK and SET.   *)
(***************************************************************************)
EXTENDS SnmpProc, OidProofs

\* Most steps are first-order reasoning; those that are not cite SMT.
USE Zenon

\* The null pointer is not the oid of a view.
LEMMA NullIsNoOid == NULL \notin SmallOID
<1>1. -1 \notin SmallSubId
  BY HalfAssumption, SMT DEF SmallSubId
<1>2. NULL \in SmallOID => NULL[1] \in SmallSubId
  BY SMT DEF NULL, SmallOID
<1>3. NULL[1] = -1
  BY DEF NULL
<1> QED
  BY <1>1, <1>2, <1>3

\* mib_community_next_view and mib_user_next_view enumerate a sorted list.
LEMMA NextViewFacts ==
  ASSUME NEW vs \in Seq(SmallOID), Sorted(vs)
  PROVE  /\ vs = <<>> => next_view(vs, NULL) = NULL
         /\ vs # <<>> => 1 \in 1 .. Len(vs) /\ next_view(vs, NULL) = vs[1]
         /\ \A k \in 1 .. Len(vs) :
              next_view(vs, vs[k]) = IF k < Len(vs) THEN vs[k + 1] ELSE NULL
<1>1. Len(vs) \in Nat /\ \A k \in 1 .. Len(vs) : vs[k] \in SmallOID /\ vs[k] # NULL
  BY NullIsNoOid, SMT
<1>2. (vs = <<>> => next_view(vs, NULL) = NULL) /\ (vs # <<>> => next_view(vs, NULL) = vs[1])
  BY DEF next_view
<1>3. vs # <<>> => 1 \in 1 .. Len(vs)
  BY SMT
<1>4. ASSUME NEW k \in 1 .. Len(vs)
      PROVE  next_view(vs, vs[k]) = IF k < Len(vs) THEN vs[k + 1] ELSE NULL
  <2> DEFINE at_ == {i \in 1 .. (Len(vs) - 1) : vs[i] = vs[k]}
  <2>1. \A i \in 1 .. Len(vs) : vs[i] = vs[k] => i = k
    <3> SUFFICES ASSUME NEW i \in 1 .. Len(vs), vs[i] = vs[k], i # k PROVE FALSE
      OBVIOUS
    <3>1. OidLess(vs[k], vs[k])
      BY <1>1, SMT DEF Sorted
    <3> QED
      BY <1>1, <3>1, OidLessTotal
  <2>2. next_view(vs, vs[k]) =
          IF at_ = {} THEN NULL ELSE vs[1 + CHOOSE i \in at_ : \A j \in at_ : i <= j]
    BY <1>1 DEF next_view
  <2>3. CASE k < Len(vs)
    <3>1. at_ = {k}
      BY <1>1, <2>1, <2>3, SMT
    <3> HIDE DEF at_
    <3>2. (CHOOSE i \in at_ : \A j \in at_ : i <= j) = k
      BY <3>1, SMT
    <3>3. 1 + k = k + 1
      BY <1>1, SMT
    <3> QED
      BY <2>2, <2>3, <3>1, <3>2, <3>3
  <2>4. CASE ~ (k < Len(vs))
    <3>1. at_ = {}
      BY <1>1, <2>1, <2>4, SMT
    <3> HIDE DEF at_
    <3> QED
      BY <2>2, <2>4, <3>1
  <2> QED
    BY <2>3, <2>4
<1> QED
  BY <1>2, <1>3, <1>4

\* The view check is the prefix relation.
LEMMA ViewCover ==
  ASSUME NEW vs \in Seq(SmallOID), NEW o \in SmallOID
  PROVE  view_cover(vs, o) <=> \E k \in 1 .. Len(vs) : Covers(vs[k], o)
<1>1. \A k \in 1 .. Len(vs) : vs[k] \in OID
  BY SmallIsOid, SMT
<1> QED
  BY <1>1, SmallIsOid, CoverSign DEF view_cover

\* The closest variable of a non-empty set of variables is one of them.
LEMMA LeastVar ==
  ASSUME NEW S \in SUBSET Var, S # {}
  PROVE  Least(S) \in S /\ \A t \in S : Least(S) = t \/ OidLess(Least(S), t)
<1>1. S \in SUBSET SmallOID /\ IsFiniteSet(S)
  BY ProcAssumption, FinitePart
<1>2. \E s \in S : \A t \in S : s = t \/ OidLess(s, t)
  BY <1>1, LeastOid
<1> QED
  BY <1>2 DEF Least

\* The only element of a set that none of its elements precedes.
LEMMA LeastIs ==
  ASSUME NEW S \in SUBSET Var, NEW x \in S, \A t \in S : x = t \/ OidLess(x, t)
  PROVE  Least(S) = x
<1>1. Least(S) \in S /\ (Least(S) = x \/ OidLess(Least(S), x))
  BY LeastVar
<1>2. x \in SmallOID /\ Least(S) \in SmallOID
  BY <1>1, ProcAssumption
<1> QED
  BY <1>1, <1>2, OidLessTotal
-----------------------------------------------------------------------------
\* What mib_tree_search_next can reach from o in view v.
InReach(v, o, x) == x \in Var /\ Covers(v, x) /\ x # v /\ OidLess(o, x)

\* A variable in reach is among those asked for.
LEMMA ReachAsked ==
  ASSUME NEW v \in SmallOID, NEW o \in SmallOID, NEW x, InReach(v, o, x)
  PROVE  x \in Asked(Node, Var, v, o)
<1>1. x \in SmallOID
  BY ProcAssumption DEF InReach
<1>2. Covers(v, o) \/ OidLess(o, v)
  BY <1>1, AheadOrWithin DEF InReach
<1>3. OidLess(v, x)
  BY <1>1, CoversOrder DEF InReach
<1> QED
  BY <1>2, <1>3 DEF Asked, From, InReach

\* A variable asked for is beyond the oid and, if in the view, is not the view.
LEMMA AskedBeyond ==
  ASSUME NEW v \in SmallOID, NEW o \in SmallOID, NEW x \in Asked(Node, Var, v, o)
  PROVE  x \in Var /\ OidLess(o, x) /\ (Covers(v, x) => InReach(v, o, x))
<1>1. x \in Var /\ x \in SmallOID /\ OidLess(From(Node, v, o), x) /\ (Covers(v, o) \/ OidLess(o, v))
  BY ProcAssumption DEF Asked
<1>2. CASE OidLess(o, v) /\ \E p \in Node : Covers(p, v)
  <2>1. OidLess(v, x)
    BY <1>1, <1>2 DEF From
  <2>2. OidLess(o, x) /\ x # v
    BY <1>1, <1>2, <2>1, OidLessTransitive, OidLessTotal
  <2> QED
    BY <1>1, <2>2 DEF InReach
<1>3. CASE ~ (OidLess(o, v) /\ \E p \in Node : Covers(p, v))
  <2>1. OidLess(o, x)
    BY <1>1, <1>3 DEF From
  <2>2. ASSUME x = v PROVE FALSE
    <3>1. \E p \in Node : Covers(p, v)
      BY <1>1, <2>2, ProcAssumption
    <3>2. Covers(v, o)
      BY <1>1, <1>3, <3>1
    <3> QED
      BY <2>1, <2>2, <3>2, CoversOrder
  <2> QED
    BY <1>1, <2>1, <2>2 DEF InReach
<1> QED
  BY <1>2, <1>3

\* A variable asked for outside the view does not come before one in reach.
LEMMA ReachFirst ==
  ASSUME NEW v \in SmallOID, NEW o \in SmallOID, NEW x, InReach(v, o, x),
         NEW y \in Asked(Node, Var, v, o), OidLess(y, x)
  PROVE  Covers(v, y)
<1>1. x \in SmallOID /\ y \in SmallOID /\ Covers(v, x) /\ OidLess(From(Node, v, o), y)
      /\ (Covers(v, o) \/ OidLess(o, v))
  BY ProcAssumption DEF Asked, InReach
<1>2. Covers(v, y) \/ \E p \in Node : Covers(p, v)
  BY DEF Asked
<1>3. Covers(v, v)
  BY SmallFacts, SMT DEF Covers
<1>4. CASE OidLess(o, v) /\ \E p \in Node : Covers(p, v)
  <2>1. OidLess(v, y)
    BY <1>1, <1>4 DEF From
  <2> QED
    BY <1>1, <1>3, <2>1, CoversInterval
<1>5. CASE ~ OidLess(o, v)
  <2>1. OidLess(o, y) /\ Covers(v, o)
    BY <1>1, <1>5 DEF From
  <2> QED
    BY <1>1, <2>1, CoversInterval
<1> QED
  BY <1>2, <1>4, <1>5

\* The result of mib_tree_search_next: the closest variable in reach, or the end
\* of the view if there is none, or an error of a get function beyond the oid.
LEMMA SearchNextFacts ==
  ASSUME NEW v \in SmallOID, NEW o \in SmallOID, NEW r, r = SearchNext(Node, Var, GetFails, v, o)
  PROVE  /\ r \in [tag : {"VALUE", "END_OF_MIB_VIEW"}, oid : SmallOID, err : {0, GEN_ERR}]
         /\ r.err # 0 => r.tag = "VALUE" /\ \E x \in GetFails : OidLess(o, x)
         /\ r.tag = "END_OF_MIB_VIEW" => r.oid = o /\ r.err = 0 /\ \A x : ~ InReach(v, o, x)
         /\ r.tag = "VALUE" /\ r.err = 0 =>
              /\ InReach(v, o, r.oid)
              /\ \A x : InReach(v, o, x) => r.oid = x \/ OidLess(r.oid, x)
<1> DEFINE S == Asked(Node, Var, v, o)
           x == Least(S)
<1>0. GEN_ERR = 5 /\ S \in SUBSET Var /\ Var \subseteq SmallOID
  BY ProcAssumption DEF GEN_ERR, Asked
<1>1. ASSUME S # {}
      PROVE  /\ x \in S /\ x \in Var /\ x \in SmallOID /\ OidLess(o, x)
             /\ Covers(v, x) => InReach(v, o, x)
             /\ \A t \in S : x = t \/ OidLess(x, t)
  <2>1. x \in S /\ \A t \in S : x = t \/ OidLess(x, t)
    BY <1>0, <1>1, LeastVar
  <2> HIDE DEF x
  <2> QED
    BY <1>0, <2>1, AskedBeyond
<1>2. CASE S # {} /\ x \in GetFails
  <2>1. r = [tag |-> "VALUE", oid |-> Echo(Node, v, o, x), err |-> GEN_ERR]
    BY <1>2 DEF SearchNext
  <2>2. Echo(Node, v, o, x) \in SmallOID
    <3>1. \E p \in Node : Covers(p, x)
      BY <1>1, <1>2, ProcAssumption
    <3>2. (CHOOSE p \in Node : Covers(p, x)) \in Node
      <4> HIDE DEF x
      <4> QED
        BY <3>1
    <3> HIDE DEF x
    <3> QED
      BY <3>2, ProcAssumption DEF Echo
  <2> HIDE DEF x
  <2> QED
    BY <1>0, <1>1, <1>2, <2>1, <2>2, SMT
<1>3. CASE S # {} /\ x \notin GetFails /\ Covers(v, x)
  <2>1. r = [tag |-> "VALUE", oid |-> x, err |-> 0]
    BY <1>3 DEF SearchNext
  <2>2. ASSUME NEW y, InReach(v, o, y) PROVE x = y \/ OidLess(x, y)
    BY <1>1, <1>3, <2>2, ReachAsked
  <2> HIDE DEF x
  <2> QED
    BY <1>0, <1>1, <1>3, <2>1, <2>2, SMT
<1>4. CASE S = {} \/ (x \notin GetFails /\ ~ Covers(v, x))
  <2>1. r = [tag |-> "END_OF_MIB_VIEW", oid |-> o, err |-> 0]
    BY <1>4 DEF SearchNext
  <2>2. ASSUME NEW y, InReach(v, o, y) PROVE FALSE
    <3>1. y \in S
      BY <2>2, ReachAsked
    <3>2. x = y \/ OidLess(x, y)
      BY <1>1, <3>1
    <3>3. Covers(v, x)
      <4>1. x \in S
        BY <1>1, <3>1
      <4> HIDE DEF x
      <4> QED
        BY <2>2, <3>2, <4>1, ReachFirst DEF InReach
    <3> QED
      BY <1>4, <3>1, <3>3
  <2> HIDE DEF x
  <2> QED
    BY <1>0, <2>1, <2>2, SMT
<1> QED
  BY <1>2, <1>3, <1>4
-----------------------------------------------------------------------------
(***************************************************************************)
(* The inductive invariant.  Progress says how far the loops over the      *)
(* passes and over the bindings have got; ViewsInv what the views tried so *)
(* far have shown for the current binding; EmitInv what the loop over the  *)
(* views ends with; and the others what is true of the bindings answered.  *)
(***************************************************************************)
Processing == pc \in {"views", "emit"}
Done == IF Processing THEN at - 1 ELSE at
Passes == IF msg.type = "BULKGET" THEN msg.err_idx ELSE 1

Progress ==
  IF pc = "idle" THEN at = 0 /\ written = {}
  ELSE /\ msg \in Messages /\ msg.type \in Request
       /\ Len(vb_in) = Len(msg.vbs) /\ (msg.type # "BULKGET" => vb_in = msg.vbs)
       /\ repeat <= Passes
       /\ Processing => repeat > 0 /\ at > 0
       /\ repeat = 0 => at = 0
       /\ pc = "sent" => repeat = 0
       /\ vb_in_cnt = Len(vb_out) + (IF Processing THEN 1 ELSE 0)
       /\ Len(vb_out) = Len(msg.vbs) * (Passes - repeat) + Done

\* A view that has been tried without leaving the loop.
Passed(v) ==
  CASE Op = "GET" -> (Covers(v, vb.oid) /\ vb.oid \in Var => vb.oid \in GetFails)
    [] Op = "GETNEXT" -> \A x \in Var : ~ InReach(v, vb.oid, x)
    [] OTHER -> TRUE

\* What the last view tried has left in ret_oid.
Left ==
  CASE Op = "GET" -> /\ ret.err # 0 => ret.err = GEN_ERR /\ vb.oid \in GetFails
                     /\ ret.tag = "VALUE" => vb.oid \in GetFails
    [] Op = "GETNEXT" -> ret.tag = "END_OF_MIB_VIEW" /\ ret.err = 0
    [] OTHER -> ret.err # 0 \/ ret.tag \in Invalid

ViewsInv ==
  pc = "views" =>
    /\ view # NULL => /\ \E k \in 1 .. Len(List) : view = List[k] /\ \A j \in 1 .. k : Passed(List[j])
                      /\ Left
    /\ view = NULL => ret.tag = vb.tag
    /\ \A w \in written : w[1] < vb_in_cnt

Denied == ret.err = NO_ACCESS /\ ret.tag = vb.tag

EmitInv ==
  pc = "emit" =>
    CASE Op = "GET" ->
           /\ ret.oid = vb.oid
           /\ vb.oid \notin GetFails => (ret.tag = "VALUE" <=> vb.oid \in Var /\ Readable(vb.oid))
           /\ msg.known /\ ret.err # 0 => ret.err = GEN_ERR /\ vb.oid \in GetFails
           /\ ~ msg.known => Denied
      [] Op = "GETNEXT" ->
           /\ msg.known /\ ret.err = 0 => [oid |-> ret.oid, tag |-> ret.tag] = NextOf(vb.oid)
           /\ msg.known /\ ret.err # 0 => ret.err = GEN_ERR /\ \E x \in GetFails : OidLess(vb.oid, x)
           /\ ~ msg.known => Denied /\ ret.oid = vb.oid
      [] OTHER -> Outcome = 0 <=> <<vb_in_cnt, vb.oid>> \in written

AccessInv == Processing => (found <=> Permitted(vb)) /\ (~ found => ret.err = NO_ACCESS)

GetInv ==
  pc # "idle" /\ msg.type = "GET" =>
    \A i \in 1 .. Len(vb_out) :
      LET o == msg.vbs[i].oid
      IN  /\ vb_out[i].oid = o
          /\ o \notin GetFails => (vb_out[i].tag = "VALUE" <=> o \in Var /\ Readable(o))

CauseInv ==
  pc # "idle" /\ msg.type \in {"GET", "GETNEXT"} /\ Clean =>
    IF msg.known
    THEN hdr.err_idx # 0 =>
           /\ hdr.err_idx \in 1 .. Len(vb_out) /\ hdr.err_stat = GEN_ERR
           /\ LET o == msg.vbs[hdr.err_idx].oid
              IN  IF msg.type = "GET" THEN o \in GetFails ELSE \E x \in GetFails : OidLess(o, x)
    ELSE /\ \A i \in 1 .. Len(vb_out) : vb_out[i] = msg.vbs[i]
         /\ IF vb_out = <<>> THEN hdr.err_stat = 0 /\ hdr.err_idx = 0
            ELSE hdr.err_stat = NO_ACCESS /\ hdr.err_idx = 1

WriteInv ==
  \A w \in written : /\ w[1] \in 1 .. vb_in_cnt
                     /\ msg.type = "SET" /\ Writable(w[2]) /\ w[2] \in Var \ SetFails

Missing == {i \in 1 .. Len(vb_out) : <<i, msg.vbs[i].oid>> \notin written}

SetInv ==
  pc # "idle" /\ msg.type = "SET" /\ Clean =>
    IF Missing = {} THEN hdr.err_stat = 0
    ELSE hdr.err_stat # 0 /\ hdr.err_idx \in Missing /\ \A i \in Missing : hdr.err_idx <= i

\* The oid from which the search for the i-th binding of the response starts.
Query(i) == IF i <= Len(msg.vbs) THEN msg.vbs[i].oid ELSE vb_out[i - Len(msg.vbs)].oid

Base == Len(vb_out) - Done

\* vb_in has the oids at which the next searches start.
QueryInv ==
  pc # "idle" /\ Op = "GETNEXT" /\ repeat > 0 =>
    \A j \in 1 .. Len(msg.vbs) :
      /\ j > Done => vb_in[j].oid = Query(Base + j)
      /\ j <= Done /\ msg.type = "BULKGET" => vb_in[j].oid = vb_out[Base + j].oid

NextInv ==
  pc # "idle" /\ Op = "GETNEXT" /\ msg.known /\ hdr.err_stat = 0 =>
    \A i \in 1 .. Len(vb_out) : vb_out[i] = NextOf(Query(i))

Invs == AccessInv /\ ViewsInv /\ EmitInv /\ GetInv /\ CauseInv /\ WriteInv /\ SetInv /\ QueryInv /\ NextInv

ProcInv == TypeOK /\ Progress /\ Invs
-----------------------------------------------------------------------------
\* What is known of a message.
LEMMA MessageFacts ==
  ASSUME NEW m \in Messages
  PROVE  /\ m.version \in Version /\ m.known \in BOOLEAN /\ m.err_stat \in Nat /\ m.err_idx \in Nat
         /\ m.vbs \in Seq(Binding) /\ Len(m.vbs) \in Nat
         /\ \A i \in 1 .. Len(m.vbs) :
              m.vbs[i] \in Binding /\ m.vbs[i].oid \in SmallOID /\ m.vbs[i].tag # "VALUE"
<1> DEFINE R == [oid : SmallOID, tag : ValueTag \cup Invalid]
<1>1. m.vbs \in Seq(R)
  BY MessageAssumption
<1>2. R \subseteq Binding /\ \A b \in R : b.oid \in SmallOID /\ b.tag # "VALUE"
  BY DEF Binding, ValueTag, Invalid
<1> HIDE DEF R
<1>3. m.vbs \in Seq(Binding) /\ Len(m.vbs) \in Nat /\ \A i \in 1 .. Len(m.vbs) : m.vbs[i] \in R
  BY <1>1, <1>2, SeqWiden, SMT
<1> QED
  BY <1>2, <1>3, MessageAssumption

\* The four requests and the three searches.
LEMMA OpFacts ==
  ASSUME msg.type \in Request
  PROVE  /\ Op \in {"GET", "GETNEXT", "SET"}
         /\ Op = "GET" <=> msg.type = "GET"
         /\ Op = "SET" <=> msg.type = "SET"
         /\ Op = "GETNEXT" <=> msg.type \in {"GETNEXT", "BULKGET"}
BY DEF Op, Request

\* Before the first datagram nothing has been done.
LEMMA InitInv == Init => ProcInv
<1> SUFFICES ASSUME Init PROVE ProcInv
  OBVIOUS
<1>1. TypeOK
  <2>1. ret \in [tag : ValueTag \cup Invalid \cup {"VALUE"}, oid : SmallOID, err : Nat]
    BY SMT DEF Init, Cleared, ValueTag, SmallOID
  <2>2. /\ hdr \in [type : {"NONE", "RESP", "REPO", "TRAP"}, err_stat : Nat, err_idx : Nat]
        /\ at \in 0 .. Len(vb_in) /\ vb_in \in Seq(Binding) /\ vb_out \in Seq(Binding)
    BY SMT DEF Init
  <2>3. found \in BOOLEAN /\ view \in SmallOID \cup {NULL} /\ written \subseteq (Nat \X Var)
    BY DEF Init
  <2> QED
    BY <2>1, <2>2, <2>3 DEF Init, TypeOK
<1>2. Progress
  BY DEF Init, Progress
<1>3. Invs
  BY DEF Init, Invs, AccessInv, Processing, ViewsInv, EmitInv, GetInv, CauseInv, WriteInv, SetInv,
         QueryInv, NextInv
<1> QED
  BY <1>1, <1>2, <1>3 DEF ProcInv

\* Between requests the invariant says little.
LEMMA IdleInvs ==
  ASSUME pc' = "idle", written' = {}
  PROVE  Invs'
BY DEF Invs, AccessInv, Processing, ViewsInv, EmitInv, GetInv, CauseInv, WriteInv, SetInv,
       QueryInv, NextInv

\* snmpd_recv: the request starts with an empty response and a cleared result.
LEMMA RecvStep ==
  ASSUME ProcInv, NEW m \in Messages, snmpd_recv(m)
  PROVE  ProcInv'
<1>0. /\ msg' = m /\ vb_in' = m.vbs /\ vb_out' = <<>> /\ at' = 0 /\ vb_in_cnt' = 0
      /\ pc' = (IF m.type \in Request THEN "list" ELSE "idle")
      /\ repeat' = (IF m.type = "BULKGET" THEN m.err_idx ELSE 1)
      /\ ret' = Cleared /\ written' = {} /\ UNCHANGED <<views, found, view>>
  BY DEF snmpd_recv
<1>1. hdr' = [type |-> IF m.type \notin Request THEN m.type ELSE IF m.vbs = <<>> THEN "REPO" ELSE "RESP",
              err_stat |-> m.err_stat, err_idx |-> IF m.type = "BULKGET" THEN 0 ELSE m.err_idx]
  BY DEF snmpd_recv
<1>2. TypeOK'
  <2>1. hdr' \in [type : {"NONE", "RESP", "REPO", "TRAP"}, err_stat : Nat, err_idx : Nat]
    BY <1>1, MessageAssumption
  <2>2. ret' \in [tag : ValueTag \cup Invalid \cup {"VALUE"}, oid : SmallOID, err : Nat]
    BY <1>0, SMT DEF Cleared, ValueTag, SmallOID
  <2>3. repeat' \in Nat /\ at' \in 0 .. Len(vb_in') /\ vb_in' \in Seq(Binding) /\ vb_out' \in Seq(Binding)
    BY <1>0, MessageFacts, SMT
  <2> QED
    BY <1>0, <2>1, <2>2, <2>3 DEF ProcInv, TypeOK
<1>3. Progress'
  <2>1. CASE m.type \notin Request
    BY <1>0, <2>1 DEF Progress
  <2>2. CASE m.type \in Request
    <3>1. repeat' = Passes' /\ repeat' \in Nat /\ Len(m.vbs) \in Nat
      BY <1>0, MessageFacts DEF Passes
    <3>2. Len(m.vbs) * (Passes' - repeat') = 0
      BY <3>1, SMT
    <3>3. Done' = 0 /\ ~ Processing' /\ pc' = "list" /\ Len(vb_out') = 0
      BY <1>0, <2>2 DEF Done, Processing
    <3> QED
      BY <1>0, <2>2, <3>1, <3>2, <3>3, SMT DEF Progress
  <2> QED
    BY <2>1, <2>2
<1>4. Invs'
  <2>1. CASE m.type \notin Request
    BY <1>0, <2>1, IdleInvs
  <2>2. CASE m.type \in Request
    <3>1. pc' = "list" /\ Len(vb_out') = 0 /\ ~ Processing' /\ Done' = 0
      BY <1>0, <2>2 DEF Done, Processing
    <3>2. AccessInv' /\ ViewsInv' /\ EmitInv' /\ GetInv' /\ NextInv' /\ WriteInv'
      BY <1>0, <3>1, SMT DEF AccessInv, ViewsInv, EmitInv, GetInv, NextInv, WriteInv
    <3>3. CauseInv'
      BY <1>0, <1>1, <3>1, SMT DEF CauseInv, Clean
    <3>4. SetInv'
      BY <1>0, <1>1, <3>1, SMT DEF SetInv, Clean, Missing
    <3>5. QueryInv'
      <4>1. Base' = 0
        BY <3>1, SMT DEF Base
      <4> QED
        BY <1>0, <3>1, <4>1, MessageFacts, SMT DEF QueryInv, Query
    <3> QED
      BY <3>2, <3>3, <3>4, <3>5 DEF Invs
  <2> QED
    BY <2>1, <2>2
<1> QED
  BY <1>2, <1>3, <1>4 DEF ProcInv

\* A datagram that cannot be decoded, and the end of a request.
LEMMA ClearStep ==
  ASSUME ProcInv, snmp_decode_fails \/ Taken
  PROVE  ProcInv'
<1>0. /\ pc' = "idle" /\ msg' = NoMessage /\ at' = 0 /\ written' = {} /\ views' = views
      /\ hdr' = [type |-> "NONE", err_stat |-> 0, err_idx |-> 0] /\ vb_in' = <<>> /\ vb_out' = <<>>
  BY DEF ProcInv, Progress, snmp_decode_fails, Taken
<1>1. TypeOK'
  <2>1. repeat' \in Nat /\ vb_in_cnt' \in Nat /\ view' \in SmallOID \cup {NULL}
    BY SMT DEF ProcInv, TypeOK, snmp_decode_fails, Taken
  <2>3. found' \in BOOLEAN
    <3>1. found' = found \/ found' = FALSE
      BY DEF snmp_decode_fails, Taken
    <3> QED
      BY <3>1 DEF ProcInv, TypeOK
  <2>2. ret' \in [tag : ValueTag \cup Invalid \cup {"VALUE"}, oid : SmallOID, err : Nat]
    <3>1. Cleared \in [tag : ValueTag \cup Invalid \cup {"VALUE"}, oid : SmallOID, err : Nat]
      BY SMT DEF Cleared, ValueTag, SmallOID
    <3> QED
      BY <3>1 DEF ProcInv, TypeOK, snmp_decode_fails, Taken
  <2> QED
    BY <1>0, <2>1, <2>2, <2>3, SMT DEF ProcInv, TypeOK
<1> QED
  BY <1>0, <1>1, IdleInvs DEF ProcInv, Progress
-----------------------------------------------------------------------------
\* Types of the request and of its bindings.
LEMMA RequestFacts ==
  ASSUME TypeOK, Progress, pc # "idle"
  PROVE  /\ msg \in Messages /\ msg.type \in Request
         /\ msg.version \in Version /\ msg.known \in BOOLEAN
         /\ Len(msg.vbs) \in Nat /\ Len(vb_in) = Len(msg.vbs)
         /\ Len(vb_out) \in Nat /\ vb_out \in Seq(Binding)
         /\ \A j \in 1 .. Len(msg.vbs) :
              /\ vb_in[j] \in Binding /\ vb_in[j].oid \in SmallOID
              /\ msg.vbs[j] \in Binding /\ msg.vbs[j].oid \in SmallOID /\ msg.vbs[j].tag # "VALUE"
         /\ views[msg.version].READ \in Seq(SmallOID) /\ views[msg.version].WRITE \in Seq(SmallOID)
         /\ Sorted(views[msg.version].READ) /\ Sorted(views[msg.version].WRITE)
         /\ views[msg.version].READ # <<>>
         /\ Passes \in Nat /\ repeat \in Nat /\ Done \in 0 .. Len(msg.vbs)
         /\ Base = Len(msg.vbs) * (Passes - repeat) /\ Base \in Nat /\ Len(vb_out) = Base + Done
         /\ msg.type # "BULKGET" => Passes = 1
<1>1. msg \in Messages /\ msg.type \in Request /\ Len(vb_in) = Len(msg.vbs)
  BY DEF Progress
<1>2. \A j \in 1 .. Len(vb_in) : vb_in[j] \in Binding /\ vb_in[j].oid \in SmallOID
  <2>1. \A j \in 1 .. Len(vb_in) : vb_in[j] \in Binding
    BY SMT DEF TypeOK
  <2>2. \A b \in Binding : b.oid \in SmallOID
    BY DEF Binding
  <2> QED
    BY <2>1, <2>2
<1>3. views[msg.version] \in ViewLists
  BY <1>1, MessageFacts DEF TypeOK
<1>4. Passes \in Nat /\ repeat \in Nat /\ repeat <= Passes /\ Len(vb_out) \in Nat /\ vb_out \in Seq(Binding)
  BY <1>1, MessageFacts, SMT DEF Passes, TypeOK, Progress
<1>5. Done \in 0 .. Len(msg.vbs)
  <2>1. at \in 0 .. Len(msg.vbs) /\ (Processing => at > 0) /\ Len(msg.vbs) \in Nat
    BY <1>1, MessageFacts DEF TypeOK, Progress
  <2> QED
    BY <2>1, SMT DEF Done
<1>6. Len(msg.vbs) * (Passes - repeat) \in Nat
  <2>1. \A a, b \in Nat : a * b \in Nat
    BY SMT
  <2>2. Len(msg.vbs) \in Nat /\ Passes - repeat \in Nat
    BY <1>1, <1>4, MessageFacts, SMT
  <2> QED
    BY <2>1, <2>2
<1>7. Base = Len(msg.vbs) * (Passes - repeat) /\ Len(vb_out) = Base + Done
  <2>1. Len(vb_out) = Len(msg.vbs) * (Passes - repeat) + Done
    BY DEF Progress
  <2> QED
    BY <1>4, <1>5, <1>6, <2>1, SMT DEF Base
<1>8. msg.type # "BULKGET" => Passes = 1
  BY DEF Passes
<1>9. /\ views[msg.version].READ \in Seq(SmallOID) /\ views[msg.version].WRITE \in Seq(SmallOID)
      /\ Sorted(views[msg.version].READ) /\ Sorted(views[msg.version].WRITE)
      /\ views[msg.version].READ # <<>>
  BY <1>3, ProcAssumption
<1> QED
  BY <1>1, <1>2, <1>4, <1>5, <1>6, <1>7, <1>8, <1>9, MessageFacts

\* What the answers are compared with depends on the request only.
LEMMA SameAnswers ==
  ASSUME UNCHANGED req
  PROVE  /\ \A o : (Readable(o)' <=> Readable(o)) /\ (Writable(o)' <=> Writable(o))
         /\ \A o : NextOf(o)' = NextOf(o)
         /\ Op' = Op /\ Access' = Access /\ (Clean' <=> Clean) /\ Passes' = Passes
<1>1. views' = views /\ msg' = msg
  BY DEF req
<1>2. \A o : Readable(o)' <=> Readable(o)
  BY <1>1 DEF Readable
<1>3. \A o : Reachable(o)' = Reachable(o)
  BY <1>1 DEF Reachable, Readable
<1>4. \A o : NextOf(o)' = NextOf(o)
  BY <1>3 DEF NextOf
<1>5. \A o : Writable(o)' <=> Writable(o)
  BY <1>1 DEF Writable
<1>6. Op' = Op /\ Access' = Access /\ (Clean' <=> Clean) /\ Passes' = Passes
  BY <1>1 DEF Op, Access, Clean, Passes
<1> QED
  BY <1>2, <1>4, <1>5, <1>6

\* The results so far, while no binding is added.
Results == GetInv /\ CauseInv /\ WriteInv /\ SetInv /\ NextInv

\* They are not affected by what is done for the next binding.
LEMMA ResultsKept ==
  ASSUME Results, TypeOK, UNCHANGED <<req, hdr, vb_out, written>>, pc # "idle",
         vb_in_cnt' \in Nat, vb_in_cnt' >= vb_in_cnt
  PROVE  Results'
<1>1. UNCHANGED req /\ msg' = msg
  BY DEF req
<1>2. GetInv'
  BY <1>1, SameAnswers DEF Results, GetInv
<1>3. CauseInv'
  BY <1>1, SameAnswers DEF Results, CauseInv
<1>4. WriteInv'
  BY <1>1, SameAnswers, SMT DEF Results, WriteInv, TypeOK
<1>5. SetInv'
  BY <1>1, SameAnswers DEF Results, SetInv, Missing
<1>6. NextInv'
  <2>1. \A i : Query(i)' = Query(i)
    BY <1>1 DEF Query
  <2> QED
    BY <1>1, <2>1, SameAnswers DEF Results, NextInv
<1> QED
  BY <1>2, <1>3, <1>4, <1>5, <1>6 DEF Results

\* snmp_response hands the answer to the transport.
LEMMA ResponseStep ==
  ASSUME ProcInv, snmp_response
  PROVE  ProcInv'
<1>0. /\ pc = "list" /\ pc' = "sent" /\ repeat = 0
      /\ UNCHANGED <<req, hdr, vb_in, vb_out, repeat, at, vb_in_cnt, ret, found, view, written>>
      /\ msg' = msg /\ views' = views
  BY DEF snmp_response, req
<1>1. TypeOK'
  BY <1>0 DEF ProcInv, TypeOK
<1>2. Progress'
  BY <1>0 DEF ProcInv, Progress, Processing, Done, Passes
<1>3. Results'
  <2>1. vb_in_cnt' \in Nat /\ vb_in_cnt' >= vb_in_cnt
    BY <1>0, SMT DEF ProcInv, TypeOK
  <2> QED
    BY <1>0, <2>1, ResultsKept DEF ProcInv, Invs, Results
<1>4. AccessInv' /\ ViewsInv' /\ EmitInv' /\ QueryInv'
  BY <1>0, SMT DEF AccessInv, Processing, ViewsInv, EmitInv, QueryInv
<1> QED
  BY <1>1, <1>2, <1>3, <1>4 DEF ProcInv, Invs, Results

\* The end of a pass over the bindings: GETBULK goes on with the oids it got to.
LEMMA EndOfListStep ==
  ASSUME ProcInv, EndOfList
  PROVE  ProcInv'
<1>0. /\ pc = "list" /\ pc' = "list" /\ repeat > 0 /\ at = Len(vb_in) /\ at' = 0 /\ repeat' = repeat - 1
      /\ UNCHANGED <<req, hdr, vb_in, vb_out, vb_in_cnt, ret, found, view, written>>
      /\ msg' = msg /\ views' = views
  BY DEF EndOfList, req
<1> DEFINE n == Len(msg.vbs)
<1>a. /\ n \in Nat /\ Len(vb_in) = n /\ Passes \in Nat /\ repeat \in Nat /\ Len(vb_out) \in Nat
      /\ Base = n * (Passes - repeat) /\ Base \in Nat /\ Len(vb_out) = Base + Done
      /\ Done = n /\ Done' = 0 /\ Passes' = Passes /\ Base' = Len(vb_out)
      /\ msg.type # "BULKGET" => Passes = 1
  BY <1>0, RequestFacts, SMT DEF ProcInv, Done, Processing, Passes, Base
<1> HIDE DEF n
<1>1. TypeOK'
  <2>1. repeat' \in Nat /\ at' \in 0 .. Len(vb_in')
    BY <1>0, <1>a, SMT
  <2> QED
    BY <1>0, <2>1 DEF ProcInv, TypeOK
<1>2. Progress'
  <2>1. n * (Passes - (repeat - 1)) = n * (Passes - repeat) + n
    BY <1>a, SMT
  <2>2. Len(vb_out) = n * (Passes - repeat') + 0
    BY <1>0, <1>a, <2>1, SMT
  <2>3. repeat' <= Passes
    BY <1>0, <1>a, SMT DEF ProcInv, Progress
  <2> QED
    BY <1>0, <1>a, <2>2, <2>3 DEF ProcInv, Progress, Processing, n
<1>3. Results'
  <2>1. vb_in_cnt' \in Nat /\ vb_in_cnt' >= vb_in_cnt
    BY <1>0, SMT DEF ProcInv, TypeOK
  <2> QED
    BY <1>0, <2>1, ResultsKept DEF ProcInv, Invs, Results
<1>4. AccessInv' /\ ViewsInv' /\ EmitInv'
  BY <1>0 DEF AccessInv, Processing, ViewsInv, EmitInv
<1>5. QueryInv'
  <2>1. ASSUME Op' = "GETNEXT", repeat' > 0 PROVE msg.type = "BULKGET" /\ Op = "GETNEXT"
    <3>1. repeat <= Passes
      BY <1>0 DEF ProcInv, Progress
    <3> QED
      BY <1>0, <1>a, <2>1, <3>1, SMT DEF Op
  <2>2. ASSUME Op' = "GETNEXT", repeat' > 0, NEW j \in 1 .. n
        PROVE  vb_in'[j].oid = Query(Base + j)'
    <3>1. vb_in[j].oid = vb_out[Base + j].oid
      <4>1. j <= Done
        BY <1>a, SMT
      <4> QED
        BY <1>0, <2>1, <2>2, <4>1 DEF ProcInv, Invs, QueryInv, n
    <3>2. PICK i \in Nat : i = Base' + j /\ ~ (i <= n) /\ i - n = Base + j
      BY <1>a, SMT
    <3>3. Query(Base + j)' = vb_out'[i - n].oid
      <4>1. Len(msg'.vbs) = n
        BY <1>0 DEF n
      <4> QED
        BY <3>2, <4>1 DEF Query
    <3> QED
      BY <1>0, <3>1, <3>2, <3>3
  <2>3. \A j \in 1 .. n : ~ (j <= Done')
    BY <1>a, SMT
  <2> QED
    BY <1>0, <2>2, <2>3 DEF QueryInv, n
<1> QED
  BY <1>1, <1>2, <1>3, <1>4, <1>5 DEF ProcInv, Invs, Results

\* The next binding: its type is put in the result and access is checked.
LEMMA VarbindStep ==
  ASSUME ProcInv, NextVarbind
  PROVE  ProcInv'
<1>0. /\ pc = "list" /\ pc' = "views" /\ repeat > 0 /\ at < Len(vb_in) /\ at' = at + 1
      /\ vb_in_cnt' = vb_in_cnt + 1 /\ view' = NULL
      /\ UNCHANGED <<req, hdr, vb_in, vb_out, repeat, written>> /\ UNCHANGED req
      /\ msg' = msg /\ views' = views
  BY DEF NextVarbind, req
<1> DEFINE b == vb_in[at + 1]
<1>1. /\ found' = Permitted(b)
      /\ ret' = [ret EXCEPT !.tag = b.tag, !.err = IF Permitted(b) THEN @ ELSE NO_ACCESS]
  BY DEF NextVarbind
<1>2. /\ at \in Nat /\ vb_in_cnt \in Nat /\ Len(vb_in) \in Nat /\ at + 1 \in 1 .. Len(vb_in)
      /\ Len(vb_out) \in Nat /\ vb_in_cnt = Len(vb_out)
  BY <1>0, SMT DEF ProcInv, TypeOK, Progress, Processing
<1>3. b \in Binding /\ b.tag \in ValueTag \cup Invalid \cup {"VALUE"}
  <2>1. b \in Binding
    BY <1>2, SMT DEF ProcInv, TypeOK
  <2> HIDE DEF b
  <2> QED
    BY <2>1 DEF Binding
<1>4. vb' = b /\ Processing' /\ ~ Processing /\ Done' = Done /\ Base' = Base
  BY <1>0, <1>2, SMT DEF vb, Processing, Done, Base
<1> HIDE DEF b
<1>5. ret' \in [tag : ValueTag \cup Invalid \cup {"VALUE"}, oid : SmallOID, err : Nat] /\ ret'.tag = b.tag
      /\ (~ Permitted(b) => ret'.err = NO_ACCESS)
  BY <1>1, <1>3 DEF ProcInv, TypeOK, NO_ACCESS
<1>6. TypeOK'
  <2>1. found' \in BOOLEAN
    BY <1>1 DEF Permitted
  <2>2. at' \in 0 .. Len(vb_in') /\ vb_in_cnt' \in Nat
    BY <1>0, <1>2, SMT
  <2> QED
    BY <1>0, <1>5, <2>1, <2>2 DEF ProcInv, TypeOK
<1>7. Progress'
  BY <1>0, <1>2, <1>4, SameAnswers, SMT DEF ProcInv, Progress
<1>8. Results'
  <2>1. vb_in_cnt' \in Nat /\ vb_in_cnt' >= vb_in_cnt
    BY <1>0, <1>2, SMT
  <2> QED
    BY <1>0, <2>1, ResultsKept DEF ProcInv, Invs, Results
<1>9. AccessInv'
  <2>1. Permitted(vb)' <=> Permitted(b)
    BY <1>0, <1>4, SameAnswers DEF Permitted
  <2> QED
    BY <1>1, <1>5, <2>1 DEF AccessInv
<1>10. ViewsInv'
  <2>1. ASSUME NEW w \in written PROVE w[1] < vb_in_cnt + 1
    <3>1. w[1] \in 1 .. vb_in_cnt
      BY DEF ProcInv, Invs, WriteInv
    <3> QED
      BY <1>2, <3>1, SMT
  <2> QED
    BY <1>0, <1>4, <1>5, <2>1 DEF ViewsInv
<1>11. EmitInv'
  BY <1>0 DEF EmitInv
<1>12. QueryInv'
  <2>1. ASSUME NEW j PROVE Query(Base + j)' = Query(Base + j)
    BY <1>0, <1>4 DEF Query
  <2> QED
    BY <1>0, <1>4, <2>1, SameAnswers DEF ProcInv, Invs, QueryInv
<1> QED
  BY <1>6, <1>7, <1>8, <1>9, <1>10, <1>11, <1>12 DEF ProcInv, Invs, Results

\* The binding processed, and the views that are tried for it: the views for
\* reading of a known principal, or for SET those for writing if they cover it.
LEMMA ListFacts ==
  ASSUME ProcInv, Processing
  PROVE  /\ vb \in Binding /\ vb.oid \in SmallOID
         /\ vb.tag \in ValueTag \cup Invalid \cup {"VALUE"}
         /\ at \in 1 .. Len(msg.vbs) /\ msg.type \in Request
         /\ List \in Seq(SmallOID) /\ Sorted(List) /\ (found => List # <<>>) /\ (~ found => List = <<>>)
         /\ ~ found => ret.err = NO_ACCESS
         /\ Op # "SET" => (found <=> msg.known)
         /\ Op # "SET" /\ found => List = views[msg.version].READ
         /\ Op # "SET" => \A o \in SmallOID : Readable(o) <=> \E k \in 1 .. Len(List) : Covers(List[k], o)
         /\ Op = "SET" /\ found => Writable(vb.oid)
<1>0. pc # "idle" /\ TypeOK /\ Progress /\ AccessInv
  BY DEF ProcInv, Processing, Invs
<1> DEFINE R == views[msg.version].READ
           W == views[msg.version].WRITE
<1>1. /\ R \in Seq(SmallOID) /\ W \in Seq(SmallOID) /\ Sorted(R) /\ Sorted(W) /\ R # <<>>
      /\ msg.type \in Request /\ Len(msg.vbs) \in Nat /\ msg.known \in BOOLEAN
  BY <1>0, RequestFacts
<1>2. at \in 1 .. Len(msg.vbs) /\ vb \in Binding /\ vb.oid \in SmallOID
  <2>1. at \in 1 .. Len(msg.vbs)
    BY <1>0, <1>1, SMT DEF TypeOK, Progress
  <2> QED
    BY <1>0, <2>1, RequestFacts DEF vb
<1>3. vb.tag \in ValueTag \cup Invalid \cup {"VALUE"}
  BY <1>2 DEF Binding
<1>4. <<>> \in Seq(SmallOID) /\ Sorted(<<>>)
  BY SMT DEF Sorted
<1>5. (~ found => ret.err = NO_ACCESS /\ List = <<>>) /\ (found <=> Permitted(vb))
  BY <1>0 DEF AccessInv, List
<1>6. CASE Op = "SET"
  <2>1. Access = "WRITE" /\ views[msg.version][Access] = W
    BY <1>6 DEF Access
  <2>2. found => List = W /\ msg.known /\ view_cover(W, vb.oid)
    BY <1>5, <1>6, <2>1 DEF Permitted, List
  <2>3. view_cover(W, vb.oid) => W # <<>>
    BY SMT DEF view_cover
  <2> HIDE DEF R, W
  <2>4. found => Writable(vb.oid)
    BY <2>2 DEF Writable, W
  <2> QED
    BY <1>1, <1>2, <1>3, <1>4, <1>5, <1>6, <2>2, <2>3, <2>4
<1>7. CASE Op # "SET"
  <2>1. Access = "READ" /\ views[msg.version][Access] = R
    BY <1>7 DEF Access
  <2>2. (found <=> msg.known) /\ (found => List = R)
    BY <1>5, <1>7, <2>1 DEF Permitted, List
  <2>3. ASSUME NEW o \in SmallOID
        PROVE  Readable(o) <=> \E k \in 1 .. Len(List) : Covers(List[k], o)
    <3>1. view_cover(R, o) <=> \E k \in 1 .. Len(R) : Covers(R[k], o)
      BY <1>1, ViewCover
    <3>2. CASE found
      BY <2>2, <3>1, <3>2 DEF Readable
    <3>3. CASE ~ found
      <4>1. Len(List) = 0
        BY <1>5, <3>3, SMT
      <4> QED
        BY <2>2, <3>3, <4>1, SMT DEF Readable
    <3> QED
      BY <3>2, <3>3
  <2> HIDE DEF W
  <2> QED
    BY <1>1, <1>2, <1>3, <1>4, <1>5, <1>7, <2>2, <2>3
<1> QED
  BY <1>6, <1>7

\* What the loop over the views leaves alone.
LEMMA ViewsFrame ==
  ASSUME ProcInv, pc = "views", pc' \in {"views", "emit"},
         UNCHANGED <<req, hdr, vb_in, vb_out, repeat, at, vb_in_cnt, found>>
  PROVE  /\ vb' = vb /\ List' = List /\ Op' = Op /\ msg' = msg /\ UNCHANGED req
         /\ \A v : Passed(v)' <=> Passed(v)
         /\ Progress' /\ QueryInv' /\ GetInv' /\ CauseInv' /\ NextInv'
         /\ found => AccessInv'
         /\ vb_in_cnt \in Nat /\ Len(vb_out) \in Nat /\ vb_in_cnt = Len(vb_out) + 1
<1>0. UNCHANGED req /\ msg' = msg /\ views' = views /\ pc # "idle" /\ pc' # "idle" /\ Processing /\ Processing'
  BY DEF req, Processing
<1>1. vb' = vb /\ Op' = Op /\ Access' = Access /\ List' = List
  <2>1. vb' = vb /\ Op' = Op /\ Access' = Access
    BY <1>0, SameAnswers DEF vb
  <2> QED
    BY <1>0, <2>1 DEF List
<1>2. ASSUME NEW v PROVE Passed(v)' <=> Passed(v)
  BY <1>1 DEF Passed
<1>3. Done' = Done /\ Base' = Base
  BY <1>0 DEF Done, Base
<1>4. Progress'
  BY <1>0, <1>3, SameAnswers DEF ProcInv, Progress
<1>5. QueryInv'
  <2>1. ASSUME NEW j PROVE Query(Base + j)' = Query(Base + j)
    BY <1>0, <1>3 DEF Query
  <2> QED
    BY <1>0, <1>1, <1>3, <2>1 DEF ProcInv, Invs, QueryInv
<1>6. GetInv'
  BY <1>0, SameAnswers DEF ProcInv, Invs, GetInv
<1>7. CauseInv'
  BY <1>0, SameAnswers DEF ProcInv, Invs, CauseInv
<1>8. NextInv'
  <2>1. \A i : Query(i)' = Query(i)
    BY <1>0 DEF Query
  <2> QED
    BY <1>0, <2>1, SameAnswers DEF ProcInv, Invs, NextInv
<1>9. ASSUME found PROVE AccessInv'
  <2>1. Permitted(vb)' <=> Permitted(vb)
    BY <1>0, <1>1 DEF Permitted
  <2> QED
    BY <1>0, <1>9, <2>1 DEF ProcInv, Invs, AccessInv
<1>10. vb_in_cnt \in Nat /\ Len(vb_out) \in Nat /\ vb_in_cnt = Len(vb_out) + 1
  BY <1>0, SMT DEF ProcInv, TypeOK, Progress
<1> QED
  BY <1>0, <1>1, <1>2, <1>4, <1>5, <1>6, <1>7, <1>8, <1>9, <1>10

\* The loop takes the views in the order of the list: those before the next one
\* have been tried.
LEMMA ViewsInOrder ==
  ASSUME ProcInv, pc = "views"
  PROVE  /\ next_view(List, view) # NULL =>
              /\ found
              /\ \E k \in 1 .. Len(List) :
                   /\ next_view(List, view) = List[k]
                   /\ \A j \in 1 .. (k - 1) : Passed(List[j])
         /\ next_view(List, view) = NULL /\ view # NULL =>
              found /\ \A j \in 1 .. Len(List) : Passed(List[j])
         /\ next_view(List, view) = NULL /\ view = NULL => ~ found
<1>0. Processing
  BY DEF Processing
<1>1. List \in Seq(SmallOID) /\ Sorted(List) /\ (found => List # <<>>) /\ (~ found => List = <<>>)
  BY <1>0, ListFacts
<1>2. Len(List) \in Nat /\ (List # <<>> => 1 \in 1 .. Len(List)) /\ (List = <<>> => Len(List) = 0)
      /\ \A k \in 1 .. Len(List) : List[k] # NULL
  BY <1>1, NullIsNoOid, SMT
<1>3. CASE view = NULL
  <2>1. /\ List = <<>> => next_view(List, view) = NULL
        /\ List # <<>> => next_view(List, view) = List[1]
    BY <1>1, <1>3, NextViewFacts
  <2>2. 1 .. (1 - 1) = {}
    BY SMT
  <2> QED
    BY <1>1, <1>2, <1>3, <2>1, <2>2
<1>4. CASE view # NULL
  <2>1. PICK k \in 1 .. Len(List) : view = List[k] /\ \A j \in 1 .. k : Passed(List[j])
    BY <1>4 DEF ProcInv, Invs, ViewsInv
  <2>2. next_view(List, view) = IF k < Len(List) THEN List[k + 1] ELSE NULL
    BY <1>1, <2>1, NextViewFacts
  <2>3. found
    BY <1>1, <1>2, SMT
  <2>4. CASE k < Len(List)
    <3>1. k + 1 \in 1 .. Len(List) /\ (k + 1) - 1 = k
      BY <1>2, <2>4, SMT
    <3> QED
      BY <1>2, <2>1, <2>2, <2>3, <2>4, <3>1
  <2>5. CASE ~ (k < Len(List))
    <3>1. k = Len(List)
      BY <1>2, <2>5, SMT
    <3> QED
      BY <1>4, <2>1, <2>2, <2>3, <2>5, <3>1
  <2> QED
    BY <2>4, <2>5
<1> QED
  BY <1>3, <1>4
-----------------------------------------------------------------------------
ResultType == [tag : ValueTag \cup Invalid \cup {"VALUE"}, oid : SmallOID, err : Nat]

\* mib_get, one view: the loop may be left if the variable is found or comes
\* before the view, since no later view covers it then.
LEMMA GetInView ==
  ASSUME ProcInv, pc = "views", Op = "GET", NEW k \in 1 .. Len(List),
         \A j \in 1 .. (k - 1) : Passed(List[j]), NEW r, r = Search(List[k], vb.oid)
  PROVE  /\ r \in ResultType /\ r.oid = vb.oid
         /\ r.err # 0 => r.err = GEN_ERR /\ vb.oid \in GetFails
         /\ Gotcha(r, List[k]) =>
              (vb.oid \notin GetFails => (r.tag = "VALUE" <=> vb.oid \in Var /\ Readable(vb.oid)))
         /\ ~ Gotcha(r, List[k]) => Passed(List[k]) /\ (r.tag = "VALUE" => vb.oid \in GetFails)
<1> DEFINE v == List[k]
           o == vb.oid
<1>0. /\ o \in SmallOID /\ List \in Seq(SmallOID) /\ Sorted(List) /\ Len(List) \in Nat /\ v \in SmallOID
      /\ Readable(o) <=> \E j \in 1 .. Len(List) : Covers(List[j], o)
  BY ListFacts, SMT DEF Processing
<1>1. r = [tag |-> SearchTag(Node \cup Known, Var, v, o),
           oid |-> o, err |-> IF Handled(v, o) /\ o \in GetFails THEN GEN_ERR ELSE 0]
  BY DEF Search
<1>2. /\ r.tag \in {"VALUE", "NO_SUCH_OBJ", "NO_SUCH_INST"} /\ (r.tag = "VALUE" <=> Covers(v, o) /\ o \in Var)
      /\ r.oid = o /\ r.err \in {0, GEN_ERR} /\ (r.err # 0 => r.err = GEN_ERR /\ o \in GetFails)
  <2>1. LET t == SearchTag(Node \cup Known, Var, v, o)
        IN  t \in {"VALUE", "NO_SUCH_OBJ", "NO_SUCH_INST"} /\ (t = "VALUE" <=> Covers(v, o) /\ o \in Var)
    BY DEF SearchTag
  <2> QED
    BY <1>1, <2>1, SMT DEF GEN_ERR
<1>3. r \in ResultType
  <2>1. r.tag \in ValueTag \cup Invalid \cup {"VALUE"} /\ r.oid \in SmallOID /\ r.err \in Nat
    BY <1>0, <1>2, SMT DEF GEN_ERR, Invalid
  <2>2. r = [tag |-> r.tag, oid |-> r.oid, err |-> r.err]
    BY <1>1
  <2> QED
    BY <2>1, <2>2 DEF ResultType
<1>4. Gotcha(r, v) <=> (r.err = 0 /\ r.tag = "VALUE") \/ OidLess(o, v)
  BY <1>0, <1>2, CmpSign DEF Gotcha, MIB_TAG_VALID, Invalid
<1>5. ASSUME OidLess(o, v), o \notin GetFails, o \in Var, Readable(o) PROVE FALSE
  <2>1. PICK j \in 1 .. Len(List) : Covers(List[j], o)
    BY <1>0, <1>5
  <2>2. List[j] \in SmallOID /\ ~ OidLess(o, List[j])
    BY <1>0, <2>1, CoversOrder, SMT
  <2>3. CASE j < k
    <3>1. Passed(List[j])
      BY <1>0, <2>3, SMT
    <3> QED
      BY <1>5, <2>1, <3>1 DEF Passed
  <2>4. CASE j = k
    BY <1>5, <2>2, <2>4
  <2>5. CASE j > k
    <3>1. OidLess(v, List[j])
      BY <1>0, <2>5 DEF Sorted
    <3> QED
      BY <1>0, <1>5, <2>2, <3>1, OidLessTransitive
  <2> QED
    BY <1>0, <2>3, <2>4, <2>5, SMT
<1>6. ASSUME Gotcha(r, v), o \notin GetFails PROVE r.tag = "VALUE" <=> o \in Var /\ Readable(o)
  <2>1. CASE r.tag = "VALUE"
    BY <1>0, <1>2, <2>1
  <2>2. CASE r.tag # "VALUE"
    BY <1>4, <1>5, <1>6, <2>2
  <2> QED
    BY <2>1, <2>2
<1>7. ASSUME ~ Gotcha(r, v) PROVE Passed(v) /\ (r.tag = "VALUE" => o \in GetFails)
  <2>1. r.tag = "VALUE" => o \in GetFails
    BY <1>2, <1>4, <1>7
  <2> QED
    BY <1>2, <2>1 DEF Passed
<1> QED
  BY <1>2, <1>3, <1>6, <1>7

\* mib_getnext, one view: the first view with an answer has the closest one.
LEMMA NextInView ==
  ASSUME ProcInv, pc = "views", Op = "GETNEXT", found, NEW k \in 1 .. Len(List),
         \A j \in 1 .. (k - 1) : Passed(List[j]), NEW r, r = Search(List[k], vb.oid)
  PROVE  /\ r \in ResultType
         /\ r.err # 0 => r.err = GEN_ERR /\ \E x \in GetFails : OidLess(vb.oid, x)
         /\ Gotcha(r, List[k]) /\ r.err = 0 => [oid |-> r.oid, tag |-> r.tag] = NextOf(vb.oid)
         /\ ~ Gotcha(r, List[k]) => Passed(List[k]) /\ r.tag = "END_OF_MIB_VIEW" /\ r.err = 0
<1> DEFINE v == List[k]
           o == vb.oid
<1>0. /\ o \in SmallOID /\ List \in Seq(SmallOID) /\ Sorted(List) /\ Len(List) \in Nat /\ v \in SmallOID
      /\ \A j \in 1 .. Len(List) : List[j] \in SmallOID
      /\ List = views[msg.version].READ
      /\ \A x \in SmallOID : Readable(x) <=> \E j \in 1 .. Len(List) : Covers(List[j], x)
  <2>1. Processing
    BY DEF Processing
  <2>2. /\ o \in SmallOID /\ List \in Seq(SmallOID) /\ Sorted(List)
        /\ List = views[msg.version].READ
        /\ \A x \in SmallOID : Readable(x) <=> \E j \in 1 .. Len(List) : Covers(List[j], x)
    BY <2>1, ListFacts
  <2>3. Len(List) \in Nat /\ \A j \in 1 .. Len(List) : List[j] \in SmallOID
    BY <2>2, SMT
  <2> QED
    BY <2>2, <2>3
<1>1. r = SearchNext(Node, Var, GetFails, v, o)
  BY DEF Search
<1>2. /\ r \in [tag : {"VALUE", "END_OF_MIB_VIEW"}, oid : SmallOID, err : {0, GEN_ERR}]
      /\ r.err # 0 => r.tag = "VALUE" /\ \E x \in GetFails : OidLess(o, x)
      /\ r.tag = "END_OF_MIB_VIEW" => r.oid = o /\ r.err = 0 /\ \A x : ~ InReach(v, o, x)
      /\ r.tag = "VALUE" /\ r.err = 0 =>
           /\ InReach(v, o, r.oid)
           /\ \A x : InReach(v, o, x) => r.oid = x \/ OidLess(r.oid, x)
  <2> HIDE DEF v, o
  <2> QED
    BY <1>0, <1>1, SearchNextFacts
<1>3. r \in ResultType
  BY <1>2, SMT DEF ResultType, GEN_ERR, Invalid
<1>4. Gotcha(r, v) <=> r.tag # "END_OF_MIB_VIEW"
  BY DEF Gotcha
<1>5. ASSUME ~ Gotcha(r, v) PROVE Passed(v)
  BY <1>2, <1>4, <1>5 DEF Passed
<1>6. ASSUME Gotcha(r, v), r.err = 0 PROVE [oid |-> r.oid, tag |-> r.tag] = NextOf(o)
  <2> DEFINE y == r.oid
  <2>1. /\ r.tag = "VALUE" /\ InReach(v, o, y) /\ y \in Var /\ y \in SmallOID
        /\ Covers(v, y) /\ y # v /\ OidLess(o, y)
        /\ \A x : InReach(v, o, x) => y = x \/ OidLess(y, x)
    BY <1>2, <1>4, <1>6 DEF InReach
  <2> HIDE DEF y
  <2>2. ASSUME NEW i \in 1 .. Len(List), List[i] = y PROVE FALSE
    <3>1. CASE i > k
      BY <1>0, <2>1, <2>2, <3>1 DEF Sorted
    <3>2. CASE i < k
      <4>1. OidLess(y, v)
        BY <1>0, <2>2, <3>2 DEF Sorted
      <4> QED
        BY <1>0, <2>1, <4>1, CoversOrder
    <3>3. CASE i = k
      BY <2>1, <2>2, <3>3
    <3>4. i < k \/ i = k \/ i > k
      BY <1>0, SMT
    <3> QED
      BY <3>1, <3>2, <3>3, <3>4
  <2>3. y \in Reachable(o)
    BY <1>0, <2>1, <2>2 DEF Reachable
  <2>4. ASSUME NEW t \in Reachable(o) PROVE y = t \/ OidLess(y, t)
    <3>1. /\ t \in Var /\ t \in SmallOID /\ Readable(t) /\ OidLess(o, t)
          /\ \A i \in 1 .. Len(List) : List[i] # t
      BY <1>0, ProcAssumption DEF Reachable
    <3>2. PICK j \in 1 .. Len(List) : Covers(List[j], t)
      BY <1>0, <3>1
    <3>3. InReach(List[j], o, t) /\ List[j] \in SmallOID
      BY <1>0, <3>1, <3>2 DEF InReach
    <3>4. CASE j < k
      <4>1. Passed(List[j])
        BY <1>0, <3>4, SMT
      <4> QED
        BY <3>1, <3>3, <4>1 DEF Passed
    <3>5. CASE j = k
      BY <2>1, <3>3, <3>5
    <3>6. CASE j > k
      <4>1. OidLess(v, List[j]) /\ ~ Covers(v, List[j])
        BY <1>0, <3>6 DEF Sorted
      <4>2. OidLess(y, List[j])
        BY <1>0, <2>1, <3>3, <4>1, SubtreeBefore
      <4>3. List[j] = t \/ OidLess(List[j], t)
        BY <3>1, <3>2, <3>3, CoversOrder
      <4> QED
        BY <2>1, <3>1, <3>3, <4>2, <4>3, OidLessTransitive
    <3> QED
      BY <1>0, <3>4, <3>5, <3>6, SMT
  <2>5. Least(Reachable(o)) = y
    <3>1. Reachable(o) \in SUBSET Var
      BY DEF Reachable
    <3> QED
      BY <2>3, <2>4, <3>1, LeastIs
  <2> QED
    BY <2>1, <2>3, <2>5 DEF NextOf, y
<1> QED
  BY <1>2, <1>3, <1>4, <1>5, <1>6

\* mib_set, one view: a set function that succeeds leaves a valid type, and
\* everything else an error or an invalid one.
LEMMA SetInView ==
  ASSUME ProcInv, pc = "views", Op = "SET", NEW k \in 1 .. Len(List),
         NEW r, r = Search(List[k], vb.oid)
  PROVE  /\ r \in ResultType
         /\ Handled(List[k], vb.oid) /\ r.err = 0 =>
              /\ vb.oid \in Var \ SetFails /\ MIB_TAG_VALID(r.tag) /\ Gotcha(r, List[k])
         /\ ~ (Handled(List[k], vb.oid) /\ r.err = 0) => r.err # 0 \/ r.tag \in Invalid
<1> DEFINE v == List[k]
           o == vb.oid
<1>0. o \in SmallOID /\ ret.tag \in ValueTag \cup Invalid \cup {"VALUE"}
  BY ListFacts DEF Processing, ProcInv, TypeOK
<1>1. r = [tag |-> IF Handled(v, o) THEN ret.tag ELSE SearchTag(Node, {}, v, o),
           oid |-> o, err |-> IF Handled(v, o) THEN SetError(o, ret.tag) ELSE 0]
  BY DEF Search
<1>2. CASE Handled(v, o)
  <2>1. r.tag = ret.tag /\ r.oid = o /\ r.err = SetError(o, ret.tag)
    BY <1>1, <1>2, SMT
  <2>2. r.err \in Nat /\ (r.err = 0 => o \in Var \ SetFails /\ ret.tag = TagOf[o])
    BY <2>1, SMT DEF SetError, NOT_WRITABLE, NO_ACCESS, WRONG_TYPE, GEN_ERR
  <2>3. r.err = 0 => r.tag \notin Invalid
    <3>1. r.err = 0 => r.tag \in ValueTag
      BY <2>1, <2>2, ProcAssumption, SMT
    <3> QED
      BY <3>1 DEF ValueTag, Invalid
  <2>4. r \in ResultType
    BY <1>0, <1>1, <2>1, <2>2 DEF ResultType
  <2> QED
    BY <1>2, <2>2, <2>3, <2>4 DEF MIB_TAG_VALID, Gotcha
<1>3. CASE ~ Handled(v, o)
  <2>1. SearchTag(Node, {}, v, o) \in Invalid
    BY DEF SearchTag, Invalid
  <2>2. r \in ResultType /\ r.tag \in Invalid
    BY <1>0, <1>1, <1>3, <2>1, SMT DEF ResultType
  <2> QED
    BY <1>3, <2>2
<1> QED
  BY <1>2, <1>3

\* A view is searched.
LEMMA TryViewStep ==
  ASSUME ProcInv, TryView
  PROVE  ProcInv'
<1> DEFINE v == next_view(List, view)
           r == Search(v, vb.oid)
           done == Op = "SET" /\ Handled(v, vb.oid) /\ r.err = 0
<1>0. /\ pc = "views" /\ v # NULL /\ ret' = r /\ view' = v
      /\ pc' = (IF Gotcha(r, v) THEN "emit" ELSE "views")
      /\ written' = (IF done THEN written \cup {<<vb_in_cnt, vb.oid>>} ELSE written)
      /\ UNCHANGED <<req, hdr, vb_in, vb_out, repeat, at, vb_in_cnt, found>>
  BY DEF TryView
<1>1. PICK k \in 1 .. Len(List) : v = List[k] /\ \A j \in 1 .. (k - 1) : Passed(List[j])
  BY <1>0, ViewsInOrder
<1>2. found /\ Op \in {"GET", "GETNEXT", "SET"} /\ msg.type \in Request
      /\ (Op = "SET" => Writable(vb.oid)) /\ (Op # "SET" => msg.known)
      /\ List \in Seq(SmallOID) /\ Len(List) \in Nat /\ v \in SmallOID /\ vb.oid \in SmallOID
  <2>1. Processing /\ found
    BY <1>0, ViewsInOrder DEF Processing
  <2>2. /\ msg.type \in Request /\ (Op = "SET" => Writable(vb.oid)) /\ (Op # "SET" => msg.known)
        /\ List \in Seq(SmallOID) /\ vb.oid \in SmallOID
    BY <2>1, ListFacts
  <2>3. Op \in {"GET", "GETNEXT", "SET"}
    BY <2>2, OpFacts
  <2>4. Len(List) \in Nat /\ v \in SmallOID
    BY <1>1, <2>2, SMT
  <2> QED
    BY <2>1, <2>2, <2>3, <2>4
<1>3. pc' \in {"views", "emit"}
  BY <1>0
<1>4. /\ vb' = vb /\ List' = List /\ Op' = Op /\ msg' = msg /\ UNCHANGED req
      /\ \A u : Passed(u)' <=> Passed(u)
      /\ Progress' /\ QueryInv' /\ GetInv' /\ CauseInv' /\ NextInv' /\ AccessInv'
      /\ vb_in_cnt \in Nat /\ Len(vb_out) \in Nat /\ vb_in_cnt = Len(vb_out) + 1
  BY <1>0, <1>2, <1>3, ViewsFrame
<1>5. PICK q : q = r
  OBVIOUS
<1> HIDE DEF r, v
<1>6. Op = "GET" =>
        /\ q \in ResultType /\ q.oid = vb.oid
        /\ q.err # 0 => q.err = GEN_ERR /\ vb.oid \in GetFails
        /\ Gotcha(q, List[k]) =>
             (vb.oid \notin GetFails => (q.tag = "VALUE" <=> vb.oid \in Var /\ Readable(vb.oid)))
        /\ ~ Gotcha(q, List[k]) => Passed(List[k]) /\ (q.tag = "VALUE" => vb.oid \in GetFails)
  BY <1>0, <1>1, <1>5, GetInView DEF r
<1>7. Op = "GETNEXT" =>
        /\ q \in ResultType
        /\ q.err # 0 => q.err = GEN_ERR /\ \E x \in GetFails : OidLess(vb.oid, x)
        /\ Gotcha(q, List[k]) /\ q.err = 0 => [oid |-> q.oid, tag |-> q.tag] = NextOf(vb.oid)
        /\ ~ Gotcha(q, List[k]) => Passed(List[k]) /\ q.tag = "END_OF_MIB_VIEW" /\ q.err = 0
  BY <1>0, <1>1, <1>2, <1>5, NextInView DEF r
<1>8. Op = "SET" =>
        /\ q \in ResultType
        /\ done => vb.oid \in Var \ SetFails /\ MIB_TAG_VALID(q.tag) /\ Gotcha(q, List[k])
        /\ ~ done => q.err # 0 \/ q.tag \in Invalid
  BY <1>0, <1>1, <1>5, SetInView DEF r
<1>9. ret' = q /\ view' = List[k] /\ pc' = (IF Gotcha(q, List[k]) THEN "emit" ELSE "views")
      /\ (done => Op = "SET" /\ q.err = 0)
  BY <1>0, <1>1, <1>5
<1>10. (Readable(vb.oid)' <=> Readable(vb.oid)) /\ NextOf(vb.oid)' = NextOf(vb.oid)
  <2>1. \A o : (Readable(o)' <=> Readable(o)) /\ NextOf(o)' = NextOf(o)
    BY <1>4, SameAnswers
  <2>2. ASSUME NEW o, o = vb.oid
        PROVE  (Readable(vb.oid)' <=> Readable(o)') /\ NextOf(vb.oid)' = NextOf(o)'
    <3>1. vb'.oid = o
      BY <1>4, <2>2
    <3> QED
      BY <3>1 DEF Readable, NextOf, Reachable
  <2> QED
    BY <2>1, <2>2
<1> HIDE DEF done
<1>11. TypeOK'
  <2>1. ret' \in ResultType
    BY <1>2, <1>6, <1>7, <1>8, <1>9
  <2>2. written' \subseteq Nat \X Var
    <3>1. done => <<vb_in_cnt, vb.oid>> \in Nat \X Var
      BY <1>4, <1>8, <1>9
    <3> QED
      BY <1>0, <3>1 DEF ProcInv, TypeOK
  <2>3. view' \in SmallOID \cup {NULL}
    BY <1>0, <1>2
  <2> QED
    BY <1>0, <1>3, <2>1, <2>2, <2>3 DEF ProcInv, TypeOK, ResultType, req
<1>12. WriteInv'
  <2>1. vb_in_cnt \in 1 .. vb_in_cnt
    BY <1>4, SMT
  <2>2. \A o : Writable(o)' <=> Writable(o)
    BY <1>4, SameAnswers
  <2>3. ASSUME NEW w \in written'
        PROVE  /\ w[1] \in 1 .. vb_in_cnt
               /\ msg.type = "SET" /\ Writable(w[2]) /\ w[2] \in Var \ SetFails
    <3>1. CASE w \in written
      BY <3>1 DEF ProcInv, Invs, WriteInv
    <3>2. CASE done /\ w = <<vb_in_cnt, vb.oid>>
      <4>1. w[1] = vb_in_cnt /\ w[2] = vb.oid
        BY <3>2
      <4> QED
        BY <1>2, <1>8, <1>9, <2>1, <3>2, <4>1, OpFacts
    <3> QED
      BY <1>0, <3>1, <3>2
  <2> QED
    BY <1>0, <1>4, <2>2, <2>3 DEF WriteInv
<1>13. SetInv'
  <2>1. ASSUME NEW i \in 1 .. Len(vb_out), NEW o PROVE <<i, o>> \in written' <=> <<i, o>> \in written
    <3>1. i # vb_in_cnt
      BY <1>4, SMT
    <3>2. <<i, o>> # <<vb_in_cnt, vb.oid>>
      BY <3>1
    <3> QED
      BY <1>0, <3>2
  <2>2. Missing' = Missing
    BY <1>0, <1>4, <2>1 DEF Missing
  <2>3. hdr' = hdr /\ pc # "idle" /\ (Clean' <=> Clean)
    BY <1>0, <1>4, SameAnswers
  <2> QED
    BY <1>4, <2>2, <2>3 DEF ProcInv, Invs, SetInv
<1>14. ViewsInv'
  <2> SUFFICES ASSUME pc' = "views" PROVE ViewsInv'
    BY DEF ViewsInv
  <2>1. ~ Gotcha(q, List[k]) /\ ~ done
    BY <1>8, <1>9
  <2>2. ASSUME NEW j \in 1 .. k PROVE Passed(List[j])
    <3>1. Passed(List[k])
      BY <1>2, <1>6, <1>7, <2>1 DEF Passed
    <3>2. j = k \/ j \in 1 .. (k - 1)
      BY SMT
    <3> QED
      BY <1>1, <3>1, <3>2
  <2>3. Left'
    BY <1>2, <1>4, <1>6, <1>7, <1>8, <1>9, <2>1 DEF Left
  <2>4. \A w \in written' : w[1] < vb_in_cnt
    BY <1>0, <2>1 DEF ProcInv, Invs, ViewsInv
  <2>5. view' # NULL /\ view' = List'[k] /\ k \in 1 .. Len(List')
    BY <1>0, <1>4, <1>9
  <2>6. ASSUME NEW j \in 1 .. k PROVE Passed(List[j])'
    <3>1. PICK u : u = List[j]
      OBVIOUS
    <3>2. Passed(u)'
      BY <1>4, <2>2, <3>1
    <3>3. List'[j] = u
      BY <1>4, <3>1
    <3> QED
      BY <3>2, <3>3 DEF Passed
  <2> QED
    BY <1>0, <2>3, <2>4, <2>5, <2>6 DEF ViewsInv
<1>15. EmitInv'
  <2> SUFFICES ASSUME pc' = "emit" PROVE EmitInv'
    BY DEF EmitInv
  <2>1. Gotcha(q, List[k])
    BY <1>9
  <2>2. CASE Op = "GET"
    BY <1>2, <1>4, <1>6, <1>9, <1>10, <2>1, <2>2 DEF EmitInv
  <2>3. CASE Op = "GETNEXT"
    BY <1>2, <1>4, <1>7, <1>9, <1>10, <2>1, <2>3 DEF EmitInv
  <2>4. CASE Op = "SET"
    <3>1. <<vb_in_cnt, vb.oid>> \in written' <=> done
      <4>1. <<vb_in_cnt, vb.oid>> \notin written
        <5>1. \A w \in written : w[1] < vb_in_cnt
          BY <1>0 DEF ProcInv, Invs, ViewsInv
        <5>2. ~ (vb_in_cnt < vb_in_cnt)
          BY <1>4, SMT
        <5> QED
          BY <5>1, <5>2
      <4> QED
        BY <1>0, <4>1
    <3>2. Outcome' = 0 <=> done
      BY <1>4, <1>8, <1>9, <2>4, SMT DEF Outcome, MIB_TAG_VALID, NOT_WRITABLE
    <3> QED
      BY <1>0, <1>4, <2>4, <3>1, <3>2 DEF EmitInv
  <2> QED
    BY <1>2, <2>2, <2>3, <2>4
<1> QED
  BY <1>4, <1>11, <1>12, <1>13, <1>14, <1>15 DEF ProcInv, Invs

\* Where the responses of a GET, GETNEXT or SET stand: at the binding with the
\* number of the one that is processed.
LEMMA OnePass ==
  ASSUME ProcInv, Processing
  PROVE  msg.type # "BULKGET" => at = vb_in_cnt /\ vb = msg.vbs[vb_in_cnt] /\ vb.tag # "VALUE"
<1> SUFFICES ASSUME msg.type # "BULKGET" PROVE at = vb_in_cnt /\ vb = msg.vbs[vb_in_cnt] /\ vb.tag # "VALUE"
  OBVIOUS
<1>0. pc # "idle" /\ TypeOK /\ Progress
  BY DEF ProcInv, Processing
<1>1. /\ Passes = 1 /\ repeat = 1 /\ Len(msg.vbs) \in Nat /\ Len(vb_out) \in Nat /\ Base \in Nat
      /\ Base = Len(msg.vbs) * (Passes - repeat) /\ Len(vb_out) = Base + Done
  <2>1. Passes = 1 /\ repeat \in Nat /\ repeat <= Passes /\ repeat > 0
    BY <1>0, RequestFacts DEF Progress
  <2>2. repeat = 1
    BY <2>1, SMT
  <2> QED
    BY <1>0, <2>1, <2>2, RequestFacts
<1>2. Base = 0
  BY <1>1, SMT
<1>3. at = vb_in_cnt
  BY <1>0, <1>1, <1>2, SMT DEF Done, Progress, TypeOK
<1>4. vb = msg.vbs[at] /\ at \in 1 .. Len(msg.vbs)
  BY <1>0, ListFacts DEF Progress, vb
<1> QED
  BY <1>0, <1>3, <1>4, RequestFacts

\* No view is left: access was denied, or all views have been tried in vain.
LEMMA NoMoreStep ==
  ASSUME ProcInv, NoMoreViews
  PROVE  ProcInv'
<1>0. /\ pc = "views" /\ next_view(List, view) = NULL /\ pc' = "emit" /\ Processing
      /\ ret' = [ret EXCEPT !.oid = vb.oid]
      /\ UNCHANGED <<req, hdr, vb_in, vb_out, repeat, at, vb_in_cnt, found>>
      /\ UNCHANGED <<view, written>>
  BY DEF NoMoreViews, Processing
<1>1. /\ vb' = vb /\ Op' = Op /\ msg' = msg /\ UNCHANGED req
      /\ Progress' /\ QueryInv' /\ GetInv' /\ CauseInv' /\ NextInv' /\ (found => AccessInv')
      /\ vb_in_cnt \in Nat /\ Len(vb_out) \in Nat /\ vb_in_cnt = Len(vb_out) + 1
  BY <1>0, ViewsFrame
<1>2. /\ vb.oid \in SmallOID /\ List \in Seq(SmallOID) /\ Len(List) \in Nat /\ Op \in {"GET", "GETNEXT", "SET"}
      /\ ~ found => ret.err = NO_ACCESS
      /\ Op # "SET" => (found <=> msg.known)
      /\ Op # "SET" /\ found => List = views[msg.version].READ
      /\ Op # "SET" => \A o \in SmallOID : Readable(o) <=> \E k \in 1 .. Len(List) : Covers(List[k], o)
  BY <1>0, ListFacts, OpFacts, SMT
<1>3. ret \in ResultType
  BY DEF ProcInv, TypeOK, ResultType
<1>4. ret' \in ResultType /\ ret'.tag = ret.tag /\ ret'.err = ret.err /\ ret'.oid = vb.oid
  BY <1>0, <1>2, <1>3 DEF ResultType
<1>5. (view = NULL => ~ found /\ ret.tag = vb.tag)
      /\ (view # NULL => found /\ Left /\ \A j \in 1 .. Len(List) : Passed(List[j]))
  BY <1>0, ViewsInOrder DEF ProcInv, Invs, ViewsInv
<1>6. TypeOK'
  BY <1>0, <1>4 DEF ProcInv, TypeOK, ResultType, req
<1>7. AccessInv'
  <2>1. Permitted(vb)' <=> Permitted(vb)
    BY <1>1, SameAnswers DEF Permitted, req
  <2> QED
    BY <1>0, <1>4, <2>1 DEF ProcInv, Invs, AccessInv
<1>8. WriteInv' /\ SetInv'
  <2>1. Results
    BY DEF ProcInv, Invs, Results
  <2>2. vb_in_cnt' \in Nat /\ vb_in_cnt' >= vb_in_cnt /\ pc # "idle" /\ TypeOK
    BY <1>0, <1>1, SMT DEF ProcInv
  <2>3. UNCHANGED <<req, hdr, vb_out, written>>
    BY <1>0, <1>1
  <2> QED
    BY <2>1, <2>2, <2>3, ResultsKept DEF Results
<1>9. ViewsInv'
  BY <1>0 DEF ViewsInv
<1>10. (Readable(vb.oid)' <=> Readable(vb.oid)) /\ NextOf(vb.oid)' = NextOf(vb.oid)
  <2>1. \A o : (Readable(o)' <=> Readable(o)) /\ NextOf(o)' = NextOf(o)
    BY <1>1, SameAnswers
  <2>2. ASSUME NEW o, o = vb.oid
        PROVE  (Readable(vb.oid)' <=> Readable(o)') /\ NextOf(vb.oid)' = NextOf(o)'
    <3>1. vb'.oid = o
      BY <1>1, <2>2
    <3> QED
      BY <3>1 DEF Readable, NextOf, Reachable
  <2> QED
    BY <2>1, <2>2
<1>11. ~ found => Denied'
  BY <1>1, <1>2, <1>4, <1>5 DEF Denied
<1>12. CASE Op = "GET"
  <2>1. ASSUME vb.oid \notin GetFails PROVE ret.tag = "VALUE" <=> vb.oid \in Var /\ Readable(vb.oid)
    <3>1. CASE found
      <4>1. ret.tag # "VALUE" /\ \A j \in 1 .. Len(List) : Passed(List[j])
        BY <1>5, <1>12, <2>1, <3>1 DEF Left
      <4> QED
        BY <1>2, <1>12, <2>1, <4>1 DEF Passed
    <3>2. CASE ~ found
      <4>1. vb.tag # "VALUE"
        BY <1>0, <1>12, OnePass DEF Op
      <4> QED
        BY <1>2, <1>5, <1>12, <3>2, <4>1 DEF Readable
    <3> QED
      BY <3>1, <3>2
  <2>2. msg.known /\ ret.err # 0 => ret.err = GEN_ERR /\ vb.oid \in GetFails
    BY <1>2, <1>5, <1>12 DEF Left
  <2>3. EmitInv'
    BY <1>1, <1>2, <1>4, <1>10, <1>11, <1>12, <2>1, <2>2 DEF EmitInv
  <2> QED
    BY <1>1, <1>6, <1>7, <1>8, <1>9, <2>3 DEF ProcInv, Invs
<1>13. CASE Op = "GETNEXT"
  <2>1. ASSUME found PROVE ret.err = 0 /\ [oid |-> vb.oid, tag |-> ret.tag] = NextOf(vb.oid)
    <3>1. ret.err = 0 /\ ret.tag = "END_OF_MIB_VIEW" /\ \A j \in 1 .. Len(List) : Passed(List[j])
      BY <1>5, <1>13, <2>1 DEF Left
    <3>2. ASSUME NEW x \in Reachable(vb.oid) PROVE FALSE
      <4>1. /\ x \in Var /\ Readable(x) /\ OidLess(vb.oid, x) /\ x \in SmallOID
            /\ \A i \in 1 .. Len(List) : List[i] # x
        BY <1>2, <1>13, <2>1, ProcAssumption DEF Reachable
      <4>2. PICK j \in 1 .. Len(List) : Covers(List[j], x)
        BY <1>2, <1>13, <4>1
      <4>3. InReach(List[j], vb.oid, x)
        BY <4>1, <4>2 DEF InReach
      <4> QED
        BY <1>13, <3>1, <4>1, <4>3 DEF Passed
    <3> QED
      BY <3>1, <3>2 DEF NextOf
  <2>2. EmitInv'
    BY <1>1, <1>2, <1>4, <1>10, <1>11, <1>13, <2>1 DEF EmitInv
  <2> QED
    BY <1>1, <1>6, <1>7, <1>8, <1>9, <2>2 DEF ProcInv, Invs
<1>14. CASE Op = "SET"
  <2>1. Outcome' # 0
    BY <1>1, <1>2, <1>4, <1>5, <1>14, SMT DEF Outcome, Left, MIB_TAG_VALID, NOT_WRITABLE, NO_ACCESS
  <2>2. <<vb_in_cnt, vb.oid>> \notin written
    <3>1. \A w \in written : w[1] < vb_in_cnt
      BY <1>0 DEF ProcInv, Invs, ViewsInv
    <3>2. ~ (vb_in_cnt < vb_in_cnt)
      BY <1>1, SMT
    <3> QED
      BY <3>1, <3>2
  <2>3. EmitInv'
    BY <1>0, <1>1, <1>14, <2>1, <2>2 DEF EmitInv
  <2> QED
    BY <1>1, <1>6, <1>7, <1>8, <1>9, <2>3 DEF ProcInv, Invs
<1> QED
  BY <1>2, <1>12, <1>13, <1>14

\* The binding is added to the response, with the first error in the header.
LEMMA EmitStep ==
  ASSUME ProcInv, Emit
  PROVE  ProcInv'
<1> DEFINE e == [oid |-> ret.oid, tag |-> IF Op = "SET" THEN vb.tag ELSE ret.tag]
           n == Len(msg.vbs)
           m == Len(vb_out)
<1>0. /\ pc = "emit" /\ pc' = "list" /\ Processing /\ ~ Processing' /\ pc # "idle"
      /\ ret' = [ret EXCEPT !.err = Outcome] /\ hdr' = Report(Outcome)
      /\ vb_out' = Append(vb_out, e) /\ vb_in' = NextQuery
      /\ UNCHANGED <<repeat, at, vb_in_cnt, found, view, written>>
      /\ UNCHANGED req /\ msg' = msg /\ views' = views
      /\ TypeOK /\ Progress
  BY DEF Emit, Processing, req, ProcInv
<1>1. /\ vb \in Binding /\ vb.oid \in SmallOID /\ vb.tag \in ValueTag \cup Invalid \cup {"VALUE"}
      /\ at \in 1 .. n /\ Op \in {"GET", "GETNEXT", "SET"} /\ msg.type \in Request
      /\ vb = [oid |-> vb.oid, tag |-> vb.tag]
  <2>1. vb \in Binding /\ vb.oid \in SmallOID /\ at \in 1 .. n /\ msg.type \in Request
        /\ vb.tag \in ValueTag \cup Invalid \cup {"VALUE"}
    BY <1>0, ListFacts
  <2> QED
    BY <2>1, OpFacts DEF Binding
<1>2. /\ n \in Nat /\ m \in Nat /\ Base \in Nat /\ m = Base + Done /\ Done = at - 1 /\ vb_in_cnt = m + 1
      /\ Len(vb_in) = n /\ vb_in \in Seq(Binding) /\ vb_out \in Seq(Binding) /\ msg.known \in BOOLEAN
  BY <1>0, RequestFacts DEF Progress, Done, TypeOK
<1>3. ret \in ResultType /\ Outcome \in Nat /\ (Op # "SET" => Outcome = ret.err)
  BY <1>0 DEF TypeOK, ResultType, Outcome, NOT_WRITABLE
<1>4. e \in Binding /\ e.oid = ret.oid /\ (Op # "SET" => e.tag = ret.tag)
  BY <1>1, <1>3 DEF Binding, ResultType
<1> HIDE DEF e
<1>5. /\ Len(vb_out') = m + 1 /\ vb_out'[m + 1] = e /\ \A i \in 1 .. m : vb_out'[i] = vb_out[i]
      /\ vb_out' \in Seq(Binding)
  BY <1>0, <1>2, <1>4, SMT
<1>6. /\ hdr' \in [type : {"NONE", "RESP", "REPO", "TRAP"}, err_stat : Nat, err_idx : Nat]
      /\ Outcome # 0 /\ hdr.err_stat = 0 => hdr'.err_stat = Outcome /\ hdr'.err_idx = m + 1
      /\ ~ (Outcome # 0 /\ hdr.err_stat = 0) => hdr' = hdr
  <2>1. vb_in_cnt \in Nat /\ hdr \in [type : {"NONE", "RESP", "REPO", "TRAP"}, err_stat : Nat, err_idx : Nat]
    BY <1>0 DEF TypeOK
  <2> QED
    BY <1>0, <1>2, <1>3, <2>1 DEF Report
<1>7. /\ vb_in' \in Seq(Binding) /\ Len(vb_in') = n
      /\ \A j \in 1 .. n : j # at => vb_in'[j] = vb_in[j]
      /\ msg.type = "BULKGET" => vb_in'[at].oid = ret.oid
      /\ msg.type # "BULKGET" => vb_in' = vb_in
  <2>1. CASE msg.type = "BULKGET"
    <3>1. vb_in' = [vb_in EXCEPT ![at].oid = ret.oid]
      BY <1>0, <2>1 DEF NextQuery
    <3>2. vb_in[at] = vb /\ [vb_in[at] EXCEPT !.oid = ret.oid] \in Binding
          /\ [vb_in[at] EXCEPT !.oid = ret.oid].oid = ret.oid
      BY <1>1, <1>3 DEF vb, Binding, ResultType
    <3>3. vb_in' = [vb_in EXCEPT ![at] = [vb_in[at] EXCEPT !.oid = ret.oid]]
      BY <3>1
    <3> QED
      BY <1>1, <1>2, <2>1, <3>2, <3>3, SMT
  <2>2. CASE msg.type # "BULKGET"
    BY <1>0, <1>2, <2>2 DEF NextQuery
  <2> QED
    BY <2>1, <2>2
<1>8. TypeOK'
  <2>1. ret' \in ResultType
    BY <1>0, <1>3 DEF ResultType
  <2>2. at \in 0 .. Len(vb_in')
    BY <1>1, <1>2, <1>7, SMT
  <2> QED
    BY <1>0, <1>5, <1>6, <1>7, <2>1, <2>2 DEF TypeOK, ResultType
<1>9. Done' = Done + 1 /\ Base' = Base /\ Done' = at
  BY <1>0, <1>1, <1>2, <1>5, SMT DEF Done, Base
<1>10. /\ \A o : (Readable(o)' <=> Readable(o)) /\ (Writable(o)' <=> Writable(o)) /\ NextOf(o)' = NextOf(o)
       /\ Op' = Op /\ (Clean' <=> Clean) /\ Passes' = Passes
  BY <1>0, SameAnswers
<1>11. Progress'
  <2>1. m = n * (Passes - repeat) + Done /\ n * (Passes - repeat) \in Nat
    BY <1>0, RequestFacts DEF Progress
  <2>2. Len(vb_out') = n * (Passes - repeat) + Done'
    BY <1>2, <1>5, <1>9, <2>1, SMT
  <2> HIDE DEF m
  <2> QED
    BY <1>0, <1>2, <1>5, <1>7, <1>10, <2>2, SMT DEF Progress
<1>12. AccessInv' /\ ViewsInv' /\ EmitInv'
  BY <1>0 DEF AccessInv, ViewsInv, EmitInv
<1>13. \A i \in 1 .. (m + 1) : i = m + 1 \/ i \in 1 .. m
  BY <1>2, SMT
<1>14. msg.type # "BULKGET" => at = m + 1 /\ vb = msg.vbs[m + 1]
  BY <1>0, <1>2, OnePass
<1> HIDE DEF m, n
<1>15. GetInv'
  <2> SUFFICES ASSUME msg.type = "GET", NEW i \in 1 .. (m + 1)
               PROVE  /\ vb_out'[i].oid = msg.vbs[i].oid
                      /\ msg.vbs[i].oid \notin GetFails =>
                           (vb_out'[i].tag = "VALUE" <=> msg.vbs[i].oid \in Var /\ Readable(msg.vbs[i].oid))
    BY <1>0, <1>5, <1>10 DEF GetInv
  <2>1. CASE i = m + 1
    <3>1. /\ ret.oid = vb.oid
          /\ vb.oid \notin GetFails => (ret.tag = "VALUE" <=> vb.oid \in Var /\ Readable(vb.oid))
      BY <1>0 DEF ProcInv, Invs, EmitInv, Op
    <3> QED
      BY <1>4, <1>5, <1>14, <2>1, <3>1 DEF Op
  <2>2. CASE i \in 1 .. m
    BY <1>0, <1>5, <2>2 DEF ProcInv, Invs, GetInv, m
  <2> QED
    BY <1>13, <2>1, <2>2
<1>16. CauseInv'
  <2> SUFFICES ASSUME msg.type \in {"GET", "GETNEXT"}, Clean PROVE CauseInv'
    BY <1>0, <1>10 DEF CauseInv
  <2>0. Op # "SET" /\ Op = msg.type /\ Outcome = ret.err
    BY <1>3 DEF Op
  <2>1. CASE msg.known
    <3>1. hdr.err_idx # 0 =>
            /\ hdr.err_idx \in 1 .. m /\ hdr.err_stat = GEN_ERR
            /\ LET o == msg.vbs[hdr.err_idx].oid
               IN  IF msg.type = "GET" THEN o \in GetFails ELSE \E x \in GetFails : OidLess(o, x)
      BY <1>0, <2>1 DEF ProcInv, Invs, CauseInv, m
    <3>2. ret.err # 0 => /\ ret.err = GEN_ERR
                         /\ IF msg.type = "GET" THEN vb.oid \in GetFails
                            ELSE \E x \in GetFails : OidLess(vb.oid, x)
      BY <1>0, <2>0, <2>1 DEF ProcInv, Invs, EmitInv
    <3>3. hdr.err_idx \in 1 .. m => hdr.err_idx \in 1 .. (m + 1)
      BY <1>2, SMT
    <3>4. m + 1 \in 1 .. (m + 1)
      BY <1>2, SMT
    <3>5. CASE Outcome # 0 /\ hdr.err_stat = 0
      BY <1>0, <1>5, <1>6, <1>14, <2>0, <2>1, <3>2, <3>4, <3>5 DEF CauseInv
    <3>6. CASE ~ (Outcome # 0 /\ hdr.err_stat = 0)
      <4>1. hdr' = hdr
        BY <1>6, <3>6
      <4> QED
        BY <1>0, <1>5, <2>1, <3>1, <3>3, <4>1 DEF CauseInv
    <3> QED
      BY <3>5, <3>6
  <2>2. CASE ~ msg.known
    <3>1. /\ \A i \in 1 .. m : vb_out[i] = msg.vbs[i]
          /\ IF vb_out = <<>> THEN hdr.err_stat = 0 /\ hdr.err_idx = 0
             ELSE hdr.err_stat = NO_ACCESS /\ hdr.err_idx = 1
      BY <1>0, <2>2 DEF ProcInv, Invs, CauseInv, m
    <3>2. Denied /\ ret.oid = vb.oid
      BY <1>0, <2>0, <2>2 DEF ProcInv, Invs, EmitInv
    <3>3. e = msg.vbs[m + 1]
      <4>1. e = [oid |-> ret.oid, tag |-> ret.tag]
        BY <2>0 DEF e
      <4> QED
        BY <1>1, <1>14, <3>2, <4>1 DEF Denied
    <3>4. \A i \in 1 .. (m + 1) : vb_out'[i] = msg.vbs[i]
      BY <1>5, <1>13, <3>1, <3>3
    <3>5. hdr'.err_stat = NO_ACCESS /\ hdr'.err_idx = 1
      <4>1. Outcome = NO_ACCESS /\ NO_ACCESS # 0
        BY <2>0, <3>2, SMT DEF Denied, NO_ACCESS
      <4>2. CASE vb_out = <<>>
        <5>1. m = 0
          BY <4>2 DEF m
        <5> QED
          BY <1>6, <3>1, <4>1, <4>2, <5>1, SMT
      <4>3. CASE vb_out # <<>>
        BY <1>6, <3>1, <4>1, <4>3
      <4> QED
        BY <4>2, <4>3
    <3>6. vb_out' # <<>>
      BY <1>2, <1>5, SMT
    <3> QED
      BY <1>0, <1>5, <2>2, <3>4, <3>5, <3>6 DEF CauseInv
  <2> QED
    BY <1>2, <2>1, <2>2
<1>17. WriteInv'
  BY <1>0, <1>10 DEF ProcInv, Invs, WriteInv
<1>18. SetInv'
  <2> SUFFICES ASSUME msg.type = "SET", Clean PROVE SetInv'
    BY <1>0, <1>10 DEF SetInv
  <2>0. Op = "SET"
    BY DEF Op
  <2>1. IF Missing = {} THEN hdr.err_stat = 0
        ELSE hdr.err_stat # 0 /\ hdr.err_idx \in Missing /\ \A i \in Missing : hdr.err_idx <= i
    BY <1>0 DEF ProcInv, Invs, SetInv
  <2>2. Outcome = 0 <=> <<m + 1, msg.vbs[m + 1].oid>> \in written
    BY <1>0, <1>2, <1>14, <2>0 DEF ProcInv, Invs, EmitInv
  <2>3. Missing = {i \in 1 .. m : <<i, msg.vbs[i].oid>> \notin written}
    BY DEF Missing, m
  <2>4. Missing' = {i \in 1 .. (m + 1) : <<i, msg.vbs[i].oid>> \notin written}
    BY <1>0, <1>5 DEF Missing
  <2>5. CASE Outcome = 0
    <3>1. Missing' = Missing
      BY <1>2, <1>13, <2>2, <2>3, <2>4, <2>5, SMT
    <3>2. hdr' = hdr
      BY <1>6, <2>5
    <3> QED
      BY <1>0, <2>1, <3>1, <3>2 DEF SetInv
  <2>6. CASE Outcome # 0
    <3>1. Missing' = Missing \cup {m + 1} /\ Missing \subseteq 1 .. m
      BY <1>2, <1>13, <2>2, <2>3, <2>4, <2>6, SMT
    <3>2. CASE Missing = {}
      <4>1. hdr'.err_stat # 0 /\ hdr'.err_idx = m + 1 /\ Missing' = {m + 1}
        BY <1>6, <2>1, <2>6, <3>1, <3>2
      <4>2. m + 1 <= m + 1
        BY <1>2, SMT
      <4> QED
        BY <1>0, <4>1, <4>2 DEF SetInv
    <3>3. CASE Missing # {}
      <4>1. hdr' = hdr /\ hdr.err_idx \in Missing
        BY <1>6, <2>1, <3>3
      <4>2. hdr.err_idx <= m + 1
        <5>1. \A i \in 1 .. m : i <= m + 1
          BY <1>2, SMT
        <5> QED
          BY <3>1, <4>1, <5>1
      <4> QED
        BY <1>0, <2>1, <3>1, <3>3, <4>1, <4>2 DEF SetInv
    <3> QED
      BY <3>2, <3>3
  <2> QED
    BY <2>5, <2>6
<1>19. \A i \in 1 .. (m + 1) : Query(i)' = Query(i)
  <2> SUFFICES ASSUME NEW i \in 1 .. (m + 1) PROVE Query(i)' = Query(i)
    OBVIOUS
  <2>1. CASE i <= n
    BY <1>0, <2>1 DEF Query, n
  <2>2. CASE ~ (i <= n)
    <3>1. i - n \in 1 .. m
      BY <1>1, <1>2, <2>2, SMT
    <3> QED
      BY <1>0, <1>5, <2>2, <3>1 DEF Query, n
  <2> QED
    BY <2>1, <2>2
<1>20. QueryInv'
  <2> SUFFICES ASSUME Op = "GETNEXT", repeat > 0, NEW j \in 1 .. n
               PROVE  /\ j > Done + 1 => vb_in'[j].oid = Query(Base + j)'
                      /\ j <= Done + 1 /\ msg.type = "BULKGET" => vb_in'[j].oid = vb_out'[Base + j].oid
    BY <1>0, <1>9, <1>10 DEF QueryInv, n
  <2>1. /\ j > Done => vb_in[j].oid = Query(Base + j)
        /\ j <= Done /\ msg.type = "BULKGET" => vb_in[j].oid = vb_out[Base + j].oid
    BY <1>0 DEF ProcInv, Invs, QueryInv, n
  <2>2. ASSUME j > Done + 1 PROVE vb_in'[j].oid = Query(Base + j)'
    <3>1. j # at /\ j > Done /\ vb_in'[j] = vb_in[j]
      BY <1>1, <1>2, <1>7, <2>2, SMT
    <3>2. PICK i \in Nat : i = Base + j /\ i >= 1
      BY <1>2, SMT
    <3>3. Query(Base + j)' = Query(Base + j)
      <4>1. Base' + j = i
        BY <1>9, <3>2
      <4>2. CASE i <= n
        BY <1>0, <3>2, <4>1, <4>2 DEF Query, n
      <4>3. CASE ~ (i <= n)
        <5>1. i - n \in 1 .. m
          BY <1>1, <1>2, <3>2, <4>3, SMT
        <5>2. Query(Base + j) = vb_out[i - n].oid
          BY <3>2, <4>3 DEF Query, n
        <5>3. Query(Base + j)' = vb_out'[i - n].oid
          BY <1>0, <4>1, <4>3 DEF Query, n
        <5> QED
          BY <1>5, <5>1, <5>2, <5>3
      <4> QED
        BY <4>2, <4>3
    <3> QED
      BY <2>1, <3>1, <3>3
  <2>3. ASSUME j <= Done + 1, msg.type = "BULKGET" PROVE vb_in'[j].oid = vb_out'[Base + j].oid
    <3>1. CASE j = at
      <4>1. Base + j = m + 1
        BY <1>1, <1>2, <3>1, SMT
      <4> QED
        BY <1>4, <1>5, <1>7, <2>3, <3>1, <4>1
    <3>2. CASE j # at
      <4>1. j <= Done /\ Base + j \in 1 .. m
        BY <1>1, <1>2, <2>3, <3>2, SMT
      <4> QED
        BY <1>5, <1>7, <2>1, <2>3, <3>2, <4>1
    <3> QED
      BY <3>1, <3>2
  <2> QED
    BY <2>2, <2>3
<1>21. NextInv'
  <2> SUFFICES ASSUME Op = "GETNEXT", msg.known, hdr'.err_stat = 0, NEW i \in 1 .. (m + 1)
               PROVE  vb_out'[i] = NextOf(Query(i))
    BY <1>0, <1>5, <1>10, <1>19, SMT DEF NextInv
  <2>1. Outcome = 0 /\ hdr.err_stat = 0 /\ ret.err = 0
    BY <1>3, <1>6
  <2>2. CASE i = m + 1
    <3>1. e = NextOf(vb.oid)
      <4>1. [oid |-> ret.oid, tag |-> ret.tag] = NextOf(vb.oid)
        BY <1>0, <2>1 DEF ProcInv, Invs, EmitInv
      <4> QED
        BY <4>1 DEF e
    <3>2. vb.oid = Query(i)
      <4>1. Base + at = i /\ at > Done /\ at \in 1 .. n /\ repeat > 0
        BY <1>0, <1>1, <1>2, <2>2, SMT DEF Progress
      <4> QED
        BY <1>0, <4>1, SMT DEF ProcInv, Invs, QueryInv, n, vb
    <3> QED
      BY <1>5, <2>2, <3>1, <3>2
  <2>3. CASE i \in 1 .. m
    BY <1>0, <1>5, <2>1, <2>3 DEF ProcInv, Invs, NextInv, m
  <2> QED
    BY <1>13, <2>2, <2>3
<1> QED
  BY <1>8, <1>11, <1>12, <1>15, <1>16, <1>17, <1>18, <1>20, <1>21 DEF ProcInv, Invs
-----------------------------------------------------------------------------
\* The invariant of the loops over passes, bindings and views (snmp_get,
\* snmp_getnext, snmp_set, snmp_bulkget, and mib_get, mib_getnext, mib_set) holds
\* for every mib, every two view lists and every request.
THEOREM ProcInvariant == Spec => []ProcInv
<1>1. Init => ProcInv
  BY InitInv
<1>2. ProcInv /\ [Next]_vars => ProcInv'
  <2> SUFFICES ASSUME ProcInv, [Next]_vars PROVE ProcInv'
    OBVIOUS
  <2>1. ASSUME NEW m \in Messages, snmpd_recv(m) PROVE ProcInv'
    BY <2>1, RecvStep
  <2>2. CASE snmp_decode_fails \/ Taken
    BY <2>2, ClearStep
  <2>3. CASE NextVarbind
    BY <2>3, VarbindStep
  <2>4. CASE EndOfList
    BY <2>4, EndOfListStep
  <2>5. CASE Emit
    BY <2>5, EmitStep
  <2>6. CASE snmp_response
    BY <2>6, ResponseStep
  <2>7. CASE TryView
    BY <2>7, TryViewStep
  <2>8. CASE NoMoreViews
    BY <2>8, NoMoreStep
  <2>9. CASE UNCHANGED vars
    <3>1. /\ views' = views /\ msg' = msg /\ pc' = pc /\ hdr' = hdr /\ vb_in' = vb_in /\ vb_out' = vb_out
          /\ repeat' = repeat /\ at' = at /\ vb_in_cnt' = vb_in_cnt /\ ret' = ret
          /\ view' = view /\ written' = written
      BY <2>9 DEF vars, req
    <3>2. found' = found
      BY <2>9 DEF vars
    <3>3. TypeOK' /\ Progress'
      <4>1. TypeOK'
        BY <3>1, <3>2 DEF ProcInv, TypeOK
      <4>2. Progress'
        BY <3>1 DEF ProcInv, Progress, Processing, Done, Passes
      <4> QED
        BY <4>1, <4>2
    <3>4. Invs' <=> Invs
      <4>1. vb' = vb /\ Op' = Op /\ Access' = Access /\ List' = List /\ Base' = Base /\ Done' = Done
            /\ (Processing' <=> Processing) /\ (Clean' <=> Clean) /\ Missing' = Missing /\ Outcome' = Outcome
            /\ (Denied' <=> Denied)
        BY <3>1, <3>2 DEF vb, Op, Access, List, Base, Done, Processing, Clean, Missing, Outcome, Denied
      <4>2. UNCHANGED req
        BY <3>1 DEF req
      <4>3. /\ \A o : (Readable(o)' <=> Readable(o)) /\ (Writable(o)' <=> Writable(o))
            /\ \A o : NextOf(o)' = NextOf(o)
            /\ \A i : Query(i)' = Query(i)
        BY <3>1, <4>2, SameAnswers DEF Query
      <4>4. (AccessInv' <=> AccessInv) /\ (ViewsInv' <=> ViewsInv)
        BY <3>1, <3>2, <4>1 DEF AccessInv, ViewsInv, Permitted, Passed, Left
      <4>5. EmitInv' <=> EmitInv
        BY <3>1, <4>1, <4>3 DEF EmitInv
      <4>6. (GetInv' <=> GetInv) /\ (CauseInv' <=> CauseInv) /\ (WriteInv' <=> WriteInv) /\ (SetInv' <=> SetInv)
        BY <3>1, <4>1 DEF GetInv, CauseInv, WriteInv, SetInv, Readable, Writable
      <4>7. (QueryInv' <=> QueryInv) /\ (NextInv' <=> NextInv)
        <5>1. QueryInv' <=> QueryInv
          BY <3>1, <4>1 DEF QueryInv, Query
        <5>2. NextInv' <=> NextInv
          BY <3>1, <4>1, <4>3 DEF NextInv
        <5> QED
          BY <5>1, <5>2
      <4> QED
        BY <4>4, <4>5, <4>6, <4>7 DEF Invs
    <3> QED
      BY <3>3, <3>4 DEF ProcInv
  <2>10. ASSUME Step PROVE NextVarbind \/ EndOfList \/ Emit \/ snmp_response \/ TryView \/ NoMoreViews
    BY <2>10 DEF Step, snmp_get, snmp_getnext, snmp_set, snmp_bulkget, mib_get, mib_getnext, mib_set,
                 Bindings, Views
  <2> QED
    BY <2>1, <2>2, <2>3, <2>4, <2>5, <2>6, <2>7, <2>8, <2>9, <2>10, SMT DEF Next
<1> QED
  BY <1>1, <1>2, PTL DEF Spec

\* How much of a request has been answered when the response is sent: all of it.
LEMMA SentAll ==
  ASSUME ProcInv, pc = "sent"
  PROVE  /\ msg \in Messages /\ msg.type \in Request /\ Len(msg.vbs) \in Nat /\ Passes \in Nat
         /\ Len(vb_out) = Len(msg.vbs) * Passes
         /\ msg.type # "BULKGET" => Len(vb_out) = Len(msg.vbs)
<1>1. /\ repeat = 0 /\ at = 0 /\ Done = 0
      /\ Len(vb_out) = Len(msg.vbs) * (Passes - repeat) + Done
  BY DEF ProcInv, Progress, Done, Processing
<1>2. /\ msg \in Messages /\ msg.type \in Request /\ Len(msg.vbs) \in Nat /\ Passes \in Nat
      /\ msg.type # "BULKGET" => Passes = 1
  BY RequestFacts DEF ProcInv
<1>3. \A a, b \in Nat : a * (b - 0) + 0 = a * b /\ a * 1 = a
  BY SMT
<1> QED
  BY <1>1, <1>2, <1>3

\* snmp_get answers every binding, with a value exactly where there is one that
\* the principal may read.
THEOREM GetIsAnswered == Spec => []GetAnswers
<1>1. ProcInv => GetAnswers
  <2> SUFFICES ASSUME ProcInv, Sent("GET") PROVE GetAnswers
    BY DEF GetAnswers
  <2>1. pc = "sent" /\ msg.type = "GET"
    BY DEF Sent
  <2>2. Len(vb_out) = Len(msg.vbs)
    BY <2>1, SentAll
  <2> QED
    BY <2>1, <2>2 DEF GetAnswers, ProcInv, Invs, GetInv
<1> QED
  BY <1>1, ProcInvariant, PTL

\* snmp_getnext and snmp_bulkget find the closest next variable over all views.
THEOREM NextIsAnswered == Spec => []NextAnswers
<1>1. ProcInv => NextAnswers
  <2> SUFFICES ASSUME ProcInv, pc = "sent", msg.type \in {"GETNEXT", "BULKGET"}, msg.known, hdr.err_stat = 0
               PROVE  /\ Len(vb_out) = Len(msg.vbs) * Passes
                      /\ \A i \in 1 .. Len(vb_out) : vb_out[i] = NextOf(Query(i))
    BY DEF NextAnswers, Sent, Passes, Query
  <2>1. Len(vb_out) = Len(msg.vbs) * Passes
    BY SentAll
  <2>2. Op = "GETNEXT"
    BY DEF Op
  <2> QED
    BY <2>1, <2>2 DEF ProcInv, Invs, NextInv
<1> QED
  BY <1>1, ProcInvariant, PTL

\* snmp_set reports the first binding that has not been applied, and no error if
\* all have been.
THEOREM SetIsReported == Spec => []SetReport
<1>1. ProcInv => SetReport
  <2> SUFFICES ASSUME ProcInv, pc = "sent", msg.type = "SET", Clean PROVE SetReport
    BY DEF SetReport, Sent
  <2>1. Len(vb_out) = Len(msg.vbs)
    BY SentAll
  <2>2. Missing = {i \in 1 .. Len(msg.vbs) : <<i, msg.vbs[i].oid>> \notin written}
    BY <2>1 DEF Missing
  <2> QED
    BY <2>2 DEF ProcInv, Invs, SetInv, SetReport
<1> QED
  BY <1>1, ProcInvariant, PTL

\* mib_set calls set functions only for variables that the principal may write.
THEOREM SetIsPermitted == Spec => []SetOnlyWritable
<1>1. ProcInv => SetOnlyWritable
  BY DEF ProcInv, Invs, WriteInv, SetOnlyWritable
<1> QED
  BY <1>1, ProcInvariant, PTL

\* An error that snmp_get or snmp_getnext reports is one of the binding that the
\* error index names, although ret_oid is shared by all of them.
THEOREM ErrorIsCaused == Spec => []ErrorHasCause
<1>1. ProcInv => ErrorHasCause
  <2> SUFFICES ASSUME ProcInv, pc = "sent", Clean, hdr.err_idx # 0, msg.type \in {"GET", "GETNEXT"}
               PROVE  ErrorHasCause
    BY DEF ErrorHasCause
  <2>1. Len(vb_out) = Len(msg.vbs) /\ msg \in Messages /\ msg.known \in BOOLEAN
    BY SentAll, MessageFacts
  <2>2. CASE msg.known
    BY <2>2 DEF ProcInv, Invs, CauseInv, ErrorHasCause
  <2>3. CASE ~ msg.known
    <3>1. /\ \A i \in 1 .. Len(vb_out) : vb_out[i] = msg.vbs[i]
          /\ IF vb_out = <<>> THEN hdr.err_stat = 0 /\ hdr.err_idx = 0
             ELSE hdr.err_stat = NO_ACCESS /\ hdr.err_idx = 1
      BY <2>3 DEF ProcInv, Invs, CauseInv
    <3>2. vb_out \in Seq(Binding) /\ msg.vbs \in Seq(Binding)
      BY <2>1, MessageFacts DEF ProcInv, TypeOK
    <3>3. vb_out = msg.vbs
      BY <2>1, <3>1, <3>2, SMT
    <3> QED
      BY <2>3, <3>1, <3>3 DEF ErrorHasCause
  <2> QED
    BY <2>1, <2>2, <2>3
<1> QED
  BY <1>1, ProcInvariant, PTL
=============================================================================
