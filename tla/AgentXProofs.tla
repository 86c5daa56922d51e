---------------------------- MODULE AgentXProofs ----------------------------
(***************************************************************************)
(* What holds of the AgentX sub-agent of module AgentX for any script, any *)
(* requests of the master and any variables: responses carry the ids of    *)
(* the requests that they answer, search ranges and TestSets are answered  *)
(* as they should be, and the registries of the sub-agent and the master   *)
(* agree.                                                                  *)
(***************************************************************************)
EXTENDS AgentX, OidProofs

\* Most steps are first-order reasoning; those that are not cite SMT.
USE Zenon

PduIds == [sid : Nat, tid : Nat, pid : Nat]

Received ==
  [type : {"RESPONSE"} \cup {r.type : r \in Requests}, list : {<<>>} \cup {r.list : r \in Requests},
   sid : Nat, tid : Nat, pid : Nat, error : Nat]

\* The oids that messages to the master may name.
Oids == {<<>>} \cup UNION {{s[k].oid : k \in 1 .. Len(s)} : s \in Scripts}

SentPdu ==
  [type : {"RESPONSE", "open", "reg", "unreg", "close"}, sid : Nat, tid : Nat, pid : Nat, oid : Oids]

\* The list that goes with a request is what the decoder makes of its type.
Listed(type, list) ==
  /\ type \in {"GET", "GETNEXT", "GETBULK"} => list \in Seq(SearchRanges)
  /\ type = "TESTSET" => list \in Seq(VarBinds)

Places == {"init", "call", "wait", "run", "done", "aborted", "undefined"}

TypeInv ==
  /\ script \in Scripts /\ at \in 0 .. Len(script)
  /\ pc \in Places
  /\ closing \in BOOLEAN /\ sock \in BOOLEAN /\ peer \in BOOLEAN
  /\ hdr \in PduIds /\ session \in Nat /\ asked \in Nat /\ owed \subseteq PduIds
  /\ rx \in Seq(Received) /\ tx \in Seq(SentPdu)
  /\ \A k \in 1 .. Len(rx) : Listed(rx[k].type, rx[k].list)
  /\ Listed(last.type, last.list)
  /\ Registered \subseteq Oids /\ mreg \subseteq Oids

\* The requests that wait to be read are not answered, and have come in order;
\* whatever has been answered came before them.
OrderInv ==
  /\ \A x \in owed : x.tid <= asked
  /\ \A k \in 1 .. Len(rx) : Answerable(rx[k].type) =>
       /\ Ids(rx[k]) \in owed
       /\ \A j \in 1 .. (k - 1) : Answerable(rx[j].type) => rx[j].tid < rx[k].tid
  /\ \A j \in 1 .. Len(tx), k \in 1 .. Len(rx) :
       tx[j].type = "RESPONSE" /\ Answerable(rx[k].type) => tx[j].tid < rx[k].tid
  /\ ResponsesMatch
-----------------------------------------------------------------------------
\* Of a sequence s of messages to the master: p is about the registration of oid o;
\* no message is; the last one that is has type op.
About(p, o) == p.type \in {"reg", "unreg"} /\ p.oid = o
Settled(s, o) == \A k \in 1 .. Len(s) : ~ About(s[k], o)
Latest(s, op, o) ==
  \E k \in 1 .. Len(s) : /\ s[k].type = op /\ s[k].oid = o
                         /\ \A j \in (k + 1) .. Len(s) : ~ About(s[j], o)

\* A session is asked for, and every request to close one comes before that.
Opening(s) == \E k \in 1 .. Len(s) : s[k].type = "open"
Unclosed(s) ==
  \A k \in 1 .. Len(s) : s[k].type = "close" =>
    \E j \in (k + 1) .. Len(s) : s[j].type = "open"

OneOpen(s) ==
  \A j, k \in 1 .. Len(s) : s[j].type = "open" /\ s[k].type = "open" => j = k

\* The session is open, or about to be, and stays so.
Live == sock /\ peer /\ (session # 0 \/ Opening(tx)) /\ Unclosed(tx)

Waiting(o) == pc = "wait" /\ call.op # "open" /\ call.oid = o

\* What the master knows, or is about to be told, of oid o is what the mib-tree
\* has, or is about to be told.
Agree(o) ==
  IF Waiting(o)
  THEN \/ Latest(tx, call.op, o)
       \/ Settled(tx, o) /\ IF call.op = "reg" THEN o \in mreg \cup refused ELSE o \notin mreg
  ELSE /\ Latest(tx, "reg", o) => o \in Registered \cup stale
       /\ Latest(tx, "unreg", o) => o \notin Registered \ stale
       /\ Settled(tx, o) => /\ o \in Registered => o \in mreg \cup refused \cup stale
                            /\ o \in mreg => o \in Registered \cup stale

SessionInv ==
  /\ at = 0 => Registered = {} /\ session = 0
  /\ at = 0 => \A k \in 1 .. Len(tx) : tx[k].type \in {"RESPONSE", "close"}
  /\ pc = "init" => at = 0
  /\ pc = "wait" => at > 0
  /\ session = 0 => mreg = {}
  /\ Opening(tx) => session = 0
  /\ OneOpen(tx)
  /\ ~ peer => session = 0

AgreeInv ==
  pc \in {"call", "wait", "run"} /\ Live => \A o \in Oids : Agree(o)

AgentXInv == TypeInv /\ OrderInv /\ SessionInv /\ AgreeInv
-----------------------------------------------------------------------------
\* The least of a set of positions.
LEMMA MinFacts ==
  ASSUME NEW S \in SUBSET Nat, S # {}
  PROVE  Min(S) \in S /\ \A k \in S : Min(S) <= k
BY LeastElement DEF Min

\* Every oid is within the view of agentx_msg_proc.c.
LEMMA NullCovers ==
  ASSUME NEW o \in SmallOID
  PROVE  Covers(<<>>, o) /\ ~ OidLess(o, <<>>)
<1>1. <<>> \in SmallOID /\ Len(o) \in Nat /\ Len(<<>>) = 0
  BY SMT DEF SmallOID
<1>2. Covers(<<>>, o)
  BY <1>1, SMT DEF Covers
<1> QED
  BY <1>1, <1>2, CoversOrder

\* The loops over a list report no error if no binding has one, and else that of
\* the first binding that has.
LEMMA AnswerFacts ==
  ASSUME NEW S, NEW r \in Seq(S)
  PROVE  /\ \A k \in 1 .. Len(r) : Answer(r).vbs[k] = [oid |-> r[k].oid, tag |-> r[k].tag]
         /\ (\A k \in 1 .. Len(r) : r[k].err = 0) => Answer(r).error = 0
         /\ (\E k \in 1 .. Len(r) : r[k].err # 0) =>
              /\ Answer(r).index = Min({k \in 1 .. Len(r) : r[k].err # 0})
              /\ Answer(r).error # 0
<1> DEFINE failed == {k \in 1 .. Len(r) : r[k].err # 0}
<1>1. \A k \in 1 .. Len(r) : Answer(r).vbs[k] = [oid |-> r[k].oid, tag |-> r[k].tag]
  BY DEF Answer
<1>2. (\A k \in 1 .. Len(r) : r[k].err = 0) => Answer(r).error = 0
  BY DEF Answer
<1>3. ASSUME failed # {}
      PROVE  Answer(r).index = Min(failed) /\ Answer(r).error # 0
  <2>1. failed \in SUBSET Nat
    BY SMT
  <2> HIDE DEF failed
  <2>2. Min(failed) \in failed
    BY <1>3, <2>1, MinFacts
  <2> USE DEF failed
  <2>3. Answer(r).index = Min(failed) /\ Answer(r).error = r[Min(failed)].err
    BY <1>3 DEF Answer
  <2> QED
    BY <2>2, <2>3
<1> QED
  BY <1>1, <1>2, <1>3

\* A GET is answered with a value exactly for the variables that are served.
LEMMA GetAnswered ==
  ASSUME last.type = "GET", last.list \in Seq(SearchRanges)
  PROVE  \A i \in 1 .. Len(last.list) :
           Response.vbs[i].tag = "VALUE" <=> last.list[i].start \in Served(last.nodes)
<1> DEFINE f == [k \in 1 .. Len(last.list) |-> mib_get(last.nodes, last.list[k])]
           S == {f[k] : k \in 1 .. Len(last.list)}
<1>1. f \in Seq(S) /\ Len(f) = Len(last.list)
  BY SMT
<1>2. Response = Answer(f)
  BY DEF Response, agentx_request_dispatch, agentx_get
<1> SUFFICES ASSUME NEW i \in 1 .. Len(last.list)
             PROVE  Response.vbs[i].tag = "VALUE" <=> last.list[i].start \in Served(last.nodes)
  OBVIOUS
<1>3. last.list[i] \in SearchRanges
  BY SMT
<1>4. last.list[i].start \in SmallOID
  BY <1>3 DEF SearchRanges
<1>5. f[i] = mib_get(last.nodes, last.list[i])
  OBVIOUS
<1> HIDE DEF f, S
<1>6. Response.vbs[i] = [oid |-> f[i].oid, tag |-> f[i].tag]
  BY <1>1, <1>2, AnswerFacts
<1>7. Response.vbs[i].tag = SearchTag(KnownTo(last.nodes), Served(last.nodes), <<>>, last.list[i].start)
  BY <1>5, <1>6, SMT DEF mib_get
<1> QED
  BY <1>4, <1>7, NullCovers DEF SearchTag

\* The least oid of a finite set is below all others, and the only one that is.
LEMMA LeastFacts ==
  ASSUME NEW S \in SUBSET SmallOID, IsFiniteSet(S), S # {}
  PROVE  /\ Least(S) \in S /\ \A t \in S : Least(S) = t \/ OidLess(Least(S), t)
         /\ \A s \in S : (\A t \in S : s = t \/ OidLess(s, t)) => s = Least(S)
<1>1. Least(S) \in S /\ \A t \in S : Least(S) = t \/ OidLess(Least(S), t)
  BY LeastOid DEF Least
<1>2. ASSUME NEW s \in S, \A t \in S : s = t \/ OidLess(s, t)
      PROVE  s = Least(S)
  <2>1. s \in SmallOID /\ Least(S) \in SmallOID
    BY <1>1
  <2>2. (s = Least(S) \/ OidLess(s, Least(S))) /\ (Least(S) = s \/ OidLess(Least(S), s))
    BY <1>1, <1>2
  <2> QED
    BY <2>1, <2>2, OidLessTotal
<1> QED
  BY <1>1, <1>2

\* Without a handler for the start of the range its inclusion changes nothing.
LEMMA StartExcluded ==
  ASSUME NEW nodes, NEW o, ~ Handled(nodes, o)
  PROVE  ~ Valid(SearchIncluded(nodes, o))
<1>1. Beyond(nodes, o) = {}
  BY DEF Beyond, Handled
<1>2. SearchIncluded(nodes, o) = [oid |-> o, tag |-> SearchTag(nodes, {}, <<>>, o), err |-> 0]
  BY <1>1 DEF SearchIncluded
<1>3. SearchTag(nodes, {}, <<>>, o) \in {"NO_SUCH_OBJ", "NO_SUCH_INST"}
  BY DEF SearchTag
<1> QED
  BY <1>2, <1>3, SMT DEF Valid, MIB_TAG_VALID

\* The comparison with the end of the range.
LEMMA ExceedsFacts ==
  ASSUME NEW o \in SmallOID, NEW r \in SearchRanges
  PROVE  Exceeds(o, r) <=> ~ (OidLess(o, r.end) \/ (r.end_include /\ o = r.end))
<1>1. r.end \in SmallOID /\ r.end_include \in BOOLEAN
  BY DEF SearchRanges
<1>2. o \in OID /\ r.end \in OID
  BY <1>1, SmallIsOid
<1> DEFINE c == oid_cmp(o, r.end)
<1>3. c \in Int /\ (c = 0 <=> o = r.end) /\ (c < 0 <=> OidLess(o, r.end))
  BY <1>1, <1>2, CmpZero, CmpSign
<1>4. (c > 0 <=> ~ (c < 0 \/ c = 0)) /\ (c >= 0 <=> ~ (c < 0))
  BY <1>3, SMT
<1>5. CASE r.end_include
  <2>1. Exceeds(o, r) <=> c > 0
    BY <1>5 DEF Exceeds
  <2> HIDE DEF c
  <2> QED
    BY <1>3, <1>4, <1>5, <2>1
<1>6. CASE ~ r.end_include
  <2>1. Exceeds(o, r) <=> c >= 0
    BY <1>6 DEF Exceeds
  <2> HIDE DEF c
  <2> QED
    BY <1>3, <1>4, <1>6, <2>1
<1> QED
  BY <1>5, <1>6

\* mib_tree_search_next over the whole tree, without an error.
LEMMA NextInTree ==
  ASSUME NEW nodes, NEW o \in SmallOID
  PROVE  LET A == {x \in Served(nodes) : OidLess(o, x)}
             next == SearchNext(nodes, Served(nodes), GetFails, <<>>, o)
         IN  /\ A = {} => next = [tag |-> "END_OF_MIB_VIEW", oid |-> o, err |-> 0]
             /\ A # {} /\ Least(A) \in GetFails => next.err # 0
             /\ A # {} /\ Least(A) \notin GetFails => next = [tag |-> "VALUE", oid |-> Least(A), err |-> 0]
             /\ A \in SUBSET SmallOID /\ IsFiniteSet(A)
<1> DEFINE A == {x \in Served(nodes) : OidLess(o, x)}
           next == SearchNext(nodes, Served(nodes), GetFails, <<>>, o)
<1>1. A \in SUBSET Var
  BY DEF Served
<1>2. A \in SUBSET SmallOID /\ IsFiniteSet(A)
  BY <1>1, AgentXAssumption, FinitePart
<1>3. Covers(<<>>, o) /\ ~ OidLess(o, <<>>) /\ \A x \in SmallOID : Covers(<<>>, x)
  BY NullCovers
<1>4. Asked(nodes, Served(nodes), <<>>, o) = A
  <2>1. Served(nodes) \subseteq SmallOID
    BY AgentXAssumption DEF Served
  <2>2. From(nodes, <<>>, o) = o
    BY <1>3 DEF From
  <2> QED
    BY <1>3, <2>1, <2>2 DEF Asked
<1>5. A # {} => Covers(<<>>, Least(A))
  BY <1>2, <1>3, LeastFacts
<1> HIDE DEF A
<1>6. A = {} => next = [tag |-> "END_OF_MIB_VIEW", oid |-> o, err |-> 0]
  BY <1>4 DEF SearchNext
<1>7. A # {} /\ Least(A) \in GetFails => next.err # 0
  BY <1>4, SMT DEF SearchNext, GEN_ERR
<1>8. A # {} /\ Least(A) \notin GetFails => next = [tag |-> "VALUE", oid |-> Least(A), err |-> 0]
  BY <1>4, <1>5 DEF SearchNext
<1> QED
  BY <1>2, <1>6, <1>7, <1>8 DEF A

\* The answer to a search range whose start is not included, or has no handler.
LEMMA RangeAnswered ==
  ASSUME NEW r \in SearchRanges, ~ (r.start_include /\ Handled(last.nodes, r.start)),
         mib_getnext(last.nodes, r).err = 0
  PROVE  /\ mib_getnext(last.nodes, r).oid = NextWithin(r).oid
         /\ mib_getnext(last.nodes, r).tag = NextWithin(r).tag
<1> DEFINE nodes == last.nodes
           o == r.start
           A == {x \in Served(nodes) : OidLess(o, x)}
           next == SearchNext(nodes, Served(nodes), GetFails, <<>>, o)
           got == mib_getnext(nodes, r)
<1>1. o \in SmallOID /\ r.end \in SmallOID
  BY DEF SearchRanges
<1>2. /\ A = {} => next = [tag |-> "END_OF_MIB_VIEW", oid |-> o, err |-> 0]
      /\ A # {} /\ Least(A) \in GetFails => next.err # 0
      /\ A # {} /\ Least(A) \notin GetFails => next = [tag |-> "VALUE", oid |-> Least(A), err |-> 0]
      /\ A \in SUBSET SmallOID /\ IsFiniteSet(A)
  BY <1>1, NextInTree
<1>3. ~ (r.start_include /\ Valid(SearchIncluded(nodes, o)))
  BY StartExcluded
<1>4. /\ Valid(next) /\ Exceeds(next.oid, r) => got = [oid |-> o, tag |-> "END_OF_MIB_VIEW", err |-> 0]
      /\ ~ (Valid(next) /\ Exceeds(next.oid, r)) => got = next
  BY <1>3 DEF mib_getnext
<1>5. Within(r) = {x \in A : OidLess(x, r.end) \/ (r.end_include /\ x = r.end)}
  BY DEF Within
<1> HIDE DEF A, next, got
<1>6. CASE A = {}
  <2>1. ~ Valid(next)
    BY <1>2, <1>6, SMT DEF Valid, MIB_TAG_VALID
  <2>2. Within(r) = {}
    BY <1>5, <1>6
  <2> QED
    BY <1>2, <1>4, <1>6, <2>1, <2>2, SMT DEF NextWithin, got
<1>7. CASE A # {}
  <2>1. Least(A) \notin GetFails
    <3>1. SUFFICES ASSUME Least(A) \in GetFails PROVE FALSE
      OBVIOUS
    <3>2. next.err # 0 /\ ~ Valid(next)
      BY <1>2, <1>7, <3>1 DEF Valid
    <3> QED
      BY <1>4, <3>2 DEF got
  <2>2. next = [tag |-> "VALUE", oid |-> Least(A), err |-> 0]
    BY <1>2, <1>7, <2>1
  <2>3. Valid(next) /\ next.oid = Least(A)
    BY <2>2 DEF Valid, MIB_TAG_VALID
  <2>4. Least(A) \in A /\ Least(A) \in SmallOID /\ \A t \in A : Least(A) = t \/ OidLess(Least(A), t)
    BY <1>2, <1>7, LeastFacts
  <2>5. Exceeds(Least(A), r) <=> ~ (OidLess(Least(A), r.end) \/ (r.end_include /\ Least(A) = r.end))
    BY <2>4, ExceedsFacts
  <2>6. CASE Exceeds(Least(A), r)
    <3>1. ASSUME NEW y \in Within(r) PROVE FALSE
      <4>1. y \in A /\ y \in SmallOID /\ (OidLess(y, r.end) \/ (r.end_include /\ y = r.end))
        BY <1>2, <1>5, <3>1
      <4>2. Least(A) = y \/ OidLess(Least(A), y)
        BY <2>4, <4>1
      <4>3. CASE OidLess(y, r.end)
        BY <1>1, <2>4, <2>5, <2>6, <4>1, <4>2, <4>3, OidLessTransitive
      <4>4. CASE r.end_include /\ y = r.end
        BY <2>5, <2>6, <4>2, <4>4
      <4> QED
        BY <4>1, <4>3, <4>4
    <3>2. Within(r) = {}
      BY <3>1
    <3> QED
      BY <1>4, <2>3, <2>6, <3>2, SMT DEF NextWithin, got
  <2>7. CASE ~ Exceeds(Least(A), r)
    <3>1. Least(A) \in Within(r)
      BY <1>5, <2>4, <2>5, <2>7
    <3>2. Within(r) \subseteq A /\ Within(r) \in SUBSET SmallOID /\ IsFiniteSet(Within(r))
      BY <1>2, <1>5, FinitePart
    <3>3. Least(Within(r)) = Least(A)
      BY <2>4, <3>1, <3>2, LeastFacts
    <3> QED
      BY <1>4, <2>2, <2>3, <2>7, <3>1, <3>3, SMT DEF NextWithin, got
  <2> QED
    BY <2>6, <2>7
<1> QED
  BY <1>6, <1>7

\* Every search range of a GETNEXT or GETBULK is answered with the closest variable.
LEMMA NextAnswered ==
  ASSUME last.type \in {"GETNEXT", "GETBULK"}, last.list \in Seq(SearchRanges), Response.error = 0
  PROVE  \A i \in 1 .. Len(last.list) :
           LET r == last.list[i]
           IN  ~ (r.start_include /\ Handled(last.nodes, r.start)) => Response.vbs[i] = NextWithin(r)
<1> DEFINE f == [k \in 1 .. Len(last.list) |-> mib_getnext(last.nodes, last.list[k])]
           S == {f[k] : k \in 1 .. Len(last.list)}
<1>1. f \in Seq(S) /\ Len(f) = Len(last.list)
  BY SMT
<1>2. Response = Answer(f)
  BY DEF Response, agentx_request_dispatch, agentx_getnext
<1> SUFFICES ASSUME NEW i \in 1 .. Len(last.list),
                    ~ (last.list[i].start_include /\ Handled(last.nodes, last.list[i].start))
             PROVE  Response.vbs[i] = NextWithin(last.list[i])
  OBVIOUS
<1>3. last.list[i] \in SearchRanges /\ f[i] = mib_getnext(last.nodes, last.list[i])
  BY SMT
<1> HIDE DEF f, S
<1>4. Response.vbs[i] = [oid |-> f[i].oid, tag |-> f[i].tag]
  <2>1. i \in 1 .. Len(f)
    BY <1>1
  <2>2. Answer(f).vbs[i] = [oid |-> f[i].oid, tag |-> f[i].tag]
    BY <1>1, <2>1, AnswerFacts
  <2> QED
    BY <1>2, <2>2
<1>5. f[i].err = 0
  <2>1. i \in 1 .. Len(f)
    BY <1>1
  <2>2. f[i].err # 0 => Answer(f).error # 0
    BY <1>1, <2>1, AnswerFacts
  <2> QED
    BY <1>2, <2>2
<1>6. f[i].oid = NextWithin(last.list[i]).oid /\ f[i].tag = NextWithin(last.list[i]).tag
  BY <1>3, <1>5, RangeAnswered
<1>7. NextWithin(last.list[i]) = [oid |-> NextWithin(last.list[i]).oid, tag |-> NextWithin(last.list[i]).tag]
  BY DEF NextWithin
<1> QED
  BY <1>4, <1>6, <1>7

\* What a TestSet does is what it reports.
LEMMA SetAnswered ==
  ASSUME last.type = "TESTSET", last.list \in Seq(VarBinds)
  PROVE  SetReport
<1> DEFINE f == [k \in 1 .. Len(last.list) |-> mib_set(last.nodes, last.list[k])]
           S == {f[k] : k \in 1 .. Len(last.list)}
           missing == (1 .. Len(last.list)) \ Applied
<1>1. f \in Seq(S) /\ Len(f) = Len(last.list)
  BY SMT
<1>2. Response = Answer(f)
  BY DEF Response, agentx_request_dispatch, agentx_set
<1>3. ASSUME NEW i \in 1 .. Len(last.list)
      PROVE  f[i].err # 0 <=> i \notin Applied
  <2> DEFINE b == last.list[i]
  <2>1. f[i].err = IF Handled(last.nodes, b.oid) THEN SetError(b.oid, b.tag) ELSE NOT_WRITABLE
    BY DEF mib_set
  <2>2. i \in Applied <=> /\ b.oid \in Var /\ Handled(last.nodes, b.oid) /\ b.oid \notin SetFails
                          /\ TagOf[b.oid] = b.tag
    BY DEF Applied, Served
  <2>3. SetError(b.oid, b.tag) # 0 <=> ~ (b.oid \in Var /\ b.oid \notin SetFails /\ TagOf[b.oid] = b.tag)
    BY AgentXAssumption, SMT DEF SetError, NOT_WRITABLE, NO_ACCESS, WRONG_TYPE, GEN_ERR
  <2> HIDE DEF b, f
  <2> QED
    BY <2>1, <2>2, <2>3, SMT DEF NOT_WRITABLE
<1> HIDE DEF f, S
<1>4. {k \in 1 .. Len(f) : f[k].err # 0} = missing
  BY <1>1, <1>3
<1>5. missing = {} => Response.error = 0
  BY <1>1, <1>2, <1>4, AnswerFacts
<1> HIDE DEF missing
<1>6. ASSUME missing # {} PROVE Response.error # 0 /\ Response.index = Min(missing)
  <2>1. \E k \in 1 .. Len(f) : f[k].err # 0
    BY <1>4, <1>6
  <2>2. Answer(f).error # 0 /\ Answer(f).index = Min({k \in 1 .. Len(f) : f[k].err # 0})
    BY <1>1, <2>1, AnswerFacts
  <2> QED
    BY <1>2, <1>4, <2>2
<1> QED
  BY <1>5, <1>6 DEF SetReport, missing
-----------------------------------------------------------------------------
\* The elements of a sequence with one appended.
LEMMA AppendElements ==
  ASSUME NEW S, NEW s \in Seq(S), NEW p \in S
  PROVE  /\ Append(s, p) \in Seq(S) /\ Len(Append(s, p)) = Len(s) + 1 /\ Len(s) \in Nat
         /\ Append(s, p)[Len(s) + 1] = p
         /\ \A k \in 1 .. Len(s) : Append(s, p)[k] = s[k]
BY SMT

\* The elements of a sequence without the first.
LEMMA TailElements ==
  ASSUME NEW S, NEW s \in Seq(S), s # <<>>
  PROVE  /\ Tail(s) \in Seq(S) /\ Len(s) = Len(Tail(s)) + 1 /\ Len(Tail(s)) \in Nat
         /\ Head(s) = s[1] /\ Head(s) \in S
         /\ \A k \in 1 .. Len(Tail(s)) : Tail(s)[k] = s[k + 1]
BY SMT

\* Sending a message that is not about o changes nothing for o, and one that is
\* about o is the latest.
LEMMA SendAbout ==
  ASSUME NEW s \in Seq(SentPdu), NEW p \in SentPdu, NEW o, NEW op \in {"reg", "unreg"}
  PROVE  /\ ~ About(p, o) => /\ Settled(Append(s, p), o) <=> Settled(s, o)
                             /\ Latest(Append(s, p), op, o) <=> Latest(s, op, o)
         /\ About(p, o) => /\ ~ Settled(Append(s, p), o)
                           /\ Latest(Append(s, p), op, o) <=> op = p.type
<1> DEFINE n == Len(s)
<1>1. PICK q : q = Append(s, p)
  OBVIOUS
<1>2. /\ n \in Nat /\ Len(q) = n + 1 /\ q[n + 1] = p
      /\ \A k \in 1 .. n : q[k] = s[k]
  BY <1>1, AppendElements, SMT
<1> HIDE DEF n
<1>3. n + 1 \in 1 .. (n + 1) /\ \A k \in 1 .. (n + 1) : k \in 1 .. n \/ k = n + 1
  BY <1>2, SMT
<1>4. Settled(q, o) <=> Settled(s, o) /\ ~ About(p, o)
  BY <1>2, <1>3, SMT DEF Settled, n
<1>5. Latest(q, op, o) <=> (p.type = op /\ p.oid = o) \/ (~ About(p, o) /\ Latest(s, op, o))
  <2>1. ASSUME Latest(q, op, o)
        PROVE  (p.type = op /\ p.oid = o) \/ (~ About(p, o) /\ Latest(s, op, o))
    <3>1. PICK k \in 1 .. (n + 1) : /\ q[k].type = op /\ q[k].oid = o
                                    /\ \A j \in (k + 1) .. (n + 1) : ~ About(q[j], o)
      BY <1>2, <2>1 DEF Latest
    <3>2. CASE k = n + 1
      BY <1>2, <3>1, <3>2
    <3>3. CASE k \in 1 .. n
      <4>1. n + 1 \in (k + 1) .. (n + 1) /\ \A j \in (k + 1) .. n : j \in 1 .. n /\ j \in (k + 1) .. (n + 1)
        BY <1>2, <3>3, SMT
      <4>2. ~ About(p, o) /\ \A j \in (k + 1) .. n : ~ About(s[j], o)
        BY <1>2, <3>1, <4>1
      <4>3. s[k].type = op /\ s[k].oid = o
        BY <1>2, <3>1, <3>3
      <4> QED
        BY <3>3, <4>2, <4>3 DEF Latest, n
    <3> QED
      BY <1>3, <3>2, <3>3
  <2>2. ASSUME p.type = op, p.oid = o
        PROVE  Latest(q, op, o)
    <3>1. \A j \in (n + 1 + 1) .. (n + 1) : FALSE
      BY <1>2, SMT
    <3> QED
      BY <1>2, <1>3, <2>2, <3>1 DEF Latest
  <2>3. ASSUME ~ About(p, o), Latest(s, op, o)
        PROVE  Latest(q, op, o)
    <3>1. PICK k \in 1 .. n : /\ s[k].type = op /\ s[k].oid = o
                              /\ \A j \in (k + 1) .. n : ~ About(s[j], o)
      BY <2>3 DEF Latest, n
    <3>2. \A j \in (k + 1) .. (n + 1) : j = n + 1 \/ (j \in (k + 1) .. n /\ j \in 1 .. n)
      BY <1>2, SMT
    <3>3. \A j \in (k + 1) .. (n + 1) : ~ About(q[j], o)
      BY <1>2, <2>3, <3>1, <3>2
    <3>4. k \in 1 .. (n + 1) /\ q[k] = s[k]
      BY <1>2, SMT
    <3> QED
      BY <1>2, <3>1, <3>3, <3>4 DEF Latest
  <2> QED
    BY <2>1, <2>2, <2>3
<1> QED
  BY <1>1, <1>4, <1>5 DEF About

\* Sending a message, and the session.
LEMMA SendSession ==
  ASSUME NEW s \in Seq(SentPdu), NEW p \in SentPdu
  PROVE  /\ Opening(Append(s, p)) <=> Opening(s) \/ p.type = "open"
         /\ p.type = "close" => ~ Unclosed(Append(s, p))
         /\ p.type \notin {"open", "close"} => (Unclosed(Append(s, p)) <=> Unclosed(s))
<1> DEFINE n == Len(s)
<1>1. PICK q : q = Append(s, p)
  OBVIOUS
<1>2. /\ n \in Nat /\ Len(q) = n + 1 /\ q[n + 1] = p
      /\ \A k \in 1 .. n : q[k] = s[k]
  BY <1>1, AppendElements, SMT
<1> HIDE DEF n
<1>3. n + 1 \in 1 .. (n + 1) /\ \A k \in 1 .. (n + 1) : k \in 1 .. n \/ k = n + 1
  BY <1>2, SMT
<1>4. Opening(q) <=> Opening(s) \/ p.type = "open"
  <2>1. \A k \in 1 .. n : k \in 1 .. (n + 1)
    BY <1>2, SMT
  <2> QED
    BY <1>2, <1>3, <2>1 DEF Opening, n
<1>5. ASSUME p.type = "close"
      PROVE  ~ Unclosed(q)
  <2>1. \A j \in (n + 1 + 1) .. (n + 1) : FALSE
    BY <1>2, SMT
  <2> QED
    BY <1>2, <1>3, <1>5, <2>1 DEF Unclosed
<1>6. ASSUME p.type \notin {"open", "close"}
      PROVE  Unclosed(q) <=> Unclosed(s)
  <2>1. ASSUME NEW k \in 1 .. n
        PROVE  (\E j \in (k + 1) .. (n + 1) : q[j].type = "open") <=> \E j \in (k + 1) .. n : s[j].type = "open"
    <3>1. \A j \in (k + 1) .. (n + 1) : j = n + 1 \/ (j \in (k + 1) .. n /\ j \in 1 .. n)
      BY <1>2, SMT
    <3>2. \A j \in (k + 1) .. n : j \in (k + 1) .. (n + 1) /\ j \in 1 .. n
      BY <1>2, SMT
    <3> QED
      BY <1>2, <1>6, <3>1, <3>2
  <2>2. \A k \in 1 .. n : k \in 1 .. (n + 1)
    BY <1>2, SMT
  <2> QED
    BY <1>2, <1>3, <1>6, <2>1, <2>2 DEF Unclosed, n
<1> QED
  BY <1>1, <1>4, <1>5, <1>6

\* Reading a message that is not about o changes nothing for o; reading one that is
\* settles o, if it is the latest.
LEMMA ReadAbout ==
  ASSUME NEW s \in Seq(SentPdu), s # <<>>, NEW o, NEW op \in {"reg", "unreg"}
  PROVE  /\ ~ About(Head(s), o) => /\ Settled(Tail(s), o) <=> Settled(s, o)
                                   /\ Latest(Tail(s), op, o) <=> Latest(s, op, o)
         /\ About(Head(s), o) => /\ ~ Settled(s, o)
                                 /\ Latest(Tail(s), op, o) => Latest(s, op, o)
                                 /\ Settled(Tail(s), o) => (Latest(s, op, o) <=> op = Head(s).type)
                                 /\ ~ Settled(Tail(s), o) => (Latest(s, op, o) => Latest(Tail(s), op, o))
<1>1. PICK t, h : t = Tail(s) /\ h = Head(s)
  OBVIOUS
<1> DEFINE n == Len(t)
<1>2. /\ n \in Nat /\ Len(s) = n + 1 /\ h = s[1]
      /\ \A k \in 1 .. n : t[k] = s[k + 1]
  BY <1>1, TailElements
<1> HIDE DEF n
<1>3. /\ \A k \in 1 .. n : k + 1 \in 1 .. (n + 1)
      /\ \A k \in 1 .. (n + 1) : k = 1 \/ (k - 1 \in 1 .. n /\ k = k - 1 + 1)
      /\ 1 \in 1 .. (n + 1)
  BY <1>2, SMT
<1>4. Settled(s, o) <=> ~ About(h, o) /\ Settled(t, o)
  <2>1. ASSUME Settled(s, o) PROVE ~ About(h, o) /\ Settled(t, o)
    BY <1>2, <1>3, <2>1 DEF Settled, n
  <2>2. ASSUME ~ About(h, o), Settled(t, o), NEW k \in 1 .. (n + 1) PROVE ~ About(s[k], o)
    <3>1. CASE k = 1
      BY <1>2, <2>2, <3>1
    <3>2. CASE k - 1 \in 1 .. n /\ k = k - 1 + 1
      <4>1. ~ About(t[k - 1], o) /\ t[k - 1] = s[k]
        BY <1>2, <2>2, <3>2 DEF Settled, n
      <4> QED
        BY <4>1
    <3> QED
      BY <1>3, <3>1, <3>2
  <2> QED
    BY <1>2, <2>1, <2>2 DEF Settled
<1>5. Latest(t, op, o) => Latest(s, op, o)
  <2>1. SUFFICES ASSUME Latest(t, op, o) PROVE Latest(s, op, o)
    OBVIOUS
  <2>2. PICK k \in 1 .. n : /\ t[k].type = op /\ t[k].oid = o
                            /\ \A j \in (k + 1) .. n : ~ About(t[j], o)
    BY <2>1 DEF Latest, n
  <2>3. ASSUME NEW j \in (k + 1 + 1) .. (n + 1) PROVE ~ About(s[j], o)
    <3>1. j - 1 \in (k + 1) .. n /\ j - 1 \in 1 .. n /\ j = j - 1 + 1
      BY <1>2, <2>3, SMT
    <3>2. t[j - 1] = s[j]
      BY <1>2, <3>1
    <3> QED
      BY <2>2, <3>1, <3>2
  <2>4. k + 1 \in 1 .. (n + 1) /\ s[k + 1] = t[k]
    BY <1>2, <1>3
  <2> QED
    BY <1>2, <2>2, <2>3, <2>4 DEF Latest
<1>6. Latest(s, op, o) => Latest(t, op, o) \/ (Settled(t, o) /\ h.type = op /\ h.oid = o)
  <2>1. SUFFICES ASSUME Latest(s, op, o) PROVE Latest(t, op, o) \/ (Settled(t, o) /\ h.type = op /\ h.oid = o)
    OBVIOUS
  <2>2. PICK k \in 1 .. (n + 1) : /\ s[k].type = op /\ s[k].oid = o
                                  /\ \A j \in (k + 1) .. (n + 1) : ~ About(s[j], o)
    BY <1>2, <2>1 DEF Latest
  <2>3. ASSUME NEW j \in 1 .. n, j + 1 > k PROVE ~ About(t[j], o)
    <3>1. j + 1 \in (k + 1) .. (n + 1)
      BY <1>2, <2>3, SMT
    <3> QED
      BY <1>2, <2>2, <3>1
  <2>4. CASE k = 1
    <3>1. \A j \in 1 .. n : j + 1 > k
      BY <1>2, <2>4, SMT
    <3> QED
      BY <1>2, <2>2, <2>3, <2>4, <3>1 DEF Settled, n
  <2>5. CASE k # 1
    <3>1. k - 1 \in 1 .. n /\ k = k - 1 + 1 /\ \A j \in (k - 1 + 1) .. n : j \in 1 .. n /\ j + 1 > k
      BY <1>2, <2>5, SMT
    <3>2. t[k - 1] = s[k]
      BY <1>2, <3>1
    <3>3. \A j \in (k - 1 + 1) .. n : ~ About(t[j], o)
      BY <2>3, <3>1
    <3> QED
      BY <2>2, <3>1, <3>2, <3>3 DEF Latest, n
  <2> QED
    BY <2>4, <2>5
<1>7. Settled(t, o) => ~ Latest(t, op, o)
  BY DEF Settled, Latest, About
<1>8. ASSUME Settled(t, o), About(h, o), op = h.type
      PROVE  Latest(s, op, o)
  <2>1. ASSUME NEW j \in (1 + 1) .. (n + 1) PROVE ~ About(s[j], o)
    <3>1. j - 1 \in 1 .. n /\ j = j - 1 + 1
      BY <1>2, <2>1, SMT
    <3>2. ~ About(t[j - 1], o) /\ t[j - 1] = s[j]
      BY <1>2, <1>8, <3>1 DEF Settled, n
    <3> QED
      BY <3>2
  <2> QED
    BY <1>2, <1>3, <1>8, <2>1 DEF Latest, About
<1>9. ~ About(h, o) => ~ (h.type = op /\ h.oid = o)
  BY DEF About
<1> QED
  BY <1>1, <1>4, <1>5, <1>6, <1>7, <1>8, <1>9

\* Reading a message, and the session.
LEMMA ReadSession ==
  ASSUME NEW s \in Seq(SentPdu), s # <<>>
  PROVE  /\ Opening(s) <=> Head(s).type = "open" \/ Opening(Tail(s))
         /\ Unclosed(Tail(s)) /\ (Head(s).type = "close" => Opening(Tail(s))) => Unclosed(s)
<1>1. PICK t, h : t = Tail(s) /\ h = Head(s)
  OBVIOUS
<1> DEFINE n == Len(t)
<1>2. /\ n \in Nat /\ Len(s) = n + 1 /\ h = s[1]
      /\ \A k \in 1 .. n : t[k] = s[k + 1]
  BY <1>1, TailElements
<1> HIDE DEF n
<1>3. /\ \A k \in 1 .. n : k + 1 \in 1 .. (n + 1)
      /\ \A k \in 1 .. (n + 1) : k = 1 \/ (k - 1 \in 1 .. n /\ k = k - 1 + 1)
      /\ 1 \in 1 .. (n + 1)
  BY <1>2, SMT
<1>4. Opening(s) => h.type = "open" \/ Opening(t)
  <2>1. SUFFICES ASSUME NEW k \in 1 .. (n + 1), s[k].type = "open", k # 1 PROVE Opening(t)
    BY <1>2 DEF Opening
  <2>2. k - 1 \in 1 .. n /\ t[k - 1] = s[k]
    BY <1>2, <1>3, <2>1
  <2> QED
    BY <2>1, <2>2 DEF Opening, n
<1>5. h.type = "open" \/ Opening(t) => Opening(s)
  BY <1>2, <1>3 DEF Opening, n
<1>6. ASSUME Unclosed(t), h.type = "close" => Opening(t)
      PROVE  Unclosed(s)
  <2>1. SUFFICES ASSUME NEW k \in 1 .. (n + 1), s[k].type = "close"
                 PROVE  \E j \in (k + 1) .. (n + 1) : s[j].type = "open"
    BY <1>2 DEF Unclosed
  <2>2. CASE k = 1
    <3>1. PICK j \in 1 .. n : t[j].type = "open"
      BY <1>2, <1>6, <2>1, <2>2 DEF Opening, n
    <3>2. j + 1 \in (k + 1) .. (n + 1) /\ s[j + 1] = t[j]
      BY <1>2, <2>2, SMT
    <3> QED
      BY <3>1, <3>2
  <2>3. CASE k # 1
    <3>1. k - 1 \in 1 .. n /\ t[k - 1] = s[k]
      BY <1>2, <1>3, <2>3
    <3>2. PICK j \in (k - 1 + 1) .. n : t[j].type = "open"
      BY <1>6, <2>1, <3>1 DEF Unclosed, n
    <3>3. j \in 1 .. n /\ j + 1 \in (k + 1) .. (n + 1)
      BY <1>2, <3>1, <3>2, SMT
    <3>4. s[j + 1] = t[j]
      BY <1>2, <3>3
    <3> QED
      BY <3>2, <3>3, <3>4
  <2> QED
    BY <2>2, <2>3
<1> QED
  BY <1>1, <1>4, <1>5, <1>6
-----------------------------------------------------------------------------
\* What a message received may leave: agentx_recv takes the first of n, and sends
\* a response if it is a request.
LEMMA ReceiveFacts ==
  ASSUME TypeInv, NEW n, NEW result, Receive(n, result)
  PROVE  /\ n \in 1 .. Len(rx) /\ Len(rx) \in Nat /\ rx[1] \in Received
         /\ rx' \in Seq(Received) /\ Len(rx') = Len(rx) - n
         /\ \A k \in 1 .. Len(rx') : k + n \in 1 .. Len(rx) /\ rx'[k] = rx[k + n]
         /\ hdr' \in PduIds /\ Listed(last.type, last.list)'
         /\ \/ tx' = tx
            \/ \E p \in SentPdu : /\ p.type = "RESPONSE" /\ Ids(p) = Ids(rx[1]) /\ Answerable(rx[1].type)
                                  /\ p.tid = rx[1].tid /\ tx' = Append(tx, p)
<1> DEFINE m == Head(rx)
<1>0. rx \in Seq(Received) /\ tx \in Seq(SentPdu)
  BY DEF TypeInv
<1>1. n \in 1 .. Len(rx) /\ rx' = SubSeq(rx, n + 1, Len(rx)) /\ agentx_recv(n, result)
  BY DEF Receive
<1>2. Len(rx) \in Nat /\ 1 \in 1 .. Len(rx)
  BY <1>0, <1>1, SMT
<1>3. m = rx[1] /\ m \in Received
  BY <1>0, <1>2, SMT
<1>4. rx' \in Seq(Received) /\ Len(rx') = Len(rx) - n
  BY <1>0, <1>1, SMT
<1>5. \A k \in 1 .. Len(rx') : k + n \in 1 .. Len(rx)
  BY <1>1, <1>2, <1>4, SMT
<1>6. \A k \in 1 .. Len(rx') : rx'[k] = rx[k + n]
  BY <1>0, <1>1, <1>2, <1>4, SMT
<1> HIDE DEF m
<1>7. hdr' = Ids(m) /\ Ids(m) \in PduIds
  BY <1>1, <1>3 DEF agentx_recv, Ids, Received, PduIds, m
<1>8. Listed(m.type, m.list) /\ Listed(last.type, last.list)
  BY <1>2, <1>3 DEF TypeInv
<1>9. Listed(last.type, last.list)'
  <2>1. \/ last' = last
        \/ last' = [type |-> m.type, list |-> m.list, nodes |-> Registered]
    BY <1>1 DEF agentx_recv, m
  <2> QED
    BY <1>8, <2>1, SMT DEF Listed
<1> DEFINE p == agentx_response_pdu(hdr')
<1>10. tx' = tx \/ (Answerable(m.type) /\ tx' = Append(tx, p))
  BY <1>1 DEF agentx_recv, Sends, m
<1>11. p \in SentPdu /\ p.type = "RESPONSE" /\ Ids(p) = Ids(m) /\ p.tid = m.tid
  <2>1. <<>> \in Oids
    BY DEF Oids
  <2>2. hdr'.sid = m.sid /\ hdr'.tid = m.tid /\ hdr'.pid = m.pid
    BY <1>7 DEF Ids
  <2> QED
    BY <1>3, <2>1, <2>2 DEF agentx_response_pdu, Received, SentPdu, Ids
<1> HIDE DEF p
<1> QED
  BY <1>1, <1>2, <1>3, <1>4, <1>5, <1>6, <1>7, <1>9, <1>10, <1>11

\* What a call sends.
LEMMA CallFacts ==
  ASSUME TypeInv, at < Len(script)
  PROVE  /\ at + 1 \in 1 .. Len(script) /\ script[at + 1] \in ScriptCall
         /\ script[at + 1].oid \in Oids
         /\ script[at + 1].op = "open" <=> at = 0
<1>1. script \in Scripts /\ script \in Seq(ScriptCall) /\ (\A k \in 1 .. Len(script) : script[k].op = "open" <=> k = 1)
  BY AgentXAssumption DEF TypeInv
<1>2. at \in Nat /\ Len(script) \in Nat
  BY <1>1, SMT DEF TypeInv
<1>3. at + 1 \in 1 .. Len(script) /\ (at + 1 = 1 <=> at = 0)
  BY <1>2, SMT
<1>4. script[at + 1].oid \in Oids
  BY <1>1, <1>3, SMT DEF Oids
<1> QED
  BY <1>1, <1>3, <1>4, SMT

\* The call in progress.
LEMMA WaitFacts ==
  ASSUME TypeInv, SessionInv, pc = "wait"
  PROVE  /\ at \in 1 .. Len(script) /\ call \in ScriptCall /\ call.oid \in Oids
         /\ call = script[at]
<1>1. script \in Scripts /\ script \in Seq(ScriptCall)
  BY AgentXAssumption DEF TypeInv
<1>2. at \in 1 .. Len(script)
  BY <1>1, SMT DEF TypeInv, SessionInv
<1> QED
  BY <1>1, <1>2, SMT DEF call, Oids

\* A pdu that the sub-agent sends of itself.
LEMMA PduFacts ==
  ASSUME TypeInv, NEW type \in {"open", "reg", "unreg", "close"}, NEW pid \in Nat, NEW o \in Oids
  PROVE  /\ Pdu(type, pid, o) \in SentPdu /\ Pdu(type, pid, o).type = type
         /\ Pdu(type, pid, o).oid = o
BY DEF TypeInv, PduIds, Pdu, SentPdu

\* Deleting oid t leaves the oids that it does not cover.
LEMMA DeleteFacts ==
  ASSUME NEW t, Tree!Delete(t)
  PROVE  Registered' = {x \in Registered : ~ Covers(t, x)}
<1>1. instances' = {x \in instances : ~ Covers(t, x[1])}
  BY DEF Tree!Delete, Tree!Covers, Covers
<1> QED
  BY <1>1 DEF Registered

\* What the rest of a call does to the oids in the tree and to the history.
LEMMA FinishFacts ==
  ASSUME TypeInv, SessionInv, pc = "wait", FinishCall
  PROVE  \/ call.op = "open" /\ Registered' = Registered /\ stale' = stale
         \/ call.op = "reg" /\ Registered' = Registered \cup {call.oid} /\ stale' = stale \ {call.oid}
         \/ call.op = "reg" /\ Registered' = Registered /\ stale' = stale \cup ({call.oid} \ Registered)
         \/ /\ call.op = "unreg" /\ Registered' \subseteq Registered /\ call.oid \notin Registered'
            /\ stale' = (stale \cup (Registered \ Registered')) \ {call.oid}
<1>1. call \in ScriptCall
  BY WaitFacts
<1>2. call.oid \in SmallOID /\ call.oid \in OID /\ Len(call.oid) \in Nat
  BY <1>1, SmallFacts DEF ScriptCall
<1>3. CASE call.op = "open" /\ UNCHANGED <<tree, stale>>
  BY <1>3 DEF tree, Registered
<1>4. CASE call.op = "reg" /\ Tree!Register(call.oid, at) /\ stale' = stale \ {call.oid}
  <2>1. instances' = instances \cup {<<call.oid, at>>}
    BY <1>4 DEF Tree!Register
  <2>2. <<call.oid, at>>[1] = call.oid
    OBVIOUS
  <2>3. Registered' = {x[1] : x \in instances \cup {<<call.oid, at>>}}
    BY <2>1 DEF Registered
  <2>4. Registered' = Registered \cup {call.oid}
    BY <2>2, <2>3, Zenon DEF Registered
  <2> QED
    BY <1>4, <2>4
<1>5. CASE /\ call.op = "reg" /\ Tree!RegisterFails(call.oid, at)
           /\ stale' = stale \cup ({call.oid} \ Registered)
  BY <1>5 DEF Tree!RegisterFails, Registered
<1>6. CASE /\ call.op = "unreg" /\ Tree!Unregister(call.oid)
           /\ stale' = (stale \cup (Registered \ Registered')) \ {call.oid}
  <2>1. PICK t : Tree!Delete(t) /\ Covers(t, call.oid)
    <3>1. CASE Tree!Delete(call.oid)
      <4>1. Covers(call.oid, call.oid)
        BY <1>2, SMT DEF Covers
      <4> QED
        BY <3>1, <4>1
    <3>2. CASE call.oid # <<>> /\ Tree!Delete(SubSeq(call.oid, 1, Len(call.oid) - 1))
      <4>1. Len(call.oid) - 1 \in 0 .. Len(call.oid)
        BY <1>2, <3>2, SMT
      <4>2. Covers(SubSeq(call.oid, 1, Len(call.oid) - 1), call.oid)
        BY <1>2, <4>1, PrefixFacts
      <4> QED
        BY <3>2, <4>2
    <3> QED
      BY <1>6, <3>1, <3>2 DEF Tree!Unregister
  <2>2. Registered' = {x \in Registered : ~ Covers(t, x)}
    BY <2>1, DeleteFacts
  <2> QED
    BY <1>6, <2>1, <2>2
<1> QED
  BY <1>3, <1>4, <1>5, <1>6 DEF FinishCall
-----------------------------------------------------------------------------
\* Types after a step of the sub-agent that reads no message.
LEMMA TypeFrame ==
  ASSUME TypeInv, UNCHANGED <<script, rx, last, master, instances>>,
         at' \in 0 .. Len(script), pc' \in Places, closing' \in BOOLEAN, sock' \in BOOLEAN,
         hdr' \in PduIds, tx' \in Seq(SentPdu)
  PROVE  TypeInv'
<1>1. Registered' = Registered
  BY DEF Registered
<1>2. Listed(last.type, last.list)' /\ \A k \in 1 .. Len(rx') : Listed(rx'[k].type, rx'[k].list)
  BY DEF TypeInv
<1> QED
  BY <1>1, <1>2 DEF TypeInv, master

\* Types after a step that reads one.
LEMMA TypeReceive ==
  ASSUME TypeInv, NEW n, NEW result, Receive(n, result), UNCHANGED <<script, at, master>>,
         pc' \in Places, closing' \in BOOLEAN, sock' \in BOOLEAN, Registered' \subseteq Oids
  PROVE  TypeInv'
<1>1. /\ rx' \in Seq(Received) /\ hdr' \in PduIds /\ Listed(last.type, last.list)'
      /\ \A k \in 1 .. Len(rx') : k + n \in 1 .. Len(rx) /\ rx'[k] = rx[k + n]
  BY ReceiveFacts
<1>2. \A k \in 1 .. Len(rx') : Listed(rx'[k].type, rx'[k].list)
  BY <1>1 DEF TypeInv
<1>3. tx' \in Seq(SentPdu)
  <2>1. tx \in Seq(SentPdu)
    BY DEF TypeInv
  <2>2. tx' = tx \/ \E p \in SentPdu : tx' = Append(tx, p)
    BY ReceiveFacts
  <2> QED
    BY <2>1, <2>2, SMT
<1> QED
  BY <1>1, <1>2, <1>3 DEF TypeInv, master

\* A message of the sub-agent's own, if it is sent at all.
LEMMA SendFacts ==
  ASSUME TypeInv, NEW p \in SentPdu, NEW result, Sends(p, result)
  PROVE  tx' \in Seq(SentPdu) /\ (tx' = tx \/ tx' = Append(tx, p))
<1>1. tx \in Seq(SentPdu)
  BY DEF TypeInv
<1>2. tx' = tx \/ tx' = Append(tx, p)
  BY DEF Sends
<1> QED
  BY <1>1, <1>2, SMT

\* The pdu of SendCall.
LEMMA SendCallFacts ==
  ASSUME TypeInv, SendCall
  PROVE  /\ pc = "call" /\ at' = at + 1 /\ at + 1 \in 1 .. Len(script)
         /\ hdr' \in PduIds /\ pc' \in {"wait", "call", "aborted"}
         /\ instances' = instances /\ tx' \in Seq(SentPdu)
         /\ \E p \in SentPdu : /\ p.type = script[at + 1].op /\ p.oid = script[at + 1].oid
                               /\ sock /\ peer => tx' = Append(tx, p) /\ pc' = "wait"
                               /\ tx' = tx \/ tx' = Append(tx, p)
         /\ UNCHANGED <<script, closing, signals, sock, master, rx, last, lost, stale>>
<1> DEFINE c == script[at + 1]
           pid == IF c.op = "open" THEN 1 ELSE hdr.pid + 1
           p == Pdu(c.op, pid, c.oid)
<1>1. /\ pc = "call" /\ at < Len(script) /\ at' = at + 1
      /\ hdr' = IF c.op = "open" THEN hdr ELSE [hdr EXCEPT !.pid = pid]
      /\ UNCHANGED <<script, closing, signals, sock, master, rx, last, lost, stale>>
  BY DEF SendCall
<1>2. PICK result \in SendResults :
        /\ Sends(p, result)
        /\ \/ result = "ok" /\ pc' = "wait" /\ UNCHANGED tree
           \/ result = "fail" /\ Fail(c, at + 1)
           \/ result = "killed" /\ pc' = "aborted" /\ UNCHANGED tree
  BY DEF SendCall
<1>3. at + 1 \in 1 .. Len(script) /\ c \in ScriptCall /\ c.oid \in Oids
  BY <1>1, CallFacts
<1>4. hdr \in PduIds /\ pid \in Nat /\ hdr' \in PduIds
  BY <1>1, SMT DEF TypeInv, PduIds
<1>5. c.op \in {"open", "reg", "unreg", "close"} /\ c.oid \in Oids
  BY <1>3 DEF ScriptCall
<1> HIDE DEF pid, c
<1>6. p \in SentPdu /\ p.type = c.op /\ p.oid = c.oid
  BY <1>4, <1>5, PduFacts, SMT
<1> HIDE DEF p
<1>7. instances' = instances /\ pc' \in {"wait", "call", "aborted"}
  BY <1>2 DEF tree, Fail
<1>8. sock /\ peer => result = "ok" /\ tx' = Append(tx, p)
  BY <1>2 DEF SendResults, Sends
<1>9. sock /\ peer => tx' = Append(tx, p) /\ pc' = "wait"
  BY <1>2, <1>8
<1>10. tx' \in Seq(SentPdu) /\ (tx' = tx \/ tx' = Append(tx, p))
  BY <1>2, <1>6, SendFacts
<1> QED
  BY <1>1, <1>3, <1>4, <1>6, <1>7, <1>9, <1>10 DEF c

\* The pdu of sig_int_handler.
LEMMA SignalFacts ==
  ASSUME TypeInv, sig_int_handler
  PROVE  /\ hdr' \in PduIds /\ pc' \in {pc, "aborted"} /\ closing' \in BOOLEAN
         /\ tx' \in Seq(SentPdu) /\ pc # "init"
         /\ \E p \in SentPdu : /\ p.type = "close" /\ (sock /\ peer => tx' = Append(tx, p))
                               /\ tx' = tx \/ tx' = Append(tx, p)
         /\ UNCHANGED <<script, at, sock, tree, master, rx, last, lost, stale>>
<1> DEFINE p == Pdu("close", hdr.pid + 1, <<>>)
<1>1. /\ hdr' = [hdr EXCEPT !.pid = @ + 1] /\ pc # "init"
      /\ UNCHANGED <<script, at, sock, tree, master, rx, last, lost, stale>>
  BY DEF sig_int_handler
<1>2. PICK result \in SendResults :
        /\ Sends(p, result) /\ closing' = (result = "ok")
        /\ pc' = IF result = "killed" THEN "aborted" ELSE pc
  BY DEF sig_int_handler
<1>3. hdr \in PduIds /\ hdr.pid + 1 \in Nat /\ hdr' \in PduIds
  BY <1>1, SMT DEF TypeInv, PduIds
<1>4. p \in SentPdu /\ p.type = "close"
  <2>1. <<>> \in Oids
    BY DEF Oids
  <2> QED
    BY <1>3, <2>1, PduFacts, SMT
<1> HIDE DEF p
<1>5. sock /\ peer => tx' = Append(tx, p)
  BY <1>2 DEF SendResults, Sends
<1>6. tx' \in Seq(SentPdu) /\ (tx' = tx \/ tx' = Append(tx, p))
  BY <1>2, <1>4, SendFacts
<1> QED
  BY <1>1, <1>2, <1>3, <1>4, <1>5, <1>6

\* What the master does with a message, and the reply.
LEMMA ReplyFacts ==
  ASSUME TypeInv, MasterReplies
  PROVE  LET m == tx[1]
         IN  /\ peer /\ tx # <<>> /\ tx' = Tail(tx) /\ Head(tx) = m /\ m \in SentPdu
             /\ \E r \in Received : r.type = "RESPONSE" /\ rx' = Append(rx, r)
             /\ \/ m.type = "open" /\ session' \in {session, 1} /\ UNCHANGED <<mreg, refused>>
                \/ /\ m.type = "reg" /\ session # 0 /\ mreg' = mreg \cup {m.oid}
                   /\ refused' = refused \ {m.oid} /\ session' = session
                \/ m.type = "reg" /\ refused' = refused \cup {m.oid} /\ UNCHANGED <<session, mreg>>
                \/ m.type = "unreg" /\ mreg' = mreg \ {m.oid} /\ UNCHANGED <<session, refused>>
                \/ m.type = "close" /\ session' = 0 /\ mreg' = {} /\ UNCHANGED refused
             /\ UNCHANGED <<agent, tree, peer, asked, owed, hdr, last, lost, stale>>
<1> DEFINE m == tx[1]
           R(e, sid) == [type |-> "RESPONSE", list |-> <<>>, sid |-> sid,
                         tid |-> m.tid, pid |-> m.pid, error |-> e]
<1>1. /\ peer /\ tx # <<>> /\ tx' = Tail(tx)
      /\ UNCHANGED <<agent, tree, peer, asked, owed, hdr, last, lost, stale>>
  BY DEF MasterReplies
<1>2. Head(tx) = m /\ m \in SentPdu
  BY <1>1, SMT DEF TypeInv
<1> HIDE DEF m
<1>3. \/ m.type = "open" /\ session' = 1 /\ rx' = Append(rx, R(0, 1)) /\ UNCHANGED <<mreg, refused>>
      \/ m.type = "open" /\ rx' = Append(rx, R(256, 0)) /\ UNCHANGED <<session, mreg, refused>>
      \/ /\ m.type = "reg" /\ session # 0 /\ mreg' = mreg \cup {m.oid} /\ refused' = refused \ {m.oid}
         /\ rx' = Append(rx, R(0, m.sid)) /\ UNCHANGED session
      \/ /\ m.type = "reg" /\ refused' = refused \cup {m.oid}
         /\ rx' = Append(rx, R(263, m.sid)) /\ UNCHANGED <<session, mreg>>
      \/ /\ m.type = "unreg" /\ mreg' = mreg \ {m.oid}
         /\ rx' = Append(rx, R(0, m.sid)) /\ UNCHANGED <<session, refused>>
      \/ /\ m.type = "close" /\ session' = 0 /\ mreg' = {}
         /\ rx' = Append(rx, R(0, m.sid)) /\ UNCHANGED refused
  BY <1>2 DEF MasterReplies
<1>4. \A e, sid \in Nat : R(e, sid) \in Received /\ R(e, sid).type = "RESPONSE"
  BY <1>2 DEF Received, SentPdu
<1>5. m.sid \in Nat
  BY <1>2 DEF SentPdu
<1> HIDE DEF R
<1>6. \E e, sid \in Nat : rx' = Append(rx, R(e, sid))
  BY <1>3, <1>5, SMT
<1>7. \E r \in Received : r.type = "RESPONSE" /\ rx' = Append(rx, r)
  BY <1>4, <1>6
<1> QED
  BY <1>1, <1>2, <1>3, <1>7 DEF m

\* A request of the master.
LEMMA AskFacts ==
  ASSUME TypeInv, NEW r \in Requests, MasterAsks(r)
  PROVE  /\ \E m \in Received :
              /\ m.type = r.type /\ m.list = r.list /\ m.tid = asked + 1 /\ Ids(m) \in PduIds
              /\ m.type # "RESPONSE" /\ Ids(m).tid = asked + 1
              /\ rx' = Append(rx, m)
              /\ owed' = IF Answerable(m.type) THEN owed \cup {Ids(m)} ELSE owed
         /\ asked' = asked + 1 /\ peer
         /\ UNCHANGED <<agent, tree, peer, session, mreg, refused, hdr, tx, last, lost, stale>>
<1> DEFINE m == [type |-> r.type, list |-> r.list, sid |-> session, tid |-> asked + 1,
                 pid |-> asked + 1, error |-> 0]
<1>1. session \in Nat /\ asked \in Nat
  BY DEF TypeInv
<1>2. m \in Received /\ Ids(m) \in PduIds /\ Ids(m).tid = asked + 1
  BY <1>1, SMT DEF Received, Ids, PduIds
<1>3. m.type # "RESPONSE"
  BY AgentXAssumption
<1> QED
  BY <1>2, <1>3 DEF MasterAsks

\* Every step keeps the types.
LEMMA TypeStep ==
  ASSUME TypeInv, SessionInv, [Next]_vars
  PROVE  TypeInv'
<1>0. /\ at \in 0 .. Len(script) /\ at \in Nat /\ Len(script) \in Nat /\ pc \in Places
      /\ closing \in BOOLEAN /\ sock \in BOOLEAN /\ hdr \in PduIds /\ tx \in Seq(SentPdu)
      /\ rx \in Seq(Received) /\ Registered \subseteq Oids
  <2>1. script \in Seq(ScriptCall)
    BY AgentXAssumption DEF TypeInv
  <2> QED
    BY <2>1, SMT DEF TypeInv
<1>1. CASE smartsnmp_init
  BY <1>0, <1>1, TypeFrame DEF smartsnmp_init, tree, Places
<1>2. CASE SendCall
  <2>1. at' \in 0 .. Len(script) /\ pc' \in Places
    BY <1>0, <1>2, SendCallFacts, SMT DEF Places
  <2>2. /\ hdr' \in PduIds /\ instances' = instances /\ tx' \in Seq(SentPdu)
        /\ UNCHANGED <<script, closing, sock, master, rx, last>>
    BY <1>2, SendCallFacts
  <2> QED
    BY <1>0, <2>1, <2>2, TypeFrame
<1>3. CASE RefuseCall
  <2>1. at' \in 0 .. Len(script) /\ pc' \in Places /\ instances' = instances
    BY <1>0, <1>3, SMT DEF RefuseCall, Fail, tree, Places
  <2> QED
    BY <1>0, <1>3, <2>1, TypeFrame DEF RefuseCall
<1>4. CASE CallBroken
  <2>1. pc' \in Places /\ instances' = instances
    BY <1>4 DEF CallBroken, Fail, tree, Places
  <2> QED
    BY <1>0, <1>4, <2>1, TypeFrame DEF CallBroken
<1>5. CASE smartsnmp_run \/ SignalInRecv
  BY <1>0, <1>5, TypeFrame DEF smartsnmp_run, SignalInRecv, tree, Places
<1>6. CASE CloseBroken
  <2>1. pc' \in Places
    BY <1>0, <1>6 DEF CloseBroken, Places
  <2> QED
    BY <1>0, <1>6, <2>1, TypeFrame DEF CloseBroken, tree
<1>7. ASSUME NEW n \in 1 .. Len(rx), NEW result \in Results, CloseReceives(n, result)
      PROVE  TypeInv'
  <2>1. /\ Receive(n, result) /\ closing' = FALSE /\ pc' \in Places /\ sock' \in BOOLEAN
        /\ UNCHANGED <<script, at, master>> /\ UNCHANGED tree
    BY <1>0, <1>7 DEF CloseReceives, transport_stop, Places
  <2>2. Registered' \subseteq Oids
    BY <1>0, <2>1 DEF tree, Registered
  <2> QED
    BY <2>1, <2>2, TypeReceive
<1>8. CASE ReadHandlerBroken
  BY <1>0, <1>8, TypeFrame DEF ReadHandlerBroken, tree, Places
<1>9. ASSUME NEW n \in 1 .. Len(rx), NEW result \in Results, CallReceives(n, result)
      PROVE  TypeInv'
  <2>1. /\ Receive(n, result) /\ UNCHANGED <<script, at, closing, sock, master>> /\ pc = "wait"
        /\ pc' \in Places
    BY <1>9 DEF CallReceives, Fail, Places
  <2>2. UNCHANGED instances \/ FinishCall
    BY <1>9 DEF CallReceives, Fail, tree
  <2>3. Registered' \subseteq Registered \cup {call.oid}
    <3>1. CASE UNCHANGED instances
      BY <3>1 DEF Registered
    <3>2. CASE FinishCall
      BY <2>1, <3>2, FinishFacts
    <3> QED
      BY <2>2, <3>1, <3>2
  <2>4. Registered' \subseteq Oids
    BY <1>0, <2>1, <2>3, WaitFacts
  <2> QED
    BY <1>0, <2>1, <2>4, TypeReceive
<1>10. ASSUME NEW n \in 1 .. Len(rx), NEW result \in Results, agentx_read_handler(n, result)
       PROVE  TypeInv'
  <2>1. /\ Receive(n, result) /\ UNCHANGED <<script, at, closing, sock, master>> /\ UNCHANGED tree
        /\ pc' \in Places
    BY <1>10 DEF agentx_read_handler, Places
  <2>2. Registered' \subseteq Oids
    BY <1>0, <2>1 DEF tree, Registered
  <2> QED
    BY <1>0, <2>1, <2>2, TypeReceive
<1>11. CASE sig_int_handler
  <2>1. /\ hdr' \in PduIds /\ pc' \in {pc, "aborted"} /\ closing' \in BOOLEAN /\ tx' \in Seq(SentPdu)
        /\ UNCHANGED <<script, at, sock, tree, master, rx, last>>
    BY <1>11, SignalFacts
  <2> QED
    BY <1>0, <2>1, TypeFrame DEF tree, Places
<1>12. CASE MasterReplies
  <2> DEFINE m == tx[1]
  <2>1. /\ tx # <<>> /\ tx' = Tail(tx) /\ m \in SentPdu
        /\ UNCHANGED <<agent, tree, peer, asked, owed, hdr, last>>
    BY <1>12, ReplyFacts
  <2>2. session' \in {session, 0, 1} /\ mreg' \subseteq mreg \cup {m.oid}
    BY <1>12, ReplyFacts
  <2>3. PICK r \in Received : r.type = "RESPONSE" /\ rx' = Append(rx, r)
    BY <1>12, ReplyFacts
  <2>4. tx' \in Seq(SentPdu)
    BY <1>0, <2>1, TailElements
  <2>5. rx' \in Seq(Received)
    BY <1>0, <2>3, SMT
  <2>6. ASSUME NEW k \in 1 .. Len(rx') PROVE Listed(rx'[k].type, rx'[k].list)
    <3>1. CASE k \in 1 .. Len(rx)
      BY <1>0, <2>3, <3>1, AppendElements, SMT DEF TypeInv
    <3>2. CASE k = Len(rx) + 1
      BY <1>0, <2>3, <3>2, AppendElements, SMT DEF Listed
    <3> QED
      BY <1>0, <2>3, <3>1, <3>2, SMT
  <2>7. m.oid \in Oids /\ mreg' \subseteq Oids
    BY <2>1, <2>2 DEF SentPdu, TypeInv
  <2>8. Registered' = Registered
    BY <2>1 DEF Registered, tree
  <2>9. session' \in Nat
    BY <2>2, SMT DEF TypeInv
  <2> QED
    BY <2>1, <2>4, <2>5, <2>6, <2>7, <2>8, <2>9 DEF TypeInv, agent
<1>13. CASE MasterTakes
  <2>1. /\ tx # <<>> /\ tx' = Tail(tx) /\ owed' = owed \ {Ids(Head(tx))} /\ last' = Nothing
        /\ UNCHANGED <<agent, tree, peer, session, mreg, asked, hdr, rx>>
    BY <1>13 DEF MasterTakes
  <2>2. tx' \in Seq(SentPdu) /\ owed' \subseteq PduIds
    BY <1>0, <2>1, TailElements DEF TypeInv
  <2>3. Listed(last.type, last.list)'
    BY <2>1 DEF Nothing, Listed
  <2>4. Registered' = Registered /\ \A k \in 1 .. Len(rx') : Listed(rx'[k].type, rx'[k].list)
    BY <2>1 DEF Registered, tree, TypeInv
  <2> QED
    BY <2>1, <2>2, <2>3, <2>4 DEF TypeInv, agent
<1>14. CASE MasterLeaves
  <2>1. /\ tx' = <<>> /\ last' = Nothing /\ session' = 0 /\ mreg' = {} /\ peer' = FALSE
        /\ UNCHANGED <<agent, tree, asked, owed, hdr, rx>>
    BY <1>14 DEF MasterLeaves
  <2>2. Listed(last.type, last.list)'
    BY <2>1 DEF Nothing, Listed
  <2>3. Registered' = Registered /\ \A k \in 1 .. Len(rx') : Listed(rx'[k].type, rx'[k].list)
    BY <2>1 DEF Registered, tree, TypeInv
  <2>4. tx' \in Seq(SentPdu)
    BY <2>1, SMT
  <2> QED
    BY <2>1, <2>2, <2>3, <2>4 DEF TypeInv, agent
<1>15. ASSUME NEW r \in Requests, MasterAsks(r)
       PROVE  TypeInv'
  <2>1. PICK m \in Received :
          /\ m.type = r.type /\ m.list = r.list /\ Ids(m) \in PduIds /\ rx' = Append(rx, m)
          /\ owed' = IF Answerable(m.type) THEN owed \cup {Ids(m)} ELSE owed
    BY <1>15, AskFacts
  <2>2. /\ asked' = asked + 1
        /\ UNCHANGED <<agent, tree, peer, session, mreg, hdr, tx, last>>
    BY <1>15, AskFacts
  <2>3. Listed(m.type, m.list)
    BY <2>1, AgentXAssumption DEF Listed
  <2>4. ASSUME NEW k \in 1 .. Len(rx') PROVE Listed(rx'[k].type, rx'[k].list)
    <3>1. CASE k \in 1 .. Len(rx)
      BY <1>0, <2>1, <3>1, AppendElements, SMT DEF TypeInv
    <3>2. CASE k = Len(rx) + 1
      BY <1>0, <2>1, <2>3, <3>2, AppendElements, SMT
    <3> QED
      BY <1>0, <2>1, <3>1, <3>2, SMT
  <2>5. rx' \in Seq(Received)
    BY <1>0, <2>1, SMT
  <2>6. owed' \subseteq PduIds /\ asked' \in Nat
    BY <2>1, <2>2, SMT DEF TypeInv
  <2>7. Registered' = Registered /\ Listed(last.type, last.list)'
    BY <2>2 DEF Registered, tree, TypeInv
  <2> QED
    BY <2>2, <2>4, <2>5, <2>6, <2>7 DEF TypeInv, agent
<1>16. CASE UNCHANGED vars
  <2>1. UNCHANGED <<script, rx, last, master, instances, at, pc, closing, sock, hdr, tx>>
    BY <1>16 DEF vars, agent, tree
  <2> QED
    BY <1>0, <2>1, TypeFrame
<1> QED
  BY <1>1, <1>2, <1>3, <1>4, <1>5, <1>6, <1>7, <1>8, <1>9, <1>10, <1>11, <1>12, <1>13, <1>14, <1>15, <1>16
     DEF Next, Agent, Call, Close, Reading
-----------------------------------------------------------------------------
\* The numbers of the messages.
LEMMA OrderTypes ==
  ASSUME TypeInv
  PROVE  /\ Len(rx) \in Nat /\ Len(tx) \in Nat /\ asked \in Nat
         /\ \A k \in 1 .. Len(rx) : rx[k].tid \in Nat /\ Ids(rx[k]).tid = rx[k].tid
         /\ \A k \in 1 .. Len(tx) : tx[k].tid \in Nat /\ Ids(tx[k]).tid = tx[k].tid
<1>1. rx \in Seq(Received) /\ tx \in Seq(SentPdu) /\ asked \in Nat
  BY DEF TypeInv
<1>2. \A m \in Received : m.tid \in Nat /\ Ids(m).tid = m.tid
  BY DEF Received, Ids
<1>3. \A m \in SentPdu : m.tid \in Nat /\ Ids(m).tid = m.tid
  BY DEF SentPdu, Ids
<1> QED
  BY <1>1, <1>2, <1>3, SMT

\* Order after a step that reads nothing, and sends no response.
LEMMA OrderFrame ==
  ASSUME TypeInv, OrderInv, UNCHANGED <<rx, asked, owed>>,
         \/ tx' = tx
         \/ \E p \in SentPdu : p.type # "RESPONSE" /\ tx' = Append(tx, p)
  PROVE  OrderInv'
<1>1. CASE tx' = tx
  BY <1>1 DEF OrderInv, ResponsesMatch
<1>2. ASSUME NEW p \in SentPdu, p.type # "RESPONSE", tx' = Append(tx, p)
      PROVE  OrderInv'
  <2>1. /\ Len(tx') = Len(tx) + 1 /\ Len(tx) \in Nat /\ tx'[Len(tx) + 1].type # "RESPONSE"
        /\ \A k \in 1 .. Len(tx) : tx'[k] = tx[k]
    BY <1>2, AppendElements, SMT DEF TypeInv
  <2>2. \A k \in 1 .. Len(tx') : tx'[k].type = "RESPONSE" => k \in 1 .. Len(tx) /\ tx'[k] = tx[k]
    BY <2>1, SMT
  <2>3. \A k \in 1 .. Len(tx') : \A j \in 1 .. (k - 1) : j \in 1 .. Len(tx')
    BY <2>1, SMT
  <2>4. ResponsesMatch'
    BY <2>2, <2>3 DEF OrderInv, ResponsesMatch
  <2>5. \A j \in 1 .. Len(tx'), k \in 1 .. Len(rx) :
          tx'[j].type = "RESPONSE" /\ Answerable(rx[k].type) => tx'[j].tid < rx[k].tid
    BY <2>2 DEF OrderInv
  <2> QED
    BY <2>4, <2>5 DEF OrderInv
<1> QED
  BY <1>1, <1>2

\* Order after a step that reads a message, and answers it.
LEMMA OrderReceive ==
  ASSUME TypeInv, OrderInv, NEW n, NEW result, Receive(n, result), UNCHANGED master
  PROVE  OrderInv'
<1>1. /\ n \in 1 .. Len(rx) /\ Len(rx) \in Nat /\ Len(rx') = Len(rx) - n
      /\ \A k \in 1 .. Len(rx') : k + n \in 1 .. Len(rx) /\ rx'[k] = rx[k + n]
  BY ReceiveFacts
<1>2. UNCHANGED <<asked, owed>>
  BY DEF master
<1>3. /\ n \in Nat /\ n >= 1 /\ Len(rx') \in Nat /\ 1 \in 1 .. Len(rx)
      /\ \A k \in 1 .. Len(rx') : 1 \in 1 .. (k + n - 1)
      /\ \A k \in 1 .. Len(rx') : \A j \in 1 .. (k - 1) : j + n \in 1 .. (k + n - 1) /\ j \in 1 .. Len(rx')
  BY <1>1, SMT
<1>4. \A x \in owed' : x.tid <= asked'
  BY <1>2 DEF OrderInv
<1>5. ASSUME NEW k \in 1 .. Len(rx'), Answerable(rx'[k].type)
      PROVE  /\ Ids(rx'[k]) \in owed'
             /\ \A j \in 1 .. (k - 1) : Answerable(rx'[j].type) => rx'[j].tid < rx'[k].tid
             /\ Answerable(rx[1].type) => rx[1].tid < rx'[k].tid
             /\ \A j \in 1 .. Len(tx) : tx[j].type = "RESPONSE" => tx[j].tid < rx'[k].tid
  <2>1. PICK l \in 1 .. Len(rx) : l = k + n /\ rx'[k] = rx[l]
    BY <1>1
  <2>2. 1 \in 1 .. (l - 1) /\ \A j \in 1 .. (k - 1) : j + n \in 1 .. (l - 1) /\ rx'[j] = rx[j + n]
    BY <1>1, <1>3, <2>1, SMT
  <2>3. /\ Ids(rx[l]) \in owed
        /\ \A i \in 1 .. (l - 1) : Answerable(rx[i].type) => rx[i].tid < rx[l].tid
    BY <1>5, <2>1 DEF OrderInv
  <2>4. \A j \in 1 .. Len(tx) : tx[j].type = "RESPONSE" => tx[j].tid < rx[l].tid
    BY <1>5, <2>1 DEF OrderInv
  <2> QED
    BY <1>2, <2>1, <2>2, <2>3, <2>4
<1>6. CASE tx' = tx
  <2>1. ResponsesMatch'
    BY <1>2, <1>6 DEF OrderInv, ResponsesMatch
  <2> QED
    BY <1>4, <1>5, <1>6, <2>1 DEF OrderInv
<1>7. ASSUME NEW p \in SentPdu, p.type = "RESPONSE", Ids(p) = Ids(rx[1]), Answerable(rx[1].type),
             p.tid = rx[1].tid, tx' = Append(tx, p)
      PROVE  OrderInv'
  <2>1. /\ Len(tx') = Len(tx) + 1 /\ Len(tx) \in Nat /\ tx'[Len(tx) + 1] = p
        /\ \A k \in 1 .. Len(tx) : tx'[k] = tx[k]
    BY <1>7, AppendElements, SMT DEF TypeInv
  <2>2. /\ \A k \in 1 .. Len(tx') : k \in 1 .. Len(tx) \/ k = Len(tx) + 1
        /\ \A k \in 1 .. Len(tx) : \A j \in 1 .. (k - 1) : j \in 1 .. Len(tx)
        /\ \A j \in 1 .. (Len(tx) + 1 - 1) : j \in 1 .. Len(tx)
    BY <2>1, SMT
  <2>3. Ids(p) \in owed /\ \A j \in 1 .. Len(tx) : tx[j].type = "RESPONSE" => tx[j].tid < p.tid
    BY <1>3, <1>7 DEF OrderInv
  <2>4. ASSUME NEW k \in 1 .. Len(tx'), tx'[k].type = "RESPONSE"
        PROVE  /\ Ids(tx'[k]) \in owed'
               /\ \A j \in 1 .. (k - 1) : tx'[j].type = "RESPONSE" => tx'[j].tid < tx'[k].tid
    <3>1. CASE k \in 1 .. Len(tx)
      BY <1>2, <2>1, <2>2, <2>4, <3>1 DEF OrderInv, ResponsesMatch
    <3>2. CASE k = Len(tx) + 1
      BY <1>2, <2>1, <2>2, <2>3, <3>2, SMT
    <3> QED
      BY <2>2, <3>1, <3>2
  <2>5. ResponsesMatch'
    BY <2>4 DEF ResponsesMatch
  <2>6. ASSUME NEW j \in 1 .. Len(tx'), NEW k \in 1 .. Len(rx'), tx'[j].type = "RESPONSE", Answerable(rx'[k].type)
        PROVE  tx'[j].tid < rx'[k].tid
    BY <1>5, <1>7, <2>1, <2>2, <2>6
  <2> QED
    BY <1>4, <1>5, <2>5, <2>6 DEF OrderInv
<1> QED
  BY <1>6, <1>7, ReceiveFacts

\* Order after a step of the master that takes a message.
LEMMA OrderTail ==
  ASSUME TypeInv, OrderInv, tx # <<>>, tx' = Tail(tx), asked' = asked, owed' \subseteq owed,
         \A k \in 1 .. Len(tx') : tx'[k].type = "RESPONSE" => Ids(tx'[k]) \in owed',
         \A k \in 1 .. Len(rx) : Answerable(rx[k].type) => Ids(rx[k]) \in owed',
         \/ rx' = rx
         \/ \E r \in Received : ~ Answerable(r.type) /\ rx' = Append(rx, r)
  PROVE  OrderInv'
<1>1. /\ Len(tx) = Len(tx') + 1 /\ Len(tx') \in Nat
      /\ \A k \in 1 .. Len(tx') : tx'[k] = tx[k + 1]
  BY TailElements DEF TypeInv
<1>2. /\ \A k \in 1 .. Len(tx') : k + 1 \in 1 .. Len(tx)
      /\ \A k \in 1 .. Len(tx') : \A j \in 1 .. (k - 1) : j \in 1 .. Len(tx') /\ j + 1 \in 1 .. (k + 1 - 1)
  BY <1>1, SMT
<1>3. \A k \in 1 .. Len(rx') : Answerable(rx'[k].type) => k \in 1 .. Len(rx) /\ rx'[k] = rx[k]
  <2>1. CASE rx' = rx
    BY <2>1
  <2>2. ASSUME NEW r \in Received, ~ Answerable(r.type), rx' = Append(rx, r)
        PROVE  \A k \in 1 .. Len(rx') : Answerable(rx'[k].type) => k \in 1 .. Len(rx) /\ rx'[k] = rx[k]
    <3>1. /\ Len(rx') = Len(rx) + 1 /\ Len(rx) \in Nat /\ rx'[Len(rx) + 1] = r
          /\ \A k \in 1 .. Len(rx) : rx'[k] = rx[k]
      BY <2>2, AppendElements, SMT DEF TypeInv
    <3>2. \A k \in 1 .. Len(rx') : k \in 1 .. Len(rx) \/ k = Len(rx) + 1
      BY <3>1, SMT
    <3> QED
      BY <2>2, <3>1, <3>2
  <2> QED
    BY <2>1, <2>2
<1>4. Len(rx') \in Nat /\ \A k \in 1 .. Len(rx') : \A j \in 1 .. (k - 1) : j \in 1 .. Len(rx')
  BY AppendElements, SMT DEF TypeInv
<1>5. ASSUME NEW k \in 1 .. Len(rx'), Answerable(rx'[k].type)
      PROVE  /\ Ids(rx'[k]) \in owed'
             /\ \A j \in 1 .. (k - 1) : Answerable(rx'[j].type) => rx'[j].tid < rx'[k].tid
  BY <1>3, <1>4, <1>5 DEF OrderInv
<1>6. ASSUME NEW j \in 1 .. Len(tx'), NEW k \in 1 .. Len(rx'), tx'[j].type = "RESPONSE", Answerable(rx'[k].type)
      PROVE  tx'[j].tid < rx'[k].tid
  BY <1>1, <1>2, <1>3, <1>6 DEF OrderInv
<1>7. ASSUME NEW k \in 1 .. Len(tx'), tx'[k].type = "RESPONSE",
             NEW j \in 1 .. (k - 1), tx'[j].type = "RESPONSE"
      PROVE  tx'[j].tid < tx'[k].tid
  <2>1. tx'[k] = tx[k + 1] /\ tx'[j] = tx[j + 1] /\ k + 1 \in 1 .. Len(tx) /\ j + 1 \in 1 .. (k + 1 - 1)
    BY <1>1, <1>2
  <2> QED
    BY <1>7, <2>1, SMT DEF OrderInv, ResponsesMatch
<1>8. ResponsesMatch'
  BY <1>7 DEF ResponsesMatch
<1>9. \A x \in owed' : x.tid <= asked'
  BY DEF OrderInv
<1> QED
  BY <1>5, <1>6, <1>8, <1>9 DEF OrderInv

\* Every step keeps the order of requests and responses.
LEMMA OrderStep ==
  ASSUME TypeInv, OrderInv, [Next]_vars
  PROVE  OrderInv'
<1>1. CASE \/ smartsnmp_init \/ RefuseCall \/ CallBroken \/ smartsnmp_run
           \/ ReadHandlerBroken \/ CloseBroken \/ SignalInRecv
  <2>1. UNCHANGED <<rx, tx, master>>
    BY <1>1
       DEF smartsnmp_init, RefuseCall, CallBroken, smartsnmp_run, ReadHandlerBroken, CloseBroken, SignalInRecv
  <2> QED
    BY <2>1, OrderFrame DEF master
<1>2. CASE SendCall
  <2>1. PICK p \in SentPdu : p.type = script[at + 1].op /\ (tx' = tx \/ tx' = Append(tx, p))
    BY <1>2, SendCallFacts
  <2>2. UNCHANGED <<rx, master>>
    BY <1>2, SendCallFacts
  <2>3. script[at + 1] \in ScriptCall
    BY <1>2, CallFacts DEF SendCall
  <2>4. p.type # "RESPONSE"
    BY <2>1, <2>3 DEF ScriptCall
  <2> QED
    BY <2>1, <2>2, <2>4, OrderFrame DEF master
<1>3. ASSUME NEW n \in 1 .. Len(rx), NEW result \in Results,
             CallReceives(n, result) \/ agentx_read_handler(n, result) \/ CloseReceives(n, result)
      PROVE  OrderInv'
  <2>1. Receive(n, result) /\ UNCHANGED master
    BY <1>3 DEF CallReceives, agentx_read_handler, CloseReceives
  <2> QED
    BY <2>1, OrderReceive
<1>4. CASE sig_int_handler
  <2>1. PICK p \in SentPdu : p.type = "close" /\ (tx' = tx \/ tx' = Append(tx, p))
    BY <1>4, SignalFacts
  <2>2. UNCHANGED <<rx, master>>
    BY <1>4, SignalFacts
  <2> QED
    BY <2>1, <2>2, OrderFrame DEF master
<1>5. CASE MasterReplies
  <2>1. tx # <<>> /\ tx' = Tail(tx) /\ UNCHANGED <<asked, owed>>
    BY <1>5, ReplyFacts
  <2>2. PICK r \in Received : r.type = "RESPONSE" /\ rx' = Append(rx, r)
    BY <1>5, ReplyFacts
  <2>3. ~ Answerable(r.type)
    BY <2>2 DEF Answerable
  <2>4. \A k \in 1 .. Len(rx) : Answerable(rx[k].type) => Ids(rx[k]) \in owed'
    BY <2>1 DEF OrderInv
  <2>5. ASSUME NEW k \in 1 .. Len(tx'), tx'[k].type = "RESPONSE" PROVE Ids(tx'[k]) \in owed'
    <3>1. k + 1 \in 1 .. Len(tx) /\ tx'[k] = tx[k + 1]
      BY <2>1, TailElements, SMT DEF TypeInv
    <3> QED
      BY <2>1, <2>5, <3>1 DEF OrderInv, ResponsesMatch
  <2> QED
    BY <2>1, <2>2, <2>3, <2>4, <2>5, OrderTail
<1>6. CASE MasterTakes
  <2>1. /\ tx # <<>> /\ Head(tx).type = "RESPONSE" /\ tx' = Tail(tx) /\ owed' = owed \ {Ids(Head(tx))}
        /\ UNCHANGED <<asked, rx>>
    BY <1>6 DEF MasterTakes
  <2>2. Head(tx) = tx[1] /\ 1 \in 1 .. Len(tx) /\ tx[1].tid \in Nat /\ Ids(tx[1]).tid = tx[1].tid
    BY <2>1, TailElements, OrderTypes, SMT DEF TypeInv
  <2>3. ASSUME NEW k \in 1 .. Len(rx), Answerable(rx[k].type) PROVE Ids(rx[k]) \in owed'
    <3>1. Ids(rx[k]) \in owed /\ tx[1].tid < rx[k].tid
      BY <2>1, <2>2, <2>3 DEF OrderInv
    <3>2. rx[k].tid \in Nat /\ Ids(rx[k]).tid = rx[k].tid
      BY OrderTypes
    <3>3. Ids(rx[k]) # Ids(tx[1])
      BY <2>2, <3>1, <3>2, SMT
    <3> QED
      BY <2>1, <2>2, <3>1, <3>3
  <2>4. ASSUME NEW k \in 1 .. Len(tx'), tx'[k].type = "RESPONSE" PROVE Ids(tx'[k]) \in owed'
    <3>1. k + 1 \in 1 .. Len(tx) /\ tx'[k] = tx[k + 1] /\ 1 \in 1 .. (k + 1 - 1)
      BY <2>1, TailElements, SMT DEF TypeInv
    <3>2. PICK l \in 1 .. Len(tx) : l = k + 1
      BY <3>1
    <3>3. Ids(tx[l]) \in owed /\ tx[1].tid < tx[l].tid
      BY <2>1, <2>2, <2>4, <3>1, <3>2, SMT DEF OrderInv, ResponsesMatch
    <3>4. tx[l].tid \in Nat /\ Ids(tx[l]).tid = tx[l].tid
      BY OrderTypes
    <3>5. Ids(tx[l]) # Ids(tx[1])
      BY <2>2, <3>3, <3>4, SMT
    <3> QED
      BY <2>1, <2>2, <3>1, <3>2, <3>3, <3>5
  <2>5. owed' \subseteq owed
    BY <2>1
  <2> QED
    BY <2>1, <2>3, <2>4, <2>5, OrderTail
<1>7. CASE MasterLeaves
  <2>1. tx' = <<>> /\ UNCHANGED <<rx, asked, owed>>
    BY <1>7 DEF MasterLeaves
  <2>2. \A k \in 1 .. Len(tx') : FALSE
    BY <2>1, SMT
  <2> QED
    BY <2>1, <2>2 DEF OrderInv, ResponsesMatch
<1>8. ASSUME NEW r \in Requests, MasterAsks(r)
      PROVE  OrderInv'
  <2>1. PICK m \in Received :
          /\ m.tid = asked + 1 /\ Ids(m).tid = asked + 1 /\ rx' = Append(rx, m)
          /\ owed' = IF Answerable(m.type) THEN owed \cup {Ids(m)} ELSE owed
    BY <1>8, AskFacts
  <2>2. asked' = asked + 1 /\ tx' = tx /\ asked \in Nat
    BY <1>8, AskFacts DEF TypeInv
  <2>3. owed \subseteq owed' /\ owed' \subseteq owed \cup {Ids(m)} /\ (Answerable(m.type) => Ids(m) \in owed')
    BY <2>1
  <2>4. /\ Len(rx') = Len(rx) + 1 /\ Len(rx) \in Nat /\ rx'[Len(rx) + 1] = m
        /\ \A k \in 1 .. Len(rx) : rx'[k] = rx[k]
    BY <2>1, AppendElements, SMT DEF TypeInv
  <2>5. /\ \A k \in 1 .. Len(rx') : k \in 1 .. Len(rx) \/ k = Len(rx) + 1
        /\ \A k \in 1 .. Len(rx) : \A j \in 1 .. (k - 1) : j \in 1 .. Len(rx)
        /\ \A j \in 1 .. (Len(rx) + 1 - 1) : j \in 1 .. Len(rx)
    BY <2>4, SMT
  <2>6. \A x \in owed : x.tid \in Nat /\ x.tid <= asked
    BY DEF OrderInv, TypeInv, PduIds
  <2>7. \A x \in owed' : x.tid <= asked'
    BY <2>1, <2>2, <2>3, <2>6, SMT
  <2>8. /\ \A k \in 1 .. Len(rx) : Answerable(rx[k].type) => rx[k].tid < m.tid
        /\ \A k \in 1 .. Len(tx) : tx[k].type = "RESPONSE" => tx[k].tid < m.tid
    <3>1. \A k \in 1 .. Len(rx) : Answerable(rx[k].type) => Ids(rx[k]) \in owed
      BY DEF OrderInv
    <3>2. \A k \in 1 .. Len(tx) : tx[k].type = "RESPONSE" => Ids(tx[k]) \in owed
      BY DEF OrderInv, ResponsesMatch
    <3>3. \A k \in 1 .. Len(rx) : rx[k].tid \in Nat /\ Ids(rx[k]).tid = rx[k].tid
      BY OrderTypes
    <3>4. \A k \in 1 .. Len(tx) : tx[k].tid \in Nat /\ Ids(tx[k]).tid = tx[k].tid
      BY OrderTypes
    <3>5. \A x \in owed : \A n \in Nat : x.tid = n => n < m.tid
      BY <2>1, <2>2, <2>6, SMT
    <3> QED
      BY <3>1, <3>2, <3>3, <3>4, <3>5
  <2>9. ASSUME NEW k \in 1 .. Len(rx'), Answerable(rx'[k].type)
        PROVE  /\ Ids(rx'[k]) \in owed'
               /\ \A j \in 1 .. (k - 1) : Answerable(rx'[j].type) => rx'[j].tid < rx'[k].tid
    <3>1. CASE k \in 1 .. Len(rx)
      BY <2>3, <2>4, <2>5, <2>9, <3>1 DEF OrderInv
    <3>2. CASE k = Len(rx) + 1
      BY <2>3, <2>4, <2>5, <2>8, <2>9, <3>2, SMT
    <3> QED
      BY <2>5, <3>1, <3>2
  <2>10. ASSUME NEW j \in 1 .. Len(tx), NEW k \in 1 .. Len(rx'), tx[j].type = "RESPONSE", Answerable(rx'[k].type)
         PROVE  tx[j].tid < rx'[k].tid
    BY <2>4, <2>5, <2>8, <2>10 DEF OrderInv
  <2>11. ResponsesMatch'
    BY <2>2, <2>3 DEF OrderInv, ResponsesMatch
  <2> QED
    BY <2>2, <2>7, <2>9, <2>10, <2>11 DEF OrderInv
<1>9. CASE UNCHANGED vars
  BY <1>9, OrderFrame DEF vars, master
<1> QED
  BY <1>1, <1>2, <1>3, <1>4, <1>5, <1>6, <1>7, <1>8, <1>9 DEF Next, Agent, Call, Close, Reading
-----------------------------------------------------------------------------
\* The one request to open a session is sent and read.
LEMMA OpenFacts ==
  ASSUME NEW s \in Seq(SentPdu)
  PROVE  /\ \A p \in SentPdu : OneOpen(s) /\ (p.type = "open" => ~ Opening(s)) => OneOpen(Append(s, p))
         /\ s # <<>> /\ OneOpen(s) => OneOpen(Tail(s)) /\ (Head(s).type = "open" => ~ Opening(Tail(s)))
<1>1. ASSUME NEW p \in SentPdu, OneOpen(s), p.type = "open" => ~ Opening(s)
      PROVE  OneOpen(Append(s, p))
  <2>1. PICK q : q = Append(s, p)
    OBVIOUS
  <2>2. /\ Len(s) \in Nat /\ Len(q) = Len(s) + 1 /\ q[Len(s) + 1] = p
        /\ \A k \in 1 .. Len(s) : q[k] = s[k]
    BY <2>1, AppendElements, SMT
  <2>3. \A k \in 1 .. Len(q) : k \in 1 .. Len(s) \/ k = Len(s) + 1
    BY <2>2, SMT
  <2>4. OneOpen(q)
    BY <1>1, <2>2, <2>3 DEF OneOpen, Opening
  <2> QED
    BY <2>1, <2>4
<1>2. ASSUME s # <<>>, OneOpen(s)
      PROVE  OneOpen(Tail(s)) /\ (Head(s).type = "open" => ~ Opening(Tail(s)))
  <2>1. PICK t : t = Tail(s)
    OBVIOUS
  <2>2. /\ Len(t) \in Nat /\ Len(s) = Len(t) + 1 /\ Head(s) = s[1]
        /\ \A k \in 1 .. Len(t) : t[k] = s[k + 1]
    BY <1>2, <2>1, TailElements
  <2>3. /\ \A k \in 1 .. Len(t) : k + 1 \in 1 .. Len(s) /\ k + 1 # 1
        /\ \A j, k \in 1 .. Len(t) : j + 1 = k + 1 => j = k
        /\ 1 \in 1 .. Len(s)
    BY <2>2, SMT
  <2>4. OneOpen(t)
    <3> SUFFICES ASSUME NEW j \in 1 .. Len(t), NEW k \in 1 .. Len(t), t[j].type = "open", t[k].type = "open"
                 PROVE  j = k
      BY DEF OneOpen
    <3>1. j + 1 = k + 1
      BY <1>2, <2>2, <2>3 DEF OneOpen
    <3> QED
      BY <2>3, <3>1
  <2>5. Head(s).type = "open" => ~ Opening(t)
    BY <1>2, <2>2, <2>3 DEF OneOpen, Opening
  <2> QED
    BY <2>1, <2>4, <2>5
<1> QED
  BY <1>1, <1>2

\* The session after a step of the sub-agent that opens none.
LEMMA SessionFrame ==
  ASSUME TypeInv, SessionInv, UNCHANGED <<at, session, mreg, peer>>,
         pc' = pc \/ pc' \in {"call", "run", "done", "aborted", "undefined"},
         Registered' = Registered \/ at # 0,
         \/ tx' = tx
         \/ \E p \in SentPdu : p.type \in {"RESPONSE", "close"} /\ tx' = Append(tx, p)
  PROVE  SessionInv'
<1>1. tx \in Seq(SentPdu)
  BY DEF TypeInv
<1>2. /\ Opening(tx') => Opening(tx)
      /\ OneOpen(tx')
      /\ at = 0 => \A k \in 1 .. Len(tx') : tx'[k].type \in {"RESPONSE", "close"}
  <2>1. CASE tx' = tx
    BY <2>1 DEF SessionInv
  <2>2. ASSUME NEW p \in SentPdu, p.type \in {"RESPONSE", "close"}, tx' = Append(tx, p)
        PROVE  /\ Opening(tx') => Opening(tx)
               /\ OneOpen(tx')
               /\ at = 0 => \A k \in 1 .. Len(tx') : tx'[k].type \in {"RESPONSE", "close"}
    <3>1. Opening(tx') <=> Opening(tx)
      BY <1>1, <2>2, SendSession
    <3>2. OneOpen(tx')
      BY <1>1, <2>2, OpenFacts DEF SessionInv
    <3>3. /\ Len(tx') = Len(tx) + 1 /\ Len(tx) \in Nat /\ tx'[Len(tx) + 1] = p
          /\ \A k \in 1 .. Len(tx) : tx'[k] = tx[k]
      BY <1>1, <2>2, AppendElements, SMT
    <3>4. \A k \in 1 .. Len(tx') : k \in 1 .. Len(tx) \/ k = Len(tx) + 1
      BY <3>3, SMT
    <3> QED
      BY <2>2, <3>1, <3>2, <3>3, <3>4 DEF SessionInv
  <2> QED
    BY <2>1, <2>2
<1> QED
  BY <1>2 DEF SessionInv

\* Every step keeps what is known of the session.
LEMMA SessionStep ==
  ASSUME TypeInv, SessionInv, [Next]_vars
  PROVE  SessionInv'
<1>0. tx \in Seq(SentPdu) /\ at \in Nat
  BY SMT DEF TypeInv
<1>1. CASE smartsnmp_init \/ CallBroken \/ smartsnmp_run \/ ReadHandlerBroken \/ CloseBroken \/ SignalInRecv
  <2>1. UNCHANGED <<at, tx, master>> /\ UNCHANGED instances
    BY <1>1
       DEF smartsnmp_init, CallBroken, smartsnmp_run, ReadHandlerBroken, CloseBroken, SignalInRecv, Fail, tree
  <2>2. pc' = pc \/ pc' \in {"call", "run", "done", "aborted", "undefined"}
    BY <1>1 DEF smartsnmp_init, CallBroken, smartsnmp_run, ReadHandlerBroken, CloseBroken, SignalInRecv, Fail
  <2>3. Registered' = Registered
    BY <2>1 DEF Registered
  <2> QED
    BY <2>1, <2>2, <2>3, SessionFrame DEF master
<1>2. CASE RefuseCall
  <2>1. at' = at + 1 /\ pc' \in {"call", "aborted"} /\ UNCHANGED <<tx, master>>
    BY <1>2 DEF RefuseCall, Fail
  <2> QED
    BY <1>0, <2>1, SMT DEF SessionInv, master
<1>3. CASE SendCall
  <2>1. at' = at + 1 /\ pc' \in {"wait", "call", "aborted"} /\ UNCHANGED master
    BY <1>3, SendCallFacts
  <2>2. PICK p \in SentPdu : p.type = script[at + 1].op /\ (tx' = tx \/ tx' = Append(tx, p))
    BY <1>3, SendCallFacts
  <2>3. p.type = "open" => at = 0
    BY <1>3, <2>2, CallFacts DEF SendCall
  <2>4. at = 0 => ~ Opening(tx) /\ session = 0
    BY DEF SessionInv, Opening
  <2>5. Opening(tx') => Opening(tx) \/ p.type = "open"
    <3>1. CASE tx' = tx
      BY <3>1
    <3>2. CASE tx' = Append(tx, p)
      BY <1>0, <3>2, SendSession
    <3> QED
      BY <2>2, <3>1, <3>2
  <2>6. OneOpen(tx')
    BY <1>0, <2>2, <2>3, <2>4, OpenFacts DEF SessionInv
  <2> QED
    BY <1>0, <2>1, <2>3, <2>4, <2>5, <2>6, SMT DEF SessionInv, master
<1>4. ASSUME NEW n \in 1 .. Len(rx), NEW result \in Results,
             CallReceives(n, result) \/ agentx_read_handler(n, result) \/ CloseReceives(n, result)
      PROVE  SessionInv'
  <2>1. Receive(n, result) /\ UNCHANGED master /\ UNCHANGED at
    BY <1>4 DEF CallReceives, agentx_read_handler, CloseReceives
  <2>2. pc' = pc \/ pc' \in {"call", "run", "done", "aborted"}
    BY <1>4 DEF CallReceives, agentx_read_handler, CloseReceives, Fail, transport_stop
  <2>3. Registered' = Registered \/ at # 0
    <3>1. CASE pc = "wait"
      BY <1>0, <3>1, SMT DEF SessionInv
    <3>2. CASE UNCHANGED tree
      BY <3>2 DEF tree, Registered
    <3> QED
      BY <1>4, <3>1, <3>2 DEF CallReceives, agentx_read_handler, CloseReceives
  <2>4. tx' = tx \/ \E p \in SentPdu : p.type = "RESPONSE" /\ tx' = Append(tx, p)
    BY <2>1, ReceiveFacts
  <2> QED
    BY <2>1, <2>2, <2>3, <2>4, SessionFrame DEF master
<1>5. CASE sig_int_handler
  <2>1. PICK p \in SentPdu : p.type = "close" /\ (tx' = tx \/ tx' = Append(tx, p))
    BY <1>5, SignalFacts
  <2>2. UNCHANGED <<at, tree, master>> /\ pc' \in {pc, "aborted"}
    BY <1>5, SignalFacts
  <2>3. Registered' = Registered
    BY <2>2 DEF tree, Registered
  <2> QED
    BY <2>1, <2>2, <2>3, SessionFrame DEF master
<1>6. CASE MasterReplies
  <2> DEFINE m == tx[1]
  <2>1. /\ peer /\ tx # <<>> /\ tx' = Tail(tx) /\ Head(tx) = m
        /\ UNCHANGED <<agent, tree, peer>>
    BY <1>6, ReplyFacts
  <2>2. \/ m.type = "open" /\ session' \in {session, 1} /\ mreg' = mreg
        \/ m.type = "reg" /\ session # 0 /\ session' = session
        \/ m.type = "reg" /\ UNCHANGED <<session, mreg>>
        \/ m.type = "unreg" /\ mreg' = mreg \ {m.oid} /\ session' = session
        \/ m.type = "close" /\ session' = 0 /\ mreg' = {}
    BY <1>6, ReplyFacts
  <2>3. /\ Len(tx) = Len(tx') + 1 /\ Len(tx') \in Nat
        /\ \A k \in 1 .. Len(tx') : tx'[k] = tx[k + 1]
    BY <1>0, <2>1, TailElements
  <2>4. 1 \in 1 .. Len(tx) /\ \A k \in 1 .. Len(tx') : k + 1 \in 1 .. Len(tx)
    BY <2>3, SMT
  <2>5. OneOpen(tx') /\ (m.type = "open" => ~ Opening(tx'))
    BY <1>0, <2>1, OpenFacts DEF SessionInv
  <2>6. Opening(tx') => Opening(tx)
    BY <1>0, <2>1, ReadSession
  <2>7. Registered' = Registered /\ UNCHANGED <<at, pc>>
    BY <2>1 DEF tree, Registered, agent
  <2>8. at = 0 => m.type = "close" /\ \A k \in 1 .. Len(tx') : tx'[k].type \in {"RESPONSE", "close"}
    BY <2>2, <2>3, <2>4 DEF SessionInv
  <2> HIDE DEF m
  <2>9. /\ session' = 0 => mreg' = {}
        /\ Opening(tx') => session' = 0
        /\ ~ peer' => session' = 0
    BY <2>1, <2>2, <2>5, <2>6, SMT DEF SessionInv
  <2>10. at' = 0 => /\ Registered' = {} /\ session' = 0
                    /\ \A k \in 1 .. Len(tx') : tx'[k].type \in {"RESPONSE", "close"}
    BY <2>2, <2>7, <2>8 DEF SessionInv
  <2> QED
    BY <2>5, <2>7, <2>9, <2>10 DEF SessionInv
<1>7. CASE MasterTakes
  <2>1. tx # <<>> /\ tx' = Tail(tx) /\ UNCHANGED <<agent, tree, peer, session, mreg>>
    BY <1>7 DEF MasterTakes
  <2>2. /\ Len(tx) = Len(tx') + 1 /\ Len(tx') \in Nat
        /\ \A k \in 1 .. Len(tx') : tx'[k] = tx[k + 1]
    BY <1>0, <2>1, TailElements
  <2>3. \A k \in 1 .. Len(tx') : k + 1 \in 1 .. Len(tx)
    BY <2>2, SMT
  <2>4. OneOpen(tx') /\ (Opening(tx') => Opening(tx))
    BY <1>0, <2>1, OpenFacts, ReadSession DEF SessionInv
  <2>5. Registered' = Registered /\ UNCHANGED <<at, pc>>
    BY <2>1 DEF tree, Registered, agent
  <2> QED
    BY <2>1, <2>2, <2>3, <2>4, <2>5 DEF SessionInv
<1>8. CASE MasterLeaves
  <2>1. tx' = <<>> /\ session' = 0 /\ mreg' = {} /\ UNCHANGED <<agent, tree>>
    BY <1>8 DEF MasterLeaves
  <2>2. \A k \in 1 .. Len(tx') : FALSE
    BY <2>1, SMT
  <2>3. Registered' = Registered /\ UNCHANGED <<at, pc>>
    BY <2>1 DEF tree, Registered, agent
  <2> QED
    BY <2>1, <2>2, <2>3 DEF SessionInv, OneOpen
<1>9. ASSUME NEW r \in Requests, MasterAsks(r)
      PROVE  SessionInv'
  <2>1. UNCHANGED <<agent, tree, peer, session, mreg, tx>>
    BY <1>9 DEF MasterAsks
  <2>2. Registered' = Registered /\ UNCHANGED <<at, pc>>
    BY <2>1 DEF tree, Registered, agent
  <2> QED
    BY <2>1, <2>2, SessionFrame
<1>10. CASE UNCHANGED vars
  <2>1. UNCHANGED <<at, pc, tx, session, mreg, peer>> /\ Registered' = Registered
    BY <1>10 DEF vars, agent, master, tree, Registered
  <2> QED
    BY <2>1, SessionFrame
<1> QED
  BY <1>1, <1>2, <1>3, <1>4, <1>5, <1>6, <1>7, <1>8, <1>9, <1>10 DEF Next, Agent, Call, Close, Reading
-----------------------------------------------------------------------------
\* The last message about an oid is one, and there is none once it is settled.
LEMMA LatestOne ==
  ASSUME NEW s \in Seq(SentPdu), NEW o
  PROVE  /\ Latest(s, "reg", o) => ~ Latest(s, "unreg", o)
         /\ \A op \in {"reg", "unreg"} : Latest(s, op, o) => ~ Settled(s, o)
<1>1. ASSUME Latest(s, "reg", o), Latest(s, "unreg", o) PROVE FALSE
  <2>1. PICK j \in 1 .. Len(s) : /\ s[j].type = "reg" /\ s[j].oid = o
                                 /\ \A i \in (j + 1) .. Len(s) : ~ About(s[i], o)
    BY <1>1 DEF Latest
  <2>2. PICK k \in 1 .. Len(s) : /\ s[k].type = "unreg" /\ s[k].oid = o
                                 /\ \A i \in (k + 1) .. Len(s) : ~ About(s[i], o)
    BY <1>1 DEF Latest
  <2>3. About(s[j], o) /\ About(s[k], o)
    BY <2>1, <2>2 DEF About
  <2>4. j = k \/ k \in (j + 1) .. Len(s) \/ j \in (k + 1) .. Len(s)
    BY SMT
  <2> QED
    BY <2>1, <2>2, <2>3, <2>4
<1>2. ASSUME NEW op \in {"reg", "unreg"}, Latest(s, op, o), Settled(s, o) PROVE FALSE
  BY <1>2 DEF Latest, Settled, About
<1> QED
  BY <1>1, <1>2

\* A step that changes nothing for oid o.
LEMMA AgreeKept ==
  ASSUME NEW o, Agree(o),
         UNCHANGED <<script, at, pc>> \/ (~ Waiting(o) /\ ~ Waiting(o)'),
         UNCHANGED <<script, at, pc>> => TypeInv /\ SessionInv,
         o \in mreg' <=> o \in mreg, o \in refused' <=> o \in refused,
         o \in Registered' <=> o \in Registered, o \in stale' <=> o \in stale,
         Settled(tx', o) <=> Settled(tx, o),
         \A op \in {"reg", "unreg"} : Latest(tx', op, o) <=> Latest(tx, op, o)
  PROVE  Agree(o)'
<1>1. CASE ~ Waiting(o) /\ ~ Waiting(o)'
  BY <1>1 DEF Agree
<1>2. CASE UNCHANGED <<script, at, pc>>
  <2>1. call' = call
    BY <1>2 DEF call
  <2>2. Waiting(o)' <=> Waiting(o)
    BY <1>2, <2>1 DEF Waiting
  <2>3. CASE ~ Waiting(o)
    BY <2>2, <2>3 DEF Agree
  <2>4. CASE Waiting(o)
    <3>1. call \in ScriptCall
      BY <1>2, <2>4, WaitFacts DEF Waiting
    <3>2. call.op \in {"reg", "unreg"}
      BY <2>4, <3>1 DEF Waiting, ScriptCall
    <3>3. Latest(tx', call.op, o) <=> Latest(tx, call.op, o)
      BY <3>2
    <3> QED
      BY <2>1, <2>2, <2>4, <3>3 DEF Agree
  <2> QED
    BY <2>3, <2>4
<1> QED
  BY <1>1, <1>2

\* Messages that are not about oid o, whoever sends them.
LEMMA TalkKept ==
  ASSUME TypeInv, NEW o,
         \/ tx' = tx
         \/ \E p \in SentPdu : ~ About(p, o) /\ tx' = Append(tx, p)
         \/ tx # <<>> /\ ~ About(Head(tx), o) /\ tx' = Tail(tx)
  PROVE  /\ Settled(tx', o) <=> Settled(tx, o)
         /\ \A op \in {"reg", "unreg"} : Latest(tx', op, o) <=> Latest(tx, op, o)
<1>1. tx \in Seq(SentPdu)
  BY DEF TypeInv
<1>2. ASSUME NEW p \in SentPdu, ~ About(p, o), tx' = Append(tx, p), NEW op \in {"reg", "unreg"}
      PROVE  (Settled(tx', o) <=> Settled(tx, o)) /\ (Latest(tx', op, o) <=> Latest(tx, op, o))
  BY <1>1, <1>2, SendAbout, SMT
<1>3. ASSUME tx # <<>>, ~ About(Head(tx), o), tx' = Tail(tx), NEW op \in {"reg", "unreg"}
      PROVE  (Settled(tx', o) <=> Settled(tx, o)) /\ (Latest(tx', op, o) <=> Latest(tx, op, o))
  BY <1>1, <1>3, ReadAbout
<1> QED
  BY <1>2, <1>3

\* A step of the sub-agent or the master that leaves the tree and the registry alone.
LEMMA AgreeFrame ==
  ASSUME TypeInv, SessionInv, NEW o, Agree(o), UNCHANGED <<script, at, pc, mreg, refused, instances, stale>>,
         \/ tx' = tx
         \/ \E p \in SentPdu : ~ About(p, o) /\ tx' = Append(tx, p)
         \/ tx # <<>> /\ ~ About(Head(tx), o) /\ tx' = Tail(tx)
  PROVE  Agree(o)'
<1>1. /\ Settled(tx', o) <=> Settled(tx, o)
      /\ \A op \in {"reg", "unreg"} : Latest(tx', op, o) <=> Latest(tx, op, o)
  BY TalkKept
<1>2. Registered' = Registered
  BY DEF Registered
<1> QED
  BY <1>1, <1>2, AgreeKept

\* An answer is sent, or none: the session is what it was.
LEMMA AnswerSession ==
  ASSUME TypeInv, NEW n, NEW result, Receive(n, result), UNCHANGED master
  PROVE  /\ tx' = tx \/ \E p \in SentPdu : p.type = "RESPONSE" /\ tx' = Append(tx, p)
         /\ Live' => (sock => Live)
         /\ \A o : tx' = tx \/ \E p \in SentPdu : ~ About(p, o) /\ tx' = Append(tx, p)
<1>1. tx \in Seq(SentPdu)
  BY DEF TypeInv
<1>2. tx' = tx \/ \E p \in SentPdu : p.type = "RESPONSE" /\ tx' = Append(tx, p)
  BY ReceiveFacts
<1>3. (Opening(tx') <=> Opening(tx)) /\ (Unclosed(tx') <=> Unclosed(tx))
  <2>1. ASSUME NEW p \in SentPdu, p.type = "RESPONSE", tx' = Append(tx, p)
        PROVE  (Opening(tx') <=> Opening(tx)) /\ (Unclosed(tx') <=> Unclosed(tx))
    BY <1>1, <2>1, SendSession
  <2> QED
    BY <1>2, <2>1
<1>4. Live' => (sock => Live)
  BY <1>3 DEF Live, master
<1>5. \A o : tx' = tx \/ \E p \in SentPdu : ~ About(p, o) /\ tx' = Append(tx, p)
  BY <1>2 DEF About
<1> QED
  BY <1>2, <1>4, <1>5

\* The rest of a call tells the tree what the master has been told.
LEMMA AgreeReceives ==
  ASSUME TypeInv, SessionInv, NEW n, NEW result, CallReceives(n, result), pc' # "aborted",
         NEW o, Agree(o)
  PROVE  Agree(o)'
<1>1. /\ pc = "wait" /\ Receive(n, result) /\ UNCHANGED master /\ UNCHANGED <<script, at>>
      /\ pc' = "call" /\ result # "killed"
  BY DEF CallReceives, Fail
<1>2. ~ Waiting(o)' /\ call \in ScriptCall
  BY <1>1, WaitFacts DEF Waiting
<1>3. UNCHANGED <<mreg, refused>>
  BY <1>1 DEF master
<1>4. /\ Settled(tx', o) <=> Settled(tx, o)
      /\ \A op \in {"reg", "unreg"} : Latest(tx', op, o) <=> Latest(tx, op, o)
  BY <1>1, AnswerSession, TalkKept
<1>5. ASSUME ~ Waiting(o), o \in Registered' <=> o \in Registered, o \in stale' <=> o \in stale
      PROVE  Agree(o)'
  BY <1>1, <1>2, <1>3, <1>4, <1>5, AgreeKept
<1>6. ASSUME o \in stale'
      PROVE  Agree(o)'
  BY <1>2, <1>6 DEF Agree
<1>7. ASSUME Waiting(o), call.op = "reg", o \in Registered'
      PROVE  Agree(o)'
  <2>1. Latest(tx, "reg", o) \/ (Settled(tx, o) /\ o \in mreg \cup refused)
    BY <1>7 DEF Agree
  <2>2. ~ Latest(tx, "unreg", o) /\ (Settled(tx, o) => o \in mreg \cup refused)
    BY <2>1, LatestOne DEF TypeInv
  <2> QED
    BY <1>2, <1>3, <1>4, <1>7, <2>2 DEF Agree
<1>8. ASSUME Waiting(o), call.op = "unreg", o \notin Registered'
      PROVE  Agree(o)'
  <2>1. Latest(tx, "unreg", o) \/ (Settled(tx, o) /\ o \notin mreg)
    BY <1>8 DEF Agree
  <2>2. ~ Latest(tx, "reg", o) /\ (Settled(tx, o) => o \notin mreg)
    BY <2>1, LatestOne DEF TypeInv
  <2> QED
    BY <1>2, <1>3, <1>4, <1>8, <2>2 DEF Agree
<1>9. CASE Head(rx).type = "BAD"
  <2>1. Fail(call, at) /\ stale' = stale \cup {call.oid}
    BY <1>1, <1>9 DEF CallReceives
  <2>2. Registered' = Registered
    BY <2>1 DEF Fail, Registered
  <2>3. o \in stale' \/ (~ Waiting(o) /\ o \notin stale)
    BY <2>1 DEF Waiting
  <2> QED
    BY <1>5, <1>6, <2>2, <2>3
<1>10. CASE FinishCall
  <2>1. CASE call.op = "open" /\ Registered' = Registered /\ stale' = stale
    BY <1>5, <2>1 DEF Waiting
  <2>2. CASE call.op = "reg" /\ Registered' = Registered \cup {call.oid} /\ stale' = stale \ {call.oid}
    <3>1. CASE o = call.oid
      BY <1>1, <1>7, <2>2, <3>1 DEF Waiting
    <3>2. CASE o # call.oid
      BY <1>5, <2>2, <3>2 DEF Waiting
    <3> QED
      BY <3>1, <3>2
  <2>3. CASE call.op = "reg" /\ Registered' = Registered /\ stale' = stale \cup ({call.oid} \ Registered)
    <3>1. CASE o = call.oid
      <4>1. o \in Registered' \/ o \in stale'
        BY <2>3, <3>1
      <4> QED
        BY <1>1, <1>6, <1>7, <2>3, <3>1, <4>1 DEF Waiting
    <3>2. CASE o # call.oid
      BY <1>5, <2>3, <3>2 DEF Waiting
    <3> QED
      BY <3>1, <3>2
  <2>4. CASE /\ call.op = "unreg" /\ Registered' \subseteq Registered /\ call.oid \notin Registered'
             /\ stale' = (stale \cup (Registered \ Registered')) \ {call.oid}
    <3>1. CASE o = call.oid
      BY <1>1, <1>8, <2>4, <3>1 DEF Waiting
    <3>2. CASE o # call.oid
      <4>1. o \in stale' \/ ((o \in Registered' <=> o \in Registered) /\ (o \in stale' <=> o \in stale))
        BY <2>4, <3>2
      <4> QED
        BY <1>5, <1>6, <3>2, <4>1 DEF Waiting
    <3> QED
      BY <3>1, <3>2
  <2> QED
    BY <1>1, <1>10, <2>1, <2>2, <2>3, <2>4, FinishFacts
<1> QED
  BY <1>1, <1>9, <1>10 DEF CallReceives

\* What the master makes of a message is what the message says.
LEMMA AgreeReplies ==
  ASSUME TypeInv, SessionInv, MasterReplies, Live', NEW o, Agree(o)
  PROVE  Agree(o)'
<1> DEFINE m == tx[1]
<1>1. /\ tx # <<>> /\ tx' = Tail(tx) /\ Head(tx) = m /\ m \in SentPdu /\ tx \in Seq(SentPdu)
      /\ UNCHANGED <<agent, tree, stale>>
  BY ReplyFacts DEF TypeInv
<1>2. \/ m.type = "open" /\ session' \in {session, 1} /\ UNCHANGED <<mreg, refused>>
      \/ /\ m.type = "reg" /\ session # 0 /\ mreg' = mreg \cup {m.oid}
         /\ refused' = refused \ {m.oid} /\ session' = session
      \/ m.type = "reg" /\ refused' = refused \cup {m.oid} /\ UNCHANGED <<session, mreg>>
      \/ m.type = "unreg" /\ mreg' = mreg \ {m.oid} /\ UNCHANGED <<session, refused>>
      \/ m.type = "close" /\ session' = 0 /\ mreg' = {} /\ UNCHANGED refused
  BY ReplyFacts
<1>3. UNCHANGED <<script, at, pc>> /\ call' = call /\ Registered' = Registered /\ stale' = stale
  BY <1>1 DEF agent, tree, call, Registered
<1>4. Waiting(o)' <=> Waiting(o)
  BY <1>3 DEF Waiting
<1> HIDE DEF m
<1>5. CASE ~ About(m, o)
  <2>1. m.type = "close" => mreg' = mreg
    <3>1. m.type = "close" => Opening(tx') /\ mreg' = {}
      BY <1>2 DEF Live
    <3>2. Opening(tx') => Opening(tx)
      BY <1>1, ReadSession
    <3> QED
      BY <3>1, <3>2 DEF SessionInv
  <2>2. (o \in mreg' <=> o \in mreg) /\ (o \in refused' <=> o \in refused)
    BY <1>2, <1>5, <2>1 DEF About
  <2>3. /\ Settled(tx', o) <=> Settled(tx, o)
        /\ \A op \in {"reg", "unreg"} : Latest(tx', op, o) <=> Latest(tx, op, o)
    BY <1>1, <1>5, TalkKept
  <2> QED
    BY <1>3, <2>2, <2>3, AgreeKept
<1>6. CASE About(m, o)
  <2>1. \A op \in {"reg", "unreg"} :
          /\ ~ Settled(tx, o)
          /\ Latest(tx', op, o) => Latest(tx, op, o)
          /\ Settled(tx', o) => (Latest(tx, op, o) <=> op = m.type)
          /\ ~ Settled(tx', o) => (Latest(tx, op, o) => Latest(tx', op, o))
    BY <1>1, <1>6, ReadAbout, SMT
  <2>2. CASE Waiting(o)
    <3>1. call.op \in {"reg", "unreg"}
      BY <2>2, WaitFacts DEF Waiting, ScriptCall
    <3>2. Latest(tx, call.op, o)
      BY <2>1, <2>2 DEF Agree
    <3>3. ~ Settled(tx', o) => Latest(tx', call.op, o)
      BY <2>1, <3>1, <3>2
    <3>4. Settled(tx', o) => call.op = m.type
      BY <2>1, <3>1, <3>2
    <3>5. Settled(tx', o) => IF call.op = "reg" THEN o \in mreg' \cup refused' ELSE o \notin mreg'
      BY <1>2, <1>6, <3>1, <3>4 DEF About
    <3> QED
      BY <1>3, <1>4, <2>2, <3>3, <3>5 DEF Agree
  <2>3. CASE ~ Waiting(o)
    <3>1. /\ Latest(tx, "reg", o) => o \in Registered \cup stale
          /\ Latest(tx, "unreg", o) => o \notin Registered \ stale
      BY <2>3 DEF Agree
    <3>2. /\ Latest(tx', "reg", o) => o \in Registered \cup stale
          /\ Latest(tx', "unreg", o) => o \notin Registered \ stale
      BY <2>1, <3>1
    <3>3. ASSUME Settled(tx', o)
          PROVE  /\ o \in Registered => o \in mreg' \cup refused' \cup stale
                 /\ o \in mreg' => o \in Registered \cup stale
      <4>1. CASE m.type = "reg"
        <5>1. o \in Registered \cup stale /\ o \in mreg' \cup refused'
          BY <1>2, <1>6, <2>1, <3>1, <3>3, <4>1 DEF About
        <5> QED
          BY <5>1
      <4>2. CASE m.type = "unreg"
        <5>1. o \notin Registered \ stale /\ o \notin mreg'
          BY <1>2, <1>6, <2>1, <3>1, <3>3, <4>2 DEF About
        <5> QED
          BY <5>1
      <4> QED
        BY <1>6, <4>1, <4>2 DEF About
    <3> QED
      BY <1>3, <1>4, <2>3, <3>2, <3>3 DEF Agree
  <2> QED
    BY <2>2, <2>3
<1> QED
  BY <1>5, <1>6

\* A call that is sent: the master is about to be told what the call is about.
LEMMA AgreeSends ==
  ASSUME TypeInv, SessionInv, AgreeInv, SendCall, Live', NEW o \in Oids
  PROVE  Agree(o)'
<1>1. pc = "call" /\ at' = at + 1 /\ UNCHANGED <<script, sock, master, stale>> /\ instances' = instances
  BY SendCallFacts
<1>2. PICK p \in SentPdu : /\ p.type = script[at + 1].op /\ p.oid = script[at + 1].oid
                           /\ sock /\ peer => tx' = Append(tx, p) /\ pc' = "wait"
  BY SendCallFacts
<1>3. sock /\ peer /\ UNCHANGED <<mreg, refused, session, peer>>
  BY <1>1 DEF Live, master
<1>4. tx' = Append(tx, p) /\ pc' = "wait" /\ tx \in Seq(SentPdu)
  BY <1>2, <1>3 DEF TypeInv
<1>5. call' = script[at + 1] /\ Registered' = Registered
  BY <1>1 DEF call, Registered
<1>6. script[at + 1] \in ScriptCall /\ (script[at + 1].op = "open" <=> at = 0)
  BY CallFacts DEF SendCall
<1>7. Waiting(o)' <=> p.type # "open" /\ p.oid = o
  BY <1>2, <1>4, <1>5 DEF Waiting
<1>8. CASE p.type = "open"
  <2>1. at = 0 /\ session = 0 /\ mreg = {} /\ Registered = {}
    BY <1>2, <1>6, <1>8 DEF SessionInv
  <2>2. ~ About(p, o) /\ Settled(tx, o)
    BY <1>8, <2>1 DEF About, SessionInv, Settled
  <2>3. \A op \in {"reg", "unreg"} : ~ Latest(tx', op, o)
    BY <1>4, <2>2, SendAbout, LatestOne, SMT
  <2> QED
    BY <1>3, <1>5, <1>7, <1>8, <2>1, <2>3 DEF Agree
<1>9. CASE p.type # "open"
  <2>1. p.type \in {"reg", "unreg"}
    BY <1>2, <1>6, <1>9 DEF ScriptCall
  <2>2. (Opening(tx') <=> Opening(tx)) /\ (Unclosed(tx') <=> Unclosed(tx))
    BY <1>4, <2>1, SendSession
  <2>3. Live
    BY <1>3, <2>2 DEF Live
  <2>4. Agree(o) /\ ~ Waiting(o)
    BY <1>1, <2>3 DEF AgreeInv, Waiting
  <2>5. CASE p.oid = o
    <3>1. Latest(tx', p.type, o)
      BY <1>4, <2>1, <2>5, SendAbout, SMT DEF About
    <3> QED
      BY <1>2, <1>5, <1>7, <1>9, <2>5, <3>1 DEF Agree
  <2>6. CASE p.oid # o
    <3>1. ~ About(p, o) /\ ~ Waiting(o)'
      BY <1>7, <2>6 DEF About
    <3>2. /\ Settled(tx', o) <=> Settled(tx, o)
          /\ \A op \in {"reg", "unreg"} : Latest(tx', op, o) <=> Latest(tx, op, o)
      BY <1>4, <3>1, TalkKept
    <3> QED
      BY <1>1, <1>3, <1>5, <2>4, <3>1, <3>2, AgreeKept
  <2> QED
    BY <2>5, <2>6
<1> QED
  BY <1>8, <1>9

\* Every step keeps the registries of the sub-agent and the master in agreement.
LEMMA AgreeStep ==
  ASSUME TypeInv, SessionInv, AgreeInv, [Next]_vars
  PROVE  AgreeInv'
<1> SUFFICES ASSUME pc' \in {"call", "wait", "run"}, Live', NEW o \in Oids
             PROVE  Agree(o)'
  BY DEF AgreeInv
<1>0. sock' /\ peer' /\ (session' # 0 \/ Opening(tx')) /\ Unclosed(tx') /\ tx \in Seq(SentPdu)
  BY DEF Live, TypeInv
<1>1. CASE smartsnmp_init
  <2>1. at = 0 /\ UNCHANGED <<session, tx>>
    BY <1>1 DEF smartsnmp_init, master, SessionInv
  <2>2. session = 0 /\ ~ Opening(tx)
    BY <2>1 DEF SessionInv, Opening
  <2> QED
    BY <1>0, <2>1, <2>2
<1>2. CASE SendCall
  BY <1>2, AgreeSends
<1>3. CASE RefuseCall \/ smartsnmp_run
  <2>1. /\ pc = "call" /\ pc' \in {"call", "run"} /\ UNCHANGED <<script, sock, master, tx, stale>>
        /\ instances' = instances
    BY <1>3 DEF RefuseCall, smartsnmp_run, Fail, tree
  <2>2. Registered' = Registered /\ UNCHANGED <<session, peer, mreg, refused>>
    BY <2>1 DEF Registered, master
  <2>3. ~ Waiting(o) /\ ~ Waiting(o)'
    BY <2>1 DEF Waiting
  <2>4. Live
    BY <1>0, <2>1, <2>2 DEF Live
  <2>5. Agree(o)
    BY <2>1, <2>4 DEF AgreeInv
  <2> QED
    BY <2>1, <2>2, <2>3, <2>5, AgreeKept
<1>4. CASE CallBroken \/ CloseBroken \/ ReadHandlerBroken
  <2>1. UNCHANGED <<sock, peer>> /\ (~ peer \/ ~ sock)
    BY <1>4 DEF CallBroken, CloseBroken, ReadHandlerBroken, Ended, master
  <2> QED
    BY <1>0, <2>1
<1>5. ASSUME NEW n \in 1 .. Len(rx), NEW result \in Results, CallReceives(n, result)
      PROVE  Agree(o)'
  <2>1. Receive(n, result) /\ UNCHANGED master /\ sock /\ pc = "wait"
    BY <1>5 DEF CallReceives
  <2>2. Agree(o)
    BY <2>1, AnswerSession DEF AgreeInv
  <2> QED
    BY <1>5, <2>2, AgreeReceives
<1>6. ASSUME NEW n \in 1 .. Len(rx), NEW result \in Results, agentx_read_handler(n, result)
      PROVE  Agree(o)'
  <2>1. /\ Receive(n, result) /\ UNCHANGED master /\ sock /\ pc = "run"
        /\ UNCHANGED <<script, at, pc, tree, stale>>
    BY <1>6 DEF agentx_read_handler
  <2>2. Agree(o)
    BY <2>1, AnswerSession DEF AgreeInv
  <2>3. tx' = tx \/ \E p \in SentPdu : ~ About(p, o) /\ tx' = Append(tx, p)
    BY <2>1, AnswerSession
  <2>4. UNCHANGED <<script, at, pc, mreg, refused, instances, stale>>
    BY <2>1 DEF master, tree
  <2> QED
    BY <2>2, <2>3, <2>4, AgreeFrame
<1>7. ASSUME NEW n \in 1 .. Len(rx), NEW result \in Results, CloseReceives(n, result)
      PROVE  Agree(o)'
  <2>1. /\ Receive(n, result) /\ UNCHANGED master /\ UNCHANGED <<script, at, pc, sock, tree, stale>>
    BY <1>0, <1>7 DEF CloseReceives, transport_stop
  <2>2. Agree(o)
    BY <1>0, <2>1, AnswerSession DEF AgreeInv
  <2>3. tx' = tx \/ \E p \in SentPdu : ~ About(p, o) /\ tx' = Append(tx, p)
    BY <2>1, AnswerSession
  <2>4. UNCHANGED <<script, at, pc, mreg, refused, instances, stale>>
    BY <2>1 DEF master, tree
  <2> QED
    BY <2>2, <2>3, <2>4, AgreeFrame
<1>8. CASE sig_int_handler
  <2>1. PICK p \in SentPdu : p.type = "close" /\ (sock /\ peer => tx' = Append(tx, p))
    BY <1>8, SignalFacts
  <2>2. UNCHANGED <<sock, master>>
    BY <1>8, SignalFacts
  <2>3. tx' = Append(tx, p)
    BY <1>0, <2>1, <2>2 DEF master
  <2> QED
    BY <1>0, <2>1, <2>3, SendSession
<1>9. CASE MasterReplies
  <2>1. tx # <<>> /\ tx' = Tail(tx) /\ Head(tx) = tx[1] /\ UNCHANGED <<agent, peer>>
    BY <1>9, ReplyFacts
  <2>2. UNCHANGED session \/ tx[1].type = "open" \/ (tx[1].type = "close" /\ session' = 0)
    BY <1>9, ReplyFacts
  <2>3. /\ Opening(tx) <=> tx[1].type = "open" \/ Opening(tx')
        /\ Unclosed(tx') /\ (tx[1].type = "close" => Opening(tx')) => Unclosed(tx)
    BY <1>0, <2>1, ReadSession
  <2>4. tx[1].type = "close" => session' = 0
    BY <1>9, ReplyFacts
  <2>5. Live
    BY <1>0, <2>1, <2>2, <2>3, <2>4 DEF Live, agent
  <2>6. Agree(o)
    BY <2>1, <2>5 DEF AgreeInv, agent
  <2> QED
    BY <1>9, <2>6, AgreeReplies
<1>10. CASE MasterTakes
  <2>1. /\ tx # <<>> /\ tx' = Tail(tx) /\ Head(tx).type = "RESPONSE"
        /\ UNCHANGED <<agent, tree, peer, session, mreg, refused, stale>>
    BY <1>10 DEF MasterTakes
  <2>2. (Opening(tx) <=> Opening(tx')) /\ (Unclosed(tx') => Unclosed(tx))
    BY <1>0, <2>1, ReadSession
  <2>3. Live
    BY <1>0, <2>1, <2>2 DEF Live, agent
  <2>4. Agree(o)
    BY <2>1, <2>3 DEF AgreeInv, agent
  <2>5. ~ About(Head(tx), o)
    BY <2>1 DEF About
  <2>6. UNCHANGED <<script, at, pc, mreg, refused, instances, stale>>
    BY <2>1 DEF agent, tree
  <2> QED
    BY <2>1, <2>4, <2>5, <2>6, AgreeFrame
<1>11. CASE MasterLeaves
  BY <1>0, <1>11 DEF MasterLeaves
<1>12. ASSUME UNCHANGED <<agent, tree, peer, session, mreg, refused, tx, stale>>
       PROVE  Agree(o)'
  <2>1. Live
    BY <1>0, <1>12 DEF Live, agent
  <2>2. Agree(o)
    BY <1>12, <2>1 DEF AgreeInv, agent
  <2>3. UNCHANGED <<script, at, pc, mreg, refused, instances, stale>>
    BY <1>12 DEF agent, tree
  <2> QED
    BY <1>12, <2>2, <2>3, AgreeFrame
<1>13. ASSUME NEW r \in Requests, MasterAsks(r)
       PROVE  Agree(o)'
  BY <1>12, <1>13 DEF MasterAsks
<1>14. CASE UNCHANGED vars
  BY <1>12, <1>14 DEF vars, master
<1>15. ~ SignalInRecv
  BY DEF SignalInRecv
<1> QED
  BY <1>1, <1>2, <1>3, <1>4, <1>5, <1>6, <1>7, <1>8, <1>9, <1>10, <1>11, <1>13, <1>14, <1>15
     DEF Next, Agent, Call, Close, Reading
-----------------------------------------------------------------------------
\* Before smartsnmp_init nothing is registered and nothing has been sent.
LEMMA AgentXInit ==
  ASSUME Init
  PROVE  AgentXInv
<1>1. script \in Scripts /\ script \in Seq(ScriptCall)
  BY AgentXAssumption DEF Init
<1>2. Registered = {}
  BY DEF Init, Tree!Init, Registered
<1>3. rx = <<>> /\ tx = <<>> /\ (\A k \in 1 .. Len(rx) : FALSE) /\ \A k \in 1 .. Len(tx) : FALSE
  BY SMT DEF Init
<1>4. hdr \in PduIds /\ Listed(last.type, last.list)
  BY DEF Init, PduIds, Listed, Nothing
<1>5. TypeInv
  <2>1. rx \in Seq(Received) /\ tx \in Seq(SentPdu) /\ at \in 0 .. Len(script)
    BY <1>1, <1>3, SMT DEF Init
  <2> QED
    BY <1>1, <1>2, <1>3, <1>4, <2>1 DEF Init, TypeInv, Places
<1>6. OrderInv
  BY <1>3 DEF Init, OrderInv, ResponsesMatch
<1>7. SessionInv
  BY <1>2, <1>3 DEF Init, SessionInv, Opening, OneOpen
<1>8. AgreeInv
  BY DEF Init, AgreeInv
<1> QED
  BY <1>5, <1>6, <1>7, <1>8 DEF AgentXInv

\* The inductive invariant: types, the order of requests and responses, the state of
\* the session, and what the master and the mib-tree know of every oid, messages
\* on their way and calls in progress (agentx_mib_node_reg and agentx_mib_node_unreg
\* in their recv) taken into account.
THEOREM AgentXInvariant == Spec => []AgentXInv
<1>1. Init => AgentXInv
  BY AgentXInit
<1>2. AgentXInv /\ [Next]_vars => AgentXInv'
  BY TypeStep, OrderStep, SessionStep, AgreeStep DEF AgentXInv
<1> QED
  BY <1>1, <1>2, PTL DEF Spec

\* Every response carries the ids of a request that is not answered yet, and
\* responses come in the order of the requests, though agentx_recv and whatever the
\* sub-agent sends of itself write the one header that agentx_response_pdu reads,
\* as long as no signal interrupts agentx_recv (SignalInRecv).
THEOREM ResponsesAlwaysMatch == Spec => []ResponsesMatch
<1>1. AgentXInv => ResponsesMatch
  BY DEF AgentXInv, OrderInv
<1> QED
  BY <1>1, AgentXInvariant, PTL

\* agentx_get answers with a value exactly what is registered, and agentx_getnext
\* answers every search range with the closest variable within it, whatever is
\* registered and whichever ranges are asked for.
THEOREM RangesAlwaysAnswered == Spec => []RangesAnswered
<1>1. ASSUME AgentXInv PROVE RangesAnswered
  <2>1. Listed(last.type, last.list)
    BY <1>1 DEF AgentXInv, TypeInv
  <2>2. last.type \in {"GET", "GETNEXT", "GETBULK"} => last.list \in Seq(SearchRanges)
    BY <2>1 DEF Listed
  <2>3. last.type = "GET" =>
          \A i \in 1 .. Len(last.list) :
            Response.vbs[i].tag = "VALUE" <=> last.list[i].start \in Served(last.nodes)
    BY <2>2, GetAnswered
  <2>4. last.type \in {"GETNEXT", "GETBULK"} /\ Response.error = 0 =>
          \A i \in 1 .. Len(last.list) :
            LET r == last.list[i]
            IN  ~ (r.start_include /\ Handled(last.nodes, r.start)) => Response.vbs[i] = NextWithin(r)
    BY <2>2, NextAnswered
  <2> QED
    BY <2>3, <2>4 DEF RangesAnswered
<1> QED
  BY <1>1, AgentXInvariant, PTL

\* agentx_set reports an error exactly if a binding of a TestSet has not been
\* applied, with the index of the first.
THEOREM SetAlwaysReported == Spec => []SetReport
<1>1. ASSUME AgentXInv PROVE SetReport
  <2>1. last.type = "TESTSET" => last.list \in Seq(VarBinds)
    BY <1>1 DEF AgentXInv, TypeInv, Listed
  <2>2. CASE last.type = "TESTSET"
    BY <2>1, <2>2, SetAnswered
  <2>3. CASE last.type # "TESTSET"
    BY <2>3 DEF SetReport
  <2> QED
    BY <2>2, <2>3
<1> QED
  BY <1>1, AgentXInvariant, PTL

\* Between the calls of smartsnmp_mib_node_reg and smartsnmp_mib_node_unreg, and in
\* the loop, master and mib-tree agree on what is registered, for any calls of the
\* script and any requests that arrive in place of the replies.
THEOREM RegistriesAlwaysAgree == Spec => []RegistriesAgree
<1>1. ASSUME AgentXInv PROVE RegistriesAgree
  <2>1. SUFFICES ASSUME pc \in {"call", "run"}, sock, session # 0, Quiet
                 PROVE  Registered \ mreg \subseteq refused \cup stale /\ mreg \ Registered \subseteq stale
    BY DEF RegistriesAgree
  <2>2. peer
    BY <1>1, <2>1 DEF AgentXInv, SessionInv
  <2>3. Unclosed(tx)
    BY <2>1 DEF Quiet, Unclosed
  <2>4. \A o \in Oids : Agree(o)
    BY <1>1, <2>1, <2>2, <2>3 DEF AgentXInv, AgreeInv, Live
  <2>5. \A o : ~ Waiting(o) /\ Settled(tx, o)
    BY <2>1 DEF Waiting, Quiet, Settled, About
  <2>6. \A o \in Oids : /\ o \in Registered => o \in mreg \cup refused \cup stale
                        /\ o \in mreg => o \in Registered \cup stale
    BY <2>4, <2>5 DEF Agree
  <2>7. Registered \subseteq Oids /\ mreg \subseteq Oids
    BY <1>1 DEF AgentXInv, TypeInv
  <2> QED
    BY <2>6, <2>7
<1> QED
  BY <1>1, AgentXInvariant, PTL
=============================================================================
