----------------------------- MODULE LoopProofs -----------------------------
(***************************************************************************)
(* The loops.  The two of src/core/mib_tree.c that everything else rests   *)
(* on: the loop of oid_cmp computes the order of oids, for oids of any     *)
(* length, and oid_binary_search is correct for every sorted array and     *)
(* every target.  And the event loops of the two UDP transports, of which  *)
(* a build has one: they keep the promise of module Replies, for any       *)
(* number of datagrams and clients, the one on libevent always, the        *)
(* built-in one with epoll, and with select if clients wait for a response *)
(* before they send again.                                                 *)
(***************************************************************************)
EXTENDS OidCmp, OidSearch, OidProofs, UdpLibevent

(***************************************************************************)
(* oid_cmp and oid_binary_search.                                          *)
(***************************************************************************)
\* At the first difference the closed form is the difference found there.
LEMMA CmpAtDiff ==
  ASSUME NEW s \in OID, NEW t \in OID, NEW k \in 1 .. Len(s), k <= Len(t),
         s[k] # t[k], \A j \in 1 .. (k - 1) : s[j] = t[j]
  PROVE  oid_cmp(s, t) = int_diff(s[k], t[k])
<1> DEFINE d == FirstDiff(s, t)
<1>1. k \in Diff(s, t)
  BY DEF Diff
<1>2. d \in Diff(s, t) /\ \A j \in 1 .. (d - 1) : s[j] = t[j]
  BY <1>1, FirstDiffIsFirst
<1>3. d = k
  <2> HIDE DEF d
  <2>1. d \in 1 .. Len(s) /\ s[d] # t[d] /\ Len(s) \in Nat
    BY <1>2 DEF Diff, OID
  <2> QED
    BY <1>2, <2>1
<1> QED
  BY <1>1, <1>3 DEF oid_cmp

\* The sub-identifiers consumed agree, and the value returned is oid_cmp.
THEOREM CmpInvariant == CmpSpec => []CmpInv
<1>1. CmpInit => CmpInv
  BY OidsAssumption DEF CmpInit, CmpInv, CmpTypeOK, CmpCorrect, OID
<1>2. CmpInv /\ [CmpNext]_CmpVars => CmpInv'
  <2> SUFFICES ASSUME CmpInv, [CmpNext]_CmpVars PROVE CmpInv'
    OBVIOUS
  <2>0. /\ src \in OID /\ target \in OID /\ i \in Nat
        /\ Len(src) \in Nat /\ Len(target) \in Nat
        /\ \A j \in 1 .. Len(src) : src[j] \in SubId
        /\ \A j \in 1 .. Len(target) : target[j] \in SubId
    BY OidsAssumption DEF CmpInv, CmpTypeOK, OID
  <2>1. ASSUME SrcLeft > 0, TargetLeft > 0
        PROVE  /\ i + 1 \in 1 .. Len(src) /\ i + 1 \in 1 .. Len(target)
               /\ int_diff(src[i + 1], target[i + 1]) \in Int
               /\ int_diff(src[i + 1], target[i + 1]) = 0 <=> src[i + 1] = target[i + 1]
    <3>1. i + 1 \in 1 .. Len(src) /\ i + 1 \in 1 .. Len(target)
      BY <2>0, <2>1 DEF SrcLeft, TargetLeft
    <3> QED
      BY <2>0, <3>1, IntDiff
  <2>2. CASE CmpStep
    <3>1. src[i + 1] = target[i + 1] /\ i + 1 \in 1 .. Len(src) /\ i + 1 \in 1 .. Len(target)
      BY <2>1, <2>2 DEF CmpStep
    <3>2. i' = i + 1 /\ cmp_pc = "loop" /\ UNCHANGED <<src, target, cmp_pc, cmp_ret>>
      BY <2>2 DEF CmpStep
    <3> QED
      BY <2>0, <3>1, <3>2 DEF CmpInv, CmpTypeOK, CmpCorrect
  <2>3. CASE CmpReturnDiff
    <3>1. oid_cmp(src, target) = int_diff(src[i + 1], target[i + 1])
      BY <2>0, <2>1, <2>3, CmpAtDiff DEF CmpReturnDiff, CmpInv
    <3> QED
      BY <2>0, <2>1, <2>3, <3>1 DEF CmpReturnDiff, CmpInv, CmpTypeOK, CmpCorrect
  <2>4. CASE CmpReturnLen
    <3>1. Diff(src, target) = {}
      BY <2>0, <2>4 DEF CmpReturnLen, CmpInv, CmpTypeOK, Diff, SrcLeft, TargetLeft
    <3>2. oid_cmp(src, target) = Len(src) - Len(target)
      BY <3>1 DEF oid_cmp
    <3>3. cmp_ret' = Len(src) - Len(target) /\ cmp_pc' = "done" /\ UNCHANGED <<src, target, i>>
      BY <2>0, <2>4 DEF CmpReturnLen, SrcLeft, TargetLeft
    <3> QED
      BY <2>0, <3>2, <3>3 DEF CmpInv, CmpTypeOK, CmpCorrect
  <2>5. CASE UNCHANGED CmpVars
    BY <2>5 DEF CmpVars, CmpInv, CmpTypeOK, CmpCorrect
  <2> QED
    BY <2>2, <2>3, <2>4, <2>5 DEF CmpNext
<1> QED
  BY <1>1, <1>2, PTL DEF CmpSpec

\* Below 2^31 the sign of the value that oid_cmp returns is the order of oids.
THEOREM CmpOrders == CmpSpec => []CmpIsOrder
<1>1. CmpInv => CmpIsOrder
  BY CmpSign DEF CmpInv, CmpCorrect, CmpIsOrder
<1> QED
  BY <1>1, CmpInvariant, PTL

\* oid_cmp returns zero for equal oids only, whatever the sub-identifiers.
THEOREM CmpTellsEqual == CmpSpec => []CmpZeroIsEqual
<1>1. CmpInv => CmpZeroIsEqual
  BY OidsAssumption, CmpZero DEF CmpInv, CmpTypeOK, CmpCorrect, CmpZeroIsEqual
<1> QED
  BY <1>1, CmpInvariant, PTL

\* oid_cover is the prefix relation.
THEOREM CoverTellsPrefix == CmpSpec => []CoverIsPrefix
<1>1. CmpInv => CoverIsPrefix
  BY OidsAssumption, CoverPrefix DEF CmpInv, CmpTypeOK, CoverIsPrefix
<1> QED
  BY <1>1, CmpInvariant, PTL

\* All of it together: what mib_tree.c and mib_view.c take the comparison for.
THEOREM OidOrderHolds == CmpSpec => []OidOrder
<1>1. CmpInv /\ CmpIsOrder /\ CmpZeroIsEqual /\ CoverIsPrefix => OidOrder
  BY DEF OidOrder, CmpInv
<1> QED
  BY <1>1, CmpInvariant, CmpOrders, CmpTellsEqual, CoverTellsPrefix, PTL
-----------------------------------------------------------------------------
\* The arrays are sequences of sub-identifiers.
LEMMA ArrIsSeq ==
  ASSUME NEW a \in Arr
  PROVE  /\ Len(a) \in Nat
         /\ \A n \in 1 .. Len(a) : a[n] \in Int
         /\ \A n, j \in 1 .. Len(a) : n < j => a[n] < a[j]
<1>1. a \in Seq(SubId) /\ StrictlySorted(a)
  BY ArrAssumption DEF OID
<1>2. SubId \subseteq Int
  BY HalfAssumption DEF SubId, Word
<1>3. Len(a) \in Nat /\ \A n \in 1 .. Len(a) : a[n] \in SubId
  BY <1>1
<1> QED
  BY <1>1, <1>2, <1>3 DEF StrictlySorted

\* The number of elements not greater than the target is what the two sides of
\* the loop's bounds say it is.
LEMMA NotGreaterUnique ==
  ASSUME NEW a \in Arr, NEW o \in SubId, NEW p \in 0 .. Len(a),
         \A k \in 1 .. p : a[k] <= o,
         \A k \in (p + 1) .. Len(a) : a[k] > o
  PROVE  NotGreater(a, o) = p
<1> DEFINE P(q) == /\ \A k \in 1 .. q : a[k] <= o
                   /\ \A k \in (q + 1) .. Len(a) : a[k] > o
<1>1. Len(a) \in Nat /\ o \in Int /\ \A n \in 1 .. Len(a) : a[n] \in Int
  BY ArrIsSeq, HalfAssumption DEF SubId
<1>2. P(p)
  OBVIOUS
<1>3. ASSUME NEW q \in 0 .. Len(a), P(q) PROVE q = p
  <2>1. CASE q < p
    <3>1. q + 1 \in 1 .. p /\ q + 1 \in (q + 1) .. Len(a)
      BY <2>1, <1>1
    <3> QED
      BY <3>1, <1>1, <1>2, <1>3
  <2>2. CASE p < q
    <3>1. p + 1 \in 1 .. q /\ p + 1 \in (p + 1) .. Len(a)
      BY <2>2, <1>1
    <3> QED
      BY <3>1, <1>1, <1>2, <1>3
  <2> QED
    BY <2>1, <2>2, <1>1
<1>4. NotGreater(a, o) = CHOOSE q \in 0 .. Len(a) : P(q)
  BY DEF NotGreater
<1> HIDE DEF P
<1> QED
  BY <1>2, <1>3, <1>4

\* The bounds of the loop always enclose the position sought.
THEOREM SearchInvariant == SearchSpec => []SearchInv
<1>1. SearchInit => SearchInv
  BY ArrIsSeq DEF SearchInit, SearchInv, SearchTypeOK
<1>2. SearchInv /\ [SearchNext]_SearchVars => SearchInv'
  <2> SUFFICES ASSUME SearchInv, [SearchNext]_SearchVars PROVE SearchInv'
    OBVIOUS
  <2>0. /\ Len(arr) \in Nat /\ \A n \in 1 .. Len(arr) : arr[n] \in Int
        /\ low \in Int /\ high \in Int /\ oid \in Int
    BY ArrIsSeq, HalfAssumption DEF SearchInv, SearchTypeOK, SubId
  <2>1. CASE SearchStep
    <3> DEFINE mid == low + (high - low) \div 2
    <3>1. low < mid /\ mid < high /\ mid \in Int
      BY <2>0, <2>1 DEF SearchStep
    <3>2. IF arr[mid + 1] > oid THEN high' = mid /\ low' = low ELSE low' = mid /\ high' = high
      BY <2>1 DEF SearchStep
    <3>3. UNCHANGED <<arr, oid, search_pc, search_ret>> /\ search_pc = "loop"
      BY <2>1 DEF SearchStep
    <3> HIDE DEF mid
    <3>4. mid + 1 \in 1 .. Len(arr)
      BY <3>1, <2>0 DEF SearchInv, SearchTypeOK
    <3> QED
      BY <2>0, <3>1, <3>2, <3>3, <3>4 DEF SearchInv, SearchTypeOK
  <2>2. CASE SearchReturn
    BY <2>0, <2>2 DEF SearchReturn, SearchInv, SearchTypeOK
  <2>3. CASE UNCHANGED SearchVars
    BY <2>3 DEF SearchVars, SearchInv, SearchTypeOK
  <2> QED
    BY <2>1, <2>2, <2>3 DEF SearchNext
<1> QED
  BY <1>1, <1>2, PTL DEF SearchSpec

\* What oid_binary_search returns is the position of the target, or the negated
\* position at which mib_tree_instance_insert keeps the array sorted.
THEOREM SearchIsCorrect == SearchSpec => []SearchCorrect
<1>1. SearchInv => SearchCorrect
  <2> SUFFICES ASSUME SearchInv, search_pc = "done" PROVE search_ret = oid_binary_search(arr, oid)
    BY DEF SearchCorrect
  <2>0. /\ arr \in Arr /\ oid \in SubId /\ oid \in Int
        /\ Len(arr) \in Nat /\ \A n \in 1 .. Len(arr) : arr[n] \in Int
        /\ \A n, j \in 1 .. Len(arr) : n < j => arr[n] < arr[j]
        /\ low \in -1 .. (Len(arr) - 1) /\ high = low + 1
    BY ArrIsSeq, HalfAssumption DEF SearchInv, SearchTypeOK, SubId
  <2>1. \A k \in 1 .. (low + 1) : arr[k] <= oid
    <3> SUFFICES ASSUME NEW k \in 1 .. (low + 1) PROVE arr[k] <= oid
      OBVIOUS
    <3>1. k = low + 1 \/ arr[k] < arr[low + 1]
      BY <2>0
    <3> QED
      BY <2>0, <3>1 DEF SearchInv
  <2>2. \A k \in (low + 2) .. Len(arr) : arr[k] > oid
    <3> SUFFICES ASSUME NEW k \in (low + 2) .. Len(arr) PROVE arr[k] > oid
      OBVIOUS
    <3>1. k = high + 1 \/ arr[high + 1] < arr[k]
      BY <2>0
    <3> QED
      BY <2>0, <3>1 DEF SearchInv
  <2>3. NotGreater(arr, oid) = low + 1
    BY <2>0, <2>1, <2>2, NotGreaterUnique
  <2> QED
    BY <2>0, <2>3 DEF SearchInv, oid_binary_search
<1> QED
  BY <1>1, SearchInvariant, PTL
-----------------------------------------------------------------------------
(***************************************************************************)
(* The transports.                                                         *)
(***************************************************************************)
CONSTANTS Multiplexer, Window              \* as in module UdpEvloop, and so
VARIABLES mux, flag, interest, ready, buf  \* the variables that it has of its own

Evloop == INSTANCE UdpEvloop

\* What the queue stands for follows it when an entry is appended or removed.
LEMMA BufsOfAppend ==
  ASSUME NEW q \in Seq(Entry), NEW e \in Entry
  PROVE  Bufs(Append(q, e)) = Append(Bufs(q), e.buf)
BY DEF Bufs, Entry

\* The replies behind the first one of the send queue.
LEMMA BufsOfTail ==
  ASSUME NEW q \in Seq(Entry), q # <<>>
  PROVE  /\ Bufs(q) # <<>> /\ Head(Bufs(q)) = Head(q).buf
         /\ Bufs(Tail(q)) = Tail(Bufs(q))
BY DEF Bufs, Entry

\* The replies in the send queue are replies.
LEMMA BufsType ==
  ASSUME NEW q \in Seq(Entry)
  PROVE  Bufs(q) \in Seq(Datagram)
<1>1. \A k \in 1 .. Len(q) : q[k] \in Entry
  OBVIOUS
<1>2. \A k \in 1 .. Len(q) : q[k].buf \in Datagram
  BY <1>1, LibeventAssumption DEF Entry
<1>3. Len(q) \in Nat
  OBVIOUS
<1> QED
  BY <1>2, <1>3 DEF Bufs

\* The invariant that the transport rests on: see SendInv.
THEOREM SendInvariant == Spec => []SendInv
<1>1. Init => SendInv
  BY DEF Init, SendInv, TypeOK
<1>2. SendInv /\ [Next]_vars => SendInv'
  <2> SUFFICES ASSUME SendInv, [Next]_vars PROVE SendInv'
    OBVIOUS
  <2> USE DEF SendInv, TypeOK
  <2>1. ASSUME NEW d \in Datagram, Arrive(d) PROVE SendInv'
    BY <2>1 DEF Arrive
  <2>2. CASE snmp_read_cb
    <3> DEFINE d == Head(inbox)
    <3>1. d \in Datagram /\ inbox' \in Seq(Datagram)
      BY <2>2 DEF snmp_read_cb
    <3>2. CASE d \in Answered
      <4> DEFINE e == [buf |-> d, client_sin |-> ClientOf[d]]
      <4>1. e \in Entry /\ e.client_sin = ClientOf[e.buf]
        BY <3>1, <3>2 DEF Entry, Client
      <4>2. send_queue' = Append(send_queue, e) /\ NewEvent(events)
        BY <2>2, <3>2 DEF snmp_read_cb, transport_send
      <4> HIDE DEF e, d
      <4>3. TypeOK'
        BY <2>2, <3>1, <4>1, <4>2 DEF snmp_read_cb, NewEvent
      <4>4. snmp_send_event' \in events'
        BY <4>2 DEF NewEvent
      <4>5. \A k \in 1 .. Len(send_queue') : send_queue'[k].client_sin = ClientOf[send_queue'[k].buf]
        BY <4>1, <4>2
      <4> QED
        BY <4>3, <4>4, <4>5
    <3>3. CASE d \notin Answered
      <4>1. UNCHANGED <<arrived, sent, failed, up, send_queue, events, snmp_send_event, made>>
        BY <2>2, <3>3 DEF snmp_read_cb
      <4> QED
        BY <3>1, <4>1
    <3> QED
      BY <3>2, <3>3
  <2>3. ASSUME NEW e \in events, NEW ok \in BOOLEAN, snmp_write_cb(e, ok) PROVE SendInv'
    <3>1. CASE send_queue = <<>>
      BY <2>3, <3>1 DEF snmp_write_cb
    <3>2. CASE send_queue # <<>>
      <4> DEFINE h == Head(send_queue)
      <4>0. send_queue' = Tail(send_queue)
        BY <2>3, <3>2 DEF snmp_write_cb
      <4>1. h \in Entry /\ send_queue' = Tail(send_queue) /\ send_queue' \in Seq(Entry)
        BY <3>2, <4>0
      <4>2. /\ sent' = sent \/ sent' = Append(sent, <<h.buf, h.client_sin>>)
            /\ failed' = failed \/ failed' = failed \cup {h.buf}
        BY <2>3, <3>2 DEF snmp_write_cb, Address
      <4>3. h.buf \in Datagram /\ h.client_sin \in Client
        BY <4>1, LibeventAssumption DEF Entry
      <4>4. Continue(events \ {e, snmp_send_event}, send_queue')
        BY <2>3, <3>2, <4>1 DEF snmp_write_cb
      <4> HIDE DEF h
      <4>5. /\ made' \in Nat /\ events' \subseteq 1 .. made' /\ snmp_send_event' \in 0 .. made'
            /\ send_queue' # <<>> => snmp_send_event' \in events'
        <5>1. CASE send_queue' = <<>>
          BY <4>4, <5>1 DEF Continue
        <5>2. CASE send_queue' # <<>>
          <6>1. /\ made' = made + 1 /\ snmp_send_event' = made + 1
                /\ events' = (events \ {e, snmp_send_event}) \cup {made + 1}
            BY <4>4, <5>2 DEF Continue, NewEvent
          <6> QED
            BY <6>1
        <5> QED
          BY <5>1, <5>2
      <4>6. sent' \in Seq(Datagram \X Client) /\ failed' \subseteq Datagram
        <5>1. <<h.buf, h.client_sin>> \in Datagram \X Client
          BY <4>3
        <5>2. Append(sent, <<h.buf, h.client_sin>>) \in Seq(Datagram \X Client)
          BY <5>1
        <5> QED
          BY <4>2, <4>3, <5>2
      <4>7. \A k \in 1 .. Len(send_queue') : send_queue'[k].client_sin = ClientOf[send_queue'[k].buf]
        BY <3>2, <4>1
      <4> QED
        BY <2>3, <4>1, <4>5, <4>6, <4>7 DEF snmp_write_cb
    <3> QED
      BY <3>1, <3>2
  <2>4. CASE recvfrom_fails
    BY <2>4 DEF recvfrom_fails
  <2>5. CASE UNCHANGED vars
    BY <2>5 DEF vars
  <2> QED
    BY <2>1, <2>2, <2>3, <2>4, <2>5 DEF Next, write_cb
<1> QED
  BY <1>1, <1>2, PTL DEF Spec

\* Every step of the transport is a step of module Replies or changes nothing
\* there: responses are sent once each, in order, to their own clients, and one
\* that sendto fails for is the only one lost.
THEOREM Implements == Spec => ImplementsReplies
<1>1. Init => Abstract!Init
  BY DEF Init, Abstract!Init, Bufs
<1>2. SendInv /\ [Next]_vars => [Abstract!Next]_Abstract!vars
  <2> SUFFICES ASSUME SendInv, [Next]_vars PROVE [Abstract!Next]_Abstract!vars
    OBVIOUS
  <2> USE DEF SendInv, TypeOK
  <2>1. ASSUME NEW d \in Datagram, Arrive(d) PROVE Abstract!Arrive(d)
    BY <2>1 DEF Arrive, Abstract!Arrive
  <2>2. CASE snmp_read_cb
    <3> DEFINE d == Head(inbox)
    <3>1. d \in Datagram
      BY <2>2 DEF snmp_read_cb
    <3>2. CASE d \in Answered
      <4> DEFINE e == [buf |-> d, client_sin |-> ClientOf[d]]
      <4>1. e \in Entry /\ e.buf = d
        BY <3>1, <3>2 DEF Entry, Client
      <4>2. send_queue' = Append(send_queue, e)
        BY <2>2, <3>2 DEF snmp_read_cb, transport_send
      <4>3. Bufs(send_queue)' = Append(Bufs(send_queue), d)
        <5> HIDE DEF e
        <5> QED
          BY <4>1, <4>2, BufsOfAppend
      <4> QED
        BY <2>2, <3>2, <4>3 DEF snmp_read_cb, Abstract!Serve, Abstract!Next
    <3>3. CASE d \notin Answered
      BY <2>2, <3>3 DEF snmp_read_cb, Abstract!Serve, Abstract!Next
    <3> QED
      BY <3>2, <3>3
  <2>3. ASSUME NEW e \in events, NEW ok \in BOOLEAN, snmp_write_cb(e, ok) PROVE [Abstract!Next]_Abstract!vars
    <3>1. CASE send_queue = <<>>
      BY <2>3, <3>1 DEF snmp_write_cb, Abstract!vars
    <3>2. CASE send_queue # <<>>
      <4>1. Head(send_queue) \in Entry
            /\ Head(send_queue).client_sin = ClientOf[Head(send_queue).buf]
        BY <3>2
      <4>2. /\ up /\ send_queue' = Tail(send_queue) /\ UNCHANGED <<arrived, inbox, up>>
            /\ sent' = IF ok THEN Append(sent, <<Head(send_queue).buf, Head(send_queue).client_sin>>) ELSE sent
            /\ failed' = IF ok THEN failed ELSE failed \cup {Head(send_queue).buf}
        BY <2>3, <3>2 DEF snmp_write_cb, Address
      <4>3. CASE ok
        BY <3>2, <4>1, <4>2, <4>3, BufsOfTail DEF Abstract!Reply, Abstract!Next
      <4>4. CASE ~ ok
        BY <3>2, <4>1, <4>2, <4>4, BufsOfTail DEF Abstract!GiveUp, Abstract!Next
      <4> QED
        BY <4>3, <4>4
    <3> QED
      BY <3>1, <3>2
  <2>4. CASE recvfrom_fails
    BY <2>4, BufsType DEF recvfrom_fails, Abstract!Stop, Abstract!Next
  <2>5. CASE UNCHANGED vars
    BY <2>5 DEF vars, Abstract!vars
  <2> QED
    BY <2>1, <2>2, <2>3, <2>4, <2>5 DEF Next, write_cb, Abstract!Next
<1> QED
  BY <1>1, <1>2, SendInvariant, PTL DEF Spec, ImplementsReplies, Abstract!Spec
-----------------------------------------------------------------------------
\* The pending response keeps its address, because the read handler is not called
\* while there is one: snmp_read_handler, snmp_write_handler and the multiplexers.
THEOREM EvloopInvariant == ASSUME Evloop!Patient PROVE Evloop!Spec => []Evloop!EvloopInv
<1>1. Evloop!Init => Evloop!EvloopInv
  BY DEF Evloop!Init, Evloop!EvloopInv, Evloop!TypeOK, Evloop!Flag
<1>2. Evloop!EvloopInv /\ [Evloop!Next]_(Evloop!vars) => Evloop!EvloopInv'
  <2> SUFFICES ASSUME Evloop!EvloopInv, [Evloop!Next]_(Evloop!vars) PROVE Evloop!EvloopInv'
    OBVIOUS
  <2> USE DEF Evloop!EvloopInv, Evloop!TypeOK
  <2>0. mux \in Multiplexer /\ (mux # "epoll" => Window[mux] = 1) /\ Len(inbox) \in Nat
    BY Evloop!Patient DEF Evloop!Patient
  <2>1. ASSUME NEW d \in Datagram, Evloop!Arrive(d) PROVE Evloop!EvloopInv'
    <3>1. /\ inbox' = Append(inbox, d) /\ inbox' # <<>> /\ Len(inbox') = Len(inbox) + 1
          /\ inbox' \in Seq(Datagram)
      BY <2>1 DEF Evloop!Arrive
    <3>2. mux # "epoll" => "WRITE" \notin flag /\ Len(inbox) = 0
      BY <2>0, <2>1 DEF Evloop!Arrive
    <3> QED
      BY <2>0, <2>1, <3>1, <3>2 DEF Evloop!Arrive
  <2>2. ASSUME NEW w \in BOOLEAN, Evloop!ev_poll(w) PROVE Evloop!EvloopInv'
    <3>1. ready' = {f \in interest \cap flag : IF f = "READ" THEN inbox # <<>> ELSE w} /\ up
      BY <2>2 DEF Evloop!ev_poll
    <3>2. "READ" \in ready' => inbox # <<>> /\ "READ" \in interest
      BY <3>1
    <3>3. "READ" \in ready' => "WRITE" \notin flag
      <4>1. CASE mux = "epoll"
        BY <3>1, <3>2, <4>1
      <4>2. CASE mux # "epoll"
        BY <2>0, <3>2, <4>2
      <4> QED
        BY <4>1, <4>2
    <3> QED
      BY <2>2, <3>1, <3>2, <3>3 DEF Evloop!ev_poll
  <2>3. CASE Evloop!snmp_read_handler
    <3> DEFINE d == Head(inbox)
    <3>0. "READ" \in ready /\ inbox # <<>> /\ "WRITE" \notin flag /\ up
      BY <2>3 DEF Evloop!snmp_read_handler
    <3>1. d \in Datagram /\ inbox' \in Seq(Datagram) /\ Len(inbox') = Len(inbox) - 1 /\ ClientOf[d] \in Evloop!Client
      BY <2>3, <3>0 DEF Evloop!snmp_read_handler, Evloop!Client
    <3>2. ready' = {}
      BY <2>3, <3>0 DEF Evloop!snmp_read_handler, Evloop!Flag
    <3>3. UNCHANGED <<arrived, sent, up, mux>> /\ client_sin' = ClientOf[d]
      BY <2>3 DEF Evloop!snmp_read_handler
    <3>4. CASE d \in Answered
      <4>1. buf' = d /\ flag' = flag \cup {"WRITE"}
            /\ interest' = IF mux = "epoll" THEN {"WRITE"} ELSE interest \cup {"WRITE"}
        BY <2>3, <3>4
        DEF Evloop!snmp_read_handler, Evloop!transport_send, Evloop!snmp_event_add, Evloop!epoll_add,
            Evloop!select_add
      <4> HIDE DEF d
      <4> QED
        BY <2>0, <3>1, <3>2, <3>3, <4>1 DEF Evloop!Flag
    <3>5. CASE d \notin Answered
      <4>1. UNCHANGED <<buf, flag, interest>>
        BY <2>3, <3>5 DEF Evloop!snmp_read_handler
      <4> HIDE DEF d
      <4> QED
        BY <2>0, <3>0, <3>1, <3>2, <3>3, <4>1
    <3> QED
      BY <3>4, <3>5
  <2>4. CASE Evloop!snmp_write_handler
    <3>1. "WRITE" \in flag /\ ready' = {} /\ flag' = flag \ {"WRITE"}
          /\ buf' = Evloop!NULL /\ client_sin' = Evloop!NULL
          /\ interest' = (IF mux = "epoll" THEN Evloop!Flag \ {"WRITE"} ELSE interest \ {"WRITE"})
          /\ UNCHANGED <<arrived, inbox, up, mux>>
      BY <2>4 DEF Evloop!snmp_write_handler, Evloop!snmp_event_remove, Evloop!epoll_remove, Evloop!select_remove
    <3>2. Evloop!Flag \ {"WRITE"} = {"READ"}
      BY DEF Evloop!Flag
    <3>3. sent' \in Seq(Datagram \X Evloop!Client)
      <4>1. <<buf, client_sin>> \in Datagram \X Evloop!Client /\ sent' = Append(sent, <<buf, client_sin>>)
        BY <2>4, <3>1 DEF Evloop!snmp_write_handler, Evloop!Client
      <4> QED
        BY <4>1
    <3>4. Evloop!TypeOK'
      BY <2>0, <3>1, <3>2, <3>3 DEF Evloop!Flag
    <3>5. mux' # "epoll" => Len(inbox') <= 1
      BY <2>0, <3>1
    <3> QED
      BY <3>1, <3>2, <3>4, <3>5
  <2>5. CASE Evloop!snmp_event_done
    <3>1. /\ up' = FALSE /\ flag' = {} /\ interest' = {} /\ ready' = {}
          /\ UNCHANGED <<arrived, inbox, sent, mux, buf, client_sin>>
      BY <2>5 DEF Evloop!snmp_event_done
    <3>2. Evloop!TypeOK'
      BY <3>1
    <3>3. mux' # "epoll" => Len(inbox') <= 1
      BY <2>0, <3>1
    <3> QED
      BY <3>1, <3>2, <3>3
  <2>6. CASE UNCHANGED Evloop!vars
    BY <2>6 DEF Evloop!vars
  <2> QED
    BY <2>1, <2>2, <2>3, <2>4, <2>5, <2>6 DEF Evloop!Next, Evloop!snmp_event_poll
<1> QED
  BY <1>1, <1>2, PTL DEF Evloop!Spec

\* Every step of the handlers is a step of module Replies or changes nothing there:
\* responses are sent once each, in order, to their own clients.
THEOREM EvloopImplements == ASSUME Evloop!Patient PROVE Evloop!Spec => Evloop!ImplementsReplies
<1>1. Evloop!Init => Evloop!Abstract!Init
  BY DEF Evloop!Init, Evloop!Abstract!Init, Evloop!Pending
<1>2. Evloop!EvloopInv /\ Evloop!EvloopInv' /\ [Evloop!Next]_(Evloop!vars) =>
        [Evloop!Abstract!Next]_(Evloop!Abstract!vars)
  <2> SUFFICES ASSUME Evloop!EvloopInv, Evloop!EvloopInv', [Evloop!Next]_(Evloop!vars)
               PROVE  [Evloop!Abstract!Next]_(Evloop!Abstract!vars)
    OBVIOUS
  <2>1. ASSUME NEW d \in Datagram, Evloop!Arrive(d) PROVE Evloop!Abstract!Arrive(d)
    BY <2>1 DEF Evloop!Arrive, Evloop!Abstract!Arrive, Evloop!Pending
  <2>2. ASSUME NEW w \in BOOLEAN, Evloop!ev_poll(w) PROVE UNCHANGED Evloop!Abstract!vars
    BY <2>2 DEF Evloop!ev_poll, Evloop!Abstract!vars, Evloop!Pending
  <2>3. CASE Evloop!snmp_read_handler
    <3> DEFINE d == Head(inbox)
    <3>1. up /\ inbox # <<>> /\ "WRITE" \notin flag /\ inbox' = Tail(inbox) /\ UNCHANGED <<arrived, sent, up>>
      BY <2>3 DEF Evloop!snmp_read_handler, Evloop!EvloopInv
    <3>2. CASE d \in Answered
      <4>1. buf' = d /\ "WRITE" \in flag'
        BY <2>3, <3>2 DEF Evloop!snmp_read_handler, Evloop!transport_send, Evloop!snmp_event_add
      <4>2. Evloop!Pending = <<>> /\ Evloop!Pending' = <<d>>
        BY <3>1, <4>1 DEF Evloop!Pending
      <4>3. Evloop!Pending' = Append(Evloop!Pending, d)
        BY <4>2
      <4> QED
        BY <3>1, <3>2, <4>3 DEF Evloop!Abstract!Serve, Evloop!Abstract!Next
    <3>3. CASE d \notin Answered
      <4>1. flag' = flag /\ buf' = buf
        BY <2>3, <3>3 DEF Evloop!snmp_read_handler
      <4>2. Evloop!Pending' = Evloop!Pending
        BY <4>1 DEF Evloop!Pending
      <4> QED
        BY <3>1, <3>3, <4>2 DEF Evloop!Abstract!Serve, Evloop!Abstract!Next
    <3> QED
      BY <3>2, <3>3
  <2>4. CASE Evloop!snmp_write_handler
    <3>1. "WRITE" \in flag /\ client_sin = ClientOf[buf] /\ "WRITE" \notin flag'
          /\ sent' = Append(sent, <<buf, client_sin>>) /\ up /\ UNCHANGED <<arrived, inbox, up>>
      BY <2>4 DEF Evloop!snmp_write_handler, Evloop!snmp_event_remove, Evloop!EvloopInv, Evloop!TypeOK
    <3>2. Evloop!Pending = <<buf>> /\ Evloop!Pending' = <<>>
      BY <3>1 DEF Evloop!Pending
    <3>3. Evloop!Pending # <<>> /\ Head(Evloop!Pending) = buf /\ Evloop!Pending' = Tail(Evloop!Pending)
      BY <3>2
    <3> QED
      BY <3>1, <3>3 DEF Evloop!Abstract!Reply, Evloop!Abstract!Next
  <2>5. CASE Evloop!snmp_event_done
    <3>1. Evloop!Pending' = <<>>
      BY <2>5 DEF Evloop!snmp_event_done, Evloop!Pending
    <3>2. inbox' \in Seq(Datagram) /\ Evloop!Pending' \in Seq(Datagram)
      BY <3>1 DEF Evloop!EvloopInv, Evloop!TypeOK
    <3> QED
      BY <2>5, <3>2 DEF Evloop!snmp_event_done, Evloop!Abstract!Stop, Evloop!Abstract!Next
  <2>6. CASE UNCHANGED Evloop!vars
    BY <2>6 DEF Evloop!vars, Evloop!Abstract!vars, Evloop!Pending
  <2> QED
    BY <2>1, <2>2, <2>3, <2>4, <2>5, <2>6 DEF Evloop!Next, Evloop!snmp_event_poll, Evloop!Abstract!Next
<1> QED
  BY <1>1, <1>2, EvloopInvariant, PTL DEF Evloop!Spec, Evloop!ImplementsReplies, Evloop!Abstract!Spec

\* A response goes to the client that sent the request: the assumption on clients
\* is what the run udp_evloop_sender does without.
THEOREM EvloopSender == ASSUME Evloop!Patient PROVE Evloop!Spec => []Evloop!RepliesToSender
<1>1. Evloop!Init => Evloop!RepliesToSender
  BY DEF Evloop!Init, Evloop!RepliesToSender
<1>2. Evloop!EvloopInv /\ Evloop!RepliesToSender /\ [Evloop!Next]_(Evloop!vars) => Evloop!RepliesToSender'
  <2> SUFFICES ASSUME Evloop!EvloopInv, Evloop!RepliesToSender, [Evloop!Next]_(Evloop!vars)
               PROVE  Evloop!RepliesToSender'
    OBVIOUS
  <2>1. CASE sent' = sent
    BY <2>1 DEF Evloop!RepliesToSender
  <2>2. CASE Evloop!snmp_write_handler
    <3>1. sent' = Append(sent, <<buf, client_sin>>)
          /\ client_sin = ClientOf[buf] /\ sent \in Seq(Datagram \X Evloop!Client)
      BY <2>2 DEF Evloop!snmp_write_handler, Evloop!EvloopInv, Evloop!TypeOK
    <3> QED
      BY <3>1 DEF Evloop!RepliesToSender
  <2> QED
    BY <2>1, <2>2
    DEF Evloop!Next, Evloop!snmp_event_poll, Evloop!Arrive, Evloop!ev_poll, Evloop!snmp_read_handler,
        Evloop!snmp_event_done, Evloop!vars
<1> QED
  BY <1>1, <1>2, EvloopInvariant, PTL DEF Evloop!Spec
=============================================================================
