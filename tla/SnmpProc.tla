------------------------------ MODULE SnmpProc ------------------------------
(***************************************************************************)
(* Request processing: the dispatch of src/core/snmp_msg_in.c and          *)
(* snmp_get, snmp_getnext, snmp_set and snmp_bulkget of snmp_msg_proc.c,   *)
(* one variable binding and one view per step.  The principal's view lists *)
(* are any that module MibView can build and the searches within one view  *)
(* are what module MibSearch shows them to be (MibLookup).                 *)
(*                                                                         *)
(* One struct oid_search_res, ret here, serves all bindings of a request   *)
(* and all views of a binding: what one search leaves in it is there when  *)
(* the next one starts, and mib_instance_search takes the type of a value  *)
(* to be set from it.  The get and set functions of the variables are      *)
(* external: some report an error.  The code for communities (v1, v2c) and *)
(* that for users (v3) differ in the list of names consulted only.         *)
(***************************************************************************)
EXTENDS MibLookup, FiniteSets

CONSTANTS
  Node,            \* oids of the instance nodes of the mib-tree
  Object,          \* oids within the objects of their handlers
  Known,           \* those of them at which a GET misses no more than the instance
  Var,             \* oids of the variables that the handlers serve
  TagOf,           \* the type of each
  GetFails,        \* variables of which reading, or setting, reports an error
  SetFails,
  ViewLists,       \* records [READ, WRITE] of view lists
  Messages         \* records [version, known, type, err_stat, err_idx, vbs]

Version == {"v2c", "v3"}
ValueTag == {"NUL", "INT", "STR"}
Invalid == {"NO_SUCH_OBJ", "NO_SUCH_INST", "END_OF_MIB_VIEW"}
Request == {"GET", "GETNEXT", "SET", "BULKGET"}

Sorted(vs) ==
  \A i, j \in 1 .. Len(vs) : i < j => OidLess(vs[i], vs[j]) /\ ~ Covers(vs[i], vs[j])

\* Instance nodes do not overlap (module MibTree).  The lists of a known principal
\* are sorted, without overlaps, and not empty for reading (module MibView).
ASSUME ProcAssumption ==
  /\ Node \subseteq SmallOID /\ Var \subseteq SmallOID /\ IsFiniteSet(Var)
  /\ \A p, q \in Node : Covers(p, q) => p = q
  /\ \A x \in Var : \E p \in Node : Covers(p, x) /\ p # x
  /\ Var \subseteq Known /\ Known \subseteq Object /\ Object \subseteq SmallOID
  /\ \A x \in Object : \E p \in Node : Covers(p, x) /\ p # x
  /\ TagOf \in [Var -> ValueTag]
  /\ ViewLists \subseteq [READ : Seq(SmallOID), WRITE : Seq(SmallOID)]
  /\ \A l \in ViewLists : Sorted(l.READ) /\ Sorted(l.WRITE) /\ l.READ # <<>>

\* What snmp_decode makes of a datagram.
ASSUME MessageAssumption ==
  \A m \in Messages :
    /\ m.version \in Version /\ m.known \in BOOLEAN
    /\ m.type \in Request \cup {"NONE", "RESP", "REPO", "TRAP"}
    /\ m.err_stat \in Nat /\ m.err_idx \in Nat
    /\ m.vbs \in Seq([oid : SmallOID, tag : ValueTag \cup Invalid])

NO_ACCESS == 6
WRONG_TYPE == 7
NOT_WRITABLE == 17

VARIABLES
  views,           \* views[v].READ and .WRITE: lists of the principal known to v
  msg,             \* the request as it arrived
  pc,              \* "idle", "list", "views", "emit" or "sent"
  hdr,             \* sdg->pdu_hdr: type, err_stat and err_idx
  vb_in, vb_out,   \* sdg->vb_in_list and vb_out_list: oids and tags
  repeat,          \* passes over the list left to do
  at, vb_in_cnt,   \* position in the list, and bindings processed
  ret,             \* ret_oid: tag, oid and err (err_stat)
  found, view,     \* community or user is not NULL; the view tried last
  written          \* pairs <<binding, variable>>: set functions that succeeded

req == <<views, msg>>
vars == <<req, pc, hdr, vb_in, vb_out, repeat, at, vb_in_cnt, ret, found, view, written>>

Binding == [oid : SmallOID, tag : ValueTag \cup Invalid \cup {"VALUE"}]

NoMessage ==
  [version |-> "v2c", known |-> FALSE, type |-> "NONE", err_stat |-> 0, err_idx |-> 0, vbs |-> <<>>]

TypeOK ==
  /\ views \in [Version -> ViewLists]
  /\ msg \in Messages \cup {NoMessage}
  /\ pc \in {"idle", "list", "views", "emit", "sent"}
  /\ hdr \in [type : {"NONE", "RESP", "REPO", "TRAP"}, err_stat : Nat, err_idx : Nat]
  /\ vb_in \in Seq(Binding) /\ vb_out \in Seq(Binding)
  /\ repeat \in Nat /\ at \in 0 .. Len(vb_in) /\ vb_in_cnt \in Nat
  /\ ret \in [tag : ValueTag \cup Invalid \cup {"VALUE"}, oid : SmallOID, err : Nat]
  /\ found \in BOOLEAN /\ view \in SmallOID \cup {NULL}
  /\ written \subseteq (Nat \X Var)

Cleared == [tag |-> "NUL", oid |-> <<>>, err |-> 0]

Init ==
  /\ views \in [Version -> ViewLists]
  /\ msg = NoMessage /\ pc = "idle"
  /\ hdr = [type |-> "NONE", err_stat |-> 0, err_idx |-> 0]
  /\ vb_in = <<>> /\ vb_out = <<>> /\ repeat = 0 /\ at = 0 /\ vb_in_cnt = 0
  /\ ret = Cleared /\ found = FALSE /\ view = NULL /\ written = {}
-----------------------------------------------------------------------------
\* snmpd_recv: snmp_datagram_clear, snmp_decode and snmp_request_dispatch, up to
\* the loop over the bindings.  Types other than requests are ignored.  GETBULK
\* has its non-repeaters and max-repetitions in the fields of the error status.
snmpd_recv(m) ==
  LET request == m.type \in Request
      bulk == m.type = "BULKGET"
  IN  /\ pc = "idle"
      /\ msg' = m /\ pc' = IF request THEN "list" ELSE "idle"
      /\ hdr' = [type |-> IF ~ request THEN m.type ELSE IF m.vbs = <<>> THEN "REPO" ELSE "RESP",
                 err_stat |-> m.err_stat, err_idx |-> IF bulk THEN 0 ELSE m.err_idx]
      /\ vb_in' = m.vbs /\ vb_out' = <<>>
      /\ repeat' = (IF bulk THEN m.err_idx ELSE 1) /\ at' = 0 /\ vb_in_cnt' = 0
      /\ ret' = Cleared /\ written' = {}
      /\ UNCHANGED <<views, found, view>>

\* A datagram that cannot be decoded leaves a cleared one, of which the type is
\* none that snmp_request_dispatch knows.
snmp_decode_fails ==
  /\ pc = "idle"
  /\ msg' = NoMessage /\ hdr' = [type |-> "NONE", err_stat |-> 0, err_idx |-> 0]
  /\ vb_in' = <<>> /\ vb_out' = <<>>
  /\ UNCHANGED <<views, pc, repeat, at, vb_in_cnt, ret, found, view, written>>
-----------------------------------------------------------------------------
vb == vb_in[at]
Op == IF msg.type = "BULKGET" THEN "GETNEXT" ELSE msg.type

\* mutant: SET is checked against the views for reading
Mut_Access == "READ"

Access == IF Op = "SET" THEN "WRITE" ELSE "READ"

List == IF found THEN views[msg.version][Access] ELSE <<>>

\* mib_community_search or mib_user_search, and for SET the check against the
\* views for writing.
Permitted(b) ==
  msg.known /\ (Op = "SET" => view_cover(views[msg.version][Access], b.oid))

\* The next binding: its tag is decoded into ret, and access control.
NextVarbind ==
  /\ pc = "list" /\ repeat > 0 /\ at < Len(vb_in)
  /\ at' = at + 1 /\ vb_in_cnt' = vb_in_cnt + 1
  /\ LET b == vb_in[at + 1]
     IN  /\ found' = Permitted(b)
         /\ ret' = [ret EXCEPT !.tag = b.tag, !.err = IF Permitted(b) THEN @ ELSE NO_ACCESS]
  /\ view' = NULL /\ pc' = "views"
  /\ UNCHANGED <<req, hdr, vb_in, vb_out, repeat, written>>

EndOfList ==
  /\ pc = "list" /\ repeat > 0 /\ at = Len(vb_in)
  /\ at' = 0 /\ repeat' = repeat - 1
  /\ UNCHANGED <<req, pc, hdr, vb_in, vb_out, vb_in_cnt, ret, found, view, written>>

snmp_response ==
  /\ pc = "list" /\ repeat = 0
  /\ pc' = "sent"
  /\ UNCHANGED <<req, hdr, vb_in, vb_out, repeat, at, vb_in_cnt, ret, found, view, written>>
-----------------------------------------------------------------------------
\* The handler of a node asked to set variable x to a value of type t: without an
\* object it is not writable, and without an instance, or access to it, there is no
\* access.  A set function that is asked for an instance that does not exist is
\* taken to refuse it with the same error.
SetError(x, t) ==
  CASE x \notin Object -> NOT_WRITABLE
    [] x \in Object \ Var -> NO_ACCESS
    [] x \in Object \cap Var /\ t # TagOf[x] -> WRONG_TYPE
    [] OTHER -> IF x \in SetFails THEN GEN_ERR ELSE 0

\* The handler is called: the node is above the oid, and the view covers it.
Handled(v, o) == Covers(v, o) /\ \E p \in Node : p # o /\ Covers(p, o)

\* mib_tree_search for SET and GET, mib_tree_search_next for GETNEXT.
Search(v, o) ==
  CASE Op = "SET" ->
         [tag |-> IF Handled(v, o) THEN ret.tag ELSE SearchTag(Node, {}, v, o),
          oid |-> o, err |-> IF Handled(v, o) THEN SetError(o, ret.tag) ELSE 0]
    [] Op = "GET" ->
         [tag |-> SearchTag(Node \cup Known, Var, v, o),
          oid |-> o, err |-> IF Handled(v, o) /\ o \in GetFails THEN GEN_ERR ELSE 0]
    [] OTHER -> SearchNext(Node, Var, GetFails, v, o)

MIB_TAG_VALID(t) == t \notin Invalid

\* mutant: GET does not look at further views once a search has failed
Mut_Gotcha(r, v) == IF Op = "GETNEXT" THEN r.tag # "END_OF_MIB_VIEW" ELSE TRUE

\* The condition on which the loop over the views is left.
Gotcha(r, v) ==
  IF Op = "GETNEXT" THEN r.tag # "END_OF_MIB_VIEW"
  ELSE (r.err = 0 /\ MIB_TAG_VALID(r.tag)) \/ oid_cmp(vb.oid, v) < 0

\* mib_get, mib_getnext and mib_set: the next view and the search within it.
TryView ==
  LET v == next_view(List, view)
      r == Search(v, vb.oid)
  IN  /\ pc = "views" /\ v # NULL
      /\ ret' = r /\ view' = v
      /\ pc' = IF Gotcha(r, v) THEN "emit" ELSE "views"
      /\ written' = IF Op = "SET" /\ Handled(v, vb.oid) /\ r.err = 0
                    THEN written \cup {<<vb_in_cnt, vb.oid>>} ELSE written
      /\ UNCHANGED <<req, hdr, vb_in, vb_out, repeat, at, vb_in_cnt, found>>

NoMoreViews ==
  /\ pc = "views" /\ next_view(List, view) = NULL
  /\ ret' = [ret EXCEPT !.oid = vb.oid]
  /\ pc' = "emit"
  /\ UNCHANGED <<req, hdr, vb_in, vb_out, repeat, at, vb_in_cnt, found, view, written>>

\* mutant: the last error is reported and not the first
Mut_Report(e) ==
  IF e # 0 THEN [hdr EXCEPT !.err_stat = e, !.err_idx = vb_in_cnt] ELSE hdr

Report(e) ==
  IF e # 0 /\ hdr.err_stat = 0 THEN [hdr EXCEPT !.err_stat = e, !.err_idx = vb_in_cnt] ELSE hdr

\* mutant: GETBULK searches from the same oid again
Mut_NextQuery == vb_in

\* GETBULK continues where it got to.
NextQuery ==
  IF msg.type = "BULKGET" THEN [vb_in EXCEPT ![at].oid = ret.oid] ELSE vb_in

\* mutant: a SET that no handler was called for is not reported as an error
Mut_Outcome == ret.err

\* For SET an invalid tag becomes an error.
Outcome ==
  IF Op = "SET" /\ ret.err = 0 /\ ~ MIB_TAG_VALID(ret.tag) THEN NOT_WRITABLE ELSE ret.err

\* The rest of the loop body: the binding for the response.
Emit ==
  /\ pc = "emit"
  /\ ret' = [ret EXCEPT !.err = Outcome]
  /\ hdr' = Report(Outcome)
  /\ vb_out' = Append(vb_out, [oid |-> ret.oid, tag |-> IF Op = "SET" THEN vb.tag ELSE ret.tag])
  /\ vb_in' = NextQuery
  /\ pc' = "list"
  /\ UNCHANGED <<req, repeat, at, vb_in_cnt, found, view, written>>

\* The transport has taken the response.  What is left of the datagram, which
\* nothing reads before the next snmp_datagram_clear, is forgotten here.
Taken ==
  /\ pc = "sent"
  /\ pc' = "idle" /\ msg' = NoMessage
  /\ hdr' = [type |-> "NONE", err_stat |-> 0, err_idx |-> 0]
  /\ vb_in' = <<>> /\ vb_out' = <<>> /\ repeat' = 0 /\ at' = 0 /\ vb_in_cnt' = 0
  /\ ret' = Cleared /\ found' = FALSE /\ view' = NULL /\ written' = {}
  /\ UNCHANGED views
-----------------------------------------------------------------------------
Bindings == NextVarbind \/ EndOfList \/ Emit \/ snmp_response
Views == TryView \/ NoMoreViews

mib_get == Op = "GET" /\ Views
mib_getnext == Op = "GETNEXT" /\ Views
mib_set == Op = "SET" /\ Views

snmp_get == msg.type = "GET" /\ (Bindings \/ mib_get)
snmp_getnext == msg.type = "GETNEXT" /\ (Bindings \/ mib_getnext)
snmp_set == msg.type = "SET" /\ (Bindings \/ mib_set)
snmp_bulkget == msg.type = "BULKGET" /\ (Bindings \/ mib_getnext)

Step == snmp_get \/ snmp_getnext \/ snmp_set \/ snmp_bulkget

Next == (\E m \in Messages : snmpd_recv(m)) \/ snmp_decode_fails \/ Step \/ Taken

\* A request, once dispatched, is processed.
Spec == Init /\ [][Next]_vars /\ WF_vars(Step)
-----------------------------------------------------------------------------
Readable(o) == msg.known /\ view_cover(views[msg.version].READ, o)
Writable(o) == msg.known /\ view_cover(views[msg.version].WRITE, o)
Sent(type) == pc = "sent" /\ msg.type = type

\* The error fields of a request are zero, as managers have to send them: the code
\* does not look at them, and answers with them where it finds no error itself.
Clean == msg.err_stat = 0 /\ msg.err_idx = 0

\* A GET is answered binding by binding: with a value exactly if the variable is
\* served, readable without an error, and in some view, whatever the other
\* bindings are and whatever the views tried before left in ret_oid (mib_get).
GetAnswers ==
  Sent("GET") =>
    /\ Len(vb_out) = Len(msg.vbs)
    /\ \A i \in 1 .. Len(vb_out) :
         LET o == msg.vbs[i].oid
         IN  /\ vb_out[i].oid = o
             /\ o \notin GetFails => (vb_out[i].tag = "VALUE" <=> o \in Var /\ Readable(o))

\* The variables that GETNEXT can reach from o in all views of the principal: not
\* one whose oid is that of a view.
Reachable(o) ==
  LET vs == views[msg.version].READ
  IN  {x \in Var : Readable(x) /\ OidLess(o, x) /\ \A i \in 1 .. Len(vs) : vs[i] # x}

NextOf(o) ==
  IF Reachable(o) = {} THEN [oid |-> o, tag |-> "END_OF_MIB_VIEW"]
  ELSE [oid |-> Least(Reachable(o)), tag |-> "VALUE"]

\* GETNEXT and GETBULK without an error answer with the closest next variable
\* over all views of the principal: the loop of mib_getnext may stop at the first
\* view with an answer because the lists are sorted and do not overlap.  Every
\* further pass of snmp_bulkget takes up where the one before it stopped.
NextAnswers ==
  /\ Sent("GETNEXT") \/ Sent("BULKGET")
  /\ msg.known /\ hdr.err_stat = 0
  => LET n == Len(msg.vbs)
     IN  /\ Len(vb_out) = n * (IF msg.type = "BULKGET" THEN msg.err_idx ELSE 1)
         /\ \A i \in 1 .. Len(vb_out) :
              vb_out[i] = NextOf(IF i <= n THEN msg.vbs[i].oid ELSE vb_out[i - n].oid)

\* What a SET has done is what it reports: without an error all bindings have
\* been applied, and the error index is that of the first one that has not been
\* (later ones may have been: mib_set goes on after an error).
SetReport ==
  Sent("SET") /\ Clean =>
    LET missing == {i \in 1 .. Len(msg.vbs) : <<i, msg.vbs[i].oid>> \notin written}
    IN  IF missing = {} THEN hdr.err_stat = 0
        ELSE hdr.err_stat # 0 /\ hdr.err_idx \in missing /\ \A i \in missing : hdr.err_idx <= i

\* Set functions are called for a SET only, and only for variables that a view
\* for writing of the principal covers (mib_set checks, then searches view by view).
SetOnlyWritable ==
  TypeOK /\ \A w \in written : msg.type = "SET" /\ Writable(w[2]) /\ w[2] \in Var \ SetFails

\* An error in the response to a GET or GETNEXT has its cause in the binding that
\* the error index names: a principal without access, or an error of the get
\* function asked; and an unknown principal gets nothing but the bindings it sent.
\* ret_oid is shared by the bindings, so that an error could stick to it.
ErrorHasCause ==
  pc = "sent" /\ Clean /\ hdr.err_idx # 0 /\ msg.type \in {"GET", "GETNEXT"} =>
    LET o == msg.vbs[hdr.err_idx].oid
    IN  IF ~ msg.known
        THEN hdr.err_stat = NO_ACCESS /\ hdr.err_idx = 1 /\ vb_out = msg.vbs
        ELSE hdr.err_stat = GEN_ERR /\ IF msg.type = "GET" THEN o \in GetFails
                                       ELSE \E x \in GetFails : OidLess(o, x)

\* Every request that is dispatched is answered.
Answered == pc \in {"list", "views", "emit"} ~> pc = "sent"
-----------------------------------------------------------------------------
\* What the tests say of SET: an integer is written to an integer variable that
\* the principal may write.
SetWorks ==
  Sent("SET") /\ (\A i \in 1 .. Len(msg.vbs) :
                    /\ Writable(msg.vbs[i].oid) /\ msg.vbs[i].oid \in Var \ SetFails
                    /\ msg.vbs[i].tag = TagOf[msg.vbs[i].oid])
    => hdr.err_stat = 0
=============================================================================
