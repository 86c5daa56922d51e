------------------------------- MODULE AgentX -------------------------------
(***************************************************************************)
(* The AgentX sub-agent: the calls of the daemon's script that open the    *)
(* session and register groups (src/core/smartsnmp.c, agentx.c), the       *)
(* messages it sends and receives (agentx_msg_out.c, agentx_msg_in.c), the *)
(* processing of requests (agentx_msg_proc.c), the connection to the       *)
(* master and the event loop (agentx_tcp_evloop_transport.c), and the      *)
(* handler of SIGINT.                                                      *)
(*                                                                         *)
(* One thread: a call sends its message and blocks until something is      *)
(* received, which agentx_recv decodes, and answers if it is a request:    *)
(* the response awaited and a request of the master for what has been      *)
(* registered before are not told apart.  recv may return several messages *)
(* of the stream at once, of which agentx_recv reads the first.  A signal  *)
(* runs agentx_close on top of what it interrupts.  If that is agentx_recv *)
(* the two share the header and the lists of one datagram, and nothing is  *)
(* said here about what follows.                                           *)
(*                                                                         *)
(* Oids are relative to 1.3.6.1, which the decoder puts before every oid   *)
(* that is not null, so that the view of agentx_msg_proc.c covers them;    *)
(* <<>> is the null oid.  The mib-tree is the one that module MibRegistry  *)
(* promises.  The master is external, and so is TCP.                       *)
(***************************************************************************)
EXTENDS MibLookup, FiniteSetsExt

CONSTANTS
  Path,            \* oids of groups, and the prefixes of them
  Object,          \* oids within the objects of the groups
  Known,           \* those of them at which a GET misses no more than the instance
  Var,             \* oids of the variables that the groups' handlers serve
  TagOf,           \* the type of each
  GetFails,        \* variables of which reading, or setting, reports an error
  SetFails,
  Scripts,         \* sequences of the calls that a daemon makes
  Requests,        \* records [type, list] that the master may send
  EarlyRequests,   \* those it sends while groups are still being registered
  MaxAsked,        \* bounds on the number of requests and signals
  MaxSignals

\* What a script asks for; the flag tells whether the oid begins with 1.3.6.1.
ScriptCall == [op : {"open", "reg", "unreg"}, oid : SmallOID, prefix : BOOLEAN]

\* struct x_search_range and struct x_var_bind
SearchRanges == [start : SmallOID, start_include : BOOLEAN, end : SmallOID, end_include : BOOLEAN]
VarBinds == [oid : SmallOID, tag : STRING]

\* The daemon opens the session once, before it registers anything.
ASSUME AgentXAssumption ==
  /\ Var \subseteq Known /\ Known \subseteq Object /\ Object \subseteq SmallOID
  /\ Var \subseteq SmallOID /\ IsFiniteSet(Var) /\ DOMAIN TagOf = Var
  /\ EarlyRequests \subseteq Requests
  /\ \A r \in Requests :
       /\ r.type # "RESPONSE"
       /\ r.type \in {"GET", "GETNEXT", "GETBULK"} => r.list \in Seq(SearchRanges)
       /\ r.type = "TESTSET" => r.list \in Seq(VarBinds)
  /\ \A s \in Scripts :
       s \in Seq(ScriptCall) /\ \A k \in 1 .. Len(s) : s[k].op = "open" <=> k = 1

MaxLen == 60       \* MIB_OID_MAX_LEN less the four of 1.3.6.1
NO_ACCESS == 6
NOT_WRITABLE == 17
WRONG_TYPE == 7

VARIABLES
  script, at,      \* the calls, and how many of them have been made
  pc,              \* "init", "call", "wait" (in recv), "run", "done", "aborted",
                   \* or "undefined" after a signal in agentx_recv
  closing,         \* agentx_close has interrupted this, and is in recv
  signals,         \* number of signals so far
  sock, peer,      \* the descriptor is open; the master has its end open
  hdr,             \* agentx_datagram.pdu_hdr: session, transaction, packet ids
  instances, groups, refs, ret,     \* the mib-tree, as in MibRegistry
  rx, tx,          \* messages on the connection, from and to the master
  session, mreg,   \* the master: id of the session or 0, oids registered
  asked, owed,     \* requests it has sent; ids of those not answered yet
  \* history
  last,            \* the request answered last, and the nodes of the tree then
  lost,            \* requests received behind another message in one recv
  refused,         \* oids of which the master has refused the registration
  stale            \* oids that the tree has lost with one above them, or on which
                   \* a call has failed when the master had been told

agent == <<script, at, pc, closing, signals, sock>>
tree == <<instances, groups, refs, ret>>
master == <<peer, session, mreg, asked, owed, refused>>
vars == <<agent, tree, master, hdr, rx, tx, last, lost, stale>>

Tree == INSTANCE MibRegistry WITH Callback <- Nat

Registered == {x[1] : x \in instances}

Ids(h) == [sid |-> h.sid, tid |-> h.tid, pid |-> h.pid]
Nothing == [type |-> "NONE", list |-> <<>>, nodes |-> {}]

Init ==
  /\ script \in Scripts /\ at = 0 /\ pc = "init" /\ closing = FALSE /\ signals = 0
  /\ sock = FALSE /\ peer = TRUE
  /\ hdr = [sid |-> 0, tid |-> 0, pid |-> 0]
  /\ Tree!Init
  /\ rx = <<>> /\ tx = <<>>
  /\ session = 0 /\ mreg = {} /\ asked = 0 /\ owed = {}
  /\ last = Nothing /\ lost = {} /\ refused = {} /\ stale = {}
-----------------------------------------------------------------------------
\* agentx_msg_proc.c, where nodes are the oids of the nodes in the mib-tree: what
\* a search leaves in ret_oid.
MIB_TAG_VALID(t) == t \notin {"NO_SUCH_OBJ", "NO_SUCH_INST", "END_OF_MIB_VIEW"}
Valid(r) == r.err = 0 /\ MIB_TAG_VALID(r.tag)

\* The handler of a node is called: the node is above the oid.
Handled(nodes, o) == \E p \in nodes : p # o /\ Covers(p, o)

Served(nodes) == {x \in Var : Handled(nodes, x)}

KnownTo(nodes) == nodes \cup {x \in Known : Handled(nodes, x)}

mib_get(nodes, r) ==
  [oid |-> r.start, tag |-> SearchTag(KnownTo(nodes), Served(nodes), <<>>, r.start),
   err |-> IF Handled(nodes, r.start) /\ r.start \in GetFails THEN GEN_ERR ELSE 0]

\* The variables of the node above oid o that its handler finds beyond o.
Beyond(nodes, o) ==
  {x \in Var : OidLess(o, x) /\ \E p \in nodes : p # o /\ Covers(p, o) /\ Covers(p, x)}

\* The sub-identifiers of the next instance are stored where those of the oid
\* asked for were, and the length of the whole stays.
Overwritten(o, x) == [k \in 1 .. Len(o) |-> IF k <= Len(x) THEN x[k] ELSE o[k]]

\* mib_tree_search with a request that is MIB_REQ_GETNEXT: a handler looks for
\* the next instance, and if there is none says that there is no object.
SearchIncluded(nodes, o) ==
  LET x == Least(Beyond(nodes, o))
  IN  IF Beyond(nodes, o) = {}
      THEN [oid |-> o, tag |-> SearchTag(nodes, {}, <<>>, o), err |-> 0]
      ELSE [oid |-> IF x \in GetFails THEN o ELSE Overwritten(o, x), tag |-> "VALUE",
            err |-> IF x \in GetFails THEN GEN_ERR ELSE 0]

\* mutant: an oid that is the end is not beyond it
Mut_Exceeds(o, r) == oid_cmp(o, r.end) > 0

Exceeds(o, r) ==
  IF r.end_include THEN oid_cmp(o, r.end) > 0 ELSE oid_cmp(o, r.end) >= 0

mib_getnext(nodes, r) ==
  LET first == SearchIncluded(nodes, r.start)
      next == SearchNext(nodes, Served(nodes), GetFails, <<>>, r.start)
  IN  CASE r.start_include /\ Valid(first) -> first
        [] ~ (r.start_include /\ Valid(first)) /\ Valid(next) /\ Exceeds(next.oid, r) ->
             [oid |-> r.start, tag |-> "END_OF_MIB_VIEW", err |-> 0]
        [] OTHER -> next

\* The handler of a node asked to set variable x to a value of type t, as in
\* module SnmpProc.
SetError(x, t) ==
  CASE x \notin Object -> NOT_WRITABLE
    [] x \in Object \ Var -> NO_ACCESS
    [] x \in Object \cap Var /\ t # TagOf[x] -> WRONG_TYPE
    [] OTHER -> IF x \in SetFails THEN GEN_ERR ELSE 0

\* mutant: a binding that no handler was called for is not an error
Mut_mib_set(nodes, b) ==
  [oid |-> b.oid, tag |-> b.tag, err |-> IF Handled(nodes, b.oid) THEN SetError(b.oid, b.tag) ELSE 0]

\* mib_set, and the conversion of an invalid tag into an error.
mib_set(nodes, b) ==
  [oid |-> b.oid, tag |-> b.tag,
   err |-> IF Handled(nodes, b.oid) THEN SetError(b.oid, b.tag) ELSE NOT_WRITABLE]

\* The loops over the list, r being what the searches leave: the first error is
\* reported, all bindings are added.
Answer(r) ==
  LET failed == {k \in 1 .. Len(r) : r[k].err # 0}
      index == IF failed = {} THEN 0 ELSE Min(failed)
  IN  [vbs |-> [k \in 1 .. Len(r) |-> [oid |-> r[k].oid, tag |-> r[k].tag]],
       error |-> IF failed = {} THEN 0 ELSE r[index].err, index |-> index]

agentx_get(nodes, list) == Answer([k \in 1 .. Len(list) |-> mib_get(nodes, list[k])])
agentx_getnext(nodes, list) == Answer([k \in 1 .. Len(list) |-> mib_getnext(nodes, list[k])])
agentx_set(nodes, list) == Answer([k \in 1 .. Len(list) |-> mib_set(nodes, list[k])])

\* agentx_request_dispatch: GETBULK is a GETNEXT, and of the operations of a set
\* the first one sets.  Other messages, responses among them, are not answered.
Answerable(type) ==
  type \in {"GET", "GETNEXT", "GETBULK", "TESTSET", "COMMITSET", "UNDOSET", "CLEANUPSET"}

agentx_request_dispatch(m) ==
  CASE m.type = "GET" -> agentx_get(m.nodes, m.list)
    [] m.type \in {"GETNEXT", "GETBULK"} -> agentx_getnext(m.nodes, m.list)
    [] m.type = "TESTSET" -> agentx_set(m.nodes, m.list)
    [] OTHER -> [vbs |-> <<>>, error |-> 0, index |-> 0]
-----------------------------------------------------------------------------
\* The rest of the world sees what is sent unless the connection is broken, when
\* the send fails with -1 or SIGPIPE ends the process, if it is not the first.
SendResults == IF ~ sock THEN {"fail"} ELSE IF peer THEN {"ok"} ELSE {"ok", "fail", "killed"}
Sends(p, result) == tx' = IF result = "ok" /\ peer THEN Append(tx, p) ELSE tx

\* mutant: the response to the request takes a new packet id
Mut_agentx_response_pdu(h) ==
  [type |-> "RESPONSE", sid |-> h.sid, tid |-> h.tid, pid |-> h.pid + 1, oid |-> <<>>]

\* agentx_response_pdu: the ids are those of the datagram's header, h, as it is
\* when the response is written.  The error, the index and the bindings are those
\* of agentx_request_dispatch(last).
agentx_response_pdu(h) ==
  [type |-> "RESPONSE", sid |-> h.sid, tid |-> h.tid, pid |-> h.pid, oid |-> <<>>]

\* agentx_open_pdu, agentx_register_pdu, agentx_unregister_pdu, agentx_close_pdu
Pdu(type, pid, o) ==
  [type |-> type, sid |-> hdr.sid, tid |-> hdr.tid, pid |-> pid, oid |-> o]

\* agentx_recv, of the first of n messages that recv returned: the header is
\* overwritten, also if decoding fails later (type "BAD"), and a request is
\* answered.  A response that cannot be sent is logged, or ends the process.
agentx_recv(n, result) ==
  LET m == Head(rx)
  IN  /\ hdr' = Ids(m)
      /\ lost' = lost \cup {rx[k].tid : k \in {j \in 2 .. n : Answerable(rx[j].type)}}
      /\ IF Answerable(m.type)
         THEN result \in SendResults /\ Sends(agentx_response_pdu(hdr'), result)
         ELSE result = "ok" /\ UNCHANGED tx
      /\ last' = IF Answerable(m.type) \/ m.type = "BAD"
                 THEN [type |-> m.type, list |-> m.list, nodes |-> Registered] ELSE last
-----------------------------------------------------------------------------
call == script[at]

\* A call that fails: that of smartsnmp_mib_node_reg has made a reference to the
\* handler, which stays.
Fail(c, k) ==
  /\ ret' = -1 /\ pc' = "call"
  /\ refs' = IF c.op = "reg" THEN refs \cup {k} ELSE refs
  /\ UNCHANGED <<instances, groups>>

\* smartsnmp_init, transport_init: the script goes on if there is no master.
smartsnmp_init ==
  /\ pc = "init" /\ sock' \in BOOLEAN
  /\ pc' = "call"
  /\ UNCHANGED <<script, at, closing, signals, tree, master, hdr, rx, tx, last, lost, stale>>

\* agentx_open, agentx_mib_node_reg and agentx_mib_node_unreg up to recv.
SendCall ==
  LET c == script[at + 1]
      pid == IF c.op = "open" THEN 1 ELSE hdr.pid + 1
  IN  /\ pc = "call" /\ ~ closing /\ at < Len(script)
      /\ at' = at + 1
      /\ c.op # "open" => c.prefix /\ c.oid # <<>>
      /\ hdr' = IF c.op = "open" THEN hdr ELSE [hdr EXCEPT !.pid = pid]
      /\ \E result \in SendResults :
           /\ Sends(Pdu(c.op, pid, c.oid), result)
           /\ \/ result = "ok" /\ pc' = "wait" /\ UNCHANGED tree
              \/ result = "fail" /\ Fail(c, at + 1)
              \/ result = "killed" /\ pc' = "aborted" /\ UNCHANGED tree
      /\ UNCHANGED <<script, closing, signals, sock, master, rx, last, lost, stale>>

\* An oid that does not begin with 1.3.6.1 is refused; 1.3.6.1 itself is not, and
\* fails an assertion of agentx_register_pdu or agentx_unregister_pdu.
RefuseCall ==
  LET c == script[at + 1]
  IN  /\ pc = "call" /\ ~ closing /\ at < Len(script)
      /\ at' = at + 1
      /\ c.op # "open"
      /\ \/ ~ c.prefix /\ Fail(c, at + 1)
         \/ c.prefix /\ c.oid = <<>> /\ pc' = "aborted" /\ UNCHANGED tree
      /\ UNCHANGED <<script, closing, signals, sock, master, hdr, rx, tx, last, lost, stale>>

\* mutant: the tree is not told of an unregistration
Mut_FinishCall ==
  \/ call.op # "reg" /\ UNCHANGED <<tree, stale>>
  \/ call.op = "reg" /\ Tree!Register(call.oid, at) /\ stale' = stale \ {call.oid}
  \/ call.op = "reg" /\ Tree!RegisterFails(call.oid, at) /\ stale' = stale \cup ({call.oid} \ Registered)

\* What a call does once a message has been decoded, whichever it is.
FinishCall ==
  \/ call.op = "open" /\ UNCHANGED <<tree, stale>>
  \/ call.op = "reg" /\ Tree!Register(call.oid, at) /\ stale' = stale \ {call.oid}
  \/ call.op = "reg" /\ Tree!RegisterFails(call.oid, at) /\ stale' = stale \cup ({call.oid} \ Registered)
  \/ /\ call.op = "unreg" /\ Tree!Unregister(call.oid)
     /\ stale' = (stale \cup (Registered \ Registered')) \ {call.oid}

\* mutant: what is behind the first message is dropped whenever it arrived
Mut_Receive(n, result) == rx # <<>> /\ n = 1 /\ rx' = <<>> /\ agentx_recv(n, result)

\* recv returns n messages.
Receive(n, result) ==
  /\ n \in 1 .. Len(rx) /\ rx' = SubSeq(rx, n + 1, Len(rx))
  /\ agentx_recv(n, result)

\* recv in a call returns, and the rest of the call.
CallReceives(n, result) ==
  /\ pc = "wait" /\ ~ closing /\ sock
  /\ Receive(n, result)
  /\ IF result = "killed" THEN pc' = "aborted" /\ UNCHANGED <<tree, stale>>
     ELSE IF Head(rx).type = "BAD" THEN Fail(call, at) /\ stale' = stale \cup {call.oid}
     ELSE pc' = "call" /\ FinishCall
  /\ UNCHANGED <<script, at, closing, signals, sock, master>>

\* recv finds the connection closed, when it returns 0 and an assertion of
\* agentx_recv fails, or broken, or the descriptor closed by agentx_close.
Ended == sock /\ rx = <<>> /\ ~ peer

CallBroken ==
  /\ pc = "wait" /\ ~ closing
  /\ \/ Ended /\ pc' = "aborted" /\ UNCHANGED tree
     \/ (Ended \/ ~ sock) /\ Fail(call, at)
  /\ UNCHANGED <<script, at, closing, signals, sock, master, hdr, rx, tx, last, lost, stale>>

\* smartsnmp_run, transport_running: the loop starts, whatever happened before.
smartsnmp_run ==
  /\ pc = "call" /\ ~ closing /\ at = Len(script)
  /\ pc' = "run"
  /\ UNCHANGED <<script, at, closing, signals, sock, tree, master, hdr, rx, tx, last, lost, stale>>

agentx_read_handler(n, result) ==
  /\ pc = "run" /\ ~ closing /\ sock
  /\ Receive(n, result)
  /\ pc' = IF result = "killed" THEN "aborted" ELSE "run"
  /\ UNCHANGED <<script, at, closing, signals, sock, tree, master, stale>>

\* A result of 0 or -1 is passed to agentx_recv.
ReadHandlerBroken ==
  /\ pc = "run" /\ ~ closing /\ Ended
  /\ pc' = "aborted"
  /\ UNCHANGED <<script, at, closing, signals, sock, tree, master, hdr, rx, tx, last, lost, stale>>
-----------------------------------------------------------------------------
\* sig_int_handler where the process is not in agentx_recv, which is almost always
\* where it is: agentx_close up to recv.
sig_int_handler ==
  /\ pc \in {"call", "wait", "run"} /\ ~ closing /\ signals < MaxSignals
  /\ signals' = signals + 1
  /\ hdr' = [hdr EXCEPT !.pid = @ + 1]
  /\ \E result \in SendResults :
       /\ Sends(Pdu("close", hdr.pid + 1, <<>>), result)
       /\ closing' = (result = "ok")
       /\ pc' = IF result = "killed" THEN "aborted" ELSE pc
  /\ UNCHANGED <<script, at, sock, tree, master, rx, last, lost, stale>>

\* sig_int_handler while agentx_recv is at work on a message: agentx_close counts up
\* the packet id that the response is going to take, and what it receives itself
\* has agentx_datagram_clear free the lists that the interrupted one goes through.
SignalInRecv ==
  /\ pc \in {"wait", "run"} /\ ~ closing /\ sock /\ rx # <<>> /\ signals < MaxSignals
  /\ signals' = signals + 1 /\ pc' = "undefined"
  /\ UNCHANGED <<script, at, closing, sock, tree, master, hdr, rx, tx, last, lost, stale>>

\* mutant: the loop is left before the descriptor is closed, by the next event
Mut_transport_stop == sock' = FALSE /\ pc' = pc

\* transport_stop: the descriptor is closed, and the loop left if it runs.
transport_stop == sock' = FALSE /\ pc' = IF pc = "run" THEN "done" ELSE pc

\* The rest of agentx_close; no transport_stop without a message decoded.
CloseReceives(n, result) ==
  /\ closing /\ closing' = FALSE
  /\ Receive(n, result)
  /\ IF result = "killed" THEN pc' = "aborted" /\ UNCHANGED sock
     ELSE IF Head(rx).type = "BAD" THEN UNCHANGED <<pc, sock>>
     ELSE transport_stop
  /\ UNCHANGED <<script, at, signals, tree, master, stale>>

CloseBroken ==
  /\ closing /\ closing' = FALSE /\ Ended
  /\ pc' \in {"aborted", pc}
  /\ UNCHANGED <<script, at, signals, sock, tree, master, hdr, rx, tx, last, lost, stale>>
-----------------------------------------------------------------------------
\* The master (external) answers what the sub-agent asks, in order; it may refuse
\* a session or a registration, and does not know oids that it has refused.
MasterReplies ==
  LET m == Head(tx)
      known == m.sid = session /\ session # 0
      Reply(e, sid) ==
        rx' = Append(rx, [type |-> "RESPONSE", list |-> <<>>, sid |-> sid,
                          tid |-> m.tid, pid |-> m.pid, error |-> e])
  IN  /\ peer /\ tx # <<>> /\ m.type # "RESPONSE" /\ tx' = Tail(tx)
      /\ \/ m.type = "open" /\ session' = 1 /\ Reply(0, 1) /\ UNCHANGED <<mreg, refused>>
         \/ m.type = "open" /\ Reply(256, 0) /\ UNCHANGED <<session, mreg, refused>>
         \/ /\ m.type = "reg" /\ known /\ m.oid \notin mreg
            /\ mreg' = mreg \cup {m.oid} /\ refused' = refused \ {m.oid}
            /\ Reply(0, m.sid) /\ UNCHANGED session
         \/ /\ m.type = "reg" /\ refused' = refused \cup {m.oid}
            /\ Reply(263, m.sid) /\ UNCHANGED <<session, mreg>>
         \/ m.type = "unreg" /\ mreg' = mreg \ {m.oid} /\ Reply(0, m.sid) /\ UNCHANGED <<session, refused>>
         \/ /\ m.type = "close" /\ session' = 0 /\ mreg' = {}
            /\ Reply(0, m.sid) /\ UNCHANGED refused
      /\ UNCHANGED <<agent, tree, peer, asked, owed, hdr, last, lost, stale>>

MasterTakes ==
  /\ peer /\ tx # <<>> /\ Head(tx).type = "RESPONSE"
  /\ tx' = Tail(tx) /\ owed' = owed \ {Ids(Head(tx))}
  /\ last' = Nothing
  /\ UNCHANGED <<agent, tree, peer, session, mreg, asked, refused, hdr, rx, lost, stale>>

\* A request for what is registered: transaction and packet ids are its own.
MasterAsks(r) ==
  LET m == [type |-> r.type, list |-> r.list, sid |-> session, tid |-> asked + 1, pid |-> asked + 1, error |-> 0]
  IN  /\ peer /\ mreg # {} /\ asked < MaxAsked
      /\ (pc # "run" \/ asked > 0) => r \in EarlyRequests
      /\ asked' = asked + 1 /\ rx' = Append(rx, m)
      /\ owed' = IF Answerable(m.type) THEN owed \cup {Ids(m)} ELSE owed
      /\ UNCHANGED <<agent, tree, peer, session, mreg, refused, hdr, tx, last, lost, stale>>

\* It goes away: what it had not read is gone, and what it had sent is not.
MasterLeaves ==
  /\ peer /\ sock /\ peer' = FALSE
  /\ session' = 0 /\ mreg' = {} /\ tx' = <<>> /\ last' = Nothing
  /\ UNCHANGED <<agent, tree, asked, owed, refused, hdr, rx, lost, stale>>
-----------------------------------------------------------------------------
Results == {"ok", "fail", "killed"}

Call == smartsnmp_init \/ SendCall \/ RefuseCall \/ CallBroken \/ smartsnmp_run
Close == CloseBroken \/ \E n \in 1 .. Len(rx), result \in Results : CloseReceives(n, result)
Reading ==
  \/ ReadHandlerBroken
  \/ \E n \in 1 .. Len(rx), result \in Results : CallReceives(n, result) \/ agentx_read_handler(n, result)
Agent == Call \/ Reading \/ Close

Next ==
  \/ Agent \/ sig_int_handler \/ SignalInRecv
  \/ MasterReplies \/ MasterTakes \/ MasterLeaves \/ \E r \in Requests : MasterAsks(r)

\* The process runs, and the master, as long as it is there, reads and replies.
Spec ==
  /\ Init /\ [][Next]_vars
  /\ WF_vars(Agent) /\ WF_vars(MasterReplies) /\ WF_vars(MasterTakes)
-----------------------------------------------------------------------------
\* Responses carry the ids of requests that are not answered yet, and come in the
\* order of these (the master numbers its requests), so that none is answered
\* twice, though one header serves everything received and is counted up by what
\* the sub-agent sends (agentx_response_pdu, agentx_recv).  This holds as long as no
\* signal interrupts agentx_recv, after which nothing is sent in this model.
ResponsesMatch ==
  \A k \in 1 .. Len(tx) : tx[k].type = "RESPONSE" =>
    /\ Ids(tx[k]) \in owed
    /\ \A j \in 1 .. (k - 1) : tx[j].type = "RESPONSE" => tx[j].tid < tx[k].tid

Response == agentx_request_dispatch(last)

\* The variables that lie within a search range.
Within(r) ==
  {x \in Served(last.nodes) : OidLess(r.start, x) /\ (OidLess(x, r.end) \/ (r.end_include /\ x = r.end))}

NextWithin(r) ==
  IF Within(r) = {} THEN [oid |-> r.start, tag |-> "END_OF_MIB_VIEW"]
  ELSE [oid |-> Least(Within(r)), tag |-> "VALUE"]

\* Every search range of a GETNEXT or GETBULK without an error is answered with
\* the closest variable within it, of those registered when it arrives; starts
\* within a group that are included apart (see IncludedStart).  mib_getnext
\* searches the whole tree, and compares with the end after.  A GET gets a value
\* exactly for what is registered.
RangesAnswered ==
  /\ last.type = "GET" /\ Response.error = 0 =>
       \A i \in 1 .. Len(last.list) :
         Response.vbs[i].tag = "VALUE" <=> last.list[i].start \in Served(last.nodes)
  /\ last.type \in {"GETNEXT", "GETBULK"} /\ Response.error = 0 =>
       \A i \in 1 .. Len(last.list) :
         LET r == last.list[i]
         IN  ~ (r.start_include /\ Handled(last.nodes, r.start)) => Response.vbs[i] = NextWithin(r)

\* The bindings of a TestSet that are applied: those of registered variables.
Applied ==
  {i \in 1 .. Len(last.list) :
     LET b == last.list[i]
     IN  b.oid \in Served(last.nodes) \ SetFails /\ TagOf[b.oid] = b.tag}

\* What a TestSet does is what it reports (agentx_set applies every binding that
\* it can, and goes on after an error): without an error everything is applied,
\* and the index of an error is that of the first binding that is not.
SetReport ==
  last.type = "TESTSET" =>
    LET missing == (1 .. Len(last.list)) \ Applied
    IN  IF missing = {} THEN Response.error = 0
        ELSE Response.error # 0 /\ Response.index = Min(missing)

Quiet == \A k \in 1 .. Len(tx) : tx[k].type = "RESPONSE"

\* Between calls the master and the mib-tree agree on what is registered, apart
\* from the oids that the master has refused, of which the sub-agent takes no
\* notice (the error of a response is not looked at), from those that the tree
\* has refused or lost with an oid above them, which the master keeps, and from
\* those of calls that returned early as a message could not be decoded.  A
\* request received in place of a response must not change that.
RegistriesAgree ==
  pc \in {"call", "run"} /\ sock /\ session # 0 /\ Quiet =>
    Registered \ mreg \subseteq refused \cup stale /\ mreg \ Registered \subseteq stale

\* A request of the master is answered, unless it came behind another message in
\* the same recv, the connection or the sub-agent ends, or a signal interrupts
\* agentx_recv.
EventuallyAnswered ==
  \A t \in 1 .. MaxAsked :
    (\E x \in owed : x.tid = t)
      ~> (\A x \in owed : x.tid # t) \/ t \in lost
         \/ ~ sock \/ ~ peer \/ pc \in {"aborted", "undefined"}

\* SIGINT ends a sub-agent that is running, unless the message received after it
\* cannot be decoded, when agentx_close returns early; nothing is said about a
\* signal that interrupts agentx_recv (SignalInRecv).
StopsOnSignal ==
  (closing /\ pc = "run") ~> (pc \in {"done", "aborted"} \/ last.type = "BAD")
-----------------------------------------------------------------------------
\* What the comments of mib_getnext say: if the start of a range is included and
\* exists, it is the answer.
IncludedStart ==
  last.type \in {"GETNEXT", "GETBULK"} /\ Response.error = 0 =>
    \A i \in 1 .. Len(last.list) :
      LET r == last.list[i]
      IN  r.start_include /\ r.start \in Served(last.nodes) => Response.vbs[i].oid = r.start
=============================================================================
