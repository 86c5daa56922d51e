# SmartSNMP in TLA+

SmartSNMP is an SNMP agent: a C core that speaks SNMP (over UDP) or AgentX (over
TCP, as a subagent), keeps a tree of registered mib groups and the access views
of communities and users, and calls Lua handlers for the values.  This directory
holds a formal model of it, the model-checking runs, and machine-checked proofs.

## The system

| part | source | state | operations |
|---|---|---|---|
| oid helpers | `core/mib_tree.c` 41-117 | none | `oid_cmp`, `oid_cover`, `oid_binary_search` |
| mib-tree, registration | `core/mib_tree.c` 552-946 | nodes, sorted arrays of sub-identifiers and of pointers, Lua references | `mib_node_reg`, `mib_node_unreg` |
| mib-tree, search | `core/mib_tree.c` 257-550 | cursor, search mode, backlog stack | `mib_tree_search` (GET, SET), `mib_tree_search_next` |
| handler call | `core/mib_tree.c` 127-255 | result variable, error status | `mib_instance_search` |
| views | `core/mib_view.c` | view objects, names, an ro and an rw list per name, back links | register, unregister, search, cover, next view |
| SNMP requests | `core/snmp_msg_proc.c`, `snmp_msg_in.c`, `snmp_msg_out.c` | one datagram: header, variable bindings in and out | decode, dispatch, GET, GETNEXT, SET, GETBULK, respond |
| BER codec | `core/snmp_encoder.c`, `snmp_decoder.c` | none | length prediction, encode, decode |
| AgentX | `core/agentx*.c` | session, one datagram | open, close, register, unregister, GET, GETNEXT, SET phases, respond, encode, decode |
| event loop | `core/ev_loop.c`, `ev_select.h`, `ev_epoll.h` | handler table, masks | add, remove, poll, run |
| transports | `core/*_transport.c` | pending buffer or queue, client address | read handler, write handler, send, stop |
| Lua binding | `core/smartsnmp.c` | protocol selected, references | init, open, run, exit, registration calls |
| Lua library | `lualib/smartsnmp/init.lua` | group tables, index tables | search handler for GET, GETNEXT, SET |
| daemon and mib groups | `bin/smartsnmpd`, `mibs/*.lua` | configuration | start-up calls |

A request goes from a transport to the decoder, to request processing, which
looks up the principal's views in order and searches the mib-tree within each,
which calls the Lua handler of a node; the answers are encoded and handed back to
the transport.  Everything runs in one thread, so the interleavings that matter
are those of the event loop (reads against pending writes) and of the peer
(datagrams, AgentX messages); the rest of what is hard here is long sequences of
registrations, the loops over linked structures, and errors halfway.  The AgentX
session adds exchanges that block in `recv` outside of the event loop, and a
signal handler that runs one more of them inside whatever it interrupts.

## Modules

| module | models | abstracted |
|---|---|---|
| `Oid` | `oid_cmp`, `oid_cover`, `oid_binary_search` in closed form; machine words wrap | nothing |
| `OidCmp`, `OidSearch` | the loops that compute them, an iteration per step | nothing |
| `MibTree` | registration and unregistration, an iteration per step; nodes, arrays, capacities, backlog stack, Lua references | shifting loops over an array are one step; out-of-memory exits; the 16-bit capacity |
| `MibRegistry` | what the tree promises: a set of oids with handlers | |
| `MibLookup` | what searches and view iteration return, as operators; the reference of `MibSearch` and the building block of `SnmpProc` | |
| `MibSearch` | GET and GETNEXT searches in any tree that registration can build | a handler is the set of oids it serves, some of which report an error, and those whose object it knows (`LuaGroup` has its loops) |
| `MibView` | communities, users and their view lists | names are model values |
| `Lists` | searching, insertion and removal in lists | |
| `AccessControl` | what the lists promise: the sets of oids readable and writable | |
| `Ber` | the BER codec as operators: predicted lengths, encoding, decoding, byte by byte | the width of an int is the constant `SizeOfInt`; CNT64 |
| `BerCodec` | one value written and read back, through `Ber` | |
| `SnmpCodec` | `snmpd_recv` field by field and binding by binding, the clearing after a failure, dispatch, the lengths of `asn1_encode` and what `snmp_response` writes | a message is a list of fields with tag, length and value; contents of strings; every length in it is that of its contents; flags that are too long for their one byte end a behaviour |
| `LuaGroup` | `mib_instance_search` and the handler of a Lua group: generation of the index table, GET, the loops of GETNEXT over cascaded indexes, SET | values are their Lua types |
| `AgentX` | the session: calls of a daemon, requests of the master, the event loop, SIGINT where the agent waits, a connection that breaks; what requests are answered | messages are records; trees are those of `MibRegistry`, searches those of `MibLookup`; oids are those below 1.3.6.1 |
| `AgentXCodec` | the bytes of AgentX values, of a response, and the parsing of bindings, ranges and contexts | the contents of the header; the byte order is the machine's |
| `SnmpProc` | dispatch, GET, GETNEXT, SET, GETBULK: one binding and one view per step; the one result record that all of them share | searches are the operators of `MibLookup`; values are types; encoding |
| `Replies` | what a UDP transport promises: each response once, in order, to its own client, or given up because `sendto` fails | |
| `UdpEvloop` | the built-in transport with the event loop on select or epoll | one socket; a datagram is its identity |
| `UdpLibevent` | the libevent transport: send queue, write events, the pointer to the last one | libevent dispatches any pending event |
| `OidProofs`, `LoopProofs`, `MibViewProofs`, `MibTreeProofs`, `MibDescentProofs`, `MibSearchProofs`, `SnmpProcProofs`, `AgentXProofs` | theorems | |

An `MC` module gives a specification its small constants; a `.cfg` of the run's
name selects them.  `MCPrimitives` puts the algorithms without state between calls
(`OidCmp`, `OidSearch`, `BerCodec`, `SnmpCodec`, `AgentXCodec`) side by side, one of
them running per behaviour, and `MCUdp` does the same with the two transports.

Correspondence.  State variables carry the names of the C variables and fields
(`sub_id`, `sub_ptr`, `p_nbl`, `immediate`, `mib_views`, ...).  Actions carry the
name of the function, or of the branch of its loop that they stand for
(`InsertRaw`, `InsertDescend`, `InsertExpand`, `InsertFail` are the four exits of
the loop body of `mib_tree_instance_insert`).  `pc` says which loop is running.
The address of a tree node is the oid at which it was allocated: a pointer that
leads to the wrong place is then visible as an oid that does not match.  Freed
nodes have type `"free"`, which no step can read, so a step through a dangling
pointer shows as a deadlock.  Operators called `Mut_...` are deliberately wrong
variants of the definition that follows them; nothing uses them in a
specification.  They record which slip each property would catch.

## Runs

| run | question | bounds |
|---|---|---|
| `primitives` | is `oid_cmp` the order of oids below half the word range and a test for equality over all of it, is `oid_cover` the prefix relation (`OidOrder`); does the binary search find the index or insertion point, and end (`SearchCorrect`, `SearchTerminates`); is a BER value read back as it was written, in the length predicted (`BerRoundTrip`); is an SNMP message taken as a whole or not at all (`DecodeAllOrNothing`); exactly when is a response one that the decoder accepts, with the lengths of all sequences right (`ResponseDecodable`); the same for AgentX (`AgentXRoundTrip`) | oids of up to three sub-identifiers and sorted arrays of up to five over 3-bit words; numbers around every change of length with ints of three bytes, oids of up to 64 sub-identifiers, strings over 255 bytes; SNMP messages of all types and versions, each with every single field defective or too long, up to 130 bindings, oids around 255 bytes; AgentX messages around every limit |
| `mib_view` | are the lists sorted, free of overlaps, linked both ways, consistent with each other and with the names (`ViewInv`); do calls other than the one below return; are the lists access sets | two communities and a user, nested and disjoint views, all orders of calls |
| `mib_view_unreg_write` | *violated*: an unregistration of write access returns | one principal |
| `mib_tree` | are arrays, links, memory (`TreeSound`) and references (`HandlersLive`) right at each step of every sequence of registrations and unregistrations; do calls return; is it a registry | nested oids up to one longer than the limit of 3; three handlers |
| `mib_search` | do GET and GETNEXT find exactly what they should in every tree, tell a missing instance from a missing object, and end | every tree over seven paths, with empty groups, handlers that serve nothing, and variables one sub-identifier beyond the limit |
| `snmp_proc` | does every binding get the answer that views and tree call for, is SET confined to write views, does an error status have a cause, is every request answered | two groups, four variables and an object without one, three pairs of view lists, up to two bindings, up to two repetitions |
| `snmp_set_works` | *violated*: a SET of a writable variable with a value of its type succeeds | the same |
| `udp` | is every response sent once, in order and to its own client, by either transport, and are all of them sent in the end | four or five datagrams, two clients; any number on their way with libevent, up to three with epoll, one with select |
| `udp_evloop_sender` | *violated*: with select, responses go to the sender | two on their way |
| `agentx` | does a response carry the ids of its request; are search ranges and sets answered as the tree and the variables call for; do the registries of master and agent agree; is every request that is received by itself answered; does the agent stop on SIGINT | four daemons that open the session and make up to three calls, two requests (one or two ranges or bindings of all kinds, or a message that cannot be decoded), one signal where the agent waits or while it works on a message, a master that refuses or leaves at any point |
| `agentx_included_start` | *violated*: a GETNEXT that includes its start is answered with the start, if that exists | the same |
| `lua_group` | is the index table complete and sorted whatever order `pairs` has; is the answer to GETNEXT a readable instance beyond the oid asked for, and is none skipped; is SET answered by what was done; does the handler return | six groups: scalars around tables, one and two cascaded indexes, an index of two ids, absent rows, inaccessible columns, empty tables; every oid of up to four ids below 4, and longer ones into the first table |

Fairness.  In the modules of the core it is weak fairness of the steps of a
running call: the program has one thread and a loop, once entered, executes.
Nothing obliges anybody to start a call.  In the transports it is weak fairness of
the event loop, and that a socket that stays registered for writing becomes
writable (UDP has no peer that could hold it up); a `sendto` may fail every time.
An error of the socket ends the built-in loop, and an error of `recvfrom` the
process, so the transport runs may stop and do not check for deadlock.  In `AgentX` it
is weak fairness of the agent's steps, and of a master that takes what is sent and
answers what it is asked, as long as it is there: the agent has no timeouts, and
blocks in `recv` if the master does not answer.  Nobody has to send a request or a
signal, or to leave.  The daemon ends on a signal, so that run may stop; so may
`primitives`, where a behaviour is one computation.  `mib_search` stops where an
assertion fails.

Bounds.  Sub-identifier values only matter through their order and through zero
(the filler in an empty group's slot 0), so two or three per level are enough;
three levels let a subtree hold a subtree, and one level more than the limit
exercises the length check.  A group of `mib_tree` has up to two children: its
arrays grow once and insertions happen on both sides.  Larger capacities are not
reached.  `snmp_proc` has two views per list and two bindings per request, which is
where what one search leaves behind meets the next.  Ints of three bytes have every
case that ints of four have (a leading byte dropped once, twice, or kept for its
sign), within the integers of the model checker.  The second request of `agentx` is
what meets what the first left in the header, and two messages are what one `recv`
can return together.  Two dimensions are what backtracking in `lua_group` needs.
With select, `udp` assumes clients that wait for a response before anything else is sent;
`udp_evloop_sender` shows what happens otherwise.

### What the violated runs show

* `mib_view_unreg_write`: withdrawing *write* access from a community or user that
  keeps its read views never returns.  The loop in `mib_community_unreg`
  (`core/mib_view.c` 190-207, and 409-426 for users) moves on only when it deletes
  the name or the name does not match.
* `snmp_set_works`: with two write views, a SET that only the second covers fails.
  The search in the first view writes "no such object" over the type of the value
  in the shared result record (`core/mib_tree.c` 277), and the second search
  compares that with the variable's type.
* `udp_evloop_sender`: with select, a pass of the loop runs the read handler before
  the write handler of a response that is pending, and there is one client address.
* `agentx_included_start`: the search at an included start (`core/agentx_msg_proc.c`
  95) is made with a result record whose request is GETNEXT, so the handler answers
  the instance after the start.

### Other behaviours of the code

The model has these because the code does; no run states otherwise, as nothing in
the repository does.

* Unregistering an oid with one sub-identifier more than an instance node removes
  that node (`core/mib_tree.c` 709); `MibRegistry` allows it.
* A GETNEXT from ahead of a view that is a single variable starts at the view's oid
  and skips the variable (`core/mib_tree.c` 404); see `From` in `MibLookup`.
* A SET with a wrong type is reported as not writable if a further write view is
  searched (`core/snmp_msg_proc.c` 292).
* GETBULK answers with the request's error fields, so non-repeaters come back as the
  error status (`core/snmp_msg_proc.c` 410).
* The libevent callback frees the event made last rather than the one it runs for
  (`core/snmp_udp_libevent_transport.c` 72).  No response is lost by it, but events
  made earlier are never freed.
* With libevent, an error of `sendto` loses the response and nothing else: the call
  of `event_loopbreak` (line 63) is for the default event base, while the loop runs
  on one of its own.  For the same reason an error of `recvfrom` goes on to
  `snmpd_recv`, where `assert(len > 0)` ends the process.
* A registration that fails keeps its reference to the Lua handler
  (`core/smartsnmp.c` 118).
* After a message that cannot be decoded the cleared datagram is dispatched all the
  same (`core/snmp_msg_in.c` 507); its type is 0, so nothing happens.
* The flags of a version 3 message are one byte (`core/snmp.h` 141), and their length
  is not checked (`core/snmp_msg_in.c` 290).  More than four bytes run over
  `msg_flags_len`; `DecodeAllOrNothing` says that this happens exactly if nothing
  before is defective, and the model has nothing after it.
* `ber_oid_enc_try` counts in a `uint8_t` (`core/snmp_encoder.c` 139), so a response
  with an oid of 256 bytes or more has wrong lengths; and `snmp_set` has as many
  elements of an oid value encoded as it has bytes (`core/snmp_msg_proc.c` 331), more
  than there is room for if a sub-identifier takes two.  `ResponseDecodable` says
  exactly which responses remain decodable.
* A variable whose oid is longer than `MIB_OID_MAX_LEN` fails an assertion when GETNEXT
  arrives at it (`core/mib_tree.c` 514); `SearchReturns` excepts trees that have one.
* Beyond 2^31 the sign of a difference of sub-identifiers is wrong (`core/mib_tree.c`
  59), and with it the order of oids.  `OidOrder` states the order below.
* Oids of fewer than two sub-identifiers are not read back from BER as they were,
  nor are AgentX oids outside of 1.3.6.1 or with a fifth sub-identifier over 255.
* For an object identifier in an AgentX SET, `agentx_value_enc` is given a number of
  bytes where it takes a number of elements (`core/agentx_msg_proc.c` 203, against
  the comment at `core/agentx_encoder.c` 61), so it copies four times too much.
  `AgentXRoundTrip` excepts that value and holds for all others.
* A search range without an end is one that every answer exceeds
  (`core/agentx_msg_proc.c` 107); `RangesAnswered` takes it that way.
* TestSet sets, and CommitSet, UndoSet and CleanupSet are only acknowledged
  (`core/agentx_msg_in.c` 442-470): what has been set before an error stays set, and
  `SetReport` only says that the error names the first binding that has not been.
* A signal in the middle of a message runs `agentx_close` on the datagram that
  `agentx_recv` is working on: it counts up the packet id that the response takes and
  has the lists freed that are being gone through.  In `AgentX` this leads to
  `pc = "undefined"` (`SignalInRecv`), where a behaviour ends.
* A response of the master is not looked at: a refused registration is made locally
  (`RegistriesAgree` has the history variable `refused` for it), and any message
  that arrives counts as the response that is waited for.  If that message cannot be
  decoded the call returns early, with the master told and the tree not; an
  unregistration then leaves a node that the master no longer knows (`stale`).
* If `recv` returns several messages the first is decoded and the others are dropped
  (the history variable `lost`).
* Registering 1.3.6.1 itself passes the check of the prefix (`core/agentx.c` 60) and
  fails an assertion of `agentx_register_pdu`.
* If the master closes the connection, `recv` returns 0 and `assert(len > 0)` in
  `agentx_recv` ends the agent.
* A Lua handler raises an error for an oid cut off within an index of several ids.
* If a row of a table cannot be read, GETNEXT goes on in the next column, and there
  beyond index 0 (`lualib/smartsnmp/init.lua` 750-753); `NothingSkipped` says what
  may be passed over.
* A SET of an IpAddress calls the set function and is then refused
  (`lualib/smartsnmp/init.lua` 619).

## Proofs

A run looks at a small instance; the theorems hold for every value of the constants
that the named assumptions admit.  TLC evaluates these on every run that uses the
module.  The results, with the property of the run that each one generalises:

| module | theorems | property |
|---|---|---|
| `OidProofs` | lemmas on arrays, oids, finite sets of oids and lists | |
| `LoopProofs` | `OidOrderHolds`, `SearchIsCorrect`; `Implements`, `EvloopImplements`, `EvloopSender` | `OidOrder`, `SearchCorrect`; `ImplementsReplies`, `RepliesToSender` |
| `MibViewProofs` | `ViewInvariant` and its parts, `ViewImplements` | `ViewInv`, `ImplementsAccessControl` |
| `MibTreeProofs` | `TreeAlwaysSound`, `HandlersAlwaysLive`, `TreeImplements` | `TreeSound`, `HandlersLive`, `ImplementsRegistry` |
| `MibDescentProofs`, `MibSearchProofs` | `GetAlwaysFinds`, `NextAlwaysClosest`, `CursorAlwaysMatches` | `GetFinds`, `NextIsClosest`, `CursorMatches` |
| `SnmpProcProofs` | `GetIsAnswered`, `NextIsAnswered`, `SetIsReported`, `SetIsPermitted`, `ErrorIsCaused` | `GetAnswers`, `NextAnswers`, `SetReport`, `SetOnlyWritable`, `ErrorHasCause` |
| `AgentXProofs` | `ResponsesAlwaysMatch`, `RangesAlwaysAnswered`, `SetAlwaysReported`, `RegistriesAlwaysAgree` | `ResponsesMatch`, `RangesAnswered`, `SetReport`, `RegistriesAgree` |

**Oids.**  `OidProofs` proves the facts that the rest builds on: a closed form of
`oid_cmp` exists and its sign is the lexicographic order (for words below half the
range), zero means equality (for all words), `oid_cover` is the prefix relation,
prefixes of one oid are comparable, the order is total and transitive, a subtree is
an interval of it, and a finite set of oids has a least one.  It also says what
insertion and removal in a list return.  The only assumption is `HalfAssumption` (the
word range is twice a positive number).  `LoopProofs` proves the loops: `CmpInv`
(the sub-identifiers consumed so far agree) for `oid_cmp`, and `SearchInv` for the
binary search: everything up to `low` is not greater than the target, everything from
`high` on is greater, and `low < high`.  Correctness alone is not inductive, as it
says nothing of the bounds.

**Views.**  `MibViewProofs` proves `ViewInv` inductive for all names, oids and
sequences of calls, from `ViewAssumption` (communities and users have different
names, and oids are below half the word range, where `oid_cmp` is an order).  From it
follow the theorems that the lists are sorted, free of overlaps, linked both ways,
and readable where writable.  None of these is inductive alone.  `ViewInv` adds

* what the loops have established so far (`CursorInv`): the entries that the filter
  passed do not overlap with the new view, and those that the add loop passed are
  less than it; this is why the insertion keeps order and disjointness;
* that in the middle of a registration a writable view is covered by a readable one
  or by the view being registered (`ReadableInv`): the write list is bound first;
* that a name is known, once, exactly if it has a view or is being registered
  (`NamesInv`).

`ViewImplements` then shows that each step is a step of `AccessControl` or changes
nothing there: entries that the filter removes are covered by the view that is being
registered, so that no access is lost on the way.

**Tree.**  `MibTreeProofs` takes any set of oids that is closed under prefixes
(`TreeAssumption`), any handlers and any length limit.  `TreeSound` is inductive
together with `HandlersLive`, because it already describes a call in progress: the
node reached by the walk of an insertion or search is the one that the sub-identifiers
consumed lead to (`WalkSound`), and while a subtree is being deleted the entries of
the backlog stack lead from its root to the current node, each remembering which of
its children have been freed (`DeletionSound`).  The last part is what shows that the
stack cannot overflow, that no freed node is read, and that every handler of the
subtree is released once.  `TreeImplements` maps the tree to its groups and instances; an insertion
takes effect when its walk meets a group without children, or makes the first node,
after which it cannot fail, and a deletion when the node to delete is found.

**Searches.**  `MibSearchProofs` takes any tree that registration can build over any
oids, any view and any oid asked for (all of sub-identifiers below 2^31, where
`oid_cmp` is an order), any finite sets of served instances and any objects
(`SearchAssumption`).  `SearchInv` says of a GETNEXT in progress that nothing wanted
is behind the walk: in exact mode the node reached is a prefix of the oid asked for,
in immediate mode everything of the subtree on top of the backlog that lies before
the current entry has been passed or is too small, and when backtracking all that is
wanted comes after the subtree just left (`Behind`).  The result is compared with
`SearchTag` and `SearchNext` of `MibLookup`, which do not mention nodes or steps.
`MibDescentProofs` has the facts about trees, the invariant and the steps downwards,
`MibSearchProofs` the other steps and the theorems.

**Requests.**  `SnmpProcProofs` takes any nodes none of which is above another, any
finite set of variables and objects below them, any sorted view lists with at least
one read view and any messages (`ProcAssumption`, `MessageAssumption`).  `ProcInv` says for each
request which of the bindings have been answered and with what, which views have been
tried for the current one and what they left in the shared record `ret_oid` (an
invalid tag, and the oid asked for), and for GETBULK that the oid of a repetition is
the answer of the one before.  Where an answer takes over the error fields of the
request the properties speak of requests whose error fields are zero (`Clean`), as
managers have to send them.

**Transports.**  `LoopProofs` also proves, for any datagrams, clients and traffic, that the
libevent transport keeps `SendInv` and implements `Replies`.  `SendInv` says that
while the queue is not empty the event that `snmp_send_event` points to is pending,
and that every entry of the queue carries the address of its own client.  The
refinement needs the second part: it maps `pending` to the datagrams of the queue, so
the address that a step sends to has to be known from the entry.  An error of
`sendto` is the step `GiveUp` of `Replies`, which the built-in transport never takes.  The theorems on the
built-in transport assume `Patient`, that is epoll, or clients that wait for their
response; `EvloopInv` then shows that the read handler is not called while a response
is pending.  Without `Patient` they are false, as `udp_evloop_sender` shows.

**AgentX.**  `AgentXProofs` takes any script of calls that opens the session first
and once, any requests whose lists fit their types, any finite set of variables, and
any number of requests and signals (`AgentXAssumption`).  `AgentXInv` consists of

* `OrderInv`: requests that wait to be read are owed an answer, are in order, and
  have higher numbers than everything answered; from this the ids of a response are
  right although the header is shared;
* `SessionInv`: there is one request to open a session, before which nothing is
  registered on either side;
* `AgreeInv`: for every oid, what the master knows, or will know when it has read
  the messages on their way (`Latest`, `Settled`), is what the tree has, or will have
  when the call in progress returns (`Waiting`).  `RegistriesAgree` only speaks of
  moments without messages or calls, which no step could preserve.

The invariants that are not properties of a run (`SearchInv` of `MibDescentProofs`,
`ProcInv`, `AgentXInv`) have been model-checked on the instances of the runs before
they were proved.

What is model-checked only:

* liveness, and that calls return, which the proof system does not cover;
* what the codecs compute (`BerRoundTrip`, `DecodeAllOrNothing`, `ResponseDecodable`,
  `AgentXRoundTrip`): they fold over the bytes of a message, and what a fold computes
  for every sequence needs induction over data, which is beyond it too;
* the Lua handler (`lua_group`): its loops over cascaded index tables have not been
  proved.

## Not modelled

* Out-of-memory exits, logging, the operating system data behind the mib groups,
  configuration parsing and the start-up script, which makes the calls that the
  models take as inputs; SNMPv3 cryptography (the source has none).
* The uloop transport, which writes the response before it returns and so has no
  state between two callbacks, and kqueue (`ev_kqueue.h` refers to names that are
  not declared, so it is not built).
* `transport_send` and the write handler of the AgentX transport, which nothing
  calls.
* The bytes of the AgentX PDUs that open, register, unregister and close (their ids
  and effects are in `AgentX`), and those of ping and notify, which nothing sends.
* AgentX messages that arrive in pieces or in the other byte order.
* Messages whose lengths contradict their contents: the lengths of the list of
  bindings (`core/snmp_msg_in.c` 249) and of the payload (`core/agentx_msg_in.c` 250,
  277) are unsigned and count down to zero exactly in the models.
* Handlers that raise an error in the middle of a GETNEXT, outside of `LuaGroup`; in
  `SnmpProc` and `AgentX` a variable whose oid is longer than `MIB_OID_MAX_LEN`; rows
  that a SET creates: of an instance that does not exist the set function is taken to
  refuse, with the error that the handler itself has for an object out of reach.
* BER integers with more than one byte more than necessary, of which the decoder
  keeps the low bytes (`core/snmp_decoder.c` 85-108).
* The registration functions of the Lua library and the conversion of their
  arguments in `core/smartsnmp.c`.
