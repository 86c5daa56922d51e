----------------------------- MODULE UdpEvloop -----------------------------
(***************************************************************************)
(* The built-in UDP transport: src/core/snmp_udp_evloop_transport.c on the *)
(* event loop of ev_loop.c, with the multiplexers of ev_select.h and       *)
(* ev_epoll.h.  There is one socket, so one entry of the event table is in *)
(* use, and one struct snmp_data_entry holds the response to be written    *)
(* and the address to write it to.                                         *)
(*                                                                         *)
(* A pass of snmp_event_poll first asks the multiplexer and then runs the  *)
(* read handler and the write handler that it marked.  The read handler    *)
(* includes the processing of the request (module SnmpProc), which calls   *)
(* transport_send if there is a response.                                  *)
(***************************************************************************)
EXTENDS Naturals, Sequences

CONSTANTS
  Datagram, ClientOf, Answered,
  Multiplexer,     \* the build options considered, of "select" and "epoll"
  Window           \* Window[m]: datagrams that may be on their way with m

Flag == {"READ", "WRITE"}
Client == {ClientOf[d] : d \in Datagram}
NULL == 0

VARIABLES
  arrived, inbox, sent, up, \* as in module Replies; up is ev_loop.start
  mux,             \* the multiplexer of this build
  flag,            \* event->flag: events registered for the socket
  interest,        \* events that the multiplexer waits for
  ready,           \* event->read and event->write
  buf, client_sin  \* snmp_entry: whose response is in buf, and the address

vars == <<arrived, inbox, sent, up, mux, flag, interest, ready, buf, client_sin>>

TypeOK ==
  /\ arrived \subseteq Datagram /\ inbox \in Seq(Datagram)
  /\ sent \in Seq(Datagram \X Client)
  /\ up \in BOOLEAN /\ mux \in Multiplexer
  /\ flag \subseteq Flag /\ interest \subseteq Flag /\ ready \subseteq flag
  /\ buf \in Datagram \cup {NULL} /\ client_sin \in Client \cup {NULL}

\* transport_running: the read event is registered.
Init ==
  /\ arrived = {} /\ inbox = <<>> /\ sent = <<>> /\ up = TRUE
  /\ mux \in Multiplexer
  /\ flag = {"READ"} /\ interest = {"READ"} /\ ready = {}
  /\ buf = NULL /\ client_sin = NULL

\* The network: a datagram arrives unless too many are on their way.
Arrive(d) ==
  /\ d \notin arrived
  /\ Len(inbox) + (IF "WRITE" \in flag THEN 1 ELSE 0) < Window[mux]
  /\ arrived' = arrived \cup {d} /\ inbox' = Append(inbox, d)
  /\ UNCHANGED <<sent, up, mux, flag, interest, ready, buf, client_sin>>
-----------------------------------------------------------------------------
\* __ev_add: select adds the event to those waited for; epoll modifies the entry
\* of the socket, which replaces them.
select_add(f) == interest \cup {f}
epoll_add(f) == {f}

\* mutant: epoll is left without the read event
Mut_epoll_remove(f) == interest \ {f}

\* __ev_remove: select removes the event; epoll is left with the other one.
select_remove(f) == interest \ {f}
epoll_remove(f) == Flag \ {f}

snmp_event_add(f) ==
  /\ flag' = flag \cup {f}
  /\ interest' = IF mux = "epoll" THEN epoll_add(f) ELSE select_add(f)

snmp_event_remove(f) ==
  /\ flag' = flag \ {f}
  /\ interest' = IF mux = "epoll" THEN epoll_remove(f) ELSE select_remove(f)

\* __ev_poll: every event that is waited for and has come; a socket can be read
\* if there is a datagram, and whether it can be written is up to the system.
ev_poll(writable) ==
  LET marks == {f \in interest \cap flag : IF f = "READ" THEN inbox # <<>> ELSE writable}
  IN  /\ up /\ ready = {} /\ marks # {}
      /\ ready' = marks
      /\ UNCHANGED <<arrived, inbox, sent, up, mux, flag, interest, buf, client_sin>>

\* mutant: the write event is not registered
Mut_transport_send(d) == buf' = d /\ UNCHANGED <<flag, interest>>

transport_send(d) == buf' = d /\ snmp_event_add("WRITE")

\* snmp_read_handler, with transport_send if the protocol answers.
snmp_read_handler ==
  LET d == Head(inbox)
  IN  /\ up /\ "READ" \in ready
      /\ inbox' = Tail(inbox) /\ ready' = ready \ {"READ"}
      /\ client_sin' = ClientOf[d]
      /\ IF d \in Answered
         THEN transport_send(d)
         ELSE UNCHANGED <<buf, flag, interest>>
      /\ UNCHANGED <<arrived, sent, up, mux>>

snmp_write_handler ==
  /\ up /\ ready = {"WRITE"}
  /\ sent' = Append(sent, <<buf, client_sin>>)
  /\ buf' = NULL /\ client_sin' = NULL
  /\ snmp_event_remove("WRITE") /\ ready' = {}
  /\ UNCHANGED <<arrived, inbox, up, mux>>

\* An error of recvfrom or sendto: snmp_event_done, after which nothing is used.
snmp_event_done ==
  /\ up /\ ready # {}
  /\ up' = FALSE /\ flag' = {} /\ interest' = {} /\ ready' = {}
  /\ UNCHANGED <<arrived, inbox, sent, mux, buf, client_sin>>

snmp_event_poll == (\E w \in BOOLEAN : ev_poll(w)) \/ snmp_read_handler \/ snmp_write_handler

Next == (\E d \in Datagram : Arrive(d)) \/ snmp_event_poll \/ snmp_event_done

\* The loop goes on, and a socket does not stay unwritable forever.
Spec ==
  /\ Init /\ [][Next]_vars
  /\ WF_vars(snmp_event_poll) /\ WF_vars(ev_poll(TRUE))
-----------------------------------------------------------------------------
Pending == IF "WRITE" \in flag THEN <<buf>> ELSE <<>>

\* A response that cannot be sent ends the loop: none is given up while it runs.
Abstract == INSTANCE Replies WITH pending <- Pending, failed <- {}

\* The assumption under which the transport is sound: with epoll the read event is
\* not waited for while a response is pending, and with select a client waits for
\* the response before the next datagram is sent.
Patient == \A m \in Multiplexer : m = "epoll" \/ Window[m] = 1

\* What the handlers rely on: a pending response still has its own address beside
\* it, and the read handler is not called while there is one.
EvloopInv ==
  /\ TypeOK
  /\ "WRITE" \in flag => buf \in Datagram /\ client_sin = ClientOf[buf]
  /\ "READ" \in ready => inbox # <<>> /\ "WRITE" \notin flag
  /\ mux = "epoll" /\ up => interest = IF "WRITE" \in flag THEN {"WRITE"} ELSE {"READ"}
  /\ mux # "epoll" => Len(inbox) <= (IF "WRITE" \in flag THEN 0 ELSE 1)

\* The transport keeps the promise of module Replies, where the read event is not
\* waited for while a response is pending (epoll), and with select as long as a
\* client waits for the response before the next datagram is sent.
ImplementsReplies == Abstract!Spec

\* Every datagram that the protocol answers is answered, unless the loop ends.
EventuallyReplied ==
  \A d \in Answered : d \in arrived ~> ~ up \/ \E i \in 1 .. Len(sent) : sent[i][1] = d

\* What the comment in snmp_read_handler says: client_sin is the address of the
\* sender, so that is where the response goes.
RepliesToSender == \A i \in 1 .. Len(sent) : sent[i][2] = ClientOf[sent[i][1]]
=============================================================================
