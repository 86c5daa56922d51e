---------------------------- MODULE UdpLibevent ----------------------------
(***************************************************************************)
(* The UDP transport on libevent: snmp_udp_libevent_transport.c.  Responses *)
(* wait in a queue, each with its own address.  Every transport_send makes *)
(* a new write event, but there is only one pointer to them,               *)
(* snmp_send_event: the callback frees the event made last, which need not *)
(* be the one that it was called for.                                      *)
(*                                                                         *)
(* libevent is external: any event that is pending may be the next one to  *)
(* be dispatched, a write event is pending until then, and event_free      *)
(* takes an event off.  Events are numbered as they are made.              *)
(***************************************************************************)
EXTENDS Naturals, Sequences

CONSTANTS
  Datagram, ClientOf, Answered \* as in module Replies

ASSUME LibeventAssumption == Answered \subseteq Datagram

Client == {ClientOf[d] : d \in Datagram}

VARIABLES
  arrived, inbox, sent, failed, up, \* as in module Replies
  client_sin,      \* the address of the sender of the last datagram
  send_queue,      \* entries [buf, client_sin]; buf is whose response it is
  events,          \* write events that are pending
  snmp_send_event, \* the event made last
  made             \* number of events made

vars == <<arrived, inbox, sent, failed, up, client_sin, send_queue, events, snmp_send_event, made>>

Entry == [buf : Answered, client_sin : Client]

TypeOK ==
  /\ arrived \subseteq Datagram /\ inbox \in Seq(Datagram)
  /\ sent \in Seq(Datagram \X Client)
  /\ failed \subseteq Datagram /\ up \in BOOLEAN
  /\ send_queue \in Seq(Entry)
  /\ made \in Nat /\ events \subseteq 1 .. made /\ snmp_send_event \in 0 .. made

\* transport_init and transport_running
Init ==
  /\ arrived = {} /\ inbox = <<>> /\ sent = <<>> /\ failed = {} /\ up = TRUE
  /\ client_sin \in Client
  /\ send_queue = <<>> /\ events = {} /\ snmp_send_event = 0 /\ made = 0

Arrive(d) ==
  /\ d \notin arrived
  /\ arrived' = arrived \cup {d} /\ inbox' = Append(inbox, d)
  /\ UNCHANGED <<sent, failed, up, client_sin, send_queue, events, snmp_send_event, made>>

\* event_new and event_add of a write event, with keep the other ones pending.
NewEvent(keep) ==
  made' = made + 1 /\ snmp_send_event' = made + 1 /\ events' = keep \cup {made + 1}

transport_send(entry) ==
  send_queue' = Append(send_queue, entry) /\ NewEvent(events)

\* snmp_read_cb, with transport_send if the protocol answers.
snmp_read_cb ==
  LET d == Head(inbox)
  IN  /\ up /\ inbox # <<>>
      /\ inbox' = Tail(inbox) /\ client_sin' = ClientOf[d]
      /\ IF d \in Answered
         THEN transport_send([buf |-> d, client_sin |-> ClientOf[d]])
         ELSE UNCHANGED <<send_queue, events, snmp_send_event, made>>
      /\ UNCHANGED <<arrived, sent, failed, up>>

\* mutant: the response goes to the client that was heard last
Mut_Address(entry) == client_sin

Address(entry) == entry.client_sin

\* mutant: no further event for what is left in the queue
Mut_Continue(keep, left) ==
  events' = keep /\ UNCHANGED <<snmp_send_event, made>>

\* if there is other data to be sent, another EV_WRITE event is registered.
Continue(keep, left) ==
  IF left = <<>> THEN events' = keep /\ UNCHANGED <<snmp_send_event, made>> ELSE NewEvent(keep)

\* snmp_write_cb, called for event e; ok tells whether sendto succeeds.  If not, the
\* callback calls event_loopbreak, which is for the default event base and without
\* effect on the loop of event_base, and goes on.
snmp_write_cb(e, ok) ==
  LET entry == Head(send_queue)
  IN  /\ up /\ e \in events
      /\ IF send_queue = <<>>
         THEN events' = events \ {e} /\ UNCHANGED <<sent, failed, send_queue, snmp_send_event, made>>
         ELSE /\ sent' = IF ok THEN Append(sent, <<entry.buf, Address(entry)>>) ELSE sent
              /\ failed' = IF ok THEN failed ELSE failed \cup {entry.buf}
              /\ send_queue' = Tail(send_queue)
              /\ Continue(events \ {e, snmp_send_event}, Tail(send_queue))
      /\ UNCHANGED <<arrived, inbox, up, client_sin>>

\* snmp_read_cb where recvfrom fails: event_loopbreak is without effect as well, and
\* a length of -1 fails the assertion of snmpd_recv.
recvfrom_fails ==
  /\ up /\ up' = FALSE
  /\ UNCHANGED <<arrived, inbox, sent, failed, client_sin, send_queue, events, snmp_send_event, made>>

write_cb == \E e \in events, ok \in BOOLEAN : snmp_write_cb(e, ok)

Next == (\E d \in Datagram : Arrive(d)) \/ snmp_read_cb \/ write_cb \/ recvfrom_fails

\* libevent dispatches what is ready: datagrams are read and, as the socket does
\* not stay unwritable, write events come.
Spec == Init /\ [][Next]_vars /\ WF_vars(snmp_read_cb) /\ WF_vars(write_cb)
-----------------------------------------------------------------------------
Bufs(queue) == [i \in 1 .. Len(queue) |-> queue[i].buf]

Abstract == INSTANCE Replies WITH pending <- Bufs(send_queue)

\* While responses are waiting, the event that snmp_send_event points to is
\* pending: snmp_write_cb will be called again, and then frees an event that
\* exists.  Every entry of the queue keeps the address of its own client.
SendInv ==
  /\ TypeOK
  /\ send_queue # <<>> => snmp_send_event \in events
  /\ \A i \in 1 .. Len(send_queue) : send_queue[i].client_sin = ClientOf[send_queue[i].buf]

\* Responses are sent once each, in order, to the clients that they are for,
\* however many datagrams are read before a response can be written; one that
\* sendto fails for is lost, and no other.
ImplementsReplies == Abstract!Spec

\* Every datagram that the protocol answers is answered, unless sendto fails for the
\* response or the process ends.
EventuallyReplied ==
  \A d \in Answered : d \in arrived ~> ~ up \/ d \in failed \/ \E i \in 1 .. Len(sent) : sent[i][1] = d
=============================================================================
