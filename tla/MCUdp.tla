------------------------------- MODULE MCUdp -------------------------------
(***************************************************************************)
(* The two UDP transports, of which a build has one; the other one stays   *)
(* in its initial state.  Libevent: four datagrams of two clients, one of  *)
(* which is not answered, arriving in any order and as fast as they like.  *)
(* Built-in event loop: five, two of which are not answered.  With select, *)
(* clients wait for the response; with epoll they need not.                *)
(***************************************************************************)
EXTENDS UdpLibevent

VARIABLES
  transport,       \* the TRANSPORT option of the build
  ev_arrived, ev_inbox, ev_sent, ev_up, mux, flag, interest, ready, buf, ev_client_sin

MCDatagram == 1 .. 4
MCClientOf == [d \in MCDatagram |-> IF d \in {1, 4} THEN 11 ELSE 12]
MCAnswered == {1, 2, 4}

Mux == {"select", "epoll"}

Evloop == INSTANCE UdpEvloop WITH
  Datagram <- 1 .. 5, Answered <- {1, 2, 5},
  ClientOf <- [d \in 1 .. 5 |-> IF d \in {1, 4} THEN 11 ELSE 12],
  Multiplexer <- Mux, Window <- [m \in Mux |-> IF m = "select" THEN 1 ELSE 3],
  arrived <- ev_arrived, inbox <- ev_inbox, sent <- ev_sent, up <- ev_up,
  client_sin <- ev_client_sin

EvVars ==
  <<ev_arrived, ev_inbox, ev_sent, ev_up, mux, flag, interest, ready, buf, ev_client_sin>>

AllVars == <<transport, vars, EvVars>>

MCInit == transport \in {"built-in", "libevent"} /\ Init /\ Evloop!Init

Libevent(A) == transport = "libevent" /\ A /\ UNCHANGED <<transport, EvVars>>
BuiltIn(A) == transport = "built-in" /\ A /\ UNCHANGED <<transport, vars>>

MCNext == Libevent(Next) \/ BuiltIn(Evloop!Next)

\* The fairness of the two modules.
MCSpec ==
  /\ MCInit /\ [][MCNext]_AllVars
  /\ WF_AllVars(Libevent(snmp_read_cb)) /\ WF_AllVars(Libevent(write_cb))
  /\ WF_AllVars(BuiltIn(Evloop!snmp_event_poll)) /\ WF_AllVars(BuiltIn(Evloop!ev_poll(TRUE)))

\* The transport on the built-in event loop, too, keeps the promise of module
\* Replies: where the read event is not waited for while a response is pending
\* (epoll), and with select as long as a client waits for the response before the
\* next datagram is sent.
EvloopImplementsReplies == []Evloop!EvloopInv /\ Evloop!ImplementsReplies

\* With either transport every datagram that the protocol answers is answered,
\* unless sendto fails for it or the loop ends: an event that is removed, or freed in the place of
\* another one (snmp_write_handler, snmp_write_cb), must not be the last one.
AllReplied == EventuallyReplied /\ Evloop!EventuallyReplied
=============================================================================
