---------------------------- MODULE MCUdpEvloop ----------------------------
(* Five datagrams of two clients, two of which are not answered.  Clients do *)
(* not wait for the response before the next datagram is sent.               *)
EXTENDS UdpEvloop

MCDatagram == 1 .. 5
MCClientOf == [d \in MCDatagram |-> IF d \in {1, 4} THEN 11 ELSE 12]
MCAnswered == {1, 2, 5}
Impatient == [m \in Multiplexer |-> 2]
=============================================================================
