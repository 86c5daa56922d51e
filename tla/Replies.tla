------------------------------ MODULE Replies ------------------------------
(***************************************************************************)
(* What the UDP transports promise: datagrams are served in the order of   *)
(* their arrival, and the response to each is sent once, in that order, to *)
(* the client it came from, or given up because of an error of sendto.     *)
(***************************************************************************)
EXTENDS Sequences

CONSTANTS
  Datagram,        \* identities of the datagrams
  ClientOf,        \* the address each one comes from
  Answered         \* those to which the protocol sends a response

VARIABLES
  arrived,         \* datagrams that have reached the socket
  inbox,           \* those of them not yet received
  pending,         \* those received of which the response is not yet sent
  sent,            \* pairs of a datagram answered and the address used
  failed,          \* datagrams of which the response could not be sent
  up               \* the event loop is running

vars == <<arrived, inbox, pending, sent, failed, up>>

Init ==
  /\ arrived = {} /\ inbox = <<>> /\ pending = <<>> /\ sent = <<>> /\ failed = {} /\ up = TRUE

Arrive(d) ==
  /\ d \notin arrived
  /\ arrived' = arrived \cup {d} /\ inbox' = Append(inbox, d)
  /\ UNCHANGED <<pending, sent, failed, up>>

Serve ==
  /\ up /\ inbox # <<>>
  /\ inbox' = Tail(inbox)
  /\ pending' = IF Head(inbox) \in Answered THEN Append(pending, Head(inbox)) ELSE pending
  /\ UNCHANGED <<arrived, sent, failed, up>>

Reply ==
  /\ up /\ pending # <<>>
  /\ sent' = Append(sent, <<Head(pending), ClientOf[Head(pending)]>>)
  /\ pending' = Tail(pending)
  /\ UNCHANGED <<arrived, inbox, failed, up>>

\* The response is lost, and those behind it are not.
GiveUp ==
  /\ up /\ pending # <<>>
  /\ failed' = failed \cup {Head(pending)}
  /\ pending' = Tail(pending)
  /\ UNCHANGED <<arrived, inbox, sent, up>>

\* An error of the socket ends the event loop; what has not been sent is lost.
Stop ==
  /\ up /\ up' = FALSE
  /\ inbox' \in Seq(Datagram) /\ pending' \in Seq(Datagram)
  /\ UNCHANGED <<arrived, sent, failed>>

Next == (\E d \in Datagram : Arrive(d)) \/ Serve \/ Reply \/ GiveUp \/ Stop

Spec == Init /\ [][Next]_vars
=============================================================================
