SPECIFICATION Spec
CONSTANTS
  Datagram <- MCDatagram
  ClientOf <- MCClientOf
  Answered <- MCAnswered
  Multiplexer = {"select"}
  Window <- Impatient
INVARIANT
  RepliesToSender
CHECK_DEADLOCK FALSE
