SPECIFICATION MCSpec
CONSTANTS
  Datagram <- MCDatagram
  ClientOf <- MCClientOf
  Answered <- MCAnswered
INVARIANTS
  SendInv
PROPERTIES
  ImplementsReplies
  EvloopImplementsReplies
  AllReplied
CHECK_DEADLOCK FALSE
