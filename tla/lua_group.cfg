SPECIFICATION Spec
CONSTANTS
  Half = 8
  Groups <- MCGroups
  Requests <- MCRequests
INVARIANTS
  IndexTableOrdered
  NextIsInstance
  NothingSkipped
  SetAnswered
PROPERTY
  HandlerReturns
