SPECIFICATION Spec
CONSTANTS
  Half = 4
  Path <- MCPath
  Object <- MCObject
  Known <- MCKnown
  Var <- MCVar
  TagOf <- MCTagOf
  GetFails <- MCGetFails
  SetFails <- MCSetFails
  Scripts <- MCScripts
  Requests <- MCRequests
  EarlyRequests <- MCEarlyRequests
  MaxAsked = 2
  MaxSignals = 1
INVARIANT
  IncludedStart
CHECK_DEADLOCK FALSE
