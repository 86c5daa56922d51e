SPECIFICATION Spec
CONSTANTS
  Half = 8
  Path <- MCPath
  Rows <- MCRows
  Failing <- MCFailing
  Known <- MCKnown
  ViewOid <- MCViewOid
  ReqOid <- MCReqOid
  MIB_OID_MAX_LEN = 4
INVARIANTS
  GetFinds
  NextIsClosest
  CursorMatches
PROPERTY
  SearchReturns
CHECK_DEADLOCK FALSE
