SPECIFICATION Spec
CONSTANTS
  Half = 4
  SizeOfInt = 3
  Oids <- MCOids
  Arr <- MCArr
  Values <- MCValues
  Datagrams <- MCDatagrams
  XMessages <- MCXMessages
INVARIANTS
  OidOrder
  SearchCorrect
  BerRoundTrip
  DecodeAllOrNothing
  ResponseDecodable
  AgentXRoundTrip
PROPERTY
  SearchTerminates
CHECK_DEADLOCK FALSE
