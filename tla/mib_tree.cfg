SPECIFICATION Spec
CONSTANTS
  Half = 4
  Path <- Deep
  Callback = {f1, f2, f3}
  MIB_OID_MAX_LEN = 3
INVARIANTS
  TreeSound
  HandlersLive
PROPERTIES
  CallReturns
  ImplementsRegistry
