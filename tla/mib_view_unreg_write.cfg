SPECIFICATION Spec
CONSTANTS
  Half = 4
  c1 = c1
  Community = {c1}
  User = {}
  ViewOid <- MCViewOid
  Given <- MCGiven
  UnregAttr = {"WRITE"}
PROPERTY
  CallReturns
