SPECIFICATION Spec
CONSTANTS
  Half = 4
  c1 = c1
  Community = {c1, c2}
  User = {u1}
  ViewOid <- MCViewOid
  Given <- MCGiven
  UnregAttr = {"READ", "WRITE"}
INVARIANTS
  ViewInv
PROPERTIES
  RegReturns
  ImplementsAccessControl
