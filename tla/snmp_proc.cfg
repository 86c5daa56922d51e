SPECIFICATION Spec
CONSTANTS
  Half = 4
  Node <- MCNode
  Object <- MCObject
  Known <- MCKnown
  Var <- MCVar
  TagOf <- MCTagOf
  GetFails <- MCGetFails
  SetFails <- MCSetFails
  ViewLists <- MCViewLists
  Messages <- MCMessages
INVARIANTS
  GetAnswers
  NextAnswers
  SetReport
  SetOnlyWritable
  ErrorHasCause
PROPERTY
  Answered
