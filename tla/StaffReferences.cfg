SPECIFICATION Spec
CONSTANTS
  p = p
  q = q
  o = o
  n1 = n1
  n2 = n2
  None = None
  Unset = Unset
  Obj = {1, 2, 3}
  Iris = {p, q, o}
  Names = {n1}
  Children <- Staff
  Cascading = {p, q, o}
  Depths = {0}
  AutoFlush = TRUE
  CloseOnExit = TRUE
  RollbackOnError = TRUE
  StoreMode = "memory"
  InitialGraph <- Staffed
  Foreign <- NoTriples
  Ops <- StaffOps
PROPERTY ReferencesSurvive
