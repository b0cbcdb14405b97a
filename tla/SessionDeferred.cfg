SPECIFICATION FairSpec
CONSTANTS
  p = p
  q = q
  o = o
  n1 = n1
  n2 = n2
  None = None
  Unset = Unset
  Obj = {1, 2}
  Iris = {p, o}
  Names = {n1}
  Children <- Employment
  Cascading = {p}
  Depths = {0}
  AutoFlush = TRUE
  CloseOnExit = TRUE
  RollbackOnError = FALSE
  StoreMode = "writer"
  InitialGraph <- NoTriples
  Foreign <- NoTriples
  Ops <- DeferredOps
INVARIANT TypeOK
PROPERTY DeferredSpec
PROPERTY DeferredWritesAccounted
INVARIANT ClosedIsClean
PROPERTY CallsReturn
