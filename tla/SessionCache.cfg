SPECIFICATION Spec
CONSTANTS
  p = p
  q = q
  o = o
  n1 = n1
  n2 = n2
  None = None
  Unset = Unset
  Obj = {1, 2, 3, 4, 5, 6}
  Iris = {p, o}
  Names = {n1}
  Children <- Employment
  Cascading = {p}
  Depths = {0, 1}
  AutoFlush = TRUE
  CloseOnExit = TRUE
  RollbackOnError = TRUE
  StoreMode = "memory"
  InitialGraph <- NoTriples
  Foreign <- NoTriples
  Ops <- CacheOps
INVARIANT CachesKeyed
INVARIANT HydrationIsIdentity
PROPERTY InstanceKept
