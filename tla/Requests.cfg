SPECIFICATION FairSpec
CONSTANTS
  p = p
  q = q
  s = s
  None = None
  Shared = Shared
  Old = Old
  Request = {p, q}
  Subject = {s}
  Dependencies <- AllDependencies
  Autoflush = TRUE
  RollbackOnError = TRUE
  MaxCalls <- Calls21
INVARIANT ReadsOfItsTime
INVARIANT SuccessStored
INVARIANT FailureLeavesNothing
INVARIANT StoreLifetimes
PROPERTY UpsertExact
PROPERTY RequestsEnd
CHECK_DEADLOCK FALSE
