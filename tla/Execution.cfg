CONSTANTS
  Roots = {r}
  Nested = {n1}
  MaxScripts = 1
  MaxDepth = 1
  None = None
SPECIFICATION Spec
INVARIANTS AbortReachesChildren ChildrenRunInsideTheirHook SessionsAreDisposed ResultIsRecorded EarlyAbortIsReported
PROPERTIES AbortedRunsEnd
CHECK_DEADLOCK FALSE
