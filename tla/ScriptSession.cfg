CONSTANTS
  Calls = {c1, c2}
  MaxWorkers = 3
  None = None
SPECIFICATION Spec
INVARIANTS HookRunsForItsCall FailuresAreOwn HandlersOfFailedCallsAreCut 
PROPERTIES EveryCallSettles ImplementsSerialCalls
CHECK_DEADLOCK FALSE
