CONSTANTS
  Runs = {r1, r2}
  Keys = {1}
  KeyOf <- MCKeyOf
  MaxQueue = 2
  None = None
SPECIFICATION Spec
INVARIANTS NoRunIsLeftBehind NoCancelOutlivesItsCall 
PROPERTIES NothingStaleIsShown CancelledStays CancelledRunsAnswer
CHECK_DEADLOCK FALSE
