CONSTANTS
  Runs = {r1}
  Keys = {1}
  KeyOf <- MCKeyOf
  MaxQueue = 2
  None = None
SPECIFICATION Spec
PROPERTY NoCancelIsLost
CHECK_DEADLOCK FALSE
