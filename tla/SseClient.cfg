CONSTANTS
  Length = 4
  Numbered = {1, 3, 4}
  Wanted = {1, 2, 4}
  MaxEvents = 3
  MaxChunk = 4
  MaxConnections = 4
  SplitsLineEnds = FALSE
  None = None
SPECIFICATION Spec
INVARIANTS NothingIsSkipped NothingIsRepeated EventsAreWhole 
PROPERTIES AbortedStreamsEnd
CHECK_DEADLOCK FALSE
