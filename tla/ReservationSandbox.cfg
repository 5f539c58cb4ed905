SPECIFICATION FairSpec
CONSTANTS
  complete = complete
  undated = undated
  blank = blank
  Messages = {complete, undated, blank}
  Examples = {complete}
  Valid = {complete, undated}
  None = None
  MaxEvents = 6
INVARIANTS
  NoStaleResult
  CopiedIsOnClipboard
  NothingUntold
PROPERTIES
  StatusMovesForward
  EveryCopyIsTold
CHECK_DEADLOCK FALSE
