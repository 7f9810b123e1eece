SPECIFICATION HistorySpec
CONSTANTS
  Questions = {1, 2}
  None = None
  MaxSize = 2
  MaxLines = 1
  Cuts = {}
  Outputs <- MCOutputs
INVARIANT ResponseIsOwn
CHECK_DEADLOCK FALSE
