SPECIFICATION HistorySpec
CONSTANTS
  Questions = {1, 2}
  None = None
  MaxSize = 2
  MaxLines = 1
  Cuts = {}
  Outputs <- MCOutputs
PROPERTY InvocationsPersist
CHECK_DEADLOCK FALSE
