SPECIFICATION HistorySpec
CONSTANTS
  Questions = {1, 2}
  None = None
  MaxSize = 2
  MaxLines = 1
  Cuts = {}
  Outputs <- MCOutputs
INVARIANTS
  TypeOK
  OwnAnswerCompetes
PROPERTIES
  ThreadGrows
  ImplementsStream
CHECK_DEADLOCK FALSE
