SPECIFICATION HistorySpec
CONSTANTS
  Questions = {1, 2, 3}
  Conns = {1, 2}
  None = None
  MaxSize = 1
  MaxLines = 1
  Cuts = {"broken", "cut"}
INVARIANTS
  TypeOK
  BubblesArePrefixes
  SettledShown
PROPERTIES
  ThreadSticks
  AnswersEnd
CHECK_DEADLOCK FALSE
