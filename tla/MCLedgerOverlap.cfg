SPECIFICATION OSpec
CONSTANTS
  a = a
  b = b
  Handlers = {h1, h2}
  Catalog = {a, b}
  Payloads <- RacePayloads
  Patches <- RacePatches
  MaxRequests = 3
  Grain = 1
  AvgScale = 1
SYMMETRY HandlersSwap
INVARIANTS
  TypeOK
  NoEmptyPosition
PROPERTIES
  UndisturbedCommitRepairs
  OnlyDisturbedCommitsDamage
CHECK_DEADLOCK FALSE
