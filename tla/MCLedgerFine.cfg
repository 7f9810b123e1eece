SPECIFICATION Spec
CONSTANTS
  a = a
  b = b
  unlisted = unlisted
  Handlers = {h1}
  Catalog = {a, b}
  Payloads <- FinePayloads
  Patches <- FinePatches
  MaxRequests = 3
  Grain = 4
  AvgScale = 1
INVARIANTS
  NoEmptyPosition
CHECK_DEADLOCK FALSE
