SPECIFICATION Spec
CONSTANTS
  a = a
  b = b
  unlisted = unlisted
  Handlers = {h1}
  Catalog = {a, b}
  Payloads <- SerialPayloads
  Patches <- SerialPatches
  MaxRequests = 4
  Grain = 1
  AvgScale = 4
INVARIANTS
  PositionsMatchLedger
  NoServerError
PROPERTIES
  ImplementsBook
CHECK_DEADLOCK FALSE
