SPECIFICATION Spec
CONSTANTS
  a = a
  b = b
  unlisted = unlisted
  Handlers = {h1, h2}
  Catalog = {a, b}
  Payloads <- RacePayloads
  Patches <- RacePatches
  MaxRequests = 3
  Grain = 1
  AvgScale = 1
INVARIANTS
  QuietPositionsMatchLedger
CHECK_DEADLOCK FALSE
