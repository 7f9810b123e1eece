SPECIFICATION FairSpec
CONSTANTS
  a = a
  b = b
  unlisted = unlisted
  Handlers = {h1, h2}
  Catalog = {a, b}
  Payloads <- CrossPayloads
  Patches <- CrossPatches
  MaxRequests = 4
  Grain = 1
  AvgScale = 1
PROPERTIES
  RequestsEnd
CHECK_DEADLOCK FALSE
