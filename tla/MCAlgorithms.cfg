SPECIFICATION AlgorithmsSpec
CONSTANTS
  MaxRows = 4
  Quantities = {1, 2, 3}
  Prices = {1, 3}
  Fees = {0, 1}
  Grain = 1
  AvgScale = 4
  r1 = r1  r2 = r2
  Runs = {r1, r2}
  Filling = {"users", "indices", "news_items"}
  Offsets = {0, 6, 12}
  LastDay = 2
  Longest = 13
  e1 = e1  e2 = e2  isin1 = isin1  isin2 = isin2  isin3 = isin3  name1 = name1
  na = na  s0 = s0  sPar = sPar  sDus = sDus  sMil = sMil  sNyq = sNyq  sEtf = sEtf
  Absent = Absent
  Placeholders = {na}
  Indices <- MCIndices
  Calls <- MCCalls
  Queries = {isin1, isin2, isin3, name1}
  Listings <- MCListings
  MaxListed = 3
  None = None
  Tickers = {"t"}
  Hrefs <- MCHrefs
  MaxLinks = 2
INVARIANTS
  HoldingIsNetFlow
  AverageWithinOpenCosts
  AdjacentBuysCommute
  StoredColumnsAreClose
  ThreadsKeepApart
  SymbolNotByChance
  AddressesAgree
PROPERTY
  RunsReachTheirTarget
CHECK_DEADLOCK FALSE
