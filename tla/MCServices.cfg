SPECIFICATION ServicesSpec
CONSTANTS
  c1 = c1  c2 = c2  c3 = c3  c4 = c4
  i1 = i1  i2 = i2  absent = absent
  u1 = u1  u2 = u2  m1 = m1  s1 = s1
  Callers = {c1, c2, c3, c4}
  NoCaller = NoCaller
  Minute = 2
  Hour = 4
  MinuteCap = 2
  HourCap = 3
  MinDelay = 1
  MaxDelay = 2
  PoolSize = 2
  Lines <- MCLines
  Found = {s1}
  Manual = {m1}
  None = None
  t1 = t1  o1 = o1  o2 = o2  f1 = f1  a1 = a1  a2 = a2
  Tabs = {t1}
  Others = {o1, o2}
  Unset = Unset
  AgentUser = AgentUser
  Market = Market
  Ingestion = Ingestion
  Forms = {f1}
  ToolCalls = {a1, a2}
  Urls = {u1, u2}
  Pages <- MCPages
  Handlers = {h1, h2, h3}
  Analyses = {memo1}
  Cited = {{memo1}, {memo1, forged}}
  Comments = {fine, no}
  NoComment = NoComment
  MaxRows = 1
  MaxPatches = 3
INVARIANTS
  ToolsTypeOK
  RollingCaps
  VectorsMatchUnlessCrossed
  ExtraProfilesOnlyFromOverlap
  BoughtOnce
  TypeOK
  DecisionIsWhole
  OnlyRivalsOverwrite
PROPERTIES
  OnlyEarlierLookupsReplace
  BodiesSurvive
  SubmissionsAreComplete
  CreatedOnce
  CallsEnd
  NeverReopened
  PatchesEnd
CHECK_DEADLOCK FALSE
