SPECIFICATION Spec
CONSTANTS
  a1 = a1
  a2 = a2
  s1 = s1
  s2 = s2
  e1 = e1
  e2 = e2
  Assets = {a1}
  Schemes = {s1}
  Units = {0, 1, 2}
  Navs = {1, 2}
  Rates = {2}
  Editors = {e1, e2}
  Requests <- EditRequests
  InitialDb <- FundDb
  InitialNavs <- MCNavs
  MaxPasses <- MCPasses
  Faults = FALSE
  Unset = Unset
  Unborn = Unborn
  Gone = Gone
PROPERTY RevaluerKeepsUnits
