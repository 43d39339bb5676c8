SPECIFICATION Spec
CONSTANTS
  a1 = a1
  a2 = a2
  c1 = c1
  c2 = c2
  t1 = t1
  k24 = k24
  k22 = k22
  k18 = k18
  usd = usd
  inr = inr
  l1 = l1
  r1 = r1
  r2 = r2
  Assets = {a1, a2}
  Reqs = {r1, r2}
  Coins = {c1, c2}
  Defaults = {c1}
  Tickers = {t1}
  K24 = k24
  K22 = k22
  K18 = k18
  USD = usd
  INR = inr
  Lines = {l1}
  Quotes = {5, 8}
  Fallback = 83
  Fixings <- MCFixings
  Settings <- MCSettings
  Faults = TRUE
  Missing = Missing
  Unusable = Unusable
  Gone = Gone
  Unset = Unset
INVARIANTS TypeOK StampsExplainValue FullValuation GoldGenuine
PROPERTY PassSettles
