SPECIFICATION FairSpec
CONSTANTS
  crypto = crypto
  mf = mf
  r1 = r1
  r2 = r2
  nightly = nightly
  Feeds <- MCFeeds
  Readers = {r1, r2}
  Jobs = {nightly}
  Plan <- MCPlan
  Window <- MCWindow
  Timeout <- MCTimeout
  Flaky = {mf}
  Leavers = {r1}
  MaxTime = 3
  NoCaller = NoCaller
INVARIANTS TypeOK MutualExclusion NoHoldAndWait ReadSpacing
PROPERTIES Implements EveryCallerReturns
