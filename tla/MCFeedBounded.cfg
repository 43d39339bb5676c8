SPECIFICATION Spec
CONSTANTS
  crypto = crypto
  mf = mf
  r1 = r1
  r2 = r2
  nightly = nightly
  Feeds <- MCFeeds
  Readers = {r1, r2}
  Jobs = {nightly}
  Plan <- MCPlan
  Window <- MCWindow
  Timeout <- MCTimeout
  Flaky = {mf}
  Leavers = {}
  MaxTime = 3
  NoCaller = NoCaller
INVARIANT BoundedByTimeout
