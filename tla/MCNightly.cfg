SPECIFICATION FairSpec
CONSTANTS
  alice = alice
  bob = bob
  e1 = e1
  e2 = e2
  Users = {alice, bob}
  InitialAssets <- MCAssets
  MaxAssets = 2
  Attempts = 2
  cron = cron
  Crons = {cron}
  Editors = {e1, e2}
  Author <- MCAuthor
  Steps = 1
  Amounts = {1}
  InitialDebts <- MCDebts
  MaxDay = 1
  MaxEvents = 2
  FeedFaults = TRUE
  ListFaults = TRUE
  RowFaults = FALSE
  Hangs = TRUE
  Unset = Unset
INVARIANTS TypeOK EveryUserReached PastIsPast
PROPERTY NightEnds
