SPECIFICATION Spec
CONSTANTS
  alice = alice
  bob = bob
  e1 = e1
  e2 = e2
  Users = {alice, bob}
  InitialAssets <- MCAssets
  MaxAssets = 2
  Attempts = 1
  cron = cron
  Crons = {}
  Editors = {}
  Author <- MCAuthor
  Steps = 1
  Amounts = {1}
  InitialDebts <- MCDebts
  MaxDay = 1
  MaxEvents = 2
  FeedFaults = FALSE
  ListFaults = FALSE
  RowFaults = TRUE
  Hangs = FALSE
  Unset = Unset
INVARIANT GreenMeansWritten
