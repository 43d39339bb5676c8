SPECIFICATION Spec
CONSTANTS
  Getters = {g}
  Converters = {c}
  Refreshers = {r}
  TTL = 2
  MaxFetch = 1
  MaxWrite = 1
  Lackable = {"EUR"}
  ApiFaults = TRUE
  DbFaults = TRUE
  MaxTime = 3
  MadeUp = MadeUp
  Empty = Empty
INVARIANTS TypeOK NeverBehindRead
PROPERTIES HitIsFresh StepBackBounded
