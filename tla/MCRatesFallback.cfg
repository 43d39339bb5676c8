SPECIFICATION Spec
CONSTANTS
  Getters = {g}
  Converters = {c}
  Refreshers = {r}
  TTL = 2
  MaxFetch = 1
  MaxWrite = 1
  Lackable = {"INR", "EUR"}
  ApiFaults = TRUE
  DbFaults = TRUE
  MaxTime = 4
  MadeUp = MadeUp
  Empty = Empty
PROPERTY FallbackOnlyWhenEmpty
