SPECIFICATION FairSpec
CONSTANTS
  r1 = r1
  r2 = r2
  r3 = r3
  c1 = c1
  c2 = c2
  mail = mail
  p = p
  q = q
  Reqs = {r1, r2, r3}
  Clients = {c1, c2}
  Client <- MCClient
  Limit = 2
  Window = 1
  Cap = 1
  MaxLag = 1
  MaxCount = 2
  MaxTime = 3
  None = None
  Tasks <- MCTasks
  MongoAttempts = 2
  Jobs = {job}
  BootJobs = {job}
  job = job
  MaxStarts = 2
  Timed <- MCTimed
INVARIANTS TypeOK TwiceAtMost DuplicateOnlyByOverlap
PROPERTIES MapBounded Implements BootEnds DrainEnds
