CONSTANTS
  j1 = j1  j2 = j2
  a1 = a1  a2 = a2
  w1 = w1
  c1 = c1  c2 = c2  c3 = c3
  r1 = r1  r2 = r2
  Jobs = {j1, j2}
  Attempts = {a1, a2}
  Workers = {w1}
  Configs = {c1, c2, c3}
  CanRun <- MCCanRunFirst
  Requests = {r1}
  MaxSequence = 3
  Reports = {"succeeded", "failed", "cancelled"}
  None = None
  Self = w1
  Unusable = {c2}
  BatchSize = 2
  Faults = {}
SPECIFICATION FairRunnerSpec
INVARIANTS
  NothingAbandoned
PROPERTIES
  ClaimedIsFinished
  QueuedIsServed
