CONSTANTS
  j1 = j1  j2 = j2
  a1 = a1  a2 = a2
  w1 = w1
  c1 = c1  c2 = c2  c3 = c3
  r1 = r1  r2 = r2
  Jobs = {j1}
  Attempts = {a1}
  Workers = {w1}
  Configs = {c1}
  CanRun <- MCCanRun
  Requests = {r1}
  MaxSequence = 1
  Reports = {"succeeded", "failed", "cancelled"}
  None = None
  Self = w1
  Unusable = {}
  BatchSize = 1
  Faults = {"calls"}
SPECIFICATION SupervisedRunnerSpec
PROPERTIES
  CompletionIsRetried
