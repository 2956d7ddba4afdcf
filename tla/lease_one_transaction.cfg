CONSTANTS
  j1 = j1  j2 = j2  j3 = j3
  a1 = a1  a2 = a2  a3 = a3
  w1 = w1  w2 = w2
  c1 = c1  c2 = c2
  r1 = r1  r2 = r2
  Jobs = {j1}
  Attempts = {a1}
  Workers = {w1}
  Configs = {c2}
  CanRun <- MCPartlyRunnable
  Requests = {r1}
  MaxSequence = 2
  Reports = {"succeeded"}
  None = None
SPECIFICATION FairSpec
INVARIANTS
  AttemptAndJobFinishTogether
