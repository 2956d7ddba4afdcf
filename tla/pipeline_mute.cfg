CONSTANTS
  f1 = f1  f2 = f2
  e1 = e1  e2 = e2
  t1 = t1  t2 = t2
  Files = {f1, f2}
  Entries = {e1, e2}
  Tags = {t1, t2}
  Mute <- MCMute
  Escapes = FALSE
SPECIFICATION PipelineSpec
CHECK_DEADLOCK FALSE
INVARIANTS
  FailureStopsNothing
