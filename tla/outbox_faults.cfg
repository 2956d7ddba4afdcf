CONSTANTS
  MaxEvents = 7
  BatchSize = 2
  ShortWrites = TRUE
SPECIFICATION Spec
INVARIANTS
  IInv
  AcknowledgedWereDelivered
  UnsentSurvive
PROPERTIES
  SequencesOnlyGrow
  ImplementsQueue
