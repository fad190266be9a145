CONSTANTS
  Pipelines <- ShortQueueIteration
  MaxRounds = 2
SPECIFICATION Spec
PROPERTY Terminates
CHECK_DEADLOCK FALSE
