CONSTANTS
  Pipelines <- OmpPipelines
  MaxRounds = 2
SPECIFICATION OmpSpec
INVARIANT OmpTypeOK
INVARIANT OmpIInv
INVARIANT OneEndMarker
PROPERTY DeliversStream
PROPERTY OmpTerminates
CHECK_DEADLOCK FALSE
