CONSTANTS
  Pipelines <- NativePipelines
  MaxRounds = 2
SPECIFICATION Spec
INVARIANT TypeOK
INVARIANT IInv
INVARIANT Accounted
INVARIANT EndIsLast
INVARIANT OneEndMarker
INVARIANT NoEndLeft
INVARIANT NothingLeft
INVARIANT DrainFindsNext
PROPERTY DeliversStream
PROPERTY Terminates
