CONSTANTS
  Problems <- SmallProblems
  Degrees <- SmallDegrees
  BackEnds <- AllBackEnds
SPECIFICATION Spec
INVARIANT IInv
INVARIANT SameAsSequential
INVARIANT EachSubproblemOnce
INVARIANT NoOrphans
PROPERTY Terminates
