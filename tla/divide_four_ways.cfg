CONSTANTS
  Problems <- FourWayProblems
  Degrees <- FourWayDegrees
  BackEnds <- AllBackEnds
SPECIFICATION Spec
INVARIANT SameAsSequential
CHECK_DEADLOCK FALSE
