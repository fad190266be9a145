CONSTANTS
  Calls <- ChunkedCalls
  Sizes <- SmallSizes
  Degrees <- SmallDegrees
SPECIFICATION FairSpec
INVARIANT IInv
INVARIANT EachElementOnce
INVARIANT SameAsSequential
PROPERTY Terminates
