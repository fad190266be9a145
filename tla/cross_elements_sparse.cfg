CONSTANTS
  Lapses <- UpToThreeHours
  Reps <- OnceOrTwice
  FileCounts <- UpToFourFiles
SPECIFICATION Spec
INVARIANT NeverError
CHECK_DEADLOCK FALSE
