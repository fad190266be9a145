CONSTANTS
  Lapses <- UpToThreeHours
  Reps <- OnceOrTwice
  FileCounts <- UpToFourFiles
SPECIFICATION Spec
INVARIANT TypeOK
INVARIANT IInv
INVARIANT PrefixOfProduct
INVARIANT EndsComplete
