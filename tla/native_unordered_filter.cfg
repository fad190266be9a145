CONSTANTS
  Pipelines <- UnorderedFilter
  MaxRounds = 2
SPECIFICATION Spec
PROPERTY DeliversStream
CHECK_DEADLOCK FALSE
