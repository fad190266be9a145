CONSTANTS
  Pipelines <- FilterBehindFarm
  MaxRounds = 2
SPECIFICATION OmpSpec
PROPERTY KeptValuesArrive
CHECK_DEADLOCK FALSE
