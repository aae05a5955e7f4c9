SPECIFICATION HSpec
CONSTANTS
  MaxSize = 3
  MaxUpdates = 4
  InitVectors <- MCInitVectors
  ScaledVectors <- MCScaledVectors
INVARIANTS TypeOK AverageButForStart
PROPERTY ImplementsAveragedWeights
CHECK_DEADLOCK FALSE
