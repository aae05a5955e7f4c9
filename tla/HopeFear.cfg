SPECIFICATION DSpec
CONSTANTS
  MaxHyps = 3
  Scores <- MCScores
  Bleus = {0, 1, 2}
INVARIANT FearModelHope
CHECK_DEADLOCK FALSE
