SPECIFICATION FairKSpec
CONSTANTS
  Sentences = {a, b}
  Iterations = 3
  MaxBleu = 2
  None = None
INVARIANTS EpochTrainsOnAll EvaluationIsOfTheAverage OutputIsBest
PROPERTY Terminates
CHECK_DEADLOCK FALSE
