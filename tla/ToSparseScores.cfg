SPECIFICATION FSpec
CONSTANTS
  DenseNames <- MCDenseNames
  SparseNames = {p, q, r}
  Hypotheses <- MCHypotheses
  Undefined = undefined
  Types = {"nbest", "hypergraph"}
  MaxRead = 3
  MaxUpdates = 2
  d = d
  p = p
  q = q
  r = r
INVARIANT ToSparseScores
CHECK_DEADLOCK FALSE
