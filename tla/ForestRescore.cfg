SPECIFICATION VSpec
CONSTANTS
  bos = bos
  eos = eos
  a = a
  b = b
  c = c
  Graphs <- MCGraphs
  InitWeights <- MCInitWeights
  EdgeCounts = {0, 2, 4, 6}
  Order = 3
  Boundary = {bos, eos}
  References <- MCReferences
  Weights <- MCWeights
  Bleu <- MCBleu
  Junk <- MCJunk
INVARIANTS EdgeScores PrunedIsPart LatticeKeepsBest ContextsFit NgramsCountedOnce ModelDecodesBest CompleteIsDecoded
CHECK_DEADLOCK FALSE
