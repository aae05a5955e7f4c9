SPECIFICATION MSpec
CONSTANTS
  None = None
  One = 240
  CalculateScore <- MCScore
  SentenceScore <- MCSentenceScore
  MinDiff = 2
  NCandidates = 2
  NSamples = 1
  MinX <- MCMinX
  MaxX = 1000000
  MinInt = 2
  Far = 2400
  Near = 24
  Snap = 3
  AvailableSize = 1
  NBestLists <- MCNBestLists
  Chainable = {}
  Configs <- MCFixedConfigs
  Threads = 2
  MaxRuns = 2
  RandomParts = 1
  DrawParts = 2
  Binary = FALSE
  KeepDuplicates = FALSE
INVARIANT ScoreIsOfPoint
