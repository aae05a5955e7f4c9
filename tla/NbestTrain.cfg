SPECIFICATION TSpec
CONSTANTS
  Data <- MCData
  Malformed = Malformed
  HashValue <- GoodHash
  NoShuffle = {TRUE, FALSE}
  s1 = s1
  s2 = s2
INVARIANTS PackMatchesScores PackIsDeduped MemoryMatchesFiles
PROPERTIES EnumeratesEverySentence PassVisitsEverySentence
CHECK_DEADLOCK FALSE
