SPECIFICATION Spec
CONSTANTS
  DoublePhysicalSize = 3
  DoubleExponentBits = 4
  SinglePhysicalSize = 1
  SingleExponentBits = 3
  DiyFpSize = 12
  CachedPowersOffset = 8
  DecimalExponentDistance = 2
  MaxDecimalExponent = 6
  BigitSize = 4
  ChunkSize = 8
  UInt64Size = 12
  BigitCapacity = 10
  MinimalTargetExponent = 8
  MaximalTargetExponent = 1
  FixedMaxExponent = 1
  FixedMaxDigits = 2
  MaxExactDoubleIntegerDecimalDigits = 1
  ExactPowersOfTenSize = 2
  MaxDecimalPower = 3
  MinusMinDecimalPower = 4
  MaxSignificantDecimalDigits = 11
  DecimalInShortestLow = 2
  DecimalInShortestHigh = 2
  MaxLeadingPaddingZeroes = 2
  MaxFixedDigitsBeforePoint = 2
  MaxFixedDigitsAfterPoint = 3
  MaxExponentialDigits = 3
  MaxPrecisionDigits = 3
  Base10MaximalLength = 3
  MaxSignificantDigits = 9
  MaxParsedExponent = 50
  MaxDigits = 4
  MaxNumber = 120
  MaxExponent10 = 5
INVARIANTS RemainderIsExact PrintedIsRight ReadIsNearest WrittenIsReadBack
