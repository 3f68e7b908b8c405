SPECIFICATION FairSpec
CONSTANTS
  MaxFile = 3
  MaxPiece = 4
  Asked <- AnyN
  Follow = TRUE
  defaultTailN = 1
  MaxTailRecords = 2
  initialChunk = 5
  maxChunk = 8
  MAX_BUFF_SIZE = 3
  CatRead = 1
  ChanCap = 2
  MaxReadFault = 1
INVARIANTS TypeOK LastRecords InOrderOnce NothingPassed CatPrefix
PROPERTIES TailCatchesUp CatReturns
CHECK_DEADLOCK FALSE
