SPECIFICATION Spec
CONSTANTS
  MaxFile = 1
  MaxPiece = 7
  Asked <- AskFive
  Follow = FALSE
  defaultTailN = 1
  MaxTailRecords = 5
  initialChunk = 4
  maxChunk = 8
  MAX_BUFF_SIZE = 3
  CatRead = 1
  ChanCap = 1
  MaxReadFault = 0
INVARIANT LastRecords
CHECK_DEADLOCK FALSE
