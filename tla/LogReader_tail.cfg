SPECIFICATION Spec
CONSTANTS
  MaxFile = 3
  MaxPiece = 4
  MaxFault = 2
  MaxRead = 2
  FromBegin = FALSE
  Undecodable <- OneBad
INVARIANTS TypeOK BufferIsRun NoLossBehindReader RotatedFileFromStart NoDuplicates
PROPERTY FollowsInOrder
