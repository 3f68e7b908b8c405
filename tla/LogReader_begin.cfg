SPECIFICATION FairSpec
CONSTANTS
  MaxFile = 2
  MaxPiece = 4
  MaxFault = 2
  MaxRead = 2
  FromBegin = TRUE
  Undecodable <- OneBad
INVARIANT NoLossBehindReader
PROPERTIES CaughtUp FollowsInOrder
