SPECIFICATION FairSpec
CONSTANTS
  Updater <- TwoUpdaters
  Logs <- LiveLogs
  Log <- LiveLog
  Request <- LiveLog
  Unconvertible = {}
  BatchSize = 2
  HasDLQ = TRUE
  MaxFault = 1
INVARIANT NoSilentLoss
PROPERTIES IsSink AcceptedIsFlushed CloseReturns
CHECK_DEADLOCK FALSE
