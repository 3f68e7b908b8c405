SPECIFICATION FairSpec
CONSTANTS
  Updater <- TwoUpdaters
  Logs <- ManyLogs
  Log <- MCLog
  Request <- MCRequest
  Unconvertible <- MCUnconvertible
  Key <- MCLog
  KeyOf <- MCKeyOf
  Keyless <- MCKeyless
  NoRow = NoRow
  QueueSize = 2
  BatchSize = 2
  MaxRetries = 1
  MaxFault = 3
INVARIANTS TypeOK CountersAddUp NoSilentLoss NewestRowWins CopiesPerCommit
PROPERTIES IsSink AcceptedIsFlushed CloseReturns
CHECK_DEADLOCK FALSE
