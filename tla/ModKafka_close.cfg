SPECIFICATION Spec
CONSTANTS
  Updater <- TwoUpdaters
  Logs <- ManyLogs
  Log <- MCLog
  Request <- MCRequest
  Unconvertible <- MCUnconvertible
  BatchSize = 2
  HasDLQ = TRUE
  MaxFault = 0
INVARIANT CloseDelivers
