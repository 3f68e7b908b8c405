SPECIFICATION Spec
CONSTANTS
  Updater <- TwoUpdaters
  Logs <- ManyLogs
  Log <- MCLog
  Request <- MCRequest
  Unconvertible <- MCUnconvertible
  Key <- MCLog
  KeyOf <- MCKeyOf
  Keyless <- MCKeyless
  NoRow = NoRow
  QueueSize = 2
  BatchSize = 2
  MaxRetries = 5
  MaxFault = 5
INVARIANT WriterSurvives
