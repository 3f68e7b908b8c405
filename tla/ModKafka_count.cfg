SPECIFICATION Spec
CONSTANTS
  Updater <- ThreeUpdaters
  Logs <- FewLogs
  Log <- MCLog
  Request <- MCRequest
  Unconvertible <- MCUnconvertible
  BatchSize = 1
  HasDLQ = FALSE
  MaxFault = 1
INVARIANTS TypeOK CountersAddUp
CHECK_DEADLOCK FALSE
