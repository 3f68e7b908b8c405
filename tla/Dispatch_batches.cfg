SPECIFICATION FairSpec
CONSTANTS
  Module <- TwoModules
  MaxSizePerBatch = 2
  MaxRecord = 4
  MaxPanic = 1
INVARIANTS TypeOK RecordsAccountedFor
PROPERTY EveryoneIsServed
CHECK_DEADLOCK FALSE
