SPECIFICATION Spec
CONSTANTS
  Module <- OneModule
  MaxSizePerBatch = 2
  MaxRecord = 4
  MaxPanic = 0
INVARIANT SerialWithinModule
CHECK_DEADLOCK FALSE
