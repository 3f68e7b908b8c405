SPECIFICATION FairSpec
CONSTANTS
  Rejected = Rejected
  NoDataPath = NoDataPath
  ReaderFiles <- MCReaderFiles
  KafkaFiles <- MCKafkaFiles
  DataFiles <- MCDataFiles
  MysqlFiles <- MCMysqlFiles
  BfeLogs <- MCBfeLogs
  MaxRecords = 2
INVARIANTS TypeOK UpdateAfterInit ConfSound OrderlyExit SinksAgree RowsComplete
PROPERTY ExitEnds
CHECK_DEADLOCK FALSE
