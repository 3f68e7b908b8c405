------------------------------ MODULE MCDaemon -------------------------------
(* Instances of Daemon for TLC: for each configuration file, contents that   *)
(* pass its check by different ways and contents that fail it.               *)
EXTENDS Daemon

Entry(name, switch) == [name |-> name, switch |-> switch]
ReaderPlus(maxCpus, interval, logFile, modules, final) ==
  [Main |-> [MaxCpus |-> maxCpus, HttpPort |-> 8910, MonitorInterval |-> interval],
   PbAccessLogConf |-> [LogFile |-> logFile, Modules |-> modules,
                        MaxSizePerBatch |-> 0, FinalModules |-> final]]
Reader(maxCpus, interval, logFile, modules) ==
  ReaderPlus(maxCpus, interval, logFile, modules, <<>>)

Both == <<Entry("mod_kafka", "none"), Entry("mod_log_mysql", "true")>>
MCReaderFiles ==
  { Reader(4, 0, TRUE, Both),
    ReaderPlus(4, 20, TRUE, <<Entry("mod_kafka", ""), Entry("mod_log_mysql", "off")>>,
               <<"mod_es", "mod_kafka">>),
    Reader(4, 20, FALSE, <<>>),
    Reader(0, 20, TRUE, Both),
    Reader(4, 50, TRUE, Both),
    Reader(4, 20, TRUE, <<>>),
    Reader(4, 20, TRUE, <<Entry("mod_es", "false")>>),
    Rejected }

MCKafkaFiles ==
  { [Brokers |-> TRUE, Topic |-> TRUE, Compression |-> "lz4",
     BatchSize |-> -1, LingerMs |-> 0, MaxRetries |-> 5],
    [Brokers |-> TRUE, Topic |-> TRUE, Compression |-> "lzma",
     BatchSize |-> 1, LingerMs |-> 1, MaxRetries |-> 1] }

MCDataFiles ==
  { NoDataPath, Rejected,
    [mode |-> "customized", names |-> {"cookie", "no_such_field"}],
    [mode |-> "All", names |-> {}] }

Mysql(table, retries) ==
  [Addr |-> TRUE, User |-> TRUE, DBName |-> TRUE, Table |-> table,
   QueueSize |-> 0, BatchSize |-> -200, FlushIntervalMs |-> -1,
   MaxRetries |-> retries, MaxOpenConns |-> 0, MaxIdleConns |-> 0]

\* With more than three retries writeLoop may panic.
MCMysqlFiles == { Mysql(TRUE, 3), Mysql(TRUE, 4), Mysql(FALSE, 3) }

T(level, name, value) == [level |-> level, name |-> name, value |-> value]

\* A request from IPv6, without addresses, with every other field but some; and a
\* session log.
MCBfeLogs ==
  { [isRequest |-> TRUE, request |-> TRUE, addr |-> FALSE, ipv6 |-> TRUE,
     has |-> AllFields \ {"err_msg", "req_headers", "all_time"},
     tags |-> <<T(1, "some", "some"), T(5, "some", "zero"), T(1, "zero", "some"),
                T(6, "some", "some")>>],
    [isRequest |-> FALSE, request |-> FALSE, addr |-> FALSE, ipv6 |-> FALSE,
     has |-> {"logid", "timestamp"}, tags |-> <<>>] }
=============================================================================
