------------------------------- MODULE Config --------------------------------
(***************************************************************************)
(* The checks of the configuration files: reader_conf (config.conf), and   *)
(* the conf_mod_*.go of mod_kafka and mod_log_mysql.  A check either       *)
(* rejects a configuration or returns it with its defaults filled in.      *)
(*                                                                         *)
(* A string that is only tested for being empty is TRUE when it is set.    *)
(***************************************************************************)
EXTENDS Integers, Sequences, Selection

CONSTANT Rejected   (* the error a check returns, no configuration *)

\* Mutant: only zero counts as unset.
DefaultIfZero(v, default) == IF v = 0 THEN default ELSE v
\* A number that is not set, or not positive, gets its default.
OrDefault(v, default) == IF v <= 0 THEN default ELSE v

-----------------------------------------------------------------------------
(* config.conf *)

MonitorInterval(v) ==
  CASE v <= 0                              -> 20
    [] v > 60                              -> 60
    [] v \in 20 .. 60 /\ 60 % v = 0        -> v
    [] OTHER                               -> Rejected

\* basicConfCheck
BasicConfCheck(c) ==
  IF c.MaxCpus <= 0 \/ c.HttpPort \notin 0 .. 65535
       \/ MonitorInterval(c.MonitorInterval) = Rejected
  THEN Rejected
  ELSE [c EXCEPT !.MonitorInterval = MonitorInterval(@)]

modulesSupport == {"mod_kafka", "mod_log_mysql"}

\* Mutant: a switch that is neither true nor false counts as true.
EnabledUnlessFalse(switch) == switch # "false"
\* ParseModule: "name" and "name:" enable, "name:x" only when x is true (in
\* any case).
ParseEnable(switch) == switch \in {"none", "", "true"}

\* The enabled modules, in the order of the list.  A name may come up twice.
EnabledModules(modules) ==
  LET on == SelectAt(modules, {i \in DOMAIN modules : ParseEnable(modules[i].switch)})
  IN  [i \in DOMAIN on |-> on[i].name]

\* PbAccessLogConf.Check: LogFile and Modules come together, every name is
\* known (a disabled one too), and MaxSizePerBatch <= 0 means no limit.  What
\* is enabled joins what the file itself gives for FinalModules, an exported
\* field without a document.
PbAccessLogConfCheck(c) ==
  IF \/ c.LogFile # (c.Modules # <<>>)
     \/ \E i \in DOMAIN c.Modules : c.Modules[i].name \notin modulesSupport
  THEN Rejected
  ELSE [c EXCEPT !.MaxSizePerBatch = OrDefault(@, -1),
                 !.FinalModules = @ \o EnabledModules(c.Modules)]

\* ReaderConfigLoad, once the file is read: both sections, in this order.
ReaderConfigLoad(c) ==
  IF BasicConfCheck(c.Main) = Rejected \/ PbAccessLogConfCheck(c.PbAccessLogConf) = Rejected
  THEN Rejected
  ELSE [Main |-> BasicConfCheck(c.Main),
        PbAccessLogConf |-> PbAccessLogConfCheck(c.PbAccessLogConf)]

-----------------------------------------------------------------------------
(* mod_kafka.conf, mod_log_mysql.conf *)

Compressions == {"", "none", "snappy", "gzip", "lz4", "zstd"}

\* ConfModKafkaCheck
ConfModKafkaCheck(c) ==
  IF ~c.Brokers \/ ~c.Topic \/ c.Compression \notin Compressions
  THEN Rejected
  ELSE [c EXCEPT !.BatchSize  = OrDefault(@, 1000),
                 !.LingerMs   = OrDefault(@, 100),
                 !.MaxRetries = OrDefault(@, 3)]

\* ConfModLogMysqlCheck.  Nothing bounds the numbers from above.
ConfModLogMysqlCheck(c) ==
  IF ~c.Addr \/ ~c.User \/ ~c.DBName \/ ~c.Table
  THEN Rejected
  ELSE [c EXCEPT !.QueueSize       = OrDefault(@, 2000),
                 !.BatchSize       = OrDefault(@, 200),
                 !.FlushIntervalMs = OrDefault(@, 2000),
                 !.MaxRetries      = OrDefault(@, 3),
                 !.MaxOpenConns    = OrDefault(@, 10),
                 !.MaxIdleConns    = OrDefault(@, 5)]
=============================================================================
