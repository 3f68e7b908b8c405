------------------------------- MODULE Daemon --------------------------------
(***************************************************************************)
(* The life of the daemon (main/log_reader.go, bfe_log_reader.go,          *)
(* register_modulers.go, reader_module.go) from its configuration files to *)
(* os.Exit: loading, registering, Init and Start of the modules, the read  *)
(* loop that hands records to Update, signals, and Exit with Close of the  *)
(* modules.  What a module makes of its configuration and of a record is   *)
(* Config and Fields; how it delivers is ModKafka and ModLogMysql, here    *)
(* reduced to a queue that its loop empties; the loop of mod_log_mysql may  *)
(* also die or hang over it.                                               *)
(*                                                                         *)
(* signal_table.TermHandler is external: on SIGTERM it closes the log and  *)
(* ends the process at once.                                               *)
(***************************************************************************)
EXTENDS Config, Fields, FiniteSets

CONSTANTS
  ReaderFiles,   (* contents of config.conf; Rejected: unreadable          *)
  KafkaFiles,    (* contents of mod_kafka.conf                             *)
  DataFiles,     (* contents of kafka_config.data                          *)
  NoDataPath,    (* the one of DataFiles that stands for an empty DataPath *)
  MysqlFiles,    (* contents of mod_log_mysql.conf                         *)
  BfeLogs,       (* records of the log                                     *)
  MaxRecords     (* at most this many records are read         (bound)     *)

Module == modulesSupport

\* What the parsers make of the files: numbers, strings and lists, as the
\* fields of the configuration structs are declared; and the tags of a record
\* are part of its RequestLog.
ASSUME FileAssumption ==
  /\ \A f \in ReaderFiles \ {Rejected} :
       f.PbAccessLogConf \in
         [LogFile : BOOLEAN, Modules : Seq([name : STRING, switch : STRING]),
          MaxSizePerBatch : Int, FinalModules : Seq(STRING)]
  /\ KafkaFiles \subseteq
       [Brokers : BOOLEAN, Topic : BOOLEAN, Compression : STRING,
        BatchSize : Int, LingerMs : Int, MaxRetries : Int]
  /\ MysqlFiles \subseteq
       [Addr : BOOLEAN, User : BOOLEAN, DBName : BOOLEAN, Table : BOOLEAN,
        QueueSize : Int, BatchSize : Int, FlushIntervalMs : Int, MaxRetries : Int,
        MaxOpenConns : Int, MaxIdleConns : Int]

ASSUME RecordAssumption ==
  \A log \in BfeLogs :
    /\ log.tags \in Seq([level : Int, name : {"some", "zero"}, value : {"some", "zero"}])
    /\ log.tags # <<>> => log.request

VARIABLES
  file,          (* config.conf                                            *)
  pc,            (* where main stands                                      *)
  config,        (* what ReaderConfigLoad returned                         *)
  workModules,   (* GetWorkModules                                         *)
  left,          (* modules the loop of Start or Exit has not come to      *)
  mod,           (* the state of each module                               *)
  loop,          (* sendLoop, writeLoop: "none" before its start,          *)
                 (* "running", "done"; "dead" by a panic; "hung" in a      *)
                 (* transaction that never returns                         *)
  conf,          (* conf of each module, checked                           *)
  outputFields,  (* of mod_kafka                                           *)
  reader,        (* PbLogReader.Start is running                           *)
  ready,         (* SERVER_READY                                           *)
  signals,       (* the signal table is started                            *)
  term,          (* SIGTERM has come to the signal table                   *)
  records,       (* the records read                                       *)
  updates,       (* Update goroutines: <<module, index of the record>>     *)
  queue,         (* queue[m]: what m's Update has put into its channel     *)
  flushed,       (* flushed[m]: how much of it m's loop has disposed of    *)
  due,           (* due[m]: Len(queue[m]) when Close of m was called, 0    *)
                 (* when its loop had not started by then: a history       *)
  code           (* exit code, Running before, Killed when a signal ended  *)
                 (* the process                                            *)

mainVars   == <<pc, config, workModules, left, ready, signals, term, code>>
moduleVars == <<mod, loop, conf, outputFields>>
dataVars   == <<reader, records, updates, queue, flushed, due>>
vars       == <<file, mainVars, moduleVars, dataVars>>

Running == -1
Killed  == -2

Init ==
  /\ file \in ReaderFiles
  /\ pc = "load" /\ config = Rejected /\ workModules = {} /\ left = {}
  /\ mod = [m \in Module |-> "new"]
  /\ loop = [m \in Module |-> "none"]
  /\ conf = [m \in Module |-> Rejected]
  /\ outputFields = {}
  /\ reader = FALSE /\ ready = FALSE /\ signals = FALSE /\ term = FALSE
  /\ records = <<>> /\ updates = {}
  /\ queue = [m \in Module |-> <<>>]
  /\ flushed = [m \in Module |-> 0]
  /\ due = [m \in Module |-> 0]
  /\ code = Running

-----------------------------------------------------------------------------
(* main *)

\* Exit(1): from here on Exit closes the work modules.
ExitWith(c) ==
  /\ pc' = "exit"
  /\ left' = workModules
  /\ code' = c

\* ReaderConfigLoad fails, or its result is kept.
Load ==
  /\ pc = "load"
  /\ LET c == IF file = Rejected THEN Rejected ELSE ReaderConfigLoad(file)
     IN  /\ config' = c
         /\ IF c = Rejected THEN ExitWith(1)
            ELSE pc' = "register" /\ UNCHANGED <<left, code>>
  /\ UNCHANGED <<file, workModules, ready, signals, term, moduleVars, dataVars>>

\* RegisterModule and GetWorkModules: an unknown name is passed over, and one
\* that comes up twice names one module.
GetWorkModules(names) == ToSet(names) \cap Module

\* RegisterModules binds the enabled modules to the log reader, if there is one.
Registered(c) ==
  IF c.PbAccessLogConf.LogFile
  THEN GetWorkModules(c.PbAccessLogConf.FinalModules) ELSE {}

\* SetModules, NewBfeLogReader, InitSignalTable, RegisterModules.
Register ==
  /\ pc = "register"
  /\ signals' = TRUE
  /\ workModules' = Registered(config)
  /\ left' = Registered(config)
  /\ pc' = "start"
  /\ UNCHANGED <<file, config, ready, term, code, moduleVars, dataVars>>

\* LoadKafkaDataConfig: a file that is missing or cannot be read is an error.
ReadableData == DataFiles \ {Rejected}

\* ModuleKafka.Init: DataPath names a file that must be there and be readable.
KafkaInits(m) ==
  /\ \E c \in {ConfModKafkaCheck(f) : f \in KafkaFiles} \ {Rejected} :
       conf' = [conf EXCEPT ![m] = c]
  /\ \E data \in ReadableData :
       outputFields' = IF data = NoDataPath THEN DefaultOutputFields
                       ELSE ResolveFields(data)
  /\ UNCHANGED loop

\* ModuleLogMysql.Init: db.Ping may fail; the write loop is started here.
MysqlInits(m) ==
  /\ \E c \in {ConfModLogMysqlCheck(f) : f \in MysqlFiles} \ {Rejected} :
       conf' = [conf EXCEPT ![m] = c]
  /\ loop' = [loop EXCEPT ![m] = "running"]
  /\ UNCHANGED outputFields

\* One round of Start's loop over the work modules, in the order of a map:
\* Init, and a goroutine for the module's Start.
InitModule(m) ==
  /\ pc = "start" /\ m \in left
  /\ IF m = "mod_kafka" THEN KafkaInits(m) ELSE MysqlInits(m)
  /\ mod' = [mod EXCEPT ![m] = "inited"]
  /\ left' = left \ {m}
  /\ UNCHANGED <<file, pc, config, workModules, ready, signals, term, code, dataVars>>

\* Init of a module can fail: its configuration is rejected, the data file of
\* mod_kafka cannot be read, or MySQL does not answer the ping.
CanFail(m) ==
  IF m = "mod_kafka"
  THEN DataFiles # ReadableData \/ \E f \in KafkaFiles : ConfModKafkaCheck(f) = Rejected
  ELSE TRUE

\* Mutant: the module is left out and the next one is tried.
SkipModule(m) ==
  /\ pc = "start" /\ m \in left /\ CanFail(m)
  /\ left' = left \ {m}
  /\ UNCHANGED <<file, pc, config, workModules, ready, signals, term, code,
                 moduleVars, dataVars>>
InitFails(m) ==
  /\ pc = "start" /\ m \in left /\ CanFail(m)
  /\ ExitWith(1)
  /\ UNCHANGED <<file, config, workModules, ready, signals, term, moduleVars, dataVars>>

\* Mutant: the log reader is started with the first module.
AnyInited == left # workModules \/ left = {}
\* All work modules are initialised.
AllInited == left = {}

\* The end of Start: the log reader's goroutine.
StartReader ==
  /\ pc = "start" /\ AllInited
  /\ reader' = config.PbAccessLogConf.LogFile
  /\ pc' = "ready"
  /\ UNCHANGED <<file, config, workModules, left, ready, signals, term, code,
                 moduleVars, records, updates, queue, flushed, due>>

\* SetReady, signal.Notify.
SetReady ==
  /\ pc = "ready"
  /\ ready' = TRUE
  /\ pc' = "wait"
  /\ UNCHANGED <<file, config, workModules, left, signals, term, code,
                 moduleVars, dataVars>>

-----------------------------------------------------------------------------
(* The goroutines of the modules and of the reader *)

Alive == pc # "gone"

\* retryBackoffMs of record_writer.go: the pauses before the retries of a batch.
retryBackoffMs == <<200, 400, 800>>

\* The goroutine of ModuleKafka.Start: sendLoop starts, at any time after
\* Init, even while or after Close.  (ModuleLogMysql.Start does nothing.)
StartModule ==
  /\ Alive /\ mod["mod_kafka"] # "new" /\ loop["mod_kafka"] = "none"
  /\ loop' = [loop EXCEPT !["mod_kafka"] = "running"]
  /\ UNCHANGED <<file, mainVars, mod, conf, outputFields, dataVars>>

\* A record is read and handed to an Update goroutine of each bound module.
Read ==
  /\ Alive /\ reader /\ Len(records) < MaxRecords
  /\ \E log \in BfeLogs : records' = Append(records, log)
  /\ updates' = updates \cup (workModules \X {Len(records) + 1})
  /\ UNCHANGED <<file, mainVars, moduleVars, reader, queue, flushed, due>>

\* What a module sends of a record: a JSON message, or a row.
Output(m, log) ==
  IF m = "mod_kafka" THEN ConvertBfeLogToJSON(log, outputFields) ELSE ToRow(log)

\* Update: records that are no requests are passed over.
Update ==
  /\ Alive
  /\ \E u \in updates :
       LET m == u[1]
           log == records[u[2]]
       IN  /\ updates' = updates \ {u}
           /\ queue' = IF log.isRequest
                       THEN [queue EXCEPT ![m] = Append(@, <<u[2], Output(m, log)>>)]
                       ELSE queue
  /\ UNCHANGED <<file, mainVars, moduleVars, reader, records, flushed, due>>

\* Mutant: the loop does not look whether there is a message.
FlushBlindly(m) ==
  /\ Alive /\ loop[m] = "running" /\ flushed[m] < 3
  /\ flushed' = [flushed EXCEPT ![m] = @ + 1]
  /\ UNCHANGED <<file, mainVars, moduleVars, reader, records, updates, queue, due>>
\* The module's loop delivers a message, or counts it as failed.
Flush(m) ==
  /\ Alive /\ loop[m] = "running" /\ flushed[m] < Len(queue[m])
  /\ flushed' = [flushed EXCEPT ![m] = @ + 1]
  /\ UNCHANGED <<file, mainVars, moduleVars, reader, records, updates, queue, due>>

\* The last attempts of a batch fail with more retries configured than there
\* are pauses: writeLoop panics, recovers outside its loop and is gone.
LoopPanics(m) ==
  /\ Alive /\ loop[m] = "running" /\ flushed[m] < Len(queue[m])
  /\ m = "mod_log_mysql" /\ conf[m].MaxRetries > Len(retryBackoffMs)
  /\ loop' = [loop EXCEPT ![m] = "dead"]
  /\ UNCHANGED <<file, mainVars, mod, conf, outputFields, dataVars>>

\* A transaction never returns: the DSN (mod_log_mysql.go:115) sets no
\* time-outs, and Begin, Exec and Commit take no context.
LoopHangs(m) ==
  /\ Alive /\ loop[m] = "running" /\ flushed[m] < Len(queue[m])
  /\ m = "mod_log_mysql"
  /\ loop' = [loop EXCEPT ![m] = "hung"]
  /\ UNCHANGED <<file, mainVars, mod, conf, outputFields, dataVars>>

\* Mutant: the loop returns without draining its queue.
NoDrain(m) == TRUE
\* Mutant: the drain goes on while records may still come.
NothingToCome(m) == flushed[m] = Len(queue[m]) /\ ~reader
\* The drain has found the queue empty.
Drained(m) == flushed[m] = Len(queue[m])

\* After Close was called the loop drains its queue and returns.
LoopEnds(m) ==
  /\ Alive /\ loop[m] = "running" /\ mod[m] \in {"closing", "closed"}
  /\ Drained(m)
  /\ loop' = [loop EXCEPT ![m] = "done"]
  /\ UNCHANGED <<file, mainVars, mod, conf, outputFields, dataVars>>

-----------------------------------------------------------------------------
(* Exit *)

\* Exit closes the work modules one by one; Close of a module that is not
\* initialised does nothing.
Close(m) ==
  /\ pc = "exit" /\ m \in left
  /\ \A k \in Module : mod[k] # "closing"
  /\ IF mod[m] = "new"
     THEN left' = left \ {m} /\ UNCHANGED <<mod, due>>
     ELSE /\ mod' = [mod EXCEPT ![m] = "closing"]
          /\ due' = [due EXCEPT ![m] = IF loop[m] = "none" THEN 0 ELSE Len(queue[m])]
          /\ UNCHANGED left
  /\ UNCHANGED <<file, pc, config, workModules, ready, signals, term, code, loop,
                 conf, outputFields, reader, records, updates, queue, flushed>>

\* Mutant: Close does not wait for the loop.
NoWait(m) == TRUE
\* wg.Wait(): the loop has returned or died, or its Start has not come to
\* wg.Add yet.
LoopGone(m) == loop[m] \in {"none", "done", "dead"}

CloseReturns(m) ==
  /\ pc = "exit" /\ mod[m] = "closing" /\ LoopGone(m)
  /\ mod' = [mod EXCEPT ![m] = "closed"]
  /\ left' = left \ {m}
  /\ UNCHANGED <<file, pc, config, workModules, ready, signals, term, code, loop,
                 conf, outputFields, dataVars>>

\* os.Exit(code)
OsExit ==
  /\ pc = "exit" /\ left = {}
  /\ pc' = "gone"
  /\ UNCHANGED <<file, config, workModules, left, ready, signals, term, code,
                 moduleVars, dataVars>>

\* The process ends here and now.
Die ==
  /\ Alive
  /\ pc' = "gone" /\ code' = Killed
  /\ UNCHANGED <<file, config, workModules, left, ready, signals, moduleVars, dataVars>>

\* SIGINT: main waits for it.  From signal.Notify on it has no other effect, and
\* before (an Exit(1) included) its default one.
SigInt ==
  \/ pc = "wait" /\ ExitWith(0)
       /\ UNCHANGED <<file, config, workModules, ready, signals, term, moduleVars,
                      dataVars>>
  \/ pc # "wait" /\ ~(pc = "exit" /\ code = 0) /\ Die /\ UNCHANGED term

\* SIGTERM: before the signal table is started it has its default effect.
SigTerm ==
  \/ ~signals /\ Die /\ UNCHANGED term
  \/ /\ Alive /\ signals /\ term' = TRUE
     /\ UNCHANGED <<file, pc, config, workModules, left, ready, signals, code,
                    moduleVars, dataVars>>

\* Both receivers of SIGTERM: main, which closes the modules, and TermHandler.
Woken ==
  /\ pc = "wait" /\ term
  /\ ExitWith(0)
  /\ UNCHANGED <<file, config, workModules, ready, signals, term, moduleVars, dataVars>>
TermHandler == term /\ Die /\ UNCHANGED term

MainStep == Load \/ Register \/ (\E m \in Module : InitModule(m) \/ InitFails(m))
              \/ StartReader \/ SetReady
ExitStep == OsExit \/ (\E m \in Module : Close(m) \/ CloseReturns(m))
Loop(m)  == Flush(m) \/ LoopPanics(m) \/ LoopHangs(m) \/ LoopEnds(m)
Signal   == SigInt \/ SigTerm \/ Woken \/ TermHandler

Next == MainStep \/ ExitStep \/ StartModule \/ Read \/ Update
          \/ (\E m \in Module : Loop(m)) \/ Signal

Spec == Init /\ [][Next]_vars

\* Exit and the loops of the modules run as long as they can.  A loop is not
\* obliged to deliver: that a transaction never returns is one of its outcomes
\* (LoopHangs).  Nothing is asked of the start of the program, where db.Ping may
\* wait for ever, of the read loop, or of who sends signals.
FairSpec ==
  /\ Spec
  /\ WF_vars(ExitStep)
  /\ \A m \in Module : WF_vars(Loop(m))

-----------------------------------------------------------------------------
(* Properties *)

TypeOK ==
  /\ pc \in {"load", "register", "start", "ready", "wait", "exit", "gone"}
  /\ {workModules, left} \subseteq SUBSET Module
  /\ mod \in [Module -> {"new", "inited", "closing", "closed"}]
  /\ loop \in [Module -> {"none", "running", "done", "dead", "hung"}]
  /\ outputFields \subseteq AllFields
  /\ {reader, ready, signals, term} \subseteq BOOLEAN
  /\ records \in Seq(BfeLogs)
  /\ updates \subseteq Module \X DOMAIN records
  /\ \A m \in Module : flushed[m] \in 0 .. Len(queue[m]) /\ due[m] \in 0 .. Len(queue[m])
  /\ code \in {Running, Killed, 0, 1}

\* Update of a module never runs before its Init is through: neither its
\* producer, writer and mapper nor its field set are missing when the read
\* loop hands it records (BfeLogReader.Start, with no lock between the two).
UpdateAfterInit ==
  \A u \in updates : mod[u[1]] # "new" /\ conf[u[1]] # Rejected

\* A module that runs was asked for (config.conf has an entry for it that does
\* not switch it off, or names it under FinalModules), and its numbers are in the ranges on which its delivery
\* relies: the ASSUMEs of ModKafka and ModLogMysql, and tickers that panic when
\* they are given zero.
ConfSound ==
  \A m \in Module : mod[m] # "new" =>
    /\ \/ \E i \in DOMAIN file.PbAccessLogConf.Modules :
            LET e == file.PbAccessLogConf.Modules[i]
            IN  e.name = m /\ e.switch \notin {"false", "off"}
       \/ m \in ToSet(file.PbAccessLogConf.FinalModules)
    /\ conf[m].BatchSize > 0 /\ conf[m].MaxRetries > 0
    /\ m = "mod_log_mysql" => conf[m].QueueSize > 0 /\ conf[m].FlushIntervalMs > 0
    /\ m = "mod_kafka" => conf[m].LingerMs > 0

\* The write loop has died, which takes more retries than there are pauses.
Died(m) ==
  /\ m = "mod_log_mysql" /\ loop[m] = "dead"
  /\ conf[m].MaxRetries > Len(retryBackoffMs)

\* An exit through Exit(0) or Exit(1) has closed every module that was
\* initialised, and what a module with a running loop had accepted when its
\* Close was called has left its queue, unless the write loop of mod_log_mysql
\* has died: with MaxRetries up to 3 it cannot.  (The read loop is not stopped:
\* what is accepted later stays behind, and so does everything when TermHandler
\* wins.)
OrderlyExit ==
  pc = "gone" /\ code # Killed =>
    \A m \in workModules :
      /\ mod[m] \in {"new", "closed"}
      /\ flushed[m] >= due[m] \/ Died(m)

\* What a message, and what a row carries, by field and column name.
Sent(message) == {f \in DOMAIN message : message[f] = "some"}
Filled(row)   == {columnDefs[c].name : c \in {d \in DOMAIN row : row[d] = "some"}}

\* The two modules agree on a record: every message has the required fields,
\* whatever kafka_config.data says, a field that is set in the message is not
\* empty in the row, and the other way round, as far as the table has a column
\* of that name (json_converter.go and field_mapper.go walk different lists,
\* and only one of them looks at isZero).
SinksAgree ==
  \A i \in DOMAIN queue["mod_kafka"], j \in DOMAIN queue["mod_log_mysql"] :
    LET message == queue["mod_kafka"][i]
        row     == queue["mod_log_mysql"][j]
    IN  /\ RequiredFields \subseteq DOMAIN message[2]
        /\ message[1] = row[1] =>
             Sent(message[2]) \cap Columns = Filled(row[2]) \cap DOMAIN message[2]

\* The row of a record carries all it has but the two fields without a column:
\* the tags of each level too, and of several of a level the last one.
RowsComplete ==
  \A j \in DOMAIN queue["mod_log_mysql"] :
    LET log    == records[queue["mod_log_mysql"][j][1]]
        row    == queue["mod_log_mysql"][j][2]
        filled == Filled(row)
        ColumnOf(level, kind) ==
          CHOOSE c \in DOMAIN row : columnDefs[c].kind = kind /\ columnDefs[c].field = level
        LastOfLevel(k) ==
          /\ log.tags[k].level \in Levels
          /\ \A l \in k + 1 .. Len(log.tags) : log.tags[l].level # log.tags[k].level
    IN  /\ {f \in AllFields : Extract(f, log) = "some"}
             \subseteq filled \cup {"ai_image_input_tokens", "ai_video_count",
                                    "ai_apikeytags", "timestamp"}
        /\ \A k \in DOMAIN log.tags : LastOfLevel(k) =>
             /\ row[ColumnOf(log.tags[k].level, "tagName")]  = OrNull(log.tags[k].name)
             /\ row[ColumnOf(log.tags[k].level, "tagValue")] = OrNull(log.tags[k].value)

\* Exit, once begun, ends the process, provided that from some time on the read
\* loop, which nothing stops, hands on no more records, and unless a MySQL
\* transaction never returns: also when the loop of mod_kafka starts in the
\* middle of Exit, and when writeLoop has died.
ExitEnds ==
  <>[][UNCHANGED records]_records =>
    (pc = "exit" ~> pc = "gone" \/ loop["mod_log_mysql"] = "hung")
=============================================================================
