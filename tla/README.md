# log-reader in TLA+

log-reader is the daemon that follows the access log of a BFE process (a
protobuf log in b2log frames), survives its rotations, and hands the records to
output modules that store them in Kafka (`mod_kafka`) and MySQL
(`mod_log_mysql`). This directory holds TLA+ models of it, TLC configurations
that check them on small instances, and TLAPS proofs. All paths below are
relative to `src/`.

## 1. The system

| component | source | state | operations |
|---|---|---|---|
| log follower | `bfe_log_reader/log_reader.go`, `pb_log_reader.go` (`logRead`), `pb_buff_parse.go` | open file and its position, `fileInfo`, `initDone`, `DataBuffer` | `logRead`, `logRelocate`, `LogFileOpen`, `FileRead`, `isLogCut`, `eofHandler`, `CloseFileAndInit`, `PbBuffParse` |
| dispatch | `pb_log_reader.go` (`Start`) | the batch being cut; goroutines in flight | one goroutine per batch and work module, with `recover` |
| mod_kafka | `reader_modules/mod_kafka/mod_kafka.go`, `kafka_producer.go` | `msgCh`, batch of `sendLoop`, context, counters | `Update`, `Send`, `Start`, `sendLoop`, `flush`, `writeToDLQ`, `Close` |
| mod_log_mysql | `reader_modules/mod_log_mysql/mod_log_mysql.go`, `record_writer.go` | `ch`, batch of `writeLoop`, `stopCh`, retry attempt, counters | `Update`, `Enqueue`, `Start`, `writeLoop`, `flush`, `writeBatchWithRetry`, `Close` |
| registry and daemon | `main/log_reader.go`, `bfe_log_reader/bfe_log_reader.go`, `register_modulers.go`, `reader_module/reader_module.go`, `reader_util/register_signal_linux.go` | registered and work modules, signal table | `RegisterModules`, `Init`, `Start`, `Exit` |
| configuration | `reader_conf/*.go`, `conf_mod_*.go` | the loaded values | defaults and checks |
| field selection | `kafka_data_config.go`, `mod_fields/field_registry.go` | the field table | `ResolveFields` |
| record conversion | `json_converter.go`, `field_mapper.go` | none | one record to JSON, one record to a row |
| bfe-pblog-tool | `cmd/bfe-pblog-tool/tail`, `cmd/bfe-pblog-tool/cat` | position, rest of the last parse | `tailLastN`, `followFrom`, cat |
| web monitor, host id | `web_server.go`, `server_status.go`, `host_id.go` | none of their own | pure I/O |

How they interact. `PbLogReader.Start` calls `logRead` for ever. What it returns
is cut into batches; each batch is given to every work module by a goroutine
that calls `Update`. `Update` never blocks: it converts the records and puts
them into the module's bounded channel, or drops them when that is full. One
goroutine per module (`sendLoop`, `writeLoop`) takes them out, gathers batches
and stores them, when a batch is full, when a ticker fires, or when the module
is closed. SIGTERM and SIGINT call `Exit`, which closes the work modules one by
one. The only contact with BFE is the file system: BFE renames the log and
creates a new one under the old name, and the reader finds out with `os.Stat`.

What is hard. BFE writes, renames and creates between any two system calls of
the reader; any of these calls may fail, at the worst in the middle of a
relocation, and the code then goes on with flags and buffers half reset.
Several `Update` goroutines and the loop of the module race for the channel,
the counters and the end of the module. Downstream writes may fail although
they have (partly) happened, and are retried; a MySQL transaction may never
return, for nothing bounds it. `Close` runs against all of that.
`PROJECT.json`, `hazards`, lists the places with the properties aimed at them.

What makes each component correct:

- follower: every record once, in the order of the log, none left out of a file
  it reads; bytes of two files never meet; it catches up when it is left alone.
- dispatch: every record of a batch reaches every module; a panicking module
  does not hurt the others.
- output modules: what the channel accepted is handled once, in that order;
  nothing is lost without a counter; the counters agree with what happened;
  incomplete batches leave with the ticker; `Close` returns and flushes first
  (of mod_log_mysql: unless a transaction never returns).
- daemon: a bad configuration ends it before it reads; `Update` of a module never
  runs before its `Init`; `Exit` closes what was initialised, drains what was
  accepted, and comes to an end (with the same exception).
- field selection and conversion: the required fields are always sent; JSON and
  row agree on what a record has; nothing with a column is left out of the row.
- bfe-pblog-tool: `tailLastN` prints the last n records, `followFrom` the ones
  after them, once and in order; cat prints the file and returns.

## 2. The modules

Every module may hold operators under a comment "Mutant". These are not part of
the model: each is the definition after it with a plausible bug. `PROJECT.json`,
`mutants`, says which property must fail when it takes that definition's place,
and so shows that the property is about the code.

### PbLog, Selection

The log: frames of two pieces, a head and a tail, in files that BFE writes
(`Write`), renames (`Rename`) and creates (`Create`), and what `PbBuffParse` makes of a
buffer (`Frames`, `FrameSeq`, `Remainder`). Both readers of the log, the daemon and
the tool, extend it. `Selection` has `SelectAt`, the elements of a sequence at chosen
positions: the records of a buffer, and the enabled modules of config.conf. It
stands for `SelectSeq`, which no backend of the prover knows.

### LogFollower, LogReader, MCLogReader

`LogReader` models `logRead` and everything it calls. One action is one system
call of the reader; `pc` says which comes next:

| `pc` | code | actions |
|---|---|---|
| `logRead` | entry of `logRead` (`pb_log_reader.go:55`) | `StatPath` (no file open), `StartRead` |
| `open`, `seek` | `logRelocate`, `LogFileOpen` | `Open`, `OpenFails`, `Seek`, `SeekFails` |
| `read` | `FileRead(MAX_BUFF_SIZE)` and `DataBufferParse` | `Read`, `ReadEOF`, `ReadFails` |
| `cut` | `isLogCut` | `IsLogCut` |
| `rest` | `eofHandler`, reading what is left of the old file | `ReadRest`, `ReadRestFails` |
| `finish` | `logRead` after `eofHandler` | `Finish` |

`CloseFileAndInit` is the operator of the same name; `LogFd`, `initDone` and
`DataBuffer` are the fields. `BfeWrite`, `BfeRename` and `BfeCreate` are the
environment. Files are numbered in the order of their creation, and the number
is the inode; `fileInfo` always describes `LogFd`, so it is no variable.

A frame is two pieces, a head and a tail, and reads cut the stream at any
piece. That is enough to tell apart what the parser tells apart: a complete
frame, an incomplete one at the end of the buffer, and bytes that do not begin a
frame (a tail without its head), which it skips. `delivered`, `pass`, `attach` and
`resets` are history variables: how often a record was handed on, which were handed
on in this pass, where reading of a file began, how often `CloseFileAndInit` ran.

`LogFollower` is the abstract specification: a log that grows at its end, and a
follower that works in passes. Within a pass (`pass`) it hands on entries later than
all of this pass, so in order and none twice; entries that no pass has handed on yet
are moreover later than all that ever were (`handed` counts, over all passes). Only
a follower with `MayStartOver` may begin a new pass. `LogReader` implements it
(`FollowsInOrder`) with `written` the complete records of all files, `handed` the
counts in `delivered`, and `MayStartOver` the flag `-b`. Without `-b` there is a
single pass: the modules receive the log in its order, each record once. With `-b` a
failed read makes the reader join the file at its start again, and older records are
delivered once more (`CloseFileAndInit`, `log_reader.go:211`): that is a new pass and
nothing else is.

### Dispatch, MCDispatch

`Dispatch` models the rest of `PbLogReader.Start`. `LogRead` is a call of `logRead` that
returns records (`LogReader` says which), `Cut` the loop that makes batches of them,
`Go` the start of the goroutines for one batch, one per module. A goroutine
(`running`: module, batch, records done) takes the records one by one (`Update`), and may
panic at any of them (`Panic`, `Recover`). `updated` and `dropped` are history: how often a
module was given a record, and what it lost in a panic. `ModKafka` and `ModLogMysql` start
where this module ends: their `Updater`s are such goroutines, in any order.

### AsyncSink, ModKafka, MCModKafka, ModLogMysql, MCModLogMysql

`ModKafka` models the module from `Update` to `Close`: the `Update` goroutines
(`todo`, `counting`), the channel, `sendLoop` (`loop`, `batch`, `resume`), the
writers and `Close` (`closer`). `kafka.Writer` is external: a `WriteMessages` that
fails may have stored any part of the batch, and what it still holds
(`inflight`) may land later. With the context cancelled a write may fail at any
time. `Start` is an action, because the framework runs it in a goroutine of its
own: `Close` may come first.

`ModLogMysql` has the same parts, with the retries of `writeBatchWithRetry`
(`attempt`, `Backoff`), the `recover` of `writeLoop` (`loop = "dead"`), and the
table with its unique key. A transaction that fails may have been committed. And it
may never return (`WriteHangs`, `loop = "hung"`): the DSN (`mod_log_mysql.go:115`) has
no time-outs, and `Begin`, `Exec` and `Commit` take no context.

`resume` is where the loop continues when `flush` returns; it stands for the call
stack, `flush` being called from the select loop and from the drain. Channel
operations, counter increments and downstream calls are one action each. A
counter update between two other steps of the same goroutine that nobody reads
in between is merged with one of them; the one that matters, between the
channel and `Inc(SENT_TO_...)`, is a step of its own (`CountSent`).

`AsyncSink` is the abstract specification of both modules: accept at any time
while never blocking, handle in the order of acceptance and once, and after the
request to close end only when everything accepted before has been handled.
Both modules implement it (`IsSink`). The history variables `accepted`, `flushed`
and `due` carry the mapping.

The MC modules give the constants their values: records are numbers, some of
them no requests, some not convertible, some with the same key.

### Config, Fields, Daemon, MCDaemon

`Config` has the checks of the configuration files: each takes what was parsed and
returns it with its defaults, or `Rejected`. `Fields` has the field registry (name,
type and class of every field, by the sections of `registerAllFields`), the fields
that are set in a record (`Extract`), the field modes of mod_kafka (`ResolveFields`),
the columns of mod_log_mysql in their order (`columnDefs`, joined from the nine
sections of the source, `BasicColumns` to `AiListColumns`), and the conversion of
one record to a message and to a row. A value is "some", the "zero" of its type, or
`NULL`; that is what the conversions tell apart.

`Daemon` is main from the configuration files to `os.Exit`, with the goroutines it
starts:

| `pc` | code (`main/log_reader.go`) | actions |
|---|---|---|
| `load`, `register` | `:96`, `:107` | `Load`, `Register` |
| `start` | `bfeLogReader.Start` (`:130`) | `InitModule`, `InitFails`, in map order; `StartReader` |
| `ready`, `wait` | `:135`, `:144` | `SetReady`; `SigInt`, `Woken` |
| `exit`, `gone` | `Exit` (`:45`) | `Close`, `CloseReturns`, `OsExit` |

The contents of config.conf are chosen in `Init`; those of a module's files, and
whether MySQL answers the ping, when its `Init` reads them. `StartModule` is the
goroutine in which mod_kafka starts `sendLoop`: it may come before, during or after
`Close`. `Read` and `Update` are the read loop and its goroutines, which nobody stops;
every record is its own batch. A module's delivery is reduced to a queue and a loop
that empties it (`Flush`, `LoopEnds`); `ModKafka` and `ModLogMysql` say how. As there,
the loop of mod_log_mysql may die over its queue when `MaxRetries` is above 3
(`LoopPanics`), or hang in a transaction (`LoopHangs`). SIGTERM has two
receivers: main (`Woken`) and the signal table, whose `TermHandler` (external) ends
the process where it stands. `MCDaemon` gives each file contents that pass its
check in different ways and contents that fail it, and two records: a request from
IPv6 without addresses, with tags on several levels, twice on one of them and out of
range; and one that is no request.

### PblogTail, PblogCat, PblogTool, MCPblogTool

`PblogTail` is `tail`: `validateTailOptions`; `tailLastN`, which reads the file backwards
chunk by chunk (`ReadChunk`) and parses each time all it has; `followFrom`, in which
`os.Stat` (`PollRotated`, `PollGrown`) and `os.Open` (`Reopen`) are different actions, so
that BFE may rotate between them; and Ctrl-C (`Interrupt`), which only `Emit` looks
at. `PblogCat` is `cat`: the goroutine that reads, the channel, and the one that parses,
whose use of `DataBuffer` is split into reading and writing it, because a failed
read resets it from the other goroutine. `PblogTool` composes the two with BFE: a process
runs one of the commands.

## 3. The runs

| run | instance | shows |
|---|---|---|
| `LogReader_tail` | 3 files, 4 pieces each, 2 failing calls, reads of 2 pieces, start at the end | types, `BufferIsRun`, `NoLossBehindReader`, `RotatedFileFromStart`, `NoDuplicates`, and the refinement `FollowsInOrder` |
| `LogReader_begin` | 2 files, otherwise the same, `-b`, fairness | `NoLossBehindReader` and `FollowsInOrder` with `-b`; `CaughtUp` |
| `Dispatch_batches` | 2 modules, 4 records, batches of 2, 1 panic, fairness | types, `RecordsAccountedFor` (`EachRecordOnce` and `PanicIsContained`), `EveryoneIsServed` |
| `Dispatch_serial` | 1 module, 4 records, no panic | a violation: `Update` of one module runs twice at the same time |
| `ModKafka_count` | 3 goroutines, 5 records, batch 1 (channel 2), no dead letter topic, 1 failing write | types, the counters add up on an overflowing channel |
| `ModKafka_live` | 2 goroutines, 3 records, batch 2 (channel 4), dead letter topic, 1 failing write, fairness | `NoSilentLoss`, the refinement `IsSink`, `AcceptedIsFlushed`, `CloseReturns` |
| `ModKafka_close` | batch 2, no failing write | a violation: what was accepted before `Close` may be lost although the broker is well |
| `ModLogMysql_rows` | 2 goroutines, 6 records, two with equal keys, one without a key, queue 2, batch 2, 1 retry, 3 transactions that fail or hang, fairness | types, counters, `NoSilentLoss`, `NewestRowWins`, `CopiesPerCommit`, the refinement `IsSink`, `AcceptedIsFlushed`, `CloseReturns` |
| `ModLogMysql_retries` | 5 retries | a violation: the fourth retry kills the write loop |
| `Daemon_life` | 8 configurations, 2 contents of mod_kafka.conf, 3 of mod_log_mysql.conf (`MaxRetries` 3, 4, and a rejected one), 4 of kafka_config.data, 2 records read of 2 kinds, signals at any time, fairness | types, `UpdateAfterInit`, `ConfSound`, `OrderlyExit`, `SinksAgree`, `RowsComplete`, `ExitEnds` |
| `PblogTool_follow` | 3 files, 4 pieces each, `-n` invalid, left out, in range and above the cap, one chunk, 1 failing read of cat, fairness | types, `LastRecords`, `InOrderOnce`, `NothingPassed`, `CatPrefix`, `TailCatchesUp`, `CatReturns` |
| `PblogTool_chunks` | 1 file of 7 pieces, first chunk of 4, `-n 5` | a violation: `tailLastN` repeats and reorders records |

Why the bounds are enough. Three files allow a rotation during the handling of
a rotation, and a file between two others. Two records per file allow one that
is complete and one that is cut, one before and one after the place where the
daemon joins. Two failures allow one in the handling of another (a failed read of
the rest, then a failed reopening). Reads of two pieces end at a frame boundary or
inside a frame, depending on where they began, and a rest of three pieces is
longer than one read. Four records make reads of one to four records, full and short
batches, and two goroutines of one module at a time. In the modules, three goroutines with a channel for two
overflow it and race for the last place; a batch of two is filled, left
incomplete, and followed by another; the failures suffice to exhaust the
retries once, and to hang after that. In the daemon, two records allow one on each side of every step of
`Exit`, and every pair of configuration files is tried; a third record adds nothing
that two do not already put in a queue. In the tool, three files allow a rotation
between `os.Stat` and `os.Open` of a reopening, and a chunk that holds a whole file
is the case of every log below 8 MB; larger ones are the violation. The properties are about single records, single files and pairs of
them. For the safety properties the proofs of section 4 leave no bound at all.

Where deadlock is not checked (`CHECK_DEADLOCK FALSE`), the system may stop: the
modules after `Close`, the dispatch when all records are handed out, the daemon and the
tool when the process has ended. The follower never stops, and its runs check deadlock.

Fairness. `Dispatch`: the read loop goes on, and each goroutine runs until its `Update`
returns, which it does, since `Update` never blocks. `LogReader`: weak fairness of the reader's own next step, because
`PbLogReader.Start` is an endless loop that sleeps for a fixed time after an error;
`OpenFails` without a fault belongs to it, as it is the outcome of `os.Open` when the
name is gone. BFE is not obliged to anything, and failures need not happen. The
modules: weak fairness of every goroutine (the Go scheduler), of `sendLoop` and
`writeLoop`, whose tickers keep firing, and of `Close` once it has begun. Nobody is
obliged to call `Close`. A write to Kafka returns: kafka-go's writer has time-outs, and
after `Close` the context is cancelled. A MySQL transaction need not: none of its calls
has a time-out, so what the fairness of `writeLoop` forces is one of the outcomes
`WriteOk`, `WriteFails` and `WriteHangs`, and after the last nothing more is owed.
`AcceptedIsFlushed` and `CloseReturns` of `ModLogMysql` name that case: a row leaves
unless the loop is stuck, and `Close` returns unless a transaction never does. They
thus take for granted that each transaction returns, in whatever way, and no more. The
failing writes are bounded by `MaxFault`, so for the liveness properties failures end.
`Daemon`: `Exit` and the loops of the modules, the one of mod_log_mysql with the outcomes
`LoopPanics` and `LoopHangs`; nothing is asked of main before that, of the goroutine of
`Start`, of the read loop, or of who sends signals. `ExitEnds` says that `Exit` ends, unless
a transaction hangs or the read loop, which nothing stops, hands on records without end;
the latter is a hypothesis of the property, so that it does not lean on the bound
`MaxRecords`. Under unending traffic the drain of a module might always find one more:
the code does not promise an end then, and neither does the property.
`PblogTool`: the goroutines of the tool; not BFE, the user, or failing reads.

### Where the code disagrees with its documents

The violations:

- `writeBatchWithRetry` tests the length of the back-off array after using the index
  (`record_writer.go:161`).
- `Close` of mod_kafka cancels the context of the flush it waits for
  (`kafka_producer.go:123`, `:184`).
- The batches of one module are not handled one after the other
  (`pb_log_reader.go:162` against `doc/sys_design/overview.md:114`), so the order the
  reader keeps ends there.
- `tailLastN` on a file of several chunks (`pb_tail.go:128` against `:126`, `:155`).

Others, met while modelling, that have no run:

- A MySQL transaction that the server never answers keeps `Close` (`record_writer.go:206`)
  and with it `Exit` for ever: the DSN (`mod_log_mysql.go:115`) sets no time-outs, and
  `Begin`, `Exec` and `Commit` take no context. `doc/sys_design/overview.md:138` promises that
  every module is closed and the process ends; after SIGINT and after `Exit(1)` nothing else
  ends it. `WriteHangs` and `LoopHangs` are this case, and `CloseReturns` and `ExitEnds` name it.
- A file that is created and rotated away between two looks at the path is never
  opened (`log_reader.go:190`, `:224` against `doc/sys_design/overview.md:18`).
- `SENT_TO_KAFKA` counts dropped messages (`mod_kafka.go:168` against
  `doc/sys_design/mod_kafka.md:111`).
- A panic in `Update` is logged but not counted (`pb_log_reader.go:164`, where
  `overview.md:114` says counted).
- `DLQ_SENT` is counted before the write (`kafka_producer.go:171`), also for messages
  that are not written.
- `SEND_KAFKA_FAILED` counts messages (`kafka_producer.go:132`), where
  `doc/sys_design/mod_kafka.md:113` says batches.
- An empty `ai_apikey_id` or `ai_requested_model` becomes NULL (`field_mapper.go:271`), and
  both are in the unique key; a NULL never collides, so a repeated write leaves
  several rows (`doc/sys_design/mod_log_mysql.md:59` and
  `doc/modules/mod_log_mysql/output-columns.md:167` say none). `CopiesPerCommit` says how
  many there can be: one per commit of the batch.
- A missing or broken kafka_config.data makes `Init` fail and the daemon exit, while
  the log says "using default fields" (`mod_kafka.go:115`).
- A module whose `Init` fails ends the daemon (`main/log_reader.go:130`);
  `doc/sys_design/mod_log_mysql.md:126` says other modules and reading go on.
- SIGTERM reaches main and `TermHandler`; when the latter is first, no module is
  flushed (`overview.md:138`).
- `FinalModules` is an exported field, so config.conf can name modules there that
  `Check` does not look at (`conf_access_pb.go:27`, `:46`); no document has the key.
- 64 fields are in the default set, not 62 (`doc/sys_design/mod_kafka.md:29`, `:52`);
  22 are required, not the 4 of `doc/configuration/mod_kafka/kafka_config.data.md:20`.
- Fields that are zero are sent (`json_converter.go:62`); the guide
  `doc/howto/01AI Gateway 可观测性链路打通指南.md:299` says they are left out.
- `tail -f` notices Ctrl-C only when it prints the next record (`tail.go:76`), and a
  frame that was half written when `tailLastN` looked is printed by neither half
  of the tool (`pb_tail.go:184`); `NothingPassed` leaves that frame out.

## 4. The proofs

Every invariant and both kinds of refinement that a passing run checks are
theorems, for every value of the constants; `PROJECT.json`, `theorems`, lists them.

| module | theorems | assumptions beyond those of the constants |
|---|---|---|
| `LogReader_proofs` | `TypeCorrect`, `BufferGapless`, `HandedOnOnce` | |
| `LogReader_order_proofs` | `NothingLost` (`NoLossBehindReader`), `RotatedRead` (`RotatedFileFromStart`), `InLogOrder` (`FollowsInOrder`) | |
| `Dispatch_proofs` | `DispatchTypes`, `RecordOnce` (`EachRecordOnce`), `PanicContained` (`PanicIsContained`), `RecordsSafe` (both: `RecordsAccountedFor`) | |
| `ModKafka_proofs` | `KafkaTypes`, `KafkaCounters`, `KafkaNoSilentLoss`, `KafkaIsSink` | |
| `ModLogMysql_proofs` | `MysqlTypes`, `MysqlCounters`, `MysqlNoSilentLoss`, `MysqlNewestRowWins`, `MysqlCopiesPerCommit`, `MysqlIsSink` | |
| | `WriterOutlives` (`WriterSurvives`) | `MaxRetries <= Len(retryBackoffMs)` |
| `Daemon_proofs` | `DaemonTypes`, `NoEarlyUpdate` (`UpdateAfterInit`), `ExitInOrder` (`OrderlyExit`), `SoundConf` (`ConfSound`), `MessagesAgreeWithRows` (`SinksAgree`), `RowsCarryRecords` (`RowsComplete`) | |
| `Pblog_proofs` | `PblogTypes`, `CatPrintsPrefix` (`CatPrefix`), `FollowPassesNone` (`NothingPassed`), `RemainderStays` (`RemainderAtOffset`) | |
| | `TailLastRecords` (`LastRecords`), `TailInOrder` (`InOrderOnce`) | the first chunk takes the whole file |

The assumptions on the constants are stated with them. They are about types
(`FileAssumption`: what the parsers of the configuration files return;
`RecordAssumption`: what a decoded record is; `ModeAssumption`, `LogAssumption`,
`LogsAssumption`), about numbers that the code fixes or checks (`ReadAssumption`,
`TailAssumption`, `CatAssumption`, `ConfAssumption`), and one is a convention of the
models: the records of different goroutines are different (`DistinctAssumption`),
so that a record stands for its place in the log. `DispatchAssumption` allows any
batch size, also the zero and negative ones, which mean no limit.

Three theorems have a hypothesis that the code does not check, and for each a run
shows what happens without it: `WriterOutlives` and `ModLogMysql_retries` (the
check of the configuration sets no upper bound on `MaxRetries`, and the array of
pauses has three entries); `TailLastRecords` with `TailInOrder`, and `PblogTool_chunks`.

No property is inductive as it stands. For every module there is an inductive
invariant, which TLC has checked on the instances of section 3 before it was
proved; a lemma per action or per part, and in it a step per conjunct or per
action; and the theorems follow from it.

**The follower.** `IInv` joins to the types and to `BufferIsRun`:

- `Flow`: what `pc` says of the flags. Most of it is what the call structure of the
  Go code guarantees, such as `initDone` being set whenever a file is open and the
  seek is over.
- `Places`: where the reader stands against BFE. The open file is not newer than
  the current one, the position is not beyond its end, and, when `isLogCut` has
  seen another file at the path, the open file is strictly older: BFE will never
  write to it again. This is why reading "the rest" once is reading all of it.
- `BehindAt(r)`, for every record `r`: it was handed on at most once, and then lies
  behind the reader, in the file it reads, in the file it is leaving and in the
  file it will open next. It is claimed as long as nothing starts a file over
  (`Mode`: no `-b`, or no failed read so far).

`OInv` adds what is needed to say that nothing is missing and that the order is
kept: `Attached` (which files were joined, and where), `HeadKept` (a head that ends
where the parser stands waits in `DataBuffer`; without it the record around a cut
would be lost), `NoLossAt(r)` (what lies between the place of joining and the place
reached was handed on), `SeenAt(r)` (nothing was handed on from a file after the
reader's), and with `-b`, where a failed read makes the reader start over,
`PrefixSeen` (a file is handed on from its first record without a gap, so that
what reading it again adds to the records handed on is later than all of them).
`PassAt(r)` is the same about the pass: what it has handed on lies behind the reader,
whether or not a read has failed, because with `-b` the pass ends with the failed read
and without it the file is joined again at its end. For `FollowsInOrder`, a `BfeWrite` is a
`Grow` or a stutter (`WriteGrows`), the return of `logRead` is a `HandOn`
(`ReturnHandsOn`), a failed read with `-b` is a `StartOver`, and every other step a stutter.

**The output modules.** `LoopShape` is what the place of the loop says of its batch,
of `resume` and of `Close`. `Order` is the heart: what was accepted is what was flushed,
then the batch, then the channel; and when the drain has ended, all that `Close`
owes is in the first two. It gives `IsSink`: a flush is a `Handle`, the end of an
empty drain an `End`. For mod_kafka, `Counted` says that the messages missing in the
topic are counted, one by one, before `flush` forgets them. For mod_log_mysql,
`TableHolds` says that the newest flushed row of a key is in the table, except
that, while a batch with the same key is being written, a commit reported as
failed may have replaced it by a row of that batch; the retry
writes it again. `Fresh` says that no record is accepted twice,
and `CopiesHeld` counts the copies of a row without a complete key.

**The dispatch.** `AllChunks`: a batch is consecutive records. `Apart`: no record is in
two waiting batches, or in two goroutines of one module. `Placed`: a returned
record is, for every module, in exactly one of four places: waiting, in a
goroutine's rest, given, lost in a panic. `EachRecordOnce` says the same with
numbers. `CutParts` proves what the cutting needs, division included.

A loop that hangs keeps all of this as it is: nothing is flushed any more, and
`Close` does not return.

**The daemon.** `Stages` is how far main is; `Inited`, which modules are initialised and
with which configuration; `Handed`, that records go to those only; `Draining` and
`Closing`, how far the loops and `Exit` are: a loop that ended owes nothing, a dead one
may, and a hung one lets no `Close` return. That a loop dies only with `MaxRetries`
above 3 is an invariant of its own (`DeadLoops`); with it follows `ExitInOrder`. `Queued` says of every entry of a queue
that it was made of the record whose number it carries, with the field table that
`Init` left. What is said of messages and rows then follows from the registry
and the columns themselves: `SectionNames` lists the fields, section by section;
`GoodColumn`, with a lemma for each section of the columns (`BasicNames` to `AiListNames`),
says that a column of a field is named after it and reads it; `ColumnsAre` joins them: every
field has its column but those of `WithoutColumn`, and every level its tags.

**The tool.** Every buffer is a run of its file, and `RunFrames` says in closed form
what the parser makes of a run: how many records, which, and what is left.
`LastN` is `tailLastN` with a first chunk that takes the whole file; `Passed` and `InOrder`
are what `followFrom` has behind it: everything between the place where
`tailLastN` ended and its own is printed or parsed, once and in order, and the cut
frame is the last piece before its place. For cat, `Flow` cuts the file by marks: what is
printed, what the printer works on, and one buffer of the channel after
another, up to the reader's position; it holds at every step of the two
goroutines, and a failed read only takes away that nothing is missing.

**Lemmas.** `SequenceLemmas` has what several proofs need: queues, ranges, the
positions of a value in a sequence, and `SelectAt`. Where an induction would be
natural, they take a least or greatest element (`LeastElement`, from the
well-foundedness of the numbers as the library states it for a set), because the induction
theorems take an operator, which none of the provers can instantiate.

Only model-checked are the liveness properties: `CaughtUp`, `EveryoneIsServed`,
`AcceptedIsFlushed`, `CloseReturns`, `ExitEnds`, `TailCatchesUp` and `CatReturns`. They rest on
fairness, and so on ENABLED, which is out of the prover's reach.

## 5. Not modelled, and what is left

Left out of the models: truncation of the log in place (BFE rotates by rename;
the reader would wait at a position beyond the end); the bytes of a frame; the
values of fields and their formatting; HTTP handlers and the web monitor; host names; the build of the tool for
Windows, where `getInode` is 0 and only a shrinking file shows a rotation; failing
seeks and reads of `tail`, which end it with an error; `RegisterHandlers`, `NewBfeLogReader` and
`log.Init`, which fail on programming errors or an unusable log directory only; test code.

Also left out, with no effect on what is claimed: an `os.Stat` that fails although the
name is there (`isLogCut` takes it for no rotation, `logRead` goes on to the open: both
look again later); b2log on a buffer glued by `tailLastN`, where a head is followed by
bytes of another frame and takes them for its body (`FrameStarts` skips it; only the run
`PblogTool_chunks` has such a buffer, and its violation does not need it); a `db.Ping`
that never returns (the daemon then never gets past `Init`, and nothing is owed).

Not composed: the follower with the dispatch and the sinks. Each hands to the next
what that one takes as an arbitrary input: `LogReader` says which records `logRead` returns,
`Dispatch` takes any, and the `Updater`s of the sinks are its goroutines in any order.
