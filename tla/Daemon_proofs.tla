---------------------------- MODULE Daemon_proofs ----------------------------
(***************************************************************************)
(* Proofs about Daemon, for any configuration files and any log: Update of *)
(* a module never runs before its Init, a module that runs was asked for   *)
(* and has sound numbers, Exit drains and closes the modules, and the      *)
(* message and the row of a record agree.                                  *)
(***************************************************************************)
EXTENDS Daemon, SequenceLemmas

-----------------------------------------------------------------------------
(* The inductive invariant *)

Confs ==
  {Rejected} \cup {ConfModKafkaCheck(f) : f \in KafkaFiles}
             \cup {ConfModLogMysqlCheck(f) : f \in MysqlFiles}

Outputs ==
  {ConvertBfeLogToJSON(log, F) : log \in BfeLogs, F \in SUBSET AllFields}
    \cup {ToRow(log) : log \in BfeLogs}

\* Beyond TypeOK: the functions are functions, and the queues sequences.
Types ==
  /\ TypeOK
  /\ file \in ReaderFiles
  /\ conf \in [Module -> Confs]
  /\ queue \in [Module -> Seq(Nat \X Outputs)]
  /\ {flushed, due} \subseteq [Module -> Nat]

\* The configuration main works with is the checked one of its file.
Loaded == file # Rejected /\ config = ReaderConfigLoad(file) /\ config # Rejected

\* How far main has come, and with which modules.
Stages ==
  /\ pc \in {"load", "register"} => workModules = {} /\ left = {}
  /\ pc \in {"register", "start"} => Loaded
  /\ left \subseteq workModules
  /\ workModules # {} => Loaded /\ workModules \subseteq Registered(config)
  /\ pc \in {"load", "register", "start"} => ~reader
  /\ pc = "start" => \A m \in workModules : mod[m] # "new" <=> m \notin left
  /\ pc \in {"ready", "wait"} \/ reader => \A m \in workModules : mod[m] # "new"

\* A module that is initialised has a work module's place and its configuration.
Inited ==
  \A m \in Module : mod[m] # "new" =>
    /\ m \in workModules
    /\ conf[m] # Rejected
    /\ m = "mod_kafka" => /\ conf[m] \in {ConfModKafkaCheck(f) : f \in KafkaFiles}
                          /\ RequiredFields \subseteq outputFields
    /\ m = "mod_log_mysql" => conf[m] \in {ConfModLogMysqlCheck(f) : f \in MysqlFiles}

\* Records go to initialised modules only.
Handed == \A u \in updates : mod[u[1]] # "new"

\* The state of a module's loop against its Close: whatever Close found queued
\* for a loop that was running is flushed before the loop is done, and Close
\* returns before that only when the loop has died.
Draining ==
  \A m \in Module :
    /\ mod[m] \in {"new", "inited"} \/ loop[m] = "none" => due[m] = 0
    /\ loop[m] = "done" => mod[m] \in {"closing", "closed"} /\ due[m] <= flushed[m]
    /\ mod[m] = "closed" => due[m] <= flushed[m] \/ loop[m] = "dead"

\* Exit has been through all the modules that it has not left to do.
Closing ==
  /\ pc = "exit" \/ (pc = "gone" /\ code # Killed) =>
       \A m \in workModules \ left : mod[m] \in {"new", "closed"}
  /\ pc = "gone" /\ code # Killed => left = {}
  /\ pc \notin {"exit", "gone"} => \A m \in Module : mod[m] \in {"new", "inited"}
  /\ \A m \in left : mod[m] # "closed"

DInv == Types /\ Stages /\ Inited /\ Handed /\ Draining /\ Closing

-----------------------------------------------------------------------------
(* Type correctness, and the order of main's steps *)

\* Nothing is configured and nothing runs when main begins.
LEMMA InitDInv == Init => DInv
<1>. SUFFICES ASSUME Init PROVE DInv
  OBVIOUS
<1>. USE DEF Init
<1>1. TypeOK
  <2>1. Len(<<>>) = 0 /\ <<>> \in Seq(BfeLogs)
    OBVIOUS
  <2>2. \A m \in Module : flushed[m] \in 0 .. Len(queue[m]) /\ due[m] \in 0 .. Len(queue[m])
    BY <2>1
  <2>3. /\ outputFields \subseteq AllFields
        /\ records \in Seq(BfeLogs)
        /\ updates \subseteq Module \X DOMAIN records
        /\ code \in {Running, Killed, 0, 1}
    BY <2>1
  <2>4. /\ pc \in {"load", "register", "start", "ready", "wait", "exit", "gone"}
        /\ {workModules, left} \subseteq SUBSET Module
        /\ mod \in [Module -> {"new", "inited", "closing", "closed"}]
        /\ loop \in [Module -> {"none", "running", "done", "dead", "hung"}]
        /\ {reader, ready, signals, term} \subseteq BOOLEAN
    OBVIOUS
  <2>. QED
    BY <2>2, <2>3, <2>4 DEF TypeOK
<1>2. conf \in [Module -> Confs]
  BY DEF Confs
<1>3. queue \in [Module -> Seq(Nat \X Outputs)]
  OBVIOUS
<1>4. Types
  BY <1>1, <1>2, <1>3 DEF Types
<1>5. Stages /\ Inited /\ Handed /\ Closing
  BY DEF Stages, Inited, Handed, Closing
<1>6. Draining
  BY DEF Draining
<1>. QED
  BY <1>4, <1>5, <1>6 DEF DInv

\* What a step leaves alone that only moves main.
LEMMA MainOnly ==
  ASSUME DInv, UNCHANGED <<file, moduleVars, dataVars>>,
         pc' \in {"load", "register", "start", "ready", "wait", "exit", "gone"},
         {workModules', left'} \subseteq SUBSET Module,
         {ready', signals', term'} \subseteq BOOLEAN,
         code' \in {Running, Killed, 0, 1}
  PROVE  /\ Types' /\ Handed' /\ Draining'
         /\ workModules \subseteq workModules' => Inited'
<1>1. Types'
  BY DEF DInv, Types, TypeOK, moduleVars, dataVars
<1>2. Handed'
  BY DEF DInv, Handed, moduleVars, dataVars
<1>3. Draining'
  BY DEF DInv, Draining, moduleVars, dataVars
<1>4. workModules \subseteq workModules' => Inited'
  BY DEF DInv, Inited, moduleVars, dataVars
<1>. QED
  BY <1>1, <1>2, <1>3, <1>4

\* main loads the configuration, or leaves.
LEMMA LoadDInv == DInv /\ Load => DInv'
<1>. SUFFICES ASSUME DInv, Load PROVE DInv'
  OBVIOUS
<1>1. /\ pc = "load" /\ workModules = {} /\ left = {} /\ ~reader
      /\ UNCHANGED <<file, workModules, ready, signals, term, moduleVars, dataVars>>
      /\ config' = IF file = Rejected THEN Rejected ELSE ReaderConfigLoad(file)
  BY DEF Load, DInv, Stages
<1>2. \/ config' = Rejected /\ pc' = "exit" /\ left' = workModules /\ code' = 1
      \/ config' # Rejected /\ pc' = "register" /\ left' = left /\ code' = code
  BY DEF Load, ExitWith
<1>3. code \in {Running, Killed, 0, 1} /\ {ready, signals, term} \subseteq BOOLEAN
  BY DEF DInv, Types, TypeOK
<1>4. Types' /\ Handed' /\ Draining' /\ Inited'
  BY <1>1, <1>2, <1>3, MainOnly
<1>5. Stages'
  BY <1>1, <1>2 DEF Stages, Loaded, dataVars
<1>6. Closing'
  BY <1>1, <1>2 DEF DInv, Closing, moduleVars
<1>. QED
  BY <1>4, <1>5, <1>6 DEF DInv

\* main registers the modules that the configuration asks for.
LEMMA RegisterDInv == DInv /\ Register => DInv'
<1>. SUFFICES ASSUME DInv, Register PROVE DInv'
  OBVIOUS
<1>1. /\ pc = "register" /\ workModules = {} /\ Loaded /\ ~reader
      /\ workModules' = Registered(config) /\ left' = Registered(config)
      /\ pc' = "start" /\ signals' = TRUE
      /\ UNCHANGED <<file, config, ready, term, code, moduleVars, dataVars>>
  BY DEF Register, DInv, Stages
<1>2. Registered(config) \subseteq Module
  BY DEF Registered, GetWorkModules
<1>3. code \in {Running, Killed, 0, 1} /\ {ready, term} \subseteq BOOLEAN
  BY DEF DInv, Types, TypeOK
<1>4. Types' /\ Handed' /\ Draining' /\ Inited'
  BY <1>1, <1>2, <1>3, MainOnly
<1>5. Stages'
  <2>1. Registered(config)' = Registered(config) /\ Loaded'
    BY <1>1 DEF Registered, Loaded
  <2>2. \A m \in Registered(config) : mod'[m] = "new"
    BY <1>1, <1>2 DEF DInv, Inited, moduleVars
  <2>. QED
    BY <1>1, <2>1, <2>2 DEF Stages, dataVars
<1>6. Closing'
  BY <1>1, <1>2 DEF DInv, Closing, moduleVars
<1>. QED
  BY <1>4, <1>5, <1>6 DEF DInv

\* Steps of main that let the modules be: it leaves after a failed Init or a
\* signal, or it is ready.
LEMMA LeaveDInv ==
  ASSUME DInv, NEW c \in {0, 1}, ExitWith(c), pc \notin {"exit", "gone"},
         UNCHANGED <<file, config, workModules, ready, signals, term, moduleVars, dataVars>>
  PROVE  DInv'
<1>1. pc' = "exit" /\ left' = workModules /\ code' = c
  BY DEF ExitWith
<1>2. {ready, signals, term} \subseteq BOOLEAN /\ workModules \subseteq Module
  BY DEF DInv, Types, TypeOK
<1>3. Types' /\ Handed' /\ Draining' /\ Inited'
  BY <1>1, <1>2, MainOnly
<1>4. Stages'
  BY <1>1 DEF DInv, Stages, Loaded, moduleVars, dataVars
<1>5. Closing'
  BY <1>1, <1>2 DEF DInv, Closing, moduleVars
<1>. QED
  BY <1>3, <1>4, <1>5 DEF DInv

LEMMA SetReadyDInv == DInv /\ SetReady => DInv'
<1>. SUFFICES ASSUME DInv, SetReady PROVE DInv'
  OBVIOUS
<1>1. /\ pc = "ready" /\ ready' = TRUE /\ pc' = "wait"
      /\ UNCHANGED <<file, config, workModules, left, signals, term, code,
                     moduleVars, dataVars>>
  BY DEF SetReady
<1>2. /\ {signals, term} \subseteq BOOLEAN /\ {workModules, left} \subseteq SUBSET Module
      /\ code \in {Running, Killed, 0, 1}
  BY DEF DInv, Types, TypeOK
<1>3. Types' /\ Handed' /\ Draining' /\ Inited'
  BY <1>1, <1>2, MainOnly
<1>4. Stages'
  BY <1>1 DEF DInv, Stages, Loaded, moduleVars, dataVars
<1>5. Closing'
  BY <1>1 DEF DInv, Closing, moduleVars
<1>. QED
  BY <1>3, <1>4, <1>5 DEF DInv

\* The process ends at once, with whatever signal.
LEMMA DieDInv ==
  ASSUME DInv, Die, UNCHANGED term
  PROVE  DInv'
<1>1. /\ pc' = "gone" /\ code' = Killed
      /\ UNCHANGED <<file, config, workModules, left, ready, signals, moduleVars, dataVars>>
  BY DEF Die
<1>2. {ready, signals, term} \subseteq BOOLEAN /\ {workModules, left} \subseteq SUBSET Module
  BY DEF DInv, Types, TypeOK
<1>3. Types' /\ Handed' /\ Draining' /\ Inited'
  BY <1>1, <1>2, MainOnly
<1>4. Stages'
  BY <1>1 DEF DInv, Stages, Loaded, moduleVars, dataVars
<1>5. Closing'
  BY <1>1 DEF DInv, Closing, moduleVars
<1>. QED
  BY <1>3, <1>4, <1>5 DEF DInv

LEMMA SignalDInv == DInv /\ Signal => DInv'
<1>. SUFFICES ASSUME DInv, Signal PROVE DInv'
  OBVIOUS
<1>1. CASE SigInt
  BY <1>1, LeaveDInv, DieDInv DEF SigInt
<1>2. CASE SigTerm
  <2>1. CASE ~signals /\ Die /\ UNCHANGED term
    BY <2>1, DieDInv
  <2>2. CASE /\ Alive /\ signals /\ term' = TRUE
             /\ UNCHANGED <<file, pc, config, workModules, left, ready, signals, code,
                            moduleVars, dataVars>>
    <3>1. /\ {ready, signals} \subseteq BOOLEAN /\ {workModules, left} \subseteq SUBSET Module
          /\ code \in {Running, Killed, 0, 1}
          /\ pc \in {"load", "register", "start", "ready", "wait", "exit", "gone"}
      BY DEF DInv, Types, TypeOK
    <3>2. Types' /\ Handed' /\ Draining' /\ Inited'
      BY <2>2, <3>1, MainOnly
    <3>3. Stages'
      BY <2>2 DEF DInv, Stages, Loaded, moduleVars, dataVars
    <3>4. Closing'
      BY <2>2 DEF DInv, Closing, moduleVars, dataVars
    <3>. QED
      BY <3>2, <3>3, <3>4 DEF DInv
  <2>. QED
    BY <1>2, <2>1, <2>2 DEF SigTerm
<1>3. CASE Woken
  BY <1>3, LeaveDInv DEF Woken
<1>4. CASE TermHandler
  BY <1>4, DieDInv DEF TermHandler
<1>. QED
  BY <1>1, <1>2, <1>3, <1>4 DEF Signal

\* What the checks make of config.conf: the modules are those it names as final and
\* those its list enables.
LEMMA LoadedConf ==
  ASSUME Loaded, file \in ReaderFiles
  PROVE  /\ config.PbAccessLogConf.LogFile \in BOOLEAN
         /\ config.PbAccessLogConf.FinalModules
              = file.PbAccessLogConf.FinalModules \o EnabledModules(file.PbAccessLogConf.Modules)
         /\ file.PbAccessLogConf.FinalModules \in Seq(STRING)
         /\ file.PbAccessLogConf.Modules \in Seq([name : STRING, switch : STRING])
<1>. DEFINE f == file.PbAccessLogConf
            Conf == [LogFile : BOOLEAN, Modules : Seq([name : STRING, switch : STRING]),
                     MaxSizePerBatch : Int, FinalModules : Seq(STRING)]
<1>1. f \in Conf
  BY FileAssumption DEF Loaded
<1>2. /\ config.PbAccessLogConf = PbAccessLogConfCheck(f)
      /\ PbAccessLogConfCheck(f) # Rejected
  BY DEF Loaded, ReaderConfigLoad
<1>. HIDE DEF f
<1>3. config.PbAccessLogConf = [f EXCEPT !.MaxSizePerBatch = OrDefault(@, -1),
                                         !.FinalModules = @ \o EnabledModules(f.Modules)]
  BY <1>2 DEF PbAccessLogConfCheck
<1>4. /\ config.PbAccessLogConf.LogFile = f.LogFile
      /\ config.PbAccessLogConf.FinalModules = f.FinalModules \o EnabledModules(f.Modules)
      /\ f.FinalModules \in Seq(STRING)
  BY <1>1, <1>3
<1>. QED
  BY <1>1, <1>4 DEF f

\* All modules are initialised when the read loop starts.
LEMMA StartReaderDInv == DInv /\ StartReader => DInv'
<1>. SUFFICES ASSUME DInv, StartReader PROVE DInv'
  OBVIOUS
<1>1. /\ pc = "start" /\ left = {} /\ pc' = "ready"
      /\ reader' = config.PbAccessLogConf.LogFile
      /\ UNCHANGED <<file, config, workModules, left, ready, signals, term, code,
                     mod, loop, conf, outputFields, records, updates, queue, flushed, due>>
  BY DEF StartReader, AllInited, moduleVars
<1>2. reader' \in BOOLEAN
  BY <1>1, LoadedConf DEF DInv, Stages, Types
<1>3. Types'
  BY <1>1, <1>2 DEF DInv, Types, TypeOK
<1>4. Stages'
  BY <1>1 DEF DInv, Stages, Loaded
<1>5. Inited' /\ Handed' /\ Draining'
  BY <1>1 DEF DInv, Inited, Handed, Draining
<1>6. Closing'
  BY <1>1 DEF DInv, Closing, moduleVars
<1>. QED
  BY <1>3, <1>4, <1>5, <1>6 DEF DInv

\* What mod_kafka sends has all required fields and no unknown ones, whatever
\* its data file says.
LEMMA FieldSets ==
  ASSUME NEW data
  PROVE  /\ RequiredFields \subseteq DefaultOutputFields /\ DefaultOutputFields \subseteq AllFields
         /\ RequiredFields \subseteq ResolveFields(data) /\ ResolveFields(data) \subseteq AllFields
<1>1. RequiredFields \subseteq AllFields /\ DefaultFields \subseteq AllFields
  BY DEF RequiredFields, DefaultFields, AllFields
<1>2. RequiredFields \subseteq DefaultFields
  BY DEF RequiredFields, DefaultFields
<1>. QED
  BY <1>1, <1>2 DEF ResolveFields, DefaultOutputFields, IsValidField

\* Init of a module, and the goroutine for its Start.
LEMMA InitModuleDInv ==
  ASSUME DInv, NEW m \in Module, InitModule(m)
  PROVE  DInv'
<1>1. /\ pc = "start" /\ m \in left /\ left' = left \ {m}
      /\ mod' = [mod EXCEPT ![m] = "inited"]
      /\ UNCHANGED <<file, pc, config, workModules, ready, signals, term, code,
                     reader, records, updates, queue, flushed, due>>
  BY DEF InitModule, dataVars
<1>2. IF m = "mod_kafka" THEN KafkaInits(m) ELSE MysqlInits(m)
  BY DEF InitModule
<1>3. /\ mod \in [Module -> {"new", "inited", "closing", "closed"}]
      /\ loop \in [Module -> {"none", "running", "done", "dead", "hung"}]
      /\ conf \in [Module -> Confs]
      /\ m \in workModules /\ left \subseteq workModules
  BY <1>1 DEF DInv, Types, TypeOK, Stages
<1>4. /\ mod' \in [Module -> {"new", "inited", "closing", "closed"}] /\ mod'[m] = "inited"
      /\ \A k \in Module \ {m} : mod'[k] = mod[k]
  BY <1>1, <1>3
<1>5. \E c \in Confs \ {Rejected} :
        /\ conf' = [conf EXCEPT ![m] = c]
        /\ m = "mod_kafka" => c \in {ConfModKafkaCheck(f) : f \in KafkaFiles}
        /\ m = "mod_log_mysql" => c \in {ConfModLogMysqlCheck(f) : f \in MysqlFiles}
  BY <1>2 DEF KafkaInits, MysqlInits, Confs, Module, modulesSupport
<1>6. /\ conf' \in [Module -> Confs] /\ conf'[m] # Rejected
      /\ m = "mod_kafka" => conf'[m] \in {ConfModKafkaCheck(f) : f \in KafkaFiles}
      /\ m = "mod_log_mysql" => conf'[m] \in {ConfModLogMysqlCheck(f) : f \in MysqlFiles}
      /\ \A k \in Module \ {m} : conf'[k] = conf[k]
  BY <1>3, <1>5
<1>7. /\ m = "mod_kafka" => RequiredFields \subseteq outputFields' /\ outputFields' \subseteq AllFields
      /\ m # "mod_kafka" => outputFields' = outputFields
  BY <1>2, FieldSets DEF KafkaInits, MysqlInits
<1>8. /\ loop' \in [Module -> {"none", "running", "done", "dead", "hung"}]
      /\ \A k \in Module : loop'[k] = loop[k] \/ (k = m /\ loop'[k] = "running")
  BY <1>2, <1>3 DEF KafkaInits, MysqlInits
<1>9. Types'
  <2>1. outputFields' \subseteq AllFields
    BY <1>7 DEF DInv, Types, TypeOK
  <2>2. TypeOK'
    BY <1>1, <1>4, <1>8, <2>1 DEF DInv, Types, TypeOK
  <2>. QED
    BY <1>1, <1>6, <2>2 DEF DInv, Types
<1>10. Stages'
  BY <1>1, <1>3, <1>4 DEF DInv, Stages, Types, TypeOK, Loaded
<1>11. Inited'
  <2>1. SUFFICES ASSUME NEW k \in Module, mod'[k] # "new"
                 PROVE  /\ k \in workModules
                        /\ conf'[k] # Rejected
                        /\ k = "mod_kafka" => /\ conf'[k] \in {ConfModKafkaCheck(f) : f \in KafkaFiles}
                                              /\ RequiredFields \subseteq outputFields'
                        /\ k = "mod_log_mysql" => conf'[k] \in {ConfModLogMysqlCheck(f) : f \in MysqlFiles}
    BY <1>1 DEF Inited
  <2>2. CASE k = m
    BY <2>2, <1>3, <1>6, <1>7
  <2>3. CASE k # m
    <3>1. mod[k] # "new" /\ conf'[k] = conf[k]
      BY <2>1, <2>3, <1>4, <1>6
    <3>2. k = "mod_kafka" => outputFields' = outputFields
      BY <2>3, <1>7
    <3>. QED
      BY <3>1, <3>2 DEF DInv, Inited
  <2>. QED
    BY <2>2, <2>3
<1>12. Handed'
  BY <1>1, <1>4 DEF DInv, Handed, Types, TypeOK
<1>13. Draining'
  <2>1. SUFFICES ASSUME NEW k \in Module
                 PROVE  /\ mod'[k] \in {"new", "inited"} \/ loop'[k] = "none" => due[k] = 0
                        /\ loop'[k] = "done" => mod'[k] \in {"closing", "closed"} /\ due[k] <= flushed[k]
                        /\ mod'[k] = "closed" => due[k] <= flushed[k] \/ loop'[k] = "dead"
    BY <1>1 DEF Draining
  <2>2. /\ mod[k] \in {"new", "inited"} \/ loop[k] = "none" => due[k] = 0
        /\ loop[k] = "done" => mod[k] \in {"closing", "closed"} /\ due[k] <= flushed[k]
        /\ mod[k] = "closed" => due[k] <= flushed[k] \/ loop[k] = "dead"
    BY DEF DInv, Draining
  <2>3. CASE k # m
    BY <2>2, <2>3, <1>4, <1>8
  <2>4. CASE k = m
    <3>1. mod[k] = "new"
      BY <2>4, <1>1, <1>3 DEF DInv, Stages
    <3>2. mod'[k] = "inited" /\ loop'[k] # "done"
      BY <2>2, <2>4, <3>1, <1>4, <1>8
    <3>. QED
      BY <2>2, <3>1, <3>2
  <2>. QED
    BY <2>3, <2>4
<1>14. Closing'
  BY <1>1 DEF DInv, Closing, moduleVars
<1>. QED
  BY <1>9, <1>10, <1>11, <1>12, <1>13, <1>14 DEF DInv
\* sendLoop starts, whenever its goroutine is scheduled.
LEMMA StartModuleDInv == DInv /\ StartModule => DInv'
<1>. SUFFICES ASSUME DInv, StartModule PROVE DInv'
  OBVIOUS
<1>. DEFINE m == "mod_kafka"
<1>1. /\ loop[m] = "none" /\ loop' = [loop EXCEPT ![m] = "running"]
      /\ UNCHANGED <<file, mainVars, mod, conf, outputFields, dataVars>>
  BY DEF StartModule
<1>2. m \in Module
  BY DEF Module, modulesSupport
<1>3. loop \in [Module -> {"none", "running", "done", "dead", "hung"}]
  BY DEF DInv, Types, TypeOK
<1>4. /\ loop' \in [Module -> {"none", "running", "done", "dead", "hung"}]
      /\ \A k \in Module : loop'[k] = loop[k] \/ (k = m /\ loop'[k] = "running")
  BY <1>1, <1>3
<1>5. Types'
  BY <1>1, <1>4 DEF DInv, Types, TypeOK, mainVars, dataVars
<1>6. Stages' /\ Inited' /\ Handed' /\ Closing'
  BY <1>1 DEF DInv, Stages, Loaded, Inited, Handed, Closing, mainVars, dataVars
<1>7. Draining'
  BY <1>1, <1>4 DEF DInv, Draining, dataVars
<1>. QED
  BY <1>5, <1>6, <1>7 DEF DInv

\* A record is read and goes to an Update of each work module.
LEMMA ReadDInv == DInv /\ Read => DInv'
<1>. SUFFICES ASSUME DInv, Read PROVE DInv'
  OBVIOUS
<1>1. PICK log \in BfeLogs : records' = Append(records, log)
  BY DEF Read
<1>2. /\ reader
      /\ updates' = updates \cup (workModules \X {Len(records) + 1})
      /\ UNCHANGED <<file, pc, config, workModules, left, ready, signals, term, code,
                     mod, loop, conf, outputFields, reader, queue, flushed, due>>
  BY DEF Read, mainVars, moduleVars
<1>3. /\ records \in Seq(BfeLogs) /\ workModules \subseteq Module
      /\ updates \subseteq Module \X DOMAIN records
  BY DEF DInv, Types, TypeOK
<1>4. /\ records' \in Seq(BfeLogs)
      /\ DOMAIN records \subseteq DOMAIN records' /\ Len(records) + 1 \in DOMAIN records'
  BY <1>1, <1>3, AppendProperties
<1>5. updates' \subseteq Module \X DOMAIN records'
  BY <1>2, <1>3, <1>4
<1>6. Types'
  BY <1>2, <1>4, <1>5 DEF DInv, Types, TypeOK
<1>7. Stages' /\ Inited' /\ Draining' /\ Closing'
  BY <1>2 DEF DInv, Stages, Loaded, Inited, Draining, Closing
<1>8. Handed'
  <2>1. \A k \in workModules : mod[k] # "new"
    BY <1>2 DEF DInv, Stages
  <2>. QED
    BY <2>1, <1>2 DEF DInv, Handed
<1>. QED
  BY <1>6, <1>7, <1>8 DEF DInv

\* What Update puts into the channel of a module.
LEMMA OutputType ==
  ASSUME DInv, NEW m, NEW log \in BfeLogs
  PROVE  Output(m, log) \in Outputs
<1>1. outputFields \in SUBSET AllFields
  BY DEF DInv, Types, TypeOK
<1>. QED
  BY <1>1 DEF Output, Outputs

\* A message or a row joins the queue of its module.
LEMMA UpdateDInv == DInv /\ Update => DInv'
<1>. SUFFICES ASSUME DInv, Update PROVE DInv'
  OBVIOUS
<1>1. PICK u \in updates :
        /\ updates' = updates \ {u}
        /\ queue' = IF records[u[2]].isRequest
                    THEN [queue EXCEPT ![u[1]] = Append(@, <<u[2], Output(u[1], records[u[2]])>>)]
                    ELSE queue
  BY DEF Update
<1>2. UNCHANGED <<file, pc, config, workModules, left, ready, signals, term, code,
                  mod, loop, conf, outputFields, reader, records, flushed, due>>
  BY DEF Update, mainVars, moduleVars
<1>3. /\ records \in Seq(BfeLogs) /\ updates \subseteq Module \X DOMAIN records
      /\ queue \in [Module -> Seq(Nat \X Outputs)]
      /\ \A m \in Module : flushed[m] \in 0 .. Len(queue[m]) /\ due[m] \in 0 .. Len(queue[m])
  BY DEF DInv, Types, TypeOK
<1>4. /\ u[1] \in Module /\ u[2] \in Nat /\ records[u[2]] \in BfeLogs
  BY <1>3
<1>. DEFINE x == <<u[2], Output(u[1], records[u[2]])>>
<1>5. x \in Nat \X Outputs
  BY <1>4, OutputType
<1>6. \A m \in Module : queue'[m] = queue[m] \/ queue'[m] = Append(queue[m], x)
  BY <1>1, <1>3
<1>. HIDE DEF x
<1>7. /\ queue' \in [Module -> Seq(Nat \X Outputs)]
      /\ \A m \in Module : Len(queue'[m]) \in Nat /\ Len(queue[m]) <= Len(queue'[m])
  <2>1. \A m \in Module : queue'[m] \in Seq(Nat \X Outputs) /\ Len(queue[m]) <= Len(queue'[m])
    <3>1. TAKE m \in Module
    <3>2. queue[m] \in Seq(Nat \X Outputs)
      BY <1>3
    <3>3. /\ Append(queue[m], x) \in Seq(Nat \X Outputs)
          /\ Len(Append(queue[m], x)) = Len(queue[m]) + 1 /\ Len(queue[m]) \in Nat
      BY <3>2, <1>5, AppendProperties
    <3>4. CASE queue'[m] = queue[m]
      BY <3>2, <3>3, <3>4
    <3>5. CASE queue'[m] = Append(queue[m], x)
      BY <3>3, <3>5
    <3>. QED
      BY <3>4, <3>5, <1>6
  <2>2. queue' = [m \in Module |-> queue'[m]]
    BY <1>1, <1>3
  <2>. QED
    BY <2>1, <2>2
<1>8. \A m \in Module : flushed[m] \in 0 .. Len(queue'[m]) /\ due[m] \in 0 .. Len(queue'[m])
  <2>1. TAKE m \in Module
  <2>2. flushed[m] \in 0 .. Len(queue[m]) /\ due[m] \in 0 .. Len(queue[m]) /\ queue[m] \in Seq(Nat \X Outputs)
    BY <1>3
  <2>. QED
    BY <2>2, <1>7
<1>9. Types'
  BY <1>1, <1>2, <1>3, <1>7, <1>8 DEF DInv, Types, TypeOK
<1>10. Stages' /\ Inited' /\ Draining' /\ Closing'
  BY <1>2 DEF DInv, Stages, Loaded, Inited, Draining, Closing
<1>11. Handed'
  BY <1>1, <1>2 DEF DInv, Handed
<1>. QED
  BY <1>9, <1>10, <1>11 DEF DInv

\* A module's loop disposes of a message.
LEMMA FlushDInv ==
  ASSUME DInv, NEW m \in Module, Flush(m)
  PROVE  DInv'
<1>1. /\ flushed[m] < Len(queue[m]) /\ flushed' = [flushed EXCEPT ![m] = @ + 1]
      /\ UNCHANGED <<file, pc, config, workModules, left, ready, signals, term, code,
                     mod, loop, conf, outputFields, reader, records, updates, queue, due>>
  BY DEF Flush, mainVars, moduleVars
<1>2. /\ flushed \in [Module -> Nat] /\ due \in [Module -> Nat]
      /\ queue \in [Module -> Seq(Nat \X Outputs)]
      /\ \A k \in Module : flushed[k] \in 0 .. Len(queue[k])
  BY DEF DInv, Types, TypeOK
<1>3. /\ flushed' \in [Module -> Nat]
      /\ \A k \in Module : flushed[k] <= flushed'[k] /\ flushed'[k] \in 0 .. Len(queue[k])
  <2>1. \A k \in Module : Len(queue[k]) \in Nat
    BY <1>2
  <2>. QED
    BY <2>1, <1>1, <1>2
<1>4. Types'
  BY <1>1, <1>3 DEF DInv, Types, TypeOK
<1>5. Stages' /\ Inited' /\ Handed' /\ Closing'
  BY <1>1 DEF DInv, Stages, Loaded, Inited, Handed, Closing
<1>6. Draining'
  BY <1>1, <1>2, <1>3 DEF DInv, Draining
<1>. QED
  BY <1>4, <1>5, <1>6 DEF DInv

\* A module's loop returns with its queue empty.
LEMMA LoopEndsDInv ==
  ASSUME DInv, NEW m \in Module, LoopEnds(m)
  PROVE  DInv'
<1>1. /\ mod[m] \in {"closing", "closed"} /\ flushed[m] = Len(queue[m])
      /\ loop[m] = "running" /\ loop' = [loop EXCEPT ![m] = "done"]
      /\ UNCHANGED <<file, pc, config, workModules, left, ready, signals, term, code,
                     mod, conf, outputFields, reader, records, updates, queue, flushed, due>>
  BY DEF LoopEnds, Drained, mainVars, dataVars
<1>2. loop \in [Module -> {"none", "running", "done", "dead", "hung"}] /\ due[m] \in 0 .. Len(queue[m])
  BY DEF DInv, Types, TypeOK
<1>3. loop' \in [Module -> {"none", "running", "done", "dead", "hung"}] /\ \A k \in Module \ {m} : loop'[k] = loop[k]
  BY <1>1, <1>2
<1>4. Types'
  BY <1>1, <1>3 DEF DInv, Types, TypeOK
<1>5. Stages' /\ Inited' /\ Handed' /\ Closing'
  BY <1>1 DEF DInv, Stages, Loaded, Inited, Handed, Closing
<1>6. due[m] <= flushed[m] /\ loop'[m] = "done"
  BY <1>1, <1>2
<1>7. Draining'
  BY <1>1, <1>3, <1>6 DEF DInv, Draining
<1>. QED
  BY <1>4, <1>5, <1>7 DEF DInv

\* The loop of mod_log_mysql dies, or hangs in a transaction: its queue stays.
LEMMA LoopStandsDInv ==
  ASSUME DInv, NEW m \in Module, LoopPanics(m) \/ LoopHangs(m)
  PROVE  DInv'
<1>1. /\ loop[m] = "running"
      /\ loop' = [loop EXCEPT ![m] = "dead"] \/ loop' = [loop EXCEPT ![m] = "hung"]
      /\ UNCHANGED <<file, pc, config, workModules, left, ready, signals, term, code,
                     mod, conf, outputFields, reader, records, updates, queue, flushed, due>>
  BY DEF LoopPanics, LoopHangs, mainVars, dataVars
<1>2. loop \in [Module -> {"none", "running", "done", "dead", "hung"}]
  BY DEF DInv, Types, TypeOK
<1>3. /\ loop' \in [Module -> {"none", "running", "done", "dead", "hung"}]
      /\ loop'[m] \in {"dead", "hung"} /\ \A k \in Module \ {m} : loop'[k] = loop[k]
  BY <1>1, <1>2
<1>4. Types'
  BY <1>1, <1>3 DEF DInv, Types, TypeOK
<1>5. Stages' /\ Inited' /\ Handed' /\ Closing'
  BY <1>1 DEF DInv, Stages, Loaded, Inited, Handed, Closing
<1>6. Draining'
  BY <1>1, <1>3 DEF DInv, Draining
<1>. QED
  BY <1>4, <1>5, <1>6 DEF DInv

\* Exit calls Close of a module.
LEMMA CloseDInv ==
  ASSUME DInv, NEW m \in Module, Close(m)
  PROVE  DInv'
<1>1. /\ pc = "exit" /\ m \in left /\ \A k \in Module : mod[k] # "closing"
      /\ UNCHANGED <<file, pc, config, workModules, ready, signals, term, code, loop,
                     conf, outputFields, reader, records, updates, queue, flushed>>
  BY DEF Close
<1>2. /\ mod \in [Module -> {"new", "inited", "closing", "closed"}]
      /\ due \in [Module -> Nat] /\ queue \in [Module -> Seq(Nat \X Outputs)]
      /\ left \subseteq workModules /\ left \subseteq Module
      /\ \A k \in Module : due[k] \in 0 .. Len(queue[k])
      /\ loop \in [Module -> {"none", "running", "done", "dead", "hung"}]
  BY DEF DInv, Types, TypeOK, Stages
<1>3. CASE mod[m] = "new"
  <2>1. left' = left \ {m} /\ UNCHANGED <<mod, due>>
    BY <1>3 DEF Close
  <2>2. Types' /\ Inited' /\ Handed' /\ Draining'
    BY <1>1, <1>2, <2>1 DEF DInv, Types, TypeOK, Inited, Handed, Draining
  <2>3. Stages' /\ Closing'
    BY <1>1, <1>3, <2>1 DEF DInv, Stages, Loaded, Closing
  <2>. QED
    BY <2>2, <2>3 DEF DInv
<1>4. CASE mod[m] # "new"
  <2>1. /\ mod' = [mod EXCEPT ![m] = "closing"] /\ left' = left
        /\ due' = [due EXCEPT ![m] = IF loop[m] = "none" THEN 0 ELSE Len(queue[m])]
    BY <1>4 DEF Close
  <2>2. /\ mod' \in [Module -> {"new", "inited", "closing", "closed"}]
        /\ mod'[m] = "closing" /\ \A k \in Module \ {m} : mod'[k] = mod[k]
    BY <1>2, <2>1
  <2>3. /\ due' \in [Module -> Nat] /\ \A k \in Module : due'[k] \in 0 .. Len(queue[k])
        /\ \A k \in Module \ {m} : due'[k] = due[k]
        /\ loop[m] = "none" => due'[m] = 0
    <3>1. \A k \in Module : Len(queue[k]) \in Nat
      BY <1>2
    <3>. QED
      BY <3>1, <1>2, <2>1
  <2>4. Types'
    BY <1>1, <2>1, <2>2, <2>3 DEF DInv, Types, TypeOK
  <2>5. Stages' /\ Inited' /\ Handed'
    BY <1>1, <1>2, <1>4, <2>1, <2>2 DEF DInv, Stages, Loaded, Inited, Handed, Types, TypeOK
  <2>6. Draining'
    <3>1. SUFFICES ASSUME NEW k \in Module
                   PROVE  /\ mod'[k] \in {"new", "inited"} \/ loop[k] = "none" => due'[k] = 0
                          /\ loop[k] = "done" => mod'[k] \in {"closing", "closed"} /\ due'[k] <= flushed[k]
                          /\ mod'[k] = "closed" => due'[k] <= flushed[k] \/ loop[k] = "dead"
      BY <1>1 DEF Draining
    <3>2. /\ mod[k] \in {"new", "inited"} \/ loop[k] = "none" => due[k] = 0
          /\ loop[k] = "done" => mod[k] \in {"closing", "closed"} /\ due[k] <= flushed[k]
          /\ mod[k] = "closed" => due[k] <= flushed[k] \/ loop[k] = "dead"
      BY DEF DInv, Draining
    <3>3. CASE k # m
      BY <3>2, <3>3, <2>2, <2>3
    <3>4. CASE k = m
      <4>1. loop[m] # "done" /\ mod'[m] = "closing"
        BY <3>2, <3>4, <2>2, <1>1, <1>2 DEF DInv, Closing
      <4>. QED
        BY <3>4, <4>1, <2>3
    <3>. QED
      BY <3>3, <3>4
  <2>7. Closing'
    BY <1>1, <1>2, <2>1, <2>2 DEF DInv, Closing
  <2>. QED
    BY <2>4, <2>5, <2>6, <2>7 DEF DInv
<1>. QED
  BY <1>3, <1>4
\* Close has waited for the module's loop.
LEMMA CloseReturnsDInv ==
  ASSUME DInv, NEW m \in Module, CloseReturns(m)
  PROVE  DInv'
<1>1. /\ pc = "exit" /\ mod[m] = "closing" /\ loop[m] \in {"none", "done", "dead"}
      /\ mod' = [mod EXCEPT ![m] = "closed"] /\ left' = left \ {m}
      /\ UNCHANGED <<file, pc, config, workModules, ready, signals, term, code, loop,
                     conf, outputFields, reader, records, updates, queue, flushed, due>>
  BY DEF CloseReturns, LoopGone, dataVars
<1>2. /\ mod \in [Module -> {"new", "inited", "closing", "closed"}]
      /\ flushed \in [Module -> Nat] /\ {workModules, left} \subseteq SUBSET Module
  BY DEF DInv, Types, TypeOK
<1>3. /\ mod' \in [Module -> {"new", "inited", "closing", "closed"}]
      /\ mod'[m] = "closed" /\ \A k \in Module \ {m} : mod'[k] = mod[k]
  BY <1>1, <1>2
<1>4. Types'
  BY <1>1, <1>2, <1>3 DEF DInv, Types, TypeOK
<1>5. Inited' /\ Handed'
  BY <1>1, <1>2, <1>3 DEF DInv, Inited, Handed, Types, TypeOK
<1>6. Stages'
  BY <1>1, <1>2, <1>3 DEF DInv, Stages, Loaded
<1>7. Closing'
  BY <1>1, <1>2, <1>3 DEF DInv, Closing
<1>8. due[m] <= flushed[m] \/ loop[m] = "dead"
  <2>1. CASE loop[m] = "none"
    BY <2>1, <1>2 DEF DInv, Draining
  <2>2. CASE loop[m] = "done"
    BY <2>2 DEF DInv, Draining
  <2>. QED
    BY <2>1, <2>2, <1>1
<1>9. Draining'
  BY <1>1, <1>3, <1>8 DEF DInv, Draining
<1>. QED
  BY <1>4, <1>5, <1>6, <1>7, <1>9 DEF DInv

\* os.Exit, after the last module.
LEMMA OsExitDInv == DInv /\ OsExit => DInv'
<1>. SUFFICES ASSUME DInv, OsExit PROVE DInv'
  OBVIOUS
<1>1. /\ pc = "exit" /\ left = {} /\ pc' = "gone"
      /\ UNCHANGED <<file, config, workModules, left, ready, signals, term, code,
                     moduleVars, dataVars>>
  BY DEF OsExit
<1>2. /\ {ready, signals, term} \subseteq BOOLEAN /\ {workModules, left} \subseteq SUBSET Module
      /\ code \in {Running, Killed, 0, 1}
  BY DEF DInv, Types, TypeOK
<1>3. Types' /\ Handed' /\ Draining' /\ Inited'
  BY <1>1, <1>2, MainOnly
<1>4. Stages'
  BY <1>1 DEF DInv, Stages, Loaded, moduleVars, dataVars
<1>5. Closing'
  BY <1>1 DEF DInv, Closing, moduleVars
<1>. QED
  BY <1>3, <1>4, <1>5 DEF DInv

\* Stuttering steps.
LEMMA StutterDInv == DInv /\ UNCHANGED vars => DInv'
<1>. SUFFICES ASSUME DInv, UNCHANGED vars PROVE DInv'
  OBVIOUS
<1>. USE DEF vars, mainVars, moduleVars, dataVars
<1>1. Types'
  BY DEF DInv, Types, TypeOK
<1>2. Stages' /\ Inited' /\ Handed'
  BY DEF DInv, Stages, Loaded, Inited, Handed
<1>3. Draining' /\ Closing'
  BY DEF DInv, Draining, Closing
<1>. QED
  BY <1>1, <1>2, <1>3 DEF DInv

\* Every step of the daemon.
LEMMA NextDInv == DInv /\ [Next]_vars => DInv'
<1>. SUFFICES ASSUME DInv, [Next]_vars PROVE DInv'
  OBVIOUS
<1>1. CASE MainStep
  <2>1. ASSUME NEW m \in Module, InitFails(m) PROVE DInv'
    BY <2>1, LeaveDInv DEF InitFails
  <2>. QED
    BY <1>1, <2>1, LoadDInv, RegisterDInv, InitModuleDInv, StartReaderDInv, SetReadyDInv DEF MainStep
<1>2. CASE ExitStep
  BY <1>2, OsExitDInv, CloseDInv, CloseReturnsDInv DEF ExitStep
<1>3. CASE \E m \in Module : Loop(m)
  BY <1>3, FlushDInv, LoopStandsDInv, LoopEndsDInv DEF Loop
<1>4. CASE StartModule \/ Read \/ Update \/ Signal \/ UNCHANGED vars
  BY <1>4, StartModuleDInv, ReadDInv, UpdateDInv, SignalDInv, StutterDInv
<1>. QED
  BY <1>1, <1>2, <1>3, <1>4 DEF Next

\* The invariant of the daemon's life: how far main has come, which modules are
\* initialised and with what, which records are on their way to them, and how
\* far Exit is (main, BfeLogReader.Start and Exit).
THEOREM DaemonInvariant == Spec => []DInv
  BY InitDInv, NextDInv, PTL DEF Spec

\* The types of the daemon's state: what a module's loop has flushed, and what
\* it owes to Close, is never more than was queued.
THEOREM DaemonTypes == Spec => []TypeOK
<1>1. DInv => TypeOK
  BY DEF DInv, Types
<1>. QED
  BY <1>1, DaemonInvariant, PTL

\* For any configuration files, no Update runs before the Init of its module is
\* through, although the read loop and the modules share no lock
\* (BfeLogReader.Start).
THEOREM NoEarlyUpdate == Spec => []UpdateAfterInit
<1>1. DInv => UpdateAfterInit
  BY DEF DInv, UpdateAfterInit, Handed, Inited, Types, TypeOK
<1>. QED
  BY <1>1, DaemonInvariant, PTL

\* A loop that has died is that of mod_log_mysql, with more retries configured
\* than there are pauses.
DeadLoops ==
  \A m \in Module : loop[m] = "dead" =>
    m = "mod_log_mysql" /\ conf[m].MaxRetries > Len(retryBackoffMs)

LEMMA DeadLoopsStep ==
  ASSUME DInv, DeadLoops, [Next]_vars
  PROVE  DeadLoops'
<1>. USE DEF DeadLoops
<1>0. /\ loop \in [Module -> {"none", "running", "done", "dead", "hung"}]
      /\ conf \in [Module -> Confs]
  BY DEF DInv, Types, TypeOK
\* A step that leaves the configurations and makes no loop dead.
<1>1. ASSUME UNCHANGED conf, \A m \in Module : loop'[m] = "dead" => loop[m] = "dead"
      PROVE  DeadLoops'
  BY <1>1
\* Init of mod_log_mysql starts its loop; that of mod_kafka is not dead.
<1>2. ASSUME NEW m \in Module, InitModule(m) PROVE DeadLoops'
  <2>1. /\ loop' = IF m = "mod_kafka" THEN loop ELSE [loop EXCEPT ![m] = "running"]
        /\ \A k \in Module \ {m} : conf'[k] = conf[k]
    BY <1>0, <1>2 DEF InitModule, KafkaInits, MysqlInits
  <2>2. \A k \in Module \ {m} : loop'[k] = loop[k]
    BY <1>0, <2>1
  <2>3. loop'[m] # "dead"
    BY <1>0, <2>1
  <2>. QED
    BY <2>1, <2>2, <2>3
<1>3. ASSUME NEW m \in Module, LoopPanics(m) PROVE DeadLoops'
  <2>1. /\ m = "mod_log_mysql" /\ conf[m].MaxRetries > Len(retryBackoffMs)
        /\ UNCHANGED conf /\ loop' = [loop EXCEPT ![m] = "dead"]
    BY <1>3 DEF LoopPanics
  <2>. QED
    BY <1>0, <2>1
<1>4. ASSUME NEW m \in Module, Flush(m) \/ LoopHangs(m) \/ LoopEnds(m) PROVE DeadLoops'
  <2>1. /\ UNCHANGED conf
        /\ loop' = loop \/ loop' = [loop EXCEPT ![m] = "hung"] \/ loop' = [loop EXCEPT ![m] = "done"]
    BY <1>4 DEF Flush, LoopHangs, LoopEnds, moduleVars
  <2>. QED
    BY <1>0, <1>1, <2>1
<1>5. CASE StartModule
  <2>1. UNCHANGED conf /\ loop' = [loop EXCEPT !["mod_kafka"] = "running"]
    BY <1>5 DEF StartModule
  <2>. QED
    BY <1>0, <1>1, <2>1
<1>6. ASSUME UNCHANGED <<conf, loop>> PROVE DeadLoops'
  BY <1>6
<1>7. CASE Load \/ Register \/ (\E m \in Module : InitFails(m)) \/ StartReader \/ SetReady
           \/ ExitStep \/ Read \/ Update
  BY <1>6, <1>7 DEF Load, Register, InitFails, StartReader, SetReady, ExitStep, OsExit, Close,
     CloseReturns, Read, Update, moduleVars
<1>8. CASE Signal \/ UNCHANGED vars
  BY <1>6, <1>8 DEF Signal, SigInt, SigTerm, Woken, TermHandler, Die, vars, moduleVars
<1>. QED
  BY <1>2, <1>3, <1>4, <1>5, <1>7, <1>8 DEF Next, MainStep, Loop

LEMMA DeadLoopsInvariant == Spec => [](DInv /\ DeadLoops)
<1>1. Init => DeadLoops
  BY DEF Init, DeadLoops
<1>. QED
  BY <1>1, InitDInv, NextDInv, DeadLoopsStep, PTL DEF Spec

\* Whenever a signal comes, and however the modules' loops are scheduled, an exit
\* through Exit has closed every initialised module and flushed what its running
\* loop owed when Close was called; only the write loop of mod_log_mysql may have
\* died over it, and that takes more retries than retryBackoffMs has pauses
\* (BfeLogReader.Exit, Close of the modules, writeBatchWithRetry).
THEOREM ExitInOrder == Spec => []OrderlyExit
<1>1. DInv /\ DeadLoops => OrderlyExit
  <2>. SUFFICES ASSUME DInv, DeadLoops, pc = "gone", code # Killed, NEW m \in workModules
                PROVE  mod[m] \in {"new", "closed"} /\ (flushed[m] >= due[m] \/ Died(m))
    BY DEF OrderlyExit
  <2>1. m \in Module /\ flushed[m] \in Nat
    BY DEF DInv, Types, TypeOK
  <2>2. mod[m] \in {"new", "closed"}
    BY DEF DInv, Closing
  <2>3. mod[m] = "new" => due[m] = 0
    BY <2>1 DEF DInv, Draining
  <2>4. mod[m] = "closed" => due[m] <= flushed[m] \/ loop[m] = "dead"
    BY <2>1 DEF DInv, Draining
  <2>5. loop[m] = "dead" => Died(m)
    BY <2>1 DEF DeadLoops, Died
  <2>6. due[m] \in Nat
    BY <2>1 DEF DInv, Types
  <2>. QED
    BY <2>1, <2>2, <2>3, <2>4, <2>5, <2>6
<1>. QED
  BY <1>1, DeadLoopsInvariant, PTL

-----------------------------------------------------------------------------
(* The configuration *)

\* The modules that a list enables are entries of it that are not switched off.
LEMMA EnabledEntries ==
  ASSUME NEW modules \in Seq([name : STRING, switch : STRING]),
         NEW m \in ToSet(EnabledModules(modules))
  PROVE  \E i \in DOMAIN modules : modules[i].name = m /\ modules[i].switch \notin {"false", "off"}
<1>. DEFINE S == {i \in DOMAIN modules : ParseEnable(modules[i].switch)}
            on == SelectAt(modules, S)
<1>1. S \in SUBSET (1 .. Len(modules)) /\ DOMAIN modules = 1 .. Len(modules)
  OBVIOUS
<1>2. EnabledModules(modules) = [i \in DOMAIN on |-> on[i].name]
  BY DEF EnabledModules
<1>. HIDE DEF S
<1>3. /\ on \in Seq([name : STRING, switch : STRING]) /\ Len(on) = Cardinality(S)
      /\ \A k \in 1 .. Cardinality(S) : \E i \in S : on[k] = modules[i]
  BY <1>1, SelectAtProperties
<1>. HIDE DEF on
<1>4. DOMAIN on = 1 .. Cardinality(S)
  BY <1>3
<1>5. PICK k \in DOMAIN on : m = on[k].name
  BY <1>2 DEF ToSet
<1>6. PICK i \in S : on[k] = modules[i]
  BY <1>3, <1>4
<1>7. i \in DOMAIN modules /\ ParseEnable(modules[i].switch)
  BY <1>1 DEF S
<1>. QED
  BY <1>5, <1>6, <1>7 DEF ParseEnable

\* The value of a concatenation is a value of one of the two.
LEMMA ToSetConcat ==
  ASSUME NEW a \in Seq(STRING), NEW b \in Seq(STRING), NEW m \in ToSet(a \o b)
  PROVE  m \in ToSet(a) \cup ToSet(b)
<1>1. PICK i \in DOMAIN (a \o b) : m = (a \o b)[i]
  BY DEF ToSet
<1>2. /\ Len(a \o b) = Len(a) + Len(b) /\ Len(a) \in Nat /\ Len(b) \in Nat
      /\ DOMAIN (a \o b) = 1 .. Len(a \o b)
  BY ConcatProperties, LenProperties
<1>3. CASE i <= Len(a)
  <2>1. m = a[i] /\ i \in DOMAIN a
    BY <1>1, <1>2, <1>3, ConcatProperties
  <2>. QED
    BY <2>1 DEF ToSet
<1>4. CASE i > Len(a)
  <2>1. m = b[i - Len(a)] /\ i - Len(a) \in DOMAIN b
    BY <1>1, <1>2, <1>4, ConcatProperties
  <2>. QED
    BY <2>1 DEF ToSet
<1>. QED
  BY <1>1, <1>2, <1>3, <1>4

\* EnabledModules returns names.
LEMMA EnabledNames ==
  ASSUME NEW modules \in Seq([name : STRING, switch : STRING])
  PROVE  EnabledModules(modules) \in Seq(STRING)
<1>. DEFINE S == {i \in DOMAIN modules : ParseEnable(modules[i].switch)}
            on == SelectAt(modules, S)
<1>1. S \in SUBSET (1 .. Len(modules)) /\ DOMAIN modules = 1 .. Len(modules)
  OBVIOUS
<1>2. EnabledModules(modules) = [i \in DOMAIN on |-> on[i].name]
  BY DEF EnabledModules
<1>. HIDE DEF S
<1>3. on \in Seq([name : STRING, switch : STRING])
  BY <1>1, SelectAtProperties
<1>. HIDE DEF on
<1>4. DOMAIN on = 1 .. Len(on) /\ Len(on) \in Nat
  BY <1>3, LenProperties
<1>5. ASSUME NEW i \in 1 .. Len(on) PROVE on[i].name \in STRING
  <2>1. on[i] \in [name : STRING, switch : STRING]
    BY <1>3, <1>5, ElementOfSeq
  <2>2. PICK e \in [name : STRING, switch : STRING] : on[i] = e
    BY <2>1
  <2>. QED
    BY <2>2
<1>6. EnabledModules(modules) = [i \in 1 .. Len(on) |-> on[i].name]
  BY <1>2, <1>4
<1>. QED
  BY <1>4, <1>5, <1>6, IsASeq

\* For any configuration files, a module runs only if config.conf asks for it,
\* and with the batch sizes, queue sizes, intervals and retries in the ranges
\* on which its delivery relies (PbAccessLogConf.Check, ConfModKafkaCheck,
\* ConfModLogMysqlCheck).
THEOREM SoundConf == Spec => []ConfSound
<1>1. DInv => ConfSound
  <2>. SUFFICES ASSUME DInv, NEW m \in Module, mod[m] # "new"
                PROVE  /\ \/ \E i \in DOMAIN file.PbAccessLogConf.Modules :
                               /\ file.PbAccessLogConf.Modules[i].name = m
                               /\ file.PbAccessLogConf.Modules[i].switch \notin {"false", "off"}
                          \/ m \in ToSet(file.PbAccessLogConf.FinalModules)
                       /\ conf[m].BatchSize > 0 /\ conf[m].MaxRetries > 0
                       /\ m = "mod_log_mysql" => conf[m].QueueSize > 0 /\ conf[m].FlushIntervalMs > 0
                       /\ m = "mod_kafka" => conf[m].LingerMs > 0
    BY DEF ConfSound
  <2>1. m \in workModules /\ Loaded /\ workModules \subseteq Registered(config) /\ file \in ReaderFiles
    BY DEF DInv, Inited, Stages, Types
  <2>2. m \in ToSet(config.PbAccessLogConf.FinalModules)
    BY <2>1 DEF Registered, GetWorkModules
  <2>3. \/ \E i \in DOMAIN file.PbAccessLogConf.Modules :
             /\ file.PbAccessLogConf.Modules[i].name = m
             /\ file.PbAccessLogConf.Modules[i].switch \notin {"false", "off"}
        \/ m \in ToSet(file.PbAccessLogConf.FinalModules)
    <3>. DEFINE final == file.PbAccessLogConf.FinalModules
                list  == file.PbAccessLogConf.Modules
    <3>1. /\ final \in Seq(STRING) /\ list \in Seq([name : STRING, switch : STRING])
          /\ m \in ToSet(final \o EnabledModules(list))
      BY <2>1, <2>2, LoadedConf
    <3>. HIDE DEF final, list
    <3>2. EnabledModules(list) \in Seq(STRING)
      BY <3>1, EnabledNames
    <3>3. m \in ToSet(final) \/ m \in ToSet(EnabledModules(list))
      BY <3>1, <3>2, ToSetConcat
    <3>4. m \in ToSet(EnabledModules(list)) =>
            \E i \in DOMAIN list : list[i].name = m /\ list[i].switch \notin {"false", "off"}
      BY <3>1, EnabledEntries
    <3>. QED
      BY <3>3, <3>4 DEF final, list
  <2>4. CASE m = "mod_kafka"
    <3>1. PICK f \in KafkaFiles : conf[m] = ConfModKafkaCheck(f) /\ conf[m] # Rejected
      BY <2>4 DEF DInv, Inited
    <3>2. conf[m] = [f EXCEPT !.BatchSize = OrDefault(@, 1000), !.LingerMs = OrDefault(@, 100),
                              !.MaxRetries = OrDefault(@, 3)]
      BY <3>1 DEF ConfModKafkaCheck
    <3>3. f \in [Brokers : BOOLEAN, Topic : BOOLEAN, Compression : STRING,
                 BatchSize : Int, LingerMs : Int, MaxRetries : Int]
      BY FileAssumption
    <3>4. /\ conf[m].BatchSize = OrDefault(f.BatchSize, 1000)
          /\ conf[m].LingerMs = OrDefault(f.LingerMs, 100)
          /\ conf[m].MaxRetries = OrDefault(f.MaxRetries, 3)
      BY <3>2, <3>3
    <3>5. f.BatchSize \in Int /\ f.LingerMs \in Int /\ f.MaxRetries \in Int
      BY <3>3
    <3>6. /\ OrDefault(f.BatchSize, 1000) > 0 /\ OrDefault(f.LingerMs, 100) > 0
          /\ OrDefault(f.MaxRetries, 3) > 0
      BY <3>5 DEF OrDefault
    <3>7. conf[m].BatchSize > 0 /\ conf[m].MaxRetries > 0 /\ conf[m].LingerMs > 0
      BY <3>4, <3>6
    <3>. QED
      BY <3>7, <2>3, <2>4
  <2>5. CASE m = "mod_log_mysql"
    <3>1. PICK f \in MysqlFiles : conf[m] = ConfModLogMysqlCheck(f) /\ conf[m] # Rejected
      BY <2>5 DEF DInv, Inited
    <3>2. conf[m] = [f EXCEPT !.QueueSize = OrDefault(@, 2000), !.BatchSize = OrDefault(@, 200),
                              !.FlushIntervalMs = OrDefault(@, 2000), !.MaxRetries = OrDefault(@, 3),
                              !.MaxOpenConns = OrDefault(@, 10), !.MaxIdleConns = OrDefault(@, 5)]
      BY <3>1 DEF ConfModLogMysqlCheck
    <3>3. f \in [Addr : BOOLEAN, User : BOOLEAN, DBName : BOOLEAN, Table : BOOLEAN,
                 QueueSize : Int, BatchSize : Int, FlushIntervalMs : Int, MaxRetries : Int,
                 MaxOpenConns : Int, MaxIdleConns : Int]
      BY FileAssumption
    <3>4. /\ conf[m].BatchSize = OrDefault(f.BatchSize, 200)
          /\ conf[m].QueueSize = OrDefault(f.QueueSize, 2000)
          /\ conf[m].FlushIntervalMs = OrDefault(f.FlushIntervalMs, 2000)
          /\ conf[m].MaxRetries = OrDefault(f.MaxRetries, 3)
      BY <3>2, <3>3
    <3>5. /\ f.BatchSize \in Int /\ f.QueueSize \in Int /\ f.FlushIntervalMs \in Int
          /\ f.MaxRetries \in Int
      BY <3>3
    <3>6. /\ OrDefault(f.BatchSize, 200) > 0 /\ OrDefault(f.QueueSize, 2000) > 0
          /\ OrDefault(f.FlushIntervalMs, 2000) > 0 /\ OrDefault(f.MaxRetries, 3) > 0
      BY <3>5 DEF OrDefault
    <3>7. /\ conf[m].BatchSize > 0 /\ conf[m].MaxRetries > 0
          /\ conf[m].QueueSize > 0 /\ conf[m].FlushIntervalMs > 0
      BY <3>4, <3>6
    <3>. QED
      BY <3>7, <2>3, <2>5
  <2>. QED
    BY <2>4, <2>5 DEF Module, modulesSupport
<1>. QED
  BY <1>1, DaemonInvariant, PTL

-----------------------------------------------------------------------------
(* The columns of a row *)

\* The names of the fields of a registry section.
FieldsOf(rows) == {e.name : e \in rows}

\* The fields, section by section.
LEMMA FieldsBySection ==
  AllFields = UNION {FieldsOf(s) : s \in {TopLevel, Connection, RequestBasic, RequestHeader,
                   CookieAndHeaders, Routing, Response, Timing, AiKey, AiUsage,
                   AiV020, Address}}
  BY DEF AllFields, Registry, FieldsOf

LEMMA SectionNames ==
  /\ FieldsOf(TopLevel) = {"logid", "timestamp", "product", "hostid", "log_tag"}
  /\ FieldsOf(Connection) = {"client_ip", "client_network", "req_num", "session_id"}
  /\ FieldsOf(RequestBasic) = {"err_code", "err_msg", "req_header_len", "req_body_len"}
  /\ FieldsOf(RequestHeader) =
       {"proto", "header_host", "origin_uri", "method", "final_uri", "content_type",
        "x_forward_for", "accept_language", "authorization", "transfer_encoding",
        "referrer", "user_agent", "delegation", "uid"}
  /\ FieldsOf(CookieAndHeaders) = {"cookie", "req_headers"}
  /\ FieldsOf(Routing) = {"cluster", "sub_cluster", "backend_info", "backend_retry"}
  /\ FieldsOf(Response) =
       {"res_status_code", "res_header_len", "res_body_len", "res_content_type",
        "res_location", "res_transfer_encoding", "res_headers"}
  /\ FieldsOf(Timing) =
       {"all_time", "read_client_time", "cluster_serve_time", "backend_serve_time",
        "write_client_time", "proxy_delay_time", "connect_backend_time",
        "session_offset_time"}
  /\ FieldsOf(AiKey) =
       {"ai_apikey_id", "ai_requested_model", "ai_target_model", "ai_apikeytags", "ai_stream"}
  /\ FieldsOf(AiUsage) =
       {"ai_input_tokens", "ai_output_tokens", "ai_total_tokens", "ai_cache_read_tokens",
        "ai_cache_write_tokens", "ai_audio_input_tokens", "ai_audio_output_tokens",
        "ai_image_count", "ai_image_input_tokens", "ai_video_count", "ai_ttft_us",
        "ai_tpot_us", "ai_rate_limit_hits", "ai_auth_reject_reason",
        "ai_auth_reject_quota_plans"}
  /\ FieldsOf(AiV020) =
       {"ai_provider", "ai_protocol", "ai_mode", "ai_cost_currency", "ai_retry_count",
        "ai_cost_value", "ai_route_rule_hits", "ai_cluster_key_names",
        "ai_auth_hit_quota_plans"}
  /\ FieldsOf(Address) = {"bfe_ip", "sock_src_ip", "vip", "vip6", "is_trust_src_ip"}
<1>1. ASSUME NEW class, NEW typ, NEW names PROVE FieldsOf(Rows(class, typ, names)) = names
  <2>1. ASSUME NEW f \in names PROVE f \in FieldsOf(Rows(class, typ, names))
    <3>1. [name |-> f, type |-> typ, class |-> class] \in Rows(class, typ, names)
      BY DEF Rows
    <3>. QED
      BY <3>1 DEF FieldsOf
  <2>2. ASSUME NEW f \in FieldsOf(Rows(class, typ, names)) PROVE f \in names
    BY DEF FieldsOf, Rows
  <2>. QED
    BY <2>1, <2>2
<1>2. FieldsOf(TopLevel) = {"logid", "timestamp", "product", "hostid", "log_tag"}
  <2>1. PICK a, b, c :
          /\ a = Rows("required", "uint64", {"logid", "timestamp"})
          /\ b = Rows("required", "string", {"product", "hostid"})
          /\ c = Rows("optional", "string", {"log_tag"})
    OBVIOUS
  <2>2. FieldsOf(a) = {"logid", "timestamp"}
    BY <1>1, <2>1
  <2>3. FieldsOf(b) = {"product", "hostid"}
    BY <1>1, <2>1
  <2>4. FieldsOf(c) = {"log_tag"}
    BY <1>1, <2>1
  <2>5. FieldsOf(a \cup b \cup c) = FieldsOf(a) \cup FieldsOf(b) \cup FieldsOf(c)
    BY DEF FieldsOf
  <2>6. TopLevel = a \cup b \cup c
    BY <2>1 DEF TopLevel
  <2>. QED
    BY <2>2, <2>3, <2>4, <2>5, <2>6
<1>3. FieldsOf(Connection) = {"client_ip", "client_network", "req_num", "session_id"}
  <2>1. PICK a, b, c, d :
          /\ a = Rows("required", "string", {"client_ip"})
          /\ b = Rows("optional", "string", {"client_network"})
          /\ c = Rows("optional", "uint32", {"req_num"})
          /\ d = Rows("optional", "uint64", {"session_id"})
    OBVIOUS
  <2>2. FieldsOf(a) = {"client_ip"}
    BY <1>1, <2>1
  <2>3. FieldsOf(b) = {"client_network"}
    BY <1>1, <2>1
  <2>4. FieldsOf(c) = {"req_num"}
    BY <1>1, <2>1
  <2>5. FieldsOf(d) = {"session_id"}
    BY <1>1, <2>1
  <2>6. FieldsOf(a \cup b \cup c \cup d) = FieldsOf(a) \cup FieldsOf(b) \cup FieldsOf(c) \cup FieldsOf(d)
    BY DEF FieldsOf
  <2>7. Connection = a \cup b \cup c \cup d
    BY <2>1 DEF Connection
  <2>. QED
    BY <2>2, <2>3, <2>4, <2>5, <2>6, <2>7
<1>4. FieldsOf(RequestBasic) = {"err_code", "err_msg", "req_header_len", "req_body_len"}
  <2>1. PICK a, b :
          /\ a = Rows("required", "string", {"err_code", "err_msg"})
          /\ b = Rows("required", "uint32", {"req_header_len", "req_body_len"})
    OBVIOUS
  <2>2. FieldsOf(a) = {"err_code", "err_msg"}
    BY <1>1, <2>1
  <2>3. FieldsOf(b) = {"req_header_len", "req_body_len"}
    BY <1>1, <2>1
  <2>4. FieldsOf(a \cup b) = FieldsOf(a) \cup FieldsOf(b)
    BY DEF FieldsOf
  <2>5. RequestBasic = a \cup b
    BY <2>1 DEF RequestBasic
  <2>. QED
    BY <2>2, <2>3, <2>4, <2>5
<1>5. FieldsOf(RequestHeader) =
       {"proto", "header_host", "origin_uri", "method", "final_uri", "content_type",
        "x_forward_for", "accept_language", "authorization", "transfer_encoding",
        "referrer", "user_agent", "delegation", "uid"}
  <2>1. PICK a, b, c :
          /\ a = Rows("required", "string", {"proto", "header_host", "origin_uri",
                                             "method"})
          /\ b = Rows("default", "string", {"final_uri", "content_type",
                                            "x_forward_for", "accept_language",
                                            "authorization", "transfer_encoding"})
          /\ c = Rows("optional", "string", {"referrer", "user_agent", "delegation",
                                             "uid"})
    OBVIOUS
  <2>2. FieldsOf(a) = {"proto", "header_host", "origin_uri", "method"}
    BY <1>1, <2>1
  <2>3. FieldsOf(b) = {"final_uri", "content_type", "x_forward_for",
                           "accept_language", "authorization", "transfer_encoding"}
    BY <1>1, <2>1
  <2>4. FieldsOf(c) = {"referrer", "user_agent", "delegation", "uid"}
    BY <1>1, <2>1
  <2>5. FieldsOf(a \cup b \cup c) = FieldsOf(a) \cup FieldsOf(b) \cup FieldsOf(c)
    BY DEF FieldsOf
  <2>6. RequestHeader = a \cup b \cup c
    BY <2>1 DEF RequestHeader
  <2>. QED
    BY <2>2, <2>3, <2>4, <2>5, <2>6
<1>6. FieldsOf(CookieAndHeaders) = {"cookie", "req_headers"}
  <2>1. PICK a, b :
          /\ a = Rows("optional", "string", {"cookie"})
          /\ b = Rows("optional", "[]object", {"req_headers"})
    OBVIOUS
  <2>2. FieldsOf(a) = {"cookie"}
    BY <1>1, <2>1
  <2>3. FieldsOf(b) = {"req_headers"}
    BY <1>1, <2>1
  <2>4. FieldsOf(a \cup b) = FieldsOf(a) \cup FieldsOf(b)
    BY DEF FieldsOf
  <2>5. CookieAndHeaders = a \cup b
    BY <2>1 DEF CookieAndHeaders
  <2>. QED
    BY <2>2, <2>3, <2>4, <2>5
<1>7. FieldsOf(Routing) = {"cluster", "sub_cluster", "backend_info", "backend_retry"}
  <2>1. PICK a, b :
          /\ a = Rows("default", "string", {"cluster", "sub_cluster", "backend_info"})
          /\ b = Rows("default", "uint32", {"backend_retry"})
    OBVIOUS
  <2>2. FieldsOf(a) = {"cluster", "sub_cluster", "backend_info"}
    BY <1>1, <2>1
  <2>3. FieldsOf(b) = {"backend_retry"}
    BY <1>1, <2>1
  <2>4. FieldsOf(a \cup b) = FieldsOf(a) \cup FieldsOf(b)
    BY DEF FieldsOf
  <2>5. Routing = a \cup b
    BY <2>1 DEF Routing
  <2>. QED
    BY <2>2, <2>3, <2>4, <2>5
<1>8. FieldsOf(Response) =
       {"res_status_code", "res_header_len", "res_body_len", "res_content_type",
        "res_location", "res_transfer_encoding", "res_headers"}
  <2>1. PICK a, b, c, d :
          /\ a = Rows("required", "uint32", {"res_status_code", "res_header_len",
                                             "res_body_len"})
          /\ b = Rows("default", "string", {"res_content_type"})
          /\ c = Rows("optional", "string", {"res_location", "res_transfer_encoding"})
          /\ d = Rows("optional", "[]object", {"res_headers"})
    OBVIOUS
  <2>2. FieldsOf(a) = {"res_status_code", "res_header_len", "res_body_len"}
    BY <1>1, <2>1
  <2>3. FieldsOf(b) = {"res_content_type"}
    BY <1>1, <2>1
  <2>4. FieldsOf(c) = {"res_location", "res_transfer_encoding"}
    BY <1>1, <2>1
  <2>5. FieldsOf(d) = {"res_headers"}
    BY <1>1, <2>1
  <2>6. FieldsOf(a \cup b \cup c \cup d) = FieldsOf(a) \cup FieldsOf(b) \cup FieldsOf(c) \cup FieldsOf(d)
    BY DEF FieldsOf
  <2>7. Response = a \cup b \cup c \cup d
    BY <2>1 DEF Response
  <2>. QED
    BY <2>2, <2>3, <2>4, <2>5, <2>6, <2>7
<1>9. FieldsOf(Timing) =
       {"all_time", "read_client_time", "cluster_serve_time", "backend_serve_time",
        "write_client_time", "proxy_delay_time", "connect_backend_time",
        "session_offset_time"}
  <2>1. PICK a, b, c :
          /\ a = Rows("required", "uint32", {"all_time", "read_client_time",
                                             "cluster_serve_time", "backend_serve_time",
                                             "write_client_time", "proxy_delay_time"})
          /\ b = Rows("default", "uint32", {"connect_backend_time"})
          /\ c = Rows("optional", "uint32", {"session_offset_time"})
    OBVIOUS
  <2>2. FieldsOf(a) = {"all_time", "read_client_time", "cluster_serve_time",
                           "backend_serve_time", "write_client_time",
                           "proxy_delay_time"}
    BY <1>1, <2>1
  <2>3. FieldsOf(b) = {"connect_backend_time"}
    BY <1>1, <2>1
  <2>4. FieldsOf(c) = {"session_offset_time"}
    BY <1>1, <2>1
  <2>5. FieldsOf(a \cup b \cup c) = FieldsOf(a) \cup FieldsOf(b) \cup FieldsOf(c)
    BY DEF FieldsOf
  <2>6. Timing = a \cup b \cup c
    BY <2>1 DEF Timing
  <2>. QED
    BY <2>2, <2>3, <2>4, <2>5, <2>6
<1>10. FieldsOf(AiKey) =
       {"ai_apikey_id", "ai_requested_model", "ai_target_model", "ai_apikeytags", "ai_stream"}
  <2>1. PICK a, b, c :
          /\ a = Rows("default", "string", {"ai_apikey_id", "ai_requested_model",
                                            "ai_target_model"})
          /\ b = Rows("default", "object", {"ai_apikeytags"})
          /\ c = Rows("default", "bool", {"ai_stream"})
    OBVIOUS
  <2>2. FieldsOf(a) = {"ai_apikey_id", "ai_requested_model", "ai_target_model"}
    BY <1>1, <2>1
  <2>3. FieldsOf(b) = {"ai_apikeytags"}
    BY <1>1, <2>1
  <2>4. FieldsOf(c) = {"ai_stream"}
    BY <1>1, <2>1
  <2>5. FieldsOf(a \cup b \cup c) = FieldsOf(a) \cup FieldsOf(b) \cup FieldsOf(c)
    BY DEF FieldsOf
  <2>6. AiKey = a \cup b \cup c
    BY <2>1 DEF AiKey
  <2>. QED
    BY <2>2, <2>3, <2>4, <2>5, <2>6
<1>11. FieldsOf(AiUsage) =
       {"ai_input_tokens", "ai_output_tokens", "ai_total_tokens", "ai_cache_read_tokens",
        "ai_cache_write_tokens", "ai_audio_input_tokens", "ai_audio_output_tokens",
        "ai_image_count", "ai_image_input_tokens", "ai_video_count", "ai_ttft_us",
        "ai_tpot_us", "ai_rate_limit_hits", "ai_auth_reject_reason",
        "ai_auth_reject_quota_plans"}
  <2>1. PICK a, b, c, d :
          /\ a = Rows("default", "int64", {"ai_input_tokens", "ai_output_tokens",
                                           "ai_total_tokens", "ai_cache_read_tokens",
                                           "ai_cache_write_tokens",
                                           "ai_audio_input_tokens",
                                           "ai_audio_output_tokens", "ai_image_count",
                                           "ai_image_input_tokens", "ai_video_count",
                                           "ai_ttft_us", "ai_tpot_us"})
          /\ b = Rows("default", "[]object", {"ai_rate_limit_hits"})
          /\ c = Rows("default", "string", {"ai_auth_reject_reason"})
          /\ d = Rows("default", "[]string", {"ai_auth_reject_quota_plans"})
    OBVIOUS
  <2>2. FieldsOf(a) = {"ai_input_tokens", "ai_output_tokens", "ai_total_tokens",
                           "ai_cache_read_tokens", "ai_cache_write_tokens",
                           "ai_audio_input_tokens", "ai_audio_output_tokens",
                           "ai_image_count", "ai_image_input_tokens", "ai_video_count",
                           "ai_ttft_us", "ai_tpot_us"}
    BY <1>1, <2>1
  <2>3. FieldsOf(b) = {"ai_rate_limit_hits"}
    BY <1>1, <2>1
  <2>4. FieldsOf(c) = {"ai_auth_reject_reason"}
    BY <1>1, <2>1
  <2>5. FieldsOf(d) = {"ai_auth_reject_quota_plans"}
    BY <1>1, <2>1
  <2>6. FieldsOf(a \cup b \cup c \cup d) = FieldsOf(a) \cup FieldsOf(b) \cup FieldsOf(c) \cup FieldsOf(d)
    BY DEF FieldsOf
  <2>7. AiUsage = a \cup b \cup c \cup d
    BY <2>1 DEF AiUsage
  <2>. QED
    BY <2>2, <2>3, <2>4, <2>5, <2>6, <2>7
<1>12. FieldsOf(AiV020) =
       {"ai_provider", "ai_protocol", "ai_mode", "ai_cost_currency", "ai_retry_count",
        "ai_cost_value", "ai_route_rule_hits", "ai_cluster_key_names",
        "ai_auth_hit_quota_plans"}
  <2>1. PICK a, b, c, d, e :
          /\ a = Rows("default", "string", {"ai_provider", "ai_protocol", "ai_mode",
                                            "ai_cost_currency"})
          /\ b = Rows("default", "uint32", {"ai_retry_count"})
          /\ c = Rows("default", "int64", {"ai_cost_value"})
          /\ d = Rows("default", "[]object", {"ai_route_rule_hits",
                                              "ai_cluster_key_names"})
          /\ e = Rows("default", "[]string", {"ai_auth_hit_quota_plans"})
    OBVIOUS
  <2>2. FieldsOf(a) = {"ai_provider", "ai_protocol", "ai_mode", "ai_cost_currency"}
    BY <1>1, <2>1
  <2>3. FieldsOf(b) = {"ai_retry_count"}
    BY <1>1, <2>1
  <2>4. FieldsOf(c) = {"ai_cost_value"}
    BY <1>1, <2>1
  <2>5. FieldsOf(d) = {"ai_route_rule_hits", "ai_cluster_key_names"}
    BY <1>1, <2>1
  <2>6. FieldsOf(e) = {"ai_auth_hit_quota_plans"}
    BY <1>1, <2>1
  <2>7. FieldsOf(a \cup b \cup c \cup d \cup e) = FieldsOf(a) \cup FieldsOf(b) \cup FieldsOf(c) \cup FieldsOf(d) \cup FieldsOf(e)
    BY DEF FieldsOf
  <2>8. AiV020 = a \cup b \cup c \cup d \cup e
    BY <2>1 DEF AiV020
  <2>. QED
    BY <2>2, <2>3, <2>4, <2>5, <2>6, <2>7, <2>8
<1>13. FieldsOf(Address) = {"bfe_ip", "sock_src_ip", "vip", "vip6", "is_trust_src_ip"}
  <2>1. PICK a, b :
          /\ a = Rows("optional", "string", {"bfe_ip", "sock_src_ip", "vip", "vip6"})
          /\ b = Rows("default", "bool", {"is_trust_src_ip"})
    OBVIOUS
  <2>2. FieldsOf(a) = {"bfe_ip", "sock_src_ip", "vip", "vip6"}
    BY <1>1, <2>1
  <2>3. FieldsOf(b) = {"is_trust_src_ip"}
    BY <1>1, <2>1
  <2>4. FieldsOf(a \cup b) = FieldsOf(a) \cup FieldsOf(b)
    BY DEF FieldsOf
  <2>5. Address = a \cup b
    BY <2>1 DEF Address
  <2>. QED
    BY <2>2, <2>3, <2>4, <2>5
<1>. QED
  BY <1>2, <1>3, <1>4, <1>5, <1>6, <1>7, <1>8, <1>9, <1>10, <1>11, <1>12, <1>13

\* A column either has the name of no field, or writes the field of its name.
OtherName ==
  {"log_time", "level1Name", "level1", "level2Name", "level2", "level3Name", "level3",
   "level4Name", "level4", "level5Name", "level5"}
Column ==
  [name : AllFields \cup OtherName, field : AllFields \cup Int,
   kind : {"scalar", "boolTiny", "json", "logTime", "tagName", "tagValue"}]
GoodColumn ==
  {c \in Column :
     c.name \in AllFields => c.field = c.name /\ c.kind \in {"scalar", "boolTiny", "json"}}

NamesOf(cols) == {c.name : c \in Range(cols)}

LEMMA JoinColumns ==
  ASSUME NEW s \in Seq(GoodColumn), NEW t \in Seq(GoodColumn)
  PROVE  /\ s \o t \in Seq(GoodColumn)
         /\ Range(s \o t) = Range(s) \cup Range(t)
         /\ NamesOf(s \o t) = NamesOf(s) \cup NamesOf(t)
<1>1. s \o t \in Seq(GoodColumn)
  BY ConcatProperties
<1>2. Range(s \o t) = Range(s) \cup Range(t)
  BY RangeConcatenation
<1>. QED
  BY <1>1, <1>2 DEF NamesOf

\* Columns that bear the names of the fields they write.
LEMMA ColColumns ==
  ASSUME NEW kind \in {"scalar", "boolTiny", "json"}, NEW names \in Seq(AllFields)
  PROVE  Col(kind, names) \in Seq(GoodColumn) /\ NamesOf(Col(kind, names)) = Range(names)
<1>1. Len(names) \in Nat /\ names \in [1 .. Len(names) -> AllFields]
  BY LenProperties
<1>2. Col(kind, names) =
        [i \in 1 .. Len(names) |-> [name |-> names[i], field |-> names[i], kind |-> kind]]
  BY <1>1 DEF Col
<1>3. \A i \in 1 .. Len(names) :
        [name |-> names[i], field |-> names[i], kind |-> kind] \in GoodColumn
  BY <1>1 DEF GoodColumn, Column
<1>4. Col(kind, names) \in Seq(GoodColumn)
  BY <1>1, <1>2, <1>3
<1>5. NamesOf(Col(kind, names)) = Range(names)
  BY <1>1, <1>2 DEF NamesOf, Range
<1>. QED
  BY <1>4, <1>5

LEMMA ScalarColumns ==
  ASSUME NEW names \in Seq(AllFields)
  PROVE  Scalar(names) \in Seq(GoodColumn) /\ NamesOf(Scalar(names)) = Range(names)
  BY ColColumns DEF Scalar

\* A column of another name.
LEMMA OtherColumn ==
  ASSUME NEW c \in Column, c.name \notin AllFields
  PROVE  <<c>> \in Seq(GoodColumn) /\ NamesOf(<<c>>) = {c.name} /\ Range(<<c>>) = {c}
<1>1. c \in GoodColumn
  BY DEF GoodColumn
<1>2. Range(<<c>>) = {c}
  BY DEF Range
<1>. QED
  BY <1>1, <1>2 DEF NamesOf

\* The names of the columns that bear field names, section by section.
LEMMA BasicNames ==
  /\ BasicColumns \in Seq(GoodColumn)
  /\ NamesOf(BasicColumns) =
       {"hostid", "log_time", "ai_apikey_id", "ai_requested_model", "logid", "product", "log_tag"}
<1>1. "log_time" \notin AllFields
  BY FieldsBySection, SectionNames
<1>2. PICK a, b, c :
        /\ a = Scalar(<<"hostid">>)
        /\ b = << [name |-> "log_time", field |-> "timestamp", kind |-> "logTime"] >>
        /\ c = Scalar(<<"ai_apikey_id", "ai_requested_model", "logid", "product", "log_tag">>)
  OBVIOUS
<1>3. a \in Seq(GoodColumn) /\ NamesOf(a) = {"hostid"}
  <2>1. Range(<<"hostid">>) = {"hostid"}
    BY DEF Range
  <2>2. "hostid" \in AllFields
    BY FieldsBySection, SectionNames
  <2>3. <<"hostid">> \in Seq(AllFields)
    BY <2>2
  <2>. QED
    BY <1>2, <2>1, <2>3, ScalarColumns
<1>4. b \in Seq(GoodColumn) /\ NamesOf(b) = {"log_time"}
  <2>1. PICK d : d = [name |-> "log_time", field |-> "timestamp", kind |-> "logTime"]
    OBVIOUS
  <2>2. "timestamp" \in AllFields
    BY FieldsBySection, SectionNames
  <2>3. d \in Column /\ d.name = "log_time"
    BY <2>1, <2>2 DEF Column, OtherName
  <2>. QED
    BY <1>1, <1>2, <2>1, <2>3, OtherColumn
<1>5. /\ c \in Seq(GoodColumn)
      /\ NamesOf(c) = {"ai_apikey_id", "ai_requested_model", "logid", "product", "log_tag"}
  <2>. DEFINE t == <<"ai_apikey_id", "ai_requested_model", "logid", "product", "log_tag">>
  <2>0. {"ai_apikey_id", "ai_requested_model", "logid", "product", "log_tag"} \subseteq AllFields
    BY FieldsBySection, SectionNames
  <2>1. t \in Seq(AllFields)
    BY <2>0
  <2>2. Range(t) = {"ai_apikey_id", "ai_requested_model", "logid", "product", "log_tag"}
    BY DEF Range
  <2>. HIDE DEF t
  <2>3. Scalar(t) \in Seq(GoodColumn) /\ NamesOf(Scalar(t)) = Range(t)
    BY <2>1, ScalarColumns
  <2>. QED
    BY <1>2, <2>2, <2>3 DEF t
<1>6. PICK ab : ab = a \o b
  OBVIOUS
<1>7. ab \in Seq(GoodColumn) /\ NamesOf(ab) = {"hostid", "log_time"}
  BY <1>3, <1>4, <1>6, JoinColumns
<1>8. BasicColumns = ab \o c
  BY <1>2, <1>6 DEF BasicColumns
<1>. QED
  BY <1>5, <1>7, <1>8, JoinColumns

\* A section of columns of field names, in two or three parts.
LEMMA TwoParts ==
  ASSUME NEW k \in {"scalar", "boolTiny", "json"}, NEW l \in {"scalar", "boolTiny", "json"},
         NEW t \in Seq(AllFields), NEW u \in Seq(AllFields)
  PROVE  /\ Col(k, t) \o Col(l, u) \in Seq(GoodColumn)
         /\ NamesOf(Col(k, t) \o Col(l, u)) = Range(t) \cup Range(u)
<1>1. PICK a, b : a = Col(k, t) /\ b = Col(l, u)
  OBVIOUS
<1>2. /\ a \in Seq(GoodColumn) /\ b \in Seq(GoodColumn)
      /\ NamesOf(a) = Range(t) /\ NamesOf(b) = Range(u)
  BY <1>1, ColColumns
<1>3. a \o b \in Seq(GoodColumn) /\ NamesOf(a \o b) = Range(t) \cup Range(u)
  BY <1>2, JoinColumns
<1>. QED
  BY <1>1, <1>3

LEMMA ThreeParts ==
  ASSUME NEW k \in {"scalar", "boolTiny", "json"}, NEW l \in {"scalar", "boolTiny", "json"},
         NEW m \in {"scalar", "boolTiny", "json"},
         NEW t \in Seq(AllFields), NEW u \in Seq(AllFields), NEW v \in Seq(AllFields)
  PROVE  /\ Col(k, t) \o Col(l, u) \o Col(m, v) \in Seq(GoodColumn)
         /\ NamesOf(Col(k, t) \o Col(l, u) \o Col(m, v)) = Range(t) \cup Range(u) \cup Range(v)
<1>1. PICK a, b : a = Col(k, t) \o Col(l, u) /\ b = Col(m, v)
  OBVIOUS
<1>2. /\ a \in Seq(GoodColumn) /\ b \in Seq(GoodColumn)
      /\ NamesOf(a) = Range(t) \cup Range(u) /\ NamesOf(b) = Range(v)
  BY <1>1, TwoParts, ColColumns, SMTT(20)
<1>3. a \o b \in Seq(GoodColumn) /\ NamesOf(a \o b) = Range(t) \cup Range(u) \cup Range(v)
  BY <1>2, JoinColumns
<1>. QED
  BY <1>1, <1>3

LEMMA ClientNames ==
  /\ ClientColumns \in Seq(GoodColumn)
  /\ NamesOf(ClientColumns) =
       {"client_ip", "client_network", "is_trust_src_ip", "req_num", "session_id",
        "bfe_ip", "sock_src_ip", "vip", "vip6"}
<1>. DEFINE t == <<"client_ip", "client_network">>
            u == <<"is_trust_src_ip">>
            v == <<"req_num", "session_id", "bfe_ip", "sock_src_ip", "vip", "vip6">>
<1>1. t \in Seq(AllFields) /\ u \in Seq(AllFields) /\ v \in Seq(AllFields)
  <2>1. {"client_ip", "client_network", "is_trust_src_ip", "req_num", "session_id",
        "bfe_ip", "sock_src_ip", "vip", "vip6"} \subseteq AllFields
    BY FieldsBySection, SectionNames
  <2>. QED
    BY <2>1
<1>2. Range(t) = {"client_ip", "client_network"}
  BY DEF Range
<1>3. Range(u) = {"is_trust_src_ip"}
  BY DEF Range
<1>4. Range(v) = {"req_num", "session_id", "bfe_ip", "sock_src_ip", "vip", "vip6"}
  BY DEF Range
<1>5. ClientColumns = Col("scalar", t) \o Col("boolTiny", u) \o Col("scalar", v)
  BY DEF ClientColumns, Scalar
<1>. HIDE DEF t, u, v
<1>6. ClientColumns \in Seq(GoodColumn) /\ NamesOf(ClientColumns) = Range(t) \cup Range(u) \cup Range(v)
  BY <1>1, <1>5, ThreeParts
<1>. QED
  BY <1>2, <1>3, <1>4, <1>6

LEMMA RequestNames ==
  /\ RequestColumns \in Seq(GoodColumn)
  /\ NamesOf(RequestColumns) =
       {"err_code", "err_msg", "proto", "header_host", "origin_uri", "final_uri",
        "method", "content_type", "x_forward_for", "accept_language", "authorization",
        "transfer_encoding", "referrer", "user_agent", "delegation", "uid", "cookie",
        "req_headers", "req_header_len", "req_body_len"}
<1>. DEFINE t == <<"err_code", "err_msg", "proto", "header_host", "origin_uri",
                   "final_uri", "method", "content_type", "x_forward_for",
                   "accept_language", "authorization", "transfer_encoding", "referrer",
                   "user_agent", "delegation", "uid", "cookie">>
            u == <<"req_headers">>
            v == <<"req_header_len", "req_body_len">>
<1>1. t \in Seq(AllFields) /\ u \in Seq(AllFields) /\ v \in Seq(AllFields)
  <2>1. {"err_code", "err_msg", "proto", "header_host", "origin_uri", "final_uri",
        "method", "content_type", "x_forward_for", "accept_language", "authorization",
        "transfer_encoding", "referrer", "user_agent", "delegation", "uid", "cookie",
        "req_headers", "req_header_len", "req_body_len"} \subseteq AllFields
    BY FieldsBySection, SectionNames
  <2>. QED
    BY <2>1
<1>2. Range(t) = {"err_code", "err_msg", "proto", "header_host", "origin_uri",
                  "final_uri", "method", "content_type", "x_forward_for",
                  "accept_language", "authorization", "transfer_encoding", "referrer",
                  "user_agent", "delegation", "uid", "cookie"}
  BY DEF Range
<1>3. Range(u) = {"req_headers"}
  BY DEF Range
<1>4. Range(v) = {"req_header_len", "req_body_len"}
  BY DEF Range
<1>5. RequestColumns = Col("scalar", t) \o Col("json", u) \o Col("scalar", v)
  BY DEF RequestColumns, Scalar
<1>. HIDE DEF t, u, v
<1>6. RequestColumns \in Seq(GoodColumn) /\ NamesOf(RequestColumns) = Range(t) \cup Range(u) \cup Range(v)
  BY <1>1, <1>5, ThreeParts
<1>. QED
  BY <1>2, <1>3, <1>4, <1>6

LEMMA RoutingNames ==
  /\ RoutingColumns \in Seq(GoodColumn)
  /\ NamesOf(RoutingColumns) =
       {"cluster", "sub_cluster", "backend_info", "backend_retry"}
<1>. DEFINE t == <<"cluster", "sub_cluster", "backend_info", "backend_retry">>
<1>1. t \in Seq(AllFields)
  <2>1. {"cluster", "sub_cluster", "backend_info", "backend_retry"} \subseteq AllFields
    BY FieldsBySection, SectionNames
  <2>. QED
    BY <2>1
<1>2. Range(t) = {"cluster", "sub_cluster", "backend_info", "backend_retry"}
  BY DEF Range
<1>3. RoutingColumns = Col("scalar", t)
  BY DEF RoutingColumns, Scalar
<1>. HIDE DEF t
<1>4. RoutingColumns \in Seq(GoodColumn) /\ NamesOf(RoutingColumns) = Range(t)
  BY <1>1, <1>3, ColColumns
<1>. QED
  BY <1>2, <1>4

LEMMA ResponseNames ==
  /\ ResponseColumns \in Seq(GoodColumn)
  /\ NamesOf(ResponseColumns) =
       {"res_status_code", "res_header_len", "res_body_len", "res_content_type",
        "res_location", "res_transfer_encoding", "res_headers"}
<1>. DEFINE t == <<"res_status_code", "res_header_len", "res_body_len",
                   "res_content_type", "res_location", "res_transfer_encoding">>
            u == <<"res_headers">>
<1>1. t \in Seq(AllFields) /\ u \in Seq(AllFields)
  <2>1. {"res_status_code", "res_header_len", "res_body_len", "res_content_type",
        "res_location", "res_transfer_encoding", "res_headers"} \subseteq AllFields
    BY FieldsBySection, SectionNames
  <2>. QED
    BY <2>1
<1>2. Range(t) = {"res_status_code", "res_header_len", "res_body_len",
                  "res_content_type", "res_location", "res_transfer_encoding"}
  BY DEF Range
<1>3. Range(u) = {"res_headers"}
  BY DEF Range
<1>4. ResponseColumns = Col("scalar", t) \o Col("json", u)
  BY DEF ResponseColumns, Scalar
<1>. HIDE DEF t, u
<1>5. ResponseColumns \in Seq(GoodColumn) /\ NamesOf(ResponseColumns) = Range(t) \cup Range(u)
  BY <1>1, <1>4, TwoParts
<1>. QED
  BY <1>2, <1>3, <1>5

LEMMA TimeNames ==
  /\ TimeColumns \in Seq(GoodColumn)
  /\ NamesOf(TimeColumns) =
       {"all_time", "read_client_time", "cluster_serve_time", "backend_serve_time",
        "write_client_time", "connect_backend_time", "proxy_delay_time",
        "session_offset_time"}
<1>. DEFINE t == <<"all_time", "read_client_time", "cluster_serve_time",
                   "backend_serve_time", "write_client_time", "connect_backend_time",
                   "proxy_delay_time", "session_offset_time">>
<1>1. t \in Seq(AllFields)
  <2>1. {"all_time", "read_client_time", "cluster_serve_time", "backend_serve_time",
        "write_client_time", "connect_backend_time", "proxy_delay_time",
        "session_offset_time"} \subseteq AllFields
    BY FieldsBySection, SectionNames
  <2>. QED
    BY <2>1
<1>2. Range(t) = {"all_time", "read_client_time", "cluster_serve_time",
                  "backend_serve_time", "write_client_time", "connect_backend_time",
                  "proxy_delay_time", "session_offset_time"}
  BY DEF Range
<1>3. TimeColumns = Col("scalar", t)
  BY DEF TimeColumns, Scalar
<1>. HIDE DEF t
<1>4. TimeColumns \in Seq(GoodColumn) /\ NamesOf(TimeColumns) = Range(t)
  BY <1>1, <1>3, ColColumns
<1>. QED
  BY <1>2, <1>4

LEMMA AiNames ==
  /\ AiColumns \in Seq(GoodColumn)
  /\ NamesOf(AiColumns) =
       {"ai_target_model", "ai_stream", "ai_input_tokens", "ai_output_tokens",
        "ai_total_tokens", "ai_cache_read_tokens", "ai_cache_write_tokens",
        "ai_audio_input_tokens", "ai_audio_output_tokens", "ai_image_count",
        "ai_ttft_us", "ai_tpot_us", "ai_provider", "ai_protocol", "ai_mode",
        "ai_retry_count", "ai_cost_value", "ai_cost_currency"}
<1>. DEFINE t == <<"ai_target_model">>
            u == <<"ai_stream">>
            v == <<"ai_input_tokens", "ai_output_tokens", "ai_total_tokens",
                   "ai_cache_read_tokens", "ai_cache_write_tokens",
                   "ai_audio_input_tokens", "ai_audio_output_tokens", "ai_image_count",
                   "ai_ttft_us", "ai_tpot_us", "ai_provider", "ai_protocol", "ai_mode",
                   "ai_retry_count", "ai_cost_value", "ai_cost_currency">>
<1>1. t \in Seq(AllFields) /\ u \in Seq(AllFields) /\ v \in Seq(AllFields)
  <2>1. {"ai_target_model", "ai_stream", "ai_input_tokens", "ai_output_tokens",
        "ai_total_tokens", "ai_cache_read_tokens", "ai_cache_write_tokens",
        "ai_audio_input_tokens", "ai_audio_output_tokens", "ai_image_count",
        "ai_ttft_us", "ai_tpot_us", "ai_provider", "ai_protocol", "ai_mode",
        "ai_retry_count", "ai_cost_value", "ai_cost_currency"} \subseteq AllFields
    BY FieldsBySection, SectionNames
  <2>. QED
    BY <2>1
<1>2. Range(t) = {"ai_target_model"}
  BY DEF Range
<1>3. Range(u) = {"ai_stream"}
  BY DEF Range
<1>4. Range(v) = {"ai_input_tokens", "ai_output_tokens", "ai_total_tokens",
                  "ai_cache_read_tokens", "ai_cache_write_tokens",
                  "ai_audio_input_tokens", "ai_audio_output_tokens", "ai_image_count",
                  "ai_ttft_us", "ai_tpot_us", "ai_provider", "ai_protocol", "ai_mode",
                  "ai_retry_count", "ai_cost_value", "ai_cost_currency"}
  BY DEF Range
<1>5. AiColumns = Col("scalar", t) \o Col("boolTiny", u) \o Col("scalar", v)
  BY DEF AiColumns, Scalar
<1>. HIDE DEF t, u, v
<1>6. AiColumns \in Seq(GoodColumn) /\ NamesOf(AiColumns) = Range(t) \cup Range(u) \cup Range(v)
  BY <1>1, <1>5, ThreeParts
<1>. QED
  BY <1>2, <1>3, <1>4, <1>6

LEMMA AiListNames ==
  /\ AiListColumns \in Seq(GoodColumn)
  /\ NamesOf(AiListColumns) =
       {"ai_route_rule_hits", "ai_cluster_key_names", "ai_rate_limit_hits",
        "ai_auth_reject_reason", "ai_auth_reject_quota_plans",
        "ai_auth_hit_quota_plans"}
<1>. DEFINE t == <<"ai_route_rule_hits", "ai_cluster_key_names", "ai_rate_limit_hits">>
            u == <<"ai_auth_reject_reason">>
            v == <<"ai_auth_reject_quota_plans", "ai_auth_hit_quota_plans">>
<1>1. t \in Seq(AllFields) /\ u \in Seq(AllFields) /\ v \in Seq(AllFields)
  <2>1. {"ai_route_rule_hits", "ai_cluster_key_names", "ai_rate_limit_hits",
        "ai_auth_reject_reason", "ai_auth_reject_quota_plans",
        "ai_auth_hit_quota_plans"} \subseteq AllFields
    BY FieldsBySection, SectionNames
  <2>. QED
    BY <2>1
<1>2. Range(t) = {"ai_route_rule_hits", "ai_cluster_key_names", "ai_rate_limit_hits"}
  BY DEF Range
<1>3. Range(u) = {"ai_auth_reject_reason"}
  BY DEF Range
<1>4. Range(v) = {"ai_auth_reject_quota_plans", "ai_auth_hit_quota_plans"}
  BY DEF Range
<1>5. AiListColumns = Col("json", t) \o Col("scalar", u) \o Col("json", v)
  BY DEF AiListColumns, Scalar
<1>. HIDE DEF t, u, v
<1>6. AiListColumns \in Seq(GoodColumn) /\ NamesOf(AiListColumns) = Range(t) \cup Range(u) \cup Range(v)
  BY <1>1, <1>5, ThreeParts
<1>. QED
  BY <1>2, <1>3, <1>4, <1>6

\* A column of each kind for the tags of a level.
Tagged(cols, level) ==
  \A kind \in {"tagName", "tagValue"} : \E c \in Range(cols) : c.kind = kind /\ c.field = level

LEMMA TagParts ==
  ASSUME NEW level \in Int, NEW name \in OtherName, NEW value \in OtherName,
         name \notin AllFields, value \notin AllFields
  PROVE  Tag(level, name, value) \in Seq(GoodColumn) /\ Tagged(Tag(level, name, value), level)
<1>1. PICK a, b : /\ a = [name |-> name, field |-> level, kind |-> "tagName"]
                  /\ b = [name |-> value, field |-> level, kind |-> "tagValue"]
  OBVIOUS
<1>2. a \in Column /\ b \in Column
  BY <1>1 DEF Column
<1>3. a \in GoodColumn /\ b \in GoodColumn
  BY <1>1, <1>2 DEF GoodColumn
<1>4. Tag(level, name, value) = <<a, b>>
  BY <1>1 DEF Tag
<1>5. Range(<<a, b>>) = {a, b}
  BY DEF Range
<1>6. a.kind = "tagName" /\ b.kind = "tagValue" /\ a.field = level /\ b.field = level
  BY <1>1
<1>7. Tagged(<<a, b>>, level)
  BY <1>5, <1>6 DEF Tagged
<1>8. <<a, b>> \in Seq(GoodColumn)
  BY <1>3
<1>. QED
  BY <1>4, <1>7, <1>8

LEMMA JoinTagged ==
  ASSUME NEW s \in Seq(GoodColumn), NEW t \in Seq(GoodColumn), NEW level,
         Tagged(s, level) \/ Tagged(t, level)
  PROVE  Tagged(s \o t, level)
  BY JoinColumns DEF Tagged

LEMMA TagColumnsAre ==
  TagColumns \in Seq(GoodColumn) /\ \A level \in Levels : Tagged(TagColumns, level)
<1>1. PICK t1, t2, t3, t4, t5 :
        /\ t1 = Tag(1, "level1Name", "level1") /\ t2 = Tag(2, "level2Name", "level2")
        /\ t3 = Tag(3, "level3Name", "level3") /\ t4 = Tag(4, "level4Name", "level4")
        /\ t5 = Tag(5, "level5Name", "level5")
  OBVIOUS
<1>2. \A x \in OtherName : x \notin AllFields
  BY FieldsBySection, SectionNames DEF OtherName
<1>3. t1 \in Seq(GoodColumn) /\ Tagged(t1, 1) /\ t2 \in Seq(GoodColumn) /\ Tagged(t2, 2)
  <2>1. t1 \in Seq(GoodColumn) /\ Tagged(t1, 1)
    BY <1>1, <1>2, TagParts DEF OtherName
  <2>2. t2 \in Seq(GoodColumn) /\ Tagged(t2, 2)
    BY <1>1, <1>2, TagParts DEF OtherName
  <2>. QED
    BY <2>1, <2>2
<1>4. t3 \in Seq(GoodColumn) /\ Tagged(t3, 3) /\ t4 \in Seq(GoodColumn) /\ Tagged(t4, 4)
  <2>1. t3 \in Seq(GoodColumn) /\ Tagged(t3, 3)
    BY <1>1, <1>2, TagParts DEF OtherName
  <2>2. t4 \in Seq(GoodColumn) /\ Tagged(t4, 4)
    BY <1>1, <1>2, TagParts DEF OtherName
  <2>. QED
    BY <2>1, <2>2
<1>5. t5 \in Seq(GoodColumn) /\ Tagged(t5, 5)
  BY <1>1, <1>2, TagParts DEF OtherName
<1>6. PICK u : u = t1 \o t2
  OBVIOUS
<1>7. u \in Seq(GoodColumn) /\ Tagged(u, 1) /\ Tagged(u, 2)
  BY <1>3, <1>6, JoinColumns, JoinTagged
<1>8. PICK v : v = u \o t3
  OBVIOUS
<1>9. v \in Seq(GoodColumn) /\ Tagged(v, 1) /\ Tagged(v, 2) /\ Tagged(v, 3)
  BY <1>4, <1>7, <1>8, JoinColumns, JoinTagged
<1>10. PICK w : w = v \o t4
  OBVIOUS
<1>11. w \in Seq(GoodColumn) /\ Tagged(w, 1) /\ Tagged(w, 2) /\ Tagged(w, 3) /\ Tagged(w, 4)
  BY <1>4, <1>9, <1>10, JoinColumns, JoinTagged
<1>12. PICK x : x = w \o t5
  OBVIOUS
<1>13. /\ x \in Seq(GoodColumn)
       /\ Tagged(x, 1) /\ Tagged(x, 2) /\ Tagged(x, 3) /\ Tagged(x, 4) /\ Tagged(x, 5)
  BY <1>5, <1>11, <1>12, JoinColumns, JoinTagged
<1>14. TagColumns = x
  BY <1>1, <1>6, <1>8, <1>10, <1>12 DEF TagColumns
<1>. QED
  BY <1>13, <1>14 DEF Levels

WithoutColumn == {"ai_image_input_tokens", "ai_video_count", "ai_apikeytags", "timestamp"}

\* What matters of columnDefs: only columns of other names write something else
\* than the field of their name; all fields but four have a column; and there
\* is a pair of columns for each level of tags.
LEMMA ColumnsAre ==
  /\ columnDefs \in Seq(GoodColumn)
  /\ AllFields \ WithoutColumn \subseteq NamesOf(columnDefs)
  /\ \A level \in Levels : Tagged(columnDefs, level)
<1>1. PICK a : a = BasicColumns \o ClientColumns
  OBVIOUS
<1>2. a \in Seq(GoodColumn) /\ NamesOf(a) = NamesOf(BasicColumns) \cup NamesOf(ClientColumns)
  BY <1>1, BasicNames, ClientNames, JoinColumns
<1>3. PICK b : b = a \o RequestColumns
  OBVIOUS
<1>4. b \in Seq(GoodColumn) /\ NamesOf(b) = NamesOf(a) \cup NamesOf(RequestColumns)
  BY <1>2, <1>3, RequestNames, JoinColumns
<1>5. PICK c : c = b \o RoutingColumns
  OBVIOUS
<1>6. c \in Seq(GoodColumn) /\ NamesOf(c) = NamesOf(b) \cup NamesOf(RoutingColumns)
  BY <1>4, <1>5, RoutingNames, JoinColumns
<1>7. PICK d : d = c \o ResponseColumns
  OBVIOUS
<1>8. d \in Seq(GoodColumn) /\ NamesOf(d) = NamesOf(c) \cup NamesOf(ResponseColumns)
  BY <1>6, <1>7, ResponseNames, JoinColumns
<1>9. PICK e : e = d \o TimeColumns
  OBVIOUS
<1>10. e \in Seq(GoodColumn) /\ NamesOf(e) = NamesOf(d) \cup NamesOf(TimeColumns)
  BY <1>8, <1>9, TimeNames, JoinColumns
<1>11. PICK f : f = e \o TagColumns
  OBVIOUS
<1>12. f \in Seq(GoodColumn) /\ NamesOf(e) \subseteq NamesOf(f)
  BY <1>10, <1>11, TagColumnsAre, JoinColumns
<1>13. \A level \in Levels : Tagged(f, level)
  BY <1>10, <1>11, TagColumnsAre, JoinTagged
<1>14. PICK g : g = f \o AiColumns
  OBVIOUS
<1>15. g \in Seq(GoodColumn) /\ NamesOf(g) = NamesOf(f) \cup NamesOf(AiColumns)
  BY <1>12, <1>14, AiNames, JoinColumns
<1>16. \A level \in Levels : Tagged(g, level)
  BY <1>12, <1>13, <1>14, AiNames, JoinTagged
<1>17. PICK h : h = g \o AiListColumns
  OBVIOUS
<1>18. h \in Seq(GoodColumn) /\ NamesOf(h) = NamesOf(g) \cup NamesOf(AiListColumns)
  BY <1>15, <1>17, AiListNames, JoinColumns
<1>19. \A level \in Levels : Tagged(h, level)
  BY <1>15, <1>16, <1>17, AiListNames, JoinTagged
<1>20. columnDefs = h
  BY <1>1, <1>3, <1>5, <1>7, <1>9, <1>11, <1>14, <1>17 DEF columnDefs
<1>21. NamesOf(BasicColumns) \cup NamesOf(ClientColumns) \cup NamesOf(RequestColumns)
         \cup NamesOf(RoutingColumns) \cup NamesOf(ResponseColumns) \cup NamesOf(TimeColumns)
         \cup NamesOf(AiColumns) \cup NamesOf(AiListColumns) \subseteq NamesOf(h)
  BY <1>2, <1>4, <1>6, <1>8, <1>10, <1>12, <1>15, <1>18
<1>22. ASSUME NEW x \in AllFields \ WithoutColumn PROVE x \in NamesOf(h)
  <2>1. FieldsOf(TopLevel) \cup FieldsOf(AiKey) \subseteq NamesOf(h) \cup WithoutColumn
    BY <1>21, SectionNames, BasicNames, AiNames DEF WithoutColumn
  <2>2. FieldsOf(Connection) \cup FieldsOf(Address) \subseteq NamesOf(h)
    BY <1>21, SectionNames, ClientNames
  <2>3. FieldsOf(RequestBasic) \cup FieldsOf(RequestHeader) \cup FieldsOf(CookieAndHeaders)
          \subseteq NamesOf(h)
    BY <1>21, SectionNames, RequestNames
  <2>4. FieldsOf(Routing) \cup FieldsOf(Response) \cup FieldsOf(Timing) \subseteq NamesOf(h)
    BY <1>21, SectionNames, RoutingNames, ResponseNames, TimeNames
  <2>5. FieldsOf(AiUsage) \cup FieldsOf(AiV020) \subseteq NamesOf(h) \cup WithoutColumn
    BY <1>21, SectionNames, AiNames, AiListNames DEF WithoutColumn
  <2>. QED
    BY <2>1, <2>2, <2>3, <2>4, <2>5, FieldsBySection
<1>. QED
  BY <1>18, <1>19, <1>20, <1>22

\* A field that has a column is filled in the row exactly when it is set.
LEMMA FilledFields ==
  ASSUME NEW log \in BfeLogs, NEW f \in AllFields
  PROVE  f \in Filled(ToRow(log)) <=> f \in Columns /\ Extract(f, log) = "some"
<1>1. columnDefs \in [1 .. Len(columnDefs) -> GoodColumn]
  BY ColumnsAre, LenProperties
<1>2. ToRow(log) = [i \in 1 .. Len(columnDefs) |-> ColumnValue(columnDefs[i], log)]
  BY <1>1 DEF ToRow
<1>3. ASSUME NEW i \in 1 .. Len(columnDefs), columnDefs[i].name = f
      PROVE  ToRow(log)[i] = "some" <=> Extract(f, log) = "some"
  <2>1. PICK c : c = columnDefs[i]
    OBVIOUS
  <2>2. c \in GoodColumn /\ c.name = f
    BY <1>1, <1>3, <2>1
  <2>3. c.field = f /\ c.kind \in {"scalar", "boolTiny", "json"}
    BY <2>2 DEF GoodColumn
  <2>4. ColumnValue(c, log) \in {OrNull(Extract(f, log)), Extract(f, log)}
    BY <2>3 DEF ColumnValue
  <2>5. OrNull(Extract(f, log)) = "some" <=> Extract(f, log) = "some"
    BY DEF OrNull, NULL
  <2>6. ToRow(log)[i] = ColumnValue(c, log)
    BY <1>2, <2>1
  <2>. QED
    BY <2>4, <2>5, <2>6
<1>4. f \in Columns <=> \E i \in 1 .. Len(columnDefs) : columnDefs[i].name = f
  BY <1>1 DEF Columns
<1>5. f \in Filled(ToRow(log)) <=>
        \E i \in 1 .. Len(columnDefs) : columnDefs[i].name = f /\ ToRow(log)[i] = "some"
  BY <1>2 DEF Filled
<1>. QED
  BY <1>3, <1>4, <1>5

-----------------------------------------------------------------------------
(* What is in the queues *)

\* A message, or a row, is made of the record it is numbered after.
MadeOf(m, x) == x[1] \in 1 .. Len(records) /\ x[2] = Output(m, records[x[1]])

Queued ==
  \A m \in Module :
    /\ mod[m] = "new" => queue[m] = <<>>
    /\ \A i \in 1 .. Len(queue[m]) : MadeOf(m, queue[m][i])

\* A module is not made new again, and its field set stays once it has messages.
LEMMA QueuedStays ==
  ASSUME DInv, Queued, UNCHANGED <<queue, records, outputFields>>,
         \A m \in Module : mod'[m] = "new" => mod[m] = "new"
  PROVE  Queued'
  BY DEF Queued, MadeOf, Output

LEMMA QueuedInit ==
  ASSUME DInv, Queued, NEW k \in Module, InitModule(k)
  PROVE  Queued'
<1>1. /\ pc = "start" /\ k \in left /\ mod' = [mod EXCEPT ![k] = "inited"]
      /\ UNCHANGED <<queue, records>>
      /\ k # "mod_kafka" => UNCHANGED outputFields
  BY DEF InitModule, MysqlInits, dataVars
<1>2. mod \in [Module -> {"new", "inited", "closing", "closed"}]
  BY DEF DInv, Types, TypeOK
<1>3. mod[k] = "new"
  BY <1>1 DEF DInv, Stages
<1>4. queue[k] = <<>>
  BY <1>3 DEF Queued
<1>5. \A m \in Module : mod'[m] = "new" => mod[m] = "new"
  BY <1>1, <1>2
<1>6. CASE k # "mod_kafka"
  BY <1>1, <1>5, <1>6, QueuedStays
<1>7. CASE k = "mod_kafka"
  <2>. SUFFICES ASSUME NEW m \in Module
                PROVE  /\ mod'[m] = "new" => queue'[m] = <<>>
                       /\ \A i \in 1 .. Len(queue'[m]) : MadeOf(m, queue[m][i])'
    BY DEF Queued
  <2>1. CASE m = k
    <3>1. Len(queue[m]) = 0
      BY <1>4, <2>1
    <3>. QED
      BY <1>1, <1>4, <2>1, <3>1
  <2>2. CASE m # k
    <3>1. m # "mod_kafka"
      BY <1>7, <2>2
    <3>2. \A i \in 1 .. Len(queue[m]) : MadeOf(m, queue[m][i])
      BY DEF Queued
    <3>3. \A log : Output(m, log)' = Output(m, log)
      BY <3>1 DEF Output
    <3>. QED
      BY <1>1, <1>5, <3>1, <3>2 DEF MadeOf, Output, Queued
  <2>. QED
    BY <2>1, <2>2
<1>. QED
  BY <1>6, <1>7

LEMMA QueuedRead ==
  ASSUME DInv, Queued, Read
  PROVE  Queued'
<1>1. PICK log \in BfeLogs : records' = Append(records, log)
  BY DEF Read
<1>2. UNCHANGED <<queue, outputFields, mod>>
  BY DEF Read, moduleVars
<1>3. records \in Seq(BfeLogs)
  BY DEF DInv, Types, TypeOK
<1>4. /\ Len(records') = Len(records) + 1 /\ Len(records) \in Nat
      /\ \A i \in 1 .. Len(records) : records'[i] = records[i]
  BY <1>1, <1>3, AppendProperties
<1>5. \A m \in Module : \A i \in 1 .. Len(queue[m]) : MadeOf(m, queue[m][i])
  BY DEF Queued
<1>6. ASSUME NEW m \in Module, NEW x, MadeOf(m, x)
      PROVE  MadeOf(m, x)'
  <2>1. x[1] \in 1 .. Len(records) /\ x[2] = Output(m, records[x[1]])
    BY <1>6 DEF MadeOf
  <2>2. x[1] \in 1 .. Len(records') /\ records'[x[1]] = records[x[1]]
    BY <1>4, <2>1
  <2>3. PICK log1 : log1 = records[x[1]]
    OBVIOUS
  <2>4. Output(m, log1)' = Output(m, log1)
    BY <1>2 DEF Output
  <2>. QED
    BY <1>2, <2>1, <2>2, <2>3, <2>4 DEF MadeOf, Output
<1>. QED
  BY <1>2, <1>5, <1>6 DEF Queued

LEMMA QueuedUpdate ==
  ASSUME DInv, Queued, Update
  PROVE  Queued'
<1>1. PICK u \in updates :
        queue' = IF records[u[2]].isRequest
                 THEN [queue EXCEPT ![u[1]] = Append(@, <<u[2], Output(u[1], records[u[2]])>>)]
                 ELSE queue
  BY DEF Update
<1>2. UNCHANGED <<mod, outputFields, records>>
  BY DEF Update, moduleVars
<1>3. /\ records \in Seq(BfeLogs) /\ updates \subseteq Module \X DOMAIN records
      /\ queue \in [Module -> Seq(Nat \X Outputs)]
  BY DEF DInv, Types, TypeOK
<1>4. u[1] \in Module /\ u[2] \in 1 .. Len(records) /\ mod[u[1]] # "new"
  BY <1>3 DEF DInv, Handed
<1>5. PICK x : x = <<u[2], Output(u[1], records[u[2]])>>
  OBVIOUS
<1>6. x \in Nat \X Outputs
  <2>1. u[2] \in Nat /\ records[u[2]] \in BfeLogs
    BY <1>3, <1>4
  <2>. QED
    BY <1>5, <2>1, OutputType
<1>7. MadeOf(u[1], x)
  BY <1>4, <1>5 DEF MadeOf
<1>8. \A m \in Module : queue'[m] = queue[m] \/ (m = u[1] /\ queue'[m] = Append(queue[m], x))
  BY <1>1, <1>3, <1>5
<1>9. \A m \in Module : \A y : MadeOf(m, y)' <=> MadeOf(m, y)
  BY <1>2 DEF MadeOf, Output
<1>. SUFFICES ASSUME NEW m \in Module
              PROVE  /\ mod'[m] = "new" => queue'[m] = <<>>
                     /\ \A i \in 1 .. Len(queue'[m]) : MadeOf(m, queue'[m][i])
  BY <1>2, <1>9 DEF Queued, MadeOf, Output
<1>10. CASE queue'[m] = queue[m]
  BY <1>2, <1>10 DEF Queued
<1>11. CASE m = u[1] /\ queue'[m] = Append(queue[m], x)
  <2>1. queue[m] \in Seq(Nat \X Outputs)
    BY <1>3
  <2>2. PICK q : q = Append(queue[m], x)
    OBVIOUS
  <2>3. /\ Len(q) = Len(queue[m]) + 1 /\ Len(queue[m]) \in Nat /\ q[Len(queue[m]) + 1] = x
        /\ \A i \in 1 .. Len(queue[m]) : q[i] = queue[m][i]
    BY <1>6, <2>1, <2>2, AppendProperties
  <2>4. ASSUME NEW i \in 1 .. Len(q) PROVE MadeOf(m, q[i])
    <3>1. i \in 1 .. Len(queue[m]) \/ i = Len(queue[m]) + 1
      BY <2>3
    <3>2. \A j \in 1 .. Len(queue[m]) : MadeOf(m, queue[m][j])
      BY DEF Queued
    <3>. QED
      BY <1>7, <1>11, <2>3, <3>1, <3>2
  <2>. QED
    BY <1>2, <1>4, <1>11, <2>2, <2>4
<1>. QED
  BY <1>8, <1>10, <1>11

LEMMA QueuedClose ==
  ASSUME DInv, Queued, NEW k \in Module, Close(k) \/ CloseReturns(k)
  PROVE  Queued'
<1>1. /\ UNCHANGED <<queue, records, outputFields>>
      /\ \/ mod' = mod \/ mod' = [mod EXCEPT ![k] = "closing"] \/ mod' = [mod EXCEPT ![k] = "closed"]
  BY DEF Close, CloseReturns, dataVars
<1>2. mod \in [Module -> {"new", "inited", "closing", "closed"}]
  BY DEF DInv, Types, TypeOK
<1>3. \A m \in Module : mod'[m] = "new" => mod[m] = "new"
  BY <1>1, <1>2
<1>. QED
  BY <1>1, <1>3, QueuedStays

LEMMA QueuedNext ==
  ASSUME DInv, Queued, [Next]_vars
  PROVE  Queued'
<1>1. CASE \E k \in Module : InitModule(k)
  BY <1>1, QueuedInit
<1>2. CASE Read \/ Update
  BY <1>2, QueuedRead, QueuedUpdate
<1>3. CASE \E k \in Module : Close(k) \/ CloseReturns(k)
  BY <1>3, QueuedClose
<1>4. ASSUME UNCHANGED <<queue, records, outputFields, mod>> PROVE Queued'
  BY <1>4, QueuedStays
<1>5. CASE Load \/ Register \/ StartReader \/ SetReady \/ OsExit \/ StartModule
  BY <1>4, <1>5 DEF Load, Register, StartReader, SetReady, OsExit, StartModule, moduleVars, dataVars
<1>6. CASE \E k \in Module : InitFails(k) \/ Loop(k)
  BY <1>4, <1>6 DEF InitFails, Loop, Flush, LoopPanics, LoopHangs, LoopEnds, moduleVars, dataVars
<1>7. CASE Signal
  BY <1>4, <1>7 DEF Signal, SigInt, SigTerm, Woken, TermHandler, Die, moduleVars, dataVars
<1>8. CASE UNCHANGED vars
  BY <1>4, <1>8 DEF vars, moduleVars, dataVars
<1>. QED
  BY <1>1, <1>2, <1>3, <1>5, <1>6, <1>7, <1>8 DEF Next, MainStep, ExitStep

LEMMA QueuedInvariant == Spec => [](DInv /\ Queued)
<1>1. Init => Queued
  <2>. SUFFICES ASSUME Init PROVE Queued
    OBVIOUS
  <2>1. \A m \in Module : queue[m] = <<>>
    BY DEF Init
  <2>2. Len(<<>>) = 0
    OBVIOUS
  <2>. QED
    BY <2>1, <2>2 DEF Queued
<1>. QED
  BY <1>1, InitDInv, NextDInv, QueuedNext, PTL DEF Spec

LEMMA EntryOf ==
  ASSUME DInv, Queued, NEW m \in Module, NEW i \in DOMAIN queue[m]
  PROVE  /\ queue[m][i][1] \in 1 .. Len(records)
         /\ records[queue[m][i][1]] \in BfeLogs
         /\ queue[m][i][2] = Output(m, records[queue[m][i][1]])
         /\ mod[m] # "new"
<1>1. queue[m] \in Seq(Nat \X Outputs) /\ records \in Seq(BfeLogs)
  BY DEF DInv, Types, TypeOK
<1>2. i \in 1 .. Len(queue[m])
  BY <1>1
<1>3. MadeOf(m, queue[m][i]) /\ mod[m] # "new"
  BY <1>1, <1>2 DEF Queued
<1>. QED
  BY <1>1, <1>3 DEF MadeOf

\* For any configuration of the two modules and any log, every message has the
\* required fields, and the message and the row of a record agree on the
\* fields that have a column (ResolveFields, JSONConverter, FieldMapper.ToRow).
THEOREM MessagesAgreeWithRows == Spec => []SinksAgree
<1>1. ASSUME DInv, Queued, NEW i \in DOMAIN queue["mod_kafka"], NEW j \in DOMAIN queue["mod_log_mysql"]
      PROVE  LET message == queue["mod_kafka"][i]
                 row     == queue["mod_log_mysql"][j]
             IN  /\ RequiredFields \subseteq DOMAIN message[2]
                 /\ message[1] = row[1] =>
                      Sent(message[2]) \cap Columns = Filled(row[2]) \cap DOMAIN message[2]
  <2>1. "mod_kafka" \in Module /\ "mod_log_mysql" \in Module
    BY DEF Module, modulesSupport
  <2>2. PICK message, row : message = queue["mod_kafka"][i] /\ row = queue["mod_log_mysql"][j]
    OBVIOUS
  <2>3. PICK log : log = records[message[1]]
    OBVIOUS
  <2>4. log \in BfeLogs /\ message[2] = ConvertBfeLogToJSON(log, outputFields) /\ mod["mod_kafka"] # "new"
    BY <1>1, <2>1, <2>2, <2>3, EntryOf DEF Output
  <2>5. RequiredFields \subseteq outputFields /\ outputFields \subseteq AllFields
    BY <1>1, <2>1, <2>4 DEF DInv, Inited, Types, TypeOK
  <2>6. DOMAIN message[2] = outputFields /\ \A f \in outputFields : message[2][f] = Extract(f, log)
    BY <2>4 DEF ConvertBfeLogToJSON
  <2>7. ASSUME message[1] = row[1]
        PROVE  Sent(message[2]) \cap Columns = Filled(row[2]) \cap DOMAIN message[2]
    <3>1. row[2] = ToRow(log)
      BY <1>1, <2>1, <2>2, <2>3, <2>7, EntryOf DEF Output
    <3>2. \A f \in outputFields : f \in Filled(row[2]) <=> f \in Columns /\ Extract(f, log) = "some"
      BY <2>4, <2>5, <3>1, FilledFields
    <3>3. Sent(message[2]) = {f \in outputFields : Extract(f, log) = "some"}
      BY <2>6 DEF Sent
    <3>. QED
      BY <2>6, <3>2, <3>3
  <2>. QED
    BY <2>2, <2>5, <2>6, <2>7
<1>2. DInv /\ Queued => SinksAgree
  BY <1>1 DEF SinksAgree
<1>. QED
  BY <1>2, QueuedInvariant, PTL

\* The tag of a level is the last one of it.
LEMMA LastTag ==
  ASSUME NEW log \in BfeLogs, NEW k \in DOMAIN log.tags, log.tags[k].level \in Levels,
         \A l \in k + 1 .. Len(log.tags) : log.tags[l].level # log.tags[k].level
  PROVE  TagOf(log, log.tags[k].level) = log.tags[k]
<1>. DEFINE level == log.tags[k].level
            at == {i \in DOMAIN log.tags : log.tags[i].level = level}
<1>1. log.tags \in Seq([level : Int, name : {"some", "zero"}, value : {"some", "zero"}])
  BY RecordAssumption
<1>2. DOMAIN log.tags = 1 .. Len(log.tags) /\ Len(log.tags) \in Nat
  BY <1>1, LenProperties
<1>3. log.request
  <2>1. log.tags # <<>>
    BY <1>1, <1>2
  <2>. QED
    BY <2>1, RecordAssumption
<1>4. k \in at /\ at \subseteq Int /\ \A i \in at : i <= k
  BY <1>2
<1>. HIDE DEF at
<1>5. Max(at) = k
  <2>1. \A x \in at : (\A y \in at : x >= y) => x = k
    BY <1>4
  <2>2. \A y \in at : k >= y
    BY <1>4
  <2>. QED
    BY <1>4, <2>1, <2>2 DEF Max
<1>6. TagOf(log, level) = log.tags[Max(at)]
  BY <1>3, <1>4 DEF TagOf, at
<1>. QED
  BY <1>5, <1>6

\* The two columns of a level carry its tag.
LEMMA TagValues ==
  ASSUME NEW log \in BfeLogs, NEW level \in Levels, NEW kind \in {"tagName", "tagValue"},
         NEW row, row = ToRow(log),
         NEW c, c = CHOOSE i \in DOMAIN row : columnDefs[i].kind = kind /\ columnDefs[i].field = level
  PROVE  row[c] = OrNull(IF kind = "tagName" THEN TagOf(log, level).name ELSE TagOf(log, level).value)
<1>1. columnDefs \in [1 .. Len(columnDefs) -> GoodColumn]
  BY ColumnsAre, LenProperties
<1>2. row = [i \in 1 .. Len(columnDefs) |-> ColumnValue(columnDefs[i], log)]
  BY <1>1 DEF ToRow
<1>3. DOMAIN row = 1 .. Len(columnDefs) /\ DOMAIN columnDefs = 1 .. Len(columnDefs)
  BY <1>1, <1>2
<1>4. Tagged(columnDefs, level)
  BY ColumnsAre
<1>5. \E d \in DOMAIN row : columnDefs[d].kind = kind /\ columnDefs[d].field = level
  BY <1>3, <1>4 DEF Tagged, Range
<1>6. c \in DOMAIN row /\ columnDefs[c].kind = kind /\ columnDefs[c].field = level
  BY <1>5
<1>7. PICK d : d = columnDefs[c]
  OBVIOUS
<1>8. row[c] = ColumnValue(d, log) /\ d.kind = kind /\ d.field = level
  BY <1>2, <1>3, <1>6, <1>7
<1>9. CASE kind = "tagName"
  BY <1>8, <1>9 DEF ColumnValue, FlattenTag
<1>10. CASE kind = "tagValue"
  BY <1>8, <1>10 DEF ColumnValue, FlattenTag
<1>. QED
  BY <1>9, <1>10

\* The row has the tag k of a record, in the columns of its level.
TagColumn(row, level, kind) ==
  CHOOSE c \in DOMAIN row : columnDefs[c].kind = kind /\ columnDefs[c].field = level
HasTag(row, tag) ==
  /\ row[TagColumn(row, tag.level, "tagName")]  = OrNull(tag.name)
  /\ row[TagColumn(row, tag.level, "tagValue")] = OrNull(tag.value)
LastOfLevel(log, k) ==
  /\ log.tags[k].level \in Levels
  /\ \A l \in k + 1 .. Len(log.tags) : log.tags[l].level # log.tags[k].level

LEMMA RowHasTags ==
  ASSUME NEW log \in BfeLogs, NEW k \in DOMAIN log.tags, LastOfLevel(log, k)
  PROVE  HasTag(ToRow(log), log.tags[k])
<1>1. PICK level \in Levels : level = log.tags[k].level
  BY DEF LastOfLevel
<1>2. TagOf(log, level) = log.tags[k]
  BY <1>1, LastTag DEF LastOfLevel
<1>3. PICK row : row = ToRow(log)
  OBVIOUS
<1>4. PICK a, b : a = TagColumn(row, level, "tagName") /\ b = TagColumn(row, level, "tagValue")
  OBVIOUS
<1>5. row[a] = OrNull(TagOf(log, level).name)
  BY <1>3, <1>4, TagValues DEF TagColumn
<1>6. row[b] = OrNull(TagOf(log, level).value)
  BY <1>3, <1>4, TagValues DEF TagColumn
<1>. QED
  BY <1>1, <1>2, <1>3, <1>4, <1>5, <1>6 DEF HasTag

\* Of any record, the row carries every field that is set and has a column, and
\* the last tag of each level (FieldMapper.ToRow, flattenTag).
THEOREM RowsCarryRecords == Spec => []RowsComplete
<1>1. ASSUME NEW log \in BfeLogs
      PROVE  {f \in AllFields : Extract(f, log) = "some"} \subseteq Filled(ToRow(log)) \cup WithoutColumn
  <2>1. \A f \in AllFields \ WithoutColumn : f \in Columns
    BY ColumnsAre DEF NamesOf, Range, Columns
  <2>. QED
    BY <2>1, FilledFields
<1>2. ASSUME DInv, Queued, NEW j \in DOMAIN queue["mod_log_mysql"], NEW log, NEW row,
             log = records[queue["mod_log_mysql"][j][1]], row = queue["mod_log_mysql"][j][2]
      PROVE  /\ {f \in AllFields : Extract(f, log) = "some"} \subseteq Filled(row) \cup WithoutColumn
             /\ \A k \in DOMAIN log.tags : LastOfLevel(log, k) => HasTag(row, log.tags[k])
  <2>1. "mod_log_mysql" \in Module
    BY DEF Module, modulesSupport
  <2>2. log \in BfeLogs /\ row = ToRow(log)
    BY <1>2, <2>1, EntryOf DEF Output
  <2>. QED
    BY <1>1, <2>2, RowHasTags
<1>3. DInv /\ Queued => RowsComplete
  <2>. SUFFICES ASSUME DInv, Queued, NEW j \in DOMAIN queue["mod_log_mysql"]
                PROVE  LET log == records[queue["mod_log_mysql"][j][1]]
                           row == queue["mod_log_mysql"][j][2]
                       IN  /\ {f \in AllFields : Extract(f, log) = "some"}
                                 \subseteq Filled(row) \cup WithoutColumn
                           /\ \A k \in DOMAIN log.tags : LastOfLevel(log, k) => HasTag(row, log.tags[k])
    BY DEF RowsComplete, LastOfLevel, HasTag, TagColumn, WithoutColumn
  <2>. QED
    BY <1>2
<1>. QED
  BY <1>3, QueuedInvariant, PTL
=============================================================================
