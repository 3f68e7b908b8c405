----------------------------- MODULE ModLogMysql -----------------------------
(***************************************************************************)
(* The output module mod_log_mysql: the Update goroutines                  *)
(* (mod_log_mysql.go), the bounded channel, the writeLoop goroutine with   *)
(* its batch, timer, retries and back-off, and Close (record_writer.go).   *)
(*                                                                         *)
(* MySQL is external: a batch is one transaction, and a transaction that   *)
(* reports an error may have been committed all the same.  It may also     *)
(* never return: the DSN (mod_log_mysql.go:115) sets no time-outs, and     *)
(* Begin, Exec and Commit take no context.  The table keeps one row per    *)
(* unique key; a later row replaces an earlier one.  A row with a NULL in  *)
(* the key (ToRow writes NULL for an empty ai_apikey_id or                 *)
(* ai_requested_model) equals no other row: it is inserted every time.     *)
(*                                                                         *)
(* An operator under the comment "Mutant" is no part of the model: it is   *)
(* the definition after it with a plausible bug, which the properties must *)
(* catch.                                                                  *)
(***************************************************************************)
EXTENDS Naturals, Sequences, FiniteSets, Functions

CONSTANTS
  Updater,        (* Update goroutines, one per dispatched batch of logs   *)
  Log,            (* log records                                           *)
  Logs,           (* Logs[u]: the batch handed to u, a sequence of records *)
  Request,        (* the records of type BfeLogType_Request                *)
  Unconvertible,  (* the records ToRow fails on                            *)
  Key,            (* values of the table's unique key                      *)
  KeyOf,          (* KeyOf[r]: the key of record r                         *)
  Keyless,        (* the records whose row has a NULL in its key           *)
  QueueSize,      (* conf.Writer.QueueSize                                 *)
  BatchSize,      (* conf.Writer.BatchSize                                 *)
  MaxRetries,     (* conf.Writer.MaxRetries                                *)
  NoRow,          (* a key the table has no row for                        *)
  MaxFault        (* at most this many transactions fail or hang  (bound)  *)

ASSUME LogsAssumption ==
  /\ Logs \in [Updater -> Seq(Log)]
  /\ Request \subseteq Log
  /\ Unconvertible \subseteq Log
  /\ KeyOf \in [Log -> Key]
  /\ Keyless \subseteq Log
  /\ IsFiniteSet(Updater)
\* Records are told apart by their place, so that the properties can count them.
ASSUME DistinctAssumption ==
  \A u, v \in Updater : \A i \in DOMAIN Logs[u], j \in DOMAIN Logs[v] :
    Logs[u][i] = Logs[v][j] => u = v /\ i = j
ASSUME ConfAssumption ==
  /\ QueueSize \in Nat \ {0}
  /\ BatchSize \in Nat \ {0}
  /\ MaxRetries \in Nat \ {0}
  /\ MaxFault \in Nat
  /\ NoRow \notin Log

\* retryBackoffMs: the pauses before the retries.
retryBackoffMs == <<200, 400, 800>>

COUNTER_KEYS == {"RECEIVED_LOGS", "RECEIVED_REQ", "CONVERT_FAILED",
                 "SENT_TO_MYSQL", "SENT_MYSQL_CHN_FULL", "SEND_MYSQL_FAILED",
                 "WRITE_BATCH_SIZE"}

VARIABLES
  todo,        (* todo[u]: the records Update u has not finished           *)
  counting,    (* Update goroutines between Enqueue and Inc(SENT_TO_MYSQL) *)
  ch,          (* the channel                                              *)
  loop,        (* where writeLoop stands                                   *)
  batch,       (* batch of writeLoop                                       *)
  resume,      (* where writeLoop goes when flush returns                  *)
  attempt,     (* attempt of writeBatchWithRetry                           *)
  stopped,     (* stopCh is closed                                         *)
  closer,      (* where Close stands                                       *)
  state,       (* the counters                                             *)
  table,       (* table[k]: the row with key k, or NoRow                   *)
  copies,      (* copies[r]: rows of the table that keyless record r has   *)
  faults,      (* transactions that have failed, or hang, so far           *)
  accepted,    (* rows the channel has accepted, in order        (history) *)
  flushed,     (* rows flush has disposed of, in order           (history) *)
  due          (* {} or {Len(accepted) when stopCh was closed}   (history) *)

senderVars == <<todo, counting>>
loopVars   == <<loop, batch, resume, attempt>>
mysqlVars  == <<table, copies, faults>>
vars == <<senderVars, ch, loopVars, stopped, closer, state, mysqlVars,
          accepted, flushed, due>>

\* Init of the module has already started the write loop (NewRecordWriter,
\* Start) before the first Update.
Init ==
  /\ todo = Logs
  /\ counting = {}
  /\ ch = <<>>
  /\ loop = "select" /\ batch = <<>> /\ resume = "select" /\ attempt = 0
  /\ stopped = FALSE
  /\ closer = "running"
  /\ state = [k \in COUNTER_KEYS |-> 0]
  /\ table = [k \in Key |-> NoRow] /\ copies = [r \in Keyless |-> 0] /\ faults = 0
  /\ accepted = <<>> /\ flushed = <<>> /\ due = {}

-----------------------------------------------------------------------------
(* Update *)

\* Increments of the counters.
Count(keys) == state' = [k \in COUNTER_KEYS |-> IF k \in keys THEN state[k] + 1 ELSE state[k]]

\* Update leaves a record that is no request or makes no row.
Skip(u) ==
  /\ todo[u] # <<>>
  /\ u \notin counting
  /\ \/ /\ Head(todo[u]) \notin Request
        /\ Count({"RECEIVED_LOGS"})
     \/ /\ Head(todo[u]) \in Request \cap Unconvertible
        /\ Count({"RECEIVED_LOGS", "RECEIVED_REQ", "CONVERT_FAILED"})
  /\ todo' = [todo EXCEPT ![u] = Tail(@)]
  /\ UNCHANGED <<counting, ch, loopVars, stopped, closer, mysqlVars, accepted, flushed, due>>

\* Mutant: the dropped row is not counted.
DroppedUncounted == {"RECEIVED_LOGS", "RECEIVED_REQ"}

\* What Update counts for a row the channel has no room for.
Dropped == {"RECEIVED_LOGS", "RECEIVED_REQ", "SENT_MYSQL_CHN_FULL"}

\* Update and Enqueue, the channel full: the row is dropped.
EnqueueFull(u) ==
  /\ todo[u] # <<>>
  /\ u \notin counting
  /\ Head(todo[u]) \in Request \ Unconvertible
  /\ Len(ch) >= QueueSize
  /\ Count(Dropped)
  /\ todo' = [todo EXCEPT ![u] = Tail(@)]
  /\ UNCHANGED <<counting, ch, loopVars, stopped, closer, mysqlVars, accepted, flushed, due>>

\* Update and Enqueue, the row enters the channel; it is counted afterwards.
Enqueue(u) ==
  /\ todo[u] # <<>>
  /\ u \notin counting
  /\ Head(todo[u]) \in Request \ Unconvertible
  /\ Len(ch) < QueueSize
  /\ ch' = Append(ch, Head(todo[u]))
  /\ accepted' = Append(accepted, Head(todo[u]))
  /\ Count({"RECEIVED_LOGS", "RECEIVED_REQ"})
  /\ counting' = counting \cup {u}
  /\ UNCHANGED <<todo, loopVars, stopped, closer, mysqlVars, flushed, due>>

CountSent(u) ==
  /\ u \in counting
  /\ Count({"SENT_TO_MYSQL"})
  /\ counting' = counting \ {u}
  /\ todo' = [todo EXCEPT ![u] = Tail(@)]
  /\ UNCHANGED <<ch, loopVars, stopped, closer, mysqlVars, accepted, flushed, due>>

Update(u) == Skip(u) \/ EnqueueFull(u) \/ Enqueue(u) \/ CountSent(u)

-----------------------------------------------------------------------------
(* writeLoop *)

\* flush, called from one of the loops: nothing to do for an empty batch.
Flush(next) ==
  /\ resume' = next
  /\ loop' = IF batch' = <<>> THEN next ELSE "writeBatch"

\* Mutant: the batch is written when it has become too large.
FullBeyond(b) == Len(b) > BatchSize

\* The test in both receive cases.
Full(b) == Len(b) >= BatchSize

\* A row joins the batch, in the select loop or in the drain.
Take(from) ==
  /\ loop = from
  /\ ch # <<>>
  /\ batch' = Append(batch, Head(ch))
  /\ ch' = Tail(ch)
  /\ IF Full(batch') THEN Flush(from) ELSE UNCHANGED <<loop, resume>>
  /\ UNCHANGED <<senderVars, attempt, stopped, closer, state, mysqlVars, accepted, flushed, due>>

\* case row := <-w.ch
Receive == Take("select")

\* Mutant: the tick does not flush.
TickIdle ==
  /\ loop = "select"
  /\ UNCHANGED vars

\* case <-ticker.C
Tick ==
  /\ loop = "select"
  /\ batch' = batch
  /\ Flush("select")
  /\ UNCHANGED <<senderVars, attempt, ch, stopped, closer, state, mysqlVars, accepted, flushed, due>>

\* Mutant: the loop returns without a drain.
StopWithoutDrain ==
  /\ loop = "select"
  /\ stopped
  /\ batch' = batch
  /\ Flush("done")
  /\ UNCHANGED <<senderVars, ch, attempt, stopped, closer, state, mysqlVars,
                 accepted, flushed, due>>

\* case <-w.stopCh; select takes any case that is ready.
StopSeen ==
  /\ loop = "select"
  /\ stopped
  /\ loop' = "drain"
  /\ UNCHANGED <<senderVars, ch, batch, resume, attempt, stopped, closer, state, mysqlVars,
                 accepted, flushed, due>>

Drain == Take("drain")

\* The channel is empty: flush("close"); then writeLoop is at next.
DrainEndsAt(next) ==
  /\ loop = "drain"
  /\ ch = <<>>
  /\ batch' = batch
  /\ Flush(next)
  /\ UNCHANGED <<senderVars, attempt, ch, stopped, closer, state, mysqlVars, accepted, flushed, due>>

\* Mutant: a break, that leaves only the inner loop.
DrainBreaks == DrainEndsAt("select")

\* writeLoop returns after the drain.
DrainEnds == DrainEndsAt("done")

\* Mutant: the batch is not emptied.
FlushedKeepingBatch ==
  /\ flushed' = flushed \o batch
  /\ loop' = resume
  /\ attempt' = 0
  /\ UNCHANGED <<batch, resume>>

\* flush ends: batch = batch[:0].
Flushed ==
  /\ flushed' = flushed \o batch
  /\ batch' = <<>>
  /\ loop' = resume
  /\ attempt' = 0
  /\ UNCHANGED resume

\* Mutant: INSERT IGNORE, the row that is there stays.
UpsertIgnore(rows) ==
  [k \in Key |->
     LET hits == {i \in 1 .. Len(rows) : rows[i] \notin Keyless /\ KeyOf[rows[i]] = k} IN
       IF table[k] # NoRow \/ hits = {} THEN table[k]
       ELSE rows[CHOOSE i \in hits : \A j \in hits : i <= j]]

\* INSERT ... ON DUPLICATE KEY UPDATE of all columns: per key the last row of
\* the batch stays.
Upsert(rows) ==
  [k \in Key |->
     LET hits == {i \in 1 .. Len(rows) : rows[i] \notin Keyless /\ KeyOf[rows[i]] = k} IN
       IF hits = {} THEN table[k]
       ELSE rows[CHOOSE i \in hits : \A j \in hits : j <= i]]

\* The transaction is committed.
Commit(rows) ==
  /\ table' = Upsert(rows)
  /\ copies' = [r \in Keyless |->
                 copies[r] + Cardinality({i \in 1 .. Len(rows) : rows[i] = r})]

\* writeBatch succeeds.
WriteOk ==
  /\ loop = "writeBatch"
  /\ Commit(batch)
  /\ state' = [state EXCEPT !["WRITE_BATCH_SIZE"] = @ + Len(batch)]
  /\ Flushed
  /\ UNCHANGED <<senderVars, ch, stopped, closer, faults, accepted, due>>

\* Mutant: the batch is dropped without a count.
GiveUpSilently == UNCHANGED state /\ Flushed

\* The retries are used up.
GiveUp == Count({"SEND_MYSQL_FAILED"}) /\ Flushed

\* writeBatch fails: at Begin, at Exec with a rollback, or at Commit, where the
\* rows may be in the table nevertheless.  The next attempt follows after a
\* pause; after MaxRetries retries the batch is dropped and counted.
WriteFails ==
  /\ loop = "writeBatch"
  /\ faults < MaxFault
  /\ faults' = faults + 1
  /\ Commit(batch) \/ UNCHANGED <<table, copies>>
  /\ IF attempt < MaxRetries
     THEN /\ attempt' = attempt + 1
          /\ loop' = "backoff"
          /\ UNCHANGED <<state, batch, resume, flushed>>
     ELSE GiveUp
  /\ UNCHANGED <<senderVars, ch, stopped, closer, accepted, due>>

\* writeBatch never returns: the server does not answer Begin, Exec or Commit,
\* and nothing ends the wait.
WriteHangs ==
  /\ loop = "writeBatch"
  /\ faults < MaxFault
  /\ faults' = faults + 1
  /\ Commit(batch) \/ UNCHANGED <<table, copies>>
  /\ loop' = "hung"
  /\ UNCHANGED <<senderVars, ch, batch, resume, attempt, stopped, closer, state,
                 accepted, flushed, due>>

\* The pause before a retry.  The array is indexed before the bound is tested:
\* beyond its end writeLoop panics, its recover counts one failure and the
\* goroutine is gone.
Backoff ==
  /\ loop = "backoff"
  /\ IF attempt \in DOMAIN retryBackoffMs
     THEN loop' = "writeBatch" /\ UNCHANGED state
     ELSE loop' = "dead" /\ Count({"SEND_MYSQL_FAILED"})
  /\ UNCHANGED <<senderVars, ch, batch, resume, attempt, stopped, closer, mysqlVars,
                 accepted, flushed, due>>

WriteLoop == Receive \/ Tick \/ StopSeen \/ Drain \/ DrainEnds
               \/ WriteOk \/ WriteFails \/ WriteHangs \/ Backoff

-----------------------------------------------------------------------------
(* Close *)

CloseStep(from, to) == closer = from /\ closer' = to

\* close(w.stopCh)
Stop ==
  /\ CloseStep("running", "wait")
  /\ stopped' = TRUE
  /\ due' = {Len(accepted)}
  /\ UNCHANGED <<senderVars, ch, loopVars, state, mysqlVars, accepted, flushed>>

\* w.wg.Wait(), then w.db.Close()
WaitAndClose ==
  /\ CloseStep("wait", "closed")
  /\ loop \in {"done", "dead"}
  /\ UNCHANGED <<senderVars, ch, loopVars, stopped, state, mysqlVars, accepted, flushed, due>>

-----------------------------------------------------------------------------

Next == (\E u \in Updater : Update(u)) \/ WriteLoop \/ Stop \/ WaitAndClose

Spec == Init /\ [][Next]_vars

\* Goroutines run, the ticker keeps firing, and Close, once it has begun, goes
\* on.  Nobody has to call it.  A transaction is not obliged to return: that it
\* never does is one of its outcomes (WriteHangs), after which the loop stands.
FairSpec ==
  /\ Spec
  /\ \A u \in Updater : WF_vars(Update(u))
  /\ WF_vars(WriteLoop)
  /\ WF_vars(WaitAndClose)

-----------------------------------------------------------------------------
(* Properties *)

TypeOK ==
  /\ todo \in [Updater -> Seq(Log)]
  /\ counting \subseteq Updater
  /\ ch \in Seq(Log) /\ Len(ch) <= QueueSize
  /\ loop \in {"select", "drain", "writeBatch", "backoff", "hung", "done", "dead"}
  /\ batch \in Seq(Log) /\ Len(batch) <= BatchSize
  /\ resume \in {"select", "drain", "done"}
  /\ attempt \in 0 .. MaxRetries
  /\ stopped \in BOOLEAN
  /\ closer \in {"running", "wait", "closed"}
  /\ state \in [COUNTER_KEYS -> Nat]
  /\ table \in [Key -> Log \cup {NoRow}]
  /\ copies \in [Keyless -> Nat]
  /\ faults \in 0 .. MaxFault
  /\ accepted \in Seq(Log) /\ flushed \in Seq(Log)
  /\ due \in SUBSET Nat

\* The counters add up over all goroutines: a request is converted or counted
\* as failed, a row is accepted or counted as dropped, and SENT_TO_MYSQL lags
\* behind the channel only by the goroutines that are about to count.
CountersAddUp ==
  LET sent == state["SENT_TO_MYSQL"] + Cardinality(counting) IN
    /\ sent = Len(accepted)
    /\ state["RECEIVED_REQ"]
         = state["CONVERT_FAILED"] + state["SENT_MYSQL_CHN_FULL"] + sent

\* No row is lost silently: the rows flush has disposed of and not reported as
\* written are at most those of the batches counted in SEND_MYSQL_FAILED.
NoSilentLoss ==
  /\ state["WRITE_BATCH_SIZE"] <= Len(flushed)
  /\ Len(flushed) <= state["WRITE_BATCH_SIZE"] + BatchSize * state["SEND_MYSQL_FAILED"]

\* The table ends up with the newest row of every key, however often a batch
\* was retried and although a failed commit may have stored it already;
\* provided no batch was given up.
NewestRowWins ==
  loop \in {"select", "drain", "done"} /\ state["SEND_MYSQL_FAILED"] = 0 =>
    \A i \in 1 .. Len(flushed) :
      LET newer == {j \in (i + 1) .. Len(flushed) : flushed[j] \notin Keyless} IN
        flushed[i] \notin Keyless /\ (\A j \in newer : KeyOf[flushed[j]] # KeyOf[flushed[i]])
          => table[KeyOf[flushed[i]]] = flushed[i]

\* A row with a NULL in its key is in the table when flush has disposed of it
\* and no batch was given up, and more than once only for commits that reported
\* an error (writeBatchWithRetry repeats those, and nothing removes the first
\* copy).
CopiesPerCommit ==
  \A r \in Keyless :
    /\ copies[r] <= Cardinality({i \in DOMAIN accepted : accepted[i] = r}) + faults
    /\ loop \in {"select", "drain", "done"} /\ state["SEND_MYSQL_FAILED"] = 0
         => copies[r] >= Cardinality({i \in DOMAIN flushed : flushed[i] = r})

\* The module is a sink: channel and batch keep the order, lose and repeat
\* nothing, and writeLoop does not end before it has flushed what was in the
\* channel when Close stopped it.
Sink == INSTANCE AsyncSink WITH Msg <- Log, handled <- flushed, ended <- loop = "done"
IsSink == Sink!Spec

\* writeLoop will do nothing any more, though it has not been through its drain:
\* a transaction never returns, or the pauses have run out (Backoff).
Stuck == loop \in {"hung", "dead"}

\* A row accepted before Close is flushed, full batch or not, unless the loop
\* is stuck: what it takes for granted is that each transaction returns, with a
\* result or with an error.
AcceptedIsFlushed ==
  \A r \in Log : r \in Range(accepted) /\ ~stopped ~> r \in Range(flushed) \/ Stuck

\* Close returns, whatever errors MySQL reports, in the middle of the retries
\* and with the channel still filling, and when the loop has died.  The one
\* thing that keeps it waiting (wg.Wait) is a transaction that never returns.
CloseReturns == closer = "wait" ~> closer = "closed" \/ loop = "hung"

\* doc/sys_design/mod_log_mysql.md:69: after a failure the batch is retried up
\* to MaxRetries times, and when the retries are used up it is dropped and
\* counted.  So the write loop outlives every failing batch.
WriterSurvives == loop # "dead"

=============================================================================
