------------------------------ MODULE ModKafka -------------------------------
(***************************************************************************)
(* The output module mod_kafka: the Update goroutines the read loop starts *)
(* (mod_kafka.go), the bounded channel, the sendLoop goroutine with its    *)
(* batch, timer and dead letter topic, and Close (kafka_producer.go).      *)
(*                                                                         *)
(* The kafka.Writer of segmentio/kafka-go is external: WriteMessages       *)
(* either delivers the whole batch, or reports an error although any part  *)
(* of the batch may have been taken over and may still reach the topic.    *)
(*                                                                         *)
(* An operator under the comment "Mutant" is no part of the model: it is   *)
(* the definition after it with a plausible bug, which the properties must *)
(* catch.                                                                  *)
(***************************************************************************)
EXTENDS Naturals, Sequences, FiniteSets, Functions

CONSTANTS
  Updater,        (* Update goroutines, one per dispatched batch of logs   *)
  Log,            (* log records                                           *)
  Logs,           (* Logs[u]: the batch handed to u, a sequence of records *)
  Request,        (* the records of type BfeLogType_Request                *)
  Unconvertible,  (* the records ConvertBfeLogToJSON fails on              *)
  BatchSize,      (* conf.Kafka.BatchSize                                  *)
  HasDLQ,         (* conf.Kafka.DeadLetterTopic # ""                       *)
  MaxFault        (* the broker fails at most this many writes    (bound)  *)

ASSUME LogsAssumption ==
  /\ Logs \in [Updater -> Seq(Log)]
  /\ Request \subseteq Log
  /\ Unconvertible \subseteq Log
  /\ IsFiniteSet(Updater)
\* Records are told apart by their place, so that the properties can count them.
ASSUME DistinctAssumption ==
  \A u, v \in Updater : \A i \in DOMAIN Logs[u], j \in DOMAIN Logs[v] :
    Logs[u][i] = Logs[v][j] => u = v /\ i = j
ASSUME ConfAssumption ==
  BatchSize \in Nat \ {0} /\ HasDLQ \in BOOLEAN /\ MaxFault \in Nat

COUNTER_KEYS == {"RECEIVED_LOGS", "RECEIVED_REQ", "CONVERT_FAILED",
                 "SENT_TO_KAFKA", "SENT_KAFKA_CHN_FULL", "SEND_KAFKA_FAILED",
                 "DLQ_SENT", "DLQ_SENT_FAILED"}

VARIABLES
  todo,        (* todo[u]: the records Update u has not finished           *)
  counting,    (* Update goroutines between Send and Inc(SENT_TO_KAFKA)    *)
  msgCh,       (* the channel                                              *)
  loop,        (* where sendLoop stands; "none": Start has not run yet     *)
  batch,       (* batch of sendLoop                                        *)
  resume,      (* where sendLoop goes when flush returns                   *)
  cancelled,   (* kp.ctx is cancelled                                      *)
  closer,      (* where Close stands                                       *)
  state,       (* the counters                                             *)
  topic,       (* messages in the topic                                    *)
  inflight,    (* messages kafka.Writer still holds after an error         *)
  dlq,         (* messages in the dead letter topic                        *)
  faults,      (* writes the broker has failed so far                      *)
  accepted,    (* messages the channel has accepted, in order    (history) *)
  flushed,     (* messages flush has disposed of, in order       (history) *)
  due          (* {} or {Len(accepted) when ctx was cancelled}   (history) *)

senderVars == <<todo, counting>>
loopVars   == <<loop, batch, resume>>
kafkaVars  == <<topic, inflight, dlq, faults>>
vars == <<senderVars, msgCh, loopVars, cancelled, closer, state, kafkaVars,
          accepted, flushed, due>>

Init ==
  /\ todo = Logs
  /\ counting = {}
  /\ msgCh = <<>>
  /\ loop = "none" /\ batch = <<>> /\ resume = "select"
  /\ cancelled = FALSE
  /\ closer = "running"
  /\ state = [k \in COUNTER_KEYS |-> 0]
  /\ topic = {} /\ inflight = {} /\ dlq = {} /\ faults = 0
  /\ accepted = <<>> /\ flushed = <<>> /\ due = {}

-----------------------------------------------------------------------------
(* Update *)

\* NewKafkaProducer: the capacity of the channel.
Cap == 2 * BatchSize

\* Increments of the counters.
Count(keys) == state' = [k \in COUNTER_KEYS |-> IF k \in keys THEN state[k] + 1 ELSE state[k]]

\* Update leaves a record that is no request or does not convert.
Skip(u) ==
  /\ todo[u] # <<>>
  /\ u \notin counting
  /\ \/ /\ Head(todo[u]) \notin Request
        /\ Count({"RECEIVED_LOGS"})
     \/ /\ Head(todo[u]) \in Request \cap Unconvertible
        /\ Count({"RECEIVED_LOGS", "RECEIVED_REQ", "CONVERT_FAILED"})
  /\ todo' = [todo EXCEPT ![u] = Tail(@)]
  /\ UNCHANGED <<counting, msgCh, loopVars, cancelled, closer, kafkaVars, accepted, flushed, due>>

\* Mutant: the dropped message is not counted.
DroppedUncounted == {"RECEIVED_LOGS", "RECEIVED_REQ"}

\* What Update and Send count for a message the channel has no room for.
Dropped == {"RECEIVED_LOGS", "RECEIVED_REQ", "SENT_KAFKA_CHN_FULL"}

\* Update up to the return of Send: the message enters the channel, or is
\* dropped when the channel is full.  Send does not tell which.
Send(u) ==
  /\ todo[u] # <<>>
  /\ u \notin counting
  /\ Head(todo[u]) \in Request \ Unconvertible
  /\ IF Len(msgCh) < Cap
     THEN /\ msgCh' = Append(msgCh, Head(todo[u]))
          /\ accepted' = Append(accepted, Head(todo[u]))
          /\ Count({"RECEIVED_LOGS", "RECEIVED_REQ"})
     ELSE /\ Count(Dropped)
          /\ UNCHANGED <<msgCh, accepted>>
  /\ counting' = counting \cup {u}
  /\ UNCHANGED <<todo, loopVars, cancelled, closer, kafkaVars, flushed, due>>

\* Update after Send.
CountSent(u) ==
  /\ u \in counting
  /\ Count({"SENT_TO_KAFKA"})
  /\ counting' = counting \ {u}
  /\ todo' = [todo EXCEPT ![u] = Tail(@)]
  /\ UNCHANGED <<msgCh, loopVars, cancelled, closer, kafkaVars, accepted, flushed, due>>

Update(u) == Skip(u) \/ Send(u) \/ CountSent(u)

-----------------------------------------------------------------------------
(* sendLoop *)

\* Start, which the framework calls in a goroutine of its own: wg.Add(1) and
\* the loop.
Start ==
  /\ loop = "none"
  /\ loop' = "select"
  /\ UNCHANGED <<senderVars, msgCh, batch, resume, cancelled, closer, state, kafkaVars,
                 accepted, flushed, due>>

\* flush, called from the select loop or at the end of the drain.
Flush(next) ==
  /\ resume' = next
  /\ loop' = IF batch' = <<>> THEN next ELSE "write"

\* Mutant: the batch is sent when it has become too large.
FullBeyond(b) == Len(b) > BatchSize

\* The test in the receive case.
Full(b) == Len(b) >= BatchSize

\* case msg := <-kp.msgCh
Receive ==
  /\ loop = "select"
  /\ msgCh # <<>>
  /\ batch' = Append(batch, Head(msgCh))
  /\ msgCh' = Tail(msgCh)
  /\ IF Full(batch') THEN Flush("select") ELSE UNCHANGED <<loop, resume>>
  /\ UNCHANGED <<senderVars, cancelled, closer, state, kafkaVars, accepted, flushed, due>>

\* Mutant: the tick does not flush.
TickIdle ==
  /\ loop = "select"
  /\ UNCHANGED vars

\* case <-ticker.C
Tick ==
  /\ loop = "select"
  /\ batch' = batch
  /\ Flush("select")
  /\ UNCHANGED <<senderVars, msgCh, cancelled, closer, state, kafkaVars, accepted, flushed, due>>

\* case <-kp.ctx.Done(); select takes any case that is ready.
Cancelled ==
  /\ loop = "select"
  /\ cancelled
  /\ loop' = "drain"
  /\ UNCHANGED <<senderVars, msgCh, batch, resume, cancelled, closer, state, kafkaVars,
                 accepted, flushed, due>>

\* The drain: everything in the channel joins the batch, whatever its size,
\* and is flushed at once; then sendLoop is at next.
DrainTo(next) ==
  /\ loop = "drain"
  /\ IF msgCh # <<>>
     THEN /\ batch' = Append(batch, Head(msgCh))
          /\ msgCh' = Tail(msgCh)
          /\ UNCHANGED <<loop, resume>>
     ELSE /\ batch' = batch
          /\ Flush(next)
          /\ UNCHANGED msgCh
  /\ UNCHANGED <<senderVars, cancelled, closer, state, kafkaVars, accepted, flushed, due>>

\* Mutant: a break, that leaves only the inner loop.
DrainBreaks == DrainTo("select")

\* sendLoop returns after the drain.
Drain == DrainTo("done")

\* Mutant: batch is not reset.
FlushedKeepingBatch ==
  /\ flushed' = flushed \o batch
  /\ loop' = resume
  /\ UNCHANGED <<batch, resume>>

\* flush ends: batch = batch[:0].
Flushed ==
  /\ flushed' = flushed \o batch
  /\ batch' = <<>>
  /\ loop' = resume
  /\ UNCHANGED resume

WriterOpen == closer \in {"running", "wait"}

\* WriteMessages returns nil.
WriteOk ==
  /\ loop = "write"
  /\ WriterOpen
  /\ topic' = topic \cup Range(batch)
  /\ Flushed
  /\ UNCHANGED <<senderVars, msgCh, cancelled, closer, state, inflight, dlq, faults, accepted, due>>

\* Mutant: a failed write counts once.
CountFailedBatch == Count({"SEND_KAFKA_FAILED"})

\* Every message of the failed batch counts.
CountFailed == state' = [state EXCEPT !["SEND_KAFKA_FAILED"] = @ + Len(batch)]

\* WriteMessages fails: the broker fails, kp.ctx is cancelled (the context of
\* the write derives from it), or the writer has been closed, which takes
\* nothing over.
WriteFails ==
  /\ loop = "write"
  /\ \/ /\ faults < MaxFault
        /\ faults' = faults + 1
     \/ /\ cancelled \/ ~WriterOpen
        /\ UNCHANGED faults
  /\ inflight' \in {inflight \cup held : held \in IF WriterOpen THEN SUBSET Range(batch) ELSE {{}}}
  /\ CountFailed
  /\ IF HasDLQ THEN loop' = "writeToDLQ" /\ UNCHANGED <<batch, resume, flushed>> ELSE Flushed
  /\ UNCHANGED <<senderVars, msgCh, cancelled, closer, topic, dlq, accepted, due>>

\* writeToDLQ: the whole batch; its context does not derive from kp.ctx.  A
\* write that fails may have stored any part of the batch, unless the writer
\* was closed before.
WriteToDLQ ==
  /\ loop = "writeToDLQ"
  /\ \/ /\ closer # "closed"
        /\ dlq' = dlq \cup Range(batch)
        /\ Count({"DLQ_SENT"})
        /\ UNCHANGED faults
     \/ /\ \/ /\ faults < MaxFault
              /\ faults' = faults + 1
              /\ dlq' \in {dlq \cup stored : stored \in SUBSET Range(batch)}
           \/ /\ closer = "closed"
              /\ UNCHANGED <<faults, dlq>>
        /\ Count({"DLQ_SENT", "DLQ_SENT_FAILED"})
  /\ Flushed
  /\ UNCHANGED <<senderVars, msgCh, cancelled, closer, topic, inflight, accepted, due>>

\* kafka.Writer disposes of a message whose WriteMessages has already failed:
\* it reaches the topic after all, or not.
Land ==
  /\ \E m \in inflight :
       /\ inflight' = inflight \ {m}
       /\ topic' \in {topic, topic \cup {m}}
  /\ UNCHANGED <<senderVars, msgCh, loopVars, cancelled, closer, state, dlq, faults,
                 accepted, flushed, due>>

SendLoop == Receive \/ Tick \/ Cancelled \/ Drain \/ WriteOk \/ WriteFails \/ WriteToDLQ

-----------------------------------------------------------------------------
(* Close *)

CloseStep(from, to) == closer = from /\ closer' = to

\* kp.cancel()
Cancel ==
  /\ CloseStep("running", "wait")
  /\ cancelled' = TRUE
  /\ due' = {Len(accepted)}
  /\ UNCHANGED <<senderVars, msgCh, loopVars, state, kafkaVars, accepted, flushed>>

\* kp.wg.Wait(): a loop that has not been started is not waited for.
Wait ==
  /\ CloseStep("wait", "closeWriter")
  /\ loop \in {"none", "done"}
  /\ UNCHANGED <<senderVars, msgCh, loopVars, cancelled, state, kafkaVars, accepted, flushed, due>>

\* kp.writer.Close(), which waits for what the writer holds, then
\* kp.dlqWriter.Close().
CloseWriters ==
  /\ CloseStep("closeWriter", "closed")
  /\ inflight = {}
  /\ UNCHANGED <<senderVars, msgCh, loopVars, cancelled, state, kafkaVars, accepted, flushed, due>>

Close == Cancel \/ Wait \/ CloseWriters

-----------------------------------------------------------------------------

Next == (\E u \in Updater : Update(u)) \/ Start \/ SendLoop \/ Land \/ Close

Spec == Init /\ [][Next]_vars

\* Goroutines run; the ticker keeps firing; a write returns within its 10s;
\* Close, once it has begun, goes on.  Nobody has to call it.
FairSpec ==
  /\ Spec
  /\ \A u \in Updater : WF_vars(Update(u))
  /\ WF_vars(Start) /\ WF_vars(SendLoop) /\ WF_vars(Land)
  /\ WF_vars(Wait \/ CloseWriters)
-----------------------------------------------------------------------------
(* Properties *)

TypeOK ==
  /\ todo \in [Updater -> Seq(Log)]
  /\ counting \subseteq Updater
  /\ msgCh \in Seq(Log) /\ Len(msgCh) <= 2 * BatchSize
  /\ loop \in {"none", "select", "write", "writeToDLQ", "drain", "done"}
  /\ batch \in Seq(Log) /\ (cancelled \/ Len(batch) <= BatchSize)
  /\ resume \in {"select", "done"}
  /\ cancelled \in BOOLEAN
  /\ closer \in {"running", "wait", "closeWriter", "closed"}
  /\ state \in [COUNTER_KEYS -> Nat]
  /\ topic \subseteq Log /\ inflight \subseteq Log /\ dlq \subseteq Log
  /\ faults \in 0 .. MaxFault
  /\ accepted \in Seq(Log) /\ flushed \in Seq(Log)
  /\ due \in SUBSET Nat

\* The counters Update and Send keep from several goroutines add up: every
\* request is converted or counted as failed, and every Send was accepted by
\* the channel or counted as dropped.
CountersAddUp ==
  LET sends == state["SENT_TO_KAFKA"] + Cardinality(counting) IN
    /\ state["RECEIVED_REQ"] = state["CONVERT_FAILED"] + sends
    /\ sends = Len(accepted) + state["SENT_KAFKA_CHN_FULL"]

\* flush loses nothing silently: a message it has disposed of is in the topic,
\* still held by the writer, or counted in SEND_KAFKA_FAILED; with a dead
\* letter topic that has taken every write, such a message is there.
NoSilentLoss ==
  LET missing == Range(flushed) \ (topic \cup inflight) IN
    /\ Cardinality(missing) <= state["SEND_KAFKA_FAILED"]
    /\ HasDLQ /\ state["DLQ_SENT_FAILED"] = 0 => missing \subseteq dlq

\* The module is a sink: channel and batch keep the order, lose and repeat
\* nothing, and sendLoop does not end before it has flushed what was in the
\* channel when Close cancelled the context.
Sink == INSTANCE AsyncSink WITH Msg <- Log, handled <- flushed, ended <- loop = "done"
IsSink == Sink!Spec

\* A message accepted before Close is flushed, full batch or not.
AcceptedIsFlushed ==
  \A m \in Log : m \in Range(accepted) /\ ~cancelled ~> m \in Range(flushed)

\* Close returns: the drain ends, and with it the wait for sendLoop.
CloseReturns == closer = "wait" ~> closer = "closed"

\* doc/sys_design/overview.md:138 says that Close flushes what is left: with a
\* broker that takes every write, what was accepted before Close reaches the
\* topic.
CloseDelivers ==
  closer = "closed" /\ loop = "done" /\ faults = 0 =>
    \A n \in due : \A i \in 1 .. n : accepted[i] \in topic

=============================================================================
