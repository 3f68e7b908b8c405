--------------------------- MODULE ModKafka_proofs ---------------------------
(***************************************************************************)
(* Proofs about ModKafka for every number of Update goroutines and records, *)
(* every batch size, with and without a dead letter topic, and however     *)
(* often the broker fails: type correctness, the sums of the counters,     *)
(* that no message is lost silently, and that the module is a sink.        *)
(***************************************************************************)
EXTENDS ModKafka, SequenceLemmas

(* Counting changes the counters it names, by one.                           *)
LEMMA CountStep ==
  ASSUME state \in [COUNTER_KEYS -> Nat], NEW keys, Count(keys)
  PROVE  /\ state' \in [COUNTER_KEYS -> Nat]
         /\ \A k \in COUNTER_KEYS : state'[k] = IF k \in keys THEN state[k] + 1 ELSE state[k]
BY DEF Count

-----------------------------------------------------------------------------
(* The inductive invariant *)

(* What the place of sendLoop says of its batch, and of Close.               *)
LoopShape ==
  /\ loop = "none" => batch = <<>>
  /\ loop = "select" => Len(batch) < BatchSize
  /\ loop \in {"write", "writeToDLQ"} => batch # <<>>
  /\ loop = "writeToDLQ" => HasDLQ
  /\ loop = "drain" => cancelled
  /\ loop = "done" => batch = <<>> /\ resume = "done"
  /\ resume = "done" => cancelled /\ loop \in {"write", "writeToDLQ", "done"}
  /\ cancelled <=> closer # "running"
  /\ cancelled <=> due # {}
  /\ \A u \in counting : todo[u] # <<>>

(* Channel and batch keep the order: flushed, batch and channel are what the *)
(* channel has accepted.                                                     *)
Order ==
  /\ accepted = (flushed \o batch) \o msgCh
  /\ \A n \in due : n <= Len(accepted)
  /\ resume = "done" => \A n \in due : n <= Len(flushed) + Len(batch)

(* What flush has disposed of and not seen in the topic is counted; a batch   *)
(* on its way to the dead letter topic is counted before it is flushed.      *)
Counted ==
  /\ IsFiniteSet(Range(flushed) \ topic)
  /\ Cardinality(Range(flushed) \ topic)
       + (IF loop = "writeToDLQ" THEN Len(batch) ELSE 0) <= state["SEND_KAFKA_FAILED"]
  /\ HasDLQ /\ state["DLQ_SENT_FAILED"] = 0 => Range(flushed) \ topic \subseteq dlq

KInv == TypeOK /\ LoopShape /\ CountersAddUp /\ Order /\ Counted

-----------------------------------------------------------------------------
(* Each part of the invariant is preserved *)

(* The types are preserved, and the batch never exceeds its size before Close. *)
LEMMA KTypeStep ==
  ASSUME TypeOK, LoopShape, [Next]_vars
  PROVE  TypeOK'
<1>. USE DEF TypeOK, senderVars, loopVars, kafkaVars
<1>0. /\ BatchSize \in Nat \ {0} /\ MaxFault \in Nat
      /\ Len(batch) \in Nat /\ Len(msgCh) \in Nat
      /\ Range(batch) \subseteq Log
  BY ConfAssumption, RangeOfSeq
<1>1. ASSUME NEW u \in Updater, todo[u] # <<>>
      PROVE  Head(todo[u]) \in Log /\ Tail(todo[u]) \in Seq(Log)
  BY <1>1, HeadTailProperties
<1>2. ASSUME msgCh # <<>>
      PROVE  /\ Tail(msgCh) \in Seq(Log) /\ Len(Tail(msgCh)) <= 2 * BatchSize
             /\ Append(batch, Head(msgCh)) \in Seq(Log)
             /\ Len(Append(batch, Head(msgCh))) = Len(batch) + 1
  BY <1>0, <1>2, HeadTailProperties, AppendProperties
<1>3. flushed \o batch \in Seq(Log) /\ <<>> \in Seq(Log) /\ Len(<<>>) = 0
  BY ConcatProperties, EmptySeq
<1>4. ASSUME NEW u \in Updater, Skip(u) PROVE TypeOK'
  <2>1. todo' \in [Updater -> Seq(Log)]
    BY <1>1, <1>4 DEF Skip
  <2>2. state' \in [COUNTER_KEYS -> Nat]
    BY <1>4, CountStep DEF Skip
  <2>. QED
    BY <1>4, <2>1, <2>2 DEF Skip
<1>5. ASSUME NEW u \in Updater, Send(u) PROVE TypeOK'
  <2>1. Head(todo[u]) \in Log
    BY <1>1, <1>5 DEF Send
  <2>2. state' \in [COUNTER_KEYS -> Nat]
    BY <1>5, CountStep DEF Send
  <2>3. msgCh' \in Seq(Log) /\ Len(msgCh') <= 2 * BatchSize /\ accepted' \in Seq(Log)
    <3>1. CASE Len(msgCh) < Cap
      <4>1. msgCh' = Append(msgCh, Head(todo[u])) /\ accepted' = Append(accepted, Head(todo[u]))
        BY <1>5, <3>1 DEF Send
      <4>2. /\ msgCh' \in Seq(Log) /\ Len(msgCh') = Len(msgCh) + 1
            /\ accepted' \in Seq(Log)
        BY <2>1, <4>1, AppendProperties
      <4>. QED
        BY <1>0, <3>1, <4>2 DEF Cap
    <3>2. CASE ~(Len(msgCh) < Cap)
      BY <1>5, <3>2 DEF Send
    <3>. QED
      BY <3>1, <3>2
  <2>. QED
    BY <1>5, <2>2, <2>3 DEF Send
<1>6. ASSUME NEW u \in Updater, CountSent(u) PROVE TypeOK'
  <2>1. todo[u] # <<>>
    BY <1>6 DEF CountSent, LoopShape
  <2>2. todo' \in [Updater -> Seq(Log)]
    BY <1>1, <1>6, <2>1 DEF CountSent
  <2>3. state' \in [COUNTER_KEYS -> Nat]
    BY <1>6, CountStep DEF CountSent
  <2>. QED
    BY <1>6, <2>2, <2>3 DEF CountSent
<1>7. CASE Start
  BY <1>7 DEF Start
<1>8. CASE Receive
  <2>1. /\ batch' \in Seq(Log) /\ msgCh' \in Seq(Log) /\ Len(msgCh') <= 2 * BatchSize
        /\ cancelled \/ Len(batch') <= BatchSize
    BY <1>0, <1>2, <1>8 DEF Receive, LoopShape
  <2>2. /\ loop' \in {"none", "select", "write", "writeToDLQ", "drain", "done"}
        /\ resume' \in {"select", "done"}
    BY <1>8 DEF Receive, Flush
  <2>. QED
    BY <1>8, <2>1, <2>2 DEF Receive
<1>9. CASE Tick
  BY <1>9 DEF Tick, Flush
<1>10. CASE Cancelled
  BY <1>10 DEF Cancelled
<1>11. CASE Drain
  <2>1. cancelled /\ UNCHANGED <<senderVars, cancelled, closer, state, kafkaVars, accepted, flushed, due>>
    BY <1>11 DEF Drain, DrainTo, LoopShape
  <2>2. batch' \in Seq(Log) /\ msgCh' \in Seq(Log) /\ Len(msgCh') <= 2 * BatchSize
    BY <1>0, <1>2, <1>11 DEF Drain, DrainTo
  <2>3. /\ loop' \in {"none", "select", "write", "writeToDLQ", "drain", "done"}
        /\ resume' \in {"select", "done"}
    BY <1>11 DEF Drain, DrainTo, Flush
  <2>. QED
    BY <2>1, <2>2, <2>3
<1>12. CASE WriteOk
  <2>1. /\ batch' = <<>> /\ flushed' = flushed \o batch /\ topic' = topic \cup Range(batch)
        /\ loop' = resume /\ resume' = resume
        /\ UNCHANGED <<senderVars, msgCh, cancelled, closer, state, inflight, dlq, faults, accepted, due>>
    BY <1>12 DEF WriteOk, Flushed
  <2>. QED
    BY <1>0, <1>3, <2>1
<1>13. CASE WriteFails
  <2>1. UNCHANGED <<senderVars, msgCh, cancelled, closer, topic, dlq, accepted, due>>
    BY <1>13 DEF WriteFails
  <2>2. faults' \in 0 .. MaxFault /\ inflight' \subseteq Log
    BY <1>0, <1>13 DEF WriteFails
  <2>3. state' \in [COUNTER_KEYS -> Nat]
    <3>1. state' = [state EXCEPT !["SEND_KAFKA_FAILED"] = state["SEND_KAFKA_FAILED"] + Len(batch)]
      BY <1>13 DEF WriteFails, CountFailed
    <3>2. state["SEND_KAFKA_FAILED"] + Len(batch) \in Nat
      BY <1>0 DEF COUNTER_KEYS
    <3>. QED
      BY <3>1, <3>2
  <2>4. \/ loop' = "writeToDLQ" /\ UNCHANGED <<batch, resume, flushed>>
        \/ /\ batch' = <<>> /\ flushed' = flushed \o batch /\ loop' = resume /\ resume' = resume
    BY <1>13 DEF WriteFails, Flushed
  <2>5. /\ batch' \in Seq(Log) /\ (cancelled \/ Len(batch') <= BatchSize)
        /\ flushed' \in Seq(Log) /\ resume' \in {"select", "done"}
        /\ loop' \in {"none", "select", "write", "writeToDLQ", "drain", "done"}
    <3>1. CASE loop' = "writeToDLQ" /\ UNCHANGED <<batch, resume, flushed>>
      BY <3>1
    <3>2. CASE /\ batch' = <<>> /\ flushed' = flushed \o batch
               /\ loop' = resume /\ resume' = resume
      BY <1>0, <1>3, <3>2
    <3>. QED
      BY <2>4, <3>1, <3>2
  <2>6. /\ todo' \in [Updater -> Seq(Log)] /\ counting' \subseteq Updater
        /\ msgCh' \in Seq(Log) /\ Len(msgCh') <= 2 * BatchSize
        /\ cancelled' = cancelled /\ cancelled' \in BOOLEAN
        /\ closer' \in {"running", "wait", "closeWriter", "closed"}
        /\ topic' \subseteq Log /\ dlq' \subseteq Log
        /\ accepted' \in Seq(Log) /\ due' \in SUBSET Nat
    BY <2>1
  <2>. QED
    BY <2>2, <2>3, <2>5, <2>6
<1>14. CASE WriteToDLQ
  <2>1. /\ batch' = <<>> /\ flushed' = flushed \o batch
        /\ loop' = resume /\ resume' = resume
        /\ UNCHANGED <<senderVars, msgCh, cancelled, closer, topic, inflight, accepted, due>>
    BY <1>14 DEF WriteToDLQ, Flushed
  <2>2. state' \in [COUNTER_KEYS -> Nat]
    BY <1>14, CountStep DEF WriteToDLQ
  <2>3. faults' \in 0 .. MaxFault /\ dlq' \subseteq Log
    BY <1>0, <1>14 DEF WriteToDLQ
  <2>. QED
    BY <1>0, <1>3, <2>1, <2>2, <2>3
<1>15. CASE Land
  BY <1>15 DEF Land
<1>16. CASE Cancel
  <2>1. due' \in SUBSET Nat
    BY <1>16 DEF Cancel
  <2>. QED
    BY <1>16, <2>1 DEF Cancel, CloseStep
<1>17. CASE Wait
  BY <1>17 DEF Wait, CloseStep
<1>18. CASE CloseWriters
  BY <1>18 DEF CloseWriters, CloseStep
<1>19. CASE UNCHANGED vars
  BY <1>19 DEF vars
<1>. QED
  BY <1>4, <1>5, <1>6, <1>7, <1>8, <1>9, <1>10, <1>11, <1>12, <1>13, <1>14, <1>15, <1>16, <1>17, <1>18, <1>19
     DEF Next, Update, SendLoop, Close

(* The place of sendLoop decides what its batch may be.                      *)
LEMMA LoopShapeStep ==
  ASSUME TypeOK, LoopShape, [Next]_vars
  PROVE  LoopShape'
<1>. USE DEF LoopShape, senderVars, loopVars, kafkaVars
<1>0. /\ BatchSize \in Nat \ {0} /\ Len(batch) \in Nat /\ batch \in Seq(Log) /\ msgCh \in Seq(Log)
      /\ counting \subseteq Updater /\ todo \in [Updater -> Seq(Log)]
      /\ Len(<<>>) = 0
  BY ConfAssumption DEF TypeOK
<1>1. ASSUME msgCh # <<>>
      PROVE  /\ Append(batch, Head(msgCh)) # <<>>
             /\ Len(Append(batch, Head(msgCh))) = Len(batch) + 1
  BY <1>0, <1>1, HeadTailProperties, AppendProperties
<1>2. ASSUME NEW u \in Updater, Skip(u) PROVE LoopShape'
  <2>1. \A v \in counting : v # u /\ todo'[v] = todo[v]
    BY <1>0, <1>2 DEF Skip
  <2>. QED
    BY <1>2, <2>1 DEF Skip
<1>3. ASSUME NEW u \in Updater, Send(u) PROVE LoopShape'
  BY <1>3 DEF Send
<1>4. ASSUME NEW u \in Updater, CountSent(u) PROVE LoopShape'
  <2>1. \A v \in counting' : v # u /\ todo'[v] = todo[v] /\ v \in counting
    BY <1>0, <1>4 DEF CountSent
  <2>. QED
    BY <1>4, <2>1 DEF CountSent
<1>5. CASE Start
  BY <1>0, <1>5 DEF Start
<1>6. CASE Receive
  <2>1. /\ batch' # <<>> /\ Len(batch') = Len(batch) + 1 /\ loop = "select"
        /\ UNCHANGED <<senderVars, cancelled, closer, state, kafkaVars, accepted, flushed, due>>
    BY <1>1, <1>6 DEF Receive
  <2>2. \/ Len(batch') >= BatchSize /\ resume' = "select" /\ loop' = "write"
        \/ Len(batch') < BatchSize /\ UNCHANGED <<loop, resume>>
    BY <1>0, <1>6, <2>1 DEF Receive, Full, Flush
  <2>. QED
    BY <2>1, <2>2
<1>7. CASE Tick
  <2>1. /\ batch' = batch /\ resume' = "select" /\ loop = "select"
        /\ loop' = IF batch = <<>> THEN "select" ELSE "write"
        /\ UNCHANGED <<senderVars, cancelled, closer, state, kafkaVars, accepted, flushed, due>>
    BY <1>7 DEF Tick, Flush
  <2>. QED
    BY <2>1
<1>8. CASE Cancelled
  BY <1>8 DEF Cancelled
<1>9. CASE Drain
  <2>1. loop = "drain" /\ UNCHANGED <<senderVars, cancelled, closer, state, kafkaVars, accepted, flushed, due>>
    BY <1>9 DEF Drain, DrainTo
  <2>2. \/ UNCHANGED <<loop, resume>>
        \/ batch' = batch /\ resume' = "done" /\ loop' = IF batch = <<>> THEN "done" ELSE "write"
    BY <1>9 DEF Drain, DrainTo, Flush
  <2>. QED
    BY <2>1, <2>2
<1>10. CASE WriteOk
  <2>1. /\ batch' = <<>> /\ loop' = resume /\ resume' = resume
        /\ UNCHANGED <<senderVars, cancelled, closer, due>>
    BY <1>10 DEF WriteOk, Flushed
  <2>. QED
    BY <1>0, <2>1 DEF TypeOK
<1>11. CASE WriteFails
  <2>1. loop = "write" /\ UNCHANGED <<senderVars, cancelled, closer, due>>
    BY <1>11 DEF WriteFails
  <2>2. \/ HasDLQ /\ loop' = "writeToDLQ" /\ UNCHANGED <<batch, resume>>
        \/ batch' = <<>> /\ loop' = resume /\ resume' = resume
    BY <1>11 DEF WriteFails, Flushed
  <2>. QED
    BY <1>0, <2>1, <2>2 DEF TypeOK
<1>12. CASE WriteToDLQ
  <2>1. /\ batch' = <<>> /\ loop' = resume /\ resume' = resume
        /\ UNCHANGED <<senderVars, cancelled, closer, due>>
    BY <1>12 DEF WriteToDLQ, Flushed
  <2>. QED
    BY <1>0, <2>1 DEF TypeOK
<1>13. CASE Land
  BY <1>13 DEF Land
<1>14. CASE Cancel
  BY <1>14 DEF Cancel, CloseStep
<1>15. CASE Wait
  BY <1>15 DEF Wait, CloseStep
<1>16. CASE CloseWriters
  BY <1>16 DEF CloseWriters, CloseStep
<1>17. CASE UNCHANGED vars
  BY <1>17 DEF vars
<1>. QED
  BY <1>2, <1>3, <1>4, <1>5, <1>6, <1>7, <1>8, <1>9, <1>10, <1>11, <1>12, <1>13, <1>14, <1>15, <1>16, <1>17
     DEF Next, Update, SendLoop, Close

(* A step of Update moves the counters, the channel and the goroutines that   *)
(* have yet to count together; no other step moves them.                     *)
LEMMA CountersStep ==
  ASSUME TypeOK, LoopShape, CountersAddUp, [Next]_vars
  PROVE  CountersAddUp'
<1>. USE DEF CountersAddUp, senderVars, loopVars, kafkaVars
<1>. DEFINE Counts(req, conv, sent, full) ==
              /\ state'["RECEIVED_REQ"] = state["RECEIVED_REQ"] + req
              /\ state'["CONVERT_FAILED"] = state["CONVERT_FAILED"] + conv
              /\ state'["SENT_TO_KAFKA"] = state["SENT_TO_KAFKA"] + sent
              /\ state'["SENT_KAFKA_CHN_FULL"] = state["SENT_KAFKA_CHN_FULL"] + full
<1>0. /\ state \in [COUNTER_KEYS -> Nat]
      /\ "RECEIVED_REQ" \in COUNTER_KEYS /\ state["RECEIVED_REQ"] \in Nat
      /\ "CONVERT_FAILED" \in COUNTER_KEYS /\ state["CONVERT_FAILED"] \in Nat
      /\ "SENT_TO_KAFKA" \in COUNTER_KEYS /\ state["SENT_TO_KAFKA"] \in Nat
      /\ "SENT_KAFKA_CHN_FULL" \in COUNTER_KEYS /\ state["SENT_KAFKA_CHN_FULL"] \in Nat
      /\ IsFiniteSet(counting) /\ Cardinality(counting) \in Nat
      /\ Len(accepted) \in Nat
  <2>1. IsFiniteSet(counting)
    BY LogsAssumption, FS_Subset DEF TypeOK
  <2>. QED
    BY <2>1, FS_CardinalityType DEF TypeOK, COUNTER_KEYS
<1>1. ASSUME NEW u \in Updater, Skip(u) PROVE CountersAddUp'
  <2>1. UNCHANGED <<counting, accepted>>
    BY <1>1 DEF Skip
  <2>2. CASE Count({"RECEIVED_LOGS"})
    <3>1. Counts(0, 0, 0, 0)
      BY <1>0, <2>2 DEF Count
    <3>. QED
      BY <1>0, <2>1, <3>1
  <2>3. CASE Count({"RECEIVED_LOGS", "RECEIVED_REQ", "CONVERT_FAILED"})
    <3>1. Counts(1, 1, 0, 0)
      BY <1>0, <2>3 DEF Count
    <3>. QED
      BY <1>0, <2>1, <3>1
  <2>. QED
    BY <1>1, <2>2, <2>3 DEF Skip
<1>2. ASSUME NEW u \in Updater, Send(u) PROVE CountersAddUp'
  <2>1. u \notin counting /\ counting' = counting \cup {u}
    BY <1>2 DEF Send
  <2>2. Cardinality(counting') = Cardinality(counting) + 1
    BY <1>0, <2>1, FS_AddElement
  <2>3. CASE Len(msgCh) < Cap
    <3>1. accepted' = Append(accepted, Head(todo[u])) /\ Count({"RECEIVED_LOGS", "RECEIVED_REQ"})
      BY <1>2, <2>3 DEF Send
    <3>2. Len(accepted') = Len(accepted) + 1
      BY <1>2, <3>1, HeadTailProperties, AppendProperties DEF Send, TypeOK
    <3>3. Counts(1, 0, 0, 0)
      BY <1>0, <3>1 DEF Count
    <3>. QED
      BY <1>0, <2>2, <3>2, <3>3, SMTT(20)
  <2>4. CASE ~(Len(msgCh) < Cap)
    <3>1. accepted' = accepted /\ Count({"RECEIVED_LOGS", "RECEIVED_REQ", "SENT_KAFKA_CHN_FULL"})
      BY <1>2, <2>4 DEF Send, Dropped
    <3>2. Counts(1, 0, 0, 1)
      BY <1>0, <3>1 DEF Count
    <3>. QED
      BY <1>0, <2>2, <3>1, <3>2, SMTT(20)
  <2>. QED
    BY <2>3, <2>4
<1>3. ASSUME NEW u \in Updater, CountSent(u) PROVE CountersAddUp'
  <2>1. u \in counting /\ counting' = counting \ {u} /\ accepted' = accepted
    BY <1>3 DEF CountSent
  <2>2. Cardinality(counting') = Cardinality(counting) - 1
    BY <1>0, <2>1, FS_RemoveElement
  <2>3. Counts(0, 0, 1, 0)
    BY <1>0, <1>3 DEF CountSent, Count
  <2>. QED
    BY <1>0, <2>1, <2>2, <2>3
<1>4. CASE WriteFails
  <2>1. UNCHANGED <<counting, accepted>>
    BY <1>4 DEF WriteFails
  <2>2. Counts(0, 0, 0, 0)
    BY <1>0, <1>4 DEF WriteFails, CountFailed
  <2>. QED
    BY <1>0, <2>1, <2>2
<1>5. CASE WriteToDLQ
  <2>1. UNCHANGED <<counting, accepted>>
    BY <1>5 DEF WriteToDLQ
  <2>2. \/ Count({"DLQ_SENT"})
        \/ Count({"DLQ_SENT", "DLQ_SENT_FAILED"})
    BY <1>5 DEF WriteToDLQ
  <2>3. Counts(0, 0, 0, 0)
    <3>1. CASE Count({"DLQ_SENT"})
      BY <1>0, <3>1 DEF Count
    <3>2. CASE Count({"DLQ_SENT", "DLQ_SENT_FAILED"})
      BY <1>0, <3>2 DEF Count
    <3>. QED
      BY <2>2, <3>1, <3>2
  <2>. QED
    BY <1>0, <2>1, <2>3
<1>6. CASE \/ Start \/ Receive \/ Tick \/ Cancelled \/ Drain \/ WriteOk \/ Land \/ Close
           \/ UNCHANGED vars
  <2>1. UNCHANGED <<state, counting, accepted>>
    BY <1>6 DEF Start, Receive, Tick, Cancelled, Drain, DrainTo, WriteOk, Land, Close,
       Cancel, Wait, CloseWriters, vars
  <2>. QED
    BY <2>1
<1>. QED
  BY <1>1, <1>2, <1>3, <1>4, <1>5, <1>6 DEF Next, Update, SendLoop

(* sendLoop takes the head of the channel into its batch.                    *)
LEMMA TakeFromChannel ==
  ASSUME batch \in Seq(Log), msgCh \in Seq(Log), flushed \in Seq(Log), msgCh # <<>>
  PROVE  (flushed \o Append(batch, Head(msgCh))) \o Tail(msgCh) = (flushed \o batch) \o msgCh
<1>1. Shifts(Log)
  BY QueueShift
<1>. QED
  BY <1>1, Zenon DEF Shifts

(* The messages move from the channel to the batch and from the batch to       *)
(* flushed, and keep their order.                                            *)
LEMMA OrderStep ==
  ASSUME TypeOK, LoopShape, Order, [Next]_vars
  PROVE  Order'
<1>. USE DEF Order, senderVars, loopVars, kafkaVars
<1>0. /\ batch \in Seq(Log) /\ msgCh \in Seq(Log) /\ flushed \in Seq(Log) /\ accepted \in Seq(Log)
      /\ <<>> \in Seq(Log) /\ Len(<<>>) = 0
      /\ flushed \o batch \in Seq(Log)
      /\ Len(flushed \o batch) = Len(flushed) + Len(batch)
      /\ Len(flushed) \in Nat /\ Len(batch) \in Nat /\ Len(msgCh) \in Nat
      /\ Len(accepted) = Len(flushed) + Len(batch) + Len(msgCh)
      /\ due \in SUBSET Nat
      /\ todo \in [Updater -> Seq(Log)]
  <2>1. /\ batch \in Seq(Log) /\ msgCh \in Seq(Log) /\ flushed \in Seq(Log) /\ accepted \in Seq(Log)
        /\ due \in SUBSET Nat /\ todo \in [Updater -> Seq(Log)]
    BY DEF TypeOK
  <2>2. flushed \o batch \in Seq(Log) /\ Len(flushed \o batch) = Len(flushed) + Len(batch)
    BY <2>1, ConcatProperties
  <2>3. Len((flushed \o batch) \o msgCh) = Len(flushed \o batch) + Len(msgCh)
    BY <2>1, <2>2, ConcatProperties
  <2>. QED
    BY <2>1, <2>2, <2>3, EmptySeq
<1>1. ASSUME NEW u \in Updater, Skip(u) \/ CountSent(u) PROVE Order'
  BY <1>1 DEF Skip, CountSent
<1>2. ASSUME NEW u \in Updater, Send(u) PROVE Order'
  <2>1. UNCHANGED <<flushed, batch, resume, due>> /\ Head(todo[u]) \in Log
    BY <1>0, <1>2, HeadTailProperties DEF Send
  <2>2. CASE Len(msgCh) < Cap
    <3>1. msgCh' = Append(msgCh, Head(todo[u])) /\ accepted' = Append(accepted, Head(todo[u]))
      BY <1>2, <2>2 DEF Send
    <3>2. accepted' = (flushed \o batch) \o msgCh'
      <4>1. (flushed \o batch) \o Append(msgCh, Head(todo[u])) = Append((flushed \o batch) \o msgCh, Head(todo[u]))
        BY <1>0, <2>1, QueueIn, SMTT(20)
      <4>. QED
        BY <3>1, <4>1
    <3>3. Len(accepted') = Len(accepted) + 1
      BY <1>0, <2>1, <3>1, AppendProperties
    <3>. QED
      BY <1>0, <2>1, <3>2, <3>3
  <2>3. CASE ~(Len(msgCh) < Cap)
    BY <1>2, <2>1, <2>3 DEF Send
  <2>. QED
    BY <2>2, <2>3
\* The head of the channel joins the batch.
<1>3. ASSUME msgCh # <<>>, batch' = Append(batch, Head(msgCh)), msgCh' = Tail(msgCh),
             UNCHANGED <<accepted, flushed, due>>, resume' = "select"
      PROVE  Order'
  <2>1. (flushed \o batch') \o msgCh' = (flushed \o batch) \o msgCh
    <3>1. (flushed \o Append(batch, Head(msgCh))) \o Tail(msgCh) = (flushed \o batch) \o msgCh
      BY <1>0, <1>3, TakeFromChannel
    <3>. QED
      BY <1>3, <3>1
  <2>2. accepted' = (flushed' \o batch') \o msgCh'
    BY <1>3, <2>1
  <2>. QED
    BY <1>3, <2>2
\* The batch is flushed.
<1>4. ASSUME Flushed, UNCHANGED <<msgCh, accepted, due>> PROVE Order'
  <2>1. /\ flushed' = flushed \o batch /\ batch' = <<>> /\ resume' = resume
        /\ UNCHANGED <<msgCh, accepted, due>>
    BY <1>4 DEF Flushed
  <2>2. (flushed \o batch) \o <<>> = flushed \o batch
    BY <1>0, ConcatEmptySeq
  <2>3. accepted' = (flushed' \o batch') \o msgCh'
    BY <2>1, <2>2
  <2>4. Len(flushed') + Len(batch') = Len(flushed) + Len(batch)
    BY <1>0, <2>1
  <2>. QED
    BY <2>1, <2>3, <2>4
<1>5. CASE Start \/ Cancelled \/ Land \/ Wait \/ CloseWriters \/ UNCHANGED vars
  BY <1>5 DEF Start, Cancelled, Land, Wait, CloseWriters, vars
<1>6. CASE Receive
  <2>1. resume' = "select" /\ msgCh # <<>>
    BY <1>6 DEF Receive, Flush, LoopShape, TypeOK
  <2>. QED
    BY <1>3, <1>6, <2>1 DEF Receive
<1>7. CASE Tick
  <2>1. UNCHANGED <<batch, msgCh, accepted, flushed, due>> /\ resume' = "select"
    BY <1>7 DEF Tick, Flush
  <2>. QED
    BY <2>1
<1>8. CASE Drain
  <2>1. CASE msgCh # <<>>
    <3>1. resume' = "select"
      BY <1>8, <2>1 DEF Drain, DrainTo, LoopShape, TypeOK
    <3>. QED
      BY <1>3, <1>8, <2>1, <3>1 DEF Drain, DrainTo
  <2>2. CASE msgCh = <<>>
    <3>1. UNCHANGED <<batch, msgCh, accepted, flushed, due>>
      BY <1>8, <2>2 DEF Drain, DrainTo
    <3>2. Len(msgCh) = 0
      BY <1>0, <2>2
    <3>. QED
      BY <1>0, <3>1, <3>2
  <2>. QED
    BY <2>1, <2>2
<1>9. CASE WriteOk
  BY <1>4, <1>9 DEF WriteOk
<1>10. CASE WriteFails
  <2>1. UNCHANGED <<msgCh, accepted, due>> /\ (Flushed \/ UNCHANGED <<batch, resume, flushed>>)
    BY <1>10 DEF WriteFails
  <2>. QED
    BY <1>4, <2>1
<1>11. CASE WriteToDLQ
  BY <1>4, <1>11 DEF WriteToDLQ
<1>12. CASE Cancel
  <2>1. due' = {Len(accepted)} /\ resume' = resume /\ resume # "done"
        /\ UNCHANGED <<batch, msgCh, accepted, flushed>>
    BY <1>12 DEF Cancel, CloseStep, LoopShape
  <2>. QED
    BY <1>0, <2>1
<1>. QED
  BY <1>1, <1>2, <1>5, <1>6, <1>7, <1>8, <1>9, <1>10, <1>11, <1>12 DEF Next, Update, SendLoop, Close

(* A message flush disposes of has reached the topic or is counted as failed. *)
LEMMA CountedStep ==
  ASSUME TypeOK, LoopShape, Counted, [Next]_vars
  PROVE  Counted'
<1>. USE DEF Counted, senderVars, loopVars, kafkaVars
<1>. DEFINE lost == Range(flushed) \ topic
            SKF  == "SEND_KAFKA_FAILED"
            DSF  == "DLQ_SENT_FAILED"
<1>0. /\ batch \in Seq(Log) /\ flushed \in Seq(Log) /\ Len(batch) \in Nat
      /\ Range(flushed \o batch) = Range(flushed) \cup Range(batch)
      /\ state \in [COUNTER_KEYS -> Nat]
      /\ SKF \in COUNTER_KEYS /\ DSF \in COUNTER_KEYS
      /\ state[SKF] \in Nat /\ state[DSF] \in Nat
      /\ IsFiniteSet(lost) /\ Cardinality(lost) \in Nat
  BY RangeConcatenation, FS_CardinalityType, SMTT(20) DEF TypeOK, COUNTER_KEYS
\* A step that leaves all of this alone.
<1>1. ASSUME UNCHANGED <<flushed, topic, dlq>>,
             state'[SKF] = state[SKF], state'[DSF] = state[DSF],
             loop' # "writeToDLQ"
      PROVE  Counted'
  BY <1>0, <1>1
<1>2. ASSUME UNCHANGED <<flushed, topic, dlq, loop, batch>>,
             state'[SKF] = state[SKF], state'[DSF] = state[DSF]
      PROVE  Counted'
  BY <1>0, <1>2
\* What the flush of the batch adds.
<1>3. /\ IsFiniteSet(lost \cup Range(batch)) /\ Cardinality(lost \cup Range(batch)) \in Nat
      /\ Cardinality(lost \cup Range(batch)) <= Cardinality(lost) + Len(batch)
  BY <1>0, UnionBound
<1>4. ASSUME NEW T, T \subseteq lost \cup Range(batch)
      PROVE  /\ IsFiniteSet(T) /\ Cardinality(T) \in Nat
             /\ Cardinality(T) <= Cardinality(lost) + Len(batch)
  BY <1>0, <1>3, <1>4, FS_Subset, FS_CardinalityType
<1>5. ASSUME NEW T, T \subseteq lost
      PROVE  IsFiniteSet(T) /\ Cardinality(T) \in Nat /\ Cardinality(T) <= Cardinality(lost)
  BY <1>0, <1>5, FS_Subset, FS_CardinalityType
<1>6. ASSUME NEW u \in Updater, Update(u) PROVE Counted'
  <2>1. UNCHANGED <<flushed, topic, dlq, loop, batch>>
    BY <1>6 DEF Update, Skip, Send, CountSent
  <2>2. \/ Count({"RECEIVED_LOGS"})
        \/ Count({"RECEIVED_LOGS", "RECEIVED_REQ", "CONVERT_FAILED"})
        \/ Count({"RECEIVED_LOGS", "RECEIVED_REQ"})
        \/ Count({"RECEIVED_LOGS", "RECEIVED_REQ", "SENT_KAFKA_CHN_FULL"})
        \/ Count({"SENT_TO_KAFKA"})
    BY <1>6 DEF Update, Skip, Send, CountSent, Dropped
  <2>3. state'[SKF] = state[SKF] /\ state'[DSF] = state[DSF]
    BY <1>0, <2>2 DEF Count
  <2>. QED
    BY <1>2, <2>1, <2>3
<1>7. CASE Start \/ Receive \/ Tick \/ Cancelled \/ Drain
  <2>1. UNCHANGED <<flushed, topic, dlq, state>> /\ loop' # "writeToDLQ"
    BY <1>7 DEF Start, Receive, Tick, Cancelled, Drain, DrainTo, Flush, LoopShape
  <2>. QED
    BY <1>1, <2>1
<1>8. CASE WriteOk
  <2>1. /\ topic' = topic \cup Range(batch) /\ flushed' = flushed \o batch
        /\ UNCHANGED <<state, dlq>> /\ loop' # "writeToDLQ"
    BY <1>8 DEF WriteOk, Flushed, TypeOK
  <2>2. lost' \subseteq lost
    BY <1>0, <2>1
  <2>3. IsFiniteSet(lost') /\ Cardinality(lost') <= Cardinality(lost) /\ Cardinality(lost') \in Nat
    BY <1>5, <2>2
  <2>4. lost' \subseteq dlq' \/ ~(lost \subseteq dlq)
    BY <2>1, <2>2
  <2>. QED
    BY <1>0, <2>1, <2>3, <2>4
<1>9. CASE WriteFails
  <2>1. /\ UNCHANGED <<topic, dlq>> /\ loop = "write"
        /\ state'[SKF] = state[SKF] + Len(batch) /\ state'[DSF] = state[DSF]
    BY <1>0, <1>9 DEF WriteFails, CountFailed
  <2>2. CASE HasDLQ
    <3>1. UNCHANGED <<flushed, batch>> /\ loop' = "writeToDLQ"
      BY <1>9, <2>2 DEF WriteFails
    <3>. QED
      BY <1>0, <2>1, <3>1
  <2>3. CASE ~HasDLQ
    <3>1. flushed' = flushed \o batch /\ loop' # "writeToDLQ"
      BY <1>9, <2>3 DEF WriteFails, Flushed, TypeOK
    <3>2. lost' \subseteq lost \cup Range(batch)
      BY <1>0, <2>1, <3>1
    <3>3. /\ IsFiniteSet(lost') /\ Cardinality(lost') \in Nat
          /\ Cardinality(lost') <= Cardinality(lost) + Len(batch)
      BY <1>4, <3>2
    <3>. QED
      BY <1>0, <2>1, <2>3, <3>1, <3>3
  <2>. QED
    BY <2>2, <2>3, ConfAssumption
<1>10. CASE WriteToDLQ
  <2>1. /\ topic' = topic /\ flushed' = flushed \o batch
        /\ loop = "writeToDLQ" /\ loop' # "writeToDLQ"
    BY <1>10 DEF WriteToDLQ, Flushed, TypeOK
  <2>2. lost' \subseteq lost \cup Range(batch)
    BY <1>0, <2>1
  <2>3. /\ IsFiniteSet(lost') /\ Cardinality(lost') \in Nat
        /\ Cardinality(lost') <= Cardinality(lost) + Len(batch)
    BY <1>4, <2>2
  <2>4. CASE dlq' = dlq \cup Range(batch) /\ Count({"DLQ_SENT"})
    <3>1. state'[SKF] = state[SKF] /\ state'[DSF] = state[DSF]
      BY <1>0, <2>4 DEF Count
    <3>2. lost \subseteq dlq => lost' \subseteq dlq'
      BY <2>2, <2>4
    <3>. QED
      BY <1>0, <2>1, <2>3, <3>1, <3>2
  <2>5. CASE Count({"DLQ_SENT", "DLQ_SENT_FAILED"})
    <3>1. state'[SKF] = state[SKF] /\ state'[DSF] = state[DSF] + 1
      BY <1>0, <2>5 DEF Count
    <3>. QED
      BY <1>0, <2>1, <2>3, <3>1
  <2>. QED
    BY <1>10, <2>4, <2>5 DEF WriteToDLQ
<1>11. CASE Land
  <2>1. UNCHANGED <<flushed, dlq, state, loop, batch>> /\ topic \subseteq topic'
    BY <1>11 DEF Land
  <2>2. lost' \subseteq lost
    BY <2>1
  <2>3. IsFiniteSet(lost') /\ Cardinality(lost') <= Cardinality(lost) /\ Cardinality(lost') \in Nat
    BY <1>5, <2>2
  <2>. QED
    BY <1>0, <2>1, <2>2, <2>3
<1>12. CASE Close \/ UNCHANGED vars
  <2>1. UNCHANGED <<flushed, topic, dlq, state, loop, batch>>
    BY <1>12 DEF Close, Cancel, Wait, CloseWriters, vars
  <2>. QED
    BY <1>2, <2>1
<1>. QED
  BY <1>6, <1>7, <1>8, <1>9, <1>10, <1>11, <1>12 DEF Next, SendLoop

-----------------------------------------------------------------------------
(* Theorems *)

(* The invariant holds initially: nothing has been received or flushed yet.  *)
LEMMA KInvInit == Init => KInv
<1>. SUFFICES ASSUME Init PROVE KInv
  OBVIOUS
<1>. USE DEF Init
<1>0. /\ <<>> \in Seq(Log) /\ Len(<<>>) = 0 /\ <<>> \o <<>> = <<>>
      /\ Range(<<>>) = {} /\ BatchSize \in Nat \ {0} /\ MaxFault \in Nat
  <2>1. <<>> \in Seq(Log) /\ Len(<<>>) = 0
    BY EmptySeq
  <2>2. <<>> \o <<>> = <<>>
    BY <2>1, ConcatEmptySeq
  <2>3. Range(<<>>) = {}
    BY <2>1 DEF Range
  <2>. QED
    BY <2>1, <2>2, <2>3, ConfAssumption
<1>1. IsFiniteSet({}) /\ Cardinality({}) = 0
  BY FS_EmptySet
<1>2. \A k \in COUNTER_KEYS : state[k] = 0
  OBVIOUS
<1>3. TypeOK
  <2>1. /\ state \in [COUNTER_KEYS -> Nat] /\ faults \in 0 .. MaxFault
        /\ todo \in [Updater -> Seq(Log)]
    BY <1>0, LogsAssumption
  <2>2. /\ msgCh \in Seq(Log) /\ Len(msgCh) <= 2 * BatchSize
        /\ batch \in Seq(Log) /\ Len(batch) <= BatchSize
        /\ accepted \in Seq(Log) /\ flushed \in Seq(Log)
    BY <1>0
  <2>. QED
    BY <2>1, <2>2 DEF TypeOK
<1>4. LoopShape
  BY <1>0 DEF LoopShape
<1>5. CountersAddUp
  BY <1>0, <1>1, <1>2 DEF CountersAddUp, COUNTER_KEYS
<1>6. Order
  BY <1>0 DEF Order
<1>7. Counted
  <2>1. Range(flushed) \ topic = {}
    BY <1>0
  <2>2. loop # "writeToDLQ" /\ state["SEND_KAFKA_FAILED"] = 0
    BY <1>2 DEF COUNTER_KEYS
  <2>3. IsFiniteSet(Range(flushed) \ topic) /\ Cardinality(Range(flushed) \ topic) = 0
    BY <1>1, <2>1
  <2>4. Range(flushed) \ topic \subseteq dlq
    BY <2>1
  <2>. QED
    BY <2>2, <2>3, <2>4 DEF Counted
<1>. QED
  BY <1>3, <1>4, <1>5, <1>6, <1>7 DEF KInv

(* The invariant holds in every state of every behaviour.                    *)
THEOREM KafkaInvariant == Spec => []KInv
<1>1. KInv /\ [Next]_vars => KInv'
  BY KTypeStep, LoopShapeStep, CountersStep, OrderStep, CountedStep DEF KInv
<1>. QED
  BY KInvInit, <1>1, PTL DEF Spec

(* The variables keep their types; the channel never holds more than twice    *)
(* BatchSize messages, and before Close the batch never more than BatchSize. *)
THEOREM KafkaTypes == Spec => []TypeOK
<1>1. KInv => TypeOK
  BY DEF KInv
<1>. QED
  BY KafkaInvariant, <1>1, PTL

(* The counters of Update and Send add up over any number of goroutines.     *)
THEOREM KafkaCounters == Spec => []CountersAddUp
<1>1. KInv => CountersAddUp
  BY DEF KInv
<1>. QED
  BY KafkaInvariant, <1>1, PTL

(* No message that flush disposes of is lost without being counted, and none  *)
(* at all while the dead letter topic takes every write.                     *)
THEOREM KafkaNoSilentLoss == Spec => []NoSilentLoss
<1>1. KInv => NoSilentLoss
  <2>. SUFFICES ASSUME KInv PROVE NoSilentLoss
    OBVIOUS
  <2>. DEFINE lost    == Range(flushed) \ topic
              missing == Range(flushed) \ (topic \cup inflight)
  <2>1. missing \subseteq lost /\ IsFiniteSet(lost)
    BY DEF KInv, Counted
  <2>2. /\ Cardinality(missing) <= Cardinality(lost)
        /\ Cardinality(missing) \in Nat /\ Cardinality(lost) \in Nat
    BY <2>1, FS_Subset, FS_CardinalityType
  <2>3. /\ state["SEND_KAFKA_FAILED"] \in Nat /\ Len(batch) \in Nat
        /\ Cardinality(lost) + (IF loop = "writeToDLQ" THEN Len(batch) ELSE 0) <= state["SEND_KAFKA_FAILED"]
    BY DEF KInv, Counted, TypeOK, COUNTER_KEYS
  <2>4. HasDLQ /\ state["DLQ_SENT_FAILED"] = 0 => missing \subseteq dlq
    BY <2>1 DEF KInv, Counted
  <2>. HIDE DEF lost
  <2>5. Cardinality(missing) <= state["SEND_KAFKA_FAILED"]
    BY <2>2, <2>3
  <2>. QED
    BY <2>4, <2>5 DEF NoSilentLoss
<1>. QED
  BY KafkaInvariant, <1>1, PTL

(* A flush hands on what was accepted up to the end of the batch, in order,   *)
(* and the loop ends with it only when that is all that was due.             *)
LEMMA FlushHandles ==
  ASSUME KInv, loop \in {"write", "writeToDLQ"}, Flushed, UNCHANGED <<accepted, due>>
  PROVE  Sink!Next
<1>. DEFINE fb == flushed \o batch
            n  == Len(fb)
<1>0. /\ batch \in Seq(Log) /\ msgCh \in Seq(Log) /\ flushed \in Seq(Log) /\ accepted \in Seq(Log)
      /\ due \in SUBSET Nat /\ resume \in {"select", "done"} /\ batch # <<>>
      /\ accepted = fb \o msgCh
      /\ resume = "done" => due # {} /\ \A d \in due : d <= Len(flushed) + Len(batch)
  BY DEF KInv, TypeOK, LoopShape, Order
<1>1. /\ fb \in Seq(Log) /\ n = Len(flushed) + Len(batch)
      /\ Len(flushed) \in Nat /\ Len(batch) \in Nat \ {0} /\ Len(msgCh) \in Nat
  BY <1>0, ConcatProperties, EmptySeq
<1>. HIDE DEF fb
<1>2. Len(accepted) = n + Len(msgCh)
  BY <1>0, <1>1, ConcatProperties
<1>3. flushed' = SubSeq(accepted, 1, n)
  <2>1. SubSeq(fb \o msgCh, 1, n) = fb
    BY <1>0, <1>1, PrefixOfConcat
  <2>. QED
    BY <1>0, <2>1 DEF Flushed, fb
<1>4. n \in (Len(flushed) + 1) .. Len(accepted) /\ n \in Len(flushed) .. Len(accepted)
  BY <1>1, <1>2
<1>5. Len(flushed') = n
  BY DEF Flushed, fb
<1>6. CASE resume = "select"
  <2>1. loop # "done" /\ loop' # "done"
    BY <1>6 DEF Flushed
  <2>2. Sink!Handle
    BY <1>3, <1>4, <2>1 DEF Sink!Handle
  <2>. QED
    BY <2>2 DEF Sink!Next
<1>7. CASE resume = "done"
  <2>1. loop # "done" /\ loop' = "done"
    BY <1>7 DEF Flushed
  <2>2. \A d \in due : d <= Len(flushed')
    BY <1>0, <1>1, <1>5, <1>7
  <2>3. Sink!End
    BY <1>0, <1>3, <1>4, <1>7, <2>1, <2>2 DEF Sink!End
  <2>. QED
    BY <2>3 DEF Sink!Next
<1>. QED
  BY <1>0, <1>6, <1>7

(* The drain of an empty channel with an empty batch ends the loop: all that  *)
(* was due has been flushed.                                                 *)
LEMMA EmptyDrainEnds ==
  ASSUME KInv, Drain, msgCh = <<>>, batch = <<>>
  PROVE  Sink!Next
<1>0. /\ flushed \in Seq(Log) /\ accepted \in Seq(Log) /\ due \in SUBSET Nat
      /\ due # {} /\ \A d \in due : d <= Len(accepted)
      /\ accepted = (flushed \o <<>>) \o <<>>
  BY DEF KInv, TypeOK, LoopShape, Order, Drain, DrainTo
<1>1. accepted = flushed
  BY <1>0, ConcatEmptySeq
<1>2. loop = "drain" /\ loop' = "done" /\ UNCHANGED <<accepted, flushed, due>>
  BY DEF Drain, DrainTo, Flush
<1>3. SubSeq(accepted, 1, Len(accepted)) = accepted /\ Len(accepted) \in Nat
  BY <1>0, SubSeqFull
<1>4. Len(accepted) \in Len(flushed) .. Len(accepted)
  BY <1>1, <1>3
<1>5. \A d \in due : d <= Len(flushed')
  BY <1>0, <1>1, <1>2
<1>6. Sink!End
  BY <1>0, <1>1, <1>2, <1>3, <1>4, <1>5 DEF Sink!End
<1>. QED
  BY <1>6 DEF Sink!Next

(* mod_kafka is a sink, for every batch size, number of goroutines and       *)
(* failure of the broker: channel, batch and drain keep the order, lose and  *)
(* repeat nothing, and sendLoop ends only when what was accepted before      *)
(* Close has been flushed.                                                   *)
THEOREM KafkaIsSink == Spec => IsSink
<1>1. Init => Sink!Init
  BY DEF Init, Sink!Init
<1>2. KInv /\ [Next]_vars => [Sink!Next]_<<accepted, flushed, due, loop = "done">>
  <2>. SUFFICES ASSUME KInv, [Next]_vars
                PROVE  [Sink!Next]_<<accepted, flushed, due, loop = "done">>
    OBVIOUS
  <2>. DEFINE Stutters == UNCHANGED <<accepted, flushed, due>> /\ (loop = "done") = (loop' = "done")
  <2>1. ASSUME Stutters PROVE UNCHANGED <<accepted, flushed, due, loop = "done">>
    BY <2>1
  <2>. USE DEF senderVars, loopVars, kafkaVars
  <2>2. ASSUME NEW u \in Updater, Skip(u) \/ CountSent(u) PROVE Stutters
    BY <2>2 DEF Skip, CountSent
  <2>3. ASSUME NEW u \in Updater, Send(u) PROVE Stutters \/ Sink!Next
    <3>1. CASE Len(msgCh) < Cap
      <4>1. accepted' = Append(accepted, Head(todo[u])) /\ UNCHANGED <<flushed, due, loop>>
        BY <2>3, <3>1 DEF Send
      <4>2. Head(todo[u]) \in Log
        BY <2>3, HeadTailProperties DEF Send, KInv, TypeOK
      <4>. QED
        BY <4>1, <4>2 DEF Sink!Next, Sink!Accept
    <3>2. CASE ~(Len(msgCh) < Cap)
      BY <2>3, <3>2 DEF Send
    <3>. QED
      BY <3>1, <3>2
  <2>4. CASE Start \/ Receive \/ Tick \/ Cancelled \/ Land \/ Wait \/ CloseWriters \/ UNCHANGED vars
    <3>1. UNCHANGED <<accepted, flushed, due>>
      BY <2>4 DEF Start, Receive, Tick, Cancelled, Land, Wait, CloseWriters, vars
    <3>2. loop' = loop \/ (loop # "done" /\ loop' # "done")
      BY <2>4 DEF Start, Receive, Tick, Cancelled, Land, Wait, CloseWriters, vars, Flush
    <3>. QED
      BY <3>1, <3>2
  <2>5. CASE Drain
    <3>1. CASE msgCh = <<>> /\ batch = <<>>
      BY <2>5, <3>1, EmptyDrainEnds
    <3>2. CASE ~(msgCh = <<>> /\ batch = <<>>)
      <4>1. UNCHANGED <<accepted, flushed, due>> /\ loop = "drain"
        BY <2>5 DEF Drain, DrainTo
      <4>2. loop' # "done"
        BY <2>5, <3>2 DEF Drain, DrainTo, Flush
      <4>. QED
        BY <4>1, <4>2
    <3>. QED
      BY <3>1, <3>2
  <2>6. CASE WriteOk
    BY <2>6, FlushHandles DEF WriteOk
  <2>7. CASE WriteFails
    <3>1. loop = "write" /\ UNCHANGED <<accepted, due>>
      BY <2>7 DEF WriteFails
    <3>2. Flushed \/ (flushed' = flushed /\ loop' = "writeToDLQ")
      BY <2>7 DEF WriteFails
    <3>3. CASE Flushed
      BY <3>1, <3>3, FlushHandles
    <3>. QED
      BY <3>1, <3>2, <3>3
  <2>8. CASE WriteToDLQ
    BY <2>8, FlushHandles DEF WriteToDLQ
  <2>9. CASE Cancel
    <3>1. due = {} /\ due' = {Len(accepted)} /\ UNCHANGED <<accepted, flushed, loop>>
      BY <2>9 DEF Cancel, CloseStep, KInv, LoopShape
    <3>. QED
      BY <3>1 DEF Sink!Next, Sink!RequestClose
  <2>. HIDE DEF Stutters
  <2>. QED
    BY <2>1, <2>2, <2>3, <2>4, <2>5, <2>6, <2>7, <2>8, <2>9 DEF Next, Update, SendLoop, Close
<1>. QED
  BY <1>1, <1>2, KafkaInvariant, PTL DEF Spec, IsSink, Sink!Spec
=============================================================================
