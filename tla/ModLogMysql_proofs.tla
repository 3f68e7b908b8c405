-------------------------- MODULE ModLogMysql_proofs --------------------------
(***************************************************************************)
(* Proofs about ModLogMysql for every number of Update goroutines and      *)
(* records, every queue and batch size and number of retries, and however  *)
(* often MySQL fails: type correctness, the sums of the counters, that no  *)
(* row is lost silently, what the table holds, and that the module is a    *)
(* sink.                                                                   *)
(***************************************************************************)
EXTENDS ModLogMysql, SequenceLemmas

(* Counting changes the counters it names, by one.                           *)
LEMMA CountStep ==
  ASSUME state \in [COUNTER_KEYS -> Nat], NEW keys, Count(keys)
  PROVE  /\ state' \in [COUNTER_KEYS -> Nat]
         /\ \A k \in COUNTER_KEYS : state'[k] = IF k \in keys THEN state[k] + 1 ELSE state[k]
BY DEF Count

(* Where writeLoop is in the middle of a flush.                              *)
Writing == {"writeBatch", "backoff", "hung", "dead"}

-----------------------------------------------------------------------------
(* The inductive invariant *)

(* What the place of writeLoop says of its batch, its attempt, and of Close. *)
LoopShape ==
  /\ loop \in {"select", "drain"} => Len(batch) < BatchSize
  /\ loop \in Writing => batch # <<>>
  /\ loop \notin Writing => attempt = 0
  /\ loop \in {"backoff", "dead"} => attempt # 0
  /\ loop = "drain" => stopped
  /\ loop = "done" => batch = <<>> /\ resume = "done"
  /\ resume = "drain" => stopped
  /\ resume = "done" => stopped /\ loop \in Writing \cup {"done"}
  /\ loop = "dead" => attempt \notin DOMAIN retryBackoffMs
  /\ stopped <=> closer # "running"
  /\ stopped <=> due # {}
  /\ \A u \in counting : todo[u] # <<>>

(* Channel and batch keep the order: flushed, batch and channel are what the *)
(* channel has accepted.                                                     *)
Order ==
  /\ accepted = (flushed \o batch) \o ch
  /\ \A n \in due : n <= Len(accepted)
  /\ resume = "done" => \A n \in due : n <= Len(flushed) + Len(batch)

(* A row of key k is in the batch.                                           *)
InBatch(k) == \E j \in 1 .. Len(batch) : batch[j] \notin Keyless /\ KeyOf[batch[j]] = k

(* No row flushed after the i-th has its key.                                *)
Newest(i) ==
  /\ flushed[i] \notin Keyless
  /\ \A j \in (i + 1) .. Len(flushed) :
       flushed[j] \notin Keyless => KeyOf[flushed[j]] # KeyOf[flushed[i]]

(* The newest flushed row of a key is in the table; only while a batch with a *)
(* row of that key is being written, a failed commit may have replaced it.   *)
TableHolds ==
  state["SEND_MYSQL_FAILED"] = 0 =>
    \A i \in 1 .. Len(flushed) :
      Newest(i) =>
        \/ table[KeyOf[flushed[i]]] = flushed[i]
        \/ loop \in Writing /\ InBatch(KeyOf[flushed[i]])

(* No record is handed to the channel twice: a record Update has not finished *)
(* is in the channel only while its SENT_TO_MYSQL is still to be counted.    *)
Fresh ==
  /\ \A u, v \in Updater : \A p \in 1 .. Len(todo[u]), q \in 1 .. Len(todo[v]) :
       todo[u][p] = todo[v][q] => u = v /\ p = q
  /\ \A i \in 1 .. Len(accepted) : \A u \in Updater : \A p \in 1 .. Len(todo[u]) :
       accepted[i] = todo[u][p] => u \in counting /\ p = 1
  /\ \A i, j \in 1 .. Len(accepted) : accepted[i] = accepted[j] => i = j

(* A keyless row has one copy for every time it was flushed, unless its batch *)
(* was given up, and at most one more for every transaction that failed.     *)
CopiesHeld ==
  \A r \in Keyless :
    /\ copies[r] <= Cardinality(Places(flushed, r)) + faults
    /\ state["SEND_MYSQL_FAILED"] = 0 => copies[r] >= Cardinality(Places(flushed, r))

MInv ==
  /\ TypeOK /\ LoopShape /\ CountersAddUp /\ Order /\ NoSilentLoss
  /\ TableHolds /\ Fresh /\ CopiesHeld

-----------------------------------------------------------------------------
(* Each part of the invariant is preserved *)

(* A committed batch leaves the table and the copies well typed.             *)
LEMMA CommitTypes ==
  ASSUME table \in [Key -> Log \cup {NoRow}], copies \in [Keyless -> Nat], batch \in Seq(Log),
         Commit(batch)
  PROVE  table' \in [Key -> Log \cup {NoRow}] /\ copies' \in [Keyless -> Nat]
<1>0. Len(batch) \in Nat /\ \A i \in 1 .. Len(batch) : batch[i] \in Log
  BY ElementOfSeq
<1>1. ASSUME NEW k \in Key PROVE Upsert(batch)[k] \in Log \cup {NoRow}
  <2>. DEFINE hits == {i \in 1 .. Len(batch) : batch[i] \notin Keyless /\ KeyOf[batch[i]] = k}
              max  == CHOOSE i \in hits : \A j \in hits : j <= i
  <2>1. Upsert(batch)[k] = IF hits = {} THEN table[k] ELSE batch[max]
    BY DEF Upsert
  <2>2. CASE hits = {}
    BY <2>1, <2>2
  <2>3. CASE hits # {}
    <3>1. PICK m \in hits : \A j \in hits : j <= m
      <4>1. hits \subseteq 1 .. Len(batch)
        OBVIOUS
      <4>. HIDE DEF hits
      <4>. QED
        BY <1>0, <2>3, <4>1, GreatestElement
    <3>2. max \in hits
      BY <3>1
    <3>3. max \in 1 .. Len(batch)
      BY <3>2
    <3>. QED
      BY <1>0, <2>1, <2>3, <3>3
  <2>. QED
    BY <2>2, <2>3
<1>2. table' \in [Key -> Log \cup {NoRow}]
  BY <1>1 DEF Commit, Upsert
<1>3. ASSUME NEW r \in Keyless PROVE copies'[r] \in Nat
  <2>. DEFINE hits == {i \in 1 .. Len(batch) : batch[i] = r}
  <2>1. IsFiniteSet(1 .. Len(batch)) /\ hits \subseteq 1 .. Len(batch)
    BY <1>0, FS_Interval
  <2>2. Cardinality(hits) \in Nat
    <3>. HIDE DEF hits
    <3>. QED
      BY <2>1, FS_Subset, FS_CardinalityType
  <2>. QED
    BY <2>2 DEF Commit
<1>. QED
  BY <1>2, <1>3 DEF Commit

(* The types are preserved: neither channel nor batch outgrows its bound, and *)
(* no more than MaxRetries retries are made.                                 *)
LEMMA MTypeStep ==
  ASSUME TypeOK, LoopShape, [Next]_vars
  PROVE  TypeOK'
<1>. USE DEF TypeOK, senderVars, loopVars, mysqlVars
<1>0. /\ BatchSize \in Nat \ {0} /\ QueueSize \in Nat \ {0} /\ MaxRetries \in Nat \ {0}
      /\ MaxFault \in Nat
      /\ Len(batch) \in Nat /\ Len(ch) \in Nat
  BY ConfAssumption
<1>1. ASSUME NEW u \in Updater, todo[u] # <<>>
      PROVE  Head(todo[u]) \in Log /\ Tail(todo[u]) \in Seq(Log)
  BY <1>1, HeadTailProperties
<1>2. flushed \o batch \in Seq(Log) /\ <<>> \in Seq(Log) /\ Len(<<>>) = 0
  BY ConcatProperties, EmptySeq
<1>3. ASSUME NEW u \in Updater, Skip(u) \/ EnqueueFull(u) PROVE TypeOK'
  <2>1. todo' \in [Updater -> Seq(Log)]
    BY <1>1, <1>3 DEF Skip, EnqueueFull
  <2>2. state' \in [COUNTER_KEYS -> Nat]
    BY <1>3, CountStep DEF Skip, EnqueueFull
  <2>. QED
    BY <1>3, <2>1, <2>2 DEF Skip, EnqueueFull
<1>4. ASSUME NEW u \in Updater, Enqueue(u) PROVE TypeOK'
  <2>1. Head(todo[u]) \in Log
    BY <1>1, <1>4 DEF Enqueue
  <2>2. state' \in [COUNTER_KEYS -> Nat]
    BY <1>4, CountStep DEF Enqueue
  <2>3. /\ ch' \in Seq(Log) /\ Len(ch') = Len(ch) + 1
        /\ accepted' \in Seq(Log)
    BY <1>4, <2>1, AppendProperties DEF Enqueue
  <2>4. Len(ch') <= QueueSize
    BY <1>0, <1>4, <2>3 DEF Enqueue
  <2>. QED
    BY <1>4, <2>2, <2>3, <2>4 DEF Enqueue
<1>5. ASSUME NEW u \in Updater, CountSent(u) PROVE TypeOK'
  <2>1. todo[u] # <<>>
    BY <1>5 DEF CountSent, LoopShape
  <2>2. todo' \in [Updater -> Seq(Log)]
    BY <1>1, <1>5, <2>1 DEF CountSent
  <2>3. state' \in [COUNTER_KEYS -> Nat]
    BY <1>5, CountStep DEF CountSent
  <2>. QED
    BY <1>5, <2>2, <2>3 DEF CountSent
<1>6. ASSUME NEW from \in {"select", "drain"}, Take(from) PROVE TypeOK'
  <2>1. /\ Tail(ch) \in Seq(Log) /\ Len(Tail(ch)) = Len(ch) - 1
        /\ Append(batch, Head(ch)) \in Seq(Log)
        /\ Len(Append(batch, Head(ch))) = Len(batch) + 1
    BY <1>0, <1>6, HeadTailProperties, AppendProperties DEF Take
  <2>2. /\ batch' \in Seq(Log) /\ Len(batch') <= BatchSize
        /\ ch' \in Seq(Log) /\ Len(ch') <= QueueSize
    BY <1>0, <1>6, <2>1 DEF Take, LoopShape
  <2>3. /\ loop' \in {"select", "drain", "writeBatch", "backoff", "hung", "done", "dead"}
        /\ resume' \in {"select", "drain", "done"}
    BY <1>6 DEF Take, Flush
  <2>. QED
    BY <1>6, <2>2, <2>3 DEF Take
<1>7. CASE Tick
  BY <1>7 DEF Tick, Flush
<1>8. CASE StopSeen
  BY <1>8 DEF StopSeen
<1>9. CASE DrainEnds
  BY <1>9 DEF DrainEnds, DrainEndsAt, Flush
<1>10. ASSUME Flushed
       PROVE  /\ batch' \in Seq(Log) /\ Len(batch') <= BatchSize
              /\ flushed' \in Seq(Log) /\ attempt' \in 0 .. MaxRetries
              /\ resume' \in {"select", "drain", "done"}
              /\ loop' \in {"select", "drain", "writeBatch", "backoff", "hung", "done", "dead"}
  BY <1>0, <1>2, <1>10 DEF Flushed
<1>11. CASE WriteOk
  <2>1. UNCHANGED <<senderVars, ch, stopped, closer, faults, accepted, due>> /\ Flushed /\ Commit(batch)
    BY <1>11 DEF WriteOk
  <2>2. table' \in [Key -> Log \cup {NoRow}] /\ copies' \in [Keyless -> Nat]
    BY <2>1, CommitTypes
  <2>3. state' \in [COUNTER_KEYS -> Nat]
    <3>1. state' = [state EXCEPT !["WRITE_BATCH_SIZE"] = state["WRITE_BATCH_SIZE"] + Len(batch)]
      BY <1>11 DEF WriteOk
    <3>2. state["WRITE_BATCH_SIZE"] + Len(batch) \in Nat
      BY <1>0 DEF COUNTER_KEYS
    <3>. QED
      BY <3>1, <3>2
  <2>. QED
    BY <1>10, <2>1, <2>2, <2>3
<1>12. CASE WriteFails
  <2>1. /\ UNCHANGED <<senderVars, ch, stopped, closer, accepted, due>>
        /\ Commit(batch) \/ UNCHANGED <<table, copies>>
    BY <1>12 DEF WriteFails
  <2>2. table' \in [Key -> Log \cup {NoRow}] /\ copies' \in [Keyless -> Nat]
    BY <2>1, CommitTypes
  <2>3. faults' \in 0 .. MaxFault
    BY <1>0, <1>12 DEF WriteFails
  <2>4. CASE attempt < MaxRetries
    <3>1. /\ attempt' = attempt + 1 /\ loop' = "backoff" /\ UNCHANGED <<state, batch, resume, flushed>>
      BY <1>12, <2>4 DEF WriteFails
    <3>2. attempt' \in 0 .. MaxRetries
      BY <1>0, <2>4, <3>1
    <3>. QED
      BY <2>1, <2>2, <2>3, <3>1, <3>2
  <2>5. CASE ~(attempt < MaxRetries)
    <3>1. Flushed /\ Count({"SEND_MYSQL_FAILED"})
      BY <1>12, <2>5 DEF WriteFails, GiveUp
    <3>2. state' \in [COUNTER_KEYS -> Nat]
      BY <3>1, CountStep
    <3>. QED
      BY <1>10, <2>1, <2>2, <2>3, <3>1, <3>2
  <2>. QED
    BY <2>4, <2>5
<1>17. CASE WriteHangs
  <2>1. /\ loop' = "hung" /\ UNCHANGED <<senderVars, ch, batch, resume, attempt, stopped, closer, state,
                                        accepted, flushed, due>>
        /\ Commit(batch) \/ UNCHANGED <<table, copies>>
    BY <1>17 DEF WriteHangs
  <2>2. table' \in [Key -> Log \cup {NoRow}] /\ copies' \in [Keyless -> Nat]
    BY <2>1, CommitTypes
  <2>3. faults' \in 0 .. MaxFault
    BY <1>0, <1>17 DEF WriteHangs
  <2>. QED
    BY <2>1, <2>2, <2>3
<1>13. CASE Backoff
  <2>1. state' \in [COUNTER_KEYS -> Nat]
    BY <1>13, CountStep DEF Backoff
  <2>. QED
    BY <1>13, <2>1 DEF Backoff
<1>14. CASE Stop
  <2>1. due' \in SUBSET Nat
    BY <1>14 DEF Stop
  <2>. QED
    BY <1>14, <2>1 DEF Stop, CloseStep
<1>15. CASE WaitAndClose
  BY <1>15 DEF WaitAndClose, CloseStep
<1>16. CASE UNCHANGED vars
  BY <1>16 DEF vars
<1>. QED
  BY <1>3, <1>4, <1>5, <1>6, <1>7, <1>8, <1>9, <1>11, <1>12, <1>13, <1>14, <1>15, <1>16, <1>17
     DEF Next, Update, WriteLoop, Receive, Drain

(* The place of writeLoop decides what its batch and its attempt may be.     *)
LEMMA LoopShapeStep ==
  ASSUME TypeOK, LoopShape, [Next]_vars
  PROVE  LoopShape'
<1>. USE DEF LoopShape, senderVars, loopVars, mysqlVars, Writing
<1>0. /\ BatchSize \in Nat \ {0} /\ Len(batch) \in Nat /\ batch \in Seq(Log) /\ ch \in Seq(Log)
      /\ counting \subseteq Updater /\ todo \in [Updater -> Seq(Log)]
      /\ Len(<<>>) = 0 /\ attempt \in Nat
      /\ resume \in {"select", "drain", "done"}
  BY ConfAssumption DEF TypeOK
<1>1. ASSUME NEW u \in Updater, Skip(u) \/ EnqueueFull(u) PROVE LoopShape'
  <2>1. \A v \in counting : v # u /\ todo'[v] = todo[v]
    BY <1>0, <1>1 DEF Skip, EnqueueFull
  <2>. QED
    BY <1>1, <2>1 DEF Skip, EnqueueFull
<1>2. ASSUME NEW u \in Updater, Enqueue(u) PROVE LoopShape'
  BY <1>2 DEF Enqueue
<1>3. ASSUME NEW u \in Updater, CountSent(u) PROVE LoopShape'
  <2>1. \A v \in counting' : v # u /\ todo'[v] = todo[v] /\ v \in counting
    BY <1>0, <1>3 DEF CountSent
  <2>. QED
    BY <1>3, <2>1 DEF CountSent
<1>4. ASSUME NEW from \in {"select", "drain"}, Take(from) PROVE LoopShape'
  <2>1. /\ Append(batch, Head(ch)) # <<>>
        /\ Len(Append(batch, Head(ch))) = Len(batch) + 1
    BY <1>0, <1>4, HeadTailProperties, AppendProperties DEF Take
  <2>2. /\ batch' # <<>> /\ Len(batch') = Len(batch) + 1 /\ loop = from
        /\ UNCHANGED <<senderVars, attempt, stopped, closer, due>>
    BY <1>4, <2>1 DEF Take
  <2>3. \/ Len(batch') >= BatchSize /\ resume' = from /\ loop' = "writeBatch"
        \/ Len(batch') < BatchSize /\ UNCHANGED <<loop, resume>>
    BY <1>0, <1>4, <2>2 DEF Take, Full, Flush
  <2>. QED
    BY <2>2, <2>3
<1>5. CASE Tick
  <2>1. /\ batch' = batch /\ resume' = "select" /\ loop = "select"
        /\ loop' = IF batch = <<>> THEN "select" ELSE "writeBatch"
        /\ UNCHANGED <<senderVars, attempt, stopped, closer, due>>
    BY <1>5 DEF Tick, Flush
  <2>. QED
    BY <2>1
<1>6. CASE StopSeen
  BY <1>6 DEF StopSeen
<1>7. CASE DrainEnds
  <2>1. /\ batch' = batch /\ resume' = "done" /\ loop = "drain"
        /\ loop' = IF batch = <<>> THEN "done" ELSE "writeBatch"
        /\ UNCHANGED <<senderVars, attempt, stopped, closer, due>>
    BY <1>7 DEF DrainEnds, DrainEndsAt, Flush
  <2>. QED
    BY <2>1
<1>8. ASSUME loop = "writeBatch", Flushed, UNCHANGED <<senderVars, stopped, closer, due>>
      PROVE  LoopShape'
  <2>1. /\ batch' = <<>> /\ loop' = resume /\ resume' = resume /\ attempt' = 0
        /\ UNCHANGED <<senderVars, stopped, closer, due>>
    BY <1>8 DEF Flushed
  <2>. QED
    BY <1>0, <1>8, <2>1
<1>9. CASE WriteOk
  BY <1>8, <1>9 DEF WriteOk
<1>10. CASE WriteFails
  <2>1. loop = "writeBatch" /\ UNCHANGED <<senderVars, stopped, closer, due>>
    BY <1>10 DEF WriteFails
  <2>2. CASE attempt < MaxRetries
    <3>1. attempt' = attempt + 1 /\ loop' = "backoff" /\ UNCHANGED <<batch, resume>>
      BY <1>10, <2>2 DEF WriteFails
    <3>2. attempt' # 0
      BY <1>0, <3>1
    <3>. QED
      BY <2>1, <3>1, <3>2
  <2>3. CASE ~(attempt < MaxRetries)
    BY <1>8, <1>10, <2>1, <2>3 DEF WriteFails, GiveUp
  <2>. QED
    BY <2>2, <2>3
<1>15. CASE WriteHangs
  <2>1. /\ loop = "writeBatch" /\ loop' = "hung"
        /\ UNCHANGED <<senderVars, batch, resume, attempt, stopped, closer, due>>
    BY <1>15 DEF WriteHangs
  <2>. QED
    BY <2>1
<1>11. CASE Backoff
  <2>1. /\ loop = "backoff" /\ UNCHANGED <<senderVars, batch, resume, attempt, stopped, closer, due>>
        /\ loop' = IF attempt \in DOMAIN retryBackoffMs THEN "writeBatch" ELSE "dead"
    BY <1>11 DEF Backoff
  <2>. QED
    BY <2>1
<1>12. CASE Stop
  BY <1>12 DEF Stop, CloseStep
<1>13. CASE WaitAndClose
  BY <1>13 DEF WaitAndClose, CloseStep
<1>14. CASE UNCHANGED vars
  BY <1>14 DEF vars
<1>. QED
  BY <1>1, <1>2, <1>3, <1>4, <1>5, <1>6, <1>7, <1>9, <1>10, <1>11, <1>12, <1>13, <1>14, <1>15
     DEF Next, Update, WriteLoop, Receive, Drain

(* A step of Update moves the counters, the channel and the goroutines that   *)
(* have yet to count together; no other step moves them.                     *)
LEMMA CountersStep ==
  ASSUME TypeOK, CountersAddUp, [Next]_vars
  PROVE  CountersAddUp'
<1>. USE DEF CountersAddUp, senderVars, loopVars, mysqlVars
<1>. DEFINE Counts(req, conv, full, sent) ==
              /\ state'["RECEIVED_REQ"] = state["RECEIVED_REQ"] + req
              /\ state'["CONVERT_FAILED"] = state["CONVERT_FAILED"] + conv
              /\ state'["SENT_MYSQL_CHN_FULL"] = state["SENT_MYSQL_CHN_FULL"] + full
              /\ state'["SENT_TO_MYSQL"] = state["SENT_TO_MYSQL"] + sent
<1>0. /\ state \in [COUNTER_KEYS -> Nat]
      /\ "RECEIVED_REQ" \in COUNTER_KEYS /\ state["RECEIVED_REQ"] \in Nat
      /\ "CONVERT_FAILED" \in COUNTER_KEYS /\ state["CONVERT_FAILED"] \in Nat
      /\ "SENT_TO_MYSQL" \in COUNTER_KEYS /\ state["SENT_TO_MYSQL"] \in Nat
      /\ "SENT_MYSQL_CHN_FULL" \in COUNTER_KEYS /\ state["SENT_MYSQL_CHN_FULL"] \in Nat
      /\ IsFiniteSet(counting) /\ Cardinality(counting) \in Nat
      /\ Len(accepted) \in Nat
  <2>1. IsFiniteSet(counting)
    BY LogsAssumption, FS_Subset DEF TypeOK
  <2>. QED
    BY <2>1, FS_CardinalityType DEF TypeOK, COUNTER_KEYS
<1>1. ASSUME NEW u \in Updater, Skip(u) PROVE CountersAddUp'
  <2>1. UNCHANGED <<counting, accepted>>
    BY <1>1 DEF Skip
  <2>2. CASE Count({"RECEIVED_LOGS"})
    <3>1. Counts(0, 0, 0, 0)
      BY <1>0, <2>2 DEF Count
    <3>. QED
      BY <1>0, <2>1, <3>1
  <2>3. CASE Count({"RECEIVED_LOGS", "RECEIVED_REQ", "CONVERT_FAILED"})
    <3>1. Counts(1, 1, 0, 0)
      BY <1>0, <2>3 DEF Count
    <3>. QED
      BY <1>0, <2>1, <3>1
  <2>. QED
    BY <1>1, <2>2, <2>3 DEF Skip
<1>2. ASSUME NEW u \in Updater, EnqueueFull(u) PROVE CountersAddUp'
  <2>1. UNCHANGED <<counting, accepted>> /\ Count({"RECEIVED_LOGS", "RECEIVED_REQ", "SENT_MYSQL_CHN_FULL"})
    BY <1>2 DEF EnqueueFull, Dropped
  <2>2. Counts(1, 0, 1, 0)
    BY <1>0, <2>1, SMTT(20) DEF Count
  <2>. QED
    BY <1>0, <2>1, <2>2
<1>3. ASSUME NEW u \in Updater, Enqueue(u) PROVE CountersAddUp'
  <2>1. /\ u \notin counting /\ counting' = counting \cup {u}
        /\ accepted' = Append(accepted, Head(todo[u])) /\ Count({"RECEIVED_LOGS", "RECEIVED_REQ"})
    BY <1>3 DEF Enqueue
  <2>2. Cardinality(counting') = Cardinality(counting) + 1
    BY <1>0, <2>1, FS_AddElement
  <2>3. Len(accepted') = Len(accepted) + 1
    BY <1>3, <2>1, HeadTailProperties, AppendProperties DEF Enqueue, TypeOK
  <2>4. Counts(1, 0, 0, 0)
    BY <1>0, <2>1 DEF Count
  <2>. QED
    BY <1>0, <2>2, <2>3, <2>4, SMTT(20)
<1>4. ASSUME NEW u \in Updater, CountSent(u) PROVE CountersAddUp'
  <2>1. u \in counting /\ counting' = counting \ {u} /\ accepted' = accepted
    BY <1>4 DEF CountSent
  <2>2. Cardinality(counting') = Cardinality(counting) - 1
    BY <1>0, <2>1, FS_RemoveElement
  <2>3. Counts(0, 0, 0, 1)
    BY <1>0, <1>4 DEF CountSent, Count
  <2>. QED
    BY <1>0, <2>1, <2>2, <2>3
\* The write loop counts other things.
<1>5. ASSUME UNCHANGED <<counting, accepted>>,
             Count({"SEND_MYSQL_FAILED"}) \/ UNCHANGED state
      PROVE  CountersAddUp'
  <2>1. CASE UNCHANGED state
    BY <1>5, <2>1
  <2>2. CASE Count({"SEND_MYSQL_FAILED"})
    <3>1. Counts(0, 0, 0, 0)
      BY <1>0, <2>2 DEF Count
    <3>. QED
      BY <1>0, <1>5, <3>1
  <2>. QED
    BY <1>5, <2>1, <2>2
<1>6. CASE WriteOk
  <2>1. UNCHANGED <<counting, accepted>>
    BY <1>6 DEF WriteOk
  <2>2. Counts(0, 0, 0, 0)
    BY <1>0, <1>6 DEF WriteOk
  <2>. QED
    BY <1>0, <2>1, <2>2
<1>7. CASE WriteFails \/ WriteHangs
  <2>1. UNCHANGED <<counting, accepted>> /\ (Count({"SEND_MYSQL_FAILED"}) \/ UNCHANGED state)
    BY <1>7 DEF WriteFails, WriteHangs, GiveUp
  <2>. QED
    BY <1>5, <2>1
<1>8. CASE Backoff
  <2>1. UNCHANGED <<counting, accepted>> /\ (Count({"SEND_MYSQL_FAILED"}) \/ UNCHANGED state)
    BY <1>8 DEF Backoff
  <2>. QED
    BY <1>5, <2>1
<1>9. CASE \/ Receive \/ Tick \/ StopSeen \/ Drain \/ DrainEnds \/ Stop \/ WaitAndClose
           \/ UNCHANGED vars
  <2>1. UNCHANGED <<state, counting, accepted>>
    BY <1>9 DEF Receive, Tick, StopSeen, Drain, Take, DrainEnds, DrainEndsAt, Stop, WaitAndClose, vars
  <2>. QED
    BY <2>1
<1>. QED
  BY <1>1, <1>2, <1>3, <1>4, <1>6, <1>7, <1>8, <1>9 DEF Next, Update, WriteLoop

(* writeLoop takes the head of the channel into its batch.                   *)
LEMMA TakeFromChannel ==
  ASSUME batch \in Seq(Log), ch \in Seq(Log), flushed \in Seq(Log), ch # <<>>
  PROVE  (flushed \o Append(batch, Head(ch))) \o Tail(ch) = (flushed \o batch) \o ch
<1>1. Shifts(Log)
  BY QueueShift
<1>. QED
  BY <1>1, Zenon DEF Shifts

(* The rows move from the channel to the batch and from the batch to flushed, *)
(* and keep their order.                                                     *)
LEMMA OrderStep ==
  ASSUME TypeOK, LoopShape, Order, [Next]_vars
  PROVE  Order'
<1>. USE DEF Order, senderVars, loopVars, mysqlVars
<1>0. /\ batch \in Seq(Log) /\ ch \in Seq(Log) /\ flushed \in Seq(Log) /\ accepted \in Seq(Log)
      /\ <<>> \in Seq(Log) /\ Len(<<>>) = 0
      /\ flushed \o batch \in Seq(Log)
      /\ Len(flushed \o batch) = Len(flushed) + Len(batch)
      /\ Len(flushed) \in Nat /\ Len(batch) \in Nat /\ Len(ch) \in Nat
      /\ Len(accepted) = Len(flushed) + Len(batch) + Len(ch)
      /\ due \in SUBSET Nat
      /\ todo \in [Updater -> Seq(Log)]
  <2>1. /\ batch \in Seq(Log) /\ ch \in Seq(Log) /\ flushed \in Seq(Log) /\ accepted \in Seq(Log)
        /\ due \in SUBSET Nat /\ todo \in [Updater -> Seq(Log)]
    BY DEF TypeOK
  <2>2. flushed \o batch \in Seq(Log) /\ Len(flushed \o batch) = Len(flushed) + Len(batch)
    BY <2>1, ConcatProperties
  <2>3. Len((flushed \o batch) \o ch) = Len(flushed \o batch) + Len(ch)
    BY <2>1, <2>2, ConcatProperties
  <2>. QED
    BY <2>1, <2>2, <2>3, EmptySeq
<1>1. ASSUME NEW u \in Updater, Skip(u) \/ EnqueueFull(u) \/ CountSent(u) PROVE Order'
  BY <1>1 DEF Skip, EnqueueFull, CountSent
<1>2. ASSUME NEW u \in Updater, Enqueue(u) PROVE Order'
  <2>1. UNCHANGED <<flushed, batch, resume, due>> /\ Head(todo[u]) \in Log
    BY <1>0, <1>2, HeadTailProperties DEF Enqueue
  <2>2. ch' = Append(ch, Head(todo[u])) /\ accepted' = Append(accepted, Head(todo[u]))
    BY <1>2 DEF Enqueue
  <2>3. accepted' = (flushed \o batch) \o ch'
    <3>1. (flushed \o batch) \o Append(ch, Head(todo[u])) = Append((flushed \o batch) \o ch, Head(todo[u]))
      BY <1>0, <2>1, QueueIn, SMTT(20)
    <3>. QED
      BY <2>2, <3>1
  <2>4. Len(accepted') = Len(accepted) + 1
    BY <1>0, <2>1, <2>2, AppendProperties
  <2>. QED
    BY <1>0, <2>1, <2>3, <2>4
\* The head of the channel joins the batch.
<1>3. ASSUME NEW from \in {"select", "drain"}, Take(from) PROVE Order'
  <2>1. /\ ch # <<>> /\ batch' = Append(batch, Head(ch)) /\ ch' = Tail(ch)
        /\ UNCHANGED <<accepted, flushed, due>>
    BY <1>3 DEF Take
  <2>2. resume' # "done"
    BY <1>3 DEF Take, Flush, LoopShape, Writing
  <2>3. (flushed \o batch') \o ch' = (flushed \o batch) \o ch
    <3>1. (flushed \o Append(batch, Head(ch))) \o Tail(ch) = (flushed \o batch) \o ch
      BY <1>0, <2>1, TakeFromChannel
    <3>. QED
      BY <2>1, <3>1
  <2>4. accepted' = (flushed' \o batch') \o ch'
    BY <2>1, <2>3
  <2>. QED
    BY <2>1, <2>2, <2>4
\* The batch is flushed.
<1>4. ASSUME Flushed, UNCHANGED <<ch, accepted, due>> PROVE Order'
  <2>1. /\ flushed' = flushed \o batch /\ batch' = <<>> /\ resume' = resume
        /\ UNCHANGED <<ch, accepted, due>>
    BY <1>4 DEF Flushed
  <2>2. (flushed \o batch) \o <<>> = flushed \o batch
    BY <1>0, ConcatEmptySeq
  <2>3. accepted' = (flushed' \o batch') \o ch'
    BY <2>1, <2>2
  <2>4. Len(flushed') + Len(batch') = Len(flushed) + Len(batch)
    BY <1>0, <2>1
  <2>. QED
    BY <2>1, <2>3, <2>4
<1>5. CASE StopSeen \/ Backoff \/ WaitAndClose \/ UNCHANGED vars
  BY <1>5 DEF StopSeen, Backoff, WaitAndClose, vars
<1>6. CASE Tick
  <2>1. UNCHANGED <<batch, ch, accepted, flushed, due>> /\ resume' = "select"
    BY <1>6 DEF Tick, Flush
  <2>. QED
    BY <2>1
<1>7. CASE DrainEnds
  <2>1. ch = <<>> /\ UNCHANGED <<batch, ch, accepted, flushed, due>>
    BY <1>7 DEF DrainEnds, DrainEndsAt
  <2>2. Len(ch) = 0
    BY <1>0, <2>1
  <2>. QED
    BY <1>0, <2>1, <2>2
<1>8. CASE WriteOk
  BY <1>4, <1>8 DEF WriteOk
<1>9. CASE WriteFails \/ WriteHangs
  <2>1. UNCHANGED <<ch, accepted, due>> /\ (Flushed \/ UNCHANGED <<batch, resume, flushed>>)
    BY <1>9 DEF WriteFails, WriteHangs, GiveUp
  <2>. QED
    BY <1>4, <2>1
<1>10. CASE Stop
  <2>1. due' = {Len(accepted)} /\ resume' = resume /\ resume # "done"
        /\ UNCHANGED <<batch, ch, accepted, flushed>>
    BY <1>10 DEF Stop, CloseStep, LoopShape
  <2>. QED
    BY <1>0, <2>1
<1>. QED
  BY <1>1, <1>2, <1>3, <1>5, <1>6, <1>7, <1>8, <1>9, <1>10 DEF Next, Update, WriteLoop, Receive, Drain

(* One failure more accounts for one batch more.                             *)
LEMMA OneBatchMore ==
  ASSUME NEW b \in Nat, NEW n \in Nat
  PROVE  b * n \in Nat /\ b * (n + 1) = b * n + b
OBVIOUS

(* A flushed batch is counted as written, or as failed.                      *)
LEMMA NoSilentLossStep ==
  ASSUME TypeOK, NoSilentLoss, [Next]_vars
  PROVE  NoSilentLoss'
<1>. USE DEF NoSilentLoss, senderVars, loopVars, mysqlVars
<1>. DEFINE written == state["WRITE_BATCH_SIZE"]
            failed  == state["SEND_MYSQL_FAILED"]
<1>0. /\ state \in [COUNTER_KEYS -> Nat]
      /\ "WRITE_BATCH_SIZE" \in COUNTER_KEYS /\ "SEND_MYSQL_FAILED" \in COUNTER_KEYS
      /\ written \in Nat /\ failed \in Nat /\ BatchSize \in Nat
      /\ Len(flushed) \in Nat /\ Len(batch) \in Nat /\ Len(batch) <= BatchSize
      /\ Len(flushed \o batch) = Len(flushed) + Len(batch)
  BY ConfAssumption, ConcatProperties DEF TypeOK, COUNTER_KEYS
<1>1. BatchSize * failed \in Nat /\ BatchSize * (failed + 1) = BatchSize * failed + BatchSize
  BY <1>0, OneBatchMore
\* A step that flushes nothing.
<1>2. ASSUME flushed' = flushed, written' = written, failed' = failed \/ failed' = failed + 1
      PROVE  NoSilentLoss'
  BY <1>0, <1>1, <1>2
<1>3. ASSUME NEW u \in Updater, Update(u) PROVE NoSilentLoss'
  <2>1. flushed' = flushed
    BY <1>3 DEF Update, Skip, EnqueueFull, Enqueue, CountSent
  <2>2. \/ Count({"RECEIVED_LOGS"})
        \/ Count({"RECEIVED_LOGS", "RECEIVED_REQ", "CONVERT_FAILED"})
        \/ Count({"RECEIVED_LOGS", "RECEIVED_REQ", "SENT_MYSQL_CHN_FULL"})
        \/ Count({"RECEIVED_LOGS", "RECEIVED_REQ"})
        \/ Count({"SENT_TO_MYSQL"})
    BY <1>3 DEF Update, Skip, EnqueueFull, Enqueue, CountSent, Dropped
  <2>3. written' = written /\ failed' = failed
    BY <1>0, <2>2 DEF Count
  <2>. QED
    BY <1>2, <2>1, <2>3
<1>4. CASE WriteOk
  <2>1. flushed' = flushed \o batch
    BY <1>4 DEF WriteOk, Flushed
  <2>2. written' = written + Len(batch) /\ failed' = failed
    BY <1>0, <1>4 DEF WriteOk
  <2>. QED
    BY <1>0, <1>1, <2>1, <2>2
<1>5. CASE WriteFails
  <2>1. CASE attempt < MaxRetries
    <3>1. UNCHANGED <<flushed, state>>
      BY <1>5, <2>1 DEF WriteFails
    <3>. QED
      BY <1>2, <3>1
  <2>2. CASE ~(attempt < MaxRetries)
    <3>1. flushed' = flushed \o batch /\ Count({"SEND_MYSQL_FAILED"})
      BY <1>5, <2>2 DEF WriteFails, GiveUp, Flushed
    <3>2. written' = written /\ failed' = failed + 1
      BY <1>0, <3>1 DEF Count
    <3>. QED
      BY <1>0, <1>1, <3>1, <3>2
  <2>. QED
    BY <2>1, <2>2
<1>8. CASE WriteHangs
  <2>1. UNCHANGED <<flushed, state>>
    BY <1>8 DEF WriteHangs
  <2>. QED
    BY <1>2, <2>1
<1>6. CASE Backoff
  <2>1. flushed' = flushed /\ (UNCHANGED state \/ Count({"SEND_MYSQL_FAILED"}))
    BY <1>6 DEF Backoff
  <2>2. written' = written /\ (failed' = failed \/ failed' = failed + 1)
    BY <1>0, <2>1 DEF Count
  <2>. QED
    BY <1>2, <2>1, <2>2
<1>7. CASE \/ Receive \/ Tick \/ StopSeen \/ Drain \/ DrainEnds \/ Stop \/ WaitAndClose
           \/ UNCHANGED vars
  <2>1. UNCHANGED <<state, flushed>>
    BY <1>7 DEF Receive, Tick, StopSeen, Drain, Take, DrainEnds, DrainEndsAt, Stop, WaitAndClose, vars
  <2>. QED
    BY <1>2, <2>1
<1>. QED
  BY <1>3, <1>4, <1>5, <1>6, <1>7, <1>8 DEF Next, WriteLoop

(* A commit writes the last row of each key of the batch and leaves the other *)
(* keys alone.                                                               *)
LEMMA CommitWrites ==
  ASSUME batch \in Seq(Log), Commit(batch)
  PROVE  /\ \A k \in Key : ~InBatch(k) => table'[k] = table[k]
         /\ \A k \in Key : \A m \in 1 .. Len(batch) :
              /\ batch[m] \notin Keyless /\ KeyOf[batch[m]] = k
              /\ \A j \in (m + 1) .. Len(batch) : batch[j] \notin Keyless => KeyOf[batch[j]] # k
              => table'[k] = batch[m]
<1>0. Len(batch) \in Nat
  BY LenProperties
<1>1. ASSUME NEW k \in Key, ~InBatch(k) PROVE table'[k] = table[k]
  <2>. DEFINE hits == {i \in 1 .. Len(batch) : batch[i] \notin Keyless /\ KeyOf[batch[i]] = k}
              max  == CHOOSE i \in hits : \A j \in hits : j <= i
  <2>1. table'[k] = IF hits = {} THEN table[k] ELSE batch[max]
    BY DEF Commit, Upsert
  <2>2. hits = {}
    BY <1>1 DEF InBatch
  <2>. QED
    BY <2>1, <2>2
<1>2. ASSUME NEW k \in Key, NEW m \in 1 .. Len(batch),
             batch[m] \notin Keyless, KeyOf[batch[m]] = k,
             \A j \in (m + 1) .. Len(batch) : batch[j] \notin Keyless => KeyOf[batch[j]] # k
      PROVE  table'[k] = batch[m]
  <2>. DEFINE hits == {i \in 1 .. Len(batch) : batch[i] \notin Keyless /\ KeyOf[batch[i]] = k}
              max  == CHOOSE i \in hits : \A j \in hits : j <= i
  <2>1. m \in hits /\ hits \subseteq 1 .. Len(batch)
    BY <1>2
  <2>2. \A j \in hits : j <= m
    BY <1>0, <1>2
  <2>3. table'[k] = IF hits = {} THEN table[k] ELSE batch[max]
    BY DEF Commit, Upsert
  <2>4. max \in hits /\ \A j \in hits : j <= max
    BY <2>1, <2>2
  <2>. HIDE DEF hits, max
  <2>5. max = m
    BY <1>0, <2>1, <2>2, <2>4
  <2>. QED
    BY <2>1, <2>3, <2>5
<1>. QED
  BY <1>1, <1>2

(* The table keeps the newest flushed row of every key.                      *)
LEMMA TableStep ==
  ASSUME TypeOK, LoopShape, TableHolds, [Next]_vars
  PROVE  TableHolds'
<1>. USE DEF TableHolds, senderVars, loopVars, mysqlVars
<1>. DEFINE failed == state["SEND_MYSQL_FAILED"]
            fb     == flushed \o batch
<1>0. /\ state \in [COUNTER_KEYS -> Nat] /\ "SEND_MYSQL_FAILED" \in COUNTER_KEYS /\ failed \in Nat
      /\ batch \in Seq(Log) /\ flushed \in Seq(Log)
      /\ Len(batch) \in Nat /\ Len(flushed) \in Nat
      /\ KeyOf \in [Log -> Key]
      /\ \A i \in 1 .. Len(flushed) : flushed[i] \in Log
      /\ \A i \in 1 .. Len(batch) : batch[i] \in Log
  BY LogsAssumption, ElementOfSeq, SMTT(20) DEF TypeOK, COUNTER_KEYS
<1>1. /\ Len(fb) = Len(flushed) + Len(batch)
      /\ \A i \in 1 .. Len(flushed) + Len(batch) :
           fb[i] = IF i <= Len(flushed) THEN flushed[i] ELSE batch[i - Len(flushed)]
  BY <1>0, ConcatProperties
\* A step that writes nothing.
<1>2. ASSUME UNCHANGED <<flushed, table>>, failed' = 0 => failed = 0,
             loop \notin Writing \/ (loop' \in Writing /\ batch' = batch)
      PROVE  TableHolds'
  BY <1>2 DEF Newest, InBatch
<1>3. ASSUME NEW u \in Updater, Update(u) PROVE TableHolds'
  <2>1. UNCHANGED <<flushed, table, loop, batch>>
    BY <1>3 DEF Update, Skip, EnqueueFull, Enqueue, CountSent
  <2>2. \/ Count({"RECEIVED_LOGS"})
        \/ Count({"RECEIVED_LOGS", "RECEIVED_REQ", "CONVERT_FAILED"})
        \/ Count({"RECEIVED_LOGS", "RECEIVED_REQ", "SENT_MYSQL_CHN_FULL"})
        \/ Count({"RECEIVED_LOGS", "RECEIVED_REQ"})
        \/ Count({"SENT_TO_MYSQL"})
    BY <1>3 DEF Update, Skip, EnqueueFull, Enqueue, CountSent, Dropped
  <2>3. failed' = failed
    BY <1>0, <2>2 DEF Count
  <2>. QED
    BY <1>2, <2>1, <2>3
<1>4. CASE Receive \/ Tick \/ StopSeen \/ Drain \/ DrainEnds
  <2>1. UNCHANGED <<flushed, table, state>> /\ loop \notin Writing
    BY <1>4 DEF Receive, Tick, StopSeen, Drain, Take, DrainEnds, DrainEndsAt, Writing
  <2>. QED
    BY <1>2, <2>1
<1>5. CASE WriteOk
  <2>1. flushed' = fb /\ batch' = <<>> /\ Commit(batch)
    BY <1>5 DEF WriteOk, Flushed
  <2>2. failed' = failed
    BY <1>0, <1>5 DEF WriteOk
  <2>3. SUFFICES ASSUME failed = 0, NEW i \in 1 .. Len(fb), fb[i] \notin Keyless,
                        \A j \in (i + 1) .. Len(fb) : fb[j] \notin Keyless => KeyOf[fb[j]] # KeyOf[fb[i]]
                 PROVE  table'[KeyOf[fb[i]]] = fb[i]
    BY <2>1, <2>2 DEF Newest
  <2>. HIDE DEF fb
  <2>4. CASE i <= Len(flushed)
    <3>1. fb[i] = flushed[i] /\ i \in 1 .. Len(flushed) /\ KeyOf[flushed[i]] \in Key
      BY <1>0, <1>1, <2>4
    <3>2. \A j \in (i + 1) .. Len(flushed) : fb[j] = flushed[j] /\ j \in (i + 1) .. Len(fb)
      BY <1>0, <1>1, <2>4
    <3>3. Newest(i)
      BY <2>3, <3>1, <3>2 DEF Newest
    <3>4. \A j \in 1 .. Len(batch) : fb[Len(flushed) + j] = batch[j] /\ Len(flushed) + j \in (i + 1) .. Len(fb)
      BY <1>0, <1>1, <2>4
    <3>5. ~InBatch(KeyOf[flushed[i]])
      BY <2>3, <3>1, <3>4 DEF InBatch
    <3>6. table[KeyOf[flushed[i]]] = flushed[i]
      BY <2>3, <3>1, <3>3, <3>5
    <3>. QED
      BY <1>0, <2>1, <3>1, <3>5, <3>6, CommitWrites
  <2>5. CASE i > Len(flushed)
    <3>. DEFINE m == i - Len(flushed)
    <3>1. m \in 1 .. Len(batch) /\ fb[i] = batch[m] /\ KeyOf[batch[m]] \in Key
      BY <1>0, <1>1, <2>5
    <3>2. ASSUME NEW j \in (m + 1) .. Len(batch)
          PROVE  fb[Len(flushed) + j] = batch[j] /\ Len(flushed) + j \in (i + 1) .. Len(fb)
      <4>. DEFINE l == Len(flushed) + j
      <4>1. /\ l \in 1 .. Len(flushed) + Len(batch) /\ l > Len(flushed) /\ l - Len(flushed) = j
            /\ l \in (i + 1) .. Len(fb)
        BY <1>0, <1>1, <2>5
      <4>. HIDE DEF l
      <4>2. fb[l] = batch[j]
        BY <1>0, <1>1, <4>1
      <4>. QED
        BY <4>1, <4>2 DEF l
    <3>. HIDE DEF m
    <3>3. \A j \in (m + 1) .. Len(batch) : batch[j] \notin Keyless => KeyOf[batch[j]] # KeyOf[batch[m]]
      BY <2>3, <3>1, <3>2
    <3>. QED
      BY <1>0, <2>1, <2>3, <3>1, <3>3, CommitWrites
  <2>. QED
    BY <1>0, <1>1, <2>4, <2>5
\* A batch that stays in the hands of the loop, committed or not.
<1>9. ASSUME UNCHANGED <<state, batch, flushed>>, loop' \in Writing, loop \in Writing,
             Commit(batch) \/ UNCHANGED table
      PROVE  TableHolds'
  <2>1. CASE UNCHANGED table
    BY <1>2, <1>9, <2>1
  <2>2. CASE Commit(batch)
    <3>1. ASSUME failed = 0, NEW i \in 1 .. Len(flushed), Newest(i), ~InBatch(KeyOf[flushed[i]])
          PROVE  table'[KeyOf[flushed[i]]] = flushed[i]
      <4>1. table[KeyOf[flushed[i]]] = flushed[i] /\ KeyOf[flushed[i]] \in Key
        BY <1>0, <3>1
      <4>. QED
        BY <1>0, <2>2, <3>1, <4>1, CommitWrites
    <3>2. /\ \A i : Newest(i)' <=> Newest(i)
          /\ \A k : InBatch(k)' <=> InBatch(k)
      BY <1>9 DEF Newest, InBatch
    <3>3. failed' = failed /\ flushed' = flushed
      BY <1>9
    <3>. QED
      BY <1>9, <3>1, <3>2, <3>3
  <2>. QED
    BY <1>9, <2>1, <2>2
<1>10. CASE WriteHangs
  <2>1. /\ UNCHANGED <<state, batch, flushed>> /\ loop' \in Writing /\ loop \in Writing
        /\ Commit(batch) \/ UNCHANGED table
    BY <1>10 DEF WriteHangs, Writing
  <2>. QED
    BY <1>9, <2>1
<1>6. CASE WriteFails
  <2>1. CASE attempt < MaxRetries
    <3>1. /\ UNCHANGED <<state, batch, flushed>> /\ loop' \in Writing /\ loop \in Writing
          /\ Commit(batch) \/ UNCHANGED table
      BY <1>6, <2>1 DEF WriteFails, Writing
    <3>. QED
      BY <1>9, <3>1
  <2>2. CASE ~(attempt < MaxRetries)
    <3>1. failed' = failed + 1
      BY <1>0, <1>6, <2>2 DEF WriteFails, GiveUp, Count
    <3>. QED
      BY <1>0, <3>1
  <2>. QED
    BY <2>1, <2>2
<1>7. CASE Backoff
  <2>1. UNCHANGED <<flushed, table, batch>> /\ (loop' \in Writing) /\ (UNCHANGED state \/ Count({"SEND_MYSQL_FAILED"}))
    BY <1>7 DEF Backoff, Writing
  <2>2. failed' = failed \/ failed' = failed + 1
    BY <1>0, <2>1 DEF Count
  <2>3. failed' = 0 => failed = 0
    BY <1>0, <2>2
  <2>. HIDE DEF failed
  <2>. QED
    BY <1>2, <2>1, <2>3
<1>8. CASE Stop \/ WaitAndClose \/ UNCHANGED vars
  <2>1. UNCHANGED <<flushed, table, state, loop, batch>>
    BY <1>8 DEF Stop, WaitAndClose, vars
  <2>. QED
    BY <1>2, <2>1
<1>. QED
  BY <1>3, <1>4, <1>5, <1>6, <1>7, <1>8, <1>10 DEF Next, WriteLoop

(* An unfinished record that leaves todo was not yet in the channel, or its   *)
(* goroutine has counted it.                                                 *)
LEMMA FreshStep ==
  ASSUME TypeOK, LoopShape, Fresh, [Next]_vars
  PROVE  Fresh'
<1>. USE DEF senderVars, loopVars, mysqlVars
<1>0. /\ accepted \in Seq(Log) /\ Len(accepted) \in Nat
      /\ todo \in [Updater -> Seq(Log)] /\ counting \subseteq Updater
      /\ \A u \in Updater : todo[u] \in Seq(Log) /\ Len(todo[u]) \in Nat
  BY DEF TypeOK
\* A record is finished.
<1>1. ASSUME NEW u \in Updater, todo[u] # <<>>, todo' = [todo EXCEPT ![u] = Tail(todo[u])],
             accepted' = accepted, counting' = counting \ {u}
      PROVE  Fresh'
  <2>1. /\ Len(todo'[u]) = Len(todo[u]) - 1
        /\ \A p \in 1 .. Len(todo'[u]) : todo'[u][p] = todo[u][p + 1] /\ p + 1 \in 1 .. Len(todo[u])
    BY <1>0, <1>1, HeadTailProperties, EmptySeq
  <2>2. \A v \in Updater : v # u => todo'[v] = todo[v]
    BY <1>0, <1>1
  <2>3. ASSUME NEW v \in Updater, NEW p \in 1 .. Len(todo'[v])
        PROVE  \E q \in 1 .. Len(todo[v]) :
                 /\ todo'[v][p] = todo[v][q]
                 /\ q = IF v = u THEN p + 1 ELSE p
    BY <2>1, <2>2
  <2>4. ASSUME NEW v \in Updater, NEW w \in Updater,
               NEW p \in 1 .. Len(todo'[v]), NEW q \in 1 .. Len(todo'[w]),
               todo'[v][p] = todo'[w][q]
        PROVE  v = w /\ p = q
    <3>1. PICK p1 \in 1 .. Len(todo[v]) : todo'[v][p] = todo[v][p1] /\ p1 = IF v = u THEN p + 1 ELSE p
      BY <2>3
    <3>2. PICK q1 \in 1 .. Len(todo[w]) : todo'[w][q] = todo[w][q1] /\ q1 = IF w = u THEN q + 1 ELSE q
      BY <2>3
    <3>3. v = w /\ p1 = q1
      <4>1. todo[v][p1] = todo[w][q1]
        BY <2>4, <3>1, <3>2
      <4>2. \A p2 \in 1 .. Len(todo[v]), q2 \in 1 .. Len(todo[w]) :
              todo[v][p2] = todo[w][q2] => v = w /\ p2 = q2
        BY DEF Fresh
      <4>. QED
        BY <4>1, <4>2
    <3>4. p \in Int /\ q \in Int
      OBVIOUS
    <3>. QED
      BY <3>1, <3>2, <3>3, <3>4
  <2>5. ASSUME NEW i \in 1 .. Len(accepted), NEW v \in Updater, NEW p \in 1 .. Len(todo'[v]),
               accepted[i] = todo'[v][p]
        PROVE  v \in counting' /\ p = 1
    <3>1. PICK p1 \in 1 .. Len(todo[v]) : todo'[v][p] = todo[v][p1] /\ p1 = IF v = u THEN p + 1 ELSE p
      BY <2>3
    <3>2. v \in counting /\ p1 = 1
      BY <2>5, <3>1 DEF Fresh
    <3>3. p \in Int /\ p >= 1
      BY <1>0, <2>1, <2>2
    <3>4. v # u
      BY <3>1, <3>2, <3>3
    <3>. QED
      BY <1>1, <3>1, <3>2, <3>4
  <2>6. \A i, j \in 1 .. Len(accepted) : accepted[i] = accepted[j] => i = j
    BY DEF Fresh
  <2>. QED
    BY <1>1, <2>4, <2>5, <2>6, SMTT(20) DEF Fresh
<1>2. ASSUME NEW u \in Updater, Skip(u) \/ EnqueueFull(u) PROVE Fresh'
  <2>1. /\ todo[u] # <<>> /\ u \notin counting /\ counting' = counting /\ accepted' = accepted
        /\ todo' = [todo EXCEPT ![u] = Tail(todo[u])]
    BY <1>2 DEF Skip, EnqueueFull
  <2>2. counting' = counting \ {u}
    BY <2>1
  <2>. QED
    BY <1>1, <2>1, <2>2
<1>3. ASSUME NEW u \in Updater, CountSent(u) PROVE Fresh'
  <2>1. /\ u \in counting /\ counting' = counting \ {u} /\ accepted' = accepted
        /\ todo' = [todo EXCEPT ![u] = Tail(todo[u])]
    BY <1>3 DEF CountSent
  <2>2. todo[u] # <<>>
    BY <2>1 DEF LoopShape
  <2>. QED
    BY <1>1, <2>1, <2>2
<1>4. ASSUME NEW u \in Updater, Enqueue(u) PROVE Fresh'
  <2>. DEFINE n == Len(accepted)
              h == todo[u][1]
  <2>1. /\ u \notin counting /\ counting' = counting \cup {u} /\ todo' = todo /\ todo[u] # <<>>
        /\ accepted' = Append(accepted, Head(todo[u]))
    BY <1>4 DEF Enqueue
  <2>2. 1 \in 1 .. Len(todo[u]) /\ Head(todo[u]) = h /\ h \in Log
    BY <1>0, <2>1, EmptySeq, HeadTailProperties
  <2>3. /\ Len(accepted') = n + 1 /\ accepted'[n + 1] = h
        /\ \A i \in 1 .. n : accepted'[i] = accepted[i]
    BY <1>0, <2>1, <2>2, AppendProperties
  <2>4. \A i \in 1 .. n : accepted[i] # h
    BY <2>1, <2>2 DEF Fresh
  <2>. HIDE DEF h
  <2>5. \A i \in 1 .. n + 1 : i \in 1 .. n \/ i = n + 1
    BY <1>0
  <2>6. \A i, j \in 1 .. Len(accepted') : accepted'[i] = accepted'[j] => i = j
    BY <2>3, <2>4, <2>5 DEF Fresh
  <2>7. ASSUME NEW i \in 1 .. Len(accepted'), NEW v \in Updater, NEW p \in 1 .. Len(todo[v]),
               accepted'[i] = todo[v][p]
        PROVE  v \in counting' /\ p = 1
    <3>1. CASE i \in 1 .. n
      BY <2>1, <2>3, <2>7, <3>1 DEF Fresh
    <3>2. CASE i = n + 1
      <4>1. todo[u][1] = todo[v][p]
        BY <2>3, <2>7, <3>2 DEF h
      <4>2. u = v /\ p = 1
        BY <2>2, <4>1 DEF Fresh
      <4>. QED
        BY <2>1, <4>2
    <3>. QED
      BY <2>3, <2>5, <3>1, <3>2
  <2>8. \A v, w \in Updater : \A p \in 1 .. Len(todo'[v]), q \in 1 .. Len(todo'[w]) :
          todo'[v][p] = todo'[w][q] => v = w /\ p = q
    BY <2>1 DEF Fresh
  <2>9. \A i \in 1 .. Len(accepted') : \A v \in Updater : \A p \in 1 .. Len(todo'[v]) :
          accepted'[i] = todo'[v][p] => v \in counting' /\ p = 1
    BY <2>1, <2>7
  <2>. QED
    BY <2>6, <2>8, <2>9 DEF Fresh
<1>5. CASE WriteLoop \/ Stop \/ WaitAndClose \/ UNCHANGED vars
  <2>1. UNCHANGED <<todo, counting, accepted>>
    BY <1>5 DEF WriteLoop, Receive, Tick, StopSeen, Drain, Take, DrainEnds, DrainEndsAt, WriteOk,
       WriteFails, WriteHangs, Backoff, Stop, WaitAndClose, vars
  <2>. QED
    BY <2>1 DEF Fresh
<1>. QED
  BY <1>2, <1>3, <1>4, <1>5 DEF Next, Update

(* No row is twice in the batch.                                             *)
LEMMA BatchDistinct ==
  ASSUME TypeOK, Order, Fresh
  PROVE  \A i, j \in 1 .. Len(batch) : batch[i] = batch[j] => i = j
<1>. DEFINE fb == flushed \o batch
            n  == Len(flushed)
<1>0. /\ batch \in Seq(Log) /\ flushed \in Seq(Log) /\ ch \in Seq(Log)
      /\ n \in Nat /\ Len(batch) \in Nat /\ Len(ch) \in Nat
      /\ accepted = fb \o ch
  BY DEF TypeOK, Order
<1>1. /\ fb \in Seq(Log) /\ Len(fb) = n + Len(batch)
      /\ \A i \in 1 .. n + Len(batch) : fb[i] = IF i <= n THEN flushed[i] ELSE batch[i - n]
  BY <1>0, ConcatProperties
<1>. HIDE DEF fb
<1>2. /\ Len(accepted) = Len(fb) + Len(ch)
      /\ \A i \in 1 .. Len(fb) + Len(ch) : accepted[i] = IF i <= Len(fb) THEN fb[i] ELSE ch[i - Len(fb)]
  <2>. DEFINE fbc == fb \o ch
  <2>0. fb \in Seq(Log) /\ ch \in Seq(Log)
    BY <1>0, <1>1
  <2>1. /\ Len(fbc) = Len(fb) + Len(ch)
        /\ \A i \in 1 .. Len(fb) + Len(ch) : fbc[i] = IF i <= Len(fb) THEN fb[i] ELSE ch[i - Len(fb)]
    BY <2>0, ConcatProperties
  <2>2. accepted = fbc
    BY <1>0
  <2>. HIDE DEF fbc
  <2>. QED
    BY <2>1, <2>2
<1>3. ASSUME NEW i \in 1 .. Len(batch)
      PROVE  n + i \in 1 .. Len(accepted) /\ accepted[n + i] = batch[i]
  <2>. DEFINE l == n + i
  <2>1. l \in 1 .. n + Len(batch) /\ l > n /\ l - n = i /\ l \in 1 .. Len(fb) + Len(ch) /\ l <= Len(fb)
    BY <1>0, <1>1
  <2>. HIDE DEF l
  <2>2. fb[l] = batch[i] /\ accepted[l] = fb[l]
    BY <1>0, <1>1, <1>2, <2>1
  <2>. QED
    BY <1>2, <2>1, <2>2 DEF l
<1>4. ASSUME NEW i \in 1 .. Len(batch), NEW j \in 1 .. Len(batch), batch[i] = batch[j]
      PROVE  i = j
  <2>1. n + i = n + j
    BY <1>3, <1>4 DEF Fresh
  <2>. QED
    BY <1>0, <2>1
<1>. QED
  BY <1>4

(* A committed batch adds one copy of each of its keyless rows; only a commit *)
(* that reported an error is repeated.                                       *)
LEMMA CopiesStep ==
  ASSUME TypeOK, Order, Fresh, CopiesHeld, [Next]_vars
  PROVE  CopiesHeld'
<1>. USE DEF senderVars, loopVars, mysqlVars
<1>. DEFINE failed     == state["SEND_MYSQL_FAILED"]
            Old(r)     == Cardinality(Places(flushed, r))
            InTheBatch(r) == Cardinality(Places(batch, r))
<1>0. /\ state \in [COUNTER_KEYS -> Nat] /\ "SEND_MYSQL_FAILED" \in COUNTER_KEYS /\ failed \in Nat
      /\ batch \in Seq(Log) /\ flushed \in Seq(Log)
      /\ copies \in [Keyless -> Nat] /\ faults \in Nat
  BY ConfAssumption DEF TypeOK, COUNTER_KEYS
<1>1. ASSUME NEW r \in Keyless
      PROVE  /\ Old(r) \in Nat /\ InTheBatch(r) \in Nat /\ InTheBatch(r) <= 1
             /\ Cardinality(Places(flushed \o batch, r)) = Old(r) + InTheBatch(r)
             /\ copies[r] \in Nat /\ copies[r] <= Old(r) + faults
             /\ failed = 0 => copies[r] >= Old(r)
  <2>1. Old(r) \in Nat /\ InTheBatch(r) \in Nat
    BY <1>0, PlacesFinite
  <2>2. Cardinality(Places(flushed \o batch, r)) = Old(r) + InTheBatch(r)
    BY <1>0, PlacesOfConcat
  <2>3. InTheBatch(r) <= 1
    BY <1>0, BatchDistinct, PlacesOnce
  <2>. QED
    BY <1>0, <2>1, <2>2, <2>3 DEF CopiesHeld
<1>2. ASSUME Commit(batch), NEW r \in Keyless PROVE copies'[r] = copies[r] + InTheBatch(r)
  BY <1>2 DEF Commit, Places
\* A step that writes and flushes nothing.
<1>3. ASSUME UNCHANGED <<flushed, copies, faults>>, failed' = 0 => failed = 0
      PROVE  CopiesHeld'
  BY <1>3 DEF CopiesHeld
<1>4. ASSUME NEW u \in Updater, Update(u) PROVE CopiesHeld'
  <2>1. UNCHANGED <<flushed, copies, faults>>
    BY <1>4 DEF Update, Skip, EnqueueFull, Enqueue, CountSent
  <2>2. \/ Count({"RECEIVED_LOGS"})
        \/ Count({"RECEIVED_LOGS", "RECEIVED_REQ", "CONVERT_FAILED"})
        \/ Count({"RECEIVED_LOGS", "RECEIVED_REQ", "SENT_MYSQL_CHN_FULL"})
        \/ Count({"RECEIVED_LOGS", "RECEIVED_REQ"})
        \/ Count({"SENT_TO_MYSQL"})
    BY <1>4 DEF Update, Skip, EnqueueFull, Enqueue, CountSent, Dropped
  <2>3. failed' = failed
    BY <1>0, <2>2 DEF Count
  <2>. QED
    BY <1>3, <2>1, <2>3
<1>5. CASE WriteOk
  <2>1. flushed' = flushed \o batch /\ Commit(batch) /\ faults' = faults
    BY <1>5 DEF WriteOk, Flushed
  <2>2. failed' = failed
    BY <1>0, <1>5 DEF WriteOk
  <2>3. ASSUME NEW r \in Keyless
        PROVE  /\ copies'[r] <= Cardinality(Places(flushed', r)) + faults'
               /\ failed' = 0 => copies'[r] >= Cardinality(Places(flushed', r))
    <3>. HIDE DEF Old, InTheBatch, failed
    <3>1. copies'[r] = copies[r] + InTheBatch(r)
      BY <1>2, <2>1
    <3>2. Cardinality(Places(flushed', r)) = Old(r) + InTheBatch(r)
      BY <1>1, <2>1
    <3>. QED
      BY <1>0, <1>1, <2>1, <2>2, <3>1, <3>2
  <2>. QED
    BY <2>3 DEF CopiesHeld
\* A transaction that fails or hangs.
<1>6. CASE WriteFails \/ WriteHangs
  <2>1. faults' = faults + 1 /\ (Commit(batch) \/ UNCHANGED <<table, copies>>)
    BY <1>6 DEF WriteFails, WriteHangs
  <2>2. ASSUME NEW r \in Keyless
        PROVE  /\ copies'[r] \in Nat /\ copies'[r] <= Old(r) + faults'
               /\ failed = 0 => copies'[r] >= Old(r)
    <3>. HIDE DEF Old, InTheBatch, failed
    <3>1. copies'[r] = copies[r] \/ copies'[r] = copies[r] + InTheBatch(r)
      BY <1>2, <2>1
    <3>. QED
      BY <1>0, <1>1, <2>1, <3>1
  <2>3. CASE attempt < MaxRetries \/ WriteHangs
    <3>1. UNCHANGED <<state, flushed>>
      BY <1>6, <2>3 DEF WriteFails, WriteHangs
    <3>. QED
      BY <2>2, <3>1 DEF CopiesHeld
  <2>4. CASE ~(attempt < MaxRetries) /\ WriteFails
    <3>1. flushed' = flushed \o batch /\ Count({"SEND_MYSQL_FAILED"})
      BY <2>4 DEF WriteFails, GiveUp, Flushed
    <3>2. failed' = failed + 1
      BY <1>0, <3>1 DEF Count
    <3>3. ASSUME NEW r \in Keyless PROVE copies'[r] <= Cardinality(Places(flushed', r)) + faults'
      <4>. HIDE DEF Old, InTheBatch, failed
      <4>1. Cardinality(Places(flushed', r)) = Old(r) + InTheBatch(r)
        BY <1>1, <3>1
      <4>. QED
        BY <1>0, <1>1, <2>1, <2>2, <4>1
    <3>. QED
      BY <1>0, <3>2, <3>3 DEF CopiesHeld
  <2>. QED
    BY <1>6, <2>3, <2>4
<1>7. CASE Backoff
  <2>1. UNCHANGED <<flushed, copies, faults>> /\ (UNCHANGED state \/ Count({"SEND_MYSQL_FAILED"}))
    BY <1>7 DEF Backoff
  <2>2. failed' = failed \/ failed' = failed + 1
    BY <1>0, <2>1 DEF Count
  <2>. QED
    BY <1>0, <1>3, <2>1, <2>2
<1>8. CASE \/ Receive \/ Tick \/ StopSeen \/ Drain \/ DrainEnds \/ Stop \/ WaitAndClose
           \/ UNCHANGED vars
  <2>1. UNCHANGED <<flushed, copies, faults, state>>
    BY <1>8 DEF Receive, Tick, StopSeen, Drain, Take, DrainEnds, DrainEndsAt, Stop, WaitAndClose, vars
  <2>. QED
    BY <1>3, <2>1
<1>. QED
  BY <1>4, <1>5, <1>6, <1>7, <1>8 DEF Next, WriteLoop

-----------------------------------------------------------------------------
(* Theorems *)

(* The invariant holds initially: nothing has been received or flushed yet.  *)
LEMMA MInvInit == Init => MInv
<1>. SUFFICES ASSUME Init PROVE MInv
  OBVIOUS
<1>. USE DEF Init
<1>0. /\ <<>> \in Seq(Log) /\ Len(<<>>) = 0 /\ <<>> \o <<>> = <<>>
      /\ BatchSize \in Nat \ {0} /\ QueueSize \in Nat \ {0}
      /\ MaxRetries \in Nat \ {0} /\ MaxFault \in Nat
  <2>1. <<>> \in Seq(Log) /\ Len(<<>>) = 0
    BY EmptySeq
  <2>2. <<>> \o <<>> = <<>>
    BY <2>1, ConcatEmptySeq
  <2>. QED
    BY <2>1, <2>2, ConfAssumption
<1>1. IsFiniteSet({}) /\ Cardinality({}) = 0
  BY FS_EmptySet
<1>2. \A k \in COUNTER_KEYS : state[k] = 0
  OBVIOUS
<1>3. TypeOK
  <2>1. /\ state \in [COUNTER_KEYS -> Nat] /\ faults \in 0 .. MaxFault /\ attempt \in 0 .. MaxRetries
        /\ todo \in [Updater -> Seq(Log)]
        /\ table \in [Key -> Log \cup {NoRow}] /\ copies \in [Keyless -> Nat]
    BY <1>0, LogsAssumption
  <2>2. /\ ch \in Seq(Log) /\ Len(ch) <= QueueSize
        /\ batch \in Seq(Log) /\ Len(batch) <= BatchSize
        /\ accepted \in Seq(Log) /\ flushed \in Seq(Log)
    BY <1>0
  <2>. QED
    BY <2>1, <2>2 DEF TypeOK
<1>4. LoopShape
  BY <1>0 DEF LoopShape, Writing
<1>5. CountersAddUp
  <2>1. /\ state["RECEIVED_REQ"] = 0 /\ state["CONVERT_FAILED"] = 0
        /\ state["SENT_TO_MYSQL"] = 0 /\ state["SENT_MYSQL_CHN_FULL"] = 0
    BY <1>2 DEF COUNTER_KEYS
  <2>2. Cardinality(counting) = 0 /\ Len(accepted) = 0
    BY <1>0, <1>1
  <2>. QED
    BY <2>1, <2>2 DEF CountersAddUp
<1>6. Order
  BY <1>0 DEF Order
<1>7. NoSilentLoss
  <2>1. state["WRITE_BATCH_SIZE"] = 0 /\ state["SEND_MYSQL_FAILED"] = 0
    BY <1>2 DEF COUNTER_KEYS
  <2>2. Len(flushed) = 0 /\ BatchSize * 0 = 0
    BY <1>0
  <2>. QED
    BY <2>1, <2>2 DEF NoSilentLoss
<1>8. TableHolds
  BY <1>0 DEF TableHolds
<1>9. Fresh
  <2>1. \A u \in Updater : DOMAIN Logs[u] = 1 .. Len(Logs[u])
    BY LogsAssumption, LenProperties
  <2>2. \A u, v \in Updater : \A p \in 1 .. Len(Logs[u]), q \in 1 .. Len(Logs[v]) :
          Logs[u][p] = Logs[v][q] => u = v /\ p = q
    BY <2>1, DistinctAssumption
  <2>. QED
    BY <1>0, <2>2 DEF Fresh
<1>10. CopiesHeld
  <2>1. ASSUME NEW r \in Keyless PROVE copies[r] = 0 /\ Cardinality(Places(flushed, r)) = 0
    <3>1. Places(flushed, r) = {}
      BY <1>0 DEF Places
    <3>. QED
      BY <1>1, <3>1
  <2>. QED
    BY <2>1 DEF CopiesHeld
<1>. QED
  BY <1>3, <1>4, <1>5, <1>6, <1>7, <1>8, <1>9, <1>10 DEF MInv

(* The invariant holds in every state of every behaviour.                    *)
THEOREM MysqlInvariant == Spec => []MInv
<1>1. MInv /\ [Next]_vars => MInv'
  BY MTypeStep, LoopShapeStep, CountersStep, OrderStep, NoSilentLossStep, TableStep, FreshStep,
     CopiesStep DEF MInv
<1>. QED
  BY MInvInit, <1>1, PTL DEF Spec

(* The variables keep their types; the channel never holds more than         *)
(* QueueSize rows, the batch never more than BatchSize.                      *)
THEOREM MysqlTypes == Spec => []TypeOK
<1>1. MInv => TypeOK
  BY DEF MInv
<1>. QED
  BY MysqlInvariant, <1>1, PTL

(* The counters of Update add up over any number of goroutines.              *)
THEOREM MysqlCounters == Spec => []CountersAddUp
<1>1. MInv => CountersAddUp
  BY DEF MInv
<1>. QED
  BY MysqlInvariant, <1>1, PTL

(* What flush disposes of is counted, row by row as written or batch by batch *)
(* as failed.                                                                *)
THEOREM MysqlNoSilentLoss == Spec => []NoSilentLoss
<1>1. MInv => NoSilentLoss
  BY DEF MInv
<1>. QED
  BY MysqlInvariant, <1>1, PTL

(* While no batch has been given up, the table ends up with the newest row of *)
(* every key, whatever the retries and the failed commits.                   *)
THEOREM MysqlNewestRowWins == Spec => []NewestRowWins
<1>1. MInv => NewestRowWins
  <2>. SUFFICES ASSUME MInv, loop \in {"select", "drain", "done"}, state["SEND_MYSQL_FAILED"] = 0,
                       NEW i \in 1 .. Len(flushed), flushed[i] \notin Keyless,
                       \A j \in {l \in (i + 1) .. Len(flushed) : flushed[l] \notin Keyless} :
                         KeyOf[flushed[j]] # KeyOf[flushed[i]]
                PROVE  table[KeyOf[flushed[i]]] = flushed[i]
    BY DEF NewestRowWins
  <2>1. Newest(i)
    BY DEF Newest
  <2>2. loop \notin Writing
    BY DEF Writing
  <2>. QED
    BY <2>1, <2>2 DEF MInv, TableHolds
<1>. QED
  BY MysqlInvariant, <1>1, PTL

(* A keyless row is in the table once it has been flushed and no batch was    *)
(* given up, and more often only by the failed commits.                      *)
THEOREM MysqlCopiesPerCommit == Spec => []CopiesPerCommit
<1>1. MInv => CopiesPerCommit
  <2>. SUFFICES ASSUME MInv, NEW r \in Keyless
                PROVE  /\ copies[r] <= Cardinality({i \in DOMAIN accepted : accepted[i] = r}) + faults
                       /\ loop \in {"select", "drain", "done"} /\ state["SEND_MYSQL_FAILED"] = 0
                            => copies[r] >= Cardinality({i \in DOMAIN flushed : flushed[i] = r})
    BY DEF CopiesPerCommit
  <2>0. /\ accepted \in Seq(Log) /\ flushed \in Seq(Log) /\ batch \in Seq(Log) /\ ch \in Seq(Log)
        /\ copies[r] \in Nat /\ faults \in Nat
        /\ accepted = (flushed \o batch) \o ch /\ flushed \o batch \in Seq(Log)
    BY ConfAssumption, ConcatProperties DEF MInv, TypeOK, Order
  <2>1. /\ {i \in DOMAIN accepted : accepted[i] = r} = Places(accepted, r)
        /\ {i \in DOMAIN flushed : flushed[i] = r} = Places(flushed, r)
    <3>1. DOMAIN accepted = 1 .. Len(accepted) /\ DOMAIN flushed = 1 .. Len(flushed)
      BY <2>0, LenProperties
    <3>. QED
      BY <3>1 DEF Places
  <2>2. /\ Cardinality(Places(flushed, r)) \in Nat /\ Cardinality(Places(batch, r)) \in Nat
        /\ Cardinality(Places(ch, r)) \in Nat
    BY <2>0, PlacesFinite
  <2>3. Cardinality(Places(flushed \o batch, r))
          = Cardinality(Places(flushed, r)) + Cardinality(Places(batch, r))
    BY <2>0, PlacesOfConcat
  <2>4. Cardinality(Places((flushed \o batch) \o ch, r))
          = Cardinality(Places(flushed \o batch, r)) + Cardinality(Places(ch, r))
    BY <2>0, PlacesOfConcat
  <2>5. Cardinality(Places(accepted, r)) >= Cardinality(Places(flushed, r))
        /\ Cardinality(Places(accepted, r)) \in Nat
    BY <2>0, <2>2, <2>3, <2>4
  <2>6. /\ copies[r] <= Cardinality(Places(flushed, r)) + faults
        /\ state["SEND_MYSQL_FAILED"] = 0 => copies[r] >= Cardinality(Places(flushed, r))
    BY DEF MInv, CopiesHeld
  <2>7. copies[r] <= Cardinality(Places(accepted, r)) + faults
    BY <2>0, <2>2, <2>5, <2>6
  <2>8. /\ Cardinality({i \in DOMAIN accepted : accepted[i] = r}) = Cardinality(Places(accepted, r))
        /\ Cardinality({i \in DOMAIN flushed : flushed[i] = r}) = Cardinality(Places(flushed, r))
    BY <2>1
  <2>. QED
    BY <2>6, <2>7, <2>8
<1>. QED
  BY MysqlInvariant, <1>1, PTL

(* With no more retries configured than there are pauses, writeLoop outlives  *)
(* every failing batch.                                                      *)
THEOREM WriterOutlives ==
  ASSUME MaxRetries <= Len(retryBackoffMs)
  PROVE  Spec => []WriterSurvives
<1>1. MInv => WriterSurvives
  <2>. SUFFICES ASSUME MInv, loop = "dead" PROVE FALSE
    BY DEF WriterSurvives
  <2>1. attempt \in 0 .. MaxRetries /\ attempt # 0 /\ attempt \notin DOMAIN retryBackoffMs
    BY DEF MInv, TypeOK, LoopShape
  <2>2. DOMAIN retryBackoffMs = 1 .. 3 /\ Len(retryBackoffMs) = 3
    BY DEF retryBackoffMs
  <2>. QED
    BY <2>1, <2>2, ConfAssumption
<1>. QED
  BY MysqlInvariant, <1>1, PTL

(* A flush hands on what was accepted up to the end of the batch, in order,   *)
(* and the loop ends with it only when that is all that was due.             *)
LEMMA FlushHandles ==
  ASSUME MInv, loop = "writeBatch", Flushed, UNCHANGED <<accepted, due>>
  PROVE  Sink!Next
<1>. DEFINE fb == flushed \o batch
            n  == Len(fb)
<1>0. /\ batch \in Seq(Log) /\ ch \in Seq(Log) /\ flushed \in Seq(Log) /\ accepted \in Seq(Log)
      /\ due \in SUBSET Nat /\ resume \in {"select", "drain", "done"} /\ batch # <<>>
      /\ accepted = fb \o ch
      /\ resume = "done" => due # {} /\ \A d \in due : d <= Len(flushed) + Len(batch)
  BY DEF MInv, TypeOK, LoopShape, Order, Writing
<1>1. /\ fb \in Seq(Log) /\ n = Len(flushed) + Len(batch)
      /\ Len(flushed) \in Nat /\ Len(batch) \in Nat \ {0} /\ Len(ch) \in Nat
  BY <1>0, ConcatProperties, EmptySeq
<1>. HIDE DEF fb
<1>2. Len(accepted) = n + Len(ch)
  BY <1>0, <1>1, ConcatProperties
<1>3. flushed' = SubSeq(accepted, 1, n)
  <2>1. SubSeq(fb \o ch, 1, n) = fb
    BY <1>0, <1>1, PrefixOfConcat
  <2>. QED
    BY <1>0, <2>1 DEF Flushed, fb
<1>4. n \in (Len(flushed) + 1) .. Len(accepted) /\ n \in Len(flushed) .. Len(accepted)
  BY <1>1, <1>2
<1>5. Len(flushed') = n
  BY DEF Flushed, fb
<1>6. CASE resume # "done"
  <2>1. loop # "done" /\ loop' # "done"
    BY <1>6 DEF Flushed
  <2>2. Sink!Handle
    BY <1>3, <1>4, <2>1 DEF Sink!Handle
  <2>. QED
    BY <2>2 DEF Sink!Next
<1>7. CASE resume = "done"
  <2>1. loop # "done" /\ loop' = "done"
    BY <1>7 DEF Flushed
  <2>2. \A d \in due : d <= Len(flushed')
    BY <1>0, <1>1, <1>5, <1>7
  <2>3. Sink!End
    BY <1>0, <1>3, <1>4, <1>7, <2>1, <2>2 DEF Sink!End
  <2>. QED
    BY <2>3 DEF Sink!Next
<1>. QED
  BY <1>6, <1>7

(* The drain of an empty channel with an empty batch ends the loop: all that  *)
(* was due has been flushed.                                                 *)
LEMMA EmptyDrainEnds ==
  ASSUME MInv, DrainEnds, batch = <<>>
  PROVE  Sink!Next
<1>0. /\ flushed \in Seq(Log) /\ accepted \in Seq(Log) /\ due \in SUBSET Nat
      /\ due # {} /\ \A d \in due : d <= Len(accepted)
      /\ accepted = (flushed \o <<>>) \o <<>>
  BY DEF MInv, TypeOK, LoopShape, Order, DrainEnds, DrainEndsAt
<1>1. accepted = flushed
  BY <1>0, ConcatEmptySeq
<1>2. loop = "drain" /\ loop' = "done" /\ UNCHANGED <<accepted, flushed, due>>
  BY DEF DrainEnds, DrainEndsAt, Flush
<1>3. SubSeq(accepted, 1, Len(accepted)) = accepted /\ Len(accepted) \in Nat
  BY <1>0, SubSeqFull
<1>4. Len(accepted) \in Len(flushed) .. Len(accepted)
  BY <1>1, <1>3
<1>5. \A d \in due : d <= Len(flushed')
  BY <1>0, <1>1, <1>2
<1>6. Sink!End
  BY <1>0, <1>1, <1>2, <1>3, <1>4, <1>5 DEF Sink!End
<1>. QED
  BY <1>6 DEF Sink!Next

(* mod_log_mysql is a sink, for every queue and batch size, number of retries *)
(* and failure of MySQL: channel, batch and drain keep the order, lose and   *)
(* repeat nothing, and writeLoop returns only when what was accepted before  *)
(* Close has been flushed.                                                   *)
THEOREM MysqlIsSink == Spec => IsSink
<1>1. Init => Sink!Init
  BY DEF Init, Sink!Init
<1>2. MInv /\ [Next]_vars => [Sink!Next]_<<accepted, flushed, due, loop = "done">>
  <2>. SUFFICES ASSUME MInv, [Next]_vars
                PROVE  [Sink!Next]_<<accepted, flushed, due, loop = "done">>
    OBVIOUS
  <2>. DEFINE Stutters == UNCHANGED <<accepted, flushed, due>> /\ (loop = "done") = (loop' = "done")
  <2>1. ASSUME Stutters PROVE UNCHANGED <<accepted, flushed, due, loop = "done">>
    BY <2>1
  <2>. USE DEF senderVars, loopVars, mysqlVars
  <2>2. ASSUME NEW u \in Updater, Skip(u) \/ EnqueueFull(u) \/ CountSent(u) PROVE Stutters
    BY <2>2 DEF Skip, EnqueueFull, CountSent
  <2>3. ASSUME NEW u \in Updater, Enqueue(u) PROVE Sink!Next
    <3>1. accepted' = Append(accepted, Head(todo[u])) /\ UNCHANGED <<flushed, due, loop>>
      BY <2>3 DEF Enqueue
    <3>2. Head(todo[u]) \in Log
      BY <2>3, HeadTailProperties DEF Enqueue, MInv, TypeOK
    <3>. QED
      BY <3>1, <3>2 DEF Sink!Next, Sink!Accept
  <2>4. CASE Receive \/ Drain \/ Tick \/ StopSeen \/ Backoff \/ WaitAndClose \/ UNCHANGED vars
    <3>1. UNCHANGED <<accepted, flushed, due>>
      BY <2>4 DEF Receive, Drain, Take, Tick, StopSeen, Backoff, WaitAndClose, vars
    <3>2. loop' = loop \/ (loop # "done" /\ loop' # "done")
      BY <2>4 DEF Receive, Drain, Take, Tick, StopSeen, Backoff, WaitAndClose, vars, Flush
    <3>. QED
      BY <3>1, <3>2
  <2>5. CASE DrainEnds
    <3>1. CASE batch = <<>>
      BY <2>5, <3>1, EmptyDrainEnds
    <3>2. CASE batch # <<>>
      <4>1. UNCHANGED <<accepted, flushed, due>> /\ loop = "drain" /\ loop' # "done"
        BY <2>5, <3>2 DEF DrainEnds, DrainEndsAt, Flush
      <4>. QED
        BY <4>1
    <3>. QED
      BY <3>1, <3>2
  <2>6. CASE WriteOk
    BY <2>6, FlushHandles DEF WriteOk
  <2>7. CASE WriteFails
    <3>1. loop = "writeBatch" /\ UNCHANGED <<accepted, due>>
      BY <2>7 DEF WriteFails
    <3>2. Flushed \/ (flushed' = flushed /\ loop' = "backoff")
      BY <2>7 DEF WriteFails, GiveUp
    <3>3. CASE Flushed
      BY <3>1, <3>3, FlushHandles
    <3>. QED
      BY <3>1, <3>2, <3>3
  <2>9. CASE WriteHangs
    BY <2>9 DEF WriteHangs
  <2>8. CASE Stop
    <3>1. due = {} /\ due' = {Len(accepted)} /\ UNCHANGED <<accepted, flushed, loop>>
      BY <2>8 DEF Stop, CloseStep, MInv, LoopShape
    <3>. QED
      BY <3>1 DEF Sink!Next, Sink!RequestClose
  <2>. HIDE DEF Stutters
  <2>. QED
    BY <2>1, <2>2, <2>3, <2>4, <2>5, <2>6, <2>7, <2>8, <2>9 DEF Next, Update, WriteLoop
<1>. QED
  BY <1>1, <1>2, MysqlInvariant, PTL DEF Spec, IsSink, Sink!Spec
=============================================================================
