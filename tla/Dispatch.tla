------------------------------ MODULE Dispatch ------------------------------
(***************************************************************************)
(* PbLogReader.Start after logRead (bfe_log_reader/pb_log_reader.go): the  *)
(* records of one read are cut into batches, and every batch is handed to  *)
(* every bound module by a goroutine of its own, which survives a panic of *)
(* that module.                                                            *)
(*                                                                         *)
(* Records are numbered in the order logRead returns them.  What a module  *)
(* does with a record is a step of its own, since the goroutines of one    *)
(* module run side by side (ModKafka and ModLogMysql tell what they do).   *)
(*                                                                         *)
(* An operator under the comment "Mutant" is no part of the model: it is   *)
(* the definition after it with a plausible bug, which the properties must *)
(* catch.                                                                  *)
(***************************************************************************)
EXTENDS Integers, Sequences, FiniteSets, Functions

CONSTANTS
  Module,           (* the modules bound to the reader                     *)
  MaxSizePerBatch,  (* at most this many records per batch; <= 0: no limit *)
  MaxRecord,        (* logRead returns at most this many records   (bound) *)
  MaxPanic          (* at most this many panics                    (bound) *)

ASSUME DispatchAssumption ==
  /\ IsFiniteSet(Module)
  /\ MaxSizePerBatch \in Int
  /\ MaxRecord \in Nat
  /\ MaxPanic \in Nat

Record == 1 .. MaxRecord

VARIABLES
  returned,    (* records logRead has returned so far: 1 .. returned       *)
  batches,     (* batches of this read that wait for their goroutines      *)
  running,     (* goroutines: module, batch, records of it done so far     *)
  panics,      (* panics so far                                            *)
  updated,     (* updated[m][r]: times m has been given record r (history) *)
  dropped      (* dropped[m]: records lost in a panic of m       (history) *)

vars == <<returned, batches, running, panics, updated, dropped>>

Init ==
  /\ returned = 0
  /\ batches = <<>>
  /\ running = {}
  /\ panics = 0
  /\ updated = [m \in Module |-> [r \in Record |-> 0]]
  /\ dropped = [m \in Module |-> {}]

-----------------------------------------------------------------------------
(* The read loop *)

\* Mutant: every batch ends one record early.
CutShort(records) ==
  LET end(i) == IF i + MaxSizePerBatch > Len(records) THEN Len(records)
                                                       ELSE i + MaxSizePerBatch
  IN IF MaxSizePerBatch > 0
     THEN [k \in 1 .. ((Len(records) + MaxSizePerBatch - 1) \div MaxSizePerBatch) |->
             LET i == (k - 1) * MaxSizePerBatch IN SubSeq(records, i + 1, end(i) - 1)]
     ELSE <<records>>

\* The loop over records: the batch that begins at index i ends at i +
\* MaxSizePerBatch or at the end of the records.
Cut(records) ==
  LET end(i) == IF i + MaxSizePerBatch > Len(records) THEN Len(records)
                                                       ELSE i + MaxSizePerBatch
  IN IF MaxSizePerBatch > 0
     THEN [k \in 1 .. ((Len(records) + MaxSizePerBatch - 1) \div MaxSizePerBatch) |->
             LET i == (k - 1) * MaxSizePerBatch IN SubSeq(records, i + 1, end(i))]
     ELSE <<records>>

\* Mutant: one record more than there is.
ParsedOneMore(n) == [k \in 1 .. (n - returned + 1) |-> returned + k]

\* The records of a read after which n have been returned in all.
Parsed(n) == [k \in 1 .. (n - returned) |-> returned + k]

\* logRead returns records; without any the loop only sleeps.
LogRead ==
  /\ batches = <<>>
  /\ \E n \in (returned + 1) .. MaxRecord :
       /\ returned' = n
       /\ batches' = Cut(Parsed(n))
  /\ UNCHANGED <<running, panics, updated, dropped>>

\* Mutant: the loop leaves the last batch.
GoAllButLast ==
  /\ Len(batches) > 1
  /\ running' = running \cup [module : Module, batch : {Head(batches)}, done : {0}]
  /\ batches' = Tail(batches)
  /\ UNCHANGED <<returned, panics, updated, dropped>>

\* The loop over the batches: a goroutine per module for the next one.
Go ==
  /\ batches # <<>>
  /\ running' = running \cup [module : Module, batch : {Head(batches)}, done : {0}]
  /\ batches' = Tail(batches)
  /\ UNCHANGED <<returned, panics, updated, dropped>>

-----------------------------------------------------------------------------
(* The goroutines *)

Rest(g) == {g.batch[i] : i \in (g.done + 1) .. Len(g.batch)}

\* m.Update gets to the next record, or returns.
Update(g) ==
  /\ IF g.done < Len(g.batch)
     THEN /\ updated' = [updated EXCEPT ![g.module][g.batch[g.done + 1]] = @ + 1]
          /\ running' = (running \ {g}) \cup {[g EXCEPT !.done = @ + 1]}
     ELSE /\ running' = running \ {g}
          /\ UNCHANGED updated
  /\ UNCHANGED <<returned, batches, panics, dropped>>

\* Mutant: no recover, the process is gone.
PanicEndsAll(g) ==
  /\ running' = {}
  /\ dropped' = [m \in Module |->
                   dropped[m] \cup UNION {Rest(h) : h \in {x \in running : x.module = m}}]

\* The deferred recover: the rest of the batch is not processed.
Recover(g) ==
  /\ running' = running \ {g}
  /\ dropped' = [dropped EXCEPT ![g.module] = @ \cup Rest(g)]

\* m.Update panics at a record.
Panic(g) ==
  /\ panics < MaxPanic
  /\ g.done < Len(g.batch)
  /\ panics' = panics + 1
  /\ Recover(g)
  /\ UNCHANGED <<returned, batches, updated>>

-----------------------------------------------------------------------------

Next ==
  \/ LogRead
  \/ Go
  \/ \E g \in running : Update(g) \/ Panic(g)

Spec == Init /\ [][Next]_vars

\* The read loop goes on, and every goroutine runs until its Update returns.
FairSpec ==
  /\ Spec
  /\ WF_vars(Go)
  /\ \A m \in Module : \A r \in Record :
       WF_vars(\E g \in running : g.module = m /\ r \in Range(g.batch) /\ Update(g))
-----------------------------------------------------------------------------
(* Properties *)

TypeOK ==
  /\ returned \in 0 .. MaxRecord
  /\ batches \in Seq(Seq(Record))
  /\ running \subseteq [module : Module, batch : Seq(Record), done : 0 .. MaxRecord]
  /\ panics \in 0 .. MaxPanic
  /\ updated \in [Module -> [Record -> Nat]]
  /\ dropped \in [Module -> SUBSET Record]

Bit(b) == IF b THEN 1 ELSE 0

\* The cutting into batches and the goroutines lose and repeat nothing: for
\* every module, a record that was returned waits in one batch, or is still to
\* come in one goroutine, or was given to the module once, or fell to a panic
\* of that module.
EachRecordOnce ==
  \A m \in Module : \A r \in 1 .. returned :
    Cardinality({k \in 1 .. Len(batches) : r \in Range(batches[k])})
      + Cardinality({g \in running : g.module = m /\ r \in Rest(g)})
      + updated[m][r]
      + Bit(r \in dropped[m]) = 1

\* A panic costs its module at most the rest of one batch, and the other
\* modules and batches nothing.
PanicIsContained ==
  MaxSizePerBatch > 0 =>
    Cardinality({p \in Module \X Record : p[2] \in dropped[p[1]]}) <= panics * MaxSizePerBatch

\* What becomes of the records: none is lost or repeated on the way to a module,
\* and a panic (the deferred recover) takes none but the rest of its own batch.
RecordsAccountedFor == EachRecordOnce /\ PanicIsContained

\* Every record that is returned gets to every module, unless that module has
\* panicked in its batch, however slow other modules are.
EveryoneIsServed ==
  \A m \in Module : \A r \in Record :
    r <= returned ~> updated[m][r] = 1 \/ r \in dropped[m]

\* doc/sys_design/overview.md:114: Update is serial within a module, and
\* concurrent only between modules.
SerialWithinModule ==
  \A g, h \in running :
    /\ g.module = h.module
    /\ g.done > 0 /\ g.done < Len(g.batch)
    /\ h.done > 0 /\ h.done < Len(h.batch)
    => g = h

=============================================================================
