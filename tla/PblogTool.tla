------------------------------ MODULE PblogTool ------------------------------
(***************************************************************************)
(* bfe-pblog-tool (cmd/bfe-pblog-tool): one process runs one of its two    *)
(* commands on the log of a running BFE.                                   *)
(***************************************************************************)
EXTENDS PblogTail, PblogCat

VARIABLE cmd    (* the command the tool was started with                   *)

vars == <<bfeVars, tailVars, catVars, cmd>>

Init ==
  /\ LogInit /\ TailInit /\ CatInit
  /\ cmd \in {"tail", "cat"}

Bfe == (Write \/ Rename \/ Create) /\ UNCHANGED <<tailVars, catVars, cmd>>

TailRuns   == cmd = "tail" /\ TailStep /\ UNCHANGED <<bfeVars, catVars, cmd>>
Signal     == cmd = "tail" /\ Interrupt /\ UNCHANGED <<bfeVars, catVars, cmd>>
CatReads   == cmd = "cat" /\ ReaderStep /\ UNCHANGED <<bfeVars, tailVars, cmd>>
CatPrints  == cmd = "cat" /\ PrinterStep /\ UNCHANGED <<bfeVars, tailVars, cmd>>
CatFails   == cmd = "cat" /\ FileReadFails /\ UNCHANGED <<bfeVars, tailVars, cmd>>

Next == Bfe \/ TailRuns \/ Signal \/ CatReads \/ CatPrints \/ CatFails

Spec == Init /\ [][Next]_vars

\* The tool's goroutines run as long as they can; BFE, the user and failing
\* reads owe them nothing.
FairSpec == Spec /\ WF_vars(TailRuns) /\ WF_vars(CatReads) /\ WF_vars(CatPrints)

\* cat ends whenever it is run.
CatReturns == cmd = "cat" => CatEnds

\* tail -f catches up whenever it is run.
TailCatchesUp == cmd = "tail" => FollowCatchesUp

TypeOK ==
  /\ LogTypeOK /\ TailTypeOK
  /\ cmd \in {"tail", "cat"}
  /\ reader \in {"open", "read", "send", "done"}
  /\ printer \in {"receive", "append", "parse", "assign", "done", "crashed"}
  /\ LogFd \in File \cup {NoFile} /\ pos \in 0 .. MaxPiece
  /\ {read, DataBuffer, local} \subseteq Seq(Piece)
  /\ bufChan \in Seq(Seq(Piece)) /\ Len(bufChan) <= ChanCap
  /\ printed \in Seq(Record) /\ failed \in BOOLEAN
=============================================================================
