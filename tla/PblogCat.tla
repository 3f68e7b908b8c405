------------------------------ MODULE PblogCat ------------------------------
(***************************************************************************)
(* bfe-pblog-tool cat (cmd/bfe-pblog-tool/cat/pb_cat.go): one goroutine    *)
(* reads the file to its end into bufChan, another appends what it gets to *)
(* DataBuffer, parses it and prints.  A read that fails calls              *)
(* CloseFileAndInit, which resets DataBuffer from the reading goroutine    *)
(* while the other one uses it, without a lock.                            *)
(***************************************************************************)
EXTENDS PbLog

CONSTANTS
  CatRead,      (* bytes per FileRead (8192), in pieces                    *)
  ChanCap,      (* capacity of bufChan (1024)                              *)
  MaxReadFault  (* 1: one read may fail                      (bound)       *)

ASSUME CatAssumption ==
  CatRead \in Nat \ {0} /\ ChanCap \in Nat \ {0} /\ MaxReadFault \in {0, 1}

VARIABLES
  reader,       (* the goroutine that reads                                *)
  printer,      (* the goroutine that parses                               *)
  LogFd,        (* open file, or NoFile                                    *)
  pos,          (* position in LogFd                                       *)
  read,         (* buf of the reading goroutine                            *)
  bufChan,      (* read and not yet received; closed once reader is "done" *)
  DataBuffer,   (* lr.DataBuffer, shared                                   *)
  local,        (* what the printer has computed from DataBuffer           *)
  printed,      (* records printed                                         *)
  failed        (* a read has failed                                       *)

catVars == <<reader, printer, LogFd, pos, read, bufChan, DataBuffer, local,
             printed, failed>>

CatInit ==
  /\ reader = "open" /\ printer = "receive"
  /\ LogFd = NoFile /\ pos = 0
  /\ read = <<>> /\ bufChan = <<>> /\ DataBuffer = <<>> /\ local = <<>>
  /\ printed = <<>> /\ failed = FALSE

-----------------------------------------------------------------------------
(* The reading goroutine *)

\* LogFileOpen and the seek to the start; without a file cat ends.
CatOpen ==
  /\ reader = "open"
  /\ LogFd' = path
  /\ IF path = NoFile
     THEN reader' = "done" /\ printer' = "done"
     ELSE reader' = "read" /\ UNCHANGED printer
  /\ UNCHANGED <<pos, read, bufChan, DataBuffer, local, printed, failed>>

\* FileRead(8192) returns a copy of what it read, nothing at the end of the
\* file: then bufChan is closed and the goroutine returns.
FileRead ==
  /\ reader = "read"
  /\ LET to == IF pos + CatRead < size[LogFd] THEN pos + CatRead ELSE size[LogFd]
     IN  /\ read' = IF to = pos THEN <<>> ELSE Chunk(LogFd, pos, to)
         /\ pos' = to
         /\ reader' = IF to = pos THEN "done" ELSE "send"
  /\ UNCHANGED <<printer, LogFd, bufChan, DataBuffer, local, printed, failed>>

\* bufChan <- buf
Send ==
  /\ reader = "send" /\ Len(bufChan) < ChanCap
  /\ bufChan' = Append(bufChan, read)
  /\ read' = <<>>
  /\ reader' = "read"
  /\ UNCHANGED <<printer, LogFd, pos, DataBuffer, local, printed, failed>>

\* fRead fails: CloseFileAndInit closes the file and resets DataBuffer.  The
\* reset is three words without synchronisation; a printer that appends to it or
\* parses it may see half of it and crash the process.
FileReadFails ==
  /\ reader = "read" /\ ~failed /\ MaxReadFault = 1
  /\ failed' = TRUE
  /\ LogFd' = NoFile
  /\ DataBuffer' = <<>>
  /\ reader' = "done"
  /\ \/ UNCHANGED printer
     \/ printer \in {"append", "parse"} /\ printer' = "crashed"
  /\ UNCHANGED <<pos, read, bufChan, local, printed>>

-----------------------------------------------------------------------------
(* The printing goroutine *)

\* for buf := range bufChan; append reads DataBuffer ...
Receive ==
  /\ printer = "receive" /\ bufChan # <<>>
  /\ local' = DataBuffer \o Head(bufChan)
  /\ bufChan' = Tail(bufChan)
  /\ printer' = "append"
  /\ UNCHANGED <<reader, LogFd, pos, read, DataBuffer, printed, failed>>

\* ... and writes it,
AppendData ==
  /\ printer = "append"
  /\ DataBuffer' = local
  /\ local' = <<>>
  /\ printer' = "parse"
  /\ UNCHANGED <<reader, LogFd, pos, read, bufChan, printed, failed>>

\* Mutant: the incomplete frame is dropped.
DataBufferCleared(buf) == <<>>
\* What DataBufferParse leaves in DataBuffer.
DataBufferRest(buf) == Remainder(buf)

\* DataBufferParse reads DataBuffer and prepares its rest ...
DataBufferParse ==
  /\ printer = "parse"
  /\ printed' = printed \o FrameSeq(DataBuffer)
  /\ local' = DataBufferRest(DataBuffer)
  /\ printer' = "assign"
  /\ UNCHANGED <<reader, LogFd, pos, read, bufChan, DataBuffer, failed>>

\* ... and assigns it.
DataBufferAssign ==
  /\ printer = "assign"
  /\ DataBuffer' = local
  /\ local' = <<>>
  /\ printer' = "receive"
  /\ UNCHANGED <<reader, LogFd, pos, read, bufChan, printed, failed>>

\* Mutant: the goroutine that reads returns on an error without the close.
ClosedAtEndOnly == reader = "done" /\ ~failed
\* close(bufChan)
Closed == reader = "done"

\* range ends when bufChan is closed and empty.
RangeEnds == Closed /\ bufChan = <<>>

PrinterDone ==
  /\ printer = "receive" /\ RangeEnds
  /\ printer' = "done"
  /\ UNCHANGED <<reader, LogFd, pos, read, bufChan, DataBuffer, local, printed,
                 failed>>

ReaderStep  == CatOpen \/ FileRead \/ Send
PrinterStep == Receive \/ AppendData \/ DataBufferParse \/ DataBufferAssign
                 \/ PrinterDone

-----------------------------------------------------------------------------
(* Properties *)

\* cat prints the records of its file from the first one on, in order and
\* without a gap, and all that were complete at the end of the file it saw,
\* whatever the channel holds; after a failed read, whose reset races with the
\* printer, the order at least is kept and nothing is printed twice.
CatPrefix ==
  IF failed
  THEN \A i, j \in DOMAIN printed : i < j => Earlier(printed[i], printed[j])
  ELSE /\ \A i \in DOMAIN printed : printed[i] = <<LogFd, 2 * i - 1>>
       /\ printer = "done" => Len(printed) = pos \div 2

\* cat ends, with both goroutines returned, or by the crash after a failed
\* read.
CatEnds == <>(reader = "done" /\ printer \in {"done", "crashed"})
=============================================================================
