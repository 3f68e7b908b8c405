--------------------------- MODULE LogReader_proofs ---------------------------
(***************************************************************************)
(* Proofs about LogReader for every number of files, pieces, failures and  *)
(* every read size: type correctness, the shape of the buffer, and that no *)
(* record is handed on twice.                                              *)
(***************************************************************************)
EXTENDS LogReader, SequenceTheorems, TLAPS

(* A chunk of a file is a sequence of pieces of known length and content.   *)
LEMMA ChunkType ==
  ASSUME NEW f \in File, NEW m \in 0 .. MaxPiece, NEW n \in 0 .. MaxPiece, m <= n
  PROVE  /\ Chunk(f, m, n) \in Seq(Piece)
         /\ Len(Chunk(f, m, n)) = n - m
         /\ \A j \in 1 .. (n - m) : Chunk(f, m, n)[j] = <<f, m + j>>
<1>. USE BoundsAssumption, LogAssumption
<1>1. n - m \in Nat
  OBVIOUS
<1>2. \A j \in 1 .. (n - m) : <<f, m + j>> \in Piece
  BY <1>1 DEF Piece
<1>. QED
  BY <1>1, <1>2 DEF Chunk

(* A chunk is a sequence of pieces wherever it begins and ends.              *)
LEMMA ChunkIsSeq ==
  ASSUME NEW f \in File, NEW m \in 0 .. MaxPiece, NEW n \in 0 .. MaxPiece
  PROVE  Chunk(f, m, n) \in Seq(Piece)
<1>. USE BoundsAssumption, LogAssumption
<1>1. CASE m <= n
  BY <1>1, ChunkType
<1>2. CASE ~(m <= n)
  <2>1. Chunk(f, m, n) = <<>>
    BY <1>2 DEF Chunk
  <2>. QED
    BY <2>1
<1>. QED
  BY <1>1, <1>2

(* What PbBuffParse leaves in the buffer is a sequence of pieces again.      *)
LEMMA RemainderType ==
  ASSUME NEW buf \in Seq(Piece)
  PROVE  Remainder(buf) \in Seq(Piece)
BY DEF Remainder

(* The empty run fits anywhere.                                              *)
LEMMA EmptyRun ==
  ASSUME NEW f, NEW to \in Nat
  PROVE  IsRun(<<>>, f, to)
BY DEF IsRun

(* A run extended by the chunk that follows it is a run.                     *)
LEMMA RunExtends ==
  ASSUME NEW f \in File, NEW m \in 0 .. MaxPiece, NEW n \in 0 .. MaxPiece, m <= n,
         NEW buf \in Seq(Piece), IsRun(buf, f, m)
  PROVE  /\ buf \o Chunk(f, m, n) \in Seq(Piece)
         /\ Len(buf \o Chunk(f, m, n)) = Len(buf) + n - m
         /\ IsRun(buf \o Chunk(f, m, n), f, n)
<1>. USE BoundsAssumption, LogAssumption
<1>. DEFINE c == Chunk(f, m, n)
            b == buf \o c
<1>1. c \in Seq(Piece) /\ Len(c) = n - m /\ \A j \in 1 .. (n - m) : c[j] = <<f, m + j>>
  BY ChunkType
<1>. HIDE DEF c
<1>2. /\ b \in Seq(Piece) /\ Len(b) = Len(buf) + n - m
      /\ \A i \in 1 .. Len(b) : b[i] = IF i <= Len(buf) THEN buf[i] ELSE c[i - Len(buf)]
  BY <1>1, ConcatProperties
<1>3. Len(b) <= n
  BY <1>2 DEF IsRun
<1>4. ASSUME NEW i \in 1 .. Len(b)
      PROVE  b[i] = <<f, n - Len(b) + i>>
  <2>1. CASE i <= Len(buf)
    <3>1. b[i] = buf[i]
      BY <1>1, <2>1
    <3>2. buf[i] = <<f, m - Len(buf) + i>>
      BY <2>1 DEF IsRun
    <3>. QED
      BY <1>2, <3>1, <3>2
  <2>2. CASE i > Len(buf)
    <3>1. b[i] = c[i - Len(buf)] /\ i - Len(buf) \in 1 .. (n - m)
      BY <1>1, <1>2, <2>2
    <3>. QED
      BY <1>1, <1>2, <3>1
  <2>. QED
    BY <1>2, <2>1, <2>2
<1>. QED
  BY <1>2, <1>3, <1>4 DEF IsRun, c

(* Parsing a run leaves a run of at most one piece.                          *)
LEMMA RemainderOfRun ==
  ASSUME NEW f \in File, NEW n \in 0 .. MaxPiece,
         NEW buf \in Seq(Piece), IsRun(buf, f, n)
  PROVE  Len(Remainder(buf)) <= 1 /\ IsRun(Remainder(buf), f, n)
BY BoundsAssumption, LogAssumption DEF IsRun, Remainder

(* The records cut from a run lie inside it, tails included.                 *)
LEMMA FramesOfRun ==
  ASSUME NEW f \in File, NEW n \in 0 .. MaxPiece,
         NEW buf \in Seq(Piece), IsRun(buf, f, n),
         NEW r \in Frames(buf)
  PROVE  r[1] = f /\ n - Len(buf) < r[2] /\ r[2] < n
BY BoundsAssumption, LogAssumption DEF IsRun, Frames, FrameStarts

(* What is cut from a buffer of pieces are records.                          *)
LEMMA FramesAreRecords ==
  ASSUME NEW buf \in Seq(Piece)
  PROVE  Frames(buf) \subseteq Record
BY DEF Frames, FrameStarts, Record

-----------------------------------------------------------------------------
(* The inductive invariant *)

(* What the step the reader is at says of its files and buffers.             *)
Flow ==
  /\ LogFd # NoFile => (initDone <=> pc # "seek")
  /\ pc = "open" => LogFd = NoFile
  /\ pc \in {"seek", "read", "cut", "rest"} => LogFd # NoFile
  /\ pc \in {"logRead", "read", "cut", "rest"} => oldFd = NoFile
  /\ pc = "finish" => oldFd # NoFile
  /\ pc \in {"open", "seek"} /\ oldFd = NoFile => DataBuffer = <<>>
  /\ oldFd = NoFile => data = <<>>
  /\ oldFd # NoFile => initDone \/ resets > 0

(* Where the reader is, against where BFE is.                                *)
Places ==
  /\ path \in {NoFile, cur}
  /\ \A f \in File : f > cur => size[f] = 0
  /\ LogFd # NoFile => LogFd <= cur /\ offset <= size[LogFd]
  /\ pc = "rest" => LogFd < cur
  /\ oldFd # NoFile => oldFd < cur /\ Len(DataBuffer) <= 1
  /\ oldFd # NoFile /\ LogFd # NoFile => oldFd < LogFd

(* A record is handed on once, and then lies behind the reader: in the file  *)
(* it reads, in the one it is leaving, and in the one it will open next.     *)
BehindAt(r) ==
  /\ delivered[r] <= 1
  /\ delivered[r] > 0 =>
       /\ r[1] <= cur
       /\ r[2] < size[r[1]]
       /\ LogFd # NoFile => r[1] <= LogFd
       /\ LogFd = r[1] /\ pc # "seek" => r[2] < offset
       /\ LogFd = NoFile /\ initDone => r[1] < cur
       /\ oldFd = r[1] => r[2] < size[oldFd] - Len(data)
       /\ initDone \/ resets > 0

Mode == ~FromBegin \/ resets = 0

IInv == TypeOK /\ Flow /\ Places /\ BufferIsRun /\ (Mode => \A r \in Record : BehindAt(r))

-----------------------------------------------------------------------------
(* Each part of the invariant is preserved *)

(* The types are preserved. *)
LEMMA TypeStep ==
  ASSUME TypeOK, Flow, [Next]_vars
  PROVE  TypeOK'
<1>. USE BoundsAssumption, LogAssumption, ReadAssumption, ModeAssumption
<1>. USE DEF TypeOK, LogTypeOK, history, File, NoFile, Detached
<1>0. pc \in {"seek", "read", "cut", "rest"} => LogFd # NoFile
  BY DEF Flow
<1>1. CASE BfeWrite
  BY <1>1 DEF BfeWrite, Write, readerVars
<1>2. CASE BfeRename
  BY <1>2 DEF BfeRename, Rename, readerVars
<1>3. CASE BfeCreate
  <2>1. cur' \in File /\ path' \in File
    BY <1>3 DEF BfeCreate, Create
  <2>. QED
    BY <1>3, <2>1 DEF BfeCreate, Create, readerVars
<1>4. CASE StatPath
  <2>1. CASE path = NoFile
    BY <1>4, <2>1 DEF StatPath, bfeVars, readerVars
  <2>2. CASE path # NoFile
    BY <1>4, <2>2 DEF StatPath, bfeVars
  <2>. QED
    BY <2>1, <2>2
<1>5. CASE Open
  BY <1>5, SMTT(20) DEF Open, bfeVars, AfterRelocate, MustSeek
<1>6. CASE OpenFails
  BY <1>6 DEF OpenFails, Fault, bfeVars, AfterRelocate
<1>7. CASE Seek
  <2>1. LogFd \in File /\ size[LogFd] \in 0 .. MaxPiece
    BY <1>0, <1>7 DEF Seek, SeekTarget
  <2>2. offset' \in 0 .. MaxPiece
    BY <1>7, <2>1 DEF Seek, SeekTarget
  <2>3. attach' \in [File -> (0 .. MaxPiece) \cup {Detached}]
    BY <1>7, <2>1, <2>2 DEF Seek, SeekTarget
  <2>. QED
    BY <1>7, <2>2, <2>3 DEF Seek, bfeVars, AfterRelocate, SeekTarget
<1>8. CASE SeekFails
  BY <1>8 DEF SeekFails, Fault, bfeVars, AfterRelocate
<1>9. CASE StartRead
  BY <1>9 DEF StartRead, bfeVars
<1>10. CASE Read
  <2>. DEFINE left == size[LogFd] - offset
              n    == IF left < MaxRead THEN left ELSE MaxRead
              buf  == DataBuffer \o Chunk(LogFd, offset, offset + n)
  <2>1. LogFd \in File /\ size[LogFd] \in 0 .. MaxPiece
    BY <1>0, <1>10 DEF Read
  <2>2. n \in Nat /\ offset + n \in 0 .. MaxPiece
    BY <1>10, <2>1 DEF Read
  <2>3. Chunk(LogFd, offset, offset + n) \in Seq(Piece)
    BY <2>1, <2>2, ChunkIsSeq
  <2>. HIDE DEF n
  <2>4. buf \in Seq(Piece)
    BY <2>3, ConcatProperties
  <2>5. Remainder(buf) \in Seq(Piece)
    BY <2>4, RemainderType
  <2>6. delivered' \in [Record -> Nat] /\ pass' = pass \cup (Frames(buf) \ Undecodable)
    BY <1>10 DEF Read, Return, n
  <2>8. pass' \subseteq Record
    BY <2>4, <2>6, FramesAreRecords
  <2>7. offset' = offset + n /\ DataBuffer' = Remainder(buf) /\ pc' = "logRead"
    BY <1>10 DEF Read, n
  <2>. QED
    BY <1>10, <2>2, <2>5, <2>6, <2>7, <2>8 DEF Read, bfeVars
<1>11. CASE ReadEOF
  BY <1>11 DEF ReadEOF, bfeVars
<1>12. CASE ReadFails
  <2>1. faults' \in 0 .. MaxFault /\ resets' \in 0 .. faults'
    BY <1>12 DEF ReadFails, Fault, CloseFileAndInit
  <2>2. attach' \in [File -> (0 .. MaxPiece) \cup {Detached}]
    BY <1>12 DEF ReadFails, CloseFileAndInit
  <2>3. (/\ cur \in File
         /\ path \in File \cup {NoFile}
         /\ size \in [File -> 0 .. MaxPiece]
         /\ delivered \in [Record -> Nat]
         /\ pass \subseteq Record)'
    BY <1>12 DEF ReadFails, CloseFileAndInit, NewPass, bfeVars
  <2>4. DataBuffer' \in Seq(Piece) /\ data' \in Seq(Piece)
    BY <1>12, EmptySeq DEF ReadFails, CloseFileAndInit
  <2>5. (/\ pc \in {"logRead", "open", "seek", "read", "cut", "rest", "finish"}
         /\ LogFd \in File \cup {NoFile}
         /\ offset \in 0 .. MaxPiece
         /\ oldFd \in File \cup {NoFile})'
    BY <1>12 DEF ReadFails, CloseFileAndInit, bfeVars
  <2>6. initDone' \in BOOLEAN
    BY <1>12 DEF ReadFails, CloseFileAndInit
  <2>. QED
    BY <2>1, <2>2, <2>3, <2>4, <2>5, <2>6, Zenon
<1>13. CASE IsLogCut
  BY <1>13 DEF IsLogCut, bfeVars
<1>14. CASE ReadRest
  <2>1. LogFd \in File /\ size[LogFd] \in 0 .. MaxPiece
    BY <1>0, <1>14 DEF ReadRest, Rest
  <2>2. data' \in Seq(Piece)
    BY <1>14, <2>1, ChunkIsSeq DEF ReadRest, Rest
  <2>. QED
    BY <1>14, <2>2 DEF ReadRest, bfeVars, Rest
<1>15. CASE ReadRestFails
  <2>1. faults' \in 0 .. MaxFault /\ resets' \in 0 .. faults'
    BY <1>15 DEF ReadRestFails, Fault, CloseFileAndInit
  <2>2. attach' \in [File -> (0 .. MaxPiece) \cup {Detached}]
    BY <1>15 DEF ReadRestFails, CloseFileAndInit
  <2>3. (/\ cur \in File
         /\ path \in File \cup {NoFile}
         /\ size \in [File -> 0 .. MaxPiece]
         /\ delivered \in [Record -> Nat]
         /\ pass \subseteq Record)'
    BY <1>15 DEF ReadRestFails, CloseFileAndInit, NewPass, bfeVars
  <2>4. DataBuffer' \in Seq(Piece) /\ data' \in Seq(Piece)
    BY <1>15, EmptySeq DEF ReadRestFails, CloseFileAndInit
  <2>5. (/\ pc \in {"logRead", "open", "seek", "read", "cut", "rest", "finish"}
         /\ LogFd \in File \cup {NoFile}
         /\ offset \in 0 .. MaxPiece
         /\ oldFd \in File \cup {NoFile})'
    BY <1>15 DEF ReadRestFails, CloseFileAndInit, bfeVars
  <2>6. initDone' \in BOOLEAN
    BY <1>15 DEF ReadRestFails, CloseFileAndInit
  <2>. QED
    BY <2>1, <2>2, <2>3, <2>4, <2>5, <2>6, Zenon
<1>16. CASE Finish
  <2>. DEFINE buf == DataBuffer \o data
  <2>1. delivered' \in [Record -> Nat]
    <3>1. CASE delivered' = delivered
      BY <3>1
    <3>2. CASE Return(buf)
      BY <3>2 DEF Return
    <3>. QED
      BY <1>16, <3>1, <3>2 DEF Finish
  <2>2. pass' = pass \/ pass' = pass \cup (Frames(buf) \ Undecodable)
    BY <1>16 DEF Finish, Return
  <2>3. buf \in Seq(Piece)
    BY ConcatProperties
  <2>. HIDE DEF buf
  <2>4. pass' \subseteq Record
    BY <2>2, <2>3, FramesAreRecords
  <2>. QED
    BY <1>16, <2>1, <2>4 DEF Finish, bfeVars
<1>17. CASE UNCHANGED vars
  BY <1>17 DEF vars, bfeVars, readerVars
<1>. QED
  BY <1>1, <1>2, <1>3, <1>4, <1>5, <1>6, <1>7, <1>8, <1>9, <1>10, <1>11, <1>12, <1>13, <1>14, <1>15, <1>16, <1>17 DEF Next, Bfe, Step, Failure

(* The step decides which files are open. *)
LEMMA FlowStep ==
  ASSUME TypeOK, Flow, [Next]_vars
  PROVE  Flow'
<1>. USE DEF Flow, history
<1>1. CASE BfeWrite
  BY <1>1 DEF BfeWrite, Write, readerVars
<1>2. CASE BfeRename
  BY <1>2 DEF BfeRename, Rename, readerVars
<1>3. CASE BfeCreate
  BY <1>3 DEF BfeCreate, Create, readerVars
<1>4. CASE StatPath
  BY <1>4 DEF StatPath, bfeVars, readerVars
<1>5. CASE Open
  BY <1>5 DEF Open, bfeVars, AfterRelocate, MustSeek
<1>6. CASE OpenFails
  BY <1>6 DEF OpenFails, Fault, bfeVars, AfterRelocate
<1>7. CASE Seek
  BY <1>7 DEF Seek, bfeVars, AfterRelocate, SeekTarget
<1>8. CASE SeekFails
  BY <1>8 DEF SeekFails, Fault, bfeVars, AfterRelocate
<1>9. CASE StartRead
  BY <1>9 DEF StartRead, bfeVars
<1>10. CASE Read
  BY <1>10 DEF Read, Return, bfeVars
<1>11. CASE ReadEOF
  BY <1>11 DEF ReadEOF, bfeVars
<1>12. CASE ReadFails
  BY <1>12 DEF ReadFails, Fault, CloseFileAndInit, bfeVars
<1>13. CASE IsLogCut
  BY <1>13 DEF IsLogCut, bfeVars
<1>14. CASE ReadRest
  BY <1>14 DEF ReadRest, bfeVars, Rest
<1>15. CASE ReadRestFails
  <2>1. LogFd' = NoFile /\ initDone' = FALSE /\ data' = <<>> /\ pc' = "open" /\ oldFd' = LogFd
    BY <1>15 DEF ReadRestFails, CloseFileAndInit
  <2>2. DataBuffer' = <<>> /\ resets' > 0
    BY <1>15 DEF ReadRestFails, CloseFileAndInit, TypeOK, LogTypeOK
  <2>. QED
    BY <2>1, <2>2
<1>16. CASE Finish
  BY <1>16 DEF Finish, Return, bfeVars
<1>17. CASE UNCHANGED vars
  BY <1>17 DEF vars, bfeVars, readerVars
<1>. QED
  BY <1>1, <1>2, <1>3, <1>4, <1>5, <1>6, <1>7, <1>8, <1>9, <1>10, <1>11, <1>12, <1>13, <1>14, <1>15, <1>16, <1>17 DEF Next, Bfe, Step, Failure

(* The reader never gets ahead of BFE. *)
LEMMA PlacesStep ==
  ASSUME TypeOK, Flow, Places, BufferIsRun, [Next]_vars
  PROVE  Places'
<1>. USE DEF Places, history, NoFile
<1>0. /\ cur \in File /\ LogFd \in File \cup {NoFile} /\ oldFd \in File \cup {NoFile}
      /\ offset \in Nat /\ size \in [File -> Nat]
      /\ \A f \in File : f \in Nat \ {0}
  BY BoundsAssumption, LogAssumption DEF TypeOK, LogTypeOK, File
<1>1. CASE BfeWrite
  <2>1. ASSUME NEW f \in File
        PROVE  /\ size[f] \in Int
               /\ size'[f] = IF f = cur THEN size[f] + 1 ELSE size[f]
    BY <1>0, <1>1 DEF BfeWrite, Write
  <2>2. UNCHANGED <<cur, path, readerVars>>
    BY <1>1 DEF BfeWrite, Write
  <2>3. (\A f \in File : f > cur => size[f] = 0)'
    BY <1>0, <2>1, <2>2
  <2>4. (LogFd # NoFile => LogFd <= cur /\ offset <= size[LogFd])'
    BY <1>0, <2>1, <2>2 DEF readerVars
  <2>. QED
    BY <2>2, <2>3, <2>4 DEF readerVars
<1>2. CASE BfeRename
  BY <1>0, <1>2 DEF BfeRename, Rename, readerVars
<1>3. CASE BfeCreate
  BY <1>0, <1>3 DEF BfeCreate, Create, readerVars
<1>4. CASE StatPath
  BY <1>0, <1>4 DEF StatPath, bfeVars, readerVars
<1>5. CASE Open
  <2>1. LogFd' = cur /\ offset' = 0 /\ 0 <= size[cur]
    BY <1>0, <1>5 DEF Open, MustSeek
  <2>2. UNCHANGED <<cur, path, size, oldFd, DataBuffer>>
    BY <1>5 DEF Open, bfeVars, MustSeek
  <2>3. pc' # "rest"
    BY <1>5 DEF Open, AfterRelocate, MustSeek
  <2>. QED
    BY <1>0, <2>1, <2>2, <2>3
<1>6. CASE OpenFails
  BY <1>0, <1>6 DEF OpenFails, Fault, bfeVars, AfterRelocate
<1>7. CASE Seek
  <2>1. LogFd # NoFile /\ offset' <= size[LogFd]
    BY <1>0, <1>7 DEF Seek, Flow, SeekTarget
  <2>2. UNCHANGED <<cur, path, size, LogFd, oldFd, DataBuffer>>
    BY <1>7 DEF Seek, bfeVars, SeekTarget
  <2>3. pc' # "rest"
    BY <1>7 DEF Seek, AfterRelocate, SeekTarget
  <2>. QED
    BY <2>1, <2>2, <2>3
<1>8. CASE SeekFails
  BY <1>0, <1>8 DEF SeekFails, Fault, bfeVars, AfterRelocate
<1>9. CASE StartRead
  BY <1>0, <1>9 DEF StartRead, bfeVars
<1>10. CASE Read
  <2>1. LogFd # NoFile /\ offset' <= size[LogFd] /\ pc' # "rest"
    BY <1>0, <1>10, ReadAssumption DEF Read, Flow
  <2>2. UNCHANGED <<cur, path, size, LogFd, oldFd>> /\ oldFd = NoFile
    BY <1>10 DEF Read, Flow, bfeVars
  <2>. QED
    BY <2>1, <2>2
<1>11. CASE ReadEOF
  BY <1>0, <1>11 DEF ReadEOF, bfeVars
<1>12. CASE ReadFails
  BY <1>0, <1>12 DEF ReadFails, Fault, CloseFileAndInit, bfeVars
<1>13. CASE IsLogCut
  BY <1>0, <1>13 DEF IsLogCut, bfeVars
<1>14. CASE ReadRest
  <2>1. Len(DataBuffer) <= 1
    BY <1>14 DEF Flow, ReadRest, BufferIsRun, Rest
  <2>. QED
    BY <1>0, <1>14, <2>1 DEF ReadRest, bfeVars, Rest
<1>15. CASE ReadRestFails
  BY <1>0, <1>15 DEF ReadRestFails, Fault, CloseFileAndInit, bfeVars
<1>16. CASE Finish
  BY <1>0, <1>16 DEF Finish, Return, bfeVars
<1>17. CASE UNCHANGED vars
  BY <1>0, <1>17 DEF vars, bfeVars, readerVars
<1>. QED
  BY <1>1, <1>2, <1>3, <1>4, <1>5, <1>6, <1>7, <1>8, <1>9, <1>10, <1>11, <1>12, <1>13, <1>14, <1>15, <1>16, <1>17 DEF Next, Bfe, Step, Failure

(* Reading, relocating and failing keep the buffer a run of one file. *)
LEMMA BufferStep ==
  ASSUME TypeOK, Flow, Places, BufferIsRun, [Next]_vars
  PROVE  BufferIsRun'
<1>. USE DEF BufferIsRun, history, NoFile
<1>0. /\ cur \in File /\ LogFd \in File \cup {NoFile} /\ oldFd \in File \cup {NoFile}
      /\ offset \in 0 .. MaxPiece /\ offset \in Nat
      /\ size \in [File -> 0 .. MaxPiece]
      /\ DataBuffer \in Seq(Piece) /\ data \in Seq(Piece)
      /\ \A f \in File : f \in Nat \ {0} /\ size[f] \in 0 .. MaxPiece /\ size[f] \in Nat
  BY BoundsAssumption, LogAssumption DEF TypeOK, LogTypeOK, File
<1>1. CASE BfeWrite
  <2>1. UNCHANGED readerVars
    BY <1>1 DEF BfeWrite, Write
  <2>2. oldFd # NoFile => size'[oldFd] = size[oldFd]
    BY <1>0, <1>1 DEF BfeWrite, Write, Places
  <2>. QED
    BY <2>1, <2>2 DEF readerVars
<1>2. CASE BfeRename
  <2>1. UNCHANGED <<size, readerVars>>
    BY <1>2 DEF BfeRename, Rename
  <2>. QED
    BY <2>1 DEF readerVars
<1>3. CASE BfeCreate
  <2>1. UNCHANGED <<size, readerVars>>
    BY <1>3 DEF BfeCreate, Create
  <2>. QED
    BY <2>1 DEF readerVars
<1>4. CASE StatPath
  <2>1. LogFd' = NoFile /\ oldFd' = NoFile
    BY <1>4 DEF StatPath, Flow, readerVars
  <2>. QED
    BY <2>1
<1>5. CASE Open
  <2>1. UNCHANGED <<size, DataBuffer, oldFd, data>> /\ offset' = 0
    BY <1>5 DEF Open, bfeVars, MustSeek
  <2>2. oldFd = NoFile => DataBuffer = <<>>
    BY <1>5 DEF Open, Flow, MustSeek
  <2>. QED
    BY <2>1, <2>2, EmptyRun
<1>6. CASE OpenFails
  <2>1. UNCHANGED <<size, DataBuffer, oldFd, data>> /\ LogFd' = NoFile
    BY <1>6 DEF OpenFails, Flow, bfeVars
  <2>. QED
    BY <2>1
<1>7. CASE Seek
  <2>1. UNCHANGED <<size, DataBuffer, oldFd, data>> /\ offset' \in Nat
    BY <1>0, <1>7 DEF Seek, Flow, bfeVars, SeekTarget
  <2>2. oldFd = NoFile => DataBuffer = <<>>
    BY <1>7 DEF Seek, Flow, SeekTarget
  <2>. QED
    BY <2>1, <2>2, EmptyRun
<1>8. CASE SeekFails
  <2>1. UNCHANGED <<size, DataBuffer, oldFd, data>> /\ LogFd' = NoFile
    BY <1>8 DEF SeekFails, bfeVars
  <2>. QED
    BY <2>1
<1>9. CASE StartRead
  <2>1. UNCHANGED <<LogFd, offset, DataBuffer, oldFd, data, size>> /\ pc # "seek" /\ pc' # "seek"
    BY <1>9 DEF StartRead, bfeVars
  <2>. QED
    BY <2>1
<1>10. CASE Read
  <2>. DEFINE left == size[LogFd] - offset
              n    == IF left < MaxRead THEN left ELSE MaxRead
              buf  == DataBuffer \o Chunk(LogFd, offset, offset + n)
  <2>1. /\ LogFd \in File /\ oldFd = NoFile
        /\ IsRun(DataBuffer, LogFd, offset)
    BY <1>0, <1>10 DEF Read, Flow
  <2>2. n \in Nat /\ offset + n \in 0 .. MaxPiece
    BY <1>0, <1>10, <2>1, BoundsAssumption, LogAssumption, ReadAssumption DEF Read
  <2>3. oldFd' = NoFile /\ LogFd' = LogFd /\ offset' = offset + n /\ DataBuffer' = Remainder(buf)
    BY <1>10, <2>1 DEF Read
  <2>. HIDE DEF n
  <2>4. buf \in Seq(Piece) /\ IsRun(buf, LogFd, offset + n)
    BY <1>0, <2>1, <2>2, RunExtends
  <2>5. Len(Remainder(buf)) <= 1 /\ IsRun(Remainder(buf), LogFd, offset + n)
    BY <2>1, <2>2, <2>4, RemainderOfRun
  <2>. QED
    BY <2>3, <2>5
<1>11. CASE ReadEOF
  <2>1. UNCHANGED <<LogFd, offset, DataBuffer, oldFd, data, size>> /\ pc # "seek" /\ pc' # "seek"
    BY <1>11 DEF ReadEOF, bfeVars
  <2>. QED
    BY <2>1
<1>12. CASE ReadFails
  <2>1. LogFd' = NoFile /\ oldFd' = NoFile
    BY <1>12 DEF ReadFails, CloseFileAndInit, Flow
  <2>. QED
    BY <2>1
<1>13. CASE IsLogCut
  <2>1. UNCHANGED <<LogFd, offset, DataBuffer, oldFd, data, size>> /\ pc # "seek" /\ pc' # "seek"
    BY <1>13 DEF IsLogCut, bfeVars
  <2>. QED
    BY <2>1
<1>14. CASE ReadRest
  <2>1. LogFd \in File /\ offset <= size[LogFd] /\ IsRun(DataBuffer, LogFd, offset)
    BY <1>0, <1>14 DEF ReadRest, Flow, Places, Rest
  <2>2. IsRun(DataBuffer \o Chunk(LogFd, offset, size[LogFd]), LogFd, size[LogFd])
    BY <1>0, <2>1, RunExtends
  <2>. QED
    BY <1>14, <2>1, <2>2 DEF ReadRest, bfeVars, Rest
<1>15. CASE ReadRestFails
  <2>1. /\ LogFd \in File /\ oldFd' = LogFd /\ size' = size
        /\ DataBuffer' = <<>> /\ data' = <<>>
    BY <1>0, <1>15 DEF ReadRestFails, CloseFileAndInit, Flow, bfeVars
  <2>2. <<>> \o <<>> = <<>>
    OBVIOUS
  <2>3. IsRun(<<>>, LogFd, size[LogFd])
    BY <1>0, <2>1, EmptyRun
  <2>. QED
    BY <2>1, <2>2, <2>3, <1>0
<1>16. CASE Finish
  <2>1. oldFd' = NoFile /\ DataBuffer' = <<>> /\ offset' \in Nat
    BY <1>0, <1>16 DEF Finish
  <2>. QED
    BY <2>1, EmptyRun
<1>17. CASE UNCHANGED vars
  <2>1. UNCHANGED <<size, readerVars>>
    BY <1>17 DEF vars, bfeVars
  <2>. QED
    BY <2>1 DEF readerVars
<1>. QED
  BY <1>1, <1>2, <1>3, <1>4, <1>5, <1>6, <1>7, <1>8, <1>9, <1>10, <1>11, <1>12, <1>13, <1>14, <1>15, <1>16, <1>17 DEF Next, Bfe, Step, Failure

(* A record once handed on stays behind the reader, and is not handed on again. *)
LEMMA BehindStep ==
  ASSUME TypeOK, Flow, Places, BufferIsRun, Mode', NEW r \in Record, BehindAt(r), [Next]_vars
  PROVE  BehindAt(r)'
<1>. USE DEF BehindAt, history, NoFile
<1>0. /\ cur \in File /\ LogFd \in File \cup {NoFile} /\ oldFd \in File \cup {NoFile}
      /\ offset \in 0 .. MaxPiece /\ offset \in Nat /\ initDone \in BOOLEAN
      /\ size \in [File -> 0 .. MaxPiece]
      /\ DataBuffer \in Seq(Piece) /\ data \in Seq(Piece)
      /\ \A f \in File : f \in Nat \ {0} /\ size[f] \in 0 .. MaxPiece /\ size[f] \in Nat
      /\ delivered[r] \in Nat /\ resets \in Nat
      /\ r[1] \in File /\ r[2] \in Nat
      /\ FromBegin \in BOOLEAN /\ (~FromBegin \/ resets' = 0)
  BY BoundsAssumption, LogAssumption, ModeAssumption DEF TypeOK, LogTypeOK, File, Record, Piece, Mode
<1>1. CASE BfeWrite
  <2>1. UNCHANGED <<cur, delivered, resets, pc, LogFd, offset, initDone, oldFd, data>>
    BY <1>1 DEF BfeWrite, Write, readerVars
  <2>2. /\ size'[r[1]] \in Nat /\ size[r[1]] <= size'[r[1]]
        /\ oldFd # NoFile => size'[oldFd] = size[oldFd]
    BY <1>0, <1>1, SMTT(20) DEF BfeWrite, Write, Places
  <2>. QED
    BY <1>0, <2>1, <2>2
<1>2. CASE BfeRename
  <2>1. UNCHANGED <<cur, size, delivered, resets, readerVars>>
    BY <1>2 DEF BfeRename, Rename
  <2>. QED
    BY <2>1 DEF readerVars
<1>3. CASE BfeCreate
  <2>1. UNCHANGED <<size, delivered, resets, readerVars>> /\ cur' = cur + 1
    BY <1>3 DEF BfeCreate, Create
  <2>. QED
    BY <1>0, <2>1 DEF readerVars
<1>4. CASE StatPath
  <2>1. UNCHANGED <<cur, size, delivered, resets, LogFd, offset, initDone, oldFd, data>>
        /\ LogFd = NoFile
    BY <1>4 DEF StatPath, readerVars, bfeVars
  <2>. QED
    BY <1>0, <2>1
<1>5. CASE Open
  <2>1. UNCHANGED <<cur, size, delivered, resets, initDone, oldFd, data>>
        /\ LogFd = NoFile /\ LogFd' = cur
    BY <1>0, <1>5 DEF Open, Flow, Places, bfeVars, MustSeek
  <2>2. ~initDone => pc' = "seek"
    BY <1>5 DEF Open, MustSeek
  <2>3. delivered[r] > 0 => r[1] <= cur /\ (r[1] = cur => pc' = "seek")
    <3>1. r[1] \in Nat /\ cur \in Nat
      BY <1>0
    <3>2. delivered[r] > 0 => r[1] <= cur /\ (initDone => r[1] < cur)
      BY <2>1
    <3>. QED
      BY <2>2, <3>1, <3>2
  <2>4. /\ delivered'[r] = delivered[r] /\ size'[r[1]] = size[r[1]] /\ cur' = cur
        /\ LogFd' = cur /\ LogFd' # NoFile
    BY <1>0, <2>1
  <2>. QED
    BY <1>0, <2>1, <2>3, <2>4, SMTT(20)
<1>6. CASE OpenFails
  <2>1. UNCHANGED <<cur, size, delivered, resets, LogFd, initDone, oldFd, data>>
        /\ LogFd = NoFile
    BY <1>6 DEF OpenFails, Flow, bfeVars
  <2>. QED
    BY <1>0, <2>1
<1>7. CASE Seek
  <2>1. UNCHANGED <<cur, size, delivered, resets, LogFd, oldFd, data>>
        /\ LogFd # NoFile /\ ~initDone /\ initDone' = TRUE
    BY <1>7 DEF Seek, Flow, bfeVars, SeekTarget
  <2>2. FromBegin => resets = 0
    BY <1>0, <2>1
  <2>3. ~FromBegin => offset' = size[LogFd]
    BY <1>7 DEF Seek, SeekTarget
  <2>. QED
    BY <1>0, <2>1, <2>2, <2>3, SMTT(20)
<1>8. CASE SeekFails
  <2>1. UNCHANGED <<cur, size, delivered, resets, initDone, oldFd, data>>
        /\ LogFd' = NoFile /\ ~initDone
    BY <1>8 DEF SeekFails, Flow, bfeVars
  <2>. QED
    BY <1>0, <2>1
<1>9. CASE StartRead
  <2>1. UNCHANGED <<cur, size, delivered, resets, LogFd, offset, initDone, oldFd, data>>
        /\ pc # "seek"
    BY <1>9 DEF StartRead, bfeVars
  <2>. QED
    BY <1>0, <2>1
<1>10. CASE Read
  <2>. DEFINE left == size[LogFd] - offset
              to   == offset + (IF left < MaxRead THEN left ELSE MaxRead)
              buf  == DataBuffer \o Chunk(LogFd, offset, to)
  <2>1. /\ LogFd \in File /\ oldFd = NoFile /\ pc # "seek"
        /\ IsRun(DataBuffer, LogFd, offset) /\ Len(DataBuffer) <= 1
    BY <1>0, <1>10 DEF Read, Flow, BufferIsRun
  <2>2. to \in 0 .. MaxPiece /\ to \in Nat /\ offset <= to /\ to <= size[LogFd]
    BY <1>0, <1>10, <2>1, BoundsAssumption, LogAssumption, ReadAssumption, SMTT(20) DEF Read
  <2>3. UNCHANGED <<cur, size, LogFd, initDone, oldFd, data, resets>> /\ offset' = to
    BY <1>10 DEF Read, bfeVars
  <2>4. delivered'[r] = IF r \in Frames(buf) \ Undecodable THEN delivered[r] + 1 ELSE delivered[r]
    BY <1>10 DEF Read, Return
  <2>. HIDE DEF to
  <2>5. /\ buf \in Seq(Piece) /\ IsRun(buf, LogFd, to)
        /\ Len(buf) = Len(DataBuffer) + to - offset
    BY <1>0, <2>1, <2>2, RunExtends
  <2>. HIDE DEF buf
  <2>6. CASE r \in Frames(buf) \ Undecodable
    <3>1. r[1] = LogFd /\ to - Len(buf) < r[2] /\ r[2] < to
      <4>1. r \in Frames(buf) /\ to \in 0 .. MaxPiece /\ LogFd \in File
        BY <2>1, <2>2, <2>6
      <4>. QED
        BY <2>5, <4>1, FramesOfRun
    <3>2. Len(DataBuffer) \in Nat /\ offset <= r[2]
      BY <1>0, <2>1, <2>2, <2>5, <3>1, SMTT(20)
    <3>3. delivered[r] = 0
      BY <1>0, <2>1, <3>1, <3>2
    <3>4. LogFd # NoFile /\ LogFd <= cur /\ initDone
      BY <1>0, <2>1 DEF Places, Flow
    <3>. QED
      BY <1>0, <2>1, <2>2, <2>3, <2>4, <2>6, <3>1, <3>3, <3>4
  <2>7. CASE r \notin Frames(buf) \ Undecodable
    BY <1>0, <2>1, <2>2, <2>3, <2>4, <2>7
  <2>. QED
    BY <2>6, <2>7
<1>11. CASE ReadEOF
  <2>1. UNCHANGED <<cur, size, delivered, resets, LogFd, offset, initDone, oldFd, data>>
        /\ pc # "seek"
    BY <1>11 DEF ReadEOF, bfeVars
  <2>. QED
    BY <1>0, <2>1
<1>12. CASE ReadFails
  <2>1. UNCHANGED <<cur, size, delivered, oldFd, data>> /\ oldFd = NoFile
        /\ LogFd' = NoFile /\ initDone' = FALSE /\ resets' = resets + 1
    BY <1>12 DEF ReadFails, CloseFileAndInit, Flow, bfeVars
  <2>. QED
    BY <1>0, <2>1
<1>13. CASE IsLogCut
  <2>1. UNCHANGED <<cur, size, delivered, resets, LogFd, offset, initDone, oldFd, data>>
        /\ pc # "seek"
    BY <1>13 DEF IsLogCut, bfeVars
  <2>. QED
    BY <1>0, <2>1
<1>14. CASE ReadRest
  <2>1. /\ UNCHANGED <<cur, size, delivered, initDone, resets>>
        /\ LogFd \in File /\ LogFd < cur /\ offset <= size[LogFd]
        /\ LogFd' = NoFile /\ oldFd' = LogFd
        /\ data' = Chunk(LogFd, offset, size[LogFd])
    BY <1>0, <1>14 DEF ReadRest, Flow, Places, bfeVars, Rest
  <2>2. Len(data') = size[LogFd] - offset
    BY <1>0, <2>1, ChunkType
  <2>. QED
    BY <1>0, <1>14, <2>1, <2>2 DEF ReadRest, Rest
<1>15. CASE ReadRestFails
  <2>1. UNCHANGED <<cur, size, delivered>> /\ data' = <<>>
        /\ LogFd' = NoFile /\ initDone' = FALSE /\ resets' = resets + 1
    BY <1>15 DEF ReadRestFails, CloseFileAndInit, bfeVars
  <2>2. Len(data') = 0
    BY <2>1
  <2>3. oldFd' = r[1] => size'[oldFd'] = size[r[1]]
    BY <2>1
  <2>. QED
    BY <1>0, <2>1, <2>2, <2>3
<1>16. CASE Finish
  <2>. DEFINE buf == DataBuffer \o data
  <2>1. /\ oldFd \in File /\ oldFd < cur /\ Len(DataBuffer) <= 1
        /\ LogFd # NoFile => oldFd < LogFd
        /\ buf \in Seq(Piece) /\ IsRun(buf, oldFd, size[oldFd])
        /\ Len(buf) = Len(DataBuffer) + Len(data)
    BY <1>0, <1>16, ConcatProperties DEF Finish, Flow, Places, BufferIsRun
  <2>2. /\ UNCHANGED <<cur, size, LogFd, offset, initDone, resets>>
        /\ oldFd' = NoFile /\ pc # "seek"
    BY <1>16 DEF Finish, bfeVars
  <2>3. \/ delivered'[r] = delivered[r]
        \/ r \in Frames(buf) /\ delivered'[r] = delivered[r] + 1
    BY <1>16 DEF Finish, Return
  <2>. HIDE DEF buf
  <2>4. CASE r \in Frames(buf) /\ delivered'[r] = delivered[r] + 1
    <3>1. r[1] = oldFd /\ size[oldFd] - Len(buf) < r[2] /\ r[2] < size[oldFd]
      BY <1>0, <2>1, <2>4, FramesOfRun
    <3>2. size[oldFd] - Len(data) <= r[2]
      BY <1>0, <2>1, <3>1
    <3>3. delivered[r] = 0
      BY <1>0, <3>1, <3>2
    <3>4. LogFd # r[1] /\ oldFd' # r[1] /\ (LogFd # NoFile => r[1] <= LogFd)
      BY <1>0, <2>1, <2>2, <3>1
    <3>5. initDone \/ resets > 0
      BY <1>16 DEF Finish, Flow
    <3>. QED
      BY <1>0, <2>1, <2>2, <2>4, <3>1, <3>3, <3>4, <3>5
  <2>5. CASE delivered'[r] = delivered[r]
    BY <1>0, <2>1, <2>2, <2>5
  <2>. QED
    BY <2>3, <2>4, <2>5
<1>17. CASE UNCHANGED vars
  <2>1. UNCHANGED <<cur, size, delivered, resets, readerVars>>
    BY <1>17 DEF vars, bfeVars
  <2>. QED
    BY <2>1 DEF readerVars
<1>. QED
  BY <1>1, <1>2, <1>3, <1>4, <1>5, <1>6, <1>7, <1>8, <1>9, <1>10, <1>11, <1>12, <1>13, <1>14, <1>15, <1>16, <1>17 DEF Next, Bfe, Step, Failure

(* Failures are only ever counted up. *)
LEMMA ResetsGrow ==
  ASSUME TypeOK, [Next]_vars
  PROVE  resets \in Nat /\ (resets' = 0 => resets = 0)
<1>. SUFFICES resets' = resets \/ resets' = resets + 1
  BY BoundsAssumption, LogAssumption DEF TypeOK, LogTypeOK
<1>. QED
  BY DEF Next, Bfe, Step, Failure, BfeWrite, Write, BfeRename, Rename, BfeCreate, Create, StatPath, Open,
     OpenFails, Seek, SeekFails, StartRead, Read, ReadEOF, ReadFails, IsLogCut,
     ReadRest, ReadRestFails, Finish, CloseFileAndInit, history, vars

-----------------------------------------------------------------------------
(* The theorems *)

(* The invariant holds in every reachable state of every instance: the       *)
(* reader against BFE, whatever BFE and the failing calls do in between.     *)
THEOREM Invariant == Spec => []IInv
<1>1. Init => IInv
  <2>. SUFFICES ASSUME Init PROVE IInv
    OBVIOUS
  <2>. USE BoundsAssumption, LogAssumption DEF Init, LogInit
  <2>1. cur \in File /\ path = cur /\ size \in [File -> 0 .. MaxPiece] /\ faults \in 0 .. MaxFault
    BY DEF File
  <2>2. TypeOK
    <3>1. DataBuffer \in Seq(Piece) /\ data \in Seq(Piece)
      BY EmptySeq
    <3>2. delivered \in [Record -> Nat]
      OBVIOUS
    <3>3. attach \in [File -> (0 .. MaxPiece) \cup {Detached}]
      OBVIOUS
    <3>4. LogFd = NoFile /\ oldFd = NoFile /\ offset \in 0 .. MaxPiece
      OBVIOUS
    <3>5. initDone \in BOOLEAN
      OBVIOUS
    <3>6. resets \in 0 .. faults
      OBVIOUS
    <3>. QED
      BY <2>1, <3>1, <3>2, <3>3, <3>4, <3>5, <3>6 DEF TypeOK, LogTypeOK
  <2>3. Flow
    BY DEF Flow
  <2>4. Places
    <3>1. \A f \in File : f > cur => size[f] = 0
      BY DEF File
    <3>. QED
      BY <3>1 DEF Places
  <2>5. BufferIsRun
    BY DEF BufferIsRun
  <2>6. ASSUME NEW r \in Record PROVE BehindAt(r)
    BY DEF BehindAt
  <2>. QED
    BY <2>2, <2>3, <2>4, <2>5, <2>6 DEF IInv
<1>2. IInv /\ [Next]_vars => IInv'
  <2>. SUFFICES ASSUME IInv, [Next]_vars PROVE IInv'
    OBVIOUS
  <2>1. TypeOK' /\ Flow' /\ Places' /\ BufferIsRun'
    BY TypeStep, FlowStep, PlacesStep, BufferStep DEF IInv
  <2>2. ASSUME Mode', NEW r \in Record PROVE BehindAt(r)'
    <3>1. Mode
      BY <2>2, ResetsGrow DEF IInv, Mode
    <3>. QED
      BY <2>2, <3>1, BehindStep DEF IInv
  <2>. QED
    BY <2>1, <2>2 DEF IInv
<1>. QED
  BY <1>1, <1>2, PTL DEF Spec

(* The types hold in every state of every instance.                          *)
THEOREM TypeCorrect == Spec => []TypeOK
<1>1. IInv => TypeOK
  BY DEF IInv
<1>. QED
  BY <1>1, Invariant, PTL

(* The bytes of two files never meet in DataBuffer, and never more than one  *)
(* incomplete frame waits there, for every number of files and failures.     *)
THEOREM BufferGapless == Spec => []BufferIsRun
<1>1. IInv => BufferIsRun
  BY DEF IInv
<1>. QED
  BY <1>1, Invariant, PTL

(* logRead hands on no record twice, for every number of rotations, failures *)
(* and every read size.                                                      *)
THEOREM HandedOnOnce == Spec => []NoDuplicates
<1>1. IInv => NoDuplicates
  BY DEF IInv, Mode, BehindAt, NoDuplicates
<1>. QED
  BY <1>1, Invariant, PTL

=============================================================================
