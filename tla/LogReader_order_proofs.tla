------------------------- MODULE LogReader_order_proofs -------------------------
(***************************************************************************)
(* More proofs about LogReader, for every value of its constants and with  *)
(* and without -b: that nothing behind the reader is left out, that a file *)
(* reached by rotation is read from its first byte, and that logRead       *)
(* implements the abstract follower of LogFollower.                        *)
(***************************************************************************)
EXTENDS LogReader_proofs

(* How far f has been handed to the parser: what eofHandler has read of the   *)
(* file it leaves has yet to be parsed.                                      *)
Reached(f) == IF f = oldFd THEN size[f] - Len(data) ELSE Passed(f)

(* Which files have been joined, and where.                                  *)
Attached ==
  /\ LogFd # NoFile => (attach[LogFd] # Detached <=> pc # "seek")
  /\ LogFd # NoFile /\ pc # "seek" => attach[LogFd] <= offset
  /\ LogFd # NoFile /\ pc # "seek" /\ oldFd # NoFile => attach[LogFd] = offset
  /\ \A f \in File : attach[f] # Detached /\ f # LogFd =>
        f < cur /\ (LogFd # NoFile => f < LogFd)
  /\ resets = 0 /\ ~initDone => \A f \in File : attach[f] = Detached
  /\ FromBegin => \A f \in File : attach[f] \in {Detached, 0}

(* What eofHandler reads is the rest of a file that was joined.               *)
RestJoined == oldFd # NoFile /\ data # <<>> => attach[oldFd] # Detached /\ initDone

(* The file whose bytes are in DataBuffer.                                   *)
Source == IF oldFd # NoFile THEN oldFd ELSE LogFd

(* A head that ends where the parser stands waits for its tail in DataBuffer. *)
HeadKept ==
  /\ Source # NoFile
  /\ attach[Source] # Detached
  /\ attach[Source] < Reached(Source)
  /\ Reached(Source) % 2 = 1
  => DataBuffer # <<>>

(* What lies between the place where reading began and the place reached was *)
(* handed on.                                                                *)
NoLossAt(r) ==
  /\ attach[r[1]] # Detached
  /\ attach[r[1]] < r[2]
  /\ r[2] < Reached(r[1])
  => delivered[r] > 0

(* What was handed on is decodable, complete, and in no file after the one   *)
(* the reader is at.                                                         *)
SeenAt(r) ==
  delivered[r] > 0 =>
    /\ r \notin Undecodable
    /\ r[1] <= cur
    /\ r[2] < size[r[1]]
    /\ LogFd # NoFile => r[1] <= LogFd
    /\ oldFd # NoFile => r[1] <= oldFd

(* What was handed on in this pass lies behind the reader; while the next     *)
(* open starts over, that is nothing.                                        *)
PassAt(r) ==
  r \in pass =>
    /\ r[1] <= cur
    /\ r[2] < size[r[1]]
    /\ LogFd # NoFile => r[1] <= LogFd
    /\ LogFd = r[1] /\ pc # "seek" => r[2] < offset
    /\ LogFd = NoFile /\ initDone => r[1] < cur
    /\ oldFd # NoFile => r[1] <= oldFd
    /\ oldFd = r[1] => r[2] < size[oldFd] - Len(data)
    /\ FromBegin => initDone

(* With -b a file is handed on from its first record without a gap.          *)
PrefixSeen ==
  FromBegin => \A r, s \in Record \ Undecodable :
    r[1] = s[1] /\ r[2] < s[2] /\ delivered[s] > 0 => delivered[r] > 0

OInv ==
  /\ Attached
  /\ RestJoined
  /\ HeadKept
  /\ \A r \in Record \ Undecodable : NoLossAt(r)
  /\ \A r \in Record : SeenAt(r) /\ PassAt(r)
  /\ PrefixSeen
  /\ RotatedFileFromStart

-----------------------------------------------------------------------------
(* Lemmas about the data *)

(* Every record that lies inside a run is cut from it.                       *)
LEMMA RunHasFrames ==
  ASSUME NEW f \in File, NEW n \in 0 .. MaxPiece,
         NEW buf \in Seq(Piece), IsRun(buf, f, n),
         NEW r \in Record, r[1] = f, n - Len(buf) < r[2], r[2] < n
  PROVE  r \in Frames(buf)
<1>. USE BoundsAssumption, LogAssumption
<1>. DEFINE i == r[2] - (n - Len(buf))
<1>1. r = <<f, r[2]>> /\ r[2] \in 1 .. MaxPiece /\ IsHead(r)
  BY DEF Record, Piece
<1>2. Len(buf) \in Nat /\ n \in Nat /\ r[2] \in Nat
  BY <1>1
<1>3. i \in 1 .. (Len(buf) - 1) /\ i \in 1 .. Len(buf) /\ i + 1 \in 1 .. Len(buf)
  BY <1>2
<1>4. n - Len(buf) + i = r[2] /\ n - Len(buf) + (i + 1) = r[2] + 1
  BY <1>2
<1>5. buf[i] = <<f, r[2]>> /\ buf[i + 1] = <<f, r[2] + 1>>
  <2>. HIDE DEF i
  <2>. QED
    BY <1>3, <1>4 DEF IsRun
<1>6. buf[i] = r /\ buf[i + 1] = Next1(r)
  BY <1>1, <1>5 DEF Next1
<1>. HIDE DEF i
<1>. QED
  BY <1>1, <1>3, <1>6 DEF Frames, FrameStarts

(* The end of a run is kept when it is a head.                               *)
LEMMA HeadRemains ==
  ASSUME NEW f \in File, NEW n \in 0 .. MaxPiece,
         NEW buf \in Seq(Piece), IsRun(buf, f, n), buf # <<>>, n % 2 = 1
  PROVE  Remainder(buf) # <<>>
<1>1. Len(buf) \in 1 .. Len(buf) /\ Len(buf) \in Nat
  BY EmptySeq
<1>2. buf[Len(buf)] = <<f, n>>
  BY <1>1, BoundsAssumption, LogAssumption DEF IsRun
<1>3. IsHead(buf[Len(buf)])
  BY <1>2 DEF IsHead
<1>. QED
  BY <1>3 DEF Remainder

-----------------------------------------------------------------------------
(* Each part of the invariant is preserved *)

(* A file is joined when it is opened or after the seek, and forgotten with   *)
(* a failed read.                                                            *)
LEMMA AttachedStep ==
  ASSUME TypeOK, Flow, Places, Attached, [Next]_vars
  PROVE  Attached'
<1>. USE DEF Attached, history
<1>0. /\ cur \in File /\ LogFd \in File \cup {NoFile} /\ oldFd \in File \cup {NoFile}
      /\ path \in {NoFile, cur}
      /\ offset \in Nat /\ size \in [File -> Nat] /\ initDone \in BOOLEAN
      /\ attach \in [File -> Int] /\ resets \in Nat
      /\ \A f \in File : f \in Nat \ {0} /\ f # NoFile
      /\ Detached = -1 /\ NoFile = 0
      /\ FromBegin \in BOOLEAN
  BY BoundsAssumption, LogAssumption, ModeAssumption
     DEF TypeOK, LogTypeOK, File, NoFile, Detached, Places
<1>1. CASE BfeWrite
  <2>1. UNCHANGED <<cur, pc, LogFd, offset, initDone, oldFd, attach, resets>>
    BY <1>1 DEF BfeWrite, Write, readerVars
  <2>. QED
    BY <2>1
<1>2. CASE BfeRename
  <2>1. UNCHANGED <<cur, pc, LogFd, offset, initDone, oldFd, attach, resets>>
    BY <1>2 DEF BfeRename, Rename, readerVars
  <2>. QED
    BY <2>1
<1>3. CASE BfeCreate
  <2>1. UNCHANGED <<pc, LogFd, offset, initDone, oldFd, attach, resets>> /\ cur' = cur + 1
    BY <1>3 DEF BfeCreate, Create, readerVars
  <2>. QED
    BY <1>0, <2>1
<1>4. CASE StatPath
  <2>1. UNCHANGED <<cur, LogFd, offset, initDone, oldFd, attach, resets>> /\ LogFd = NoFile
    BY <1>4 DEF StatPath, readerVars, bfeVars
  <2>. QED
    BY <2>1
<1>5. CASE Open
  <2>1. /\ UNCHANGED <<cur, initDone, oldFd, resets>>
        /\ LogFd = NoFile /\ LogFd' = cur /\ offset' = 0
    BY <1>0, <1>5 DEF Open, Flow, bfeVars, MustSeek
  <2>2. attach[cur] = Detached
    BY <1>0, <2>1
  <2>3. CASE initDone
    <3>1. attach' = [attach EXCEPT ![cur] = 0] /\ pc' # "seek"
      BY <1>0, <1>5, <2>3 DEF Open, MustSeek, AfterRelocate
    <3>. QED
      BY <1>0, <2>1, <2>3, <3>1
  <2>4. CASE ~initDone
    <3>1. attach' = attach /\ pc' = "seek"
      BY <1>5, <2>4 DEF Open, MustSeek
    <3>. QED
      BY <1>0, <2>1, <2>2, <2>4, <3>1
  <2>. QED
    BY <2>3, <2>4
<1>6. CASE OpenFails
  <2>1. UNCHANGED <<cur, LogFd, offset, initDone, oldFd, attach, resets>> /\ LogFd = NoFile
    BY <1>6 DEF OpenFails, Flow, bfeVars
  <2>. QED
    BY <2>1
<1>7. CASE Seek
  <2>1. /\ UNCHANGED <<cur, LogFd, oldFd, resets>>
        /\ LogFd \in File /\ initDone' = TRUE /\ pc' # "seek"
        /\ attach' = [attach EXCEPT ![LogFd] = offset']
    BY <1>0, <1>7 DEF Seek, Flow, bfeVars, SeekTarget, AfterRelocate
  <2>2. offset' \in Nat /\ (FromBegin => offset' = 0)
    BY <1>0, <1>7, <2>1 DEF Seek, SeekTarget
  <2>. QED
    BY <1>0, <2>1, <2>2
<1>8. CASE SeekFails
  <2>1. /\ UNCHANGED <<cur, initDone, oldFd, attach, resets>>
        /\ LogFd' = NoFile /\ LogFd # NoFile /\ pc = "seek"
    BY <1>8 DEF SeekFails, Flow, bfeVars
  <2>. QED
    BY <1>0, <2>1
<1>9. CASE StartRead
  <2>1. UNCHANGED <<cur, LogFd, offset, initDone, oldFd, attach, resets>> /\ pc # "seek" /\ pc' # "seek"
    BY <1>9 DEF StartRead, bfeVars
  <2>. QED
    BY <2>1
<1>10. CASE Read
  <2>1. /\ UNCHANGED <<cur, LogFd, initDone, oldFd, attach, resets>>
        /\ pc # "seek" /\ pc' # "seek" /\ LogFd \in File /\ oldFd = NoFile
    BY <1>0, <1>10 DEF Read, Flow, bfeVars
  <2>2. offset' \in Nat /\ offset <= offset'
    BY <1>0, <1>10, <2>1, ReadAssumption DEF Read
  <2>. QED
    BY <1>0, <2>1, <2>2
<1>11. CASE ReadEOF
  <2>1. UNCHANGED <<cur, LogFd, offset, initDone, oldFd, attach, resets>> /\ pc # "seek" /\ pc' # "seek"
    BY <1>11 DEF ReadEOF, bfeVars
  <2>. QED
    BY <2>1
<1>12. CASE ReadFails
  <2>1. /\ UNCHANGED <<cur, oldFd>> /\ LogFd \in File /\ LogFd' = NoFile
        /\ attach' = [attach EXCEPT ![LogFd] = Detached] /\ resets' = resets + 1
    BY <1>0, <1>12 DEF ReadFails, CloseFileAndInit, Flow, bfeVars
  <2>. QED
    BY <1>0, <2>1
<1>13. CASE IsLogCut
  <2>1. UNCHANGED <<cur, LogFd, offset, initDone, oldFd, attach, resets>> /\ pc # "seek" /\ pc' # "seek"
    BY <1>13 DEF IsLogCut, bfeVars
  <2>. QED
    BY <2>1
<1>14. CASE ReadRest
  <2>1. /\ UNCHANGED <<cur, initDone, attach, resets>> /\ LogFd \in File /\ LogFd < cur
        /\ LogFd' = NoFile
    BY <1>0, <1>14 DEF ReadRest, Flow, Places, bfeVars, Rest
  <2>. QED
    BY <1>0, <2>1
<1>15. CASE ReadRestFails
  <2>1. /\ UNCHANGED <<cur>> /\ LogFd \in File /\ LogFd' = NoFile
        /\ attach' = [attach EXCEPT ![LogFd] = Detached] /\ resets' = resets + 1
    BY <1>0, <1>15 DEF ReadRestFails, CloseFileAndInit, Flow, bfeVars
  <2>. QED
    BY <1>0, <2>1
<1>16. CASE Finish
  <2>1. UNCHANGED <<cur, LogFd, offset, initDone, attach, resets>> /\ pc # "seek" /\ pc' # "seek"
        /\ oldFd' = NoFile
    BY <1>16 DEF Finish, bfeVars
  <2>. QED
    BY <2>1
<1>17. CASE UNCHANGED vars
  BY <1>17 DEF vars, bfeVars, readerVars
<1>. QED
  BY <1>1, <1>2, <1>3, <1>4, <1>5, <1>6, <1>7, <1>8, <1>9, <1>10, <1>11, <1>12, <1>13, <1>14, <1>15, <1>16, <1>17 DEF Next, Bfe, Step, Failure

(* The bytes between a head and the parser's place are never thrown away      *)
(* while the head's file is still attached.                                  *)
LEMMA HeadKeptStep ==
  ASSUME TypeOK, Flow, Places, BufferIsRun, Attached, HeadKept, [Next]_vars
  PROVE  HeadKept'
<1>. USE DEF HeadKept, Source, Reached, Passed, history
<1>0. /\ cur \in File /\ LogFd \in File \cup {NoFile} /\ oldFd \in File \cup {NoFile}
      /\ path \in {NoFile, cur}
      /\ offset \in Nat /\ size \in [File -> Nat] /\ initDone \in BOOLEAN
      /\ DataBuffer \in Seq(Piece) /\ data \in Seq(Piece) /\ Len(data) \in Nat
      /\ attach \in [File -> Int] /\ resets \in Nat
      /\ \A f \in File : f \in Nat \ {0} /\ f # NoFile
      /\ \A f \in File : size[f] \in 0 .. MaxPiece
      /\ Detached = -1 /\ NoFile = 0
      /\ oldFd # NoFile => oldFd < cur /\ oldFd # LogFd
  BY BoundsAssumption, LogAssumption, SMTT(20) DEF TypeOK, LogTypeOK, File, NoFile, Detached, Places
<1>1. CASE BfeWrite
  <2>1. UNCHANGED <<LogFd, offset, DataBuffer, oldFd, data, attach>>
    BY <1>1 DEF BfeWrite, Write, readerVars
  <2>2. oldFd # NoFile => size'[oldFd] = size[oldFd]
    BY <1>0, <1>1 DEF BfeWrite, Write
  <2>. QED
    BY <1>0, <2>1, <2>2
<1>2. CASE BfeRename
  <2>1. UNCHANGED <<size, LogFd, offset, DataBuffer, oldFd, data, attach>>
    BY <1>2 DEF BfeRename, Rename, readerVars
  <2>. QED
    BY <2>1
<1>3. CASE BfeCreate
  <2>1. UNCHANGED <<size, LogFd, offset, DataBuffer, oldFd, data, attach>>
    BY <1>3 DEF BfeCreate, Create, readerVars
  <2>. QED
    BY <2>1
<1>4. CASE StatPath
  <2>1. LogFd' = NoFile /\ oldFd' = NoFile
    BY <1>4 DEF StatPath, Flow, readerVars
  <2>. QED
    BY <2>1
<1>5. CASE Open
  <2>1. /\ UNCHANGED <<size, DataBuffer, oldFd, data>>
        /\ LogFd = NoFile /\ LogFd' = cur /\ offset' = 0
    BY <1>0, <1>5 DEF Open, Flow, bfeVars, MustSeek
  <2>2. path = cur /\ (attach' = attach \/ attach' = [attach EXCEPT ![cur] = 0])
    BY <1>0, <1>5 DEF Open, MustSeek
  <2>3. attach[cur] = Detached
    BY <1>0, <2>1 DEF Attached
  <2>4. attach'[cur] \in {Detached, 0} /\ (oldFd # NoFile => attach'[oldFd] = attach[oldFd])
    BY <1>0, <2>2, <2>3
  <2>5. CASE oldFd = NoFile
    BY <1>0, <2>1, <2>4, <2>5
  <2>6. CASE oldFd # NoFile
    BY <1>0, <2>1, <2>4, <2>6
  <2>. QED
    BY <2>5, <2>6
<1>6. CASE OpenFails
  <2>1. UNCHANGED <<size, LogFd, offset, DataBuffer, oldFd, data, attach>>
    BY <1>6 DEF OpenFails, bfeVars
  <2>. QED
    BY <2>1
<1>7. CASE Seek
  <2>1. /\ UNCHANGED <<size, LogFd, DataBuffer, oldFd, data>>
        /\ LogFd \in File /\ attach' = [attach EXCEPT ![LogFd] = offset']
    BY <1>0, <1>7 DEF Seek, Flow, bfeVars, SeekTarget
  <2>2. offset' \in Nat
    BY <1>0, <1>7, <2>1 DEF Seek, SeekTarget
  <2>. QED
    BY <1>0, <2>1, <2>2, SMTT(20)
<1>8. CASE SeekFails
  <2>1. UNCHANGED <<size, DataBuffer, oldFd, data, attach>> /\ LogFd' = NoFile
    BY <1>8 DEF SeekFails, bfeVars
  <2>. QED
    BY <1>0, <2>1
<1>9. CASE StartRead
  <2>1. UNCHANGED <<size, LogFd, offset, DataBuffer, oldFd, data, attach>>
    BY <1>9 DEF StartRead, bfeVars
  <2>. QED
    BY <2>1
<1>10. CASE Read
  <2>. DEFINE left == size[LogFd] - offset
              to   == offset + (IF left < MaxRead THEN left ELSE MaxRead)
              buf  == DataBuffer \o Chunk(LogFd, offset, to)
  <2>1. LogFd \in File /\ oldFd = NoFile /\ pc # "seek" /\ IsRun(DataBuffer, LogFd, offset)
    BY <1>0, <1>10 DEF Read, Flow, BufferIsRun
  <2>2. to \in 0 .. MaxPiece /\ to \in Nat /\ offset < to /\ offset \in 0 .. MaxPiece
    BY <1>0, <1>10, <2>1, BoundsAssumption, LogAssumption, ReadAssumption DEF Read
  <2>3. /\ UNCHANGED <<LogFd, oldFd>> /\ offset' = to /\ DataBuffer' = Remainder(buf)
    BY <1>10 DEF Read
  <2>. HIDE DEF to
  <2>4. buf \in Seq(Piece) /\ IsRun(buf, LogFd, to) /\ Len(buf) = Len(DataBuffer) + to - offset
    BY <1>0, <2>1, <2>2, RunExtends
  <2>5. buf # <<>>
    BY <1>0, <2>2, <2>4, EmptySeq
  <2>. HIDE DEF buf
  <2>6. to % 2 = 1 => Remainder(buf) # <<>>
    BY <2>1, <2>2, <2>4, <2>5, HeadRemains
  <2>. QED
    BY <1>0, <2>1, <2>3, <2>6
<1>11. CASE ReadEOF
  <2>1. UNCHANGED <<size, LogFd, offset, DataBuffer, oldFd, data, attach>>
    BY <1>11 DEF ReadEOF, bfeVars
  <2>. QED
    BY <2>1
<1>12. CASE ReadFails
  <2>1. LogFd' = NoFile /\ oldFd' = NoFile
    BY <1>12 DEF ReadFails, CloseFileAndInit, Flow
  <2>. QED
    BY <2>1
<1>13. CASE IsLogCut
  <2>1. UNCHANGED <<size, LogFd, offset, DataBuffer, oldFd, data, attach>>
    BY <1>13 DEF IsLogCut, bfeVars
  <2>. QED
    BY <2>1
<1>14. CASE ReadRest
  <2>1. /\ UNCHANGED <<size, DataBuffer, attach>> /\ oldFd = NoFile
        /\ LogFd \in File /\ offset <= size[LogFd] /\ oldFd' = LogFd
        /\ data' = Chunk(LogFd, offset, size[LogFd])
    BY <1>0, <1>14 DEF ReadRest, Flow, Places, bfeVars, Rest
  <2>2. Len(data') = size[LogFd] - offset
    <3>1. offset \in 0 .. MaxPiece
      BY <1>0, <2>1, LogAssumption
    <3>. QED
      BY <1>0, <2>1, <3>1, ChunkType
  <2>. QED
    BY <1>0, <2>1, <2>2
<1>15. CASE ReadRestFails
  <2>1. LogFd \in File /\ oldFd' = LogFd /\ attach' = [attach EXCEPT ![LogFd] = Detached]
    BY <1>0, <1>15 DEF ReadRestFails, CloseFileAndInit, Flow
  <2>. QED
    BY <1>0, <2>1
<1>16. CASE Finish
  <2>1. UNCHANGED <<LogFd, offset, attach>> /\ oldFd' = NoFile /\ oldFd # NoFile /\ pc # "seek"
    BY <1>16 DEF Finish, Flow, bfeVars
  <2>. QED
    BY <1>0, <2>1 DEF Attached
<1>17. CASE UNCHANGED vars
  BY <1>17 DEF vars, bfeVars, readerVars
<1>. QED
  BY <1>1, <1>2, <1>3, <1>4, <1>5, <1>6, <1>7, <1>8, <1>9, <1>10, <1>11, <1>12, <1>13, <1>14, <1>15, <1>16, <1>17 DEF Next, Bfe, Step, Failure

(* Whatever the reader moves past in a file it has joined goes to the parser, *)
(* and the parser cuts every record whose two pieces it has seen.            *)
LEMMA NoLossStep ==
  ASSUME TypeOK, Flow, Places, BufferIsRun, Attached, HeadKept,
         NEW r \in Record \ Undecodable, NoLossAt(r), [Next]_vars
  PROVE  NoLossAt(r)'
<1>. USE DEF NoLossAt, Reached, Passed, history
<1>0. /\ cur \in File /\ LogFd \in File \cup {NoFile} /\ oldFd \in File \cup {NoFile}
      /\ path \in {NoFile, cur}
      /\ offset \in Nat /\ size \in [File -> Nat] /\ initDone \in BOOLEAN
      /\ DataBuffer \in Seq(Piece) /\ data \in Seq(Piece)
      /\ Len(data) \in Nat /\ Len(DataBuffer) \in Nat
      /\ attach \in [File -> Int] /\ resets \in Nat
      /\ \A f \in File : f \in Nat \ {0} /\ f # NoFile
      /\ \A f \in File : size[f] \in 0 .. MaxPiece
      /\ Detached = -1 /\ NoFile = 0
      /\ oldFd # NoFile => oldFd < cur /\ oldFd # LogFd
      /\ r \in Record /\ r[1] \in File /\ r[2] \in Nat
      /\ delivered \in [Record -> Nat] /\ delivered[r] \in Nat
  <2>1. r \in Record /\ r[1] \in File /\ r[2] \in Nat
    BY LogAssumption DEF Record, Piece
  <2>2. delivered \in [Record -> Nat] /\ delivered[r] \in Nat
    BY <2>1 DEF TypeOK
  <2>. QED
    BY <2>1, <2>2, BoundsAssumption, LogAssumption, SMTT(20)
       DEF TypeOK, LogTypeOK, File, NoFile, Detached, Places
<1>a. attach[r[1]] # Detached /\ r[1] # LogFd =>
        r[1] < cur /\ (LogFd # NoFile => r[1] < LogFd)
  BY <1>0 DEF Attached
<1>1. CASE BfeWrite
  <2>1. UNCHANGED <<LogFd, offset, oldFd, data, attach, delivered>>
    BY <1>1 DEF BfeWrite, Write, readerVars
  <2>2. r[1] # cur => size'[r[1]] = size[r[1]]
    BY <1>0, <1>1 DEF BfeWrite, Write
  <2>. QED
    BY <1>0, <1>a, <2>1, <2>2
<1>2. CASE BfeRename
  <2>1. UNCHANGED <<size, LogFd, offset, oldFd, data, attach, delivered>>
    BY <1>2 DEF BfeRename, Rename, readerVars
  <2>. QED
    BY <2>1
<1>3. CASE BfeCreate
  <2>1. UNCHANGED <<size, LogFd, offset, oldFd, data, attach, delivered>>
    BY <1>3 DEF BfeCreate, Create, readerVars
  <2>. QED
    BY <2>1
<1>4. CASE StatPath
  <2>1. UNCHANGED <<size, LogFd, offset, oldFd, data, attach, delivered>>
    BY <1>4 DEF StatPath, readerVars, bfeVars
  <2>. QED
    BY <2>1
<1>5. CASE Open
  <2>1. /\ UNCHANGED <<size, oldFd, data, delivered>>
        /\ LogFd = NoFile /\ LogFd' = cur /\ offset' = 0
    BY <1>0, <1>5 DEF Open, Flow, bfeVars, MustSeek
  <2>2. r[1] # cur => attach'[r[1]] = attach[r[1]]
    BY <1>0, <1>5 DEF Open, MustSeek
  <2>3. CASE r[1] = cur
    BY <1>0, <2>1, <2>3
  <2>4. CASE r[1] # cur
    BY <1>0, <2>1, <2>2, <2>4
  <2>. QED
    BY <2>3, <2>4
<1>6. CASE OpenFails
  <2>1. UNCHANGED <<size, LogFd, offset, oldFd, data, attach, delivered>>
    BY <1>6 DEF OpenFails, bfeVars
  <2>. QED
    BY <2>1
<1>7. CASE Seek
  <2>1. /\ UNCHANGED <<size, LogFd, oldFd, data, delivered>>
        /\ LogFd \in File /\ attach' = [attach EXCEPT ![LogFd] = offset']
    BY <1>0, <1>7 DEF Seek, Flow, bfeVars, SeekTarget
  <2>2. offset' \in Nat
    BY <1>0, <1>7, <2>1 DEF Seek, SeekTarget
  <2>3. CASE r[1] = LogFd
    BY <1>0, <2>1, <2>2, <2>3
  <2>4. CASE r[1] # LogFd
    BY <1>0, <2>1, <2>4
  <2>. QED
    BY <2>3, <2>4
<1>8. CASE SeekFails
  <2>1. UNCHANGED <<size, oldFd, data, attach, delivered>> /\ LogFd' = NoFile /\ pc = "seek"
    BY <1>8 DEF SeekFails, bfeVars
  <2>2. LogFd # NoFile => attach[LogFd] = Detached
    BY <2>1 DEF Attached
  <2>. QED
    BY <1>0, <2>1, <2>2
<1>9. CASE StartRead
  <2>1. UNCHANGED <<size, LogFd, offset, oldFd, data, attach, delivered>>
    BY <1>9 DEF StartRead, bfeVars
  <2>. QED
    BY <2>1
<1>10. CASE Read
  <2>. DEFINE left == size[LogFd] - offset
              to   == offset + (IF left < MaxRead THEN left ELSE MaxRead)
              buf  == DataBuffer \o Chunk(LogFd, offset, to)
  <2>1. LogFd \in File /\ oldFd = NoFile /\ pc # "seek" /\ IsRun(DataBuffer, LogFd, offset)
    BY <1>0, <1>10 DEF Read, Flow, BufferIsRun
  <2>2. to \in 0 .. MaxPiece /\ to \in Nat /\ offset < to /\ offset \in 0 .. MaxPiece
    BY <1>0, <1>10, <2>1, BoundsAssumption, LogAssumption, ReadAssumption, SMTT(20) DEF Read
  <2>3. UNCHANGED <<size, LogFd, oldFd, data, attach>> /\ offset' = to
    BY <1>10 DEF Read, bfeVars
  <2>4. delivered'[r] = IF r \in Frames(buf) THEN delivered[r] + 1 ELSE delivered[r]
    BY <1>10 DEF Read, Return
  <2>. HIDE DEF to
  <2>5. buf \in Seq(Piece) /\ IsRun(buf, LogFd, to) /\ Len(buf) = Len(DataBuffer) + to - offset
    BY <1>0, <2>1, <2>2, RunExtends
  <2>. HIDE DEF buf
  <2>6. CASE r[1] = LogFd
    <3>1. SUFFICES ASSUME attach[LogFd] # Detached, attach[LogFd] < r[2], r[2] < to
                   PROVE  delivered'[r] > 0
      BY <1>0, <2>1, <2>3, <2>6
    <3>2. CASE r[2] < offset
      BY <1>0, <2>1, <2>4, <2>6, <3>1, <3>2
    <3>3. CASE r[2] = offset
      <4>1. r[2] % 2 = 1
        BY DEF Record, IsHead
      <4>2. DataBuffer # <<>>
        BY <1>0, <2>1, <2>6, <3>1, <3>3, <4>1 DEF HeadKept, Source
      <4>3. to - Len(buf) < r[2]
        BY <1>0, <2>2, <2>5, <3>3, <4>2, EmptySeq
      <4>4. r \in Frames(buf)
        BY <1>0, <2>1, <2>2, <2>5, <2>6, <3>1, <4>3, RunHasFrames
      <4>. QED
        BY <1>0, <2>4, <4>4
    <3>4. CASE r[2] > offset
      <4>1. to - Len(buf) < r[2]
        BY <1>0, <2>2, <2>5, <3>4
      <4>2. r \in Frames(buf)
        BY <1>0, <2>1, <2>2, <2>5, <2>6, <3>1, <4>1, RunHasFrames
      <4>. QED
        BY <1>0, <2>4, <4>2
    <3>. QED
      BY <1>0, <3>2, <3>3, <3>4
  <2>7. CASE r[1] # LogFd
    BY <1>0, <2>1, <2>3, <2>4, <2>7
  <2>. QED
    BY <2>6, <2>7
<1>11. CASE ReadEOF
  <2>1. UNCHANGED <<size, LogFd, offset, oldFd, data, attach, delivered>>
    BY <1>11 DEF ReadEOF, bfeVars
  <2>. QED
    BY <2>1
<1>12. CASE ReadFails
  <2>1. /\ UNCHANGED <<size, oldFd, data, delivered>> /\ LogFd \in File /\ LogFd' = NoFile
        /\ oldFd = NoFile /\ attach' = [attach EXCEPT ![LogFd] = Detached]
    BY <1>0, <1>12 DEF ReadFails, CloseFileAndInit, Flow, bfeVars
  <2>. QED
    BY <1>0, <2>1
<1>13. CASE IsLogCut
  <2>1. UNCHANGED <<size, LogFd, offset, oldFd, data, attach, delivered>>
    BY <1>13 DEF IsLogCut, bfeVars
  <2>. QED
    BY <2>1
<1>14. CASE ReadRest
  <2>1. /\ UNCHANGED <<size, attach, delivered>> /\ oldFd = NoFile
        /\ LogFd \in File /\ offset <= size[LogFd] /\ oldFd' = LogFd /\ LogFd' = NoFile
        /\ data' = Chunk(LogFd, offset, size[LogFd])
    BY <1>0, <1>14 DEF ReadRest, Flow, Places, bfeVars, Rest
  <2>2. Len(data') = size[LogFd] - offset
    <3>1. offset \in 0 .. MaxPiece
      BY <1>0, <2>1, LogAssumption
    <3>. QED
      BY <1>0, <2>1, <3>1, ChunkType
  <2>. QED
    BY <1>0, <2>1, <2>2
<1>15. CASE ReadRestFails
  <2>1. /\ UNCHANGED <<size, delivered>> /\ LogFd \in File /\ oldFd' = LogFd /\ LogFd' = NoFile
        /\ oldFd = NoFile /\ attach' = [attach EXCEPT ![LogFd] = Detached]
    BY <1>0, <1>15 DEF ReadRestFails, CloseFileAndInit, Flow, bfeVars
  <2>. QED
    BY <1>0, <2>1
<1>16. CASE Finish
  <2>. DEFINE buf == DataBuffer \o data
  <2>1. /\ UNCHANGED <<size, LogFd, offset, attach>> /\ oldFd' = NoFile /\ oldFd \in File
        /\ oldFd # LogFd
    BY <1>0, <1>16 DEF Finish, Flow, bfeVars
  <2>2. /\ delivered'[r] >= delivered[r] /\ delivered'[r] \in Nat
        /\ data # <<>> /\ r \in Frames(buf) => delivered'[r] > 0
    BY <1>0, <1>16 DEF Finish, Return
  <2>3. buf \in Seq(Piece) /\ IsRun(buf, oldFd, size[oldFd])
        /\ Len(buf) = Len(DataBuffer) + Len(data)
    BY <1>0, <2>1, ConcatProperties DEF BufferIsRun
  <2>. HIDE DEF buf
  <2>4. CASE r[1] = oldFd
    <3>1. SUFFICES ASSUME attach[oldFd] # Detached, attach[oldFd] < r[2], r[2] < size[oldFd]
                   PROVE  delivered'[r] > 0
      BY <1>0, <2>1, <2>4
    <3>2. CASE r[2] < size[oldFd] - Len(data)
      BY <1>0, <2>1, <2>2, <2>4, <3>1, <3>2
    <3>3. CASE r[2] >= size[oldFd] - Len(data)
      <4>1. data # <<>>
        <5>1. Len(data) # 0
          BY <1>0, <2>1, <3>1, <3>3
        <5>. QED
          BY <5>1
      <4>2. r[2] % 2 = 1
        BY DEF Record, IsHead
      <4>3. r[2] = size[oldFd] - Len(data) => DataBuffer # <<>>
        BY <1>0, <2>1, <2>4, <3>1, <4>2 DEF HeadKept, Source
      <4>4. size[oldFd] - Len(buf) < r[2]
        BY <1>0, <2>1, <2>3, <3>3, <4>3, EmptySeq, SMTT(20)
      <4>5. r \in Frames(buf)
        BY <1>0, <2>1, <2>3, <2>4, <3>1, <4>4, RunHasFrames
      <4>. QED
        BY <2>2, <4>1, <4>5
    <3>. QED
      BY <1>0, <2>1, <3>2, <3>3
  <2>5. CASE r[1] # oldFd
    BY <1>0, <2>1, <2>2, <2>5, SMTT(20)
  <2>. QED
    BY <2>4, <2>5
<1>17. CASE UNCHANGED vars
  BY <1>17 DEF vars, bfeVars, readerVars
<1>. QED
  BY <1>1, <1>2, <1>3, <1>4, <1>5, <1>6, <1>7, <1>8, <1>9, <1>10, <1>11, <1>12, <1>13, <1>14, <1>15, <1>16, <1>17 DEF Next, Bfe, Step, Failure

(* Only complete, decodable records are handed on, and none of a file the     *)
(* reader has not come to.                                                   *)
LEMMA SeenStep ==
  ASSUME TypeOK, Flow, Places, BufferIsRun, NEW r \in Record, SeenAt(r), [Next]_vars
  PROVE  SeenAt(r)'
<1>. USE DEF SeenAt, history
<1>0. /\ cur \in File /\ LogFd \in File \cup {NoFile} /\ oldFd \in File \cup {NoFile}
      /\ path \in {NoFile, cur}
      /\ offset \in Nat /\ size \in [File -> Nat]
      /\ DataBuffer \in Seq(Piece) /\ data \in Seq(Piece)
      /\ \A f \in File : f \in Nat \ {0} /\ f # NoFile
      /\ \A f \in File : size[f] \in 0 .. MaxPiece
      /\ NoFile = 0
      /\ LogFd # NoFile => LogFd <= cur
      /\ oldFd # NoFile => oldFd < cur /\ oldFd # LogFd
      /\ oldFd # NoFile /\ LogFd # NoFile => oldFd < LogFd
      /\ r[1] \in File /\ r[2] \in Nat /\ delivered[r] \in Nat
  <2>1. r \in Record /\ r[1] \in File /\ r[2] \in Nat
    BY LogAssumption DEF Record, Piece
  <2>2. delivered[r] \in Nat
    BY <2>1 DEF TypeOK
  <2>. QED
    BY <2>1, <2>2, BoundsAssumption, LogAssumption, SMTT(20)
       DEF TypeOK, LogTypeOK, File, NoFile, Places
<1>1. CASE BfeWrite
  <2>1. UNCHANGED <<cur, LogFd, oldFd, delivered>>
    BY <1>1 DEF BfeWrite, Write, readerVars
  <2>2. size'[r[1]] \in Nat /\ size[r[1]] <= size'[r[1]]
    BY <1>0, <1>1 DEF BfeWrite, Write
  <2>. QED
    BY <1>0, <2>1, <2>2
<1>2. CASE BfeRename
  <2>1. UNCHANGED <<cur, size, LogFd, oldFd, delivered>>
    BY <1>2 DEF BfeRename, Rename, readerVars
  <2>. QED
    BY <2>1
<1>3. CASE BfeCreate
  <2>1. UNCHANGED <<size, LogFd, oldFd, delivered>> /\ cur' = cur + 1
    BY <1>3 DEF BfeCreate, Create, readerVars
  <2>. QED
    BY <1>0, <2>1
<1>4. CASE StatPath
  <2>1. UNCHANGED <<cur, size, LogFd, oldFd, delivered>>
    BY <1>4 DEF StatPath, readerVars, bfeVars
  <2>. QED
    BY <2>1
<1>5. CASE Open
  <2>1. UNCHANGED <<cur, size, oldFd, delivered>> /\ LogFd' = cur
    BY <1>0, <1>5 DEF Open, bfeVars
  <2>. QED
    BY <2>1
<1>6. CASE OpenFails
  <2>1. UNCHANGED <<cur, size, LogFd, oldFd, delivered>>
    BY <1>6 DEF OpenFails, bfeVars
  <2>. QED
    BY <2>1
<1>7. CASE Seek
  <2>1. UNCHANGED <<cur, size, LogFd, oldFd, delivered>>
    BY <1>7 DEF Seek, bfeVars
  <2>. QED
    BY <2>1
<1>8. CASE SeekFails
  <2>1. UNCHANGED <<cur, size, oldFd, delivered>> /\ LogFd' = NoFile
    BY <1>8 DEF SeekFails, bfeVars
  <2>. QED
    BY <2>1
<1>9. CASE StartRead
  <2>1. UNCHANGED <<cur, size, LogFd, oldFd, delivered>>
    BY <1>9 DEF StartRead, bfeVars
  <2>. QED
    BY <2>1
<1>10. CASE Read
  <2>. DEFINE left == size[LogFd] - offset
              to   == offset + (IF left < MaxRead THEN left ELSE MaxRead)
              buf  == DataBuffer \o Chunk(LogFd, offset, to)
  <2>1. LogFd \in File /\ oldFd = NoFile /\ pc # "seek" /\ IsRun(DataBuffer, LogFd, offset)
    BY <1>0, <1>10 DEF Read, Flow, BufferIsRun
  <2>2. /\ to \in 0 .. MaxPiece /\ to \in Nat /\ offset < to /\ offset \in 0 .. MaxPiece
        /\ to <= size[LogFd]
    BY <1>0, <1>10, <2>1, BoundsAssumption, LogAssumption, ReadAssumption, SMTT(20) DEF Read
  <2>3. UNCHANGED <<cur, size, LogFd, oldFd>>
    BY <1>10 DEF Read, bfeVars
  <2>4. delivered'[r] = IF r \in Frames(buf) \ Undecodable THEN delivered[r] + 1 ELSE delivered[r]
    BY <1>10 DEF Read, Return
  <2>. HIDE DEF to
  <2>5. buf \in Seq(Piece) /\ IsRun(buf, LogFd, to)
    BY <1>0, <2>1, <2>2, RunExtends
  <2>. HIDE DEF buf
  <2>6. CASE r \in Frames(buf) \ Undecodable
    <3>1. r[1] = LogFd /\ r[2] < to
      BY <2>1, <2>2, <2>5, <2>6, FramesOfRun
    <3>2. r \notin Undecodable /\ r[1] <= cur /\ r[2] < size[r[1]]
      BY <1>0, <2>1, <2>2, <2>6, <3>1
    <3>3. r[1] <= cur' /\ r[2] < size'[r[1]]
      BY <2>3, <3>2
    <3>4. r[1] <= LogFd' /\ oldFd' = NoFile
      BY <1>0, <2>1, <2>3, <3>1
    <3>. QED
      BY <3>2, <3>3, <3>4
  <2>7. CASE r \notin Frames(buf) \ Undecodable
    BY <2>3, <2>4, <2>7
  <2>. QED
    BY <2>6, <2>7
<1>11. CASE ReadEOF
  <2>1. UNCHANGED <<cur, size, LogFd, oldFd, delivered>>
    BY <1>11 DEF ReadEOF, bfeVars
  <2>. QED
    BY <2>1
<1>12. CASE ReadFails
  <2>1. UNCHANGED <<cur, size, oldFd, delivered>> /\ LogFd' = NoFile
    BY <1>12 DEF ReadFails, CloseFileAndInit, bfeVars
  <2>. QED
    BY <2>1
<1>13. CASE IsLogCut
  <2>1. UNCHANGED <<cur, size, LogFd, oldFd, delivered>>
    BY <1>13 DEF IsLogCut, bfeVars
  <2>. QED
    BY <2>1
<1>14. CASE ReadRest
  <2>1. UNCHANGED <<cur, size, delivered>> /\ LogFd' = NoFile /\ oldFd' = LogFd
    BY <1>14 DEF ReadRest, bfeVars
  <2>. QED
    BY <2>1
<1>15. CASE ReadRestFails
  <2>1. UNCHANGED <<cur, size, delivered>> /\ LogFd' = NoFile /\ oldFd' = LogFd
    BY <1>15 DEF ReadRestFails, CloseFileAndInit, bfeVars
  <2>. QED
    BY <2>1
<1>16. CASE Finish
  <2>. DEFINE buf == DataBuffer \o data
  <2>1. UNCHANGED <<cur, size, LogFd>> /\ oldFd' = NoFile /\ oldFd \in File
    BY <1>0, <1>16 DEF Finish, Flow, bfeVars
  <2>2. \/ delivered'[r] = delivered[r]
        \/ r \in Frames(buf) \ Undecodable
    BY <1>16 DEF Finish, Return
  <2>3. buf \in Seq(Piece) /\ IsRun(buf, oldFd, size[oldFd])
    BY <1>0, <2>1, ConcatProperties DEF BufferIsRun
  <2>. HIDE DEF buf
  <2>4. CASE r \in Frames(buf) \ Undecodable
    <3>1. r[1] = oldFd /\ r[2] < size[oldFd]
      BY <1>0, <2>1, <2>3, <2>4, FramesOfRun
    <3>. QED
      BY <1>0, <2>1, <2>4, <3>1
  <2>5. CASE delivered'[r] = delivered[r]
    BY <1>0, <2>1, <2>5
  <2>. QED
    BY <2>2, <2>4, <2>5
<1>17. CASE UNCHANGED vars
  BY <1>17 DEF vars, bfeVars, readerVars
<1>. QED
  BY <1>1, <1>2, <1>3, <1>4, <1>5, <1>6, <1>7, <1>8, <1>9, <1>10, <1>11, <1>12, <1>13, <1>14, <1>15, <1>16, <1>17 DEF Next, Bfe, Step, Failure

(* What was handed on in this pass stays behind the reader.                   *)
LEMMA PassStep ==
  ASSUME TypeOK, Flow, Places, BufferIsRun, RestJoined, NEW r \in Record, PassAt(r), [Next]_vars
  PROVE  PassAt(r)'
<1>. USE DEF PassAt, history, NoFile
<1>0. /\ cur \in File /\ LogFd \in File \cup {NoFile} /\ oldFd \in File \cup {NoFile}
      /\ offset \in 0 .. MaxPiece /\ offset \in Nat /\ initDone \in BOOLEAN
      /\ size \in [File -> 0 .. MaxPiece]
      /\ DataBuffer \in Seq(Piece) /\ data \in Seq(Piece)
      /\ \A f \in File : f \in Nat \ {0} /\ size[f] \in 0 .. MaxPiece /\ size[f] \in Nat
      /\ r[1] \in File /\ r[2] \in Nat
      /\ FromBegin \in BOOLEAN
  BY BoundsAssumption, LogAssumption, ModeAssumption DEF TypeOK, LogTypeOK, File, Record, Piece
<1>1. CASE BfeWrite
  <2>1. UNCHANGED <<cur, pass, pc, LogFd, offset, initDone, oldFd, data>>
    BY <1>1 DEF BfeWrite, Write, readerVars
  <2>2. /\ size'[r[1]] \in Nat /\ size[r[1]] <= size'[r[1]]
        /\ oldFd # NoFile => size'[oldFd] = size[oldFd]
    BY <1>0, <1>1 DEF BfeWrite, Write, Places
  <2>. QED
    BY <1>0, <2>1, <2>2
<1>2. CASE BfeRename
  <2>1. UNCHANGED <<cur, size, pass, readerVars>>
    BY <1>2 DEF BfeRename, Rename
  <2>. QED
    BY <2>1 DEF readerVars
<1>3. CASE BfeCreate
  <2>1. UNCHANGED <<size, pass, readerVars>> /\ cur' = cur + 1
    BY <1>3 DEF BfeCreate, Create
  <2>. QED
    BY <1>0, <2>1 DEF readerVars
<1>4. CASE StatPath
  <2>1. UNCHANGED <<cur, size, pass, LogFd, offset, initDone, oldFd, data>>
        /\ LogFd = NoFile
    BY <1>4 DEF StatPath, readerVars, bfeVars
  <2>. QED
    BY <1>0, <2>1
<1>5. CASE Open
  <2>1. UNCHANGED <<cur, size, pass, initDone, oldFd, data>>
        /\ LogFd = NoFile /\ LogFd' = cur
    BY <1>0, <1>5 DEF Open, Flow, Places, bfeVars, MustSeek
  <2>2. ~initDone => pc' = "seek"
    BY <1>5 DEF Open, MustSeek
  <2>. QED
    BY <1>0, <2>1, <2>2, SMTT(20)
<1>6. CASE OpenFails
  <2>1. UNCHANGED <<cur, size, pass, LogFd, initDone, oldFd, data>>
        /\ LogFd = NoFile
    BY <1>6 DEF OpenFails, Flow, bfeVars
  <2>. QED
    BY <1>0, <2>1
<1>7. CASE Seek
  <2>1. UNCHANGED <<cur, size, pass, LogFd, oldFd, data>>
        /\ LogFd # NoFile /\ ~initDone /\ initDone' = TRUE
    BY <1>7 DEF Seek, Flow, bfeVars, SeekTarget
  <2>2. FromBegin => r \notin pass
    BY <1>0, <2>1
  <2>3. ~FromBegin => offset' = size[LogFd]
    BY <1>7 DEF Seek, SeekTarget
  <2>. QED
    BY <1>0, <2>1, <2>2, <2>3
<1>8. CASE SeekFails
  <2>1. UNCHANGED <<cur, size, pass, initDone, oldFd, data>>
        /\ LogFd' = NoFile /\ ~initDone
    BY <1>8 DEF SeekFails, Flow, bfeVars
  <2>. QED
    BY <1>0, <2>1
<1>9. CASE StartRead
  <2>1. UNCHANGED <<cur, size, pass, LogFd, offset, initDone, oldFd, data>>
        /\ pc # "seek"
    BY <1>9 DEF StartRead, bfeVars
  <2>. QED
    BY <1>0, <2>1
<1>10. CASE Read
  <2>. DEFINE left == size[LogFd] - offset
              to   == offset + (IF left < MaxRead THEN left ELSE MaxRead)
              buf  == DataBuffer \o Chunk(LogFd, offset, to)
  <2>1. /\ LogFd \in File /\ oldFd = NoFile /\ pc # "seek"
        /\ IsRun(DataBuffer, LogFd, offset) /\ Len(DataBuffer) <= 1
    BY <1>0, <1>10 DEF Read, Flow, BufferIsRun
  <2>2. to \in 0 .. MaxPiece /\ to \in Nat /\ offset <= to /\ to <= size[LogFd]
    BY <1>0, <1>10, <2>1, BoundsAssumption, LogAssumption, ReadAssumption DEF Read
  <2>3. UNCHANGED <<cur, size, LogFd, initDone, oldFd, data>> /\ offset' = to
    BY <1>10 DEF Read, bfeVars
  <2>4. pass' = pass \cup (Frames(buf) \ Undecodable)
    BY <1>10 DEF Read, Return
  <2>. HIDE DEF to
  <2>5. /\ buf \in Seq(Piece) /\ IsRun(buf, LogFd, to)
        /\ Len(buf) = Len(DataBuffer) + to - offset
    BY <1>0, <2>1, <2>2, RunExtends
  <2>. HIDE DEF buf
  <2>6. CASE r \in Frames(buf) \ Undecodable
    <3>1. r[1] = LogFd /\ to - Len(buf) < r[2] /\ r[2] < to
      <4>1. r \in Frames(buf) /\ to \in 0 .. MaxPiece /\ LogFd \in File
        BY <2>1, <2>2, <2>6
      <4>. QED
        BY <2>5, <4>1, FramesOfRun
    <3>2. LogFd # NoFile /\ LogFd <= cur /\ initDone
      BY <1>0, <2>1 DEF Places, Flow
    <3>. QED
      BY <1>0, <2>1, <2>2, <2>3, <3>1, <3>2
  <2>7. CASE r \notin Frames(buf) \ Undecodable
    BY <1>0, <2>1, <2>2, <2>3, <2>4, <2>7
  <2>. QED
    BY <2>6, <2>7
<1>11. CASE ReadEOF
  <2>1. UNCHANGED <<cur, size, pass, LogFd, offset, initDone, oldFd, data>>
        /\ pc # "seek"
    BY <1>11 DEF ReadEOF, bfeVars
  <2>. QED
    BY <1>0, <2>1
<1>12. CASE ReadFails
  <2>1. UNCHANGED <<cur, size, oldFd, data>> /\ oldFd = NoFile
        /\ LogFd' = NoFile /\ initDone' = FALSE
        /\ pass' = IF FromBegin THEN {} ELSE pass
    BY <1>12 DEF ReadFails, CloseFileAndInit, NewPass, Flow, bfeVars
  <2>. QED
    BY <1>0, <2>1
<1>13. CASE IsLogCut
  <2>1. UNCHANGED <<cur, size, pass, LogFd, offset, initDone, oldFd, data>>
        /\ pc # "seek"
    BY <1>13 DEF IsLogCut, bfeVars
  <2>. QED
    BY <1>0, <2>1
<1>14. CASE ReadRest
  <2>1. /\ UNCHANGED <<cur, size, pass, initDone>>
        /\ LogFd \in File /\ LogFd < cur /\ offset <= size[LogFd]
        /\ LogFd' = NoFile /\ oldFd' = LogFd
        /\ data' = Chunk(LogFd, offset, size[LogFd])
    BY <1>0, <1>14 DEF ReadRest, Flow, Places, bfeVars, Rest
  <2>2. Len(data') = size[LogFd] - offset
    BY <1>0, <2>1, ChunkType
  <2>. QED
    BY <1>0, <1>14, <2>1, <2>2, SMTT(20) DEF ReadRest, Rest
<1>15. CASE ReadRestFails
  <2>1. UNCHANGED <<cur, size>> /\ data' = <<>>
        /\ LogFd # NoFile /\ oldFd' = LogFd /\ LogFd' = NoFile /\ initDone' = FALSE
        /\ pass' = IF FromBegin THEN {} ELSE pass
    BY <1>15 DEF ReadRestFails, CloseFileAndInit, NewPass, Flow, bfeVars
  <2>2. Len(data') = 0
    BY <2>1
  <2>3. oldFd' = r[1] => size'[oldFd'] = size[r[1]]
    BY <2>1
  <2>. QED
    BY <1>0, <2>1, <2>2, <2>3
<1>16. CASE Finish
  <2>. DEFINE buf == DataBuffer \o data
  <2>1. /\ oldFd \in File /\ oldFd < cur /\ Len(DataBuffer) <= 1
        /\ LogFd # NoFile => oldFd < LogFd
        /\ buf \in Seq(Piece) /\ IsRun(buf, oldFd, size[oldFd])
        /\ Len(buf) = Len(DataBuffer) + Len(data)
    BY <1>0, <1>16, ConcatProperties DEF Finish, Flow, Places, BufferIsRun
  <2>2. /\ UNCHANGED <<cur, size, LogFd, offset, initDone>>
        /\ oldFd' = NoFile /\ pc # "seek"
    BY <1>16 DEF Finish, bfeVars
  <2>3. \/ pass' = pass
        \/ data # <<>> /\ pass' = pass \cup (Frames(buf) \ Undecodable)
    BY <1>16 DEF Finish, Return
  <2>. HIDE DEF buf
  <2>4. CASE r \in pass' \ pass
    <3>1. r \in Frames(buf) /\ initDone
      BY <2>1, <2>3, <2>4, <1>0 DEF RestJoined
    <3>2. r[1] = oldFd /\ r[2] < size[oldFd]
      BY <1>0, <2>1, <3>1, FramesOfRun
    <3>. QED
      BY <1>0, <2>1, <2>2, <3>1, <3>2
  <2>5. CASE r \notin pass' \ pass
    BY <1>0, <2>1, <2>2, <2>5
  <2>. QED
    BY <2>4, <2>5
<1>17. CASE UNCHANGED vars
  <2>1. UNCHANGED <<cur, size, pass, readerVars>>
    BY <1>17 DEF vars, bfeVars
  <2>. QED
    BY <2>1 DEF readerVars
<1>. QED
  BY <1>1, <1>2, <1>3, <1>4, <1>5, <1>6, <1>7, <1>8, <1>9, <1>10, <1>11, <1>12, <1>13, <1>14, <1>15, <1>16, <1>17 DEF Next, Bfe, Step, Failure

(* The file a rotation leaves stays joined until its rest has been parsed.    *)
LEMMA RestJoinedStep ==
  ASSUME TypeOK, Flow, Places, Attached, RestJoined, [Next]_vars
  PROVE  RestJoined'
<1>. USE DEF RestJoined, history
<1>0. /\ cur \in File /\ LogFd \in File \cup {NoFile} /\ oldFd \in File \cup {NoFile}
      /\ path \in {NoFile, cur} /\ attach \in [File -> Int]
      /\ \A f \in File : f \in Nat
      /\ oldFd # NoFile => oldFd < cur /\ oldFd # LogFd
  BY BoundsAssumption, LogAssumption DEF TypeOK, LogTypeOK, File, NoFile, Detached, Places
<1>1. \/ UNCHANGED <<oldFd, data, attach, initDone>>
      \/ oldFd' = NoFile
      \/ data' = <<>>
      \/ Open \/ Seek \/ ReadRest
  BY DEF Next, Bfe, Step, Failure, BfeWrite, Write, BfeRename, Rename, BfeCreate, Create,
     StatPath, OpenFails, SeekFails, StartRead, Read, ReadEOF, ReadFails, Flow,
     IsLogCut, ReadRestFails, Finish, CloseFileAndInit, readerVars, bfeVars, vars
<1>2. CASE UNCHANGED <<oldFd, data, attach, initDone>>
  BY <1>2
<1>3. CASE Open
  <2>1. UNCHANGED <<oldFd, data, initDone>>
        /\ (attach' = attach \/ attach' = [attach EXCEPT ![cur] = 0])
    BY <1>0, <1>3 DEF Open
  <2>. QED
    BY <1>0, <2>1
<1>4. CASE Seek
  <2>1. UNCHANGED <<oldFd, data>> /\ attach' = [attach EXCEPT ![LogFd] = offset'] /\ initDone' = TRUE
    BY <1>4 DEF Seek
  <2>. QED
    BY <1>0, <2>1
<1>5. CASE ReadRest
  <2>1. LogFd # NoFile /\ pc # "seek" /\ oldFd' = LogFd /\ attach' = attach
        /\ initDone /\ initDone' = initDone
    BY <1>5 DEF ReadRest, Flow
  <2>. QED
    BY <2>1 DEF Attached
<1>. QED
  BY <1>1, <1>2, <1>3, <1>4, <1>5

(* Records are handed on in the order of the file, so what -b reads again     *)
(* from the beginning has been handed on as far as ever before.              *)
LEMMA PrefixSeenStep ==
  ASSUME TypeOK, Flow, Places, BufferIsRun, Attached, RestJoined, PrefixSeen, [Next]_vars,
         \A r \in Record \ Undecodable : NoLossAt(r)'
  PROVE  PrefixSeen'
<1>. USE DEF history
<1>. SUFFICES ASSUME FromBegin,
                     NEW r \in Record \ Undecodable, NEW s \in Record \ Undecodable,
                     r[1] = s[1], r[2] < s[2], delivered'[s] > 0
              PROVE  delivered'[r] > 0
  BY DEF PrefixSeen
<1>0. /\ cur \in File /\ LogFd \in File \cup {NoFile} /\ oldFd \in File \cup {NoFile}
      /\ offset \in Nat /\ size \in [File -> Nat]
      /\ DataBuffer \in Seq(Piece) /\ data \in Seq(Piece)
      /\ \A f \in File : f \in Nat \ {0} /\ f # NoFile /\ f # Detached
      /\ \A f \in File : size[f] \in 0 .. MaxPiece
      /\ oldFd # NoFile => oldFd # LogFd
      /\ r[1] \in File /\ r[2] \in Nat \ {0} /\ delivered[r] \in Nat
      /\ s[1] \in File /\ s[2] \in Nat \ {0} /\ delivered[s] \in Nat
  <2>1. r \in Record /\ r[1] \in File /\ r[2] \in Nat \ {0} /\ s[1] \in File /\ s[2] \in Nat \ {0}
    BY LogAssumption DEF Record, Piece
  <2>2. delivered[r] \in Nat /\ delivered[s] \in Nat
    BY <2>1 DEF TypeOK
  <2>. QED
    BY <2>1, <2>2, BoundsAssumption, LogAssumption, SMTT(20)
       DEF TypeOK, LogTypeOK, File, NoFile, Detached, Places
<1>a. 0 # Detached
  BY DEF Detached
<1>b. delivered' = delivered \/ Read \/ Finish
  BY DEF Next, Bfe, Step, Failure, BfeWrite, BfeRename, BfeCreate,
     StatPath, Open, OpenFails, Seek, SeekFails, StartRead, ReadEOF, ReadFails,
     IsLogCut, ReadRest, ReadRestFails, vars
<1>c. delivered'[r] \in Nat /\ delivered'[r] >= delivered[r]
  BY <1>0, <1>b, SMTT(20) DEF Read, Finish, Return
<1>1. CASE delivered[s] > 0
  <2>1. delivered[r] > 0
    BY <1>1 DEF PrefixSeen
  <2>. QED
    BY <1>0, <1>c, <2>1
<1>2. CASE delivered[s] = 0
  <2>1. Read \/ Finish
    <3>1. delivered' # delivered
      BY <1>0, <1>2
    <3>. QED
      BY <1>b, <3>1
  <2>2. CASE Read
    <3>. DEFINE left == size[LogFd] - offset
                to   == offset + (IF left < MaxRead THEN left ELSE MaxRead)
                buf  == DataBuffer \o Chunk(LogFd, offset, to)
    <3>1. LogFd \in File /\ oldFd = NoFile /\ pc # "seek" /\ IsRun(DataBuffer, LogFd, offset)
      BY <1>0, <2>2 DEF Read, Flow, BufferIsRun
    <3>2. to \in 0 .. MaxPiece /\ to \in Nat /\ offset < to /\ offset \in 0 .. MaxPiece
      BY <1>0, <2>2, <3>1, BoundsAssumption, LogAssumption, ReadAssumption DEF Read
    <3>3. UNCHANGED <<LogFd, oldFd, attach>> /\ offset' = to /\ s \in Frames(buf)
      BY <1>2, <2>2 DEF Read, Return
    <3>. HIDE DEF to
    <3>4. buf \in Seq(Piece) /\ IsRun(buf, LogFd, to)
      BY <1>0, <3>1, <3>2, RunExtends
    <3>. HIDE DEF buf
    <3>5. s[1] = LogFd /\ s[2] < to
      BY <3>1, <3>2, <3>3, <3>4, FramesOfRun
    <3>6. attach[LogFd] = 0
      BY <1>0, <3>1 DEF Attached
    <3>7. attach'[r[1]] # Detached /\ attach'[r[1]] < r[2]
      BY <1>0, <1>a, <3>3, <3>5, <3>6
    <3>8. r[2] < Reached(r[1])'
      BY <1>0, <3>1, <3>2, <3>3, <3>5 DEF Reached, Passed
    <3>. QED
      BY <3>7, <3>8 DEF NoLossAt
  <2>3. CASE Finish
    <3>. DEFINE buf == DataBuffer \o data
    <3>1. /\ UNCHANGED <<size, LogFd, attach>> /\ oldFd' = NoFile /\ oldFd \in File
          /\ data # <<>> /\ s \in Frames(buf)
      BY <1>0, <1>2, <2>3 DEF Finish, Return, Flow, bfeVars
    <3>2. buf \in Seq(Piece) /\ IsRun(buf, oldFd, size[oldFd])
      BY <1>0, <3>1, ConcatProperties DEF BufferIsRun
    <3>. HIDE DEF buf
    <3>3. s[1] = oldFd /\ s[2] < size[oldFd]
      BY <1>0, <3>1, <3>2, FramesOfRun
    <3>4. attach[oldFd] = 0
      BY <1>0, <3>1 DEF Attached, RestJoined
    <3>5. attach'[r[1]] # Detached /\ attach'[r[1]] < r[2]
      BY <1>0, <1>a, <3>1, <3>3, <3>4
    <3>6. r[2] < Reached(r[1])'
      BY <1>0, <3>1, <3>3 DEF Reached, Passed
    <3>. QED
      BY <3>5, <3>6 DEF NoLossAt
  <2>. QED
    BY <2>1, <2>2, <2>3
<1>. QED
  BY <1>0, <1>1, <1>2

(* Only the first open seeks, as long as no read has failed.                  *)
LEMMA RotatedStep ==
  ASSUME TypeOK, Flow, Places, Attached, RotatedFileFromStart, [Next]_vars
  PROVE  RotatedFileFromStart'
<1>. USE DEF RotatedFileFromStart, history
<1>0. /\ cur \in File /\ LogFd \in File \cup {NoFile}
      /\ path \in {NoFile, cur} /\ attach \in [File -> Int] /\ resets \in Nat
      /\ \A f \in File : f \in Nat /\ f # NoFile
  BY BoundsAssumption, LogAssumption DEF TypeOK, LogTypeOK, File, NoFile, Detached, Places
<1>1. \/ UNCHANGED <<attach, resets>>
      \/ resets' = resets + 1
      \/ Open \/ Seek
  BY DEF Next, Bfe, Step, Failure, BfeWrite, Write, BfeRename, Rename, BfeCreate, Create,
     StatPath, OpenFails, SeekFails, StartRead, Read, ReadEOF, ReadFails,
     IsLogCut, ReadRest, ReadRestFails, Finish, CloseFileAndInit, readerVars, bfeVars, vars
<1>2. CASE UNCHANGED <<attach, resets>>
  BY <1>2
<1>3. CASE resets' = resets + 1
  BY <1>0, <1>3
<1>4. CASE Open
  <2>1. /\ resets' = resets /\ LogFd = NoFile
        /\ (attach' = attach \/ attach' = [attach EXCEPT ![cur] = 0])
    BY <1>0, <1>4 DEF Open, Flow
  <2>2. \A f \in File : attach[f] # Detached => f < cur
    BY <1>0, <2>1 DEF Attached
  <2>. SUFFICES ASSUME resets = 0, NEW f \in File, NEW g \in File, f < g,
                       attach'[f] # Detached, attach'[g] # Detached
                PROVE  attach'[g] = 0
    BY <2>1
  <2>3. CASE attach' = attach
    BY <2>3
  <2>4. CASE attach' = [attach EXCEPT ![cur] = 0]
    <3>1. CASE g = cur
      BY <1>0, <2>4, <3>1
    <3>2. CASE g # cur
      <4>1. attach'[g] = attach[g] /\ g < cur
        BY <1>0, <2>2, <2>4, <3>2
      <4>2. f # cur /\ attach'[f] = attach[f]
        BY <1>0, <2>4, <4>1
      <4>. QED
        BY <4>1, <4>2
    <3>. QED
      BY <3>1, <3>2
  <2>. QED
    BY <2>1, <2>3, <2>4
<1>5. CASE Seek
  <2>1. /\ resets' = resets /\ LogFd \in File /\ ~initDone
        /\ attach' = [attach EXCEPT ![LogFd] = offset']
    BY <1>0, <1>5 DEF Seek, Flow
  <2>2. resets = 0 => \A f \in File : attach[f] = Detached
    BY <2>1 DEF Attached
  <2>. QED
    BY <1>0, <2>1, <2>2
<1>. QED
  BY <1>1, <1>2, <1>3, <1>4, <1>5

-----------------------------------------------------------------------------
(* The theorems *)

(* What is joined and what is handed on agree in every reachable state.      *)
THEOREM OrderInvariant == Spec => []OInv
<1>1. Init => OInv
  <2>. SUFFICES ASSUME Init PROVE OInv
    OBVIOUS
  <2>1. /\ LogFd = NoFile /\ oldFd = NoFile
        /\ \A f \in File : attach[f] = Detached
        /\ \A r \in Record : delivered[r] = 0
        /\ pass = {}
    BY DEF Init
  <2>2. \A r \in Record : r[1] \in File
    BY DEF Record, Piece
  <2>3. Attached /\ RestJoined /\ RotatedFileFromStart
    BY <2>1 DEF Attached, RestJoined, RotatedFileFromStart
  <2>4. HeadKept /\ PrefixSeen
    BY <2>1 DEF HeadKept, Source, PrefixSeen
  <2>5. \A r \in Record : NoLossAt(r) /\ SeenAt(r) /\ PassAt(r)
    BY <2>1, <2>2 DEF NoLossAt, SeenAt, PassAt
  <2>. QED
    BY <2>3, <2>4, <2>5 DEF OInv
<1>2. IInv /\ OInv /\ [Next]_vars => OInv'
  <2>. SUFFICES ASSUME IInv, OInv, [Next]_vars PROVE OInv'
    OBVIOUS
  <2>1. TypeOK /\ Flow /\ Places /\ BufferIsRun
    BY DEF IInv
  <2>2. Attached' /\ RestJoined' /\ HeadKept' /\ RotatedFileFromStart'
    BY <2>1, AttachedStep, RestJoinedStep, HeadKeptStep, RotatedStep DEF OInv
  <2>3. \A r \in Record \ Undecodable : NoLossAt(r)'
    BY <2>1, NoLossStep DEF OInv
  <2>4. \A r \in Record : SeenAt(r)' /\ PassAt(r)'
    BY <2>1, SeenStep, PassStep DEF OInv
  <2>5. PrefixSeen'
    BY <2>1, <2>3, PrefixSeenStep DEF OInv
  <2>. QED
    BY <2>2, <2>3, <2>4, <2>5 DEF OInv
<1>. QED
  BY <1>1, <1>2, Invariant, PTL DEF Spec

(* Nothing the reader has moved past is missing: whatever the rotations, the *)
(* read size and the failing calls, every decodable record of a joined file  *)
(* up to the reader's place in it was handed on.                             *)
THEOREM NothingLost == Spec => []NoLossBehindReader
<1>1. IInv /\ OInv => NoLossBehindReader
  <2>. SUFFICES ASSUME IInv, OInv, NEW r \in Record \ Undecodable,
                       attach[r[1]] # Detached, attach[r[1]] < r[2], r[2] < Passed(r[1]),
                       \A j \in 1 .. Len(data) : data[j] # Next1(r)
                PROVE  delivered[r] > 0
    BY DEF NoLossBehindReader
  <2>1. NoLossAt(r)
    BY DEF OInv
  <2>2. CASE r[1] # oldFd
    BY <2>1, <2>2 DEF NoLossAt, Reached
  <2>3. CASE r[1] = oldFd
    <3>. DEFINE buf == DataBuffer \o data
                j   == r[2] + 1 - (size[oldFd] - Len(data))
    <3>0. /\ oldFd \in File /\ oldFd # NoFile /\ oldFd # LogFd
          /\ r[2] \in Nat /\ size[oldFd] \in Nat
          /\ DataBuffer \in Seq(Piece) /\ data \in Seq(Piece)
          /\ Len(DataBuffer) \in Nat /\ Len(data) \in Nat
      <4>1. r[1] \in File /\ r[2] \in Nat /\ r[1] # NoFile
        BY LogAssumption DEF Record, Piece, File, NoFile
      <4>2. TypeOK /\ Places
        BY DEF IInv
      <4>. QED
        BY <2>3, <4>1, <4>2, LogAssumption DEF TypeOK, LogTypeOK, Places, File
    <3>1. IsRun(buf, oldFd, size[oldFd])
      BY <3>0 DEF IInv, BufferIsRun
    <3>2. /\ Len(buf) = Len(DataBuffer) + Len(data)
          /\ \A i \in 1 .. Len(buf) :
               buf[i] = IF i <= Len(DataBuffer) THEN DataBuffer[i] ELSE data[i - Len(DataBuffer)]
      BY <3>0, ConcatProperties
    <3>. HIDE DEF buf
    <3>3. r[2] < size[oldFd]
      BY <2>3, <3>0 DEF Passed
    <3>4. SUFFICES ASSUME ~(r[2] < size[oldFd] - Len(data)) PROVE FALSE
      BY <2>1, <2>3 DEF NoLossAt, Reached
    <3>5. j \in 1 .. Len(data) /\ Len(DataBuffer) + j \in 1 .. Len(buf)
      BY <3>0, <3>2, <3>3, <3>4, SMTT(20)
    <3>6. data[j] = buf[Len(DataBuffer) + j]
      <4>. HIDE DEF j
      <4>. QED
        BY <3>0, <3>2, <3>5
    <3>7. buf[Len(DataBuffer) + j] = <<oldFd, size[oldFd] - Len(buf) + (Len(DataBuffer) + j)>>
      <4>. HIDE DEF j
      <4>. QED
        BY <3>1, <3>5 DEF IsRun
    <3>8. size[oldFd] - Len(buf) + (Len(DataBuffer) + j) = r[2] + 1
      BY <3>0, <3>2
    <3>9. data[j] = Next1(r)
      <4>. HIDE DEF j
      <4>. QED
        BY <2>3, <3>6, <3>7, <3>8 DEF Next1
    <3>. HIDE DEF j
    <3>. QED
      BY <3>5, <3>9
  <2>. QED
    BY <2>2, <2>3
<1>. QED
  BY <1>1, Invariant, OrderInvariant, PTL

(* As long as no read has failed, only the file the daemon starts on is      *)
(* joined anywhere but at its first byte, for every number of rotations.     *)
THEOREM RotatedRead == Spec => []RotatedFileFromStart
<1>1. OInv => RotatedFileFromStart
  BY DEF OInv
<1>. QED
  BY <1>1, OrderInvariant, PTL

(* BFE's write is the abstract log growing at its end, by the frame it has    *)
(* completed, or nothing the abstract log sees.                              *)
LEMMA WriteGrows ==
  ASSUME TypeOK, Places, BfeWrite
  PROVE  Follower!Grow \/ UNCHANGED <<{r \in Record : r[2] < size[r[1]]}, delivered, pass>>
<1>. DEFINE W == {r \in Record : r[2] < size[r[1]]}
            e == <<cur, size[cur]>>
<1>0. /\ cur \in File /\ size \in [File -> Nat]
      /\ size[cur] < MaxPiece /\ size' = [size EXCEPT ![cur] = size[cur] + 1]
      /\ UNCHANGED <<delivered, pass>>
      /\ \A f \in File : f \in Nat
      /\ \A f \in File : f > cur => size[f] = 0
  BY BoundsAssumption, LogAssumption DEF TypeOK, LogTypeOK, File, BfeWrite, Write, Places, history
<1>1. \A r \in Record : r = <<r[1], r[2]>> /\ r[1] \in File /\ r[2] \in 1 .. MaxPiece /\ r[2] \in Nat /\ r[2] % 2 = 1
  BY LogAssumption DEF Record, Piece, IsHead
<1>2. \A r \in Record : r[2] < size'[r[1]] <=> r[2] < size[r[1]] \/ r = e
  <2>. TAKE r \in Record
  <2>1. CASE r[1] = cur
    <3>1. r[2] < size'[r[1]] <=> r[2] < size[r[1]] \/ r[2] = size[cur]
      BY <1>0, <1>1, <2>1
    <3>. QED
      BY <1>1, <2>1, <3>1
  <2>2. CASE r[1] # cur
    BY <1>0, <1>1, <2>2
  <2>. QED
    BY <2>1, <2>2
<1>3. CASE e \in Record
  <2>1. W' = W \cup {e} /\ e \notin W
    BY <1>0, <1>2, <1>3
  <2>2. \A w \in W : Earlier(w, e)
    <3>. TAKE w \in W
    <3>1. w[1] \in File /\ w[2] \in Nat /\ w[2] < size[w[1]]
      BY <1>1
    <3>2. w[1] <= cur
      BY <1>0, <3>1
    <3>. QED
      BY <1>0, <3>1, <3>2 DEF Earlier
  <2>. QED
    BY <1>0, <1>3, <2>1, <2>2 DEF Follower!Grow
<1>4. CASE e \notin Record
  <2>1. W' = W
    BY <1>2, <1>4
  <2>. QED
    BY <1>0, <2>1
<1>. QED
  BY <1>3, <1>4

(* A step that hands records on hands on later ones than in this pass, and   *)
(* new ones later than ever before.                                          *)
LEMMA ReturnHandsOn ==
  ASSUME IInv, OInv, OInv', Read \/ (Finish /\ data # <<>>)
  PROVE  Follower!HandOn
<1>. DEFINE W   == {r \in Record : r[2] < size[r[1]]}
            S   == {r \in Record : delivered[r] > 0}
            new == S' \ S
<1>0. /\ cur \in File /\ LogFd \in File \cup {NoFile} /\ oldFd \in File \cup {NoFile}
      /\ offset \in Nat /\ size \in [File -> Nat]
      /\ DataBuffer \in Seq(Piece) /\ data \in Seq(Piece)
      /\ Len(data) \in Nat /\ Len(DataBuffer) \in Nat
      /\ delivered \in [Record -> Nat]
      /\ \A f \in File : f \in Nat \ {0} /\ f # NoFile
      /\ \A f \in File : size[f] \in 0 .. MaxPiece
      /\ TypeOK /\ Flow /\ Places /\ BufferIsRun
  BY BoundsAssumption, LogAssumption
     DEF IInv, TypeOK, LogTypeOK, File, NoFile, Detached, Places
<1>1. size' = size
  BY DEF Read, Finish, bfeVars
<1>2. \A r \in Record : r = <<r[1], r[2]>> /\ r[1] \in File /\ r[2] \in Nat
  BY LogAssumption DEF Record, Piece
<1>3. S \subseteq S'
  <2>1. ASSUME NEW r \in Record PROVE delivered[r] > 0 => delivered'[r] > 0
    <3>1. delivered[r] \in Nat
      BY <1>0
    <3>2. delivered'[r] = delivered[r] \/ delivered'[r] = delivered[r] + 1
      BY DEF Read, Finish, Return
    <3>. QED
      BY <3>1, <3>2
  <2>. QED
    BY <2>1
<1>5. ASSUME NEW e \in new, NEW s \in S
      PROVE  Earlier(s, e)
  <2>0. e \in Record /\ s \in Record /\ e # s /\ delivered[e] = 0 /\ delivered'[e] > 0 /\ delivered'[s] > 0
    BY <1>0, <1>3, <1>5
  <2>a. e \notin Undecodable /\ s \notin Undecodable
    BY <2>0 DEF OInv, SeenAt
  \* The file the records come from, and that nothing later has been seen.
  <2>1. \E f \in File : e[1] = f /\ s[1] <= f
    <3>1. CASE Read
      <4>. DEFINE left == size[LogFd] - offset
                  to   == offset + (IF left < MaxRead THEN left ELSE MaxRead)
                  buf  == DataBuffer \o Chunk(LogFd, offset, to)
      <4>1. LogFd \in File /\ oldFd = NoFile /\ pc # "seek" /\ IsRun(DataBuffer, LogFd, offset)
        BY <1>0, <3>1 DEF Read, Flow, BufferIsRun
      <4>2. to \in 0 .. MaxPiece /\ to \in Nat /\ offset < to /\ offset \in 0 .. MaxPiece
        BY <1>0, <3>1, <4>1, BoundsAssumption, LogAssumption, ReadAssumption DEF Read
      <4>3. e \in Frames(buf)
        BY <2>0, <3>1 DEF Read, Return
      <4>. HIDE DEF to
      <4>4. buf \in Seq(Piece) /\ IsRun(buf, LogFd, to)
        BY <1>0, <4>1, <4>2, RunExtends
      <4>. HIDE DEF buf
      <4>5. e[1] = LogFd
        BY <4>1, <4>2, <4>3, <4>4, FramesOfRun
      <4>6. s[1] <= LogFd
        BY <1>0, <2>0, <4>1 DEF OInv, SeenAt
      <4>. QED
        BY <4>1, <4>5, <4>6
    <3>2. CASE Finish
      <4>. DEFINE buf == DataBuffer \o data
      <4>1. oldFd \in File /\ e \in Frames(buf)
        BY <1>0, <2>0, <3>2 DEF Finish, Return, Flow
      <4>2. buf \in Seq(Piece) /\ IsRun(buf, oldFd, size[oldFd])
        BY <1>0, <4>1, ConcatProperties DEF BufferIsRun
      <4>. HIDE DEF buf
      <4>3. e[1] = oldFd
        BY <1>0, <4>1, <4>2, FramesOfRun
      <4>4. s[1] <= oldFd
        BY <1>0, <2>0, <4>1 DEF OInv, SeenAt
      <4>. QED
        BY <4>1, <4>3, <4>4
    <3>. QED
      BY <3>1, <3>2
  <2>2. CASE s[1] # e[1]
    BY <1>0, <1>2, <2>0, <2>1, <2>2 DEF Earlier
  <2>3. CASE s[1] = e[1]
    <3>1. s[2] # e[2]
      BY <1>2, <2>0, <2>3
    <3>2. ~(e[2] < s[2])
      <4>. SUFFICES ASSUME e[2] < s[2] PROVE FALSE
        OBVIOUS
      <4>1. CASE FromBegin
        \* The file was handed on as a prefix: e would have come before s.
        <5>1. delivered[e] > 0
          BY <1>0, <2>0, <2>a, <2>3, <4>1 DEF OInv, PrefixSeen
        <5>. QED
          BY <1>0, <2>0, <5>1
      <4>2. CASE ~FromBegin
        \* s lies behind the reader's place, and e does not.
        <5>1. BehindAt(s)
          BY <2>0, <4>2 DEF IInv, Mode
        <5>2. delivered[s] > 0 /\ s[2] \in Nat /\ e[2] \in Nat /\ s[1] \in File
          BY <1>2, <2>0
        <5>3. CASE Read
          <6>. DEFINE left == size[LogFd] - offset
                      to   == offset + (IF left < MaxRead THEN left ELSE MaxRead)
                      buf  == DataBuffer \o Chunk(LogFd, offset, to)
          <6>1. /\ LogFd \in File /\ oldFd = NoFile /\ pc # "seek"
                /\ IsRun(DataBuffer, LogFd, offset) /\ Len(DataBuffer) <= 1
            BY <1>0, <5>3 DEF Read, Flow, BufferIsRun
          <6>2. to \in 0 .. MaxPiece /\ to \in Nat /\ offset < to /\ offset \in 0 .. MaxPiece
            BY <1>0, <5>3, <6>1, BoundsAssumption, LogAssumption, ReadAssumption, SMTT(20) DEF Read
          <6>3. e \in Frames(buf)
            BY <2>0, <5>3 DEF Read, Return
          <6>. HIDE DEF to
          <6>4. /\ buf \in Seq(Piece) /\ IsRun(buf, LogFd, to)
                /\ Len(buf) = Len(DataBuffer) + to - offset
            BY <1>0, <6>1, <6>2, RunExtends
          <6>. HIDE DEF buf
          <6>5. e[1] = LogFd /\ to - Len(buf) < e[2]
            BY <6>1, <6>2, <6>3, <6>4, FramesOfRun
          <6>6. s[2] < offset
            BY <2>3, <5>1, <5>2, <6>1, <6>5 DEF BehindAt
          <6>. QED
            BY <1>0, <5>2, <6>1, <6>2, <6>4, <6>5, <6>6, SMTT(20)
        <5>4. CASE Finish
          <6>. DEFINE buf == DataBuffer \o data
          <6>1. oldFd \in File /\ Len(DataBuffer) <= 1 /\ e \in Frames(buf)
            BY <1>0, <2>0, <5>4 DEF Finish, Return, Flow, Places
          <6>2. /\ buf \in Seq(Piece) /\ IsRun(buf, oldFd, size[oldFd])
                /\ Len(buf) = Len(DataBuffer) + Len(data)
            BY <1>0, <6>1, ConcatProperties DEF BufferIsRun
          <6>. HIDE DEF buf
          <6>3. e[1] = oldFd /\ size[oldFd] - Len(buf) < e[2]
            BY <1>0, <6>1, <6>2, FramesOfRun
          <6>4. s[2] < size[oldFd] - Len(data)
            BY <2>3, <5>1, <5>2, <6>1, <6>3 DEF BehindAt
          <6>. QED
            BY <1>0, <5>2, <6>1, <6>2, <6>3, <6>4, SMTT(20)
        <5>. QED
          BY <5>3, <5>4
      <4>. QED
        BY <4>1, <4>2, ModeAssumption
    <3>. QED
      BY <1>2, <2>0, <2>3, <3>1, <3>2 DEF Earlier
  <2>. QED
    BY <2>2, <2>3
\* What is returned is cut from a run behind which this pass lies.
<1>6. \E buf \in Seq(Piece), f \in File, to \in 0 .. MaxPiece :
        /\ Return(buf)
        /\ IsRun(buf, f, to)
        /\ \A s \in pass : s[1] < f \/ (s[1] = f /\ s[2] <= to - Len(buf))
  <2>0. \A s \in pass : s \in Record /\ PassAt(s) /\ s[1] \in File /\ s[2] \in Nat
    BY <1>0, <1>2 DEF OInv, TypeOK
  <2>1. CASE Read
    <3>. DEFINE left == size[LogFd] - offset
                to   == offset + (IF left < MaxRead THEN left ELSE MaxRead)
                buf  == DataBuffer \o Chunk(LogFd, offset, to)
    <3>1. /\ LogFd \in File /\ oldFd = NoFile /\ pc # "seek"
          /\ IsRun(DataBuffer, LogFd, offset) /\ Len(DataBuffer) <= 1
      BY <1>0, <2>1 DEF Read, Flow, BufferIsRun
    <3>2. to \in 0 .. MaxPiece /\ to \in Nat /\ offset < to /\ offset \in 0 .. MaxPiece
      BY <1>0, <2>1, <3>1, BoundsAssumption, LogAssumption, ReadAssumption, SMTT(20) DEF Read
    <3>3. Return(buf)
      BY <2>1 DEF Read
    <3>. HIDE DEF to
    <3>4. /\ buf \in Seq(Piece) /\ IsRun(buf, LogFd, to)
          /\ Len(buf) = Len(DataBuffer) + to - offset
      BY <1>0, <3>1, <3>2, RunExtends
    <3>. HIDE DEF buf
    <3>5. ASSUME NEW s \in pass
          PROVE  s[1] < LogFd \/ (s[1] = LogFd /\ s[2] <= to - Len(buf))
      <4>1. s[1] <= LogFd /\ (s[1] = LogFd => s[2] < offset) /\ s[1] \in Nat /\ s[2] \in Nat
        BY <1>0, <2>0, <3>1 DEF PassAt
      <4>2. Len(DataBuffer) \in Nat /\ offset \in Nat /\ to \in Nat
        BY <1>0, <3>2
      <4>3. Len(buf) = Len(DataBuffer) + to - offset
        BY <3>4
      <4>4. to - Len(buf) = offset - Len(DataBuffer)
        BY <4>2, <4>3
      <4>5. Len(DataBuffer) \in 0 .. 1
        BY <3>1, <4>2
      <4>. QED
        BY <1>0, <3>1, <4>1, <4>2, <4>4, <4>5, SMTT(20)
    <3>. QED
      BY <3>1, <3>2, <3>3, <3>4, <3>5
  <2>2. CASE Finish /\ data # <<>>
    <3>. DEFINE buf == DataBuffer \o data
    <3>1. oldFd \in File /\ Len(DataBuffer) <= 1 /\ Return(buf)
      BY <1>0, <2>2 DEF Finish, Flow, Places
    <3>2. /\ buf \in Seq(Piece) /\ IsRun(buf, oldFd, size[oldFd])
          /\ Len(buf) = Len(DataBuffer) + Len(data)
      BY <1>0, <3>1, ConcatProperties DEF BufferIsRun
    <3>. HIDE DEF buf
    <3>3. ASSUME NEW s \in pass
          PROVE  s[1] < oldFd \/ (s[1] = oldFd /\ s[2] <= size[oldFd] - Len(buf))
      <4>1. /\ s[1] <= oldFd /\ (s[1] = oldFd => s[2] < size[oldFd] - Len(data))
            /\ s[1] \in Nat /\ s[2] \in Nat /\ size[oldFd] \in Nat
        BY <1>0, <2>0, <3>1 DEF PassAt
      <4>. QED
        BY <1>0, <3>1, <3>2, <4>1
    <3>. QED
      BY <1>0, <3>1, <3>2, <3>3
  <2>. QED
    BY <2>1, <2>2
<1>7. PICK buf \in Seq(Piece), f \in File, to \in 0 .. MaxPiece :
        /\ Return(buf)
        /\ IsRun(buf, f, to)
        /\ \A s \in pass : s[1] < f \/ (s[1] = f /\ s[2] <= to - Len(buf))
  BY <1>6
<1>. DEFINE es == Frames(buf) \ Undecodable
<1>8. /\ pass' = pass \cup es
      /\ delivered' = [r \in Record |-> IF r \in es THEN delivered[r] + 1 ELSE delivered[r]]
  BY <1>7 DEF Return
<1>9. es \subseteq W
  <2>1. es \subseteq Record
    BY <1>7, FramesAreRecords
  <2>2. \A r \in es : r \in pass' /\ r \in Record
    BY <2>1, <1>8
  <2>. QED
    BY <1>1, <2>2 DEF OInv, PassAt
<1>10. ASSUME NEW e \in es, NEW s \in pass PROVE Earlier(s, e)
  <2>1. e[1] = f /\ to - Len(buf) < e[2]
    BY <1>7, FramesOfRun
  <2>2. s \in Record /\ e \in Record
    BY <1>0, <1>9 DEF TypeOK
  <2>3. s[2] \in Nat /\ e[2] \in Nat /\ to \in Nat /\ Len(buf) \in Nat
    BY <1>2, <1>7, <2>2, LogAssumption
  <2>. QED
    BY <1>7, <2>1, <2>3 DEF Earlier
<1>11. ASSUME NEW e \in es, NEW s \in Record, delivered[e] = 0, delivered[s] > 0
       PROVE  Earlier(s, e)
  <2>1. e \in Record
    BY <1>9
  <2>2. delivered'[e] = 1
    BY <1>8, <1>11, <2>1
  <2>3. e \in new /\ s \in S
    BY <1>11, <2>1, <2>2
  <2>. QED
    BY <1>5, <2>3
<1>. HIDE DEF es, new, S
<1>. QED
  BY <1>1, <1>8, <1>9, <1>10, <1>11 DEF Follower!HandOn

(* logRead implements the abstract follower, for every number of rotations,  *)
(* failures and every read size.  Without -b the modules receive the log in  *)
(* its order and every record at most once.  With -b that holds between two  *)
(* failed reads, after which the file is read from its beginning again; a    *)
(* record that was never handed on is later than all that were, then too.    *)
THEOREM InLogOrder == Spec => FollowsInOrder
<1>. DEFINE W == {r \in Record : r[2] < size[r[1]]}
<1>1. Init => Follower!Init
  BY DEF Init, Follower!Init
<1>2. IInv /\ OInv /\ OInv' /\ [Next]_vars => [Follower!Next]_<<W, delivered, pass>>
  <2>. SUFFICES ASSUME IInv, OInv, OInv', [Next]_vars
                PROVE  [Follower!Next]_<<W, delivered, pass>>
    OBVIOUS
  <2>1. \/ BfeWrite \/ Read \/ (Finish /\ data # <<>>) \/ ReadFails \/ ReadRestFails
        \/ UNCHANGED <<size, delivered, pass>>
    BY DEF Next, Bfe, Step, Failure, BfeRename, Rename, BfeCreate, Create, history,
       StatPath, Open, OpenFails, Seek, SeekFails, StartRead, ReadEOF, Finish,
       IsLogCut, ReadRest, bfeVars, vars
  <2>2. CASE BfeWrite
    BY <2>2, WriteGrows DEF IInv, Follower!Next
  <2>3. CASE Read \/ (Finish /\ data # <<>>)
    BY <2>3, ReturnHandsOn DEF Follower!Next
  <2>4. CASE ReadFails \/ ReadRestFails
    <3>1. UNCHANGED <<size, delivered>> /\ pass' = IF FromBegin THEN {} ELSE pass
      BY <2>4 DEF ReadFails, ReadRestFails, CloseFileAndInit, NewPass, bfeVars
    <3>. QED
      BY <3>1 DEF Follower!Next, Follower!StartOver
  <2>5. CASE UNCHANGED <<size, delivered, pass>>
    BY <2>5
  <2>. QED
    BY <2>1, <2>2, <2>3, <2>4, <2>5
<1>. QED
  BY <1>1, <1>2, Invariant, OrderInvariant, PTL DEF Spec, FollowsInOrder, Follower!Spec
=============================================================================
