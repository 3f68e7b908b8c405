------------------------------ MODULE LogReader ------------------------------
(***************************************************************************)
(* The log follower of the daemon: LogFileReader and PbLogReader.logRead   *)
(* (bfe_log_reader/log_reader.go, pb_log_reader.go, pb_buff_parse.go),     *)
(* running against the BFE process that writes and rotates the log file.   *)
(*                                                                         *)
(* Reads cut the stream of pieces (PbLog) anywhere, which is what          *)
(* DataBuffer is there for.                                                *)
(*                                                                         *)
(* One action is one system call of the reader, so that BFE may write,     *)
(* rename or create between any two of them.                               *)
(*                                                                         *)
(* An operator under the comment "Mutant" is no part of the model: it is   *)
(* the definition after it with a plausible bug, which the properties must *)
(* catch.                                                                  *)
(***************************************************************************)
EXTENDS PbLog

CONSTANTS
  MaxFault,     (* at most this many failing system calls    (bound)       *)
  MaxRead,      (* MAX_BUFF_SIZE, in pieces                                *)
  FromBegin,    (* isReadFromBegin, the flag -b                            *)
  Undecodable   (* records proto.Unmarshal rejects                         *)

Detached == -1

ASSUME BoundsAssumption == MaxFault \in Nat
ASSUME ReadAssumption == MaxRead \in Nat \ {0}
ASSUME ModeAssumption == FromBegin \in BOOLEAN /\ Undecodable \subseteq Record

VARIABLES
  faults,       (* system calls that have failed so far                    *)
  (* the reader                                                            *)
  pc,           (* the system call it makes next                           *)
  LogFd,        (* open file, or NoFile; fileInfo always describes it      *)
  offset,       (* position in LogFd                                       *)
  initDone,     (* FALSE: the next open seeks                              *)
  DataBuffer,   (* pieces read and not yet parsed                          *)
  oldFd,        (* file eofHandler relocates from, NoFile outside of it    *)
  data,         (* pieces eofHandler read from oldFd                       *)
  (* what the properties speak of                                          *)
  delivered,    (* delivered[r]: times logRead returned record r           *)
  pass,         (* records returned since the last start over with -b      *)
  attach,       (* attach[f]: position where reading f began, or Detached  *)
  resets        (* calls of CloseFileAndInit                               *)

readerVars == <<pc, LogFd, offset, initDone, DataBuffer, oldFd, data>>
history    == <<delivered, pass, attach, resets>>
vars       == <<bfeVars, faults, readerVars, history>>

-----------------------------------------------------------------------------
(* Data *)

\* DataBufferParse, as seen by the caller of logRead: the records that decode
\* are returned, the others only counted in ERR_PB_DECODE.
Return(buf) ==
  /\ delivered' = [r \in Record |->
                     IF r \in Frames(buf) \ Undecodable
                     THEN delivered[r] + 1 ELSE delivered[r]]
  /\ pass' = pass \cup (Frames(buf) \ Undecodable)

-----------------------------------------------------------------------------
(* BFE *)

Init ==
  /\ LogInit
  /\ faults = 0
  /\ pc = "logRead"
  /\ LogFd = NoFile
  /\ offset = 0
  /\ initDone = FALSE
  /\ DataBuffer = <<>>
  /\ oldFd = NoFile
  /\ data = <<>>
  /\ delivered = [r \in Record |-> 0]
  /\ pass = {}
  /\ attach = [f \in File |-> Detached]
  /\ resets = 0

BfeWrite  == Write /\ UNCHANGED <<faults, readerVars, history>>
BfeRename == Rename  /\ UNCHANGED <<faults, readerVars, history>>
BfeCreate == Create  /\ UNCHANGED <<faults, readerVars, history>>

Bfe == BfeWrite \/ BfeRename \/ BfeCreate

-----------------------------------------------------------------------------
(* Opening: logRead's first part, logRelocate, LogFileOpen *)

\* A system call fails; the number of failures is bounded.
Fault ==
  /\ faults < MaxFault
  /\ faults' = faults + 1

\* logRead with no open file: os.Stat, then logRelocate.  A stat that fails
\* while the name is there goes on to the open, as here.
StatPath ==
  /\ pc = "logRead"
  /\ LogFd = NoFile
  /\ IF path = NoFile
     THEN UNCHANGED readerVars          \* error, sleep, try again
     ELSE /\ DataBuffer' = <<>>
          /\ pc' = "open"
          /\ UNCHANGED <<LogFd, offset, initDone, oldFd, data>>
  /\ UNCHANGED <<bfeVars, faults, history>>

\* Where logRelocate returns to: eofHandler does not look at the outcome,
\* logRead gives up this round when there is no file.
AfterRelocate(opened) ==
  IF oldFd # NoFile THEN "finish" ELSE IF opened THEN "read" ELSE "logRead"

\* Mutant: every open seeks.
SeekAlways == TRUE

\* LogFileOpen: only a reader that is not initDone goes on to seek.
MustSeek == ~initDone

\* LogFileOpen: os.Open.
Open ==
  /\ pc = "open"
  /\ path # NoFile
  /\ LogFd' = path
  /\ offset' = 0
  /\ IF MustSeek
     THEN /\ pc' = "seek"
          /\ UNCHANGED attach
     ELSE /\ pc' = AfterRelocate(TRUE)
          /\ attach' = [attach EXCEPT ![path] = 0]
  /\ UNCHANGED <<bfeVars, faults, initDone, DataBuffer, oldFd, data, delivered, pass, resets>>

\* LogFileOpen: os.Open or fd.Stat fails, or the name is gone.
OpenFails ==
  /\ pc = "open"
  /\ \/ path = NoFile /\ UNCHANGED faults
     \/ Fault
  /\ pc' = AfterRelocate(FALSE)
  /\ UNCHANGED <<bfeVars, LogFd, offset, initDone, DataBuffer, oldFd, data, history>>

\* Mutant: the first open starts at the beginning.
SeekStart == 0

\* LogFileOpen: to the end, or with -b to the beginning.
SeekTarget == IF FromBegin THEN 0 ELSE size[LogFd]

\* LogFileOpen: fd.Seek.
Seek ==
  /\ pc = "seek"
  /\ offset' = SeekTarget
  /\ initDone' = TRUE
  /\ attach' = [attach EXCEPT ![LogFd] = offset']
  /\ pc' = AfterRelocate(TRUE)
  /\ UNCHANGED <<bfeVars, faults, LogFd, DataBuffer, oldFd, data, delivered, pass, resets>>

SeekFails ==
  /\ pc = "seek"
  /\ Fault
  /\ LogFd' = NoFile
  /\ offset' = 0
  /\ pc' = AfterRelocate(FALSE)
  /\ UNCHANGED <<bfeVars, initDone, DataBuffer, oldFd, data, history>>

-----------------------------------------------------------------------------
(* Reading: the rest of logRead, eofHandler *)

\* With -b the next open starts the file over.
NewPass == pass' = IF FromBegin THEN {} ELSE pass

\* Mutant: initDone is not reset.
CloseFileOnly ==
  /\ LogFd' = NoFile
  /\ offset' = 0
  /\ DataBuffer' = <<>>
  /\ attach' = [attach EXCEPT ![LogFd] = Detached]
  /\ resets' = resets + 1
  /\ NewPass
  /\ UNCHANGED initDone

\* CloseFileAndInit: forget the file and the buffered bytes; the next open
\* seeks again.
CloseFileAndInit ==
  /\ LogFd' = NoFile
  /\ offset' = 0
  /\ DataBuffer' = <<>>
  /\ initDone' = FALSE
  /\ attach' = [attach EXCEPT ![LogFd] = Detached]
  /\ resets' = resets + 1
  /\ NewPass

\* logRead enters its read directly when the file is already open.
StartRead ==
  /\ pc = "logRead"
  /\ LogFd # NoFile
  /\ pc' = "read"
  /\ UNCHANGED <<bfeVars, faults, LogFd, offset, initDone, DataBuffer, oldFd, data, history>>

\* FileRead(MAX_BUFF_SIZE): some data, parsed at once.
Read ==
  LET left == size[LogFd] - offset
      n    == IF left < MaxRead THEN left ELSE MaxRead
      buf  == DataBuffer \o Chunk(LogFd, offset, offset + n)
  IN
  /\ pc = "read"
  /\ left > 0
  /\ offset' = offset + n
  /\ Return(buf)
  /\ DataBuffer' = Remainder(buf)
  /\ pc' = "logRead"
  /\ UNCHANGED <<bfeVars, faults, LogFd, initDone, oldFd, data, attach, resets>>

\* FileRead(MAX_BUFF_SIZE): end of file.
ReadEOF ==
  /\ pc = "read"
  /\ offset = size[LogFd]
  /\ pc' = "cut"
  /\ UNCHANGED <<bfeVars, faults, LogFd, offset, initDone, DataBuffer, oldFd, data, history>>

ReadFails ==
  /\ pc = "read"
  /\ Fault
  /\ CloseFileAndInit
  /\ pc' = "logRead"
  /\ UNCHANGED <<bfeVars, oldFd, data, delivered>>

\* Mutant: the rotation goes unnoticed.
NeverCut ==
  /\ pc = "cut"
  /\ pc' = "logRead"
  /\ UNCHANGED <<bfeVars, faults, LogFd, offset, initDone, DataBuffer, oldFd, data, history>>

\* isLogCut: os.Stat of the path, compared with the open file.  When the name
\* is gone the reader stays with the file it has; so it does when the stat fails
\* for another reason, which is left out: the next round looks again.
IsLogCut ==
  /\ pc = "cut"
  /\ pc' = IF path \in {NoFile, LogFd} THEN "logRead" ELSE "rest"
  /\ UNCHANGED <<bfeVars, faults, LogFd, offset, initDone, DataBuffer, oldFd, data, history>>

\* Mutant: one read of the old file is taken for all of it.
RestOnce ==
  Chunk(LogFd, offset,
        IF size[LogFd] - offset < MaxRead THEN size[LogFd] ELSE offset + MaxRead)

\* eofHandler: all that is left of the old file.
Rest == Chunk(LogFd, offset, size[LogFd])

\* eofHandler: read that, then close the file on the way into logRelocate.
ReadRest ==
  /\ pc = "rest"
  /\ oldFd' = LogFd
  /\ data' = Rest
  /\ LogFd' = NoFile
  /\ offset' = 0
  /\ pc' = "open"
  /\ UNCHANGED <<bfeVars, faults, initDone, DataBuffer, history>>

\* eofHandler: that read fails; what it did read is dropped.
ReadRestFails ==
  /\ pc = "rest"
  /\ Fault
  /\ CloseFileAndInit
  /\ oldFd' = LogFd
  /\ data' = <<>>
  /\ pc' = "open"
  /\ UNCHANGED <<bfeVars, delivered>>

\* Mutant: the old file's incomplete frame is kept.
FinishKeepingRest ==
  /\ pc = "finish"
  /\ Return(DataBuffer \o data)
  /\ DataBuffer' = Remainder(DataBuffer \o data)
  /\ oldFd' = NoFile
  /\ data' = <<>>
  /\ pc' = "logRead"
  /\ UNCHANGED <<bfeVars, faults, LogFd, offset, initDone, attach, resets>>

\* logRead after eofHandler found a new file: parse the rest of the old one,
\* and let no byte of it meet the bytes of the new one.
Finish ==
  /\ pc = "finish"
  /\ IF data # <<>> THEN Return(DataBuffer \o data) ELSE UNCHANGED <<delivered, pass>>
  /\ DataBuffer' = <<>>
  /\ oldFd' = NoFile
  /\ data' = <<>>
  /\ pc' = "logRead"
  /\ UNCHANGED <<bfeVars, faults, LogFd, offset, initDone, attach, resets>>

-----------------------------------------------------------------------------

Step   == StatPath \/ Open \/ Seek \/ StartRead \/ Read \/ ReadEOF
            \/ IsLogCut \/ ReadRest \/ Finish
Failure == OpenFails \/ SeekFails \/ ReadFails \/ ReadRestFails

Next == Bfe \/ Step \/ Failure

Spec == Init /\ [][Next]_vars

\* Start loops for ever, so the reader always takes its next step.  BFE owes
\* it nothing, and no failure has to happen.  OpenFails belongs to the step
\* "open" when the name is gone.
FairSpec == Spec /\ WF_vars(Step) /\ WF_vars(OpenFails /\ UNCHANGED faults)

-----------------------------------------------------------------------------
(* Properties *)

TypeOK ==
  /\ LogTypeOK
  /\ faults \in 0 .. MaxFault
  /\ pc \in {"logRead", "open", "seek", "read", "cut", "rest", "finish"}
  /\ LogFd \in File \cup {NoFile}
  /\ offset \in 0 .. MaxPiece
  /\ initDone \in BOOLEAN
  /\ DataBuffer \in Seq(Piece)
  /\ oldFd \in File \cup {NoFile}
  /\ data \in Seq(Piece)
  /\ delivered \in [Record -> Nat]
  /\ pass \subseteq Record
  /\ attach \in [File -> (0 .. MaxPiece) \cup {Detached}]
  /\ resets \in 0 .. faults

\* The pieces of buf are the last ones of f before position to.
IsRun(buf, f, to) ==
  /\ Len(buf) <= to
  /\ \A i \in 1 .. Len(buf) : buf[i] = <<f, to - Len(buf) + i>>

\* The bytes waiting to be parsed are a gapless run of a single file that ends
\* where the reader stands in it, and never more than one incomplete frame: a
\* rotation, a failed read or a failed reopening never lets the bytes of two
\* files meet in DataBuffer (the resets in logRead and CloseFileAndInit).
BufferIsRun ==
  /\ oldFd = NoFile /\ LogFd # NoFile /\ pc # "seek" =>
        /\ IsRun(DataBuffer, LogFd, offset)
        /\ Len(DataBuffer) <= 1
  /\ oldFd # NoFile => IsRun(DataBuffer \o data, oldFd, size[oldFd])

\* Everything the reader has moved past was handed on: in a file it reads or
\* has left by a rotation, no decodable record between the position where
\* reading began and the position reached is missing.  eofHandler's last read
\* of the old file and the carried incomplete frame are what this needs.
Passed(f) == IF f = LogFd THEN offset ELSE size[f]
NoLossBehindReader ==
  \A r \in Record \ Undecodable :
    LET f == r[1] IN
      /\ attach[f] # Detached
      /\ attach[f] < r[2]
      /\ r[2] < Passed(f)
      /\ \A j \in 1 .. Len(data) : data[j] # Next1(r)
      => delivered[r] > 0

\* A file reached by rotation is read from its first byte: as long as no read
\* has failed, only the file the daemon started on is joined anywhere else.
RotatedFileFromStart ==
  \A f, g \in File :
    resets = 0 /\ f < g /\ attach[f] # Detached /\ attach[g] # Detached
      => attach[g] = 0

\* No record is handed on twice, whatever fails and whenever the file is
\* rotated; only with -b a failed read starts the file over.
NoDuplicates ==
  ~FromBegin \/ resets = 0 => \A r \in Record : delivered[r] <= 1

\* Once BFE stops rotating and calls stop failing, the reader ends up on the
\* file at the path with all of its complete records handed on.
CaughtUp ==
  <>[](path # NoFile =>
         /\ LogFd = path
         /\ \A r \in Record \ Undecodable :
              r[1] = path /\ attach[path] < r[2] /\ r[2] < size[path]
                => delivered[r] > 0)

\* The abstract follower: an ordered log, and deliveries that only move
\* forward in it; with -b a failed read may begin a new pass.
Follower == INSTANCE LogFollower WITH
  Entry        <- Record,
  Before       <- Earlier,
  MayStartOver <- FromBegin,
  written      <- {r \in Record : r[2] < size[r[1]]},
  handed       <- delivered

\* logRead implements the abstract follower.  Without -b what the modules
\* receive is the log in its order, each record once.  With -b the same holds
\* between two failed reads: CloseFileAndInit starts the file over, and a record
\* that is new is later than all before it nevertheless.
FollowsInOrder == Follower!Spec

=============================================================================
