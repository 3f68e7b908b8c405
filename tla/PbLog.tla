-------------------------------- MODULE PbLog --------------------------------
(***************************************************************************)
(* The pb access log: the files the BFE process writes and rotates, and    *)
(* the cutting of a byte buffer into records (b2log.BuffParse behind       *)
(* bfe_log_reader/pb_buff_parse.go), which the daemon and bfe-pblog-tool   *)
(* share.                                                                  *)
(*                                                                         *)
(* Files are numbered in the order BFE creates them; the number is the     *)
(* inode.  The log is a stream of b2log frames and every frame reaches the *)
(* file in two pieces, a head (magic and length) and a tail, so a file is  *)
(* the pieces <<f, 1>>, <<f, 2>>, ... with the odd ones heads.  A record is  *)
(* named by its head.                                                      *)
(*                                                                         *)
(* An operator under the comment "Mutant" is no part of the model: it is   *)
(* the definition after it with a plausible bug, which the properties must *)
(* catch.                                                                  *)
(***************************************************************************)
EXTENDS Integers, Sequences, Selection

CONSTANTS
  MaxFile,      (* BFE creates at most this many files       (bound)       *)
  MaxPiece      (* at most this many pieces per file         (bound)       *)

NoFile == 0

File  == 1 .. MaxFile
Piece == File \X (1 .. MaxPiece)
IsHead(p) == p[2] % 2 = 1
Record == {p \in Piece : IsHead(p)}

ASSUME LogAssumption == MaxFile \in Nat \ {0} /\ MaxPiece \in Nat

VARIABLES
  cur,          (* the file BFE writes to                                  *)
  path,         (* the file logPath names, or NoFile                       *)
  size          (* size[f]: pieces written to f so far                     *)

bfeVars == <<cur, path, size>>

-----------------------------------------------------------------------------
(* Data *)

\* Mutant: a read that takes one piece too many.
ChunkOneMore(f, from, to) == [j \in 1 .. (to - from + 1) |-> <<f, from + j>>]

\* The pieces of file f after position from, up to position to.
Chunk(f, from, to) == [j \in 1 .. (to - from) |-> <<f, from + j>>]

Next1(p) == <<p[1], p[2] + 1>>

\* Where the frames of a buffer begin.  A piece that is no head is skipped
\* (resynchronisation on the magic), a head without its tail stays.  (In a buffer
\* that tailLastN has glued, b2log would take the bytes that follow a head for its
\* body, whatever they are; that is left out.)
FrameStarts(buf) ==
  {i \in 1 .. (Len(buf) - 1) : IsHead(buf[i]) /\ buf[i + 1] = Next1(buf[i])}

\* PbBuffParse: the records cut from a buffer, and the order it returns them in.
Frames(buf)   == {buf[i] : i \in FrameStarts(buf)}
FrameSeq(buf) == SelectAt(buf, FrameStarts(buf))

\* Mutant: the incomplete frame is thrown away.
KeepNothing(buf) == <<>>
\* Mutant: nothing is cut off the buffer.
KeepAll(buf) == buf

\* PbBuffParse: what is left in the buffer, the incomplete frame at its end.
Remainder(buf) ==
  IF buf # <<>> /\ IsHead(buf[Len(buf)]) THEN <<buf[Len(buf)]>> ELSE <<>>

-----------------------------------------------------------------------------
(* BFE *)

LogInit ==
  /\ cur = 1 /\ path = 1
  /\ size \in {s \in [File -> 0 .. MaxPiece] : \A f \in File \ {1} : s[f] = 0}

Write ==
  /\ size[cur] < MaxPiece
  /\ size' = [size EXCEPT ![cur] = @ + 1]
  /\ UNCHANGED <<cur, path>>

\* Rotation, first half: the name is gone, BFE still writes to the file.
Rename ==
  /\ path = cur
  /\ path' = NoFile
  /\ UNCHANGED <<cur, size>>

\* Rotation, second half: a new file under the old name.  The last frame of
\* the old one may have been left without its tail.
Create ==
  /\ path = NoFile
  /\ cur < MaxFile
  /\ cur' = cur + 1
  /\ path' = cur + 1
  /\ UNCHANGED size

LogTypeOK ==
  /\ cur \in File
  /\ path \in File \cup {NoFile}
  /\ size \in [File -> 0 .. MaxPiece]

\* The order in which records reach the log.
Earlier(r, s) == r[1] < s[1] \/ (r[1] = s[1] /\ r[2] < s[2])
=============================================================================
