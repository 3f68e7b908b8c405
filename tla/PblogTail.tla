------------------------------ MODULE PblogTail ------------------------------
(***************************************************************************)
(* bfe-pblog-tool tail [-n N] [-f] (cmd/bfe-pblog-tool/tail/pb_tail.go,    *)
(* tail.go; unix build, where getInode is the inode): the last N records   *)
(* of a log, then the records appended to it, while BFE writes and rotates *)
(* it and the user presses Ctrl-C.                                         *)
(*                                                                         *)
(* tailLastN reads the file backwards, one chunk per action, up to the     *)
(* size it found; followFrom polls the path, and its Stat and its Open are *)
(* different actions.  Time is left out: a poll may come at any moment.    *)
(***************************************************************************)
EXTENDS PbLog, FiniteSetsExt

CONSTANTS
  Asked,          (* the values of -n                                      *)
  Follow,         (* the flag -f                                           *)
  defaultTailN,
  MaxTailRecords,
  initialChunk,   (* in pieces                                             *)
  maxChunk,       (* in pieces                                             *)
  MAX_BUFF_SIZE   (* in pieces                                             *)

ASSUME TailAssumption ==
  /\ Asked \subseteq Int /\ Follow \in BOOLEAN
  /\ {defaultTailN, MaxTailRecords, initialChunk, MAX_BUFF_SIZE} \subseteq Nat \ {0}
  /\ defaultTailN <= MaxTailRecords
  /\ maxChunk \in Nat /\ initialChunk <= maxChunk

VARIABLES
  pc,             (* what the tool does next                               *)
  n,              (* opts.N after validateTailOptions                      *)
  fd,             (* the open file, or NoFile                              *)
  inode,          (* inode of tailLastN, currentInode of followFrom        *)
  offset,         (* offset of tailLastN, currentOffset of followFrom      *)
  chunkSize,      (* tailLastN                                             *)
  buffer,         (* tailLastN: pieces read, as the code joins them        *)
  remainder,      (* leftover of tailLastN, remainder of followFrom        *)
  parsedRecords,  (* tailLastN; in followFrom the records of one parse     *)
  toRead,         (* followFrom: what the last Stat says is still to read  *)
  canceled,       (* set by the first Ctrl-C                               *)
  (* what the properties speak of                                          *)
  out,            (* records printed                                       *)
  base,           (* position in fd where followFrom began                 *)
  raced           (* a reopening got another file than the Stat before it  *)

tailVars == <<pc, n, fd, inode, offset, chunkSize, buffer, remainder,
              parsedRecords, toRead, canceled, out, base, raced>>
chunkVars == <<chunkSize, buffer>>

Least(a, b) == Min({a, b})

\* Mutant: no default and no cap.
Uncapped(k) == k
\* validateTailOptions, for k >= 0.
Validated(k) == IF k = 0 THEN defaultTailN ELSE Least(k, MaxTailRecords)

TailInit ==
  /\ \E k \in Asked :
       IF k < 0 THEN pc = "exit" /\ n = 0 ELSE pc = "open" /\ n = Validated(k)
  /\ fd = NoFile /\ inode = NoFile
  /\ offset = 0 /\ toRead = 0 /\ base = 0
  /\ chunkSize = initialChunk
  /\ buffer = <<>> /\ remainder = <<>> /\ parsedRecords = <<>>
  /\ canceled = FALSE /\ out = <<>> /\ raced = FALSE

-----------------------------------------------------------------------------
(* tailLastN *)

\* os.Open(fp); without a file the tool ends with an error.
TailOpen ==
  /\ pc = "open"
  /\ fd' = path
  /\ pc' = IF path = NoFile THEN "exit" ELSE "stat"
  /\ UNCHANGED <<n, inode, offset, chunkVars, remainder, parsedRecords,
                 toRead, canceled, out, base, raced>>

\* f.Stat(): the size up to which this tailLastN, and from which followFrom,
\* will read.
TailStat ==
  /\ pc = "stat"
  /\ offset' = size[fd] /\ base' = size[fd]
  /\ inode' = fd
  /\ pc' = "chunk"
  /\ UNCHANGED <<n, fd, chunkVars, remainder, parsedRecords, toRead,
                 canceled, out, raced>>

MoreChunks == offset > 0 /\ Len(parsedRecords) < n

\* append(chunk, append(leftover, buffer...)...)
Join(chunk) == chunk \o remainder \o buffer

\* One iteration of the loop: the chunk before offset is put in front, and
\* the whole buffer is parsed, its part parsed before included.
ReadChunk ==
  /\ pc = "chunk" /\ MoreChunks
  /\ LET len == Least(chunkSize, offset)
         all == Join(Chunk(fd, offset - len, offset))
     IN  /\ offset' = offset - len
         /\ buffer' = all
         /\ parsedRecords' = parsedRecords \o FrameSeq(all)
         /\ remainder' = Remainder(all)
         /\ chunkSize' = Least(2 * len, maxChunk)
  /\ UNCHANGED <<pc, n, fd, inode, toRead, canceled, out, base, raced>>

\* Mutant: the first records are kept.
KeepFirst(recs) == SubSeq(recs, 1, Least(n, Len(recs)))
\* parsedRecords[len(parsedRecords)-n:]
KeepLast(recs) == SubSeq(recs, Len(recs) - Least(n, Len(recs)) + 1, Len(recs))

\* The loop ends; tailLastN's buffers are gone with it.
ChunksRead ==
  /\ pc = "chunk" /\ ~MoreChunks
  /\ parsedRecords' = KeepLast(parsedRecords)
  /\ chunkSize' = initialChunk /\ buffer' = <<>> /\ remainder' = <<>>
  /\ pc' = "emit"
  /\ UNCHANGED <<n, fd, inode, offset, toRead, canceled, out, base, raced>>

\* emit prints one record.  After the first Ctrl-C it returns ErrTailStop
\* instead, on which tailLastN and followFrom return.
Emit ==
  /\ pc \in {"emit", "print"} /\ parsedRecords # <<>>
  /\ IF canceled
     THEN pc' = "exit" /\ UNCHANGED <<parsedRecords, out>>
     ELSE /\ out' = Append(out, Head(parsedRecords))
          /\ parsedRecords' = Tail(parsedRecords)
          /\ UNCHANGED pc
  /\ UNCHANGED <<n, fd, inode, offset, chunkVars, remainder, toRead, canceled,
                 base, raced>>

\* tailLastN closes the file and returns; PblogTail goes on with -f only.
TailDone ==
  /\ pc = "emit" /\ parsedRecords = <<>>
  /\ fd' = NoFile
  /\ pc' = IF Follow THEN "follow" ELSE "exit"
  /\ UNCHANGED <<n, inode, offset, chunkVars, remainder, parsedRecords,
                 toRead, canceled, out, base, raced>>

-----------------------------------------------------------------------------
(* followFrom *)

\* Mutant: followFrom reads the file from its beginning.
FromTheStart == 0
\* followFrom's startOffset: the size tailLastN returned.
StartOffset == base

\* os.Open(fp) and the seek to startOffset, on whatever the path names now.
FollowOpen ==
  /\ pc = "follow"
  /\ fd' = path
  /\ offset' = StartOffset
  /\ pc' = IF path = NoFile THEN "exit" ELSE "poll"
  /\ UNCHANGED <<n, inode, chunkVars, remainder, parsedRecords, toRead,
                 canceled, out, base, raced>>

Rotated == path # inode \/ size[path] < offset

\* What is left to complete after a rotation.
RemainderReset == <<>>

\* os.Stat(fp) succeeds (otherwise the loop sleeps and tries again) and shows
\* another file: the position starts over, and the file is opened next.
PollRotated ==
  /\ pc = "poll" /\ path # NoFile /\ Rotated
  /\ inode' = path
  /\ offset' = 0 /\ base' = 0
  /\ remainder' = RemainderReset
  /\ toRead' = size[path]
  /\ pc' = "reopen"
  /\ UNCHANGED <<n, fd, chunkVars, parsedRecords, canceled, out, raced>>

\* os.Open(fp): the path may by now name a newer file, or none.
Reopen ==
  /\ pc = "reopen"
  /\ fd' = path
  /\ raced' = (raced \/ path \notin {inode, NoFile})
  /\ pc' = CASE path = NoFile -> "exit"
             [] path # NoFile /\ toRead > 0 -> "read"
             [] OTHER -> "poll"
  /\ UNCHANGED <<n, inode, offset, chunkVars, remainder, parsedRecords,
                 toRead, canceled, out, base>>

\* Mutant: only growth beyond a whole read is noticed.
GrownByBuffer == size[path] > offset + MAX_BUFF_SIZE
\* size > currentOffset
Grown == size[path] > offset

PollGrown ==
  /\ pc = "poll" /\ path # NoFile /\ ~Rotated /\ Grown
  /\ toRead' = size[path] - offset
  /\ pc' = "read"
  /\ UNCHANGED <<n, fd, inode, offset, chunkVars, remainder, parsedRecords,
                 canceled, out, base, raced>>

\* Mutant: the remainder is forgotten between two reads.
NewChunkOnly(chunk) == chunk
\* append(remainder, chunk...)
WithRemainder(chunk) == remainder \o chunk

\* One io.ReadFull: it returns what the open file has, which is less than
\* asked for when the Stat was about another file; nothing ends the reading.
FollowRead ==
  /\ pc = "read"
  /\ LET got == Least(Least(toRead, MAX_BUFF_SIZE), Max({size[fd] - offset, 0}))
         buf == WithRemainder(Chunk(fd, offset, offset + got))
     IN  IF got = 0
         THEN /\ toRead' = 0 /\ pc' = "poll"
              /\ UNCHANGED <<offset, parsedRecords, remainder>>
         ELSE /\ offset' = offset + got
              /\ toRead' = toRead - got
              /\ parsedRecords' = FrameSeq(buf)
              /\ remainder' = Remainder(buf)
              /\ pc' = "print"
  /\ UNCHANGED <<n, fd, inode, chunkVars, canceled, out, base, raced>>

\* All records of this read are printed: the rest of the growth, or a sleep.
Printed ==
  /\ pc = "print" /\ parsedRecords = <<>>
  /\ pc' = IF toRead > 0 THEN "read" ELSE "poll"
  /\ UNCHANGED <<n, fd, inode, offset, chunkVars, remainder, parsedRecords,
                 toRead, canceled, out, base, raced>>

-----------------------------------------------------------------------------

\* Ctrl-C: the first sets canceled, the second ends the process.
Interrupt ==
  /\ pc # "exit"
  /\ canceled' = TRUE
  /\ pc' = IF canceled THEN "exit" ELSE pc
  /\ UNCHANGED <<n, fd, inode, offset, chunkVars, remainder, parsedRecords,
                 toRead, out, base, raced>>

TailStep == TailOpen \/ TailStat \/ ReadChunk \/ ChunksRead \/ Emit \/ TailDone
              \/ FollowOpen \/ PollRotated \/ Reopen \/ PollGrown \/ FollowRead
              \/ Printed

-----------------------------------------------------------------------------
(* Properties *)

TailTypeOK ==
  /\ pc \in {"open", "stat", "chunk", "emit", "follow", "poll", "reopen",
             "read", "print", "exit"}
  /\ n \in 0 .. MaxTailRecords
  /\ {fd, inode} \subseteq File \cup {NoFile}
  /\ {offset, toRead, base} \subseteq 0 .. MaxPiece
  /\ chunkSize \in 1 .. maxChunk
  /\ {buffer, remainder} \subseteq Seq(Piece)
  /\ {parsedRecords, out} \subseteq Seq(Record)
  /\ {canceled, raced} \subseteq BOOLEAN

\* tail -n prints the last n records that were complete in the file when it
\* was opened, oldest first ("Emit in chronological order", pb_tail.go:155).
LastRecords ==
  pc = "emit" =>
    LET all  == base \div 2
        kept == Least(n, all)
    IN  out \o parsedRecords = [k \in 1 .. kept |-> <<inode, 2 * (all - kept + k) - 1>>]

\* Records are printed in the order of the log and none twice, through the
\* handover from tailLastN to followFrom and through rotations; only when
\* two rotations fall around one reopening (raced) is a file printed again.
InOrderOnce ==
  ~raced => \A i, j \in DOMAIN out : i < j => Earlier(out[i], out[j])

\* followFrom passes no record by: all those that begin and end between the
\* place where it began in the open file and the place it has reached are
\* printed, or about to be.  (A frame cut by that first place belongs to none
\* of the two halves of the tool, and the rest of a rotated file is dropped.)
NothingPassed ==
  fd # NoFile /\ pc \in {"poll", "read", "print"} =>
    \A r \in Record :
      r[1] = fd /\ base < r[2] /\ r[2] < offset
        => \E i \in DOMAIN (out \o parsedRecords) : (out \o parsedRecords)[i] = r

\* The incomplete frame followFrom keeps is the one that ends where it stands in
\* the open file: it is never completed with the bytes of another file.
RemainderAtOffset ==
  pc \in {"poll", "read", "print"} /\ remainder # <<>>
    => remainder = << <<fd, offset>> >>

\* tail -f ends up on the file at the path with its new records printed, once
\* BFE stops rotating, unless it has ended.
FollowCatchesUp ==
  <>[](pc = "exit" \/ path = NoFile
         \/ /\ fd = path
            /\ \A r \in Record :
                 r[1] = path /\ base < r[2] /\ r[2] < size[path]
                   => \E i \in DOMAIN out : out[i] = r)
=============================================================================
