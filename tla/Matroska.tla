------------------------------ MODULE Matroska -------------------------------
(***************************************************************************)
(* The matroska reader (matroska.go) on top of EbmlDecoder: ReadHeader,    *)
(* which decodes Info and Tracks by the tags of the structs, and, whatever *)
(* came of that, ReadContent until it ends.                                *)
(*                                                                         *)
(* Here every byte of a file is read, so that what becomes of damaged,     *)
(* short and unusual files is seen; FramePipeline has what is done with    *)
(* the blocks, for files that are well formed.                             *)
(***************************************************************************)
EXTENDS MatroskaFile

CONSTANTS
  Files   \* the files that may be read, each of them also cut off; within is
          \* only told of their elements where that is known

ASSUME FilesAssumption ==
  \A f \in Files : f.bytes \in Seq(0 .. 255)

VARIABLES
  file,       \* the file as it was before it was cut off
  phase,      \* the loop that reads elements
  cntNeeded,
  entries,    \* track.Entries: whether an entry has audio
  satrack,    \* the place of the selected entry, 0 for none
  dec,        \* Matroska.dec, by its place in readers
  Blocks      \* the data of those that were heard, and where each of them was

headerVars == <<cntNeeded, entries, satrack, dec>>
vars == <<decoderVars, file, phase, headerVars, Blocks>>

\* Loops of ReadHeader, of Decode, and of ReadContent.
Phases == {"EBML", "Segment", "level 1", "decode",
           "content", "timestamp", "blocks", "group"}
Ends == {"EOF", "failed", "panic"}

\* NewMatroska, with a source that ends at any place of the file.
NewMatroska ==
  /\ file \in Files
  /\ \E n \in 0 .. Len(file.bytes) : bytes = SubSeq(file.bytes, 1, n)
  /\ NewReader
  /\ phase = "EBML"
  /\ cntNeeded = 0 /\ entries = <<>> /\ satrack = 0 /\ dec = 1
  /\ Blocks = <<>>

Decoding == ReadElement /\ UNCHANGED <<file, phase, headerVars, Blocks>>

-----------------------------------------------------------------------------
\* The element ReadElement returned.
elem == readers[Len(readers)]
Found(S) == step = "element" /\ id \in S
Other(S) == step = "element" /\ id \notin S

Continue(p, i) == phase' = p /\ ReadNext(i) /\ UNCHANGED err
Stop(p) == phase' = p /\ UNCHANGED <<at, step, err>>
NothingRead == UNCHANGED <<bytes, src, buffered, off, readers, first, id, file>>

\* The caller of ReadHeader ignores that it failed.
HeaderFails == Continue("content", 1) /\ UNCHANGED <<cntNeeded, satrack, dec>>

(* ReadHeader.                                                              *)

ReadHeader ==
  /\ phase = "EBML" /\ step \in {"element", "error"}
  /\ Continue(IF step = "element" THEN "Segment" ELSE "content", 1)
  /\ NothingRead /\ UNCHANGED <<headerVars, Blocks>>

\* That the second element was not read is not noticed: without a size for it
\* there is no Reader to go on with.
ReadSegment ==
  /\ phase = "Segment" /\ step \in {"element", "error"}
  /\ \/ id # Matroska_Segment /\ Continue("content", 1)
     \/ Found({Matroska_Segment}) /\ Continue("level 1", 2)
     \/ step = "error" /\ id = Matroska_Segment /\ Stop("panic")
  /\ NothingRead /\ UNCHANGED <<headerVars, Blocks>>

\* A cluster cannot be decoded, so that the header ends with it.
ReadLevel1 ==
  /\ phase = "level 1"
  /\ \/ /\ step = "error" \/ Found({Matroska_Cluster})
        /\ Continue("content", 1)
     \/ /\ Found({Matroska_Info, Matroska_Tracks})
        /\ Continue("decode", 3)
     \/ /\ Other({Matroska_Info, Matroska_Tracks, Matroska_Cluster})
        /\ Continue("level 1", 2)
  /\ NothingRead /\ UNCHANGED <<headerVars, Blocks>>

\* Mutant of Decoded: takes one of the two to be enough.
DecodedOne ==
  /\ cntNeeded' = cntNeeded + 1
  /\ satrack' = IF readers[3].id = Matroska_Tracks
                THEN Max({i \in DOMAIN entries : entries[i]} \cup {satrack})
                ELSE satrack
  /\ dec' = 2 /\ Continue("content", 2)

\* ReadHeader, when Decode of Info or Tracks returns.
Decoded ==
  /\ cntNeeded' = cntNeeded + 1
  /\ satrack' = IF readers[3].id = Matroska_Tracks
                THEN Max({i \in DOMAIN entries : entries[i]} \cup {satrack})
                ELSE satrack
  /\ IF cntNeeded' = 2 THEN dec' = 2 /\ Continue("content", 2)
     ELSE UNCHANGED dec /\ Continue("level 1", 2)

\* An entry is kept only if it was decoded.
withoutLast ==
  IF at > 3 /\ readers[3].id = Matroska_Tracks THEN Front(entries) ELSE entries

\* structMapping.unmarshal: an EOF, of the element or of the file, ends it.
EndOfStruct ==
  /\ phase = "decode" /\ step = "error"
  /\ \/ /\ err = "EOF" /\ at = 3
        /\ Decoded
        /\ UNCHANGED entries
     \/ /\ err = "EOF" /\ at > 3
        /\ Continue("decode", at - 1)
        /\ UNCHANGED <<entries, cntNeeded, satrack, dec>>
     \/ /\ err # "EOF"
        /\ HeaderFails
        /\ entries' = withoutLast
  /\ NothingRead /\ UNCHANGED Blocks

Fields == getStructMapping(readers[at].id)

NotMapped ==
  /\ phase = "decode" /\ Other(DOMAIN Fields)
  /\ Continue("decode", at)
  /\ NothingRead /\ UNCHANGED <<headerVars, Blocks>>

unmarshalStruct ==
  /\ phase = "decode" /\ Found(DOMAIN Fields) /\ Fields[id] = "struct"
  /\ Continue("decode", at + 1)
  /\ entries' =
       CASE id = Matroska_TrackEntry -> Append(entries, FALSE)
         [] id = Matroska_Audio -> [entries EXCEPT ![Len(entries)] = TRUE]
         [] OTHER -> entries
  /\ NothingRead /\ UNCHANGED <<cntNeeded, satrack, dec, Blocks>>

\* Lengths ReadInt, ReadString and ReadFloat accept.
Lengths == [int |-> 0 .. 8, string |-> 0 .. BufferSize, float |-> {4, 8},
            bytes |-> Nat]

\* The value that is read, unless its length is refused.
ReadValue(lengths) ==
  IF elem.len \in lengths THEN next(elem, elem.len)
  ELSE {Outcome("format", src, buffered, off, <<>>)}

\* A value that the buffer has no room for is counted and stays where it is.
ReadsValue(o) ==
  /\ Takes(o)
  /\ LET chain == [readers EXCEPT ![Len(readers)] =
                     IF o.err = "format" THEN @ ELSE Used(@, elem.len)]
     IN  readers' = IF o.err = "too small" THEN Astray(chain) ELSE chain
  /\ UNCHANGED <<bytes, first, id, file>>

unmarshal ==
  /\ phase = "decode" /\ Found(DOMAIN Fields) /\ Fields[id] \in DOMAIN Lengths
  /\ ~(Fields[id] = "bytes" /\ elem.len = Unknown)
  /\ \E o \in ReadValue(Lengths[Fields[id]]) :
       /\ ReadsValue(o)
       /\ IF o.err = "none"
          THEN Continue("decode", at) /\ UNCHANGED headerVars
          ELSE HeaderFails /\ entries' = withoutLast
  /\ UNCHANGED Blocks

\* A slice of -1 bytes.
unmarshalUnknown ==
  /\ phase = "decode" /\ Found(DOMAIN Fields) /\ Fields[id] = "bytes"
  /\ elem.len = Unknown
  /\ Stop("panic")
  /\ NothingRead /\ UNCHANGED <<headerVars, Blocks>>

-----------------------------------------------------------------------------
(* parseBlock.  It copies the data of the block to a slice as long as the   *)
(* block says it is, and reads it through a Reader of its own.              *)

\* What ReadVInt leaves: its later bytes are only used up if they are there.
afterVInt(b) ==
  IF b = <<>> THEN <<>>
  ELSE LET n == More(b[1])
       IN  SubSeq(b, IF Len(b) > n THEN n + 2 ELSE 2, Len(b))

\* Mutant of Parsed: a block needs a byte of data behind its time.
ParsedLong(b) ==
  LET rest == afterVInt(b) IN
  CASE Len(rest) < 2 -> "dropped"
    [] Len(rest) \in {2, 3} -> "panic"
    [] OTHER -> IF (rest[3] \div 2) % 4 # 0 THEN "dropped" ELSE "block"

\* The track and two bytes of time, then the flags, whose reading is not
\* checked, then data, of which there has to be some.
Parsed(b) ==
  LET rest == afterVInt(b) IN
  CASE Len(rest) < 2 -> "dropped"
    [] Len(rest) = 2 -> "panic"
    [] OTHER -> IF (rest[3] \div 2) % 4 # 0 \/ Len(rest) = 3 THEN "dropped"
                ELSE "block"

Heard(rest) ==
  [place |-> off, size |-> elem.len, data |-> SubSeq(rest, 4, Len(rest))]

\* What ReadContent does next does not depend on it, unless it panics.
parseBlock ==
  IF ~CanMake(elem.len) THEN Stop("panic") /\ NothingRead /\ UNCHANGED Blocks
  ELSE \E o \in Read(elem.len) :
         /\ Takes(o)
         /\ readers' = [readers EXCEPT ![Len(readers)].len = @ - (o.off - off)]
         /\ UNCHANGED <<bytes, first, id, file>>
         /\ IF o.err # "none" THEN UNCHANGED Blocks /\ Continue(phase, at)
            ELSE /\ Blocks' = IF Parsed(o.b) = "block"
                              THEN Append(Blocks, Heard(afterVInt(o.b)))
                              ELSE Blocks
                 /\ IF Parsed(o.b) = "panic" THEN Stop("panic")
                    ELSE Continue(phase, at)

-----------------------------------------------------------------------------
(* ReadContent.                                                             *)

\* GetNextFrames calls it again until it fails.
ReadContent ==
  /\ phase = "content"
  /\ \/ Found({Matroska_Cluster}) /\ Continue("timestamp", dec + 1)
     \/ Other({Matroska_Cluster}) /\ Continue("content", dec)
     \/ step = "error" /\ Stop(IF err = "EOF" THEN "EOF" ELSE "failed")
  /\ NothingRead /\ UNCHANGED <<headerVars, Blocks>>

\* Mutant of NoTimestamp: the error is not looked at.
NoTimestampUnchecked ==
  /\ phase = "timestamp"
  /\ Other({Matroska_Timestamp}) \/ step = "error"
  /\ Continue("timestamp", at)
  /\ NothingRead /\ UNCHANGED <<headerVars, Blocks>>

\* A cluster that ends before its timestamp is an error.
NoTimestamp ==
  /\ phase = "timestamp"
  /\ \/ Other({Matroska_Timestamp}) /\ Continue("timestamp", at)
     \/ step = "error" /\ Stop("failed")
  /\ NothingRead /\ UNCHANGED <<headerVars, Blocks>>

ReadTimestamp ==
  /\ phase = "timestamp" /\ Found({Matroska_Timestamp})
  /\ \E o \in ReadValue(Lengths.int) :
       /\ ReadsValue(o)
       /\ IF o.err = "none" THEN Continue("blocks", at) ELSE Stop("failed")
  /\ UNCHANGED <<headerVars, Blocks>>

\* Mutant of EndOfCluster: the group ends the cluster it is in.
EndOfClusterOrGroup ==
  /\ phase \in {"blocks", "group"} /\ step = "error"
  /\ IF err # "EOF" THEN Stop("failed") ELSE Continue("content", dec)
  /\ NothingRead /\ UNCHANGED <<headerVars, Blocks>>

\* The end of a cluster, or of a group in it.
EndOfCluster ==
  /\ phase \in {"blocks", "group"} /\ step = "error"
  /\ \/ err # "EOF" /\ Stop("failed")
     \/ err = "EOF" /\ phase = "blocks" /\ Continue("content", dec)
     \/ err = "EOF" /\ phase = "group" /\ Continue("blocks", at - 1)
  /\ NothingRead /\ UNCHANGED <<headerVars, Blocks>>

InCluster ==
  /\ \/ phase = "blocks" /\ Found({Matroska_BlockGroup})
        /\ Continue("group", at + 1)
     \/ phase = "blocks" /\ Other({Matroska_SimpleBlock, Matroska_BlockGroup})
        /\ Continue("blocks", at)
     \/ phase = "group" /\ Other({Matroska_Block})
        /\ Continue("group", at)
  /\ NothingRead /\ UNCHANGED <<headerVars, Blocks>>

ReadBlock ==
  /\ \/ phase = "blocks" /\ Found({Matroska_SimpleBlock})
     \/ phase = "group" /\ Found({Matroska_Block})
  /\ parseBlock
  /\ UNCHANGED headerVars

Header ==
  \/ ReadHeader \/ ReadSegment \/ ReadLevel1
  \/ EndOfStruct \/ NotMapped \/ unmarshalStruct \/ unmarshal
  \/ unmarshalUnknown

Content ==
  \/ ReadContent \/ NoTimestamp \/ ReadTimestamp
  \/ EndOfCluster \/ InCluster \/ ReadBlock

MatroskaNext == Decoding \/ Header \/ Content

Spec == NewMatroska /\ [][MatroskaNext]_vars /\ WF_vars(MatroskaNext)

-----------------------------------------------------------------------------
(* Properties                                                               *)

\* The track that is selected is one that was decoded, and the buffer of the
\* decoder is never overfull (decoder.go:386-397, matroska.go:96-108).
TypeOK ==
  /\ DecoderTypeOK
  /\ phase \in Phases \cup Ends
  /\ cntNeeded \in 0 .. 2
  /\ entries \in Seq(BOOLEAN)
  /\ satrack \in 0 .. Len(entries)
  /\ dec \in 1 .. 2

\* As long as the source has not ended, each open element ends where its size
\* says, however much of it was read, left to the elements in it, or skipped.
\* Whatever the file, nothing makes it end elsewhere but an element of unknown
\* size in it, and a value in it that the buffer has no room for
\* (decoder.go:179-204, 262-294).
Nested ==
  Left > 0 =>
    \A i \in DOMAIN readers :
      readers[i].end # Unknown =>
        off + readers[i].len + Below(i) = readers[i].end

\* Evaluated once.
WellFormedFiles == {f \in Files : WellFormed(f)}
HeadedFiles == {f \in WellFormedFiles : Headed(f)}
PlacesIn == [f \in WellFormedFiles |-> Places(f)]
AudioTrackIn == [f \in HeadedFiles |-> AudioTrackOf(f)]

\* Of a well-formed file nothing is heard before its header was accepted, with
\* the last track that has audio selected, however far a failed header went and
\* although its failure is ignored; unless the file was cut off in a value of
\* the header, whose bytes are still in the buffer then (youtubedl.go:70,
\* matroska.go:59-129, decoder.go:309-322).
HeaderFirst ==
  file \in WellFormedFiles /\ Blocks # <<>> =>
    \/ dec = 2 /\ (file \in HeadedFiles => satrack = AudioTrackIn[file])
    \/ dec = 1 /\ \E e \in Values(file) :
                   Body(file, e) < Len(bytes) /\ Len(bytes) < End(file, e)

\* Blocks that are heard are blocks of the file, in their order, none twice.
Genuine ==
  \A i \in DOMAIN Blocks :
    \E p \in {Blocks[i].place - n : n \in 2 .. 12} \cap Nat :
      /\ IsBlock(bytes, p) /\ Playable(ContentAt(bytes, p))
      /\ Blocks[i] = BlockAt(bytes, p)
      /\ i > 1 => Blocks[i - 1].place + Blocks[i - 1].size <= p

\* None is left out between two that are heard.
Gapless ==
  file \in WellFormedFiles /\ dec = 2 =>
    \A i \in DOMAIN Blocks :
      /\ Blocks[i].place \in PlacesIn[file]
      /\ \A p \in PlacesIn[file] :
           p < Blocks[i].place => \E j \in DOMAIN Blocks : Blocks[j].place = p

\* None is left out at all.
Complete ==
  file \in HeadedFiles /\ bytes = file.bytes /\ phase \in Ends =>
    /\ phase = "EOF"
    /\ PlacesIn[file] = {Blocks[i].place : i \in DOMAIN Blocks}

\* Whatever the file, what is heard is the data of blocks in it, in their order
\* and none twice; of a well-formed file no block is left out between two that
\* are heard, and of one that is whole, with a complete header, none at all
\* (matroska.go:136-206).
BlocksOfFile == Genuine /\ Gapless /\ Complete

\* The reader panics, or is out of memory, only where it has come to something in
\* the file that is the cause: a block that ends with its time, a block that says
\* it is of unknown size or longer than there is memory for, however few bytes
\* follow, a slice of unknown size, or a segment whose size is cut off
\* (matroska.go:66-75, 208-249, type.go:66).
PanicsForCause ==
  phase = "panic" => \E p \in 0 .. Len(bytes) - 1 : Deadly(bytes, p, off)

\* Whatever the file, reading it ends: no loop over elements goes on when
\* nothing more comes (type.go:171-202, matroska.go:68-129, 150-200).
ComesToAnEnd == <>(phase \in Ends)
=============================================================================
