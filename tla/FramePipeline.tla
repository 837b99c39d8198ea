---------------------------- MODULE FramePipeline ----------------------------
(***************************************************************************)
(* From the content of a video to frames of PCM: the matroska reader on    *)
(* top of ContentStream, its buffer of blocks (GetNextFrames), the opus    *)
(* decoder and the buffer of samples (GetPCMFrame).  All of it runs on the *)
(* producer goroutine of a track, so pc is the stack of its calls; what    *)
(* interleaves is the network, through the outcomes of Read.               *)
(*                                                                         *)
(* A cluster is the unit "cluster" and a unit "head" and a unit of data    *)
(* for each block.  "laced" is data parseBlock refuses, "corrupt" data the *)
(* decoder refuses, "cue" any other element of the segment.  Lengths of    *)
(* clusters are known.                                                     *)
(***************************************************************************)
EXTENDS ContentStream, SequencesExt

CONSTANTS
  BlockSamples,  \* samples decoded from a block
  neededSamples  \* samples in a frame

ASSUME BlockSamplesAssumption == BlockSamples \in Nat \ {0}
ASSUME neededSamplesAssumption == neededSamples \in Nat \ {0}

VARIABLES
  pc,                   \* the innermost call that is under way
  parsed,               \* units the ebml decoder is through with
  lost,                 \* places of the blocks that parseBlock failed on
  Blocks,               \* places of the blocks read and not yet decoded
  doneReadingMatroska,
  doneReading,
  pcmbuff,              \* decoded samples, each by the place of its block
  played                \* the samples of all frames returned so far

pipeVars == <<pc, parsed, lost, Blocks, doneReadingMatroska, doneReading,
              pcmbuff, played>>
vars == <<streamVars, pipeVars>>

\* The goroutine is in GetPCMFrame, GetNextFrames, ReadContent (before an
\* element of the segment, in a cluster, in parseBlock, before what
\* parseBlock left); or it got EOF, an error, or is decoding shifted bytes.
Calls == {"GetPCMFrame", "GetNextFrames", "segment", "cluster", "block", "rest"}
Ends == {"EOF", "error", "garbled"}

TypeOK ==
  /\ StreamTypeOK
  /\ pc \in Calls \cup Ends
  /\ parsed \in 0 .. Len(content)
  /\ lost \subseteq 1 .. parsed + 1
  /\ Blocks \in Seq(1 .. parsed)
  /\ doneReadingMatroska \in BOOLEAN
  /\ doneReading \in BOOLEAN
  /\ pcmbuff \in Seq(1 .. parsed)
  /\ Len(pcmbuff) < neededSamples + BlockSamples
  /\ played \in Seq(1 .. parsed)

Init ==
  /\ StreamInit
  /\ pc = "GetPCMFrame"
  /\ parsed = 0
  /\ lost = {}
  /\ Blocks = <<>>
  /\ doneReadingMatroska = FALSE
  /\ doneReading = FALSE
  /\ pcmbuff = <<>>
  /\ played = <<>>

-----------------------------------------------------------------------------
(* GetPCMFrame and GetNextFrames(1).                                        *)

ReturnFrame ==
  /\ pc = "GetPCMFrame"
  /\ Len(pcmbuff) >= neededSamples
  /\ played' = played \o SubSeq(pcmbuff, 1, neededSamples)
  /\ pcmbuff' = SubSeq(pcmbuff, neededSamples + 1, Len(pcmbuff))
  /\ UNCHANGED <<streamVars, pc, parsed, lost, Blocks, doneReadingMatroska,
                 doneReading>>

\* The rest of pcmbuff is returned with io.EOF, and getNextOpusFrame drops it.
ReturnEOF ==
  /\ pc = "GetPCMFrame"
  /\ Len(pcmbuff) < neededSamples
  /\ doneReading
  /\ pc' = "EOF"
  /\ UNCHANGED <<streamVars, parsed, lost, Blocks, doneReadingMatroska,
                 doneReading, pcmbuff, played>>

\* Mutant of WantFrame: decodes more although there is just enough.
WantFrameAtFull ==
  /\ pc = "GetPCMFrame"
  /\ Len(pcmbuff) <= neededSamples
  /\ ~doneReading
  /\ pc' = "GetNextFrames"
  /\ UNCHANGED <<streamVars, parsed, lost, Blocks, doneReadingMatroska,
                 doneReading, pcmbuff, played>>

WantFrame ==
  /\ pc = "GetPCMFrame"
  /\ Len(pcmbuff) < neededSamples
  /\ ~doneReading
  /\ pc' = "GetNextFrames"
  /\ UNCHANGED <<streamVars, parsed, lost, Blocks, doneReadingMatroska,
                 doneReading, pcmbuff, played>>

ReadContent ==
  /\ pc = "GetNextFrames"
  /\ ~doneReadingMatroska
  /\ Len(Blocks) <= 1
  /\ pc' = "segment"
  /\ UNCHANGED <<streamVars, parsed, lost, Blocks, doneReadingMatroska,
                 doneReading, pcmbuff, played>>

\* The decoded samples of the block at place b.
Pcm(b) == [k \in 1 .. BlockSamples |-> b]

\* Mutant of DecodeFrame: the whole buffer of blocks is cut off.
DecodeFrameClears ==
  /\ pc = "GetNextFrames"
  /\ Len(Blocks) > 1
  /\ content[Head(Blocks)] = "data"
  /\ Blocks' = <<>>
  /\ pcmbuff' = pcmbuff \o Pcm(Head(Blocks))
  /\ pc' = "GetPCMFrame"
  /\ UNCHANGED <<streamVars, parsed, lost, doneReadingMatroska, doneReading,
                 played>>

DecodeFrame ==
  /\ pc = "GetNextFrames"
  /\ Len(Blocks) > 1
  /\ content[Head(Blocks)] = "data"
  /\ Blocks' = Tail(Blocks)
  /\ pcmbuff' = pcmbuff \o Pcm(Head(Blocks))
  /\ pc' = "GetPCMFrame"
  /\ UNCHANGED <<streamVars, parsed, lost, doneReadingMatroska, doneReading,
                 played>>

DecodeFails ==
  /\ pc = "GetNextFrames"
  /\ Len(Blocks) > 1
  /\ content[Head(Blocks)] = "corrupt"
  /\ Blocks' = Tail(Blocks)
  /\ pc' = "error"
  /\ UNCHANGED <<streamVars, parsed, lost, doneReadingMatroska, doneReading,
                 pcmbuff, played>>

\* At the end of the content Blocks is emptied before its length is taken for
\* the result, so the block that is left is not returned.
NoMoreFrames ==
  /\ pc = "GetNextFrames"
  /\ doneReadingMatroska
  /\ Len(Blocks) <= 1
  /\ Blocks' = <<>>
  /\ doneReading' = TRUE
  /\ pc' = "GetPCMFrame"
  /\ UNCHANGED <<streamVars, parsed, lost, doneReadingMatroska, pcmbuff,
                 played>>

-----------------------------------------------------------------------------
(* ReadContent on the units delivered.                                      *)

ClusterEnds ==
  parsed < Len(content) => content[parsed + 1] \in {"cluster", "cue"}

\* The unit that comes next is there, at its place.
Have(kinds) ==
  /\ parsed < Len(delivered)
  /\ delivered[parsed + 1] = parsed + 1
  /\ content[parsed + 1] \in kinds
  /\ parsed' = parsed + 1

ReadCluster ==
  /\ pc = "segment"
  /\ Have({"cluster"})
  /\ pc' = "cluster"
  /\ UNCHANGED <<streamVars, lost, Blocks, doneReadingMatroska, doneReading,
                 pcmbuff, played>>

ReadOther ==
  /\ pc = "segment"
  /\ Have({"cue"})
  /\ pc' = "GetNextFrames"
  /\ UNCHANGED <<streamVars, lost, Blocks, doneReadingMatroska, doneReading,
                 pcmbuff, played>>

\* The segment's length is known and used up.
EndSegment ==
  /\ pc = "segment"
  /\ parsed = Len(content)
  /\ doneReadingMatroska' = TRUE
  /\ pc' = "GetNextFrames"
  /\ UNCHANGED <<streamVars, parsed, lost, Blocks, doneReading, pcmbuff,
                 played>>

EndCluster ==
  /\ pc = "cluster"
  /\ ClusterEnds
  /\ pc' = "GetNextFrames"
  /\ UNCHANGED <<streamVars, parsed, lost, Blocks, doneReadingMatroska,
                 doneReading, pcmbuff, played>>

ReadBlockHead ==
  /\ pc = "cluster"
  /\ Have({"head"})
  /\ pc' = "block"
  /\ UNCHANGED <<streamVars, lost, Blocks, doneReadingMatroska, doneReading,
                 pcmbuff, played>>

ParseBlock ==
  /\ pc = "block"
  /\ Have({"data", "corrupt"})
  /\ Blocks' = Append(Blocks, parsed + 1)
  /\ pc' = "cluster"
  /\ UNCHANGED <<streamVars, lost, doneReadingMatroska, doneReading, pcmbuff,
                 played>>

\* An error of parseBlock is ignored by its caller.
ParseBlockRefuses ==
  /\ pc = "block"
  /\ Have({"laced"})
  /\ lost' = lost \cup {parsed + 1}
  /\ pc' = "cluster"
  /\ UNCHANGED <<streamVars, Blocks, doneReadingMatroska, doneReading,
                 pcmbuff, played>>

SkipRest ==
  /\ pc = "rest"
  /\ Have(Kinds)
  /\ pc' = "cluster"
  /\ UNCHANGED <<streamVars, lost, Blocks, doneReadingMatroska, doneReading,
                 pcmbuff, played>>

\* The bytes that come next were delivered before: what is parsed from here
\* on is not the content.
MeetRepeated ==
  /\ pc \in {"segment", "cluster", "block", "rest"}
  /\ parsed < Len(delivered)
  /\ delivered[parsed + 1] # parsed + 1
  /\ pc' = "garbled"
  /\ UNCHANGED <<streamVars, parsed, lost, Blocks, doneReadingMatroska,
                 doneReading, pcmbuff, played>>

-----------------------------------------------------------------------------
(* The decoder's fill: it reads until it has what it wants.  An error that  *)
(* comes with enough data is dropped; one that comes without ends the call. *)

\* ReadElement fails: EOF is the end of the cluster or of the segment.
ElementFails ==
  /\ pc \in {"segment", "cluster", "rest"}
  /\ doneReadingMatroska' =
       (doneReadingMatroska \/ (pc = "segment" /\ err' = "EOF"))
  /\ pc' = IF err' = "EOF" THEN "GetNextFrames" ELSE "error"
  /\ UNCHANGED lost

\* parseBlock fails and its caller goes on.  If the bytes that had come for
\* the block are gone with the failed fill, too much is skipped after it.
BlockFails ==
  /\ pc = "block"
  /\ lost' = lost \cup {parsed + 1}
  /\ pc' \in {"rest", "garbled"}
  /\ UNCHANGED doneReadingMatroska

Fill ==
  /\ pc \in {"segment", "cluster", "block", "rest"}
  /\ pc = "cluster" => ~ClusterEnds
  /\ parsed = Len(delivered)
  /\ Read
  /\ \/ /\ Len(delivered') > parsed \/ err' = "nil"
        /\ UNCHANGED <<pc, lost, doneReadingMatroska>>
     \/ /\ Len(delivered') = parsed
        /\ err' # "nil"
        /\ ElementFails \/ BlockFails
  /\ UNCHANGED <<parsed, Blocks, doneReading, pcmbuff, played>>

-----------------------------------------------------------------------------
ReadContentStep ==
  \/ ReadCluster \/ ReadOther \/ EndSegment \/ EndCluster \/ ReadBlockHead
  \/ ParseBlock \/ ParseBlockRefuses \/ SkipRest \/ MeetRepeated \/ Fill

Next ==
  \/ ReturnFrame \/ ReturnEOF \/ WantFrame
  \/ ReadContent \/ DecodeFrame \/ DecodeFails \/ NoMoreFrames
  \/ ReadContentStep

Spec == Init /\ [][Next]_vars /\ WF_vars(Next)

-----------------------------------------------------------------------------
\* The blocks of the first p units of the content c that are not in l, in the
\* order of the content.
BlocksUpto(c, l) ==
  LET upto[p \in 0 .. Len(c)] ==
        IF p = 0 THEN <<>>
        ELSE IF c[p] \in {"data", "corrupt"} /\ p \notin l
             THEN Append(upto[p - 1], p)
             ELSE upto[p - 1]
  IN  upto

\* The blocks parsed and not lost.
Kept == BlocksUpto(content, lost)[parsed]

\* The samples of a sequence of blocks.
Samples(bs) ==
  [k \in 1 .. BlockSamples * Len(bs) |-> bs[((k - 1) \div BlockSamples) + 1]]

\* What is played is what was parsed out of the container, from its start, whole
\* and in order; and until the end of the content is met nothing of it is gone:
\* what is not played is buffered or waits in a block (GetNextFrames,
\* GetPCMFrame).
HeardInOrder ==
  /\ IsPrefix(played \o pcmbuff, Samples(Kept))
  /\ pc # "error" /\ ~doneReading =>
       played \o pcmbuff \o Samples(Blocks) = Samples(Kept)

\* At the end of the content the rest of the buffer is returned, as the comment
\* on GetNextFrames says (matroska.go:293).
RestReturned == doneReading => played \o pcmbuff = Samples(Kept)

\* A track that ends with EOF was read to its end, however many responses
\* ended early, broke or were refused, and what is decoded and not played is
\* less than a frame (Read, GetNextFrames, GetPCMFrame).
EOFIsTheEnd ==
  pc = "EOF" => parsed = Len(content) /\ Len(pcmbuff) < neededSamples

\* What faults cost.  A failed request costs one block at most, besides the laced
\* ones that parseBlock refuses.  A broken connection costs nothing, unless data
\* comes with its error: that is handed over and not counted, though the comment
\* at persistentYoutubeStream.go:46 says that no data is returned then, and comes
\* again in the middle of what follows.  Only that or a failed request makes what
\* is parsed differ from the content, and only a failed request or a block that
\* cannot be decoded ends the track with an error (Read, RequestNext).
OnlyFailuresHurt ==
  /\ Cardinality({b \in lost : content[b] # "laced"}) <= failed
  /\ pc = "garbled" => failed > 0 \/ uncounted > 0
  /\ pc = "error" =>
       failed > 0 \/ \E b \in 1 .. parsed : content[b] = "corrupt"

\* The source comes to an end: it never waits for ever on a body that has
\* nothing more to give (Read, RequestNext, GetNextFrames).
SourceEnds == <>(pc \in Ends)
=============================================================================
