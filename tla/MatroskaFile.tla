---------------------------- MODULE MatroskaFile ----------------------------
(***************************************************************************)
(* What is in a file, told from its bytes without a reader: what Matroska  *)
(* promises is stated in these terms.                                      *)
(***************************************************************************)
EXTENDS EbmlDecoder, MatroskaTypes

CONSTANTS
  Memory   \* the length of the longest slice there is memory for

ASSUME MemoryAssumption == Memory \in Nat

-----------------------------------------------------------------------------
(* Elements among bytes b: p is how many bytes come before one.             *)

\* An id, or a size, has as many bytes as its first byte tells.
HasId(b, p) == p < Len(b) /\ b[p + 1] >= 16 /\ p + More(b[p + 1]) < Len(b)
HasSize(b, p) ==
  p < Len(b) /\ More(b[p + 1]) < 8 /\ p + More(b[p + 1]) < Len(b)
After(b, p) == p + 1 + More(b[p + 1])

\* The n bytes from p on, after what is known of the number.
NumberAt(b, p, n, high) == BigEndian(SubSeq(b, p + 1, p + n), high)[n]

SizeAt(b, p) ==
  LET n    == More(b[p + 1])
      high == b[p + 1] % 2 ^ (7 - n)
  IN
  IF high = 2 ^ (7 - n) - 1 /\ \A i \in 1 .. n : b[p + 1 + i] = 255
  THEN Unknown ELSE NumberAt(b, p + 1, n, high)

Begins(b, p) == HasId(b, p) /\ HasSize(b, After(b, p))
IdAt(b, p) == NumberAt(b, p + 1, More(b[p + 1]), b[p + 1])
LenAt(b, p) == SizeAt(b, After(b, p))
BodyAt(b, p) == After(b, After(b, p))
ContentAt(b, p) == SubSeq(b, BodyAt(b, p) + 1, BodyAt(b, p) + LenAt(b, p))

-----------------------------------------------------------------------------
(* Blocks, with content c.                                                  *)

BlockIds == {Matroska_SimpleBlock, Matroska_Block}

\* make([]byte, n) panics if n is negative or no slice can be as long, and what
\* there is no memory for ends the program.
CanMake(n) == n \in 0 .. Memory

\* The number of the track comes first, then two bytes of time, the flags, and
\* the data.  A number that is cut off counts for one byte.
TrackLength(c) == IF Len(c) > More(c[1]) THEN More(c[1]) + 1 ELSE 1
OnlyTime(c) == c # <<>> /\ Len(c) = TrackLength(c) + 2
Playable(c) ==
  /\ c # <<>> /\ Len(c) > TrackLength(c) + 3
  /\ (c[TrackLength(c) + 3] \div 2) % 4 = 0

IsBlock(b, p) ==
  /\ Begins(b, p) /\ IdAt(b, p) \in BlockIds
  /\ LenAt(b, p) # Unknown /\ BodyAt(b, p) + LenAt(b, p) <= Len(b)
BlockAt(b, p) ==
  [place |-> BodyAt(b, p), size |-> LenAt(b, p),
   data |-> SubSeq(ContentAt(b, p), TrackLength(ContentAt(b, p)) + 4,
                   LenAt(b, p))]

-----------------------------------------------------------------------------
(* Structs, and what in them is read into a slice.                          *)

StructIds == {
  Matroska_Info, Matroska_ChapterTranslate, Matroska_Tracks,
  Matroska_TrackEntry, Matroska_TrackTranslate, Matroska_Audio, Matroska_Video,
  Matroska_AlphaMode, Matroska_Colour, Matroska_MasteringMetadata,
  Matroska_TrackOperation, Matroska_TrackCombinePlanes, Matroska_TrackPlane,
  Matroska_TrackJoinBlocks, Matroska_ContentEncodings, Matroska_ContentEncoding,
  Matroska_ContentCompression, Matroska_ContentEncryption}

FieldsOfType(s, T) ==
  {i \in DOMAIN getStructMapping(s) : getStructMapping(s)[i] \in T}
SliceIds == UNION {FieldsOfType(s, {"bytes"}) : s \in StructIds}

\* What a reader that has come to o does not survive: a segment whose size is
\* not there, a block of a size that is unknown or larger than there is memory
\* for, a slice of unknown size, and a block that ends with its time.
Deadly(b, p, o) ==
  \/ /\ HasId(b, p) /\ IdAt(b, p) = Matroska_Segment
     /\ ~HasSize(b, After(b, p)) /\ o - After(b, p) \in {0, 1}
  \/ /\ Begins(b, p) /\ IdAt(b, p) \in BlockIds
     /\ ~CanMake(LenAt(b, p)) /\ o = BodyAt(b, p)
  \/ /\ Begins(b, p) /\ IdAt(b, p) \in SliceIds
     /\ LenAt(b, p) = Unknown /\ o = BodyAt(b, p)
  \/ /\ IsBlock(b, p) /\ OnlyTime(ContentAt(b, p))
     /\ o = BodyAt(b, p) + LenAt(b, p)

-----------------------------------------------------------------------------
(* Files.  A file is a record of its bytes and of within, which gives for   *)
(* each of its elements, by the place where it begins, the element it is    *)
(* in, Top if it is in none.                                                *)

Top == -1
IdOf(f, e) == IF e = Top THEN 0 ELSE IdAt(f.bytes, e)
Body(f, e) == IF e = Top THEN 0 ELSE BodyAt(f.bytes, e)
End(f, e) ==
  IF e = Top \/ LenAt(f.bytes, e) = Unknown THEN Len(f.bytes)
  ELSE BodyAt(f.bytes, e) + LenAt(f.bytes, e)

Elements(f) == DOMAIN f.within
In(f, e) == {c \in Elements(f) : f.within[c] = e}
InWith(f, e, i) == {c \in In(f, e) : IdOf(f, c) = i}
Borders(f, e) == In(f, e) \cup {End(f, e)}

\* The border of e that comes after x, with nothing between them but bytes that
\* no id starts with.
NextIn(f, e, x) ==
  {y \in Borders(f, e) : x <= y /\ \A k \in x + 1 .. y : f.bytes[k] < 16}

\* Which elements are looked into, in one with this id.
Entered(i) ==
  CASE i = 0 -> {Matroska_Segment}
    [] i = Matroska_Segment ->
         {Matroska_Info, Matroska_Tracks, Matroska_Cluster}
    [] i = Matroska_Cluster -> {Matroska_BlockGroup}
    [] i \in StructIds -> FieldsOfType(i, {"struct"})
    [] OTHER -> {}
Opens(f, e) == IdOf(f, e) \in Entered(IdOf(f, f.within[e]))

\* An element that is looked into is filled by those in it, one after another,
\* and no others have elements in them.
Tiled(f) ==
  /\ Elements(f) \subseteq 0 .. Len(f.bytes) - 1
  /\ NextIn(f, Top, 0) # {}
  /\ \A e \in Elements(f) :
       /\ Begins(f.bytes, e)
       /\ \/ f.within[e] = Top
          \/ f.within[e] \in Elements(f) /\ f.within[e] < e
             /\ Opens(f, f.within[e])
       /\ End(f, e) <= End(f, f.within[e])
       /\ NextIn(f, f.within[e], End(f, e)) # {}
       /\ Opens(f, e) => NextIn(f, e, Body(f, e)) # {}
       /\ \A c \in Elements(f) :
            c > e => \/ c >= End(f, e)
                     \/ Opens(f, e) /\ c >= Body(f, e) /\ f.within[c] >= e

Segment(f) == End(f, 0)
FieldOf(f, e) == getStructMapping(IdOf(f, f.within[e]))[IdOf(f, e)]
Values(f) ==
  {e \in Elements(f) :
     /\ IdOf(f, f.within[e]) \in StructIds
     /\ IdOf(f, e) \in FieldsOfType(IdOf(f, f.within[e]),
                                   {"int", "float", "string", "bytes"})}
BlocksIn(f) ==
  {e \in Elements(f) :
     <<IdOf(f, f.within[e]), IdOf(f, e)>> \in
       {<<Matroska_Cluster, Matroska_SimpleBlock>>,
        <<Matroska_BlockGroup, Matroska_Block>>}}

\* The header is complete: Info and Tracks come once, before the clusters, and
\* their values have lengths that are taken.
Headed(f) ==
  /\ \E i, t \in In(f, Segment(f)) :
       /\ InWith(f, Segment(f), Matroska_Info) = {i}
       /\ InWith(f, Segment(f), Matroska_Tracks) = {t}
       /\ \A c \in InWith(f, Segment(f), Matroska_Cluster) : i < c /\ t < c
  /\ \A e \in Values(f) :
       LenAt(f.bytes, e) \in CASE FieldOf(f, e) = "int" -> 1 .. 8
                               [] FieldOf(f, e) = "float" -> {4, 8}
                               [] OTHER -> 1 .. BufferSize

\* A cluster begins with its time, no block ends with it, there is memory for
\* each block and room for each slice, and nothing follows the segment, which
\* alone may be of unknown size, if the header is complete.
WellFormed(f) ==
  /\ Tiled(f)
  /\ In(f, Top) = {0, Segment(f)} /\ IdOf(f, 0) # Matroska_Segment
  /\ IdOf(f, Segment(f)) = Matroska_Segment
  /\ \A e \in Elements(f) :
       LenAt(f.bytes, e) = Unknown => e = Segment(f) /\ Headed(f)
  /\ \A e \in InWith(f, Segment(f), Matroska_Cluster) :
       \E t \in InWith(f, e, Matroska_Timestamp) :
         /\ LenAt(f.bytes, t) \in 1 .. 8
         /\ \A c \in In(f, e) :
              IdOf(f, c) \in {Matroska_Timestamp, Matroska_SimpleBlock,
                              Matroska_BlockGroup} => t <= c
  /\ \A e \in BlocksIn(f) :
       ~OnlyTime(ContentAt(f.bytes, e)) /\ CanMake(LenAt(f.bytes, e))
  /\ \A e \in Values(f) :
       FieldOf(f, e) = "bytes" => LenAt(f.bytes, e) <= BufferSize

\* Where the blocks are that are played, and the number of the last of the
\* tracks with audio, 0 if there is none.
Places(f) ==
  {BodyAt(f.bytes, e) :
     e \in {x \in BlocksIn(f) : Playable(ContentAt(f.bytes, x))}}
Entries(f) ==
  {e \in Elements(f) : /\ IdOf(f, e) = Matroska_TrackEntry
                       /\ f.within[e] \in
                            InWith(f, Segment(f), Matroska_Tracks)}
AudioTrackOf(f) ==
  Max({Cardinality({x \in Entries(f) : x <= e}) :
         e \in {x \in Entries(f) : InWith(f, x, Matroska_Audio) # {}}}
      \cup {0})
=============================================================================
