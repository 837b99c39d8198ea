------------------------- MODULE MatroskaFileProofs --------------------------
(***************************************************************************)
(* Theorems about what Matroska makes of well-formed files, for every set  *)
(* of files and any size of the buffer from 8 on: that nothing is heard    *)
(* before the header was accepted, with the right track, and that no block *)
(* is left out.                                                            *)
(*                                                                         *)
(* The argument: OnTrack says that the reader follows the elements of the  *)
(* file, was cut off, or has come to an end.  As long as it follows them,  *)
(* Core says that the Readers that are open are those of elements that are *)
(* in each other, and that the next border of the last of them is what the *)
(* reader comes to next; Hears, Listed and Counted say that what it has    *)
(* heard, listed and decoded is what comes before that.  Where the source  *)
(* ends within an element that is lost, but so little is left in the       *)
(* buffer then that no block of the file is heard any more.                *)
(***************************************************************************)
EXTENDS MatroskaProofs

-----------------------------------------------------------------------------
(* Elements in elements.                                                    *)

\* What a file of elements in elements says of each of them.
LEMMA ElementIs ==
  ASSUME NEW f, f.bytes \in Seq(Byte), Tiled(f), NEW e \in Elements(f)
  PROVE  /\ e \in Nat /\ e < Len(f.bytes) /\ e # Top
         /\ Begins(f.bytes, e) /\ f.bytes[e + 1] >= 16
         /\ IdOf(f, e) = IdAt(f.bytes, e)
         /\ IdOf(f, e) \in Nat /\ IdOf(f, e) >= 16
         /\ LenAt(f.bytes, e) \in Nat \cup {Unknown}
         /\ Body(f, e) = BodyAt(f.bytes, e) /\ Body(f, e) \in Nat
         /\ e < Body(f, e) /\ Body(f, e) <= Len(f.bytes)
         /\ End(f, e) \in Nat /\ Body(f, e) <= End(f, e)
         /\ e \in In(f, f.within[e])
<1>1. e \in 0 .. Len(f.bytes) - 1 /\ Begins(f.bytes, e) /\ Len(f.bytes) \in Nat
  BY DEF Tiled
<1>2. e \in Nat /\ e < Len(f.bytes) /\ e # Top
  BY <1>1 DEF Top
<1>3. /\ f.bytes[e + 1] >= 16
      /\ IdAt(f.bytes, e) \in Nat /\ IdAt(f.bytes, e) >= 16
      /\ LenAt(f.bytes, e) \in Nat \cup {Unknown}
      /\ LenAt(f.bytes, e) # Unknown => LenAt(f.bytes, e) \in Nat
      /\ BodyAt(f.bytes, e) \in Nat /\ BodyAt(f.bytes, e) <= Len(f.bytes)
      /\ BodyAt(f.bytes, e) - e \in 2 .. 12
  BY <1>1, <1>2, BeginsIs
<1>4. /\ Body(f, e) = BodyAt(f.bytes, e) /\ IdOf(f, e) = IdAt(f.bytes, e)
      /\ End(f, e) = IF LenAt(f.bytes, e) = Unknown THEN Len(f.bytes)
                     ELSE BodyAt(f.bytes, e) + LenAt(f.bytes, e)
  BY <1>2, Zenon DEF Body, IdOf, End
<1>5. e < BodyAt(f.bytes, e)
  BY <1>2, <1>3
<1>6. End(f, e) \in Nat /\ BodyAt(f.bytes, e) <= End(f, e)
  BY <1>1, <1>3, <1>4
<1>7. e \in In(f, f.within[e])
  BY Zenon DEF In
<1> QED BY <1>1, <1>2, <1>3, <1>4, <1>5, <1>6, <1>7, Zenon

\* And of the one it is in.
LEMMA WithinIs ==
  ASSUME NEW f, f.bytes \in Seq(Byte), Tiled(f), NEW e, NEW c \in In(f, e)
  PROVE  /\ c \in Elements(f) /\ f.within[c] = e
         /\ \/ e = Top
            \/ e \in Elements(f) /\ e < c /\ Opens(f, e) /\ Body(f, e) <= c
         /\ End(f, c) <= End(f, e) /\ NextIn(f, e, End(f, c)) # {}
         /\ Opens(f, c) => NextIn(f, c, Body(f, c)) # {}
<1>1. c \in Elements(f) /\ f.within[c] = e
  BY DEF In
<1>2. /\ \/ e = Top
         \/ e \in Elements(f) /\ e < c /\ Opens(f, e)
      /\ End(f, c) <= End(f, e) /\ NextIn(f, e, End(f, c)) # {}
      /\ Opens(f, c) => NextIn(f, c, Body(f, c)) # {}
  BY <1>1 DEF Tiled
<1>3. ASSUME e \in Elements(f), e < c PROVE Body(f, e) <= c
  <2>1. c >= End(f, e) \/ c >= Body(f, e)
    BY <1>1, <1>3 DEF Tiled
  <2>2. /\ e \in Nat /\ Body(f, e) \in Nat /\ End(f, e) \in Nat /\ c \in Nat
        /\ Body(f, e) <= End(f, e)
    BY <1>1, <1>3, ElementIs
  <2> QED BY <2>1, <2>2
<1> QED BY <1>1, <1>2, <1>3

\* No element ends behind the file.
LEMMA EndsIn ==
  ASSUME NEW f, f.bytes \in Seq(Byte), Tiled(f), NEW e \in Elements(f)
  PROVE  End(f, e) <= Len(f.bytes)
<1> DEFINE T == {x \in Elements(f) : End(f, x) > Len(f.bytes)}
<1> SUFFICES ASSUME T # {} PROVE FALSE
  BY ElementIs
<1>1. T \subseteq Nat
  BY ElementIs
<1>2. PICK x \in T : \A y \in T : x <= y
  <2> HIDE DEF T
  <2> QED BY <1>1, LeastNumber
<1>3. x \in Elements(f) /\ x \in In(f, f.within[x]) /\ x \in Nat
      /\ End(f, x) \in Nat /\ End(f, x) > Len(f.bytes)
  BY ElementIs
<1>4. CASE f.within[x] = Top
  <2>1. End(f, f.within[x]) = Len(f.bytes)
    BY <1>4 DEF End
  <2>2. End(f, x) <= Len(f.bytes)
    BY <1>3, <2>1, WithinIs
  <2> QED BY <1>3, <2>2
<1>5. CASE f.within[x] # Top
  <2>1. PICK w : w = f.within[x]
    OBVIOUS
  <2>2. w \in Elements(f) /\ w < x /\ End(f, x) <= End(f, w)
    BY <1>3, <1>5, <2>1, WithinIs
  <2>3. w \in Nat /\ End(f, w) \in Nat
    BY <2>2, ElementIs
  <2>4. w \in T
    BY <1>3, <2>2, <2>3
  <2>5. x <= w
    BY <1>2, <2>4
  <2> QED BY <1>3, <2>2, <2>3, <2>5
<1> QED BY <1>4, <1>5

\* The elements after one are behind its end, or in it.
LEMMA Beyond ==
  ASSUME NEW f, f.bytes \in Seq(Byte), Tiled(f),
         NEW e \in Elements(f), NEW c \in Elements(f), c > e
  PROVE  /\ c >= Body(f, e)
         /\ ~Opens(f, e) => c >= End(f, e)
         /\ c < End(f, e) => f.within[c] \in Elements(f) /\ f.within[c] >= e
<1>1. /\ c \in Nat /\ e \in Nat /\ Body(f, e) \in Nat /\ End(f, e) \in Nat
      /\ Body(f, e) <= End(f, e)
  BY ElementIs
<1>2. \/ c >= End(f, e)
      \/ Opens(f, e) /\ c >= Body(f, e) /\ f.within[c] >= e
  BY DEF Tiled
<1>3. \/ f.within[c] = Top \/ f.within[c] \in Elements(f)
  BY DEF Tiled
<1>4. ~(Top >= e)
  BY <1>1 DEF Top
<1> QED BY <1>1, <1>2, <1>3, <1>4

\* Between x and the border that comes next no element begins.
LEMMA NextIs ==
  ASSUME NEW f, f.bytes \in Seq(Byte), Tiled(f), NEW e, NEW x \in Nat,
         NEW y \in NextIn(f, e, x)
  PROVE  /\ y \in In(f, e) \cup {End(f, e)} /\ x <= y
         /\ \A k \in x + 1 .. y : f.bytes[k] < 16
         /\ \A c \in Elements(f) : c >= x /\ y \in Int => c >= y
<1>1. /\ y \in In(f, e) \cup {End(f, e)} /\ x <= y
      /\ \A k \in x + 1 .. y : f.bytes[k] < 16
  BY DEF NextIn, Borders
<1>2. ASSUME NEW c \in Elements(f), c >= x, y \in Int PROVE c >= y
  <2> SUFFICES ASSUME ~(c >= y) PROVE FALSE
    OBVIOUS
  <2>1. c \in Nat /\ f.bytes[c + 1] >= 16 /\ c < Len(f.bytes)
    BY ElementIs
  <2>2. c + 1 \in x + 1 .. y
    BY <1>2, <2>1
  <2>3. f.bytes[c + 1] < 16
    BY <1>1, <2>2
  <2>4. f.bytes[c + 1] \in Int
    <3>1. f.bytes[c + 1] \in Byte
      BY <2>1
    <3>2. \A b \in Byte : b \in Int
      BY DEF Byte
    <3> QED BY <3>1, <3>2, Zenon
  <2> QED BY <2>1, <2>3, <2>4
<1> QED BY <1>1, <1>2

-----------------------------------------------------------------------------
(* Which elements have which in them.                                       *)

\* Entries are fields of Tracks, and audio of entries.
LEMMA OwnerOf ==
  ASSUME NEW s \in StructIds, NEW i \in DOMAIN getStructMapping(s),
         getStructMapping(s)[i] = "struct"
  PROVE  /\ i = Matroska_TrackEntry => s = Matroska_Tracks
         /\ i = Matroska_Audio => s = Matroska_TrackEntry
         /\ i \notin {Matroska_Info, Matroska_Tracks}
<1>1. PICK m : m = getStructMapping(s)
  OBVIOUS
<1> DEFINE N == {Info, ChapterTranslate, TrackTranslate,
            AudioTrack, VideoTrack, AlphaMode, Colour, MasteringMetadata,
            TrackOperation, TrackPlane, ContentEncoding, Compression,
            Encryption}
           U == {newStructMapping({}, {}, {}, {}, {Matroska_TrackPlane}),
            newStructMapping({\hED}, {}, {}, {}, {}),
            newStructMapping({}, {}, {}, {}, {Matroska_ContentEncoding})}
           seq == {Matroska_TrackCombinePlanes, Matroska_TrackJoinBlocks,
                   Matroska_ContentEncodings}
           Made(x, e) == \E a, b, c, d : x = newStructMapping(a, b, c, d, e)
           no == {{Matroska_ChapterTranslate}, {},
                  {Matroska_AlphaMode, Matroska_Colour},
                  {Matroska_MasteringMetadata},
                  {Matroska_TrackCombinePlanes, Matroska_TrackJoinBlocks},
                  {Matroska_ContentCompression, Matroska_ContentEncryption},
                  {Matroska_TrackPlane}, {Matroska_ContentEncoding}}
           e1 == {Matroska_TrackTranslate, Matroska_Video, Matroska_Audio,
                  Matroska_TrackOperation, Matroska_ContentEncodings}
<1>2. \/ m \in N
      \/ s = Matroska_Tracks /\ m = Track
      \/ s = Matroska_TrackEntry /\ m = TrackEntry
      \/ s \in seq /\ m = unmarshalSeq(s)
  <2>1. ASSUME s # Matroska_Tracks, s # Matroska_TrackEntry
        PROVE  getStructMapping(s) \in N \/
               (s \in seq /\ getStructMapping(s) = unmarshalSeq(s))
    BY <2>1, ZenonT(60) DEF getStructMapping, StructIds
  <2>2. getStructMapping(Matroska_Tracks) = Track
    BY DEF getStructMapping, Matroska_Tracks, Matroska_Info,
           Matroska_ChapterTranslate, Matroska_TrackEntry,
           Matroska_TrackTranslate, Matroska_Audio, Matroska_Video,
           Matroska_AlphaMode, Matroska_Colour, Matroska_MasteringMetadata,
           Matroska_TrackOperation, Matroska_TrackPlane,
           Matroska_ContentEncoding, Matroska_ContentCompression,
           Matroska_ContentEncryption
  <2>3. getStructMapping(Matroska_TrackEntry) = TrackEntry
    BY DEF getStructMapping, Matroska_Tracks, Matroska_Info,
           Matroska_ChapterTranslate, Matroska_TrackEntry,
           Matroska_TrackTranslate, Matroska_Audio, Matroska_Video,
           Matroska_AlphaMode, Matroska_Colour, Matroska_MasteringMetadata,
           Matroska_TrackOperation, Matroska_TrackPlane,
           Matroska_ContentEncoding, Matroska_ContentCompression,
           Matroska_ContentEncryption
  <2> QED BY <1>1, <2>1, <2>2, <2>3, Zenon
<1>3. s \in seq => unmarshalSeq(s) \in U
  BY Zenon DEF unmarshalSeq
<1>4. \A a, b, c, d, e : Made(newStructMapping(a, b, c, d, e), e)
  BY Zenon
<1>5. ASSUME NEW e, Made(m, e) PROVE i \in e
  <2>1. PICK a, b, c, d : m = newStructMapping(a, b, c, d, e)
    BY <1>5
  <2> QED BY <1>1, <2>1, StructsIn, Zenon
<1>6. \A e \in no :
        /\ Matroska_TrackEntry \notin e /\ Matroska_Audio \notin e
        /\ Matroska_Info \notin e /\ Matroska_Tracks \notin e
  BY DEF Matroska_Info, Matroska_Tracks, Matroska_TrackEntry, Matroska_Audio, Matroska_ChapterTranslate,
     Matroska_AlphaMode, Matroska_Colour, Matroska_MasteringMetadata,
     Matroska_TrackCombinePlanes, Matroska_TrackJoinBlocks,
     Matroska_ContentCompression, Matroska_ContentEncryption,
     Matroska_TrackPlane, Matroska_ContentEncoding
<1>7. /\ Matroska_TrackEntry \notin e1 /\ Matroska_TrackEntry # Matroska_Audio
      /\ Matroska_Info \notin e1 /\ Matroska_Tracks \notin e1
      /\ Matroska_TrackEntry \notin {Matroska_Info, Matroska_Tracks}
  BY DEF Matroska_Info, Matroska_Tracks, Matroska_TrackEntry, Matroska_Audio, Matroska_TrackTranslate,
     Matroska_Video, Matroska_TrackOperation, Matroska_ContentEncodings
<1>8. /\ {Matroska_ChapterTranslate} \in no /\ {} \in no
      /\ {Matroska_AlphaMode, Matroska_Colour} \in no
      /\ {Matroska_MasteringMetadata} \in no
      /\ {Matroska_TrackCombinePlanes, Matroska_TrackJoinBlocks} \in no
      /\ {Matroska_ContentCompression, Matroska_ContentEncryption} \in no
      /\ {Matroska_TrackPlane} \in no /\ {Matroska_ContentEncoding} \in no
  BY Zenon
<1> HIDE DEF Made, no
<1>9. ASSUME m \in N \cup U PROVE \E e \in no : Made(m, e)
  <2>1. CASE m \in {Info, ChapterTranslate, TrackTranslate, AudioTrack}
    BY <1>4, <1>8, <2>1 DEF Info, ChapterTranslate, TrackTranslate, AudioTrack
  <2>2. CASE m \in {VideoTrack, AlphaMode, Colour, MasteringMetadata}
    BY <1>4, <1>8, <2>2 DEF VideoTrack, AlphaMode, Colour, MasteringMetadata
  <2>3. CASE m \in {TrackOperation, TrackPlane, ContentEncoding, Compression,
                    Encryption}
    BY <1>4, <1>8, <2>3
       DEF TrackOperation, TrackPlane, ContentEncoding, Compression, Encryption
  <2>4. CASE m \in U
    BY <1>4, <1>8, <2>4
  <2> QED BY <1>9, <2>1, <2>2, <2>3, <2>4, Zenon
<1>10. CASE m \in N \cup U
  <2>1. PICK e \in no : Made(m, e)
    BY <1>9, <1>10
  <2> QED BY <1>5, <1>6, <2>1, Zenon
<1>11. CASE s = Matroska_Tracks /\ m = Track
  <2>1. Made(m, {Matroska_TrackEntry})
    BY <1>4, <1>11, Zenon DEF Track
  <2>2. i \in {Matroska_TrackEntry}
    BY <1>5, <2>1
  <2> QED BY <1>7, <1>11, <2>2
<1>12. CASE s = Matroska_TrackEntry /\ m = TrackEntry
  <2>1. Made(m, e1)
    <3> HIDE DEF e1
    <3>1. ASSUME NEW a, NEW b, NEW c, NEW d, NEW e,
                 m = newStructMapping(a, b, c, d, e)
          PROVE  Made(m, e)
      BY <1>4, <3>1, Zenon
    <3> QED BY <1>12, <3>1 DEF TrackEntry, e1
  <2>2. i \in e1
    BY <1>5, <2>1
  <2> QED BY <1>7, <1>12, <2>2
<1> QED BY <1>2, <1>3, <1>10, <1>11, <1>12, ZenonT(60)

\* The id of an element that is looked into tells what it is in.
LEMMA EnteredIs ==
  ASSUME NEW i, NEW j \in Entered(i)
  PROVE  /\ j = Matroska_Segment => i = 0
         /\ j \in {Matroska_Info, Matroska_Tracks, Matroska_Cluster} =>
              i = Matroska_Segment
         /\ j = Matroska_BlockGroup => i = Matroska_Cluster
         /\ j = Matroska_TrackEntry => i = Matroska_Tracks
         /\ j = Matroska_Audio => i = Matroska_TrackEntry
         /\ j \notin BlockIds /\ j # Matroska_Timestamp
<1>1. ASSUME i \in StructIds, j \in FieldsOfType(i, {"struct"})
      PROVE  /\ j \in StructIds
             /\ j = Matroska_TrackEntry => i = Matroska_Tracks
             /\ j = Matroska_Audio => i = Matroska_TrackEntry
             /\ j \notin {Matroska_Info, Matroska_Tracks}
  <2>1. j \in DOMAIN getStructMapping(i) /\ getStructMapping(i)[j] = "struct"
    BY <1>1, Zenon DEF FieldsOfType
  <2>2. j \in StructIds
    BY <1>1, <2>1, StructFields
  <2> QED BY <1>1, <2>1, <2>2, OwnerOf
<1>2. /\ 0 \notin StructIds /\ Matroska_Segment \notin StructIds
      /\ Matroska_Cluster \notin StructIds
      /\ \A x \in StructIds :
           /\ x # Matroska_Segment /\ x # Matroska_Cluster
           /\ x # Matroska_BlockGroup /\ x \notin BlockIds
           /\ x # Matroska_Timestamp
  BY DEF StructIds, BlockIds, Matroska_Tracks, Matroska_Info, Matroska_Segment,
           Matroska_Cluster, Matroska_BlockGroup, Matroska_SimpleBlock,
           Matroska_Block, Matroska_Timestamp,
           Matroska_ChapterTranslate, Matroska_TrackEntry,
           Matroska_TrackTranslate, Matroska_Audio, Matroska_Video,
           Matroska_AlphaMode, Matroska_Colour, Matroska_MasteringMetadata,
           Matroska_TrackOperation, Matroska_TrackPlane,
           Matroska_ContentEncoding, Matroska_ContentCompression,
           Matroska_ContentEncryption, Matroska_TrackCombinePlanes,
           Matroska_TrackJoinBlocks, Matroska_ContentEncodings
<1>3. \/ i = 0 /\ j \in {Matroska_Segment}
      \/ i = Matroska_Segment
         /\ j \in {Matroska_Info, Matroska_Tracks, Matroska_Cluster}
      \/ i = Matroska_Cluster /\ j \in {Matroska_BlockGroup}
      \/ i \in StructIds /\ j \in FieldsOfType(i, {"struct"})
  BY Zenon DEF Entered
<1>4. /\ Matroska_Info \in StructIds /\ Matroska_Tracks \in StructIds
      /\ Matroska_TrackEntry \in StructIds /\ Matroska_Audio \in StructIds
  BY DEF StructIds
<1>5. CASE i = 0 /\ j \in {Matroska_Segment}
  BY <1>5 DEF Matroska_Segment, Matroska_Info, Matroska_Tracks, Matroska_Cluster,
              Matroska_BlockGroup, Matroska_TrackEntry, Matroska_Audio,
              BlockIds, Matroska_SimpleBlock, Matroska_Block,
              Matroska_Timestamp
<1>6. CASE /\ i = Matroska_Segment
           /\ j \in {Matroska_Info, Matroska_Tracks, Matroska_Cluster}
  BY <1>6 DEF Matroska_Segment, Matroska_Info, Matroska_Tracks, Matroska_Cluster,
              Matroska_BlockGroup, Matroska_TrackEntry, Matroska_Audio,
              BlockIds, Matroska_SimpleBlock, Matroska_Block,
              Matroska_Timestamp
<1>7. CASE i = Matroska_Cluster /\ j \in {Matroska_BlockGroup}
  BY <1>7 DEF Matroska_Segment, Matroska_Info, Matroska_Tracks, Matroska_Cluster,
              Matroska_BlockGroup, Matroska_TrackEntry, Matroska_Audio,
              BlockIds, Matroska_SimpleBlock, Matroska_Block,
              Matroska_Timestamp
<1>8. CASE i \in StructIds /\ j \in FieldsOfType(i, {"struct"})
  BY <1>1, <1>2, <1>8, Zenon
<1> QED BY <1>3, <1>5, <1>6, <1>7, <1>8, Zenon

\* Elements that are looked into, each of them in the one before.
PathIn(f, path) ==
  /\ path \in Seq(Int) /\ Len(path) >= 1 /\ path[1] = Top
  /\ \A k \in 2 .. Len(path) :
       path[k] \in In(f, path[k - 1]) /\ Opens(f, path[k])

LEMMA TopIs ==
  ASSUME NEW f, f.bytes \in Seq(Byte)
  PROVE  /\ IdOf(f, Top) = 0 /\ Body(f, Top) = 0 /\ End(f, Top) = Len(f.bytes)
         /\ Len(f.bytes) \in Nat /\ Top \in Int /\ Top < 0
<1>1. /\ IdOf(f, Top) = 0 /\ Body(f, Top) = 0 /\ End(f, Top) = Len(f.bytes)
  BY Zenon DEF IdOf, Body, End
<1>2. Len(f.bytes) \in Nat /\ Top \in Int /\ Top < 0
  BY DEF Top
<1> QED BY <1>1, <1>2

LEMMA PathIs ==
  ASSUME NEW f, f.bytes \in Seq(Byte), Tiled(f), NEW path, PathIn(f, path),
         NEW k \in 1 .. Len(path)
  PROVE  /\ path[k] \in Int /\ End(f, path[k]) \in Nat
         /\ End(f, path[k]) <= Len(f.bytes)
         /\ k = 1 => path[k] = Top
         /\ k >= 2 => /\ path[k] \in Elements(f) /\ path[k] \in Nat
                      /\ k - 1 \in 1 .. Len(path)
                      /\ path[k] \in In(f, path[k - 1]) /\ Opens(f, path[k])
                      /\ f.within[path[k]] = path[k - 1]
                      /\ IdOf(f, path[k]) \in Entered(IdOf(f, path[k - 1]))
<1>1. Len(path) \in Nat /\ path[k] \in Int /\ path[1] = Top
  BY DEF PathIn
<1>2. CASE k = 1
  BY <1>1, <1>2, TopIs
<1>3. CASE k >= 2
  <2>1. k \in 2 .. Len(path) /\ k - 1 \in 1 .. Len(path)
    BY <1>1, <1>3
  <2>2. path[k] \in In(f, path[k - 1]) /\ Opens(f, path[k])
    BY <2>1 DEF PathIn
  <2>3. path[k] \in Elements(f) /\ f.within[path[k]] = path[k - 1]
    BY <2>2, WithinIs
  <2>4. path[k] \in Nat /\ End(f, path[k]) \in Nat
        /\ End(f, path[k]) <= Len(f.bytes)
    BY <2>3, ElementIs, EndsIn
  <2>5. IdOf(f, path[k]) \in Entered(IdOf(f, path[k - 1]))
    BY <2>2, <2>3, Zenon DEF Opens
  <2> QED BY <1>3, <2>1, <2>2, <2>3, <2>4, <2>5
<1> QED BY <1>2, <1>3

\* What a well-formed file has on its outermost level.
LEMMA SegmentIs ==
  ASSUME NEW f, f.bytes \in Seq(Byte), WellFormed(f)
  PROVE  /\ Tiled(f) /\ In(f, Top) = {0, Segment(f)}
         /\ 0 \in Elements(f) /\ Segment(f) \in Elements(f)
         /\ IdOf(f, 0) # Matroska_Segment /\ ~Opens(f, 0)
         /\ IdOf(f, Segment(f)) = Matroska_Segment /\ Opens(f, Segment(f))
         /\ f.within[0] = Top /\ f.within[Segment(f)] = Top
         /\ Segment(f) \in Nat /\ End(f, Segment(f)) \in Nat
         /\ End(f, Segment(f)) <= Len(f.bytes)
         /\ Segment(f) < Len(f.bytes) /\ Segment(f) < End(f, Segment(f))
         /\ Segment(f) = End(f, 0) /\ Segment(f) > 0
         /\ \A e \in Elements(f) :
              LenAt(f.bytes, e) = Unknown => e = Segment(f) /\ Headed(f)
<1>1. /\ Tiled(f) /\ In(f, Top) = {0, Segment(f)}
      /\ IdOf(f, 0) # Matroska_Segment
      /\ IdOf(f, Segment(f)) = Matroska_Segment
      /\ \A e \in Elements(f) :
           LenAt(f.bytes, e) = Unknown => e = Segment(f) /\ Headed(f)
  BY DEF WellFormed
<1>2. /\ 0 \in Elements(f) /\ Segment(f) \in Elements(f)
      /\ f.within[0] = Top /\ f.within[Segment(f)] = Top
  BY <1>1, WithinIs
<1>3. IdOf(f, Top) = 0
  BY TopIs
<1>4. Entered(0) = {Matroska_Segment}
  <2>1. 0 # Matroska_Segment /\ 0 # Matroska_Cluster
    BY DEF Matroska_Segment, Matroska_Cluster
  <2>2. 0 \notin StructIds
    BY DEF StructIds, Matroska_Tracks, Matroska_Info,
           Matroska_ChapterTranslate, Matroska_TrackEntry,
           Matroska_TrackTranslate, Matroska_Audio, Matroska_Video,
           Matroska_AlphaMode, Matroska_Colour, Matroska_MasteringMetadata,
           Matroska_TrackOperation, Matroska_TrackPlane,
           Matroska_ContentEncoding, Matroska_ContentCompression,
           Matroska_ContentEncryption, Matroska_TrackCombinePlanes,
           Matroska_TrackJoinBlocks, Matroska_ContentEncodings
  <2> QED BY <2>1, <2>2, Zenon DEF Entered
<1>5. ~Opens(f, 0) /\ Opens(f, Segment(f))
  BY <1>1, <1>2, <1>3, <1>4 DEF Opens
<1>6. /\ Segment(f) \in Nat /\ End(f, Segment(f)) \in Nat
      /\ Segment(f) < Len(f.bytes) /\ Segment(f) < End(f, Segment(f))
      /\ End(f, Segment(f)) <= Len(f.bytes)
  BY <1>1, <1>2, ElementIs, EndsIn
<1>7. End(f, 0) \in Nat /\ End(f, 0) > 0
  BY <1>1, <1>2, ElementIs
<1> QED BY <1>1, <1>2, <1>5, <1>6, <1>7 DEF Segment

\* The segment is looked into, and no other element with its id.
LEMMA OneSegment ==
  ASSUME NEW f, f.bytes \in Seq(Byte), WellFormed(f), NEW e \in Elements(f),
         Opens(f, e), IdOf(f, e) = Matroska_Segment
  PROVE  e = Segment(f)
<1>1. Tiled(f)
  BY SegmentIs
<1>2. IdOf(f, e) \in Entered(IdOf(f, f.within[e]))
  BY Zenon DEF Opens
<1>3. IdOf(f, f.within[e]) = 0
  BY <1>2, EnteredIs
<1>4. f.within[e] = Top
  <2> SUFFICES ASSUME f.within[e] # Top PROVE FALSE
    OBVIOUS
  <2>1. f.within[e] \in Elements(f)
    BY <1>1 DEF Tiled
  <2>2. IdOf(f, f.within[e]) >= 16
    BY <1>1, <2>1, ElementIs
  <2> QED BY <1>3, <2>2
<1>5. e \in {0, Segment(f)}
  BY <1>4, SegmentIs DEF In
<1> QED BY <1>5, SegmentIs

\* What the segment has in it that is looked into, and what these have.
LEMMA LevelsAre ==
  ASSUME NEW f, f.bytes \in Seq(Byte), WellFormed(f), NEW e \in Elements(f),
         Opens(f, e)
  PROVE  /\ IdOf(f, e) \in {Matroska_Info, Matroska_Tracks, Matroska_Cluster} =>
              e \in In(f, Segment(f))
         /\ IdOf(f, e) = Matroska_BlockGroup =>
              /\ f.within[e] \in In(f, Segment(f))
              /\ IdOf(f, f.within[e]) = Matroska_Cluster
         /\ IdOf(f, e) = Matroska_TrackEntry =>
              /\ f.within[e] \in InWith(f, Segment(f), Matroska_Tracks)
              /\ e \in Entries(f)
         /\ IdOf(f, e) = Matroska_Audio => f.within[e] \in Entries(f)
<1>1. Tiled(f)
  BY SegmentIs
<1> DEFINE i == IdOf(f, e)
           w == f.within[e]
<1>2. i \in Entered(IdOf(f, w))
  BY Zenon DEF Opens
<1>3. w = Top \/ (w \in Elements(f) /\ Opens(f, w))
  BY <1>1 DEF Tiled
<1>4. /\ IdOf(f, Top) = 0 /\ 0 # Matroska_Segment /\ 0 # Matroska_Cluster
      /\ 0 # Matroska_Tracks /\ 0 # Matroska_TrackEntry
  BY TopIs DEF Matroska_Segment, Matroska_Cluster, Matroska_Tracks,
               Matroska_TrackEntry
<1>5. ASSUME NEW x \in Elements(f), Opens(f, x),
             IdOf(f, x) \in {Matroska_Info, Matroska_Tracks, Matroska_Cluster}
      PROVE  x \in In(f, Segment(f))
  <2>1. IdOf(f, x) \in Entered(IdOf(f, f.within[x]))
    BY <1>5, Zenon DEF Opens
  <2>2. IdOf(f, f.within[x]) = Matroska_Segment
    BY <1>5, <2>1, EnteredIs
  <2>3. f.within[x] = Top \/ (f.within[x] \in Elements(f) /\ Opens(f, f.within[x]))
    BY <1>1 DEF Tiled
  <2>4. f.within[x] = Segment(f)
    BY <1>4, <2>2, <2>3, OneSegment
  <2> QED BY <2>4, Zenon DEF In
<1>6. ASSUME NEW x \in Elements(f), Opens(f, x),
             IdOf(f, x) = Matroska_TrackEntry
      PROVE  /\ f.within[x] \in InWith(f, Segment(f), Matroska_Tracks)
             /\ x \in Entries(f)
  <2>1. IdOf(f, x) \in Entered(IdOf(f, f.within[x]))
    BY <1>6, Zenon DEF Opens
  <2>2. IdOf(f, f.within[x]) = Matroska_Tracks
    BY <1>6, <2>1, EnteredIs
  <2>3. f.within[x] = Top \/ (f.within[x] \in Elements(f) /\ Opens(f, f.within[x]))
    BY <1>1 DEF Tiled
  <2>4. f.within[x] \in In(f, Segment(f))
    BY <1>4, <1>5, <2>2, <2>3
  <2> QED BY <1>6, <2>2, <2>4, Zenon DEF InWith, Entries
<1>7. ASSUME i \in {Matroska_Info, Matroska_Tracks, Matroska_Cluster}
      PROVE  e \in In(f, Segment(f))
  BY <1>5, <1>7
<1>8. ASSUME i = Matroska_BlockGroup
      PROVE  w \in In(f, Segment(f)) /\ IdOf(f, w) = Matroska_Cluster
  <2>1. IdOf(f, w) = Matroska_Cluster
    BY <1>2, <1>8, EnteredIs
  <2> QED BY <1>3, <1>4, <1>5, <2>1
<1>9. ASSUME i = Matroska_Audio PROVE w \in Entries(f)
  <2>1. IdOf(f, w) = Matroska_TrackEntry
    BY <1>2, <1>9, EnteredIs
  <2> QED BY <1>3, <1>4, <1>6, <2>1
<1> QED BY <1>6, <1>7, <1>8, <1>9

-----------------------------------------------------------------------------
(* Where the blocks are.                                                    *)

LEMMA BlockIs ==
  ASSUME NEW f, f.bytes \in Seq(Byte), WellFormed(f), NEW e \in BlocksIn(f)
  PROVE  /\ e \in Elements(f) /\ e \in Nat
         /\ IdOf(f, e) \in BlockIds
         /\ ~Opens(f, e) /\ LenAt(f.bytes, e) # Unknown
         /\ IdOf(f, f.within[e]) \in {Matroska_Cluster, Matroska_BlockGroup}
         /\ \E k \in InWith(f, Segment(f), Matroska_Cluster) :
              k < e /\ e < End(f, k)
<1>1. Tiled(f)
  BY SegmentIs
<1>2. /\ e \in Elements(f)
      /\ <<IdOf(f, f.within[e]), IdOf(f, e)>> \in
           {<<Matroska_Cluster, Matroska_SimpleBlock>>,
            <<Matroska_BlockGroup, Matroska_Block>>}
  BY DEF BlocksIn
<1>3. /\ IdOf(f, f.within[e]) \in {Matroska_Cluster, Matroska_BlockGroup}
      /\ IdOf(f, e) \in BlockIds
  BY <1>2 DEF BlockIds
<1>4. ~Opens(f, e)
  BY <1>3, EnteredIs, Zenon DEF Opens
<1>5. LenAt(f.bytes, e) # Unknown
  <2>1. Matroska_Segment \notin BlockIds
    BY DEF BlockIds, Matroska_Segment, Matroska_SimpleBlock, Matroska_Block
  <2> QED BY <1>2, <1>3, <2>1, SegmentIs
<1>6. PICK w : w = f.within[e]
  OBVIOUS
<1>7. w \in Elements(f) /\ Opens(f, w) /\ w < e /\ End(f, e) <= End(f, w)
      /\ e \in In(f, w)
  <2>1. w # Top
    <3>1. 0 \notin {Matroska_Cluster, Matroska_BlockGroup}
      BY DEF Matroska_Cluster, Matroska_BlockGroup
    <3> QED BY <1>3, <1>6, <3>1, TopIs
  <2>2. e \in In(f, w)
    BY <1>1, <1>2, <1>6, ElementIs
  <2> QED BY <1>1, <2>1, <2>2, WithinIs
<1>8. e < End(f, e) /\ e \in Nat /\ End(f, e) \in Nat /\ w \in Nat
      /\ End(f, w) \in Nat
  BY <1>1, <1>2, <1>7, ElementIs
<1>9. CASE IdOf(f, w) = Matroska_Cluster
  <2>1. w \in InWith(f, Segment(f), Matroska_Cluster)
    BY <1>7, <1>9, LevelsAre DEF InWith
  <2> QED BY <1>2, <1>3, <1>4, <1>5, <1>7, <1>8, <2>1
<1>10. CASE IdOf(f, w) = Matroska_BlockGroup
  <2>1. PICK k : k = f.within[w]
    OBVIOUS
  <2>2. k \in InWith(f, Segment(f), Matroska_Cluster)
    BY <1>7, <1>10, <2>1, LevelsAre DEF InWith
  <2>3. w \in In(f, k)
    BY <1>1, <1>7, <2>1, ElementIs
  <2>4. k \in Elements(f)
    BY <2>2 DEF InWith, In
  <2>5. k < w /\ End(f, w) <= End(f, k) /\ k \in Nat /\ End(f, k) \in Nat
    <3>1. k # Top
      BY <1>1, <2>4, ElementIs
    <3> QED BY <1>1, <2>3, <2>4, <3>1, WithinIs, ElementIs
  <2>6. k < e /\ e < End(f, k)
    BY <1>7, <1>8, <2>5
  <2> QED BY <1>2, <1>3, <1>4, <1>5, <1>8, <2>2, <2>6
<1> QED BY <1>3, <1>6, <1>9, <1>10

\* No block is in an element of the segment that is no cluster.
LEMMA NoBlockIn ==
  ASSUME NEW f, f.bytes \in Seq(Byte), WellFormed(f),
         NEW e \in In(f, Segment(f)), IdOf(f, e) # Matroska_Cluster,
         NEW x \in BlocksIn(f), x > e
  PROVE  x >= End(f, e)
<1>1. Tiled(f) /\ Segment(f) # Top
  BY SegmentIs, TopIs
<1>2. PICK k \in InWith(f, Segment(f), Matroska_Cluster) : k < x /\ x < End(f, k)
  BY BlockIs
<1>3. /\ k \in Elements(f) /\ e \in Elements(f) /\ x \in Elements(f)
      /\ f.within[k] = Segment(f) /\ f.within[e] = Segment(f) /\ k # e
      /\ k \in In(f, Segment(f))
  BY <1>2, BlockIs DEF InWith, In
<1>4. /\ k \in Nat /\ e \in Nat /\ x \in Nat /\ End(f, k) \in Nat
      /\ End(f, e) \in Nat
  BY <1>1, <1>3, ElementIs
<1>5. Segment(f) < k /\ Segment(f) < e /\ Segment(f) \in Nat
  BY <1>1, <1>3, WithinIs, SegmentIs
<1>6. ASSUME k < e PROVE FALSE
  <2>1. e < End(f, k)
    BY <1>2, <1>4
  <2>2. f.within[e] >= k
    BY <1>1, <1>3, <1>6, <2>1, Beyond
  <2> QED BY <1>3, <1>4, <1>5, <2>2
<1>7. ASSUME k > e, x < End(f, e) PROVE FALSE
  <2>1. k < End(f, e)
    BY <1>2, <1>4, <1>7
  <2>2. f.within[k] >= e
    BY <1>1, <1>3, <1>7, <2>1, Beyond
  <2> QED BY <1>3, <1>4, <1>5, <2>2
<1> QED BY <1>3, <1>4, <1>6, <1>7

\* Where the blocks begin that are played, up to c.
Playables(f) == {e \in BlocksIn(f) : Playable(ContentAt(f.bytes, e))}
PlacesBefore(f, c) == {BodyAt(f.bytes, e) : e \in {x \in Playables(f) : x < c}}

LEMMA SameBefore ==
  ASSUME NEW f, f.bytes \in Seq(Byte), WellFormed(f),
         NEW c \in Int, NEW d \in Int, c <= d,
         \A x \in BlocksIn(f) : c <= x => d <= x
  PROVE  PlacesBefore(f, d) = PlacesBefore(f, c)
<1>1. \A x \in Playables(f) : x \in BlocksIn(f) /\ x \in Int
  BY BlockIs DEF Playables
<1>2. ASSUME NEW x \in Playables(f) PROVE x < d <=> x < c
  <2>1. x \in Int /\ (c <= x => d <= x)
    BY <1>1
  <2> QED BY <2>1
<1>3. {x \in Playables(f) : x < d} = {x \in Playables(f) : x < c}
  BY <1>2
<1> QED BY <1>3, Zenon DEF PlacesBefore

\* When a block at c comes next, and others come from d on.
LEMMA OneBefore ==
  ASSUME NEW f, f.bytes \in Seq(Byte), WellFormed(f),
         NEW c \in BlocksIn(f), NEW d \in Int, c < d,
         \A x \in BlocksIn(f) : c < x => d <= x
  PROVE  PlacesBefore(f, d) =
           IF Playable(ContentAt(f.bytes, c))
           THEN PlacesBefore(f, c) \cup {BodyAt(f.bytes, c)}
           ELSE PlacesBefore(f, c)
<1>1. \A x \in Playables(f) : x \in BlocksIn(f) /\ x \in Int
  BY BlockIs DEF Playables
<1>2. c \in Int
  BY BlockIs
<1>3. ASSUME NEW x \in Playables(f) PROVE x < d <=> x < c \/ x = c
  <2>1. x \in Int /\ (c < x => d <= x)
    BY <1>1
  <2> QED BY <1>2, <2>1
<1>4. CASE Playable(ContentAt(f.bytes, c))
  <2>1. c \in Playables(f)
    BY <1>4 DEF Playables
  <2>2. {x \in Playables(f) : x < d} = {x \in Playables(f) : x < c} \cup {c}
    BY <1>2, <1>3, <2>1
  <2> QED BY <1>4, <2>2, Zenon DEF PlacesBefore
<1>5. CASE ~Playable(ContentAt(f.bytes, c))
  <2>1. c \notin Playables(f)
    BY <1>5 DEF Playables
  <2>2. {x \in Playables(f) : x < d} = {x \in Playables(f) : x < c}
    BY <1>3, <2>1
  <2> QED BY <1>5, <2>2, Zenon DEF PlacesBefore
<1> QED BY <1>4, <1>5

\* All blocks are before the end of the segment, none is before it.
LEMMA AllBefore ==
  ASSUME NEW f, f.bytes \in Seq(Byte), WellFormed(f)
  PROVE  /\ PlacesBefore(f, End(f, Segment(f))) = Places(f)
         /\ \A c \in Int : c <= Segment(f) => PlacesBefore(f, c) = {}
<1>1. ASSUME NEW x \in Playables(f)
      PROVE  x < End(f, Segment(f)) /\ Segment(f) < x /\ x \in Int
  <2>1. x \in BlocksIn(f)
    BY DEF Playables
  <2>2. PICK k \in InWith(f, Segment(f), Matroska_Cluster) :
          k < x /\ x < End(f, k)
    BY <2>1, BlockIs
  <2>3. k \in In(f, Segment(f)) /\ k \in Elements(f) /\ x \in Nat
    BY <2>1, <2>2, BlockIs DEF InWith, In
  <2>4. Tiled(f) /\ Segment(f) # Top /\ Segment(f) \in Nat
        /\ End(f, Segment(f)) \in Nat
    BY SegmentIs, TopIs
  <2>5. End(f, k) <= End(f, Segment(f)) /\ Segment(f) < k
    BY <2>3, <2>4, WithinIs
  <2>6. k \in Nat /\ End(f, k) \in Nat
    BY <2>3, <2>4, ElementIs
  <2> QED BY <2>2, <2>3, <2>4, <2>5, <2>6
<1>2. {x \in Playables(f) : x < End(f, Segment(f))} = Playables(f)
  BY <1>1
<1>3. PlacesBefore(f, End(f, Segment(f))) = Places(f)
  BY <1>2, Zenon DEF PlacesBefore, Places, Playables
<1>4. ASSUME NEW c \in Int, c <= Segment(f) PROVE PlacesBefore(f, c) = {}
  <2>1. {x \in Playables(f) : x < c} = {}
    BY <1>1, <1>4, SegmentIs
  <2> QED BY <2>1 DEF PlacesBefore
<1> QED BY <1>3, <1>4

\* Blocks that begin before c come before those that do not.
LEMMA InOrder ==
  ASSUME NEW f, f.bytes \in Seq(Byte), WellFormed(f), NEW c \in Int,
         NEW p \in PlacesBefore(f, c), NEW q \in Places(f), q < p
  PROVE  q \in PlacesBefore(f, c)
<1>1. PICK x \in Playables(f) : x < c /\ p = BodyAt(f.bytes, x)
  BY DEF PlacesBefore
<1>2. PICK y \in Playables(f) : q = BodyAt(f.bytes, y)
  BY DEF Places, Playables
<1>3. x \in BlocksIn(f) /\ y \in BlocksIn(f)
  BY DEF Playables
<1>4. /\ x \in Elements(f) /\ y \in Elements(f) /\ Tiled(f)
      /\ x \in Nat /\ y \in Nat
  BY <1>3, BlockIs, SegmentIs
<1>5. /\ Body(f, x) = p /\ Body(f, y) = q /\ p \in Nat /\ q \in Nat /\ y < q
  BY <1>1, <1>2, <1>4, ElementIs
<1>6. ~(y > x)
  <2>1. y > x => y >= Body(f, x)
    BY <1>4, Beyond
  <2> QED BY <1>4, <1>5, <2>1
<1>7. y < c
  BY <1>1, <1>4, <1>6
<1> QED BY <1>2, <1>7, Zenon DEF PlacesBefore

-----------------------------------------------------------------------------
(* Files that are cut off.                                                  *)

\* What is read is the beginning of a file.
OfFile ==
  /\ file \in Files /\ Len(bytes) <= Len(file.bytes)
  /\ bytes = SubSeq(file.bytes, 1, Len(bytes))
Cut == Len(bytes) < Len(file.bytes)

LEMMA FileIs ==
  ASSUME OfFile, bytes \in Seq(Byte)
  PROVE  /\ file.bytes \in Seq(Byte) /\ Len(file.bytes) \in Nat
         /\ Len(bytes) \in Nat /\ Len(bytes) <= Len(file.bytes)
         /\ ~Cut => Len(bytes) = Len(file.bytes)
         /\ \A i \in 1 .. Len(bytes) : bytes[i] = file.bytes[i]
<1>1. file.bytes \in Seq(Byte)
  BY FilesAssumption DEF OfFile, Byte
<1>2. PICK b \in Seq(Byte) : b = file.bytes
  BY <1>1
<1>3. /\ Len(b) \in Nat /\ Len(bytes) \in Nat /\ Len(bytes) <= Len(b)
      /\ ~Cut => Len(bytes) = Len(b)
  BY <1>2 DEF OfFile, Cut
<1>4. bytes = SubSeq(b, 1, Len(bytes))
  BY <1>2 DEF OfFile
<1>5. \A i \in 1 .. Len(bytes) : SubSeq(b, 1, Len(bytes))[i] = b[i]
  BY <1>3
<1> QED BY <1>1, <1>2, <1>3, <1>4, <1>5

\* A number that is not cut off is the same in both.
LEMMA SameNumber ==
  ASSUME OfFile, bytes \in Seq(Byte),
         NEW p \in Nat, NEW n \in Nat, p + n <= Len(bytes), NEW high
  PROVE  /\ SubSeq(bytes, p + 1, p + n) = SubSeq(file.bytes, p + 1, p + n)
         /\ NumberAt(bytes, p, n, high) = NumberAt(file.bytes, p, n, high)
<1>1. PICK l \in 0 .. Len(file.bytes) : l = Len(bytes)
  BY FileIs
<1>2. file.bytes \in Seq(Byte) /\ bytes = SubSeq(file.bytes, 0 + 1, l)
  BY <1>1, FileIs DEF OfFile
<1>3. PICK q \in p .. l : q = p + n
  BY <1>1
<1>4. p \in 0 .. l - 0 /\ q \in p .. l - 0
  BY <1>1, <1>3
<1>5. SubSeq(SubSeq(file.bytes, 0 + 1, l), p + 1, q)
        = SubSeq(file.bytes, 0 + p + 1, 0 + q)
  BY <1>1, <1>2, <1>4, PieceOfPiece
<1>6. 0 + p + 1 = p + 1 /\ 0 + q = q
  BY <1>3
<1>7. SubSeq(bytes, p + 1, p + n) = SubSeq(file.bytes, p + 1, p + n)
  BY <1>2, <1>3, <1>5, <1>6, Zenon
<1> QED BY <1>7, Zenon DEF NumberAt

\* And so is an element.
LEMMA SameId ==
  ASSUME OfFile, bytes \in Seq(Byte), NEW p \in Nat, p < Len(bytes)
  PROVE  /\ bytes[p + 1] = file.bytes[p + 1]
         /\ After(bytes, p) = After(file.bytes, p)
         /\ HasId(bytes, p) => IdAt(bytes, p) = IdAt(file.bytes, p)
<1>1. bytes[p + 1] = file.bytes[p + 1]
  BY FileIs
<1>2. After(bytes, p) = After(file.bytes, p)
  BY <1>1, Zenon DEF After
<1>3. ASSUME HasId(bytes, p) PROVE IdAt(bytes, p) = IdAt(file.bytes, p)
  <2>1. PICK m \in Nat : m = More(bytes[p + 1])
    BY ByteAt
  <2>2. p + m < Len(bytes) /\ Len(bytes) \in Nat
    BY <1>3, <2>1 DEF HasId
  <2>3. p + 1 \in Nat /\ (p + 1) + m <= Len(bytes)
    BY <2>2
  <2>4. \A high : NumberAt(bytes, p + 1, m, high) = NumberAt(file.bytes, p + 1, m, high)
    BY <2>3, SameNumber
  <2> QED BY <1>1, <2>1, <2>4, Zenon DEF IdAt
<1> QED BY <1>1, <1>2, <1>3

LEMMA SameElement ==
  ASSUME OfFile, bytes \in Seq(Byte), NEW p \in Nat, Begins(bytes, p)
  PROVE  /\ IdAt(bytes, p) = IdAt(file.bytes, p)
         /\ LenAt(bytes, p) = LenAt(file.bytes, p)
         /\ BodyAt(bytes, p) = BodyAt(file.bytes, p)
         /\ LenAt(bytes, p) # Unknown
              /\ BodyAt(bytes, p) + LenAt(bytes, p) <= Len(bytes) =>
              ContentAt(bytes, p) = ContentAt(file.bytes, p)
<1>1. HasId(bytes, p) /\ HasSize(bytes, After(bytes, p))
  BY DEF Begins
<1>2. p < Len(bytes) /\ bytes \in Seq(Byte)
  BY <1>1 DEF HasId
<1>3. PICK a : a = After(bytes, p)
  OBVIOUS
<1>4. /\ a = After(file.bytes, p) /\ a \in Nat
      /\ IdAt(bytes, p) = IdAt(file.bytes, p)
  BY <1>1, <1>2, <1>3, SameId, ByteAt
<1>5. a < Len(bytes) /\ More(bytes[a + 1]) < 8
      /\ a + More(bytes[a + 1]) < Len(bytes)
  BY <1>1, <1>3 DEF HasSize
<1>6. bytes[a + 1] = file.bytes[a + 1]
  BY <1>4, <1>5, SameId
<1>7. PICK n \in Nat : n = More(bytes[a + 1])
  BY <1>4, <1>5, ByteAt
<1>8. BodyAt(bytes, p) = BodyAt(file.bytes, p)
  <2>1. After(bytes, a) = After(file.bytes, a)
    BY <1>4, <1>5, SameId
  <2> QED BY <1>3, <1>4, <2>1 DEF BodyAt
<1>9. a + 1 \in Nat /\ (a + 1) + n <= Len(bytes) /\ Len(bytes) \in Nat
  BY <1>4, <1>5, <1>7
<1>10. \A i \in 1 .. n : bytes[a + 1 + i] = file.bytes[a + 1 + i]
  <2> TAKE i \in 1 .. n
  <2>1. a + 1 + i \in 1 .. Len(bytes)
    BY <1>4, <1>9
  <2> QED BY <2>1, FileIs
<1>11. \A high :
         NumberAt(bytes, a + 1, n, high) = NumberAt(file.bytes, a + 1, n, high)
  BY <1>9, SameNumber
<1>12. SizeAt(bytes, a) = SizeAt(file.bytes, a)
  <2> DEFINE h == bytes[a + 1] % 2 ^ (7 - n)
  <2>1. (\A i \in 1 .. n : bytes[a + 1 + i] = 255) <=>
        (\A i \in 1 .. n : file.bytes[a + 1 + i] = 255)
    BY <1>10
  <2>2. SizeAt(bytes, a) =
          IF h = 2 ^ (7 - n) - 1 /\ (\A i \in 1 .. n : bytes[a + 1 + i] = 255)
          THEN Unknown ELSE NumberAt(bytes, a + 1, n, h)
    BY <1>7, Zenon DEF SizeAt
  <2>3. SizeAt(file.bytes, a) =
          IF h = 2 ^ (7 - n) - 1
             /\ (\A i \in 1 .. n : file.bytes[a + 1 + i] = 255)
          THEN Unknown ELSE NumberAt(file.bytes, a + 1, n, h)
    BY <1>6, <1>7, Zenon DEF SizeAt
  <2>4. NumberAt(bytes, a + 1, n, h) = NumberAt(file.bytes, a + 1, n, h)
    BY <1>11, Zenon
  <2> HIDE DEF h
  <2> QED BY <2>1, <2>2, <2>3, <2>4
<1>13. LenAt(bytes, p) = LenAt(file.bytes, p)
  BY <1>3, <1>4, <1>12, Zenon DEF LenAt
<1>14. ASSUME LenAt(bytes, p) # Unknown,
              BodyAt(bytes, p) + LenAt(bytes, p) <= Len(bytes)
       PROVE  ContentAt(bytes, p) = ContentAt(file.bytes, p)
  <2>1. LenAt(bytes, p) \in Nat /\ BodyAt(bytes, p) \in Nat
    BY <1>14, BeginsIs
  <2> QED BY <1>8, <1>13, <1>14, <2>1, SameNumber, Zenon DEF ContentAt
<1> QED BY <1>4, <1>8, <1>13, <1>14

\* An element of the file that is not cut off before its body.
LEMMA BeginsUncut ==
  ASSUME OfFile, bytes \in Seq(Byte), NEW p \in Nat, Begins(file.bytes, p),
         BodyAt(file.bytes, p) <= Len(bytes)
  PROVE  Begins(bytes, p)
<1>1. /\ p < Len(file.bytes) /\ file.bytes[p + 1] >= 16
      /\ p + More(file.bytes[p + 1]) < Len(file.bytes)
  BY DEF Begins, HasId
<1>2. PICK a : a = After(file.bytes, p)
  OBVIOUS
<1>3. /\ a < Len(file.bytes) /\ More(file.bytes[a + 1]) < 8
      /\ a + More(file.bytes[a + 1]) < Len(file.bytes)
  BY <1>2 DEF Begins, HasSize
<1>4. file.bytes \in Seq(Byte) /\ Len(bytes) \in Nat /\ Len(file.bytes) \in Nat
  BY FileIs
<1>5. PICK m \in Nat : m = More(file.bytes[p + 1]) /\ a = p + 1 + m /\ a \in Nat
  BY <1>1, <1>2, <1>4, ByteAt
<1>6. PICK n \in Nat : /\ n = More(file.bytes[a + 1])
                       /\ BodyAt(file.bytes, p) = a + 1 + n
  <2>1. PICK n \in Nat : n = More(file.bytes[a + 1])
    BY <1>3, <1>4, <1>5, ByteAt
  <2>2. BodyAt(file.bytes, p) = a + 1 + n
    BY <1>2, <2>1, Zenon DEF BodyAt, After
  <2> QED BY <2>1, <2>2
<1>7. p < Len(bytes) /\ p + m < Len(bytes) /\ a < Len(bytes) /\ a + n < Len(bytes)
  <2>1. a + 1 + n <= Len(bytes)
    BY <1>6
  <2>2. Len(bytes) \in Nat /\ a = p + 1 + m /\ a \in Nat /\ m \in Nat /\ n \in Nat
    BY <1>4, <1>5, <1>6
  <2> QED BY <2>1, <2>2
<1>8. bytes[p + 1] = file.bytes[p + 1] /\ After(bytes, p) = a
  BY <1>2, <1>7, SameId
<1>9. bytes[a + 1] = file.bytes[a + 1]
  BY <1>5, <1>7, SameId
<1>10. HasId(bytes, p)
  BY <1>1, <1>5, <1>7, <1>8 DEF HasId
<1>11. HasSize(bytes, a)
  BY <1>3, <1>6, <1>7, <1>9 DEF HasSize
<1> QED BY <1>8, <1>10, <1>11 DEF Begins

-----------------------------------------------------------------------------
(* The Readers of elements that are in each other.                          *)

\* The Reader of element e.
Vague(f, e) == e = Top \/ LenAt(f.bytes, e) = Unknown
Fits(f, r, e) ==
  /\ r.id = IdOf(f, e)
  /\ r.end = IF Vague(f, e) THEN Unknown ELSE End(f, e)
  /\ Vague(f, e) => r.len = Unknown

\* The Readers that are open are those of elements that are looked into, each of
\* them in the one before.
Along(f, path) ==
  /\ PathIn(f, path) /\ Len(path) = at
  /\ \A k \in 1 .. at : Fits(f, readers[k], path[k])

\* The next element in e, or the end of e, is at cur, and the reader is on its
\* way to it or in its midst.
Here(f, e, cur) ==
  /\ src = off + Len(buffered) /\ Ending(readers, off)
  /\ step = "skip" => cur \in NextIn(f, e, off + Below(at))
  /\ step = "id" => cur \in NextIn(f, e, off)
  /\ step \in InElement => cur \in In(f, e) /\ Marks(cur)
  /\ step = "error" => err = "EOF" /\ off = cur /\ cur = End(f, e)
Core(f, path, cur) == Along(f, path) /\ Here(f, path[at], cur)

\* The file that is read is f.
Reads(f) == file = f /\ OfFile /\ WellFormed(f)

LEMMA ReadsIs ==
  ASSUME NEW f, Reads(f), Buffer
  PROVE  /\ f.bytes \in Seq(Byte) /\ Len(f.bytes) \in Nat
         /\ Len(bytes) \in Nat /\ Len(bytes) <= Len(f.bytes)
         /\ Cut <=> Len(bytes) < Len(f.bytes)
         /\ Tiled(f) /\ WellFormed(f) /\ OfFile
         /\ \A i \in 1 .. Len(bytes) : bytes[i] = f.bytes[i]
<1>1. bytes \in Seq(Byte)
  BY DEF Buffer
<1>2. file = f /\ OfFile /\ WellFormed(f)
  BY DEF Reads
<1>3. Tiled(f)
  BY <1>2 DEF WellFormed
<1>4. Cut <=> Len(bytes) < Len(f.bytes)
  BY <1>2 DEF Cut
<1> QED BY <1>1, <1>2, <1>3, <1>4, FileIs

LEMMA BorderIs ==
  ASSUME NEW f, f.bytes \in Seq(Byte), Tiled(f), NEW e, End(f, e) \in Nat,
         NEW y \in Borders(f, e)
  PROVE  /\ y \in Nat /\ y <= End(f, e)
         /\ y \in In(f, e) =>
              /\ Body(f, y) \in Nat /\ End(f, y) \in Nat
              /\ y < Body(f, y) /\ Body(f, y) <= End(f, y)
              /\ End(f, y) <= End(f, e) /\ y < End(f, e)
<1>1. CASE y \in In(f, e)
  <2>1. y \in Elements(f) /\ End(f, y) <= End(f, e)
    BY <1>1, WithinIs
  <2>2. /\ y \in Nat /\ Body(f, y) \in Nat /\ End(f, y) \in Nat
        /\ y < Body(f, y) /\ Body(f, y) <= End(f, y)
    BY <2>1, ElementIs
  <2> QED BY <2>1, <2>2
<1>2. CASE y \notin In(f, e)
  <2>1. y = End(f, e)
    BY <1>2 DEF Borders
  <2> QED BY <1>2, <2>1
<1> QED BY <1>1, <1>2

\* What is left of the Reader that reads.
LEMMA ReaderHere ==
  ASSUME Buffer, Chain, NEW f, Reads(f), NEW path, NEW cur, Core(f, path, cur)
  PROVE  /\ at \in Nat /\ at >= 1 /\ at \in 1 .. Len(path)
         /\ at \in 1 .. Len(readers)
         /\ path[at] \in Int /\ End(f, path[at]) \in Nat
         /\ End(f, path[at]) <= Len(f.bytes)
         /\ off \in Nat /\ src = off + Len(buffered) /\ Ending(readers, off)
         /\ readers[at] \in Readers /\ readers[at].len \in Int
         /\ readers[at].end \in Int
         /\ readers[at].len >= -1
         /\ Fits(f, readers[at], path[at])
         /\ readers[at].end = Unknown =>
              readers[at].len = Unknown /\ End(f, path[at]) = Len(f.bytes)
         /\ readers[at].end # Unknown =>
              /\ readers[at].len \in Nat /\ readers[at].end = End(f, path[at])
              /\ Len(readers) = at =>
                   off + readers[at].len = End(f, path[at])
<1>1. /\ PathIn(f, path) /\ Len(path) = at
      /\ \A k \in 1 .. at : Fits(f, readers[k], path[k])
      /\ src = off + Len(buffered) /\ Ending(readers, off)
  BY DEF Core, Along, Here
<1>2. /\ readers \in Seq(Readers) /\ at \in Nat /\ at >= 1
      /\ at \in 1 .. Len(readers) /\ at \in 1 .. at
  BY ChainIs
<1>3. /\ readers[at] \in Readers /\ readers[at].len \in Int
      /\ readers[at].end \in Int /\ readers[at].len >= -1
      /\ readers[at].end # Unknown => readers[at].len >= 0
  BY <1>2, ReaderIs
<1>4. /\ path[at] \in Int /\ End(f, path[at]) \in Nat
      /\ End(f, path[at]) <= Len(f.bytes)
  BY <1>1, <1>2, ReadsIs, PathIs
<1>5. /\ readers[at].end =
           IF Vague(f, path[at]) THEN Unknown ELSE End(f, path[at])
      /\ Vague(f, path[at]) => readers[at].len = Unknown
  BY <1>1, <1>2 DEF Fits
<1>6. End(f, path[at]) # Unknown
  BY <1>4 DEF Unknown
<1>7. Vague(f, path[at]) => End(f, path[at]) = Len(f.bytes)
  BY Zenon DEF Vague, End
<1>8. ASSUME readers[at].end # Unknown, Len(readers) = at
      PROVE  off + readers[at].len = End(f, path[at])
  <2>1. readers[at].end = off + readers[at].len
    BY <1>1, <1>2, <1>8 DEF Ending
  <2> QED BY <1>5, <1>6, <1>8, <2>1
<1>9. off \in Nat
  BY Numbers
<1>10. readers[at].end # Unknown => readers[at].len \in Nat
  BY <1>3
<1> QED BY <1>1, <1>2, <1>3, <1>4, <1>5, <1>6, <1>7, <1>8, <1>9, <1>10

\* In an element that goes on for n bytes they are there, unless the file was
\* cut off before.
LEMMA Room ==
  ASSUME Buffer, Chain, NEW f, Reads(f), NEW path, NEW cur, Core(f, path, cur),
         Len(readers) = at, NEW n \in 0 .. 8,
         off < End(f, path[at]), off + n <= End(f, path[at]),
         NEW o \in next(readers[at], n), o.err # "none"
  PROVE  /\ Cut /\ o.src = Len(bytes) /\ Len(o.buffered) < n
         /\ Len(o.buffered) \in Nat
<1>1. PICK r : r = readers[at]
  OBVIOUS
<1>2. PICK z \in Nat : z = End(f, path[at])
  BY ReaderHere
<1>3. /\ r.len \in Int /\ (r.len = -1 \/ (r.len \in Nat /\ off + r.len = z))
      /\ off \in Nat /\ src = off + Len(buffered) /\ z <= Len(f.bytes)
  BY <1>1, <1>2, ReaderHere DEF Unknown
<1>4. n \in Nat /\ off < z /\ off + n <= z
  BY <1>2
<1>5. r.len # 0 /\ ~(0 <= r.len /\ r.len < n)
  BY <1>3, <1>4
<1>6. o \in Next(n)
  BY <1>1, <1>5 DEF next
<1>7. n \in 0 .. BufferSize
  BY BufferSizeAssumption
<1>8. /\ Len(bytes) < off + n /\ o.src = Len(bytes)
      /\ o.buffered = buffered /\ Len(buffered) < n
  BY <1>3, <1>6, <1>7, NextFails
<1>9. Len(bytes) < Len(f.bytes)
  <2>1. Len(bytes) \in Nat /\ Len(f.bytes) \in Nat
    BY ReadsIs
  <2> QED BY <1>3, <1>4, <1>8, <2>1
<1>10. Len(buffered) \in Nat
  BY Numbers
<1> QED BY <1>8, <1>9, <1>10, ReadsIs

\* At its end there is nothing.
LEMMA AtEnd ==
  ASSUME Buffer, Chain, NEW f, Reads(f), NEW path, NEW cur, Core(f, path, cur),
         Len(readers) = at, off = End(f, path[at]),
         NEW o \in next(readers[at], 1)
  PROVE  o.err = "EOF" /\ Stays(o)
<1>1. PICK r : r = readers[at]
  OBVIOUS
<1>2. /\ r.len \in Int /\ off \in Nat /\ src = off + Len(buffered)
      /\ \/ r.len = -1 /\ off = Len(f.bytes)
         \/ r.len \in Nat /\ off + r.len = off
  BY <1>1, ReaderHere DEF Unknown
<1>3. CASE r.len = 0
  <2>1. o = Outcome("EOF", src, buffered, off, <<>>)
    BY <1>1, <1>3 DEF next
  <2>8. o.err = "EOF" /\ o.src = src /\ o.buffered = buffered /\ o.off = off
    BY <2>1 DEF Outcome
  <2> QED BY <2>8 DEF Stays
<1>4. CASE r.len = -1 /\ off = Len(f.bytes)
  <2>1. /\ Len(bytes) \in Nat /\ Len(bytes) <= off /\ src \in Nat
        /\ Len(buffered) \in Nat /\ Left \in Nat /\ Left = Len(bytes) - src
    BY <1>4, ReadsIs, Numbers
  <2>2. Left = 0 /\ Len(buffered) = 0 /\ src = Len(bytes)
    BY <1>2, <2>1
  <2>3. o \in Next(1)
    BY <1>1, <1>4 DEF next
  <2>4. ~(1 > BufferSize) /\ ~(1 - Len(buffered) <= 0) /\ Left < 1 - Len(buffered)
    BY <2>2, BufferSizeAssumption
  <2>5. o = Outcome(EndOfSource(0), Len(bytes), buffered, off, <<>>)
    BY <2>3, <2>4 DEF Next
  <2>6. EndOfSource(0) = "EOF"
    BY <2>2, Zenon DEF EndOfSource
  <2>7. o = Outcome("EOF", src, buffered, off, <<>>)
    BY <2>2, <2>5, <2>6, Zenon
  <2>8. o.err = "EOF" /\ o.src = src /\ o.buffered = buffered /\ o.off = off
    BY <2>7 DEF Outcome
  <2> QED BY <2>8 DEF Stays
<1> QED BY <1>2, <1>3, <1>4

\* What a call of Reader.next that does not fail leaves.
LEMMA Got ==
  ASSUME Buffer, Chain, NEW f, Reads(f), NEW path, NEW cur, Core(f, path, cur),
         Len(readers) = at, NEW n \in 0 .. 8,
         NEW o \in next(readers[at], n), o.err = "none", Takes(o),
         bytes' = bytes
  PROVE  /\ off' = off + n /\ off' \in Nat /\ src' = off' + Len(buffered')
         /\ Used(readers[at], n) \in Readers
         /\ Used(readers[at], n).id = readers[at].id
         /\ Used(readers[at], n).end = readers[at].end
         /\ Fits(f, Used(readers[at], n), path[at])
         /\ readers[at].end = Unknown => Used(readers[at], n).len = Unknown
         /\ readers[at].end # Unknown =>
              /\ Used(readers[at], n).len \in Nat
              /\ off + readers[at].len = off' + Used(readers[at], n).len
              /\ off' + Used(readers[at], n).len = End(f, path[at])
         /\ Charged(n) \in Seq(Readers) /\ Len(Charged(n)) = at
         /\ Ending(Charged(n), off')
         /\ \A k \in 1 .. at : Fits(f, Charged(n)[k], path[k])
<1>1. PICK r : r = readers[at]
  OBVIOUS
<1>2. PICK u : u = Used(readers[at], n)
  OBVIOUS
<1>3. PICK z \in Nat : z = End(f, path[at])
  BY ReaderHere
<1>4. /\ r \in Readers /\ r.len \in Int /\ r.end \in Int /\ r.len >= -1
      /\ r.end = Unknown => r.len = -1
      /\ r.end # Unknown => r.len \in Nat /\ off + r.len = z
      /\ off \in Nat /\ src = off + Len(buffered)
      /\ Ending(readers, off) /\ Fits(f, r, path[at])
      /\ at \in 1 .. Len(readers) /\ at >= 1
  BY <1>1, <1>3, ReaderHere DEF Unknown
<1>5. n \in Nat
  OBVIOUS
<1>6. Leaves(o, n) /\ (r.len = -1 \/ r.len >= n)
  BY <1>1, <1>4, <1>5, ReaderNextLeaves
<1>7. off' = off + n /\ off' \in Nat
  BY <1>4, <1>5, <1>6 DEF Leaves, Takes
<1>8. src' = off' + Len(buffered')
  <2>1. o.off + Len(o.buffered) + src = off + Len(buffered) + o.src
    BY <1>1, <1>5, ReaderNextSteady DEF Steady
  <2>2. o.src \in Nat /\ o.off \in Nat /\ Len(o.buffered) \in Nat
    <3>1. o.src \in src .. Len(bytes) /\ o.buffered \in Seq(Byte)
          /\ o.off = off + n
      BY <1>6 DEF Leaves
    <3>2. src \in Nat
      BY Numbers
    <3> QED BY <1>4, <1>5, <3>1, <3>2
  <2>3. Len(buffered) \in Nat /\ src \in Nat
    BY Numbers
  <2>5. src = off + Len(buffered) /\ off \in Nat
    BY <1>4
  <2>6. PICK a, b, l : a = o.src /\ b = o.off /\ l = Len(o.buffered)
    OBVIOUS
  <2>4. o.src = o.off + Len(o.buffered)
    <3>1. b + l + src = src + a /\ a \in Nat /\ b \in Nat /\ l \in Nat
      BY <2>1, <2>2, <2>5, <2>6
    <3>2. a = b + l
      BY <2>3, <3>1
    <3> QED BY <2>6, <3>2
  <2> QED BY <2>4 DEF Takes
<1>9. /\ u \in Readers /\ u.id = r.id /\ u.end = r.end
      /\ u.len = IF r.len >= n THEN r.len - n ELSE r.len
  BY <1>1, <1>2, <1>4, <1>5, UsedIs
<1>10. r.end = Unknown => u.len = Unknown
  BY <1>4, <1>5, <1>9 DEF Unknown
<1>11. r.end # Unknown => /\ u.len \in Nat
                          /\ off + r.len = off' + u.len /\ off' + u.len = z
  <2> SUFFICES ASSUME r.end # Unknown
               PROVE  /\ u.len \in Nat
                      /\ off + r.len = off' + u.len /\ off' + u.len = z
    OBVIOUS
  <2>1. r.len \in Nat /\ off + r.len = z
    BY <1>4
  <2>2. r.len >= n
    BY <1>6, <2>1
  <2>3. u.len = r.len - n
    BY <1>9, <2>2, Zenon
  <2>4. /\ r.len - n \in Nat /\ off + r.len = (off + n) + (r.len - n)
    BY <1>4, <1>5, <2>1, <2>2
  <2> QED BY <1>7, <2>1, <2>3, <2>4, Zenon
<1>12. Fits(f, u, path[at])
  <2>1. r.end = Unknown => u.len = Unknown
    BY <1>10
  <2> QED BY <1>4, <1>9, <2>1 DEF Fits
<1>13. Charged(n) = [readers EXCEPT ![at] = u]
  BY <1>2 DEF Charged
<1>14. PICK c : c = Charged(n)
  OBVIOUS
<1>15. readers \in Seq(Readers)
  BY ChainIs
<1>16. /\ c \in Seq(Readers) /\ Len(c) = Len(readers) /\ c[at] = u
       /\ \A i \in 1 .. Len(readers) : i # at => c[i] = readers[i]
  BY <1>4, <1>9, <1>13, <1>14, <1>15, Replaced
<1>17. Ending(c, off')
  <2>1. u.end # Unknown => off + readers[at].len = off' + u.len
    BY <1>1, <1>9, <1>11
  <2>2. off \in Int /\ off' \in Int /\ u.end = readers[at].end
    BY <1>1, <1>4, <1>7, <1>9
  <2> QED BY <1>4, <1>9, <1>13, <1>14, <1>15, <2>1, <2>2, ReadOfLast
<1>18. \A k \in 1 .. at : Fits(f, c[k], path[k])
  <2> TAKE k \in 1 .. at
  <2>1. CASE k = at
    BY <1>12, <1>16, <2>1
  <2>2. CASE k # at
    <3>1. Fits(f, readers[k], path[k])
      BY DEF Core, Along
    <3> QED BY <1>16, <2>2, <3>1
  <2> QED BY <2>1, <2>2
<1> QED BY <1>1, <1>2, <1>3, <1>7, <1>8, <1>9, <1>10, <1>11, <1>12, <1>14,
           <1>16, <1>17, <1>18

\* The source has ended, and what is left in the buffer is too short for a
\* block.
Over ==
  /\ Left = 0
  /\ Len(buffered) <= CASE step \in {"id rest", "size"} -> 5
                        [] step \in {"size rest", "element"} -> 4
                        [] OTHER -> 6

LEMMA OverIs ==
  /\ step \in {"id rest", "size"} => (Over <=> Left = 0 /\ Len(buffered) <= 5)
  /\ step \in {"size rest", "element"} =>
       (Over <=> Left = 0 /\ Len(buffered) <= 4)
  /\ step \notin {"id rest", "size", "size rest", "element"} =>
       (Over <=> Left = 0 /\ Len(buffered) <= 6)
BY DEF Over

LEMMA OverAtError ==
  ASSUME Buffer, NEW o, Takes(o), bytes' = bytes, step' = "error",
         o.src = Len(bytes), Len(o.buffered) \in Nat, Len(o.buffered) <= 6
  PROVE  Over'
<1>1. Left' = 0
  <2>1. Len(bytes) \in Nat /\ src' = Len(bytes)
    BY Numbers DEF Takes
  <2> QED BY <2>1 DEF Left
<1>2. Len(buffered') <= 6
  BY DEF Takes
<1> QED BY <1>1, <1>2 DEF Over

\* The Readers and the place after a step of ReadElement.
LEMMA CoreAfter ==
  ASSUME NEW f, NEW path, NEW cur, Core(f, path, cur), at' = at,
         \A k \in 1 .. at : Fits(f, readers'[k], path[k]),
         src' = off' + Len(buffered'), Ending(readers', off'),
         step' # "skip", step' = "id" => cur \in NextIn(f, path[at], off'),
         step' \in InElement => cur \in In(f, path[at]) /\ Marks(cur)',
         step' = "error" =>
           err' = "EOF" /\ off' = cur /\ cur = End(f, path[at])
  PROVE  Core(f, path, cur)'
<1>1. Along(f, path)'
  BY DEF Core, Along
<1>2. Here(f, path[at], cur)'
  <2>1. path[at'] = path[at]
    OBVIOUS
  <2> QED BY <2>1 DEF Here
<1> QED BY <1>1, <1>2 DEF Core

\* Skipping fails only where the source ends before.
LEMMA SkipFails ==
  ASSUME Buffer, src = off + Len(buffered), NEW n \in Nat,
         NEW o \in Skip(n), o.err # "none"
  PROVE  Len(bytes) < off + n /\ o.src = Len(bytes) /\ o.buffered = <<>>
<1> DEFINE d    == n - Len(buffered)
           full == ((d - 1) \div BufferSize) * BufferSize
           read == (Min({Left, full}) \div BufferSize) * BufferSize
           failed == Outcome(EndOfSource(read), Len(bytes), <<>>,
                             off + Len(buffered) + read, <<>>)
           some(k) == Outcome("none", src + k,
                              SubSeq(bytes, src + d + 1, src + k), off + n,
                              <<>>)
<1>1. o \in IF d <= 0 THEN {FromBuffer(n)}
            ELSE IF Left < d THEN {failed}
            ELSE {some(k) : k \in Given(d, full + BufferSize)}
  BY Zenon DEF Skip
<1>2. FromBuffer(n).err = "none"
  BY DEF FromBuffer, Outcome
<1>3. \A k : some(k).err = "none"
  BY DEF Outcome
<1> HIDE DEF some, failed
<1>4. ~(d <= 0) /\ Left < d /\ o = failed
  BY <1>1, <1>2, <1>3
<1>5. o.src = Len(bytes) /\ o.buffered = <<>>
  BY <1>4 DEF failed, Outcome
<1>6. Len(bytes) < off + n
  <2>1. /\ Len(buffered) \in Nat /\ Left = Len(bytes) - src /\ off \in Nat
        /\ Len(bytes) \in Nat /\ src \in Nat
    BY Numbers
  <2>2. Left < n - Len(buffered)
    BY <1>4
  <2> QED BY <2>1, <2>2
<1> QED BY <1>5, <1>6

LEMMA CoreSkip ==
  ASSUME Buffer, Chain, NEW f, Reads(f), NEW path, NEW cur, Core(f, path, cur),
         skip
  PROVE  Core(f, path, cur)' \/ (Cut /\ Over')
<1>1. /\ step = "skip" /\ readers' = SubSeq(readers, 1, at)
      /\ bytes' = bytes /\ at' = at
  BY DEF skip
<1>2. PICK o \in Skip(Below(at)) :
        /\ Takes(o)
        /\ IF o.err = "none" THEN step' = "id" /\ UNCHANGED err
           ELSE Fails(o.err)
  BY DEF skip
<1>3. PICK b : b = Below(at)
  OBVIOUS
<1>4. PICK z \in Nat : z = End(f, path[at])
  BY ReaderHere
<1>5. /\ readers \in Seq(Readers) /\ at \in 1 .. Len(readers)
      /\ off \in Nat /\ src = off + Len(buffered) /\ Ending(readers, off)
      /\ z <= Len(f.bytes)
  BY <1>4, ChainIs, ReaderHere
<1>6. /\ b \in Nat /\ Len(readers') = at
      /\ \A i \in 1 .. at : readers'[i] = readers[i]
      /\ \A x \in Int : Ending(readers, x) => Ending(readers', x + b)
  <2>1. b = LeftIn(readers, at)[Len(readers)]
    BY <1>3 DEF Below
  <2> QED BY <1>1, <1>5, <2>1, CutEnds
<1>7. cur \in NextIn(f, path[at], off + b)
  BY <1>1, <1>3 DEF Core, Here
<1>8. Leaves(o, b) /\ Steady(o)
  BY <1>2, <1>3, <1>6, SkipLeaves, SkipSteady
<1>9. CASE o.err = "none"
  <2>1. step' = "id"
    BY <1>2, <1>9
  <2>2. off' = off + b
    BY <1>8, <1>9, <1>2 DEF Leaves, Takes
  <2>3. Ending(readers', off')
    BY <1>5, <1>6, <2>2
  <2>4. src' = off' + Len(buffered')
    <3>1. o.off + Len(o.buffered) + src = off + Len(buffered) + o.src
      BY <1>8, <1>9 DEF Steady
    <3>2. o.src \in src .. Len(bytes) /\ o.buffered \in Seq(Byte)
          /\ o.off \in off .. off + b
      BY <1>8 DEF Leaves
    <3>3. PICK a, c, l : a = o.src /\ c = o.off /\ l = Len(o.buffered)
      OBVIOUS
    <3>4. src \in Nat /\ off \in Nat /\ src = off + Len(buffered)
          /\ Len(buffered) \in Nat
      BY <1>5, Numbers
    <3>5. a \in Nat /\ c \in Nat /\ l \in Nat
      BY <1>6, <3>2, <3>3, <3>4
    <3>6. c + l + src = src + a
      BY <3>1, <3>3, <3>4
    <3>7. a = c + l
      BY <3>4, <3>5, <3>6
    <3> QED BY <1>2, <3>3, <3>7 DEF Takes
  <2>5. \A k \in 1 .. at : Fits(f, readers'[k], path[k])
    BY <1>6 DEF Core, Along
  <2>6. cur \in NextIn(f, path[at], off')
    BY <1>7, <2>2
  <2>7. step' # "skip" /\ step' \notin InElement /\ step' # "error"
    BY <2>1 DEF InElement
  <2> QED BY <1>1, <2>3, <2>4, <2>5, <2>6, <2>7, CoreAfter
<1>10. CASE o.err # "none"
  <2>1. Len(bytes) < off + b /\ o.src = Len(bytes) /\ o.buffered = <<>>
    BY <1>2, <1>3, <1>5, <1>6, <1>10, SkipFails
  <2>2. cur \in Borders(f, path[at]) /\ off + b <= cur
    BY <1>7 DEF NextIn
  <2>3. cur \in Nat /\ cur <= z
    BY <1>4, <2>2, ReadsIs, BorderIs
  <2>4. Cut
    <3>1. Len(bytes) \in Nat /\ Len(f.bytes) \in Nat
      BY ReadsIs
    <3>2. Len(bytes) < Len(f.bytes)
      BY <1>5, <1>6, <2>1, <2>2, <2>3, <3>1
    <3> QED BY <3>2, ReadsIs
  <2>5. step' = "error"
    BY <1>2, <1>10 DEF Fails
  <2>6. Len(o.buffered) = 0
    BY <2>1
  <2>7. Over'
    BY <1>1, <1>2, <2>1, <2>5, <2>6, OverAtError
  <2> QED BY <2>4, <2>7
<1> QED BY <1>9, <1>10

\* A call that fails in the midst of an element.
LEMMA CutShort ==
  ASSUME Buffer, Chain, NEW f, Reads(f), NEW path, NEW cur, Core(f, path, cur),
         Len(readers) = at, NEW n \in 0 .. 7,
         off < End(f, path[at]), off + n <= End(f, path[at]),
         NEW o \in next(readers[at], n), Lost(o, n), Takes(o), bytes' = bytes
  PROVE  Cut /\ Over'
<1>1. o.err # "none" /\ step' = "error"
  BY DEF Lost, Fails
<1>2. n \in 0 .. 8 /\ n \in Nat /\ n <= 7
  OBVIOUS
<1>3. /\ Cut /\ o.src = Len(bytes) /\ Len(o.buffered) < n
      /\ Len(o.buffered) \in Nat
  BY <1>1, <1>2, Room
<1>4. Len(o.buffered) <= 6
  BY <1>2, <1>3
<1> QED BY <1>1, <1>3, <1>4, OverAtError

\* A call that does not fail, and opens nothing.
LEMMA CoreGets ==
  ASSUME Buffer, Chain, NEW f, Reads(f), NEW path, NEW cur, Core(f, path, cur),
         Len(readers) = at, NEW n \in 0 .. 8,
         NEW o \in next(readers[at], n), o.err = "none", Takes(o),
         bytes' = bytes, at' = at, readers' = Charged(n),
         step' \in {"id", "id rest", "size", "size rest"},
         step' = "id" => cur \in NextIn(f, path[at], off + n),
         step' \in InElement => cur \in In(f, path[at]) /\ Marks(cur)'
  PROVE  Core(f, path, cur)'
<1>1. /\ off' = off + n /\ src' = off' + Len(buffered')
      /\ Ending(readers', off')
      /\ \A k \in 1 .. at : Fits(f, readers'[k], path[k])
  BY Got
<1>2. step' # "skip" /\ step' # "error"
  OBVIOUS
<1> QED BY <1>1, <1>2, CoreAfter

\* An id is at cur, or there are only bytes that none starts with before it.
LEMMA CoreReadID ==
  ASSUME Buffer, Chain, NEW f, Reads(f), NEW path, NEW cur, Core(f, path, cur),
         readID
  PROVE  Core(f, path, cur)' \/ (Cut /\ Over')
<1>1. step = "id" /\ bytes' = bytes /\ at' = at
  BY DEF readID
<1>2. PICK o \in next(readers[at], 1) :
        /\ Takes(o)
        /\ \/ Lost(o, 1)
           \/ /\ Gets(o, 1)
              /\ step' = IF o.b[1] < 16 THEN "id"
                         ELSE IF More(o.b[1]) = 0 THEN "size" ELSE "id rest"
  BY Zenon DEF readID
<1>3. Len(readers) = at /\ 1 \in 0 .. 8 /\ 1 \in 0 .. 7
  BY <1>1 DEF Chain
<1>11. o \in next(readers[at], 1) /\ Takes(o)
  BY <1>2
<1>4. PICK z \in Nat : z = End(f, path[at])
  BY ReaderHere
<1>5. /\ off \in Nat /\ src = off + Len(buffered) /\ Ending(readers, off)
      /\ at \in 1 .. Len(readers) /\ readers[at] \in Readers
      /\ readers[at].len \in Int
  BY ReaderHere
<1>6. cur \in NextIn(f, path[at], off)
  BY <1>1 DEF Core, Here
<1>7. /\ cur \in Borders(f, path[at]) /\ off <= cur
      /\ \A k \in off + 1 .. cur : f.bytes[k] < 16
  BY <1>6 DEF NextIn
<1>8. /\ cur \in Nat /\ cur <= z
      /\ cur \in In(f, path[at]) => cur < z
  BY <1>4, <1>7, ReadsIs, BorderIs
<1>9. CASE off = cur /\ cur = z
  <2>1. o.err = "EOF" /\ Stays(o)
    BY <1>2, <1>3, <1>4, <1>9, AtEnd
  <2>2. Lost(o, 1)
    BY <1>2, <2>1 DEF Gets
  <2>3. /\ step' = "error" /\ err' = "EOF"
        /\ readers' = [readers EXCEPT ![at] = Used(@, 1)]
    BY <2>1, <2>2 DEF Lost, Fails
  <2>4. off' = off /\ src' = src /\ buffered' = buffered
    BY <1>2, <2>1 DEF Takes, Stays
  <2>5. PICK r : r = readers[at]
    OBVIOUS
  <2>6. r.len = Unknown \/ r.len = 0
    <3>1. /\ r.end = Unknown => r.len = Unknown
          /\ r.end # Unknown => off + r.len = z /\ r.len \in Nat
      BY <1>3, <1>4, <2>5, ReaderHere
    <3> QED BY <1>5, <1>8, <1>9, <3>1
  <2>7. ~(r.len >= 1)
    BY <2>6 DEF Unknown
  <2>8. Used(r, 1) = r
    BY <2>7, Zenon DEF Used
  <2>9. readers' = [readers EXCEPT ![at] = r]
    BY <2>3, <2>5, <2>8
  <2>10. readers \in Seq(Readers)
    BY ChainIs
  <2>11. readers' = readers
    BY <1>5, <2>5, <2>9, <2>10
  <2>12. src' = off' + Len(buffered')
    BY <1>5, <2>4
  <2>13. Ending(readers', off')
    BY <1>5, <2>4, <2>11
  <2>14. \A k \in 1 .. at : Fits(f, readers'[k], path[k])
    BY <2>11 DEF Core, Along
  <2>15. step' # "skip" /\ step' # "id" /\ step' \notin InElement
    BY <2>3 DEF InElement
  <2>16. off' = cur /\ cur = End(f, path[at])
    BY <1>4, <1>9, <2>4
  <2> QED BY <1>1, <2>3, <2>12, <2>13, <2>14, <2>15, <2>16, CoreAfter
<1>10. CASE ~(off = cur /\ cur = z)
  <2>1. off < z /\ off + 1 <= z
    BY <1>5, <1>7, <1>8, <1>10
  <2>2. CASE Lost(o, 1)
    BY <1>1, <1>3, <1>4, <1>11, <2>1, <2>2, CutShort
  <2>3. CASE ~Lost(o, 1)
    <3>1. /\ o.err = "none" /\ readers' = Charged(1)
          /\ step' = IF o.b[1] < 16 THEN "id"
                     ELSE IF More(o.b[1]) = 0 THEN "size" ELSE "id rest"
      BY <1>2, <2>3, Zenon DEF Gets, Charged
    <3>2. /\ off + 1 <= Len(bytes) /\ \A i \in 1 .. 1 : o.b[i] = bytes[off + i]
      BY <1>3, <1>11, <3>1, BytesRead
    <3>3. o.b[1] = f.bytes[off + 1]
      <4>1. off + 1 \in 1 .. Len(bytes)
        BY <1>5, <3>2
      <4> QED BY <3>2, <4>1, ReadsIs
    <3>4. CASE off < cur
      <4>1. off + 1 \in off + 1 .. cur
        BY <1>5, <1>8, <3>4
      <4>2. o.b[1] < 16
        BY <1>7, <3>3, <4>1
      <4>3. step' = "id"
        BY <3>1, <4>2
      <4>4. cur \in NextIn(f, path[at], off + 1)
        <5>1. off + 1 <= cur
          BY <1>5, <1>8, <3>4
        <5>2. \A k \in (off + 1) + 1 .. cur : k \in off + 1 .. cur
          BY <1>5, <1>8
        <5> QED BY <1>7, <5>1, <5>2 DEF NextIn
      <4>5. step' \notin InElement
        BY <4>3 DEF InElement
      <4> QED BY <1>1, <1>3, <1>11, <3>1, <4>3, <4>4, <4>5, CoreGets
    <3>5. CASE off = cur
      <4>1. cur \in In(f, path[at])
        BY <1>4, <1>7, <1>10, <3>5 DEF Borders
      <4>2. f.bytes[cur + 1] >= 16 /\ f.bytes[cur + 1] \in Nat
        <5>1. cur \in Elements(f)
          BY <4>1, ReadsIs, WithinIs
        <5>2. cur < Len(f.bytes) /\ f.bytes[cur + 1] >= 16
          BY <5>1, ReadsIs, ElementIs
        <5> QED BY <1>8, <5>2, ReadsIs, ByteAt
      <4>3. ~(o.b[1] < 16)
        BY <3>3, <3>5, <4>2
      <4>4. step' \in {"size", "id rest"} /\ step' # "id"
        BY <3>1, <4>3
      <4>5. step' \in InElement
        BY <4>4 DEF InElement
      <4>6. Marks(cur)'
        <5>1. step \notin InElement /\ ReadElement
          BY <1>1 DEF InElement, ReadElement
        <5> QED BY <3>5, <4>5, <5>1, Marking
      <4> QED BY <1>1, <1>3, <1>11, <3>1, <4>1, <4>4, <4>6, CoreGets
    <3> QED BY <1>5, <1>7, <1>8, <3>4, <3>5
  <2> QED BY <2>2, <2>3
<1> QED BY <1>9, <1>10

\* Where the parts of the element are that the reader is in.
LEMMA MidElement ==
  ASSUME Buffer, Chain, NEW f, Reads(f), NEW path, NEW cur, Core(f, path, cur),
         step \in InElement
  PROVE  /\ cur \in Nat /\ cur \in Elements(f) /\ cur \in In(f, path[at])
         /\ Marks(cur) /\ cur < Len(bytes) /\ Begins(f.bytes, cur)
         /\ bytes[cur + 1] = f.bytes[cur + 1] /\ bytes[cur + 1] \in Nat
         /\ bytes[cur + 1] >= 16 /\ More(bytes[cur + 1]) \in 0 .. 3
         /\ After(bytes, cur) = After(f.bytes, cur)
         /\ After(bytes, cur) = cur + 1 + More(bytes[cur + 1])
         /\ After(bytes, cur) \in Nat
         /\ After(bytes, cur) < Len(f.bytes)
         /\ More(f.bytes[After(bytes, cur) + 1]) \in 0 .. 7
         /\ Body(f, cur) = After(bytes, cur) + 1
                             + More(f.bytes[After(bytes, cur) + 1])
         /\ Body(f, cur) \in Nat /\ End(f, cur) \in Nat
         /\ Body(f, cur) <= End(f, cur) /\ End(f, cur) <= End(f, path[at])
<1>1. cur \in In(f, path[at]) /\ Marks(cur)
  BY DEF Core, Here
<1>2. cur \in Nat /\ cur < Len(bytes) /\ bytes[cur + 1] >= 16
  BY <1>1 DEF Marks
<1>3. /\ f.bytes \in Seq(Byte) /\ Len(f.bytes) \in Nat /\ Tiled(f)
      /\ Len(bytes) \in Nat /\ Len(bytes) <= Len(f.bytes) /\ OfFile /\ file = f
      /\ bytes \in Seq(Byte)
  BY ReadsIs DEF Reads, Buffer
<1>4. cur \in Elements(f) /\ End(f, cur) <= End(f, path[at])
  BY <1>1, <1>3, WithinIs
<1>5. /\ Begins(f.bytes, cur) /\ Body(f, cur) = BodyAt(f.bytes, cur)
      /\ Body(f, cur) \in Nat /\ End(f, cur) \in Nat
      /\ Body(f, cur) <= End(f, cur)
  BY <1>3, <1>4, ElementIs
<1>6. /\ bytes[cur + 1] = f.bytes[cur + 1]
      /\ After(bytes, cur) = After(f.bytes, cur)
  BY <1>2, <1>3, SameId
<1>7. /\ After(bytes, cur) = cur + 1 + More(bytes[cur + 1])
      /\ After(bytes, cur) \in Nat /\ bytes[cur + 1] \in Nat
      /\ More(bytes[cur + 1]) \in 0 .. 3
  BY <1>2, <1>3, ByteAt
<1>8. PICK a : a = After(bytes, cur)
  OBVIOUS
<1>9. a \in Nat /\ a < Len(f.bytes) /\ More(f.bytes[a + 1]) < 8
  BY <1>5, <1>6, <1>7, <1>8 DEF Begins, HasSize
<1>10. More(f.bytes[a + 1]) \in 0 .. 8
  BY <1>3, <1>9, ByteAt
<1>11. BodyAt(f.bytes, cur) = a + 1 + More(f.bytes[a + 1])
  <2>1. BodyAt(f.bytes, cur) = After(f.bytes, a)
    BY <1>6, <1>8 DEF BodyAt
  <2> QED BY <1>3, <1>9, <2>1, ByteAt
<1>12. More(f.bytes[a + 1]) \in 0 .. 7
  BY <1>9, <1>10
<1> QED BY <1>1, <1>2, <1>4, <1>5, <1>6, <1>7, <1>8, <1>9, <1>11, <1>12

LEMMA CoreIDRest ==
  ASSUME Buffer, Chain, NEW f, Reads(f), NEW path, NEW cur, Core(f, path, cur),
         readIDRest
  PROVE  Core(f, path, cur)' \/ (Cut /\ Over')
<1>1. step = "id rest" /\ bytes' = bytes /\ at' = at
  BY DEF readIDRest
<1>2. step \in InElement /\ Len(readers) = at
  BY <1>1 DEF InElement, Chain
<1>3. PICK n : n = More(first)
  OBVIOUS
<1>4. PICK o \in next(readers[at], n) :
        /\ Takes(o)
        /\ Lost(o, n) \/ (Gets(o, n) /\ step' = "size")
  BY <1>3, Zenon DEF readIDRest
<1>5. o \in next(readers[at], n) /\ Takes(o)
  BY <1>4
<1>6. off = cur + 1 /\ first = bytes[cur + 1] /\ cur \in Nat
  BY <1>1, <1>2, MidElement DEF Marks
<1>7. PICK a \in Nat : a = After(bytes, cur)
  BY <1>2, MidElement
<1>8. PICK m \in 0 .. 7 : m = More(f.bytes[a + 1])
  BY <1>2, <1>7, MidElement
<1>9. PICK c \in Nat, z \in Nat, y \in Nat :
        c = Body(f, cur) /\ z = End(f, cur) /\ y = End(f, path[at])
  BY <1>2, MidElement, ReaderHere
<1>10. n \in 0 .. 3 /\ a = cur + 1 + n
  BY <1>2, <1>3, <1>6, <1>7, MidElement
<1>11. c = a + 1 + m /\ c <= z /\ z <= y
  BY <1>2, <1>7, <1>8, <1>9, MidElement
<1>12. n \in 0 .. 7 /\ n \in 0 .. 8 /\ off < y /\ off + n <= y
  BY <1>6, <1>10, <1>11
<1>13. CASE Lost(o, n)
  BY <1>1, <1>2, <1>5, <1>9, <1>12, <1>13, CutShort
<1>14. CASE ~Lost(o, n)
  <2>1. o.err = "none" /\ readers' = Charged(n) /\ step' = "size"
    BY <1>4, <1>14, Zenon DEF Gets, Charged
  <2>2. step' \in InElement /\ step' # "id"
    BY <2>1 DEF InElement
  <2>3. Marks(cur)'
    <3>1. ReadElement /\ step # "id"
      BY <1>1 DEF ReadElement
    <3> QED BY <1>2, <2>2, <3>1, MidElement, Marking
  <2>4. cur \in In(f, path[at])
    BY <1>2, MidElement
  <2> QED BY <1>1, <1>2, <1>5, <1>12, <2>1, <2>2, <2>3, <2>4, CoreGets
<1> QED BY <1>13, <1>14

\* A size of one byte.
LEMMA ShortSize ==
  ASSUME NEW b \in Seq(Byte), NEW q \in Nat, q < Len(b),
         NEW x, x = b[q + 1], More(x) = 0
  PROVE  /\ SizeAt(b, q) = IF x = 255 THEN Unknown ELSE x % 128
         /\ x % 128 \in Nat
<1>1. x \in Byte /\ x \in Nat
  BY ByteAt
<1>2. x >= 128 /\ x <= 255
  <2>1. \A y \in Byte : y <= 255
    BY DEF Byte
  <2> QED BY <1>1, <2>1, MoreOfFull, Zenon
<1>3. PICK y : y = x % 128
  OBVIOUS
<1>4. y = x - 128
  BY <1>1, <1>2, <1>3
<1>5. 7 - 0 = 7 /\ 2 ^ 7 = 128 /\ 128 - 1 = 127
  OBVIOUS
<1>6. SizeAt(b, q) =
        IF y = 127 /\ \A i \in 1 .. 0 : b[q + 1 + i] = 255
        THEN Unknown ELSE NumberAt(b, q + 1, 0, y)
  <2>1. PICK n, high : n = More(b[q + 1]) /\ high = b[q + 1] % 2 ^ (7 - n)
    OBVIOUS
  <2>2. SizeAt(b, q) =
          IF high = 2 ^ (7 - n) - 1 /\ \A i \in 1 .. n : b[q + 1 + i] = 255
          THEN Unknown ELSE NumberAt(b, q + 1, n, high)
    BY <2>1, Zenon DEF SizeAt
  <2>3. n = 0
    BY <2>1, Zenon
  <2>4. 2 ^ (7 - n) = 128
    BY <1>5, <2>3, ZenonT(60)
  <2>5. high = y /\ 2 ^ (7 - n) - 1 = 127
    BY <1>3, <1>5, <2>1, <2>4, Zenon
  <2> QED BY <2>2, <2>3, <2>5, Zenon
<1>7. y \in Nat /\ q + 1 \in Nat /\ q + 1 + 0 <= Len(b) /\ 0 \in Nat
  BY <1>1, <1>2, <1>4
<1>8. NumberAt(b, q + 1, 0, y) = y
  BY <1>7, NumberIs
<1>9. x = 255 <=> y = 127
  BY <1>1, <1>2, <1>4
<1>10. \A i \in 1 .. 0 : b[q + 1 + i] = 255
  OBVIOUS
<1>11. SizeAt(b, q) = IF x = 255 THEN Unknown ELSE y
  <2>1. CASE x = 255
    BY <1>6, <1>9, <1>10, <2>1, Zenon
  <2>2. CASE x # 255
    BY <1>6, <1>8, <1>9, <2>2, Zenon
  <2> QED BY <2>1, <2>2, Zenon
<1> QED BY <1>3, <1>7, <1>11, Zenon

\* What the first byte of a size says of it, if n more follow.
HighOf(x, n) == x % 2 ^ (7 - n)
AllOnes(d, high, n) == high = 2 ^ (7 - n) - 1 /\ \A i \in 1 .. n : d[i] = 255

\* And one of more.
LongAt(b, q, x, n, d, high) ==
  /\ b \in Seq(Byte) /\ q \in Nat /\ q < Len(b)
  /\ x = b[q + 1] /\ n = More(x) /\ n \in 1 .. 7 /\ (q + 1) + n <= Len(b)
  /\ d = SubSeq(b, (q + 1) + 1, (q + 1) + n) /\ high = HighOf(x, n)

LEMMA LongSize ==
  ASSUME NEW b, NEW q, NEW x, NEW n, NEW d, NEW high,
         LongAt(b, q, x, n, d, high)
  PROVE  /\ SizeAt(b, q) = IF AllOnes(d, high, n) THEN Unknown
                           ELSE BigEndian(d, high)[n]
         /\ BigEndian(d, high)[n] \in Nat
<1>0. /\ b \in Seq(Byte) /\ q \in Nat /\ q < Len(b)
      /\ x = b[q + 1] /\ n = More(x) /\ n \in 1 .. 7 /\ (q + 1) + n <= Len(b)
      /\ d = SubSeq(b, (q + 1) + 1, (q + 1) + n) /\ high = HighOf(x, n)
  BY Zenon DEF LongAt
<1>1. x \in Byte /\ n \in Nat /\ n \in 0 .. 7
  <2>1. x \in Byte
    BY <1>0, ByteAt
  <2> QED BY <1>0, <2>1
<1>2. high \in Nat
  BY <1>0, <1>1, HighIs DEF HighOf
<1>3. (q + 1) \in Nat /\ 0 \in Nat
  BY <1>0
<1>4. \A h \in Nat : NumberAt(b, q + 1, n, h) \in Nat
  BY <1>0, <1>1, <1>3, NumberIs
<1>6. \A h : NumberAt(b, q + 1, n, h) = BigEndian(d, h)[n]
  BY <1>0, Zenon DEF NumberAt
<1>7. \A i \in 1 .. n : d[i] = b[q + 1 + i]
  <2>1. \A i \in 1 .. n : SubSeq(b, (q + 1) + 1, (q + 1) + n)[i]
                            = b[(q + 1) + i]
    BY <1>0, <1>1, <1>3
  <2> QED BY <1>0, <2>1
<1>8. (\A i \in 1 .. n : d[i] = 255) <=> (\A i \in 1 .. n : b[q + 1 + i] = 255)
  <2> DEFINE c(i) == b[q + 1 + i]
  <2>1. \A i \in 1 .. n : d[i] = c(i)
    BY <1>7
  <2> HIDE DEF c
  <2>2. (\A i \in 1 .. n : d[i] = 255) <=> (\A i \in 1 .. n : c(i) = 255)
    <3>1. ASSUME \A i \in 1 .. n : d[i] = 255, NEW i \in 1 .. n
          PROVE  c(i) = 255
      BY <2>1, <3>1, Zenon
    <3>2. ASSUME \A i \in 1 .. n : c(i) = 255, NEW i \in 1 .. n
          PROVE  d[i] = 255
      <4>1. c(i) = 255
        BY <3>2, Zenon
      <4>2. d[i] = c(i)
        BY <2>1, Zenon
      <4> QED BY <4>1, <4>2, Zenon
    <3> QED BY <3>1, <3>2, Zenon
  <2> QED BY <2>2 DEF c
<1>9. SizeAt(b, q) =
        IF high = 2 ^ (7 - n) - 1 /\ \A i \in 1 .. n : b[q + 1 + i] = 255
        THEN Unknown ELSE NumberAt(b, q + 1, n, high)
  BY <1>0, Zenon DEF SizeAt, HighOf
<1>10. BigEndian(d, high)[n] \in Nat
  <2>1. NumberAt(b, q + 1, n, high) \in Nat
    BY <1>2, <1>4, Zenon
  <2> QED BY <1>6, <2>1, Zenon
<1> QED BY <1>6, <1>8, <1>9, <1>10, Zenon DEF AllOnes

\* The only element of unknown size is the segment.
LEMMA CoreOpensUnknown ==
  ASSUME Buffer, Chain, NEW f, Reads(f), NEW path, NEW cur, Core(f, path, cur),
         step \in InElement, Len(readers) = at, NEW n \in 0 .. 8,
         NEW o \in next(readers[at], n), o.err = "none", Takes(o),
         bytes' = bytes, at' = at, OpenUnknown(Used(readers[at], n)),
         LenAt(f.bytes, cur) = Unknown, Marks(cur)'
  PROVE  Core(f, path, cur)'
<1>1. cur \in Elements(f) /\ cur \in In(f, path[at])
  BY MidElement
<1>2. cur = Segment(f) /\ f.within[cur] = Top
  BY <1>1, ReadsIs, SegmentIs
<1>3. path[at] = Top
  BY <1>1, <1>2 DEF In
<1>4. /\ PathIn(f, path) /\ Len(path) = at /\ at \in 1 .. Len(path)
      /\ at \in Nat /\ at >= 1
  BY ReaderHere DEF Core, Along
<1>5. at = 1
  <2>1. at >= 2 => path[at] \in Nat
    BY <1>4, ReadsIs, PathIs
  <2>2. Top \notin Nat
    BY DEF Top
  <2> QED BY <1>3, <1>4, <2>1, <2>2
<1>6. PICK r : r = Used(readers[at], n)
  OBVIOUS
<1>7. /\ off' = off + n /\ src' = off' + Len(buffered')
      /\ r \in Readers /\ Fits(f, r, path[at])
      /\ Charged(n) \in Seq(Readers) /\ Len(Charged(n)) = at
  BY <1>6, Got
<1>8. Vague(f, path[at])
  BY <1>3 DEF Vague
<1>9. r.id = IdOf(f, path[at]) /\ r.end = Unknown /\ r.len = Unknown
  BY <1>7, <1>8 DEF Fits
<1>10. PICK c : c = Charged(n)
  OBVIOUS
<1>11. c = [readers EXCEPT ![at] = r]
  BY <1>6, <1>10 DEF Charged
<1>12. c \in Seq(Readers) /\ Len(c) = 1 /\ c[1] = r
  <2>1. readers \in Seq(Readers) /\ at \in 1 .. Len(readers)
    BY ChainIs
  <2>2. c[at] = r
    BY <1>7, <1>11, <2>1, Replaced
  <2> QED BY <1>5, <1>7, <1>10, <2>2
<1>13. PICK a : a = Astray(c)
  OBVIOUS
<1>14. a \in Seq(Readers) /\ Len(a) = 1 /\ a[1].id = c[1].id /\ a[1].end = Unknown
  <2>1. 1 \in 1 .. Len(c)
    BY <1>12
  <2> QED BY <1>12, <1>13, <2>1, AstrayEnds
<1>15. a[1].len = Unknown
  <2>1. 1 \in DOMAIN c
    BY <1>12
  <2>2. a[1] = [c[1] EXCEPT !.end = Unknown]
    BY <1>13, <2>1 DEF Astray
  <2>3. c[1] \in [id : Nat, len : Int, end : Int]
    BY <1>7, <1>12 DEF Readers
  <2>4. a[1].len = c[1].len
    BY <2>2, <2>3
  <2> QED BY <1>9, <1>12, <2>4
<1>16. PICK d : d = Reader(id, Unknown, Unknown)
  OBVIOUS
<1>17. /\ step' = "element" /\ readers' = Append(a, d)
       /\ readers' \in Seq(Readers) /\ Len(readers') = Len(readers) + 1
       /\ readers'[Len(readers')] = d
  <2>1. OpenUnknown(r)
    BY <1>6
  <2> QED BY <1>7, <1>11, <1>13, <1>16, <2>1, UnknownOpened
<1>18. /\ readers'[1] = a[1] /\ readers'[2] = d /\ Len(readers') = 2
       /\ d.end = Unknown
  <2>1. d.end = Unknown
    BY <1>16 DEF Reader
  <2> QED BY <1>5, <1>14, <1>17, <2>1
<1>19. Ending(readers', off')
  BY <1>14, <1>18 DEF Ending
<1>20. \A k \in 1 .. at : Fits(f, readers'[k], path[k])
  <2>1. Fits(f, readers'[1], path[1])
    BY <1>3, <1>5, <1>8, <1>9, <1>12, <1>14, <1>15, <1>18 DEF Fits
  <2> QED BY <1>5, <2>1
<1>21. step' # "skip" /\ step' # "id" /\ step' # "error"
  BY <1>17
<1> QED BY <1>1, <1>7, <1>19, <1>20, <1>21, CoreAfter

\* Any other fits into the one that it is in.
LEMMA CoreOpens ==
  ASSUME Buffer, Chain, NEW f, Reads(f), NEW path, NEW cur, Core(f, path, cur),
         step \in InElement, Len(readers) = at, NEW n \in 0 .. 8,
         NEW o \in next(readers[at], n), o.err = "none", Takes(o),
         bytes' = bytes, at' = at, NEW size \in Nat,
         OpenElement(Used(readers[at], n), size),
         size = LenAt(f.bytes, cur), off + n = Body(f, cur),
         step' = "element" => Marks(cur)'
  PROVE  Core(f, path, cur)'
<1>4. PICK r, l : r = Used(readers[at], n) /\ l = readers[at]
  OBVIOUS
<1>5. /\ off' = off + n /\ off' \in Nat /\ src' = off' + Len(buffered')
  BY Got
<1>21. r \in Readers /\ r.id = l.id /\ r.end = l.end /\ Fits(f, r, path[at])
  BY <1>4, Got, Zenon
<1>22. l.end = Unknown => r.len = Unknown
  BY <1>4, Got, Zenon
<1>23. ASSUME l.end # Unknown
       PROVE  r.len \in Nat /\ off + l.len = off' + r.len
              /\ off' + r.len = End(f, path[at])
  <2>1. readers[at].end # Unknown
    BY <1>4, <1>23, Zenon
  <2>2. Used(readers[at], n).len \in Nat
    BY <2>1, Got
  <2>3. off + readers[at].len = off' + Used(readers[at], n).len
    BY <2>1, Got
  <2>4. off' + Used(readers[at], n).len = End(f, path[at])
    BY <2>1, Got, SMTT(40)
  <2> QED BY <1>4, <2>2, <2>3, <2>4, Zenon
<1>6. /\ off' = off + n /\ off' \in Nat /\ src' = off' + Len(buffered')
      /\ r \in Readers /\ r.id = l.id /\ r.end = l.end
      /\ r = Used(readers[at], n) /\ l = readers[at]
      /\ Fits(f, r, path[at])
      /\ l.end = Unknown => r.len = Unknown
      /\ l.end # Unknown => /\ r.len \in Nat
                            /\ off + l.len = off' + r.len
                            /\ off' + r.len = End(f, path[at])
  BY <1>4, <1>5, <1>21, <1>22, <1>23
<1>1. /\ cur \in Elements(f) /\ cur \in In(f, path[at]) /\ cur \in Nat
      /\ End(f, cur) <= End(f, path[at])
  BY MidElement
<1>2. PICK z \in Nat, y \in Nat, c \in Nat :
        z = End(f, path[at]) /\ y = End(f, cur) /\ c = Body(f, cur)
  BY MidElement, ReaderHere
<1>3. y = c + size
  <2>1. cur # Top /\ size # Unknown
    BY <1>1 DEF Top, Unknown
  <2> QED BY <1>2, <2>1 DEF End, Body
<1>7. PICK m \in Nat : m = off'
  BY <1>6
<1>8. m = c /\ y <= z
  BY <1>1, <1>2, <1>6, <1>7
<1>9. ~(r.len >= 0 /\ r.len < size)
  <2>1. CASE l.end = Unknown
    BY <1>6, <2>1 DEF Unknown
  <2>2. CASE l.end # Unknown
    <3>1. r.len \in Nat /\ m + r.len = z
      BY <1>2, <1>6, <1>7, <2>2
    <3> QED BY <1>3, <1>8, <3>1
  <2> QED BY <2>1, <2>2
<1>10. PICK s : s = Used(r, size)
  OBVIOUS
<1>11. PICK d : d = Reader(id, size, m + size)
  OBVIOUS
<1>12. step' = "element" /\ readers' = Append([readers EXCEPT ![at] = s], d)
  <2>1. OpenElement(r, size)
    BY <1>6
  <2> QED BY <1>7, <1>9, <1>10, <1>11, <2>1, Zenon DEF OpenElement
<1>13. /\ s \in Readers /\ s.id = r.id /\ s.end = r.end
       /\ s.len = IF r.len >= size THEN r.len - size ELSE r.len
  BY <1>6, <1>10, UsedIs
<1>14. d \in Readers /\ d.len = size /\ d.end = m + size /\ d.end # Unknown
  <2>1. PICK e \in Nat : e = m + size
    OBVIOUS
  <2>2. d = [id |-> id, len |-> size, end |-> e]
    BY <1>11, <2>1 DEF Reader
  <2>3. /\ d \in [id : Nat, len : Int, end : Int]
        /\ d.len = size /\ d.end = e
    BY <2>2, ChainIs
  <2> QED BY <2>1, <2>3 DEF Readers, Unknown
<1>15. /\ readers \in Seq(Readers) /\ at = Len(readers) /\ at >= 1
       /\ Ending(readers, off) /\ off \in Int /\ m \in Int
       /\ \A k \in 1 .. at : Fits(f, readers[k], path[k])
  <2>1. readers \in Seq(Readers) /\ at >= 1
    BY ChainIs
  <2>2. Ending(readers, off) /\ off \in Int
    BY ReaderHere
  <2>3. \A k \in 1 .. at : Fits(f, readers[k], path[k])
    BY DEF Core, Along
  <2> QED BY <2>1, <2>2, <2>3
<1>16. /\ readers' \in Seq(Readers) /\ Len(readers') = at + 1
       /\ readers'[at] = s
       /\ \A i \in 1 .. at : i # at => readers'[i] = readers[i]
  BY <1>12, <1>13, <1>14, <1>15, Opened
<1>17. Ending(readers', m)
  <2>1. s.end # Unknown => off + readers[at].len = m + d.len + s.len
    <3> SUFFICES ASSUME s.end # Unknown
                 PROVE  off + l.len = m + size + s.len
      BY <1>6, <1>14
    <3>1. r.len \in Nat /\ off + l.len = m + r.len
      BY <1>6, <1>7, <1>13
    <3>2. s.len = r.len - size
      BY <1>9, <1>13, <3>1
    <3> QED BY <3>1, <3>2
  <2>2. s.end = readers[at].end /\ d.end = m + d.len
    BY <1>6, <1>13, <1>14
  <2>3. PICK w : w = [readers EXCEPT ![at] = s]
    OBVIOUS
  <2>4. readers' = Append(w, d)
    BY <1>12, <2>3
  <2>5. /\ readers \in Seq(Readers) /\ at = Len(readers) /\ at >= 1
        /\ s \in Readers /\ d \in Readers /\ d.end # Unknown
        /\ off \in Int /\ m \in Int /\ Ending(readers, off)
    BY <1>13, <1>14, <1>15
  <2>6. \A v : v = Append([readers EXCEPT ![at] = s], d) => Ending(v, m)
    BY <2>1, <2>2, <2>5, OpenedEnds
  <2> QED BY <2>3, <2>4, <2>6, Zenon
<1>18. Fits(f, s, path[at])
  <2>1. r.len = Unknown => s.len = Unknown
    BY <1>13 DEF Unknown
  <2> QED BY <1>6, <1>13, <2>1 DEF Fits
<1>19. \A k \in 1 .. at : Fits(f, readers'[k], path[k])
  BY <1>15, <1>16, <1>18
<1>20. step' # "skip" /\ step' # "id" /\ step' # "error"
  BY <1>12
<1> QED BY <1>1, <1>6, <1>7, <1>12, <1>17, <1>19, <1>20, CoreAfter

LEMMA CoreSize ==
  ASSUME Buffer, Chain, NEW f, Reads(f), NEW path, NEW cur, Core(f, path, cur),
         readElement
  PROVE  Core(f, path, cur)' \/ (Cut /\ Over')
<1> DEFINE r == Used(readers[at], 1)
           Sized(o) ==
             \/ More(o.b[1]) = 0 /\ o.b[1] = 255 /\ OpenUnknown(r)
             \/ More(o.b[1]) = 0 /\ o.b[1] # 255
                /\ OpenElement(r, o.b[1] % 128)
             \/ /\ More(o.b[1]) \in 1 .. 7
                /\ step' = "size rest" /\ UNCHANGED err
                /\ readers' = [readers EXCEPT ![at] = r]
             \/ /\ More(o.b[1]) = 8
                /\ Fails("format")
                /\ readers' = [readers EXCEPT ![at] = r]
<1>1. step = "size" /\ bytes' = bytes /\ at' = at
  BY DEF readElement
<1>2. step \in InElement /\ Len(readers) = at /\ ReadElement
      /\ 1 \in 0 .. 7 /\ 1 \in 0 .. 8
  BY <1>1 DEF InElement, Chain, ReadElement
<1>3. PICK o \in next(readers[at], 1) :
        /\ Takes(o)
        /\ Lost(o, 1) \/ (o.err = "none" /\ Sized(o))
  BY Zenon DEF readElement
<1> HIDE DEF Sized
<1>4. o \in next(readers[at], 1) /\ Takes(o)
  BY <1>3
<1>5. PICK a \in Nat : a = After(bytes, cur)
  BY <1>2, MidElement
<1>6. off = a
  BY <1>1, <1>2, <1>5, MidElement DEF Marks
<1>7. PICK m \in 0 .. 7 : m = More(f.bytes[a + 1])
  BY <1>2, <1>5, MidElement
<1>8. PICK c \in Nat, z \in Nat, y \in Nat :
        c = Body(f, cur) /\ z = End(f, cur) /\ y = End(f, path[at])
  BY <1>2, MidElement, ReaderHere
<1>9. c = a + 1 + m /\ c <= z /\ z <= y
  BY <1>2, <1>5, <1>7, <1>8, MidElement
<1>10. off < y /\ off + 1 <= y
  BY <1>6, <1>9
<1>11. CASE Lost(o, 1)
  BY <1>1, <1>2, <1>4, <1>8, <1>10, <1>11, CutShort
<1>12. ASSUME ~Lost(o, 1) PROVE Core(f, path, cur)'
  <2>1. o.err = "none" /\ Sized(o)
    BY <1>3, <1>12
  <2>2. PICK x : x = f.bytes[a + 1]
    OBVIOUS
  <2>3. o.b[1] = x
    <3>1. off + 1 <= Len(bytes) /\ \A i \in 1 .. 1 : o.b[i] = bytes[off + i]
      BY <1>2, <1>4, <2>1, BytesRead
    <3>2. off + 1 \in 1 .. Len(bytes)
      BY <1>6, <3>1, ReadsIs
    <3> QED BY <1>6, <2>2, <3>1, <3>2, ReadsIs
  <2>4. step' \in InElement => Marks(cur)'
    BY <1>1, <1>2, MidElement, Marking
  <2>5. cur \in In(f, path[at])
    BY <1>2, MidElement
  <2>6. /\ LenAt(f.bytes, cur) = SizeAt(f.bytes, a)
        /\ f.bytes \in Seq(Byte) /\ a < Len(f.bytes)
    BY <1>2, <1>5, MidElement, ReadsIs DEF LenAt
  <2>7. CASE m = 0 /\ x = 255 /\ OpenUnknown(r)
    <3>4. More(x) = 0 /\ x = 255
      BY <1>7, <2>2, <2>7, Zenon
    <3>1. SizeAt(f.bytes, a) = Unknown
      <4> HIDE DEF r
      <4>1. PICK b \in Seq(Byte) : b = f.bytes
        BY <2>6
      <4>2. a < Len(b) /\ x = b[a + 1] /\ More(x) = 0
        BY <2>2, <2>6, <3>4, <4>1
      <4>3. SizeAt(b, a) = IF x = 255 THEN Unknown ELSE x % 128
        BY <4>2, ShortSize
      <4> QED BY <3>4, <4>1, <4>3, Zenon
    <3>2. step' \in InElement
      <4>1. step' = "element"
        BY <2>7, Zenon DEF OpenUnknown
      <4> QED BY <4>1 DEF InElement
    <3>3. LenAt(f.bytes, cur) = Unknown /\ Marks(cur)'
      BY <2>4, <2>6, <3>1, <3>2
    <3> QED BY <1>1, <1>2, <1>4, <2>1, <2>7, <3>3, CoreOpensUnknown
  <2>8. CASE m = 0 /\ x # 255 /\ OpenElement(r, x % 128)
    <3>1. SizeAt(f.bytes, a) = x % 128 /\ (x % 128) \in Nat
      BY <1>7, <2>2, <2>6, <2>8, ShortSize, ZenonT(60)
    <3>2. PICK size \in Nat : size = x % 128
      BY <3>1
    <3>3. OpenElement(r, size) /\ size = LenAt(f.bytes, cur)
      BY <2>6, <2>8, <3>1, <3>2, Zenon
    <3>4. off + 1 = Body(f, cur)
      BY <1>6, <1>8, <1>9, <2>8
    <3>5. step' = "element" => Marks(cur)'
      BY <2>4 DEF InElement
    <3> HIDE DEF r
    <3>6. OpenElement(Used(readers[at], 1), size)
      BY <3>3 DEF r
    <3> QED BY <1>1, <1>2, <1>4, <2>1, <3>3, <3>4, <3>5, <3>6, CoreOpens
  <2>9. CASE /\ m \in 1 .. 7 /\ step' = "size rest"
             /\ readers' = [readers EXCEPT ![at] = r]
    <3>1. readers' = Charged(1)
      BY <2>9 DEF Charged
    <3>2. step' \in InElement /\ step' # "id"
      BY <2>9 DEF InElement
    <3> QED BY <1>1, <1>2, <1>4, <2>1, <2>4, <2>5, <2>9, <3>1, <3>2, CoreGets
  <2>10. More(x) # 8
    BY <1>7, <2>2
  <2>11. m = More(x)
    BY <1>7, <2>2
  <2> QED BY <2>1, <2>3, <2>7, <2>8, <2>9, <2>10, <2>11, Zenon DEF Sized
<1> QED BY <1>11, <1>12

LEMMA CoreSizeRest ==
  ASSUME Buffer, Chain, NEW f, Reads(f), NEW path, NEW cur, Core(f, path, cur),
         readElementRest
  PROVE  Core(f, path, cur)' \/ (Cut /\ Over')
<1> DEFINE Sized(o, n, high) ==
             IF high = 2 ^ (7 - n) - 1 /\ \A i \in 1 .. n : o.b[i] = 255
             THEN OpenUnknown(Used(readers[at], n))
             ELSE OpenElement(Used(readers[at], n), BigEndian(o.b, high)[n])
<1>1. step = "size rest" /\ bytes' = bytes /\ at' = at
  BY DEF readElementRest
<1>2. step \in InElement /\ Len(readers) = at /\ ReadElement
  BY <1>1 DEF InElement, Chain, ReadElement
<1>3. PICK n, high : n = More(first) /\ high = HighOf(first, n)
  OBVIOUS
<1>4. PICK o \in next(readers[at], n) :
        /\ Takes(o)
        /\ Lost(o, n) \/ (o.err = "none" /\ Sized(o, n, high))
  BY <1>3, ZenonT(60) DEF readElementRest, HighOf
<1> HIDE DEF Sized
<1>5. o \in next(readers[at], n) /\ Takes(o)
  BY <1>4
<1>6. PICK a \in Nat : a = After(bytes, cur)
  BY <1>2, MidElement
<1>7. off = a + 1 /\ first = bytes[a + 1] /\ a < Len(bytes)
  <2>1. off = a + 1 /\ first = bytes[off] /\ HasId(bytes, cur)
    BY <1>1, <1>2, <1>6, MidElement, ZenonT(60) DEF Marks
  <2>2. a < Len(bytes)
    <3>1. off \in Nat /\ Len(bytes) \in Nat /\ off <= Len(bytes)
      <4>1. /\ off \in Nat /\ Len(buffered) \in Nat /\ src \in Nat
            /\ off + Len(buffered) <= src /\ src <= Len(bytes)
            /\ Len(bytes) \in Nat
        BY Numbers DEF Buffer
      <4> QED BY <4>1
    <3> QED BY <2>1, <3>1
  <2> QED BY <2>1, <2>2
<1>8. first = f.bytes[a + 1]
  <2>1. a + 1 \in 1 .. Len(bytes)
    BY <1>7, ReadsIs
  <2> QED BY <1>7, <2>1, ReadsIs
<1>9. n \in 1 .. 7
  BY <1>1, <1>3, Zenon DEF Chain
<1>10. n \in 0 .. 7 /\ n \in 0 .. 8 /\ n \in Nat
  BY <1>9
<1>11. PICK c \in Nat, z \in Nat, y \in Nat :
         c = Body(f, cur) /\ z = End(f, cur) /\ y = End(f, path[at])
  BY <1>2, MidElement, ReaderHere
<1>12. n = More(f.bytes[a + 1])
  BY <1>3, <1>8, Zenon
<1>13. c = a + 1 + n /\ c <= z /\ z <= y
  BY <1>2, <1>6, <1>11, <1>12, MidElement
<1>14. off < y /\ off + n <= y
  BY <1>7, <1>10, <1>9, <1>13
<1>15. CASE Lost(o, n)
  BY <1>1, <1>2, <1>5, <1>10, <1>11, <1>14, <1>15, CutShort
<1>16. ASSUME ~Lost(o, n) PROVE Core(f, path, cur)'
  <2>1. o.err = "none" /\ Sized(o, n, high)
    BY <1>4, <1>16
  <2>2. step' \in InElement => Marks(cur)'
    BY <1>1, <1>2, MidElement, Marking
  <2>3. cur \in In(f, path[at])
    BY <1>2, MidElement
  <2>4. /\ LenAt(f.bytes, cur) = SizeAt(f.bytes, a)
        /\ f.bytes \in Seq(Byte) /\ a < Len(f.bytes) /\ Len(f.bytes) \in Nat
        /\ bytes \in Seq(Byte)
    BY <1>2, <1>6, MidElement, ReadsIs DEF LenAt, Buffer
  <2>5. o.b = SubSeq(bytes, off + 1, off + n) /\ off + n <= Len(bytes)
    BY <1>2, <1>5, <1>10, <2>1, BytesRead
  <2>6. off \in Nat /\ OfFile
    BY <1>7, ReadsIs
  <2>7. o.b = SubSeq(f.bytes, off + 1, off + n)
    BY <1>10, <2>4, <2>5, <2>6, SameNumber DEF Reads
  <2>8. PICK d : d = o.b
    OBVIOUS
  <2>9. d = SubSeq(f.bytes, (a + 1) + 1, (a + 1) + n)
    BY <1>7, <2>7, <2>8
  <2>10. (a + 1) + n <= Len(f.bytes)
    <3>1. Len(bytes) \in Nat /\ Len(bytes) <= Len(f.bytes)
      BY ReadsIs
    <3>2. (a + 1) + n <= Len(bytes)
      BY <1>7, <2>5
    <3> QED BY <1>10, <2>4, <3>1, <3>2
  <2>11. /\ SizeAt(f.bytes, a) = IF AllOnes(d, high, n) THEN Unknown
                                 ELSE BigEndian(d, high)[n]
         /\ BigEndian(d, high)[n] \in Nat
    <3>1. /\ f.bytes \in Seq(Byte) /\ a < Len(f.bytes)
          /\ n = More(first) /\ first = f.bytes[a + 1]
      BY <1>3, <1>8, <2>4, Zenon
    <3>2. high = HighOf(first, n)
      BY <1>3, Zenon
    <3>3. PICK b \in Seq(Byte) : b = f.bytes
      BY <2>4
    <3>4. PICK x : x = first
      OBVIOUS
    <3>5. /\ a < Len(b) /\ x = b[a + 1] /\ n = More(x) /\ n \in 1 .. 7
          /\ (a + 1) + n <= Len(b) /\ high = HighOf(x, n)
          /\ d = SubSeq(b, (a + 1) + 1, (a + 1) + n)
      BY <1>9, <2>9, <2>10, <3>1, <3>2, <3>3, <3>4, Zenon
    <3>6. /\ SizeAt(b, a) = IF AllOnes(d, high, n) THEN Unknown
                            ELSE BigEndian(d, high)[n]
          /\ BigEndian(d, high)[n] \in Nat
      <4>1. LongAt(b, a, x, n, d, high)
        BY <1>7, <3>5, Zenon DEF LongAt
      <4> QED BY <4>1, LongSize, Zenon
    <3> QED BY <3>3, <3>6, Zenon
  <2>12. CASE AllOnes(d, high, n)
    <3>1. OpenUnknown(Used(readers[at], n))
      BY <2>1, <2>8, <2>12, Zenon DEF Sized, AllOnes
    <3>2. LenAt(f.bytes, cur) = Unknown
      BY <2>4, <2>11, <2>12, Zenon
    <3>3. step' \in InElement
      <4>1. step' = "element"
        BY <3>1, Zenon DEF OpenUnknown
      <4> QED BY <4>1 DEF InElement
    <3> QED BY <1>1, <1>2, <1>5, <1>10, <2>1, <2>2, <3>1, <3>2, <3>3,
               CoreOpensUnknown
  <2>13. CASE ~AllOnes(d, high, n)
    <3>1. PICK size : size = BigEndian(d, high)[n]
      OBVIOUS
    <3>2. OpenElement(Used(readers[at], n), size)
      BY <2>1, <2>8, <2>13, <3>1, Zenon DEF Sized, AllOnes
    <3>3. size = LenAt(f.bytes, cur) /\ size \in Nat
      BY <2>4, <2>11, <2>13, <3>1, Zenon
    <3>4. off + n = Body(f, cur)
      BY <1>7, <1>10, <1>11, <1>13
    <3>5. step' = "element" => Marks(cur)'
      BY <2>2 DEF InElement
    <3> QED BY <1>1, <1>2, <1>5, <1>10, <2>1, <3>2, <3>3, <3>4, <3>5, CoreOpens
  <2> QED BY <2>12, <2>13, Zenon
<1> QED BY <1>15, <1>16

\* Reading an element, the reader stays on its way through the elements of the
\* file, unless the file was cut off.
LEMMA CoreReads ==
  ASSUME Buffer, Chain, NEW f, Reads(f), NEW path, NEW cur, Core(f, path, cur),
         ReadElement
  PROVE  Core(f, path, cur)' \/ (Cut /\ Over')
BY CoreSkip, CoreReadID, CoreIDRest, CoreSize, CoreSizeRest DEF ReadElement

-----------------------------------------------------------------------------
(* Files that were cut off: the reader cannot tell where it is any more,    *)
(* but hears nothing.                                                       *)

\* The file ends in a value of the header, which failed.
LostIn(f) ==
  /\ dec = 1 /\ phase \notin InHeader
  /\ \E e \in Values(f) : Body(f, e) < Len(bytes) /\ Len(bytes) < End(f, e)

CutOff(f) == Cut /\ (Over \/ LostIn(f))

\* What was heard are the first blocks of the file, after its header.
HeardPlaces == {Blocks[i].place : i \in DOMAIN Blocks}
Accepted(f) ==
  Blocks # <<>> =>
    (dec = 2 /\ (Headed(f) => satrack = AudioTrackOf(f))) \/ LostIn(f)
FirstBlocks(f) == dec = 2 => \E c \in Int : HeardPlaces = PlacesBefore(f, c)
Sound(f) ==
  Accepted(f) /\ FirstBlocks(f) /\ (phase \in InHeader => Blocks = <<>>)

LEMMA SoundUnheard ==
  ASSUME NEW f, f.bytes \in Seq(Byte), WellFormed(f), Blocks = <<>>
  PROVE  Sound(f)
<1>1. HeardPlaces = {}
  <2>1. DOMAIN Blocks = {}
    <3>1. DOMAIN <<>> = {}
      OBVIOUS
    <3> QED BY <3>1, Zenon
  <2> QED BY <2>1, Zenon DEF HeardPlaces
<1>2. PlacesBefore(f, 0) = {}
  <2>1. 0 \in Int /\ 0 <= Segment(f)
    BY SegmentIs
  <2> QED BY <2>1, AllBefore
<1>3. FirstBlocks(f)
  <2>1. 0 \in Int
    OBVIOUS
  <2> QED BY <1>1, <1>2, <2>1, Zenon DEF FirstBlocks
<1> QED BY <1>3, Zenon DEF Sound, Accepted

LEMMA SoundStillUnheard ==
  ASSUME NEW f, f.bytes \in Seq(Byte), WellFormed(f), Blocks' = <<>>
  PROVE  Sound(f)'
<1>1. HeardPlaces' = {}
  <2>1. DOMAIN Blocks' = {}
    <3>1. DOMAIN <<>> = {}
      OBVIOUS
    <3> QED BY <3>1, Zenon
  <2> QED BY <2>1, Zenon DEF HeardPlaces
<1>2. PlacesBefore(f, 0) = {}
  <2>1. 0 \in Int /\ 0 <= Segment(f)
    BY SegmentIs
  <2> QED BY <2>1, AllBefore
<1>3. FirstBlocks(f)'
  <2>1. 0 \in Int
    OBVIOUS
  <2> QED BY <1>1, <1>2, <2>1, Zenon DEF FirstBlocks
<1> QED BY <1>3, Zenon DEF Sound, Accepted

LEMMA SoundKept ==
  ASSUME NEW f, Sound(f), Blocks' = Blocks, dec' = dec, satrack' = satrack,
         bytes' = bytes, phase \notin InHeader, phase' \notin InHeader
  PROVE  Sound(f)'
<1>1. LostIn(f) => LostIn(f)'
  BY Zenon DEF LostIn
<1>2. HeardPlaces' = HeardPlaces
  BY Zenon DEF HeardPlaces
<1>3. Accepted(f)'
  BY <1>1, Zenon DEF Sound, Accepted
<1>4. FirstBlocks(f)'
  BY <1>2, Zenon DEF Sound, FirstBlocks
<1> QED BY <1>3, <1>4, Zenon DEF Sound

LEMMA SoundLost == ASSUME NEW f, LostIn(f)' PROVE Sound(f)'
<1>1. dec' # 2
  BY DEF LostIn
<1> QED BY <1>1, Zenon DEF LostIn, Sound, Accepted, FirstBlocks

\* Steps that read nothing, or nothing but an element.
Quiet ==
  \/ ReadHeader \/ ReadSegment \/ ReadLevel1 \/ EndOfStruct \/ NotMapped
  \/ unmarshalStruct \/ unmarshalUnknown
  \/ ReadContent \/ NoTimestamp \/ EndOfCluster \/ InCluster

LEMMA QuietReads ==
  ASSUME Quiet
  PROVE  /\ NothingRead /\ Blocks' = Blocks
         /\ (\E p, i : Continue(p, i)) \/ (\E p : Stop(p))
<1>1. ASSUME ReadHeader \/ ReadSegment \/ ReadLevel1
      PROVE  /\ NothingRead /\ Blocks' = Blocks
             /\ (\E p, i : Continue(p, i)) \/ (\E p : Stop(p))
  BY <1>1, Zenon DEF ReadHeader, ReadSegment, ReadLevel1
<1>2. ASSUME EndOfStruct
      PROVE  /\ NothingRead /\ Blocks' = Blocks
             /\ (\E p, i : Continue(p, i)) \/ (\E p : Stop(p))
  <2>1. \E p, i : Continue(p, i)
    <3>1. CASE Decoded
      BY <3>1, Zenon DEF Decoded
    <3>2. CASE HeaderFails
      BY <3>2, Zenon DEF HeaderFails
    <3> QED BY <1>2, <3>1, <3>2, Zenon DEF EndOfStruct
  <2> QED BY <1>2, <2>1, Zenon DEF EndOfStruct
<1>3. ASSUME NotMapped \/ unmarshalStruct \/ unmarshalUnknown
      PROVE  /\ NothingRead /\ Blocks' = Blocks
             /\ (\E p, i : Continue(p, i)) \/ (\E p : Stop(p))
  BY <1>3, Zenon DEF NotMapped, unmarshalStruct, unmarshalUnknown
<1>4. ASSUME ReadContent \/ NoTimestamp
      PROVE  /\ NothingRead /\ Blocks' = Blocks
             /\ (\E p, i : Continue(p, i)) \/ (\E p : Stop(p))
  BY <1>4, Zenon DEF ReadContent, NoTimestamp
<1>5. ASSUME EndOfCluster \/ InCluster
      PROVE  /\ NothingRead /\ Blocks' = Blocks
             /\ (\E p, i : Continue(p, i)) \/ (\E p : Stop(p))
  BY <1>5, Zenon DEF EndOfCluster, InCluster
<1> QED BY <1>1, <1>2, <1>3, <1>4, <1>5, Zenon DEF Quiet

\* The header is over.
LEMMA ContentKeeps ==
  ASSUME Content
  PROVE  /\ dec' = dec /\ satrack' = satrack
         /\ phase \notin InHeader /\ phase' \notin InHeader
<1>1. /\ "EOF" \notin InHeader /\ "failed" \notin InHeader
      /\ "panic" \notin InHeader /\ "content" \notin InHeader
      /\ "timestamp" \notin InHeader /\ "blocks" \notin InHeader
      /\ "group" \notin InHeader
  BY DEF InHeader
<1>2. CASE ReadContent \/ NoTimestamp
  BY <1>1, <1>2, Zenon DEF ReadContent, NoTimestamp, Continue, Stop, headerVars
<1>3. CASE ReadTimestamp
  BY <1>1, <1>3, Zenon DEF ReadTimestamp, Continue, Stop, headerVars
<1>4. CASE EndOfCluster
  <2>1. phase \notin InHeader
    BY <1>1, <1>4, Zenon DEF EndOfCluster
  <2> QED BY <1>1, <1>4, <2>1, Zenon DEF EndOfCluster, Continue, Stop, headerVars
<1>5. CASE InCluster
  BY <1>1, <1>5, Zenon DEF InCluster, Continue, headerVars
<1>6. CASE ReadBlock
  <2>1. phase \notin InHeader
    BY <1>1, <1>6, Zenon DEF ReadBlock
  <2>2. phase' = phase \/ phase' = "panic"
    BY <1>6, Zenon DEF ReadBlock, parseBlock, Continue, Stop
  <2> QED BY <1>1, <1>6, <2>1, <2>2, Zenon DEF ReadBlock, headerVars
<1> QED BY <1>2, <1>3, <1>4, <1>5, <1>6, Zenon DEF Content

LEMMA SameFile ==
  ASSUME Buffer, Chain, MatroskaNext
  PROVE  bytes' = bytes /\ file' = file /\ (Cut => Cut')
<1>1. bytes' = bytes /\ file' = file
  <2>1. CASE Decoding
    BY <2>1, Reading, Zenon DEF Decoding
  <2>2. CASE Quiet
    BY <2>2, QuietReads, Zenon DEF NothingRead
  <2>3. CASE unmarshal
    BY <2>3, Zenon DEF unmarshal, ReadsValue
  <2>4. CASE ReadTimestamp
    BY <2>4, Zenon DEF ReadTimestamp, ReadsValue
  <2>5. CASE ReadBlock
    BY <2>5, Zenon DEF ReadBlock, parseBlock, NothingRead
  <2> QED BY <2>1, <2>2, <2>3, <2>4, <2>5, Zenon
             DEF MatroskaNext, Header, Content, Quiet
<1> QED BY <1>1, Zenon DEF Cut

LEMMA HeaderIs ==
  ASSUME Header
  PROVE  phase \in InHeader
<1>1. /\ "EBML" \in InHeader /\ "Segment" \in InHeader
      /\ "level 1" \in InHeader /\ "decode" \in InHeader
  BY DEF InHeader
<1> QED BY <1>1, Zenon
           DEF Header, ReadHeader, ReadSegment, ReadLevel1, EndOfStruct,
               NotMapped, unmarshalStruct, unmarshal, unmarshalUnknown

LEMMA LostStays ==
  ASSUME Buffer, Chain, NEW f, LostIn(f), MatroskaNext
  PROVE  LostIn(f)'
<1>1. bytes' = bytes
  BY SameFile
<1>2. phase \notin InHeader
  BY Zenon DEF LostIn
<1>3. dec' = dec /\ phase' \notin InHeader
  <2>1. CASE Decoding
    BY <1>2, <2>1, Zenon DEF Decoding, headerVars
  <2>2. CASE Header
    BY <1>2, <2>2, HeaderIs
  <2>3. CASE Content
    BY <2>3, ContentKeeps
  <2> QED BY <2>1, <2>2, <2>3, Zenon DEF MatroskaNext
<1> QED BY <1>1, <1>3, Zenon DEF LostIn

\* A call at the end of the source leaves less in the buffer.
LEMMA LessLeft ==
  ASSUME Buffer, Left = 0, NEW n \in Nat, NEW o, Leaves(o, n), Steady(o),
         Takes(o), bytes' = bytes
  PROVE  /\ Left' = 0 /\ Len(buffered') \in Nat
         /\ o.err = "none" =>
              n <= Len(buffered) /\ Len(buffered') = Len(buffered) - n
         /\ Len(buffered') <= Len(buffered)
<1>1. /\ Len(bytes) \in Nat /\ src \in Nat /\ off \in Nat
      /\ Len(buffered) \in Nat /\ src = Len(bytes)
  <2>1. Left = Len(bytes) - src /\ Len(bytes) \in Nat /\ src \in Nat
    BY Numbers
  <2> QED BY <2>1, Numbers
<1>2. PICK s, o_ : s = o.src /\ o_ = o.off
  OBVIOUS
<1>3. PICK l \in Nat : l = Len(o.buffered)
  <2>1. o.buffered \in Seq(Byte)
    BY DEF Leaves
  <2> QED BY <2>1
<1>4. s \in src .. Len(bytes) /\ o_ \in off .. off + n
      /\ (o.err = "none" => o_ = off + n)
  BY <1>2 DEF Leaves
<1>5. s = Len(bytes) /\ s = src
  BY <1>1, <1>4
<1>6. src' = s /\ Len(buffered') = l
  BY <1>2, <1>3 DEF Takes
<1>7. Left' = 0
  BY <1>1, <1>5, <1>6 DEF Left
<1>8. ASSUME o.err = "none"
      PROVE  n <= Len(buffered) /\ l = Len(buffered) - n
  <2>1. o_ + l + src = off + Len(buffered) + s
    BY <1>2, <1>3, <1>8 DEF Steady
  <2>2. o_ = off + n
    BY <1>4, <1>8
  <2>3. o_ \in Int /\ s \in Int /\ n \in Int
    BY <1>1, <1>4, <1>5
  <2>4. PICK b \in Nat : b = Len(buffered)
    BY <1>1
  <2>5. (off + n) + l + src = off + b + src
    BY <1>5, <2>1, <2>2, <2>4
  <2>6. ASSUME NEW a \in Nat, NEW z \in Nat, (a + n) + l + z = a + b + z
        PROVE  n <= b /\ l = b - n
    BY <2>6
  <2> QED BY <1>1, <2>4, <2>5, <2>6
<1>9. l <= Len(buffered)
  <2>1. CASE o.err = "none"
    BY <1>1, <1>3, <1>8, <2>1
  <2>2. CASE o.err # "none"
    <3>1. l = Len(buffered) \/ l = 0
      <4>1. o.buffered = buffered \/ o.buffered = <<>>
        BY <2>2 DEF Steady
      <4>2. Len(<<>>) = 0
        OBVIOUS
      <4> QED BY <1>3, <4>1, <4>2, Zenon
    <3> QED BY <1>1, <3>1
  <2> QED BY <2>1, <2>2
<1> QED BY <1>3, <1>6, <1>7, <1>8, <1>9

\* The steps after which little is left.
LEMMA OverAfter ==
  ASSUME Left' = 0, NEW l \in Nat, l = Len(buffered'), l <= 6,
         step' \in {"id rest", "size"} => l <= 5,
         step' \in {"size rest", "element"} => l <= 4
  PROVE  Over'
BY DEF Over

LEMMA OverBounds ==
  ASSUME Buffer, Over
  PROVE  /\ Left = 0 /\ Len(buffered) \in Nat /\ Len(buffered) <= 6
         /\ step = "size" => Len(buffered) <= 5
         /\ step = "id rest" => Len(buffered) <= 5
         /\ step \in {"size rest", "element"} => Len(buffered) <= 4
<1>1. Len(buffered) \in Nat
  BY Numbers
<1>2. Left = 0
  BY DEF Over
<1>3. step \in {"id rest", "size"} => Len(buffered) <= 5
  BY OverIs
<1>4. step \in {"size rest", "element"} => Len(buffered) <= 4
  BY OverIs
<1>5. step \notin {"id rest", "size", "size rest", "element"} =>
        Len(buffered) <= 6
  BY OverIs
<1>6. ASSUME NEW l \in Nat, l <= 5 \/ l <= 4 \/ l <= 6 PROVE l <= 6
  BY <1>6
<1>7. Len(buffered) <= 6
  <2>1. \/ step \in {"id rest", "size"} \/ step \in {"size rest", "element"}
        \/ step \notin {"id rest", "size", "size rest", "element"}
    BY Zenon
  <2>2. Len(buffered) <= 5 \/ Len(buffered) <= 4 \/ Len(buffered) <= 6
    BY <1>3, <1>4, <1>5, <2>1, Zenon
  <2> QED BY <1>1, <1>6, <2>2, Zenon
<1> QED BY <1>1, <1>2, <1>3, <1>4, <1>7, Zenon

LEMMA NextLess ==
  ASSUME Buffer, Chain, Left = 0, NEW n \in Nat,
         NEW o \in next(readers[at], n), Takes(o), bytes' = bytes
  PROVE  /\ Left' = 0 /\ Len(buffered') \in Nat
         /\ o.err = "none" =>
              n <= Len(buffered) /\ Len(buffered') = Len(buffered) - n
         /\ Len(buffered') <= Len(buffered)
<1>1. /\ readers \in Seq(Readers) /\ at \in 1 .. Len(readers)
      /\ Len(readers) \in Nat
  BY ChainIs
<1>2. readers[at].len \in Int /\ readers[at].len >= -1
  BY <1>1, ReaderIs
<1>3. Leaves(o, n) /\ Steady(o)
  BY <1>2, ReaderNextLeaves, ReaderNextSteady
<1> QED BY <1>3, LessLeft

\* Reading an element, the reader finds no more.
LEMMA OverReads ==
  ASSUME Buffer, Chain, Over, ReadElement
  PROVE  Over'
<1>0. /\ step = "size" => Len(buffered) <= 5
      /\ step = "id rest" => Len(buffered) <= 5
      /\ step \in {"size rest", "element"} => Len(buffered) <= 4
  BY OverBounds
<1>1. Left = 0 /\ Len(buffered) \in Nat /\ Len(buffered) <= 6
  BY OverBounds
<1>2. bytes' = bytes
  BY Reading
<1>3. CASE skip
  <2>1. Below(at) \in Nat
    <3>1. readers \in Seq(Readers) /\ at \in 1 .. Len(readers)
      BY ChainIs
    <3> QED BY <3>1, CutEnds, Zenon DEF Below
  <2>2. PICK o \in Skip(Below(at)) :
          Takes(o) /\ (step' = "id" \/ step' = "error")
    BY <1>3, Zenon DEF skip, Fails
  <2>3. Leaves(o, Below(at)) /\ Steady(o)
    BY <2>1, <2>2, SkipLeaves, SkipSteady
  <2>4. /\ Left' = 0 /\ Len(buffered') \in Nat
        /\ Len(buffered') <= Len(buffered)
    BY <1>1, <1>2, <2>1, <2>2, <2>3, LessLeft
  <2>5. Len(buffered') <= 6
    BY <1>1, <2>4
  <2> QED BY <2>2, <2>4, <2>5, OverAfter
<1>4. CASE readID
  <2>1. PICK o \in next(readers[at], 1) :
          /\ Takes(o)
          /\ \/ step' = "error"
             \/ o.err = "none" /\ step' \in {"id", "id rest", "size"}
    BY <1>4, Zenon DEF readID, Lost, Gets, Fails
  <2>2. 1 \in Nat
    OBVIOUS
  <2>3. /\ Left' = 0 /\ Len(buffered') \in Nat
        /\ o.err = "none" => Len(buffered') = Len(buffered) - 1
        /\ Len(buffered') <= Len(buffered)
    BY <1>1, <1>2, <2>1, <2>2, NextLess
  <2>4. Len(buffered') <= 6 /\ (o.err = "none" => Len(buffered') <= 5)
    BY <1>1, <2>3
  <2> QED BY <2>1, <2>3, <2>4, OverAfter
<1>5. CASE readIDRest
  <2>1. PICK o \in next(readers[at], More(first)) :
          Takes(o) /\ (step' = "error" \/ step' = "size")
    BY <1>5, Zenon DEF readIDRest, Lost, Gets, Fails
  <2>2. More(first) \in Nat
    BY MoreBytes
  <2>3. /\ Left' = 0 /\ Len(buffered') \in Nat
        /\ Len(buffered') <= Len(buffered)
    BY <1>1, <1>2, <2>1, <2>2, NextLess
  <2>4. Len(buffered') <= 6 /\ Len(buffered') <= 5
    <3>1. Len(buffered) <= 5
      BY <1>0, <1>5, Zenon DEF readIDRest
    <3> QED BY <1>1, <2>3, <3>1
  <2> QED BY <2>1, <2>3, <2>4, OverAfter
<1>6. CASE readElement
  <2>1. PICK o \in next(readers[at], 1) :
          /\ Takes(o)
          /\ \/ step' = "error"
             \/ o.err = "none" /\ step' \in {"size rest", "element"}
    BY <1>6, Zenon DEF readElement, Lost, Fails, OpenUnknown, OpenElement
  <2>2. 1 \in Nat
    OBVIOUS
  <2>3. /\ Left' = 0 /\ Len(buffered') \in Nat
        /\ o.err = "none" => Len(buffered') = Len(buffered) - 1
        /\ Len(buffered') <= Len(buffered)
    BY <1>1, <1>2, <2>1, <2>2, NextLess
  <2>4. Len(buffered') <= 6 /\ (o.err = "none" => Len(buffered') <= 4)
    <3>1. Len(buffered) <= 5
      BY <1>0, <1>6, Zenon DEF readElement
    <3> QED BY <1>1, <2>3, <3>1
  <2>5. step' # "id rest" /\ step' # "size"
    BY <2>1
  <2> QED BY <2>1, <2>3, <2>4, <2>5, OverAfter
<1>7. CASE readElementRest
  <2>1. PICK o \in next(readers[at], More(first)) :
          Takes(o) /\ (step' = "error" \/ step' = "element")
    BY <1>7, Zenon DEF readElementRest, Lost, Fails, OpenUnknown, OpenElement
  <2>2. More(first) \in Nat
    BY MoreBytes
  <2>3. /\ Left' = 0 /\ Len(buffered') \in Nat
        /\ Len(buffered') <= Len(buffered)
    BY <1>1, <1>2, <2>1, <2>2, NextLess
  <2>4. Len(buffered') <= 6 /\ Len(buffered') <= 4
    <3>1. Len(buffered) <= 4
      <4>1. step \in {"size rest", "element"}
        BY <1>7, Zenon DEF readElementRest
      <4> QED BY <1>0, <4>1
    <3> QED BY <1>1, <2>3, <3>1
  <2> QED BY <2>1, <2>3, <2>4, OverAfter
<1> QED BY <1>3, <1>4, <1>5, <1>6, <1>7, Zenon DEF ReadElement

\* Nor does what uses it.
LEMMA OverGoes ==
  ASSUME Buffer, Over, Left' = 0, Len(buffered') \in Nat,
         Len(buffered') <= Len(buffered),
         (\E p, i : Continue(p, i)) \/ (\E p : Stop(p))
  PROVE  Over'
<1>1. /\ step = "size" => Len(buffered) <= 5
      /\ step = "id rest" => Len(buffered) <= 5
      /\ step \in {"size rest", "element"} => Len(buffered) <= 4
  BY OverBounds
<1>2. Len(buffered) \in Nat /\ Len(buffered) <= 6
  BY OverBounds
<1>3. PICK l \in Nat : l = Len(buffered')
  OBVIOUS
<1>4. PICK m \in Nat : m = Len(buffered)
  BY <1>2
<1>5. l <= m /\ m <= 6
  BY <1>2, <1>3, <1>4, Zenon
<1>6. ASSUME NEW k \in Nat, m <= k PROVE l <= k
  BY <1>5, <1>6
<1>7. l <= 6
  BY <1>5
<1>8. step' = "skip" \/ step' = step
  BY Zenon DEF Continue, Stop, ReadNext
<1>9. CASE step' = "skip"
  BY <1>3, <1>7, <1>9, OverAfter
<1>10. CASE step' = step
  <2>1. 5 \in Nat /\ 4 \in Nat
    OBVIOUS
  <2>2. step' \in {"id rest", "size"} => l <= 5
    BY <1>1, <1>4, <1>6, <1>10, <2>1, Zenon
  <2>3. step' \in {"size rest", "element"} => l <= 4
    BY <1>1, <1>4, <1>6, <1>10, <2>1, Zenon
  <2> QED BY <1>3, <1>7, <2>2, <2>3, OverAfter
<1> QED BY <1>8, <1>9, <1>10

\* A block is longer than what is left.
LEMMA LongBlock ==
  ASSUME NEW c \in Seq(Byte), Playable(c)
  PROVE  Len(c) > 4
<1>1. TrackLength(c) \in Nat /\ TrackLength(c) >= 1
  <2>1. More(c[1]) \in 0 .. 8
    BY MoreBytes
  <2> QED BY <2>1 DEF TrackLength
<1>2. Len(c) > TrackLength(c) + 3 /\ Len(c) \in Nat
  BY DEF Playable
<1> QED BY <1>1, <1>2

\* A value that is read, or refused.
LEMMA ValueSteady ==
  ASSUME Inv, step = "element", NEW lengths \in SUBSET Nat,
         NEW o \in ReadValue(lengths)
  PROVE  \E n \in Nat : Leaves(o, n) /\ Steady(o)
<1>1. Buffer /\ Chain
  BY DEF Inv, Decoder
<1>2. elem \in Readers /\ elem.len \in Int /\ elem.len >= -1
  <2>1. /\ readers \in Seq(Readers) /\ Len(readers) \in Nat
        /\ Len(readers) \in 1 .. Len(readers)
    BY <1>1, ChainIs
  <2> QED BY <2>1, ReaderIs DEF elem
<1>3. CASE elem.len \in lengths
  <2>1. o \in next(elem, elem.len) /\ elem.len \in Nat
    BY <1>3, Zenon DEF ReadValue
  <2>2. Leaves(o, elem.len) /\ Steady(o)
    BY <1>1, <1>2, <2>1, ReaderNextLeaves, ReaderNextSteady
  <2> QED BY <2>1, <2>2
<1>4. CASE elem.len \notin lengths
  <2>1. o = Outcome("format", src, buffered, off, <<>>)
    BY <1>4, Zenon DEF ReadValue
  <2>2. "format" \in Errors \ {"none"} /\ 0 \in Nat
    BY DEF Errors
  <2>3. Leaves(o, 0)
    BY <1>1, <2>1, <2>2, FailsUnread
  <2>4. o.err = "format" /\ o.buffered = buffered
    BY <2>1, FieldsOf
  <2>5. Steady(o)
    BY <2>4 DEF Steady
  <2> QED BY <2>2, <2>3, <2>5, Zenon
<1> QED BY <1>3, <1>4

LEMMA OverValue ==
  ASSUME Inv, Over, step = "element", NEW t \in DOMAIN Lengths,
         NEW o \in ReadValue(Lengths[t]), ReadsValue(o),
         (\E p, i : Continue(p, i)) \/ (\E p : Stop(p))
  PROVE  Over'
<1>1. Buffer
  BY DEF Inv, Decoder
<1>2. Lengths[t] \in SUBSET Nat
  BY TypesOfLengths
<1>3. PICK n \in Nat : Leaves(o, n) /\ Steady(o)
  BY <1>2, ValueSteady
<1>4. Takes(o) /\ bytes' = bytes
  BY Zenon DEF ReadsValue
<1>5. Left = 0
  BY <1>1, OverBounds
<1>6. /\ Left' = 0 /\ Len(buffered') \in Nat
      /\ Len(buffered') <= Len(buffered)
  BY <1>1, <1>3, <1>4, <1>5, LessLeft
<1> QED BY <1>1, <1>6, OverGoes

LEMMA OverBlock ==
  ASSUME Inv, Over, ReadBlock
  PROVE  Over' /\ Blocks' = Blocks
<1>1. Buffer /\ Chain
  BY DEF Inv, Decoder
<1>2. Left = 0 /\ Len(buffered) \in Nat
  BY <1>1, OverBounds
<1>3. step = "element"
  BY Zenon DEF ReadBlock, Found
<1>4. Len(buffered) <= 4
  <2>1. step \in {"size rest", "element"} => Len(buffered) <= 4
    BY <1>1, OverBounds
  <2>2. step \in {"size rest", "element"}
    BY <1>3
  <2> QED BY <2>1, <2>2, Zenon
<1>5. CASE ~CanMake(elem.len)
  <2>1. Stop("panic") /\ NothingRead /\ Blocks' = Blocks
    BY <1>5, Zenon DEF ReadBlock, parseBlock
  <2>2. Left' = 0 /\ Len(buffered') \in Nat /\ Len(buffered') <= Len(buffered)
    <3>1. Left' = Left /\ buffered' = buffered
      BY <2>1, Zenon DEF NothingRead, Left
    <3> QED BY <1>2, <3>1
  <2>3. (\E p, i : Continue(p, i)) \/ (\E p : Stop(p))
    BY <2>1
  <2> QED BY <1>1, <2>1, <2>2, <2>3, OverGoes
<1>6. CASE CanMake(elem.len)
  <2>1. PICK o \in Read(elem.len) :
          /\ Takes(o) /\ bytes' = bytes
          /\ IF o.err # "none" THEN UNCHANGED Blocks /\ Continue(phase, at)
             ELSE /\ Blocks' = IF Parsed(o.b) = "block"
                               THEN Append(Blocks, Heard(afterVInt(o.b)))
                               ELSE Blocks
                  /\ IF Parsed(o.b) = "panic" THEN Stop("panic")
                     ELSE Continue(phase, at)
    BY <1>6, Zenon DEF ReadBlock, parseBlock
  <2>2. elem.len \in Nat
    BY <1>6, Makeable
  <2>3. Leaves(o, elem.len) /\ Returns(o, elem.len) /\ Steady(o)
    BY <1>1, <2>1, <2>2, ReadLeaves, ReadSteady
  <2>4. /\ Left' = 0 /\ Len(buffered') \in Nat
        /\ o.err = "none" => elem.len <= Len(buffered)
        /\ Len(buffered') <= Len(buffered)
    BY <1>1, <1>2, <2>1, <2>2, <2>3, LessLeft
  <2>5. (\E p, i : Continue(p, i)) \/ (\E p : Stop(p))
    BY <2>1, Zenon
  <2>6. Over'
    BY <1>1, <2>4, <2>5, OverGoes
  <2>7. ASSUME o.err = "none" PROVE Parsed(o.b) # "block"
    <3>1. o.b \in Seq(Byte) /\ Len(o.b) = elem.len
      BY <2>3, <2>7, Zenon DEF Returns
    <3>2. ~(Len(o.b) > 4)
      BY <1>2, <1>4, <2>2, <2>4, <2>7, <3>1
    <3>3. ~Playable(o.b)
      BY <3>1, <3>2, LongBlock, Zenon
    <3> QED BY <3>1, <3>3, ParsedIs, Zenon
  <2>8. Blocks' = Blocks
    BY <2>1, <2>7, Zenon
  <2> QED BY <2>6, <2>8
<1> QED BY <1>5, <1>6

LEMMA OverStays ==
  ASSUME Inv, Over, MatroskaNext
  PROVE  Over' /\ Blocks' = Blocks
<1>1. Buffer /\ Chain
  BY DEF Inv, Decoder
<1>2. CASE Decoding
  BY <1>1, <1>2, OverReads, Zenon DEF Decoding
<1>3. CASE Quiet
  <2>1. /\ NothingRead /\ Blocks' = Blocks
        /\ (\E p, i : Continue(p, i)) \/ (\E p : Stop(p))
    BY <1>3, QuietReads
  <2>2. Left' = 0 /\ Len(buffered') \in Nat /\ Len(buffered') <= Len(buffered)
    <3>1. Left' = Left /\ buffered' = buffered
      BY <2>1, Zenon DEF NothingRead, Left
    <3>2. Left = 0 /\ Len(buffered) \in Nat
      BY <1>1, OverBounds
    <3> QED BY <3>1, <3>2
  <2> QED BY <1>1, <2>1, <2>2, OverGoes
<1>4. CASE unmarshal
  <2>1. PICK o \in ReadValue(Lengths[Fields[id]]) :
          ReadsValue(o) /\ (\E p, i : Continue(p, i))
    BY <1>4, Zenon DEF unmarshal, HeaderFails
  <2>2. /\ step = "element" /\ Fields[id] \in DOMAIN Lengths
        /\ Blocks' = Blocks
    BY <1>4, Zenon DEF unmarshal, Found
  <2>3. Over'
    BY <2>1, <2>2, OverValue
  <2> QED BY <2>2, <2>3
<1>5. CASE ReadTimestamp
  <2>1. PICK o \in ReadValue(Lengths.int) :
          ReadsValue(o) /\ ((\E p, i : Continue(p, i)) \/ (\E p : Stop(p)))
    BY <1>5, Zenon DEF ReadTimestamp
  <2>2. step = "element" /\ Blocks' = Blocks
    BY <1>5, Zenon DEF ReadTimestamp, Found
  <2>3. "int" \in DOMAIN Lengths
    BY DEF Lengths
  <2>4. Lengths.int = Lengths["int"]
    BY DEF Lengths
  <2>5. Over'
    BY <2>1, <2>2, <2>3, <2>4, OverValue
  <2> QED BY <2>2, <2>5
<1>6. CASE ReadBlock
  BY <1>6, OverBlock
<1> QED BY <1>2, <1>3, <1>4, <1>5, <1>6, Zenon
           DEF MatroskaNext, Header, Content, Quiet

\* Of a file that was cut off nothing more is heard then.
LEMMA CutOffKept ==
  ASSUME Inv, NEW f, Reads(f), Sound(f), CutOff(f), MatroskaNext
  PROVE  Sound(f)' /\ CutOff(f)'
<1>1. Buffer /\ Chain
  BY DEF Inv, Decoder
<1>2. bytes' = bytes /\ Cut'
  BY <1>1, SameFile DEF CutOff
<1>3. f.bytes \in Seq(Byte) /\ WellFormed(f)
  BY <1>1, ReadsIs
<1>4. CASE LostIn(f)
  <2>1. LostIn(f)'
    BY <1>1, <1>4, LostStays
  <2> QED BY <1>2, <2>1, SoundLost, Zenon DEF CutOff
<1>5. CASE Over
  <2>1. Over' /\ Blocks' = Blocks
    BY <1>5, OverStays
  <2>2. CASE phase \in InHeader
    <3>1. Blocks' = <<>>
      BY <2>1, <2>2, Zenon DEF Sound
    <3> QED BY <1>2, <1>3, <2>1, <3>1, SoundStillUnheard, Zenon DEF CutOff
  <2>3. CASE phase \notin InHeader
    <3>1. dec' = dec /\ satrack' = satrack /\ phase' \notin InHeader
      <4>1. CASE Decoding
        BY <2>3, <4>1, Zenon DEF Decoding, headerVars
      <4>2. CASE Content
        BY <4>2, ContentKeeps
      <4>3. CASE Header
        BY <2>3, <4>3, HeaderIs
      <4> QED BY <4>1, <4>2, <4>3, Zenon DEF MatroskaNext
    <3>2. Sound(f)'
      BY <1>2, <2>1, <2>3, <3>1, SoundKept
    <3> QED BY <1>2, <2>1, <3>2, Zenon DEF CutOff
  <2> QED BY <2>2, <2>3
<1> QED BY <1>4, <1>5 DEF CutOff

-----------------------------------------------------------------------------
(* From an element to the next.                                             *)

\* What is below one Reader is what is left of the next and what is below that.
LEMMA LeftAfter ==
  ASSUME NEW chain \in Seq(Readers), NEW i \in 1 .. Len(chain),
         i + 1 \in 1 .. Len(chain)
  PROVE  LeftIn(chain, i)[Len(chain)] =
           Rest(chain[i + 1]) + LeftIn(chain, i + 1)[Len(chain)]
<1> DEFINE L == LeftIn(chain, i)
           M == LeftIn(chain, i + 1)
<1>1. /\ Len(chain) \in Nat
      /\ \A j \in 1 .. Len(chain) : chain[j].len \in Int
  BY ReaderIs
<1>2. /\ L \in [0 .. Len(chain) -> Nat]
      /\ \A j \in 0 .. Len(chain) : j <= i => L[j] = 0
      /\ \A j \in 1 .. Len(chain) : j > i => L[j] = L[j - 1] + Rest(chain[j])
  BY <1>1, LeftInIs
<1>3. /\ M \in [0 .. Len(chain) -> Nat]
      /\ \A j \in 0 .. Len(chain) : j <= i + 1 => M[j] = 0
      /\ \A j \in 1 .. Len(chain) :
           j > i + 1 => M[j] = M[j - 1] + Rest(chain[j])
  <2>1. i + 1 \in Nat
    BY <1>1
  <2> QED BY <1>1, <2>1, LeftInIs
<1> HIDE DEF L, M
<1>4. \A j \in 1 .. Len(chain) : Rest(chain[j]) \in Nat
  BY <1>1 DEF Rest
<1>5. PICK r \in Nat : r = Rest(chain[i + 1])
  BY <1>4
<1> DEFINE At(j) == L[j] = r + M[j]
           T == {n \in Nat : (i + 1) + n \in 1 .. Len(chain) => At((i + 1) + n)}
<1>6. 0 \in T
  <2>1. (i + 1) + 0 = i + 1 /\ i + 1 > i /\ (i + 1) - 1 = i
        /\ i \in 0 .. Len(chain) /\ i + 1 \in 0 .. Len(chain) /\ i <= i
        /\ i + 1 <= i + 1
    BY <1>1
  <2>2. L[i + 1] = L[i] + r /\ L[i] = 0
    BY <1>2, <1>5, <2>1
  <2>3. M[i + 1] = 0
    BY <1>3, <2>1
  <2>4. At(i + 1)
    BY <2>2, <2>3
  <2> QED BY <2>1, <2>4
<1>7. ASSUME NEW n \in Nat, n \in T PROVE n + 1 \in T
  <2> SUFFICES ASSUME (i + 1) + (n + 1) \in 1 .. Len(chain)
               PROVE  At((i + 1) + (n + 1))
    OBVIOUS
  <2>1. PICK j \in 1 .. Len(chain) : j = (i + 1) + n
    BY <1>1
  <2>2. j + 1 = (i + 1) + (n + 1) /\ (j + 1) - 1 = j
        /\ j + 1 \in 1 .. Len(chain) /\ j + 1 > i /\ j + 1 > i + 1
        /\ j \in 0 .. Len(chain)
    BY <1>1, <2>1
  <2>3. L[j] = r + M[j]
    BY <1>7, <2>1
  <2>4. L[j + 1] = L[j] + Rest(chain[j + 1])
    BY <1>2, <2>2
  <2>5. M[j + 1] = M[j] + Rest(chain[j + 1])
    BY <1>3, <2>2
  <2>6. PICK m \in Nat, d \in Nat : m = M[j] /\ d = Rest(chain[j + 1])
    BY <1>3, <1>4, <2>2
  <2>7. L[j + 1] = (r + m) + d /\ M[j + 1] = m + d
    BY <2>3, <2>4, <2>5, <2>6, Zenon
  <2>8. At(j + 1)
    BY <2>7
  <2> QED BY <2>2, <2>8
<1>8. Nat \subseteq T
  <2> HIDE DEF T
  <2> QED BY <1>6, <1>7, Induction
<1>9. PICK n \in Nat : n = Len(chain) - (i + 1)
  <2>1. Len(chain) - (i + 1) \in Nat
    BY <1>1
  <2> HIDE DEF T
  <2> QED BY <2>1
<1>10. n \in T /\ (i + 1) + n = Len(chain) /\ Len(chain) \in 1 .. Len(chain)
  <2>1. n \in T
    BY <1>8
  <2> HIDE DEF T
  <2> QED BY <1>1, <1>9, <2>1
<1>11. At(Len(chain))
  BY <1>10
<1> QED BY <1>5, <1>11 DEF L, M

\* The one in a Reader ends behind what is below it.
LEMMA ClosesAt ==
  ASSUME NEW chain \in Seq(Readers), NEW o \in Int, Ending(chain, o),
         NEW i \in 1 .. Len(chain), i + 1 \in 1 .. Len(chain),
         chain[i + 1].end # Unknown
  PROVE  o + LeftIn(chain, i)[Len(chain)] = chain[i + 1].end
<1>1. /\ chain[i + 1].len \in Int /\ chain[i + 1].len >= 0
      /\ chain[i + 1].end \in Int
  BY ReaderIs
<1>2. PICK a \in Int : a = chain[i + 1].len /\ a >= 0
  BY <1>1
<1>3. PICK m : m = LeftIn(chain, i + 1)[Len(chain)]
  OBVIOUS
<1>4. chain[i + 1].end = o + a + m
  BY <1>2, <1>3, EndIs
<1>5. LeftIn(chain, i)[Len(chain)] = a + m
  <2>1. Rest(chain[i + 1]) = a
    BY <1>2 DEF Rest
  <2> QED BY <1>3, <2>1, LeftAfter
<1>6. m \in Nat
  <2>1. LeftIn(chain, i + 1) \in [0 .. Len(chain) -> Nat]
    <3>1. /\ Len(chain) \in Nat
          /\ \A j \in 1 .. Len(chain) : chain[j].len \in Int
      BY ReaderIs
    <3>2. i + 1 \in Nat
      BY <3>1
    <3> QED BY <3>1, <3>2, LeftInIs
  <2>2. Len(chain) \in 0 .. Len(chain)
    BY ReaderIs
  <2> QED BY <1>3, <2>1, <2>2
<1>7. o + (a + m) = o + a + m
  BY <1>6
<1> QED BY <1>4, <1>5, <1>7, Zenon

LEMMA NoneBelow ==
  ASSUME NEW chain \in Seq(Readers), Len(chain) >= 1
  PROVE  LeftIn(chain, Len(chain))[Len(chain)] = 0
<1>1. /\ Len(chain) \in Nat
      /\ \A j \in 1 .. Len(chain) : chain[j].len \in Int
  BY ReaderIs
<1>2. Len(chain) \in 0 .. Len(chain) /\ Len(chain) <= Len(chain)
  BY <1>1
<1> QED BY <1>1, <1>2, LeftInIs

\* The element that was returned is the one at cur.
LEMMA FoundHere ==
  ASSUME Buffer, Chain, NEW f, Reads(f), NEW path, NEW cur, Core(f, path, cur),
         step = "element"
  PROVE  /\ cur \in Nat /\ cur \in Elements(f) /\ cur \in In(f, path[at])
         /\ Begins(bytes, cur)
         /\ Len(readers) = at + 1 /\ at + 1 \in 1 .. Len(readers)
         /\ elem = readers[at + 1]
         /\ id = IdOf(f, cur) /\ elem.id = id /\ elem.len = LenAt(f.bytes, cur)
         /\ off = Body(f, cur) /\ cur < off /\ off <= End(f, cur)
         /\ off <= Len(bytes) /\ End(f, cur) \in Nat
         /\ Fits(f, elem, cur)
         /\ elem.len # Unknown =>
              /\ elem.len \in Nat /\ off + elem.len = End(f, cur)
              /\ elem.end = End(f, cur) /\ elem.end # Unknown
<1>1. step \in InElement
  BY DEF InElement
<1>2. /\ cur \in Nat /\ cur \in Elements(f) /\ cur \in In(f, path[at])
      /\ Marks(cur) /\ Begins(f.bytes, cur)
      /\ Body(f, cur) \in Nat /\ End(f, cur) \in Nat
      /\ Body(f, cur) <= End(f, cur)
  BY <1>1, MidElement
<1>3. /\ Begins(bytes, cur) /\ off = BodyAt(bytes, cur) /\ HasId(bytes, cur)
      /\ id = IdAt(bytes, cur) /\ ReaderOf(elem, bytes, cur)
  BY <1>2, Zenon DEF Marks, elem, Begins
<1>4. /\ f.bytes \in Seq(Byte) /\ Tiled(f) /\ OfFile /\ file = f
      /\ bytes \in Seq(Byte)
  BY ReadsIs DEF Reads, Buffer
<1>5. /\ IdAt(bytes, cur) = IdAt(f.bytes, cur)
      /\ LenAt(bytes, cur) = LenAt(f.bytes, cur)
      /\ BodyAt(bytes, cur) = BodyAt(f.bytes, cur)
  BY <1>2, <1>3, <1>4, SameElement
<1>6. /\ IdOf(f, cur) = IdAt(f.bytes, cur)
      /\ Body(f, cur) = BodyAt(f.bytes, cur) /\ cur < Body(f, cur)
      /\ LenAt(f.bytes, cur) \in Nat \cup {Unknown} /\ cur # Top
  BY <1>2, <1>4, ElementIs
<1>7. /\ id = IdOf(f, cur) /\ elem.id = id /\ elem.len = LenAt(f.bytes, cur)
      /\ off = Body(f, cur)
      /\ elem.end = IF LenAt(f.bytes, cur) = Unknown THEN Unknown
                    ELSE BodyAt(f.bytes, cur) + LenAt(f.bytes, cur)
  BY <1>3, <1>5, <1>6, Zenon DEF ReaderOf
<1>8. /\ Len(readers) = at + 1 /\ at + 1 \in 1 .. Len(readers)
      /\ elem = readers[at + 1]
  <2>1. Len(readers) = at + 1 /\ at \in Nat /\ at >= 1 /\ Len(readers) \in Nat
    BY ChainIs DEF Chain
  <2>2. at + 1 \in 1 .. Len(readers)
    BY <2>1
  <2> QED BY <2>1, <2>2, Zenon DEF elem
<1>9. off <= Len(bytes)
  BY <1>2, <1>3, <1>4, BeginsIs
<1>10. ASSUME elem.len # Unknown
       PROVE  /\ elem.len \in Nat /\ off + elem.len = End(f, cur)
              /\ elem.end = End(f, cur) /\ elem.end # Unknown
  <2>1. End(f, cur) = BodyAt(f.bytes, cur) + LenAt(f.bytes, cur)
    BY <1>6, <1>7, <1>10, Zenon DEF End
  <2>2. elem.end = End(f, cur) /\ off + elem.len = End(f, cur)
    BY <1>6, <1>7, <1>10, <2>1, Zenon
  <2>3. elem.len \in Nat
    BY <1>6, <1>7, <1>10
  <2>4. elem.end # Unknown
    BY <1>2, <2>2 DEF Unknown
  <2> QED BY <2>2, <2>3, <2>4
<1>11. Fits(f, elem, cur)
  <2>1. Vague(f, cur) <=> LenAt(f.bytes, cur) = Unknown
    BY <1>6, Zenon DEF Vague
  <2>2. elem.end = IF Vague(f, cur) THEN Unknown ELSE End(f, cur)
    BY <1>7, <1>10, <2>1, Zenon
  <2> QED BY <1>7, <2>1, <2>2, Zenon DEF Fits
<1> QED BY <1>2, <1>3, <1>6, <1>7, <1>8, <1>9, <1>10, <1>11, Zenon

\* A Reader goes on when the one in it has come to its end.
LEMMA CloseTo ==
  ASSUME NEW f, NEW path, PathIn(f, path), NEW i, Len(path) = i,
         readers' \in Seq(Readers), i \in 1 .. Len(readers'),
         i + 1 \in 1 .. Len(readers'), readers'[i + 1].end # Unknown,
         \A k \in 1 .. i : Fits(f, readers'[k], path[k]),
         off' \in Nat, src' = off' + Len(buffered'), Ending(readers', off'),
         NEW p, Continue(p, i),
         NEW y \in NextIn(f, path[i], readers'[i + 1].end)
  PROVE  Core(f, path, y)'
<1>1. off' + LeftIn(readers', i)[Len(readers')] = readers'[i + 1].end
  <2>1. off' \in Int
    OBVIOUS
  <2> QED BY <2>1, ClosesAt
<1>2. at' = i /\ step' = "skip"
  BY DEF Continue, ReadNext
<1>3. Below(at)' = LeftIn(readers', i)[Len(readers')]
  BY <1>2, Zenon DEF Below
<1>4. y \in NextIn(f, path[at'], off' + Below(at)')
  BY <1>1, <1>2, <1>3, Zenon
<1>5. Along(f, path)'
  BY <1>2 DEF Along
<1>6. /\ step' # "id" /\ step' \notin InElement /\ step' # "error"
  BY <1>2 DEF InElement
<1>7. Here(f, path[at], y)'
  BY <1>2, <1>4, <1>6, Zenon DEF Here
<1> QED BY <1>5, <1>7 DEF Core

\* The reader looks into the element that was returned.
LEMMA EnterTo ==
  ASSUME Buffer, Chain, NEW f, Reads(f), NEW path, NEW cur, Core(f, path, cur),
         step = "element", Opens(f, cur), NothingRead,
         NEW p, Continue(p, at + 1), NEW y \in NextIn(f, cur, Body(f, cur))
  PROVE  /\ Core(f, Append(path, cur), y)'
         /\ Append(path, cur) \in Seq(Int) /\ Len(Append(path, cur)) = at + 1
         /\ Append(path, cur)[at + 1] = cur
         /\ \A k \in 1 .. at : Append(path, cur)[k] = path[k]
<1>1. /\ cur \in Nat /\ cur \in Elements(f) /\ cur \in In(f, path[at])
      /\ Len(readers) = at + 1 /\ at + 1 \in 1 .. Len(readers)
      /\ elem = readers[at + 1]
      /\ off = Body(f, cur) /\ Fits(f, elem, cur)
  BY FoundHere
<1>2. PathIn(f, path) /\ Len(path) = at /\ at \in Nat /\ at >= 1
      /\ \A k \in 1 .. at : Fits(f, readers[k], path[k])
      /\ src = off + Len(buffered) /\ Ending(readers, off)
  BY ChainIs DEF Core, Along, Here
<1>3. path \in Seq(Int) /\ cur \in Int
  BY <1>1, <1>2 DEF PathIn
<1>4. PICK q : q = Append(path, cur)
  OBVIOUS
<1>5. /\ q \in Seq(Int) /\ Len(q) = at + 1 /\ q[at + 1] = cur
      /\ \A k \in 1 .. at : q[k] = path[k]
  BY <1>2, <1>3, <1>4
<1>6. PathIn(f, q)
  <2>1. q[1] = Top
    BY <1>2, <1>5 DEF PathIn
  <2>2. ASSUME NEW k \in 2 .. Len(q)
        PROVE  q[k] \in In(f, q[k - 1]) /\ Opens(f, q[k])
    <3>1. CASE k = at + 1
      <4>1. k - 1 = at /\ at \in 1 .. at
        BY <1>2, <3>1
      <4>2. q[k - 1] = path[at] /\ q[k] = cur
        BY <1>5, <3>1, <4>1
      <4> QED BY <1>1, <4>2
    <3>2. CASE k # at + 1
      <4>1. k \in 2 .. Len(path) /\ k \in 1 .. at /\ k - 1 \in 1 .. at
        BY <1>2, <1>5, <3>2
      <4>2. q[k - 1] = path[k - 1] /\ q[k] = path[k]
        BY <1>5, <4>1
      <4>3. path[k] \in In(f, path[k - 1]) /\ Opens(f, path[k])
        BY <1>2, <4>1 DEF PathIn
      <4> QED BY <4>2, <4>3
    <3> QED BY <3>1, <3>2
  <2>3. Len(q) >= 1
    BY <1>2, <1>5
  <2> QED BY <1>5, <2>1, <2>2, <2>3 DEF PathIn
<1>7. at' = at + 1 /\ step' = "skip" /\ readers' = readers
      /\ src' = src /\ off' = off /\ buffered' = buffered
  BY Zenon DEF Continue, ReadNext, NothingRead
<1>8. \A k \in 1 .. at + 1 : Fits(f, readers[k], q[k])
  <2> TAKE k \in 1 .. at + 1
  <2>1. CASE k = at + 1
    BY <1>1, <1>5, <2>1
  <2>2. CASE k # at + 1
    <3>1. k \in 1 .. at
      BY <1>2, <2>2
    <3> QED BY <1>2, <1>5, <3>1
  <2> QED BY <2>1, <2>2
<1>9. Along(f, q)'
  BY <1>5, <1>6, <1>7, <1>8 DEF Along
<1>10. Below(at)' = 0
  <2>1. LeftIn(readers, Len(readers))[Len(readers)] = 0
    <3>1. readers \in Seq(Readers) /\ Len(readers) >= 1
      BY <1>1, <1>2, ChainIs
    <3> QED BY <3>1, NoneBelow
  <2> QED BY <1>1, <1>7, <2>1, Zenon DEF Below
<1>11. y \in NextIn(f, q[at'], off' + Below(at)')
  <2>1. off + 0 = Body(f, cur)
    BY <1>1, Numbers
  <2> QED BY <1>5, <1>7, <1>10, <2>1, Zenon
<1>12. step' # "id" /\ step' \notin InElement /\ step' # "error"
  BY <1>7 DEF InElement
<1>13. Here(f, q[at], y)'
  <2>1. src' = off' + Len(buffered') /\ Ending(readers', off')
    BY <1>2, <1>7
  <2> QED BY <1>7, <1>11, <1>12, <2>1, Zenon DEF Here
<1>14. Core(f, q, y)'
  BY <1>9, <1>13 DEF Core
<1> QED BY <1>4, <1>5, <1>14

\* The element that was returned is left behind, read or not.
LEMMA LeaveTo ==
  ASSUME Buffer, Chain, NEW f, Reads(f), NEW path, NEW cur, Core(f, path, cur),
         step = "element", elem.len # Unknown,
         readers' \in Seq(Readers), Len(readers') = Len(readers),
         \A k \in 1 .. at : readers'[k] = readers[k],
         readers'[at + 1].end = elem.end,
         off' \in Nat, src' = off' + Len(buffered'), Ending(readers', off'),
         NEW p, Continue(p, at), NEW y \in NextIn(f, path[at], End(f, cur))
  PROVE  Core(f, path, y)'
<1>1. /\ Len(readers) = at + 1 /\ at + 1 \in 1 .. Len(readers)
      /\ elem.end = End(f, cur) /\ elem.end # Unknown
  BY FoundHere
<1>2. PathIn(f, path) /\ Len(path) = at
      /\ \A k \in 1 .. at : Fits(f, readers[k], path[k])
  BY DEF Core, Along
<1>3. at \in 1 .. Len(readers') /\ at + 1 \in 1 .. Len(readers')
  BY <1>1, ChainIs
<1>4. \A k \in 1 .. at : Fits(f, readers'[k], path[k])
  BY <1>2
<1>5. y \in NextIn(f, path[at], readers'[at + 1].end)
  BY <1>1
<1>6. readers'[at + 1].end # Unknown
  BY <1>1
<1> QED BY <1>2, <1>3, <1>4, <1>5, <1>6, CloseTo

LEMMA Unread ==
  ASSUME Buffer, Chain, NEW f, Reads(f), NEW path, NEW cur, Core(f, path, cur),
         NothingRead
  PROVE  /\ readers' = readers /\ readers' \in Seq(Readers)
         /\ off' = off /\ off' \in Nat /\ src' = off' + Len(buffered')
         /\ Ending(readers', off')
<1>1. /\ readers \in Seq(Readers) /\ off \in Nat /\ src = off + Len(buffered)
      /\ Ending(readers, off)
  BY ChainIs, ReaderHere
<1>2. /\ readers' = readers /\ off' = off /\ src' = src
      /\ buffered' = buffered
  BY Zenon DEF NothingRead
<1> QED BY <1>1, <1>2

LEMMA LeaveUnread ==
  ASSUME Buffer, Chain, NEW f, Reads(f), NEW path, NEW cur, Core(f, path, cur),
         step = "element", elem.len # Unknown, NothingRead,
         NEW p, Continue(p, at), NEW y \in NextIn(f, path[at], End(f, cur))
  PROVE  Core(f, path, y)'
<1>1. /\ readers' = readers /\ readers' \in Seq(Readers)
      /\ off' = off /\ off' \in Nat /\ src' = off' + Len(buffered')
      /\ Ending(readers', off')
  BY Unread
<1>2. elem = readers[at + 1]
  BY FoundHere
<1>3. readers'[at + 1].end = elem.end
  BY <1>1, <1>2
<1>4. /\ Len(readers') = Len(readers)
      /\ \A k \in 1 .. at : readers'[k] = readers[k]
  BY <1>1
<1> QED BY <1>1, <1>3, <1>4, LeaveTo

\* From the end of an element back to the one it is in.
LEMMA BackTo ==
  ASSUME Buffer, Chain, NEW f, Reads(f), NEW path, NEW cur, Core(f, path, cur),
         step = "error", at >= 3, NothingRead,
         NEW p, Continue(p, at - 1), NEW y \in NextIn(f, path[at - 1], cur)
  PROVE  \E q \in Seq(Int) :
           /\ Core(f, q, y)' /\ Len(q) = at - 1
           /\ \A k \in 1 .. at - 1 : q[k] = path[k]
<1>1. /\ PathIn(f, path) /\ Len(path) = at
      /\ \A k \in 1 .. at : Fits(f, readers[k], path[k])
      /\ cur = End(f, path[at])
  BY DEF Core, Along, Here
<1>2. /\ f.bytes \in Seq(Byte) /\ Tiled(f) /\ WellFormed(f)
  BY ReadsIs
<1>3. at \in Nat /\ Len(readers) = at /\ at \in 1 .. Len(path)
  BY ChainIs, ReaderHere DEF Chain
<1>4. /\ readers' = readers /\ readers' \in Seq(Readers)
      /\ off' = off /\ off' \in Nat /\ src' = off' + Len(buffered')
      /\ Ending(readers', off')
  BY Unread
<1>5. PICK q : q = SubSeq(path, 1, at - 1)
  OBVIOUS
<1>6. PICK i \in Nat : i = at - 1 /\ at = i + 1 /\ i >= 2
  BY <1>3
<1>7. /\ q \in Seq(Int) /\ Len(q) = i
      /\ \A k \in 1 .. i : q[k] = path[k]
  <2>1. path \in Seq(Int)
    BY <1>1 DEF PathIn
  <2>2. q = SubSeq(path, 1, i)
    BY <1>5, <1>6
  <2> QED BY <1>1, <1>6, <2>1, <2>2
<1>8. PathIn(f, q)
  <2>1. ASSUME NEW k \in 2 .. Len(q)
        PROVE  q[k] \in In(f, q[k - 1]) /\ Opens(f, q[k])
    <3>1. k \in 1 .. i /\ k - 1 \in 1 .. i /\ k \in 2 .. Len(path)
      BY <1>1, <1>6, <1>7
    <3>2. q[k] = path[k] /\ q[k - 1] = path[k - 1]
      BY <1>7, <3>1
    <3>3. path[k] \in In(f, path[k - 1]) /\ Opens(f, path[k])
      BY <1>1, <3>1 DEF PathIn
    <3> QED BY <3>2, <3>3
  <2>2. q[1] = Top /\ Len(q) >= 1
    BY <1>1, <1>6, <1>7 DEF PathIn
  <2> QED BY <1>7, <2>1, <2>2 DEF PathIn
<1>9. readers[at].end = End(f, path[at]) /\ readers[at].end # Unknown
  <2>1. at >= 2 /\ i >= 2 /\ i \in 1 .. Len(path) /\ at - 1 = i
    BY <1>1, <1>3, <1>6
  <2>2. /\ path[at] \in Elements(f) /\ path[at] \in In(f, path[i])
        /\ f.within[path[at]] = path[i] /\ End(f, path[at]) \in Nat
    BY <1>1, <1>2, <1>3, <2>1, PathIs, SMTT(40)
  <2>3. path[i] \in Elements(f)
    BY <1>1, <1>2, <2>1, PathIs
  <2>4. path[i] # Top /\ path[at] # Top
    BY <1>2, <2>2, <2>3, ElementIs
  <2>5. path[at] # Segment(f)
    BY <1>2, <2>2, <2>4, SegmentIs
  <2>6. LenAt(f.bytes, path[at]) # Unknown
    BY <1>2, <2>2, <2>5, SegmentIs
  <2>7. ~Vague(f, path[at])
    BY <2>4, <2>6, Zenon DEF Vague
  <2>8. Fits(f, readers[at], path[at])
    BY <1>1, <1>3
  <2>9. readers[at].end = End(f, path[at])
    BY <2>7, <2>8, Zenon DEF Fits
  <2> QED BY <2>2, <2>9 DEF Unknown
<1>10. i \in 1 .. Len(readers') /\ i + 1 \in 1 .. Len(readers')
  BY <1>3, <1>4, <1>6
<1>11. \A k \in 1 .. i : Fits(f, readers'[k], q[k])
  <2> TAKE k \in 1 .. i
  <2>1. k \in 1 .. at /\ q[k] = path[k]
    BY <1>6, <1>7
  <2> QED BY <1>1, <1>4, <2>1
<1>12. y \in NextIn(f, q[i], readers'[i + 1].end)
  <2>1. q[i] = path[at - 1]
    BY <1>6, <1>7
  <2> QED BY <1>1, <1>4, <1>6, <1>9, <2>1
<1>13. readers'[i + 1].end # Unknown
  BY <1>4, <1>6, <1>9
<1>14. Core(f, q, y)'
  <2>1. Continue(p, i)
    BY <1>6
  <2> QED BY <1>4, <1>7, <1>8, <1>10, <1>11, <1>12, <1>13, <2>1, CloseTo
<1>15. Len(q) = at - 1 /\ \A k \in 1 .. at - 1 : q[k] = path[k]
  BY <1>6, <1>7
<1> QED BY <1>7, <1>14, <1>15, Zenon

\* From anywhere in the segment to the end of the file.
LEMMA RestartTo ==
  ASSUME Buffer, Chain, NEW f, Reads(f), NEW path, NEW cur, Core(f, path, cur),
         at >= 2, LenAt(f.bytes, Segment(f)) # Unknown,
         readers' \in Seq(Readers), Len(readers') = Len(readers),
         readers'[1] = readers[1], readers'[2].end = readers[2].end,
         off' \in Nat, src' = off' + Len(buffered'), Ending(readers', off'),
         NEW p, Continue(p, 1)
  PROVE  Core(f, <<Top>>, Len(f.bytes))'
<1>1. /\ PathIn(f, path) /\ Len(path) = at
      /\ \A k \in 1 .. at : Fits(f, readers[k], path[k])
  BY DEF Core, Along
<1>2. /\ f.bytes \in Seq(Byte) /\ Tiled(f) /\ WellFormed(f)
      /\ Len(f.bytes) \in Nat
  BY ReadsIs
<1>3. /\ at \in Nat /\ Len(readers) \in Nat /\ at <= Len(readers)
  BY ChainIs
<1>4. /\ 1 \in 1 .. at /\ 2 \in 1 .. at /\ 2 >= 2 /\ 2 - 1 = 1
      /\ 1 \in 1 .. Len(readers') /\ 1 + 1 = 2 /\ 2 \in 1 .. Len(readers')
  BY <1>3
<1>5. path[1] = Top /\ path[2] = Segment(f)
  <2>1. path[1] = Top
    BY <1>1 DEF PathIn
  <2>2. path[2] \in In(f, Top) /\ Opens(f, path[2])
    BY <1>1, <1>2, <1>4, <2>1, PathIs, ZenonT(60)
  <2>3. In(f, Top) = {0, Segment(f)} /\ ~Opens(f, 0)
    BY <1>2, SegmentIs
  <2> QED BY <2>1, <2>2, <2>3
<1>6. /\ Segment(f) \in Nat /\ End(f, Segment(f)) \in Nat
      /\ Segment(f) < End(f, Segment(f)) /\ Segment(f) \in Elements(f)
      /\ f.within[Segment(f)] = Top /\ Segment(f) > 0
      /\ In(f, Top) = {0, Segment(f)} /\ Segment(f) # Top
  <2>1. Segment(f) # Top
    BY <1>2, SegmentIs, ElementIs
  <2> QED BY <1>2, <2>1, SegmentIs
<1>7. readers'[2].end = End(f, Segment(f)) /\ readers'[2].end # Unknown
  <2>1. Fits(f, readers[2], Segment(f))
    BY <1>1, <1>4, <1>5
  <2>2. ~Vague(f, Segment(f))
    BY <1>6, Zenon DEF Vague
  <2>3. readers'[2].end = End(f, Segment(f))
    BY <2>1, <2>2, Zenon DEF Fits
  <2> QED BY <1>6, <2>3 DEF Unknown
<1>8. PICK q : q = <<Top>>
  OBVIOUS
<1>9. q \in Seq(Int) /\ Len(q) = 1 /\ q[1] = Top
  <2>1. Top \in Int
    BY <1>2, TopIs
  <2> QED BY <1>8, <2>1
<1>10. PathIn(f, q)
  BY <1>9 DEF PathIn
<1>11. \A k \in 1 .. 1 : Fits(f, readers'[k], q[k])
  <2>1. Fits(f, readers'[1], q[1])
    BY <1>1, <1>4, <1>5, <1>9
  <2> QED BY <2>1
<1>12. PICK y : y \in NextIn(f, Top, End(f, Segment(f)))
  <2>1. Segment(f) \in In(f, Top)
    BY <1>6
  <2> QED BY <1>2, <2>1, WithinIs
<1>13. y = Len(f.bytes)
  <2>1. End(f, Top) = Len(f.bytes)
    BY <1>2, TopIs
  <2>2. y \in {0, Segment(f)} \cup {End(f, Top)} /\ End(f, Segment(f)) <= y
    BY <1>2, <1>6, <1>12, NextIs
  <2> QED BY <1>6, <2>1, <2>2
<1>14. y \in NextIn(f, q[1], readers'[1 + 1].end)
  BY <1>4, <1>7, <1>9, <1>12
<1>15. readers'[1 + 1].end # Unknown
  BY <1>4, <1>7
<1>16. 1 + 1 \in 1 .. Len(readers')
  BY <1>4
<1>17. Core(f, q, y)'
  BY <1>4, <1>9, <1>10, <1>11, <1>14, <1>15, <1>16, CloseTo
<1> QED BY <1>8, <1>13, <1>17

\* No element begins between those that come one after another.
Adjoins(f, c, d) == \A x \in Elements(f) : x > c => x >= d

LEMMA NextAfter ==
  ASSUME NEW f, f.bytes \in Seq(Byte), Tiled(f), NEW e, End(f, e) \in Nat,
         NEW c \in In(f, e)
  PROVE  /\ NextIn(f, e, End(f, c)) # {}
         /\ \A y \in NextIn(f, e, End(f, c)) :
              /\ y \in Nat /\ c < y /\ End(f, c) <= y
              /\ \A x \in Elements(f) : x >= End(f, c) => x >= y
              /\ ~Opens(f, c) => Adjoins(f, c, y)
<1>1. /\ c \in Elements(f) /\ NextIn(f, e, End(f, c)) # {}
  BY WithinIs
<1>2. /\ c \in Nat /\ End(f, c) \in Nat /\ c < Body(f, c)
      /\ Body(f, c) <= End(f, c) /\ Body(f, c) \in Nat
  BY <1>1, ElementIs
<1>3. ASSUME NEW y \in NextIn(f, e, End(f, c))
      PROVE  /\ y \in Nat /\ c < y /\ End(f, c) <= y
             /\ \A x \in Elements(f) : x >= End(f, c) => x >= y
             /\ ~Opens(f, c) => Adjoins(f, c, y)
  <2>1. y \in Nat
    BY BorderIs DEF NextIn
  <2>2. End(f, c) <= y /\ \A x \in Elements(f) : x >= End(f, c) => x >= y
    BY <1>2, <2>1, NextIs
  <2>3. c < y
    BY <1>2, <2>1, <2>2
  <2>4. ASSUME ~Opens(f, c), NEW x \in Elements(f), x > c
        PROVE  x >= y
    BY <1>1, <2>2, <2>4, Beyond
  <2> QED BY <2>1, <2>2, <2>3, <2>4 DEF Adjoins
<1> QED BY <1>1, <1>3

LEMMA NextWithin ==
  ASSUME NEW f, f.bytes \in Seq(Byte), Tiled(f), NEW c \in Elements(f),
         Opens(f, c)
  PROVE  /\ NextIn(f, c, Body(f, c)) # {}
         /\ \A y \in NextIn(f, c, Body(f, c)) :
              y \in Nat /\ c < y /\ Adjoins(f, c, y)
<1>1. /\ c \in In(f, f.within[c]) /\ c \in Nat /\ c < Body(f, c)
      /\ End(f, c) \in Nat /\ Body(f, c) \in Nat
  BY ElementIs
<1>2. NextIn(f, c, Body(f, c)) # {}
  BY <1>1, WithinIs
<1>3. ASSUME NEW y \in NextIn(f, c, Body(f, c))
      PROVE  y \in Nat /\ c < y /\ Adjoins(f, c, y)
  <2>1. y \in Nat
    BY <1>1, BorderIs DEF NextIn
  <2>2. Body(f, c) <= y /\ \A x \in Elements(f) : x >= Body(f, c) => x >= y
    BY <1>1, <2>1, NextIs
  <2>3. c < y
    BY <1>1, <2>1, <2>2
  <2>4. ASSUME NEW x \in Elements(f), x > c PROVE x >= y
    BY <2>2, <2>4, Beyond
  <2> QED BY <2>1, <2>3, <2>4 DEF Adjoins
<1> QED BY <1>2, <1>3

-----------------------------------------------------------------------------
(* The reader follows the elements of the file: what it has decoded and     *)
(* heard is what comes before the element it is about to read.              *)

\* The time of cluster e comes before its blocks, and is yet to come.
Timed(f, e, cur) ==
  \E t \in InWith(f, e, Matroska_Timestamp) :
    /\ LenAt(f.bytes, t) \in 1 .. 8 /\ cur <= t
    /\ \A c \in In(f, e) :
         IdOf(f, c) \in {Matroska_Timestamp, Matroska_SimpleBlock,
                         Matroska_BlockGroup} => t <= c

\* Which elements the loops are in.
Shape(f, path, cur) ==
  /\ cur \in Nat /\ phase \in Phases
  /\ phase = "EBML" => cur = 0
  /\ phase = "Segment" => cur = Segment(f)
  /\ phase = "decode" =>
       IdOf(f, path[3]) \in {Matroska_Info, Matroska_Tracks}
  /\ phase = "content" /\ dec = 1 => cur = Len(f.bytes)
  /\ phase \in {"timestamp", "blocks", "group"} =>
       dec = 2 /\ IdOf(f, path[3]) = Matroska_Cluster
  /\ phase = "timestamp" => Timed(f, path[3], cur)

\* What was heard are the blocks before cur.
Hears(f, cur) ==
  /\ dec = 1 => Blocks = <<>>
  /\ phase \in InHeader \/ dec = 2 => HeardPlaces = PlacesBefore(f, cur)

\* The entries that were decoded are those before cur.
CountBefore(f, c) == Cardinality({x \in Entries(f) : x < c})
Rank(f, e) == Cardinality({x \in Entries(f) : x <= e})
AudioIn(f, e, c) == \E a \in InWith(f, e, Matroska_Audio) : a < c
Listed(f, cur) ==
  /\ Len(entries) = CountBefore(f, cur)
  /\ \A k \in 1 .. Len(entries) :
       \E e \in Entries(f) : e < cur /\ Rank(f, e) = k
  /\ \A e \in Entries(f) :
       e < cur => entries[Rank(f, e)] = AudioIn(f, e, cur)

\* Info and Tracks were decoded if they come before mark.
Done(x, mark) == IF x < mark THEN 1 ELSE 0
Counted(f, mark) ==
  \E i, t \in In(f, Segment(f)) :
    /\ InWith(f, Segment(f), Matroska_Info) = {i}
    /\ InWith(f, Segment(f), Matroska_Tracks) = {t}
    /\ cntNeeded = Done(i, mark) + Done(t, mark)
    /\ satrack = IF t < mark THEN AudioTrackOf(f) ELSE 0

Heading(f, path, cur) ==
  /\ dec = 1 => phase \in InHeader
  /\ dec = 2 => satrack = AudioTrackOf(f)
  /\ phase \in InHeader =>
       Listed(f, cur) /\ Counted(f, IF phase = "decode" THEN path[3] ELSE cur)

Following(f, path, cur) ==
  /\ Core(f, path, cur) /\ Shape(f, path, cur) /\ Hears(f, cur)
  /\ Headed(f) => Heading(f, path, cur)

\* All blocks of a file that is whole were heard at its end.
Final(f) ==
  Headed(f) /\ ~Cut /\ phase \in Ends =>
    phase = "EOF" /\ HeardPlaces = Places(f)

\* The reader follows the file, was cut off, or has come to an end.
OnTrack(f) ==
  \/ \E path, cur : Following(f, path, cur)
  \/ Sound(f) /\ CutOff(f)
  \/ phase \in Ends /\ Sound(f) /\ Final(f)

LEMMA FollowingOn ==
  ASSUME NEW f, NEW q, NEW y, Following(f, q, y)'
  PROVE  OnTrack(f)'
BY Zenon DEF OnTrack

LEMMA CutOn ==
  ASSUME NEW f, Sound(f)', Cut', Over' \/ LostIn(f)'
  PROVE  OnTrack(f)'
BY Zenon DEF OnTrack, CutOff

LEMMA EndsOn ==
  ASSUME NEW f, Sound(f)', phase' \in Ends,
         Headed(f) /\ ~Cut' => phase' = "EOF" /\ HeardPlaces' = Places(f)
  PROVE  OnTrack(f)'
BY Zenon DEF OnTrack, Final

LEMMA FollowingSound ==
  ASSUME Inv, NEW f, NEW path, NEW cur, Following(f, path, cur)
  PROVE  Sound(f)
<1>1. dec \in 1 .. 2 /\ (phase \in InHeader => dec = 1)
  BY LoopsIs, Zenon DEF Inv
<1>2. dec = 1 \/ dec = 2
  BY <1>1
<1>3. Hears(f, cur) /\ cur \in Nat /\ (Headed(f) => Heading(f, path, cur))
  BY Zenon DEF Following, Shape
<1>4. phase \in InHeader => Blocks = <<>>
  BY <1>1, <1>3, Zenon DEF Hears
<1>5. Accepted(f)
  <2>1. CASE dec = 1
    BY <1>3, <2>1, Zenon DEF Accepted, Hears
  <2>2. CASE dec = 2
    BY <1>3, <2>2, Zenon DEF Accepted, Heading
  <2> QED BY <1>2, <2>1, <2>2
<1>6. FirstBlocks(f)
  <2>1. cur \in Int
    BY <1>3
  <2> QED BY <1>3, <2>1, Zenon DEF FirstBlocks, Hears
<1> QED BY <1>4, <1>5, <1>6, Zenon DEF Sound

\* Loops of ReadContent go on.
Looping == {"content", "timestamp", "blocks", "group"}

LEMMA ContentOnward ==
  ASSUME NEW f, NEW path, NEW cur, Following(f, path, cur), dec = 2,
         dec' = dec, satrack' = satrack, phase' \in Looping,
         NEW q, NEW y \in Nat, Core(f, q, y)', HeardPlaces' = PlacesBefore(f, y),
         phase' # "content" => IdOf(f, q[3]) = Matroska_Cluster,
         phase' = "timestamp" => Timed(f, q[3], y)
  PROVE  OnTrack(f)'
<1>1. phase' \notin InHeader /\ phase' \in Phases
  BY DEF Looping, InHeader, Phases
<1>2. phase' \notin {"EBML", "Segment", "decode"}
  BY DEF Looping
<1>3. dec' = 2 /\ ~(dec' = 1)
  OBVIOUS
<1>4. phase' \in {"timestamp", "blocks", "group"} => phase' # "content"
  OBVIOUS
<1>5. Shape(f, q, y)'
  BY <1>1, <1>2, <1>3, <1>4, Zenon DEF Shape
<1>6. Hears(f, y)'
  BY <1>3, Zenon DEF Hears
<1>7. Headed(f) => Heading(f, q, y)'
  <2>1. Headed(f) => satrack = AudioTrackOf(f)
    BY Zenon DEF Following, Heading
  <2> QED BY <1>1, <1>3, <2>1, Zenon DEF Heading
<1>8. Following(f, q, y)'
  BY <1>5, <1>6, <1>7, Zenon DEF Following
<1> QED BY <1>8, FollowingOn

\* Nothing was played between c and what follows it, if c is no block.
LEMMA NothingBetween ==
  ASSUME NEW f, f.bytes \in Seq(Byte), WellFormed(f),
         NEW c \in Nat, NEW d \in Nat, c < d, Adjoins(f, c, d),
         c \notin BlocksIn(f)
  PROVE  PlacesBefore(f, d) = PlacesBefore(f, c)
<1>1. ASSUME NEW x \in BlocksIn(f), c <= x
      PROVE  d <= x
  <2>1. x \in Elements(f) /\ x \in Nat
    BY BlockIs
  <2>2. x # c
    OBVIOUS
  <2>3. x > c
    BY <1>1, <2>1, <2>2
  <2>4. x >= d
    BY <2>1, <2>3 DEF Adjoins
  <2> QED BY <2>1, <2>4
<1> QED BY <1>1, SameBefore

LEMMA NothingTo ==
  ASSUME NEW f, f.bytes \in Seq(Byte), WellFormed(f), NEW e,
         NEW c \in Nat, NEW d \in NextIn(f, e, c), d \in Nat
  PROVE  c <= d /\ PlacesBefore(f, d) = PlacesBefore(f, c)
<1>1. Tiled(f)
  BY SegmentIs
<1>2. c <= d /\ \A x \in Elements(f) : x >= c => x >= d
  BY <1>1, NextIs
<1>3. ASSUME NEW x \in BlocksIn(f), c <= x
      PROVE  d <= x
  <2>1. x \in Elements(f) /\ x \in Nat
    BY BlockIs
  <2> QED BY <1>2, <1>3, <2>1
<1> QED BY <1>2, <1>3, SameBefore

\* Looked into the segment, all elements that are read are in it, and their
\* lengths are known.
LEMMA InSegment ==
  ASSUME Buffer, Chain, NEW f, Reads(f), NEW path, NEW cur, Core(f, path, cur),
         at >= 2
  PROVE  /\ path[2] = Segment(f) /\ 2 \in 1 .. Len(path)
         /\ at >= 3 => path[3] \in In(f, Segment(f)) /\ path[3] \in Elements(f)
                       /\ Opens(f, path[3])
         /\ path[at] \in Elements(f)
         /\ step = "element" => cur # Segment(f) /\ elem.len # Unknown
<1>1. f.bytes \in Seq(Byte) /\ Tiled(f) /\ WellFormed(f)
  BY ReadsIs
<1>2. PathIn(f, path) /\ Len(path) = at /\ at \in Nat
  BY ChainIs DEF Core, Along
<1>3. 2 \in 1 .. Len(path) /\ 1 \in 1 .. Len(path) /\ at \in 1 .. Len(path)
  BY <1>2
<1>4. path[2] = Segment(f)
  <2>1. path[2] \in In(f, path[1]) /\ Opens(f, path[2]) /\ path[1] = Top
    <3>1. PICK k : k = 2
      OBVIOUS
    <3>2. k \in 2 .. Len(path) /\ k - 1 = 1
      BY <1>3, <3>1
    <3>3. path[k] \in In(f, path[k - 1]) /\ Opens(f, path[k])
      BY <1>2, <3>2 DEF PathIn
    <3> QED BY <1>2, <3>1, <3>2, <3>3 DEF PathIn
  <2>2. In(f, Top) = {0, Segment(f)} /\ ~Opens(f, 0)
    BY <1>1, SegmentIs
  <2> QED BY <2>1, <2>2
<1>5. ASSUME at >= 3
      PROVE  path[3] \in In(f, Segment(f)) /\ path[3] \in Elements(f)
             /\ Opens(f, path[3])
  <2>1. PICK k \in 1 .. Len(path) : k = 3 /\ k >= 2 /\ k - 1 = 2
    BY <1>2, <1>5
  <2>2. /\ path[k] \in Elements(f) /\ Opens(f, path[k])
        /\ path[k] \in In(f, path[k - 1])
    BY <1>1, <1>2, <2>1, PathIs
  <2> QED BY <1>4, <2>1, <2>2, Zenon
<1>6. path[at] \in Elements(f)
  BY <1>1, <1>2, <1>3, PathIs
<1>7. ASSUME step = "element"
      PROVE  cur # Segment(f) /\ elem.len # Unknown
  <2>1. cur \in Elements(f) /\ cur \in In(f, path[at])
        /\ elem.len = LenAt(f.bytes, cur)
    BY <1>7, FoundHere
  <2>2. f.within[cur] = path[at]
    BY <1>1, <2>1, WithinIs
  <2>3. path[at] # Top
    BY <1>1, <1>6, ElementIs
  <2>4. cur # Segment(f)
    BY <1>1, <2>2, <2>3, SegmentIs
  <2>5. LenAt(f.bytes, cur) # Unknown
    BY <1>1, <2>1, <2>4, SegmentIs
  <2> QED BY <2>1, <2>4, <2>5
<1> QED BY <1>3, <1>4, <1>5, <1>6, <1>7

\* What is looked into in the segment, a cluster, a group of it, and a struct.
LEMMA EnteredWhere ==
  /\ Entered(Matroska_Segment) =
       {Matroska_Info, Matroska_Tracks, Matroska_Cluster}
  /\ Entered(Matroska_Cluster) = {Matroska_BlockGroup}
  /\ Entered(Matroska_BlockGroup) = {}
  /\ \A s \in StructIds : Entered(s) = FieldsOfType(s, {"struct"})
<1>1. /\ Matroska_Segment # 0 /\ Matroska_Cluster # 0 /\ Matroska_BlockGroup # 0
      /\ Matroska_Segment # Matroska_Cluster
      /\ Matroska_Segment # Matroska_BlockGroup
      /\ Matroska_Cluster # Matroska_BlockGroup
  BY DEF Matroska_Segment, Matroska_Cluster, Matroska_BlockGroup
<1>2. ASSUME NEW s \in StructIds
      PROVE  /\ s # 0 /\ s # Matroska_Segment /\ s # Matroska_Cluster
             /\ s # Matroska_BlockGroup
  BY DEF StructIds, Matroska_Tracks, Matroska_Info, Matroska_Segment,
         Matroska_Cluster, Matroska_BlockGroup,
         Matroska_ChapterTranslate, Matroska_TrackEntry,
         Matroska_TrackTranslate, Matroska_Audio, Matroska_Video,
         Matroska_AlphaMode, Matroska_Colour, Matroska_MasteringMetadata,
         Matroska_TrackOperation, Matroska_TrackPlane,
         Matroska_ContentEncoding, Matroska_ContentCompression,
         Matroska_ContentEncryption, Matroska_TrackCombinePlanes,
         Matroska_TrackJoinBlocks, Matroska_ContentEncodings
<1>3. /\ Matroska_Segment \notin StructIds /\ Matroska_Cluster \notin StructIds
      /\ Matroska_BlockGroup \notin StructIds
  BY <1>2, Zenon
<1>4. Entered(Matroska_Segment) =
        {Matroska_Info, Matroska_Tracks, Matroska_Cluster}
  BY <1>1, <1>3, Zenon DEF Entered
<1>5. Entered(Matroska_Cluster) = {Matroska_BlockGroup}
  BY <1>1, <1>3, Zenon DEF Entered
<1>6. Entered(Matroska_BlockGroup) = {}
  BY <1>1, <1>3, Zenon DEF Entered
<1>7. ASSUME NEW s \in StructIds
      PROVE  Entered(s) = FieldsOfType(s, {"struct"})
  BY <1>2, Zenon DEF Entered
<1> QED BY <1>4, <1>5, <1>6, <1>7, Zenon

\* What the reader knows in ReadContent, once the header was accepted.
LEMMA ContentIn ==
  ASSUME Inv, NEW f, Reads(f), NEW path, NEW cur, Following(f, path, cur),
         phase \in Looping, dec = 2
  PROVE  /\ Buffer /\ Chain /\ Core(f, path, cur) /\ cur \in Nat
         /\ f.bytes \in Seq(Byte) /\ WellFormed(f) /\ Tiled(f)
         /\ path[2] = Segment(f) /\ at >= 2 /\ at \in Nat
         /\ phase = "content" => at = 2
         /\ phase \in {"timestamp", "blocks"} => at = 3
         /\ phase = "group" => at = 4
         /\ phase # "content" =>
              /\ path[3] \in InWith(f, Segment(f), Matroska_Cluster)
              /\ path[3] \in Elements(f) /\ Opens(f, path[3])
              /\ IdOf(f, path[3]) = Matroska_Cluster
         /\ phase = "group" =>
              /\ path[4] \in In(f, path[3]) /\ Opens(f, path[4])
              /\ IdOf(f, path[4]) = Matroska_BlockGroup
         /\ HeardPlaces = PlacesBefore(f, cur)
<1>1. /\ Buffer /\ Chain /\ Core(f, path, cur) /\ cur \in Nat
      /\ Shape(f, path, cur) /\ Hears(f, cur)
  BY Zenon DEF Inv, Decoder, Following, Shape
<1>2. f.bytes \in Seq(Byte) /\ WellFormed(f) /\ Tiled(f)
  BY <1>1, ReadsIs
<1>3. Place(phase, at, dec) /\ at \in Nat
  BY InvIs
<1>4. /\ phase = "content" => at = 2
      /\ phase \in {"timestamp", "blocks"} => at = 3
      /\ phase = "group" => at = 4
  <2>1. /\ phase = "content" => at = dec
        /\ phase \in {"timestamp", "blocks"} => at = dec + 1
        /\ phase = "group" => at = dec + 2
    BY <1>3, Zenon DEF Place
  <2>2. dec + 1 = 3 /\ dec + 2 = 4
    OBVIOUS
  <2> QED BY <2>1, <2>2, Zenon
<1>5. at >= 2
  BY <1>4 DEF Looping
<1>6. path[2] = Segment(f)
  BY <1>1, <1>5, InSegment
<1>7. ASSUME phase # "content"
      PROVE  /\ path[3] \in InWith(f, Segment(f), Matroska_Cluster)
             /\ path[3] \in Elements(f) /\ Opens(f, path[3])
             /\ IdOf(f, path[3]) = Matroska_Cluster
  <2>1. phase \in {"timestamp", "blocks", "group"}
    BY <1>7 DEF Looping
  <2>2. IdOf(f, path[3]) = Matroska_Cluster
    BY <1>1, <2>1, Zenon DEF Shape
  <2>3. at >= 3
    BY <1>4, <2>1
  <2>4. /\ path[3] \in In(f, Segment(f)) /\ path[3] \in Elements(f)
        /\ Opens(f, path[3])
    BY <1>1, <1>5, <2>3, InSegment
  <2> QED BY <2>2, <2>4, Zenon DEF InWith
<1>8. ASSUME phase = "group"
      PROVE  /\ path[4] \in In(f, path[3]) /\ Opens(f, path[4])
             /\ IdOf(f, path[4]) = Matroska_BlockGroup
  <2>1. at = 4 /\ phase # "content"
    BY <1>4, <1>8
  <2>2. PathIn(f, path) /\ Len(path) = 4
    BY <1>1, <2>1 DEF Core, Along
  <2>3. PICK k : k = 4
    OBVIOUS
  <2>4. k \in 2 .. Len(path) /\ k - 1 = 3
    BY <2>2, <2>3
  <2>5. path[k] \in In(f, path[k - 1]) /\ Opens(f, path[k])
    BY <2>2, <2>4 DEF PathIn
  <2>6. path[4] \in In(f, path[3]) /\ Opens(f, path[4])
    BY <2>3, <2>4, <2>5
  <2>7. f.within[path[4]] = path[3] /\ IdOf(f, path[3]) = Matroska_Cluster
    BY <1>7, <2>1, <2>6, Zenon DEF In
  <2>8. IdOf(f, path[4]) \in Entered(Matroska_Cluster)
    BY <2>6, <2>7, Zenon DEF Opens
  <2>9. IdOf(f, path[4]) = Matroska_BlockGroup
    BY <2>8, EnteredWhere, Zenon
  <2> QED BY <2>6, <2>9
<1>9. HeardPlaces = PlacesBefore(f, cur)
  BY <1>1, Zenon DEF Hears
<1> QED BY <1>1, <1>2, <1>3, <1>4, <1>5, <1>6, <1>7, <1>8, <1>9, Zenon

LEMMA BlockWhere ==
  ASSUME NEW f, NEW c \in BlocksIn(f)
  PROVE  /\ IdOf(f, f.within[c]) = Matroska_Cluster =>
              IdOf(f, c) = Matroska_SimpleBlock
         /\ IdOf(f, f.within[c]) = Matroska_BlockGroup =>
              IdOf(f, c) = Matroska_Block
         /\ IdOf(f, f.within[c]) \in {Matroska_Cluster, Matroska_BlockGroup}
<1>1. Matroska_Cluster # Matroska_BlockGroup
  BY DEF Matroska_Cluster, Matroska_BlockGroup
<1>2. <<IdOf(f, f.within[c]), IdOf(f, c)>> \in
        {<<Matroska_Cluster, Matroska_SimpleBlock>>,
         <<Matroska_BlockGroup, Matroska_Block>>}
  BY Zenon DEF BlocksIn
<1>3. \/ /\ IdOf(f, f.within[c]) = Matroska_Cluster
         /\ IdOf(f, c) = Matroska_SimpleBlock
      \/ /\ IdOf(f, f.within[c]) = Matroska_BlockGroup
         /\ IdOf(f, c) = Matroska_Block
  BY <1>2
<1> QED BY <1>1, <1>3, Zenon

\* An element is left behind in ReadContent, and with it no block.
LEMMA ContentLeaves ==
  ASSUME Inv, NEW f, Reads(f), NEW path, NEW cur, Following(f, path, cur),
         phase \in Looping, dec = 2, dec' = dec, satrack' = satrack,
         step = "element", NothingRead, Blocks' = Blocks, Continue(phase, at),
         \A y \in NextIn(f, path[at], End(f, cur)) :
           PlacesBefore(f, y) = PlacesBefore(f, cur)
           /\ (phase = "timestamp" => Timed(f, path[3], y))
  PROVE  OnTrack(f)'
<1>1. /\ Buffer /\ Chain /\ Core(f, path, cur) /\ cur \in Nat
      /\ f.bytes \in Seq(Byte) /\ Tiled(f) /\ at >= 2
      /\ HeardPlaces = PlacesBefore(f, cur)
      /\ phase # "content" => IdOf(f, path[3]) = Matroska_Cluster
  BY ContentIn
<1>2. elem.len # Unknown
  BY <1>1, InSegment
<1>3. cur \in In(f, path[at]) /\ End(f, path[at]) \in Nat
  BY <1>1, FoundHere, ReaderHere
<1>4. PICK y : y \in NextIn(f, path[at], End(f, cur))
  BY <1>1, <1>3, NextAfter
<1>5. y \in Nat
  BY <1>1, <1>3, <1>4, NextAfter
<1>6. Core(f, path, y)'
  BY <1>1, <1>2, <1>4, LeaveUnread
<1>7. HeardPlaces' = PlacesBefore(f, y)
  BY <1>1, <1>4, Zenon DEF HeardPlaces
<1>8. phase' = phase
  BY DEF Continue
<1>9. phase = "timestamp" => Timed(f, path[3], y)
  BY <1>4
<1> QED BY <1>1, <1>5, <1>6, <1>7, <1>8, <1>9, ContentOnward

\* The reader stops in ReadContent.
LEMMA ContentStops ==
  ASSUME Inv, NEW f, Reads(f), NEW path, NEW cur, Following(f, path, cur),
         phase \notin InHeader, dec' = dec, satrack' = satrack,
         bytes' = bytes, file' = file, Blocks' = Blocks, phase' \in Ends,
         Headed(f) /\ ~Cut => phase' = "EOF" /\ HeardPlaces = Places(f)
  PROVE  OnTrack(f)'
<1>1. Sound(f)
  BY FollowingSound
<1>2. phase' \notin InHeader
  BY DEF Ends, InHeader
<1>3. Sound(f)'
  BY <1>1, <1>2, SoundKept
<1>4. HeardPlaces' = HeardPlaces /\ Cut' = Cut
  BY Zenon DEF HeardPlaces, Cut
<1> QED BY <1>3, <1>4, EndsOn, Zenon

\* The reader looks into an element.
LEMMA ContentEnters ==
  ASSUME Inv, NEW f, Reads(f), NEW path, NEW cur, Following(f, path, cur),
         phase \in Looping, dec = 2, dec' = dec, satrack' = satrack,
         step = "element", NothingRead, Blocks' = Blocks, Opens(f, cur),
         NEW p \in {"timestamp", "group"}, Continue(p, at + 1),
         p = "timestamp" => at = 2 /\ IdOf(f, cur) = Matroska_Cluster,
         p = "group" => at = 3
  PROVE  OnTrack(f)'
<1>1. /\ Buffer /\ Chain /\ Core(f, path, cur) /\ cur \in Nat
      /\ f.bytes \in Seq(Byte) /\ Tiled(f) /\ WellFormed(f)
      /\ HeardPlaces = PlacesBefore(f, cur)
      /\ phase = "content" => at = 2
      /\ phase # "content" => IdOf(f, path[3]) = Matroska_Cluster
      /\ path[2] = Segment(f)
  BY ContentIn
<1>2. cur \in Elements(f) /\ cur \in In(f, path[at])
  BY <1>1, FoundHere
<1>3. PICK y : y \in NextIn(f, cur, Body(f, cur))
  BY <1>1, <1>2, NextWithin
<1>4. y \in Nat /\ cur < y /\ Adjoins(f, cur, y)
  BY <1>1, <1>2, <1>3, NextWithin
<1>5. PICK q : q = Append(path, cur)
  OBVIOUS
<1>6. /\ Core(f, q, y)' /\ q[at + 1] = cur
      /\ \A k \in 1 .. at : q[k] = path[k]
  <2>1. /\ Core(f, Append(path, cur), y)' /\ Append(path, cur)[at + 1] = cur
        /\ \A k \in 1 .. at : Append(path, cur)[k] = path[k]
    BY <1>1, <1>3, EnterTo
  <2> QED BY <1>5, <2>1
<1>7. cur \notin BlocksIn(f)
  BY <1>1, BlockIs
<1>8. HeardPlaces' = PlacesBefore(f, y)
  <2>1. PlacesBefore(f, y) = PlacesBefore(f, cur)
    BY <1>1, <1>4, <1>7, NothingBetween
  <2>2. HeardPlaces' = HeardPlaces
    BY Zenon DEF HeardPlaces
  <2> QED BY <1>1, <2>1, <2>2
<1>9. phase' = p /\ phase' \in Looping
  BY DEF Continue, Looping
<1>10. IdOf(f, q[3]) = Matroska_Cluster
  <2>1. CASE p = "timestamp"
    <3>1. at = 2 /\ at + 1 = 3
      BY <2>1
    <3> QED BY <1>6, <2>1, <3>1, Zenon
  <2>2. CASE p = "group"
    <3>1. 3 \in 1 .. at /\ phase # "content"
      BY <1>1, <2>2
    <3> QED BY <1>1, <1>6, <3>1, Zenon
  <2> QED BY <2>1, <2>2
<1>11. ASSUME p = "timestamp" PROVE Timed(f, q[3], y)
  <2>1. at = 2 /\ at + 1 = 3 /\ IdOf(f, cur) = Matroska_Cluster
    BY <1>11
  <2>2. q[3] = cur /\ path[at] = Segment(f)
    BY <1>1, <1>6, <2>1
  <2>3. cur \in InWith(f, Segment(f), Matroska_Cluster)
    BY <1>2, <2>1, <2>2, Zenon DEF InWith
  <2>4. PICK t \in InWith(f, cur, Matroska_Timestamp) :
          /\ LenAt(f.bytes, t) \in 1 .. 8
          /\ \A c \in In(f, cur) :
               IdOf(f, c) \in {Matroska_Timestamp, Matroska_SimpleBlock,
                               Matroska_BlockGroup} => t <= c
    BY <1>1, <2>3, Zenon DEF WellFormed
  <2>5. t \in In(f, cur)
    BY Zenon DEF InWith
  <2>6. t \in Elements(f) /\ cur < t
    <3>1. t \in Elements(f) /\ (cur = Top \/ cur < t)
      BY <1>1, <2>5, WithinIs
    <3>2. cur # Top
      BY <1>1 DEF Top
    <3> QED BY <3>1, <3>2
  <2>7. y <= t
    <3>1. t \in Nat
      BY <1>1, <2>6, ElementIs
    <3>2. t >= y
      BY <1>1, <1>4, <2>6, <3>1 DEF Adjoins
    <3> QED BY <1>4, <3>1, <3>2
  <2>8. Timed(f, cur, y)
    BY <2>4, <2>7, Zenon DEF Timed
  <2> QED BY <2>2, <2>8
<1> QED BY <1>4, <1>6, <1>8, <1>9, <1>10, <1>11, ContentOnward

LEMMA ReadContentOn ==
  ASSUME Inv, NEW f, Reads(f), NEW path, NEW cur, Following(f, path, cur),
         ReadContent
  PROVE  OnTrack(f)'
<1>1. /\ NothingRead /\ Blocks' = Blocks /\ phase = "content"
      /\ dec' = dec /\ satrack' = satrack
  BY Zenon DEF ReadContent, headerVars
<1>2. bytes' = bytes /\ file' = file
  BY <1>1, Zenon DEF NothingRead
<1>3. /\ Buffer /\ Chain /\ Core(f, path, cur) /\ Shape(f, path, cur)
      /\ cur \in Nat
  BY Zenon DEF Inv, Decoder, Following, Shape
<1>4. f.bytes \in Seq(Byte) /\ WellFormed(f) /\ Tiled(f)
  BY <1>3, ReadsIs
<1>5. phase \notin InHeader /\ phase \in Looping
  BY <1>1 DEF InHeader, Looping
<1>6. dec \in 1 .. 2 /\ Place(phase, at, dec)
  BY LoopsIs, Zenon DEF Inv
<1>7. step = "error" => err = "EOF" /\ cur = End(f, path[at])
  BY <1>3, Zenon DEF Core, Here
<1>8. CASE step = "error"
  <2>1. phase' = "EOF"
    <3>1. Stop(IF err = "EOF" THEN "EOF" ELSE "failed")
      BY <1>8, Zenon DEF ReadContent, Found, Other
    <3> QED BY <1>7, <1>8, <3>1, Zenon DEF Stop
  <2>2. phase' \in Ends
    BY <2>1 DEF Ends
  <2>3. ASSUME Headed(f) PROVE HeardPlaces = Places(f)
    <3>1. dec # 1
      BY <1>5, <2>3, Zenon DEF Following, Heading
    <3>2. dec = 2
      BY <1>6, <3>1
    <3>3. /\ at = 2 /\ path[2] = Segment(f)
          /\ HeardPlaces = PlacesBefore(f, cur)
      BY <1>1, <1>5, <3>2, ContentIn
    <3>4. cur = End(f, Segment(f))
      BY <1>7, <1>8, <3>3, Zenon
    <3> QED BY <1>4, <3>3, <3>4, AllBefore
  <2> QED BY <1>1, <1>2, <1>5, <2>1, <2>2, <2>3, ContentStops
<1>9. CASE step # "error"
  <2>1. /\ step = "element"
        /\ \/ id = Matroska_Cluster /\ Continue("timestamp", dec + 1)
           \/ id # Matroska_Cluster /\ Continue("content", dec)
    BY <1>9, Zenon DEF ReadContent, Found, Other
  <2>2. cur \in Elements(f) /\ cur \in In(f, path[at]) /\ id = IdOf(f, cur)
    BY <1>3, <2>1, FoundHere
  <2>3. dec = 2
    <3> SUFFICES ASSUME dec = 1 PROVE FALSE
      BY <1>6
    <3>1. cur = Len(f.bytes)
      BY <1>1, <1>3, Zenon DEF Shape
    <3>2. cur < Len(f.bytes) /\ Len(f.bytes) \in Nat
      BY <1>3, <1>4, <2>2, ElementIs, ReadsIs
    <3> QED BY <3>1, <3>2
  <2>4. at = 2 /\ path[2] = Segment(f) /\ HeardPlaces = PlacesBefore(f, cur)
    BY <1>1, <1>5, <2>3, ContentIn
  <2>5. cur \in In(f, Segment(f)) /\ f.within[cur] = Segment(f)
    BY <2>2, <2>4, Zenon DEF In
  <2>6. CASE id = Matroska_Cluster
    <3>1. Continue("timestamp", at + 1)
      BY <2>1, <2>3, <2>4, <2>6
    <3>2. Opens(f, cur)
      <4>1. IdOf(f, Segment(f)) = Matroska_Segment
        BY <1>4, SegmentIs
      <4>2. Matroska_Cluster \in Entered(Matroska_Segment)
        BY EnteredWhere
      <4> QED BY <2>2, <2>5, <2>6, <4>1, <4>2, Zenon DEF Opens
    <3>3. "timestamp" \in {"timestamp", "group"} /\ "timestamp" # "group"
      OBVIOUS
    <3> QED BY <1>1, <1>5, <2>1, <2>2, <2>3, <2>4, <2>6, <3>1, <3>2, <3>3,
               ContentEnters
  <2>7. CASE id # Matroska_Cluster
    <3>1. Continue(phase, at)
      BY <1>1, <2>1, <2>3, <2>4, <2>7
    <3>2. ASSUME NEW y \in NextIn(f, path[at], End(f, cur))
          PROVE  PlacesBefore(f, y) = PlacesBefore(f, cur)
      <4>1. End(f, path[at]) \in Nat /\ End(f, cur) \in Nat
        BY <1>3, <2>1, ReaderHere, FoundHere
      <4>2. y \in Nat /\ cur < y
            /\ \A x \in Elements(f) : x >= End(f, cur) => x >= y
        BY <1>4, <2>2, <4>1, NextAfter
      <4>3. ASSUME NEW x \in BlocksIn(f), cur <= x
            PROVE  y <= x
        <5>1. x \in Elements(f) /\ x \in Nat
          BY <1>4, BlockIs
        <5>2. x # cur
          <6>1. IdOf(f, f.within[x]) \in {Matroska_Cluster, Matroska_BlockGroup}
            BY BlockWhere
          <6>2. IdOf(f, f.within[cur]) = Matroska_Segment
            BY <1>4, <2>5, SegmentIs
          <6>3. /\ Matroska_Segment # Matroska_Cluster
                /\ Matroska_Segment # Matroska_BlockGroup
            BY DEF Matroska_Segment, Matroska_Cluster, Matroska_BlockGroup
          <6> QED BY <6>1, <6>2, <6>3
        <5>3. x > cur
          BY <1>3, <4>3, <5>1, <5>2
        <5>4. x >= End(f, cur)
          BY <1>4, <2>2, <2>5, <2>7, <5>3, NoBlockIn
        <5>5. x >= y
          BY <4>2, <5>1, <5>4
        <5> QED BY <4>2, <5>1, <5>5
      <4> QED BY <1>3, <1>4, <4>2, <4>3, SameBefore
    <3>3. phase # "timestamp"
      BY <1>1
    <3> QED BY <1>1, <1>5, <2>1, <2>3, <3>1, <3>2, <3>3, ContentLeaves
  <2> QED BY <2>6, <2>7
<1> QED BY <1>8, <1>9

\* In a cluster, an element that is neither looked into nor a block is left.
LEMMA ClusterLeaves ==
  ASSUME Inv, NEW f, Reads(f), NEW path, NEW cur, Following(f, path, cur),
         phase \in Looping, dec = 2, dec' = dec, satrack' = satrack,
         step = "element", NothingRead, Blocks' = Blocks, Continue(phase, at),
         ~Opens(f, cur), cur \notin BlocksIn(f),
         phase = "timestamp" => id # Matroska_Timestamp
  PROVE  OnTrack(f)'
<1>1. /\ Buffer /\ Chain /\ Core(f, path, cur) /\ cur \in Nat
      /\ f.bytes \in Seq(Byte) /\ Tiled(f) /\ WellFormed(f)
      /\ phase = "timestamp" => at = 3
  BY ContentIn
<1>2. /\ cur \in Elements(f) /\ cur \in In(f, path[at]) /\ id = IdOf(f, cur)
      /\ End(f, path[at]) \in Nat
  BY <1>1, FoundHere, ReaderHere
<1>3. ASSUME NEW y \in NextIn(f, path[at], End(f, cur))
      PROVE  y \in Nat /\ cur < y /\ Adjoins(f, cur, y)
  BY <1>1, <1>2, NextAfter
<1>4. ASSUME NEW y \in NextIn(f, path[at], End(f, cur))
      PROVE  PlacesBefore(f, y) = PlacesBefore(f, cur)
  BY <1>1, <1>3, NothingBetween
<1>5. ASSUME NEW y \in NextIn(f, path[at], End(f, cur)), phase = "timestamp"
      PROVE  Timed(f, path[3], y)
  <2>1. PICK t \in InWith(f, path[3], Matroska_Timestamp) :
          /\ LenAt(f.bytes, t) \in 1 .. 8 /\ cur <= t
          /\ \A c \in In(f, path[3]) :
               IdOf(f, c) \in {Matroska_Timestamp, Matroska_SimpleBlock,
                               Matroska_BlockGroup} => t <= c
    BY <1>5, Zenon DEF Following, Shape, Timed
  <2>2. t \in In(f, path[3]) /\ IdOf(f, t) = Matroska_Timestamp
    BY Zenon DEF InWith
  <2>3. t \in Elements(f) /\ t \in Nat
    BY <1>1, <2>2, WithinIs, ElementIs
  <2>4. t # cur
    BY <1>2, <1>5, <2>2
  <2>5. t > cur
    BY <1>1, <2>1, <2>3, <2>4
  <2>6. y \in Nat /\ Adjoins(f, cur, y)
    BY <1>3
  <2>7. t >= y
    BY <2>3, <2>5, <2>6, Zenon DEF Adjoins
  <2>8. y <= t
    BY <2>3, <2>6, <2>7
  <2> QED BY <2>1, <2>8, Zenon DEF Timed
<1> QED BY <1>4, <1>5, ContentLeaves

LEMMA NoTimestampOn ==
  ASSUME Inv, NEW f, Reads(f), NEW path, NEW cur, Following(f, path, cur),
         NoTimestamp
  PROVE  OnTrack(f)'
<1>1. /\ NothingRead /\ Blocks' = Blocks /\ phase = "timestamp"
      /\ dec' = dec /\ satrack' = satrack
  BY Zenon DEF NoTimestamp, headerVars
<1>2. phase \in Looping /\ phase # "content"
  BY <1>1 DEF Looping
<1>3. dec = 2 /\ Timed(f, path[3], cur)
  BY <1>1, Zenon DEF Following, Shape
<1>4. /\ Buffer /\ Chain /\ Core(f, path, cur) /\ cur \in Nat
      /\ f.bytes \in Seq(Byte) /\ Tiled(f) /\ WellFormed(f)
      /\ at = 3 /\ IdOf(f, path[3]) = Matroska_Cluster
      /\ path[3] \in Elements(f)
  BY <1>1, <1>2, <1>3, ContentIn
<1>5. PICK t \in InWith(f, path[3], Matroska_Timestamp) :
        /\ cur <= t
        /\ \A c \in In(f, path[3]) :
             IdOf(f, c) \in {Matroska_Timestamp, Matroska_SimpleBlock,
                             Matroska_BlockGroup} => t <= c
  BY <1>3, Zenon DEF Timed
<1>6. t \in In(f, path[3]) /\ IdOf(f, t) = Matroska_Timestamp
  BY Zenon DEF InWith
<1>7. t \in Elements(f) /\ t \in Nat
  BY <1>4, <1>6, WithinIs, ElementIs
<1>8. step # "error"
  <2> SUFFICES ASSUME step = "error" PROVE FALSE
    OBVIOUS
  <2>1. cur = End(f, path[3])
    BY <1>4, Zenon DEF Core, Here
  <2>2. End(f, path[3]) \in Nat
    BY <1>4, ElementIs
  <2>3. t \in Borders(f, path[3])
    BY <1>6, Zenon DEF Borders
  <2>4. t < End(f, path[3])
    BY <1>4, <1>6, <2>2, <2>3, BorderIs
  <2> QED BY <1>5, <1>7, <2>1, <2>2, <2>4
<1>9. /\ step = "element" /\ id # Matroska_Timestamp
      /\ Continue("timestamp", at)
  BY <1>8, Zenon DEF NoTimestamp, Other
<1>10. /\ cur \in In(f, path[3]) /\ id = IdOf(f, cur) /\ f.within[cur] = path[3]
  <2>1. cur \in In(f, path[at]) /\ id = IdOf(f, cur)
    BY <1>4, <1>9, FoundHere
  <2> QED BY <1>4, <2>1, Zenon DEF In
<1>11. id \notin {Matroska_SimpleBlock, Matroska_BlockGroup}
  <2> SUFFICES ASSUME id \in {Matroska_SimpleBlock, Matroska_BlockGroup}
               PROVE  FALSE
    OBVIOUS
  <2>1. t <= cur
    BY <1>5, <1>10
  <2>2. t = cur
    BY <1>4, <1>5, <1>7, <2>1
  <2> QED BY <1>6, <1>9, <1>10, <2>2
<1>12. ~Opens(f, cur)
  BY <1>4, <1>10, <1>11, EnteredWhere, Zenon DEF Opens
<1>13. cur \notin BlocksIn(f)
  BY <1>4, <1>10, <1>11, BlockWhere, Zenon
<1>14. Continue(phase, at)
  BY <1>1, <1>9
<1> QED BY <1>1, <1>2, <1>3, <1>9, <1>12, <1>13, <1>14, ClusterLeaves

LEMMA EndOfClusterOn ==
  ASSUME Inv, NEW f, Reads(f), NEW path, NEW cur, Following(f, path, cur),
         EndOfCluster
  PROVE  OnTrack(f)'
<1>1. /\ NothingRead /\ Blocks' = Blocks /\ phase \in {"blocks", "group"}
      /\ dec' = dec /\ satrack' = satrack /\ step = "error"
  BY Zenon DEF EndOfCluster, headerVars
<1>2. phase \in Looping /\ phase # "content"
  BY <1>1 DEF Looping
<1>3. dec = 2
  BY <1>1, Zenon DEF Following, Shape
<1>4. /\ Buffer /\ Chain /\ Core(f, path, cur) /\ cur \in Nat
      /\ f.bytes \in Seq(Byte) /\ Tiled(f) /\ WellFormed(f)
      /\ phase = "blocks" => at = 3
      /\ phase = "group" => at = 4
      /\ IdOf(f, path[3]) = Matroska_Cluster
      /\ HeardPlaces = PlacesBefore(f, cur)
  BY <1>2, <1>3, ContentIn
<1>5. err = "EOF" /\ cur = End(f, path[at])
  BY <1>1, <1>4, Zenon DEF Core, Here
<1>6. at \in Nat /\ at >= 3 /\ at - 1 \in Nat
  BY <1>1, <1>4
<1>7. PICK p : /\ Continue(p, at - 1) /\ p \in {"content", "blocks"}
               /\ p = "blocks" => at = 4
  <2>1. \/ phase = "blocks" /\ Continue("content", dec)
        \/ phase = "group" /\ Continue("blocks", at - 1)
    BY <1>5, Zenon DEF EndOfCluster
  <2>2. phase = "blocks" => dec = at - 1
    BY <1>3, <1>4
  <2>3. CASE phase = "blocks" /\ Continue("content", dec)
    BY <2>2, <2>3
  <2>4. CASE phase = "group" /\ Continue("blocks", at - 1)
    BY <1>4, <2>4
  <2> QED BY <2>1, <2>3, <2>4
<1>8. PathIn(f, path) /\ Len(path) = at
  BY <1>4, Zenon DEF Core, Along
<1>9. /\ path[at] \in In(f, path[at - 1]) /\ End(f, path[at - 1]) \in Nat
      /\ End(f, path[at]) \in Nat
  <2>1. at \in 1 .. Len(path) /\ at - 1 \in 1 .. Len(path) /\ at >= 2
    BY <1>6, <1>8
  <2> QED BY <1>4, <1>8, <2>1, PathIs
<1>10. PICK y : y \in NextIn(f, path[at - 1], cur)
  BY <1>4, <1>5, <1>9, NextAfter
<1>11. y \in Nat
  BY <1>4, <1>5, <1>9, <1>10, NextAfter
<1>12. PICK q \in Seq(Int) :
         /\ Core(f, q, y)' /\ Len(q) = at - 1
         /\ \A k \in 1 .. at - 1 : q[k] = path[k]
  <2>1. Continue(p, at - 1)
    BY <1>7
  <2>2. NothingRead /\ step = "error" /\ Buffer /\ Chain /\ Core(f, path, cur)
    BY <1>1, <1>4
  <2>3. at >= 3
    BY <1>6
  <2> QED BY <1>10, <2>1, <2>2, <2>3, BackTo, SMTT(40)
<1>13. PlacesBefore(f, y) = PlacesBefore(f, cur)
  BY <1>4, <1>10, <1>11, NothingTo
<1>14. HeardPlaces' = PlacesBefore(f, y)
  BY <1>1, <1>4, <1>13, Zenon DEF HeardPlaces
<1>15. phase' = p /\ phase' \in Looping /\ phase' # "timestamp"
  BY <1>7 DEF Continue, Looping
<1>16. phase' # "content" => IdOf(f, q[3]) = Matroska_Cluster
  <2> SUFFICES ASSUME phase' # "content" PROVE q[3] = path[3]
    BY <1>4
  <2>1. at = 4
    BY <1>7, <1>15
  <2>2. 3 \in 1 .. at - 1
    BY <2>1
  <2> QED BY <1>12, <2>2
<1> QED BY <1>1, <1>3, <1>11, <1>12, <1>14, <1>15, <1>16, ContentOnward

LEMMA InClusterOn ==
  ASSUME Inv, NEW f, Reads(f), NEW path, NEW cur, Following(f, path, cur),
         InCluster
  PROVE  OnTrack(f)'
<1>1. /\ NothingRead /\ Blocks' = Blocks /\ phase \in {"blocks", "group"}
      /\ dec' = dec /\ satrack' = satrack /\ step = "element"
  BY Zenon DEF InCluster, headerVars, Found, Other
<1>2. phase \in Looping /\ phase # "content"
  BY <1>1 DEF Looping
<1>3. dec = 2
  BY <1>1, Zenon DEF Following, Shape
<1>4. /\ Buffer /\ Chain /\ Core(f, path, cur)
      /\ phase = "blocks" => at = 3
      /\ phase = "group" => at = 4
      /\ phase = "group" => IdOf(f, path[4]) = Matroska_BlockGroup
      /\ IdOf(f, path[3]) = Matroska_Cluster
  BY <1>2, <1>3, ContentIn
<1>5. id = IdOf(f, cur) /\ f.within[cur] = path[at]
  <2>1. cur \in In(f, path[at]) /\ id = IdOf(f, cur)
    BY <1>1, <1>4, FoundHere
  <2> QED BY <2>1, Zenon DEF In
<1>6. CASE phase = "blocks" /\ id = Matroska_BlockGroup
  <2>1. at = 3 /\ f.within[cur] = path[3]
    BY <1>4, <1>5, <1>6, Zenon
  <2>2. Opens(f, cur)
    BY <1>4, <1>5, <1>6, <2>1, EnteredWhere, Zenon DEF Opens
  <2>3. Continue("group", at + 1)
    <3>1. phase # "group"
      BY <1>6
    <3> QED BY <1>6, <3>1, Zenon DEF InCluster, Other
  <2>4. "group" \in {"timestamp", "group"} /\ "group" # "timestamp"
    OBVIOUS
  <2> QED BY <1>1, <1>2, <1>3, <2>1, <2>2, <2>3, <2>4, ContentEnters
<1>7. CASE phase = "blocks" /\ id # Matroska_BlockGroup
  <2>1. at = 3 /\ f.within[cur] = path[3] /\ phase # "group"
    BY <1>4, <1>5, <1>7
  <2>2. id # Matroska_SimpleBlock /\ Continue(phase, at)
    BY <1>7, <2>1, Zenon DEF InCluster, Found, Other
  <2>3. ~Opens(f, cur)
    BY <1>4, <1>5, <1>7, <2>1, EnteredWhere, Zenon DEF Opens
  <2>4. cur \notin BlocksIn(f)
    BY <1>4, <1>5, <2>1, <2>2, BlockWhere, Zenon
  <2>5. phase # "timestamp"
    BY <1>1
  <2> QED BY <1>1, <1>2, <1>3, <2>2, <2>3, <2>4, <2>5, ClusterLeaves
<1>8. CASE phase = "group"
  <2>1. at = 4 /\ f.within[cur] = path[4] /\ phase # "blocks"
    BY <1>4, <1>5, <1>8
  <2>2. id # Matroska_Block /\ Continue(phase, at)
    BY <1>8, <2>1, Zenon DEF InCluster, Other
  <2>3. ~Opens(f, cur)
    BY <1>4, <1>5, <1>8, <2>1, EnteredWhere, Zenon DEF Opens
  <2>4. cur \notin BlocksIn(f)
    BY <1>4, <1>5, <1>8, <2>1, <2>2, BlockWhere, Zenon
  <2>5. phase # "timestamp"
    BY <1>1
  <2> QED BY <1>1, <1>2, <1>3, <2>2, <2>3, <2>4, <2>5, ClusterLeaves
<1> QED BY <1>1, <1>6, <1>7, <1>8

-----------------------------------------------------------------------------
(* Values.                                                                  *)

\* A value is read, is refused or empty, or the source ends in it.
Taken(o, n) ==
  o.err = "none" /\ o.off = off + n /\ o.src = o.off + Len(o.buffered)
Refused(o, n, lengths) ==
  /\ o.err \notin {"none", "too small"} /\ Stays(o)
  /\ \/ n \notin lengths /\ o.err = "format"
     \/ n = 0 /\ o.err # "format"
Missing(o, n) ==
  /\ o.err \notin {"none", "too small", "format"}
  /\ Len(bytes) < off + n /\ o.src = Len(bytes)
  /\ o.buffered = buffered /\ o.off = off

LEMMA ValueOutcome ==
  ASSUME Buffer, src = off + Len(buffered), NEW lengths, elem.len \in Nat,
         elem.len \in lengths => elem.len <= BufferSize,
         NEW o \in ReadValue(lengths)
  PROVE  \/ elem.len \in lengths /\ elem.len # 0 /\ Taken(o, elem.len)
         \/ Refused(o, elem.len, lengths)
         \/ elem.len \in lengths /\ elem.len # 0 /\ Missing(o, elem.len)
<1>1. PICK n \in Nat : n = elem.len
  OBVIOUS
<1>2. CASE n \notin lengths
  <2>1. o = Outcome("format", src, buffered, off, <<>>)
    BY <1>1, <1>2 DEF ReadValue
  <2>2. o.err = "format" /\ Stays(o)
    BY <2>1, FieldsOf DEF Stays
  <2>3. o.err \notin {"none", "too small"}
    BY <2>2
  <2>4. Refused(o, n, lengths)
    BY <1>2, <2>2, <2>3, Zenon DEF Refused
  <2> QED BY <1>1, <2>4
<1>3. CASE n \in lengths /\ n = 0
  <2>1. o \in next(elem, elem.len)
    BY <1>1, <1>3 DEF ReadValue
  <2>2. o = Outcome("EOF", src, buffered, off, <<>>)
    BY <1>1, <1>3, <2>1, Zenon DEF next
  <2>3. o.err = "EOF" /\ Stays(o)
    BY <2>2, FieldsOf DEF Stays
  <2>4. o.err \notin {"none", "too small"} /\ o.err # "format"
    BY <2>3
  <2>5. Refused(o, n, lengths)
    BY <1>3, <2>3, <2>4, Zenon DEF Refused
  <2> QED BY <1>1, <2>5
<1>4. CASE n \in lengths /\ n # 0
  <2>1. o \in next(elem, elem.len)
    BY <1>1, <1>4 DEF ReadValue
  <2>2. o \in Next(n) /\ n <= BufferSize /\ BufferSize \in Nat
    <3>1. elem.len # 0 /\ ~(elem.len < elem.len)
      BY <1>1, <1>4
    <3>2. o \in Next(elem.len)
      BY <2>1, <3>1, Zenon DEF next
    <3> QED BY <1>1, <1>4, <3>2, BufferSizeAssumption
  <2>3. n \in 0 .. BufferSize
    BY <2>2
  <2>4. CASE o.err = "none"
    <3>1. Leaves(o, n) /\ Steady(o)
      BY <2>2, NextLeaves, NextSteady
    <3>2. /\ o.off = off + n
          /\ o.off + Len(o.buffered) + src = off + Len(buffered) + o.src
          /\ o.src \in src .. Len(bytes) /\ o.buffered \in Seq(Byte)
      BY <2>4, <3>1, Zenon DEF Leaves, Steady
    <3>3. o.src = o.off + Len(o.buffered)
      <4>1. /\ off \in Nat /\ src \in Nat /\ Len(buffered) \in Nat
            /\ Len(bytes) \in Nat /\ Len(o.buffered) \in Nat
        BY <3>2, Numbers, LenProperties
      <4>2. PICK a, l, s : a = o.off /\ l = Len(o.buffered) /\ s = o.src
        OBVIOUS
      <4>3. a \in Nat /\ l \in Nat /\ s \in Int
        BY <3>2, <4>1, <4>2
      <4>4. a + l + src = off + Len(buffered) + s
        BY <3>2, <4>2
      <4>5. s = a + l
        BY <4>1, <4>3, <4>4
      <4> QED BY <4>2, <4>5
    <3> QED BY <1>1, <1>4, <2>4, <3>2, <3>3, Zenon DEF Taken
  <2>5. CASE o.err # "none"
    <3>1. /\ Len(bytes) < off + n /\ o.off = off /\ o.src = Len(bytes)
          /\ o.buffered = buffered
          /\ o.err = IF Left = 0 THEN "EOF" ELSE "unexpected"
      BY <2>2, <2>3, <2>5, NextFails
    <3>2. o.err \notin {"none", "too small", "format"}
      BY <3>1
    <3> QED BY <1>1, <1>4, <3>1, <3>2, Zenon DEF Missing
  <2> QED BY <2>4, <2>5
<1> QED BY <1>2, <1>3, <1>4

\* What it leaves.
LEMMA ValueLeft ==
  ASSUME Buffer, Chain, NEW f, Reads(f), NEW path, NEW cur, Core(f, path, cur),
         step = "element", elem.len # Unknown, NEW lengths,
         elem.len \in lengths => elem.len <= BufferSize,
         NEW o \in ReadValue(lengths), ReadsValue(o)
  PROVE  /\ elem.len \in Nat /\ bytes' = bytes /\ file' = file
         /\ readers' \in Seq(Readers) /\ Len(readers') = Len(readers)
         /\ \A k \in 1 .. at : readers'[k] = readers[k]
         /\ readers'[at + 1].end = elem.end
         /\ \/ /\ elem.len \in lengths /\ elem.len # 0 /\ Taken(o, elem.len)
               /\ off' \in Nat /\ src' = off' + Len(buffered')
               /\ Ending(readers', off')
            \/ /\ Refused(o, elem.len, lengths)
               /\ off' \in Nat /\ src' = off' + Len(buffered')
               /\ Ending(readers', off')
            \/ /\ elem.len \in lengths /\ elem.len # 0 /\ Missing(o, elem.len)
               /\ off' = off /\ src' = Len(bytes) /\ buffered' = buffered
<1>1. PICK k \in Nat : k = at + 1
  BY ReaderHere
<1>2. /\ Len(readers) = k /\ k \in 1 .. k /\ elem = readers[k] /\ k >= 1
      /\ readers \in Seq(Readers) /\ elem.len \in Nat
      /\ elem.end # Unknown /\ off + elem.len = elem.end
  <2>1. /\ Len(readers) = at + 1 /\ elem = readers[at + 1]
        /\ elem.len \in Nat /\ elem.end # Unknown /\ elem.end = End(f, cur)
        /\ off + elem.len = End(f, cur)
    BY FoundHere
  <2>2. readers \in Seq(Readers)
    BY DEF Chain
  <2>3. at \in Nat /\ at >= 1
    BY ReaderHere
  <2> QED BY <1>1, <2>1, <2>2, <2>3
<1>3. /\ src = off + Len(buffered) /\ Ending(readers, off) /\ off \in Nat
  BY ReaderHere
<1>4. PICK n \in Nat : n = elem.len
  BY <1>2
<1>5. /\ elem \in Readers /\ Used(elem, n) \in Readers
      /\ Used(elem, n).end = elem.end /\ Used(elem, n).len = 0
  <2>1. elem \in Readers
    BY <1>2, ReaderIs
  <2>2. /\ Used(elem, n) \in Readers /\ Used(elem, n).end = elem.end
        /\ Used(elem, n).len =
             IF elem.len >= n THEN elem.len - n ELSE elem.len
    BY <2>1, UsedIs
  <2>3. elem.len >= n /\ elem.len - n = 0
    BY <1>4
  <2> QED BY <2>1, <2>2, <2>3, Zenon
<1>6. \/ elem.len \in lengths /\ elem.len # 0 /\ Taken(o, elem.len)
      \/ Refused(o, elem.len, lengths)
      \/ elem.len \in lengths /\ elem.len # 0 /\ Missing(o, elem.len)
  BY <1>2, <1>3, ValueOutcome
<1>7. o.err # "too small"
  BY <1>6, Zenon DEF Taken, Refused, Missing
<1>8. /\ Takes(o) /\ bytes' = bytes /\ file' = file
      /\ readers' = [readers EXCEPT ![k] =
                       IF o.err = "format" THEN elem ELSE Used(elem, n)]
  <2>1. /\ Takes(o) /\ bytes' = bytes /\ file' = file
        /\ readers' = [readers EXCEPT ![Len(readers)] =
                         IF o.err = "format" THEN elem
                         ELSE Used(elem, elem.len)]
    BY <1>7, Zenon DEF ReadsValue, elem
  <2> QED BY <1>2, <1>4, <2>1
<1>9. src' = o.src /\ buffered' = o.buffered /\ off' = o.off
  BY <1>8 DEF Takes
<1>10. PICK r : r = IF o.err = "format" THEN elem ELSE Used(elem, n)
  OBVIOUS
<1>11. r \in Readers /\ r.end = elem.end
  BY <1>5, <1>10
<1>12. readers' = [readers EXCEPT ![k] = r]
  BY <1>8, <1>10, Zenon
<1>13. /\ readers' \in Seq(Readers) /\ Len(readers') = k /\ readers'[k] = r
       /\ \A i \in 1 .. k : i # k => readers'[i] = readers[i]
  BY <1>2, <1>11, <1>12, Replaced
<1>14. /\ Len(readers') = Len(readers) /\ readers'[at + 1].end = elem.end
       /\ \A i \in 1 .. at : readers'[i] = readers[i]
  <2>1. \A i \in 1 .. at : i \in 1 .. k /\ i # k
    BY <1>1, ReaderHere
  <2> QED BY <1>1, <1>2, <1>11, <1>13, <2>1
<1>15. ASSUME off' \in Nat, off + elem.len = off' + r.len
       PROVE  Ending(readers', off')
  <2>1. /\ off \in Int /\ off' \in Int /\ r.end = readers[k].end
        /\ r.end # Unknown => off + readers[k].len = off' + r.len
    BY <1>2, <1>3, <1>11, <1>15
  <2>2. k = Len(readers)
    BY <1>2
  <2> QED BY <1>2, <1>3, <1>11, <1>12, <2>1, <2>2, ReadOfLast
<1>16. CASE elem.len \in lengths /\ elem.len # 0 /\ Taken(o, elem.len)
  <2>1. o.err = "none" /\ off' = off + n /\ src' = off' + Len(buffered')
    BY <1>4, <1>9, <1>16, Zenon DEF Taken
  <2>2. r.len = 0
    BY <1>5, <1>10, <2>1
  <2>3. off' \in Nat /\ off + elem.len = off' + r.len
    <3>1. off' = off + n
      BY <2>1
    <3> QED BY <1>3, <1>4, <2>2, <3>1
  <2>4. Ending(readers', off')
    BY <1>15, <2>3
  <2> QED BY <1>2, <1>8, <1>13, <1>14, <1>16, <2>1, <2>3, <2>4
<1>17. CASE Refused(o, elem.len, lengths)
  <2>1. /\ off' = off /\ src' = src /\ buffered' = buffered
        /\ o.err = "format" \/ (elem.len = 0 /\ o.err # "format")
    BY <1>9, <1>17, Zenon DEF Refused, Stays
  <2>2. r.len = elem.len
    BY <1>5, <1>10, <2>1
  <2>3. off' \in Nat /\ off + elem.len = off' + r.len
        /\ src' = off' + Len(buffered')
    <3>1. off' = off /\ src' = src /\ buffered' = buffered
      BY <2>1
    <3> QED BY <1>3, <2>2, <3>1
  <2>4. Ending(readers', off')
    BY <1>15, <2>3
  <2> QED BY <1>2, <1>8, <1>13, <1>14, <1>17, <2>3, <2>4
<1>18. CASE elem.len \in lengths /\ elem.len # 0 /\ Missing(o, elem.len)
  <2>1. off' = off /\ src' = Len(bytes) /\ buffered' = buffered
    BY <1>9, <1>18, Zenon DEF Missing
  <2> QED BY <1>2, <1>8, <1>13, <1>14, <1>18, <2>1
<1> QED BY <1>6, <1>16, <1>17, <1>18

\* An element that is not looked into and is no block was read and is left.
LEMMA ContentReads ==
  ASSUME Inv, NEW f, Reads(f), NEW path, NEW cur, Following(f, path, cur),
         phase \in Looping, dec = 2, dec' = dec, satrack' = satrack,
         step = "element", NEW p \in {"blocks", "group"}, Continue(p, at),
         phase # "content",
         readers' \in Seq(Readers), Len(readers') = Len(readers),
         \A k \in 1 .. at : readers'[k] = readers[k],
         readers'[at + 1].end = elem.end,
         off' \in Nat, src' = off' + Len(buffered'), Ending(readers', off'),
         \A y \in NextIn(f, path[at], End(f, cur)) :
           y \in Nat => HeardPlaces' = PlacesBefore(f, y)
  PROVE  OnTrack(f)'
<1>1. /\ Buffer /\ Chain /\ Core(f, path, cur) /\ cur \in Nat
      /\ f.bytes \in Seq(Byte) /\ Tiled(f) /\ at >= 2
      /\ IdOf(f, path[3]) = Matroska_Cluster
  BY ContentIn
<1>2. elem.len # Unknown
  BY <1>1, InSegment
<1>3. cur \in In(f, path[at]) /\ End(f, path[at]) \in Nat
  BY <1>1, FoundHere, ReaderHere
<1>4. PICK y : y \in NextIn(f, path[at], End(f, cur))
  BY <1>1, <1>3, NextAfter
<1>5. y \in Nat
  BY <1>1, <1>3, <1>4, NextAfter
<1>6. Core(f, path, y)'
  BY <1>1, <1>2, <1>4, LeaveTo
<1>7. HeardPlaces' = PlacesBefore(f, y)
  BY <1>4, <1>5
<1>8. phase' = p /\ phase' \in Looping /\ phase' # "timestamp"
  BY DEF Continue, Looping
<1> QED BY <1>1, <1>5, <1>6, <1>7, <1>8, ContentOnward

LEMMA ReadTimestampOn ==
  ASSUME Inv, NEW f, Reads(f), NEW path, NEW cur, Following(f, path, cur),
         ReadTimestamp
  PROVE  OnTrack(f)'
<1>1. /\ Blocks' = Blocks /\ phase = "timestamp" /\ step = "element"
      /\ id = Matroska_Timestamp /\ dec' = dec /\ satrack' = satrack
  BY Zenon DEF ReadTimestamp, headerVars, Found
<1>2. phase \in Looping /\ phase # "content"
  BY <1>1 DEF Looping
<1>3. dec = 2 /\ Timed(f, path[3], cur)
  BY <1>1, Zenon DEF Following, Shape
<1>4. /\ Buffer /\ Chain /\ Core(f, path, cur) /\ cur \in Nat
      /\ f.bytes \in Seq(Byte) /\ Tiled(f) /\ WellFormed(f) /\ at >= 2
      /\ at = 3 /\ HeardPlaces = PlacesBefore(f, cur)
  BY <1>1, <1>2, <1>3, ContentIn
<1>5. /\ cur \in In(f, path[3]) /\ cur \in Elements(f) /\ id = IdOf(f, cur)
      /\ elem.len = LenAt(f.bytes, cur) /\ End(f, path[at]) \in Nat
  <2>1. /\ cur \in In(f, path[at]) /\ cur \in Elements(f) /\ id = IdOf(f, cur)
        /\ elem.len = LenAt(f.bytes, cur)
    BY <1>1, <1>4, FoundHere
  <2> QED BY <1>4, <2>1, ReaderHere
<1>6. elem.len \in 1 .. 8
  <2>1. PICK t \in InWith(f, path[3], Matroska_Timestamp) :
          /\ LenAt(f.bytes, t) \in 1 .. 8 /\ cur <= t
          /\ \A c \in In(f, path[3]) :
               IdOf(f, c) \in {Matroska_Timestamp, Matroska_SimpleBlock,
                               Matroska_BlockGroup} => t <= c
    BY <1>3, Zenon DEF Timed
  <2>2. t \in In(f, path[3])
    BY Zenon DEF InWith
  <2>3. t \in Elements(f) /\ t \in Nat
    BY <1>4, <2>2, WithinIs, ElementIs
  <2>4. t <= cur
    BY <1>1, <1>5, <2>1
  <2>5. t = cur
    BY <1>4, <2>1, <2>3, <2>4
  <2> QED BY <1>5, <2>1, <2>5
<1>7. /\ elem.len \in Lengths.int /\ elem.len # 0 /\ elem.len <= BufferSize
      /\ elem.len # Unknown
  <2>1. Lengths.int = 0 .. 8
    BY DEF Lengths
  <2> QED BY <1>6, <2>1, BufferSizeAssumption DEF Unknown
<1>8. PICK o \in ReadValue(Lengths.int) :
        /\ ReadsValue(o)
        /\ IF o.err = "none" THEN Continue("blocks", at) ELSE Stop("failed")
  BY Zenon DEF ReadTimestamp
<1>9. PICK l : l = Lengths.int
  OBVIOUS
<1>10. /\ elem.len \in Nat /\ bytes' = bytes /\ file' = file
       /\ readers' \in Seq(Readers) /\ Len(readers') = Len(readers)
       /\ \A k \in 1 .. at : readers'[k] = readers[k]
       /\ readers'[at + 1].end = elem.end
       /\ \/ /\ elem.len \in l /\ elem.len # 0 /\ Taken(o, elem.len)
             /\ off' \in Nat /\ src' = off' + Len(buffered')
             /\ Ending(readers', off')
          \/ /\ Refused(o, elem.len, l)
             /\ off' \in Nat /\ src' = off' + Len(buffered')
             /\ Ending(readers', off')
          \/ /\ elem.len \in l /\ elem.len # 0 /\ Missing(o, elem.len)
             /\ off' = off /\ src' = Len(bytes) /\ buffered' = buffered
  <2>1. o \in ReadValue(l) /\ ReadsValue(o)
    BY <1>8, <1>9
  <2>2. elem.len \in l => elem.len <= BufferSize
    BY <1>7
  <2> QED BY <1>1, <1>4, <1>7, <2>1, <2>2, ValueLeft
<1>11. ~Refused(o, elem.len, l)
  BY <1>7, <1>9, Zenon DEF Refused
<1>12. CASE Taken(o, elem.len)
  <2>1. Continue("blocks", at)
    BY <1>8, <1>12, Zenon DEF Taken
  <2>2. /\ off' \in Nat /\ src' = off' + Len(buffered')
        /\ Ending(readers', off')
    BY <1>10, <1>11, <1>12, Zenon DEF Taken, Missing
  <2>3. ~Opens(f, cur) /\ cur \notin BlocksIn(f)
    <3>1. Matroska_Timestamp \notin BlockIds
      BY DEF Matroska_Timestamp, BlockIds, Matroska_SimpleBlock, Matroska_Block
    <3>2. cur \notin BlocksIn(f)
      BY <1>1, <1>4, <1>5, <3>1, BlockIs
    <3>3. ~Opens(f, cur)
      BY <1>1, <1>5, EnteredIs, Zenon DEF Opens
    <3> QED BY <3>2, <3>3
  <2>4. ASSUME NEW y \in NextIn(f, path[at], End(f, cur)), y \in Nat
        PROVE  HeardPlaces' = PlacesBefore(f, y)
    <3>1. cur < y /\ Adjoins(f, cur, y)
      BY <1>4, <1>5, <2>3, NextAfter
    <3>2. PlacesBefore(f, y) = PlacesBefore(f, cur)
      BY <1>4, <2>3, <2>4, <3>1, NothingBetween
    <3> QED BY <1>1, <1>4, <3>2, Zenon DEF HeardPlaces
  <2>5. "blocks" \in {"blocks", "group"}
    OBVIOUS
  <2> QED BY <1>1, <1>2, <1>3, <1>10, <2>1, <2>2, <2>4, <2>5, ContentReads
<1>13. CASE Missing(o, elem.len)
  <2>1. phase' = "failed"
    BY <1>8, <1>13, Zenon DEF Missing, Stop
  <2>2. phase' \in Ends /\ phase \notin InHeader
    BY <1>1, <2>1 DEF Ends, InHeader
  <2>3. Cut
    <3>1. Len(bytes) < off + elem.len
      BY <1>13, Zenon DEF Missing
    <3>2. off + elem.len = End(f, cur) /\ End(f, cur) \in Nat
      BY <1>1, <1>4, <1>7, FoundHere
    <3>3. End(f, cur) <= Len(f.bytes)
      BY <1>4, <1>5, EndsIn
    <3>4. /\ Len(bytes) \in Nat /\ Len(f.bytes) \in Nat
          /\ Cut <=> Len(bytes) < Len(f.bytes)
      BY <1>4, ReadsIs
    <3>5. Len(bytes) < Len(f.bytes)
      BY <3>1, <3>2, <3>3, <3>4
    <3> QED BY <3>4, <3>5
  <2> QED BY <1>1, <1>10, <2>2, <2>3, ContentStops
<1> QED BY <1>10, <1>11, <1>12, <1>13

\* What a block that was read leaves.
LEMMA BlockLeft ==
  ASSUME Buffer, Chain, NEW f, Reads(f), NEW path, NEW cur, Core(f, path, cur),
         step = "element", elem.len # Unknown,
         NEW o \in Read(elem.len), Takes(o), bytes' = bytes,
         readers' = [readers EXCEPT ![Len(readers)].len = @ - (o.off - off)]
  PROVE  /\ o.err = "none" =>
              /\ readers' \in Seq(Readers) /\ Len(readers') = Len(readers)
              /\ \A k \in 1 .. at : readers'[k] = readers[k]
              /\ readers'[at + 1].end = elem.end
              /\ off' \in Nat /\ src' = off' + Len(buffered')
              /\ Ending(readers', off')
         /\ o.err # "none" =>
              /\ Len(bytes) < off + elem.len
              /\ src' = Len(bytes) /\ buffered' = <<>>
<1>1. PICK k \in Nat : k = at + 1
  BY ReaderHere
<1>2. /\ Len(readers) = k /\ k \in 1 .. k /\ elem = readers[k] /\ k >= 1
      /\ readers \in Seq(Readers) /\ elem.len \in Nat
      /\ elem.end # Unknown /\ off + elem.len = elem.end
  <2>1. /\ Len(readers) = at + 1 /\ elem = readers[at + 1]
        /\ elem.len \in Nat /\ elem.end # Unknown /\ elem.end = End(f, cur)
        /\ off + elem.len = End(f, cur)
    BY FoundHere
  <2>2. readers \in Seq(Readers)
    BY DEF Chain
  <2>3. at \in Nat /\ at >= 1
    BY ReaderHere
  <2> QED BY <1>1, <2>1, <2>2, <2>3
<1>3. /\ src = off + Len(buffered) /\ Ending(readers, off) /\ off \in Nat
  BY ReaderHere
<1>4. PICK n \in Nat : n = elem.len
  BY <1>2
<1>5. src' = o.src /\ buffered' = o.buffered /\ off' = o.off
  BY DEF Takes
<1>6. ASSUME o.err = "none"
      PROVE  /\ readers' \in Seq(Readers) /\ Len(readers') = Len(readers)
             /\ \A i \in 1 .. at : readers'[i] = readers[i]
             /\ readers'[at + 1].end = elem.end
             /\ off' \in Nat /\ src' = off' + Len(buffered')
             /\ Ending(readers', off')
  <2>1. Leaves(o, n) /\ Steady(o)
    BY <1>4, ReadLeaves, ReadSteady
  <2>2. /\ o.off = off + n
        /\ o.off + Len(o.buffered) + src = off + Len(buffered) + o.src
        /\ o.src \in src .. Len(bytes) /\ o.buffered \in Seq(Byte)
    BY <1>6, <2>1, Zenon DEF Leaves, Steady
  <2>3. off' = off + n /\ off' \in Nat
    BY <1>3, <1>5, <2>2
  <2>4. src' = off' + Len(buffered')
    <3>1. /\ src \in Nat /\ Len(buffered) \in Nat
          /\ Len(bytes) \in Nat /\ Len(o.buffered) \in Nat
      BY <2>2, Numbers, LenProperties
    <3>2. PICK a, l, s : a = off' /\ l = Len(buffered') /\ s = src'
      OBVIOUS
    <3>3. a \in Nat /\ l \in Nat /\ s \in Int
      BY <1>5, <2>2, <2>3, <3>1, <3>2
    <3>4. a + l + src = off + Len(buffered) + s
      BY <1>5, <2>2, <3>2
    <3>5. \A x \in Nat, y \in Nat :
            x = y => (a + l + x = y + s => s = a + l)
      BY <3>3
    <3>6. off + Len(buffered) \in Nat /\ src = off + Len(buffered)
      BY <1>3, <3>1
    <3>7. s = a + l
      BY <3>1, <3>4, <3>5, <3>6, Zenon
    <3> QED BY <3>2, <3>7
  <2>5. PICK r : r = [elem EXCEPT !.len = @ - (o.off - off)]
    OBVIOUS
  <2>6. r \in Readers /\ r.end = elem.end /\ r.len = 0
    <3>1. elem.len - (o.off - off) = 0
      <4>1. n - ((off + n) - off) = 0
        BY <1>3
      <4> QED BY <1>4, <2>2, <4>1, Zenon
    <3>2. r = [elem EXCEPT !.len = 0]
      BY <2>5, <3>1, Zenon
    <3>3. elem \in Readers
      BY <1>2, ReaderIs
    <3>4. elem \in [id : Nat, len : Int, end : Int] /\ 0 \in Int
      BY <3>3 DEF Readers
    <3>5. /\ r \in [id : Nat, len : Int, end : Int]
          /\ r.end = elem.end /\ r.len = 0
      BY <3>2, <3>4
    <3> QED BY <3>5 DEF Readers
  <2>7. readers' = [readers EXCEPT ![k] = r]
    BY <1>2, <2>5, Zenon
  <2>8. /\ readers' \in Seq(Readers) /\ Len(readers') = k /\ readers'[k] = r
        /\ \A i \in 1 .. k : i # k => readers'[i] = readers[i]
    BY <1>2, <2>6, <2>7, Replaced
  <2>9. /\ Len(readers') = Len(readers) /\ readers'[at + 1].end = elem.end
        /\ \A i \in 1 .. at : readers'[i] = readers[i]
    <3>1. \A i \in 1 .. at : i \in 1 .. k /\ i # k
      BY <1>1, ReaderHere
    <3> QED BY <1>1, <1>2, <2>6, <2>8, <3>1
  <2>10. Ending(readers', off')
    <3>1. /\ off \in Int /\ off' \in Int /\ r.end = readers[k].end
          /\ r.end # Unknown => off + readers[k].len = off' + r.len
      <4>1. off + n = off' + 0
        BY <1>3, <2>3
      <4> QED BY <1>2, <1>3, <1>4, <2>3, <2>6, <4>1
    <3>2. k = Len(readers)
      BY <1>2
    <3> QED BY <1>2, <1>3, <2>6, <2>7, <3>1, <3>2, ReadOfLast
  <2> QED BY <2>3, <2>4, <2>8, <2>9, <2>10
<1>7. ASSUME o.err # "none"
      PROVE  /\ Len(bytes) < off + elem.len
             /\ src' = Len(bytes) /\ buffered' = <<>>
  <2>1. PICK m : m = n - Len(buffered)
    OBVIOUS
  <2>2. o \in Read(n)
    BY <1>4
  <2>3. FromBuffer(n).err = "none"
    BY FieldsOf DEF FromBuffer
  <2>4. /\ ~(m <= 0) /\ Left < m
        /\ o.src = Len(bytes) /\ o.buffered = <<>>
    <3>1. ~(m <= 0)
      BY <1>7, <2>1, <2>2, <2>3, Zenon DEF Read
    <3>2. Left < m
      <4> SUFFICES ASSUME ~(Left < m) PROVE FALSE
        OBVIOUS
      <4>1. PICK j : o = Outcome("none", src + j,
                                 SubSeq(bytes, src + m + 1, src + j), off + n,
                                 buffered \o SubSeq(bytes, src + 1, src + m))
        BY <2>1, <2>2, <3>1, Zenon DEF Read
      <4>2. o.err = "none"
        BY <4>1, FieldsOf
      <4> QED BY <1>7, <4>2
    <3>3. PICK j : o = Outcome(EndOfSource(0), Len(bytes), <<>>, j, <<>>)
      BY <2>1, <2>2, <3>1, <3>2, Zenon DEF Read
    <3>4. o.src = Len(bytes) /\ o.buffered = <<>>
      BY <3>3, FieldsOf
    <3> QED BY <3>1, <3>2, <3>4
  <2>5. Len(bytes) < off + n
    <3>1. /\ Left = Len(bytes) - src /\ Len(bytes) \in Nat /\ src \in Nat
          /\ Len(buffered) \in Nat
      BY Numbers
    <3>2. Len(bytes) - src < n - Len(buffered)
      BY <2>1, <2>4, <3>1
    <3> QED BY <1>3, <3>1, <3>2
  <2> QED BY <1>4, <1>5, <2>4, <2>5
<1> QED BY <1>6, <1>7

LEMMA HeardMore ==
  ASSUME NEW S, Blocks \in Seq(S), NEW x \in S, Blocks' = Append(Blocks, x)
  PROVE  HeardPlaces' = HeardPlaces \cup {x.place}
<1>1. PICK n \in Nat : n = Len(Blocks) /\ DOMAIN Blocks = 1 .. n
  BY LenProperties
<1>2. /\ DOMAIN Blocks' = 1 .. n + 1 /\ Blocks'[n + 1] = x
      /\ \A i \in 1 .. n : Blocks'[i] = Blocks[i]
  BY <1>1
<1>3. DOMAIN Blocks' = DOMAIN Blocks \cup {n + 1} /\ n + 1 \in DOMAIN Blocks'
  BY <1>1, <1>2
<1>4. \A i \in DOMAIN Blocks : Blocks'[i].place = Blocks[i].place
  BY <1>1, <1>2
<1>5. Blocks'[n + 1].place = x.place
  BY <1>2
<1>6. ASSUME NEW p \in HeardPlaces'
      PROVE  p \in HeardPlaces \cup {x.place}
  <2>1. PICK i \in DOMAIN Blocks' : p = Blocks'[i].place
    BY Zenon DEF HeardPlaces
  <2> QED BY <1>3, <1>4, <1>5, <2>1, Zenon DEF HeardPlaces
<1>7. ASSUME NEW p \in HeardPlaces \cup {x.place}
      PROVE  p \in HeardPlaces'
  <2>1. CASE p \in HeardPlaces
    <3>1. PICK i \in DOMAIN Blocks : p = Blocks[i].place
      BY <2>1, Zenon DEF HeardPlaces
    <3>2. i \in DOMAIN Blocks' /\ p = Blocks'[i].place
      BY <1>3, <1>4, <3>1, Zenon
    <3> QED BY <3>2, Zenon DEF HeardPlaces
  <2>2. CASE p = x.place
    BY <1>3, <1>5, <2>2, Zenon DEF HeardPlaces
  <2> QED BY <2>1, <2>2
<1> QED BY <1>6, <1>7, Zenon

\* A block is read: it is heard if it is played, and the reader goes on.
LEMMA BlockTaken ==
  ASSUME Inv, Located, NEW f, Reads(f), NEW path, NEW cur, Core(f, path, cur),
         step = "element", elem.len # Unknown, cur \in BlocksIn(f),
         NEW o \in Read(elem.len), o.err = "none", Takes(o),
         Blocks' = IF Parsed(o.b) = "block"
                   THEN Append(Blocks, Heard(afterVInt(o.b))) ELSE Blocks
  PROVE  /\ Parsed(o.b) # "panic"
         /\ HeardPlaces' =
              IF Playable(ContentAt(f.bytes, cur))
              THEN HeardPlaces \cup {BodyAt(f.bytes, cur)} ELSE HeardPlaces
<1>1. /\ Buffer /\ Chain
  BY DEF Inv, Decoder
<1>2. /\ f.bytes \in Seq(Byte) /\ WellFormed(f) /\ Tiled(f) /\ OfFile
      /\ bytes \in Seq(Byte) /\ file = f
  BY <1>1, ReadsIs DEF Buffer, Reads
<1>3. /\ cur \in Nat /\ cur \in Elements(f) /\ Begins(bytes, cur)
      /\ id = IdOf(f, cur) /\ elem.len = LenAt(f.bytes, cur)
      /\ off = Body(f, cur)
  BY <1>1, FoundHere
<1>4. /\ IdOf(f, cur) = IdAt(f.bytes, cur) /\ Body(f, cur) = BodyAt(f.bytes, cur)
      /\ IdOf(f, cur) \in BlockIds
  BY <1>2, <1>3, ElementIs, BlockIs
<1>5. /\ IdAt(bytes, cur) = IdAt(f.bytes, cur)
      /\ LenAt(bytes, cur) = LenAt(f.bytes, cur)
      /\ BodyAt(bytes, cur) = BodyAt(f.bytes, cur)
      /\ LenAt(bytes, cur) # Unknown
           /\ BodyAt(bytes, cur) + LenAt(bytes, cur) <= Len(bytes) =>
           ContentAt(bytes, cur) = ContentAt(f.bytes, cur)
  BY <1>2, <1>3, SameElement
<1>6. PICK n : n = elem.len
  OBVIOUS
<1>7. /\ o.b = ContentAt(bytes, cur) /\ IsBlock(bytes, cur)
      /\ o.b \in Seq(Byte) /\ n \in Nat /\ off \in Nat
  <2>1. /\ off = BodyAt(bytes, cur) /\ IdAt(bytes, cur) \in BlockIds
        /\ n = LenAt(bytes, cur) /\ n # Unknown
    BY <1>3, <1>4, <1>5, <1>6
  <2>2. o \in Read(n)
    BY <1>6
  <2> QED BY <1>1, <1>3, <2>1, <2>2, ContentIs
<1>8. PICK c \in Seq(Byte) : c = o.b /\ c = ContentAt(f.bytes, cur)
  <2>1. ContentAt(bytes, cur) = ContentAt(f.bytes, cur)
    BY <1>5, <1>7 DEF IsBlock
  <2> QED BY <1>7, <2>1
<1>9. /\ Parsed(c) = "panic" => OnlyTime(c)
      /\ Parsed(c) = "block" <=> Playable(c)
      /\ Playable(c) =>
           SubSeq(afterVInt(c), 4, Len(afterVInt(c))) =
             SubSeq(c, TrackLength(c) + 4, Len(c))
  BY ParsedIs
<1>10. Parsed(o.b) # "panic"
  <2>1. ~OnlyTime(c)
    BY <1>2, <1>8, Zenon DEF WellFormed
  <2> QED BY <1>8, <1>9, <2>1, Zenon
<1>11. CASE Playable(c)
  <2>1. PICK x : x = Heard(afterVInt(c))
    OBVIOUS
  <2>2. Blocks' = Append(Blocks, x)
    BY <1>8, <1>9, <1>11, <2>1, Zenon
  <2>3. PICK d : d = SubSeq(c, TrackLength(c) + 4, Len(c))
    OBVIOUS
  <2>4. x = [place |-> off, size |-> n, data |-> d]
    <3>1. x = [place |-> off, size |-> elem.len,
               data |-> SubSeq(afterVInt(c), 4, Len(afterVInt(c)))]
      BY <2>1, Zenon DEF Heard
    <3> QED BY <1>6, <1>9, <1>11, <2>3, <3>1, Zenon
  <2>5. x.place = off /\ x \in [place : {off}, size : {n}, data : {d}]
    BY <2>4
  <2>6. PICK S : Blocks \in Seq(S) /\ x \in S
    <3>1. d \in Seq(Byte)
      <4>1. PICK t \in Nat : t = TrackLength(c) + 3 /\ t < Len(c)
                             /\ t + 1 = TrackLength(c) + 4
        <5>1. TrackLength(c) \in Nat
          BY MoreBytes DEF TrackLength
        <5>2. Len(c) > TrackLength(c) + 3
          BY <1>11 DEF Playable
        <5> QED BY <5>1, <5>2
      <4>2. Len(c) \in t .. Len(c)
        BY <4>1
      <4>3. SubSeq(c, t + 1, Len(c)) \in Seq(Byte)
        BY <4>1, <4>2, Piece
      <4> QED BY <2>3, <4>1, <4>3, Zenon
    <3>2. x \in [place : Nat, size : Nat, data : Seq(Byte)]
      BY <1>7, <2>4, <3>1
    <3> QED BY <3>2, Zenon DEF Located, Listening, Kept
  <2>7. HeardPlaces' = HeardPlaces \cup {x.place}
    BY <2>2, <2>6, HeardMore
  <2>8. x.place = BodyAt(f.bytes, cur)
    BY <1>3, <1>4, <2>5
  <2> QED BY <1>8, <1>10, <1>11, <2>7, <2>8, Zenon
<1>12. CASE ~Playable(c)
  <2>1. Blocks' = Blocks
    BY <1>8, <1>9, <1>12, Zenon
  <2>2. HeardPlaces' = HeardPlaces
    BY <2>1, Zenon DEF HeardPlaces
  <2> QED BY <1>8, <1>10, <1>12, <2>2, Zenon
<1> QED BY <1>11, <1>12

LEMMA ReadBlockOn ==
  ASSUME Inv, Located, NEW f, Reads(f), NEW path, NEW cur,
         Following(f, path, cur), ReadBlock
  PROVE  OnTrack(f)'
<1>1. /\ phase \in {"blocks", "group"} /\ step = "element" /\ parseBlock
      /\ dec' = dec /\ satrack' = satrack
      /\ \/ phase = "blocks" /\ id = Matroska_SimpleBlock
         \/ phase = "group" /\ id = Matroska_Block
  BY Zenon DEF ReadBlock, headerVars, Found
<1>2. phase \in Looping /\ phase # "content" /\ phase \notin InHeader
  BY <1>1 DEF Looping, InHeader
<1>3. dec = 2
  BY <1>1, Zenon DEF Following, Shape
<1>4. /\ Buffer /\ Chain /\ Core(f, path, cur) /\ cur \in Nat
      /\ f.bytes \in Seq(Byte) /\ Tiled(f) /\ WellFormed(f) /\ at >= 2
      /\ phase = "blocks" => at = 3
      /\ phase = "group" => at = 4
      /\ IdOf(f, path[3]) = Matroska_Cluster
      /\ phase = "group" => IdOf(f, path[4]) = Matroska_BlockGroup
      /\ HeardPlaces = PlacesBefore(f, cur)
  BY <1>2, <1>3, ContentIn
<1>5. /\ cur \in In(f, path[at]) /\ cur \in Elements(f) /\ id = IdOf(f, cur)
      /\ End(f, path[at]) \in Nat /\ f.within[cur] = path[at]
  <2>1. cur \in In(f, path[at]) /\ cur \in Elements(f) /\ id = IdOf(f, cur)
    BY <1>1, <1>4, FoundHere
  <2> QED BY <1>4, <2>1, ReaderHere DEF In
<1>6. elem.len # Unknown
  BY <1>1, <1>4, InSegment
<1>7. cur \in BlocksIn(f)
  <2>1. <<IdOf(f, f.within[cur]), IdOf(f, cur)>> \in
          {<<Matroska_Cluster, Matroska_SimpleBlock>>,
           <<Matroska_BlockGroup, Matroska_Block>>}
    <3>1. CASE phase = "blocks" /\ id = Matroska_SimpleBlock
      BY <1>4, <1>5, <3>1
    <3>2. CASE phase = "group" /\ id = Matroska_Block
      BY <1>4, <1>5, <3>2
    <3> QED BY <1>1, <3>1, <3>2
  <2> QED BY <1>5, <2>1, Zenon DEF BlocksIn
<1>8. PICK o \in Read(elem.len) :
        /\ Takes(o) /\ bytes' = bytes /\ file' = file
        /\ readers' = [readers EXCEPT ![Len(readers)].len = @ - (o.off - off)]
        /\ IF o.err # "none" THEN UNCHANGED Blocks /\ Continue(phase, at)
           ELSE /\ Blocks' = IF Parsed(o.b) = "block"
                             THEN Append(Blocks, Heard(afterVInt(o.b)))
                             ELSE Blocks
                /\ IF Parsed(o.b) = "panic" THEN Stop("panic")
                   ELSE Continue(phase, at)
  <2>1. CanMake(elem.len)
    <3>1. elem.len = LenAt(f.bytes, cur)
      BY <1>1, <1>4, FoundHere
    <3>2. CanMake(LenAt(f.bytes, cur))
      BY <1>4, <1>7, Zenon DEF WellFormed
    <3> QED BY <3>1, <3>2
  <2> QED BY <1>1, <2>1, Zenon DEF parseBlock
<1>9. /\ o.err = "none" =>
           /\ readers' \in Seq(Readers) /\ Len(readers') = Len(readers)
           /\ \A k \in 1 .. at : readers'[k] = readers[k]
           /\ readers'[at + 1].end = elem.end
           /\ off' \in Nat /\ src' = off' + Len(buffered')
           /\ Ending(readers', off')
      /\ o.err # "none" =>
           /\ Len(bytes) < off + elem.len
           /\ src' = Len(bytes) /\ buffered' = <<>>
  BY <1>1, <1>4, <1>6, <1>8, BlockLeft
<1>10. CASE o.err = "none"
  <2>1. Blocks' = IF Parsed(o.b) = "block"
                  THEN Append(Blocks, Heard(afterVInt(o.b))) ELSE Blocks
    BY <1>8, <1>10, Zenon
  <2>2. /\ Parsed(o.b) # "panic"
        /\ HeardPlaces' =
             IF Playable(ContentAt(f.bytes, cur))
             THEN HeardPlaces \cup {BodyAt(f.bytes, cur)} ELSE HeardPlaces
    BY <1>1, <1>4, <1>6, <1>7, <1>8, <1>10, <2>1, BlockTaken
  <2>3. Continue(phase, at)
    BY <1>8, <1>10, <2>2, Zenon
  <2>4. ASSUME NEW y \in NextIn(f, path[at], End(f, cur)), y \in Nat
        PROVE  HeardPlaces' = PlacesBefore(f, y)
    <3>1. ~Opens(f, cur)
      BY <1>4, <1>7, BlockIs
    <3>2. cur < y /\ Adjoins(f, cur, y)
      BY <1>4, <1>5, <3>1, NextAfter
    <3>3. \A x \in BlocksIn(f) : cur < x => y <= x
      <4> SUFFICES ASSUME NEW x \in BlocksIn(f), cur < x PROVE y <= x
        OBVIOUS
      <4>1. x \in Elements(f) /\ x \in Nat
        BY <1>4, BlockIs
      <4>2. x >= y
        BY <3>2, <4>1 DEF Adjoins
      <4> QED BY <2>4, <4>1, <4>2
    <3>4. PlacesBefore(f, y) =
            IF Playable(ContentAt(f.bytes, cur))
            THEN PlacesBefore(f, cur) \cup {BodyAt(f.bytes, cur)}
            ELSE PlacesBefore(f, cur)
      BY <1>4, <1>7, <2>4, <3>2, <3>3, OneBefore
    <3> QED BY <1>4, <2>2, <3>4
  <2>5. PICK p \in {"blocks", "group"} : p = phase
    BY <1>1
  <2>6. Continue(p, at)
    BY <2>3, <2>5
  <2> QED BY <1>1, <1>2, <1>3, <1>9, <1>10, <2>4, <2>6, ContentReads
<1>11. CASE o.err # "none"
  <2>1. Blocks' = Blocks /\ Continue(phase, at)
    BY <1>8, <1>11, Zenon
  <2>2. phase' = phase /\ step' = "skip"
    BY <2>1, Zenon DEF Continue, ReadNext
  <2>3. Sound(f)'
    <3>1. Sound(f) /\ phase' \notin InHeader
      BY <1>2, <2>2, FollowingSound
    <3> QED BY <1>1, <1>2, <1>8, <2>1, <3>1, SoundKept
  <2>4. Cut'
    <3>1. Len(bytes) < off + elem.len
      BY <1>9, <1>11
    <3>2. off + elem.len = End(f, cur) /\ End(f, cur) \in Nat
      BY <1>1, <1>4, <1>6, FoundHere
    <3>3. End(f, cur) <= Len(f.bytes)
      BY <1>4, <1>5, EndsIn
    <3>4. /\ Len(bytes) \in Nat /\ Len(f.bytes) \in Nat
          /\ Cut <=> Len(bytes) < Len(f.bytes)
      BY <1>4, ReadsIs
    <3>5. Cut
      BY <3>1, <3>2, <3>3, <3>4
    <3> QED BY <1>8, <3>5, Zenon DEF Cut
  <2>5. Over'
    <3>1. src' = Len(bytes) /\ buffered' = <<>> /\ bytes' = bytes
      BY <1>8, <1>9, <1>11
    <3>2. Left' = 0
      <4>1. Len(bytes) \in Nat
        BY <1>4, Numbers
      <4> QED BY <3>1, <4>1 DEF Left
    <3>3. 0 = Len(buffered') /\ 0 \in Nat /\ 0 <= 6
      BY <3>1
    <3>4. step' \notin {"id rest", "size", "size rest", "element"}
      BY <2>2
    <3> QED BY <3>2, <3>3, <3>4, OverAfter
  <2> QED BY <2>3, <2>4, <2>5, CutOn
<1> QED BY <1>10, <1>11

-----------------------------------------------------------------------------
(* The entries of Tracks, in their order.                                   *)

\* Where audio begins in them.
Audios(f) ==
  {x \in Elements(f) : IdOf(f, x) = Matroska_Audio /\ f.within[x] \in Entries(f)}

LEMMA EntriesAre ==
  ASSUME NEW f, f.bytes \in Seq(Byte), Tiled(f)
  PROVE  /\ Entries(f) \subseteq Elements(f) /\ Entries(f) \subseteq Nat
         /\ Audios(f) \subseteq Elements(f) /\ Audios(f) \subseteq Nat
         /\ \A S \in SUBSET Entries(f) : IsFiniteSet(S) /\ Cardinality(S) \in Nat
         /\ \A c : CountBefore(f, c) \in Nat
<1>1. Entries(f) \subseteq Elements(f) /\ Audios(f) \subseteq Elements(f)
  BY DEF Entries, Audios
<1>2. \A x \in Elements(f) : x \in Nat /\ x < Len(f.bytes)
  BY ElementIs
<1>3. Len(f.bytes) \in Nat
  BY LenProperties
<1>4. \A x \in Entries(f) : x \in Nat /\ x <= Len(f.bytes)
  <2> TAKE x \in Entries(f)
  <2>1. x \in Nat /\ x < Len(f.bytes)
    BY <1>1, <1>2
  <2> QED BY <1>3, <2>1
<1>5. Entries(f) \in SUBSET Nat
  BY <1>4
<1>6. IsFiniteSet(Entries(f))
  BY <1>3, <1>4, <1>5, FS_BoundedSetOfNaturals
<1>7. ASSUME NEW S \in SUBSET Entries(f)
      PROVE  IsFiniteSet(S) /\ Cardinality(S) \in Nat
  BY <1>6, FS_Subset, FS_CardinalityType
<1>8. ASSUME NEW c PROVE CountBefore(f, c) \in Nat
  <2>1. {x \in Entries(f) : x < c} \in SUBSET Entries(f)
    OBVIOUS
  <2> QED BY <1>7, <2>1, Zenon DEF CountBefore
<1> QED BY <1>1, <1>2, <1>5, <1>7, <1>8

LEMMA RankIs ==
  ASSUME NEW f, f.bytes \in Seq(Byte), Tiled(f), NEW e \in Entries(f)
  PROVE  /\ e \in Nat /\ Rank(f, e) \in Nat
         /\ Rank(f, e) = CountBefore(f, e) + 1
         /\ \A c \in Nat : e < c => Rank(f, e) \in 1 .. CountBefore(f, c)
<1>1. /\ Entries(f) \subseteq Nat
      /\ \A S \in SUBSET Entries(f) : IsFiniteSet(S) /\ Cardinality(S) \in Nat
      /\ \A c : CountBefore(f, c) \in Nat
  BY EntriesAre
<1> DEFINE B == {x \in Entries(f) : x < e}
           U == {x \in Entries(f) : x <= e}
<1>2. U = B \cup {e} /\ e \notin B
  BY <1>1
<1>3. B \in SUBSET Entries(f) /\ U \in SUBSET Entries(f)
  OBVIOUS
<1>4. Cardinality(B) = CountBefore(f, e) /\ Cardinality(U) = Rank(f, e)
  BY Zenon DEF CountBefore, Rank
<1> HIDE DEF B, U
<1>5. Rank(f, e) = CountBefore(f, e) + 1
  <2>1. IsFiniteSet(B)
    BY <1>1, <1>3, Zenon
  <2>2. Cardinality(B \cup {e}) =
          IF e \in B THEN Cardinality(B) ELSE Cardinality(B) + 1
    BY <2>1, FS_AddElement
  <2> QED BY <1>2, <1>4, <2>2, Zenon
<1>6. CountBefore(f, e) \in Nat
  BY <1>1
<1>7. ASSUME NEW c \in Nat, e < c
      PROVE  Rank(f, e) \in 1 .. CountBefore(f, c)
  <2> DEFINE C == {x \in Entries(f) : x < c}
  <2>1. U \in SUBSET C /\ C \in SUBSET Entries(f)
    BY <1>1, <1>7 DEF U
  <2>2. CountBefore(f, c) = Cardinality(C)
    BY Zenon DEF CountBefore
  <2> HIDE DEF C
  <2>3. IsFiniteSet(C)
    BY <1>1, <2>1, Zenon
  <2>4. Cardinality(U) <= Cardinality(C)
    BY <2>1, <2>3, FS_Subset
  <2>5. Rank(f, e) <= CountBefore(f, c) /\ CountBefore(f, c) \in Nat
    BY <1>1, <1>4, <2>2, <2>4
  <2> QED BY <1>5, <1>6, <2>5
<1> QED BY <1>1, <1>5, <1>6, <1>7

LEMMA RankLess ==
  ASSUME NEW f, f.bytes \in Seq(Byte), Tiled(f),
         NEW e \in Entries(f), NEW g \in Entries(f), e # g
  PROVE  Rank(f, e) # Rank(f, g)
<1>1. /\ e \in Nat /\ g \in Nat
      /\ Rank(f, e) = CountBefore(f, e) + 1
      /\ Rank(f, g) = CountBefore(f, g) + 1
      /\ CountBefore(f, e) \in Nat /\ CountBefore(f, g) \in Nat
      /\ e < g => Rank(f, e) \in 1 .. CountBefore(f, g)
      /\ g < e => Rank(f, g) \in 1 .. CountBefore(f, e)
  BY RankIs, EntriesAre
<1> QED BY <1>1

\* Tracks have entries in them, and entries have audio.
LEMMA EntryFields ==
  /\ Matroska_TrackEntry \in Entered(Matroska_Tracks)
  /\ Matroska_Audio \in Entered(Matroska_TrackEntry)
<1>1. \A s \in StructIds : Entered(s) = FieldsOfType(s, {"struct"})
  BY EnteredWhere
<1>2. Matroska_Tracks \in StructIds /\ Matroska_TrackEntry \in StructIds
  BY DEF StructIds
<1>3. getStructMapping(Matroska_Tracks) = Track
  BY DEF getStructMapping, Matroska_Tracks, Matroska_Info,
         Matroska_ChapterTranslate, Matroska_TrackEntry,
         Matroska_TrackTranslate, Matroska_Audio, Matroska_Video,
         Matroska_AlphaMode, Matroska_Colour, Matroska_MasteringMetadata,
         Matroska_TrackOperation, Matroska_TrackPlane,
         Matroska_ContentEncoding, Matroska_ContentCompression,
         Matroska_ContentEncryption
<1>4. getStructMapping(Matroska_TrackEntry) = TrackEntry
  BY DEF getStructMapping, Matroska_Tracks, Matroska_Info,
         Matroska_ChapterTranslate, Matroska_TrackEntry,
         Matroska_TrackTranslate, Matroska_Audio, Matroska_Video,
         Matroska_AlphaMode, Matroska_Colour, Matroska_MasteringMetadata,
         Matroska_TrackOperation, Matroska_TrackPlane,
         Matroska_ContentEncoding, Matroska_ContentCompression,
         Matroska_ContentEncryption
<1>5. Matroska_TrackEntry \in DOMAIN Track
      /\ Track[Matroska_TrackEntry] = "struct"
  BY DEF Track, newStructMapping
<1>6. Matroska_Audio \in DOMAIN TrackEntry
  BY DEF TrackEntry, newStructMapping
<1>7. TrackEntry[Matroska_Audio] = "struct"
  BY <1>6 DEF TrackEntry, newStructMapping, Matroska_Audio
<1>8. Matroska_TrackEntry \in FieldsOfType(Matroska_Tracks, {"struct"})
  BY <1>3, <1>5, Zenon DEF FieldsOfType
<1>9. Matroska_Audio \in FieldsOfType(Matroska_TrackEntry, {"struct"})
  BY <1>4, <1>6, <1>7, Zenon DEF FieldsOfType
<1> QED BY <1>1, <1>2, <1>8, <1>9, Zenon

\* Elements that are not looked into are no entries and have no audio.
LEMMA EntriesOpen ==
  ASSUME NEW f, NEW x \in Elements(f), ~Opens(f, x)
  PROVE  /\ x \notin Entries(f) /\ x \notin Audios(f)
         /\ IdOf(f, f.within[x]) = Matroska_Segment =>
              IdOf(f, x) \notin {Matroska_Info, Matroska_Tracks,
                                 Matroska_Cluster}
<1>1. ASSUME x \in Entries(f) PROVE FALSE
  <2>1. IdOf(f, x) = Matroska_TrackEntry
        /\ IdOf(f, f.within[x]) = Matroska_Tracks
    BY <1>1 DEF Entries, InWith
  <2> QED BY <2>1, EntryFields, Zenon DEF Opens
<1>2. ASSUME x \in Audios(f) PROVE FALSE
  <2>1. IdOf(f, x) = Matroska_Audio
        /\ IdOf(f, f.within[x]) = Matroska_TrackEntry
    BY <1>2 DEF Audios, Entries
  <2> QED BY <2>1, EntryFields, Zenon DEF Opens
<1>3. ASSUME IdOf(f, f.within[x]) = Matroska_Segment
      PROVE  IdOf(f, x) \notin {Matroska_Info, Matroska_Tracks,
                                Matroska_Cluster}
  BY <1>3, EnteredWhere, Zenon DEF Opens
<1> QED BY <1>1, <1>2, <1>3, Zenon

\* Audio in an entry.
LEMMA AudioOf ==
  ASSUME NEW f, f.bytes \in Seq(Byte), Tiled(f), NEW e \in Entries(f),
         NEW a \in InWith(f, e, Matroska_Audio)
  PROVE  /\ a \in Audios(f) /\ a \in Elements(f) /\ a \in Nat /\ e \in Nat
         /\ f.within[a] = e /\ e < a /\ a < End(f, e)
         /\ a \notin Entries(f)
<1>1. a \in In(f, e) /\ IdOf(f, a) = Matroska_Audio
  BY DEF InWith
<1>2. a \in Elements(f) /\ f.within[a] = e
  BY <1>1, WithinIs
<1>3. a \in Audios(f)
  BY <1>1, <1>2, Zenon DEF Audios
<1>4. e \in Elements(f) /\ e \in Nat /\ a \in Nat
  <2>1. Entries(f) \subseteq Elements(f) /\ Entries(f) \subseteq Nat
        /\ Audios(f) \subseteq Nat
    BY EntriesAre
  <2> QED BY <1>3, <2>1
<1>5. e # Top
  BY <1>4, ElementIs
<1>6. e < a /\ End(f, a) <= End(f, e)
  BY <1>1, <1>5, WithinIs
<1>7. a < Body(f, a) /\ Body(f, a) <= End(f, a) /\ Body(f, a) \in Nat
      /\ End(f, a) \in Nat /\ End(f, e) \in Nat
  BY <1>2, <1>4, ElementIs
<1>8. a < End(f, e)
  BY <1>4, <1>6, <1>7
<1>9. a \notin Entries(f)
  BY <1>1 DEF Entries, Matroska_Audio, Matroska_TrackEntry
<1> QED BY <1>2, <1>3, <1>4, <1>6, <1>8, <1>9

\* Nothing of them is between c and d.
LEMMA ListedSame ==
  ASSUME NEW f, f.bytes \in Seq(Byte), Tiled(f), NEW c \in Nat, NEW d \in Nat,
         c <= d, entries' = entries, Listed(f, c),
         \A x \in Elements(f) :
           c <= x /\ x < d => x \notin Entries(f) /\ x \notin Audios(f)
  PROVE  Listed(f, d)'
<1>1. Entries(f) \subseteq Elements(f) /\ Entries(f) \subseteq Nat
      /\ Audios(f) \subseteq Elements(f) /\ Audios(f) \subseteq Nat
  BY EntriesAre
<1>2. \A x \in Nat : ~(c <= x /\ x < d) => (x < c <=> x < d)
  OBVIOUS
<1>3. \A x \in Entries(f) : x < c <=> x < d
  BY <1>1, <1>2, Zenon
<1>4. \A x \in Audios(f) : x < c <=> x < d
  BY <1>1, <1>2, Zenon
<1>5. {x \in Entries(f) : x < c} = {x \in Entries(f) : x < d}
  BY <1>3, Zenon
<1>6. CountBefore(f, c) = CountBefore(f, d)
  BY <1>5, Zenon DEF CountBefore
<1>7. ASSUME NEW e \in Entries(f) PROVE AudioIn(f, e, c) = AudioIn(f, e, d)
  <2>1. \A a \in InWith(f, e, Matroska_Audio) : a < c <=> a < d
    BY <1>4, AudioOf
  <2> QED BY <2>1, Zenon DEF AudioIn
<1>8. Len(entries') = CountBefore(f, d)
  BY <1>6, Zenon DEF Listed
<1>9. ASSUME NEW k \in 1 .. Len(entries')
      PROVE  \E e \in Entries(f) : e < d /\ Rank(f, e) = k
  BY <1>3, <1>9, Zenon DEF Listed
<1>10. ASSUME NEW e \in Entries(f), e < d
       PROVE  entries'[Rank(f, e)] = AudioIn(f, e, d)
  <2>1. entries[Rank(f, e)] = AudioIn(f, e, c)
    BY <1>3, <1>10, Zenon DEF Listed
  <2> QED BY <1>7, <2>1
<1> QED BY <1>8, <1>9, <1>10, Zenon DEF Listed

\* An entry is the next.
LEMMA ListedEntry ==
  ASSUME NEW f, f.bytes \in Seq(Byte), Tiled(f), NEW c \in Entries(f),
         NEW y \in Nat, c < y, Adjoins(f, c, y), entries \in Seq(BOOLEAN),
         entries' = Append(entries, FALSE), Listed(f, c)
  PROVE  Listed(f, y)'
<1>1. Entries(f) \subseteq Elements(f) /\ Entries(f) \subseteq Nat
      /\ Audios(f) \subseteq Elements(f) /\ Audios(f) \subseteq Nat
      /\ c \in Nat
  BY EntriesAre
<1>2. \A x \in Nat : (x > c => x >= y) => (x < y <=> x < c \/ x = c)
  BY <1>1
<1>3. \A x \in Elements(f) : x \in Nat => (x < y <=> x < c \/ x = c)
  BY <1>2, Zenon DEF Adjoins
<1>4. {x \in Entries(f) : x < y} = {x \in Entries(f) : x <= c}
  <2>1. \A x \in Nat : x <= c <=> x < c \/ x = c
    BY <1>1
  <2> QED BY <1>1, <1>3, <2>1, Zenon
<1>5. CountBefore(f, y) = Rank(f, c)
  BY <1>4, Zenon DEF CountBefore, Rank
<1>6. PICK n \in Nat : n = Len(entries)
  BY LenProperties
<1>7. /\ n = CountBefore(f, c) /\ Rank(f, c) = n + 1
      /\ CountBefore(f, y) = n + 1
  BY <1>5, <1>6, RankIs DEF Listed
<1>8. /\ Len(entries') = n + 1 /\ entries'[n + 1] = FALSE
      /\ \A k \in 1 .. n : entries'[k] = entries[k]
  BY <1>6, AppendProperties
<1>9. ASSUME NEW k \in 1 .. Len(entries')
      PROVE  \E e \in Entries(f) : e < y /\ Rank(f, e) = k
  <2>1. k \in 1 .. n \/ k = n + 1
    BY <1>8
  <2>2. CASE k = n + 1
    BY <1>7, <2>2, Zenon
  <2>3. CASE k \in 1 .. n
    <3>1. PICK e \in Entries(f) : e < c /\ Rank(f, e) = k
      BY <1>6, <2>3, Zenon DEF Listed
    <3>2. e < y
      BY <1>1, <1>3, <3>1
    <3> QED BY <3>1, <3>2
  <2> QED BY <2>1, <2>2, <2>3
<1>10. ASSUME NEW e \in Entries(f), e < y
       PROVE  entries'[Rank(f, e)] = AudioIn(f, e, y)
  <2>1. e < c \/ e = c
    BY <1>1, <1>3, <1>10
  <2>2. CASE e = c
    <3>1. ASSUME NEW a \in InWith(f, c, Matroska_Audio) PROVE ~(a < y)
      <4>1. a \in Elements(f) /\ a \in Nat /\ c < a
        BY AudioOf
      <4>2. a >= y
        BY <4>1 DEF Adjoins
      <4> QED BY <4>1, <4>2
    <3>2. AudioIn(f, c, y) = FALSE
      BY <3>1, Zenon DEF AudioIn
    <3> QED BY <1>7, <1>8, <2>2, <3>2
  <2>3. CASE e < c
    <3>1. Rank(f, e) \in 1 .. n
      BY <1>1, <1>7, <2>3, RankIs
    <3>2. entries'[Rank(f, e)] = AudioIn(f, e, c)
      <4>1. entries[Rank(f, e)] = AudioIn(f, e, c)
        BY <2>3, Zenon DEF Listed
      <4> QED BY <1>8, <3>1, <4>1
    <3>3. \A a \in InWith(f, e, Matroska_Audio) : a < c <=> a < y
      <4> TAKE a \in InWith(f, e, Matroska_Audio)
      <4>1. a \in Elements(f) /\ a \in Nat /\ a \notin Entries(f)
        BY AudioOf
      <4>2. a # c
        BY <4>1
      <4> QED BY <1>3, <4>1, <4>2
    <3>4. AudioIn(f, e, c) = AudioIn(f, e, y)
      BY <3>3, Zenon DEF AudioIn
    <3> QED BY <3>2, <3>4
  <2> QED BY <2>1, <2>2, <2>3
<1>11. Len(entries') = CountBefore(f, y)
  BY <1>7, <1>8
<1> QED BY <1>9, <1>10, <1>11, Zenon DEF Listed

\* All entries are in the one element that has them.
LEMMA OneTracks ==
  ASSUME NEW f, NEW t, InWith(f, Segment(f), Matroska_Tracks) = {t},
         NEW e \in Entries(f)
  PROVE  f.within[e] = t /\ e \in In(f, t)
<1>1. f.within[e] = t /\ e \in Elements(f)
  BY DEF Entries
<1> QED BY <1>1 DEF In

\* Audio in the entry that was the last.
LEMMA LastEntry ==
  ASSUME NEW f, f.bytes \in Seq(Byte), Tiled(f), Headed(f), NEW c \in Audios(f)
  PROVE  /\ f.within[c] \in Entries(f)
         /\ f.within[c] < c
         /\ Rank(f, f.within[c]) = CountBefore(f, c)
<1>1. Entries(f) \subseteq Elements(f) /\ Entries(f) \subseteq Nat
      /\ c \in Elements(f) /\ c \in Nat
  BY EntriesAre
<1>2. PICK e \in Entries(f) : e = f.within[c]
  BY DEF Audios
<1>3. c \in InWith(f, e, Matroska_Audio)
  BY <1>1, <1>2 DEF Audios, InWith, In
<1>4. e < c /\ c < End(f, e) /\ c \notin Entries(f) /\ e \in Nat
  BY <1>3, AudioOf
<1>5. PICK t : InWith(f, Segment(f), Matroska_Tracks) = {t}
  BY Zenon DEF Headed
<1>6. e \in Elements(f) /\ End(f, e) \in Nat
  BY <1>1, ElementIs
<1>7. f.within[e] = t /\ e \in In(f, t) /\ t \in In(f, Segment(f))
  BY <1>5, OneTracks DEF InWith
<1>8. t \in Elements(f)
  BY <1>7, WithinIs
<1>9. t \in Nat /\ t # Top
  BY <1>8, ElementIs
<1>10. t < e
  BY <1>7, <1>9, WithinIs
<1>11. ASSUME NEW x \in Entries(f), x < c PROVE x <= e
  <2>1. x \in Elements(f) /\ x \in Nat
    BY <1>1
  <2>2. x < End(f, e)
    BY <1>1, <1>4, <1>6, <1>11, <2>1
  <2>3. x > e => f.within[x] >= e
    BY <1>6, <2>1, <2>2, Beyond
  <2>4. f.within[x] = t
    BY <1>5, OneTracks
  <2> QED BY <1>4, <1>9, <1>10, <2>1, <2>3, <2>4
<1>12. \A x \in Entries(f) : x <= e => x < c
  BY <1>1, <1>4
<1>13. {x \in Entries(f) : x <= e} = {x \in Entries(f) : x < c}
  BY <1>11, <1>12, Zenon
<1>14. Rank(f, e) = CountBefore(f, c)
  BY <1>13, Zenon DEF Rank, CountBefore
<1> QED BY <1>2, <1>4, <1>14

LEMMA ListedAudio ==
  ASSUME NEW f, f.bytes \in Seq(Byte), Tiled(f), Headed(f),
         NEW c \in Audios(f),
         NEW y \in Nat, c < y, Adjoins(f, c, y), entries \in Seq(BOOLEAN),
         entries' = [entries EXCEPT ![Len(entries)] = TRUE], Listed(f, c)
  PROVE  Listed(f, y)'
<1>1. Entries(f) \subseteq Elements(f) /\ Entries(f) \subseteq Nat
      /\ Audios(f) \subseteq Elements(f) /\ Audios(f) \subseteq Nat
      /\ c \in Nat /\ c \in Elements(f)
  BY EntriesAre
<1>2. PICK g \in Entries(f) : g = f.within[c]
  BY LastEntry
<1>3. g < c /\ Rank(f, g) = CountBefore(f, c)
  BY <1>2, LastEntry
<1>4. c \in InWith(f, g, Matroska_Audio)
  BY <1>1, <1>2 DEF Audios, InWith, In
<1>5. c \notin Entries(f)
  BY <1>4, AudioOf
<1>6. \A x \in Nat : (x > c => x >= y) => (x < y <=> x < c \/ x = c)
  BY <1>1
<1>7. \A x \in Elements(f) : x \in Nat => (x < y <=> x < c \/ x = c)
  BY <1>6, Zenon DEF Adjoins
<1>8. \A x \in Entries(f) : x < y <=> x < c
  BY <1>1, <1>5, <1>7, Zenon
<1>9. CountBefore(f, y) = CountBefore(f, c)
  <2>1. {x \in Entries(f) : x < y} = {x \in Entries(f) : x < c}
    BY <1>8, Zenon
  <2> QED BY <2>1, Zenon DEF CountBefore
<1>10. PICK n \in Nat : n = Len(entries)
  BY LenProperties
<1>11. n = CountBefore(f, c) /\ n = Rank(f, g)
  BY <1>3, <1>10, Zenon DEF Listed
<1>12. n >= 1
  <2>1. Rank(f, g) \in 1 .. CountBefore(f, c)
    BY <1>1, <1>3, RankIs
  <2> QED BY <1>11, <2>1
<1>13. /\ Len(entries') = n /\ entries'[n] = TRUE
       /\ \A k \in 1 .. n : k # n => entries'[k] = entries[k]
  <2>1. n \in 1 .. Len(entries) /\ TRUE \in BOOLEAN
    BY <1>10, <1>12
  <2>2. /\ Len(entries') = Len(entries)
        /\ \A k \in 1 .. Len(entries) :
             entries'[k] = IF k = n THEN TRUE ELSE entries[k]
    <3>1. entries' = [entries EXCEPT ![n] = TRUE]
      BY <1>10, Zenon
    <3>2. /\ Len([entries EXCEPT ![n] = TRUE]) = Len(entries)
          /\ \A k \in 1 .. Len(entries) :
               [entries EXCEPT ![n] = TRUE][k] = IF k = n THEN TRUE
                                                 ELSE entries[k]
      <4>1. entries \in [1 .. Len(entries) -> BOOLEAN]
        OBVIOUS
      <4>2. Len([entries EXCEPT ![n] = TRUE]) = Len(entries)
        BY <2>1, ExceptSame
      <4>3. \A k \in 1 .. Len(entries) :
              [entries EXCEPT ![n] = TRUE][k] = IF k = n THEN TRUE
                                                ELSE entries[k]
        BY <2>1, <4>1, Zenon
      <4> QED BY <4>2, <4>3
    <3> QED BY <3>1, <3>2, Zenon
  <2>3. entries'[n] = TRUE
    BY <2>1, <2>2
  <2>4. \A k \in 1 .. n : k # n => entries'[k] = entries[k]
    BY <1>10, <2>2, Zenon
  <2> QED BY <1>10, <2>2, <2>3, <2>4
<1>14. Len(entries') = CountBefore(f, y)
  BY <1>9, <1>11, <1>13
<1>15. ASSUME NEW k \in 1 .. Len(entries')
       PROVE  \E e \in Entries(f) : e < y /\ Rank(f, e) = k
  <2>1. k \in 1 .. Len(entries)
    BY <1>10, <1>13
  <2> QED BY <1>8, <2>1, Zenon DEF Listed
<1>16. ASSUME NEW e \in Entries(f), e < y
       PROVE  entries'[Rank(f, e)] = AudioIn(f, e, y)
  <2>1. e < c
    BY <1>8, <1>16
  <2>2. CASE e = g
    <3>1. c < y
      OBVIOUS
    <3>2. AudioIn(f, g, y) = TRUE
      BY <1>4, <3>1, Zenon DEF AudioIn
    <3> QED BY <1>11, <1>13, <2>2, <3>2
  <2>3. CASE e # g
    <3>1. Rank(f, e) \in 1 .. n
      BY <1>1, <1>11, <2>1, RankIs
    <3>2. Rank(f, e) # n
      BY <1>11, <2>3, RankLess
    <3>3. entries[Rank(f, e)] = AudioIn(f, e, c)
      BY <2>1, Zenon DEF Listed
    <3>4. entries'[Rank(f, e)] = AudioIn(f, e, c)
      BY <1>13, <3>1, <3>2, <3>3
    <3>5. \A a \in InWith(f, e, Matroska_Audio) : a < c <=> a < y
      <4> TAKE a \in InWith(f, e, Matroska_Audio)
      <4>1. a \in Elements(f) /\ a \in Nat /\ f.within[a] = e
        BY AudioOf
      <4>2. a # c
        BY <1>2, <2>3, <4>1
      <4> QED BY <1>7, <4>1, <4>2
    <3>6. AudioIn(f, e, c) = AudioIn(f, e, y)
      BY <3>5, Zenon DEF AudioIn
    <3> QED BY <3>4, <3>6
  <2> QED BY <2>2, <2>3
<1> QED BY <1>14, <1>15, <1>16, Zenon DEF Listed

\* Neither Info nor Tracks is between c and d.
LEMMA CountedSame ==
  ASSUME NEW f, f.bytes \in Seq(Byte), Tiled(f), NEW c \in Nat, NEW d \in Nat,
         c <= d, cntNeeded' = cntNeeded, satrack' = satrack, Counted(f, c),
         \A x \in In(f, Segment(f)) :
           IdOf(f, x) \in {Matroska_Info, Matroska_Tracks} =>
             ~(c <= x /\ x < d)
  PROVE  Counted(f, d)'
<1>1. PICK i \in In(f, Segment(f)), t \in In(f, Segment(f)) :
        /\ InWith(f, Segment(f), Matroska_Info) = {i}
        /\ InWith(f, Segment(f), Matroska_Tracks) = {t}
        /\ cntNeeded = Done(i, c) + Done(t, c)
        /\ satrack = IF t < c THEN AudioTrackOf(f) ELSE 0
  BY Zenon DEF Counted
<1>2. /\ IdOf(f, i) = Matroska_Info /\ IdOf(f, t) = Matroska_Tracks
      /\ i \in Elements(f) /\ t \in Elements(f)
  <2>1. i \in InWith(f, Segment(f), Matroska_Info)
        /\ t \in InWith(f, Segment(f), Matroska_Tracks)
    BY <1>1
  <2> QED BY <2>1 DEF InWith, In
<1>3. i \in Nat /\ t \in Nat
  BY <1>2, ElementIs
<1>4. ~(c <= i /\ i < d) /\ ~(c <= t /\ t < d)
  BY <1>2
<1>5. (i < c <=> i < d) /\ (t < c <=> t < d)
  BY <1>3, <1>4
<1>6. Done(i, c) = Done(i, d) /\ Done(t, c) = Done(t, d)
  BY <1>5, Zenon DEF Done
<1>7. cntNeeded' = Done(i, d) + Done(t, d)
  BY <1>1, <1>6, Zenon
<1>8. satrack' = IF t < d THEN AudioTrackOf(f) ELSE 0
  BY <1>1, <1>5, Zenon
<1> QED BY <1>1, <1>7, <1>8, Zenon DEF Counted

\* One of the two was decoded.
LEMMA CountedOne ==
  ASSUME NEW f, f.bytes \in Seq(Byte), Tiled(f), NEW m \in In(f, Segment(f)),
         IdOf(f, m) \in {Matroska_Info, Matroska_Tracks}, NEW y \in Nat, m < y,
         \A x \in In(f, Segment(f)) : x > m => x >= y, Counted(f, m),
         cntNeeded' = cntNeeded + 1,
         satrack' = IF IdOf(f, m) = Matroska_Tracks THEN AudioTrackOf(f)
                    ELSE satrack
  PROVE  Counted(f, y)'
<1>1. PICK i \in In(f, Segment(f)), t \in In(f, Segment(f)) :
        /\ InWith(f, Segment(f), Matroska_Info) = {i}
        /\ InWith(f, Segment(f), Matroska_Tracks) = {t}
        /\ cntNeeded = Done(i, m) + Done(t, m)
        /\ satrack = IF t < m THEN AudioTrackOf(f) ELSE 0
  BY Zenon DEF Counted
<1>2. /\ IdOf(f, i) = Matroska_Info /\ IdOf(f, t) = Matroska_Tracks
      /\ i \in Elements(f) /\ t \in Elements(f)
  <2>1. i \in InWith(f, Segment(f), Matroska_Info)
        /\ t \in InWith(f, Segment(f), Matroska_Tracks)
    BY <1>1
  <2> QED BY <2>1 DEF InWith, In
<1>3. m \in Elements(f)
  BY DEF In
<1>4. i \in Nat /\ t \in Nat /\ m \in Nat
  BY <1>2, <1>3, ElementIs
<1>5. \A x \in In(f, Segment(f)) : x \in Nat /\ x # m => (x < m <=> x < y)
  BY <1>4
<1>6. m = i \/ m = t
  <2>1. m \in InWith(f, Segment(f), Matroska_Info)
        \/ m \in InWith(f, Segment(f), Matroska_Tracks)
    BY DEF InWith
  <2> QED BY <1>1, <2>1
<1>7. i # t
  BY <1>2 DEF Matroska_Info, Matroska_Tracks
<1>8. ~(m < m) /\ m < y
  BY <1>4
<1>9. CASE m = i
  <2>1. t < m <=> t < y
    BY <1>4, <1>5, <1>7, <1>9
  <2>2. Done(i, m) = 0 /\ Done(i, y) = 1 /\ Done(t, y) = Done(t, m)
    BY <1>8, <1>9, <2>1, Zenon DEF Done
  <2>3. Done(t, m) \in Nat
    BY DEF Done
  <2>4. cntNeeded' = Done(i, y) + Done(t, y)
    BY <1>1, <2>2, <2>3
  <2>5. IdOf(f, m) # Matroska_Tracks
    BY <1>2, <1>9 DEF Matroska_Info, Matroska_Tracks
  <2>6. satrack' = IF t < y THEN AudioTrackOf(f) ELSE 0
    BY <1>1, <2>1, <2>5, Zenon
  <2> QED BY <1>1, <2>4, <2>6, Zenon DEF Counted
<1>10. CASE m = t
  <2>1. i < m <=> i < y
    BY <1>4, <1>5, <1>7, <1>10
  <2>2. Done(t, m) = 0 /\ Done(t, y) = 1 /\ Done(i, y) = Done(i, m)
    BY <1>8, <1>10, <2>1, Zenon DEF Done
  <2>3. Done(i, m) \in Nat
    BY DEF Done
  <2>4. cntNeeded' = Done(i, y) + Done(t, y)
    BY <1>1, <2>2, <2>3
  <2>5. satrack' = IF t < y THEN AudioTrackOf(f) ELSE 0
    BY <1>2, <1>8, <1>10, Zenon
  <2> QED BY <1>1, <2>4, <2>5, Zenon DEF Counted
<1> QED BY <1>6, <1>9, <1>10

\* Before the element that is decoded, Tracks was not.
LEMMA NotSelected ==
  ASSUME NEW f, f.bytes \in Seq(Byte), Tiled(f), NEW m \in In(f, Segment(f)),
         IdOf(f, m) = Matroska_Tracks, Counted(f, m)
  PROVE  /\ satrack = 0
         /\ InWith(f, Segment(f), Matroska_Tracks) = {m}
<1>1. PICK t \in In(f, Segment(f)) :
        /\ InWith(f, Segment(f), Matroska_Tracks) = {t}
        /\ satrack = IF t < m THEN AudioTrackOf(f) ELSE 0
  BY Zenon DEF Counted
<1>2. m \in InWith(f, Segment(f), Matroska_Tracks)
  BY DEF InWith
<1>3. m = t
  BY <1>1, <1>2
<1>4. m \in Elements(f)
  BY DEF In
<1>5. ~(m < m)
  BY <1>4, ElementIs
<1> QED BY <1>1, <1>3, <1>5, Zenon

\* With all entries decoded, the last with audio is selected.
LEMMA SelectedIs ==
  ASSUME NEW f, f.bytes \in Seq(Byte), Tiled(f), NEW t,
         InWith(f, Segment(f), Matroska_Tracks) = {t},
         entries \in Seq(BOOLEAN), Listed(f, End(f, t))
  PROVE  Max({i \in DOMAIN entries : entries[i]} \cup {0}) = AudioTrackOf(f)
<1>1. PICK c : c = End(f, t)
  OBVIOUS
<1>2. t \in Elements(f)
  BY DEF InWith, In
<1>3. c \in Nat
  BY <1>1, <1>2, ElementIs
<1>4. Entries(f) \subseteq Elements(f) /\ Entries(f) \subseteq Nat
  BY EntriesAre
<1>5. ASSUME NEW e \in Entries(f)
      PROVE  /\ e < c
             /\ \A a \in InWith(f, e, Matroska_Audio) : a < c
  <2>1. e \in In(f, t) /\ e \in Elements(f) /\ e \in Nat
    BY <1>4, OneTracks
  <2>2. End(f, e) <= c
    BY <1>1, <2>1, WithinIs
  <2>3. e < Body(f, e) /\ Body(f, e) <= End(f, e)
        /\ Body(f, e) \in Nat /\ End(f, e) \in Nat
    BY <2>1, ElementIs
  <2>4. e < c
    BY <1>3, <2>1, <2>2, <2>3
  <2>5. ASSUME NEW a \in InWith(f, e, Matroska_Audio) PROVE a < c
    <3>1. a < End(f, e) /\ a \in Nat
      BY AudioOf
    <3> QED BY <1>3, <2>2, <2>3, <3>1
  <2> QED BY <2>4, <2>5
<1>6. \A e \in Entries(f) :
        AudioIn(f, e, c) <=> InWith(f, e, Matroska_Audio) # {}
  BY <1>5, Zenon DEF AudioIn
<1>7. DOMAIN entries = 1 .. Len(entries) /\ Len(entries) = CountBefore(f, c)
  BY <1>1 DEF Listed
<1> DEFINE W == {x \in Entries(f) : InWith(f, x, Matroska_Audio) # {}}
           R == {Rank(f, e) : e \in W}
<1>8. ASSUME NEW k \in DOMAIN entries, entries[k]
      PROVE  k \in R
  <2>1. PICK e \in Entries(f) : e < c /\ Rank(f, e) = k
    BY <1>1, <1>7, <1>8, Zenon DEF Listed
  <2>2. entries[Rank(f, e)] = AudioIn(f, e, c)
    BY <1>1, <2>1, Zenon DEF Listed
  <2>3. e \in W
    BY <1>6, <1>8, <2>1, <2>2
  <2> QED BY <2>1, <2>3
<1>9. ASSUME NEW e \in W
      PROVE  Rank(f, e) \in DOMAIN entries /\ entries[Rank(f, e)]
  <2>1. e \in Entries(f) /\ e < c /\ AudioIn(f, e, c)
    BY <1>5, <1>6
  <2>2. Rank(f, e) \in 1 .. CountBefore(f, c)
    BY <1>3, <2>1, RankIs
  <2>3. entries[Rank(f, e)] = AudioIn(f, e, c)
    BY <1>1, <2>1, Zenon DEF Listed
  <2> QED BY <1>7, <2>1, <2>2, <2>3
<1>10. {i \in DOMAIN entries : entries[i]} = R
  BY <1>8, <1>9, Zenon
<1>11. AudioTrackOf(f) = Max(R \cup {0})
  BY Zenon DEF AudioTrackOf, Rank
<1> QED BY <1>10, <1>11, Zenon

-----------------------------------------------------------------------------
(* Steps of ReadHeader.                                                     *)

\* What the reader knows in ReadHeader.
LEMMA HeaderIn ==
  ASSUME Inv, NEW f, Reads(f), NEW path, NEW cur, Following(f, path, cur),
         phase \in InHeader
  PROVE  /\ Buffer /\ Chain /\ Core(f, path, cur) /\ cur \in Nat
         /\ f.bytes \in Seq(Byte) /\ WellFormed(f) /\ Tiled(f)
         /\ at \in Nat /\ dec = 1 /\ Blocks = <<>>
         /\ cntNeeded \in Nat /\ cntNeeded <= 1 /\ entries \in Seq(BOOLEAN)
         /\ HeardPlaces = PlacesBefore(f, cur)
         /\ phase \in {"EBML", "Segment"} => at = 1 /\ path[at] = Top
         /\ phase = "EBML" => cur = 0
         /\ phase = "Segment" => cur = Segment(f)
         /\ phase = "level 1" => at = 2
         /\ phase = "decode" =>
              at >= 3 /\ IdOf(f, path[3]) \in {Matroska_Info, Matroska_Tracks}
         /\ at >= 2 => path[2] = Segment(f)
         /\ Headed(f) => Listed(f, cur)
         /\ Headed(f) /\ phase # "decode" => Counted(f, cur)
         /\ Headed(f) /\ phase = "decode" => Counted(f, path[3])
<1>1. /\ Buffer /\ Chain /\ Core(f, path, cur) /\ cur \in Nat
      /\ Shape(f, path, cur) /\ Hears(f, cur)
      /\ Headed(f) => Heading(f, path, cur)
  BY Zenon DEF Inv, Decoder, Following, Shape
<1>2. f.bytes \in Seq(Byte) /\ WellFormed(f) /\ Tiled(f)
  BY <1>1, ReadsIs
<1>3. Place(phase, at, dec) /\ at \in Nat /\ dec = 1
  BY InvIs
<1>4. cntNeeded \in Nat /\ cntNeeded <= 1 /\ entries \in Seq(BOOLEAN)
  <2>1. cntNeeded \in 0 .. 2 /\ entries \in Seq(BOOLEAN) /\ cntNeeded <= 1
    BY LoopsIs, Zenon DEF Inv
  <2> QED BY <2>1
<1>5. /\ phase \in {"EBML", "Segment"} => at = 1
      /\ phase = "level 1" => at = 2
      /\ phase = "decode" => at >= 3
  BY <1>3, Zenon DEF Place
<1>6. at = 1 => path[at] = Top
  BY <1>1, Zenon DEF Core, Along, PathIn
<1>7. Blocks = <<>> /\ HeardPlaces = PlacesBefore(f, cur)
  BY <1>1, <1>3, Zenon DEF Hears
<1>8. at >= 2 => path[2] = Segment(f)
  BY <1>1, InSegment
<1>9. /\ phase = "EBML" => cur = 0
      /\ phase = "Segment" => cur = Segment(f)
      /\ phase = "decode" =>
           IdOf(f, path[3]) \in {Matroska_Info, Matroska_Tracks}
  BY <1>1, Zenon DEF Shape
<1>10. Headed(f) => Listed(f, cur)
  BY <1>1, Zenon DEF Heading
<1>11. /\ Headed(f) /\ phase # "decode" => Counted(f, cur)
       /\ Headed(f) /\ phase = "decode" => Counted(f, path[3])
  BY <1>1, Zenon DEF Heading
<1> QED BY <1>1, <1>2, <1>3, <1>4, <1>5, <1>6, <1>7, <1>8, <1>9, <1>10, <1>11,
           Zenon

LEMMA NotTwo == ASSUME NEW d, d = 1 PROVE ~(d = 2)
OBVIOUS

\* ReadHeader goes on.
LEMMA HeaderOnward ==
  ASSUME NEW f, dec = 1, Blocks = <<>>, dec' = dec, Blocks' = Blocks,
         phase' \in {"Segment", "level 1", "decode"},
         NEW q, NEW y \in Nat, Core(f, q, y)', HeardPlaces = PlacesBefore(f, y),
         phase' = "Segment" => y = Segment(f),
         phase' = "decode" =>
           IdOf(f, q[3]) \in {Matroska_Info, Matroska_Tracks},
         Headed(f) => Listed(f, y)',
         Headed(f) /\ phase' # "decode" => Counted(f, y)',
         Headed(f) /\ phase' = "decode" => Counted(f, q[3])'
  PROVE  OnTrack(f)'
<1>1. phase' \in InHeader /\ phase' \in Phases /\ phase' # "EBML"
      /\ phase' # "content"
      /\ phase' \notin {"timestamp", "blocks", "group"}
      /\ phase' # "timestamp"
  BY DEF InHeader, Phases
<1>2. dec' = 1 /\ ~(dec' = 2)
  <2>1. dec' = 1
    BY Zenon
  <2> QED BY <2>1, NotTwo, Zenon
<1>3. Shape(f, q, y)'
  BY <1>1, Zenon DEF Shape
<1>4. HeardPlaces' = PlacesBefore(f, y)
  BY Zenon DEF HeardPlaces
<1>5. Hears(f, y)'
  BY <1>4, Zenon DEF Hears
<1>6. ASSUME Headed(f) PROVE Heading(f, q, y)'
  <2>1. CASE phase' = "decode"
    <3>1. Counted(f, q[3])'
      BY <1>6, <2>1
    <3> QED BY <1>1, <1>2, <1>6, <2>1, <3>1, Zenon DEF Heading
  <2>2. CASE phase' # "decode"
    <3>1. Counted(f, y)'
      BY <1>6, <2>2
    <3> QED BY <1>1, <1>2, <1>6, <2>2, <3>1, Zenon DEF Heading
  <2> QED BY <2>1, <2>2
<1>7. Following(f, q, y)'
  BY <1>3, <1>5, <1>6, Zenon DEF Following
<1> QED BY <1>7, FollowingOn

\* ReadHeader fails: what follows is the end of the file.
LEMMA HeaderRestarts ==
  ASSUME Inv, NEW f, Reads(f), NEW path, NEW cur, Following(f, path, cur),
         phase \in InHeader, ~Headed(f), at >= 2,
         readers' \in Seq(Readers), Len(readers') = Len(readers),
         readers'[1] = readers[1], readers'[2].end = readers[2].end,
         off' \in Nat, src' = off' + Len(buffered'), Ending(readers', off'),
         Continue("content", 1), dec' = dec, Blocks' = Blocks
  PROVE  OnTrack(f)'
<1>1. /\ Buffer /\ Chain /\ Core(f, path, cur)
      /\ f.bytes \in Seq(Byte) /\ WellFormed(f)
      /\ dec = 1 /\ Blocks = <<>>
  BY HeaderIn
<1>2. LenAt(f.bytes, Segment(f)) # Unknown
  BY <1>1, SegmentIs
<1>3. Core(f, <<Top>>, Len(f.bytes))'
  BY <1>1, <1>2, RestartTo
<1>4. PICK y \in Nat : y = Len(f.bytes)
  BY <1>1, LenProperties
<1>5. PICK q : q = <<Top>>
  OBVIOUS
<1>6. Core(f, q, y)'
  BY <1>3, <1>4, <1>5
<1>7. phase' = "content"
  BY Zenon DEF Continue
<1>8. phase' \notin InHeader /\ phase' \in Phases
      /\ phase' \notin {"EBML", "Segment", "decode", "timestamp", "blocks",
                        "group"}
      /\ phase' # "EBML" /\ phase' # "Segment" /\ phase' # "decode"
      /\ phase' # "timestamp"
  BY <1>7 DEF InHeader, Phases
<1>9. Shape(f, q, y)'
  BY <1>4, <1>8, Zenon DEF Shape
<1>10. dec' # 2 /\ Blocks' = <<>>
  BY <1>1
<1>11. Hears(f, y)'
  BY <1>8, <1>10, Zenon DEF Hears
<1>12. Following(f, q, y)'
  BY <1>6, <1>9, <1>11, Zenon DEF Following
<1> QED BY <1>12, FollowingOn

\* An element that is not looked into is passed.
LEMMA PassedBy ==
  ASSUME NEW f, f.bytes \in Seq(Byte), WellFormed(f), Tiled(f),
         NEW c \in Elements(f), ~Opens(f, c), c \notin BlocksIn(f),
         NEW y \in Nat, c < y, Adjoins(f, c, y), entries' = entries
  PROVE  /\ PlacesBefore(f, y) = PlacesBefore(f, c)
         /\ Listed(f, c) => Listed(f, y)'
         /\ Counted(f, c) /\ cntNeeded' = cntNeeded /\ satrack' = satrack =>
              Counted(f, y)'
<1>1. c \in Nat /\ c <= y
  <2>1. c \in Nat
    BY ElementIs
  <2> QED BY <2>1
<1>2. PlacesBefore(f, y) = PlacesBefore(f, c)
  BY <1>1, NothingBetween
<1>3. ASSUME NEW x \in Elements(f), c <= x, x < y PROVE x = c
  <2>1. x \in Nat
    BY ElementIs
  <2>2. x > c => x >= y
    BY DEF Adjoins
  <2> QED BY <1>1, <1>3, <2>1, <2>2
<1>4. \A x \in Elements(f) :
        c <= x /\ x < y => x \notin Entries(f) /\ x \notin Audios(f)
  BY <1>3, EntriesOpen
<1>5. Listed(f, c) => Listed(f, y)'
  BY <1>1, <1>4, ListedSame
<1>6. \A x \in In(f, Segment(f)) :
        IdOf(f, x) \in {Matroska_Info, Matroska_Tracks} => ~(c <= x /\ x < y)
  <2> SUFFICES ASSUME NEW x \in In(f, Segment(f)), c <= x, x < y
               PROVE  IdOf(f, x) \notin {Matroska_Info, Matroska_Tracks}
    OBVIOUS
  <2>1. x \in Elements(f) /\ f.within[x] = Segment(f)
    BY DEF In
  <2>2. x = c
    BY <1>3, <2>1
  <2>3. IdOf(f, f.within[c]) = Matroska_Segment
    BY <2>1, <2>2, SegmentIs
  <2> QED BY <2>2, <2>3, EntriesOpen, Zenon
<1>7. Counted(f, c) /\ cntNeeded' = cntNeeded /\ satrack' = satrack =>
        Counted(f, y)'
  BY <1>1, <1>6, CountedSame
<1> QED BY <1>2, <1>5, <1>7

LEMMA CountedStill ==
  ASSUME NEW f, NEW m, Counted(f, m), cntNeeded' = cntNeeded,
         satrack' = satrack
  PROVE  Counted(f, m)'
BY Zenon DEF Counted

\* What follows the element that was returned.
LEMMA NextHere ==
  ASSUME Buffer, Chain, NEW f, Reads(f), NEW path, NEW cur, Core(f, path, cur),
         step = "element"
  PROVE  \E y \in NextIn(f, path[at], End(f, cur)) :
           /\ y \in Nat /\ cur < y /\ End(f, cur) <= y
           /\ \A x \in Elements(f) : x >= End(f, cur) => x >= y
           /\ ~Opens(f, cur) => Adjoins(f, cur, y)
<1>1. cur \in In(f, path[at]) /\ End(f, path[at]) \in Nat
  BY FoundHere, ReaderHere
<1>2. f.bytes \in Seq(Byte) /\ Tiled(f)
  BY ReadsIs
<1> HIDE DEF Reads
<1>3. NextIn(f, path[at], End(f, cur)) # {}
  BY <1>1, <1>2, NextAfter
<1> QED BY <1>1, <1>2, <1>3, NextAfter

\* An element was read, or is not, and is left behind in ReadHeader.
LEMMA HeaderLeaves ==
  ASSUME Inv, NEW f, Reads(f), NEW path, NEW cur, Following(f, path, cur),
         phase \in InHeader, step = "element", elem.len # Unknown,
         ~Opens(f, cur), cur \notin BlocksIn(f),
         readers' \in Seq(Readers), Len(readers') = Len(readers),
         \A k \in 1 .. at : readers'[k] = readers[k],
         readers'[at + 1].end = elem.end,
         off' \in Nat, src' = off' + Len(buffered'), Ending(readers', off'),
         NEW p \in {"Segment", "level 1", "decode"}, Continue(p, at),
         IF p = "Segment" THEN phase = "EBML" ELSE p = phase,
         UNCHANGED headerVars, Blocks' = Blocks
  PROVE  OnTrack(f)'
<1>1. /\ Buffer /\ Chain /\ Core(f, path, cur) /\ cur \in Nat
      /\ f.bytes \in Seq(Byte) /\ WellFormed(f) /\ Tiled(f)
      /\ dec = 1 /\ Blocks = <<>>
      /\ HeardPlaces = PlacesBefore(f, cur)
  BY HeaderIn
<1>0. phase = "EBML" => cur = 0
  <2>1. Shape(f, path, cur)
    BY Zenon DEF Following
  <2> QED BY <2>1, Zenon DEF Shape
<1>2. /\ cur \in Elements(f) /\ cur \in In(f, path[at])
      /\ End(f, path[at]) \in Nat /\ End(f, cur) \in Nat
  BY <1>1, FoundHere, ReaderHere
<1>3. PICK y \in NextIn(f, path[at], End(f, cur)) :
        /\ y \in Nat /\ cur < y /\ End(f, cur) <= y
        /\ \A x \in Elements(f) : x >= End(f, cur) => x >= y
        /\ Adjoins(f, cur, y)
  BY <1>1, NextHere
<1>4. y \in Nat /\ cur < y /\ End(f, cur) <= y /\ Adjoins(f, cur, y)
      /\ \A x \in Elements(f) : x >= End(f, cur) => x >= y
  BY <1>3
<1>5. Core(f, path, y)'
  BY <1>1, <1>3, LeaveTo
<1>6. /\ entries' = entries /\ cntNeeded' = cntNeeded /\ satrack' = satrack
      /\ dec' = dec
  BY Zenon DEF headerVars
<1>7. /\ PlacesBefore(f, y) = PlacesBefore(f, cur)
      /\ Listed(f, cur) => Listed(f, y)'
      /\ Counted(f, cur) => Counted(f, y)'
  BY <1>1, <1>2, <1>4, <1>6, PassedBy
<1>8. phase' = p
  BY Zenon DEF Continue
<1>9. p = "Segment" => y = Segment(f)
  <2> SUFFICES ASSUME p = "Segment" PROVE y = Segment(f)
    OBVIOUS
  <2>1. cur = 0
    <3>1. phase = "EBML"
      BY Zenon
    <3> QED BY <1>0, <3>1, Zenon
  <2>2. /\ Segment(f) = End(f, 0) /\ Segment(f) \in Elements(f)
        /\ Segment(f) \in Nat
    BY <1>1, SegmentIs
  <2>3. Segment(f) <= y
    BY <1>4, <2>1, <2>2, Zenon
  <2>4. Segment(f) >= End(f, cur)
    BY <2>1, <2>2
  <2>5. Segment(f) >= y
    BY <1>4, <2>2, <2>4, Zenon
  <2>6. \A z \in Nat : z <= y /\ z >= y => y = z
    BY <1>4
  <2> QED BY <2>2, <2>3, <2>5, <2>6, Zenon
<1>10. p # "Segment" => p = phase
  BY Zenon
<1>11. p = "decode" => p # "Segment"
  OBVIOUS
<1>12. p = "decode" => IdOf(f, path[3]) \in {Matroska_Info, Matroska_Tracks}
  BY <1>10, <1>11, HeaderIn, Zenon
<1>13. phase # "decode" \/ phase = p
  <2>1. "EBML" # "decode"
    OBVIOUS
  <2> QED BY <1>10, <2>1, Zenon
<1>14. Headed(f) /\ p # "decode" => Counted(f, y)'
  <2>1. Headed(f) /\ p # "decode" => Counted(f, cur)
    BY <1>13, HeaderIn, Zenon
  <2> QED BY <1>7, <2>1, Zenon
<1>15. Headed(f) /\ p = "decode" => Counted(f, path[3])'
  <2>1. Headed(f) /\ p = "decode" => Counted(f, path[3])
    BY <1>10, <1>11, HeaderIn, Zenon
  <2>2. Counted(f, path[3]) => Counted(f, path[3])'
    BY <1>6, CountedStill
  <2> QED BY <2>1, <2>2, Zenon
<1>16. Headed(f) => Listed(f, y)'
  <2>1. Headed(f) => Listed(f, cur)
    BY HeaderIn, Zenon
  <2> QED BY <1>7, <2>1, Zenon
<1>17. HeardPlaces = PlacesBefore(f, y)
  BY <1>1, <1>7, Zenon
<1> QED BY <1>1, <1>4, <1>5, <1>6, <1>8, <1>9, <1>12, <1>14, <1>15, <1>16,
           <1>17, HeaderOnward

\* The segment, Info or Tracks, or a struct in these is looked into.
Looks(f, path, cur, p) ==
  \/ p = "level 1" /\ cur = Segment(f) /\ Counted(f, cur)
  \/ /\ p = "decode" /\ at = 2 /\ Counted(f, cur)
     /\ IdOf(f, cur) \in {Matroska_Info, Matroska_Tracks}
  \/ /\ p = "decode" /\ at >= 3 /\ Counted(f, path[3])
     /\ IdOf(f, path[3]) \in {Matroska_Info, Matroska_Tracks}

\* Where the path goes on in it.
LEMMA Entering ==
  ASSUME Buffer, Chain, NEW f, Reads(f), NEW path, NEW cur, Core(f, path, cur),
         step = "element", Opens(f, cur), NothingRead,
         NEW p, Continue(p, at + 1)
  PROVE  \E y \in Nat, q \in Seq(Int) :
           /\ Core(f, q, y)' /\ cur < y /\ Adjoins(f, cur, y)
           /\ PlacesBefore(f, y) = PlacesBefore(f, cur)
           /\ at = 2 => q[3] = cur
           /\ at >= 3 => q[3] = path[3]
<1>1. f.bytes \in Seq(Byte) /\ WellFormed(f) /\ Tiled(f)
  BY ReadsIs
<1>2. cur \in Nat /\ cur \in Elements(f)
  BY FoundHere
<1>3. PICK y : y \in NextIn(f, cur, Body(f, cur))
  BY <1>1, <1>2, NextWithin
<1>4. y \in Nat /\ cur < y /\ Adjoins(f, cur, y)
  BY <1>1, <1>2, <1>3, NextWithin
<1>5. cur \notin BlocksIn(f)
  BY <1>1, BlockIs
<1>6. PlacesBefore(f, y) = PlacesBefore(f, cur)
  BY <1>1, <1>2, <1>4, <1>5, NothingBetween
<1>7. PICK q : q = Append(path, cur)
  OBVIOUS
<1>8. Core(f, Append(path, cur), y)'
  BY <1>3, EnterTo
<1>9. /\ Append(path, cur)[at + 1] = cur
      /\ \A k \in 1 .. at : Append(path, cur)[k] = path[k]
      /\ Append(path, cur) \in Seq(Int)
  <2>1. path \in Seq(Int) /\ Len(path) = at
    BY Zenon DEF Core, Along, PathIn
  <2>2. cur \in Int
    BY <1>2
  <2> QED BY <2>1, <2>2, AppendProperties
<1>10. /\ Core(f, q, y)' /\ q[at + 1] = cur
       /\ \A k \in 1 .. at : q[k] = path[k]
       /\ q \in Seq(Int)
  BY <1>7, <1>8, <1>9
<1>11. at \in Nat
  BY ReaderHere
<1>12. at = 2 => q[3] = cur
  BY <1>10
<1>13. at >= 3 => q[3] = path[3]
  BY <1>10, <1>11
<1> QED BY <1>4, <1>6, <1>10, <1>12, <1>13, Zenon

\* The segment itself does not count.
LEMMA CountedIn ==
  ASSUME NEW f, f.bytes \in Seq(Byte), WellFormed(f), Tiled(f),
         NEW y \in Nat, Segment(f) < y, Adjoins(f, Segment(f), y),
         Counted(f, Segment(f)), cntNeeded' = cntNeeded, satrack' = satrack
  PROVE  Counted(f, y)'
<1>1. PICK c \in Nat : c = Segment(f)
  BY SegmentIs
<1>2. \A x \in In(f, c) : ~(c <= x /\ x < y)
  <2> TAKE x \in In(f, c)
  <2>1. c # Top
    BY DEF Top
  <2>2. x \in Elements(f) /\ c < x
    BY <2>1, WithinIs
  <2>3. x \in Nat
    BY <2>2, ElementIs
  <2>4. x >= y
    BY <1>1, <2>2, <2>3 DEF Adjoins
  <2> QED BY <2>3, <2>4
<1>3. c <= y /\ Counted(f, c)
  BY <1>1
<1> QED BY <1>1, <1>2, <1>3, CountedSame

LEMMA HeaderEnters ==
  ASSUME Inv, NEW f, Reads(f), NEW path, NEW cur, Following(f, path, cur),
         phase \in InHeader, step = "element", Opens(f, cur), NothingRead,
         NEW p \in {"level 1", "decode"}, Continue(p, at + 1),
         p = "level 1" => cur = Segment(f),
         p = "decode" =>
           \/ at = 2 /\ IdOf(f, cur) \in {Matroska_Info, Matroska_Tracks}
           \/ at >= 3 /\ IdOf(f, path[3]) \in {Matroska_Info, Matroska_Tracks},
         Headed(f) => Looks(f, path, cur, p),
         cntNeeded' = cntNeeded, satrack' = satrack, dec' = dec,
         Blocks' = Blocks,
         \A y \in Nat : cur < y /\ Adjoins(f, cur, y) /\ Headed(f) =>
                          Listed(f, y)'
  PROVE  OnTrack(f)'
<1>1. /\ Buffer /\ Chain /\ Core(f, path, cur) /\ cur \in Nat
      /\ f.bytes \in Seq(Byte) /\ WellFormed(f) /\ Tiled(f)
      /\ at \in Nat /\ dec = 1 /\ Blocks = <<>>
      /\ HeardPlaces = PlacesBefore(f, cur)
  BY HeaderIn
<1>2. PICK y \in Nat, q \in Seq(Int) :
        /\ Core(f, q, y)' /\ cur < y /\ Adjoins(f, cur, y)
        /\ PlacesBefore(f, y) = PlacesBefore(f, cur)
        /\ at = 2 => q[3] = cur
        /\ at >= 3 => q[3] = path[3]
  BY <1>1, Entering, Zenon
<1>3. phase' = p /\ p # "Segment"
  BY Zenon DEF Continue
<1>6. p = "decode" => IdOf(f, q[3]) \in {Matroska_Info, Matroska_Tracks}
  BY <1>2, Zenon
<1>7. p # "decode" => p = "level 1"
  BY Zenon
<1>8. Headed(f) => Listed(f, y)'
  BY <1>2, Zenon
<1>9. "decode" # "level 1"
  OBVIOUS
<1>10. Headed(f) /\ p # "decode" => Counted(f, y)'
  <2> SUFFICES ASSUME Headed(f), p # "decode" PROVE Counted(f, y)'
    OBVIOUS
  <2>1. cur = Segment(f) /\ Counted(f, cur)
    BY <1>7, <1>9, Zenon DEF Looks
  <2>2. /\ Counted(f, Segment(f)) /\ Segment(f) < y
        /\ Adjoins(f, Segment(f), y)
    BY <1>2, <2>1, Zenon
  <2> QED BY <1>1, <2>2, CountedIn
<1>11. Headed(f) /\ p = "decode" => Counted(f, q[3])'
  <2> SUFFICES ASSUME Headed(f), p = "decode" PROVE Counted(f, q[3])'
    OBVIOUS
  <2>1. Counted(f, q[3])
    BY <1>2, <1>9, Zenon DEF Looks
  <2> QED BY <2>1, CountedStill
<1>12. HeardPlaces = PlacesBefore(f, y)
  BY <1>1, <1>2, Zenon
<1> QED BY <1>1, <1>2, <1>3, <1>6, <1>8, <1>10, <1>11, <1>12, HeaderOnward

LEMMA HeaderPasses ==
  ASSUME Inv, NEW f, Reads(f), NEW path, NEW cur, Following(f, path, cur),
         phase \in InHeader, step = "element", elem.len # Unknown,
         ~Opens(f, cur), cur \notin BlocksIn(f), NothingRead,
         NEW p \in {"Segment", "level 1", "decode"}, Continue(p, at),
         IF p = "Segment" THEN phase = "EBML" ELSE p = phase,
         UNCHANGED headerVars, Blocks' = Blocks
  PROVE  OnTrack(f)'
<1>1. Buffer /\ Chain /\ Core(f, path, cur)
  BY Zenon DEF Inv, Decoder, Following
<1>2. /\ readers' = readers /\ readers' \in Seq(Readers)
      /\ off' \in Nat /\ src' = off' + Len(buffered')
      /\ Ending(readers', off')
  BY <1>1, Unread
<1>3. elem = readers[at + 1]
  BY <1>1, FoundHere
<1>4. /\ Len(readers') = Len(readers)
      /\ \A k \in 1 .. at : readers'[k] = readers[k]
      /\ readers'[at + 1].end = elem.end
  BY <1>2, <1>3, Zenon
<1> QED BY <1>2, <1>4, HeaderLeaves, Zenon

LEMMA HeaderFalls ==
  ASSUME Inv, NEW f, Reads(f), NEW path, NEW cur, Following(f, path, cur),
         phase \in InHeader, ~Headed(f), at >= 2, NothingRead,
         Continue("content", 1), dec' = dec, Blocks' = Blocks
  PROVE  OnTrack(f)'
<1>1. Buffer /\ Chain /\ Core(f, path, cur)
  BY Zenon DEF Inv, Decoder, Following
<1>2. /\ readers' = readers /\ readers' \in Seq(Readers)
      /\ off' \in Nat /\ src' = off' + Len(buffered')
      /\ Ending(readers', off')
  BY <1>1, Unread
<1>3. /\ Len(readers') = Len(readers) /\ readers'[1] = readers[1]
      /\ readers'[2].end = readers[2].end
  BY <1>2, Zenon
<1> QED BY <1>2, <1>3, HeaderRestarts, Zenon

LEMMA ReadHeaderOn ==
  ASSUME Inv, NEW f, Reads(f), NEW path, NEW cur, Following(f, path, cur),
         ReadHeader
  PROVE  OnTrack(f)'
<1>1. /\ phase = "EBML" /\ NothingRead /\ UNCHANGED headerVars
      /\ Blocks' = Blocks
  BY Zenon DEF ReadHeader
<1>2. phase \in InHeader /\ phase \in {"EBML", "Segment"}
  BY <1>1 DEF InHeader
<1>3. /\ Buffer /\ Chain /\ Core(f, path, cur) /\ cur \in Nat
      /\ f.bytes \in Seq(Byte) /\ WellFormed(f) /\ Tiled(f)
  BY <1>2, HeaderIn
<1>4. cur = 0 /\ at = 1 /\ path[at] = Top
  BY <1>1, <1>2, HeaderIn, Zenon
<1>5. step # "error"
  <2> SUFFICES ASSUME step = "error" PROVE FALSE
    OBVIOUS
  <2>1. cur = End(f, path[at])
    BY <1>3, Zenon DEF Core, Here
  <2>2. cur = Len(f.bytes)
    BY <1>3, <1>4, <2>1, TopIs
  <2>3. Segment(f) < Len(f.bytes) /\ Segment(f) \in Nat
    BY <1>3, SegmentIs
  <2> QED BY <1>4, <2>2, <2>3
<1>6. step = "element" /\ Continue("Segment", 1)
  BY <1>5, Zenon DEF ReadHeader
<1>7. elem.len # Unknown
  <2>1. elem.len = LenAt(f.bytes, cur)
    BY <1>3, <1>6, FoundHere
  <2>2. /\ \A e \in Elements(f) : LenAt(f.bytes, e) = Unknown => e = Segment(f)
        /\ 0 \in Elements(f) /\ Segment(f) > 0
    BY <1>3, SegmentIs
  <2> QED BY <1>4, <2>1, <2>2
<1>8. ~Opens(f, cur)
  BY <1>3, <1>4, SegmentIs
<1>9. cur \notin BlocksIn(f)
  <2>1. f.within[0] = Top /\ IdOf(f, Top) = 0
    BY <1>3, SegmentIs, TopIs
  <2>2. 0 \notin {Matroska_Cluster, Matroska_BlockGroup}
    BY DEF Matroska_Cluster, Matroska_BlockGroup
  <2> QED BY <1>4, <2>1, <2>2, BlockWhere
<1>10. Continue("Segment", at)
  BY <1>4, <1>6
<1>11. "Segment" \in {"Segment", "level 1", "decode"}
  OBVIOUS
<1> QED BY <1>1, <1>2, <1>6, <1>7, <1>8, <1>9, <1>10, <1>11, HeaderPasses,
           Zenon

\* What is neither an entry nor audio is looked into.
LEMMA ListedIn ==
  ASSUME NEW f, f.bytes \in Seq(Byte), Tiled(f), NEW c \in Elements(f),
         c \notin Entries(f), c \notin Audios(f),
         NEW y \in Nat, c < y, Adjoins(f, c, y), entries' = entries,
         Listed(f, c)
  PROVE  Listed(f, y)'
<1>1. c \in Nat
  BY ElementIs
<1>2. c <= y
  BY <1>1
<1>3. \A x \in Elements(f) :
        c <= x /\ x < y => x \notin Entries(f) /\ x \notin Audios(f)
  <2> SUFFICES ASSUME NEW x \in Elements(f), c <= x, x < y PROVE x = c
    OBVIOUS
  <2>1. x \in Nat
    BY ElementIs
  <2>2. x > c => x >= y
    BY DEF Adjoins
  <2> QED BY <1>1, <2>1, <2>2
<1> QED BY <1>1, <1>2, <1>3, ListedSame

LEMMA ReadSegmentOn ==
  ASSUME Inv, NEW f, Reads(f), NEW path, NEW cur, Following(f, path, cur),
         ReadSegment
  PROVE  OnTrack(f)'
<1>1. /\ phase = "Segment" /\ NothingRead /\ UNCHANGED headerVars
      /\ Blocks' = Blocks
  BY Zenon DEF ReadSegment
<1>2. phase \in InHeader /\ phase \in {"EBML", "Segment"}
      /\ phase # "decode"
  BY <1>1 DEF InHeader
<1>3. /\ Buffer /\ Chain /\ Core(f, path, cur) /\ cur \in Nat
      /\ f.bytes \in Seq(Byte) /\ WellFormed(f) /\ Tiled(f)
  BY <1>2, HeaderIn
<1>4. cur = Segment(f) /\ at = 1 /\ path[at] = Top
  BY <1>1, <1>2, HeaderIn, Zenon
<1>5. step # "error"
  <2> SUFFICES ASSUME step = "error" PROVE FALSE
    OBVIOUS
  <2>1. cur = End(f, path[at])
    BY <1>3, Zenon DEF Core, Here
  <2>2. cur = Len(f.bytes)
    BY <1>3, <1>4, <2>1, TopIs
  <2>3. Segment(f) < Len(f.bytes) /\ Segment(f) \in Nat
    BY <1>3, SegmentIs
  <2> QED BY <1>4, <2>2, <2>3
<1>6. step = "element"
  BY <1>5, Zenon DEF ReadSegment
<1>7. /\ Segment(f) \in Elements(f) /\ Opens(f, Segment(f))
      /\ IdOf(f, Segment(f)) = Matroska_Segment
  BY <1>3, SegmentIs
<1>8. id = Matroska_Segment
  BY <1>3, <1>4, <1>6, <1>7, FoundHere
<1>9. Continue("level 1", 2)
  BY <1>5, <1>8, Zenon DEF ReadSegment
<1>10. Continue("level 1", at + 1)
  <2>1. at + 1 = 2
    BY <1>4
  <2> QED BY <1>9, <2>1, Zenon
<1>11. Segment(f) \notin Entries(f) /\ Segment(f) \notin Audios(f)
  BY <1>7 DEF Entries, Audios, Matroska_Segment, Matroska_TrackEntry,
              Matroska_Audio
<1>12. /\ Headed(f) => Listed(f, cur)
       /\ Headed(f) => Counted(f, cur)
  BY <1>2, HeaderIn, Zenon
<1>13. /\ cntNeeded' = cntNeeded /\ satrack' = satrack /\ dec' = dec
       /\ entries' = entries
  BY <1>1, Zenon DEF headerVars
<1>14. \A y \in Nat : cur < y /\ Adjoins(f, cur, y) /\ Headed(f) =>
                        Listed(f, y)'
  BY <1>3, <1>4, <1>7, <1>11, <1>12, <1>13, ListedIn
<1>15. Headed(f) => Looks(f, path, cur, "level 1")
  BY <1>4, <1>12, Zenon DEF Looks
<1>16. "level 1" \in {"level 1", "decode"} /\ "level 1" # "decode"
  OBVIOUS
<1> QED BY <1>1, <1>2, <1>4, <1>6, <1>7, <1>10, <1>13, <1>14, <1>15, <1>16,
           HeaderEnters, Zenon

\* With Info and Tracks behind it, ReadHeader has ended.
LEMMA HeaderDone ==
  ASSUME NEW f, f.bytes \in Seq(Byte), Tiled(f), NEW c \in Nat, Counted(f, c),
         \A x \in In(f, Segment(f)) :
           IdOf(f, x) \in {Matroska_Info, Matroska_Tracks} => x < c
  PROVE  cntNeeded = 2
<1>1. PICK i \in In(f, Segment(f)), t \in In(f, Segment(f)) :
        /\ InWith(f, Segment(f), Matroska_Info) = {i}
        /\ InWith(f, Segment(f), Matroska_Tracks) = {t}
        /\ cntNeeded = Done(i, c) + Done(t, c)
  BY Zenon DEF Counted
<1>2. IdOf(f, i) = Matroska_Info /\ IdOf(f, t) = Matroska_Tracks
  <2>1. i \in InWith(f, Segment(f), Matroska_Info)
        /\ t \in InWith(f, Segment(f), Matroska_Tracks)
    BY <1>1
  <2> QED BY <2>1 DEF InWith
<1>3. i < c /\ t < c
  BY <1>2
<1>4. Done(i, c) = 1 /\ Done(t, c) = 1
  BY <1>3, Zenon DEF Done
<1> QED BY <1>1, <1>4

LEMMA AtTwo == ASSUME NEW d, d = 2 PROVE d >= 2 /\ d + 1 = 3
OBVIOUS

LEMMA OneAtMost == ASSUME NEW d \in Nat, d <= 1 PROVE d # 2
OBVIOUS

\* An element begins before the end of the one it is in.
LEMMA BeforeEnd ==
  ASSUME NEW f, f.bytes \in Seq(Byte), Tiled(f), NEW e \in Elements(f),
         NEW x \in In(f, e)
  PROVE  x < End(f, e)
<1>1. x \in Elements(f) /\ End(f, x) <= End(f, e)
  BY WithinIs
<1>2. x \in Nat /\ x < Body(f, x) /\ Body(f, x) <= End(f, x)
      /\ Body(f, x) \in Nat /\ End(f, x) \in Nat /\ End(f, e) \in Nat
  BY <1>1, ElementIs
<1> QED BY <1>1, <1>2

\* It has not, where a complete header is decoded.
LEMMA HeaderGoesOn ==
  ASSUME Inv, NEW f, Reads(f), NEW path, NEW cur, Following(f, path, cur),
         phase = "level 1", Headed(f)
  PROVE  step # "error" /\ ~(step = "element" /\ id = Matroska_Cluster)
<1>1. phase \in InHeader /\ phase # "decode"
  BY DEF InHeader
<1>2. /\ Buffer /\ Chain /\ Core(f, path, cur) /\ cur \in Nat
      /\ f.bytes \in Seq(Byte) /\ WellFormed(f) /\ Tiled(f)
      /\ cntNeeded \in Nat /\ cntNeeded <= 1
  BY <1>1, HeaderIn
<1>3. at = 2 /\ Counted(f, cur)
  BY <1>1, HeaderIn, Zenon
<1>4. path[at] = Segment(f) /\ Segment(f) \in Elements(f)
  <2>1. at >= 2
    BY <1>3, AtTwo, Zenon
  <2> QED BY <1>2, <1>3, <2>1, InSegment, SegmentIs
<1>5. ~ \A x \in In(f, Segment(f)) :
          IdOf(f, x) \in {Matroska_Info, Matroska_Tracks} => x < cur
  <2>1. cntNeeded # 2
    BY <1>2, OneAtMost, Zenon
  <2> QED BY <1>2, <1>3, <2>1, HeaderDone
<1>6. ASSUME step = "error" PROVE FALSE
  <2>1. cur = End(f, Segment(f))
    BY <1>2, <1>4, <1>6, Zenon DEF Core, Here
  <2>2. ASSUME NEW x \in In(f, Segment(f)) PROVE x < cur
    <3>1. x < End(f, Segment(f))
      BY <1>2, <1>4, BeforeEnd, Zenon
    <3> QED BY <2>1, <3>1, Zenon
  <2> QED BY <1>5, <2>2, Zenon
<1>7. ASSUME step = "element", id = Matroska_Cluster PROVE FALSE
  <2>1. cur \in In(f, path[at]) /\ id = IdOf(f, cur)
    BY <1>2, <1>7, FoundHere
  <2>2. cur \in InWith(f, Segment(f), Matroska_Cluster)
    BY <1>4, <1>7, <2>1, Zenon DEF InWith
  <2>3. PICK i, t :
          /\ InWith(f, Segment(f), Matroska_Info) = {i}
          /\ InWith(f, Segment(f), Matroska_Tracks) = {t}
          /\ i < cur /\ t < cur
    BY <2>2, Zenon DEF Headed
  <2>4. ASSUME NEW x \in In(f, Segment(f)),
               IdOf(f, x) \in {Matroska_Info, Matroska_Tracks}
        PROVE  x < cur
    <3>1. x \in {i} \/ x \in {t}
      BY <2>3, <2>4, Zenon DEF InWith
    <3> QED BY <2>3, <3>1, Zenon
  <2> QED BY <1>5, <2>4, Zenon
<1> QED BY <1>6, <1>7

LEMMA ReadLevel1On ==
  ASSUME Inv, NEW f, Reads(f), NEW path, NEW cur, Following(f, path, cur),
         ReadLevel1
  PROVE  OnTrack(f)'
<1>1. /\ phase = "level 1" /\ NothingRead /\ UNCHANGED headerVars
      /\ Blocks' = Blocks
  BY Zenon DEF ReadLevel1
<1>2. phase \in InHeader /\ phase # "decode"
  BY <1>1 DEF InHeader
<1>3. /\ Buffer /\ Chain /\ Core(f, path, cur) /\ cur \in Nat
      /\ f.bytes \in Seq(Byte) /\ WellFormed(f) /\ Tiled(f)
  BY <1>2, HeaderIn
<1>4. at = 2
  BY <1>1, <1>2, HeaderIn, Zenon
<1>5. at >= 2 /\ at + 1 = 3
  BY <1>4
<1>6. path[at] = Segment(f)
      /\ (step = "element" => elem.len # Unknown)
  BY <1>3, <1>4, <1>5, InSegment
<1>7. IdOf(f, Segment(f)) = Matroska_Segment
  BY <1>3, SegmentIs
<1>8. /\ cntNeeded' = cntNeeded /\ satrack' = satrack /\ dec' = dec
      /\ entries' = entries
  BY <1>1, Zenon DEF headerVars
<1>9. /\ Headed(f) => Listed(f, cur)
      /\ Headed(f) => Counted(f, cur)
  BY <1>2, HeaderIn, Zenon
<1>10. step = "element" =>
         /\ cur \in Elements(f) /\ f.within[cur] = Segment(f)
         /\ id = IdOf(f, cur)
  <2>1. step = "element" => /\ cur \in Elements(f) /\ cur \in In(f, path[at])
                            /\ id = IdOf(f, cur)
    BY <1>3, FoundHere
  <2> QED BY <1>6, <2>1, Zenon DEF In
<1>11. CASE /\ step = "error" \/ Found({Matroska_Cluster})
            /\ Continue("content", 1)
  <2>1. Continue("content", 1)
    BY <1>11
  <2>2. ~Headed(f)
    BY <1>1, <1>11, HeaderGoesOn, Zenon DEF Found
  <2> QED BY <1>1, <1>2, <1>5, <1>8, <2>1, <2>2, HeaderFalls, Zenon
<1>12. CASE Found({Matroska_Info, Matroska_Tracks}) /\ Continue("decode", 3)
  <2>1. /\ step = "element"
        /\ id = Matroska_Info \/ id = Matroska_Tracks
    BY <1>12, Zenon DEF Found
  <2>2. IdOf(f, cur) \in {Matroska_Info, Matroska_Tracks}
    BY <1>10, <2>1, Zenon
  <2>3. Opens(f, cur)
    BY <1>7, <1>10, <2>1, <2>2, EnteredWhere, Zenon DEF Opens
  <2>4. Continue("decode", at + 1)
    BY <1>5, <1>12, Zenon
  <2>5. Matroska_Info \notin {Matroska_TrackEntry, Matroska_Audio}
        /\ Matroska_Tracks \notin {Matroska_TrackEntry, Matroska_Audio}
    BY DEF Matroska_Info, Matroska_Tracks, Matroska_TrackEntry, Matroska_Audio
  <2>6. cur \notin Entries(f) /\ cur \notin Audios(f)
    BY <2>2, <2>5, Zenon DEF Entries, Audios
  <2>7. cur \in Elements(f)
    BY <1>10, <2>1
  <2>8. \A y \in Nat : cur < y /\ Adjoins(f, cur, y) /\ Headed(f) =>
                         Listed(f, y)'
    BY <1>3, <1>8, <1>9, <2>6, <2>7, ListedIn, Zenon
  <2>9. Headed(f) => Looks(f, path, cur, "decode")
    BY <1>4, <1>9, <2>2, Zenon DEF Looks
  <2>10. "decode" \in {"level 1", "decode"} /\ "level 1" # "decode"
    OBVIOUS
  <2> QED BY <1>1, <1>2, <1>4, <1>8, <2>1, <2>2, <2>3, <2>4, <2>8, <2>9, <2>10,
             HeaderEnters, Zenon
<1>13. CASE /\ Other({Matroska_Info, Matroska_Tracks, Matroska_Cluster})
            /\ Continue("level 1", 2)
  <2>1. /\ step = "element"
        /\ id \notin {Matroska_Info, Matroska_Tracks, Matroska_Cluster}
    BY <1>13, Zenon DEF Other
  <2>2. ~Opens(f, cur)
    BY <1>7, <1>10, <2>1, EnteredWhere, Zenon DEF Opens
  <2>3. Matroska_Segment \notin {Matroska_Cluster, Matroska_BlockGroup}
    BY DEF Matroska_Segment, Matroska_Cluster, Matroska_BlockGroup
  <2>4. cur \notin BlocksIn(f)
    <3>1. IdOf(f, f.within[cur]) \notin {Matroska_Cluster, Matroska_BlockGroup}
      BY <1>7, <1>10, <2>1, <2>3, Zenon
    <3> QED BY <3>1, BlockWhere, Zenon
  <2>5. Continue("level 1", at)
    BY <1>4, <1>13, Zenon
  <2>6. "level 1" \in {"Segment", "level 1", "decode"}
        /\ "level 1" # "Segment"
    OBVIOUS
  <2>7. IF "level 1" = "Segment" THEN phase = "EBML" ELSE "level 1" = phase
    BY <1>1, <2>6, Zenon
  <2>8. elem.len # Unknown
    BY <1>6, <2>1
  <2> QED BY <1>1, <1>2, <2>1, <2>2, <2>4, <2>5, <2>6, <2>7, <2>8, HeaderPasses,
             Zenon
<1> QED BY <1>11, <1>12, <1>13, Zenon DEF ReadLevel1

\* Clusters and groups are no structs.
LEMMA NoStructs ==
  ASSUME NEW s \in StructIds
  PROVE  s # Matroska_Cluster /\ s # Matroska_BlockGroup
BY DEF StructIds, Matroska_Tracks, Matroska_Info,
       Matroska_Cluster, Matroska_BlockGroup,
       Matroska_ChapterTranslate, Matroska_TrackEntry,
       Matroska_TrackTranslate, Matroska_Audio, Matroska_Video,
       Matroska_AlphaMode, Matroska_Colour, Matroska_MasteringMetadata,
       Matroska_TrackOperation, Matroska_TrackPlane,
       Matroska_ContentEncoding, Matroska_ContentCompression,
       Matroska_ContentEncryption, Matroska_TrackCombinePlanes,
       Matroska_TrackJoinBlocks, Matroska_ContentEncodings

\* What is decoded is in a struct.
LEMMA InStruct ==
  ASSUME Inv, Located, NEW f, Reads(f), NEW path, NEW cur,
         Following(f, path, cur), phase = "decode", step = "element"
  PROVE  /\ cur \in Elements(f) /\ id = IdOf(f, cur)
         /\ IdOf(f, f.within[cur]) \in StructIds
         /\ Fields = getStructMapping(IdOf(f, f.within[cur]))
         /\ Opens(f, cur) <=> id \in DOMAIN Fields /\ Fields[id] = "struct"
         /\ cur \notin BlocksIn(f)
         /\ elem.len # Unknown
<1>1. phase \in InHeader
  BY DEF InHeader
<1>2. /\ Buffer /\ Chain /\ Core(f, path, cur)
      /\ f.bytes \in Seq(Byte) /\ WellFormed(f) /\ Tiled(f) /\ at \in Nat
  BY <1>1, HeaderIn
<1>3. at >= 3
  BY <1>1, HeaderIn, Zenon
<1>4. at \in 3 .. at /\ at >= 2
  BY <1>2, <1>3
<1>5. readers[at].id \in StructIds
  BY <1>4, Zenon DEF Located, Structs
<1>6. readers[at].id = IdOf(f, path[at])
  BY <1>2, ReaderHere, Zenon DEF Fits
<1>7. /\ cur \in Elements(f) /\ cur \in In(f, path[at]) /\ id = IdOf(f, cur)
  BY <1>2, FoundHere
<1>8. f.within[cur] = path[at]
  BY <1>7, Zenon DEF In
<1>9. IdOf(f, f.within[cur]) \in StructIds
  BY <1>5, <1>6, <1>8, Zenon
<1>10. Fields = getStructMapping(IdOf(f, f.within[cur]))
  BY <1>6, <1>8, Zenon DEF Fields
<1>11. Opens(f, cur) <=> id \in DOMAIN Fields /\ Fields[id] = "struct"
  <2>1. Entered(IdOf(f, f.within[cur])) =
          FieldsOfType(IdOf(f, f.within[cur]), {"struct"})
    BY <1>9, EnteredWhere, Zenon
  <2>2. Opens(f, cur) <=>
          id \in FieldsOfType(IdOf(f, f.within[cur]), {"struct"})
    BY <1>7, <2>1, Zenon DEF Opens
  <2> QED BY <1>10, <2>2, Zenon DEF FieldsOfType
<1>12. cur \notin BlocksIn(f)
  <2>1. Matroska_Cluster \notin StructIds /\ Matroska_BlockGroup \notin StructIds
    BY NoStructs, Zenon
  <2>2. IdOf(f, f.within[cur]) \notin {Matroska_Cluster, Matroska_BlockGroup}
    BY <1>9, <2>1, Zenon
  <2> QED BY <2>2, BlockWhere, Zenon
<1>13. elem.len # Unknown
  BY <1>2, <1>4, InSegment
<1> QED BY <1>7, <1>9, <1>10, <1>11, <1>12, <1>13, Zenon

LEMMA NotMappedOn ==
  ASSUME Inv, Located, NEW f, Reads(f), NEW path, NEW cur,
         Following(f, path, cur), NotMapped
  PROVE  OnTrack(f)'
<1>1. /\ phase = "decode" /\ step = "element" /\ id \notin DOMAIN Fields
      /\ Continue("decode", at) /\ NothingRead /\ UNCHANGED headerVars
      /\ Blocks' = Blocks
  BY Zenon DEF NotMapped, Other
<1>2. phase \in InHeader
  BY <1>1 DEF InHeader
<1>3. ~Opens(f, cur) /\ cur \notin BlocksIn(f) /\ elem.len # Unknown
  BY <1>1, InStruct, Zenon
<1>4. "decode" \in {"Segment", "level 1", "decode"} /\ "decode" # "Segment"
  OBVIOUS
<1>5. IF "decode" = "Segment" THEN phase = "EBML" ELSE "decode" = phase
  BY <1>1, <1>4, Zenon
<1> QED BY <1>1, <1>2, <1>3, <1>4, <1>5, HeaderPasses, Zenon

LEMMA unmarshalStructOn ==
  ASSUME Inv, Located, NEW f, Reads(f), NEW path, NEW cur,
         Following(f, path, cur), unmarshalStruct
  PROVE  OnTrack(f)'
<1>1. /\ phase = "decode" /\ step = "element" /\ id \in DOMAIN Fields
      /\ Fields[id] = "struct" /\ Continue("decode", at + 1)
      /\ entries' = CASE id = Matroska_TrackEntry -> Append(entries, FALSE)
                      [] id = Matroska_Audio ->
                           [entries EXCEPT ![Len(entries)] = TRUE]
                      [] OTHER -> entries
      /\ NothingRead /\ cntNeeded' = cntNeeded /\ satrack' = satrack
      /\ dec' = dec /\ Blocks' = Blocks
  BY Zenon DEF unmarshalStruct, Found
<1>2. phase \in InHeader
  BY <1>1 DEF InHeader
<1>3. /\ f.bytes \in Seq(Byte) /\ WellFormed(f) /\ Tiled(f)
      /\ entries \in Seq(BOOLEAN)
  BY <1>2, HeaderIn
<1>4. /\ at >= 3
      /\ IdOf(f, path[3]) \in {Matroska_Info, Matroska_Tracks}
  BY <1>1, <1>2, HeaderIn, Zenon
<1>5. /\ Headed(f) => Listed(f, cur)
      /\ Headed(f) => Counted(f, path[3])
  BY <1>1, <1>2, HeaderIn, Zenon
<1>6. Opens(f, cur) /\ cur \in Elements(f) /\ id = IdOf(f, cur)
  BY <1>1, InStruct, Zenon
<1>7. Matroska_TrackEntry # Matroska_Audio
  BY DEF Matroska_TrackEntry, Matroska_Audio
<1>8. ASSUME NEW y \in Nat, cur < y, Adjoins(f, cur, y), Headed(f)
      PROVE  Listed(f, y)'
  <2>1. Listed(f, cur)
    BY <1>5, <1>8
  <2>2. CASE id = Matroska_TrackEntry
    <3>1. cur \in Entries(f)
      BY <1>3, <1>6, <2>2, LevelsAre
    <3>2. entries' = Append(entries, FALSE)
      BY <1>1, <1>7, <2>2, Zenon
    <3> QED BY <1>3, <1>8, <2>1, <3>1, <3>2, ListedEntry, Zenon
  <2>3. CASE id = Matroska_Audio
    <3>1. f.within[cur] \in Entries(f)
      BY <1>3, <1>6, <2>3, LevelsAre
    <3>2. cur \in Audios(f)
      BY <1>6, <2>3, <3>1, Zenon DEF Audios
    <3>3. entries' = [entries EXCEPT ![Len(entries)] = TRUE]
      BY <1>1, <1>7, <2>3, Zenon
    <3> QED BY <1>3, <1>8, <2>1, <3>2, <3>3, ListedAudio, Zenon
  <2>4. CASE id # Matroska_TrackEntry /\ id # Matroska_Audio
    <3>1. cur \notin Entries(f) /\ cur \notin Audios(f)
      BY <1>6, <2>4, Zenon DEF Entries, Audios
    <3>2. entries' = entries
      BY <1>1, <2>4, Zenon
    <3> QED BY <1>3, <1>6, <1>8, <2>1, <3>1, <3>2, ListedIn, Zenon
  <2> QED BY <2>2, <2>3, <2>4, Zenon
<1>9. Headed(f) => Looks(f, path, cur, "decode")
  BY <1>4, <1>5, Zenon DEF Looks
<1>10. "decode" \in {"level 1", "decode"} /\ "level 1" # "decode"
  OBVIOUS
<1> QED BY <1>1, <1>2, <1>4, <1>6, <1>8, <1>9, <1>10, HeaderEnters, Zenon

\* Values of a well-formed file have room in the buffer, and those of a complete
\* header are not refused.
LEMMA ValueOfFile ==
  ASSUME NEW f, WellFormed(f), NEW c \in Elements(f),
         NEW t \in DOMAIN Lengths,
         IdOf(f, f.within[c]) \in StructIds,
         IdOf(f, c) \in DOMAIN getStructMapping(IdOf(f, f.within[c])),
         getStructMapping(IdOf(f, f.within[c]))[IdOf(f, c)] = t
  PROVE  /\ c \in Values(f)
         /\ LenAt(f.bytes, c) \in Lengths[t] => LenAt(f.bytes, c) <= BufferSize
         /\ Headed(f) => LenAt(f.bytes, c) \in Lengths[t]
                         /\ LenAt(f.bytes, c) # 0
<1>1. t = "int" \/ t = "string" \/ t = "float" \/ t = "bytes"
  BY DEF Lengths
<1>2. t \in {"int", "float", "string", "bytes"}
  BY <1>1
<1>3. FieldOf(f, c) = t
  BY Zenon DEF FieldOf
<1>4. c \in Values(f)
  BY <1>2, Zenon DEF Values, FieldsOfType
<1>5. PICK n : n = LenAt(f.bytes, c)
  OBVIOUS
<1>6. t = "bytes" => n <= BufferSize
  BY <1>3, <1>4, <1>5, Zenon DEF WellFormed
<1>7. Headed(f) => n \in CASE t = "int" -> 1 .. 8
                            [] t = "float" -> {4, 8}
                            [] OTHER -> 1 .. BufferSize
  BY <1>3, <1>4, <1>5, Zenon DEF Headed
<1>8. BufferSize \in Nat /\ BufferSize >= 8
  BY BufferSizeAssumption
<1>9. /\ Lengths["int"] = 0 .. 8 /\ Lengths["string"] = 0 .. BufferSize
      /\ Lengths["float"] = {4, 8} /\ Lengths["bytes"] = Nat
  BY DEF Lengths
<1>10. /\ "int" # "float" /\ "string" # "int" /\ "string" # "float"
       /\ "bytes" # "int" /\ "bytes" # "float"
  OBVIOUS
<1>11. /\ n \in 0 .. 8 => n <= BufferSize
       /\ n \in 0 .. BufferSize => n <= BufferSize
       /\ n \in {4, 8} => n <= BufferSize
  BY <1>8
<1>12. n \in Lengths[t] => n <= BufferSize
  BY <1>1, <1>6, <1>9, <1>11, Zenon
<1>13. /\ n \in 1 .. 8 => n \in 0 .. 8 /\ n # 0
       /\ n \in 1 .. BufferSize => n \in 0 .. BufferSize /\ n # 0 /\ n \in Nat
       /\ n \in {4, 8} => n # 0
  BY <1>8
<1>14. ASSUME Headed(f) PROVE n \in Lengths[t] /\ n # 0
  <2>1. CASE t = "int"
    <3>1. n \in 1 .. 8
      BY <1>7, <1>14, <2>1, Zenon
    <3> QED BY <1>9, <1>13, <2>1, <3>1, Zenon
  <2>2. CASE t = "float"
    <3>1. n \in {4, 8}
      BY <1>7, <1>10, <1>14, <2>2, Zenon
    <3> QED BY <1>9, <1>13, <2>2, <3>1, Zenon
  <2>3. CASE t = "string" \/ t = "bytes"
    <3>1. t # "int" /\ t # "float"
      BY <1>10, <2>3, Zenon
    <3>2. n \in 1 .. BufferSize
      BY <1>7, <1>14, <3>1, Zenon
    <3> QED BY <1>9, <1>13, <2>3, <3>2, Zenon
  <2> QED BY <1>1, <2>1, <2>2, <2>3, Zenon
<1> QED BY <1>4, <1>5, <1>12, <1>14, Zenon

\* The source ends in a value of the header.
LEMMA ValueMissing ==
  ASSUME Buffer, Chain, NEW f, Reads(f), NEW path, NEW cur, Core(f, path, cur),
         step = "element", elem.len # Unknown, cur \in Values(f),
         dec' = 1, Blocks' = <<>>, Continue("content", 1),
         Len(bytes) < off + elem.len,
         bytes' = bytes, file' = file,
         off' = off, src' = Len(bytes), buffered' = buffered
  PROVE  OnTrack(f)'
<1>1. /\ off = Body(f, cur) /\ off <= Len(bytes) /\ off \in Nat
      /\ off + elem.len = End(f, cur) /\ elem.len \in Nat
      /\ cur \in Elements(f)
  BY FoundHere, ReaderHere
<1>2. /\ Len(bytes) \in Nat /\ Len(f.bytes) \in Nat
      /\ f.bytes \in Seq(Byte) /\ WellFormed(f) /\ Tiled(f)
      /\ Cut <=> Len(bytes) < Len(f.bytes)
  BY ReadsIs
<1>3. End(f, cur) <= Len(f.bytes)
  BY <1>1, <1>2, EndsIn
<1>4. Len(bytes) < Len(f.bytes)
  BY <1>1, <1>2, <1>3
<1>5. Cut'
  <2>1. Cut
    BY <1>2, <1>4, Zenon
  <2> QED BY <2>1, Zenon DEF Cut
<1>6. Sound(f)'
  BY <1>2, SoundStillUnheard
<1>7. phase' = "content" /\ step' = "skip"
  BY Zenon DEF Continue, ReadNext
<1>8. phase' \notin InHeader
  BY <1>7 DEF InHeader
<1>9. CASE off < Len(bytes)
  <2>1. Body(f, cur) < Len(bytes') /\ Len(bytes') < End(f, cur)
    BY <1>1, <1>9
  <2>2. LostIn(f)'
    BY <1>8, <2>1, Zenon DEF LostIn
  <2> QED BY <1>5, <1>6, <2>2, CutOn
<1>10. CASE ~(off < Len(bytes))
  <2>1. /\ off + Len(buffered) <= src /\ src \in 0 .. Len(bytes)
        /\ Len(buffered) \in Nat
    BY LenProperties DEF Buffer
  <2>2. Len(buffered) = 0
    BY <1>1, <1>2, <1>10, <2>1
  <2>3. Left' = 0
    BY <1>2 DEF Left
  <2>4. Len(buffered') = 0 /\ 0 \in Nat /\ 0 <= 6
    BY <2>2
  <2>5. step' \notin {"id rest", "size", "size rest", "element"}
    BY <1>7
  <2>6. Over'
    BY <2>3, <2>4, <2>5, OverAfter
  <2> QED BY <1>5, <1>6, <2>6, CutOn
<1> QED BY <1>9, <1>10

LEMMA unmarshalUnknownOn ==
  ASSUME Inv, Located, NEW f, Reads(f), NEW path, NEW cur,
         Following(f, path, cur), unmarshalUnknown
  PROVE  OnTrack(f)'
<1>1. phase = "decode" /\ step = "element" /\ elem.len = Unknown
  BY Zenon DEF unmarshalUnknown, Found
<1>2. elem.len # Unknown
  BY <1>1, InStruct, Zenon
<1> QED BY <1>1, <1>2

LEMMA unmarshalOn ==
  ASSUME Inv, Located, NEW f, Reads(f), NEW path, NEW cur,
         Following(f, path, cur), unmarshal
  PROVE  OnTrack(f)'
<1> DEFINE t == Fields[id]
           l == Lengths[t]
<1>1. PICK o \in ReadValue(l) :
        /\ phase = "decode" /\ step = "element"
        /\ id \in DOMAIN Fields /\ t \in DOMAIN Lengths
        /\ ReadsValue(o) /\ Blocks' = Blocks
        /\ IF o.err = "none"
           THEN Continue("decode", at) /\ UNCHANGED headerVars
           ELSE HeaderFails
  BY Zenon DEF unmarshal, Found
<1>2. phase \in InHeader
  BY <1>1 DEF InHeader
<1>3. /\ Buffer /\ Chain /\ Core(f, path, cur)
      /\ f.bytes \in Seq(Byte) /\ WellFormed(f) /\ at \in Nat
      /\ dec = 1 /\ Blocks = <<>>
  BY <1>2, HeaderIn
<1>4. at >= 3
  BY <1>1, <1>2, HeaderIn, Zenon
<1>5. at >= 2 /\ 1 \in 1 .. at /\ 2 \in 1 .. at
  BY <1>3, <1>4
<1>6. /\ cur \in Elements(f) /\ id = IdOf(f, cur)
      /\ IdOf(f, f.within[cur]) \in StructIds
      /\ Fields = getStructMapping(IdOf(f, f.within[cur]))
      /\ Opens(f, cur) <=> id \in DOMAIN Fields /\ Fields[id] = "struct"
      /\ cur \notin BlocksIn(f) /\ elem.len # Unknown
  BY <1>1, InStruct, Zenon
<1>7. /\ IdOf(f, cur) \in DOMAIN getStructMapping(IdOf(f, f.within[cur]))
      /\ getStructMapping(IdOf(f, f.within[cur]))[IdOf(f, cur)] = t
  BY <1>1, <1>6, Zenon
<1>8. elem.len = LenAt(f.bytes, cur)
  BY <1>1, <1>3, FoundHere
<1>9. /\ cur \in Values(f)
      /\ elem.len \in l => elem.len <= BufferSize
      /\ Headed(f) => elem.len \in l /\ elem.len # 0
  BY <1>1, <1>3, <1>6, <1>7, <1>8, ValueOfFile, Zenon
<1>10. o \in ReadValue(l)
  OBVIOUS
<1>15. t # "struct"
  BY <1>1 DEF Lengths
<1>16. Fields[id] # "struct"
  BY <1>15
<1> HIDE DEF t, l
<1>11. /\ elem.len \in Nat /\ bytes' = bytes /\ file' = file
       /\ readers' \in Seq(Readers) /\ Len(readers') = Len(readers)
       /\ \A k \in 1 .. at : readers'[k] = readers[k]
       /\ readers'[at + 1].end = elem.end
       /\ \/ /\ elem.len \in l /\ elem.len # 0 /\ Taken(o, elem.len)
             /\ off' \in Nat /\ src' = off' + Len(buffered')
             /\ Ending(readers', off')
          \/ /\ Refused(o, elem.len, l)
             /\ off' \in Nat /\ src' = off' + Len(buffered')
             /\ Ending(readers', off')
          \/ /\ elem.len \in l /\ elem.len # 0 /\ Missing(o, elem.len)
             /\ off' = off /\ src' = Len(bytes) /\ buffered' = buffered
  BY <1>1, <1>3, <1>6, <1>9, <1>10, ValueLeft
<1>12. CASE /\ Taken(o, elem.len)
            /\ off' \in Nat /\ src' = off' + Len(buffered')
            /\ Ending(readers', off')
  <2>1. Continue("decode", at) /\ UNCHANGED headerVars
    BY <1>1, <1>12, Zenon DEF Taken
  <2>3. ~Opens(f, cur)
    BY <1>6, <1>16, Zenon
  <2>4. "decode" \in {"Segment", "level 1", "decode"}
        /\ "decode" # "Segment"
    OBVIOUS
  <2>5. IF "decode" = "Segment" THEN phase = "EBML" ELSE "decode" = phase
    BY <1>1, <2>4, Zenon
  <2> QED BY <1>1, <1>2, <1>6, <1>11, <1>12, <2>1, <2>3, <2>4, <2>5,
             HeaderLeaves, Zenon
<1>13. CASE /\ Refused(o, elem.len, l)
            /\ off' \in Nat /\ src' = off' + Len(buffered')
            /\ Ending(readers', off')
  <2>1. HeaderFails
    BY <1>1, <1>13, Zenon DEF Refused
  <2>2. Continue("content", 1) /\ dec' = dec
    BY <2>1, Zenon DEF HeaderFails
  <2>3. ~Headed(f)
    BY <1>9, <1>13, Zenon DEF Refused
  <2>4. readers'[1] = readers[1] /\ readers'[2].end = readers[2].end
    BY <1>5, <1>11, Zenon
  <2> QED BY <1>1, <1>2, <1>5, <1>11, <1>13, <2>2, <2>3, <2>4, HeaderRestarts,
             Zenon
<1>14. CASE /\ Missing(o, elem.len)
            /\ off' = off /\ src' = Len(bytes) /\ buffered' = buffered
  <2>1. HeaderFails
    BY <1>1, <1>14, Zenon DEF Missing
  <2>2. Continue("content", 1) /\ dec' = dec
    BY <2>1, Zenon DEF HeaderFails
  <2>3. Len(bytes) < off + elem.len
    BY <1>14, Zenon DEF Missing
  <2>4. dec' = 1 /\ Blocks' = <<>>
    BY <1>1, <1>3, <2>2, Zenon
  <2> QED BY <1>1, <1>3, <1>6, <1>9, <1>11, <1>14, <2>2, <2>3, <2>4,
             ValueMissing, Zenon
<1> QED BY <1>11, <1>12, <1>13, <1>14, Zenon

\* Where the reader goes on after the end of an element.
LEMMA BackFrom ==
  ASSUME Buffer, Chain, NEW f, Reads(f), NEW path, NEW cur, Core(f, path, cur),
         step = "error", at >= 3, NothingRead,
         NEW p, Continue(p, at - 1)
  PROVE  /\ cur = End(f, path[at]) /\ err = "EOF"
         /\ \E y \in Nat, q \in Seq(Int) :
              /\ Core(f, q, y)' /\ cur <= y /\ path[at] < y
              /\ PlacesBefore(f, y) = PlacesBefore(f, cur)
              /\ \A x \in Elements(f) : x >= cur => x >= y
              /\ at > 3 => q[3] = path[3]
<1>1. f.bytes \in Seq(Byte) /\ WellFormed(f) /\ Tiled(f)
  BY ReadsIs
<1>2. cur = End(f, path[at]) /\ err = "EOF"
  BY Zenon DEF Core, Here
<1>3. at \in Nat /\ at \in 1 .. Len(path) /\ End(f, path[at]) \in Nat
  BY ReaderHere
<1>4. PathIn(f, path) /\ Len(path) = at
  BY Zenon DEF Core, Along
<1>5. PICK k \in Nat : k = at - 1
  BY <1>3
<1>6. k \in 1 .. Len(path) /\ at >= 2 /\ at - 1 = k /\ k >= 2
  BY <1>3, <1>4, <1>5
<1>7. path[at] \in Elements(f) /\ path[at] \in In(f, path[k])
  BY <1>1, <1>3, <1>4, <1>6, PathIs
<1>8. End(f, path[k]) \in Nat
  BY <1>1, <1>4, <1>6, PathIs
<1>9. PICK y : y \in NextIn(f, path[k], End(f, path[at]))
  BY <1>1, <1>7, <1>8, NextAfter
<1>10. /\ y \in Nat /\ path[at] < y /\ End(f, path[at]) <= y
       /\ \A x \in Elements(f) : x >= End(f, path[at]) => x >= y
  BY <1>1, <1>7, <1>8, <1>9, NextAfter
<1>11. y \in NextIn(f, path[at - 1], cur)
  BY <1>2, <1>6, <1>9
<1>12. PICK q \in Seq(Int) : /\ Core(f, q, y)' /\ Len(q) = at - 1
                             /\ \A j \in 1 .. at - 1 : q[j] = path[j]
  BY <1>11, BackTo
<1>13. at > 3 => q[3] = path[3]
  BY <1>3, <1>12
<1>14. PlacesBefore(f, y) = PlacesBefore(f, cur)
  BY <1>1, <1>2, <1>3, <1>10, <1>11, NothingTo
<1> QED BY <1>2, <1>10, <1>12, <1>13, <1>14, Zenon

\* Nothing is between the end of an element and what follows it.
LEMMA ListedTo ==
  ASSUME NEW f, f.bytes \in Seq(Byte), Tiled(f), NEW c \in Nat, NEW y \in Nat,
         c <= y, \A x \in Elements(f) : x >= c => x >= y,
         entries' = entries, Listed(f, c)
  PROVE  Listed(f, y)'
<1>1. \A x \in Elements(f) : ~(c <= x /\ x < y)
  <2> TAKE x \in Elements(f)
  <2>1. x \in Nat
    BY ElementIs
  <2>2. x >= c => x >= y
    OBVIOUS
  <2> QED BY <2>1, <2>2
<1> QED BY <1>1, ListedSame

\* Info or Tracks was decoded.
LEMMA CountedEnd ==
  ASSUME NEW f, f.bytes \in Seq(Byte), WellFormed(f), Tiled(f),
         NEW m \in In(f, Segment(f)),
         IdOf(f, m) \in {Matroska_Info, Matroska_Tracks},
         NEW y \in Nat, m < y,
         \A x \in Elements(f) : x >= End(f, m) => x >= y,
         entries \in Seq(BOOLEAN), Listed(f, End(f, m)), Counted(f, m),
         cntNeeded' = cntNeeded + 1,
         satrack' = IF IdOf(f, m) = Matroska_Tracks
                    THEN Max({i \in DOMAIN entries : entries[i]} \cup {satrack})
                    ELSE satrack
  PROVE  Counted(f, y)'
<1>1. m \in Elements(f) /\ f.within[m] = Segment(f)
  BY DEF In
<1>2. m \in Nat /\ End(f, m) \in Nat /\ Segment(f) \in Nat /\ Segment(f) < m
  <2>1. Segment(f) \in Nat /\ Segment(f) # Top
    BY SegmentIs DEF Top
  <2> QED BY <1>1, <2>1, ElementIs, WithinIs
<1>3. ASSUME NEW x \in In(f, Segment(f)), x > m PROVE x >= y
  <2>1. x \in Elements(f) /\ f.within[x] = Segment(f)
    BY DEF In
  <2>2. x < End(f, m) => f.within[x] >= m
    BY <1>1, <1>3, <2>1, Beyond
  <2>3. x \in Nat
    BY <2>1, ElementIs
  <2>4. x >= End(f, m)
    BY <1>2, <2>1, <2>2, <2>3
  <2> QED BY <2>1, <2>4
<1>4. ASSUME IdOf(f, m) = Matroska_Tracks
      PROVE  satrack' = AudioTrackOf(f)
  <2>1. satrack = 0 /\ InWith(f, Segment(f), Matroska_Tracks) = {m}
    BY <1>4, NotSelected
  <2>2. Max({i \in DOMAIN entries : entries[i]} \cup {0}) = AudioTrackOf(f)
    BY <2>1, SelectedIs
  <2> QED BY <1>4, <2>1, <2>2, Zenon
<1>5. satrack' = IF IdOf(f, m) = Matroska_Tracks THEN AudioTrackOf(f)
                 ELSE satrack
  BY <1>4, Zenon
<1> QED BY <1>3, <1>5, CountedOne

\* Both were: the header is complete, and the track is selected.
LEMMA SelectedOfFile ==
  ASSUME NEW f, NEW y, Counted(f, y)', cntNeeded' = 2
  PROVE  satrack' = AudioTrackOf(f)
<1>1. PICK i \in In(f, Segment(f)), t \in In(f, Segment(f)) :
        /\ cntNeeded' = Done(i, y) + Done(t, y)
        /\ satrack' = IF t < y THEN AudioTrackOf(f) ELSE 0
  BY Zenon DEF Counted
<1>2. Done(i, y) \in {0, 1}
  BY DEF Done
<1>3. Done(t, y) \in {0, 1}
  BY DEF Done
<1>4. Done(t, y) = 1
  BY <1>1, <1>2, <1>3
<1>5. t < y
  BY <1>4 DEF Done
<1> QED BY <1>1, <1>5, Zenon

\* The header is accepted.
LEMMA HeaderAccepted ==
  ASSUME NEW f, Blocks' = Blocks, dec' = 2, phase' = "content",
         NEW q, NEW y \in Nat, Core(f, q, y)', HeardPlaces = PlacesBefore(f, y),
         Headed(f) => satrack' = AudioTrackOf(f)
  PROVE  OnTrack(f)'
<1>1. phase' \notin InHeader /\ phase' \in Phases
  BY DEF InHeader, Phases
<1>2. phase' \notin {"EBML", "Segment", "decode", "timestamp", "blocks",
                     "group"}
  OBVIOUS
<1>3. ~(dec' = 1)
  BY NotTwo
<1>4. Shape(f, q, y)'
  BY <1>1, <1>2, <1>3, Zenon DEF Shape
<1>5. HeardPlaces' = HeardPlaces
  BY Zenon DEF HeardPlaces
<1>6. Hears(f, y)'
  BY <1>3, <1>5, Zenon DEF Hears
<1>7. Headed(f) => Heading(f, q, y)'
  BY <1>1, <1>3, Zenon DEF Heading
<1>8. Following(f, q, y)'
  BY <1>4, <1>6, <1>7, Zenon DEF Following
<1> QED BY <1>8, FollowingOn

LEMMA AtThree == ASSUME NEW d, d = 3 PROVE d >= 2 /\ d >= 3 /\ d - 1 = 2
OBVIOUS
LEMMA AboveThree ==
  ASSUME NEW d \in Nat, d > 3
  PROVE  d >= 2 /\ d >= 3
OBVIOUS

\* Info or Tracks ends.
LEMMA DecodedOn ==
  ASSUME Inv, NEW f, Reads(f), NEW path, NEW cur, Following(f, path, cur),
         phase = "decode", step = "error", at = 3, NothingRead,
         Decoded, entries' = entries, Blocks' = Blocks
  PROVE  OnTrack(f)'
<1>1. phase \in InHeader
  BY DEF InHeader
<1>2. /\ Buffer /\ Chain /\ Core(f, path, cur) /\ cur \in Nat
      /\ f.bytes \in Seq(Byte) /\ WellFormed(f) /\ Tiled(f)
      /\ entries \in Seq(BOOLEAN)
      /\ dec = 1 /\ Blocks = <<>> /\ HeardPlaces = PlacesBefore(f, cur)
  BY <1>1, HeaderIn
<1>3. /\ IdOf(f, path[3]) \in {Matroska_Info, Matroska_Tracks}
      /\ Headed(f) => Listed(f, cur)
      /\ Headed(f) => Counted(f, path[3])
  BY <1>1, HeaderIn, Zenon
<1>4. at >= 2 /\ at >= 3 /\ at - 1 = 2
  BY AtThree
<1>5. path[3] \in In(f, Segment(f))
  BY <1>2, <1>4, InSegment
<1>6. readers[3].id = IdOf(f, path[3])
  <2>1. Fits(f, readers[at], path[at])
    BY <1>2, ReaderHere
  <2> QED BY <2>1, Zenon DEF Fits
<1>7. /\ cntNeeded' = cntNeeded + 1
      /\ satrack' = IF IdOf(f, path[3]) = Matroska_Tracks
                    THEN Max({i \in DOMAIN entries : entries[i]} \cup {satrack})
                    ELSE satrack
  BY <1>6, Zenon DEF Decoded
<1>8. PICK p : Continue(p, 2)
  BY Zenon DEF Decoded
<1>9. Continue(p, at - 1)
  BY <1>4, <1>8
<1>10. cur = End(f, path[at])
  BY <1>2, <1>4, <1>9, BackFrom, Zenon
<1>11. PICK y \in Nat, q \in Seq(Int) :
         /\ Core(f, q, y)' /\ cur <= y /\ path[at] < y
         /\ PlacesBefore(f, y) = PlacesBefore(f, cur)
         /\ \A x \in Elements(f) : x >= cur => x >= y
  BY <1>2, <1>4, <1>9, BackFrom, Zenon
<1>12. /\ cur = End(f, path[3]) /\ path[3] < y
       /\ \A x \in Elements(f) : x >= End(f, path[3]) => x >= y
  BY <1>10, <1>11, Zenon
<1>13. HeardPlaces = PlacesBefore(f, y)
  BY <1>2, <1>11, Zenon
<1>14. Headed(f) => Counted(f, y)'
  <2> SUFFICES ASSUME Headed(f) PROVE Counted(f, y)'
    OBVIOUS
  <2>1. Listed(f, End(f, path[3])) /\ Counted(f, path[3])
    BY <1>3, <1>12, Zenon
  <2> QED BY <1>2, <1>3, <1>5, <1>7, <1>12, <2>1, CountedEnd, Zenon
<1>15. Headed(f) => Listed(f, y)'
  BY <1>2, <1>3, <1>11, ListedTo, Zenon
<1>16. CASE cntNeeded' = 2
  <2>1. dec' = 2 /\ phase' = "content"
    BY <1>16, Zenon DEF Decoded, Continue
  <2>2. Headed(f) => satrack' = AudioTrackOf(f)
    BY <1>14, <1>16, SelectedOfFile, Zenon
  <2> QED BY <1>11, <1>13, <2>1, <2>2, HeaderAccepted, Zenon
<1>17. CASE ~(cntNeeded' = 2)
  <2>1. dec' = dec /\ phase' = "level 1"
    BY <1>17, Zenon DEF Decoded, Continue
  <2>2. /\ phase' \in {"Segment", "level 1", "decode"}
        /\ phase' # "Segment" /\ phase' # "decode"
    BY <2>1
  <2> QED BY <1>2, <1>11, <1>13, <1>14, <1>15, <2>1, <2>2, HeaderOnward, Zenon
<1> QED BY <1>16, <1>17, Zenon

LEMMA EndOfStructOn ==
  ASSUME Inv, NEW f, Reads(f), NEW path, NEW cur, Following(f, path, cur),
         EndOfStruct
  PROVE  OnTrack(f)'
<1>1. /\ phase = "decode" /\ step = "error" /\ NothingRead /\ Blocks' = Blocks
  BY Zenon DEF EndOfStruct
<1>2. phase \in InHeader
  BY <1>1 DEF InHeader
<1>3. /\ Buffer /\ Chain /\ Core(f, path, cur) /\ cur \in Nat /\ at \in Nat
      /\ f.bytes \in Seq(Byte) /\ WellFormed(f) /\ Tiled(f)
      /\ dec = 1 /\ Blocks = <<>> /\ HeardPlaces = PlacesBefore(f, cur)
  BY <1>2, HeaderIn
<1>4. err = "EOF"
  BY <1>1, <1>3, Zenon DEF Core, Here
<1>5. \/ at = 3 /\ Decoded /\ entries' = entries
      \/ /\ at > 3 /\ Continue("decode", at - 1) /\ entries' = entries
         /\ cntNeeded' = cntNeeded /\ satrack' = satrack /\ dec' = dec
  BY <1>4, Zenon DEF EndOfStruct
<1>6. CASE at = 3 /\ Decoded /\ entries' = entries
  BY <1>1, <1>6, DecodedOn, Zenon
<1>7. CASE /\ at > 3 /\ Continue("decode", at - 1) /\ entries' = entries
           /\ cntNeeded' = cntNeeded /\ satrack' = satrack /\ dec' = dec
  <2>1. at >= 2 /\ at >= 3
    BY <1>3, <1>7, AboveThree, Zenon
  <2>2. PICK y \in Nat, q \in Seq(Int) :
          /\ Core(f, q, y)' /\ cur <= y
          /\ PlacesBefore(f, y) = PlacesBefore(f, cur)
          /\ \A x \in Elements(f) : x >= cur => x >= y
          /\ at > 3 => q[3] = path[3]
    BY <1>1, <1>3, <1>7, <2>1, BackFrom, ZenonT(60)
  <2>3. q[3] = path[3]
    BY <1>7, <2>2, Zenon
  <2>4. /\ IdOf(f, q[3]) \in {Matroska_Info, Matroska_Tracks}
        /\ Headed(f) => Listed(f, cur)
        /\ Headed(f) => Counted(f, q[3])
    BY <1>1, <1>2, <2>3, HeaderIn, Zenon
  <2>5. Headed(f) => Listed(f, y)'
    BY <1>3, <1>7, <2>2, <2>4, ListedTo, Zenon
  <2>6. Headed(f) => Counted(f, q[3])'
    BY <1>7, <2>4, CountedStill, Zenon
  <2>7. phase' = "decode"
    BY <1>7, Zenon DEF Continue
  <2>8. phase' \in {"Segment", "level 1", "decode"} /\ phase' # "Segment"
    BY <2>7
  <2>9. HeardPlaces = PlacesBefore(f, y)
    BY <1>3, <2>2, Zenon
  <2> QED BY <1>1, <1>3, <1>7, <2>2, <2>4, <2>5, <2>6, <2>7, <2>8, <2>9,
             HeaderOnward, Zenon
<1> QED BY <1>5, <1>6, <1>7, Zenon

-----------------------------------------------------------------------------
(* A well-formed file is followed to its end.                               *)

\* The file that is read is one of those that may be, and a well-formed one is
\* followed.
Followed ==
  OfFile /\ \A f \in Files : file = f /\ WellFormed(f) => OnTrack(f)

LEMMA InitFile ==
  ASSUME NewMatroska
  PROVE  OfFile
<1>1. PICK n \in 0 .. Len(file.bytes) : bytes = SubSeq(file.bytes, 1, n)
  BY DEF NewMatroska
<1>2. file \in Files /\ file.bytes \in Seq(Byte)
  BY FilesAssumption DEF NewMatroska, Byte
<1>3. Len(bytes) = n /\ n <= Len(file.bytes)
  BY <1>1, <1>2
<1> QED BY <1>1, <1>2, <1>3, Zenon DEF OfFile

\* Nothing comes before the first byte.
LEMMA NothingFirst ==
  ASSUME NEW f, f.bytes \in Seq(Byte), WellFormed(f), Headed(f),
         cntNeeded = 0, entries = <<>>, satrack = 0
  PROVE  Listed(f, 0) /\ Counted(f, 0)
<1>1. Tiled(f)
  BY SegmentIs
<1>2. \A x \in Elements(f) : x \in Nat
  BY <1>1, ElementIs
<1>3. \A x \in Elements(f) : ~(x < 0)
  BY <1>2
<1>4. Entries(f) \subseteq Elements(f)
  BY DEF Entries
<1>5. CountBefore(f, 0) = 0
  <2>1. {x \in Entries(f) : x < 0} = {}
    BY <1>3, <1>4
  <2> QED BY <2>1, FS_EmptySet, Zenon DEF CountBefore
<1>6. Len(entries) = 0 /\ \A k \in 1 .. Len(entries) : FALSE
  OBVIOUS
<1>7. Listed(f, 0)
  BY <1>3, <1>4, <1>5, <1>6, Zenon DEF Listed
<1>8. PICK i \in In(f, Segment(f)), t \in In(f, Segment(f)) :
        /\ InWith(f, Segment(f), Matroska_Info) = {i}
        /\ InWith(f, Segment(f), Matroska_Tracks) = {t}
  BY Zenon DEF Headed
<1>9. ~(i < 0) /\ ~(t < 0)
  BY <1>3 DEF In
<1>10. Done(i, 0) = 0 /\ Done(t, 0) = 0
  BY <1>9, Zenon DEF Done
<1>11. cntNeeded = Done(i, 0) + Done(t, 0)
  BY <1>10
<1>12. satrack = IF t < 0 THEN AudioTrackOf(f) ELSE 0
  BY <1>9, Zenon
<1>13. Counted(f, 0)
  BY <1>8, <1>11, <1>12, Zenon DEF Counted
<1> QED BY <1>7, <1>13

LEMMA CoreInit ==
  ASSUME NewMatroska, Inv, NEW f, f.bytes \in Seq(Byte), WellFormed(f)
  PROVE  Core(f, <<Top>>, 0)
<1>1. /\ src = 0 /\ buffered = <<>> /\ off = 0
      /\ readers = <<Reader(0, Unknown, Unknown)>>
      /\ at = 1 /\ step = "skip"
  BY Zenon DEF NewMatroska, NewReader
<1>2. PICK path : path = <<Top>>
  OBVIOUS
<1>3. /\ path \in Seq(Int) /\ Len(path) = 1 /\ path[1] = Top
      /\ \A k \in 2 .. Len(path) : FALSE
  <2>1. Top \in Int
    BY DEF Top
  <2> HIDE DEF Top
  <2> QED BY <1>2, <2>1
<1>4. PathIn(f, path)
  <2>1. Len(path) >= 1
    BY <1>3
  <2> QED BY <1>3, <2>1, Zenon DEF PathIn
<1>5. PICK d : d = Reader(0, Unknown, Unknown)
  OBVIOUS
<1>6. readers = <<d>> /\ readers[1] = d /\ Len(readers) = 1
  <2>1. readers = <<d>>
    BY <1>1, <1>5, Zenon
  <2> QED BY <2>1
<1>7. d.id = 0 /\ d.len = Unknown /\ d.end = Unknown
  BY <1>5 DEF Reader
<1>8. Fits(f, d, Top)
  <2>1. Vague(f, Top) /\ IdOf(f, Top) = 0
    BY TopIs, Zenon DEF Vague
  <2> QED BY <1>7, <2>1, Zenon DEF Fits
<1>9. Along(f, path)
  <2>1. Len(path) = at
    BY <1>1, <1>3
  <2>2. \A k \in 1 .. at : k = 1
    BY <1>1
  <2>3. \A k \in 1 .. at : Fits(f, readers[k], path[k])
    BY <1>3, <1>6, <1>8, <2>2, Zenon
  <2> QED BY <1>4, <2>1, <2>3, Zenon DEF Along
<1>10. 0 \in NextIn(f, Top, 0)
  <2>1. 0 \in Borders(f, Top)
    BY SegmentIs DEF Borders
  <2>2. 0 <= 0 /\ \A k \in 0 + 1 .. 0 : FALSE
    OBVIOUS
  <2> QED BY <2>1, <2>2, Zenon DEF NextIn
<1>11. 0 \in NextIn(f, Top, off + Below(at))
  <2>1. readers \in Seq(Readers) /\ Len(readers) >= 1
    BY <1>6, ChainIs DEF Inv, Decoder
  <2>2. Below(at) = 0
    BY <1>1, <1>6, <2>1, NoneBelow, Zenon DEF Below
  <2>3. off + Below(at) = 0
    <3>1. off + 0 = 0
      BY <1>1
    <3> QED BY <2>2, <3>1, Zenon
  <2> QED BY <1>10, <2>3, Zenon
<1>12. src = off + Len(buffered) /\ Ending(readers, off)
  <2>1. Len(<<>>) = 0 /\ 0 + 0 = 0
    OBVIOUS
  <2>2. Ending(readers, off)
    <3>1. \A i \in 1 .. Len(readers) : readers[i].end = Unknown
      <4>1. \A i \in 1 .. Len(readers) : i = 1
        BY <1>6
      <4> QED BY <1>6, <1>7, <4>1, Zenon
    <3> QED BY <3>1, Zenon DEF Ending
  <2> QED BY <1>1, <2>1, <2>2, Zenon
<1>13. step # "id" /\ step # "error" /\ step \notin InElement
  BY <1>1 DEF InElement
<1>14. Here(f, Top, 0)
  BY <1>11, <1>12, <1>13, Zenon DEF Here
<1>15. path[at] = Top
  BY <1>1, <1>3, Zenon
<1>16. Core(f, path, 0)
  BY <1>9, <1>14, <1>15, Zenon DEF Core
<1> QED BY <1>2, <1>16, Zenon

LEMMA FollowedInit == NewMatroska => Followed
<1> SUFFICES ASSUME NewMatroska PROVE Followed
  OBVIOUS
<1> SUFFICES ASSUME NEW f \in Files, file = f, WellFormed(f) PROVE OnTrack(f)
  BY InitFile, Zenon DEF Followed
<1>1. Inv
  BY InvInit
<1>2. f.bytes \in Seq(Byte)
  BY FilesAssumption DEF Byte
<1>3. /\ phase = "EBML" /\ Blocks = <<>> /\ dec = 1
      /\ cntNeeded = 0 /\ entries = <<>> /\ satrack = 0
  BY Zenon DEF NewMatroska
<1>4. Core(f, <<Top>>, 0)
  BY <1>1, <1>2, CoreInit
<1>5. phase \in InHeader /\ phase \in Phases
  BY <1>3 DEF InHeader, Phases
<1>6. Shape(f, <<Top>>, 0)
  <2>1. phase \notin {"Segment", "decode", "content", "timestamp", "blocks",
                      "group"}
    BY <1>3
  <2>2. 0 \in Nat
    OBVIOUS
  <2> QED BY <1>3, <1>5, <2>1, <2>2, Zenon DEF Shape
<1>7. HeardPlaces = PlacesBefore(f, 0)
  <2>1. DOMAIN <<>> = {}
    OBVIOUS
  <2>2. HeardPlaces = {}
    BY <1>3, <2>1, Zenon DEF HeardPlaces
  <2>3. 0 \in Int /\ 0 <= Segment(f)
    BY <1>2, SegmentIs
  <2> QED BY <1>2, <2>2, <2>3, AllBefore
<1>8. Hears(f, 0)
  BY <1>3, <1>7, Zenon DEF Hears
<1>9. Headed(f) => Heading(f, <<Top>>, 0)
  <2>1. Headed(f) => Listed(f, 0) /\ Counted(f, 0)
    BY <1>2, <1>3, NothingFirst, Zenon
  <2>2. "EBML" # "decode"
    OBVIOUS
  <2>3. dec # 2
    BY <1>3
  <2> QED BY <1>3, <1>5, <2>1, <2>2, <2>3, Zenon DEF Heading
<1>10. Following(f, <<Top>>, 0)
  BY <1>4, <1>6, <1>8, <1>9, Zenon DEF Following
<1> QED BY <1>10, Zenon DEF OnTrack

\* An element is read on the way that the reader follows, or the source ends.
LEMMA DecodingFollows ==
  ASSUME Inv, NEW f, Reads(f), NEW path, NEW cur, Following(f, path, cur),
         Decoding
  PROVE  OnTrack(f)'
<1>1. /\ ReadElement /\ phase' = phase /\ dec' = dec /\ Blocks' = Blocks
      /\ entries' = entries /\ cntNeeded' = cntNeeded /\ satrack' = satrack
  BY Zenon DEF Decoding, headerVars
<1>2. Buffer /\ Chain /\ Core(f, path, cur)
  BY Zenon DEF Inv, Decoder, Following
<1>3. bytes' = bytes
  BY <1>2, SameFile, Zenon DEF MatroskaNext
<1>4. CASE Core(f, path, cur)'
  <2>1. Shape(f, path, cur)'
    BY <1>1, Zenon DEF Following, Shape
  <2>2. Hears(f, cur)'
    BY <1>1, Zenon DEF Following, Hears, HeardPlaces
  <2>3. Headed(f) => Heading(f, path, cur)'
    <3>1. Headed(f) => Heading(f, path, cur)
      BY Zenon DEF Following
    <3>2. Listed(f, cur) => Listed(f, cur)'
      BY <1>1, Zenon DEF Listed
    <3>3. \A m : Counted(f, m) => Counted(f, m)'
      BY <1>1, Zenon DEF Counted
    <3> QED BY <1>1, <3>1, <3>2, <3>3, Zenon DEF Heading
  <2>4. Following(f, path, cur)'
    BY <1>4, <2>1, <2>2, <2>3, Zenon DEF Following
  <2> QED BY <2>4, FollowingOn
<1>5. CASE Cut /\ Over'
  <2>1. Sound(f)
    BY FollowingSound
  <2>2. Sound(f)'
    <3>1. CASE phase \in InHeader
      <4>1. Blocks' = <<>>
        BY <1>1, <2>1, <3>1, Zenon DEF Sound
      <4>2. f.bytes \in Seq(Byte) /\ WellFormed(f)
        BY <1>2, ReadsIs
      <4> QED BY <4>1, <4>2, SoundStillUnheard
    <3>2. CASE phase \notin InHeader
      BY <1>1, <1>3, <2>1, <3>2, SoundKept, Zenon
    <3> QED BY <3>1, <3>2
  <2>3. Cut'
    BY <1>2, <1>5, SameFile, Zenon DEF MatroskaNext
  <2> QED BY <1>5, <2>2, <2>3, CutOn
<1> QED BY <1>2, <1>1, <1>4, <1>5, CoreReads

LEMMA HeaderFollows ==
  ASSUME Inv, Located, NEW f, Reads(f), NEW path, NEW cur,
         Following(f, path, cur), Header
  PROVE  OnTrack(f)'
BY ReadHeaderOn, ReadSegmentOn, ReadLevel1On, EndOfStructOn, NotMappedOn,
   unmarshalStructOn, unmarshalOn, unmarshalUnknownOn, Zenon DEF Header

LEMMA ContentFollows ==
  ASSUME Inv, Located, NEW f, Reads(f), NEW path, NEW cur,
         Following(f, path, cur), Content
  PROVE  OnTrack(f)'
<1>1. CASE ReadContent
  BY <1>1, ReadContentOn, Zenon
<1>2. CASE NoTimestamp \/ ReadTimestamp
  BY <1>2, NoTimestampOn, ReadTimestampOn, Zenon
<1>3. CASE EndOfCluster \/ InCluster
  BY <1>3, EndOfClusterOn, InClusterOn, Zenon
<1>4. CASE ReadBlock
  BY <1>4, ReadBlockOn, Zenon
<1> QED BY <1>1, <1>2, <1>3, <1>4, Zenon DEF Content

\* Nothing follows the end.
LEMMA NothingFollows ==
  ASSUME Stopped, phase \in Ends, MatroskaNext
  PROVE  FALSE
<1>1. step \in {"element", "error"}
  BY DEF Stopped
<1>2. step \notin {"skip", "id", "id rest", "size", "size rest"}
  BY <1>1
<1>3. ~ReadElement
  BY <1>2, Zenon
     DEF ReadElement, skip, readID, readIDRest, readElement, readElementRest
<1>4. phase \notin Phases
  BY DEF Ends, Phases
<1>5. ~Header
  <2>1. InHeader \subseteq Phases
    BY DEF InHeader, Phases
  <2> QED BY <1>4, <2>1, HeaderIs
<1>6. ~Content
  <2>1. phase \notin {"content", "timestamp", "blocks", "group"}
    BY <1>4 DEF Phases
  <2> QED BY <2>1, Zenon DEF Content, ReadContent, NoTimestamp, ReadTimestamp,
                             EndOfCluster, InCluster, ReadBlock
<1> QED BY <1>3, <1>5, <1>6, Zenon DEF MatroskaNext, Decoding

\* And where no step is taken, the reader stays on its way.
LEMMA OnTrackStays ==
  ASSUME NEW f, OnTrack(f), UNCHANGED vars
  PROVE  OnTrack(f)'
<1>1. /\ bytes' = bytes /\ src' = src /\ buffered' = buffered /\ off' = off
      /\ readers' = readers /\ at' = at /\ step' = step /\ first' = first
      /\ id' = id /\ err' = err /\ phase' = phase /\ Blocks' = Blocks
      /\ file' = file /\ entries' = entries /\ cntNeeded' = cntNeeded
      /\ satrack' = satrack /\ dec' = dec
  BY Zenon DEF vars, decoderVars, headerVars
<1>2. ASSUME NEW path, NEW cur, Following(f, path, cur)
      PROVE  OnTrack(f)'
  <2>1. Core(f, path, cur)'
    <3>1. \A p : Marks(p) => Marks(p)'
      BY <1>1, Zenon DEF Marks
    <3>2. Along(f, path)'
      BY <1>1, <1>2, Zenon DEF Following, Core, Along
    <3>3. Below(at)' = Below(at)
      BY <1>1, Zenon DEF Below
    <3>4. PICK e : e = path[at]
      OBVIOUS
    <3>5. Here(f, e, cur)
      BY <1>2, <3>4, Zenon DEF Following, Core
    <3>6. Here(f, e, cur)'
      BY <1>1, <3>1, <3>3, <3>5, Zenon DEF Here
    <3>7. e = path[at']
      BY <1>1, <3>4, Zenon
    <3> QED BY <3>2, <3>6, <3>7, Zenon DEF Core
  <2>2. Shape(f, path, cur)'
    BY <1>1, <1>2, Zenon DEF Following, Shape
  <2>3. Hears(f, cur)'
    BY <1>1, <1>2, Zenon DEF Following, Hears, HeardPlaces
  <2>4. Headed(f) => Heading(f, path, cur)'
    <3>1. Headed(f) => Heading(f, path, cur)
      BY <1>2, Zenon DEF Following
    <3>2. Listed(f, cur) => Listed(f, cur)'
      BY <1>1, Zenon DEF Listed
    <3>3. \A m : Counted(f, m) => Counted(f, m)'
      BY <1>1, Zenon DEF Counted
    <3> QED BY <1>1, <3>1, <3>2, <3>3, Zenon DEF Heading
  <2>5. Following(f, path, cur)'
    BY <2>1, <2>2, <2>3, <2>4, Zenon DEF Following
  <2> QED BY <2>5, FollowingOn
<1>3. LostIn(f) => LostIn(f)'
  BY <1>1, Zenon DEF LostIn
<1>4. Over => Over'
  BY <1>1, Zenon DEF Over, Left
<1>5. Cut => Cut'
  BY <1>1, Zenon DEF Cut
<1>6. Sound(f) => Sound(f)'
  <2>1. HeardPlaces' = HeardPlaces
    BY <1>1, Zenon DEF HeardPlaces
  <2> QED BY <1>1, <1>3, <2>1, Zenon DEF Sound, Accepted, FirstBlocks
<1>7. CutOff(f) => CutOff(f)'
  BY <1>3, <1>4, <1>5, Zenon DEF CutOff
<1>8. Final(f) => Final(f)'
  BY <1>1, Zenon DEF Final, HeardPlaces, Cut
<1> QED BY <1>1, <1>2, <1>6, <1>7, <1>8, Zenon DEF OnTrack

LEMMA OnTrackNext ==
  ASSUME Inv, Located, NEW f, Reads(f), OnTrack(f), MatroskaNext
  PROVE  OnTrack(f)'
<1>1. ASSUME NEW path, NEW cur, Following(f, path, cur)
      PROVE  OnTrack(f)'
  <2>1. CASE Decoding
    BY <1>1, <2>1, DecodingFollows
  <2>2. CASE Header
    BY <1>1, <2>2, HeaderFollows
  <2>3. CASE Content
    BY <1>1, <2>3, ContentFollows
  <2> QED BY <2>1, <2>2, <2>3, Zenon DEF MatroskaNext
<1>2. ASSUME Sound(f), CutOff(f)
      PROVE  OnTrack(f)'
  BY <1>2, CutOffKept, Zenon DEF OnTrack
<1>3. phase \notin Ends
  BY NothingFollows, Zenon DEF Located
<1> QED BY <1>1, <1>2, <1>3, Zenon DEF OnTrack

LEMMA FollowedNext == Inv /\ Located /\ Followed /\ [MatroskaNext]_vars => Followed'
<1> SUFFICES ASSUME Inv, Located, Followed, [MatroskaNext]_vars PROVE Followed'
  OBVIOUS
<1>1. bytes' = bytes /\ file' = file
  <2>1. CASE MatroskaNext
    BY <2>1, SameFile, Zenon DEF Inv, Decoder
  <2>2. CASE UNCHANGED vars
    BY <2>2, Zenon DEF vars, decoderVars
  <2> QED BY <2>1, <2>2
<1>2. OfFile'
  BY <1>1, Zenon DEF Followed, OfFile
<1>3. ASSUME NEW f \in Files, file' = f, WellFormed(f)
      PROVE  OnTrack(f)'
  <2>1. Reads(f) /\ OnTrack(f)
    BY <1>1, <1>3, Zenon DEF Followed, Reads
  <2> QED BY <2>1, OnTrackNext, OnTrackStays, Zenon
<1> QED BY <1>2, <1>3, Zenon DEF Followed

\* What was heard of a well-formed file.
LEMMA FollowedSound ==
  ASSUME Inv, Followed, file \in WellFormedFiles
  PROVE  /\ Sound(file) /\ WellFormed(file) /\ file \in Files
         /\ file.bytes \in Seq(Byte)
         /\ phase \in Ends /\ bytes = file.bytes => Final(file)
<1>1. PICK f \in Files : f = file /\ WellFormed(f)
  BY Zenon DEF WellFormedFiles
<1>2. OnTrack(f) /\ f.bytes \in Seq(Byte)
  BY <1>1, FilesAssumption, Zenon DEF Followed, Byte
<1>3. Sound(f)
  BY <1>2, FollowingSound, Zenon DEF OnTrack
<1>4. ASSUME phase \in Ends, bytes = f.bytes
      PROVE  Final(f)
  <2>1. ~Cut
    <3>1. Len(bytes) = Len(file.bytes) /\ Len(bytes) \in Nat
      BY <1>1, <1>2, <1>4
    <3> QED BY <3>1 DEF Cut
  <2>2. phase \notin Phases
    BY <1>4 DEF Ends, Phases
  <2> QED BY <1>2, <2>1, <2>2, Zenon DEF OnTrack, Following, Shape, CutOff
<1> QED BY <1>1, <1>2, <1>3, <1>4, Zenon

LEMMA PlacesAre ==
  ASSUME NEW f, NEW c
  PROVE  PlacesBefore(f, c) \subseteq Places(f)
BY Zenon DEF PlacesBefore, Playables, Places

LEMMA HeaderComes ==
  ASSUME Inv, Followed
  PROVE  HeaderFirst
<1> SUFFICES ASSUME file \in WellFormedFiles, Blocks # <<>>
             PROVE  \/ /\ dec = 2
                       /\ file \in HeadedFiles => satrack = AudioTrackIn[file]
                    \/ dec = 1 /\ \E e \in Values(file) :
                         Body(file, e) < Len(bytes) /\ Len(bytes) < End(file, e)
  BY Zenon DEF HeaderFirst
<1>1. \/ dec = 2 /\ (Headed(file) => satrack = AudioTrackOf(file))
      \/ LostIn(file)
  BY FollowedSound, Zenon DEF Sound, Accepted
<1>2. file \in HeadedFiles =>
        Headed(file) /\ AudioTrackIn[file] = AudioTrackOf(file)
  BY Zenon DEF HeadedFiles, AudioTrackIn
<1> QED BY <1>1, <1>2, Zenon DEF LostIn

LEMMA NoGap ==
  ASSUME Inv, Followed
  PROVE  Gapless
<1> SUFFICES ASSUME file \in WellFormedFiles, dec = 2, NEW i \in DOMAIN Blocks
             PROVE  /\ Blocks[i].place \in PlacesIn[file]
                    /\ \A p \in PlacesIn[file] :
                         p < Blocks[i].place =>
                           \E j \in DOMAIN Blocks : Blocks[j].place = p
  BY Zenon DEF Gapless
<1>1. WellFormed(file) /\ file.bytes \in Seq(Byte) /\ Sound(file)
  BY FollowedSound
<1>2. PICK c \in Int : HeardPlaces = PlacesBefore(file, c)
  BY <1>1, Zenon DEF Sound, FirstBlocks
<1>3. PlacesIn[file] = Places(file)
  BY Zenon DEF PlacesIn
<1>4. Blocks[i].place \in PlacesBefore(file, c)
  BY <1>2, Zenon DEF HeardPlaces
<1>5. ASSUME NEW p \in Places(file), p < Blocks[i].place
      PROVE  \E j \in DOMAIN Blocks : Blocks[j].place = p
  <2>1. p \in PlacesBefore(file, c)
    BY <1>1, <1>4, <1>5, InOrder
  <2> QED BY <1>2, <2>1, Zenon DEF HeardPlaces
<1>6. Blocks[i].place \in Places(file)
  BY <1>4, PlacesAre
<1> QED BY <1>3, <1>5, <1>6, Zenon

LEMMA AllHeard ==
  ASSUME Inv, Followed
  PROVE  Complete
<1> SUFFICES ASSUME file \in HeadedFiles, bytes = file.bytes, phase \in Ends
             PROVE  /\ phase = "EOF"
                    /\ PlacesIn[file] = {Blocks[i].place : i \in DOMAIN Blocks}
  BY Zenon DEF Complete
<1>1. file \in WellFormedFiles /\ Headed(file)
  BY Zenon DEF HeadedFiles
<1>2. Final(file) /\ file.bytes \in Seq(Byte)
  BY <1>1, FollowedSound, Zenon
<1>3. ~Cut
  <2>1. Len(bytes) = Len(file.bytes) /\ Len(bytes) \in Nat
    BY <1>2
  <2> QED BY <2>1 DEF Cut
<1>4. phase = "EOF" /\ HeardPlaces = Places(file)
  BY <1>1, <1>2, <1>3, Zenon DEF Final
<1>5. PlacesIn[file] = Places(file)
  BY <1>1, Zenon DEF PlacesIn
<1> QED BY <1>4, <1>5, Zenon DEF HeardPlaces

\* Of a well-formed file nothing is heard before its header was accepted, with
\* the last track that has audio selected, unless the file was cut off in a
\* value of the header.
THEOREM HeaderFirstAlways == Spec => []HeaderFirst
<1>1. /\ Inv /\ Located /\ Followed /\ [MatroskaNext]_vars
            => (Inv /\ Located /\ Followed)'
  BY InvNext, LocatedNext, FollowedNext
<1>2. Inv /\ Followed => HeaderFirst
  BY HeaderComes
<1> QED BY <1>1, <1>2, InvInit, LocatedInit, FollowedInit, PTL DEF Spec

\* What is heard is the data of blocks in the file, in their order and none
\* twice; of a well-formed file no block is left out between two that are heard,
\* and of one that is whole, with a complete header, none at all.
THEOREM BlocksOfFileAlways == Spec => []BlocksOfFile
<1>1. /\ Inv /\ Located /\ Followed /\ [MatroskaNext]_vars
            => (Inv /\ Located /\ Followed)'
  BY InvNext, LocatedNext, FollowedNext
<1>2. Inv /\ Located /\ Followed => BlocksOfFile
  <2>1. Located => Genuine
    BY DEF Located, Listening
  <2> QED BY <2>1, NoGap, AllHeard, Zenon DEF BlocksOfFile
<1> QED BY <1>1, <1>2, InvInit, LocatedInit, FollowedInit, PTL DEF Spec
=============================================================================
