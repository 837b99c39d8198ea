--------------------------- MODULE MatroskaTypes ---------------------------
(***************************************************************************)
(* The types of matroska elements (matroska.go): the ids the reader looks  *)
(* for, and, by the tags of the structs below Info and Tracks, the fields  *)
(* that are decoded and how ebml/type.go decodes a value of their type.    *)
(***************************************************************************)
EXTENDS Integers

Matroska_EBML == \h1A45DFA3
Matroska_Segment == \h18538067
Matroska_Info == \h1549A966
Matroska_ChapterTranslate == \h6924
Matroska_Cluster == \h1F43B675
Matroska_Timestamp == \hE7
Matroska_SimpleBlock == \hA3
Matroska_BlockGroup == \hA0
Matroska_Block == \hA1
Matroska_Tracks == \h1654AE6B
Matroska_TrackEntry == \hAE
Matroska_TrackTranslate == \h6624
Matroska_Video == \hE0
Matroska_AlphaMode == \h53C0
Matroska_Colour == \h55B0
Matroska_MasteringMetadata == \h55D0
Matroska_Audio == \hE1
Matroska_TrackOperation == \hE2
Matroska_TrackCombinePlanes == \hE3
Matroska_TrackPlane == \hE4
Matroska_TrackJoinBlocks == \hE9
Matroska_ContentEncodings == \h6D80
Matroska_ContentEncoding == \h6240
Matroska_ContentCompression == \h5034
Matroska_ContentEncryption == \h5035

-----------------------------------------------------------------------------
\* Ints are also flags, enumerations, durations and times; of a slice each
\* element of the file is one value.
newStructMapping(ints, floats, strings, slices, structs) ==
  [i \in ints \cup floats \cup strings \cup slices \cup structs |->
     CASE i \in ints -> "int"
       [] i \in floats -> "float"
       [] i \in strings -> "string"
       [] i \in slices -> "bytes"
       [] i \in structs -> "struct"]

Info ==
  newStructMapping({\h2AD7B1, \h4461}, {\h4489},
                   {\h7384, \h3C83AB, \h3E83BB, \h7BA9, \h4D80, \h5741},
                   {\h73A4, \h3CB923, \h3EB923, \h4444},
                   {Matroska_ChapterTranslate})
ChapterTranslate == newStructMapping({\h69BF}, {}, {}, {\h69FC, \h69A5}, {})

Track == newStructMapping({}, {}, {}, {}, {Matroska_TrackEntry})
TrackEntry ==
  newStructMapping({\hD7, \h73C5, \h83, \hB9, \h88, \h55AA, \h9C, \h6DE7,
                    \h6DF8, \h23E383, \h234E7A, \h55EE, \h7446, \hAA, \h6FAB,
                    \h56AA, \h56BB}, {},
                   {\h536E, \h22B59C, \h86, \h258688}, {\h63A2},
                   {Matroska_TrackTranslate, Matroska_Video, Matroska_Audio,
                    Matroska_TrackOperation, Matroska_ContentEncodings})
TrackTranslate == newStructMapping({\h66BF}, {}, {}, {\h66FC, \h66A5}, {})
AudioTrack == newStructMapping({\h9F, \h6264}, {\hB5, \h78B5}, {}, {}, {})

VideoTrack ==
  newStructMapping({\h9A, \h9D, \h53B8, \hB0, \hBA, \h54AA, \h54BB, \h54CC,
                    \h54DD, \h54B0, \h54BA, \h54B2, \h54B3, \h2EB524},
                   {}, {}, {}, {Matroska_AlphaMode, Matroska_Colour})
AlphaMode == newStructMapping({}, {}, {}, {}, {})
Colour ==
  newStructMapping(\h55B1 .. \h55BD, {}, {}, {}, {Matroska_MasteringMetadata})
MasteringMetadata == newStructMapping({}, \h55D1 .. \h55DA, {}, {}, {})

TrackOperation ==
  newStructMapping({}, {}, {}, {}, {Matroska_TrackCombinePlanes,
                                    Matroska_TrackJoinBlocks})
TrackPlane == newStructMapping({\hE5, \hE6}, {}, {}, {}, {})

ContentEncoding ==
  newStructMapping({\h5031, \h5032, \h5033}, {}, {}, {},
                   {Matroska_ContentCompression, Matroska_ContentEncryption})
Compression == newStructMapping({\h4254}, {}, {}, {\h4255}, {})
Encryption ==
  newStructMapping({\h47E1, \h47E5, \h47E6}, {}, {}, {\h47E2, \h47E3, \h47E4},
                   {})

\* A path of two ids in a tag is read like a struct of one field.
unmarshalSeq(i) ==
  CASE i = Matroska_TrackCombinePlanes ->
         newStructMapping({}, {}, {}, {}, {Matroska_TrackPlane})
    [] i = Matroska_TrackJoinBlocks -> newStructMapping({\hED}, {}, {}, {}, {})
    [] i = Matroska_ContentEncodings ->
         newStructMapping({}, {}, {}, {}, {Matroska_ContentEncoding})

\* What is decoded in an element that is a struct.
getStructMapping(i) ==
  CASE i = Matroska_Info -> Info
    [] i = Matroska_ChapterTranslate -> ChapterTranslate
    [] i = Matroska_Tracks -> Track
    [] i = Matroska_TrackEntry -> TrackEntry
    [] i = Matroska_TrackTranslate -> TrackTranslate
    [] i = Matroska_Audio -> AudioTrack
    [] i = Matroska_Video -> VideoTrack
    [] i = Matroska_AlphaMode -> AlphaMode
    [] i = Matroska_Colour -> Colour
    [] i = Matroska_MasteringMetadata -> MasteringMetadata
    [] i = Matroska_TrackOperation -> TrackOperation
    [] i = Matroska_TrackPlane -> TrackPlane
    [] i = Matroska_ContentEncoding -> ContentEncoding
    [] i = Matroska_ContentCompression -> Compression
    [] i = Matroska_ContentEncryption -> Encryption
    [] OTHER -> unmarshalSeq(i)
=============================================================================
