------------------------------ MODULE MCMatroska -----------------------------
(***************************************************************************)
(* Files for Matroska, made of bytes: the ids and sizes of one, two, four  *)
(* and eight bytes that files have, and elements longer than the buffer.   *)
(***************************************************************************)
EXTENDS Matroska

Size(n) == IF n < 127 THEN <<128 + n>> ELSE <<64 + n \div 256, n % 256>>
Size8(n) == <<1, 0, 0, 0, 0, 0, n \div 256, n % 256>>
UnknownSize == <<255>>
UnknownSize8 == <<1, 255, 255, 255, 255, 255, 255, 255>>

El(i, body) == i \o Size(Len(body)) \o body
All(elements) == FlattenSeq(elements)

SegmentId == <<24, 83, 128, 103>>
EBML == El(<<26, 69, 223, 163>>, <<66, 134, 129, 1>>)
Void(n) == El(<<236>>, [i \in 1 .. n |-> 163])

Duration(n) == El(<<68, 137>>, [i \in 1 .. n |-> 1])
Title(n) == El(<<123, 169>>, [i \in 1 .. n |-> 65])
Information(s) == El(<<21, 73, 169, 102>>, All(s))
Data4 == <<0, 0, 128, 63>>
Audio == El(<<225>>, El(<<181>>, <<71, 59, 128, 0>>) \o El(<<159>>, <<2>>))
Number(n) == El(<<215>>, <<n>>)
Codec(n) == El(<<134>>, [i \in 1 .. n |-> 66])
Private(n) == El(<<99, 162>>, [i \in 1 .. n |-> 231])
Entry(s) == El(<<174>>, All(s))
\* Of video: with an alpha mode, a colour, planes and an encoding, each of them
\* a struct in a struct.
Video == El(<<224>>, El(<<83, 192>>, <<1>>) \o
                     El(<<85, 176>>, El(<<85, 208>>, El(<<85, 209>>, Data4))))
Planes == El(<<226>>, El(<<227>>, El(<<228>>, El(<<229>>, <<1>>))))
Encodings == El(<<109, 128>>, El(<<98, 64>>, El(<<80, 53>>,
               El(<<71, 225>>, <<5>>) \o El(<<71, 226>>, <<231, 161>>))))
Tracks(s) == El(<<22, 84, 174, 107>>, All(s))

ClusterId == <<31, 67, 182, 117>>
Time == El(<<231>>, <<3, 232>>)
Cluster(s) == El(ClusterId, All(s))
Data(d) == <<129, 0, 7, 128, d, d>>
Simple(b) == El(<<163>>, b)
Group(s) == El(<<160>>, All(s))
Block(b) == El(<<161>>, b)

Header1 == Information(<<Duration(4)>>) \o
           Tracks(<<Entry(<<Number(1), Audio>>)>>)

RECURSIVE Parsing(_, _, _, _, _)
\* The elements of b from p to end, in e with id i, as pairs of their place and
\* that of the element they are in, as far as they can be told.
Parsing(b, e, i, p, end) ==
  IF p < end /\ b[p + 1] < 16 THEN Parsing(b, e, i, p + 1, end)
  ELSE IF p >= end \/ ~Begins(b, p) THEN {}
  ELSE LET size == LenAt(b, p)
           next_ == IF size = Unknown THEN end ELSE BodyAt(b, p) + size
       IN  {<<p, e>>}
           \cup Parsing(b, e, i, next_, end)
           \cup IF IdAt(b, p) \in Entered(i)
                THEN Parsing(b, p, IdAt(b, p), BodyAt(b, p), next_) ELSE {}

\* A file of a segment with the given size.
FileOf(size, body) ==
  LET b     == EBML \o SegmentId \o size \o body
      found == Parsing(b, Top, 0, 0, Len(b))
  IN  [bytes |-> b,
       within |-> [p \in {x[1] : x \in found} |->
                     CHOOSE e \in Top .. Len(b) : <<p, e>> \in found]]

Known(body) == FileOf(Size8(Len(body)), body)
Open(body) == FileOf(UnknownSize, body)

\* Like files of a site: elements nobody asks for, groups, laced blocks.
Full ==
  Known(All(<<Information(<<Title(2), Duration(8), Void(3)>>), Void(20),
              Tracks(<<Entry(<<Number(1), Codec(6), Private(5), Audio>>),
                       Entry(<<Number(2), Video, Planes, Encodings>>)>>),
              Cluster(<<Time, Simple(<<129, 0, 7, 134, 9, 9>>),
                        Group(<<Void(1), Block(Data(1)), Void(9)>>),
                        Simple(Data(2))>>),
              El(<<28, 83, 187, 107>>, Void(2)),
              Cluster(<<Void(0), Time, Simple(<<64, 1, 0, 7, 128, 3, 3>>),
                        Simple(<<129, 0, 7, 0>>), Simple(<<129, 0>>),
                        Simple(<<>>), Simple(<<0, 0, 7, 0, 4, 4>>)>>)>>))

\* Tracks first, two of them with audio, some bytes between the elements, and
\* an element of a size of two bytes.
Live ==
  FileOf(UnknownSize8,
         All(<<Tracks(<<Entry(<<Audio>>), Entry(<<Number(2)>>),
                        Entry(<<Audio, Number(3)>>)>>), <<0, 7>>,
               Information(<<>>),
               Cluster(<<Time, Simple(Data(1)), Void(130)>>),
               Cluster(<<Time, <<15>>, Simple(Data(2))>>)>>))

Clusters == Cluster(<<Time, Simple(Data(1))>>) \o
            Cluster(<<Time, Simple(Data(2))>>)

MCFiles == {
  Full, Live,
  \* The header does not come first, or not once.
  Known(Cluster(<<Time, Simple(Data(1))>>) \o Header1 \o
        Cluster(<<Time, Simple(Data(2))>>)),
  Open(Cluster(<<Time, Simple(Data(1))>>) \o Header1 \o
       Cluster(<<Time, Simple(Data(2))>>)),
  Known(Information(<<>>) \o Information(<<>>) \o Clusters),
  Known(Tracks(<<Entry(<<Audio>>)>>) \o
        Tracks(<<Entry(<<>>), Entry(<<Audio>>)>>) \o Clusters),
  \* Values that are empty, or of a length that is refused.
  Known(Information(<<Title(0)>>) \o Header1 \o Clusters),
  Known(Information(<<Title(9)>>) \o Header1 \o Clusters),
  Open(Information(<<Duration(5)>>) \o Header1 \o Clusters),
  Known(Tracks(<<Entry(<<Private(9), Audio>>)>>) \o Information(<<>>) \o
        Clusters),
  \* Sizes that cannot be: larger than what is around them, or of nine bytes.
  Known(Header1 \o Cluster(<<Time, <<163, 144, 129, 0, 7, 128, 1, 1>>>>) \o
        Cluster(<<Time, Simple(Data(2))>>)),
  Open(Header1 \o Cluster(<<Time, <<163, 0>>>>) \o Clusters),
  \* A cluster without its time.
  Open(Header1 \o Cluster(<<Simple(Data(1))>>)),
  \* Clusters of unknown size.
  Open(Header1 \o ClusterId \o UnknownSize \o Time \o Simple(Data(1)) \o
       ClusterId \o UnknownSize8 \o Time \o Simple(Data(2)) \o
       Cluster(<<Time, Simple(Data(3))>>)),
  Known(Header1 \o ClusterId \o UnknownSize \o Time \o Simple(Data(1)) \o
        Cluster(<<Time, Simple(Data(2))>>)),
  \* What the reader does not survive.
  Known(Header1 \o Cluster(<<Time, Simple(Data(1)), Simple(<<129, 0, 7>>)>>)),
  Known(Header1 \o Cluster(<<Time, Group(<<Block(<<0, 0, 7>>)>>)>>)),
  Known(Header1 \o Cluster(<<Time, <<163>> \o UnknownSize \o Data(1)>>)),
  Open(Header1 \o ClusterId \o UnknownSize \o Time \o
       <<163>> \o Size8(1000) \o Data(1) \o Simple(Data(2))),
  Open(Header1 \o ClusterId \o UnknownSize \o Time \o
       <<160>> \o UnknownSize \o <<161>> \o Size8(1001) \o Data(1)),
  Open(Information(<<>>) \o
       Tracks(<<Entry(<<<<99, 162>> \o UnknownSize>>)>>))}
ASSUME FullIsWellFormed == {Full, Live} \subseteq HeadedFiles
=============================================================================
