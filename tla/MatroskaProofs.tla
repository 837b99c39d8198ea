--------------------------- MODULE MatroskaProofs ----------------------------
(***************************************************************************)
(* Theorems about EbmlDecoder and Matroska, for every set of files and any *)
(* size of the buffer from 8 on: type correctness, that the decoder never  *)
(* loses its place among the bytes, that elements end where their size     *)
(* says, that what is heard are blocks of the file in their order, and     *)
(* what in a file makes the reader panic.                                  *)
(*                                                                         *)
(* The argument: Buffer relates the buffer to what was read of the source, *)
(* Chain says which Reader may be in the middle of what, and Nesting that  *)
(* bytes taken from one Reader, charged to it or left in those below it    *)
(* are the same bytes.  Loops says which Reader each loop waits at.        *)
(* Located says at which place of the bytes the element is that is read.   *)
(***************************************************************************)
EXTENDS Matroska, WellFoundedInduction, FiniteSetTheorems, SequenceTheorems, TLAPS

-----------------------------------------------------------------------------
(* Natural numbers: quotients and remainders, induction and recursion.      *)

LEMMA DivMod ==
  ASSUME NEW b \in Nat, b >= 1, NEW n \in Nat
  PROVE  /\ n \div b \in Nat
         /\ n % b \in 0 .. b - 1
         /\ n = b * (n \div b) + (n % b)
  OBVIOUS

\* Every set of natural numbers that is not empty has a least one.
LEMMA LeastNumber ==
  ASSUME NEW T \in SUBSET Nat, T # {}
  PROVE  \E n \in T : \A m \in T : n <= m
<1> DEFINE R == {p \in Nat \X Nat : p[1] < p[2]}
<1>1. R = OpToRel(<, Nat)
  BY DEF OpToRel
<1>2. IsWellFoundedOn(R, Nat)
  BY <1>1, NatLessThanWellFounded, Zenon
<1>3. \E x \in T : \A y \in T : ~ (<<y, x>> \in R)
  <2> HIDE DEF R
  <2> QED BY <1>2, WFMin, Zenon
<1>4. PICK n \in T : \A m \in T : ~ (<<m, n>> \in R)
  BY <1>3
<1>5. ASSUME NEW m \in T PROVE n <= m
  <2>1. n \in Nat /\ m \in Nat
    OBVIOUS
  <2>2. m < n => <<m, n>> \in R
    BY <2>1
  <2> QED BY <1>4, <2>1, <2>2
<1> QED BY <1>5

\* Induction: a set that holds 0 and with every number its successor holds all
\* natural numbers.
LEMMA Induction ==
  ASSUME NEW S,
         0 \in S,
         \A n \in Nat : n \in S => n + 1 \in S
  PROVE  Nat \subseteq S
<1> DEFINE T == Nat \ S
<1>1. SUFFICES ASSUME T # {} PROVE FALSE
  OBVIOUS
<1>2. PICK n \in T : \A m \in T : n <= m
  BY <1>1, LeastNumber
<1>3. n \in Nat /\ n # 0 /\ n - 1 \in Nat /\ ~ (n <= n - 1) /\ (n - 1) + 1 = n
  BY <1>2
<1>4. n - 1 \in S
  BY <1>2, <1>3
<1> QED BY <1>2, <1>3, <1>4

\* f is given up to k by a first value and a function that makes the i-th value
\* from the one before it.
IsRecursion(f, S, s, rule, k) ==
  /\ f \in [0 .. k -> S]
  /\ f[0] = s
  /\ \A i \in 1 .. k : f[i] = rule[<<f[i - 1], i>>]

\* Such a function exists.
LEMMA Recursion ==
  ASSUME NEW S, NEW s \in S, NEW rule \in [S \X Nat -> S], NEW k \in Nat
  PROVE  \E f : IsRecursion(f, S, s, rule, k)
<1> DEFINE T == {n \in Nat : \E f : IsRecursion(f, S, s, rule, n)}
<1>1. 0 \in T
  <2>1. IsRecursion([i \in 0 .. 0 |-> s], S, s, rule, 0)
    BY DEF IsRecursion
  <2> QED BY <2>1
<1>2. ASSUME NEW n \in Nat, n \in T PROVE n + 1 \in T
  <2>1. PICK f : IsRecursion(f, S, s, rule, n)
    BY <1>2
  <2>2. /\ f \in [0 .. n -> S] /\ f[0] = s
        /\ \A i \in 1 .. n : f[i] = rule[<<f[i - 1], i>>]
    BY <2>1 DEF IsRecursion
  <2> DEFINE v == rule[<<f[n], n + 1>>]
             g == [i \in 0 .. n + 1 |-> IF i = n + 1 THEN v ELSE f[i]]
  <2>3. v \in S
    BY <2>2
  <2>4. g \in [0 .. n + 1 -> S] /\ g[0] = s
    BY <2>2, <2>3
  <2>5. ASSUME NEW i \in 1 .. n + 1 PROVE g[i] = rule[<<g[i - 1], i>>]
    <3>1. CASE i = n + 1
      <4>1. g[i] = v /\ g[i - 1] = f[n]
        BY <3>1
      <4> QED BY <3>1, <4>1
    <3>2. CASE i # n + 1
      <4>1. i \in 1 .. n /\ g[i] = f[i] /\ g[i - 1] = f[i - 1]
        BY <3>2
      <4> QED BY <2>2, <4>1
    <3> QED BY <3>1, <3>2
  <2>6. IsRecursion(g, S, s, rule, n + 1)
    <3> HIDE DEF g
    <3> QED BY <2>4, <2>5 DEF IsRecursion
  <2> HIDE DEF g
  <2> QED BY <2>6
<1>3. Nat \subseteq T
  <2> HIDE DEF T
  <2> QED BY <1>1, <1>2, Induction
<1> QED BY <1>3

-----------------------------------------------------------------------------
(* Numbers in a file.                                                       *)

Byte == 0 .. 255

LEMMA MoreBytes == ASSUME NEW b PROVE More(b) \in 0 .. 8
<1> DEFINE zeros == {k \in 0 .. 7 : b < 2 ^ k}
<1>1. zeros \subseteq 0 .. 7
  OBVIOUS
<1> HIDE DEF zeros
<1>2. IsFiniteSet(0 .. 7) /\ Cardinality(0 .. 7) = 8
  <2>1. 0 \in Int /\ 7 \in Int /\ 7 - 0 + 1 = 8 /\ ~(0 > 7)
    OBVIOUS
  <2> QED BY <2>1, FS_Interval
<1>3. IsFiniteSet(zeros) /\ Cardinality(zeros) <= 8
  BY <1>1, <1>2, FS_Subset
<1>4. Cardinality(zeros) \in Nat
  BY <1>3, FS_CardinalityType
<1>5. Cardinality(zeros) \in 0 .. 8
  BY <1>3, <1>4
<1> QED BY <1>5 DEF More, zeros

LEMMA Powers == ASSUME NEW n \in 1 .. 7 PROVE 2 ^ (7 - n) \in Nat \ {0}
<1>1. /\ 2 ^ 0 = 1 /\ 2 ^ 1 = 2 /\ 2 ^ 2 = 4 /\ 2 ^ 3 = 8 /\ 2 ^ 4 = 16
      /\ 2 ^ 5 = 32 /\ 2 ^ 6 = 64
  OBVIOUS
<1>2. PICK k \in {0, 1, 2, 3, 4, 5, 6} : k = 7 - n
  <2>1. 7 - n \in {0, 1, 2, 3, 4, 5, 6}
    OBVIOUS
  <2> QED BY <2>1
<1>3. 2 ^ k \in {1, 2, 4, 8, 16, 32, 64}
  BY <1>1, ZenonT(60)
<1>4. 2 ^ (7 - n) \in {1, 2, 4, 8, 16, 32, 64}
  BY <1>2, <1>3
<1> QED BY <1>4

LEMMA BigEndianIs ==
  ASSUME NEW b \in Seq(Byte), NEW high \in Nat, NEW n \in 0 .. Len(b)
  PROVE  /\ BigEndian(b, high)[n] \in Nat
         /\ n = 0 => BigEndian(b, high)[n] = high
         /\ BigEndian(b, high)[n] >= high
<1> DEFINE step_ == [e \in Nat \X Nat |->
                       IF e[2] \in 1 .. Len(b) THEN e[1] * 256 + b[e[2]]
                       ELSE e[1]]
           cut(g) == [i \in 0 .. Len(b) |->
                        IF i = 0 THEN high ELSE g[i - 1] * 256 + b[i]]
<1>1. step_ \in [Nat \X Nat -> Nat]
  <2>1. ASSUME NEW e \in Nat \X Nat
        PROVE  (IF e[2] \in 1 .. Len(b) THEN e[1] * 256 + b[e[2]]
                ELSE e[1]) \in Nat
    <3>1. CASE e[2] \in 1 .. Len(b)
      <4>1. b[e[2]] \in Byte
        BY <3>1
      <4>2. \A x \in Byte : x \in Nat
        BY DEF Byte
      <4> QED BY <3>1, <4>2
    <3> QED BY <3>1
  <2> QED BY <2>1
<1>2. Len(b) \in Nat
  OBVIOUS
<1>3. PICK f : IsRecursion(f, Nat, high, step_, Len(b))
  <2> HIDE DEF step_
  <2>1. \E f : IsRecursion(f, Nat, high, step_, Len(b))
    BY <1>1, <1>2, Recursion, Zenon
  <2> QED BY <2>1
<1>4. /\ f \in [0 .. Len(b) -> Nat] /\ f[0] = high
      /\ \A i \in 1 .. Len(b) : f[i] = step_[<<f[i - 1], i>>]
  BY <1>3 DEF IsRecursion
<1>5. \A i \in 1 .. Len(b) : f[i] = f[i - 1] * 256 + b[i]
  <2> TAKE i \in 1 .. Len(b)
  <2>1. <<f[i - 1], i>> \in Nat \X Nat
    BY <1>4, SMTT(30)
  <2>2. step_[<<f[i - 1], i>>] = f[i - 1] * 256 + b[i]
    BY <2>1
  <2> HIDE DEF step_
  <2> QED BY <1>4, <2>2
<1>6. f = cut(f)
  <2>1. \A i \in 0 .. Len(b) :
          f[i] = IF i = 0 THEN high ELSE f[i - 1] * 256 + b[i]
    BY <1>4, <1>5
  <2>2. f = [i \in 0 .. Len(b) |-> f[i]]
    BY <1>4
  <2> QED BY <2>1, <2>2
<1>7. BigEndian(b, high) = CHOOSE g : g = cut(g)
  BY Zenon DEF BigEndian
<1>8. BigEndian(b, high) = cut(BigEndian(b, high))
  <2> HIDE DEF cut
  <2> QED BY <1>6, <1>7
<1>9. ASSUME NEW g, g = cut(g) PROVE g[n] = f[n]
  <2> DEFINE T == {i \in Nat : i \in 0 .. Len(b) => g[i] = f[i]}
  <2>1. g[0] = high
    <3>1. 0 \in 0 .. Len(b)
      BY <1>2
    <3> QED BY <1>9, <3>1
  <2>2. 0 \in T
    BY <1>4, <2>1
  <2>3. ASSUME NEW i \in Nat, i \in T PROVE i + 1 \in T
    <3> SUFFICES ASSUME i + 1 \in 0 .. Len(b) PROVE g[i + 1] = f[i + 1]
      OBVIOUS
    <3>1. /\ i + 1 \in 1 .. Len(b) /\ i \in 0 .. Len(b) /\ (i + 1) - 1 = i
          /\ i + 1 # 0
      BY <1>2
    <3>2. g[i] = f[i]
      BY <2>3, <3>1
    <3>3. g[i + 1] = g[i] * 256 + b[i + 1]
      BY <1>9, <3>1
    <3>4. f[i + 1] = f[i] * 256 + b[i + 1]
      BY <1>5, <3>1
    <3> QED BY <3>2, <3>3, <3>4
  <2>4. Nat \subseteq T
    <3> HIDE DEF T
    <3> QED BY <2>2, <2>3, Induction
  <2> QED BY <2>4
<1>10. BigEndian(b, high)[n] = f[n]
  <2> HIDE DEF cut
  <2> QED BY <1>8, <1>9
<1>11. f[n] >= high
  <2> DEFINE T == {i \in Nat : i \in 0 .. Len(b) => f[i] >= high}
  <2>1. 0 \in T
    BY <1>4
  <2>2. ASSUME NEW i \in Nat, i \in T PROVE i + 1 \in T
    <3> SUFFICES ASSUME i + 1 \in 0 .. Len(b) PROVE f[i + 1] >= high
      OBVIOUS
    <3>1. /\ i + 1 \in 1 .. Len(b) /\ i \in 0 .. Len(b) /\ (i + 1) - 1 = i
      BY <1>2
    <3>2. f[i] >= high /\ f[i] \in Nat
      BY <1>4, <2>2, <3>1
    <3>3. b[i + 1] \in Nat
      <4>1. b[i + 1] \in Byte
        BY <3>1
      <4>2. \A x \in Byte : x \in Nat
        BY DEF Byte
      <4> QED BY <4>1, <4>2, Zenon
    <3>4. f[i + 1] = f[i] * 256 + b[i + 1]
      BY <1>5, <3>1
    <3> QED BY <3>2, <3>3, <3>4
  <2>3. Nat \subseteq T
    <3> HIDE DEF T
    <3> QED BY <2>1, <2>2, Induction
  <2> QED BY <2>3
<1> QED BY <1>4, <1>10, <1>11

\* The bytes left in a Reader, none if its length is unknown.
Rest(r) == IF r.len > 0 THEN r.len ELSE 0

\* LeftIn adds them up.
LEMMA LeftInIs ==
  ASSUME NEW chain, Len(chain) \in Nat, NEW n \in Nat,
         \A j \in 1 .. Len(chain) : chain[j].len \in Int
  PROVE  /\ LeftIn(chain, n) \in [0 .. Len(chain) -> Nat]
         /\ \A j \in 0 .. Len(chain) : j <= n => LeftIn(chain, n)[j] = 0
         /\ \A j \in 1 .. Len(chain) :
              j > n => LeftIn(chain, n)[j] =
                         LeftIn(chain, n)[j - 1] + Rest(chain[j])
<1> DEFINE step_ == [e \in Nat \X Nat |->
                       IF e[2] \in 1 .. Len(chain) /\ e[2] > n
                       THEN e[1] + Rest(chain[e[2]]) ELSE 0]
           cut(g) == [j \in 0 .. Len(chain) |->
                        IF j <= n THEN 0 ELSE g[j - 1] + Rest(chain[j])]
<1>1. step_ \in [Nat \X Nat -> Nat]
  <2>1. \A j \in 1 .. Len(chain) : Rest(chain[j]) \in Nat
    BY DEF Rest
  <2> QED BY <2>1
<1>2. PICK f : IsRecursion(f, Nat, 0, step_, Len(chain))
  <2> HIDE DEF step_
  <2>1. \E f : IsRecursion(f, Nat, 0, step_, Len(chain))
    BY <1>1, Recursion
  <2> QED BY <2>1
<1>3. /\ f \in [0 .. Len(chain) -> Nat] /\ f[0] = 0
      /\ \A j \in 1 .. Len(chain) : f[j] = step_[<<f[j - 1], j>>]
  BY <1>2 DEF IsRecursion
<1>4. \A j \in 1 .. Len(chain) :
        f[j] = IF j <= n THEN 0 ELSE f[j - 1] + Rest(chain[j])
  <2> TAKE j \in 1 .. Len(chain)
  <2>1. <<f[j - 1], j>> \in Nat \X Nat
    BY <1>3
  <2>2. step_[<<f[j - 1], j>>] = IF j <= n THEN 0
                                 ELSE f[j - 1] + Rest(chain[j])
    BY <2>1
  <2> HIDE DEF step_
  <2> QED BY <1>3, <2>2
<1>5. f = cut(f)
  <2>1. \A j \in 0 .. Len(chain) :
          f[j] = IF j <= n THEN 0 ELSE f[j - 1] + Rest(chain[j])
    BY <1>3, <1>4
  <2>2. f = [j \in 0 .. Len(chain) |-> f[j]]
    BY <1>3
  <2> QED BY <2>1, <2>2
<1>6. LeftIn(chain, n) = CHOOSE g : g = cut(g)
  BY Zenon DEF LeftIn, Rest
<1>7. LeftIn(chain, n) = cut(LeftIn(chain, n))
  <2> HIDE DEF cut
  <2> QED BY <1>5, <1>6
<1>8. ASSUME NEW g, g = cut(g), NEW j \in 0 .. Len(chain)
      PROVE  g[j] = f[j]
  <2> DEFINE T == {i \in Nat : i \in 0 .. Len(chain) => g[i] = f[i]}
  <2>1. g[0] = 0
    BY <1>8
  <2>2. 0 \in T
    BY <1>3, <2>1
  <2>3. ASSUME NEW i \in Nat, i \in T PROVE i + 1 \in T
    <3> SUFFICES ASSUME i + 1 \in 0 .. Len(chain) PROVE g[i + 1] = f[i + 1]
      OBVIOUS
    <3>1. i + 1 \in 1 .. Len(chain) /\ i \in 0 .. Len(chain) /\ (i + 1) - 1 = i
      OBVIOUS
    <3>2. g[i] = f[i]
      BY <2>3, <3>1
    <3>3. g[i + 1] = IF i + 1 <= n THEN 0 ELSE g[i] + Rest(chain[i + 1])
      BY <1>8, <3>1
    <3>4. f[i + 1] = IF i + 1 <= n THEN 0 ELSE f[i] + Rest(chain[i + 1])
      BY <1>4, <3>1
    <3> QED BY <3>2, <3>3, <3>4
  <2>4. Nat \subseteq T
    <3> HIDE DEF T
    <3> QED BY <2>2, <2>3, Induction
  <2> QED BY <2>4
<1>9. LeftIn(chain, n) = f
  <2>1. LeftIn(chain, n) = [j \in 0 .. Len(chain) |-> LeftIn(chain, n)[j]]
    BY <1>7
  <2>2. \A j \in 0 .. Len(chain) : LeftIn(chain, n)[j] = f[j]
    <3> HIDE DEF cut
    <3> QED BY <1>7, <1>8
  <2>3. f = [j \in 0 .. Len(chain) |-> f[j]]
    BY <1>3
  <2> QED BY <2>1, <2>2, <2>3
<1>10. \A j \in 0 .. Len(chain) : j <= n => f[j] = 0
  BY <1>3, <1>4
<1> QED BY <1>3, <1>4, <1>9, <1>10

-----------------------------------------------------------------------------
(* Pieces of a sequence.                                                    *)

LEMMA Piece ==
  ASSUME NEW S, NEW t \in Seq(S), NEW x \in Nat, NEW c \in x .. Len(t)
  PROVE  SubSeq(t, x + 1, c) \in Seq(S) /\ Len(SubSeq(t, x + 1, c)) = c - x
<1>1. x + 1 \in Int /\ c \in Int /\ Len(t) \in Nat
  OBVIOUS
<1>2. \A i \in x + 1 .. c : t[i] \in S
  BY <1>1
<1>3. /\ SubSeq(t, x + 1, c) \in Seq(S)
      /\ Len(SubSeq(t, x + 1, c)) = IF x + 1 <= c THEN c - (x + 1) + 1 ELSE 0
  BY <1>1, <1>2, SubSeqProperties
<1> QED BY <1>1, <1>3

\* A piece of a piece is a piece.
LEMMA PieceOfPiece ==
  ASSUME NEW S, NEW t \in Seq(S), NEW x \in Nat, NEW c \in x .. Len(t),
         NEW p \in 0 .. c - x, NEW q \in p .. c - x
  PROVE  SubSeq(SubSeq(t, x + 1, c), p + 1, q) = SubSeq(t, x + p + 1, x + q)
<1>1. Len(t) \in Nat
  OBVIOUS
<1>2. CASE p = q
  <2>1. p + 1 \in Int /\ q \in Int /\ q < p + 1
    BY <1>2
  <2>2. x + p + 1 \in Int /\ x + q \in Int /\ x + q < x + p + 1
    BY <1>2
  <2>3. SubSeq(SubSeq(t, x + 1, c), p + 1, q) = <<>>
    BY <2>1, SubSeqEmpty, Zenon
  <2>4. SubSeq(t, x + p + 1, x + q) = <<>>
    BY <2>2, SubSeqEmpty, Zenon
  <2> QED BY <2>3, <2>4, Zenon
<1>3. CASE p < q
  <2>1. PICK i \in 1 .. Len(t) : i = x + 1
    BY <1>1, <1>3
  <2>2. PICK m \in 1 .. c - i + 1 : m = p + 1
    BY <1>1, <1>3, <2>1
  <2>3. /\ c \in 1 .. Len(t) /\ q \in 1 .. c - i + 1
        /\ i + m - 1 = x + p + 1 /\ i + q - 1 = x + q
    BY <1>1, <1>3, <2>1, <2>2
  <2>4. SubSeq(SubSeq(t, i, c), m, q) = SubSeq(t, i + m - 1, i + q - 1)
    BY <2>3, SubSeqOfSubSeq
  <2> QED BY <2>1, <2>2, <2>3, <2>4
<1> QED BY <1>2, <1>3

\* Two pieces that follow each other are one.
LEMMA Joined ==
  ASSUME NEW S, NEW t \in Seq(S), NEW x \in Nat, NEW k \in x .. Len(t),
         NEW c \in k .. Len(t)
  PROVE  SubSeq(t, x + 1, k) \o SubSeq(t, k + 1, c) = SubSeq(t, x + 1, c)
<1>1. PICK m \in 1 .. Len(t) + 1 : m = x + 1
  OBVIOUS
<1>2. k \in m - 1 .. Len(t)
  BY <1>1
<1>3. SubSeq(t, m, k) \o SubSeq(t, k + 1, c) = SubSeq(t, m, c)
  BY <1>2, ConcatAdjacentSubSeq
<1> QED BY <1>1, <1>3

-----------------------------------------------------------------------------
(* The buffer.                                                              *)

\* The buffer holds what follows the bytes read so far, and the source gives
\* what follows these, unless it ended: then some bytes may have been dropped.
Buffer ==
  /\ bytes \in Seq(Byte) /\ buffered \in Seq(Byte)
  /\ src \in 0 .. Len(bytes) /\ off \in Nat
  /\ off + Len(buffered) <= src /\ Len(buffered) <= BufferSize
  /\ buffered = SubSeq(bytes, off + 1, off + Len(buffered))
  /\ src < Len(bytes) => src = off + Len(buffered)

Errors == {"none", "EOF", "unexpected", "too small", "format"}

Stays(o) == o.src = src /\ o.buffered = buffered /\ o.off = off

\* What a call that is asked for n bytes leaves: the buffer as it should be, and
\* n bytes read, or, if it fails, nothing changed or the source at its end.
Leaves(o, n) ==
  /\ o.err \in Errors
  /\ o.buffered \in Seq(Byte) /\ Len(o.buffered) <= BufferSize
  /\ o.src \in src .. Len(bytes) /\ o.off \in off .. off + n
  /\ o.off + Len(o.buffered) <= o.src
  /\ o.buffered = SubSeq(bytes, o.off + 1, o.off + Len(o.buffered))
  /\ o.src < Len(bytes) => o.src = o.off + Len(o.buffered)
  /\ o.err = "none" => o.off = off + n
  /\ o.err # "none" => o.src = Len(bytes) \/ Stays(o)

\* And what it returns.
Returns(o, n) == o.err = "none" => o.b \in Seq(Byte) /\ Len(o.b) = n

LEMMA Numbers ==
  ASSUME Buffer
  PROVE  /\ BufferSize \in Nat /\ BufferSize >= 8
         /\ Len(bytes) \in Nat /\ Len(buffered) \in Nat
         /\ src \in Nat /\ off \in Nat /\ Left \in Nat
         /\ Left = Len(bytes) - src
         /\ off + Len(buffered) <= src
<1>1. BufferSize \in Nat /\ BufferSize >= 8
  BY BufferSizeAssumption
<1>2. bytes \in Seq(Byte) /\ buffered \in Seq(Byte)
      /\ src \in 0 .. Len(bytes) /\ off \in Nat
      /\ off + Len(buffered) <= src
  BY DEF Buffer
<1>3. Len(bytes) \in Nat /\ Len(buffered) \in Nat
  BY <1>2, LenProperties
<1> QED BY <1>1, <1>2, <1>3 DEF Left

LEMMA FieldsOf ==
  ASSUME NEW e, NEW s, NEW u, NEW f, NEW b
  PROVE  /\ Outcome(e, s, u, f, b).err = e /\ Outcome(e, s, u, f, b).src = s
         /\ Outcome(e, s, u, f, b).buffered = u
         /\ Outcome(e, s, u, f, b).off = f /\ Outcome(e, s, u, f, b).b = b
BY DEF Outcome

\* A failure that leaves everything as it is.
LEMMA FailsUnread ==
  ASSUME Buffer, NEW n \in Nat, NEW e \in Errors \ {"none"},
         NEW o, o = Outcome(e, src, buffered, off, <<>>)
  PROVE  Leaves(o, n) /\ Returns(o, n)
<1>1. /\ o.err = e /\ o.src = src /\ o.buffered = buffered /\ o.off = off
  BY FieldsOf
<1>2. off \in off .. off + n /\ src \in src .. Len(bytes)
  BY DEF Buffer
<1> QED BY <1>1, <1>2 DEF Leaves, Returns, Stays, Buffer

\* A failure at the end of the source, with the rest of the buffer kept or not.
LEMMA FailsAtEnd ==
  ASSUME Buffer, NEW n \in Nat, NEW taken \in Nat, NEW f \in off .. off + n,
         NEW o, NEW u,
         \/ u = buffered /\ f = off
         \/ u = <<>> /\ f <= Len(bytes),
         o = Outcome(EndOfSource(taken), Len(bytes), u, f, <<>>)
  PROVE  Leaves(o, n) /\ Returns(o, n) /\ o.err # "none" /\ o.src = Len(bytes)
<1>1. /\ o.err = EndOfSource(taken) /\ o.src = Len(bytes)
      /\ o.buffered = u /\ o.off = f
  BY FieldsOf
<1>2. o.err \in Errors /\ o.err # "none"
  BY <1>1 DEF EndOfSource, Errors
<1>3. /\ BufferSize \in Nat /\ Len(bytes) \in Nat /\ Len(buffered) \in Nat
      /\ src \in 0 .. Len(bytes) /\ off \in Nat
      /\ off + Len(buffered) <= src
  BY Numbers DEF Buffer
<1>4. f + Len(u) <= Len(bytes) /\ Len(u) <= BufferSize /\ u \in Seq(Byte)
      /\ u = SubSeq(bytes, f + 1, f + Len(u))
  <2>1. CASE u = buffered /\ f = off
    BY <2>1, <1>3 DEF Buffer
  <2>2. CASE u = <<>> /\ f <= Len(bytes)
    <3>1. Len(u) = 0 /\ u \in Seq(Byte)
      BY <2>2, EmptySeq, Zenon
    <3>2. f + 1 \in Int /\ f + Len(u) \in Int /\ f + Len(u) < f + 1
      BY <3>1, <1>3
    <3>3. SubSeq(bytes, f + 1, f + Len(u)) = <<>>
      BY <3>2, SubSeqEmpty, Zenon
    <3>4. u = SubSeq(bytes, f + 1, f + Len(u))
      BY <2>2, <3>3, Zenon
    <3>5. f + Len(u) <= Len(bytes) /\ Len(u) <= BufferSize
      BY <2>2, <3>1, <1>3
    <3> QED BY <3>1, <3>4, <3>5, Zenon
  <2> QED BY <2>1, <2>2
<1>5. /\ o.buffered \in Seq(Byte) /\ Len(o.buffered) <= BufferSize
      /\ o.off + Len(o.buffered) <= o.src
      /\ o.buffered = SubSeq(bytes, o.off + 1, o.off + Len(o.buffered))
  BY <1>1, <1>4, Zenon
<1>6. /\ o.src \in src .. Len(bytes) /\ o.off \in off .. off + n
      /\ ~(o.src < Len(bytes))
  <2>1. Len(bytes) \in src .. Len(bytes) /\ ~(Len(bytes) < Len(bytes))
    BY <1>3
  <2> QED BY <1>1, <2>1, Zenon
<1> QED BY <1>1, <1>2, <1>5, <1>6, Zenon DEF Leaves, Returns

\* n bytes of those in the buffer, after more of the source was put there.
LEMMA TakesFrom ==
  ASSUME Buffer, NEW k \in 0 .. Left, k > 0 => src < Len(bytes),
         NEW n \in Nat, NEW have,
         have = SubSeq(bytes, off + 1, off + Len(buffered) + k),
         n <= Len(buffered) + k, Len(buffered) + k - n <= BufferSize,
         NEW o,
         o.err = "none", o.src = src + k, o.off = off + n,
         o.buffered = SubSeq(have, n + 1, Len(have))
  PROVE  /\ Leaves(o, n)
         /\ SubSeq(have, 1, n) \in Seq(Byte) /\ Len(SubSeq(have, 1, n)) = n
<1> DEFINE c == off + Len(buffered) + k
           rest == SubSeq(have, n + 1, Len(have))
<1>1. /\ BufferSize \in Nat /\ Len(bytes) \in Nat /\ Len(buffered) \in Nat
      /\ src \in 0 .. Len(bytes) /\ off \in Nat /\ bytes \in Seq(Byte)
      /\ off + Len(buffered) <= src /\ Left = Len(bytes) - src
      /\ (src < Len(bytes) => src = off + Len(buffered))
  BY Numbers DEF Buffer
<1>2. /\ c \in off .. Len(bytes) /\ c <= src + k
      /\ src + k < Len(bytes) => c = src + k
  <2>1. c \in off .. Len(bytes) /\ c <= src + k
    BY <1>1
  <2>2. ASSUME src + k < Len(bytes) PROVE c = src + k
    <3>1. src < Len(bytes)
      BY <1>1, <2>2
    <3>2. src = off + Len(buffered)
      BY <1>1, <3>1, Zenon
    <3> QED BY <1>1, <3>2
  <2> QED BY <2>1, <2>2
<1>3. have \in Seq(Byte) /\ Len(have) = Len(buffered) + k
  <2>1. have = SubSeq(bytes, off + 1, c)
    OBVIOUS
  <2> HIDE DEF c
  <2>2. SubSeq(bytes, off + 1, c) \in Seq(Byte)
        /\ Len(SubSeq(bytes, off + 1, c)) = c - off
    BY <1>1, <1>2, Piece
  <2>3. have \in Seq(Byte) /\ Len(have) = c - off
    BY <2>1, <2>2
  <2> QED BY <2>3, <1>1 DEF c
<1>4. rest = SubSeq(bytes, off + n + 1, c)
  <2>1. /\ n \in 0 .. c - off /\ Len(have) \in n .. c - off
        /\ off + Len(have) = c
    BY <1>1, <1>3
  <2>2. have = SubSeq(bytes, off + 1, c)
    OBVIOUS
  <2> HIDE DEF c
  <2>3. SubSeq(SubSeq(bytes, off + 1, c), n + 1, Len(have)) =
          SubSeq(bytes, off + n + 1, off + Len(have))
    BY <1>1, <1>2, <2>1, PieceOfPiece, SMTT(40)
  <2> QED BY <2>1, <2>2, <2>3
<1>5. rest \in Seq(Byte) /\ Len(rest) = Len(buffered) + k - n
  <2>1. PICK x \in Nat : x = off + n
    BY <1>1
  <2>2. c \in x .. Len(bytes) /\ c - x = Len(buffered) + k - n
    BY <1>1, <1>2, <2>1
  <2> HIDE DEF c
  <2>3. SubSeq(bytes, x + 1, c) \in Seq(Byte)
        /\ Len(SubSeq(bytes, x + 1, c)) = c - x
    BY <1>1, <2>2, Piece
  <2>4. rest = SubSeq(bytes, x + 1, c)
    BY <1>4, <2>1
  <2> HIDE DEF rest
  <2> QED BY <2>2, <2>3, <2>4
<1>6. off + n + Len(rest) = c
  <2> HIDE DEF rest
  <2> QED BY <1>1, <1>5
<1>7. /\ o.err = "none" /\ o.src = src + k /\ o.buffered = rest
      /\ o.off = off + n
  OBVIOUS
<1>8. /\ SubSeq(have, 1, n) \in Seq(Byte) /\ Len(SubSeq(have, 1, n)) = n
  <2>1. 0 \in Nat /\ n \in 0 .. Len(have) /\ n - 0 = n /\ 0 + 1 = 1
    BY <1>1, <1>3
  <2>2. SubSeq(have, 0 + 1, n) \in Seq(Byte)
        /\ Len(SubSeq(have, 0 + 1, n)) = n - 0
    BY <1>3, <2>1, Piece
  <2> QED BY <2>1, <2>2
<1>9. Leaves(o, n)
  <2> HIDE DEF rest
  <2>1. o.err \in Errors
    BY <1>7 DEF Errors
  <2>2. o.buffered = SubSeq(bytes, o.off + 1, o.off + Len(o.buffered))
    BY <1>4, <1>6, <1>7 DEF rest
  <2>3. /\ o.src \in src .. Len(bytes) /\ o.off \in off .. off + n
        /\ Len(o.buffered) <= BufferSize
        /\ o.off + Len(o.buffered) <= o.src
        /\ (o.src < Len(bytes) => o.src = o.off + Len(o.buffered))
    <3>1. src + k \in src .. Len(bytes) /\ off + n \in off .. off + n
      BY <1>1
    <3>2. Len(rest) <= BufferSize
      BY <1>5
    <3>3. off + n + Len(rest) <= src + k
      BY <1>2, <1>6
    <3>4. src + k < Len(bytes) => src + k = off + n + Len(rest)
      BY <1>2, <1>6, Zenon
    <3> QED BY <1>7, <3>1, <3>2, <3>3, <3>4
  <2> QED BY <2>1, <2>2, <2>3, <1>5, <1>7 DEF Leaves
<1> QED BY <1>8, <1>9
\* Bytes that were in the buffer.
LEMMA FromBufferLeaves ==
  ASSUME Buffer, NEW n \in 0 .. Len(buffered)
  PROVE  Leaves(FromBuffer(n), n) /\ Returns(FromBuffer(n), n)
<1> DEFINE o == FromBuffer(n)
<1>1. /\ BufferSize \in Nat /\ Len(buffered) \in Nat /\ n \in Nat /\ src \in Nat
      /\ off \in Nat /\ Left \in Nat /\ Len(buffered) <= BufferSize
      /\ buffered = SubSeq(bytes, off + 1, off + Len(buffered))
  BY Numbers DEF Buffer
<1>2. PICK k \in 0 .. Left : k = 0
  BY <1>1
<1>3. /\ off + Len(buffered) + k = off + Len(buffered) /\ src + k = src
      /\ n <= Len(buffered) + k /\ Len(buffered) + k - n <= BufferSize
      /\ ~(k > 0)
  BY <1>1, <1>2
<1>4. buffered = SubSeq(bytes, off + 1, off + Len(buffered) + k)
  BY <1>1, <1>3, Zenon
<1>5. /\ o.err = "none" /\ o.src = src
      /\ o.buffered = SubSeq(buffered, n + 1, Len(buffered))
      /\ o.off = off + n /\ o.b = SubSeq(buffered, 1, n)
  BY DEF FromBuffer, Outcome
<1>6. o.src = src + k
  BY <1>3, <1>5, Zenon
<1> HIDE DEF o
<1>7. /\ Leaves(o, n)
      /\ SubSeq(buffered, 1, n) \in Seq(Byte)
      /\ Len(SubSeq(buffered, 1, n)) = n
  <2> DEFINE have == buffered
  <2>1. /\ have = SubSeq(bytes, off + 1, off + Len(buffered) + k)
        /\ o.buffered = SubSeq(have, n + 1, Len(have))
    BY <1>4, <1>5
  <2> HIDE DEF have
  <2>2. /\ Leaves(o, n)
        /\ SubSeq(have, 1, n) \in Seq(Byte) /\ Len(SubSeq(have, 1, n)) = n
    <3>1. /\ k \in 0 .. Left /\ (k > 0 => src < Len(bytes)) /\ n \in Nat
          /\ have = SubSeq(bytes, off + 1, off + Len(buffered) + k)
      BY <2>1, <1>1, <1>2, <1>3
    <3>2. /\ n <= Len(buffered) + k /\ Len(buffered) + k - n <= BufferSize
      BY <1>3
    <3>3. /\ o.err = "none" /\ o.src = src + k /\ o.off = off + n
          /\ o.buffered = SubSeq(have, n + 1, Len(have))
      BY <2>1, <1>5, <1>6
    <3> QED BY <3>1, <3>2, <3>3, TakesFrom, ZenonT(60)
  <2> QED BY <2>2 DEF have
<1>8. Returns(o, n)
  BY <1>5, <1>7, Zenon DEF Returns
<1> QED BY <1>7, <1>8 DEF o

LEMMA GivenIs ==
  ASSUME Buffer, NEW p \in Nat, NEW room \in Nat, p <= room, p <= Left,
         NEW k \in Given(p, room)
  PROVE  k \in p .. room /\ k \in 0 .. Left
<1>1. Left \in Nat
  BY Numbers
<1>2. k = p \/ k = IF Left < room THEN Left ELSE room
  BY DEF Given
<1> QED BY <1>1, <1>2

\* Bytes in the buffer and after it are those that follow.
LEMMA Have ==
  ASSUME Buffer, NEW k \in 0 .. Left, src = off + Len(buffered)
  PROVE  buffered \o SubSeq(bytes, src + 1, src + k) =
           SubSeq(bytes, off + 1, off + Len(buffered) + k)
<1>1. /\ Len(buffered) \in Nat /\ off \in Nat /\ src \in Nat /\ Left \in Nat
      /\ Left = Len(bytes) - src /\ Len(bytes) \in Nat /\ bytes \in Seq(Byte)
      /\ buffered = SubSeq(bytes, off + 1, off + Len(buffered))
  BY Numbers DEF Buffer
<1>2. PICK c \in Nat : c = src + k
  BY <1>1
<1>3. src \in off .. Len(bytes) /\ c \in src .. Len(bytes)
  BY <1>1, <1>2
<1>4. SubSeq(bytes, off + 1, src) \o SubSeq(bytes, src + 1, c)
        = SubSeq(bytes, off + 1, c)
  BY <1>1, <1>3, Joined
<1>5. buffered = SubSeq(bytes, off + 1, src)
  BY <1>1, Zenon
<1> QED BY <1>2, <1>4, <1>5, Zenon

LEMMA NextLeaves ==
  ASSUME Buffer, NEW n \in Nat, NEW o \in Next(n)
  PROVE  /\ Leaves(o, n) /\ Returns(o, n)
         /\ o.err # "none" =>
              o.src = Len(bytes) \/ (Stays(o) /\ o.err = "too small")
         /\ o.err = "too small" => n > BufferSize
<1> DEFINE p == n - Len(buffered)
<1>1. /\ BufferSize \in Nat /\ Len(buffered) \in Nat /\ src \in Nat
      /\ off \in Nat /\ Left \in Nat /\ Len(buffered) <= BufferSize
      /\ Len(bytes) \in Nat /\ Left = Len(bytes) - src
      /\ (src < Len(bytes) => src = off + Len(buffered))
  BY Numbers DEF Buffer
<1>2. CASE n > BufferSize
  <2>1. o = Outcome("too small", src, buffered, off, <<>>)
    BY <1>2 DEF Next
  <2>2. "too small" \in Errors \ {"none"}
    BY DEF Errors
  <2>3. Leaves(o, n) /\ Returns(o, n)
    BY <2>1, <2>2, FailsUnread
  <2>4. Stays(o) /\ o.err = "too small"
    BY <2>1 DEF Stays, Outcome
  <2> QED BY <2>3, <2>4, <1>2
<1>3. CASE ~(n > BufferSize) /\ p <= 0
  <2>1. o = FromBuffer(n)
    BY <1>3 DEF Next
  <2>2. n \in 0 .. Len(buffered)
    BY <1>1, <1>3
  <2>3. Leaves(o, n) /\ Returns(o, n)
    BY <2>1, <2>2, FromBufferLeaves
  <2>4. o.err = "none"
    BY <2>1, FieldsOf DEF FromBuffer
  <2> QED BY <2>3, <2>4
<1>4. CASE ~(n > BufferSize) /\ ~(p <= 0) /\ Left < p
  <2>1. o = Outcome(EndOfSource(0), Len(bytes), buffered, off, <<>>)
    BY <1>4 DEF Next
  <2>2. off \in off .. off + n /\ 0 \in Nat
    BY <1>1
  <2>3. Leaves(o, n) /\ Returns(o, n) /\ o.src = Len(bytes)
    BY <2>1, <2>2, FailsAtEnd
  <2>4. o.err # "too small"
    BY <2>1 DEF EndOfSource, Outcome
  <2> QED BY <2>3, <2>4
<1>5. CASE ~(n > BufferSize) /\ ~(p <= 0) /\ ~(Left < p)
  <2>1. PICK k \in Given(p, BufferSize - Len(buffered)) :
          o = LET have == buffered \o SubSeq(bytes, src + 1, src + k)
              IN  Outcome("none", src + k, SubSeq(have, n + 1, Len(have)),
                          off + n, SubSeq(have, 1, n))
    BY <1>5 DEF Next
  <2>2. PICK room \in Nat : room = BufferSize - Len(buffered)
    BY <1>1
  <2>3. p \in Nat /\ p > 0 /\ p <= room /\ p <= Left
    BY <1>1, <1>5, <2>2
  <2>4. k \in p .. room /\ k \in 0 .. Left
    <3> HIDE DEF p
    <3> QED BY <2>1, <2>2, <2>3, GivenIs
  <2>5. src < Len(bytes) /\ src = off + Len(buffered)
    BY <1>1, <2>3
  <2> DEFINE have == buffered \o SubSeq(bytes, src + 1, src + k)
  <2>6. have = SubSeq(bytes, off + 1, off + Len(buffered) + k)
    BY <2>4, <2>5, Have
  <2>7. n <= Len(buffered) + k /\ Len(buffered) + k - n <= BufferSize
    BY <1>1, <2>2, <2>4
  <2>8. o = Outcome("none", src + k, SubSeq(have, n + 1, Len(have)), off + n,
                    SubSeq(have, 1, n))
    BY <2>1
  <2> HIDE DEF have, p
  <2>9. /\ o.err = "none" /\ o.src = src + k /\ o.off = off + n
        /\ o.buffered = SubSeq(have, n + 1, Len(have))
        /\ o.b = SubSeq(have, 1, n)
    BY <2>8 DEF Outcome
  <2>10. /\ Leaves(o, n)
         /\ SubSeq(have, 1, n) \in Seq(Byte) /\ Len(SubSeq(have, 1, n)) = n
    BY <2>4, <2>5, <2>6, <2>7, <2>9, TakesFrom, ZenonT(60)
  <2> QED BY <2>9, <2>10 DEF Returns
<1> QED BY <1>2, <1>3, <1>4, <1>5

\* Reader.next: it also fails when the element is used up or too short.
LEMMA ReaderNextLeaves ==
  ASSUME Buffer, NEW n \in Nat, NEW r, r.len \in Int, r.len >= -1,
         NEW o \in next(r, n)
  PROVE  /\ Leaves(o, n) /\ Returns(o, n)
         /\ o.err = "none" => r.len = -1 \/ r.len >= n
         /\ o.err # "none" =>
              \/ o.src = Len(bytes)
              \/ Stays(o) /\ (r.len <= 0 \/ r.len < n \/ o.err = "too small")
         /\ o.err = "too small" => n > BufferSize
<1>1. CASE r.len = 0
  <2>1. o = Outcome("EOF", src, buffered, off, <<>>)
    BY <1>1 DEF next
  <2>2. "EOF" \in Errors \ {"none"}
    BY DEF Errors
  <2>3. Leaves(o, n) /\ Returns(o, n)
    BY <2>1, <2>2, FailsUnread
  <2>4. Stays(o) /\ o.err = "EOF"
    BY <2>1, FieldsOf DEF Stays
  <2> QED BY <2>3, <2>4, <1>1
<1>2. CASE r.len # 0 /\ 0 <= r.len /\ r.len < n
  <2>1. o = Outcome("format", src, buffered, off, <<>>)
    BY <1>2 DEF next
  <2>2. "format" \in Errors \ {"none"}
    BY DEF Errors
  <2>3. Leaves(o, n) /\ Returns(o, n)
    BY <2>1, <2>2, FailsUnread
  <2>4. Stays(o) /\ o.err = "format"
    BY <2>1, FieldsOf DEF Stays
  <2> QED BY <2>3, <2>4, <1>2
<1>3. CASE r.len # 0 /\ ~(0 <= r.len /\ r.len < n)
  <2>1. o \in Next(n)
    BY <1>3 DEF next
  <2>2. r.len = -1 \/ r.len >= n
    BY <1>3
  <2>3. /\ Leaves(o, n) /\ Returns(o, n)
        /\ o.err # "none" =>
             o.src = Len(bytes) \/ (Stays(o) /\ o.err = "too small")
        /\ o.err = "too small" => n > BufferSize
    BY <2>1, NextLeaves
  <2> QED BY <2>2, <2>3
<1> QED BY <1>1, <1>2, <1>3
\* All of the buffer and m bytes of the source, of which k were taken.
LEMMA TakesPast ==
  ASSUME Buffer, src < Len(bytes), NEW m \in Nat, NEW k \in m .. Left,
         k - m <= BufferSize, NEW n, n = Len(buffered) + m, NEW o,
         o.err = "none", o.src = src + k, o.off = off + n,
         o.buffered = SubSeq(bytes, src + m + 1, src + k)
  PROVE  Leaves(o, n)
<1>1. /\ BufferSize \in Nat /\ Len(bytes) \in Nat /\ Len(buffered) \in Nat
      /\ src \in Nat /\ off \in Nat /\ bytes \in Seq(Byte) /\ Left \in Nat
      /\ Left = Len(bytes) - src /\ src = off + Len(buffered)
  BY Numbers DEF Buffer
<1>2. PICK x \in Nat : x = src + m
  BY <1>1
<1>3. PICK c \in Nat : c = src + k
  BY <1>1
<1>4. c \in x .. Len(bytes)
  BY <1>1, <1>2, <1>3
<1>5. /\ SubSeq(bytes, x + 1, c) \in Seq(Byte)
      /\ Len(SubSeq(bytes, x + 1, c)) = c - x
  BY <1>1, <1>4, Piece
<1>6. o.buffered = SubSeq(bytes, x + 1, c)
  BY <1>2, <1>3, Zenon
<1>7. o.buffered \in Seq(Byte) /\ Len(o.buffered) = c - x
  BY <1>5, <1>6, Zenon
<1>8. o.off = x /\ o.off + Len(o.buffered) = c
  <2>1. off + n = x
    BY <1>1, <1>2
  <2>2. o.off = x
    BY <2>1, Zenon
  <2> QED BY <1>2, <1>3, <1>7, <2>2
<1>9. o.buffered = SubSeq(bytes, o.off + 1, o.off + Len(o.buffered))
  BY <1>6, <1>8, Zenon
<1>10. Len(o.buffered) <= BufferSize
  BY <1>1, <1>2, <1>3, <1>7
<1>11. n \in Nat /\ off + n \in off .. off + n
  BY <1>1
<1>12. o.src \in src .. Len(bytes) /\ o.off + Len(o.buffered) = o.src
  BY <1>1, <1>3, <1>4, <1>8
<1>13. o.err \in Errors
  BY DEF Errors
<1>14. o.off + Len(o.buffered) <= o.src
  BY <1>1, <1>12
<1> QED BY <1>7, <1>9, <1>10, <1>11, <1>12, <1>13, <1>14, Zenon DEF Leaves

LEMMA ReadLeaves ==
  ASSUME Buffer, NEW n \in Nat, NEW o \in Read(n)
  PROVE  Leaves(o, n) /\ Returns(o, n)
<1> DEFINE m == n - Len(buffered)
<1>1. /\ BufferSize \in Nat /\ Len(buffered) \in Nat /\ src \in Nat
      /\ off \in Nat /\ Left \in Nat /\ Len(bytes) \in Nat
      /\ Left = Len(bytes) - src /\ off + Len(buffered) <= src
      /\ (src < Len(bytes) => src = off + Len(buffered))
      /\ bytes \in Seq(Byte)
  BY Numbers DEF Buffer
<1>2. CASE m <= 0
  <2>1. o = FromBuffer(n)
    BY <1>2 DEF Read
  <2>2. n \in 0 .. Len(buffered)
    BY <1>1, <1>2
  <2> QED BY <2>1, <2>2, FromBufferLeaves
<1>3. CASE ~(m <= 0) /\ Left < m
  <2> DEFINE f == off + Len(buffered) + (IF m > BufferSize THEN Left ELSE 0)
             none == <<>>
  <2>1. o = Outcome(EndOfSource(0), Len(bytes), none, f, <<>>)
    BY <1>3 DEF Read
  <2>2. f \in off .. off + n /\ f <= Len(bytes) /\ 0 \in Nat
    <3>1. PICK g \in {0, Left} : g = IF m > BufferSize THEN Left ELSE 0
      OBVIOUS
    <3>2. g \in Nat /\ g <= Left /\ g < m
      BY <1>1, <1>3, <3>1
    <3>3. f = off + Len(buffered) + g
      BY <3>1
    <3> HIDE DEF f
    <3> QED BY <1>1, <3>2, <3>3
  <2>3. none = <<>>
    OBVIOUS
  <2> HIDE DEF f, none
  <2> QED BY <2>1, <2>2, <2>3, FailsAtEnd
<1>4. CASE ~(m <= 0) /\ ~(Left < m)
  <2>1. PICK k \in IF m > BufferSize THEN {m} ELSE Given(m, BufferSize) :
          o = Outcome("none", src + k, SubSeq(bytes, src + m + 1, src + k),
                      off + n, buffered \o SubSeq(bytes, src + 1, src + m))
    BY <1>4 DEF Read
  <2>2. m \in Nat /\ m > 0 /\ m <= Left
    BY <1>1, <1>4
  <2>3. k \in m .. Left /\ k - m <= BufferSize
    <3>1. CASE m > BufferSize
      BY <1>1, <2>1, <2>2, <3>1
    <3>2. CASE ~(m > BufferSize)
      <4>1. k \in Given(m, BufferSize) /\ m <= BufferSize
        BY <1>1, <2>1, <2>2, <3>2
      <4> HIDE DEF m
      <4>2. k \in m .. BufferSize /\ k \in 0 .. Left
        BY <1>1, <2>2, <4>1, GivenIs
      <4> QED BY <1>1, <2>2, <4>2
    <3> QED BY <3>1, <3>2
  <2>4. src < Len(bytes) /\ src = off + Len(buffered)
    BY <1>1, <2>2
  <2> DEFINE b == buffered \o SubSeq(bytes, src + 1, src + m)
             rest == SubSeq(bytes, src + m + 1, src + k)
  <2>5. n = Len(buffered) + m
    BY <1>1
  <2>6. o = Outcome("none", src + k, rest, off + n, b)
    BY <2>1
  <2>7. b = SubSeq(bytes, off + 1, off + Len(buffered) + m)
    <3>1. m \in 0 .. Left
      BY <1>1, <2>2
    <3> HIDE DEF m
    <3> QED BY <2>4, <3>1, Have
  <2>8. b \in Seq(Byte) /\ Len(b) = n
    <3>1. PICK c \in Nat : c = off + Len(buffered) + m
      BY <1>1, <2>2
    <3>2. c \in off .. Len(bytes) /\ c - off = n
      BY <1>1, <2>2, <2>4, <3>1
    <3>3. /\ SubSeq(bytes, off + 1, c) \in Seq(Byte)
          /\ Len(SubSeq(bytes, off + 1, c)) = c - off
      BY <1>1, <3>2, Piece
    <3>4. b = SubSeq(bytes, off + 1, c)
      BY <2>7, <3>1, Zenon
    <3> HIDE DEF b
    <3> QED BY <3>2, <3>3, <3>4
  <2>9. rest = SubSeq(bytes, src + m + 1, src + k)
    OBVIOUS
  <2> HIDE DEF b, rest, m
  <2>10. /\ o.err = "none" /\ o.src = src + k /\ o.off = off + n
         /\ o.buffered = rest /\ o.b = b
    BY <2>6 DEF Outcome
  <2>11. o.buffered = SubSeq(bytes, src + m + 1, src + k)
    BY <2>9, <2>10, Zenon
  <2>12. Leaves(o, n)
    BY <2>2, <2>3, <2>4, <2>5, <2>10, <2>11, TakesPast
  <2>13. Returns(o, n)
    BY <2>8, <2>10, Zenon DEF Returns
  <2> QED BY <2>12, <2>13
<1> QED BY <1>2, <1>3, <1>4

LEMMA MinOfTwo ==
  ASSUME NEW a \in Int, NEW b \in Int
  PROVE  Min({a, b}) = IF a <= b THEN a ELSE b
<1>1. CASE a <= b
  <2>1. a \in {a, b} /\ \A y \in {a, b} : a <= y
    BY <1>1
  <2>2. \A x \in {a, b} : (\A y \in {a, b} : x <= y) => x = a
    BY <1>1
  <2> QED BY <1>1, <2>1, <2>2 DEF Min
<1>2. CASE ~(a <= b)
  <2>1. b \in {a, b} /\ \A y \in {a, b} : b <= y
    BY <1>2
  <2>2. \A x \in {a, b} : (\A y \in {a, b} : x <= y) => x = b
    BY <1>2
  <2> QED BY <1>2, <2>1, <2>2 DEF Min
<1> QED BY <1>1, <1>2

\* Skip fails only where the source ends.
LEMMA SkipLeaves ==
  ASSUME Buffer, NEW n \in Nat, NEW o \in Skip(n)
  PROVE  Leaves(o, n) /\ (o.err # "none" => o.src = Len(bytes))
<1> DEFINE d    == n - Len(buffered)
           full == ((d - 1) \div BufferSize) * BufferSize
           read == (Min({Left, full}) \div BufferSize) * BufferSize
<1>1. /\ BufferSize \in Nat /\ BufferSize >= 1 /\ Len(buffered) \in Nat
      /\ src \in Nat /\ off \in Nat /\ Left \in Nat /\ Len(bytes) \in Nat
      /\ Left = Len(bytes) - src /\ off + Len(buffered) <= src
      /\ (src < Len(bytes) => src = off + Len(buffered))
  BY Numbers DEF Buffer
<1>2. CASE d <= 0
  <2>1. o = FromBuffer(n)
    BY <1>2 DEF Skip
  <2>2. n \in 0 .. Len(buffered)
    BY <1>1, <1>2
  <2>3. Leaves(o, n)
    BY <2>1, <2>2, FromBufferLeaves
  <2>4. o.err = "none"
    BY <2>1, FieldsOf DEF FromBuffer
  <2> QED BY <2>3, <2>4
<1>3. ASSUME ~(d <= 0)
      PROVE  full \in Nat /\ full < d /\ d <= full + BufferSize
  <2>1. PICK e \in Nat : e = d - 1
    <3>1. d - 1 \in Nat
      BY <1>1, <1>3
    <3> HIDE DEF d
    <3> QED BY <3>1
  <2>2. PICK q \in Nat, r \in 0 .. BufferSize - 1 :
          q = e \div BufferSize /\ e = BufferSize * q + r
    <3>1. /\ e \div BufferSize \in Nat /\ e % BufferSize \in 0 .. BufferSize - 1
          /\ e = BufferSize * (e \div BufferSize) + (e % BufferSize)
      BY <1>1, DivMod
    <3> HIDE DEF full, read, d
    <3> QED BY <3>1, Zenon
  <2>3. full = q * BufferSize
    BY <2>1, <2>2
  <2>4. q * BufferSize = BufferSize * q /\ BufferSize * q \in Nat
    BY <1>1
  <2> HIDE DEF full
  <2> QED BY <1>1, <2>1, <2>2, <2>3, <2>4
<1>4. CASE ~(d <= 0) /\ Left < d
  <2> DEFINE f == off + Len(buffered) + read
             none == <<>>
  <2>1. o = Outcome(EndOfSource(read), Len(bytes), none, f, <<>>)
    BY <1>4 DEF Skip
  <2>2. read \in 0 .. Left
    <3>1. PICK a \in Nat : a = Min({Left, full}) /\ a <= Left
      <4>1. full \in Nat
        BY <1>3, <1>4
      <4> HIDE DEF full
      <4>2. Min({Left, full}) = IF Left <= full THEN Left ELSE full
        BY <1>1, <4>1, MinOfTwo
      <4> QED BY <1>1, <4>1, <4>2
    <3>2. PICK q \in Nat, r \in 0 .. BufferSize - 1 :
            q = a \div BufferSize /\ a = BufferSize * q + r
      <4>1. /\ a \div BufferSize \in Nat
            /\ a % BufferSize \in 0 .. BufferSize - 1
            /\ a = BufferSize * (a \div BufferSize) + (a % BufferSize)
        BY <1>1, DivMod
      <4> HIDE DEF full, read, d
      <4> QED BY <4>1, Zenon
    <3>3. read = q * BufferSize
      BY <3>1, <3>2
    <3>4. PICK s \in Nat : s = BufferSize * q /\ s = q * BufferSize
      BY <1>1
    <3> HIDE DEF read, full, d
    <3>5. read = s /\ a = s + r
      BY <3>2, <3>3, <3>4
    <3> QED BY <1>1, <3>1, <3>2, <3>5
  <2> HIDE DEF full, read
  <2>3. f \in off .. off + n /\ f <= Len(bytes) /\ read \in Nat
    BY <1>1, <1>4, <2>2
  <2>4. none = <<>>
    OBVIOUS
  <2> HIDE DEF f, none
  <2> QED BY <2>1, <2>3, <2>4, FailsAtEnd
<1>5. CASE ~(d <= 0) /\ ~(Left < d)
  <2>1. PICK k \in Given(d, full + BufferSize) :
          o = Outcome("none", src + k, SubSeq(bytes, src + d + 1, src + k),
                      off + n, <<>>)
    BY <1>5 DEF Skip
  <2>2. full \in Nat /\ full < d /\ d <= full + BufferSize
    BY <1>3, <1>5
  <2> HIDE DEF full
  <2>3. d \in Nat /\ d > 0 /\ d <= Left /\ n = Len(buffered) + d
    BY <1>1, <1>5
  <2> HIDE DEF d
  <2>4. k \in d .. full + BufferSize /\ k \in 0 .. Left
    <3>1. full + BufferSize \in Nat
      BY <1>1, <2>2
    <3> QED BY <2>1, <2>2, <2>3, <3>1, GivenIs
  <2>5. k \in d .. Left /\ k - d <= BufferSize /\ src < Len(bytes)
    BY <1>1, <2>2, <2>3, <2>4
  <2> DEFINE rest == SubSeq(bytes, src + d + 1, src + k)
             none == <<>>
  <2>6. o = Outcome("none", src + k, rest, off + n, none)
    BY <2>1
  <2>7. rest = SubSeq(bytes, src + d + 1, src + k)
    OBVIOUS
  <2> HIDE DEF rest, none
  <2>8. /\ o.err = "none" /\ o.src = src + k /\ o.off = off + n
        /\ o.buffered = rest
    BY <2>6 DEF Outcome
  <2>9. o.buffered = SubSeq(bytes, src + d + 1, src + k)
    BY <2>7, <2>8, Zenon
  <2> QED BY <2>3, <2>5, <2>8, <2>9, TakesPast
<1> QED BY <1>2, <1>4, <1>5

\* What a call leaves is a buffer as it should be.
LEMMA BufferKept ==
  ASSUME Buffer, NEW n \in Nat, NEW o, Leaves(o, n), Takes(o), bytes' = bytes
  PROVE  Buffer'
<1>1. src' = o.src /\ buffered' = o.buffered /\ off' = o.off
  BY DEF Takes
<1>2. /\ src \in Nat /\ off \in Nat /\ Len(bytes) \in Nat
  BY Numbers
<1>3. o.src \in 0 .. Len(bytes) /\ o.off \in Nat
  <2>1. o.src \in src .. Len(bytes) /\ o.off \in off .. off + n
    BY Zenon DEF Leaves
  <2> QED BY <1>2, <2>1
<1>4. bytes \in Seq(Byte)
  BY DEF Buffer
<1> QED BY <1>1, <1>3, <1>4, Zenon DEF Leaves, Buffer

-----------------------------------------------------------------------------
(* Chains of Readers.                                                       *)

\* A Reader whose end is known has a known length.
Readers ==
  {r \in [id : Nat, len : Int, end : Int] :
     r.len >= -1 /\ (r.end # Unknown => r.len >= 0)}

\* Each element ends where what is left of it follows the end of the one in it,
\* the last one that many bytes behind o.
Ending(chain, o) ==
  \A i \in 1 .. Len(chain) :
    chain[i].end # Unknown =>
      \/ i = Len(chain) /\ chain[i].end = o + chain[i].len
      \/ /\ i < Len(chain) /\ chain[i + 1].end # Unknown
         /\ chain[i].end = chain[i + 1].end + chain[i].len

LEMMA ReaderIs ==
  ASSUME NEW chain \in Seq(Readers)
  PROVE  /\ Len(chain) \in Nat /\ DOMAIN chain = 1 .. Len(chain)
         /\ \A i \in 1 .. Len(chain) :
              /\ chain[i] \in Readers
              /\ chain[i].id \in Nat /\ chain[i].len \in Int
              /\ chain[i].end \in Int /\ chain[i].len >= -1
              /\ chain[i].end # Unknown => chain[i].len >= 0
<1>1. Len(chain) \in Nat /\ DOMAIN chain = 1 .. Len(chain)
  OBVIOUS
<1>2. ASSUME NEW r \in Readers
      PROVE  /\ r.id \in Nat /\ r.len \in Int /\ r.end \in Int /\ r.len >= -1
             /\ r.end # Unknown => r.len >= 0
  BY DEF Readers
<1>3. \A i \in 1 .. Len(chain) : chain[i] \in Readers
  BY <1>1
<1> HIDE DEF Readers
<1> QED BY <1>1, <1>2, <1>3

\* From the end of any of them back to o there is what is left of the ones in
\* it.
LEMMA EndIs ==
  ASSUME NEW chain \in Seq(Readers), NEW o \in Int, Ending(chain, o),
         NEW i \in 1 .. Len(chain), chain[i].end # Unknown
  PROVE  chain[i].end = o + chain[i].len + LeftIn(chain, i)[Len(chain)]
<1> DEFINE L == LeftIn(chain, i)
<1>1. /\ Len(chain) \in Nat
      /\ \A j \in 1 .. Len(chain) :
           /\ chain[j].len \in Int /\ chain[j].end \in Int
           /\ chain[j].end # Unknown => chain[j].len >= 0
  BY ReaderIs
<1>2. /\ L \in [0 .. Len(chain) -> Nat]
      /\ \A j \in 0 .. Len(chain) : j <= i => L[j] = 0
      /\ \A j \in 1 .. Len(chain) : j > i => L[j] = L[j - 1] + Rest(chain[j])
  BY <1>1, LeftInIs
<1> HIDE DEF L
<1> DEFINE At(j) == /\ chain[j].end # Unknown
                    /\ chain[i].end + chain[j].len =
                         chain[j].end + chain[i].len + L[j]
           T == {n \in Nat : i + n \in 1 .. Len(chain) => At(i + n)}
<1>3. 0 \in T
  <2>1. i + 0 = i /\ L[i] = 0
    BY <1>1, <1>2
  <2>2. chain[i].len \in Int /\ chain[i].end \in Int
    BY <1>1
  <2>3. At(i)
    BY <2>1, <2>2
  <2> QED BY <2>1, <2>3
<1>4. ASSUME NEW n \in Nat, n \in T PROVE n + 1 \in T
  <2> SUFFICES ASSUME i + (n + 1) \in 1 .. Len(chain) PROVE At(i + (n + 1))
    OBVIOUS
  <2>1. PICK j \in 1 .. Len(chain) : j = i + n
    BY <1>1
  <2>2. j + 1 = i + (n + 1) /\ j < Len(chain) /\ (j + 1) - 1 = j
        /\ j + 1 \in 1 .. Len(chain) /\ j + 1 > i
    BY <1>1, <2>1
  <2>3. At(j)
    BY <1>4, <2>1
  <2>4. /\ chain[j + 1].end # Unknown
        /\ chain[j].end = chain[j + 1].end + chain[j].len
    BY <2>2, <2>3 DEF Ending
  <2>5. L[j + 1] = L[j] + chain[j + 1].len
    <3>1. L[j + 1] = L[j] + Rest(chain[j + 1])
      BY <1>2, <2>2
    <3>2. chain[j + 1].len \in Int /\ chain[j + 1].len >= 0
      BY <1>1, <2>2, <2>4
    <3>3. Rest(chain[j + 1]) = chain[j + 1].len
      BY <3>2 DEF Rest
    <3> QED BY <3>1, <3>3
  <2>6. /\ chain[j].len \in Int /\ chain[j].end \in Int
        /\ chain[j + 1].len \in Int /\ chain[j + 1].end \in Int
        /\ chain[i].len \in Int /\ chain[i].end \in Int
    BY <1>1, <2>2
  <2>7. L[j] \in Nat
    <3>1. j \in 0 .. Len(chain)
      BY <1>1
    <3> QED BY <1>2, <3>1
  <2>8. chain[i].end + chain[j + 1].len =
          chain[j + 1].end + chain[i].len + L[j + 1]
    <3>1. chain[i].end + chain[j].len = chain[j].end + chain[i].len + L[j]
      BY <2>3
    <3> HIDE DEF T, At
    <3>2. PICK a \in Int, b \in Int, c \in Int :
            a = chain[i].len /\ b = chain[j].len /\ c = chain[j + 1].len
      BY <2>6, Zenon
    <3>3. PICK x \in Int, y \in Int, z \in Int :
            x = chain[i].end /\ y = chain[j].end /\ z = chain[j + 1].end
      BY <2>6, Zenon
    <3>4. x + b = y + a + L[j] /\ y = z + b /\ L[j + 1] = L[j] + c
      BY <2>4, <2>5, <3>1, <3>2, <3>3, Zenon
    <3>5. PICK l \in Nat, m \in Int : l = L[j] /\ m = L[j + 1]
      <4>1. L[j] \in Nat /\ L[j + 1] \in Int
        BY <2>5, <2>6, <2>7
      <4> QED BY <4>1, Zenon
    <3>6. x + b = y + a + l /\ y = z + b /\ m = l + c
      BY <3>4, <3>5, Zenon
    <3>7. x + c = z + a + m
      BY <3>6
    <3> QED BY <3>2, <3>3, <3>5, <3>7, Zenon
  <2>9. At(j + 1)
    BY <2>4, <2>8
  <2> QED BY <2>2, <2>9
<1>5. Nat \subseteq T
  <2> HIDE DEF T
  <2> QED BY <1>3, <1>4, Induction
<1>6. PICK n \in Nat : n = Len(chain) - i
  <2>1. Len(chain) - i \in Nat
    BY <1>1
  <2> HIDE DEF T
  <2> QED BY <2>1
<1>7. n \in T /\ i + n = Len(chain) /\ Len(chain) \in 1 .. Len(chain)
  <2>1. n \in T
    BY <1>5
  <2> HIDE DEF T
  <2> QED BY <1>1, <1>6, <2>1
<1>8. At(Len(chain))
  BY <1>7
<1>9. chain[Len(chain)].end = o + chain[Len(chain)].len
  BY <1>1, <1>7, <1>8 DEF Ending
<1>10. /\ chain[Len(chain)].len \in Int /\ chain[i].len \in Int
       /\ chain[i].end \in Int /\ chain[Len(chain)].end \in Int
  BY <1>1, <1>7
<1>11. L[Len(chain)] \in Nat
  BY <1>1, <1>2
<1>12. chain[i].end + chain[Len(chain)].len =
         chain[Len(chain)].end + chain[i].len + L[Len(chain)]
  BY <1>8
<1>13. chain[i].end = o + chain[i].len + L[Len(chain)]
  <2> HIDE DEF T, At
  <2>1. PICK n_ \in Nat : n_ = Len(chain)
    BY <1>1, Zenon
  <2>2. PICK a \in Int, b \in Int : a = chain[i].len /\ b = chain[n_].len
    BY <1>10, <2>1, Zenon
  <2>3. PICK x \in Int, y \in Int : x = chain[i].end /\ y = chain[n_].end
    BY <1>10, <2>1, Zenon
  <2>4. x + b = y + a + L[n_] /\ y = o + b /\ L[n_] \in Nat
    BY <1>9, <1>11, <1>12, <2>1, <2>2, <2>3, Zenon
  <2>5. x = o + a + L[n_]
    BY <2>4
  <2> QED BY <2>1, <2>2, <2>3, <2>5, Zenon
<1> QED BY <1>13 DEF L

\* The first of them, when what is left of the others has been skipped.
LEMMA CutEnds ==
  ASSUME NEW chain \in Seq(Readers), NEW k \in 1 .. Len(chain), NEW b,
         b = LeftIn(chain, k)[Len(chain)],
         NEW c, c = SubSeq(chain, 1, k)
  PROVE  /\ b \in Nat /\ c \in Seq(Readers) /\ Len(c) = k
         /\ \A i \in 1 .. k : c[i] = chain[i]
         /\ \A o \in Int : Ending(chain, o) => Ending(c, o + b)
<1>1. /\ Len(chain) \in Nat
      /\ \A j \in 1 .. Len(chain) :
           chain[j].len \in Int /\ chain[j].end \in Int
  BY ReaderIs
<1>2. b \in Nat
  <2>1. LeftIn(chain, k) \in [0 .. Len(chain) -> Nat]
    BY <1>1, LeftInIs, SMTT(30)
  <2> QED BY <1>1, <2>1
<1>3. c \in Seq(Readers) /\ Len(c) = k /\ \A i \in 1 .. k : c[i] = chain[i]
  <2>1. \A i \in 1 .. k : chain[i] \in Readers
    BY <1>1, ReaderIs
  <2>2. 1 \in Int /\ k \in Int /\ 1 <= k
    BY <1>1
  <2>3. /\ SubSeq(chain, 1, k) \in Seq(Readers)
        /\ Len(SubSeq(chain, 1, k)) = IF 1 <= k THEN k - 1 + 1 ELSE 0
        /\ \A i \in 1 .. k - 1 + 1 : SubSeq(chain, 1, k)[i] = chain[1 + i - 1]
    BY <2>1, <2>2, SubSeqProperties
  <2>4. k - 1 + 1 = k /\ \A i \in 1 .. k : 1 + i - 1 = i
    BY <2>2
  <2> QED BY <2>2, <2>3, <2>4
<1>4. ASSUME NEW o \in Int, Ending(chain, o) PROVE Ending(c, o + b)
  <2> SUFFICES ASSUME NEW i \in 1 .. k, c[i].end # Unknown
               PROVE  \/ i = k /\ c[i].end = o + b + c[i].len
                      \/ /\ i < k /\ c[i + 1].end # Unknown
                         /\ c[i].end = c[i + 1].end + c[i].len
    BY <1>3 DEF Ending
  <2>1. i \in 1 .. Len(chain) /\ c[i] = chain[i] /\ chain[i].end # Unknown
    BY <1>1, <1>3
  <2>2. CASE i = k
    <3>1. chain[k].end = o + chain[k].len + b
      BY <1>4, <2>1, <2>2, EndIs
    <3> QED BY <1>1, <1>2, <2>1, <2>2, <3>1
  <2>3. CASE i < k
    <3>1. i + 1 \in 1 .. k /\ i + 1 \in 1 .. Len(chain) /\ i # Len(chain)
      BY <1>1, <2>3
    <3>2. c[i + 1] = chain[i + 1]
      BY <1>3, <3>1
    <3>3. /\ chain[i + 1].end # Unknown
          /\ chain[i].end = chain[i + 1].end + chain[i].len
      BY <1>4, <2>1, <3>1 DEF Ending
    <3> QED BY <2>1, <2>3, <3>2, <3>3
  <2> QED BY <2>2, <2>3
<1> QED BY <1>2, <1>3, <1>4

\* The last of them, when bytes up to m were read of it.
LEMMA Replaced ==
  ASSUME NEW chain \in Seq(Readers), NEW k \in 1 .. Len(chain),
         NEW r \in Readers, NEW c, c = [chain EXCEPT ![k] = r]
  PROVE  /\ c \in Seq(Readers) /\ Len(c) = Len(chain) /\ c[k] = r
         /\ \A i \in 1 .. Len(chain) : i # k => c[i] = chain[i]
<1>1. Len(chain) \in Nat
  OBVIOUS
<1>2. c \in Seq(Readers) /\ Len(c) = Len(chain)
  <2> HIDE DEF Readers
  <2> QED OBVIOUS
<1> QED BY <1>2

LEMMA ReadOfLast ==
  ASSUME NEW chain \in Seq(Readers), NEW k, k = Len(chain), k >= 1,
         NEW r \in Readers, NEW c, c = [chain EXCEPT ![k] = r],
         NEW o \in Int, NEW m \in Int, Ending(chain, o),
         r.end = chain[k].end,
         r.end # Unknown => o + chain[k].len = m + r.len
  PROVE  Ending(c, m)
<1>1. /\ Len(chain) \in Nat /\ k \in 1 .. Len(chain)
      /\ \A j \in 1 .. Len(chain) :
           chain[j].len \in Int /\ chain[j].end \in Int
  BY ReaderIs
<1>2. /\ Len(c) = k /\ c[k] = r
      /\ \A i \in 1 .. k : i # k => c[i] = chain[i]
  BY <1>1, Replaced
<1> SUFFICES ASSUME NEW i \in 1 .. k, c[i].end # Unknown
             PROVE  \/ i = k /\ c[i].end = m + c[i].len
                    \/ /\ i < k /\ c[i + 1].end # Unknown
                       /\ c[i].end = c[i + 1].end + c[i].len
  BY <1>2 DEF Ending
<1>3. CASE i = k
  <2>1. chain[k].end = o + chain[k].len
    BY <1>1, <1>2, <1>3 DEF Ending
  <2> QED BY <1>2, <1>3, <2>1
<1>4. CASE i # k
  <2>1. i < k /\ i + 1 \in 1 .. k /\ c[i] = chain[i]
    BY <1>1, <1>2, <1>4
  <2>2. /\ chain[i + 1].end # Unknown
        /\ chain[i].end = chain[i + 1].end + chain[i].len
    BY <1>1, <1>4, <2>1 DEF Ending
  <2>3. c[i + 1].end = chain[i + 1].end
    BY <1>2, <2>1
  <2> QED BY <2>1, <2>2, <2>3
<1> QED BY <1>3, <1>4

\* An element behind m in the last of them, which is charged for all of it.
LEMMA Opened ==
  ASSUME NEW chain \in Seq(Readers), NEW k, k = Len(chain), k >= 1,
         NEW r \in Readers, NEW d \in Readers,
         NEW c, c = Append([chain EXCEPT ![k] = r], d)
  PROVE  /\ c \in Seq(Readers) /\ Len(c) = k + 1 /\ c[k] = r /\ c[k + 1] = d
         /\ \A i \in 1 .. k : i # k => c[i] = chain[i]
<1> DEFINE e == [chain EXCEPT ![k] = r]
<1>1. Len(chain) \in Nat /\ k \in 1 .. Len(chain)
  OBVIOUS
<1>2. /\ e \in Seq(Readers) /\ Len(e) = k /\ e[k] = r
      /\ \A i \in 1 .. k : i # k => e[i] = chain[i]
  BY <1>1, Replaced
<1>3. c = Append(e, d)
  OBVIOUS
<1> HIDE DEF e, Readers
<1>4. /\ c \in Seq(Readers) /\ Len(c) = k + 1 /\ c[k + 1] = d
      /\ \A i \in 1 .. k : c[i] = e[i]
  BY <1>2, <1>3
<1>5. k \in 1 .. k
  BY <1>1
<1> QED BY <1>2, <1>4, <1>5

LEMMA OpenedEnds ==
  ASSUME NEW chain \in Seq(Readers), NEW k, k = Len(chain), k >= 1,
         NEW r \in Readers, NEW d \in Readers,
         NEW c, c = Append([chain EXCEPT ![k] = r], d),
         NEW o \in Int, NEW m \in Int, Ending(chain, o),
         r.end = chain[k].end, d.end # Unknown, d.end = m + d.len,
         r.end # Unknown => o + chain[k].len = m + d.len + r.len
  PROVE  Ending(c, m)
<1>1. /\ Len(chain) \in Nat /\ k \in 1 .. Len(chain)
      /\ \A j \in 1 .. Len(chain) :
           chain[j].len \in Int /\ chain[j].end \in Int
  <2>1. /\ Len(chain) \in Nat
        /\ \A j \in 1 .. Len(chain) :
             chain[j].len \in Int /\ chain[j].end \in Int
    BY ReaderIs
  <2> QED BY <2>1
<1>2. /\ Len(c) = k + 1 /\ c[k] = r /\ c[k + 1] = d
      /\ \A i \in 1 .. k : i # k => c[i] = chain[i]
  BY Opened
<1> SUFFICES ASSUME NEW i \in 1 .. k + 1, c[i].end # Unknown
             PROVE  \/ i = k + 1 /\ c[i].end = m + c[i].len
                    \/ /\ i < k + 1 /\ c[i + 1].end # Unknown
                       /\ c[i].end = c[i + 1].end + c[i].len
  BY <1>2 DEF Ending
<1>3. CASE i = k + 1
  BY <1>2, <1>3
<1>4. CASE i = k
  <2>1. chain[k].end = o + chain[k].len
    BY <1>1, <1>2, <1>4 DEF Ending
  <2>2. i < k + 1 /\ d.len \in Int /\ r.len \in Int
    BY <1>1, <1>4 DEF Readers
  <2> QED BY <1>1, <1>2, <1>4, <2>1, <2>2
<1>5. CASE i < k
  <2>1. i \in 1 .. k /\ i < k + 1 /\ i + 1 \in 1 .. k /\ i # k
        /\ c[i] = chain[i]
    BY <1>1, <1>2, <1>5
  <2>2. /\ chain[i + 1].end # Unknown
        /\ chain[i].end = chain[i + 1].end + chain[i].len
    BY <1>1, <2>1 DEF Ending
  <2>3. c[i + 1].end = chain[i + 1].end
    BY <1>2, <2>1
  <2> QED BY <2>1, <2>2, <2>3
<1>6. i < k \/ i = k \/ i = k + 1
  BY <1>1
<1> QED BY <1>3, <1>4, <1>5, <1>6

\* Where nothing can be told about the ends.
LEMMA AstrayEnds ==
  ASSUME NEW chain \in Seq(Readers), NEW a, a = Astray(chain)
  PROVE  /\ a \in Seq(Readers) /\ Len(a) = Len(chain)
         /\ \A i \in 1 .. Len(chain) :
              a[i].id = chain[i].id /\ a[i].end = Unknown
         /\ \A o : Ending(a, o)
<1>1. /\ Len(chain) \in Nat /\ DOMAIN chain = 1 .. Len(chain)
  BY ReaderIs
<1>2. a = [i \in 1 .. Len(chain) |-> [chain[i] EXCEPT !.end = Unknown]]
  BY <1>1, Zenon DEF Astray
<1>3. ASSUME NEW i \in 1 .. Len(chain)
      PROVE  /\ a[i] \in Readers
             /\ a[i].id = chain[i].id /\ a[i].end = Unknown
  <2>1. a[i] = [chain[i] EXCEPT !.end = Unknown]
    BY <1>2
  <2>2. chain[i] \in Readers
    BY ReaderIs
  <2>3. chain[i] \in [id : Nat, len : Int, end : Int] /\ chain[i].len >= -1
    BY <2>2 DEF Readers
  <2>4. /\ a[i] \in [id : Nat, len : Int, end : Int] /\ a[i].id = chain[i].id
        /\ a[i].len = chain[i].len /\ a[i].end = Unknown
    BY <2>1, <2>3 DEF Unknown
  <2> QED BY <2>3, <2>4 DEF Readers
<1>4. a \in Seq(Readers) /\ Len(a) = Len(chain)
  <2> HIDE DEF Readers
  <2> QED BY <1>1, <1>2, <1>3
<1>5. \A o : Ending(a, o)
  BY <1>3, <1>4 DEF Ending
<1> QED BY <1>3, <1>4, <1>5

-----------------------------------------------------------------------------
(* ReadElement.                                                             *)

Steps ==
  {"skip", "id", "id rest", "size", "size rest", "element", "error"}

\* The Reader that reads is the last one, except that the element it returned is
\* below it, and what is left of older elements until it is skipped.
Chain ==
  /\ readers \in Seq(Readers)
  /\ at \in 1 .. Len(readers)
  /\ step \in Steps /\ first \in Byte /\ id \in Nat /\ err \in Errors
  /\ step = "element" => Len(readers) = at + 1
  /\ step \notin {"skip", "element"} => Len(readers) = at
  /\ step = "size rest" => More(first) \in 1 .. 7

Nesting == Left > 0 => Ending(readers, off)

\* What ReadElement keeps.
ReadsOn ==
  /\ Buffer' /\ Chain' /\ Nesting' /\ at' = at
  /\ \A i \in 1 .. at : readers'[i].id = readers[i].id

LEMMA ChainIs ==
  ASSUME Chain
  PROVE  /\ readers \in Seq(Readers) /\ Len(readers) \in Nat
         /\ at \in Nat /\ at >= 1 /\ at <= Len(readers)
         /\ at \in 1 .. Len(readers)
         /\ first \in Byte /\ id \in Nat /\ err \in Errors /\ step \in Steps
<1>1. /\ readers \in Seq(Readers) /\ at \in 1 .. Len(readers)
      /\ first \in Byte /\ id \in Nat /\ err \in Errors /\ step \in Steps
  BY Zenon DEF Chain
<1>2. Len(readers) \in Nat
  BY <1>1, LenProperties
<1> QED BY <1>1, <1>2

LEMMA LeftLess ==
  ASSUME Buffer, NEW n \in Nat, NEW o, Leaves(o, n), Takes(o), bytes' = bytes
  PROVE  /\ Left' > 0 => Left > 0 /\ o.src # Len(bytes)
         /\ off' = o.off /\ off' \in Nat /\ off \in Nat
<1>1. src' = o.src /\ off' = o.off
  BY DEF Takes
<1>2. o.src \in src .. Len(bytes) /\ o.off \in off .. off + n
  BY Zenon DEF Leaves
<1>3. src \in Nat /\ Len(bytes) \in Nat /\ off \in Nat
  BY Numbers
<1>4. Left' = Len(bytes) - o.src
  BY <1>1 DEF Left
<1> QED BY <1>1, <1>2, <1>3, <1>4 DEF Left

LEMMA UsedIs ==
  ASSUME NEW r \in Readers, NEW n \in Nat
  PROVE  /\ Used(r, n) \in Readers
         /\ Used(r, n).id = r.id /\ Used(r, n).end = r.end
         /\ Used(r, n).len = IF r.len >= n THEN r.len - n ELSE r.len
<1>1. /\ r \in [id : Nat, len : Int, end : Int] /\ r.len >= -1
      /\ r.end # Unknown => r.len >= 0
  BY DEF Readers
<1>2. CASE r.len >= n
  <2>1. Used(r, n) = [r EXCEPT !.len = r.len - n]
    BY <1>2 DEF Used
  <2>2. /\ Used(r, n) \in [id : Nat, len : Int, end : Int]
        /\ Used(r, n).id = r.id /\ Used(r, n).end = r.end
        /\ Used(r, n).len = r.len - n /\ r.len - n >= 0
    BY <1>1, <1>2, <2>1
  <2>3. Used(r, n) \in Readers
    BY <2>2 DEF Readers
  <2> QED BY <1>2, <2>2, <2>3
<1>3. CASE ~(r.len >= n)
  BY <1>3 DEF Used
<1> QED BY <1>2, <1>3

\* The chain when the Reader that reads is charged for n bytes.
Charged(n) == [readers EXCEPT ![at] = Used(@, n)]

\* A call of Reader.next: the Reader is charged for what is read, and where
\* nothing was read it is not.
LEMMA NextReads ==
  ASSUME Buffer, Chain, Nesting, Len(readers) = at, NEW n \in 0 .. 8,
         NEW o \in next(readers[at], n), Takes(o), bytes' = bytes
  PROVE  /\ Buffer' /\ off' \in Nat /\ off \in Nat
         /\ o.err \in Errors
         /\ o.err = "none" => o.b \in Seq(Byte) /\ Len(o.b) = n
         /\ Used(readers[at], n) \in Readers
         /\ Used(readers[at], n).end = readers[at].end
         /\ Used(readers[at], n).id = readers[at].id
         /\ Charged(n) \in Seq(Readers) /\ Len(Charged(n)) = at
         /\ \A i \in 1 .. at : Charged(n)[i].id = readers[i].id
         /\ Left' > 0 => Ending(readers, off) /\ Ending(Charged(n), off')
         /\ Left' > 0 /\ readers[at].end # Unknown =>
              off + readers[at].len = off' + Used(readers[at], n).len
<1> DEFINE r == Used(readers[at], n)
           c == Charged(n)
<1>0. c = [readers EXCEPT ![at] = r]
  BY DEF Charged
<1>1. /\ readers \in Seq(Readers) /\ at \in 1 .. Len(readers) /\ n \in Nat
      /\ n <= 8
  <2>1. readers \in Seq(Readers) /\ at \in 1 .. Len(readers)
    BY Zenon DEF Chain
  <2>2. n \in Nat /\ n <= 8
    OBVIOUS
  <2> QED BY <2>1, <2>2
<1>2. /\ readers[at] \in Readers /\ readers[at].len \in Int
      /\ readers[at].len >= -1
      /\ readers[at].end # Unknown => readers[at].len >= 0
  BY <1>1, ReaderIs
<1>3. /\ Leaves(o, n) /\ Returns(o, n)
      /\ o.err = "none" => readers[at].len = -1 \/ readers[at].len >= n
      /\ o.err # "none" =>
           \/ o.src = Len(bytes)
           \/ /\ Stays(o)
              /\ \/ readers[at].len <= 0 \/ readers[at].len < n
                 \/ o.err = "too small"
      /\ o.err = "too small" => n > BufferSize
  BY <1>1, <1>2, ReaderNextLeaves
<1>4. o.err # "too small"
  <2>1. ~(n > BufferSize)
    BY <1>1, BufferSizeAssumption
  <2> QED BY <1>3, <2>1, Zenon
<1> HIDE DEF c
<1>5. Buffer'
  BY <1>1, <1>3, BufferKept
<1>6. /\ Left' > 0 => Left > 0 /\ o.src # Len(bytes)
      /\ off' = o.off /\ off' \in Nat /\ off \in Nat
  BY <1>1, <1>3, LeftLess
<1>7. o.err \in Errors /\ (o.err = "none" => o.b \in Seq(Byte) /\ Len(o.b) = n)
  BY <1>3 DEF Leaves, Returns
<1>8. /\ r \in Readers /\ r.id = readers[at].id /\ r.end = readers[at].end
      /\ r.len = IF readers[at].len >= n THEN readers[at].len - n
                 ELSE readers[at].len
  BY <1>1, <1>2, UsedIs
<1> HIDE DEF r
<1>9. /\ c \in Seq(Readers) /\ Len(c) = Len(readers) /\ c[at] = r
      /\ \A i \in 1 .. Len(readers) : i # at => c[i] = readers[i]
  BY <1>0, <1>1, <1>8, Replaced
<1>10. \A i \in 1 .. at : c[i].id = readers[i].id
  BY <1>1, <1>8, <1>9
<1>11. ASSUME Left' > 0, r.end # Unknown
       PROVE  off + readers[at].len = off' + r.len
  <2>1. readers[at].len >= 0
    BY <1>2, <1>8, <1>11
  <2>2. CASE o.err = "none"
    <3>1. o.off = off + n
      BY <1>3, <2>2 DEF Leaves
    <3> QED BY <1>1, <1>2, <1>3, <1>6, <1>8, <2>1, <2>2, <3>1
  <2>3. CASE o.err # "none"
    <3>1. Stays(o) /\ (readers[at].len <= 0 \/ readers[at].len < n)
      BY <1>3, <1>4, <1>6, <1>11, <2>3
    <3>2. o.off = off
      BY <3>1 DEF Stays
    <3>3. r.len = readers[at].len
      BY <1>1, <1>2, <1>8, <2>1, <3>1
    <3> QED BY <1>6, <3>2, <3>3
  <2> QED BY <2>2, <2>3
<1>12. ASSUME Left' > 0 PROVE Ending(readers, off) /\ Ending(c, off')
  <2>1. Ending(readers, off)
    BY <1>6, <1>12 DEF Nesting
  <2>2. at >= 1 /\ off \in Int /\ off' \in Int /\ at = Len(readers)
    BY <1>1, <1>6
  <2>3. r.end # Unknown => off + readers[at].len = off' + r.len
    BY <1>11, <1>12
  <2>4. Ending(c, off')
    BY <1>0, <1>1, <1>8, <2>1, <2>2, <2>3, ReadOfLast
  <2> QED BY <2>1, <2>4
<1>13. r.end = readers[at].end
  BY <1>8
<1> QED BY <1>5, <1>6, <1>7, <1>8, <1>9, <1>10, <1>11, <1>12, <1>13 DEF r, c

LEMMA Skips ==
  ASSUME Buffer, Chain, Nesting, skip
  PROVE  ReadsOn
<1>1. /\ readers \in Seq(Readers) /\ at \in 1 .. Len(readers)
      /\ first \in Byte
  BY DEF Chain
<1>2. /\ readers' = SubSeq(readers, 1, at) /\ id' = 0
      /\ bytes' = bytes /\ at' = at /\ first' = first
  BY DEF skip
<1>3. PICK o \in Skip(Below(at)) :
        /\ Takes(o)
        /\ IF o.err = "none" THEN step' = "id" /\ UNCHANGED err
           ELSE Fails(o.err)
  BY DEF skip
<1> DEFINE b == Below(at)
<1>4. b = LeftIn(readers, at)[Len(readers)]
  BY DEF Below
<1> HIDE DEF b
<1>5. /\ b \in Nat /\ readers' \in Seq(Readers) /\ Len(readers') = at
      /\ \A i \in 1 .. at : readers'[i] = readers[i]
      /\ \A x \in Int : Ending(readers, x) => Ending(readers', x + b)
  BY <1>1, <1>2, <1>4, CutEnds
<1>6. Leaves(o, b) /\ (o.err # "none" => o.src = Len(bytes))
  BY <1>3, <1>5, SkipLeaves DEF b
<1>7. Buffer'
  BY <1>2, <1>3, <1>5, <1>6, BufferKept
<1>8. /\ Left' > 0 => Left > 0 /\ o.src # Len(bytes)
      /\ off' = o.off /\ off' \in Nat /\ off \in Nat
  BY <1>2, <1>3, <1>5, <1>6, LeftLess
<1>9. Nesting'
  <2>1. ASSUME Left' > 0 PROVE Ending(readers', off')
    <3>1. Left > 0 /\ o.err = "none"
      BY <1>6, <1>8, <2>1
    <3>2. o.off = off + b
      BY <1>6, <3>1 DEF Leaves
    <3>3. Ending(readers, off) /\ off \in Int
      BY <1>8, <3>1 DEF Nesting
    <3>4. Ending(readers', off + b)
      BY <1>5, <3>3
    <3> QED BY <1>8, <3>2, <3>4
  <2> QED BY <2>1 DEF Nesting
<1>10. Chain'
  <2>1. step' \in {"id", "error"} /\ err' \in Errors
    <3>1. CASE o.err = "none"
      BY <1>3, <3>1 DEF Chain
    <3>2. CASE o.err # "none"
      BY <1>3, <1>6, <3>2 DEF Fails, Leaves
    <3> QED BY <3>1, <3>2
  <2>2. at' \in 1 .. Len(readers') /\ id' \in Nat /\ first' \in Byte
    BY <1>1, <1>2, <1>5
  <2> QED BY <1>2, <1>5, <2>1, <2>2 DEF Chain, Steps
<1> QED BY <1>2, <1>5, <1>7, <1>9, <1>10 DEF ReadsOn

\* Steps that only take some bytes off the Reader.
LEMMA OnlyReads ==
  ASSUME Buffer, Chain, Nesting, Len(readers) = at, NEW n \in 0 .. 8,
         NEW o \in next(readers[at], n), Takes(o), bytes' = bytes, at' = at,
         readers' = Charged(n),
         step' \in Steps \ {"skip", "element"}, first' \in Byte, id' \in Nat,
         err' \in Errors, step' = "size rest" => More(first') \in 1 .. 7
  PROVE  ReadsOn
<1>1. Buffer' /\ readers' \in Seq(Readers) /\ Len(readers') = at
  BY NextReads
<1>2. \A i \in 1 .. at : readers'[i].id = readers[i].id
  BY NextReads
<1>3. Left' > 0 => Ending(readers', off')
  BY NextReads
<1>4. Nesting'
  BY <1>3 DEF Nesting
<1>5. at' \in 1 .. Len(readers')
  BY <1>1 DEF Chain
<1>6. Chain'
  BY <1>1, <1>5 DEF Chain
<1> QED BY <1>1, <1>2, <1>4, <1>6 DEF ReadsOn

LEMMA OpensUnknown ==
  ASSUME Buffer, Chain, Nesting, Len(readers) = at, NEW n \in 0 .. 8,
         NEW o \in next(readers[at], n), Takes(o), bytes' = bytes, at' = at,
         OpenUnknown(Used(readers[at], n)), first' \in Byte, id' = id
  PROVE  ReadsOn
<1>1. /\ Buffer' /\ Charged(n) \in Seq(Readers) /\ Len(Charged(n)) = at
  BY NextReads
<1>2. \A i \in 1 .. at : Charged(n)[i].id = readers[i].id
  BY NextReads
<1>3. PICK a, d : a = Astray(Charged(n)) /\ d = Reader(id, Unknown, Unknown)
  OBVIOUS
<1>4. /\ step' = "element" /\ err' = err /\ readers' = Append(a, d)
  BY <1>3, Zenon DEF OpenUnknown, Charged
<1>5. /\ id \in Nat /\ err \in Errors /\ at \in Nat /\ at >= 1
  BY ChainIs
<1>6. /\ a \in Seq(Readers) /\ Len(a) = at
      /\ \A i \in 1 .. at : a[i].id = readers[i].id /\ a[i].end = Unknown
  BY <1>1, <1>2, <1>3, AstrayEnds
<1>7. d \in Readers /\ d.end = Unknown
  BY <1>3, <1>5 DEF Readers, Reader, Unknown
<1>8. /\ readers' \in Seq(Readers) /\ Len(readers') = at + 1
      /\ readers'[at + 1] = d /\ \A i \in 1 .. at : readers'[i] = a[i]
  <2> HIDE DEF Readers
  <2> QED BY <1>4, <1>5, <1>6, <1>7
<1>9. \A i \in 1 .. at + 1 : readers'[i].end = Unknown
  <2> TAKE i \in 1 .. at + 1
  <2>1. CASE i = at + 1
    BY <1>7, <1>8, <2>1
  <2>2. CASE i # at + 1
    <3>1. i \in 1 .. at
      BY <1>5, <2>2
    <3> QED BY <1>6, <1>8, <3>1
  <2> QED BY <2>1, <2>2
<1>10. Nesting'
  <2>1. Ending(readers', off')
    BY <1>8, <1>9 DEF Ending
  <2> QED BY <2>1 DEF Nesting
<1>11. Chain'
  <2>1. at' \in 1 .. Len(readers') /\ Len(readers') = at' + 1
    BY <1>5, <1>8
  <2> QED BY <1>4, <1>5, <1>8, <2>1 DEF Chain, Steps
<1>12. \A i \in 1 .. at : readers'[i].id = readers[i].id
  BY <1>6, <1>8
<1> QED BY <1>1, <1>10, <1>11, <1>12 DEF ReadsOn

LEMMA OpensElement ==
  ASSUME Buffer, Chain, Nesting, Len(readers) = at, NEW n \in 0 .. 8,
         NEW o \in next(readers[at], n), Takes(o), bytes' = bytes, at' = at,
         NEW size \in Nat,
         OpenElement(Used(readers[at], n), size), first' \in Byte, id' = id
  PROVE  ReadsOn
<1> DEFINE r == Used(readers[at], n)
<1>1. /\ id \in Nat /\ err \in Errors /\ at \in Nat /\ at >= 1
      /\ at \in 1 .. Len(readers) /\ readers \in Seq(Readers)
  BY ChainIs
<1>2. CASE r.len >= 0 /\ r.len < size
  <2>1. step' = "error" /\ err' = "unexpected"
        /\ readers' = [readers EXCEPT ![at] = r]
    BY <1>2 DEF OpenElement, Fails
  <2>2. step' \in Steps \ {"skip", "element"} /\ step' # "size rest"
        /\ err' \in Errors
    BY <2>1 DEF Steps, Errors
  <2>3. readers' = Charged(n) /\ id' \in Nat
    BY <1>1, <2>1, Zenon DEF Charged
  <2> QED BY <2>2, <2>3, OnlyReads
<1>3. CASE ~(r.len >= 0 /\ r.len < size)
  <2>1. /\ Buffer' /\ off' \in Nat /\ off \in Nat
        /\ r \in Readers /\ r.end = readers[at].end /\ r.id = readers[at].id
    BY NextReads
  <2>2. Left' > 0 => Ending(readers, off)
    BY NextReads
  <2>3. Left' > 0 /\ readers[at].end # Unknown =>
          off + readers[at].len = off' + r.len
    BY NextReads
  <2> DEFINE d == Reader(id, size, off' + size)
             s == Used(r, size)
             k == Len(readers)
  <2>4. /\ step' = "element" /\ err' = err
        /\ readers' = Append([readers EXCEPT ![at] = s], d)
    BY <1>3, Zenon DEF OpenElement
  <2> HIDE DEF r
  <2>5. /\ s \in Readers /\ s.id = r.id /\ s.end = r.end
        /\ s.len = IF r.len >= size THEN r.len - size ELSE r.len
    BY <2>1, UsedIs
  <2>6. /\ d \in Readers /\ d.len = size /\ d.end = off' + size
        /\ d.end # Unknown
    <3>1. PICK e \in Nat : e = off' + size
      <4> HIDE DEF d, s, k
      <4>1. PICK x \in Nat : x = off'
        BY <2>1, Zenon
      <4>2. x + size \in Nat
        OBVIOUS
      <4> QED BY <4>1, <4>2, Zenon
    <3>2. d = [id |-> id, len |-> size, end |-> e]
      BY <3>1, Zenon DEF Reader
    <3> HIDE DEF d, s, k
    <3>3. /\ d \in [id : Nat, len : Int, end : Int]
          /\ d.len = size /\ d.end = e
      BY <1>1, <3>1, <3>2
    <3>4. size >= -1 /\ size >= 0 /\ e # -1
      BY <3>1
    <3> QED BY <3>1, <3>3, <3>4 DEF Readers, Unknown
  <2> HIDE DEF d, s
  <2>7. at = k /\ k >= 1 /\ k = Len(readers)
    BY <1>1
  <2> HIDE DEF k
  <2>8. readers' = Append([readers EXCEPT ![k] = s], d)
    BY <2>4, <2>7, Zenon
  <2>9. /\ readers' \in Seq(Readers) /\ Len(readers') = k + 1
        /\ readers'[k] = s
        /\ \A i \in 1 .. k : i # k => readers'[i] = readers[i]
    BY <1>1, <2>5, <2>6, <2>7, <2>8, Opened
  <2>10. ASSUME Left' > 0 PROVE Ending(readers', off')
    <3>1. s.end # Unknown => off + readers[k].len = off' + d.len + s.len
      <4> SUFFICES ASSUME s.end # Unknown
                   PROVE  off + readers[k].len = off' + d.len + s.len
        OBVIOUS
      <4>1. readers[at].end # Unknown /\ r.end # Unknown
        BY <2>1, <2>5
      <4>2. off + readers[at].len = off' + r.len
        BY <2>3, <2>10, <4>1
      <4>3. r.len \in Int /\ r.len >= 0
        BY <2>1, <4>1 DEF Readers
      <4>4. s.len = r.len - size
        BY <1>3, <2>5, <4>3
      <4>5. off' + d.len + s.len = off' + r.len
        BY <2>1, <2>6, <4>3, <4>4
      <4> QED BY <2>7, <4>2, <4>5, Zenon
    <3>2. Ending(readers, off)
      BY <2>2, <2>10
    <3>3. off \in Int /\ off' \in Int /\ s.end = readers[k].end
      BY <2>1, <2>5, <2>7
    <3>4. d.end = off' + d.len
      BY <2>6
    <3>5. /\ readers \in Seq(Readers) /\ k = Len(readers) /\ k >= 1
          /\ s \in Readers /\ d \in Readers /\ d.end # Unknown
      BY <1>1, <2>5, <2>6, <2>7
    <3> QED BY <2>8, <3>1, <3>2, <3>3, <3>4, <3>5, OpenedEnds
  <2>11. Nesting'
    BY <2>10 DEF Nesting
  <2>12. Chain'
    <3>1. at' \in 1 .. Len(readers') /\ Len(readers') = at' + 1
      BY <1>1, <2>7, <2>9
    <3> QED BY <1>1, <2>4, <2>9, <3>1 DEF Chain, Steps
  <2>13. \A i \in 1 .. at : readers'[i].id = readers[i].id
    <3> TAKE i \in 1 .. at
    <3>1. CASE i = k
      BY <2>1, <2>5, <2>7, <2>9, <3>1, Zenon
    <3>2. CASE i # k
      BY <2>7, <2>9, <3>2
    <3> QED BY <3>1, <3>2
  <2> QED BY <2>1, <2>11, <2>12, <2>13 DEF ReadsOn
<1> QED BY <1>2, <1>3

LEMMA ReadsId ==
  ASSUME Buffer, Chain, Nesting, readID
  PROVE  ReadsOn
<1>1. PICK o \in next(readers[at], 1) :
        /\ Takes(o)
        /\ \/ Lost(o, 1)
           \/ /\ Gets(o, 1)
              /\ step' = IF o.b[1] < 16 THEN "id"
                         ELSE IF More(o.b[1]) = 0 THEN "size" ELSE "id rest"
              /\ first' = o.b[1] /\ id' = o.b[1]
              /\ UNCHANGED err
  BY DEF readID
<1>2. bytes' = bytes /\ at' = at /\ step = "id"
  BY DEF readID
<1>3. Len(readers) = at /\ 1 \in 0 .. 8
      /\ first \in Byte /\ id \in Nat /\ err \in Errors
  BY <1>2 DEF Chain
<1>4. /\ o.err \in Errors
      /\ o.err = "none" => o.b \in Seq(Byte) /\ Len(o.b) = 1
  BY <1>1, <1>2, <1>3, NextReads
<1>5. readers' = Charged(1)
  BY <1>1, Zenon DEF Lost, Gets, Charged
<1>6. /\ step' \in {"id", "size", "id rest", "error"} /\ err' \in Errors
      /\ first' \in Byte /\ id' \in Nat
  <2>1. CASE Lost(o, 1)
    BY <1>3, <1>4, <2>1 DEF Lost, Fails
  <2>2. CASE Gets(o, 1) /\ first' = o.b[1] /\ id' = o.b[1] /\ err' = err
             /\ step' \in {"id", "size", "id rest"}
    <3>1. o.b[1] \in Byte
      <4>1. o.err = "none"
        BY <2>2, Zenon DEF Gets
      <4>2. o.b \in Seq(Byte) /\ Len(o.b) = 1
        BY <1>4, <4>1
      <4> QED BY <4>2
    <3>2. \A x \in Byte : x \in Nat
      BY DEF Byte
    <3> QED BY <1>3, <2>2, <3>1, <3>2
  <2> QED BY <1>1, <2>1, <2>2
<1>7. step' \in Steps \ {"skip", "element"} /\ step' # "size rest"
  BY <1>6 DEF Steps
<1> QED BY <1>1, <1>2, <1>3, <1>5, <1>6, <1>7, OnlyReads

LEMMA ReadsIdRest ==
  ASSUME Buffer, Chain, Nesting, readIDRest
  PROVE  ReadsOn
<1> DEFINE n == More(first)
<1>1. PICK o \in next(readers[at], n) :
        /\ Takes(o)
        /\ \/ Lost(o, n)
           \/ /\ Gets(o, n) /\ step' = "size"
              /\ id' = BigEndian(o.b, first)[n]
              /\ UNCHANGED <<first, err>>
  BY DEF readIDRest
<1>2. bytes' = bytes /\ at' = at /\ step = "id rest"
  BY DEF readIDRest
<1>3. Len(readers) = at /\ n \in 0 .. 8
      /\ first \in Byte /\ id \in Nat /\ err \in Errors
  BY <1>2, MoreBytes DEF Chain
<1> HIDE DEF n
<1>4. /\ o.err \in Errors
      /\ o.err = "none" => o.b \in Seq(Byte) /\ Len(o.b) = n
  BY <1>1, <1>2, <1>3, NextReads
<1>5. readers' = Charged(n)
  BY <1>1, Zenon DEF Lost, Gets, Charged
<1>6. /\ step' \in {"size", "error"} /\ err' \in Errors
      /\ first' \in Byte /\ id' \in Nat
  <2>1. CASE Lost(o, n)
    BY <1>3, <1>4, <2>1 DEF Lost, Fails
  <2>2. CASE /\ Gets(o, n) /\ step' = "size"
             /\ id' = BigEndian(o.b, first)[n] /\ UNCHANGED <<first, err>>
    <3>1. o.b \in Seq(Byte) /\ n \in 0 .. Len(o.b) /\ first \in Nat
      BY <1>3, <1>4, <2>2 DEF Gets, Byte
    <3>2. BigEndian(o.b, first)[n] \in Nat
      BY <3>1, BigEndianIs
    <3> QED BY <1>3, <2>2, <3>2
  <2> QED BY <1>1, <2>1, <2>2
<1>7. step' \in Steps \ {"skip", "element"} /\ step' # "size rest"
  BY <1>6 DEF Steps
<1> QED BY <1>1, <1>2, <1>3, <1>5, <1>6, <1>7, OnlyReads

LEMMA ReadsSize ==
  ASSUME Buffer, Chain, Nesting, readElement
  PROVE  ReadsOn
<1> DEFINE r == Used(readers[at], 1)
           Sized(o) ==
             \/ More(o.b[1]) = 0 /\ o.b[1] = 255 /\ OpenUnknown(r)
             \/ More(o.b[1]) = 0 /\ o.b[1] # 255
                /\ OpenElement(r, o.b[1] % 128)
             \/ /\ More(o.b[1]) \in 1 .. 7
                /\ step' = "size rest" /\ UNCHANGED err
                /\ readers' = [readers EXCEPT ![at] = r]
             \/ /\ More(o.b[1]) = 8
                /\ Fails("format")
                /\ readers' = [readers EXCEPT ![at] = r]
<1>1. PICK o \in next(readers[at], 1) :
        /\ Takes(o)
        /\ \/ Lost(o, 1)
           \/ o.err = "none" /\ first' = o.b[1] /\ id' = id /\ Sized(o)
  BY Zenon DEF readElement
<1>2. bytes' = bytes /\ at' = at /\ step = "size"
  BY DEF readElement
<1>3. Len(readers) = at /\ 1 \in 0 .. 8
      /\ first \in Byte /\ id \in Nat /\ err \in Errors
  BY <1>2, ChainIs DEF Chain
<1>4. /\ o.err \in Errors
      /\ o.err = "none" => o.b \in Seq(Byte) /\ Len(o.b) = 1
  BY <1>1, <1>2, <1>3, NextReads
<1>5. CASE Lost(o, 1)
  <2>1. readers' = Charged(1)
    BY <1>5, Zenon DEF Lost, Charged
  <2>2. /\ step' \in Steps \ {"skip", "element"} /\ step' # "size rest"
        /\ err' \in Errors /\ first' \in Byte /\ id' \in Nat
    BY <1>3, <1>4, <1>5 DEF Lost, Fails, Steps
  <2> QED BY <1>1, <1>2, <1>3, <2>1, <2>2, OnlyReads
<1>6. CASE o.err = "none" /\ first' = o.b[1] /\ id' = id /\ Sized(o)
  <2>1. first' \in Byte /\ first' \in 0 .. 255
    <3>1. o.err = "none" /\ first' = o.b[1]
      BY <1>6, Zenon
    <3>2. o.b \in Seq(Byte) /\ Len(o.b) = 1
      BY <1>4, <3>1
    <3>3. o.b[1] \in Byte
      BY <3>2
    <3>4. first' \in Byte
      BY <3>1, <3>3, Zenon
    <3> QED BY <3>4, Zenon DEF Byte
  <2>2. CASE OpenUnknown(r)
    BY <1>1, <1>2, <1>3, <1>6, <2>1, <2>2, OpensUnknown
  <2>3. CASE OpenElement(r, o.b[1] % 128)
    <3>1. PICK size \in Nat : size = o.b[1] % 128
      <4>1. PICK x \in 0 .. 255 : x = first'
        BY <2>1, Zenon
      <4>2. x % 128 \in Nat
        <5> HIDE DEF r, Sized
        <5>1. x \in Nat /\ 128 \in Nat /\ 128 >= 1
          OBVIOUS
        <5>2. x % 128 \in 0 .. 128 - 1
          BY <5>1, DivMod
        <5> QED BY <5>2
      <4> QED BY <1>6, <4>1, <4>2, Zenon
    <3>2. OpenElement(r, size)
      BY <2>3, <3>1, Zenon
    <3> QED BY <1>1, <1>2, <1>3, <1>6, <2>1, <3>2, OpensElement
  <2>4. CASE /\ More(o.b[1]) \in 1 .. 7 /\ step' = "size rest" /\ err' = err
             /\ readers' = [readers EXCEPT ![at] = r]
    <3>1. /\ step' \in Steps \ {"skip", "element"} /\ More(first') \in 1 .. 7
          /\ err' \in Errors /\ id' \in Nat
      BY <1>3, <1>6, <2>4 DEF Steps
    <3>2. readers' = Charged(1)
      BY <2>4, Zenon DEF Charged
    <3> QED BY <1>1, <1>2, <1>3, <2>1, <3>1, <3>2, OnlyReads
  <2>5. CASE Fails("format") /\ readers' = [readers EXCEPT ![at] = r]
    <3>1. /\ step' \in Steps \ {"skip", "element"} /\ step' # "size rest"
          /\ err' \in Errors /\ id' \in Nat
      BY <1>3, <1>6, <2>5 DEF Steps, Fails, Errors
    <3>2. readers' = Charged(1)
      BY <2>5, Zenon DEF Charged
    <3> QED BY <1>1, <1>2, <1>3, <2>1, <3>1, <3>2, OnlyReads
  <2> QED BY <1>6, <2>2, <2>3, <2>4, <2>5, Zenon
<1> QED BY <1>1, <1>5, <1>6, Zenon

LEMMA ReadsSizeRest ==
  ASSUME Buffer, Chain, Nesting, readElementRest
  PROVE  ReadsOn
<1> DEFINE n    == More(first)
           high == first % 2 ^ (7 - n)
           r    == Used(readers[at], n)
           Sized(o) ==
             IF high = 2 ^ (7 - n) - 1 /\ \A i \in 1 .. n : o.b[i] = 255
             THEN OpenUnknown(r)
             ELSE OpenElement(r, BigEndian(o.b, high)[n])
<1>1. PICK o \in next(readers[at], n) :
        /\ Takes(o)
        /\ \/ Lost(o, n)
           \/ o.err = "none" /\ first' = first /\ id' = id /\ Sized(o)
  BY Zenon DEF readElementRest
<1>2. bytes' = bytes /\ at' = at /\ step = "size rest"
  BY DEF readElementRest
<1>3. /\ Len(readers) = at /\ n \in 1 .. 7 /\ n \in 0 .. 8
      /\ first \in Byte /\ id \in Nat /\ err \in Errors
  <2>1. Len(readers) = at /\ n \in 1 .. 7
    <3> HIDE DEF high, r, Sized
    <3> QED BY <1>2 DEF Chain
  <2> HIDE DEF n
  <2>2. n \in 0 .. 8
    BY <2>1
  <2> QED BY <2>1, <2>2, ChainIs, Zenon
<1>4. high \in Nat
  <2>1. first \in Nat
    BY <1>3 DEF Byte
  <2> HIDE DEF n
  <2>2. PICK b \in Nat \ {0} : b = 2 ^ (7 - n)
    BY <1>3, Powers, Zenon
  <2>3. first % b \in Nat
    BY <2>1, DivMod
  <2> QED BY <2>2, <2>3, Zenon
<1> HIDE DEF n
<1>5. /\ o.err \in Errors
      /\ o.err = "none" => o.b \in Seq(Byte) /\ Len(o.b) = n
  BY <1>1, <1>2, <1>3, NextReads
<1>6. CASE Lost(o, n)
  <2>1. readers' = Charged(n)
    BY <1>6, Zenon DEF Lost, Charged
  <2>2. /\ step' \in Steps \ {"skip", "element"} /\ step' # "size rest"
        /\ err' \in Errors /\ first' \in Byte /\ id' \in Nat
    BY <1>3, <1>5, <1>6 DEF Lost, Fails, Steps
  <2> QED BY <1>1, <1>2, <1>3, <2>1, <2>2, OnlyReads
<1>7. CASE o.err = "none" /\ first' = first /\ id' = id /\ Sized(o)
  <2>1. first' \in Byte
    BY <1>3, <1>7
  <2>2. CASE OpenUnknown(r)
    BY <1>1, <1>2, <1>3, <1>7, <2>1, <2>2, OpensUnknown
  <2>3. CASE OpenElement(r, BigEndian(o.b, high)[n])
    <3> HIDE DEF high
    <3>1. o.b \in Seq(Byte) /\ n \in 0 .. Len(o.b)
      BY <1>3, <1>5, <1>7
    <3>2. BigEndian(o.b, high)[n] \in Nat
      BY <1>4, <3>1, BigEndianIs
    <3>3. PICK size \in Nat : size = BigEndian(o.b, high)[n]
      BY <3>2, Zenon
    <3>4. OpenElement(r, size)
      BY <2>3, <3>3, Zenon
    <3> QED BY <1>1, <1>2, <1>3, <1>7, <2>1, <3>4, OpensElement
  <2>4. OpenUnknown(r) \/ OpenElement(r, BigEndian(o.b, high)[n])
    BY <1>7, Zenon
  <2> QED BY <2>2, <2>3, <2>4
<1> QED BY <1>1, <1>6, <1>7, Zenon

LEMMA ReadElementKeeps ==
  ASSUME Buffer, Chain, Nesting, ReadElement
  PROVE  ReadsOn
BY Skips, ReadsId, ReadsIdRest, ReadsSize, ReadsSizeRest, Zenon
   DEF ReadElement

-----------------------------------------------------------------------------
(* What the reader does with an element.                                    *)

\* Which Reader each loop reads from.
Place(p, i, d) ==
  /\ p \in {"EBML", "Segment"} => i = 1
  /\ p = "level 1" => i = 2
  /\ p = "decode" => i >= 3
  /\ p = "content" => i = d
  /\ p \in {"timestamp", "blocks"} => i = d + 1
  /\ p = "group" => i = d + 2

InHeader == {"EBML", "Segment", "level 1", "decode"}

\* While an entry of Tracks is decoded it is the last one and was not selected.
Undecoded ==
  phase = "decode" /\ at > 3 /\ readers[3].id = Matroska_Tracks =>
    satrack < Len(entries)

Loops ==
  /\ phase \in Phases \cup Ends
  /\ cntNeeded \in 0 .. 2 /\ dec \in 1 .. 2
  /\ entries \in Seq(BOOLEAN) /\ satrack \in 0 .. Len(entries)
  /\ phase \in InHeader => cntNeeded <= 1 /\ dec = 1
  /\ Place(phase, at, dec)
  /\ Undecoded

\* The reader goes on in the same chain.
LEMMA ChainAfter ==
  ASSUME Chain, NEW p, NEW i \in 1 .. Len(readers),
         Continue(p, i) \/ Stop(p),
         readers' \in Seq(Readers), Len(readers') = Len(readers),
         first' = first, id' = id
  PROVE  Chain'
<1>1. /\ at \in 1 .. Len(readers)
      /\ first \in Byte /\ id \in Nat /\ err \in Errors /\ step \in Steps
  BY ChainIs
<1>2. CASE Continue(p, i)
  <2>1. at' = i /\ step' = "skip" /\ err' = err
    BY <1>2 DEF Continue, ReadNext
  <2>2. at' \in 1 .. Len(readers')
    BY <2>1
  <2> QED BY <1>1, <2>1, <2>2 DEF Chain, Steps
<1>3. CASE Stop(p)
  <2>1. at' = at /\ step' = step /\ err' = err
    BY <1>3 DEF Stop
  <2> QED BY <1>1, <2>1 DEF Chain
<1> QED BY <1>2, <1>3

Decoder == Buffer /\ Chain /\ Nesting

LEMMA GoesOn ==
  ASSUME Decoder, NEW p, NEW i \in 1 .. Len(readers),
         Continue(p, i) \/ Stop(p), NothingRead
  PROVE  Decoder' /\ readers' = readers
<1>1. /\ bytes' = bytes /\ src' = src /\ buffered' = buffered /\ off' = off
      /\ readers' = readers /\ first' = first /\ id' = id
  BY DEF NothingRead
<1>2. Buffer'
  BY <1>1, Zenon DEF Decoder, Buffer
<1>3. Nesting'
  BY <1>1, Zenon DEF Decoder, Nesting, Left
<1>4. Chain /\ readers \in Seq(Readers)
  BY ChainIs DEF Decoder
<1>5. readers' \in Seq(Readers) /\ Len(readers') = Len(readers)
  BY <1>1, <1>4, Zenon
<1>6. Chain'
  BY <1>1, <1>4, <1>5, ChainAfter, Zenon
<1> QED BY <1>1, <1>2, <1>3, <1>6 DEF Decoder

\* Reading a value, or a block, in the Reader of the element.
LEMMA ValueRead ==
  ASSUME Decoder, step = "element", NEW lengths \in SUBSET Nat,
         NEW o \in ReadValue(lengths), ReadsValue(o)
  PROVE  /\ Buffer' /\ Nesting'
         /\ readers' \in Seq(Readers) /\ Len(readers') = Len(readers)
         /\ first' = first /\ id' = id
         /\ \A i \in 1 .. Len(readers) : readers'[i].id = readers[i].id
<1> DEFINE k == Len(readers)
           n == elem.len
           r == IF o.err = "format" THEN elem ELSE Used(elem, n)
           c == [readers EXCEPT ![k] = r]
<1>1. Buffer /\ Chain /\ Nesting
  BY DEF Decoder
<1>2. /\ readers \in Seq(Readers) /\ k \in Nat /\ k >= 1 /\ k \in 1 .. k
  BY <1>1, ChainIs
<1>3. /\ Takes(o) /\ bytes' = bytes /\ first' = first /\ id' = id
      /\ readers' = IF o.err = "too small" THEN Astray(c) ELSE c
  BY Zenon DEF ReadsValue, elem
<1> HIDE DEF k
<1>4. elem = readers[k]
  BY DEF elem, k
<1>5. /\ elem \in Readers /\ n \in Int /\ n >= -1
      /\ elem.end # Unknown => n >= 0
  BY <1>2, <1>4, ReaderIs DEF k
<1>6. r \in Readers /\ r.id = elem.id /\ r.end = elem.end
  <2>1. CASE o.err = "format"
    BY <1>5, <2>1
  <2>2. CASE o.err # "format"
    <3>1. elem.len \in lengths
      <4>1. CASE elem.len \notin lengths
        <5>1. o = Outcome("format", src, buffered, off, <<>>)
          BY <4>1 DEF ReadValue
        <5> QED BY <2>2, <5>1 DEF Outcome
      <4> QED BY <4>1
    <3>2. n \in Nat
      BY <3>1
    <3>3. r = Used(elem, n)
      BY <2>2
    <3> HIDE DEF r, c, n
    <3> QED BY <1>5, <3>2, <3>3, UsedIs
  <2> QED BY <2>1, <2>2
<1>7. PICK m \in Nat : Leaves(o, m)
                       /\ (o.err = "format" \/ n = m)
                       /\ (o.err # "none" =>
                             \/ o.src = Len(bytes)
                             \/ /\ Stays(o)
                                /\ \/ n <= 0 \/ o.err = "too small"
                                   \/ o.err = "format")
  <2>1. CASE elem.len \in lengths
    <3>1. o \in next(elem, n) /\ n \in Nat
      BY <2>1 DEF ReadValue
    <3> HIDE DEF n, r, c
    <3>2. elem.len = n
      BY DEF n
    <3>3. /\ Leaves(o, n)
          /\ o.err # "none" =>
               \/ o.src = Len(bytes)
               \/ Stays(o) /\ (n <= 0 \/ n < n \/ o.err = "too small")
      BY <1>1, <1>5, <3>1, <3>2, ReaderNextLeaves
    <3>4. ~(n < n)
      BY <3>1
    <3> QED BY <3>1, <3>3, <3>4, Zenon
  <2>2. CASE elem.len \notin lengths
    <3>1. o = Outcome("format", src, buffered, off, <<>>)
      BY <2>2 DEF ReadValue
    <3>2. "format" \in Errors \ {"none"}
      BY DEF Errors
    <3>3. Leaves(o, 0) /\ o.err = "format" /\ Stays(o)
      BY <1>1, <3>1, <3>2, FailsUnread, FieldsOf DEF Stays
    <3> QED BY <3>3
  <2> QED BY <2>1, <2>2
<1> HIDE DEF r, n
<1>8. Buffer'
  BY <1>1, <1>3, <1>7, BufferKept
<1>9. /\ Left' > 0 => Left > 0 /\ o.src # Len(bytes)
      /\ off' = o.off /\ off' \in Nat /\ off \in Nat
  BY <1>1, <1>3, <1>7, LeftLess
<1>10. /\ c \in Seq(Readers) /\ Len(c) = k /\ c[k] = r
       /\ \A i \in 1 .. k : i # k => c[i] = readers[i]
  BY <1>2, <1>6, Replaced DEF k
<1>11. \A i \in 1 .. k : c[i].id = readers[i].id
  BY <1>4, <1>6, <1>10
<1> HIDE DEF c
<1>12. CASE o.err = "too small"
  <2>1. readers' = Astray(c)
    BY <1>3, <1>12
  <2>2. /\ readers' \in Seq(Readers) /\ Len(readers') = k
        /\ \A i \in 1 .. k : readers'[i].id = c[i].id
        /\ Ending(readers', off')
    BY <1>10, <2>1, AstrayEnds
  <2> QED BY <1>3, <1>8, <1>11, <2>2 DEF Nesting, k
<1>13. CASE o.err # "too small"
  <2>1. readers' = c
    BY <1>3, <1>13
  <2>2. ASSUME Left' > 0 PROVE Ending(readers', off')
    <3>1. Ending(readers, off)
      BY <1>1, <1>9, <2>2 DEF Nesting
    <3>2. r.end # Unknown => off + elem.len = off' + r.len
      <4> SUFFICES ASSUME r.end # Unknown
                   PROVE  off + elem.len = off' + r.len
        OBVIOUS
      <4>1. n >= 0 /\ n \in Int /\ n = elem.len
        BY <1>5, <1>6 DEF n
      <4>2. CASE o.err = "none"
        <5>1. n = m /\ off' = off + n
          <6>1. n = m /\ o.off = off + m
            BY <1>7, <4>2 DEF Leaves
          <6> QED BY <1>9, <6>1
        <5>2. r = Used(elem, m)
          BY <4>2, <5>1, Zenon DEF r, n
        <5>3. r.len = IF elem.len >= m THEN elem.len - m ELSE elem.len
          BY <1>5, <5>2, UsedIs
        <5>4. r.len = 0
          <6>1. r.len = IF n >= m THEN n - m ELSE n
            BY <4>1, <5>3, Zenon
          <6>2. n >= m /\ n - m = 0
            BY <4>1, <5>1
          <6> QED BY <6>1, <6>2, Zenon
        <5> QED BY <1>9, <4>1, <5>1, <5>4
      <4>3. CASE o.err = "format"
        <5>1. r = elem
          BY <4>3, Zenon DEF r
        <5>2. off' = off
          BY <1>7, <1>9, <2>2, <4>3 DEF Stays
        <5> QED BY <5>1, <5>2
      <4>4. CASE o.err # "none" /\ o.err # "format"
        <5>1. n = m /\ n <= 0 /\ off' = off
          BY <1>7, <1>9, <1>13, <2>2, <4>4 DEF Stays
        <5>2. r = Used(elem, m)
          BY <4>4, <5>1, Zenon DEF r, n
        <5>3. r.len = IF elem.len >= m THEN elem.len - m ELSE elem.len
          BY <1>5, <5>2, UsedIs
        <5>4. r.len = 0 /\ elem.len = 0
          <6>1. r.len = IF n >= m THEN n - m ELSE n
            BY <4>1, <5>3, Zenon
          <6>2. n >= m /\ n - m = 0 /\ n = 0
            BY <4>1, <5>1
          <6> QED BY <4>1, <6>1, <6>2, Zenon
        <5> QED BY <5>1, <5>4
      <4> QED BY <4>2, <4>3, <4>4
    <3>3. /\ k = Len(readers) /\ k >= 1 /\ readers \in Seq(Readers)
          /\ r \in Readers /\ c = [readers EXCEPT ![k] = r]
          /\ off \in Int /\ off' \in Int /\ r.end = readers[k].end
          /\ r.end # Unknown => off + readers[k].len = off' + r.len
      BY <1>2, <1>4, <1>6, <1>9, <3>2 DEF k, c
    <3>4. Ending(c, off')
      BY <3>1, <3>3, ReadOfLast
    <3> QED BY <2>1, <3>4
  <2>3. Nesting'
    BY <2>2 DEF Nesting
  <2> QED BY <1>3, <1>8, <1>10, <1>11, <2>1, <2>3 DEF k
<1> QED BY <1>12, <1>13

LEMMA BlockRead ==
  ASSUME Decoder, step = "element", NEW o \in Read(elem.len), Takes(o),
         elem.len # Unknown,
         readers' = [readers EXCEPT ![Len(readers)].len = @ - (o.off - off)],
         bytes' = bytes
  PROVE  /\ Buffer' /\ Nesting'
         /\ readers' \in Seq(Readers) /\ Len(readers') = Len(readers)
         /\ \A i \in 1 .. Len(readers) : readers'[i].id = readers[i].id
<1> DEFINE k == Len(readers)
           n == elem.len
           r == [elem EXCEPT !.len = @ - (o.off - off)]
           c == [readers EXCEPT ![k] = r]
<1>1. Buffer /\ Chain /\ Nesting
  BY DEF Decoder
<1>2. /\ readers \in Seq(Readers) /\ k \in Nat /\ k >= 1 /\ k \in 1 .. k
  BY <1>1, ChainIs
<1>3. elem = readers[k]
  BY DEF elem
<1>4. /\ elem \in Readers /\ n \in Nat
  <2>1. elem \in Readers /\ n \in Int /\ n >= -1
    BY <1>2, <1>3, ReaderIs
  <2> QED BY <2>1 DEF Unknown
<1>5. readers' = c
  BY <1>3, Zenon
<1>6. Leaves(o, n)
  BY <1>1, <1>4, ReadLeaves
<1>7. Buffer'
  BY <1>1, <1>4, <1>6, BufferKept
<1>8. /\ Left' > 0 => Left > 0
      /\ off' = o.off /\ off' \in Nat /\ off \in Nat
  BY <1>1, <1>4, <1>6, LeftLess
<1>9. o.off \in off .. off + n
  BY <1>6, Zenon DEF Leaves
<1>10. PICK m \in Nat : m = n - (o.off - off) /\ off + n = o.off + m
  <2>1. n - (o.off - off) \in Nat /\ off + n = o.off + (n - (o.off - off))
    BY <1>4, <1>8, <1>9
  <2> HIDE DEF k, r
  <2> QED BY <2>1, Zenon
<1>11. /\ r \in Readers /\ r.id = elem.id /\ r.end = elem.end /\ r.len = m
  <2>1. r = [elem EXCEPT !.len = m]
    BY <1>10, Zenon
  <2>2. elem \in [id : Nat, len : Int, end : Int] /\ m \in Nat
    BY <1>4, <1>10 DEF Readers
  <2> HIDE DEF r, n, k
  <2>3. /\ r \in [id : Nat, len : Int, end : Int]
        /\ r.id = elem.id /\ r.end = elem.end /\ r.len = m
    BY <2>1, <2>2
  <2>4. r.len >= -1 /\ r.len >= 0
    BY <2>2, <2>3
  <2> QED BY <2>3, <2>4 DEF Readers
<1> HIDE DEF r, k
<1>12. /\ c \in Seq(Readers) /\ Len(c) = k /\ c[k] = r
       /\ \A i \in 1 .. k : i # k => c[i] = readers[i]
  BY <1>2, <1>11, Replaced DEF k
<1>13. \A i \in 1 .. k : c[i].id = readers[i].id
  BY <1>3, <1>11, <1>12
<1> HIDE DEF c
<1>14. ASSUME Left' > 0 PROVE Ending(readers', off')
  <2>1. Ending(readers, off)
    BY <1>1, <1>8, <1>14 DEF Nesting
  <2>2. off + readers[k].len = off' + r.len
    BY <1>3, <1>8, <1>10, <1>11, Zenon
  <2>3. /\ k = Len(readers) /\ k >= 1 /\ readers \in Seq(Readers)
        /\ r \in Readers /\ c = [readers EXCEPT ![k] = r]
        /\ off \in Int /\ off' \in Int /\ r.end = readers[k].end
        /\ r.end # Unknown => off + readers[k].len = off' + r.len
    BY <1>2, <1>3, <1>8, <1>11, <2>2 DEF k, c
  <2>4. Ending(c, off')
    BY <2>1, <2>3, ReadOfLast
  <2> QED BY <1>5, <2>4, Zenon
<1>15. Nesting'
  BY <1>14 DEF Nesting
<1>16. /\ readers' \in Seq(Readers) /\ Len(readers') = Len(readers)
       /\ \A i \in 1 .. Len(readers) : readers'[i].id = readers[i].id
  BY <1>5, <1>12, <1>13, Zenon DEF k
<1> QED BY <1>7, <1>15, <1>16

-----------------------------------------------------------------------------
(* The loops.                                                               *)

LEMMA Goes ==
  ASSUME Loops, phase' \in Phases \cup Ends, Place(phase', at', dec),
         UNCHANGED headerVars, phase' \in InHeader => phase \in InHeader,
         phase' = "decode" /\ at' > 3 /\ readers'[3].id = Matroska_Tracks =>
           satrack < Len(entries)
  PROVE  Loops'
<1>1. /\ cntNeeded' = cntNeeded /\ entries' = entries /\ satrack' = satrack
      /\ dec' = dec
  BY DEF headerVars
<1>2. /\ cntNeeded \in 0 .. 2 /\ dec \in 1 .. 2
      /\ entries \in Seq(BOOLEAN) /\ satrack \in 0 .. Len(entries)
      /\ phase \in InHeader => cntNeeded <= 1 /\ dec = 1
  BY Zenon DEF Loops
<1>3. Place(phase, at, dec)'
  BY <1>1, Zenon
<1>4. Undecoded'
  BY <1>1, Zenon DEF Undecoded
<1> QED BY <1>1, <1>2, <1>3, <1>4, Zenon DEF Loops

\* Nothing is to be read where reading has ended.
LEMMA EndsPlace ==
  ASSUME NEW p \in Ends, NEW i, NEW d
  PROVE  Place(p, i, d) /\ p \notin InHeader /\ p \in Phases \cup Ends
BY DEF Ends, Place, InHeader

\* A file that ends, fails or is not survived.
LEMMA Halts ==
  ASSUME Loops, NEW p \in Ends, Stop(p), UNCHANGED headerVars
  PROVE  Loops'
<1>1. phase' = p
  BY DEF Stop
<1>2. /\ phase' \in Phases \cup Ends /\ phase' \notin InHeader
      /\ Place(phase', at', dec)
  BY <1>1, EndsPlace, Zenon
<1>3. phase' # "decode"
  BY <1>2, Zenon DEF InHeader
<1> QED BY <1>2, <1>3, Goes, Zenon

LEMMA LoopsIs ==
  ASSUME Loops
  PROVE  /\ cntNeeded \in 0 .. 2 /\ dec \in 1 .. 2 /\ dec \in Nat
         /\ entries \in Seq(BOOLEAN) /\ Len(entries) \in Nat
         /\ satrack \in 0 .. Len(entries)
         /\ phase \in InHeader => cntNeeded <= 1 /\ dec = 1
         /\ Place(phase, at, dec)
         /\ Undecoded
<1>1. /\ cntNeeded \in 0 .. 2 /\ dec \in 1 .. 2
      /\ entries \in Seq(BOOLEAN) /\ satrack \in 0 .. Len(entries)
      /\ phase \in InHeader => cntNeeded <= 1 /\ dec = 1
      /\ Place(phase, at, dec) /\ Undecoded
  BY Zenon DEF Loops
<1>2. Len(entries) \in Nat
  BY <1>1, LenProperties
<1>3. dec \in Nat
  BY <1>1
<1> QED BY <1>1, <1>2, <1>3

Inv == Decoder /\ Loops

LEMMA InvIs ==
  ASSUME Inv
  PROVE  /\ Len(readers) \in Nat /\ at \in Nat /\ at >= 1 /\ at <= Len(readers)
         /\ 1 \in 1 .. Len(readers) /\ at \in 1 .. Len(readers)
         /\ step = "element" => Len(readers) = at + 1
                                /\ at + 1 \in 1 .. Len(readers)
         /\ dec \in Nat /\ Place(phase, at, dec) /\ Undecoded
         /\ phase \in InHeader => dec = 1 /\ cntNeeded <= 1
<1>1. Chain /\ Loops
  BY DEF Inv, Decoder
<1>2. /\ Len(readers) \in Nat /\ at \in Nat /\ at >= 1 /\ at <= Len(readers)
  BY <1>1, ChainIs
<1>3. 1 \in 1 .. Len(readers) /\ at \in 1 .. Len(readers)
  BY <1>2
<1>4. step = "element" => Len(readers) = at + 1
  BY <1>1 DEF Chain
<1>5. step = "element" => at + 1 \in 1 .. Len(readers)
  BY <1>2, <1>4
<1>6. /\ dec \in Nat /\ Place(phase, at, dec) /\ Undecoded
      /\ phase \in InHeader => dec = 1 /\ cntNeeded <= 1
  BY <1>1, LoopsIs
<1> QED BY <1>2, <1>3, <1>4, <1>5, <1>6

\* The next loop starts, or the same goes on.
LEMMA Simple ==
  ASSUME Inv, NEW p \in Phases, NEW i \in 1 .. Len(readers),
         Continue(p, i), NothingRead, UNCHANGED headerVars,
         Place(p, i, dec), p \in InHeader => phase \in InHeader,
         p = "decode" /\ i > 3 /\ readers[3].id = Matroska_Tracks =>
           satrack < Len(entries)
  PROVE  Inv'
<1>1. Decoder /\ Loops
  BY DEF Inv
<1>2. Decoder' /\ readers' = readers
  BY <1>1, GoesOn, Zenon
<1>3. phase' = p /\ at' = i
  BY DEF Continue, ReadNext
<1>4. Loops'
  <2>1. phase' \in Phases \cup Ends
    BY <1>3
  <2>2. /\ Place(phase', at', dec) /\ (phase' \in InHeader => phase \in InHeader)
        /\ (phase' = "decode" /\ at' > 3 /\ readers'[3].id = Matroska_Tracks =>
              satrack < Len(entries))
    BY <1>2, <1>3, Zenon
  <2> QED BY <1>1, <2>1, <2>2, Goes, Zenon
<1> QED BY <1>2, <1>4 DEF Inv

LEMMA SimpleHalts ==
  ASSUME Inv, NEW p \in Ends, Stop(p), NothingRead, UNCHANGED headerVars
  PROVE  Inv'
<1>1. 1 \in 1 .. Len(readers)
  BY InvIs
<1>2. Decoder'
  BY <1>1, GoesOn, Zenon DEF Inv
<1>3. Loops'
  BY Halts, Zenon DEF Inv
<1> QED BY <1>2, <1>3 DEF Inv

LEMMA DecodingKeeps ==
  ASSUME Inv, Decoding
  PROVE  Inv'
<1>1. Buffer /\ Chain /\ Nesting /\ Loops
  BY DEF Inv, Decoder
<1>2. ReadElement /\ phase' = phase /\ UNCHANGED headerVars
  BY DEF Decoding
<1>3. ReadsOn
  BY <1>1, <1>2, ReadElementKeeps
<1>4. /\ Buffer' /\ Chain' /\ Nesting' /\ at' = at
      /\ \A i \in 1 .. at : readers'[i].id = readers[i].id
  BY <1>3 DEF ReadsOn
<1>5. /\ phase \in Phases \cup Ends /\ Place(phase, at, dec) /\ Undecoded
  BY <1>1, Zenon DEF Loops
<1>6. ASSUME phase' = "decode", at' > 3, readers'[3].id = Matroska_Tracks
      PROVE  satrack < Len(entries)
  <2>1. at \in Nat
    BY <1>1, ChainIs
  <2>2. 3 \in 1 .. at /\ at > 3
    BY <1>4, <1>6, <2>1
  <2>3. readers[3].id = Matroska_Tracks
    BY <1>4, <1>6, <2>2, Zenon
  <2> QED BY <1>2, <1>5, <1>6, <2>2, <2>3, Zenon DEF Undecoded
<1>7. /\ phase' \in Phases \cup Ends /\ Place(phase', at', dec)
      /\ (phase' \in InHeader => phase \in InHeader)
  BY <1>2, <1>4, <1>5, Zenon
<1>8. Loops'
  BY <1>1, <1>2, <1>6, <1>7, Goes, Zenon
<1> QED BY <1>4, <1>8 DEF Inv, Decoder

LEMMA ReadHeaderKeeps ==
  ASSUME Inv, ReadHeader
  PROVE  Inv'
<1>1. /\ phase = "EBML" /\ NothingRead /\ UNCHANGED headerVars
      /\ \/ Continue("Segment", 1)
         \/ Continue("content", 1)
  BY DEF ReadHeader
<1>2. phase \in InHeader
  BY <1>1 DEF InHeader
<1>3. 1 \in 1 .. Len(readers) /\ dec = 1
  BY <1>2, InvIs
<1>4. /\ Place("Segment", 1, dec) /\ Place("content", 1, dec)
      /\ "Segment" \in Phases /\ "content" \in Phases
  BY <1>3 DEF Place, Phases
<1> QED BY <1>1, <1>2, <1>3, <1>4, Simple

LEMMA ReadSegmentKeeps ==
  ASSUME Inv, ReadSegment
  PROVE  Inv'
<1>1. /\ phase = "Segment" /\ NothingRead /\ UNCHANGED headerVars
      /\ \/ Continue("content", 1)
         \/ step = "element" /\ Continue("level 1", 2)
         \/ Stop("panic")
  BY DEF ReadSegment, Found
<1>2. phase \in InHeader
  BY <1>1 DEF InHeader
<1>3. /\ 1 \in 1 .. Len(readers) /\ dec = 1 /\ Place(phase, at, dec)
      /\ step = "element" => Len(readers) = at + 1
  BY <1>2, InvIs
<1>4. CASE Continue("content", 1)
  <2>1. Place("content", 1, dec) /\ "content" \in Phases
    BY <1>3 DEF Place, Phases
  <2> QED BY <1>1, <1>2, <1>3, <1>4, <2>1, Simple
<1>5. CASE step = "element" /\ Continue("level 1", 2)
  <2>1. at = 1
    BY <1>1, <1>3 DEF Place
  <2>2. 2 \in 1 .. Len(readers)
    <3>1. Len(readers) = 1 + 1
      BY <1>3, <1>5, <2>1, Zenon
    <3> QED BY <3>1
  <2>3. Place("level 1", 2, dec) /\ "level 1" \in Phases
    BY DEF Place, Phases
  <2> QED BY <1>1, <1>2, <1>5, <2>2, <2>3, Simple
<1>6. CASE Stop("panic")
  <2>1. "panic" \in Ends
    BY DEF Ends
  <2> QED BY <1>1, <1>6, <2>1, SimpleHalts
<1> QED BY <1>1, <1>4, <1>5, <1>6

LEMMA ReadLevel1Keeps ==
  ASSUME Inv, ReadLevel1
  PROVE  Inv'
<1>1. /\ phase = "level 1" /\ NothingRead /\ UNCHANGED headerVars
      /\ \/ Continue("content", 1)
         \/ step = "element" /\ Continue("decode", 3)
         \/ step = "element" /\ Continue("level 1", 2)
  BY DEF ReadLevel1, Found, Other
<1>2. phase \in InHeader
  BY <1>1 DEF InHeader
<1>3. /\ 1 \in 1 .. Len(readers) /\ dec = 1 /\ Place(phase, at, dec)
      /\ step = "element" => Len(readers) = at + 1
  BY <1>2, InvIs
<1>4. at = 2
  BY <1>1, <1>3 DEF Place
<1>5. /\ Place("content", 1, dec) /\ "content" \in Phases
      /\ Place("decode", 3, dec) /\ "decode" \in Phases
      /\ Place("level 1", 2, dec) /\ "level 1" \in Phases
  <2>1. Place("content", 1, dec) /\ "content" \in Phases
    BY <1>3 DEF Place, Phases
  <2>2. Place("decode", 3, dec) /\ "decode" \in Phases
    BY DEF Place, Phases
  <2>3. Place("level 1", 2, dec) /\ "level 1" \in Phases
    BY DEF Place, Phases
  <2> QED BY <2>1, <2>2, <2>3
<1>6. step = "element" => 2 \in 1 .. Len(readers) /\ 3 \in 1 .. Len(readers)
  <2>1. step = "element" => Len(readers) = 2 + 1
    BY <1>3, <1>4, Zenon
  <2> QED BY <2>1
<1>7. ~(3 > 3) /\ ~(2 > 3) /\ ~(1 > 3)
  OBVIOUS
<1> QED BY <1>1, <1>2, <1>3, <1>5, <1>6, <1>7, Simple

-----------------------------------------------------------------------------
(* Decoding.                                                                *)

LEMMA MaxOf ==
  ASSUME NEW n \in Nat, NEW S \in SUBSET (0 .. n), S # {}
  PROVE  Max(S) \in S
<1> DEFINE T == {k \in Nat : \E x \in S : k = n - x}
<1>1. T \in SUBSET Nat /\ T # {}
  <2>1. PICK x \in S : TRUE
    OBVIOUS
  <2>2. n - x \in T
    BY <2>1
  <2> QED BY <2>2
<1>2. PICK k \in T : \A m \in T : k <= m
  <2> HIDE DEF T
  <2> QED BY <1>1, LeastNumber
<1>3. PICK x \in S : k = n - x
  BY <1>2
<1>4. ASSUME NEW y \in S PROVE x >= y
  <2>1. n - y \in T
    BY <1>4
  <2>2. k <= n - y
    BY <1>2, <2>1
  <2> QED BY <1>3, <2>2
<1>5. \E z \in S : \A y \in S : z >= y
  BY <1>4
<1> QED BY <1>5 DEF Max

LEMMA InTracks ==
  DOMAIN getStructMapping(Matroska_Tracks) = {Matroska_TrackEntry}
<1>1. /\ Matroska_Tracks # Matroska_Info
      /\ Matroska_Tracks # Matroska_ChapterTranslate
      /\ Matroska_Tracks # Matroska_TrackEntry
      /\ Matroska_Tracks # Matroska_TrackTranslate
      /\ Matroska_Tracks # Matroska_Audio
      /\ Matroska_Tracks # Matroska_Video
      /\ Matroska_Tracks # Matroska_AlphaMode
      /\ Matroska_Tracks # Matroska_Colour
  BY DEF Matroska_Tracks, Matroska_Info, Matroska_ChapterTranslate,
         Matroska_TrackEntry, Matroska_TrackTranslate, Matroska_Audio,
         Matroska_Video, Matroska_AlphaMode, Matroska_Colour
<1>2. /\ Matroska_Tracks # Matroska_MasteringMetadata
      /\ Matroska_Tracks # Matroska_TrackOperation
      /\ Matroska_Tracks # Matroska_TrackPlane
      /\ Matroska_Tracks # Matroska_ContentEncoding
      /\ Matroska_Tracks # Matroska_ContentCompression
      /\ Matroska_Tracks # Matroska_ContentEncryption
  BY DEF Matroska_Tracks, Matroska_MasteringMetadata, Matroska_TrackOperation,
         Matroska_TrackPlane, Matroska_ContentEncoding,
         Matroska_ContentCompression, Matroska_ContentEncryption
<1>3. getStructMapping(Matroska_Tracks) = Track
  BY <1>1, <1>2, Zenon DEF getStructMapping
<1>4. DOMAIN Track = {Matroska_TrackEntry}
  BY Zenon DEF Track, newStructMapping
<1> QED BY <1>3, <1>4, Zenon

LEMMA EntryOrAudio == Matroska_TrackEntry # Matroska_Audio
BY DEF Matroska_TrackEntry, Matroska_Audio

\* The header fails while Info or Tracks is decoded.
LEMMA HeaderFailing ==
  ASSUME Inv, phase = "decode", HeaderFails, entries' = withoutLast
  PROVE  Loops'
<1>1. /\ phase' = "content" /\ at' = 1 /\ cntNeeded' = cntNeeded
      /\ satrack' = satrack /\ dec' = dec
  BY DEF HeaderFails, Continue, ReadNext
<1>2. phase \in InHeader
  BY DEF InHeader
<1>3. /\ dec = 1 /\ cntNeeded \in 0 .. 2 /\ Undecoded /\ dec \in 1 .. 2
      /\ entries \in Seq(BOOLEAN) /\ Len(entries) \in Nat
      /\ satrack \in 0 .. Len(entries)
  BY <1>2, LoopsIs DEF Inv
<1>4. entries' \in Seq(BOOLEAN) /\ satrack \in 0 .. Len(entries')
  <2>1. CASE at > 3 /\ readers[3].id = Matroska_Tracks
    <3>1. satrack < Len(entries)
      BY <1>3, <2>1 DEF Undecoded
    <3>2. entries' = SubSeq(entries, 1, Len(entries) - 1)
      BY <2>1 DEF withoutLast, Front
    <3>3. PICK c \in Nat : c = Len(entries) - 1
      BY <1>3, <3>1
    <3>4. 0 \in Nat /\ c \in 0 .. Len(entries) /\ 0 + 1 = 1 /\ c - 0 = c
      BY <1>3, <3>3
    <3>5. SubSeq(entries, 0 + 1, c) \in Seq(BOOLEAN)
          /\ Len(SubSeq(entries, 0 + 1, c)) = c - 0
      BY <1>3, <3>4, Piece
    <3>6. entries' \in Seq(BOOLEAN) /\ Len(entries') = c
      BY <3>2, <3>3, <3>4, <3>5, Zenon
    <3> QED BY <1>3, <3>1, <3>3, <3>6
  <2>2. CASE ~(at > 3 /\ readers[3].id = Matroska_Tracks)
    BY <1>3, <2>2 DEF withoutLast
  <2> QED BY <2>1, <2>2
<1>5. /\ phase' \in Phases \cup Ends /\ phase' \notin InHeader
      /\ Place("content", 1, dec)
  BY <1>1, <1>3 DEF Phases, InHeader, Place
<1>6. Place(phase, at, dec)'
  BY <1>1, <1>5, Zenon
<1>7. Undecoded'
  BY <1>1 DEF Undecoded
<1> QED BY <1>1, <1>3, <1>4, <1>5, <1>6, <1>7, Zenon DEF Loops

LEMMA DecodedKeeps ==
  ASSUME Inv, phase = "decode", at = 3, Decoded, entries' = entries,
         NothingRead
  PROVE  Inv'
<1> DEFINE S == {i \in DOMAIN entries : entries[i]} \cup {satrack}
<1>1. phase \in InHeader
  BY DEF InHeader
<1>2. /\ dec = 1 /\ cntNeeded \in 0 .. 2 /\ cntNeeded <= 1
      /\ entries \in Seq(BOOLEAN) /\ Len(entries) \in Nat
      /\ satrack \in 0 .. Len(entries)
  BY <1>1, LoopsIs DEF Inv
<1>3. 2 \in 1 .. Len(readers)
  BY InvIs
<1>4. /\ cntNeeded' = cntNeeded + 1
      /\ satrack' = IF readers[3].id = Matroska_Tracks THEN Max(S) ELSE satrack
      /\ \/ /\ cntNeeded' = 2 /\ dec' = 2 /\ Continue("content", 2)
         \/ /\ cntNeeded' # 2 /\ dec' = dec /\ Continue("level 1", 2)
  BY Zenon DEF Decoded
<1>5. satrack' \in 0 .. Len(entries')
  <2>1. S \in SUBSET (0 .. Len(entries)) /\ S # {}
    <3>1. DOMAIN entries = 1 .. Len(entries)
      BY <1>2
    <3> QED BY <1>2, <3>1
  <2> HIDE DEF S
  <2>2. Max(S) \in 0 .. Len(entries)
    BY <1>2, <2>1, MaxOf
  <2> QED BY <1>2, <1>4, <2>2
<1> HIDE DEF S
<1>6. Decoder'
  BY <1>3, <1>4, GoesOn DEF Inv
<1>7. CASE cntNeeded' = 2 /\ dec' = 2 /\ Continue("content", 2)
  <2>1. phase' = "content" /\ at' = 2
    BY <1>7 DEF Continue, ReadNext
  <2>2. /\ phase' \in Phases \cup Ends /\ phase' \notin InHeader
        /\ Place("content", 2, 2) /\ 2 \in 0 .. 2 /\ 2 \in 1 .. 2
    BY <2>1 DEF Phases, InHeader, Place
  <2>3. Place(phase, at, dec)'
    BY <1>7, <2>1, <2>2, Zenon
  <2>4. Undecoded'
    BY <2>1 DEF Undecoded
  <2> QED BY <1>2, <1>5, <1>6, <1>7, <2>2, <2>3, <2>4, Zenon DEF Loops, Inv
<1>8. CASE cntNeeded' # 2 /\ dec' = dec /\ Continue("level 1", 2)
  <2>1. phase' = "level 1" /\ at' = 2
    BY <1>8 DEF Continue, ReadNext
  <2>2. /\ phase' \in Phases \cup Ends
        /\ Place("level 1", 2, dec) /\ dec' \in 1 .. 2 /\ dec' = 1
    <3>1. phase' \in Phases \cup Ends
      BY <2>1 DEF Phases
    <3>2. Place("level 1", 2, dec)
      BY DEF Place
    <3>3. 1 \in 1 .. 2
      OBVIOUS
    <3> QED BY <1>2, <1>8, <3>1, <3>2, <3>3, Zenon
  <2>3. Place(phase, at, dec)'
    BY <1>8, <2>1, <2>2, Zenon
  <2>4. Undecoded'
    BY <2>1 DEF Undecoded
  <2>5. cntNeeded' \in 0 .. 2 /\ cntNeeded' <= 1
    <3>1. PICK c \in 0 .. 1 : c = cntNeeded
      <4>1. cntNeeded \in 0 .. 1
        BY <1>2
      <4> QED BY <4>1, Zenon
    <3>2. cntNeeded' = c + 1 /\ cntNeeded' # 2
      BY <1>4, <1>8, <3>1, Zenon
    <3> QED BY <3>2
  <2> QED BY <1>2, <1>5, <1>6, <1>8, <2>2, <2>3, <2>4, <2>5, Zenon
          DEF Loops, Inv
<1> QED BY <1>4, <1>7, <1>8

LEMMA EndOfStructKeeps ==
  ASSUME Inv, EndOfStruct
  PROVE  Inv'
<1>1. phase = "decode" /\ NothingRead
  BY DEF EndOfStruct
<1>2. phase \in InHeader
  BY <1>1 DEF InHeader
<1>3. /\ 1 \in 1 .. Len(readers) /\ at \in Nat /\ at <= Len(readers)
      /\ Undecoded
  BY InvIs
<1>4. CASE at = 3 /\ Decoded /\ entries' = entries
  BY <1>1, <1>4, DecodedKeeps
<1>5. CASE at > 3 /\ Continue("decode", at - 1) /\ UNCHANGED headerVars
  <2>1. PICK i \in 1 .. Len(readers) : i = at - 1 /\ i >= 3
    BY <1>3, <1>5
  <2>2. Place("decode", i, dec) /\ "decode" \in Phases
    BY <2>1 DEF Place, Phases
  <2>3. Continue("decode", i)
    BY <1>5, <2>1, Zenon
  <2>4. readers[3].id = Matroska_Tracks => satrack < Len(entries)
    BY <1>1, <1>3, <1>5 DEF Undecoded
  <2> QED BY <1>1, <1>2, <1>5, <2>2, <2>3, <2>4, Simple
<1>6. CASE HeaderFails /\ entries' = withoutLast
  <2>1. Loops'
    BY <1>1, <1>6, HeaderFailing
  <2>2. Continue("content", 1)
    BY <1>6 DEF HeaderFails
  <2>3. Decoder'
    BY <1>1, <1>3, <2>2, GoesOn DEF Inv
  <2> QED BY <2>1, <2>3 DEF Inv
<1> QED BY <1>4, <1>5, <1>6 DEF EndOfStruct, headerVars

LEMMA NotMappedKeeps ==
  ASSUME Inv, NotMapped
  PROVE  Inv'
<1>1. /\ phase = "decode" /\ NothingRead /\ UNCHANGED headerVars
      /\ Continue("decode", at)
  BY DEF NotMapped
<1>2. phase \in InHeader /\ "decode" \in Phases
  BY <1>1 DEF InHeader, Phases
<1>3. at \in 1 .. Len(readers) /\ Place("decode", at, dec) /\ Undecoded
  BY <1>1, InvIs
<1>4. at > 3 /\ readers[3].id = Matroska_Tracks => satrack < Len(entries)
  BY <1>1, <1>3 DEF Undecoded
<1> QED BY <1>1, <1>2, <1>3, <1>4, Simple

LEMMA ExceptSame ==
  ASSUME NEW S, NEW s \in Seq(S), NEW x \in S, NEW k
  PROVE  [s EXCEPT ![k] = x] \in Seq(S) /\ Len([s EXCEPT ![k] = x]) = Len(s)
<1>1. Len(s) \in Nat /\ DOMAIN s = 1 .. Len(s)
  OBVIOUS
<1>2. CASE k \in 1 .. Len(s)
  BY <1>1, <1>2
<1>3. CASE k \notin 1 .. Len(s)
  <2>1. [s EXCEPT ![k] = x] = s
    BY <1>1, <1>3
  <2> QED BY <2>1, Zenon
<1> QED BY <1>2, <1>3

LEMMA unmarshalStructKeeps ==
  ASSUME Inv, unmarshalStruct
  PROVE  Inv'
<1>1. /\ phase = "decode" /\ NothingRead /\ step = "element"
      /\ id \in DOMAIN Fields
      /\ Continue("decode", at + 1)
      /\ cntNeeded' = cntNeeded /\ satrack' = satrack /\ dec' = dec
  BY DEF unmarshalStruct, Found
<1>2. /\ id = Matroska_TrackEntry => entries' = Append(entries, FALSE)
      /\ id = Matroska_Audio =>
           entries' = [entries EXCEPT ![Len(entries)] = TRUE]
      /\ id # Matroska_TrackEntry /\ id # Matroska_Audio => entries' = entries
  <2>1. entries' =
          CASE id = Matroska_TrackEntry -> Append(entries, FALSE)
            [] id = Matroska_Audio -> [entries EXCEPT ![Len(entries)] = TRUE]
            [] OTHER -> entries
    BY Zenon DEF unmarshalStruct
  <2>2. CASE id = Matroska_TrackEntry
    BY <2>1, <2>2, EntryOrAudio, Zenon
  <2>3. CASE id = Matroska_Audio
    BY <2>1, <2>3, EntryOrAudio, Zenon
  <2>4. CASE id # Matroska_TrackEntry /\ id # Matroska_Audio
    BY <2>1, <2>4, Zenon
  <2> QED BY <2>2, <2>3, <2>4, Zenon
<1>3. phase \in InHeader
  BY <1>1 DEF InHeader
<1>4. /\ at + 1 \in 1 .. Len(readers) /\ at \in Nat
      /\ Place(phase, at, dec) /\ Undecoded
  BY <1>1, InvIs
<1>5. /\ dec \in 1 .. 2 /\ cntNeeded \in 0 .. 2 /\ dec = 1 /\ cntNeeded <= 1
      /\ entries \in Seq(BOOLEAN) /\ Len(entries) \in Nat
      /\ satrack \in 0 .. Len(entries)
  BY <1>3, LoopsIs DEF Inv
<1>6. at >= 3
  BY <1>1, <1>4, Zenon DEF Place
<1>7. /\ entries' \in Seq(BOOLEAN) /\ Len(entries') >= Len(entries)
      /\ Len(entries') \in Nat
      /\ id = Matroska_TrackEntry => Len(entries') = Len(entries) + 1
  <2>1. CASE id = Matroska_TrackEntry
    <3>1. entries' = Append(entries, FALSE)
      BY <1>2, <2>1
    <3>2. entries' \in Seq(BOOLEAN) /\ Len(entries') = Len(entries) + 1
      BY <1>5, <3>1
    <3> QED BY <1>5, <3>2
  <2>2. CASE id = Matroska_Audio
    <3>1. entries' = [entries EXCEPT ![Len(entries)] = TRUE]
      BY <1>2, <2>2
    <3>2. /\ [entries EXCEPT ![Len(entries)] = TRUE] \in Seq(BOOLEAN)
          /\ Len([entries EXCEPT ![Len(entries)] = TRUE]) = Len(entries)
      <4>1. TRUE \in BOOLEAN
        OBVIOUS
      <4> QED BY <1>5, <4>1, ExceptSame, Zenon
    <3>3. entries' \in Seq(BOOLEAN) /\ Len(entries') = Len(entries)
      BY <3>1, <3>2, Zenon
    <3> QED BY <1>5, <2>2, <3>3, EntryOrAudio
  <2>3. CASE id # Matroska_TrackEntry /\ id # Matroska_Audio
    <3>1. entries' = entries
      BY <1>2, <2>3
    <3> QED BY <1>5, <2>3, <3>1
  <2> QED BY <2>1, <2>2, <2>3
<1>8. Decoder' /\ readers' = readers
  BY <1>1, <1>4, GoesOn DEF Inv
<1>9. phase' = "decode" /\ at' = at + 1
  BY <1>1 DEF Continue, ReadNext
<1>10. Place(phase, at, dec)'
  <2>1. PICK i \in Nat : i = at + 1 /\ i >= 3
    BY <1>4, <1>6
  <2>2. Place("decode", i, dec)
    BY <2>1 DEF Place
  <2> QED BY <1>1, <1>9, <2>1, <2>2, Zenon
<1>11. Undecoded'
  <2>1. ASSUME readers[3].id = Matroska_Tracks PROVE satrack < Len(entries')
    <3>1. CASE at > 3
      <4>1. satrack < Len(entries)
        BY <1>1, <1>4, <2>1, <3>1 DEF Undecoded
      <4> QED BY <1>5, <1>7, <4>1
    <3>2. CASE at = 3
      <4>1. DOMAIN Fields = {Matroska_TrackEntry}
        BY <2>1, <3>2, InTracks, Zenon DEF Fields
      <4>2. id = Matroska_TrackEntry
        BY <1>1, <4>1
      <4> QED BY <1>5, <1>7, <4>2
    <3> QED BY <1>4, <1>6, <3>1, <3>2
  <2> QED BY <1>1, <1>8, <2>1 DEF Undecoded
<1>12. satrack' \in 0 .. Len(entries')
  BY <1>1, <1>5, <1>7
<1>13. phase' \in Phases \cup Ends
  BY <1>9 DEF Phases
<1>14. Loops'
  BY <1>1, <1>5, <1>7, <1>10, <1>11, <1>12, <1>13, Zenon DEF Loops
<1> QED BY <1>8, <1>14 DEF Inv

LEMMA TypesOfLengths ==
  ASSUME NEW t \in DOMAIN Lengths
  PROVE  Lengths[t] \in SUBSET Nat
<1>1. BufferSize \in Nat
  BY BufferSizeAssumption
<1>2. t = "int" \/ t = "string" \/ t = "float" \/ t = "bytes"
  BY DEF Lengths
<1>3. /\ Lengths["int"] = 0 .. 8 /\ Lengths["string"] = 0 .. BufferSize
      /\ Lengths["float"] = {4, 8} /\ Lengths["bytes"] = Nat
  BY DEF Lengths
<1>4. /\ 0 .. 8 \in SUBSET Nat /\ 0 .. BufferSize \in SUBSET Nat
      /\ {4, 8} \in SUBSET Nat /\ Nat \in SUBSET Nat
  BY <1>1
<1> QED BY <1>2, <1>3, <1>4, Zenon

\* What a value leaves, whatever the reader does next.
LEMMA ValueKeeps ==
  ASSUME Inv, step = "element", NEW t \in DOMAIN Lengths,
         NEW o \in ReadValue(Lengths[t]), ReadsValue(o),
         NEW p, NEW i \in 1 .. Len(readers), Continue(p, i) \/ Stop(p)
  PROVE  /\ Decoder'
         /\ \A j \in 1 .. Len(readers) : readers'[j].id = readers[j].id
<1>1. Decoder
  BY DEF Inv
<1>2. PICK lengths \in SUBSET Nat : lengths = Lengths[t]
  BY TypesOfLengths, Zenon
<1>3. o \in ReadValue(lengths)
  BY <1>2, Zenon
<1>4. /\ Buffer' /\ Nesting'
      /\ readers' \in Seq(Readers) /\ Len(readers') = Len(readers)
      /\ first' = first /\ id' = id
      /\ \A j \in 1 .. Len(readers) : readers'[j].id = readers[j].id
  BY <1>1, <1>3, ValueRead, Zenon
<1>5. Chain'
  BY <1>1, <1>4, ChainAfter, Zenon DEF Decoder
<1> QED BY <1>4, <1>5 DEF Decoder

LEMMA unmarshalKeeps ==
  ASSUME Inv, unmarshal
  PROVE  Inv'
<1>1. /\ phase = "decode" /\ step = "element" /\ Fields[id] \in DOMAIN Lengths
  BY DEF unmarshal, Found
<1>2. PICK o \in ReadValue(Lengths[Fields[id]]) :
        /\ ReadsValue(o)
        /\ \/ Continue("decode", at) /\ UNCHANGED headerVars
           \/ HeaderFails /\ entries' = withoutLast
  BY Zenon DEF unmarshal
<1>3. PICK t \in DOMAIN Lengths : t = Fields[id]
  BY <1>1, Zenon
<1>4. o \in ReadValue(Lengths[t])
  BY <1>2, <1>3, Zenon
<1>5. /\ 1 \in 1 .. Len(readers) /\ at \in 1 .. Len(readers) /\ at \in Nat
      /\ at <= Len(readers) /\ Len(readers) \in Nat
      /\ Place(phase, at, dec) /\ Undecoded
  BY InvIs
<1>6. CASE Continue("decode", at) /\ UNCHANGED headerVars
  <2>1. /\ Decoder'
        /\ \A j \in 1 .. Len(readers) : readers'[j].id = readers[j].id
    BY <1>1, <1>2, <1>4, <1>5, <1>6, ValueKeeps, Zenon
  <2>2. phase' = "decode" /\ at' = at
    BY <1>6 DEF Continue, ReadNext
  <2>3. phase' \in Phases \cup Ends /\ phase \in InHeader
    BY <1>1, <2>2 DEF Phases, InHeader
  <2>4. Place(phase', at', dec)
    BY <1>1, <1>5, <2>2, Zenon
  <2>5. ASSUME at' > 3, readers'[3].id = Matroska_Tracks
        PROVE  satrack < Len(entries)
    <3>1. at > 3 /\ 3 \in 1 .. Len(readers)
      BY <1>5, <2>2, <2>5
    <3>2. readers[3].id = Matroska_Tracks
      BY <2>1, <2>5, <3>1, Zenon
    <3> QED BY <1>1, <1>5, <3>1, <3>2 DEF Undecoded
  <2>6. Loops
    BY DEF Inv
  <2>7. Loops'
    BY <1>6, <2>3, <2>4, <2>5, <2>6, Goes, Zenon
  <2> QED BY <2>1, <2>7 DEF Inv
<1>7. CASE HeaderFails /\ entries' = withoutLast
  <2>1. Continue("content", 1)
    BY <1>7 DEF HeaderFails
  <2>2. Decoder'
    BY <1>1, <1>2, <1>4, <1>5, <2>1, ValueKeeps, Zenon
  <2>3. Loops'
    BY <1>1, <1>7, HeaderFailing
  <2> QED BY <2>2, <2>3 DEF Inv
<1> QED BY <1>2, <1>6, <1>7

LEMMA unmarshalUnknownKeeps ==
  ASSUME Inv, unmarshalUnknown
  PROVE  Inv'
<1>1. Stop("panic") /\ NothingRead /\ UNCHANGED headerVars
  BY DEF unmarshalUnknown
<1>2. "panic" \in Ends
  BY DEF Ends
<1> QED BY <1>1, <1>2, SimpleHalts

-----------------------------------------------------------------------------
(* Content.                                                                 *)

LEMMA ReadContentKeeps ==
  ASSUME Inv, ReadContent
  PROVE  Inv'
<1>1. /\ phase = "content" /\ NothingRead /\ UNCHANGED headerVars
      /\ \/ step = "element" /\ Continue("timestamp", dec + 1)
         \/ step = "element" /\ Continue("content", dec)
         \/ Stop("EOF")
         \/ Stop("failed")
  BY DEF ReadContent, Found, Other
<1>2. /\ Place(phase, at, dec) /\ at \in 1 .. Len(readers)
      /\ step = "element" => at + 1 \in 1 .. Len(readers)
  BY InvIs
<1>3. at = dec
  BY <1>1, <1>2 DEF Place
<1>4. CASE step = "element" /\ Continue("timestamp", dec + 1)
  <2>1. dec + 1 \in 1 .. Len(readers)
    BY <1>2, <1>3, <1>4, Zenon
  <2>2. /\ Place("timestamp", dec + 1, dec) /\ "timestamp" \in Phases
        /\ "timestamp" \notin InHeader
    BY DEF Place, Phases, InHeader
  <2> QED BY <1>1, <1>4, <2>1, <2>2, Simple
<1>5. CASE Continue("content", dec)
  <2>1. /\ Place("content", dec, dec) /\ "content" \in Phases
        /\ "content" \notin InHeader /\ dec \in 1 .. Len(readers)
    BY <1>2, <1>3 DEF Place, Phases, InHeader
  <2> QED BY <1>1, <1>5, <2>1, Simple
<1>6. CASE Stop("EOF") \/ Stop("failed")
  <2>1. "EOF" \in Ends /\ "failed" \in Ends
    BY DEF Ends
  <2> QED BY <1>1, <1>6, <2>1, SimpleHalts
<1> QED BY <1>1, <1>4, <1>5, <1>6

LEMMA NoTimestampKeeps ==
  ASSUME Inv, NoTimestamp
  PROVE  Inv'
<1>1. /\ phase = "timestamp" /\ NothingRead /\ UNCHANGED headerVars
      /\ \/ Continue("timestamp", at)
         \/ Stop("failed")
  BY DEF NoTimestamp
<1>2. Place("timestamp", at, dec) /\ at \in 1 .. Len(readers)
  BY <1>1, InvIs
<1>3. CASE Continue("timestamp", at)
  <2>1. "timestamp" \in Phases /\ "timestamp" \notin InHeader
    BY DEF Phases, InHeader
  <2> QED BY <1>1, <1>2, <1>3, <2>1, Simple
<1>4. CASE Stop("failed")
  <2>1. "failed" \in Ends
    BY DEF Ends
  <2> QED BY <1>1, <1>4, <2>1, SimpleHalts
<1> QED BY <1>1, <1>3, <1>4

LEMMA ReadTimestampKeeps ==
  ASSUME Inv, ReadTimestamp
  PROVE  Inv'
<1>1. /\ phase = "timestamp" /\ step = "element" /\ UNCHANGED headerVars
  BY DEF ReadTimestamp, Found
<1>2. PICK o \in ReadValue(Lengths.int) :
        ReadsValue(o) /\ (Continue("blocks", at) \/ Stop("failed"))
  BY Zenon DEF ReadTimestamp
<1>3. PICK t \in DOMAIN Lengths : Lengths[t] = Lengths.int
  <2>1. "int" \in DOMAIN Lengths
    BY DEF Lengths
  <2> QED BY <2>1
<1>4. o \in ReadValue(Lengths[t])
  BY <1>2, <1>3, Zenon
<1>5. Place("timestamp", at, dec) /\ at \in 1 .. Len(readers)
  BY <1>1, InvIs
<1>6. Decoder'
  BY <1>1, <1>2, <1>4, <1>5, ValueKeeps, Zenon
<1>7. Loops
  BY DEF Inv
<1>8. CASE Continue("blocks", at)
  <2>1. phase' = "blocks" /\ at' = at
    BY <1>8 DEF Continue, ReadNext
  <2>2. Place("blocks", at, dec)
    BY <1>5 DEF Place
  <2>3. phase' \in Phases \cup Ends /\ phase' \notin InHeader
        /\ phase' # "decode"
    BY <2>1 DEF Phases, InHeader
  <2>4. Place(phase', at', dec)
    BY <2>1, <2>2, Zenon
  <2>5. Loops'
    BY <1>1, <1>7, <2>3, <2>4, Goes, Zenon
  <2> QED BY <1>6, <2>5 DEF Inv
<1>9. CASE Stop("failed")
  <2>1. "failed" \in Ends
    BY DEF Ends
  <2>2. Loops'
    BY <1>1, <1>7, <1>9, <2>1, Halts, Zenon
  <2> QED BY <1>6, <2>2 DEF Inv
<1> QED BY <1>2, <1>8, <1>9

LEMMA EndOfClusterKeeps ==
  ASSUME Inv, EndOfCluster
  PROVE  Inv'
<1>1. /\ NothingRead /\ UNCHANGED headerVars
      /\ \/ phase \in {"blocks", "group"} /\ Stop("failed")
         \/ phase = "blocks" /\ Continue("content", dec)
         \/ phase = "group" /\ Continue("blocks", at - 1)
  BY DEF EndOfCluster
<1>2. /\ Place(phase, at, dec) /\ dec \in Nat /\ at \in Nat
      /\ at <= Len(readers) /\ Len(readers) \in Nat
  BY InvIs
<1>3. dec \in 1 .. 2 /\ dec >= 1
  BY LoopsIs DEF Inv
<1>4. /\ "blocks" \in Phases /\ "blocks" \notin InHeader
      /\ "content" \in Phases /\ "content" \notin InHeader
      /\ "failed" \in Ends
  BY DEF Phases, InHeader, Ends
<1>5. CASE Stop("failed")
  BY <1>1, <1>4, <1>5, SimpleHalts
<1>6. CASE phase = "blocks" /\ Continue("content", dec)
  <2>1. at = dec + 1
    BY <1>2, <1>6 DEF Place
  <2>2. dec \in 1 .. Len(readers)
    BY <1>2, <1>3, <2>1
  <2>3. Place("content", dec, dec)
    BY DEF Place
  <2> QED BY <1>1, <1>4, <1>6, <2>2, <2>3, Simple
<1>7. CASE phase = "group" /\ Continue("blocks", at - 1)
  <2>1. at = dec + 2
    BY <1>2, <1>7 DEF Place
  <2>2. PICK i \in 1 .. Len(readers) : i = at - 1 /\ i = dec + 1
    BY <1>2, <1>3, <2>1
  <2>3. Place("blocks", i, dec)
    BY <2>2 DEF Place
  <2>4. Continue("blocks", i)
    BY <1>7, <2>2, Zenon
  <2> QED BY <1>1, <1>4, <2>3, <2>4, Simple
<1> QED BY <1>1, <1>5, <1>6, <1>7

LEMMA InClusterKeeps ==
  ASSUME Inv, InCluster
  PROVE  Inv'
<1>1. /\ NothingRead /\ UNCHANGED headerVars
      /\ \/ phase = "blocks" /\ step = "element" /\ Continue("group", at + 1)
         \/ phase = "blocks" /\ Continue("blocks", at)
         \/ phase = "group" /\ Continue("group", at)
  BY DEF InCluster, Found, Other
<1>2. /\ Place(phase, at, dec) /\ dec \in Nat /\ at \in Nat
      /\ at \in 1 .. Len(readers)
      /\ step = "element" => at + 1 \in 1 .. Len(readers)
  BY InvIs
<1>3. /\ "blocks" \in Phases /\ "blocks" \notin InHeader
      /\ "group" \in Phases /\ "group" \notin InHeader
  BY DEF Phases, InHeader
<1>4. CASE phase = "blocks" /\ step = "element" /\ Continue("group", at + 1)
  <2>1. at = dec + 1
    BY <1>2, <1>4 DEF Place
  <2>2. PICK i \in 1 .. Len(readers) : i = at + 1 /\ i = dec + 2
    BY <1>2, <1>4, <2>1
  <2>3. Place("group", i, dec)
    BY <2>2 DEF Place
  <2>4. Continue("group", i)
    BY <1>4, <2>2, Zenon
  <2> QED BY <1>1, <1>3, <2>3, <2>4, Simple
<1>5. CASE phase = "blocks" /\ Continue("blocks", at)
  <2>1. Place("blocks", at, dec)
    BY <1>2, <1>5
  <2> QED BY <1>1, <1>2, <1>3, <1>5, <2>1, Simple
<1>6. CASE phase = "group" /\ Continue("group", at)
  <2>1. Place("group", at, dec)
    BY <1>2, <1>6
  <2> QED BY <1>1, <1>2, <1>3, <1>6, <2>1, Simple
<1> QED BY <1>1, <1>4, <1>5, <1>6

LEMMA Makeable ==
  ASSUME NEW n, CanMake(n)
  PROVE  n \in Nat /\ n # Unknown
BY MemoryAssumption DEF CanMake, Unknown

LEMMA ReadBlockKeeps ==
  ASSUME Inv, ReadBlock
  PROVE  Inv'
<1>1. /\ phase \in {"blocks", "group"} /\ step = "element" /\ parseBlock
      /\ UNCHANGED headerVars
  BY DEF ReadBlock, Found
<1>2. /\ Place(phase, at, dec) /\ at \in 1 .. Len(readers)
      /\ 1 \in 1 .. Len(readers)
  BY InvIs
<1>3. "panic" \in Ends
  BY DEF Ends
<1>4. Decoder /\ Loops /\ Chain
  BY DEF Inv, Decoder
<1>5. CASE ~CanMake(elem.len)
  <2>1. Stop("panic") /\ NothingRead
    BY <1>1, <1>5, Zenon DEF parseBlock
  <2> QED BY <1>1, <1>3, <2>1, SimpleHalts
<1>6. CASE CanMake(elem.len)
  <2>1. PICK o \in Read(elem.len) :
          /\ Takes(o) /\ bytes' = bytes /\ first' = first /\ id' = id
          /\ readers' =
               [readers EXCEPT ![Len(readers)].len = @ - (o.off - off)]
          /\ Continue(phase, at) \/ Stop("panic")
    BY <1>1, <1>6, Zenon DEF parseBlock
  <2>2. /\ Buffer' /\ Nesting'
        /\ readers' \in Seq(Readers) /\ Len(readers') = Len(readers)
    <3>1. elem.len # Unknown
      BY <1>6, Makeable
    <3> QED BY <1>1, <1>4, <2>1, <3>1, BlockRead, Zenon
  <2>3. CASE Continue(phase, at)
    <3>1. Chain'
      BY <1>2, <1>4, <2>1, <2>2, <2>3, ChainAfter, Zenon
    <3>2. phase' = phase /\ at' = at
      BY <2>3 DEF Continue, ReadNext
    <3>3. /\ phase' \in Phases \cup Ends /\ phase' \notin InHeader
          /\ phase' # "decode"
      BY <1>1, <3>2 DEF Phases, InHeader
    <3>4. Place(phase', at', dec)
      BY <1>2, <3>2, Zenon
    <3>5. Loops'
      BY <1>1, <1>4, <3>3, <3>4, Goes, Zenon
    <3> QED BY <2>2, <3>1, <3>5 DEF Inv, Decoder
  <2>4. CASE Stop("panic")
    <3>1. Chain'
      BY <1>2, <1>4, <2>1, <2>2, <2>4, ChainAfter, Zenon
    <3>2. Loops'
      BY <1>1, <1>3, <1>4, <2>4, Halts, Zenon
    <3> QED BY <2>2, <3>1, <3>2 DEF Inv, Decoder
  <2> QED BY <2>1, <2>3, <2>4
<1> QED BY <1>5, <1>6

-----------------------------------------------------------------------------
(* Together.                                                                *)

LEMMA InvInit == NewMatroska => Inv
<1> SUFFICES ASSUME NewMatroska PROVE Inv
  OBVIOUS
<1>1. PICK n \in 0 .. Len(file.bytes) : bytes = SubSeq(file.bytes, 1, n)
  BY DEF NewMatroska
<1>2. file.bytes \in Seq(Byte)
  BY FilesAssumption DEF NewMatroska, Byte
<1>3. bytes \in Seq(Byte) /\ Len(bytes) \in Nat
  <2>1. 0 \in Nat /\ 0 + 1 = 1
    OBVIOUS
  <2>2. SubSeq(file.bytes, 0 + 1, n) \in Seq(Byte)
    BY <1>2, <2>1, Piece
  <2>3. bytes \in Seq(Byte)
    BY <1>1, <2>1, <2>2, Zenon
  <2> QED BY <2>3, LenProperties
<1>4. /\ src = 0 /\ buffered = <<>> /\ off = 0
      /\ readers = <<Reader(0, Unknown, Unknown)>>
      /\ at = 1 /\ step = "skip" /\ first = 0 /\ id = 0 /\ err = "none"
  BY Zenon DEF NewMatroska, NewReader
<1>5. Buffer
  <2>1. buffered \in Seq(Byte) /\ Len(buffered) = 0
    BY <1>4, EmptySeq, Zenon
  <2>2. /\ src \in 0 .. Len(bytes) /\ off \in Nat
        /\ off + Len(buffered) <= src /\ Len(buffered) <= BufferSize
        /\ src = off + Len(buffered)
    <3>1. 0 \in 0 .. Len(bytes) /\ 0 \in Nat /\ 0 + 0 = 0 /\ 0 <= 0
          /\ 0 <= BufferSize
      BY <1>3, BufferSizeAssumption
    <3> QED BY <1>4, <2>1, <3>1, Zenon
  <2>3. buffered = SubSeq(bytes, off + 1, off + Len(buffered))
    <3>1. off + 1 \in Int /\ off + Len(buffered) \in Int
          /\ off + Len(buffered) < off + 1
      <4>1. 0 + 1 \in Int /\ 0 + 0 \in Int /\ 0 + 0 < 0 + 1
        OBVIOUS
      <4> QED BY <1>4, <2>1, <4>1, Zenon
    <3>2. SubSeq(bytes, off + 1, off + Len(buffered)) = <<>>
      BY <3>1, SubSeqEmpty, Zenon
    <3> QED BY <1>4, <3>2, Zenon
  <2> QED BY <1>3, <2>1, <2>2, <2>3, Zenon DEF Buffer
<1>6. readers \in Seq(Readers) /\ Len(readers) = 1
      /\ readers[1].end = Unknown
  <2>1. PICK d : d = Reader(0, Unknown, Unknown)
    OBVIOUS
  <2>2. d \in Readers /\ d.end = Unknown
    BY <2>1 DEF Reader, Readers, Unknown
  <2>3. readers = <<d>>
    BY <1>4, <2>1, Zenon
  <2> HIDE DEF Readers
  <2> QED BY <2>2, <2>3
<1>7. Chain
  <2>1. at \in 1 .. Len(readers) /\ first \in Byte /\ id \in Nat
    BY <1>4, <1>6 DEF Byte
  <2>2. step = "skip" /\ step \in Steps /\ err \in Errors
    BY <1>4 DEF Steps, Errors
  <2> QED BY <1>6, <2>1, <2>2 DEF Chain
<1>8. Nesting
  <2>1. Ending(readers, off)
    BY <1>6 DEF Ending
  <2> QED BY <2>1 DEF Nesting
<1>9. Loops
  <2>1. /\ phase = "EBML"
        /\ cntNeeded = 0 /\ entries = <<>> /\ satrack = 0 /\ dec = 1
    BY Zenon DEF NewMatroska
  <2>2. entries \in Seq(BOOLEAN) /\ Len(entries) = 0
    BY <2>1, EmptySeq, Zenon
  <2>3. /\ cntNeeded \in 0 .. 2 /\ dec \in 1 .. 2 /\ cntNeeded <= 1
        /\ satrack \in 0 .. Len(entries)
    BY <2>1, <2>2
  <2>4. phase \in Phases \cup Ends /\ Place(phase, at, dec)
    BY <1>4, <2>1 DEF Phases, Place
  <2>5. Undecoded
    BY <2>1 DEF Undecoded
  <2> QED BY <2>1, <2>2, <2>3, <2>4, <2>5 DEF Loops
<1> QED BY <1>5, <1>7, <1>8, <1>9 DEF Inv, Decoder

LEMMA InvNext == Inv /\ [MatroskaNext]_vars => Inv'
<1> SUFFICES ASSUME Inv, [MatroskaNext]_vars PROVE Inv'
  OBVIOUS
<1>1. CASE MatroskaNext
  BY <1>1, DecodingKeeps, ReadHeaderKeeps, ReadSegmentKeeps, ReadLevel1Keeps,
     EndOfStructKeeps, NotMappedKeeps, unmarshalStructKeeps, unmarshalKeeps,
     unmarshalUnknownKeeps, ReadContentKeeps, NoTimestampKeeps,
     ReadTimestampKeeps, EndOfClusterKeeps, InClusterKeeps, ReadBlockKeeps,
     Zenon DEF MatroskaNext, Header, Content
<1>2. CASE UNCHANGED vars
  <2>1. /\ UNCHANGED <<bytes, src, buffered, off, readers, at, step, first, id,
                       err>>
        /\ UNCHANGED headerVars /\ phase' = phase
    BY <1>2, Zenon DEF vars, decoderVars
  <2>2. /\ bytes' = bytes /\ src' = src /\ buffered' = buffered /\ off' = off
        /\ readers' = readers /\ at' = at /\ step' = step /\ first' = first
        /\ id' = id /\ err' = err
    BY <2>1
  <2>3. Buffer' /\ Nesting' /\ Chain'
    BY <2>2, Zenon DEF Inv, Decoder, Buffer, Nesting, Chain, Left
  <2>4. /\ Loops /\ phase \in Phases \cup Ends /\ Place(phase, at, dec)
        /\ Undecoded
    BY Zenon DEF Inv, Loops
  <2>5. Loops'
    BY <2>1, <2>2, <2>4, Goes, Zenon DEF Undecoded
  <2> QED BY <2>3, <2>5 DEF Inv, Decoder
<1> QED BY <1>1, <1>2

\* Every value is one of its type; the track that is selected is one that was
\* decoded, and the buffer is never overfull.
THEOREM TypeOKAlways == Spec => []TypeOK
<1>1. ASSUME Inv PROVE TypeOK
  <2>1. Buffer /\ Chain /\ Loops
    BY <1>1 DEF Inv, Decoder
  <2>2. /\ Len(bytes) \in Nat /\ Len(buffered) \in Nat /\ off \in Nat
        /\ src \in Nat /\ off + Len(buffered) <= src
    BY <2>1, Numbers
  <2>3. /\ src \in 0 .. Len(bytes) /\ Len(buffered) <= BufferSize
    BY <2>1, Zenon DEF Buffer
  <2>4. off \in 0 .. Len(bytes)
    BY <2>2, <2>3
  <2>5. /\ at \in 1 .. Len(readers) /\ first \in Byte /\ err \in Errors
        /\ step \in Steps /\ readers \in Seq(Readers)
    BY <2>1, ChainIs
  <2>6. \A i \in DOMAIN readers : readers[i].len >= -1
    BY <2>5, ReaderIs
  <2>7. DecoderTypeOK
    BY <2>3, <2>4, <2>5, <2>6 DEF DecoderTypeOK, Byte, Errors, Steps
  <2> QED BY <2>1, <2>7, Zenon DEF Loops, TypeOK
<1> QED BY <1>1, InvInit, InvNext, PTL DEF Spec

\* However much the source gives at a time, and whether it is read or skipped,
\* the decoder never loses its place among the bytes of the file.
THEOREM InStepAlways == Spec => []InStep
<1>1. ASSUME Inv PROVE InStep
  <2>1. Buffer
    BY <1>1 DEF Inv, Decoder
  <2>2. /\ buffered = SubSeq(bytes, off + 1, off + Len(buffered))
        /\ src < Len(bytes) => src = off + Len(buffered)
    BY <2>1, Zenon DEF Buffer
  <2>3. Left > 0 => src < Len(bytes)
    BY <2>1, Numbers
  <2> QED BY <2>2, <2>3, Zenon DEF InStep
<1> QED BY <1>1, InvInit, InvNext, PTL DEF Spec

\* As long as the source has not ended, each element whose end can be told ends
\* where its size says, whatever is in the file.
THEOREM NestedAlways == Spec => []Nested
<1>1. ASSUME Inv PROVE Nested
  <2>1. readers \in Seq(Readers)
    BY <1>1, ChainIs DEF Inv, Decoder
  <2> SUFFICES ASSUME Left > 0, NEW i \in DOMAIN readers,
                      readers[i].end # Unknown
               PROVE  off + readers[i].len + Below(i) = readers[i].end
    BY DEF Nested
  <2>2. Ending(readers, off)
    BY <1>1 DEF Inv, Decoder, Nesting
  <2>3. off \in Int
    BY <1>1, Numbers DEF Inv, Decoder
  <2>4. i \in 1 .. Len(readers)
    BY <2>1
  <2>5. readers[i].end =
          off + readers[i].len + LeftIn(readers, i)[Len(readers)]
    BY <2>1, <2>2, <2>3, <2>4, EndIs
  <2> QED BY <2>5, Zenon DEF Below
<1> QED BY <1>1, InvInit, InvNext, PTL DEF Spec

-----------------------------------------------------------------------------
(* What is read is what is there.                                           *)

LEMMA BufferReads ==
  ASSUME Buffer, NEW n \in 0 .. Len(buffered)
  PROVE  /\ FromBuffer(n).b = SubSeq(bytes, off + 1, off + n)
         /\ off + n <= Len(bytes)
<1>1. /\ Len(buffered) \in Nat /\ off \in Nat /\ src \in Nat
      /\ Len(bytes) \in Nat /\ bytes \in Seq(Byte)
      /\ off + Len(buffered) <= src /\ src <= Len(bytes)
  BY Numbers DEF Buffer
<1>2. buffered = SubSeq(bytes, off + 1, off + Len(buffered))
  BY DEF Buffer
<1>3. PICK c \in off .. Len(bytes) : c = off + Len(buffered)
  BY <1>1
<1>4. 0 \in 0 .. c - off /\ n \in 0 .. c - off
  BY <1>1, <1>3
<1>5. SubSeq(SubSeq(bytes, off + 1, c), 0 + 1, n)
        = SubSeq(bytes, off + 0 + 1, off + n)
  BY <1>1, <1>3, <1>4, PieceOfPiece
<1>6. off + 0 + 1 = off + 1 /\ 0 + 1 = 1
  BY <1>1
<1>7. SubSeq(buffered, 1, n) = SubSeq(bytes, off + 1, off + n)
  BY <1>2, <1>3, <1>5, <1>6, Zenon
<1>8. FromBuffer(n).b = SubSeq(buffered, 1, n)
  BY DEF FromBuffer, Outcome
<1> QED BY <1>1, <1>7, <1>8

LEMMA NextBytes ==
  ASSUME Buffer, NEW n \in Nat, NEW o \in Next(n), o.err = "none"
  PROVE  o.b = SubSeq(bytes, off + 1, off + n) /\ off + n <= Len(bytes)
<1> DEFINE p == n - Len(buffered)
<1>1. /\ BufferSize \in Nat /\ Len(buffered) \in Nat /\ src \in Nat
      /\ off \in Nat /\ Left \in Nat /\ Len(buffered) <= BufferSize
      /\ Len(bytes) \in Nat /\ Left = Len(bytes) - src
      /\ (src < Len(bytes) => src = off + Len(buffered))
      /\ bytes \in Seq(Byte)
  BY Numbers DEF Buffer
<1>2. ~(n > BufferSize) /\ (p <= 0 \/ ~(Left < p))
  <2>1. CASE n > BufferSize
    <3>1. o = Outcome("too small", src, buffered, off, <<>>)
      BY <2>1 DEF Next
    <3> QED BY <3>1 DEF Outcome
  <2>2. CASE ~(n > BufferSize) /\ ~(p <= 0) /\ Left < p
    <3>1. o = Outcome(EndOfSource(0), Len(bytes), buffered, off, <<>>)
      BY <2>2 DEF Next
    <3> QED BY <3>1 DEF Outcome, EndOfSource
  <2> QED BY <2>1, <2>2
<1>3. CASE p <= 0
  <2>1. o = FromBuffer(n)
    BY <1>2, <1>3 DEF Next
  <2>2. n \in 0 .. Len(buffered)
    BY <1>1, <1>3
  <2> QED BY <2>1, <2>2, BufferReads
<1>4. CASE ~(p <= 0)
  <2>1. PICK k \in Given(p, BufferSize - Len(buffered)) :
          o = LET have == buffered \o SubSeq(bytes, src + 1, src + k)
              IN  Outcome("none", src + k, SubSeq(have, n + 1, Len(have)),
                          off + n, SubSeq(have, 1, n))
    BY <1>2, <1>4 DEF Next
  <2>2. PICK room \in Nat : room = BufferSize - Len(buffered)
    BY <1>1
  <2>3. p \in Nat /\ p > 0 /\ p <= room /\ p <= Left
    BY <1>1, <1>2, <1>4, <2>2
  <2>4. k \in p .. room /\ k \in 0 .. Left
    <3> HIDE DEF p
    <3> QED BY <2>1, <2>2, <2>3, GivenIs
  <2>5. src < Len(bytes) /\ src = off + Len(buffered)
    BY <1>1, <2>3
  <2> DEFINE have == buffered \o SubSeq(bytes, src + 1, src + k)
  <2>6. have = SubSeq(bytes, off + 1, off + Len(buffered) + k)
    BY <2>4, <2>5, Have
  <2>7. o.b = SubSeq(have, 1, n)
    BY <2>1 DEF Outcome
  <2> HIDE DEF have
  <2>8. PICK c \in off .. Len(bytes) : c = off + Len(buffered) + k
    BY <1>1, <2>4, <2>5
  <2>9. 0 \in 0 .. c - off /\ n \in 0 .. c - off /\ off + n <= Len(bytes)
    BY <1>1, <2>3, <2>4, <2>8, SMTT(40)
  <2>10. SubSeq(SubSeq(bytes, off + 1, c), 0 + 1, n)
           = SubSeq(bytes, off + 0 + 1, off + n)
    BY <1>1, <2>8, <2>9, PieceOfPiece, SMTT(40)
  <2>11. off + 0 + 1 = off + 1 /\ 0 + 1 = 1
    BY <1>1
  <2>12. SubSeq(have, 1, n) = SubSeq(bytes, off + 1, off + n)
    BY <2>6, <2>8, <2>10, <2>11, Zenon
  <2> QED BY <2>7, <2>9, <2>12
<1> QED BY <1>3, <1>4

LEMMA ReaderNextBytes ==
  ASSUME Buffer, NEW n \in Nat, NEW r, NEW o \in next(r, n), o.err = "none"
  PROVE  o.b = SubSeq(bytes, off + 1, off + n) /\ off + n <= Len(bytes)
<1>1. CASE r.len = 0
  BY <1>1 DEF next, Outcome
<1>2. CASE r.len # 0 /\ 0 <= r.len /\ r.len < n
  BY <1>2 DEF next, Outcome
<1>3. CASE r.len # 0 /\ ~(0 <= r.len /\ r.len < n)
  <2>1. o \in Next(n)
    BY <1>3 DEF next
  <2> QED BY <2>1, NextBytes
<1> QED BY <1>1, <1>2, <1>3

LEMMA ReadBytes ==
  ASSUME Buffer, NEW n \in Nat, NEW o \in Read(n), o.err = "none"
  PROVE  o.b = SubSeq(bytes, off + 1, off + n) /\ off + n <= Len(bytes)
<1> DEFINE m == n - Len(buffered)
<1>1. /\ BufferSize \in Nat /\ Len(buffered) \in Nat /\ src \in Nat
      /\ off \in Nat /\ Left \in Nat
      /\ Len(bytes) \in Nat /\ Left = Len(bytes) - src
      /\ (src < Len(bytes) => src = off + Len(buffered))
  BY Numbers DEF Buffer
<1>2. CASE m <= 0
  <2>1. o = FromBuffer(n)
    BY <1>2 DEF Read
  <2>2. n \in 0 .. Len(buffered)
    BY <1>1, <1>2
  <2> QED BY <2>1, <2>2, BufferReads
<1>3. CASE ~(m <= 0) /\ Left < m
  <2>1. o.err = EndOfSource(0)
    BY <1>3 DEF Read, Outcome
  <2> QED BY <2>1 DEF EndOfSource
<1>4. CASE ~(m <= 0) /\ ~(Left < m)
  <2>1. PICK k \in IF m > BufferSize THEN {m} ELSE Given(m, BufferSize) :
          o = Outcome("none", src + k, SubSeq(bytes, src + m + 1, src + k),
                      off + n, buffered \o SubSeq(bytes, src + 1, src + m))
    BY <1>4 DEF Read
  <2>5. o.b = buffered \o SubSeq(bytes, src + 1, src + m)
    BY <2>1 DEF Outcome
  <2>2. m \in 0 .. Left /\ src < Len(bytes) /\ src = off + Len(buffered)
    BY <1>1, <1>4
  <2>3. off + Len(buffered) + m = off + n /\ off + n <= Len(bytes)
    BY <1>1, <2>2
  <2> HIDE DEF m
  <2>4. buffered \o SubSeq(bytes, src + 1, src + m) =
          SubSeq(bytes, off + 1, off + Len(buffered) + m)
    BY <2>2, Have
  <2> QED BY <2>3, <2>4, <2>5
<1> QED BY <1>2, <1>3, <1>4

\* Before the source has ended, reading fails only where too little is left.
LEMMA NextFails ==
  ASSUME Buffer, src = off + Len(buffered), NEW n \in 0 .. BufferSize,
         NEW o \in Next(n), o.err # "none"
  PROVE  /\ Len(bytes) < off + n /\ o.off = off /\ o.src = Len(bytes)
         /\ o.buffered = buffered /\ Len(buffered) < n
         /\ o.err = IF Left = 0 THEN "EOF" ELSE "unexpected"
<1> DEFINE p == n - Len(buffered)
<1>1. /\ BufferSize \in Nat /\ Len(buffered) \in Nat /\ src \in Nat
      /\ off \in Nat /\ Left \in Nat
      /\ Len(bytes) \in Nat /\ Left = Len(bytes) - src
  BY Numbers
<1>2. ~(p <= 0) /\ Left < p /\ ~(n > BufferSize)
  <2>0. ~(n > BufferSize)
    BY <1>1
  <2>1. CASE p <= 0
    <3>1. o = FromBuffer(n)
      BY <2>0, <2>1 DEF Next
    <3> QED BY <3>1 DEF FromBuffer, Outcome
  <2>2. CASE ~(p <= 0) /\ ~(Left < p)
    <3>1. PICK k \in Given(p, BufferSize - Len(buffered)) :
            o = LET have == buffered \o SubSeq(bytes, src + 1, src + k)
                IN  Outcome("none", src + k, SubSeq(have, n + 1, Len(have)),
                            off + n, SubSeq(have, 1, n))
      BY <2>0, <2>2 DEF Next
    <3> QED BY <3>1 DEF Outcome
  <2> QED BY <2>0, <2>1, <2>2
<1>3. o = Outcome(EndOfSource(0), Len(bytes), buffered, off, <<>>)
  BY <1>2 DEF Next
<1>4. Len(bytes) < off + n /\ Len(buffered) < n
  BY <1>1, <1>2
<1> QED BY <1>3, <1>4 DEF Outcome, EndOfSource

-----------------------------------------------------------------------------
(* Where in the bytes the reader is.                                        *)

\* An id starts with few zeros.
LEMMA MoreOfId == ASSUME NEW b \in Nat, b >= 16 PROVE More(b) \in 0 .. 3
<1> DEFINE zeros == {k \in 0 .. 7 : b < 2 ^ k}
<1>1. /\ 2 ^ 0 = 1 /\ 2 ^ 1 = 2 /\ 2 ^ 2 = 4 /\ 2 ^ 3 = 8 /\ 2 ^ 4 = 16
  OBVIOUS
<1>2. ASSUME NEW k \in 0 .. 7, b < 2 ^ k PROVE k \in 5 .. 7
  <2>1. SUFFICES ASSUME k \notin 5 .. 7 PROVE FALSE
    OBVIOUS
  <2>2. k = 0 \/ k = 1 \/ k = 2 \/ k = 3 \/ k = 4
    BY <2>1
  <2>3. PICK c \in {1, 2, 4, 8, 16} : c = 2 ^ k
    BY <1>1, <2>2, ZenonT(60)
  <2>4. b < c
    BY <1>2, <2>3, Zenon
  <2> QED BY <2>4
<1>3. zeros \subseteq 5 .. 7
  BY <1>2
<1> HIDE DEF zeros
<1>4. IsFiniteSet(5 .. 7) /\ Cardinality(5 .. 7) = 3
  <2>1. 5 \in Int /\ 7 \in Int /\ 7 - 5 + 1 = 3 /\ ~(5 > 7)
    OBVIOUS
  <2> QED BY <2>1, FS_Interval
<1>5. IsFiniteSet(zeros) /\ Cardinality(zeros) <= 3
  BY <1>3, <1>4, FS_Subset
<1>6. Cardinality(zeros) \in Nat
  BY <1>5, FS_CardinalityType
<1>7. Cardinality(zeros) \in 0 .. 3
  BY <1>5, <1>6
<1> QED BY <1>7 DEF More, zeros

\* A byte, and how many go with it.
LEMMA ByteAt ==
  ASSUME NEW b \in Seq(Byte), NEW p \in Nat, p < Len(b)
  PROVE  /\ b[p + 1] \in Byte /\ b[p + 1] \in Nat
         /\ More(b[p + 1]) \in 0 .. 8 /\ More(b[p + 1]) \in Nat
         /\ After(b, p) = p + 1 + More(b[p + 1])
         /\ After(b, p) \in Nat /\ p < After(b, p)
         /\ b[p + 1] >= 16 => More(b[p + 1]) \in 0 .. 3
<1>1. p + 1 \in 1 .. Len(b)
  OBVIOUS
<1>2. b[p + 1] \in Byte
  BY <1>1
<1>3. b[p + 1] \in Nat
  <2>1. \A x \in Byte : x \in Nat
    BY DEF Byte
  <2> QED BY <1>2, <2>1, Zenon
<1>4. PICK x : x = b[p + 1]
  OBVIOUS
<1>5. More(x) \in 0 .. 8 /\ (x >= 16 => More(x) \in 0 .. 3)
  BY <1>3, <1>4, MoreBytes, MoreOfId
<1>6. /\ More(x) \in Nat /\ p + 1 + More(x) \in Nat
      /\ p < p + 1 + More(x)
  BY <1>5
<1> QED BY <1>2, <1>3, <1>4, <1>5, <1>6 DEF After

\* What a number of n bytes from p on is.
LEMMA NumberIs ==
  ASSUME NEW b \in Seq(Byte), NEW p \in Nat, NEW n \in Nat, p + n <= Len(b),
         NEW high \in Nat
  PROVE  /\ NumberAt(b, p, n, high) \in Nat
         /\ n = 0 => NumberAt(b, p, n, high) = high
         /\ SubSeq(b, p + 1, p + n) \in Seq(Byte)
         /\ Len(SubSeq(b, p + 1, p + n)) = n
<1>1. PICK c \in p .. Len(b) : c = p + n
  OBVIOUS
<1>2. SubSeq(b, p + 1, c) \in Seq(Byte) /\ Len(SubSeq(b, p + 1, c)) = c - p
  BY Piece
<1>3. PICK s \in Seq(Byte) : s = SubSeq(b, p + 1, p + n)
  BY <1>1, <1>2
<1>4. n \in 0 .. Len(s)
  BY <1>1, <1>2, <1>3
<1>5. /\ BigEndian(s, high)[n] \in Nat
      /\ n = 0 => BigEndian(s, high)[n] = high
  BY <1>4, BigEndianIs
<1>6. NumberAt(b, p, n, high) = BigEndian(s, high)[n]
  BY <1>3 DEF NumberAt
<1>7. Len(s) = n
  BY <1>1, <1>2, <1>3
<1> QED BY <1>3, <1>5, <1>6, <1>7

\* It is no less than what its first byte gives.
LEMMA NumberAtLeast ==
  ASSUME NEW b \in Seq(Byte), NEW p \in Nat, NEW n \in Nat, p + n <= Len(b),
         NEW high \in Nat
  PROVE  NumberAt(b, p, n, high) >= high
<1>1. PICK c \in p .. Len(b) : c = p + n
  OBVIOUS
<1>2. SubSeq(b, p + 1, c) \in Seq(Byte) /\ Len(SubSeq(b, p + 1, c)) = c - p
  BY Piece
<1>3. PICK s \in Seq(Byte) : s = SubSeq(b, p + 1, p + n)
  BY <1>1, <1>2
<1>4. n \in 0 .. Len(s)
  BY <1>1, <1>2, <1>3
<1>5. BigEndian(s, high)[n] >= high
  BY <1>4, BigEndianIs
<1>6. NumberAt(b, p, n, high) = BigEndian(s, high)[n]
  BY <1>3 DEF NumberAt
<1> QED BY <1>5, <1>6, Zenon

\* What is left of the first byte of a size.
LEMMA HighIs ==
  ASSUME NEW x \in Byte, NEW n \in 0 .. 7
  PROVE  (x % 2 ^ (7 - n)) \in Nat
<1>1. x \in Nat
  BY DEF Byte
<1>2. PICK b \in Nat \ {0} : b = 2 ^ (7 - n)
  <2>1. CASE n = 0
    <3>1. 2 ^ 7 = 128
      OBVIOUS
    <3>2. 7 - n = 7
      BY <2>1
    <3>3. 2 ^ (7 - n) = 128
      BY <3>1, <3>2, Zenon
    <3> QED BY <3>3
  <2>2. CASE n # 0
    <3>1. n \in 1 .. 7
      BY <2>2
    <3> QED BY <3>1, Powers, Zenon
  <2> QED BY <2>1, <2>2
<1>3. (x % b) \in Nat
  BY <1>1, <1>2, DivMod
<1> QED BY <1>2, <1>3, Zenon

LEMMA SizeIs ==
  ASSUME NEW b \in Seq(Byte), NEW p \in Nat, HasSize(b, p)
  PROVE  SizeAt(b, p) \in Nat \cup {Unknown}
<1> DEFINE n == More(b[p + 1])
           high == b[p + 1] % 2 ^ (7 - n)
<1>1. p < Len(b) /\ n < 8 /\ p + n < Len(b)
  BY DEF HasSize
<1>2. n \in 0 .. 8 /\ b[p + 1] \in Byte
  BY <1>1, ByteAt
<1> HIDE DEF n
<1>3. n \in 0 .. 7 /\ n \in Nat /\ p + 1 \in Nat /\ p + 1 + n <= Len(b)
  BY <1>1, <1>2
<1>4. high \in Nat
  BY <1>2, <1>3, HighIs
<1> HIDE DEF high
<1>5. NumberAt(b, p + 1, n, high) \in Nat
  BY <1>3, <1>4, NumberIs
<1>6. SizeAt(b, p) = Unknown \/ SizeAt(b, p) = NumberAt(b, p + 1, n, high)
  BY Zenon DEF SizeAt, n, high
<1> QED BY <1>5, <1>6

\* Where the parts of an element are.
LEMMA BeginsIs ==
  ASSUME NEW b \in Seq(Byte), NEW p \in Nat, Begins(b, p)
  PROVE  /\ p < Len(b) /\ b[p + 1] >= 16
         /\ After(b, p) \in Nat /\ After(b, p) < Len(b)
         /\ IdAt(b, p) \in Nat /\ IdAt(b, p) >= 16
         /\ LenAt(b, p) \in Nat \cup {Unknown} /\ LenAt(b, p) \in Int
         /\ LenAt(b, p) # Unknown => LenAt(b, p) \in Nat
         /\ BodyAt(b, p) \in Nat /\ BodyAt(b, p) <= Len(b)
         /\ BodyAt(b, p) - p \in 2 .. 12
<1>1. HasId(b, p) /\ HasSize(b, After(b, p))
  BY DEF Begins
<1>2. /\ p < Len(b) /\ b[p + 1] >= 16 /\ p + More(b[p + 1]) < Len(b)
  BY <1>1 DEF HasId
<1>3. PICK q : q = After(b, p)
  OBVIOUS
<1>4. /\ More(b[p + 1]) \in 0 .. 3 /\ More(b[p + 1]) \in Nat
      /\ q = p + 1 + More(b[p + 1]) /\ q \in Nat /\ b[p + 1] \in Nat
  BY <1>2, <1>3, ByteAt
<1>5. q < Len(b) /\ More(b[q + 1]) < 8 /\ q + More(b[q + 1]) < Len(b)
  BY <1>1, <1>3 DEF HasSize
<1>6. More(b[q + 1]) \in 0 .. 8 /\ After(b, q) = q + 1 + More(b[q + 1])
  BY <1>4, <1>5, ByteAt
<1>7. BodyAt(b, p) = q + 1 + More(b[q + 1])
  BY <1>3, <1>6 DEF BodyAt
<1>8. LenAt(b, p) \in Nat \cup {Unknown}
  BY <1>1, <1>3, <1>4, SizeIs DEF LenAt
<1>9. IdAt(b, p) \in Nat /\ IdAt(b, p) >= 16
  <2>1. p + 1 \in Nat /\ p + 1 + More(b[p + 1]) <= Len(b)
    BY <1>2, <1>4
  <2>2. IdAt(b, p) \in Nat /\ IdAt(b, p) >= b[p + 1]
    BY <1>4, <2>1, NumberIs, NumberAtLeast DEF IdAt
  <2> QED BY <1>2, <1>4, <2>2
<1>10. /\ BodyAt(b, p) \in Nat /\ BodyAt(b, p) <= Len(b)
       /\ BodyAt(b, p) - p \in 2 .. 12
  <2>1. PICK m \in 0 .. 3 : m = More(b[p + 1])
    BY <1>4
  <2>2. PICK k \in 0 .. 8 : k = More(b[q + 1])
    BY <1>6
  <2>3. q = p + 1 + m /\ q \in Nat /\ k < 8 /\ q + k < Len(b)
    BY <1>4, <1>5, <2>1, <2>2
  <2>4. /\ q + 1 + k \in Nat /\ q + 1 + k <= Len(b)
        /\ (q + 1 + k) - p \in 2 .. 12
    BY <2>3
  <2> QED BY <1>7, <2>2, <2>4
<1>11. /\ LenAt(b, p) \in Int
       /\ LenAt(b, p) # Unknown => LenAt(b, p) \in Nat
  BY <1>8 DEF Unknown
<1>12. After(b, p) \in Nat /\ After(b, p) < Len(b)
  BY <1>3, <1>4, <1>5, Zenon
<1> QED BY <1>2, <1>8, <1>9, <1>10, <1>11, <1>12, Zenon

\* The Reader of the element at p.
ReaderOf(r, b, p) ==
  /\ r.id = IdAt(b, p) /\ r.len = LenAt(b, p)
  /\ r.end = IF LenAt(b, p) = Unknown THEN Unknown
             ELSE BodyAt(b, p) + LenAt(b, p)

\* The element that is read begins at p.
Marks(p) ==
  /\ p \in Nat /\ p < Len(bytes) /\ bytes[p + 1] >= 16
  /\ step = "id rest" => off = p + 1 /\ first = bytes[p + 1]
  /\ step \in {"size", "size rest", "element"} =>
       HasId(bytes, p) /\ id = IdAt(bytes, p)
  /\ step = "size" => off = After(bytes, p)
  /\ step = "size rest" => off = After(bytes, p) + 1 /\ first = bytes[off]
  /\ step = "element" =>
       /\ Begins(bytes, p) /\ off = BodyAt(bytes, p)
       /\ ReaderOf(readers[Len(readers)], bytes, p)

InElement == {"id rest", "size", "size rest", "element"}

PastBlocks(p) ==
  Blocks # <<>> =>
    Blocks[Len(Blocks)].place + Blocks[Len(Blocks)].size <= p

Somewhere ==
  /\ PastBlocks(off)
  /\ phase \in Phases /\ step \in InElement =>
       \E p \in 0 .. Len(bytes) : Marks(p) /\ PastBlocks(p)

Structs == phase = "decode" => \A i \in 3 .. at : readers[i].id \in StructIds

\* The start: nothing has failed yet.
Starting ==
  phase \in {"EBML", "Segment"} =>
    /\ readers[1].len = Unknown
    /\ step # "error" => src = off + Len(buffered)
    /\ step = "error" /\ id = Matroska_Segment =>
         \E p \in 0 .. Len(bytes) - 1 :
           /\ HasId(bytes, p) /\ IdAt(bytes, p) = Matroska_Segment
           /\ ~HasSize(bytes, After(bytes, p))
           /\ off - After(bytes, p) \in {0, 1}

Small == step \in {"id", "id rest"} => id \in Byte
Stopped == phase \in Ends => step \in {"element", "error"}

LEMMA MoreOfFull == ASSUME NEW b \in Nat, More(b) = 0 PROVE b >= 128
<1> DEFINE zeros == {k \in 0 .. 7 : b < 2 ^ k}
<1>1. zeros \subseteq 0 .. 7
  OBVIOUS
<1>2. IsFiniteSet(0 .. 7)
  <2>1. 0 \in Int /\ 7 \in Int
    OBVIOUS
  <2> QED BY <2>1, FS_Interval
<1>3. IsFiniteSet(zeros) /\ Cardinality(zeros) = 0
  <2>1. Cardinality(zeros) = 0
    BY DEF More
  <2> HIDE DEF zeros
  <2> QED BY <1>1, <1>2, <2>1, FS_Subset
<1>4. zeros = {}
  <2> HIDE DEF zeros
  <2> QED BY <1>3, FS_EmptySet
<1>5. 2 ^ 7 = 128 /\ 7 \in 0 .. 7
  OBVIOUS
<1>6. ~(b < 2 ^ 7)
  BY <1>4, <1>5, Zenon
<1> QED BY <1>5, <1>6

\* What a call of Reader.next returns, in the bytes.
LEMMA BytesRead ==
  ASSUME Buffer, Chain, Len(readers) = at, NEW n \in 0 .. 8,
         NEW o \in next(readers[at], n), Takes(o), o.err = "none"
  PROVE  /\ o.b = SubSeq(bytes, off + 1, off + n) /\ off + n <= Len(bytes)
         /\ off' = off + n /\ off \in Nat /\ off' \in Nat
         /\ bytes \in Seq(Byte) /\ Len(bytes) \in Nat
         /\ o.b \in Seq(Byte) /\ Len(o.b) = n
         /\ \A i \in 1 .. n : o.b[i] = bytes[off + i]
<1>1. off \in Nat /\ bytes \in Seq(Byte) /\ Len(bytes) \in Nat
  BY Numbers DEF Buffer
<1>2. n \in Nat /\ at \in 1 .. Len(readers) /\ readers \in Seq(Readers)
  BY ChainIs
<1>3. readers[at].len \in Int /\ readers[at].len >= -1
  BY <1>2, ReaderIs
<1>4. Leaves(o, n) /\ Returns(o, n)
  BY <1>2, <1>3, ReaderNextLeaves
<1>5. o.b = SubSeq(bytes, off + 1, off + n) /\ off + n <= Len(bytes)
  BY <1>2, ReaderNextBytes
<1>6. off' = off + n
  BY <1>4 DEF Leaves, Takes
<1>7. o.b \in Seq(Byte) /\ Len(o.b) = n
  BY <1>4 DEF Returns
<1>8. ASSUME NEW i \in 1 .. n PROVE o.b[i] = bytes[off + i]
  <2>1. off + 1 \in Int /\ off + n \in Int
    BY <1>1, <1>2
  <2>2. PICK c \in off .. Len(bytes) : c = off + n
    BY <1>1, <1>2, <1>5
  <2>3. i \in 1 .. c - off
    BY <1>1, <2>2
  <2>4. SubSeq(bytes, off + 1, c)[i] = bytes[off + i]
    BY <1>1, <2>2, <2>3
  <2> QED BY <1>5, <2>2, <2>4
<1>9. off' \in Nat
  BY <1>1, <1>2, <1>6
<1> QED BY <1>1, <1>5, <1>6, <1>7, <1>8, <1>9

LEMMA MarkId ==
  ASSUME Buffer, Chain, readID, step' \in InElement, NEW p, p = off
  PROVE  Marks(p)'
<1>1. PICK o \in next(readers[at], 1) :
        /\ Takes(o)
        /\ \/ Lost(o, 1)
           \/ /\ Gets(o, 1)
              /\ step' = IF o.b[1] < 16 THEN "id"
                         ELSE IF More(o.b[1]) = 0 THEN "size" ELSE "id rest"
              /\ first' = o.b[1] /\ id' = o.b[1]
              /\ UNCHANGED err
  BY DEF readID
<1>2. bytes' = bytes /\ step = "id"
  BY DEF readID
<1>3. Len(readers) = at /\ 1 \in 0 .. 8
  BY <1>2 DEF Chain
<1>4. step' # "error" /\ step' # "id"
  BY DEF InElement
<1>5. /\ o.err = "none" /\ first' = o.b[1] /\ id' = o.b[1]
      /\ step' = IF o.b[1] < 16 THEN "id"
                 ELSE IF More(o.b[1]) = 0 THEN "size" ELSE "id rest"
  BY <1>1, <1>4 DEF Lost, Fails, Gets
<1>6. /\ off + 1 <= Len(bytes) /\ off' = off + 1 /\ off \in Nat
      /\ bytes \in Seq(Byte) /\ Len(bytes) \in Nat
      /\ \A i \in 1 .. 1 : o.b[i] = bytes[off + i]
  BY <1>1, <1>3, <1>5, BytesRead
<1>7. p \in Nat /\ p < Len(bytes) /\ o.b[1] = bytes[p + 1]
  BY <1>6
<1>8. /\ bytes[p + 1] \in Nat /\ More(bytes[p + 1]) \in 0 .. 8
      /\ After(bytes, p) = p + 1 + More(bytes[p + 1])
  BY <1>6, <1>7, ByteAt
<1>9. bytes[p + 1] >= 16
  <2>1. ~(o.b[1] < 16)
    BY <1>4, <1>5, Zenon
  <2>2. PICK x \in Nat : x = bytes[p + 1]
    BY <1>8
  <2>3. ~(x < 16)
    BY <1>7, <2>1, <2>2, Zenon
  <2>4. x >= 16
    BY <2>3
  <2> QED BY <2>2, <2>4, Zenon
<1>10. CASE More(bytes[p + 1]) = 0
  <2>1. step' = "size"
    BY <1>4, <1>5, <1>7, <1>10
  <2>2. HasId(bytes, p)
    BY <1>7, <1>9, <1>10 DEF HasId
  <2>3. id' = IdAt(bytes, p)
    <3>1. p + 1 \in Nat /\ p + 1 + 0 <= Len(bytes) /\ 0 \in Nat
      BY <1>6, <1>7
    <3>2. NumberAt(bytes, p + 1, 0, bytes[p + 1]) = bytes[p + 1]
      BY <1>6, <1>8, <3>1, NumberIs, ZenonT(60)
    <3> QED BY <1>5, <1>7, <1>10, <3>2 DEF IdAt
  <2>4. off' = After(bytes, p)
    BY <1>6, <1>7, <1>8, <1>10
  <2> QED BY <1>2, <1>7, <1>9, <2>1, <2>2, <2>3, <2>4 DEF Marks
<1>11. CASE More(bytes[p + 1]) # 0
  <2>1. step' = "id rest"
    BY <1>4, <1>5, <1>7, <1>11
  <2>2. off' = p + 1 /\ first' = bytes[p + 1]
    BY <1>5, <1>6, <1>7
  <2> QED BY <1>2, <1>7, <1>9, <2>1, <2>2 DEF Marks
<1> QED BY <1>10, <1>11

LEMMA MarkIdRest ==
  ASSUME Buffer, Chain, readIDRest, step' \in InElement, NEW p, Marks(p)
  PROVE  Marks(p)'
<1> DEFINE n == More(first)
<1>1. PICK o \in next(readers[at], n) :
        /\ Takes(o)
        /\ \/ Lost(o, n)
           \/ /\ Gets(o, n) /\ step' = "size"
              /\ id' = BigEndian(o.b, first)[n]
              /\ UNCHANGED <<first, err>>
  BY DEF readIDRest
<1>2. bytes' = bytes /\ step = "id rest"
  BY DEF readIDRest
<1>3. Len(readers) = at /\ n \in 0 .. 8
  BY <1>2, MoreBytes DEF Chain
<1> HIDE DEF n
<1>4. /\ o.err = "none" /\ step' = "size"
      /\ id' = BigEndian(o.b, first)[n]
  BY <1>1 DEF Lost, Fails, InElement, Gets
<1>5. /\ p \in Nat /\ p < Len(bytes) /\ bytes[p + 1] >= 16
      /\ off = p + 1 /\ first = bytes[p + 1]
  BY <1>2 DEF Marks
<1>6. /\ o.b = SubSeq(bytes, off + 1, off + n) /\ off + n <= Len(bytes)
      /\ off' = off + n /\ bytes \in Seq(Byte) /\ Len(bytes) \in Nat
  BY <1>1, <1>3, <1>4, BytesRead
<1>7. /\ After(bytes, p) = p + 1 + More(bytes[p + 1])
      /\ n = More(bytes[p + 1])
  BY <1>5, <1>6, ByteAt DEF n
<1>8. HasId(bytes, p)
  <2>1. p + n < Len(bytes)
    BY <1>3, <1>5, <1>6
  <2> QED BY <1>5, <1>7, <2>1 DEF HasId
<1>9. id' = IdAt(bytes, p)
  BY <1>4, <1>5, <1>6, <1>7, Zenon DEF IdAt, NumberAt
<1>10. off' = After(bytes, p)
  BY <1>5, <1>6, <1>7
<1> QED BY <1>2, <1>4, <1>5, <1>8, <1>9, <1>10 DEF Marks

\* The Reader of an element that is opened is the last one.
LEMMA UnknownOpened ==
  ASSUME Chain, NEW r \in Readers, OpenUnknown(r)
  PROVE  /\ step' = "element" /\ err' = err
         /\ readers' = Append(Astray([readers EXCEPT ![at] = r]),
                              Reader(id, Unknown, Unknown))
         /\ readers' \in Seq(Readers) /\ Len(readers') = Len(readers) + 1
         /\ readers'[Len(readers')] = Reader(id, Unknown, Unknown)
<1> DEFINE c == [readers EXCEPT ![at] = r]
           d == Reader(id, Unknown, Unknown)
<1>1. readers \in Seq(Readers) /\ at \in 1 .. Len(readers) /\ id \in Nat
  BY ChainIs
<1>2. /\ step' = "element" /\ err' = err /\ readers' = Append(Astray(c), d)
  BY Zenon DEF OpenUnknown
<1>3. d \in Readers
  BY <1>1 DEF Readers, Reader, Unknown
<1>4. c \in Seq(Readers) /\ Len(c) = Len(readers)
  BY <1>1, Replaced
<1> HIDE DEF c, d
<1>5. Astray(c) \in Seq(Readers) /\ Len(Astray(c)) = Len(readers)
  BY <1>4, AstrayEnds
<1>6. PICK a \in Seq(Readers) : a = Astray(c)
  BY <1>5
<1>7. /\ Append(a, d) \in Seq(Readers) /\ Len(Append(a, d)) = Len(a) + 1
      /\ Append(a, d)[Len(a) + 1] = d
  <2> HIDE DEF Readers
  <2> QED BY <1>3, <1>6
<1>8. /\ readers' \in Seq(Readers) /\ Len(readers') = Len(readers) + 1
      /\ readers'[Len(readers')] = d
  BY <1>2, <1>5, <1>6, <1>7, Zenon
<1> QED BY <1>2, <1>8 DEF c, d

LEMMA ElementOpened ==
  ASSUME Buffer, Chain, Len(readers) = at, NEW r \in Readers,
         NEW size \in Nat, NEW e \in Nat, off' = e,
         OpenElement(r, size), step' # "error"
  PROVE  /\ step' = "element" /\ err' = err
         /\ ~(r.len >= 0 /\ r.len < size)
         /\ readers' = Append([readers EXCEPT ![at] = Used(r, size)],
                              Reader(id, size, e + size))
         /\ readers' \in Seq(Readers) /\ Len(readers') = Len(readers) + 1
         /\ readers'[Len(readers')] = Reader(id, size, e + size)
<1> DEFINE s == Used(r, size)
           d == Reader(id, size, e + size)
<1>1. /\ readers \in Seq(Readers) /\ at \in 1 .. Len(readers) /\ id \in Nat
      /\ at >= 1
  BY ChainIs
<1>2. ~(r.len >= 0 /\ r.len < size)
  BY DEF OpenElement, Fails
<1>3. /\ step' = "element" /\ err' = err
      /\ readers' = Append([readers EXCEPT ![at] = s], d)
  <2> HIDE DEF s
  <2> QED BY <1>2, Zenon DEF OpenElement, s
<1>4. d \in Readers
  <2>1. e + size \in Int /\ size >= 0 /\ size >= -1 /\ size \in Int
    OBVIOUS
  <2>2. PICK z \in Int : z = e + size
    BY <2>1
  <2>3. d = [id |-> id, len |-> size, end |-> z]
    BY <2>2, Zenon DEF Reader
  <2> QED BY <1>1, <2>1, <2>2, <2>3 DEF Readers
<1>5. s \in Readers
  BY UsedIs
<1> HIDE DEF s, d
<1>6. PICK k : k = Len(readers)
  OBVIOUS
<1>7. at = k /\ k >= 1
  BY <1>1, <1>6
<1>8. readers' = Append([readers EXCEPT ![k] = s], d)
  BY <1>3, <1>7, Zenon
<1>9. readers' \in Seq(Readers) /\ Len(readers') = k + 1 /\ readers'[k + 1] = d
  BY <1>1, <1>4, <1>5, <1>6, <1>7, <1>8, Opened
<1> QED BY <1>2, <1>3, <1>6, <1>9 DEF s, d

LEMMA MarkSize ==
  ASSUME Buffer, Chain, readElement, step' \in InElement, NEW p, Marks(p)
  PROVE  Marks(p)'
<1> DEFINE r == Used(readers[at], 1)
           Sized(o) ==
             \/ More(o.b[1]) = 0 /\ o.b[1] = 255 /\ OpenUnknown(r)
             \/ More(o.b[1]) = 0 /\ o.b[1] # 255
                /\ OpenElement(r, o.b[1] % 128)
             \/ /\ More(o.b[1]) \in 1 .. 7
                /\ step' = "size rest" /\ UNCHANGED err
                /\ readers' = [readers EXCEPT ![at] = r]
             \/ /\ More(o.b[1]) = 8
                /\ Fails("format")
                /\ readers' = [readers EXCEPT ![at] = r]
<1>1. PICK o \in next(readers[at], 1) :
        /\ Takes(o)
        /\ \/ Lost(o, 1)
           \/ o.err = "none" /\ first' = o.b[1] /\ id' = id /\ Sized(o)
  BY Zenon DEF readElement
<1>2. bytes' = bytes /\ at' = at /\ step = "size"
  BY DEF readElement
<1>3. Len(readers) = at /\ 1 \in 0 .. 8
  BY <1>2 DEF Chain
<1>4. step' # "error"
  BY DEF InElement
<1>5. o.err = "none" /\ first' = o.b[1] /\ id' = id /\ Sized(o)
  BY <1>1, <1>4, Zenon DEF Lost, Fails
<1>6. PICK q : q = After(bytes, p)
  OBVIOUS
<1>7. /\ p \in Nat /\ p < Len(bytes) /\ bytes[p + 1] >= 16
      /\ HasId(bytes, p) /\ id = IdAt(bytes, p) /\ off = q
  BY <1>2, <1>6 DEF Marks
<1>8. /\ off + 1 <= Len(bytes) /\ off' = off + 1 /\ off \in Nat
      /\ bytes \in Seq(Byte) /\ Len(bytes) \in Nat
      /\ \A i \in 1 .. 1 : o.b[i] = bytes[off + i]
  BY <1>1, <1>3, <1>5, BytesRead
<1>9. PICK x : x = bytes[q + 1]
  OBVIOUS
<1>10. q \in Nat /\ q < Len(bytes) /\ o.b[1] = x
  BY <1>7, <1>8, <1>9
<1>11. /\ x \in Byte /\ x \in Nat /\ More(x) \in 0 .. 8
       /\ After(bytes, q) = q + 1 + More(x) /\ BodyAt(bytes, p) = After(bytes, q)
  BY <1>6, <1>8, <1>9, <1>10, ByteAt DEF BodyAt
<1>12. r \in Readers
  <2>1. readers[at] \in Readers
    BY ChainIs, ReaderIs
  <2> QED BY <2>1, UsedIs
<1> HIDE DEF r
<1>13. CASE More(x) \in 1 .. 7 /\ step' = "size rest"
  <2>1. off' = After(bytes, p) + 1 /\ first' = bytes[off']
    BY <1>5, <1>6, <1>7, <1>8, <1>9, <1>10, Zenon
  <2> QED BY <1>2, <1>5, <1>7, <1>13, <2>1 DEF Marks
<1>14. ASSUME More(x) = 0, step' = "element", NEW z, LenAt(bytes, p) = z,
              NEW d, d = readers'[Len(readers')],
              d.id = id, d.len = z,
              d.end = IF z = Unknown THEN Unknown ELSE off' + z
       PROVE  Marks(p)'
  <2>1. HasSize(bytes, q) /\ off' = BodyAt(bytes, p)
    <3>1. More(x) < 8 /\ q + More(x) < Len(bytes)
      BY <1>7, <1>8, <1>10, <1>14
    <3>2. off' = BodyAt(bytes, p)
      BY <1>7, <1>8, <1>10, <1>11, <1>14
    <3> QED BY <1>9, <1>10, <3>1, <3>2 DEF HasSize
  <2>2. Begins(bytes, p)
    BY <1>6, <1>7, <2>1 DEF Begins
  <2>3. ReaderOf(d, bytes, p)
    BY <1>7, <1>14, <2>1 DEF ReaderOf
  <2>4. ReaderOf(readers[Len(readers)], bytes, p)'
    BY <1>2, <1>14, <2>3
  <2> QED BY <1>2, <1>5, <1>7, <1>14, <2>1, <2>2, <2>4 DEF Marks
<1>15. ASSUME More(x) = 0
       PROVE  /\ x = 255 => LenAt(bytes, p) = Unknown
              /\ x # 255 => LenAt(bytes, p) = x % 128 /\ x % 128 # 127
  <2>1. x >= 128 /\ x <= 255
    BY <1>11, <1>15, MoreOfFull DEF Byte
  <2>2. PICK y : y = x % 128
    OBVIOUS
  <2>3. y = x - 128
    BY <1>11, <2>1, <2>2
  <2>4. 7 - 0 = 7 /\ 2 ^ 7 = 128 /\ 128 - 1 = 127
    OBVIOUS
  <2>5. SizeAt(bytes, q) =
          IF y = 127 /\ \A i \in 1 .. 0 : bytes[q + 1 + i] = 255
          THEN Unknown ELSE NumberAt(bytes, q + 1, 0, y)
    <3>1. PICK n, high : n = More(bytes[q + 1])
                         /\ high = bytes[q + 1] % 2 ^ (7 - n)
      OBVIOUS
    <3>2. SizeAt(bytes, q) =
            IF high = 2 ^ (7 - n) - 1 /\ \A i \in 1 .. n : bytes[q + 1 + i] = 255
            THEN Unknown ELSE NumberAt(bytes, q + 1, n, high)
      BY <3>1, Zenon DEF SizeAt
    <3>3. n = 0
      BY <1>9, <1>15, <3>1, Zenon
    <3>4. 2 ^ (7 - n) = 128
      BY <2>4, <3>3, ZenonT(60)
    <3>5. high = y /\ 2 ^ (7 - n) - 1 = 127
      BY <1>9, <2>2, <2>4, <3>1, <3>4, Zenon
    <3> QED BY <3>2, <3>3, <3>5, Zenon
  <2>6. y \in Nat /\ q + 1 \in Nat /\ q + 1 + 0 <= Len(bytes) /\ 0 \in Nat
    BY <1>7, <1>8, <1>10, <2>1, <2>3, <1>11
  <2>7. NumberAt(bytes, q + 1, 0, y) = y
    BY <1>8, <2>6, NumberIs
  <2>8. x = 255 <=> y = 127
    BY <1>11, <2>1, <2>3
  <2>9. \A i \in 1 .. 0 : bytes[q + 1 + i] = 255
    OBVIOUS
  <2> QED BY <1>6, <2>2, <2>5, <2>7, <2>8, <2>9, Zenon DEF LenAt
<1>16. CASE More(x) = 0 /\ x = 255 /\ OpenUnknown(r)
  <2>1. PICK d : d = readers'[Len(readers')]
    OBVIOUS
  <2>2. step' = "element" /\ d = Reader(id, Unknown, Unknown)
    BY <1>12, <1>16, <2>1, UnknownOpened, Zenon
  <2>3. d.id = id /\ d.len = Unknown /\ d.end = Unknown
    BY <2>2 DEF Reader
  <2>4. LenAt(bytes, p) = Unknown
    BY <1>15, <1>16
  <2> QED BY <1>14, <1>16, <2>1, <2>2, <2>3, <2>4
<1>17. CASE More(x) = 0 /\ x # 255 /\ OpenElement(r, x % 128)
  <2>1. PICK z \in Nat : z = x % 128
    <3>1. x % 128 \in 0 .. 127
      <4>1. 128 \in Nat /\ 128 >= 1 /\ 128 - 1 = 127
        OBVIOUS
      <4> QED BY <1>11, <4>1, DivMod
    <3> QED BY <3>1
  <2>2. PICK e \in Nat : e = off'
    BY <1>8
  <2>3. OpenElement(r, z)
    BY <1>17, <2>1, Zenon
  <2>4. PICK d : d = readers'[Len(readers')]
    OBVIOUS
  <2>5. step' = "element" /\ d = Reader(id, z, e + z)
    BY <1>3, <1>4, <1>12, <2>2, <2>3, <2>4, ElementOpened
  <2>6. d.id = id /\ d.len = z /\ d.end = e + z /\ z # Unknown
    BY <2>5 DEF Reader, Unknown
  <2>7. LenAt(bytes, p) = z
    BY <1>15, <1>17, <2>1, Zenon
  <2>8. d.end = IF z = Unknown THEN Unknown ELSE off' + z
    BY <2>2, <2>6, Zenon
  <2> QED BY <1>14, <1>17, <2>4, <2>5, <2>6, <2>7, <2>8
<1> QED BY <1>4, <1>5, <1>10, <1>13, <1>16, <1>17, Zenon DEF Fails

LEMMA MarkSizeRest ==
  ASSUME Buffer, Chain, readElementRest, step' \in InElement, NEW p, Marks(p)
  PROVE  Marks(p)'
<1> DEFINE n    == More(first)
           high == first % 2 ^ (7 - n)
           r    == Used(readers[at], n)
           full(b) == high = 2 ^ (7 - n) - 1 /\ \A i \in 1 .. n : b[i] = 255
           Sized(o) ==
             IF full(o.b)
             THEN OpenUnknown(r)
             ELSE OpenElement(r, BigEndian(o.b, high)[n])
<1>1. PICK o \in next(readers[at], n) :
        /\ Takes(o)
        /\ \/ Lost(o, n)
           \/ o.err = "none" /\ first' = first /\ id' = id /\ Sized(o)
  BY Zenon DEF readElementRest
<1>2. bytes' = bytes /\ at' = at /\ step = "size rest"
  BY DEF readElementRest
<1>3. Len(readers) = at /\ n \in 1 .. 7
  <2> HIDE DEF high, r, Sized, full
  <2> QED BY <1>2 DEF Chain
<1>4. step' # "error"
  BY DEF InElement
<1>5. o.err = "none" /\ first' = first /\ id' = id /\ Sized(o)
  BY <1>1, <1>4, Zenon DEF Lost, Fails
<1>6. PICK q : q = After(bytes, p)
  OBVIOUS
<1>7. /\ p \in Nat /\ p < Len(bytes) /\ bytes[p + 1] >= 16
      /\ HasId(bytes, p) /\ id = IdAt(bytes, p)
      /\ off = q + 1 /\ first = bytes[off]
  BY <1>2, <1>6 DEF Marks
<1> HIDE DEF n
<1>8. n \in 0 .. 8 /\ n \in Nat
  BY <1>3
<1>9. /\ off + n <= Len(bytes) /\ off' = off + n /\ off \in Nat
      /\ bytes \in Seq(Byte) /\ Len(bytes) \in Nat /\ off' \in Nat
      /\ o.b = SubSeq(bytes, off + 1, off + n)
      /\ \A i \in 1 .. n : o.b[i] = bytes[off + i]
  <2> HIDE DEF r, high, full, Sized
  <2>1. o \in next(readers[at], n) /\ Takes(o) /\ o.err = "none"
    BY <1>1, <1>5
  <2> QED BY <1>3, <1>8, <2>1, BytesRead
<1>10. q \in Nat /\ q + n < Len(bytes) /\ q < Len(bytes)
  <2>1. q \in Nat
    BY <1>6, <1>7, <1>9, ByteAt
  <2> HIDE DEF r, high, full, Sized
  <2>2. PICK l \in Nat : l = Len(bytes) /\ off + n <= l
    BY <1>9
  <2>3. q + n < l /\ q < l
    BY <1>3, <1>7, <2>1, <2>2
  <2> QED BY <2>1, <2>2, <2>3
<1>11. first = bytes[q + 1] /\ n = More(bytes[q + 1])
  BY <1>7 DEF n
<1>12. HasSize(bytes, q) /\ Begins(bytes, p)
  <2>1. More(bytes[q + 1]) < 8 /\ q + More(bytes[q + 1]) < Len(bytes)
    BY <1>3, <1>10, <1>11
  <2> QED BY <1>6, <1>7, <1>10, <2>1 DEF HasSize, Begins
<1>13. off' = BodyAt(bytes, p)
  <2>1. After(bytes, q) = q + 1 + n
    BY <1>9, <1>10, <1>11, ByteAt
  <2> QED BY <1>6, <1>7, <1>9, <2>1 DEF BodyAt
<1>14. LenAt(bytes, p) = IF full(o.b) THEN Unknown ELSE BigEndian(o.b, high)[n]
  <2>1. \A i \in 1 .. n : o.b[i] = bytes[q + 1 + i]
    BY <1>7, <1>9
  <2>2. full(o.b) <=> /\ high = 2 ^ (7 - n) - 1
                      /\ \A i \in 1 .. n : bytes[q + 1 + i] = 255
    <3> HIDE DEF high
    <3> QED BY <2>1
  <2>3. BigEndian(o.b, high)[n] = NumberAt(bytes, q + 1, n, high)
    BY <1>7, <1>9, Zenon DEF NumberAt
  <2>4. high = bytes[q + 1] % 2 ^ (7 - n)
    BY <1>11, Zenon
  <2> HIDE DEF high, full
  <2>5. SizeAt(bytes, q) =
          IF high = 2 ^ (7 - n) - 1 /\ \A i \in 1 .. n : bytes[q + 1 + i] = 255
          THEN Unknown ELSE NumberAt(bytes, q + 1, n, high)
    BY <1>11, <2>4, Zenon DEF SizeAt
  <2> QED BY <1>6, <2>2, <2>3, <2>5, Zenon DEF LenAt
<1>15. r \in Readers
  <2>1. readers[at] \in Readers
    BY ChainIs, ReaderIs
  <2> QED BY <1>8, <2>1, UsedIs
<1>16. PICK z : z = LenAt(bytes, p)
  OBVIOUS
<1>17. z \in Nat \cup {Unknown}
  BY <1>7, <1>9, <1>12, <1>16, BeginsIs
<1> HIDE DEF r, high
<1>18. ASSUME step' = "element",
              NEW d, d = readers'[Len(readers')],
              d.id = id, d.len = z,
              d.end = IF z = Unknown THEN Unknown ELSE off' + z
       PROVE  Marks(p)'
  <2>1. ReaderOf(d, bytes, p)
    BY <1>7, <1>13, <1>16, <1>18 DEF ReaderOf
  <2>2. ReaderOf(readers[Len(readers)], bytes, p)'
    BY <1>2, <1>18, <2>1
  <2> QED BY <1>2, <1>5, <1>7, <1>12, <1>13, <1>18, <2>2 DEF Marks
<1>19. CASE full(o.b)
  <2>1. PICK d : d = readers'[Len(readers')]
    OBVIOUS
  <2>2. OpenUnknown(r)
    BY <1>5, <1>19, Zenon
  <2>3. step' = "element" /\ d = Reader(id, Unknown, Unknown)
    BY <1>15, <2>1, <2>2, UnknownOpened, Zenon
  <2>4. d.id = id /\ d.len = Unknown /\ d.end = Unknown
    BY <2>3 DEF Reader
  <2>5. z = Unknown
    BY <1>14, <1>16, <1>19, Zenon
  <2> QED BY <1>18, <2>1, <2>3, <2>4, <2>5
<1>20. CASE ~full(o.b)
  <2>1. z = BigEndian(o.b, high)[n]
    BY <1>14, <1>16, <1>20, Zenon
  <2>2. OpenElement(r, z)
    BY <1>5, <1>20, <2>1, Zenon
  <2>3. z \in Nat
    <3>1. o.b \in Seq(Byte) /\ Len(o.b) = n
      BY <1>1, <1>3, <1>5, <1>8, BytesRead, ZenonT(60)
    <3>2. first \in Byte /\ n \in 0 .. 7 /\ n \in 0 .. Len(o.b)
      BY <1>3, <3>1, ChainIs
    <3>3. high \in Nat
      BY <3>2, HighIs DEF high
    <3> QED BY <2>1, <3>1, <3>2, <3>3, BigEndianIs
  <2>4. PICK e \in Nat : e = off'
    BY <1>9
  <2>5. PICK d : d = readers'[Len(readers')]
    OBVIOUS
  <2>6. step' = "element" /\ d = Reader(id, z, e + z)
    BY <1>3, <1>4, <1>15, <2>2, <2>3, <2>4, <2>5, ElementOpened
  <2>7. d.id = id /\ d.len = z /\ d.end = e + z /\ z # Unknown
    BY <2>3, <2>6 DEF Reader, Unknown
  <2>8. d.end = IF z = Unknown THEN Unknown ELSE off' + z
    BY <2>4, <2>7, Zenon
  <2> QED BY <1>18, <2>5, <2>6, <2>7, <2>8
<1> QED BY <1>19, <1>20

\* ReadElement goes on in the element that it is in, or begins one.
LEMMA Marking ==
  ASSUME Buffer, Chain, ReadElement, step' \in InElement, NEW p,
         step = "id" => p = off, step \in InElement => Marks(p)
  PROVE  Marks(p)'
<1>1. CASE skip
  <2>1. step' \in {"id", "error"}
    BY <1>1 DEF skip, Fails
  <2> QED BY <2>1 DEF InElement
<1>2. CASE readID
  <2>1. step = "id"
    BY <1>2 DEF readID
  <2> QED BY <1>2, <2>1, MarkId
<1>3. CASE readIDRest
  <2>1. step \in InElement
    BY <1>3 DEF readIDRest, InElement
  <2> QED BY <1>3, <2>1, MarkIdRest
<1>4. CASE readElement
  <2>1. step \in InElement
    BY <1>4 DEF readElement, InElement
  <2> QED BY <1>4, <2>1, MarkSize
<1>5. CASE readElementRest
  <2>1. step \in InElement
    BY <1>5 DEF readElementRest, InElement
  <2> QED BY <1>5, <2>1, MarkSizeRest
<1> QED BY <1>1, <1>2, <1>3, <1>4, <1>5 DEF ReadElement

-----------------------------------------------------------------------------
(* How much stays in the buffer.                                            *)

\* What is read leaves the buffer, what is taken from the source goes into it,
\* and nothing else changes it unless it is dropped.
Steady(o) ==
  /\ o.err = "none" =>
       o.off + Len(o.buffered) + src = off + Len(buffered) + o.src
  /\ o.err # "none" => o.buffered = buffered \/ o.buffered = <<>>

LEMMA BufferSteady ==
  ASSUME Buffer, NEW n \in 0 .. Len(buffered)
  PROVE  Steady(FromBuffer(n))
<1>1. /\ Len(buffered) \in Nat /\ buffered \in Seq(Byte)
      /\ off \in Nat /\ src \in Nat
  BY Numbers DEF Buffer
<1>2. SubSeq(buffered, n + 1, Len(buffered)) \in Seq(Byte)
      /\ Len(SubSeq(buffered, n + 1, Len(buffered))) = Len(buffered) - n
  <2>1. n \in Nat /\ Len(buffered) \in n .. Len(buffered)
    BY <1>1
  <2> QED BY <1>1, <2>1, Piece
<1>3. PICK o : o = FromBuffer(n)
  OBVIOUS
<1>4. /\ o.err = "none" /\ o.src = src /\ o.off = off + n
      /\ o.buffered = SubSeq(buffered, n + 1, Len(buffered))
  BY <1>3 DEF FromBuffer, Outcome
<1>5. PICK l \in Nat : l = Len(o.buffered) /\ l = Len(buffered) - n
  <2>1. Len(buffered) - n \in Nat
    BY <1>1
  <2>2. Len(o.buffered) = Len(buffered) - n
    BY <1>2, <1>4, Zenon
  <2> QED BY <2>1, <2>2
<1>6. off + n + l + src = off + Len(buffered) + src
  BY <1>1, <1>5
<1> QED BY <1>3, <1>4, <1>5, <1>6 DEF Steady

LEMMA NextSteady ==
  ASSUME Buffer, NEW n \in Nat, NEW o \in Next(n)
  PROVE  Steady(o)
<1> DEFINE p == n - Len(buffered)
<1>1. /\ BufferSize \in Nat /\ Len(buffered) \in Nat /\ src \in Nat
      /\ off \in Nat /\ Left \in Nat /\ Len(buffered) <= BufferSize
      /\ Len(bytes) \in Nat /\ Left = Len(bytes) - src
      /\ (src < Len(bytes) => src = off + Len(buffered))
      /\ bytes \in Seq(Byte)
  BY Numbers DEF Buffer
<1>2. CASE n > BufferSize
  <2>1. o = Outcome("too small", src, buffered, off, <<>>)
    BY <1>2 DEF Next
  <2> QED BY <2>1 DEF Outcome, Steady
<1>3. CASE ~(n > BufferSize) /\ p <= 0
  <2>1. o = FromBuffer(n)
    BY <1>3 DEF Next
  <2>2. n \in 0 .. Len(buffered)
    BY <1>1, <1>3
  <2> QED BY <2>1, <2>2, BufferSteady
<1>4. CASE ~(n > BufferSize) /\ ~(p <= 0) /\ Left < p
  <2>1. o = Outcome(EndOfSource(0), Len(bytes), buffered, off, <<>>)
    BY <1>4 DEF Next
  <2> QED BY <2>1 DEF EndOfSource, Outcome, Steady
<1>5. CASE ~(n > BufferSize) /\ ~(p <= 0) /\ ~(Left < p)
  <2>1. PICK k \in Given(p, BufferSize - Len(buffered)) :
          o = LET have == buffered \o SubSeq(bytes, src + 1, src + k)
              IN  Outcome("none", src + k, SubSeq(have, n + 1, Len(have)),
                          off + n, SubSeq(have, 1, n))
    BY <1>5 DEF Next
  <2>2. PICK room \in Nat : room = BufferSize - Len(buffered)
    BY <1>1
  <2>3. p \in Nat /\ p > 0 /\ p <= room /\ p <= Left
    BY <1>1, <1>5, <2>2
  <2>4. k \in p .. room /\ k \in 0 .. Left
    <3> HIDE DEF p
    <3> QED BY <2>1, <2>2, <2>3, GivenIs
  <2>5. src < Len(bytes) /\ src = off + Len(buffered)
    BY <1>1, <2>3
  <2> DEFINE have == buffered \o SubSeq(bytes, src + 1, src + k)
  <2>6. have = SubSeq(bytes, off + 1, off + Len(buffered) + k)
    BY <2>4, <2>5, Have
  <2>7. /\ o.err = "none" /\ o.src = src + k /\ o.off = off + n
        /\ o.buffered = SubSeq(have, n + 1, Len(have))
    BY <2>1 DEF Outcome
  <2> HIDE DEF have
  <2>8. PICK c \in off .. Len(bytes) : c = off + Len(buffered) + k
    BY <1>1, <2>4, <2>5
  <2>9. have \in Seq(Byte) /\ Len(have) = c - off
    BY <1>1, <2>6, <2>8, Piece
  <2>10. Len(have) \in n .. Len(have) /\ c - off = Len(buffered) + k
    BY <1>1, <2>3, <2>4, <2>8, <2>9
  <2>11. Len(SubSeq(have, n + 1, Len(have))) = Len(have) - n
    BY <2>9, <2>10, Piece
  <2>12. PICK l \in Nat : l = Len(o.buffered) /\ l = Len(buffered) + k - n
    <3>1. Len(have) \in Nat /\ Len(have) = Len(buffered) + k
      BY <1>1, <2>4, <2>9, <2>10
    <3>2. Len(have) - n \in Nat
      BY <2>10, <3>1
    <3>3. Len(o.buffered) = Len(have) - n
      BY <2>7, <2>11, Zenon
    <3>4. Len(have) - n = Len(buffered) + k - n
      <4>1. PICK h : h = Len(have)
        OBVIOUS
      <4>2. h = Len(buffered) + k
        BY <3>1, <4>1
      <4>3. Len(buffered) \in Int /\ k \in Int /\ n \in Int
        BY <1>1, <2>4
      <4> HIDE DEF p
      <4> QED BY <4>1, <4>2, <4>3
    <3> QED BY <3>2, <3>3, <3>4
  <2>13. off + n + l + src = off + Len(buffered) + (src + k)
    BY <1>1, <2>4, <2>12
  <2> QED BY <2>7, <2>12, <2>13 DEF Steady
<1> QED BY <1>2, <1>3, <1>4, <1>5

LEMMA ReaderNextSteady ==
  ASSUME Buffer, NEW n \in Nat, NEW r, NEW o \in next(r, n)
  PROVE  Steady(o)
<1>1. CASE r.len = 0
  BY <1>1 DEF next, Outcome, Steady
<1>2. CASE r.len # 0 /\ 0 <= r.len /\ r.len < n
  BY <1>2 DEF next, Outcome, Steady
<1>3. CASE r.len # 0 /\ ~(0 <= r.len /\ r.len < n)
  <2>1. o \in Next(n)
    BY <1>3 DEF next
  <2> QED BY <2>1, NextSteady
<1> QED BY <1>1, <1>2, <1>3

LEMMA PastSteady ==
  ASSUME Buffer, src < Len(bytes), NEW m \in Nat, NEW k \in m .. Left,
         NEW n, n = Len(buffered) + m, NEW o,
         o.err = "none", o.src = src + k, o.off = off + n,
         o.buffered = SubSeq(bytes, src + m + 1, src + k)
  PROVE  Steady(o)
<1>1. /\ Len(buffered) \in Nat /\ src \in Nat /\ off \in Nat
      /\ Len(bytes) \in Nat /\ Left = Len(bytes) - src
      /\ bytes \in Seq(Byte)
  BY Numbers DEF Buffer
<1>2. PICK x \in Nat : x = src + m
  BY <1>1
<1>6. PICK c \in x .. Len(bytes) : c = src + k
  BY <1>1, <1>2
<1>3. Len(SubSeq(bytes, x + 1, c)) = c - x
  BY <1>1, <1>2, <1>6, Piece
<1>4. Len(o.buffered) = k - m
  <2>1. c - x = k - m
    BY <1>1, <1>2, <1>6
  <2> QED BY <1>2, <1>6, <1>3, <2>1
<1>5. o.off + (k - m) + src = off + Len(buffered) + o.src
  BY <1>1
<1> QED BY <1>4, <1>5 DEF Steady

LEMMA ReadSteady ==
  ASSUME Buffer, NEW n \in Nat, NEW o \in Read(n)
  PROVE  Steady(o)
<1> DEFINE m == n - Len(buffered)
<1>1. /\ BufferSize \in Nat /\ Len(buffered) \in Nat /\ src \in Nat
      /\ off \in Nat /\ Left \in Nat
      /\ Len(bytes) \in Nat /\ Left = Len(bytes) - src
  BY Numbers
<1>2. CASE m <= 0
  <2>1. o = FromBuffer(n)
    BY <1>2 DEF Read
  <2>2. n \in 0 .. Len(buffered)
    BY <1>1, <1>2
  <2> QED BY <2>1, <2>2, BufferSteady
<1>3. CASE ~(m <= 0) /\ Left < m
  <2>1. PICK f : o = Outcome(EndOfSource(0), Len(bytes), <<>>, f, <<>>)
    BY <1>3 DEF Read
  <2> QED BY <2>1 DEF EndOfSource, Outcome, Steady
<1>4. CASE ~(m <= 0) /\ ~(Left < m)
  <2>1. PICK k \in IF m > BufferSize THEN {m} ELSE Given(m, BufferSize) :
          o = Outcome("none", src + k, SubSeq(bytes, src + m + 1, src + k),
                      off + n, buffered \o SubSeq(bytes, src + 1, src + m))
    BY <1>4 DEF Read
  <2>2. m \in Nat /\ m > 0 /\ m <= Left /\ src < Len(bytes)
        /\ n = Len(buffered) + m
    BY <1>1, <1>4
  <2> HIDE DEF m
  <2>3. k \in m .. Left
    <3>1. CASE m > BufferSize
      BY <1>1, <2>1, <2>2, <3>1
    <3>2. CASE ~(m > BufferSize)
      <4>1. m <= BufferSize /\ k \in Given(m, BufferSize)
        BY <1>1, <2>1, <2>2, <3>2
      <4>2. k \in m .. BufferSize /\ k \in 0 .. Left
        BY <1>1, <2>2, <4>1, GivenIs
      <4> QED BY <1>1, <2>2, <4>2
    <3> QED BY <3>1, <3>2
  <2>4. /\ o.err = "none" /\ o.src = src + k /\ o.off = off + n
        /\ o.buffered = SubSeq(bytes, src + m + 1, src + k)
    BY <2>1 DEF Outcome
  <2> QED BY <2>2, <2>3, <2>4, PastSteady
<1> QED BY <1>2, <1>3, <1>4

LEMMA SkipSteady ==
  ASSUME Buffer, NEW n \in Nat, NEW o \in Skip(n)
  PROVE  Steady(o)
<1> DEFINE d    == n - Len(buffered)
           full == ((d - 1) \div BufferSize) * BufferSize
           read == (Min({Left, full}) \div BufferSize) * BufferSize
<1>1. /\ BufferSize \in Nat /\ BufferSize >= 1 /\ Len(buffered) \in Nat
      /\ src \in Nat /\ off \in Nat /\ Left \in Nat /\ Len(bytes) \in Nat
      /\ Left = Len(bytes) - src
  BY Numbers
<1>2. CASE d <= 0
  <2>1. o = FromBuffer(n)
    BY <1>2 DEF Skip
  <2>2. n \in 0 .. Len(buffered)
    BY <1>1, <1>2
  <2> QED BY <2>1, <2>2, BufferSteady
<1>3. CASE ~(d <= 0) /\ Left < d
  <2>1. o = Outcome(EndOfSource(read), Len(bytes), <<>>,
                    off + Len(buffered) + read, <<>>)
    BY <1>3 DEF Skip
  <2> HIDE DEF read
  <2> QED BY <2>1 DEF EndOfSource, Outcome, Steady
<1>4. CASE ~(d <= 0) /\ ~(Left < d)
  <2>1. PICK k \in Given(d, full + BufferSize) :
          o = Outcome("none", src + k, SubSeq(bytes, src + d + 1, src + k),
                      off + n, <<>>)
    BY <1>4 DEF Skip
  <2>2. d \in Nat /\ d > 0 /\ d <= Left /\ src < Len(bytes)
        /\ n = Len(buffered) + d
    BY <1>1, <1>4
  <2>3. k = d \/ k = IF Left < full + BufferSize THEN Left ELSE full + BufferSize
    BY <2>1 DEF Given
  <2>4. full \in Nat /\ d <= full + BufferSize
    <3>1. PICK e \in Nat : e = d - 1
      <4>1. d - 1 \in Nat
        BY <2>2
      <4> HIDE DEF d
      <4> QED BY <4>1
    <3>2. PICK q \in Nat, r \in 0 .. BufferSize - 1 :
            q = e \div BufferSize /\ e = BufferSize * q + r
      <4>1. /\ e \div BufferSize \in Nat /\ e % BufferSize \in 0 .. BufferSize - 1
            /\ e = BufferSize * (e \div BufferSize) + (e % BufferSize)
        BY <1>1, <3>1, DivMod
      <4> HIDE DEF full, read, d
      <4> QED BY <4>1, Zenon
    <3>3. full = q * BufferSize
      BY <3>1, <3>2
    <3>4. q * BufferSize = BufferSize * q /\ BufferSize * q \in Nat
      BY <1>1
    <3> HIDE DEF full, d
    <3> QED BY <1>1, <2>2, <3>1, <3>2, <3>3, <3>4
  <2> HIDE DEF full, read, d
  <2>5. k \in d .. Left
    BY <1>1, <2>2, <2>3, <2>4
  <2>6. /\ o.err = "none" /\ o.src = src + k /\ o.off = off + n
        /\ o.buffered = SubSeq(bytes, src + d + 1, src + k)
    BY <2>1 DEF Outcome
  <2> QED BY <2>2, <2>5, <2>6, PastSteady
<1> QED BY <1>2, <1>3, <1>4

-----------------------------------------------------------------------------
(* What a step of ReadElement does to the buffer.                           *)

LEMMA Reading ==
  ASSUME Buffer, Chain, ReadElement
  PROVE  \E n \in Nat : \E o :
           /\ Takes(o) /\ Leaves(o, n) /\ Steady(o) /\ bytes' = bytes
           /\ step' # "error" => o.err = "none"
<1>1. /\ readers \in Seq(Readers) /\ at \in 1 .. Len(readers)
      /\ Len(readers) \in Nat
  BY ChainIs
<1>2. readers[at].len \in Int /\ readers[at].len >= -1
  BY <1>1, ReaderIs
<1>3. ASSUME NEW n \in Nat, NEW o \in next(readers[at], n)
      PROVE  Leaves(o, n) /\ Steady(o)
  BY <1>2, <1>3, ReaderNextLeaves, ReaderNextSteady
<1>4. CASE skip
  <2>1. Below(at) \in Nat
    BY <1>1, CutEnds, Zenon DEF Below
  <2>2. PICK o \in Skip(Below(at)) :
          Takes(o) /\ (o.err # "none" => step' = "error") /\ bytes' = bytes
    BY <1>4, Zenon DEF skip, Fails
  <2>3. Leaves(o, Below(at)) /\ Steady(o)
    BY <2>1, <2>2, SkipLeaves, SkipSteady
  <2> QED BY <2>1, <2>2, <2>3, Zenon
<1>5. CASE readID
  <2>1. PICK o \in next(readers[at], 1) :
          Takes(o) /\ (o.err # "none" => step' = "error") /\ bytes' = bytes
    BY <1>5, Zenon DEF readID, Lost, Gets, Fails
  <2>2. 1 \in Nat
    OBVIOUS
  <2> QED BY <1>3, <2>1, <2>2, Zenon
<1>6. CASE readIDRest
  <2>1. PICK o \in next(readers[at], More(first)) :
          Takes(o) /\ (o.err # "none" => step' = "error") /\ bytes' = bytes
    BY <1>6, Zenon DEF readIDRest, Lost, Gets, Fails
  <2>2. More(first) \in Nat
    BY MoreBytes
  <2> QED BY <1>3, <2>1, <2>2, Zenon
<1>7. CASE readElement
  <2>1. PICK o \in next(readers[at], 1) :
          Takes(o) /\ (o.err # "none" => step' = "error") /\ bytes' = bytes
    BY <1>7, Zenon DEF readElement, Lost, Fails
  <2>2. 1 \in Nat
    OBVIOUS
  <2> QED BY <1>3, <2>1, <2>2, Zenon
<1>8. CASE readElementRest
  <2>1. PICK o \in next(readers[at], More(first)) :
          Takes(o) /\ (o.err # "none" => step' = "error") /\ bytes' = bytes
    BY <1>8, Zenon DEF readElementRest, Lost, Fails
  <2>2. More(first) \in Nat
    BY MoreBytes
  <2> QED BY <1>3, <2>1, <2>2, Zenon
<1> QED BY <1>4, <1>5, <1>6, <1>7, <1>8 DEF ReadElement

LEMMA Forward ==
  ASSUME Buffer, Chain, ReadElement
  PROVE  /\ bytes' = bytes /\ off \in Nat /\ off' \in Nat /\ off' >= off
         /\ step' # "error" /\ src = off + Len(buffered) =>
              src' = off' + Len(buffered')
<1>7. PICK n \in Nat : \E o :
        /\ Takes(o) /\ Leaves(o, n) /\ Steady(o) /\ bytes' = bytes
        /\ step' # "error" => o.err = "none"
  BY Reading, Zenon
<1>1. PICK o :
        /\ Takes(o) /\ Leaves(o, n) /\ Steady(o) /\ bytes' = bytes
        /\ step' # "error" => o.err = "none"
  BY <1>7, Zenon
<1>2. /\ src' = o.src /\ buffered' = o.buffered /\ off' = o.off
  BY <1>1 DEF Takes
<1>3. off \in Nat /\ src \in Nat /\ Len(buffered) \in Nat /\ Len(bytes) \in Nat
  BY Numbers
<1>4. o.off \in off .. off + n /\ o.src \in src .. Len(bytes)
      /\ Len(o.buffered) \in Nat
  BY <1>1 DEF Leaves
<1>5. off' \in Nat /\ off' >= off
  BY <1>2, <1>3, <1>4
<1>6. ASSUME step' # "error", src = off + Len(buffered)
      PROVE  src' = off' + Len(buffered')
  <2>1. PICK l \in Nat : l = Len(o.buffered) /\ l = Len(buffered')
    BY <1>2, <1>4
  <2>2. o.off + l + src = off + Len(buffered) + o.src
    BY <1>1, <1>6, <2>1 DEF Steady
  <2>4. o.off \in Int /\ o.src \in Int
    BY <1>3, <1>4
  <2>3. o.src = o.off + l
    BY <1>3, <1>6, <2>1, <2>2, <2>4
  <2> QED BY <1>2, <2>1, <2>3
<1> QED BY <1>1, <1>3, <1>5, <1>6

LEMMA UsedUnknown ==
  ASSUME NEW r \in Readers, r.len = Unknown, NEW n \in Nat
  PROVE  Used(r, n) \in Readers /\ Used(r, n).len = Unknown
<1>1. Used(r, n).len = IF r.len >= n THEN r.len - n ELSE r.len
  BY UsedIs
<1>2. ~(-1 >= n)
  OBVIOUS
<1> QED BY <1>1, <1>2, UsedIs DEF Unknown

\* A Reader without an end stays one.
LEMMA StaysUnknown ==
  ASSUME Buffer, Chain, ReadElement, at = 1, readers[1].len = Unknown
  PROVE  readers'[1].len = Unknown
<1>1. /\ readers \in Seq(Readers) /\ 1 \in 1 .. Len(readers)
      /\ readers[1] \in Readers /\ Len(readers) \in Nat
  BY ChainIs, ReaderIs
<1>2. ASSUME NEW r \in Readers, r.len = Unknown, NEW n \in Nat
      PROVE  Used(r, n) \in Readers /\ Used(r, n).len = Unknown
  BY <1>2, UsedUnknown
<1>3. ASSUME NEW r \in Readers, r.len = Unknown
      PROVE  /\ [readers EXCEPT ![at] = r] \in Seq(Readers)
             /\ [readers EXCEPT ![at] = r][1].len = Unknown
             /\ Len([readers EXCEPT ![at] = r]) = Len(readers)
  BY <1>1, <1>3, Replaced
<1>4. ASSUME NEW n \in Nat
      PROVE  Charged(n)[1].len = Unknown
  <2>1. PICK r : r = Used(readers[at], n)
    OBVIOUS
  <2>2. r \in Readers /\ r.len = Unknown
    BY <1>1, <1>2, <1>4, <2>1
  <2> QED BY <1>1, <1>3, <2>1, <2>2, Zenon DEF Charged
<1>5. ASSUME NEW r \in Readers, r.len = Unknown, NEW d,
             NEW c, c = [readers EXCEPT ![at] = r] \/
                    c = Astray([readers EXCEPT ![at] = r])
      PROVE  Append(c, d)[1].len = Unknown
  <2>1. PICK e \in Seq(Readers) : e = [readers EXCEPT ![at] = r]
    BY <1>3, <1>5
  <2>2. e[1].len = Unknown /\ 1 \in 1 .. Len(e)
    BY <1>1, <1>3, <1>5, <2>1
  <2>3. c \in Seq(Readers) /\ Len(c) = Len(e)
    <3>1. CASE c = e
      BY <3>1
    <3>2. CASE c = Astray(e)
      BY <3>2, AstrayEnds
    <3> QED BY <1>5, <2>1, <3>1, <3>2
  <2>4. c[1].len = Unknown
    <3>1. CASE c = e
      BY <2>2, <3>1
    <3>2. CASE c = Astray(e)
      <4>1. 1 \in DOMAIN e
        BY <2>1, <2>2
      <4>2. c[1] = [e[1] EXCEPT !.end = Unknown]
        BY <3>2, <4>1, Zenon DEF Astray
      <4>3. e[1] \in Readers
        BY <2>1, <2>2, ReaderIs
      <4> QED BY <2>2, <4>2, <4>3 DEF Readers
    <3> QED BY <1>5, <2>1, <3>1, <3>2
  <2>5. Append(c, d)[1] = c[1]
    BY <2>2, <2>3
  <2> QED BY <2>4, <2>5
<1>6. ASSUME NEW r \in Readers, r.len = Unknown, NEW z,
             OpenElement(r, z), z \in Nat
      PROVE  readers'[1].len = Unknown
  <2>1. CASE readers' = [readers EXCEPT ![at] = r]
    BY <1>3, <1>6, <2>1
  <2>2. CASE readers' = Append([readers EXCEPT ![at] = Used(r, z)],
                               Reader(id, z, off' + z))
    <3>1. PICK u : u = Used(r, z)
      OBVIOUS
    <3>2. u \in Readers /\ u.len = Unknown
      BY <1>2, <1>6, <3>1
    <3> QED BY <1>5, <2>2, <3>1, <3>2, Zenon
  <2> QED BY <1>6, <2>1, <2>2, Zenon DEF OpenElement
<1>7. ASSUME NEW r \in Readers, r.len = Unknown, OpenUnknown(r)
      PROVE  readers'[1].len = Unknown
  <2>1. readers' = Append(Astray([readers EXCEPT ![at] = r]),
                          Reader(id, Unknown, Unknown))
    BY <1>7, Zenon DEF OpenUnknown
  <2> QED BY <1>5, <1>7, <2>1, Zenon
<1>8. CASE skip
  <2>1. readers' = SubSeq(readers, 1, at)
    BY <1>8, Zenon DEF skip
  <2>2. SubSeq(readers, 1, 1)[1] = readers[1]
    BY <1>1
  <2> QED BY <2>1, <2>2
<1>9. CASE readID
  <2>1. readers' = Charged(1) /\ 1 \in Nat
    BY <1>9, Zenon DEF readID, Lost, Gets, Charged
  <2> QED BY <1>4, <2>1
<1>10. CASE readIDRest
  <2>1. readers' = Charged(More(first)) /\ More(first) \in Nat
    <3>1. readers' = Charged(More(first))
      BY <1>10, Zenon DEF readIDRest, Lost, Gets, Charged
    <3> QED BY <3>1, MoreBytes
  <2> QED BY <1>4, <2>1
<1>11. CASE readElement
  <2>1. PICK r : r = Used(readers[at], 1)
    OBVIOUS
  <2>2. r \in Readers /\ r.len = Unknown
    BY <1>1, <1>2, <2>1
  <2>3. PICK o \in next(readers[at], 1) :
          \/ readers' = [readers EXCEPT ![at] = r]
          \/ OpenUnknown(r)
          \/ o.err = "none" /\ OpenElement(r, o.b[1] % 128)
    BY <1>11, <2>1, Zenon DEF readElement, Lost
  <2>4. o.err = "none" => o.b[1] % 128 \in Nat
    <3> SUFFICES ASSUME o.err = "none" PROVE o.b[1] % 128 \in Nat
      OBVIOUS
    <3>1. Returns(o, 1)
      <4>1. readers[at].len \in Int /\ readers[at].len >= -1
        BY <1>1, ReaderIs
      <4> QED BY <2>3, <4>1, ReaderNextLeaves
    <3>2. o.b[1] \in Byte
      BY <3>1 DEF Returns
    <3>3. 128 \in Nat /\ 128 >= 1 /\ o.b[1] \in Nat
      BY <3>2 DEF Byte
    <3> QED BY <3>3, DivMod
  <2> QED BY <1>3, <1>6, <1>7, <2>2, <2>3, <2>4, Zenon
<1>12. CASE readElementRest
  <2> DEFINE n == More(first)
             high == first % 2 ^ (7 - n)
  <2>1. n \in Nat
    BY MoreBytes
  <2>2. PICK r : r = Used(readers[at], n)
    OBVIOUS
  <2>3. r \in Readers /\ r.len = Unknown
    BY <1>1, <1>2, <2>1, <2>2
  <2>4. PICK o \in next(readers[at], n) :
          \/ readers' = [readers EXCEPT ![at] = r]
          \/ OpenUnknown(r)
          \/ o.err = "none" /\ OpenElement(r, BigEndian(o.b, high)[n])
    BY <1>12, <2>2, Zenon DEF readElementRest, Lost
  <2>5. o.err = "none" => BigEndian(o.b, high)[n] \in Nat
    <3> SUFFICES ASSUME o.err = "none" PROVE BigEndian(o.b, high)[n] \in Nat
      OBVIOUS
    <3>1. step = "size rest"
      BY <1>12 DEF readElementRest
    <3>2. n \in 1 .. 7 /\ first \in Byte
      BY <3>1 DEF Chain
    <3> HIDE DEF n
    <3>3. Returns(o, n)
      <4>1. readers[at].len \in Int /\ readers[at].len >= -1
        BY <1>1, ReaderIs
      <4> HIDE DEF high
      <4> QED BY <2>1, <2>4, <4>1, ReaderNextLeaves
    <3>4. high \in Nat
      <4>1. n \in 0 .. 7
        BY <3>2
      <4> QED BY <3>2, <4>1, HighIs
    <3> HIDE DEF high
    <3>5. o.b \in Seq(Byte) /\ n \in 0 .. Len(o.b)
      BY <2>1, <3>3 DEF Returns
    <3> QED BY <3>4, <3>5, BigEndianIs
  <2> HIDE DEF high, n
  <2> QED BY <1>3, <1>6, <1>7, <2>3, <2>4, <2>5, Zenon
<1> QED BY <1>8, <1>9, <1>10, <1>11, <1>12 DEF ReadElement

-----------------------------------------------------------------------------
(* Blocks are heard where they are.                                         *)

\* What parseBlock makes of the content of a block.
LEMMA ParsedIs ==
  ASSUME NEW c \in Seq(Byte)
  PROVE  /\ Parsed(c) = "panic" => OnlyTime(c)
         /\ Parsed(c) = "block" <=> Playable(c)
         /\ Playable(c) =>
              SubSeq(afterVInt(c), 4, Len(afterVInt(c))) =
                SubSeq(c, TrackLength(c) + 4, Len(c))
<1>1. CASE c = <<>>
  <2>1. afterVInt(c) = <<>>
    BY <1>1 DEF afterVInt
  <2>2. Len(afterVInt(c)) < 2 /\ Len(afterVInt(c)) # 2
    BY <2>1
  <2>3. Parsed(c) = "dropped"
    BY <2>2, Zenon DEF Parsed
  <2>4. ~Playable(c)
    BY <1>1 DEF Playable
  <2>5. "dropped" # "panic" /\ "dropped" # "block"
    OBVIOUS
  <2> QED BY <2>3, <2>4, <2>5, Zenon
<1>2. CASE c # <<>>
  <2>1. PICK l \in Nat : l = Len(c) /\ l >= 1
    BY <1>2
  <2>2. PICK n \in 0 .. 8 : n = More(c[1])
    BY MoreBytes
  <2>3. PICK t : t = TrackLength(c)
    OBVIOUS
  <2>4. t \in 1 .. l /\ t = IF l > n THEN n + 1 ELSE 1
    BY <2>1, <2>2, <2>3 DEF TrackLength
  <2>5. PICK rest : rest = SubSeq(c, t + 1, l)
    OBVIOUS
  <2>6. afterVInt(c) = rest
    <3>1. afterVInt(c) = SubSeq(c, IF Len(c) > More(c[1]) THEN More(c[1]) + 2
                                   ELSE 2, Len(c))
      BY <1>2 DEF afterVInt
    <3>2. t + 1 = IF l > n THEN n + 2 ELSE 2
      BY <2>1, <2>2, <2>4
    <3> QED BY <2>1, <2>2, <2>5, <3>1, <3>2, Zenon
  <2>7. t \in Nat /\ l \in t .. Len(c)
    BY <2>1, <2>4
  <2>8. rest \in Seq(Byte) /\ Len(rest) = l - t
    BY <2>5, <2>7, Piece
  <2>9. l - t \in Nat
    BY <2>1, <2>4
  <2>10. ASSUME l - t >= 3 PROVE rest[3] = c[t + 3]
    <3>1. 3 \in 1 .. l - t
      BY <2>9, <2>10
    <3>2. t + 1 \in Int /\ l \in Int
      BY <2>1, <2>4
    <3>3. SubSeq(c, t + 1, l)[3] = c[t + 3]
      <4>1. \A i \in 1 .. l - t : SubSeq(c, t + 1, l)[i] = c[t + i]
        BY <2>1, <2>4, <2>7
      <4> QED BY <3>1, <4>1, Zenon
    <3> QED BY <2>5, <3>3
  <2>11. OnlyTime(c) <=> l - t = 2
    <3>1. OnlyTime(c) <=> l = t + 2
      BY <1>2, <2>1, <2>3 DEF OnlyTime
    <3> QED BY <2>1, <2>4, <3>1
  <2>12. Playable(c) <=> l - t > 3 /\ (c[t + 3] \div 2) % 4 = 0
    <3>1. Playable(c) <=> l > t + 3 /\ (c[t + 3] \div 2) % 4 = 0
      BY <1>2, <2>1, <2>3, Zenon DEF Playable
    <3>2. l > t + 3 <=> l - t > 3
      BY <2>1, <2>4
    <3> QED BY <3>1, <3>2, Zenon
  <2>13. Parsed(c) =
           CASE Len(rest) < 2 -> "dropped"
             [] Len(rest) = 2 -> "panic"
             [] OTHER -> IF (rest[3] \div 2) % 4 # 0 \/ Len(rest) = 3
                         THEN "dropped" ELSE "block"
    BY <2>6, Zenon DEF Parsed
  <2>14. PICK k \in Nat : k = Len(rest) /\ k = l - t
    BY <2>8, <2>9
  <2>15. "dropped" # "panic" /\ "dropped" # "block" /\ "panic" # "block"
    OBVIOUS
  <2>16. (k < 2 \/ k = 2 \/ k = 3 \/ k > 3) /\ (k = 2 => ~(k < 2))
         /\ (k = 3 => ~(k < 2) /\ k # 2) /\ (k > 3 => ~(k < 2) /\ k # 2 /\ k # 3)
         /\ (k < 2 => k # 2 /\ ~(k > 3)) /\ (k = 2 => ~(k > 3))
         /\ (k = 3 => ~(k > 3)) /\ (k > 3 => k >= 3)
    OBVIOUS
  <2>17. Parsed(c) = "panic" => OnlyTime(c)
    <3>1. CASE k < 2
      BY <2>13, <2>14, <2>15, <2>16, <3>1, Zenon
    <3>2. CASE k = 2
      BY <2>11, <2>14, <3>2
    <3>3. CASE k = 3 \/ k > 3
      BY <2>13, <2>14, <2>15, <2>16, <3>3, Zenon
    <3> QED BY <2>16, <3>1, <3>2, <3>3
  <2>18. Parsed(c) = "block" <=> Playable(c)
    <3>1. CASE k < 2
      BY <2>12, <2>13, <2>14, <2>15, <2>16, <3>1, Zenon
    <3>2. CASE k = 2
      BY <2>12, <2>13, <2>14, <2>15, <2>16, <3>2, Zenon
    <3>3. CASE k = 3
      BY <2>12, <2>13, <2>14, <2>15, <2>16, <3>3, Zenon
    <3>4. CASE k > 3
      BY <2>10, <2>12, <2>13, <2>14, <2>15, <2>16, <3>4, Zenon
    <3> QED BY <2>16, <3>1, <3>2, <3>3, <3>4
  <2>19. Playable(c) => SubSeq(rest, 4, Len(rest)) = SubSeq(c, t + 4, l)
    <3> SUFFICES ASSUME Playable(c)
                 PROVE  SubSeq(rest, 4, Len(rest)) = SubSeq(c, t + 4, l)
      OBVIOUS
    <3>1. 3 \in 0 .. l - t /\ l - t \in 3 .. l - t
      BY <2>9, <2>12
    <3>2. SubSeq(SubSeq(c, t + 1, l), 3 + 1, l - t)
            = SubSeq(c, t + 3 + 1, t + (l - t))
      BY <2>7, <3>1, PieceOfPiece
    <3>3. 3 + 1 = 4 /\ t + 3 + 1 = t + 4 /\ t + (l - t) = l
      BY <2>1, <2>4
    <3> QED BY <2>5, <2>14, <3>2, <3>3, Zenon
  <2> QED BY <2>1, <2>3, <2>6, <2>17, <2>18, <2>19, Zenon
<1> QED BY <1>1, <1>2

\* The fields of structs that are structs are known.
LEMMA StructsIn ==
  ASSUME NEW a, NEW b, NEW c, NEW d, NEW e,
         NEW i \in DOMAIN newStructMapping(a, b, c, d, e),
         newStructMapping(a, b, c, d, e)[i] = "struct"
  PROVE  i \in e
<1>1. i \in a \cup b \cup c \cup d \cup e
  BY DEF newStructMapping
<1>2. newStructMapping(a, b, c, d, e)[i] =
        CASE i \in a -> "int"
          [] i \in b -> "float"
          [] i \in c -> "string"
          [] i \in d -> "bytes"
          [] i \in e -> "struct"
  BY <1>1, Zenon DEF newStructMapping
<1>3. "int" # "struct" /\ "float" # "struct" /\ "string" # "struct"
      /\ "bytes" # "struct"
  OBVIOUS
<1> SUFFICES ASSUME i \notin e PROVE FALSE
  OBVIOUS
<1>4. i \in a \/ i \in b \/ i \in c \/ i \in d
  BY <1>1
<1>5. newStructMapping(a, b, c, d, e)[i] \in {"int", "float", "string", "bytes"}
  BY <1>2, <1>4, Zenon
<1> QED BY <1>3, <1>5

LEMMA MappingOf ==
  ASSUME NEW s \in StructIds
  PROVE  getStructMapping(s) \in
           {Info, ChapterTranslate, Track, TrackEntry, TrackTranslate,
            AudioTrack, VideoTrack, AlphaMode, Colour, MasteringMetadata,
            TrackOperation, TrackPlane, ContentEncoding, Compression,
            Encryption} \cup
           {newStructMapping({}, {}, {}, {}, {Matroska_TrackPlane}),
            newStructMapping({\hED}, {}, {}, {}, {}),
            newStructMapping({}, {}, {}, {}, {Matroska_ContentEncoding})}
<1> DEFINE N == {Info, ChapterTranslate, Track, TrackEntry, TrackTranslate,
            AudioTrack, VideoTrack, AlphaMode, Colour, MasteringMetadata,
            TrackOperation, TrackPlane, ContentEncoding, Compression,
            Encryption}
           U == {newStructMapping({}, {}, {}, {}, {Matroska_TrackPlane}),
            newStructMapping({\hED}, {}, {}, {}, {}),
            newStructMapping({}, {}, {}, {}, {Matroska_ContentEncoding})}
           seq == {Matroska_TrackCombinePlanes, Matroska_TrackJoinBlocks,
                   Matroska_ContentEncodings}
<1>1. getStructMapping(s) \in N \/
      (s \in seq /\ getStructMapping(s) = unmarshalSeq(s))
  BY ZenonT(60) DEF getStructMapping, StructIds
<1>2. s \in seq => unmarshalSeq(s) \in U
  BY Zenon DEF unmarshalSeq
<1> QED BY <1>1, <1>2, Zenon

LEMMA StructFields ==
  ASSUME NEW s \in StructIds, NEW i \in DOMAIN getStructMapping(s),
         getStructMapping(s)[i] = "struct"
  PROVE  i \in StructIds
<1>1. PICK m : m = getStructMapping(s)
  OBVIOUS
<1> DEFINE structs == {
    {Matroska_ChapterTranslate}, {}, {Matroska_TrackEntry},
    {Matroska_TrackTranslate, Matroska_Video, Matroska_Audio,
     Matroska_TrackOperation, Matroska_ContentEncodings},
    {Matroska_AlphaMode, Matroska_Colour}, {Matroska_MasteringMetadata},
    {Matroska_TrackCombinePlanes, Matroska_TrackJoinBlocks},
    {Matroska_ContentCompression, Matroska_ContentEncryption},
    {Matroska_TrackPlane}, {Matroska_ContentEncoding}}
<1> DEFINE Made(x) ==
  \E e \in structs : \E a, b, c, d : x = newStructMapping(a, b, c, d, e)
<1>2. Made(m)
  <2>1. ASSUME NEW a, NEW b, NEW c, NEW d, NEW e \in structs
        PROVE  Made(newStructMapping(a, b, c, d, e))
    BY Zenon
  <2> DEFINE e1 == {Matroska_TrackTranslate, Matroska_Video, Matroska_Audio,
                    Matroska_TrackOperation, Matroska_ContentEncodings}
  <2>2. /\ {Matroska_ChapterTranslate} \in structs /\ {} \in structs
        /\ {Matroska_TrackEntry} \in structs /\ e1 \in structs
        /\ {Matroska_AlphaMode, Matroska_Colour} \in structs
        /\ {Matroska_MasteringMetadata} \in structs
        /\ {Matroska_TrackCombinePlanes, Matroska_TrackJoinBlocks} \in structs
        /\ {Matroska_ContentCompression, Matroska_ContentEncryption} \in structs
        /\ {Matroska_TrackPlane} \in structs
        /\ {Matroska_ContentEncoding} \in structs
    BY Zenon
  <2> HIDE DEF Made, structs
  <2>3. Made(Info) /\ Made(ChapterTranslate) /\ Made(Track)
    BY <2>1, <2>2 DEF Info, ChapterTranslate, Track
  <2>4. Made(TrackEntry) /\ Made(TrackTranslate) /\ Made(AudioTrack)
    BY <2>1, <2>2 DEF TrackEntry, TrackTranslate, AudioTrack
  <2>5. Made(VideoTrack) /\ Made(AlphaMode) /\ Made(Colour)
        /\ Made(MasteringMetadata)
    BY <2>1, <2>2 DEF VideoTrack, AlphaMode, Colour, MasteringMetadata
  <2>6. Made(TrackOperation) /\ Made(TrackPlane) /\ Made(ContentEncoding)
        /\ Made(Compression) /\ Made(Encryption)
    BY <2>1, <2>2
       DEF TrackOperation, TrackPlane, ContentEncoding, Compression, Encryption
  <2>7. /\ Made(newStructMapping({}, {}, {}, {}, {Matroska_TrackPlane}))
        /\ Made(newStructMapping({\hED}, {}, {}, {}, {}))
        /\ Made(newStructMapping({}, {}, {}, {}, {Matroska_ContentEncoding}))
    BY <2>1, <2>2
  <2> QED BY <1>1, <2>3, <2>4, <2>5, <2>6, <2>7, MappingOf
<1>3. PICK e \in structs : \E a, b, c, d : m = newStructMapping(a, b, c, d, e)
  BY <1>2
<1>4. PICK a, b, c, d : m = newStructMapping(a, b, c, d, e)
  BY <1>3
<1>5. i \in e
  BY <1>1, <1>4, StructsIn, Zenon
<1>6. \A x \in structs : x \subseteq StructIds
  BY DEF StructIds
<1> QED BY <1>5, <1>6, Zenon

-----------------------------------------------------------------------------
(* What the reader is at, and what it has heard.                            *)

Kept == Blocks \in Seq([place : Nat, size : Nat, data : Seq(Byte)])

Listening == PastBlocks(off) /\ Genuine /\ Kept

Located ==
  /\ Listening /\ Somewhere /\ Structs /\ Starting /\ Small /\ Stopped
  /\ PanicsForCause

LEMMA KeptIs ==
  ASSUME Kept
  PROVE  /\ Len(Blocks) \in Nat /\ DOMAIN Blocks = 1 .. Len(Blocks)
         /\ \A i \in 1 .. Len(Blocks) :
              Blocks[i].place \in Nat /\ Blocks[i].size \in Nat
         /\ Blocks # <<>> <=> Len(Blocks) >= 1
<1>1. Len(Blocks) \in Nat /\ DOMAIN Blocks = 1 .. Len(Blocks)
      /\ Blocks # <<>> <=> Len(Blocks) >= 1
  BY DEF Kept
<1>2. \A i \in 1 .. Len(Blocks) :
        Blocks[i] \in [place : Nat, size : Nat, data : Seq(Byte)]
  <2>1. ASSUME NEW S, Blocks \in Seq(S)
        PROVE  \A i \in 1 .. Len(Blocks) : Blocks[i] \in S
    BY <2>1
  <2> QED BY <2>1, Zenon DEF Kept
<1> QED BY <1>1, <1>2

\* Reading on leaves what was heard behind.
LEMMA HearsNothing ==
  ASSUME Listening, bytes' = bytes, Blocks' = Blocks,
         off \in Nat, off' \in Nat, off' >= off
  PROVE  Listening'
<1>1. PastBlocks(off)'
  <2> SUFFICES ASSUME Blocks # <<>>
               PROVE  Blocks[Len(Blocks)].place + Blocks[Len(Blocks)].size <= off'
    BY DEF PastBlocks
  <2>1. Len(Blocks) \in 1 .. Len(Blocks) /\ Kept
    BY KeptIs DEF Listening
  <2>2. PICK x \in Nat, y \in Nat :
          x = Blocks[Len(Blocks)].place /\ y = Blocks[Len(Blocks)].size
    BY <2>1, KeptIs, Zenon
  <2>3. x + y <= off
    BY <2>2, Zenon DEF Listening, PastBlocks
  <2> QED BY <2>2, <2>3
<1>2. Genuine' /\ Kept'
  BY Zenon DEF Listening, Genuine, Kept
<1> QED BY <1>1, <1>2 DEF Listening

\* The reader has read, or heard, something, and goes on.
LEMMA Onwards ==
  ASSUME Located, Listening', bytes' = bytes,
         NEW p \in Phases, p \notin {"EBML", "Segment"}, NEW i,
         Continue(p, i),
         p = "decode" => \A j \in 3 .. i : readers'[j].id \in StructIds
  PROVE  Located'
<1>1. /\ phase' = p /\ at' = i /\ step' = "skip" /\ err' = err
  BY DEF Continue, ReadNext
<1>2. Somewhere'
  BY <1>1 DEF Somewhere, InElement, Listening
<1>3. Structs'
  BY <1>1 DEF Structs
<1>4. Starting'
  BY <1>1 DEF Starting
<1>5. Small' /\ Stopped' /\ PanicsForCause'
  BY <1>1 DEF Small, Stopped, PanicsForCause, Phases, Ends
<1> QED BY <1>2, <1>3, <1>4, <1>5 DEF Located

LEMMA Ceases ==
  ASSUME Located, Listening', bytes' = bytes, NEW p \in Ends, Stop(p),
         step \in {"element", "error"},
         p = "panic" => \E q \in 0 .. Len(bytes) - 1 : Deadly(bytes, q, off')
  PROVE  Located'
<1>1. /\ phase' = p /\ at' = at /\ step' = step /\ err' = err
  BY DEF Stop
<1>2. p \notin Phases /\ p \notin {"EBML", "Segment", "decode"}
  BY DEF Ends, Phases
<1>3. Somewhere'
  BY <1>1, <1>2 DEF Somewhere, Listening
<1>4. Structs' /\ Starting'
  BY <1>1, <1>2 DEF Structs, Starting
<1>5. Small' /\ Stopped'
  BY <1>1 DEF Small, Stopped
<1>6. PanicsForCause'
  BY <1>1 DEF PanicsForCause
<1> QED BY <1>3, <1>4, <1>5, <1>6 DEF Located

\* The bytes of an element that was returned.
LEMMA ElementAt ==
  ASSUME Inv, Located, phase \in Phases, step = "element"
  PROVE  \E p \in 0 .. Len(bytes) - 1 :
           /\ Marks(p) /\ PastBlocks(p) /\ p \in Nat
           /\ Begins(bytes, p) /\ off = BodyAt(bytes, p)
           /\ id = IdAt(bytes, p) /\ elem.id = id
           /\ elem.len = LenAt(bytes, p)
           /\ readers[at + 1] = elem
<1>1. PICK p \in 0 .. Len(bytes) : Marks(p) /\ PastBlocks(p)
  BY DEF Located, Somewhere, InElement
<1>2. /\ p \in Nat /\ p < Len(bytes) /\ Begins(bytes, p)
      /\ off = BodyAt(bytes, p) /\ id = IdAt(bytes, p)
      /\ ReaderOf(elem, bytes, p)
  BY <1>1 DEF Marks, elem
<1>3. Len(readers) = at + 1 /\ Len(bytes) \in Nat
  BY InvIs, Numbers DEF Inv, Decoder
<1>4. p \in 0 .. Len(bytes) - 1
  BY <1>2, <1>3
<1>5. elem.id = id /\ elem.len = LenAt(bytes, p) /\ readers[at + 1] = elem
  BY <1>2, <1>3, Zenon DEF ReaderOf, elem
<1> QED BY <1>1, <1>2, <1>4, <1>5, Zenon

LEMMA ZeroIsByte == 0 \in Byte
BY DEF Byte

LEMMA FirstByte ==
  ASSUME NEW b \in Seq(Byte), Len(b) = 1
  PROVE  b[1] \in Byte
OBVIOUS

LEMMA StaysSmall ==
  ASSUME Buffer, Chain, ReadElement, Small
  PROVE  Small'
<1> SUFFICES ASSUME step' = "id" \/ step' = "id rest" PROVE id' \in Byte
  BY DEF Small
<1>1. CASE skip
  <2>1. id' = 0
    BY <1>1, Zenon DEF skip
  <2> QED BY <2>1, ZeroIsByte, Zenon
<1>2. CASE readID
  <2>1. PICK o \in next(readers[at], 1) :
          o.err = "none" /\ id' = o.b[1]
    BY <1>2, Zenon DEF readID, Lost, Gets, Fails
  <2>2. Returns(o, 1)
    <3>1. readers[at].len \in Int /\ readers[at].len >= -1 /\ 1 \in Nat
      BY ChainIs, ReaderIs
    <3> QED BY <2>1, <3>1, ReaderNextLeaves
  <2>3. PICK b \in Seq(Byte) : b = o.b /\ Len(b) = 1
    BY <2>1, <2>2 DEF Returns
  <2>4. b[1] \in Byte
    BY <2>3, FirstByte, Zenon
  <2> QED BY <2>1, <2>3, <2>4, Zenon
<1>3. CASE readIDRest
  <2>1. step' = "error" \/ step' = "size"
    BY <1>3, Zenon DEF readIDRest, Lost, Gets, Fails
  <2> QED BY <2>1
<1>4. CASE readElement
  <2>1. step' = "error" \/ step' = "element" \/ step' = "size rest"
    BY <1>4, Zenon
       DEF readElement, Lost, Fails, OpenElement, OpenUnknown
  <2> QED BY <2>1
<1>5. CASE readElementRest
  <2>1. step' = "error" \/ step' = "element"
    BY <1>5, Zenon
       DEF readElementRest, Lost, Fails, OpenElement, OpenUnknown
  <2> QED BY <2>1
<1> QED BY <1>1, <1>2, <1>3, <1>4, <1>5 DEF ReadElement

\* The first bytes of the size of p are not there, if reading them fails.
LEMMA SegmentLost ==
  ASSUME Buffer, Chain, ReadElement, at = 1, readers[1].len = Unknown,
         src = off + Len(buffered), Small,
         step \in InElement => \E p \in 0 .. Len(bytes) : Marks(p),
         step' = "error", id' = Matroska_Segment
  PROVE  \E p \in 0 .. Len(bytes) - 1 :
           /\ HasId(bytes, p) /\ IdAt(bytes, p) = Matroska_Segment
           /\ ~HasSize(bytes, After(bytes, p))
           /\ off' - After(bytes, p) \in {0, 1}
<1>0. Matroska_Segment \notin Byte
  BY DEF Matroska_Segment, Byte
<1>1. /\ Len(bytes) \in Nat /\ off \in Nat /\ bytes \in Seq(Byte)
      /\ BufferSize \in Nat /\ BufferSize >= 8
  BY Numbers DEF Buffer
<1>2. ASSUME NEW n \in 0 .. 8, NEW o \in next(readers[at], n),
             Takes(o), o.err # "none"
      PROVE  Len(bytes) < off + n /\ off' = off
  <2>1. next(readers[at], n) = Next(n)
    BY DEF next, Unknown
  <2>2. n \in 0 .. BufferSize
    BY <1>1
  <2>3. Len(bytes) < off + n /\ o.off = off
    BY <1>2, <2>1, <2>2, NextFails
  <2> QED BY <1>2, <2>3 DEF Takes
<1>3. CASE skip
  <2>1. id' = 0
    BY <1>3, Zenon DEF skip
  <2> QED BY <1>0, <2>1, ZeroIsByte, Zenon
<1>4. CASE readID \/ readIDRest
  <2>1. step \in {"id", "id rest"} /\ id' = id
    BY <1>4, Zenon DEF readID, readIDRest, Lost, Gets, Fails
  <2> QED BY <1>0, <2>1 DEF Small
<1>5. CASE readElement
  <2>1. PICK o \in next(readers[at], 1) :
          /\ Takes(o) /\ id' = id
          /\ \/ o.err # "none"
             \/ o.err = "none" /\ More(o.b[1]) = 8
             \/ o.err = "none" /\ OpenElement(Used(readers[at], 1), o.b[1] % 128)
    <3> DEFINE r == Used(readers[at], 1)
    <3>1. PICK o \in next(readers[at], 1) :
            /\ Takes(o)
            /\ \/ Lost(o, 1)
               \/ /\ o.err = "none" /\ id' = id
                  /\ \/ OpenUnknown(r)
                     \/ OpenElement(r, o.b[1] % 128)
                     \/ step' = "size rest"
                     \/ More(o.b[1]) = 8
      BY <1>5, Zenon DEF readElement
    <3>2. ~OpenUnknown(r)
      BY DEF OpenUnknown
    <3> HIDE DEF r
    <3>3. CASE Lost(o, 1)
      BY <3>1, <3>3, Zenon DEF Lost
    <3>4. CASE ~Lost(o, 1)
      BY <3>1, <3>2, <3>4, Zenon DEF r
    <3> QED BY <3>3, <3>4
  <2>2. step = "size" /\ step \in InElement
    BY <1>5 DEF readElement, InElement
  <2>3. PICK p \in 0 .. Len(bytes) : Marks(p)
    BY <2>2
  <2>4. /\ p \in Nat /\ p < Len(bytes) /\ HasId(bytes, p)
        /\ id = IdAt(bytes, p) /\ off = After(bytes, p)
    BY <2>2, <2>3 DEF Marks
  <2>5. CASE o.err # "none"
    <3>1. Len(bytes) < off + 1 /\ off' = off
      <4>1. 1 \in 0 .. 8
        OBVIOUS
      <4> QED BY <1>2, <2>1, <2>5, <4>1
    <3>2. ~(off < Len(bytes))
      BY <1>1, <3>1
    <3>3. ~HasSize(bytes, off)
      BY <3>2 DEF HasSize
    <3>4. off' - off \in {0, 1}
      BY <1>1, <3>1
    <3> QED BY <1>1, <2>1, <2>4, <3>3, <3>4
  <2>6. CASE o.err = "none" /\ More(o.b[1]) = 8
    <3>1. Len(readers) = at /\ 1 \in 0 .. 8
      BY <2>2 DEF Chain
    <3>2. off' = off + 1 /\ o.b[1] = bytes[off + 1]
      <4>1. 1 \in 1 .. 1
        OBVIOUS
      <4> QED BY <2>1, <2>6, <3>1, <4>1, BytesRead
    <3>3. ~HasSize(bytes, off)
      <4>1. ~(8 < 8)
        OBVIOUS
      <4> QED BY <2>6, <3>2, <4>1, Zenon DEF HasSize
    <3>4. off' - off \in {0, 1}
      BY <1>1, <3>2
    <3> QED BY <1>1, <2>1, <2>4, <3>3, <3>4
  <2>7. CASE o.err = "none" /\ OpenElement(Used(readers[at], 1), o.b[1] % 128)
    <3>1. Used(readers[at], 1).len = Unknown
      <4>1. 1 \in Nat /\ readers[at] \in Readers
        BY ChainIs, ReaderIs
      <4> QED BY <4>1, UsedUnknown
    <3>2. ~(Used(readers[at], 1).len >= 0)
      BY <3>1 DEF Unknown
    <3> QED BY <2>7, <3>2, Zenon DEF OpenElement
  <2> QED BY <2>1, <2>5, <2>6, <2>7
<1>6. CASE readElementRest
  <2> DEFINE n == More(first)
             r == Used(readers[at], n)
  <2>1. PICK o \in next(readers[at], n) :
          /\ Takes(o) /\ id' = id
          /\ \/ o.err # "none"
             \/ \E z : OpenElement(r, z)
    <3>1. PICK o \in next(readers[at], n) :
            /\ Takes(o)
            /\ \/ Lost(o, n)
               \/ /\ o.err = "none" /\ id' = id
                  /\ OpenUnknown(r) \/ \E z : OpenElement(r, z)
      BY <1>6, Zenon DEF readElementRest
    <3>2. ~OpenUnknown(r)
      BY DEF OpenUnknown
    <3> HIDE DEF r, n
    <3> QED BY <3>1, <3>2, Zenon DEF Lost
  <2>2. step = "size rest" /\ step \in InElement
    BY <1>6 DEF readElementRest, InElement
  <2>3. PICK p \in 0 .. Len(bytes) : Marks(p)
    BY <2>2
  <2>4. PICK q : q = After(bytes, p)
    OBVIOUS
  <2>5. /\ p \in Nat /\ p < Len(bytes) /\ HasId(bytes, p)
        /\ id = IdAt(bytes, p) /\ off = q + 1 /\ first = bytes[off]
    BY <2>2, <2>3, <2>4 DEF Marks
  <2>6. q \in Nat
    BY <1>1, <2>4, <2>5, ByteAt
  <2>7. n \in 1 .. 7 /\ n \in Nat /\ n \in 0 .. 8 /\ n = More(bytes[q + 1])
    <3>1. n \in 1 .. 7
      BY <2>2 DEF Chain
    <3> HIDE DEF n
    <3>2. n = More(bytes[q + 1])
      BY <2>5 DEF n
    <3> QED BY <3>1, <3>2
  <2>8. o.err # "none"
    <3> SUFFICES ASSUME NEW z, OpenElement(r, z) PROVE FALSE
      BY <2>1
    <3>1. r.len = Unknown
      <4>1. readers[at] \in Readers
        BY ChainIs, ReaderIs
      <4> HIDE DEF n
      <4> QED BY <2>7, <4>1, UsedUnknown
    <3> HIDE DEF r
    <3>2. ~(r.len >= 0)
      BY <3>1 DEF Unknown
    <3> QED BY <3>2, Zenon DEF OpenElement
  <2>9. Len(bytes) < off + n /\ off' = off
    BY <1>2, <2>1, <2>7, <2>8
  <2> HIDE DEF n, r
  <2>10. ~HasSize(bytes, q)
    <3>1. ~(q + n < Len(bytes))
      BY <1>1, <2>5, <2>6, <2>7, <2>9
    <3> QED BY <2>7, <3>1 DEF HasSize
  <2>11. off' - q \in {0, 1}
    BY <2>5, <2>6, <2>9
  <2> QED BY <1>1, <2>1, <2>4, <2>5, <2>10, <2>11
<1> QED BY <1>3, <1>4, <1>5, <1>6 DEF ReadElement

LEMMA LocatedDecoding ==
  ASSUME Inv, Located, Decoding
  PROVE  Located'
<1>1. /\ ReadElement /\ phase' = phase /\ Blocks' = Blocks
  BY Zenon DEF Decoding
<1>2. Buffer /\ Chain /\ Nesting
  BY DEF Inv, Decoder
<1>3. step \notin {"element", "error"}
  BY <1>1 DEF ReadElement, skip, readID, readIDRest, readElement,
              readElementRest
<1>4. phase \in Phases /\ phase \notin Ends
  BY <1>3 DEF Located, Stopped, Inv, Loops
<1>5. /\ bytes' = bytes /\ off \in Nat /\ off' \in Nat /\ off' >= off
      /\ step' # "error" /\ src = off + Len(buffered) =>
           src' = off' + Len(buffered')
  BY <1>1, <1>2, Forward
<1>6. Listening'
  BY <1>1, <1>5, HearsNothing DEF Located
<1>7. ReadsOn
  BY <1>1, <1>2, ReadElementKeeps
<1>8. Somewhere'
  <2> SUFFICES ASSUME step' \in InElement
               PROVE  \E p \in 0 .. Len(bytes) :
                        Marks(p)' /\ PastBlocks(p)'
    BY <1>5, <1>6, Zenon DEF Somewhere, Listening
  <2>1. \E p \in 0 .. Len(bytes) :
          /\ PastBlocks(p)
          /\ step = "id" => p = off
          /\ step \in InElement => Marks(p)
    <3>1. CASE step \in InElement
      <4>1. "id" \notin InElement
        BY DEF InElement
      <4> QED BY <1>4, <3>1, <4>1, Zenon DEF Located, Somewhere
    <3>2. CASE step \notin InElement
      <4>1. off \in 0 .. Len(bytes)
        BY <1>2, Numbers DEF Buffer
      <4> QED BY <3>2, <4>1 DEF Located, Listening
    <3> QED BY <3>1, <3>2
  <2>2. PICK p \in 0 .. Len(bytes) :
          /\ PastBlocks(p)
          /\ step = "id" => p = off
          /\ step \in InElement => Marks(p)
    BY <2>1
  <2>3. Marks(p)'
    BY <1>1, <1>2, <2>2, Marking
  <2>4. PastBlocks(p)'
    BY <1>1, <2>2 DEF PastBlocks
  <2> QED BY <2>3, <2>4
<1>9. Structs'
  <2> SUFFICES ASSUME phase = "decode", NEW i \in 3 .. at
               PROVE  readers'[i].id \in StructIds
    BY <1>1, <1>7 DEF Structs, ReadsOn
  <2>1. i \in 1 .. at
    BY <1>2, ChainIs
  <2> QED BY <1>7, <2>1 DEF ReadsOn, Located, Structs
<1>10. Starting'
  <2> SUFFICES ASSUME phase \in {"EBML", "Segment"} PROVE Starting'
    BY <1>1 DEF Starting
  <2>1. at = 1 /\ readers[1].len = Unknown /\ src = off + Len(buffered)
    BY <1>3, InvIs DEF Located, Starting, Place
  <2>2. readers'[1].len = Unknown
    BY <1>1, <1>2, <2>1, StaysUnknown
  <2>3. ASSUME step' = "error", id' = Matroska_Segment
        PROVE  \E p \in 0 .. Len(bytes) - 1 :
                 /\ HasId(bytes, p) /\ IdAt(bytes, p) = Matroska_Segment
                 /\ ~HasSize(bytes, After(bytes, p))
                 /\ off' - After(bytes, p) \in {0, 1}
    <3>1. step \in InElement => \E p \in 0 .. Len(bytes) : Marks(p)
      BY <1>4, Zenon DEF Located, Somewhere
    <3> QED BY <1>1, <1>2, <2>1, <2>3, <3>1, SegmentLost DEF Located
  <2> QED BY <1>5, <2>1, <2>2, <2>3 DEF Starting
<1>11. Small'
  BY <1>1, <1>2, StaysSmall DEF Located
<1>12. Stopped' /\ PanicsForCause'
  BY <1>1, <1>4 DEF Stopped, PanicsForCause, Ends
<1> QED BY <1>6, <1>8, <1>9, <1>10, <1>11, <1>12 DEF Located

\* A step of ReadHeader or ReadContent that reads nothing.
LEMMA QuietOn ==
  ASSUME Inv, Located, NothingRead, Blocks' = Blocks, NEW p, NEW i,
         Continue(p, i), p \in Phases, p \notin {"EBML", "Segment"},
         p = "decode" => \A j \in 3 .. i : readers[j].id \in StructIds
  PROVE  Located'
<1>1. bytes' = bytes /\ off' = off /\ readers' = readers
  BY Zenon DEF NothingRead
<1>2. off \in Nat /\ off >= off
  BY Numbers DEF Inv, Decoder
<1>3. Listening'
  BY <1>1, <1>2, HearsNothing DEF Located
<1> QED BY <1>1, <1>3, Onwards

LEMMA QuietEnd ==
  ASSUME Inv, Located, NothingRead, Blocks' = Blocks, NEW p \in Ends, Stop(p),
         step \in {"element", "error"},
         p = "panic" => \E q \in 0 .. Len(bytes) - 1 : Deadly(bytes, q, off)
  PROVE  Located'
<1>1. bytes' = bytes /\ off' = off /\ readers' = readers
  BY Zenon DEF NothingRead
<1>2. off \in Nat /\ off >= off
  BY Numbers DEF Inv, Decoder
<1>3. Listening'
  BY <1>1, <1>2, HearsNothing DEF Located
<1> QED BY <1>1, <1>3, Ceases

LEMMA ContentOn ==
  ASSUME Inv, Located, NothingRead, Blocks' = Blocks, NEW i,
         NEW p \in {"level 1", "content", "timestamp", "blocks", "group"},
         Continue(p, i)
  PROVE  Located'
<1>1. p \in Phases /\ p \notin {"EBML", "Segment"} /\ p # "decode"
  BY DEF Phases
<1> QED BY <1>1, QuietOn, Zenon

LEMMA DecodeOn ==
  ASSUME Inv, Located, NothingRead, Blocks' = Blocks, NEW i,
         Continue("decode", i), \A j \in 3 .. i : readers[j].id \in StructIds
  PROVE  Located'
<1>1. "decode" \in Phases /\ "decode" \notin {"EBML", "Segment"}
  BY DEF Phases
<1> QED BY <1>1, QuietOn, Zenon

LEMMA LocatedReadHeader ==
  ASSUME Inv, Located, ReadHeader
  PROVE  Located'
<1>1. /\ phase = "EBML" /\ NothingRead /\ Blocks' = Blocks
      /\ \/ step = "element" /\ Continue("Segment", 1)
         \/ Continue("content", 1)
  BY DEF ReadHeader
<1>2. CASE Continue("content", 1)
  BY <1>1, <1>2, ContentOn
<1>3. CASE step = "element" /\ Continue("Segment", 1)
  <2>1. /\ bytes' = bytes /\ off' = off /\ readers' = readers /\ src' = src
        /\ buffered' = buffered
    BY <1>1, Zenon DEF NothingRead
  <2>2. phase' = "Segment" /\ at' = 1 /\ step' = "skip"
    BY <1>3 DEF Continue, ReadNext
  <2>3. Listening'
    <3>1. off \in Nat /\ off >= off
      BY Numbers DEF Inv, Decoder
    <3> QED BY <1>1, <2>1, <3>1, HearsNothing DEF Located
  <2>4. Starting'
    <3>1. readers[1].len = Unknown /\ src = off + Len(buffered)
      BY <1>1, <1>3 DEF Located, Starting
    <3> QED BY <2>1, <2>2, <3>1 DEF Starting
  <2>5. Somewhere' /\ Structs' /\ Small' /\ Stopped' /\ PanicsForCause'
    BY <2>2, <2>3 DEF Somewhere, InElement, Listening, Structs, Small, Stopped,
                      PanicsForCause, Ends
  <2> QED BY <2>3, <2>4, <2>5 DEF Located
<1> QED BY <1>1, <1>2, <1>3

LEMMA LocatedReadSegment ==
  ASSUME Inv, Located, ReadSegment
  PROVE  Located'
<1>1. /\ phase = "Segment" /\ NothingRead /\ Blocks' = Blocks
      /\ \/ Continue("content", 1)
         \/ Continue("level 1", 2)
         \/ step = "error" /\ id = Matroska_Segment /\ Stop("panic")
  BY DEF ReadSegment, Found
<1>2. CASE Continue("content", 1)
  BY <1>1, <1>2, ContentOn
<1>3. CASE Continue("level 1", 2)
  BY <1>1, <1>3, ContentOn
<1>4. CASE step = "error" /\ id = Matroska_Segment /\ Stop("panic")
  <2>1. PICK p \in 0 .. Len(bytes) - 1 :
          /\ HasId(bytes, p) /\ IdAt(bytes, p) = Matroska_Segment
          /\ ~HasSize(bytes, After(bytes, p))
          /\ off - After(bytes, p) \in {0, 1}
    BY <1>1, <1>4 DEF Located, Starting
  <2>2. Deadly(bytes, p, off)
    BY <2>1 DEF Deadly
  <2> QED BY <1>1, <1>4, <2>2, QuietEnd DEF Ends
<1> QED BY <1>1, <1>2, <1>3, <1>4

LEMMA LocatedReadLevel1 ==
  ASSUME Inv, Located, ReadLevel1
  PROVE  Located'
<1>1. /\ phase = "level 1" /\ NothingRead /\ Blocks' = Blocks
      /\ \/ Continue("content", 1)
         \/ Continue("level 1", 2)
         \/ /\ step = "element" /\ id \in {Matroska_Info, Matroska_Tracks}
            /\ Continue("decode", 3)
  BY DEF ReadLevel1, Found, Other
<1>2. CASE Continue("content", 1)
  BY <1>1, <1>2, ContentOn
<1>3. CASE Continue("level 1", 2)
  BY <1>1, <1>3, ContentOn
<1>4. CASE /\ step = "element" /\ id \in {Matroska_Info, Matroska_Tracks}
           /\ Continue("decode", 3)
  <2>1. at = 2
    BY <1>1, InvIs DEF Place
  <2>2. readers[at + 1] = elem /\ elem.id = id
    BY <1>1, <1>4, ElementAt DEF Phases
  <2>3. readers[3].id \in StructIds
    <3>1. id \in StructIds
      BY <1>4, Zenon DEF StructIds
    <3>2. readers[3].id = id
      BY <2>1, <2>2
    <3> QED BY <3>1, <3>2
  <2>4. \A j \in 3 .. 3 : readers[j].id \in StructIds
    BY <2>3
  <2> QED BY <1>1, <1>4, <2>4, DecodeOn
<1> QED BY <1>1, <1>2, <1>3, <1>4

LEMMA LocatedEndOfStruct ==
  ASSUME Inv, Located, EndOfStruct
  PROVE  Located'
<1>1. phase = "decode" /\ NothingRead /\ Blocks' = Blocks
  BY DEF EndOfStruct
<1>2. \/ Continue("content", 2) \/ Continue("level 1", 2)
      \/ Continue("content", 1) \/ Continue("decode", at - 1)
  BY Zenon DEF EndOfStruct, Decoded, HeaderFails
<1>3. CASE Continue("content", 2) \/ Continue("content", 1)
           \/ Continue("level 1", 2)
  BY <1>1, <1>3, ContentOn
<1>4. CASE Continue("decode", at - 1)
  <2>1. at \in Nat /\ \A j \in 3 .. at : readers[j].id \in StructIds
    BY <1>1, InvIs DEF Located, Structs
  <2>2. \A j \in 3 .. at - 1 : readers[j].id \in StructIds
    BY <2>1
  <2> QED BY <1>1, <1>4, <2>2, DecodeOn
<1> QED BY <1>2, <1>3, <1>4

LEMMA LocatedNotMapped ==
  ASSUME Inv, Located, NotMapped
  PROVE  Located'
<1>1. /\ phase = "decode" /\ NothingRead /\ Blocks' = Blocks
      /\ Continue("decode", at)
  BY DEF NotMapped
<1>2. \A j \in 3 .. at : readers[j].id \in StructIds
  BY <1>1 DEF Located, Structs
<1> QED BY <1>1, <1>2, DecodeOn

\* What is decoded is a field of a struct.
LEMMA FieldIs ==
  ASSUME Inv, Located, phase = "decode", Found(DOMAIN Fields)
  PROVE  /\ readers[at].id \in StructIds /\ id \in DOMAIN Fields
         /\ step = "element" /\ Fields = getStructMapping(readers[at].id)
         /\ at \in Nat /\ at >= 3
<1>1. at \in Nat /\ at >= 3
  BY InvIs DEF Place
<1>2. at \in 3 .. at
  BY <1>1
<1> QED BY <1>1, <1>2 DEF Located, Structs, Found, Fields

LEMMA LocatedunmarshalStruct ==
  ASSUME Inv, Located, unmarshalStruct
  PROVE  Located'
<1>1. /\ phase = "decode" /\ NothingRead /\ Blocks' = Blocks
      /\ Found(DOMAIN Fields) /\ Fields[id] = "struct"
      /\ Continue("decode", at + 1)
  BY DEF unmarshalStruct
<1>2. id \in StructIds /\ at \in Nat /\ at >= 3 /\ step = "element"
  BY <1>1, FieldIs, StructFields
<1>3. readers[at + 1] = elem /\ elem.id = id
  BY <1>1, <1>2, ElementAt DEF Phases
<1>4. ASSUME NEW j \in 3 .. at + 1 PROVE readers[j].id \in StructIds
  <2>1. CASE j = at + 1
    BY <1>2, <1>3, <2>1
  <2>2. CASE j # at + 1
    <3>1. j \in 3 .. at
      BY <1>2, <2>2
    <3> QED BY <1>1, <3>1 DEF Located, Structs
  <2> QED BY <2>1, <2>2
<1> QED BY <1>1, <1>4, DecodeOn

LEMMA LocatedunmarshalUnknown ==
  ASSUME Inv, Located, unmarshalUnknown
  PROVE  Located'
<1>1. /\ phase = "decode" /\ NothingRead /\ Blocks' = Blocks
      /\ Found(DOMAIN Fields) /\ Fields[id] = "bytes"
      /\ elem.len = Unknown /\ Stop("panic")
  BY DEF unmarshalUnknown
<1>2. /\ readers[at].id \in StructIds /\ id \in DOMAIN Fields
      /\ step = "element" /\ Fields = getStructMapping(readers[at].id)
  BY <1>1, FieldIs
<1>3. id \in SliceIds
  <2>1. id \in FieldsOfType(readers[at].id, {"bytes"})
    BY <1>1, <1>2 DEF FieldsOfType
  <2> QED BY <1>2, <2>1, Zenon DEF SliceIds
<1>4. PICK p \in 0 .. Len(bytes) - 1 :
        /\ Begins(bytes, p) /\ off = BodyAt(bytes, p)
        /\ id = IdAt(bytes, p) /\ elem.len = LenAt(bytes, p)
  BY <1>1, <1>2, ElementAt DEF Phases
<1>5. Deadly(bytes, p, off)
  BY <1>1, <1>3, <1>4, Zenon DEF Deadly
<1> QED BY <1>1, <1>2, <1>5, QuietEnd DEF Ends

LEMMA LocatedReadContent ==
  ASSUME Inv, Located, ReadContent
  PROVE  Located'
<1>1. /\ NothingRead /\ Blocks' = Blocks
      /\ \/ Continue("timestamp", dec + 1) \/ Continue("content", dec)
         \/ step = "error" /\ (Stop("EOF") \/ Stop("failed"))
  BY DEF ReadContent
<1>2. CASE Continue("timestamp", dec + 1) \/ Continue("content", dec)
  BY <1>1, <1>2, ContentOn
<1>3. CASE step = "error" /\ (Stop("EOF") \/ Stop("failed"))
  BY <1>1, <1>3, QuietEnd DEF Ends
<1> QED BY <1>1, <1>2, <1>3

LEMMA LocatedNoTimestamp ==
  ASSUME Inv, Located, NoTimestamp
  PROVE  Located'
<1>1. /\ NothingRead /\ Blocks' = Blocks
      /\ Continue("timestamp", at) \/ (step = "error" /\ Stop("failed"))
  BY DEF NoTimestamp
<1>2. CASE Continue("timestamp", at)
  BY <1>1, <1>2, ContentOn
<1>3. CASE step = "error" /\ Stop("failed")
  BY <1>1, <1>3, QuietEnd DEF Ends
<1> QED BY <1>1, <1>2, <1>3

LEMMA LocatedEndOfCluster ==
  ASSUME Inv, Located, EndOfCluster
  PROVE  Located'
<1>1. /\ NothingRead /\ Blocks' = Blocks /\ step = "error"
      /\ Continue("content", dec) \/ Continue("blocks", at - 1) \/ Stop("failed")
  BY DEF EndOfCluster
<1>2. CASE Continue("content", dec) \/ Continue("blocks", at - 1)
  BY <1>1, <1>2, ContentOn
<1>3. CASE Stop("failed")
  BY <1>1, <1>3, QuietEnd DEF Ends
<1> QED BY <1>1, <1>2, <1>3

LEMMA LocatedInCluster ==
  ASSUME Inv, Located, InCluster
  PROVE  Located'
<1>1. /\ NothingRead /\ Blocks' = Blocks
      /\ \/ Continue("group", at + 1) \/ Continue("blocks", at)
         \/ Continue("group", at)
  BY DEF InCluster
<1> QED BY <1>1, ContentOn

\* A value that is read is left behind.
LEMMA ValueForward ==
  ASSUME Inv, step = "element", NEW lengths \in SUBSET Nat,
         NEW o \in ReadValue(lengths), ReadsValue(o)
  PROVE  bytes' = bytes /\ off \in Nat /\ off' \in Nat /\ off' >= off
<1>1. Buffer /\ readers \in Seq(Readers) /\ Len(readers) \in 1 .. Len(readers)
  BY ChainIs DEF Inv, Decoder
<1>2. bytes' = bytes /\ off' = o.off
  BY DEF ReadsValue, Takes
<1>3. \E n \in Nat : Leaves(o, n)
  <2>1. CASE elem.len \in lengths
    <3>1. o \in next(elem, elem.len) /\ elem.len \in Nat
      BY <2>1 DEF ReadValue
    <3>2. elem.len \in Int /\ elem.len >= -1
      BY <1>1, ReaderIs DEF elem
    <3> QED BY <1>1, <3>1, <3>2, ReaderNextLeaves
  <2>2. CASE elem.len \notin lengths
    <3>1. o = Outcome("format", src, buffered, off, <<>>)
      BY <2>2 DEF ReadValue
    <3>2. "format" \in Errors \ {"none"} /\ 0 \in Nat
      BY DEF Errors
    <3>3. Leaves(o, 0)
      BY <1>1, <3>1, <3>2, FailsUnread, Zenon
    <3> QED BY <3>2, <3>3
  <2> QED BY <2>1, <2>2
<1>4. PICK n \in Nat : Leaves(o, n)
  BY <1>3
<1>5. off \in Nat /\ o.off \in off .. off + n
  BY <1>1, <1>4, Numbers DEF Leaves
<1> QED BY <1>2, <1>4, <1>5

LEMMA ValueOn ==
  ASSUME Inv, Located, step = "element", NEW t \in DOMAIN Lengths,
         NEW o \in ReadValue(Lengths[t]), ReadsValue(o), Blocks' = Blocks
  PROVE  /\ Listening' /\ bytes' = bytes
         /\ \A j \in 1 .. Len(readers) : readers'[j].id = readers[j].id
<1>1. PICK lengths \in SUBSET Nat : lengths = Lengths[t]
  BY TypesOfLengths, Zenon
<1>2. o \in ReadValue(lengths)
  BY <1>1, Zenon
<1>3. bytes' = bytes /\ off \in Nat /\ off' \in Nat /\ off' >= off
  BY <1>2, ValueForward
<1>4. Listening'
  BY <1>3, HearsNothing DEF Located
<1>5. Decoder
  BY DEF Inv
<1>6. \A j \in 1 .. Len(readers) : readers'[j].id = readers[j].id
  BY <1>2, <1>5, ValueRead, Zenon
<1> QED BY <1>3, <1>4, <1>6

LEMMA Locatedunmarshal ==
  ASSUME Inv, Located, unmarshal
  PROVE  Located'
<1>1. /\ phase = "decode" /\ step = "element" /\ Fields[id] \in DOMAIN Lengths
      /\ Blocks' = Blocks
  BY DEF unmarshal, Found
<1>2. PICK o \in ReadValue(Lengths[Fields[id]]) :
        ReadsValue(o) /\ (Continue("decode", at) \/ Continue("content", 1))
  BY Zenon DEF unmarshal, HeaderFails
<1>3. PICK t \in DOMAIN Lengths : t = Fields[id]
  BY <1>1, Zenon
<1>4. o \in ReadValue(Lengths[t])
  BY <1>2, <1>3, Zenon
<1>5. /\ Listening' /\ bytes' = bytes
      /\ \A j \in 1 .. Len(readers) : readers'[j].id = readers[j].id
  BY <1>1, <1>2, <1>4, ValueOn
<1>6. CASE Continue("content", 1)
  <2>1. "content" \in Phases /\ "content" \notin {"EBML", "Segment"}
        /\ "content" # "decode"
    BY DEF Phases
  <2> QED BY <1>5, <1>6, <2>1, Onwards, Zenon
<1>7. CASE Continue("decode", at)
  <2>1. "decode" \in Phases /\ "decode" \notin {"EBML", "Segment"}
    BY DEF Phases
  <2>2. ASSUME NEW j \in 3 .. at PROVE readers'[j].id \in StructIds
    <3>1. j \in 1 .. Len(readers)
      BY InvIs
    <3> QED BY <1>1, <1>5, <3>1 DEF Located, Structs
  <2> QED BY <1>5, <1>7, <2>1, <2>2, Onwards, Zenon
<1> QED BY <1>2, <1>6, <1>7

LEMMA LocatedReadTimestamp ==
  ASSUME Inv, Located, ReadTimestamp
  PROVE  Located'
<1>1. phase = "timestamp" /\ step = "element" /\ Blocks' = Blocks
  BY DEF ReadTimestamp, Found
<1>2. PICK o \in ReadValue(Lengths.int) :
        ReadsValue(o) /\ (Continue("blocks", at) \/ Stop("failed"))
  BY Zenon DEF ReadTimestamp
<1>3. PICK t \in DOMAIN Lengths : Lengths[t] = Lengths.int
  <2>1. "int" \in DOMAIN Lengths
    BY DEF Lengths
  <2> QED BY <2>1
<1>4. o \in ReadValue(Lengths[t])
  BY <1>2, <1>3, Zenon
<1>5. Listening' /\ bytes' = bytes
  BY <1>1, <1>2, <1>4, ValueOn
<1>6. CASE Continue("blocks", at)
  <2>1. "blocks" \in Phases /\ "blocks" \notin {"EBML", "Segment"}
        /\ "blocks" # "decode"
    BY DEF Phases
  <2> QED BY <1>5, <1>6, <2>1, Onwards, Zenon
<1>7. CASE Stop("failed")
  <2>1. "failed" \in Ends /\ "failed" # "panic" /\ step \in {"element", "error"}
    BY <1>1 DEF Ends
  <2> QED BY <1>5, <1>7, <2>1, Ceases, Zenon
<1> QED BY <1>2, <1>6, <1>7

LEMMA HeardOne ==
  ASSUME Listening, bytes' = bytes, NEW p \in Nat, IsBlock(bytes, p),
         Playable(ContentAt(bytes, p)), PastBlocks(p),
         NEW x \in [place : Nat, size : Nat, data : Seq(Byte)],
         x = BlockAt(bytes, p), Blocks' = Append(Blocks, x),
         off' = x.place + x.size, x.place - p \in 2 .. 12
  PROVE  Listening'
<1>1. Kept /\ Genuine
  BY DEF Listening
<1>2. PICK l \in Nat : l = Len(Blocks)
  BY <1>1, KeptIs
<1>3. /\ Kept' /\ Len(Blocks') = l + 1 /\ Blocks'[l + 1] = x
      /\ \A i \in 1 .. l : Blocks'[i] = Blocks[i]
  <2>1. ASSUME NEW S, Blocks \in Seq(S), x \in S
        PROVE  /\ Blocks' \in Seq(S) /\ Len(Blocks') = l + 1
               /\ Blocks'[l + 1] = x
               /\ \A i \in 1 .. l : Blocks'[i] = Blocks[i]
    BY <1>2, <2>1
  <2> QED BY <1>1, <2>1, Zenon DEF Kept
<1>4. PastBlocks(off)'
  BY <1>3 DEF PastBlocks
<1>5. DOMAIN Blocks' = 1 .. l + 1
  <2>1. ASSUME NEW S, Blocks' \in Seq(S) PROVE DOMAIN Blocks' = 1 .. l + 1
    BY <1>3, <2>1
  <2> QED BY <1>3, <2>1, Zenon DEF Kept
<1> DEFINE Heard1(i, q) ==
      /\ q \in {Blocks'[i].place - n : n \in 2 .. 12} \cap Nat
      /\ IsBlock(bytes, q) /\ Playable(ContentAt(bytes, q))
      /\ Blocks'[i] = BlockAt(bytes, q)
      /\ i > 1 => Blocks'[i - 1].place + Blocks'[i - 1].size <= q
<1>6. ASSUME NEW i \in 1 .. l PROVE \E q : Heard1(i, q)
  <2>1. i \in DOMAIN Blocks
    BY <1>1, <1>2, KeptIs
  <2>2. PICK q \in {Blocks[i].place - n : n \in 2 .. 12} \cap Nat :
          /\ IsBlock(bytes, q) /\ Playable(ContentAt(bytes, q))
          /\ Blocks[i] = BlockAt(bytes, q)
          /\ i > 1 => Blocks[i - 1].place + Blocks[i - 1].size <= q
    BY <1>1, <2>1 DEF Genuine
  <2>3. Blocks'[i] = Blocks[i]
    BY <1>3
  <2>4. i > 1 => Blocks'[i - 1] = Blocks[i - 1]
    <3>1. i > 1 => i - 1 \in 1 .. l
      OBVIOUS
    <3> QED BY <1>3, <3>1
  <2> QED BY <2>2, <2>3, <2>4, Zenon
<1>7. Heard1(l + 1, p)
  <2>1. p \in {x.place - n : n \in 2 .. 12}
    <3>1. PICK n \in 2 .. 12 : n = x.place - p
      OBVIOUS
    <3>2. p = x.place - n
      BY <3>1
    <3> QED BY <3>2
  <2>2. l + 1 > 1 => Blocks'[l].place + Blocks'[l].size <= p
    <3> SUFFICES ASSUME l + 1 > 1
                 PROVE  Blocks'[l].place + Blocks'[l].size <= p
      OBVIOUS
    <3>1. l \in 1 .. l /\ Len(Blocks) >= 1
      BY <1>2
    <3>2. Blocks # <<>>
      BY <1>1, <3>1, KeptIs
    <3>3. Blocks[l].place + Blocks[l].size <= p
      BY <1>2, <3>2, Zenon DEF PastBlocks
    <3>4. Blocks'[l] = Blocks[l]
      BY <1>3, <3>1
    <3> QED BY <3>3, <3>4, Zenon
  <2>3. (l + 1) - 1 = l
    OBVIOUS
  <2> QED BY <1>3, <2>1, <2>2, <2>3
<1>8. ASSUME NEW i \in 1 .. l + 1 PROVE \E q : Heard1(i, q)
  <2>1. i \in 1 .. l \/ i = l + 1
    OBVIOUS
  <2> HIDE DEF Heard1
  <2> QED BY <1>6, <1>7, <2>1, Zenon
<1>9. Genuine'
  BY <1>5, <1>8, Zenon DEF Genuine
<1> QED BY <1>3, <1>4, <1>9 DEF Listening

\* What is read of a block is its content.
LEMMA ContentIs ==
  ASSUME Buffer, NEW p \in Nat, Begins(bytes, p), off = BodyAt(bytes, p),
         IdAt(bytes, p) \in BlockIds, NEW n, n = LenAt(bytes, p), n # Unknown,
         NEW o \in Read(n), o.err = "none"
  PROVE  /\ o.b = ContentAt(bytes, p) /\ IsBlock(bytes, p)
         /\ o.b \in Seq(Byte) /\ Len(o.b) = n /\ n \in Nat
         /\ o.off = off + n /\ off \in Nat /\ off - p \in 2 .. 12
<1>1. /\ off \in Nat /\ Len(bytes) \in Nat /\ bytes \in Seq(Byte)
  BY Numbers DEF Buffer
<1>2. n \in Nat /\ off - p \in 2 .. 12
  BY <1>1, BeginsIs
<1>3. Leaves(o, n) /\ Returns(o, n)
  BY <1>2, ReadLeaves
<1>4. o.b = SubSeq(bytes, off + 1, off + n) /\ off + n <= Len(bytes)
  BY <1>2, ReadBytes
<1>5. o.b = ContentAt(bytes, p)
  BY <1>4 DEF ContentAt
<1>6. IsBlock(bytes, p)
  BY <1>4 DEF IsBlock
<1> QED BY <1>1, <1>2, <1>3, <1>5, <1>6 DEF Leaves, Returns

LEMMA LocatedReadBlock ==
  ASSUME Inv, Located, ReadBlock
  PROVE  Located'
<1>1. /\ phase \in {"blocks", "group"} /\ step = "element" /\ parseBlock
      /\ id \in BlockIds
  BY DEF ReadBlock, Found, BlockIds
<1>2. /\ phase \in Phases /\ phase \notin {"EBML", "Segment"}
      /\ phase # "decode" /\ "panic" \in Ends /\ step \in {"element", "error"}
  BY <1>1 DEF Phases, Ends
<1>3. PICK p \in 0 .. Len(bytes) - 1 :
        /\ PastBlocks(p) /\ p \in Nat
        /\ Begins(bytes, p) /\ off = BodyAt(bytes, p)
        /\ id = IdAt(bytes, p) /\ elem.len = LenAt(bytes, p)
  BY <1>1, <1>2, ElementAt
<1>4. Buffer
  BY DEF Inv, Decoder
<1>5. PICK n : n = LenAt(bytes, p)
  OBVIOUS
<1>6. CASE ~CanMake(n)
  <2>1. Stop("panic") /\ NothingRead /\ Blocks' = Blocks
    BY <1>1, <1>3, <1>5, <1>6, Zenon DEF parseBlock
  <2>2. Deadly(bytes, p, off)
    BY <1>1, <1>3, <1>5, <1>6, Zenon DEF Deadly
  <2> QED BY <1>2, <2>1, <2>2, QuietEnd
<1>7. CASE CanMake(n)
  <2>1. PICK o \in Read(n) :
          /\ Takes(o) /\ bytes' = bytes
          /\ \/ o.err # "none" /\ Blocks' = Blocks /\ Continue(phase, at)
             \/ /\ o.err = "none"
                /\ Blocks' = IF Parsed(o.b) = "block"
                             THEN Append(Blocks, Heard(afterVInt(o.b)))
                             ELSE Blocks
                /\ IF Parsed(o.b) = "panic" THEN Stop("panic")
                   ELSE Continue(phase, at)
    BY <1>1, <1>3, <1>5, <1>7, Zenon DEF parseBlock
  <2>2. n \in Nat /\ n # Unknown /\ off \in Nat
    BY <1>4, <1>7, Makeable, Numbers
  <2>3. off' \in Nat /\ off' >= off
    <3>1. off' = o.off /\ o.off \in off .. off + n
      BY <1>4, <2>1, <2>2, ReadLeaves DEF Takes, Leaves
    <3> QED BY <2>2, <3>1
  <2>4. Blocks' = Blocks => Listening'
    BY <2>1, <2>2, <2>3, HearsNothing DEF Located
  <2>5. CASE o.err # "none" /\ Blocks' = Blocks /\ Continue(phase, at)
    BY <1>2, <2>1, <2>4, <2>5, Onwards, Zenon
  <2>6. CASE /\ o.err = "none"
             /\ Blocks' = IF Parsed(o.b) = "block"
                          THEN Append(Blocks, Heard(afterVInt(o.b)))
                          ELSE Blocks
             /\ IF Parsed(o.b) = "panic" THEN Stop("panic")
                ELSE Continue(phase, at)
    <3>1. /\ o.b = ContentAt(bytes, p) /\ IsBlock(bytes, p)
          /\ o.b \in Seq(Byte) /\ Len(o.b) = n
          /\ o.off = off + n /\ off - p \in 2 .. 12
      BY <1>1, <1>3, <1>4, <1>5, <2>2, <2>6, ContentIs
    <3>2. PICK c \in Seq(Byte) : c = o.b /\ c = ContentAt(bytes, p)
      BY <3>1
    <3>3. /\ Parsed(c) = "panic" => OnlyTime(c)
          /\ Parsed(c) = "block" <=> Playable(c)
          /\ Playable(c) =>
               SubSeq(afterVInt(c), 4, Len(afterVInt(c))) =
                 SubSeq(c, TrackLength(c) + 4, Len(c))
      BY ParsedIs
    <3>4. off' = off + n
      BY <2>1, <3>1 DEF Takes
    <3>5. Listening'
      <4>1. CASE Parsed(c) = "block"
        <5>1. PICK x : x = Heard(afterVInt(c))
          OBVIOUS
        <5>2. Blocks' = Append(Blocks, x) /\ Playable(c)
          BY <2>6, <3>2, <3>3, <4>1, <5>1, Zenon
        <5>3. PICK d : d = SubSeq(c, TrackLength(c) + 4, Len(c))
          OBVIOUS
        <5>4. x = [place |-> off, size |-> n, data |-> d]
          <6>1. x = [place |-> off, size |-> elem.len,
                     data |-> SubSeq(afterVInt(c), 4, Len(afterVInt(c)))]
            BY <5>1, Zenon DEF Heard
          <6> QED BY <1>3, <1>5, <3>3, <5>2, <5>3, <6>1, Zenon
        <5>5. x = BlockAt(bytes, p)
          <6>1. d = SubSeq(ContentAt(bytes, p),
                           TrackLength(ContentAt(bytes, p)) + 4,
                           LenAt(bytes, p))
            BY <1>5, <3>1, <3>2, <5>3, Zenon
          <6> QED BY <1>3, <1>5, <5>4, <6>1, Zenon DEF BlockAt
        <5>6. d \in Seq(Byte)
          <6>1. PICK t \in Nat : t = TrackLength(c) + 3 /\ t < Len(c)
                                 /\ t + 1 = TrackLength(c) + 4
            <7>1. TrackLength(c) \in Nat
              BY MoreBytes DEF TrackLength
            <7>2. Len(c) > TrackLength(c) + 3
              BY <5>2 DEF Playable
            <7> QED BY <7>1, <7>2
          <6>2. Len(c) \in t .. Len(c)
            BY <6>1
          <6>3. SubSeq(c, t + 1, Len(c)) \in Seq(Byte)
            BY <6>1, <6>2, Piece
          <6> QED BY <5>3, <6>1, <6>3, Zenon
        <5>7. /\ x \in [place : Nat, size : Nat, data : Seq(Byte)]
              /\ x.place = off /\ x.size = n
          BY <2>2, <5>4, <5>6
        <5>8. off' = x.place + x.size /\ x.place - p \in 2 .. 12
          BY <3>1, <3>4, <5>7, Zenon
        <5>9. Playable(ContentAt(bytes, p))
          BY <3>2, <5>2, Zenon
        <5> QED BY <1>3, <2>1, <3>1, <5>2, <5>5, <5>7, <5>8, <5>9, HeardOne
                DEF Located
      <4>2. CASE Parsed(c) # "block"
        BY <2>4, <2>6, <3>2, <4>2, Zenon
      <4> QED BY <4>1, <4>2
    <3>6. CASE Parsed(c) = "panic"
      <4>1. Stop("panic")
        BY <2>6, <3>2, <3>6, Zenon
      <4>2. OnlyTime(ContentAt(bytes, p)) /\ off' = BodyAt(bytes, p) + LenAt(bytes, p)
        BY <1>3, <1>5, <3>2, <3>3, <3>4, <3>6, Zenon
      <4>3. Deadly(bytes, p, off')
        BY <3>1, <4>2, Zenon DEF Deadly
      <4> QED BY <1>2, <2>1, <3>5, <4>1, <4>3, Ceases
    <3>7. CASE Parsed(c) # "panic"
      <4>1. Continue(phase, at)
        BY <2>6, <3>2, <3>7, Zenon
      <4> QED BY <1>2, <2>1, <3>5, <4>1, Onwards, Zenon
    <3> QED BY <3>6, <3>7
  <2> QED BY <2>1, <2>5, <2>6
<1> QED BY <1>6, <1>7

-----------------------------------------------------------------------------

LEMMA LocatedInit == NewMatroska => Located
<1> SUFFICES ASSUME NewMatroska PROVE Located
  OBVIOUS
<1>1. /\ src = 0 /\ buffered = <<>> /\ off = 0
      /\ readers = <<Reader(0, Unknown, Unknown)>>
      /\ step = "skip" /\ phase = "EBML" /\ Blocks = <<>>
  BY Zenon DEF NewMatroska, NewReader
<1>2. Listening
  <2>1. Kept
    <3>1. \A S : <<>> \in Seq(S)
      OBVIOUS
    <3> QED BY <1>1, <3>1, Zenon DEF Kept
  <2>2. DOMAIN Blocks = {}
    BY <1>1
  <2> QED BY <1>1, <2>1, <2>2 DEF Listening, PastBlocks, Genuine
<1>3. Somewhere /\ Structs /\ Small /\ Stopped /\ PanicsForCause
  BY <1>1, <1>2 DEF Somewhere, Listening, Structs, Small, Stopped,
                    PanicsForCause, InElement, Ends
<1>4. Starting
  <2>1. readers[1].len = Unknown
    BY <1>1 DEF Reader
  <2>2. src = off + Len(buffered)
    <3>1. Len(buffered) = 0 /\ 0 + 0 = 0
      BY <1>1
    <3> QED BY <1>1, <3>1, Zenon
  <2> QED BY <1>1, <2>1, <2>2 DEF Starting
<1> QED BY <1>2, <1>3, <1>4 DEF Located

LEMMA LocatedNext == Inv /\ Located /\ [MatroskaNext]_vars => Located'
<1> SUFFICES ASSUME Inv, Located, [MatroskaNext]_vars PROVE Located'
  OBVIOUS
<1>1. CASE MatroskaNext
  BY <1>1, LocatedDecoding, LocatedReadHeader, LocatedReadSegment,
     LocatedReadLevel1, LocatedEndOfStruct, LocatedNotMapped,
     LocatedunmarshalStruct, Locatedunmarshal, LocatedunmarshalUnknown,
     LocatedReadContent, LocatedNoTimestamp, LocatedReadTimestamp,
     LocatedEndOfCluster, LocatedInCluster, LocatedReadBlock,
     Zenon DEF MatroskaNext, Header, Content
<1>2. CASE UNCHANGED vars
  <2>1. /\ bytes' = bytes /\ src' = src /\ buffered' = buffered /\ off' = off
        /\ readers' = readers /\ at' = at /\ step' = step /\ first' = first
        /\ id' = id /\ phase' = phase /\ Blocks' = Blocks
    BY <1>2, Zenon DEF vars, decoderVars
  <2>2. Listening' /\ Structs' /\ Small' /\ Stopped' /\ PanicsForCause'
    BY <2>1, Zenon DEF Located, Listening, PastBlocks, Genuine, Kept, Structs,
                       Small, Stopped, PanicsForCause
  <2>3. \A p : Marks(p) => Marks(p)'
    BY <2>1, Zenon DEF Marks
  <2>4. Somewhere'
    BY <2>1, <2>2, <2>3, Zenon
       DEF Located, Somewhere, PastBlocks, Listening
  <2>5. Starting'
    BY <2>1, Zenon DEF Located, Starting
  <2> QED BY <2>2, <2>4, <2>5 DEF Located
<1> QED BY <1>1, <1>2

\* The reader panics only where it has come to something in the file that is the
\* cause.
THEOREM PanicsForCauseAlways == Spec => []PanicsForCause
<1>1. Inv /\ Located /\ [MatroskaNext]_vars => (Inv /\ Located)'
  BY InvNext, LocatedNext
<1>2. Located => PanicsForCause
  BY DEF Located
<1> QED BY <1>1, <1>2, InvInit, LocatedInit, PTL DEF Spec

\* Whatever the file, what is heard is the data of blocks in it, in their order
\* and none twice.
THEOREM GenuineAlways == Spec => []Genuine
<1>1. Inv /\ Located /\ [MatroskaNext]_vars => (Inv /\ Located)'
  BY InvNext, LocatedNext
<1>2. Located => Genuine
  BY DEF Located, Listening
<1> QED BY <1>1, <1>2, InvInit, LocatedInit, PTL DEF Spec
=============================================================================
