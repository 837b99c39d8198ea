--------------------------- MODULE DatagramProofs ---------------------------
(***************************************************************************)
(* What is proved about the datagrams of Datagram.tla: that a number is    *)
(* read as it was written, that OCB2 as the code computes it is OCB2 as it *)
(* is defined and takes its own datagrams back, and with that what becomes *)
(* of every voice packet and ping, whatever their numbers, lengths, times  *)
(* and bytes are.                                                          *)
(***************************************************************************)
EXTENDS Datagram, WellFoundedInduction, SequenceTheorems, TLAPS

-----------------------------------------------------------------------------
(* Natural numbers: induction, and functions given by recursion.            *)

\* Every set of natural numbers that is not empty has a least one.
LEMMA LeastNumber ==
  ASSUME NEW T \in SUBSET Nat, T # {}
  PROVE  \E n \in T : \A m \in T : n <= m
<1> DEFINE R == {p \in Nat \X Nat : p[1] < p[2]}
<1>1. R = OpToRel(<, Nat)
  BY DEF OpToRel
<1>2. IsWellFoundedOn(R, Nat)
  BY <1>1, NatLessThanWellFounded, Zenon
<1>3. \E x \in T : \A y \in T : ~ (<<y, x>> \in R)
  <2> HIDE DEF R
  <2> QED BY <1>2, WFMin, Zenon
<1>4. PICK n \in T : \A m \in T : ~ (<<m, n>> \in R)
  BY <1>3
<1>5. ASSUME NEW m \in T PROVE n <= m
  <2>1. n \in Nat /\ m \in Nat
    OBVIOUS
  <2>2. m < n => <<m, n>> \in R
    BY <2>1
  <2> QED BY <1>4, <2>1, <2>2
<1> QED BY <1>5

\* Induction: a set that holds 0 and with every number its successor holds all
\* natural numbers.
LEMMA Induction ==
  ASSUME NEW S,
         0 \in S,
         \A n \in Nat : n \in S => n + 1 \in S
  PROVE  Nat \subseteq S
<1> DEFINE T == Nat \ S
<1>1. SUFFICES ASSUME T # {} PROVE FALSE
  OBVIOUS
<1>2. PICK n \in T : \A m \in T : n <= m
  BY <1>1, LeastNumber
<1>3. n \in Nat /\ n # 0 /\ n - 1 \in Nat /\ ~ (n <= n - 1) /\ (n - 1) + 1 = n
  BY <1>2
<1>4. n - 1 \in S
  BY <1>2, <1>3
<1> QED BY <1>2, <1>3, <1>4

\* f is given up to k by a first value and a function that makes the i-th value
\* from the one before it.
IsRecursion(f, S, s, rule, k) ==
  /\ f \in [0 .. k -> S]
  /\ f[0] = s
  /\ \A i \in 1 .. k : f[i] = rule[<<f[i - 1], i>>]

\* Such a function exists.
LEMMA Recursion ==
  ASSUME NEW S, NEW s \in S, NEW rule \in [S \X Nat -> S], NEW k \in Nat
  PROVE  \E f : IsRecursion(f, S, s, rule, k)
<1> DEFINE T == {n \in Nat : \E f : IsRecursion(f, S, s, rule, n)}
<1>1. 0 \in T
  <2>1. IsRecursion([i \in 0 .. 0 |-> s], S, s, rule, 0)
    BY DEF IsRecursion
  <2> QED BY <2>1
<1>2. ASSUME NEW n \in Nat, n \in T PROVE n + 1 \in T
  <2>1. PICK f : IsRecursion(f, S, s, rule, n)
    BY <1>2
  <2>2. /\ f \in [0 .. n -> S] /\ f[0] = s
        /\ \A i \in 1 .. n : f[i] = rule[<<f[i - 1], i>>]
    BY <2>1 DEF IsRecursion
  <2> DEFINE v == rule[<<f[n], n + 1>>]
             g == [i \in 0 .. n + 1 |-> IF i = n + 1 THEN v ELSE f[i]]
  <2>3. v \in S
    BY <2>2
  <2>4. g \in [0 .. n + 1 -> S] /\ g[0] = s
    BY <2>2, <2>3
  <2>5. ASSUME NEW i \in 1 .. n + 1 PROVE g[i] = rule[<<g[i - 1], i>>]
    <3>1. CASE i = n + 1
      <4>1. g[i] = v /\ g[i - 1] = f[n]
        BY <3>1
      <4> QED BY <3>1, <4>1
    <3>2. CASE i # n + 1
      <4>1. i \in 1 .. n /\ g[i] = f[i] /\ g[i - 1] = f[i - 1]
        BY <3>2
      <4> QED BY <2>2, <4>1
    <3> QED BY <3>1, <3>2
  <2>6. IsRecursion(g, S, s, rule, n + 1)
    <3> HIDE DEF g
    <3> QED BY <2>4, <2>5 DEF IsRecursion
  <2> HIDE DEF g
  <2> QED BY <2>6
<1>3. Nat \subseteq T
  <2> HIDE DEF T
  <2> QED BY <1>1, <1>2, Induction
<1> QED BY <1>3

-----------------------------------------------------------------------------
(* The varint.                                                              *)

\* The bytes of a number.
LEMMA Bytes ==
  ASSUME NEW d \in Positive
  PROVE  /\ d \in [1 .. 8 -> Nat]
         /\ d[1] \in 0 .. 127
         /\ d[2] \in 0 .. 255 /\ d[3] \in 0 .. 255 /\ d[4] \in 0 .. 255
         /\ d[5] \in 0 .. 255 /\ d[6] \in 0 .. 255 /\ d[7] \in 0 .. 255
         /\ d[8] \in 0 .. 255
  BY SMTT(30) DEF Positive, Magnitudes, Byte

\* Two numbers are equal if their bytes are.
LEMMA SameBytes ==
  ASSUME NEW c \in [1 .. 8 -> Nat], NEW d \in [1 .. 8 -> Nat],
         c[1] = d[1], c[2] = d[2], c[3] = d[3], c[4] = d[4],
         c[5] = d[5], c[6] = d[6], c[7] = d[7], c[8] = d[8]
  PROVE  c = d
<1>1. \A i \in 1 .. 8 : i \in {1, 2, 3, 4, 5, 6, 7, 8}
  OBVIOUS
<1>2. \A i \in 1 .. 8 : c[i] = d[i]
  BY <1>1
<1> QED BY <1>2

\* A number that is not above another is so from the first byte on.
LEMMA NotAbove ==
  ASSUME NEW d \in Positive, NEW b \in [1 .. 8 -> Nat], ~Above(d, b)
  PROVE  /\ d[1] <= b[1]
         /\ d[1] = b[1] => d[2] <= b[2]
         /\ d[1] = b[1] /\ d[2] = b[2] => d[3] <= b[3]
         /\ d[1] = b[1] /\ d[2] = b[2] /\ d[3] = b[3] => d[4] <= b[4]
         /\ (\A i \in 1 .. 4 : d[i] = b[i]) =>
              /\ d[5] <= b[5]
              /\ d[5] = b[5] => d[6] <= b[6]
              /\ d[5] = b[5] /\ d[6] = b[6] => d[7] <= b[7]
              /\ d[5] = b[5] /\ d[6] = b[6] /\ d[7] = b[7] => d[8] <= b[8]
<1>1. \A i \in 1 .. 8 : (\A j \in 1 .. i - 1 : d[j] = b[j]) => d[i] <= b[i]
  BY Bytes DEF Above
<1>2. /\ 1 .. 1 - 1 = {} /\ 1 .. 2 - 1 = {1} /\ 1 .. 3 - 1 = {1, 2}
      /\ 1 .. 4 - 1 = {1, 2, 3} /\ 1 .. 5 - 1 = {1, 2, 3, 4}
      /\ 1 .. 6 - 1 = {1, 2, 3, 4, 5} /\ 1 .. 7 - 1 = {1, 2, 3, 4, 5, 6}
      /\ 1 .. 8 - 1 = {1, 2, 3, 4, 5, 6, 7}
  OBVIOUS
<1> QED BY <1>1, <1>2

\* It has no more zeros to begin with than the other.
LEMMA LeadingZeros ==
  ASSUME NEW d \in Positive, NEW b \in [1 .. 8 -> Nat], ~Above(d, b),
         NEW p \in 4 .. 8, \A i \in 1 .. p - 1 : b[i] = 0
  PROVE  (\A i \in 1 .. p - 1 : d[i] = 0) /\ d[p] <= b[p]
<1>1. /\ b[1] = 0 /\ b[2] = 0 /\ b[3] = 0
      /\ p > 4 => b[4] = 0
      /\ p > 5 => b[5] = 0
      /\ p > 6 => b[6] = 0
      /\ p > 7 => b[7] = 0
  OBVIOUS
<1>2. d[1] = 0 /\ d[2] = 0 /\ d[3] = 0 /\ d[4] <= b[4]
  BY <1>1, NotAbove, Bytes
<1>3. p > 4 => d[4] = 0 /\ d[5] <= b[5]
  <2>1. p > 4 => \A i \in 1 .. 4 : d[i] = b[i]
    BY <1>1, <1>2, Bytes
  <2> QED BY <1>1, <1>2, <2>1, NotAbove, Bytes
<1>4. /\ p > 5 => d[5] = 0 /\ d[6] <= b[6]
      /\ p > 6 => d[6] = 0 /\ d[7] <= b[7]
      /\ p > 7 => d[7] = 0 /\ d[8] <= b[8]
  <2>1. p > 4 => \A i \in 1 .. 4 : d[i] = b[i]
    BY <1>1, <1>2, <1>3, Bytes
  <2> QED BY <1>1, <1>3, <2>1, NotAbove, Bytes
<1>5. \A i \in 1 .. p - 1 : i \in {1, 2, 3, 4, 5, 6, 7}
  OBVIOUS
<1> QED BY <1>2, <1>3, <1>4, <1>5

\* A number of eight bytes.
LEMMA Tuple8 ==
  ASSUME NEW a \in Nat, NEW b \in Nat, NEW c \in Nat, NEW e \in Nat,
         NEW f \in Nat, NEW g \in Nat, NEW h \in Nat, NEW k \in Nat
  PROVE  <<a, b, c, e, f, g, h, k>> \in [1 .. 8 -> Nat]
  OBVIOUS

\* The bytes of a number that is not above the largest of a form: those the form
\* leaves out are 0.
LEMMA Up32 ==
  ASSUME NEW d \in Positive, ~Above(d, Two32)
  PROVE  /\ d[1] = 0 /\ d[2] = 0 /\ d[3] = 0
         /\ d[4] = 0 \/ d = Two32
<1>1. Two32 \in [1 .. 8 -> Nat]
  BY Tuple8 DEF Two32
<1>2. /\ Two32[1] = 0 /\ Two32[2] = 0 /\ Two32[3] = 0 /\ Two32[4] = 1
      /\ Two32[5] = 0 /\ Two32[6] = 0 /\ Two32[7] = 0 /\ Two32[8] = 0
  BY DEF Two32
<1>3. d[1] = 0 /\ d[2] = 0 /\ d[3] = 0 /\ d[4] <= 1
  BY <1>1, <1>2, NotAbove, Bytes
<1>4. CASE d[4] = 0
  BY <1>3, <1>4
<1>5. CASE d[4] = 1
  <2>1. \A i \in 1 .. 4 : d[i] = Two32[i]
    BY <1>2, <1>3, <1>5
  <2>2. d[5] = 0 /\ d[6] = 0 /\ d[7] = 0 /\ d[8] = 0
    BY <1>1, <1>2, <2>1, NotAbove, Bytes
  <2> QED BY <1>1, <1>2, <1>3, <1>5, <2>2, SameBytes, Bytes
<1> QED BY <1>3, <1>4, <1>5, Bytes

\* The same for each of the other forms.
LEMMA Up28 ==
  ASSUME NEW d \in Positive, ~Above(d, Two28)
  PROVE  /\ d[1] = 0 /\ d[2] = 0 /\ d[3] = 0 /\ d[4] = 0
         /\ d[5] < 16 \/ d = Two28
<1>1. Two28 \in [1 .. 8 -> Nat]
  BY Tuple8 DEF Two28
<1>2. /\ Two28[1] = 0 /\ Two28[2] = 0 /\ Two28[3] = 0 /\ Two28[4] = 0
      /\ Two28[5] = 16 /\ Two28[6] = 0 /\ Two28[7] = 0 /\ Two28[8] = 0
  BY DEF Two28
<1>3. \A i \in 1 .. 4 : Two28[i] = 0
  BY <1>2
<1>4. d[1] = 0 /\ d[2] = 0 /\ d[3] = 0 /\ d[4] = 0 /\ d[5] <= 16
  <2>1. (\A i \in 1 .. 5 - 1 : d[i] = 0) /\ d[5] <= Two28[5]
    BY <1>1, <1>3, LeadingZeros
  <2> QED BY <1>2, <2>1
<1>5. CASE d[5] = 16
  <2>1. \A i \in 1 .. 4 : d[i] = Two28[i]
    BY <1>2, <1>4
  <2>2. d[6] = 0 /\ d[7] = 0 /\ d[8] = 0
    BY <1>1, <1>2, <1>5, <2>1, NotAbove, Bytes
  <2> QED BY <1>1, <1>2, <1>4, <1>5, <2>2, SameBytes, Bytes
<1> QED BY <1>4, <1>5, Bytes

LEMMA Up21 ==
  ASSUME NEW d \in Positive, ~Above(d, Most21)
  PROVE  (\A i \in 1 .. 5 : d[i] = 0) /\ d[6] <= 31
<1>1. Most21 \in [1 .. 8 -> Nat]
  <2>1. 0 \in Nat /\ 31 \in Nat /\ 255 \in Nat
    OBVIOUS
  <2>2. <<0, 0, 0, 0, 0, 31, 255, 255>> \in [1 .. 8 -> Nat]
    BY <2>1, Tuple8, ZenonT(60)
  <2> QED BY <2>2 DEF Most21
<1>2. \A i \in 1 .. 6 - 1 : Most21[i] = 0
  <2>1. /\ Most21[1] = 0 /\ Most21[2] = 0 /\ Most21[3] = 0 /\ Most21[4] = 0
        /\ Most21[5] = 0
    BY DEF Most21
  <2>2. 1 .. 6 - 1 = {1, 2, 3, 4, 5}
    OBVIOUS
  <2> QED BY <2>1, <2>2
<1>3. Most21[6] = 31
  BY DEF Most21
<1> QED BY <1>1, <1>2, <1>3, LeadingZeros

LEMMA Up14 ==
  ASSUME NEW d \in Positive, ~Above(d, Most14)
  PROVE  (\A i \in 1 .. 6 : d[i] = 0) /\ d[7] <= 63
<1>1. Most14 \in [1 .. 8 -> Nat]
  <2>1. 0 \in Nat /\ 63 \in Nat /\ 255 \in Nat
    OBVIOUS
  <2> QED BY <2>1, Tuple8, ZenonT(60) DEF Most14
<1>2. \A i \in 1 .. 7 - 1 : Most14[i] = 0
  <2>1. /\ Most14[1] = 0 /\ Most14[2] = 0 /\ Most14[3] = 0 /\ Most14[4] = 0
        /\ Most14[5] = 0 /\ Most14[6] = 0
    BY DEF Most14
  <2>2. 1 .. 7 - 1 = {1, 2, 3, 4, 5, 6}
    OBVIOUS
  <2> QED BY <2>1, <2>2
<1>3. Most14[7] = 63
  BY DEF Most14
<1> QED BY <1>1, <1>2, <1>3, LeadingZeros

LEMMA Up7 ==
  ASSUME NEW d \in Positive, ~Above(d, Most7)
  PROVE  (\A i \in 1 .. 7 : d[i] = 0) /\ d[8] <= 127
<1>1. Most7 \in [1 .. 8 -> Nat]
  <2>1. 0 \in Nat /\ 127 \in Nat /\ 255 \in Nat
    OBVIOUS
  <2> QED BY <2>1, Tuple8 DEF Most7
<1>2. \A i \in 1 .. 8 - 1 : Most7[i] = 0
  <2>1. /\ Most7[1] = 0 /\ Most7[2] = 0 /\ Most7[3] = 0 /\ Most7[4] = 0
        /\ Most7[5] = 0 /\ Most7[6] = 0 /\ Most7[7] = 0
    BY DEF Most7
  <2>2. 1 .. 8 - 1 = {1, 2, 3, 4, 5, 6, 7}
    OBVIOUS
  <2> QED BY <2>1, <2>2
<1>3. Most7[8] = 127
  BY DEF Most7
<1> QED BY <1>1, <1>2, <1>3, LeadingZeros

-----------------------------------------------------------------------------
(* The forms.                                                               *)

\* What is decoded goes by the first byte.
LEMMA ByFirst ==
  ASSUME NEW b \in Seq(Nat), Len(b) > 0
  PROVE  /\ b[1] = 244 => decodeVarint(b) = Form(b, 8, 0, 1)
         /\ b[1] = 240 => decodeVarint(b) = Form(b, 4, 0, 1)
         /\ 224 <= b[1] /\ b[1] < 240 =>
              decodeVarint(b) = Form(b, 3, b[1] % 16, 1)
         /\ 192 <= b[1] /\ b[1] < 224 =>
              decodeVarint(b) = Form(b, 2, b[1] % 32, 1)
         /\ 128 <= b[1] /\ b[1] < 192 =>
              decodeVarint(b) = Form(b, 1, b[1] % 64, 1)
         /\ b[1] < 128 => decodeVarint(b) = Form(b, 0, b[1], 1)
<1>0. b # <<>> /\ b[1] \in Nat
  OBVIOUS
<1>1. (244 \div 4) % 2 = 1 /\ (240 \div 4) % 2 # 1
  OBVIOUS
<1>2. b[1] < 248 => decodeVarint(b) = decodeForm(b, 1)
  BY <1>0 DEF decodeVarint
<1>3. b[1] = 244 => decodeForm(b, 1) = Form(b, 8, 0, 1)
  BY <1>0, <1>1 DEF decodeForm
<1>4. b[1] = 240 => decodeForm(b, 1) = Form(b, 4, 0, 1)
  BY <1>0, <1>1 DEF decodeForm
<1>5. b[1] < 240 =>
        decodeForm(b, 1) =
          IF b[1] >= 224 THEN Form(b, 3, b[1] % 16, 1)
          ELSE IF b[1] >= 192 THEN Form(b, 2, b[1] % 32, 1)
          ELSE IF b[1] >= 128 THEN Form(b, 1, b[1] % 64, 1)
          ELSE Form(b, 0, b[1], 1)
  BY <1>0 DEF decodeForm
<1>6. CASE b[1] = 244
  BY <1>2, <1>3, <1>6
<1>7. CASE b[1] = 240
  BY <1>2, <1>4, <1>7
<1>8. CASE b[1] < 240
  BY <1>0, <1>2, <1>5, <1>8
<1>9. CASE b[1] > 240 /\ b[1] # 244
  BY <1>0, <1>9
<1> QED BY <1>0, <1>6, <1>7, <1>8, <1>9

\* The eight bytes of a number, one by one.
LEMMA Spelled ==
  ASSUME NEW d \in Positive
  PROVE  d = <<d[1], d[2], d[3], d[4], d[5], d[6], d[7], d[8]>>
<1> DEFINE c == <<d[1], d[2], d[3], d[4], d[5], d[6], d[7], d[8]>>
<1>1. d \in [1 .. 8 -> Nat] /\ \A i \in 1 .. 8 : d[i] \in Nat
  BY Bytes
<1>2. c \in [1 .. 8 -> Nat]
  BY <1>1, Tuple8
<1>3. /\ c[1] = d[1] /\ c[2] = d[2] /\ c[3] = d[3] /\ c[4] = d[4]
      /\ c[5] = d[5] /\ c[6] = d[6] /\ c[7] = d[7] /\ c[8] = d[8]
  OBVIOUS
<1> HIDE DEF c
<1>4. c = d
  BY <1>1, <1>2, <1>3, SameBytes
<1> QED BY <1>4 DEF c

\* What is decoded of the other forms.
LEMMA Decode7 ==
  ASSUME NEW b1 \in Nat, b1 < 128
  PROVE  decodeVarint(<<b1>>) = Number(1, <<0, 0, 0, 0, 0, 0, 0, b1>>)
<1> DEFINE b == <<b1>>
<1>1. b \in Seq(Nat) /\ Len(b) = 1 /\ b[1] = b1
  OBVIOUS
<1> HIDE DEF b
<1>2. b1 < 128
  OBVIOUS
<1>3. decodeVarint(b) = Form(b, 0, b1, 1)
  BY <1>1, <1>2, ByFirst
<1> QED BY <1>3 DEF b, Form

\* The same for fourteen bits, and so on.
LEMMA Decode14 ==
  ASSUME NEW b1 \in Nat, NEW b2 \in Nat, b1 < 64
  PROVE  decodeVarint(<<128 + b1, b2>>) = Number(1, <<0, 0, 0, 0, 0, 0, b1, b2>>)
<1> DEFINE b == <<128 + b1, b2>>
<1>1. b \in Seq(Nat) /\ Len(b) = 2 /\ b[1] = 128 + b1
  OBVIOUS
<1> HIDE DEF b
<1>2. (128 + b1) % 64 = b1
  OBVIOUS
<1>3. b[1] % 64 = b1
  BY <1>1, <1>2
<1>4. 128 <= b[1] /\ b[1] < 192 /\ Len(b) > 0
  BY <1>1
<1>5. decodeVarint(b) = Form(b, 1, b[1] % 64, 1)
  BY <1>1, <1>4, ByFirst
<1>6. decodeVarint(b) = Form(b, 1, b1, 1)
  BY <1>3, <1>5
<1> QED BY <1>6 DEF b, Form

LEMMA Decode21 ==
  ASSUME NEW b1 \in Nat, NEW b2 \in Nat, NEW b3 \in Nat, b1 < 32
  PROVE  decodeVarint(<<192 + b1, b2, b3>>) = Number(1, <<0, 0, 0, 0, 0, b1, b2, b3>>)
<1> DEFINE b == <<192 + b1, b2, b3>>
<1>1. b \in Seq(Nat) /\ Len(b) = 3 /\ b[1] = 192 + b1
  OBVIOUS
<1> HIDE DEF b
<1>2. (192 + b1) % 32 = b1
  OBVIOUS
<1>3. b[1] % 32 = b1
  BY <1>1, <1>2
<1>4. 192 <= b[1] /\ b[1] < 224 /\ Len(b) > 0
  BY <1>1
<1>5. decodeVarint(b) = Form(b, 2, b[1] % 32, 1)
  BY <1>1, <1>4, ByFirst
<1>6. decodeVarint(b) = Form(b, 2, b1, 1)
  BY <1>3, <1>5
<1> QED BY <1>6 DEF b, Form

LEMMA Decode28 ==
  ASSUME NEW b1 \in Nat, NEW b2 \in Nat, NEW b3 \in Nat, NEW b4 \in Nat, b1 < 16
  PROVE  decodeVarint(<<224 + b1, b2, b3, b4>>) = Number(1, <<0, 0, 0, 0, b1, b2, b3, b4>>)
<1> DEFINE b == <<224 + b1, b2, b3, b4>>
<1>1. b \in Seq(Nat) /\ Len(b) = 4 /\ b[1] = 224 + b1
  OBVIOUS
<1> HIDE DEF b
<1>2. (224 + b1) % 16 = b1
  OBVIOUS
<1>3. b[1] % 16 = b1
  BY <1>1, <1>2
<1>4. 224 <= b[1] /\ b[1] < 240 /\ Len(b) > 0
  BY <1>1
<1>5. decodeVarint(b) = Form(b, 3, b[1] % 16, 1)
  BY <1>1, <1>4, ByFirst
<1>6. decodeVarint(b) = Form(b, 3, b1, 1)
  BY <1>3, <1>5
<1> QED BY <1>6 DEF b, Form

LEMMA Decode32 ==
  ASSUME NEW b2 \in Nat, NEW b3 \in Nat, NEW b4 \in Nat, NEW b5 \in Nat
  PROVE  decodeVarint(<<240, b2, b3, b4, b5>>) = Number(1, <<0, 0, 0, 0, b2, b3, b4, b5>>)
<1> DEFINE b == <<240, b2, b3, b4, b5>>
<1>1. b \in Seq(Nat) /\ Len(b) = 5 /\ b[1] = 240
  OBVIOUS
<1> HIDE DEF b
<1>2. b[1] = 240
  BY <1>1
<1>3. decodeVarint(b) = Form(b, 4, 0, 1)
  BY <1>1, <1>2, ByFirst
<1> QED BY <1>3 DEF b, Form

\* Four bytes of which the first says that there are five.
LEMMA DecodeShort ==
  ASSUME NEW b2 \in Nat, NEW b3 \in Nat, NEW b4 \in Nat
  PROVE  decodeVarint(<<240, b2, b3, b4>>) = OutOfRange
<1> DEFINE b == <<240, b2, b3, b4>>
<1>1. b \in Seq(Nat) /\ Len(b) = 4 /\ b[1] = 240
  OBVIOUS
<1> HIDE DEF b
<1>2. decodeVarint(b) = Form(b, 4, 0, 1)
  BY <1>1, ByFirst
<1>3. Form(b, 4, 0, 1) = OutOfRange
  BY <1>1 DEF Form
<1> QED BY <1>2, <1>3 DEF b

LEMMA Decode64 ==
  ASSUME NEW d \in Positive
  PROVE  decodeVarint(<<244, d[1], d[2], d[3], d[4], d[5], d[6], d[7], d[8]>>)
           = Number(1, d)
<1> DEFINE b == <<244, d[1], d[2], d[3], d[4], d[5], d[6], d[7], d[8]>>
<1>1. /\ d[1] \in Nat /\ d[2] \in Nat /\ d[3] \in Nat /\ d[4] \in Nat
      /\ d[5] \in Nat /\ d[6] \in Nat /\ d[7] \in Nat /\ d[8] \in Nat
  BY Bytes
<1>2. /\ b[2] = d[1] /\ b[3] = d[2] /\ b[4] = d[3] /\ b[5] = d[4]
      /\ b[6] = d[5] /\ b[7] = d[6] /\ b[8] = d[7] /\ b[9] = d[8]
  OBVIOUS
<1>3. b \in Seq(Nat) /\ Len(b) = 9 /\ b[1] = 244
  <2>1. Len(b) = 9 /\ b[1] = 244
    OBVIOUS
  <2>2. b \in Seq(Nat)
    BY <1>1
  <2> QED BY <2>1, <2>2
<1> HIDE DEF b
<1>4. decodeVarint(b) = Form(b, 8, 0, 1)
  BY <1>3, ByFirst
<1> DEFINE c == [i \in 1 .. 8 |-> IF i > 8 - 8 THEN b[i - 7 + 8]
                                  ELSE IF i = 8 - 8 THEN 0 ELSE 0]
<1>5. Form(b, 8, 0, 1) = Number(1, c)
  BY <1>3 DEF Form
<1>6. c = d
  <2>1. /\ c[1] = b[2] /\ c[2] = b[3] /\ c[3] = b[4] /\ c[4] = b[5]
        /\ c[5] = b[6] /\ c[6] = b[7] /\ c[7] = b[8] /\ c[8] = b[9]
    OBVIOUS
  <2>2. \A i \in 1 .. 8 : i \in {1, 2, 3, 4, 5, 6, 7, 8}
    OBVIOUS
  <2>3. \A i \in 1 .. 8 : c[i] = d[i]
    BY <1>2, <2>1, <2>2
  <2>4. c = [i \in 1 .. 8 |-> d[i]]
    BY <2>3
  <2> QED BY <2>4, Bytes
<1> QED BY <1>4, <1>5, <1>6 DEF b

-----------------------------------------------------------------------------
(* What the two together do.                                                *)

\* None of the limits is above itself or a larger one.
LEMMA NotTheLimits ==
  /\ ~Above(Two32, Two32) /\ ~Above(Two28, Two32) /\ ~Above(Two28, Two28)
  /\ Above(Two32, Two28) /\ Above(Two28, Most21)
<1>1. /\ Two32[1] = 0 /\ Two32[2] = 0 /\ Two32[3] = 0 /\ Two32[4] = 1
      /\ Two32[5] = 0 /\ Two32[6] = 0 /\ Two32[7] = 0 /\ Two32[8] = 0
  BY DEF Two32
<1>2. /\ Two28[1] = 0 /\ Two28[2] = 0 /\ Two28[3] = 0 /\ Two28[4] = 0
      /\ Two28[5] = 16 /\ Two28[6] = 0 /\ Two28[7] = 0 /\ Two28[8] = 0
  BY DEF Two28
<1>3. /\ Most21[1] = 0 /\ Most21[2] = 0 /\ Most21[3] = 0 /\ Most21[4] = 0
      /\ Most21[5] = 0
  BY DEF Most21
<1>4. \A i \in 1 .. 8 : i \in {1, 2, 3, 4, 5, 6, 7, 8}
  OBVIOUS
<1>5. /\ \A i \in 1 .. 8 : ~(Two32[i] > Two32[i])
      /\ \A i \in 1 .. 8 : ~(Two28[i] > Two28[i])
  BY <1>1, <1>2, <1>4
<1>6. \A i \in 1 .. 8 : Two28[i] > Two32[i] => i = 5
  BY <1>1, <1>2, <1>4
<1>7. ~Above(Two28, Two32)
  <2>1. 4 \in 1 .. 5 - 1 /\ Two28[4] # Two32[4]
    BY <1>1, <1>2
  <2> QED BY <1>6, <2>1 DEF Above
<1>8. Above(Two32, Two28)
  <2>1. \A j \in 1 .. 4 - 1 : Two32[j] = Two28[j]
    BY <1>1, <1>2
  <2>2. 4 \in 1 .. 8 /\ Two32[4] > Two28[4]
    BY <1>1, <1>2
  <2> QED BY <2>1, <2>2 DEF Above
<1>9. Above(Two28, Most21)
  <2>1. \A j \in 1 .. 5 - 1 : Two28[j] = Most21[j]
    BY <1>2, <1>3
  <2>2. 5 \in 1 .. 8 /\ Two28[5] > Most21[5]
    BY <1>2, <1>3
  <2> QED BY <2>1, <2>2 DEF Above
<1> QED BY <1>5, <1>7, <1>8, <1>9 DEF Above

\* Every number that is not negative is decoded as it was encoded, but for 2^28
\* and 2^32, for which the code takes the form below the one that would hold
\* them (varint.go:37, 45).
THEOREM RoundTrip ==
  ASSUME NEW d \in Positive
  PROVE  decodeVarint(encodeVarint(1, d)) = Number(1, d)
           <=> d \notin {Two28, Two32}
<1>1. encodeVarint(1, d) = encodePositive(d)
  BY DEF encodeVarint
<1>2. d = <<d[1], d[2], d[3], d[4], d[5], d[6], d[7], d[8]>>
  BY Spelled
<1>3. CASE Above(d, Two32)
  <2>1. encodePositive(d)
          = <<244, d[1], d[2], d[3], d[4], d[5], d[6], d[7], d[8]>>
    BY <1>3 DEF encodePositive
  <2>2. d \notin {Two28, Two32}
    BY <1>3, NotTheLimits
  <2>3. decodeVarint(encodeVarint(1, d)) = Number(1, d)
    BY <1>1, <2>1, Decode64
  <2> QED BY <2>2, <2>3
<1>4. CASE ~Above(d, Two32) /\ Above(d, Two28)
  <2> DEFINE c == <<0, 0, 0, 0, d[5], d[6], d[7], d[8]>>
  <2>1. decodeVarint(encodeVarint(1, d)) = Number(1, c)
    <3>1. encodePositive(d) = <<240, d[5], d[6], d[7], d[8]>>
      BY <1>4 DEF encodePositive
    <3>2. d[5] \in Nat /\ d[6] \in Nat /\ d[7] \in Nat /\ d[8] \in Nat
      BY Bytes
    <3>3. decodeVarint(<<240, d[5], d[6], d[7], d[8]>>) = Number(1, c)
      BY <3>2, Decode32, SMTT(60)
    <3> QED BY <1>1, <3>1, <3>3
  <2>2. d # Two28
    BY <1>4, NotTheLimits
  <2>3. c = d <=> d # Two32
    <3>1. d[1] = 0 /\ d[2] = 0 /\ d[3] = 0 /\ (d[4] = 0 \/ d = Two32)
      BY <1>4, Up32
    <3>2. d # Two32 => c = d
      BY <1>2, <3>1
    <3>3. d = Two32 => c # d
      <4>1. c[4] = 0 /\ Two32[4] = 1
        BY DEF Two32
      <4> QED BY <4>1
    <3> QED BY <3>2, <3>3
  <2>4. Number(1, c) = Number(1, d) <=> c = d
    BY DEF Number
  <2> QED BY <2>1, <2>2, <2>3, <2>4
<1>5. CASE ~Above(d, Two32) /\ ~Above(d, Two28) /\ Above(d, Most21)
  <2>1. d[1] = 0 /\ d[2] = 0 /\ d[3] = 0 /\ d[4] = 0
    BY <1>5, Up28
  <2>2. d # Two32
    BY <1>5, NotTheLimits
  <2>3. encodePositive(d) = <<224 + (d[5] % 32), d[6], d[7], d[8]>>
    BY <1>5 DEF encodePositive
  <2>4. d[5] \in Nat /\ d[6] \in Nat /\ d[7] \in Nat /\ d[8] \in Nat
    BY Bytes
  <2>5. CASE d = Two28
    <3>1. d[5] = 16
      BY <2>5 DEF Two28
    <3>2. encodePositive(d) = <<240, d[6], d[7], d[8]>>
      BY <2>3, <3>1
    <3>3. decodeVarint(encodeVarint(1, d)) = OutOfRange
      BY <1>1, <2>4, <3>2, DecodeShort
    <3>4. OutOfRange # Number(1, d)
      <4>1. d # <<>>
        BY <1>2
      <4> QED BY <4>1 DEF OutOfRange, Number
    <3> QED BY <2>5, <3>3, <3>4
  <2>6. CASE d # Two28
    <3>1. d[5] < 16
      BY <1>5, <2>6, Up28
    <3>2. encodePositive(d) = <<224 + d[5], d[6], d[7], d[8]>>
      <4>1. d[5] % 32 = d[5]
        BY <2>4, <3>1
      <4> QED BY <2>3, <4>1
    <3>3. decodeVarint(encodeVarint(1, d))
            = Number(1, <<0, 0, 0, 0, d[5], d[6], d[7], d[8]>>)
      <4>1. decodeVarint(<<224 + d[5], d[6], d[7], d[8]>>)
              = Number(1, <<0, 0, 0, 0, d[5], d[6], d[7], d[8]>>)
        <5>1. PICK b1 \in Nat, b2 \in Nat, b3 \in Nat, b4 \in Nat :
                b1 = d[5] /\ b2 = d[6] /\ b3 = d[7] /\ b4 = d[8]
          BY <2>4, Zenon
        <5>2. b1 < 16
          BY <3>1, <5>1, Zenon
        <5>3. decodeVarint(<<224 + b1, b2, b3, b4>>)
                = Number(1, <<0, 0, 0, 0, b1, b2, b3, b4>>)
          BY <5>2, Decode28, SMTT(30)
        <5> QED BY <5>1, <5>3, Zenon
      <4>2. encodeVarint(1, d) = <<224 + d[5], d[6], d[7], d[8]>>
        BY <1>1, <3>2, Zenon
      <4> QED BY <4>1, <4>2, Zenon
    <3>4. d = <<0, 0, 0, 0, d[5], d[6], d[7], d[8]>>
      BY <1>2, <2>1
    <3> QED BY <2>2, <2>6, <3>3, <3>4
  <2> QED BY <2>5, <2>6
<1>6. CASE /\ ~Above(d, Two32) /\ ~Above(d, Two28) /\ ~Above(d, Most21)
           /\ Above(d, Most14)
  <2>1. d # Two32 /\ d # Two28
    BY <1>6, NotTheLimits
  <2>2. /\ d[1] = 0 /\ d[2] = 0 /\ d[3] = 0 /\ d[4] = 0
        /\ d[5] = 0
        /\ d[6] < 32
    BY <1>6, Up21, Bytes
  <2>3. d[6] \in Nat /\ d[7] \in Nat /\ d[8] \in Nat
    BY Bytes
  <2>4. encodePositive(d) = <<192 + d[6], d[7], d[8]>>
    <3>1. d[6] % 64 = d[6]
      BY <2>2, <2>3
    <3> QED BY <1>6, <3>1 DEF encodePositive
  <2>5. decodeVarint(encodeVarint(1, d)) = Number(1, <<0, 0, 0, 0, 0, d[6], d[7], d[8]>>)
    BY <1>1, <2>2, <2>3, <2>4, Decode21
  <2>6. d = <<0, 0, 0, 0, 0, d[6], d[7], d[8]>>
    BY <1>2, <2>2
  <2> QED BY <2>1, <2>5, <2>6
<1>7. CASE /\ ~Above(d, Two32) /\ ~Above(d, Two28) /\ ~Above(d, Most21)
           /\ ~Above(d, Most14) /\ Above(d, Most7)
  <2>1. d # Two32 /\ d # Two28
    BY <1>7, NotTheLimits
  <2>2. /\ d[1] = 0 /\ d[2] = 0 /\ d[3] = 0 /\ d[4] = 0
        /\ d[5] = 0 /\ d[6] = 0
        /\ d[7] < 64
    BY <1>7, Up14, Bytes
  <2>3. d[7] \in Nat /\ d[8] \in Nat
    BY Bytes
  <2>4. encodePositive(d) = <<128 + d[7], d[8]>>
    <3>1. d[7] % 128 = d[7]
      BY <2>2, <2>3
    <3> QED BY <1>7, <3>1 DEF encodePositive
  <2>5. decodeVarint(encodeVarint(1, d)) = Number(1, <<0, 0, 0, 0, 0, 0, d[7], d[8]>>)
    BY <1>1, <2>2, <2>3, <2>4, Decode14
  <2>6. d = <<0, 0, 0, 0, 0, 0, d[7], d[8]>>
    BY <1>2, <2>2
  <2> QED BY <2>1, <2>5, <2>6
<1>8. CASE /\ ~Above(d, Two32) /\ ~Above(d, Two28) /\ ~Above(d, Most21)
           /\ ~Above(d, Most14) /\ ~Above(d, Most7)
  <2>1. d # Two32 /\ d # Two28
    BY <1>8, NotTheLimits
  <2>2. /\ d[1] = 0 /\ d[2] = 0 /\ d[3] = 0 /\ d[4] = 0
        /\ d[5] = 0 /\ d[6] = 0 /\ d[7] = 0
        /\ d[8] < 128
    BY <1>8, Up7, Bytes
  <2>3. d[8] \in Nat
    BY Bytes
  <2>4. encodePositive(d) = <<d[8]>>
    BY <1>8 DEF encodePositive
  <2>5. decodeVarint(encodeVarint(1, d)) = Number(1, <<0, 0, 0, 0, 0, 0, 0, d[8]>>)
    BY <1>1, <2>2, <2>3, <2>4, Decode7
  <2>6. d = <<0, 0, 0, 0, 0, 0, 0, d[8]>>
    BY <1>2, <2>2
  <2> QED BY <2>1, <2>5, <2>6
<1> QED BY <1>3, <1>4, <1>5, <1>6, <1>7, <1>8

-----------------------------------------------------------------------------
(* Exclusive or.                                                            *)

\* Eight bits, the last one first, the byte they are, and their sum with eight
\* others.
Bits == {0, 1}
EightBits == [0 .. 7 -> Bits]
ByteOf(f) == f[0] + 2 * f[1] + 4 * f[2] + 8 * f[3] + 16 * f[4] + 32 * f[5]
               + 64 * f[6] + 128 * f[7]
Sum2(x, y) == IF x = y THEN 0 ELSE 1
Sum8(f, g) == [k \in 0 .. 7 |-> Sum2(f[k], g[k])]

\* The bits, one by one.
LEMMA EightOf ==
  ASSUME NEW f \in EightBits
  PROVE  /\ f[0] \in 0 .. 1 /\ f[1] \in 0 .. 1 /\ f[2] \in 0 .. 1
         /\ f[3] \in 0 .. 1 /\ f[4] \in 0 .. 1 /\ f[5] \in 0 .. 1
         /\ f[6] \in 0 .. 1 /\ f[7] \in 0 .. 1
BY DEF EightBits, Bits

\* Every byte has its bits.
LEMMA ByteOfSome ==
  ASSUME NEW a \in Byte
  PROVE  \E f \in EightBits : a = ByteOf(f)
<1> DEFINE bit(p) == (a \div p) % 2
           f == [k \in 0 .. 7 |->
                   IF k = 0 THEN bit(1) ELSE IF k = 1 THEN bit(2)
                   ELSE IF k = 2 THEN bit(4) ELSE IF k = 3 THEN bit(8)
                   ELSE IF k = 4 THEN bit(16) ELSE IF k = 5 THEN bit(32)
                   ELSE IF k = 6 THEN bit(64) ELSE bit(128)]
<1>1. /\ bit(1) \in Bits /\ bit(2) \in Bits /\ bit(4) \in Bits /\ bit(8) \in Bits
      /\ bit(16) \in Bits /\ bit(32) \in Bits /\ bit(64) \in Bits
      /\ bit(128) \in Bits
  BY DEF Byte, Bits
<1>2. a = bit(1) + 2 * bit(2) + 4 * bit(4) + 8 * bit(8) + 16 * bit(16)
            + 32 * bit(32) + 64 * bit(64) + 128 * bit(128)
  BY DEF Byte
<1> HIDE DEF bit
<1>3. f \in EightBits
  BY <1>1 DEF EightBits
<1>4. /\ f[0] = bit(1) /\ f[1] = bit(2) /\ f[2] = bit(4) /\ f[3] = bit(8)
      /\ f[4] = bit(16) /\ f[5] = bit(32) /\ f[6] = bit(64) /\ f[7] = bit(128)
  OBVIOUS
<1> HIDE DEF f
<1>5. a = ByteOf(f)
  BY <1>2, <1>4 DEF ByteOf
<1> QED BY <1>3, <1>5

\* Division by p leaves bit k as the last one.
Ends(a, p, f, k) == \E m \in Nat : a \div p = f[k] + 2 * m
Halves(a, f) ==
  /\ a \in Byte
  /\ Ends(a, 1, f, 0) /\ Ends(a, 2, f, 1) /\ Ends(a, 4, f, 2) /\ Ends(a, 8, f, 3)
  /\ Ends(a, 16, f, 4) /\ Ends(a, 32, f, 5) /\ Ends(a, 64, f, 6)
  /\ Ends(a, 128, f, 7)

\* A byte is halved to what its higher bits make.
LEMMA BitsAbove ==
  ASSUME NEW f \in EightBits
  PROVE  Halves(ByteOf(f), f)
<1>1. PICK a0 \in 0 .. 1, a1 \in 0 .. 1, a2 \in 0 .. 1, a3 \in 0 .. 1,
           a4 \in 0 .. 1, a5 \in 0 .. 1, a6 \in 0 .. 1, a7 \in 0 .. 1 :
        /\ f[0] = a0 /\ f[1] = a1 /\ f[2] = a2 /\ f[3] = a3
        /\ f[4] = a4 /\ f[5] = a5 /\ f[6] = a6 /\ f[7] = a7
  BY EightOf
<1>2. PICK a : a = ByteOf(f)
  OBVIOUS
<1>3. a = a0 + 2 * a1 + 4 * a2 + 8 * a3 + 16 * a4 + 32 * a5 + 64 * a6 + 128 * a7
  BY <1>1, <1>2, Zenon DEF ByteOf
<1>4. /\ a \in Byte
      /\ a \div 1 = a0 + 2 * (a1 + 2 * a2 + 4 * a3 + 8 * a4 + 16 * a5 + 32 * a6
                               + 64 * a7)
      /\ a \div 2 = a1 + 2 * (a2 + 2 * a3 + 4 * a4 + 8 * a5 + 16 * a6 + 32 * a7)
      /\ a \div 4 = a2 + 2 * (a3 + 2 * a4 + 4 * a5 + 8 * a6 + 16 * a7)
      /\ a \div 8 = a3 + 2 * (a4 + 2 * a5 + 4 * a6 + 8 * a7)
      /\ a \div 16 = a4 + 2 * (a5 + 2 * a6 + 4 * a7)
      /\ a \div 32 = a5 + 2 * (a6 + 2 * a7)
      /\ a \div 64 = a6 + 2 * a7
      /\ a \div 128 = a7 + 2 * 0
  BY <1>3 DEF Byte
<1>5. Ends(a, 1, f, 0)
  <2>1. a1 + 2 * a2 + 4 * a3 + 8 * a4 + 16 * a5 + 32 * a6 + 64 * a7 \in Nat
    OBVIOUS
  <2> QED BY <1>1, <1>4, <2>1, Zenon DEF Ends
<1>6. Ends(a, 2, f, 1)
  <2>1. a2 + 2 * a3 + 4 * a4 + 8 * a5 + 16 * a6 + 32 * a7 \in Nat
    OBVIOUS
  <2> QED BY <1>1, <1>4, <2>1, Zenon DEF Ends
<1>7. Ends(a, 4, f, 2)
  <2>1. a3 + 2 * a4 + 4 * a5 + 8 * a6 + 16 * a7 \in Nat
    OBVIOUS
  <2> QED BY <1>1, <1>4, <2>1, Zenon DEF Ends
<1>8. Ends(a, 8, f, 3)
  <2>1. a4 + 2 * a5 + 4 * a6 + 8 * a7 \in Nat
    OBVIOUS
  <2> QED BY <1>1, <1>4, <2>1, Zenon DEF Ends
<1>9. Ends(a, 16, f, 4)
  <2>1. a5 + 2 * a6 + 4 * a7 \in Nat
    OBVIOUS
  <2> QED BY <1>1, <1>4, <2>1, Zenon DEF Ends
<1>10. Ends(a, 32, f, 5)
  <2>1. a6 + 2 * a7 \in Nat
    OBVIOUS
  <2> QED BY <1>1, <1>4, <2>1, Zenon DEF Ends
<1>11. Ends(a, 64, f, 6)
  <2>1. a7 \in Nat
    OBVIOUS
  <2> QED BY <1>1, <1>4, <2>1, Zenon DEF Ends
<1>12. Ends(a, 128, f, 7)
  <2>1. 0 \in Nat
    OBVIOUS
  <2> QED BY <1>1, <1>4, <2>1, Zenon DEF Ends
<1> QED BY <1>2, <1>4, <1>5, <1>6, <1>7, <1>8, <1>9, <1>10, <1>11, <1>12, Zenon
    DEF Halves

\* What eight bits make is a byte.
LEMMA ByteOfBits ==
  ASSUME NEW f \in EightBits
  PROVE  ByteOf(f) \in Byte
BY BitsAbove DEF Halves

\* A sum is odd if one of the two numbers is.
LEMMA Parity ==
  ASSUME NEW x \in 0 .. 1, NEW y \in 0 .. 1, NEW k \in Nat, NEW l \in Nat
  PROVE  ((x + 2 * k) + (y + 2 * l)) % 2 = Sum2(x, y)
BY DEF Sum2

\* The exclusive or of two bytes has the sums of their bits.
LEMMA SumIs ==
  ASSUME NEW f \in EightBits, NEW g \in EightBits
  PROVE  Sum8(f, g) \in EightBits /\ ByteOf(f) ^^ ByteOf(g) = ByteOf(Sum8(f, g))
<1>1. Sum8(f, g) \in EightBits
  BY DEF Sum8, EightBits, Sum2, Bits
<1>2. PICK a, b : a = ByteOf(f) /\ b = ByteOf(g)
  OBVIOUS
<1>3. Halves(a, f) /\ Halves(b, g)
  BY <1>2, BitsAbove, Zenon
<1>4. /\ \A k \in 0 .. 7 : f[k] \in 0 .. 1 /\ g[k] \in 0 .. 1
      /\ \A k \in 0 .. 7 : Sum8(f, g)[k] = Sum2(f[k], g[k])
  BY DEF EightBits, Bits, Sum8
<1> HIDE DEF Sum8
<1>6. ASSUME NEW k \in 0 .. 7, NEW p \in Nat, Ends(a, p, f, k), Ends(b, p, g, k)
      PROVE  AddedBit(a, b, p) = p * Sum8(f, g)[k]
  <2>1. PICK m \in Nat : a \div p = f[k] + 2 * m
    BY <1>6 DEF Ends
  <2>2. PICK n \in Nat : b \div p = g[k] + 2 * n
    BY <1>6 DEF Ends
  <2>3. ((a \div p) + (b \div p)) % 2 = Sum2(f[k], g[k])
    <3>1. f[k] \in 0 .. 1 /\ g[k] \in 0 .. 1
      BY <1>4
    <3>2. ((f[k] + 2 * m) + (g[k] + 2 * n)) % 2 = Sum2(f[k], g[k])
      BY <3>1, Parity, Zenon
    <3> QED BY <2>1, <2>2, <3>2
  <2>4. AddedBit(a, b, p) = p * Sum2(f[k], g[k])
    BY <2>3, Zenon DEF AddedBit
  <2> QED BY <1>4, <2>4
<1>7. /\ AddedBit(a, b, 1) = 1 * Sum8(f, g)[0]
      /\ AddedBit(a, b, 2) = 2 * Sum8(f, g)[1]
      /\ AddedBit(a, b, 4) = 4 * Sum8(f, g)[2]
      /\ AddedBit(a, b, 8) = 8 * Sum8(f, g)[3]
      /\ AddedBit(a, b, 16) = 16 * Sum8(f, g)[4]
      /\ AddedBit(a, b, 32) = 32 * Sum8(f, g)[5]
      /\ AddedBit(a, b, 64) = 64 * Sum8(f, g)[6]
      /\ AddedBit(a, b, 128) = 128 * Sum8(f, g)[7]
  BY <1>3, <1>6 DEF Halves
<1>8. a ^^ b = ByteOf(Sum8(f, g))
  BY <1>1, <1>7, EightOf DEF ^^, ByteOf
<1> QED BY <1>1, <1>2, <1>8, Zenon

\* Bits are added in any order, and twice the same are nothing.
LEMMA Sum8Laws ==
  ASSUME NEW f \in EightBits, NEW g \in EightBits, NEW h \in EightBits
  PROVE  /\ Sum8(f, g) = Sum8(g, f)
         /\ Sum8(Sum8(f, g), g) = f
         /\ Sum8(Sum8(f, g), h) = Sum8(Sum8(f, h), g)
<1>1. Sum8(f, g) = Sum8(g, f)
  BY DEF Sum8, EightBits, Sum2, Bits
<1>2. \A k \in 0 .. 7 : f[k] \in Bits /\ g[k] \in Bits /\ h[k] \in Bits
  BY DEF EightBits
<1>3. \A k \in 0 .. 7 : Sum2(Sum2(f[k], g[k]), g[k]) = f[k]
  BY <1>2 DEF Sum2, Bits
<1>4. \A k \in 0 .. 7 : Sum2(Sum2(f[k], g[k]), h[k])
                          = Sum2(Sum2(f[k], h[k]), g[k])
  BY <1>2 DEF Sum2, Bits
<1>5. \A k \in 0 .. 7 : /\ Sum8(f, g)[k] = Sum2(f[k], g[k])
                        /\ Sum8(f, h)[k] = Sum2(f[k], h[k])
  BY DEF Sum8
<1>6. Sum8(Sum8(f, g), g) = f
  <2>1. f = [k \in 0 .. 7 |-> f[k]]
    BY DEF EightBits
  <2>2. Sum8(Sum8(f, g), g) = [k \in 0 .. 7 |-> f[k]]
    BY <1>3, <1>5 DEF Sum8
  <2> QED BY <2>1, <2>2
<1>7. Sum8(Sum8(f, g), h) = Sum8(Sum8(f, h), g)
  <2>1. /\ Sum8(Sum8(f, g), h) = [k \in 0 .. 7 |-> Sum2(Sum8(f, g)[k], h[k])]
        /\ Sum8(Sum8(f, h), g) = [k \in 0 .. 7 |-> Sum2(Sum8(f, h)[k], g[k])]
    BY Zenon DEF Sum8
  <2>2. \A k \in 0 .. 7 : Sum2(Sum8(f, g)[k], h[k]) = Sum2(Sum8(f, h)[k], g[k])
    BY <1>4, <1>5
  <2> QED BY <2>1, <2>2
<1> QED BY <1>1, <1>6, <1>7

\* What an exclusive or is, for bytes.
LEMMA XorLaws ==
  ASSUME NEW a \in Byte, NEW b \in Byte
  PROVE  /\ a ^^ b \in Byte
         /\ a ^^ b = b ^^ a
         /\ (a ^^ b) ^^ b = a
         /\ a ^^ 0 = a
<1>1. PICK f \in EightBits : a = ByteOf(f)
  BY ByteOfSome
<1>2. PICK g \in EightBits : b = ByteOf(g)
  BY ByteOfSome
<1>3. a ^^ b \in Byte /\ a ^^ b = b ^^ a /\ (a ^^ b) ^^ b = a
  BY <1>1, <1>2, SumIs, Sum8Laws, ByteOfBits
<1>4. a ^^ 0 = a
  <2> DEFINE none == [k \in 0 .. 7 |-> 0]
  <2>1. none \in EightBits /\ ByteOf(none) = 0
    BY DEF EightBits, Bits, ByteOf
  <2>2. \A k \in 0 .. 7 : Sum2(f[k], 0) = f[k]
    BY <1>1 DEF EightBits, Bits, Sum2
  <2>3. Sum8(f, none) = f
    BY <2>2 DEF Sum8, EightBits
  <2> HIDE DEF none
  <2> QED BY <1>1, <2>1, <2>3, SumIs
<1> QED BY <1>3, <1>4

\* Two bytes are added in any order.
LEMMA XorOrder ==
  ASSUME NEW a \in Byte, NEW b \in Byte, NEW c \in Byte
  PROVE  (a ^^ b) ^^ c = (a ^^ c) ^^ b
<1>1. PICK f \in EightBits : a = ByteOf(f)
  BY ByteOfSome
<1>2. PICK g \in EightBits : b = ByteOf(g)
  BY ByteOfSome
<1>3. PICK h \in EightBits : c = ByteOf(h)
  BY ByteOfSome
<1>4. /\ (a ^^ b) ^^ c = ByteOf(Sum8(Sum8(f, g), h))
      /\ (a ^^ c) ^^ b = ByteOf(Sum8(Sum8(f, h), g))
  BY <1>1, <1>2, <1>3, SumIs
<1> QED BY <1>4, Sum8Laws

-----------------------------------------------------------------------------
(* Blocks.                                                                  *)

Blocks == [1 .. 16 -> Byte]

\* A block is a sequence of bytes.
LEMMA BlockIsSeq ==
  ASSUME NEW b \in Blocks
  PROVE  b \in Seq(Byte) /\ Len(b) = 16 /\ \A i \in 1 .. 16 : b[i] \in Byte
<1>1. b \in [1 .. 16 -> Byte] /\ 16 \in Nat
  BY DEF Blocks
<1>2. \A i \in 1 .. 16 : b[i] \in Byte
  BY <1>1
<1>3. [i \in 1 .. 16 |-> b[i]] \in Seq(Byte) /\ Len([i \in 1 .. 16 |-> b[i]]) = 16
  BY <1>2
<1>4. b = [i \in 1 .. 16 |-> b[i]]
  BY <1>1
<1> QED BY <1>2, <1>3, <1>4

\* A sequence of as many bytes is a block.
LEMMA SeqIsBlock ==
  ASSUME NEW b \in Seq(Byte), Len(b) = 16
  PROVE  b \in Blocks
BY DEF Blocks

\* Two blocks are equal if their bytes are.
LEMMA SameBlock ==
  ASSUME NEW a \in Blocks, NEW b \in Blocks, \A i \in 1 .. 16 : a[i] = b[i]
  PROVE  a = b
BY DEF Blocks

\* The block of a function has its bytes.
LEMMA BlockOf ==
  ASSUME NEW f, \A i \in 1 .. 16 : f[i] \in Byte
  PROVE  Block(f) \in Blocks /\ \A i \in 1 .. 16 : Block(f)[i] = f[i]
<1>1. 1 \in Int /\ 16 \in Int
  OBVIOUS
<1>2. /\ SubSeq(f, 1, 16) \in Seq(Byte)
      /\ Len(SubSeq(f, 1, 16)) = IF 1 <= 16 THEN 16 - 1 + 1 ELSE 0
      /\ \A i \in 1 .. 16 - 1 + 1 : SubSeq(f, 1, 16)[i] = f[1 + i - 1]
  BY <1>1, SubSeqProperties
<1>3. Block(f) = SubSeq(f, 1, 16)
  BY DEF Block, BlockSize
<1>4. Block(f) \in Seq(Byte) /\ Len(Block(f)) = 16
  BY <1>2, <1>3
<1>5. \A i \in 1 .. 16 : i \in 1 .. 16 - 1 + 1 /\ 1 + i - 1 = i
  OBVIOUS
<1>6. \A i \in 1 .. 16 : Block(f)[i] = f[i]
  BY <1>2, <1>3, <1>5
<1> QED BY <1>4, <1>6, SeqIsBlock

\* The exclusive or of blocks goes byte by byte.
LEMMA XorOf ==
  ASSUME NEW a \in Blocks, NEW b \in Blocks
  PROVE  xor(a, b) \in Blocks /\ \A i \in 1 .. 16 : xor(a, b)[i] = a[i] ^^ b[i]
<1> DEFINE f == [i \in 1 .. 16 |-> a[i] ^^ b[i]]
<1>1. \A i \in 1 .. 16 : f[i] = a[i] ^^ b[i] /\ f[i] \in Byte
  BY BlockIsSeq, XorLaws
<1>2. xor(a, b) = Block(f)
  BY DEF xor, BlockSize
<1> HIDE DEF f
<1> QED BY <1>1, <1>2, BlockOf

\* The order of an exclusive or of blocks is of no concern, and it can be taken
\* back.
LEMMA XorCommutes ==
  ASSUME NEW a \in Blocks, NEW b \in Blocks
  PROVE  xor(a, b) = xor(b, a)
<1>1. ASSUME NEW i \in 1 .. 16 PROVE xor(a, b)[i] = xor(b, a)[i]
  <2>1. xor(a, b)[i] = a[i] ^^ b[i] /\ xor(b, a)[i] = b[i] ^^ a[i]
    BY XorOf
  <2>2. a[i] \in Byte /\ b[i] \in Byte
    BY BlockIsSeq
  <2> QED BY <2>1, <2>2, XorLaws
<1> QED BY <1>1, XorOf, SameBlock

\* What was added twice is gone.
LEMMA XorBack ==
  ASSUME NEW a \in Blocks, NEW b \in Blocks
  PROVE  xor(xor(a, b), b) = a /\ xor(a, xor(a, b)) = b
<1>1. ASSUME NEW c \in Blocks, NEW d \in Blocks PROVE xor(xor(c, d), d) = c
  <2>1. xor(c, d) \in Blocks /\ xor(xor(c, d), d) \in Blocks
    BY XorOf
  <2>2. ASSUME NEW i \in 1 .. 16 PROVE xor(xor(c, d), d)[i] = c[i]
    <3>1. xor(xor(c, d), d)[i] = (c[i] ^^ d[i]) ^^ d[i]
      BY <2>1, XorOf
    <3>2. c[i] \in Byte /\ d[i] \in Byte
      BY BlockIsSeq
    <3> QED BY <3>1, <3>2, XorLaws
  <2> QED BY <2>1, <2>2, SameBlock
<1>2. xor(a, xor(a, b)) = xor(xor(b, a), a)
  BY XorOf, XorCommutes
<1> QED BY <1>1, <1>2

\* Two blocks are added in any order.
LEMMA XorBlockOrder ==
  ASSUME NEW a \in Blocks, NEW b \in Blocks, NEW c \in Blocks
  PROVE  xor(xor(a, b), c) = xor(xor(a, c), b)
<1>1. /\ xor(a, b) \in Blocks /\ xor(a, c) \in Blocks
      /\ xor(xor(a, b), c) \in Blocks /\ xor(xor(a, c), b) \in Blocks
  BY XorOf
<1>2. ASSUME NEW i \in 1 .. 16 PROVE xor(xor(a, b), c)[i] = xor(xor(a, c), b)[i]
  <2>1. /\ xor(xor(a, b), c)[i] = (a[i] ^^ b[i]) ^^ c[i]
        /\ xor(xor(a, c), b)[i] = (a[i] ^^ c[i]) ^^ b[i]
    BY <1>1, XorOf
  <2>2. a[i] \in Byte /\ b[i] \in Byte /\ c[i] \in Byte
    BY BlockIsSeq
  <2> QED BY <2>1, <2>2, XorOrder
<1> QED BY <1>1, <1>2, SameBlock

\* The block of zeros adds nothing.
LEMMA Zeros ==
  /\ zeros \in Blocks
  /\ \A i \in 1 .. 16 : zeros[i] = 0
  /\ \A b \in Blocks : xor(zeros, b) = b
<1> DEFINE f == [i \in 1 .. 16 |-> 0]
<1>1. \A i \in 1 .. 16 : f[i] = 0 /\ f[i] \in Byte
  BY DEF Byte
<1>2. zeros = Block(f)
  BY DEF zeros, BlockSize
<1> HIDE DEF f
<1>3. zeros \in Blocks /\ \A i \in 1 .. 16 : zeros[i] = 0
  BY <1>1, <1>2, BlockOf
<1>4. ASSUME NEW b \in Blocks PROVE xor(zeros, b) = b
  <2>1. 0 \in Byte
    BY DEF Byte
  <2>2. \A i \in 1 .. 16 : xor(zeros, b)[i] = 0 ^^ b[i]
    BY <1>3, XorOf
  <2>3. ASSUME NEW i \in 1 .. 16 PROVE xor(zeros, b)[i] = b[i]
    <3>1. b[i] \in Byte
      BY BlockIsSeq
    <3> QED BY <2>1, <2>2, <3>1, XorLaws
  <2> QED BY <1>3, <2>3, XorOf, SameBlock
<1> QED BY <1>3, <1>4

\* The bytes of a doubled block.
LEMMA Times2Of ==
  ASSUME NEW b \in Blocks
  PROVE  /\ times2(b) \in Blocks
         /\ \A i \in 1 .. 15 :
              times2(b)[i] = ((2 * b[i]) % 256) + (b[i + 1] \div 128)
         /\ times2(b)[16] = ((2 * b[16]) % 256) ^^ ((b[1] \div 128) * 135)
<1> DEFINE f == [i \in 1 .. 16 |->
                   IF i < 16 THEN ((2 * b[i]) % 256) + (b[i + 1] \div 128)
                   ELSE ((2 * b[i]) % 256) ^^ ((b[1] \div 128) * 135)]
<1>1. \A i \in 1 .. 15 : f[i] = ((2 * b[i]) % 256) + (b[i + 1] \div 128)
  OBVIOUS
<1>2. f[16] = ((2 * b[16]) % 256) ^^ ((b[1] \div 128) * 135)
  OBVIOUS
<1>3. times2(b) = Block(f)
  BY DEF times2, BlockSize
<1> HIDE DEF f
<1>4. ASSUME NEW x \in Byte, NEW y \in Byte
      PROVE  ((2 * x) % 256) + (y \div 128) \in Byte
  BY DEF Byte
<1>5. ASSUME NEW x \in Byte, NEW y \in Byte
      PROVE  ((2 * x) % 256) \in Byte /\ (y \div 128) * 135 \in Byte
  BY DEF Byte
<1>6. ASSUME NEW i \in 1 .. 15 PROVE f[i] \in Byte
  <2>1. i \in 1 .. 16 /\ i + 1 \in 1 .. 16
    OBVIOUS
  <2>2. b[i] \in Byte /\ b[i + 1] \in Byte
    BY <2>1, BlockIsSeq
  <2>3. ((2 * b[i]) % 256) + (b[i + 1] \div 128) \in Byte
    BY <1>4, <2>2, Zenon
  <2> QED BY <1>1, <2>3
<1>7. f[16] \in Byte
  <2>1. b[16] \in Byte /\ b[1] \in Byte
    BY BlockIsSeq
  <2> QED BY <1>2, <1>5, <2>1, XorLaws
<1>8. \A i \in 1 .. 16 : f[i] \in Byte
  <2>1. \A i \in 1 .. 16 : i \in 1 .. 15 \/ i = 16
    OBVIOUS
  <2> QED BY <1>6, <1>7, <2>1
<1>9. Block(f) \in Blocks /\ \A i \in 1 .. 16 : Block(f)[i] = f[i]
  BY <1>8, BlockOf
<1>10. /\ \A i \in 1 .. 15 : times2(b)[i] = f[i]
       /\ times2(b)[16] = f[16]
  BY <1>3, <1>9
<1> QED BY <1>1, <1>2, <1>3, <1>9, <1>10

\* What is made of a block is a block again.
LEMMA Times3Of ==
  ASSUME NEW b \in Blocks
  PROVE  times3(b) \in Blocks
BY Times2Of, XorOf DEF times3

\* The length of the last part makes a block.
LEMMA LengthBlockOf ==
  ASSUME NEW n \in 0 .. 16
  PROVE  LengthBlock(n) \in Blocks
<1>1. (8 * n) \div 256 \in Byte /\ (8 * n) % 256 \in Byte
  BY DEF Byte
<1>2. zeros \in [1 .. 16 -> Byte]
  BY Zeros DEF Blocks
<1> QED BY <1>1, <1>2 DEF LengthBlock, BlockSize, Blocks

-----------------------------------------------------------------------------
(* The loops of OCB2.                                                       *)

\* The block cipher under a key: E permutes the blocks, and D is its inverse.
IsCipher == \A b \in Blocks : E(b) \in Blocks /\ D(b) \in Blocks /\ D(E(b)) = b

States == [delta : Blocks, checksum : Blocks, dst : Seq(Byte)]

\* A state has the parts it was made of.
LEMMA StateOf ==
  ASSUME NEW delta \in Blocks, NEW checksum \in Blocks, NEW dst \in Seq(Byte)
  PROVE  /\ State(delta, checksum, dst) \in States
         /\ State(delta, checksum, dst).delta = delta
         /\ State(delta, checksum, dst).checksum = checksum
         /\ State(delta, checksum, dst).dst = dst
BY DEF State, States

\* The parts of a state are blocks and bytes.
LEMMA StateHas ==
  ASSUME NEW s \in States
  PROVE  /\ s.delta \in Blocks /\ s.checksum \in Blocks /\ s.dst \in Seq(Byte)
         /\ Len(s.dst) \in Nat
BY DEF States

\* The loops begin with nothing written.
LEMMA StartOf ==
  ASSUME IsCipher, NEW nonce \in Blocks
  PROVE  /\ Start(nonce) \in States
         /\ Start(nonce).delta = E(nonce) /\ Start(nonce).checksum = zeros
         /\ Start(nonce).dst = <<>>
<1>1. E(nonce) \in Blocks /\ zeros \in Blocks /\ <<>> \in Seq(Byte)
  BY Zeros DEF IsCipher
<1>2. PICK e \in Blocks, none \in Seq(Byte) : e = E(nonce) /\ none = <<>>
  BY <1>1
<1>3. Start(nonce) = State(e, zeros, none)
  BY <1>2, Zenon DEF Start
<1>4. zeros \in Blocks
  BY <1>1
<1>5. /\ State(e, zeros, none) \in States
      /\ State(e, zeros, none).delta = e /\ State(e, zeros, none).checksum = zeros
      /\ State(e, zeros, none).dst = none
  BY <1>4, StateOf
<1> QED BY <1>2, <1>3, <1>5, Zenon

\* A piece of a sequence.
LEMMA Slice ==
  ASSUME NEW s \in Seq(Byte), NEW x \in Nat, NEW y \in Nat, x <= y, y <= Len(s)
  PROVE  /\ SubSeq(s, x + 1, y) \in Seq(Byte)
         /\ Len(SubSeq(s, x + 1, y)) = y - x
         /\ \A i \in 1 .. y - x : SubSeq(s, x + 1, y)[i] = s[x + i]
<1>1. x + 1 \in Int /\ y \in Int /\ \A i \in x + 1 .. y : s[i] \in Byte
  OBVIOUS
<1>2. /\ SubSeq(s, x + 1, y) \in Seq(Byte)
      /\ Len(SubSeq(s, x + 1, y)) = IF x + 1 <= y THEN y - (x + 1) + 1 ELSE 0
      /\ \A i \in 1 .. y - (x + 1) + 1 :
           SubSeq(s, x + 1, y)[i] = s[(x + 1) + i - 1]
  BY <1>1, SubSeqProperties
<1>3. y - (x + 1) + 1 = y - x
  OBVIOUS
<1>4. \A i \in 1 .. y - x : (x + 1) + i - 1 = x + i
  OBVIOUS
<1> QED BY <1>2, <1>3, <1>4

\* The block at an offset.
LEMMA BlockAtIs ==
  ASSUME NEW s \in Seq(Byte), NEW x \in Nat, x + 16 <= Len(s)
  PROVE  BlockAt(s, x) \in Blocks /\ \A i \in 1 .. 16 : BlockAt(s, x)[i] = s[x + i]
<1>1. PICK y \in Nat : y = x + 16
  OBVIOUS
<1>2. BlockAt(s, x) = SubSeq(s, x + 1, y)
  BY <1>1 DEF BlockAt, BlockSize
<1>3. x <= y /\ y <= Len(s) /\ y - x = 16
  BY <1>1
<1>4. /\ SubSeq(s, x + 1, y) \in Seq(Byte) /\ Len(SubSeq(s, x + 1, y)) = y - x
      /\ \A i \in 1 .. y - x : SubSeq(s, x + 1, y)[i] = s[x + i]
  BY <1>3, Slice
<1> QED BY <1>2, <1>3, <1>4, SeqIsBlock

\* A round adds a block while there is more than the last part, and otherwise does
\* nothing.
LEMMA RoundOver ==
  ASSUME NEW src, NEW s, Len(src) \in Nat, Len(s.dst) \in Nat,
         Len(src) - Len(s.dst) <= 16
  PROVE  EncryptRound(src, s) = s /\ DecryptRound(src, s) = s
<1>1. IsLast(Len(src) - Len(s.dst))
  BY DEF IsLast, BlockSize
<1> QED BY <1>1, Zenon DEF EncryptRound, DecryptRound

\* A round of encryption writes one block.
LEMMA EncryptRoundIs ==
  ASSUME IsCipher, NEW src \in Seq(Byte), NEW s \in States,
         Len(src) - Len(s.dst) > 16
  PROVE  LET t == EncryptRound(src, s)
             block == BlockAt(src, Len(s.dst))
         IN  /\ block \in Blocks
             /\ t \in States
             /\ t.delta = times2(s.delta)
             /\ t.checksum = xor(s.checksum, block)
             /\ t.dst = s.dst \o xor(t.delta, E(xor(t.delta, block)))
             /\ Len(t.dst) = Len(s.dst) + 16
<1>1. PICK block : block = BlockAt(src, Len(s.dst))
  OBVIOUS
<1>2. PICK delta : delta = times2(s.delta)
  OBVIOUS
<1>3. PICK out : out = xor(delta, E(xor(delta, block)))
  OBVIOUS
<1>4. EncryptRound(src, s) = State(delta, xor(s.checksum, block), s.dst \o out)
  <2>1. ~IsLast(Len(src) - Len(s.dst))
    BY StateHas DEF IsLast, BlockSize
  <2> QED BY <1>1, <1>2, <1>3, <2>1, Zenon DEF EncryptRound
<1>5. block \in Blocks
  <2>1. Len(s.dst) \in Nat /\ Len(s.dst) + 16 <= Len(src)
    BY StateHas
  <2> QED BY <1>1, <2>1, BlockAtIs
<1>6. delta \in Blocks
  BY <1>2, StateHas, Times2Of
<1>7. out \in Blocks
  BY <1>3, <1>5, <1>6, XorOf DEF IsCipher
<1>8. s.dst \o out \in Seq(Byte) /\ Len(s.dst \o out) = Len(s.dst) + 16
  <2>1. PICK d \in Seq(Byte) : d = s.dst
    BY StateHas
  <2>2. out \in Seq(Byte) /\ Len(out) = 16
    BY <1>7, BlockIsSeq
  <2>3. d \o out \in Seq(Byte) /\ Len(d \o out) = Len(d) + Len(out)
    BY <2>2, ConcatProperties, Zenon
  <2> QED BY <2>1, <2>2, <2>3, Zenon
<1>9. xor(s.checksum, block) \in Blocks
  BY <1>5, StateHas, XorOf
<1>10. PICK t : t = EncryptRound(src, s)
  OBVIOUS
<1>11. /\ t \in States /\ t.delta = delta /\ t.checksum = xor(s.checksum, block)
       /\ t.dst = s.dst \o out
  <2>1. PICK checksum \in Blocks, dst \in Seq(Byte) :
          checksum = xor(s.checksum, block) /\ dst = s.dst \o out
    BY <1>8, <1>9
  <2>2. t = State(delta, checksum, dst)
    BY <1>4, <1>10, <2>1
  <2>3. /\ State(delta, checksum, dst) \in States
        /\ State(delta, checksum, dst).delta = delta
        /\ State(delta, checksum, dst).checksum = checksum
        /\ State(delta, checksum, dst).dst = dst
    BY <1>6, StateOf
  <2> QED BY <2>1, <2>2, <2>3, Zenon
<1> QED BY <1>1, <1>2, <1>3, <1>5, <1>8, <1>10, <1>11, Zenon

\* A round of decryption writes one block.
LEMMA DecryptRoundIs ==
  ASSUME IsCipher, NEW src \in Seq(Byte), NEW s \in States,
         Len(src) - Len(s.dst) > 16
  PROVE  LET t == DecryptRound(src, s)
             plain == xor(t.delta, D(xor(t.delta, BlockAt(src, Len(s.dst)))))
         IN  /\ plain \in Blocks
             /\ t \in States
             /\ t.delta = times2(s.delta)
             /\ t.checksum = xor(s.checksum, plain)
             /\ t.dst = s.dst \o plain
             /\ Len(t.dst) = Len(s.dst) + 16
<1>1. PICK block : block = BlockAt(src, Len(s.dst))
  OBVIOUS
<1>2. PICK delta : delta = times2(s.delta)
  OBVIOUS
<1>3. PICK plain : plain = xor(delta, D(xor(delta, block)))
  OBVIOUS
<1>4. DecryptRound(src, s) = State(delta, xor(s.checksum, plain), s.dst \o plain)
  <2>1. ~IsLast(Len(src) - Len(s.dst))
    BY StateHas DEF IsLast, BlockSize
  <2> QED BY <1>1, <1>2, <1>3, <2>1, Zenon DEF DecryptRound
<1>5. block \in Blocks
  <2>1. Len(s.dst) \in Nat /\ Len(s.dst) + 16 <= Len(src)
    BY StateHas
  <2> QED BY <1>1, <2>1, BlockAtIs
<1>6. delta \in Blocks
  BY <1>2, StateHas, Times2Of
<1>7. plain \in Blocks
  BY <1>3, <1>5, <1>6, XorOf DEF IsCipher
<1>8. s.dst \o plain \in Seq(Byte) /\ Len(s.dst \o plain) = Len(s.dst) + 16
  <2>1. PICK d \in Seq(Byte) : d = s.dst
    BY StateHas
  <2>2. plain \in Seq(Byte) /\ Len(plain) = 16
    BY <1>7, BlockIsSeq
  <2>3. d \o plain \in Seq(Byte) /\ Len(d \o plain) = Len(d) + Len(plain)
    BY <2>2, ConcatProperties, Zenon
  <2> QED BY <2>1, <2>2, <2>3, Zenon
<1>9. xor(s.checksum, plain) \in Blocks
  BY <1>7, StateHas, XorOf
<1>10. PICK t : t = DecryptRound(src, s)
  OBVIOUS
<1>11. /\ t \in States /\ t.delta = delta /\ t.checksum = xor(s.checksum, plain)
       /\ t.dst = s.dst \o plain
  <2>1. PICK checksum \in Blocks, dst \in Seq(Byte) :
          checksum = xor(s.checksum, plain) /\ dst = s.dst \o plain
    BY <1>8, <1>9
  <2>2. t = State(delta, checksum, dst)
    BY <1>4, <1>10, <2>1
  <2>3. /\ State(delta, checksum, dst) \in States
        /\ State(delta, checksum, dst).delta = delta
        /\ State(delta, checksum, dst).checksum = checksum
        /\ State(delta, checksum, dst).dst = dst
    BY <1>6, StateOf
  <2> QED BY <2>1, <2>2, <2>3, Zenon
<1> QED BY <1>1, <1>2, <1>3, <1>7, <1>8, <1>10, <1>11, Zenon

\* A round keeps what a state is.
LEMMA RoundKeeps ==
  ASSUME IsCipher, NEW src \in Seq(Byte), NEW s \in States
  PROVE  EncryptRound(src, s) \in States /\ DecryptRound(src, s) \in States
<1>1. Len(s.dst) \in Nat /\ Len(src) \in Nat
  BY StateHas
<1>2. CASE Len(src) - Len(s.dst) > 16
  BY <1>2, EncryptRoundIs, DecryptRoundIs
<1>3. CASE Len(src) - Len(s.dst) <= 16
  BY <1>1, <1>3, RoundOver
<1> QED BY <1>1, <1>2, <1>3

-----------------------------------------------------------------------------
(* The loops, round after round.                                            *)

\* The states of the loop: the start, and each the round of the one before.
LEMMA EncryptingUnfolds ==
  ASSUME IsCipher, NEW src \in Seq(Byte), NEW nonce \in Blocks
  PROVE  /\ Encrypting(src, nonce)[0] = Start(nonce)
         /\ \A n \in 1 .. Len(src) :
              Encrypting(src, nonce)[n] = EncryptRound(src, Encrypting(src, nonce)[n - 1])
<1> DEFINE step == [e \in States \X Nat |-> EncryptRound(src, e[1])]
           cut(g) == [n \in 0 .. Len(src) |->
                        IF n = 0 THEN Start(nonce) ELSE EncryptRound(src, g[n - 1])]
<1>1. step \in [States \X Nat -> States]
  BY RoundKeeps
<1>2. Len(src) \in Nat /\ Start(nonce) \in States
  BY StartOf
<1>3. PICK f : IsRecursion(f, States, Start(nonce), step, Len(src))
  <2> HIDE DEF step
  <2>1. \E f : IsRecursion(f, States, Start(nonce), step, Len(src))
    BY <1>1, <1>2, Recursion, Zenon
  <2> QED BY <2>1
<1>4. /\ f \in [0 .. Len(src) -> States] /\ f[0] = Start(nonce)
      /\ \A n \in 1 .. Len(src) : f[n] = step[<<f[n - 1], n>>]
  BY <1>3 DEF IsRecursion
<1>5. \A n \in 1 .. Len(src) : f[n] = EncryptRound(src, f[n - 1])
  <2> TAKE n \in 1 .. Len(src)
  <2>1. <<f[n - 1], n>> \in States \X Nat
    BY <1>4
  <2>2. step[<<f[n - 1], n>>] = EncryptRound(src, f[n - 1])
    BY <2>1
  <2> HIDE DEF step
  <2> QED BY <1>4, <2>2
<1>6. f = cut(f)
  <2>1. \A n \in 0 .. Len(src) :
          f[n] = IF n = 0 THEN Start(nonce) ELSE EncryptRound(src, f[n - 1])
    BY <1>4, <1>5
  <2>2. f = [n \in 0 .. Len(src) |-> f[n]]
    BY <1>4
  <2> QED BY <2>1, <2>2
<1>7. Encrypting(src, nonce) = CHOOSE g : g = cut(g)
  BY Zenon DEF Encrypting
<1>8. Encrypting(src, nonce) = cut(Encrypting(src, nonce))
  <2> HIDE DEF cut
  <2> QED BY <1>6, <1>7
<1>9. PICK g : g = Encrypting(src, nonce)
  OBVIOUS
<1>10. g = cut(g)
  BY <1>8, <1>9
<1>11. \A n \in 0 .. Len(src) :
         g[n] = IF n = 0 THEN Start(nonce) ELSE EncryptRound(src, g[n - 1])
  <2>1. DOMAIN g = 0 .. Len(src)
    BY <1>10
  <2> QED BY <1>10
<1>12. g[0] = Start(nonce)
  BY <1>2, <1>11
<1>13. \A n \in 1 .. Len(src) : g[n] = EncryptRound(src, g[n - 1])
  BY <1>2, <1>11
<1> QED BY <1>9, <1>12, <1>13

\* The same of decryption.
LEMMA DecryptingUnfolds ==
  ASSUME IsCipher, NEW src \in Seq(Byte), NEW nonce \in Blocks
  PROVE  /\ Decrypting(src, nonce)[0] = Start(nonce)
         /\ \A n \in 1 .. Len(src) :
              Decrypting(src, nonce)[n] = DecryptRound(src, Decrypting(src, nonce)[n - 1])
<1> DEFINE step == [e \in States \X Nat |-> DecryptRound(src, e[1])]
           cut(g) == [n \in 0 .. Len(src) |->
                        IF n = 0 THEN Start(nonce) ELSE DecryptRound(src, g[n - 1])]
<1>1. step \in [States \X Nat -> States]
  BY RoundKeeps
<1>2. Len(src) \in Nat /\ Start(nonce) \in States
  BY StartOf
<1>3. PICK f : IsRecursion(f, States, Start(nonce), step, Len(src))
  <2> HIDE DEF step
  <2>1. \E f : IsRecursion(f, States, Start(nonce), step, Len(src))
    BY <1>1, <1>2, Recursion, Zenon
  <2> QED BY <2>1
<1>4. /\ f \in [0 .. Len(src) -> States] /\ f[0] = Start(nonce)
      /\ \A n \in 1 .. Len(src) : f[n] = step[<<f[n - 1], n>>]
  BY <1>3 DEF IsRecursion
<1>5. \A n \in 1 .. Len(src) : f[n] = DecryptRound(src, f[n - 1])
  <2> TAKE n \in 1 .. Len(src)
  <2>1. <<f[n - 1], n>> \in States \X Nat
    BY <1>4
  <2>2. step[<<f[n - 1], n>>] = DecryptRound(src, f[n - 1])
    BY <2>1
  <2> HIDE DEF step
  <2> QED BY <1>4, <2>2
<1>6. f = cut(f)
  <2>1. \A n \in 0 .. Len(src) :
          f[n] = IF n = 0 THEN Start(nonce) ELSE DecryptRound(src, f[n - 1])
    BY <1>4, <1>5
  <2>2. f = [n \in 0 .. Len(src) |-> f[n]]
    BY <1>4
  <2> QED BY <2>1, <2>2
<1>7. Decrypting(src, nonce) = CHOOSE g : g = cut(g)
  BY Zenon DEF Decrypting
<1>8. Decrypting(src, nonce) = cut(Decrypting(src, nonce))
  <2> HIDE DEF cut
  <2> QED BY <1>6, <1>7
<1>9. PICK g : g = Decrypting(src, nonce)
  OBVIOUS
<1>10. g = cut(g)
  BY <1>8, <1>9
<1>11. \A n \in 0 .. Len(src) :
         g[n] = IF n = 0 THEN Start(nonce) ELSE DecryptRound(src, g[n - 1])
  <2>1. DOMAIN g = 0 .. Len(src)
    BY <1>10
  <2> QED BY <1>10
<1>12. g[0] = Start(nonce)
  BY <1>2, <1>11
<1>13. \A n \in 1 .. Len(src) : g[n] = DecryptRound(src, g[n - 1])
  BY <1>2, <1>11
<1> QED BY <1>9, <1>12, <1>13

\* The number of blocks before the last part.
FullBlocks(src) == IF Len(src) = 0 THEN 0 ELSE (Len(src) - 1) \div 16

\* The blocks before the last part leave one to sixteen bytes, or none of an empty
\* message.
LEMMA FullBlocksIs ==
  ASSUME NEW src \in Seq(Byte)
  PROVE  /\ FullBlocks(src) \in Nat /\ Len(src) \in Nat
         /\ FullBlocks(src) <= Len(src)
         /\ 16 * FullBlocks(src) <= Len(src)
         /\ Len(src) - 16 * FullBlocks(src) <= 16
         /\ \A n \in 0 .. FullBlocks(src) - 1 : Len(src) - 16 * n > 16
         /\ \/ Len(src) \div 16 = FullBlocks(src)
            \/ /\ Len(src) \div 16 = FullBlocks(src) + 1
               /\ FullBlocks(src) + 1 <= Len(src)
<1>1. PICK l \in Nat : l = Len(src)
  OBVIOUS
<1>2. CASE l = 0
  <2>1. FullBlocks(src) = 0
    BY <1>1, <1>2 DEF FullBlocks
  <2>2. l \div 16 = 0
    BY <1>2
  <2> QED BY <1>1, <1>2, <2>1, <2>2
<1>3. CASE l > 0
  <2>1. PICK k \in Nat : k = (l - 1) \div 16
    BY <1>3
  <2>2. FullBlocks(src) = k
    BY <1>1, <1>3, <2>1 DEF FullBlocks
  <2>3. 16 * k <= l - 1 /\ l - 1 <= 16 * k + 15 /\ k <= l - 1
    BY <1>3, <2>1
  <2>4. l \div 16 = k \/ (l \div 16 = k + 1 /\ k + 1 <= l)
    BY <2>3
  <2>5. \A n \in 0 .. k - 1 : l - 16 * n > 16
    BY <2>3
  <2> QED BY <1>1, <2>2, <2>3, <2>4, <2>5
<1> QED BY <1>2, <1>3

\* After each round a block more is written.
LEMMA EncryptingRounds ==
  ASSUME IsCipher, NEW src \in Seq(Byte), NEW nonce \in Blocks
  PROVE  \A n \in 0 .. FullBlocks(src) :
           /\ Encrypting(src, nonce)[n] \in States
           /\ Len(Encrypting(src, nonce)[n].dst) = 16 * n
<1> DEFINE f == Encrypting(src, nonce)
           k == FullBlocks(src)
           T == {n \in Nat : n \in 0 .. k => f[n] \in States /\ Len(f[n].dst) = 16 * n}
<1>1. /\ k \in Nat /\ k <= Len(src) /\ Len(src) \in Nat
      /\ \A n \in 0 .. k - 1 : Len(src) - 16 * n > 16
  BY FullBlocksIs
<1>2. /\ f[0] = Start(nonce)
      /\ \A n \in 1 .. Len(src) : f[n] = EncryptRound(src, f[n - 1])
  BY EncryptingUnfolds
<1> HIDE DEF f, k
<1>3. 0 \in T
  <2>1. f[0] \in States /\ Len(f[0].dst) = 0
    BY <1>2, StartOf
  <2> QED BY <2>1
<1>4. ASSUME NEW n \in Nat, n \in T PROVE n + 1 \in T
  <2> SUFFICES ASSUME n + 1 \in 0 .. k
               PROVE  f[n + 1] \in States /\ Len(f[n + 1].dst) = 16 * (n + 1)
    OBVIOUS
  <2>1. n \in 0 .. k - 1 /\ n \in 0 .. k /\ n + 1 \in 1 .. Len(src)
    BY <1>1
  <2>2. f[n] \in States /\ Len(f[n].dst) = 16 * n
    BY <1>4, <2>1
  <2>3. PICK s \in States : s = f[n]
    BY <2>2
  <2>4. f[n + 1] = EncryptRound(src, s)
    BY <1>2, <2>1, <2>3
  <2>5. Len(src) - Len(s.dst) > 16
    BY <1>1, <2>1, <2>2, <2>3
  <2>6. EncryptRound(src, s) \in States
    BY RoundKeeps
  <2>7. Len(EncryptRound(src, s).dst) = Len(s.dst) + 16
    BY <2>5, EncryptRoundIs
  <2> QED BY <2>2, <2>3, <2>4, <2>6, <2>7
<1>5. Nat \subseteq T
  <2> HIDE DEF T
  <2> QED BY <1>3, <1>4, Induction
<1>6. ASSUME NEW n \in 0 .. k PROVE f[n] \in States /\ Len(f[n].dst) = 16 * n
  <2>1. n \in Nat
    BY <1>1
  <2> QED BY <1>5, <2>1
<1> QED BY <1>6 DEF f, k

\* After the last full block nothing changes.
LEMMA EncryptingEnds ==
  ASSUME IsCipher, NEW src \in Seq(Byte), NEW nonce \in Blocks
  PROVE  Encrypting(src, nonce)[Len(src) \div 16] = Encrypting(src, nonce)[FullBlocks(src)]
<1>1. PICK f : f = Encrypting(src, nonce)
  OBVIOUS
<1>2. PICK k \in Nat : k = FullBlocks(src)
  BY FullBlocksIs
<1>3. /\ k <= Len(src) /\ Len(src) \in Nat /\ Len(src) - 16 * k <= 16
      /\ Len(src) \div 16 = k \/ (Len(src) \div 16 = k + 1 /\ k + 1 <= Len(src))
  <2>1. /\ FullBlocks(src) <= Len(src) /\ Len(src) \in Nat
        /\ Len(src) - 16 * FullBlocks(src) <= 16
    BY FullBlocksIs
  <2>2. \/ Len(src) \div 16 = FullBlocks(src)
        \/ /\ Len(src) \div 16 = FullBlocks(src) + 1
           /\ FullBlocks(src) + 1 <= Len(src)
    BY FullBlocksIs, Zenon
  <2> QED BY <1>2, <2>1, <2>2
<1>4. f[k] \in States /\ Len(f[k].dst) = 16 * k
  <2>1. k \in 0 .. k
    OBVIOUS
  <2>2. \A n \in 0 .. k : f[n] \in States /\ Len(f[n].dst) = 16 * n
    BY <1>1, <1>2, EncryptingRounds, Zenon
  <2> QED BY <2>1, <2>2
<1>5. CASE Len(src) \div 16 = k + 1 /\ k + 1 <= Len(src)
  <2>1. k + 1 \in 1 .. Len(src) /\ (k + 1) - 1 = k
    BY <1>3, <1>5
  <2>2. f[k + 1] = EncryptRound(src, f[k])
    BY <1>1, <2>1, EncryptingUnfolds
  <2>3. PICK s : s = f[k]
    OBVIOUS
  <2>4. Len(s.dst) \in Nat /\ Len(src) - Len(s.dst) <= 16
    BY <1>3, <1>4, <2>3
  <2>5. EncryptRound(src, s) = s
    BY <1>3, <2>4, RoundOver
  <2> QED BY <1>1, <1>2, <1>5, <2>2, <2>3, <2>5
<1> QED BY <1>1, <1>2, <1>3, <1>5

\* The same of decryption.
LEMMA DecryptingRounds ==
  ASSUME IsCipher, NEW src \in Seq(Byte), NEW nonce \in Blocks
  PROVE  \A n \in 0 .. FullBlocks(src) :
           /\ Decrypting(src, nonce)[n] \in States
           /\ Len(Decrypting(src, nonce)[n].dst) = 16 * n
<1> DEFINE f == Decrypting(src, nonce)
           k == FullBlocks(src)
           T == {n \in Nat : n \in 0 .. k => f[n] \in States /\ Len(f[n].dst) = 16 * n}
<1>1. /\ k \in Nat /\ k <= Len(src) /\ Len(src) \in Nat
      /\ \A n \in 0 .. k - 1 : Len(src) - 16 * n > 16
  BY FullBlocksIs
<1>2. /\ f[0] = Start(nonce)
      /\ \A n \in 1 .. Len(src) : f[n] = DecryptRound(src, f[n - 1])
  BY DecryptingUnfolds
<1> HIDE DEF f, k
<1>3. 0 \in T
  <2>1. f[0] \in States /\ Len(f[0].dst) = 0
    BY <1>2, StartOf
  <2> QED BY <2>1
<1>4. ASSUME NEW n \in Nat, n \in T PROVE n + 1 \in T
  <2> SUFFICES ASSUME n + 1 \in 0 .. k
               PROVE  f[n + 1] \in States /\ Len(f[n + 1].dst) = 16 * (n + 1)
    OBVIOUS
  <2>1. n \in 0 .. k - 1 /\ n \in 0 .. k /\ n + 1 \in 1 .. Len(src)
    BY <1>1
  <2>2. f[n] \in States /\ Len(f[n].dst) = 16 * n
    BY <1>4, <2>1
  <2>3. PICK s \in States : s = f[n]
    BY <2>2
  <2>4. f[n + 1] = DecryptRound(src, s)
    BY <1>2, <2>1, <2>3
  <2>5. Len(src) - Len(s.dst) > 16
    BY <1>1, <2>1, <2>2, <2>3
  <2>6. DecryptRound(src, s) \in States
    BY RoundKeeps
  <2>7. Len(DecryptRound(src, s).dst) = Len(s.dst) + 16
    BY <2>5, DecryptRoundIs
  <2> QED BY <2>2, <2>3, <2>4, <2>6, <2>7
<1>5. Nat \subseteq T
  <2> HIDE DEF T
  <2> QED BY <1>3, <1>4, Induction
<1>6. ASSUME NEW n \in 0 .. k PROVE f[n] \in States /\ Len(f[n].dst) = 16 * n
  <2>1. n \in Nat
    BY <1>1
  <2> QED BY <1>5, <2>1
<1> QED BY <1>6 DEF f, k

\* After the last full block nothing changes.
LEMMA DecryptingEnds ==
  ASSUME IsCipher, NEW src \in Seq(Byte), NEW nonce \in Blocks
  PROVE  Decrypting(src, nonce)[Len(src) \div 16] = Decrypting(src, nonce)[FullBlocks(src)]
<1>1. PICK f : f = Decrypting(src, nonce)
  OBVIOUS
<1>2. PICK k \in Nat : k = FullBlocks(src)
  BY FullBlocksIs
<1>3. /\ k <= Len(src) /\ Len(src) \in Nat /\ Len(src) - 16 * k <= 16
      /\ Len(src) \div 16 = k \/ (Len(src) \div 16 = k + 1 /\ k + 1 <= Len(src))
  <2>1. /\ FullBlocks(src) <= Len(src) /\ Len(src) \in Nat
        /\ Len(src) - 16 * FullBlocks(src) <= 16
    BY FullBlocksIs
  <2>2. \/ Len(src) \div 16 = FullBlocks(src)
        \/ /\ Len(src) \div 16 = FullBlocks(src) + 1
           /\ FullBlocks(src) + 1 <= Len(src)
    BY FullBlocksIs, Zenon
  <2> QED BY <1>2, <2>1, <2>2
<1>4. f[k] \in States /\ Len(f[k].dst) = 16 * k
  <2>1. k \in 0 .. k
    OBVIOUS
  <2>2. \A n \in 0 .. k : f[n] \in States /\ Len(f[n].dst) = 16 * n
    BY <1>1, <1>2, DecryptingRounds, Zenon
  <2> QED BY <2>1, <2>2
<1>5. CASE Len(src) \div 16 = k + 1 /\ k + 1 <= Len(src)
  <2>1. k + 1 \in 1 .. Len(src) /\ (k + 1) - 1 = k
    BY <1>3, <1>5
  <2>2. f[k + 1] = DecryptRound(src, f[k])
    BY <1>1, <2>1, DecryptingUnfolds
  <2>3. PICK s : s = f[k]
    OBVIOUS
  <2>4. Len(s.dst) \in Nat /\ Len(src) - Len(s.dst) <= 16
    BY <1>3, <1>4, <2>3
  <2>5. DecryptRound(src, s) = s
    BY <1>3, <2>4, RoundOver
  <2> QED BY <1>1, <1>2, <1>5, <2>2, <2>3, <2>5
<1> QED BY <1>1, <1>2, <1>3, <1>5

\* What the n-th round of encryption makes of the n-th block.
LEMMA EncryptingBlock ==
  ASSUME IsCipher, NEW src \in Seq(Byte), NEW nonce \in Blocks,
         NEW n \in 1 .. FullBlocks(src)
  PROVE  LET s == Encrypting(src, nonce)[n - 1]
             t == Encrypting(src, nonce)[n]
             block == BlockAt(src, 16 * (n - 1))
         IN  /\ block \in Blocks
             /\ t.delta = times2(s.delta)
             /\ t.checksum = xor(s.checksum, block)
             /\ t.dst = s.dst \o xor(t.delta, E(xor(t.delta, block)))
<1>1. PICK f : f = Encrypting(src, nonce)
  OBVIOUS
<1>2. PICK m : m = n - 1
  OBVIOUS
<1>3. /\ m \in 0 .. FullBlocks(src) - 1 /\ m \in 0 .. FullBlocks(src)
      /\ n \in 1 .. Len(src)
  BY <1>2, FullBlocksIs
<1>4. PICK s : s = f[m]
  OBVIOUS
<1>5. s \in States /\ Len(s.dst) = 16 * m
  BY <1>1, <1>3, <1>4, EncryptingRounds
<1>6. f[n] = EncryptRound(src, s)
  BY <1>1, <1>2, <1>3, <1>4, EncryptingUnfolds
<1>7. Len(src) - Len(s.dst) > 16
  BY <1>3, <1>5, FullBlocksIs
<1>8. PICK t : t = EncryptRound(src, s)
  OBVIOUS
<1>9. PICK block : block = BlockAt(src, Len(s.dst))
  OBVIOUS
<1>10. /\ block \in Blocks
       /\ t.delta = times2(s.delta)
       /\ t.checksum = xor(s.checksum, block)
       /\ t.dst = s.dst \o xor(t.delta, E(xor(t.delta, block)))
  BY <1>5, <1>7, <1>8, <1>9, EncryptRoundIs, Zenon
<1>11. block = BlockAt(src, 16 * (n - 1))
  BY <1>2, <1>5, <1>9
<1> QED BY <1>1, <1>2, <1>4, <1>6, <1>8, <1>10, <1>11, Zenon

\* What was written stays.
LEMMA EncryptingPrefix ==
  ASSUME IsCipher, NEW src \in Seq(Byte), NEW nonce \in Blocks,
         NEW n \in 0 .. FullBlocks(src)
  PROVE  \A m \in n .. FullBlocks(src) : \A i \in 1 .. 16 * n :
           Encrypting(src, nonce)[m].dst[i] = Encrypting(src, nonce)[n].dst[i]
<1>1. PICK f : f = Encrypting(src, nonce)
  OBVIOUS
<1>2. PICK k \in Nat : k = FullBlocks(src)
  BY FullBlocksIs
<1> DEFINE T == {m \in Nat : m \in n .. k =>
                   \A i \in 1 .. 16 * n : f[m].dst[i] = f[n].dst[i]}
<1>3. n \in Nat
  BY <1>2
<1>4. 0 \in T
  BY <1>3
<1>5. ASSUME NEW m \in Nat, m \in T PROVE m + 1 \in T
  <2> SUFFICES ASSUME m + 1 \in n .. k, NEW i \in 1 .. 16 * n
               PROVE  f[m + 1].dst[i] = f[n].dst[i]
    OBVIOUS
  <2>1. CASE m + 1 = n
    BY <2>1
  <2>2. CASE m + 1 > n
    <3>1. m \in n .. k /\ m \in 0 .. k /\ m + 1 \in 1 .. k
      BY <1>3, <2>2
    <3>2. f[m].dst[i] = f[n].dst[i]
      BY <1>5, <3>1
    <3>3. PICK d, x : d = f[m].dst /\ x = xor(f[m + 1].delta,
            E(xor(f[m + 1].delta, BlockAt(src, 16 * m))))
      OBVIOUS
    <3>4. d \in Seq(Byte) /\ Len(d) = 16 * m
      <4>1. f[m] \in States /\ Len(f[m].dst) = 16 * m
        BY <1>1, <1>2, <3>1, EncryptingRounds
      <4> QED BY <3>3, <4>1, StateHas
    <3>5. f[m + 1].dst = d \o x
      <4>1. PICK l \in 1 .. FullBlocks(src) : l = m + 1
        BY <1>2, <3>1
      <4>2. l - 1 = m
        BY <4>1
      <4>3. f[l].dst = f[l - 1].dst
                         \o xor(f[l].delta, E(xor(f[l].delta,
                                                  BlockAt(src, 16 * (l - 1)))))
        BY <1>1, EncryptingBlock, Zenon
      <4> QED BY <3>3, <4>1, <4>2, <4>3
    <3>6. x \in Seq(Byte)
      <4>1. f[m + 1] \in States
        <5>1. PICK l \in 0 .. FullBlocks(src) : l = m + 1
          BY <1>2, <3>1
        <5>2. f[l] \in States
          BY <1>1, EncryptingRounds, Zenon
        <5> QED BY <5>1, <5>2
      <4>2. PICK delta \in Blocks : delta = f[m + 1].delta
        BY <4>1, StateHas
      <4>3. BlockAt(src, 16 * m) \in Blocks
        <5>1. Len(src) - 16 * m > 16
          BY <1>2, <3>1, FullBlocksIs
        <5>2. 16 * m \in Nat /\ 16 * m + 16 <= Len(src)
          BY <5>1, FullBlocksIs
        <5> QED BY <5>2, BlockAtIs
      <4>4. x = xor(delta, E(xor(delta, BlockAt(src, 16 * m))))
        BY <3>3, <4>2
      <4>5. x \in Blocks
        <5>1. PICK y \in Blocks : y = xor(delta, BlockAt(src, 16 * m))
          BY <4>3, XorOf
        <5>2. PICK e \in Blocks : e = E(y)
          BY DEF IsCipher
        <5>3. x = xor(delta, e)
          BY <4>4, <5>1, <5>2
        <5> QED BY <5>3, XorOf
      <4> QED BY <4>5, BlockIsSeq
    <3>7. (d \o x)[i] = d[i]
      <4>1. i \in 1 .. Len(d) + Len(x) /\ i <= Len(d)
        BY <1>3, <3>1, <3>4, <3>6
      <4> QED BY <3>4, <3>6, <4>1, ConcatProperties
    <3> QED BY <3>2, <3>3, <3>5, <3>7
  <2> QED BY <1>3, <2>1, <2>2
<1>6. Nat \subseteq T
  <2> HIDE DEF T
  <2> QED BY <1>4, <1>5, Induction
<1>7. ASSUME NEW m \in n .. k, NEW i \in 1 .. 16 * n
      PROVE  f[m].dst[i] = f[n].dst[i]
  <2>1. m \in Nat
    BY <1>3
  <2> QED BY <1>6, <2>1
<1> QED BY <1>1, <1>2, <1>7

-----------------------------------------------------------------------------
(* The last part, and what is encrypted.                                    *)

LastState(src, nonce) == Encrypting(src, nonce)[FullBlocks(src)]
RestOf(src) == Len(src) - 16 * FullBlocks(src)
LastDelta(src, nonce) == times2(LastState(src, nonce).delta)
LastPad(src, nonce) == Pad(LastDelta(src, nonce), RestOf(src))
Filled(src, nonce) ==
  SubSeq(src, 16 * FullBlocks(src) + 1, Len(src))
    \o SubSeq(LastPad(src, nonce), RestOf(src) + 1, 16)

\* Blocks and last part are the message.
LEMMA RestIs ==
  ASSUME NEW src \in Seq(Byte)
  PROVE  /\ RestOf(src) \in 0 .. 16
         /\ 16 * FullBlocks(src) \in Nat
         /\ Len(src) = 16 * FullBlocks(src) + RestOf(src)
<1>1. PICK k \in Nat : k = FullBlocks(src)
  BY FullBlocksIs
<1>2. Len(src) \in Nat /\ 16 * k <= Len(src) /\ Len(src) - 16 * k <= 16
  BY <1>1, FullBlocksIs
<1>3. PICK r \in 0 .. 16 : r = Len(src) - 16 * k
  BY <1>2
<1>4. RestOf(src) = r
  BY <1>1, <1>3 DEF RestOf
<1>5. 16 * k \in Nat /\ Len(src) = 16 * k + r
  BY <1>2, <1>3
<1> QED BY <1>1, <1>4, <1>5, Zenon

\* A pad is a block.
LEMMA PadOf ==
  ASSUME IsCipher, NEW delta \in Blocks, NEW n \in 0 .. 16
  PROVE  Pad(delta, n) \in Blocks
<1>1. LengthBlock(n) \in Blocks
  BY LengthBlockOf
<1>2. PICK x \in Blocks : x = xor(LengthBlock(n), delta)
  BY <1>1, XorOf
<1>3. E(x) \in Blocks
  BY DEF IsCipher
<1> QED BY <1>2, <1>3 DEF Pad

\* A tag is a block.
LEMMA TagOf ==
  ASSUME IsCipher, NEW delta \in Blocks, NEW sum \in Blocks
  PROVE  Tag(delta, sum) \in Blocks
<1>1. PICK x \in Blocks : x = xor(times3(delta), sum)
  BY Times3Of, XorOf
<1>2. E(x) \in Blocks
  BY DEF IsCipher
<1> QED BY <1>1, <1>2 DEF Tag

\* A last part that is filled up with a block.
LEMMA FillsUp ==
  ASSUME NEW src \in Seq(Byte), NEW pad \in Blocks
  PROVE  LET k == 16 * FullBlocks(src)
             r == RestOf(src)
             tmp == SubSeq(src, k + 1, Len(src)) \o SubSeq(pad, r + 1, 16)
         IN  /\ tmp \in Blocks
             /\ \A i \in 1 .. r : tmp[i] = src[k + i]
             /\ \A i \in r + 1 .. 16 : tmp[i] = pad[i]
<1>1. PICK k \in Nat, r \in 0 .. 16 :
        /\ k = 16 * FullBlocks(src) /\ r = RestOf(src) /\ Len(src) = k + r
  BY RestIs
<1>2. PICK x : x = SubSeq(src, k + 1, Len(src))
  OBVIOUS
<1>3. PICK y : y = SubSeq(pad, r + 1, 16)
  OBVIOUS
<1>4. x \in Seq(Byte) /\ Len(x) = r /\ \A i \in 1 .. r : x[i] = src[k + i]
  <2>1. PICK l \in Nat : l = Len(src)
    OBVIOUS
  <2>2. k <= l /\ l <= Len(src) /\ l - k = r
    BY <1>1, <2>1
  <2>3. /\ SubSeq(src, k + 1, l) \in Seq(Byte) /\ Len(SubSeq(src, k + 1, l)) = l - k
        /\ \A i \in 1 .. l - k : SubSeq(src, k + 1, l)[i] = src[k + i]
    BY <2>2, Slice
  <2> QED BY <1>2, <2>1, <2>2, <2>3
<1>5. y \in Seq(Byte) /\ Len(y) = 16 - r /\ \A i \in 1 .. 16 - r : y[i] = pad[r + i]
  <2>1. pad \in Seq(Byte) /\ Len(pad) = 16
    BY BlockIsSeq
  <2>2. 16 \in Nat /\ r \in Nat /\ r <= 16 /\ 16 <= Len(pad)
    BY <2>1
  <2>3. /\ SubSeq(pad, r + 1, 16) \in Seq(Byte) /\ Len(SubSeq(pad, r + 1, 16)) = 16 - r
        /\ \A i \in 1 .. 16 - r : SubSeq(pad, r + 1, 16)[i] = pad[r + i]
    BY <2>1, <2>2, Slice
  <2> QED BY <1>3, <2>3
<1>6. PICK t : t = x \o y
  OBVIOUS
<1>7. /\ t \in Seq(Byte) /\ Len(t) = Len(x) + Len(y)
      /\ \A i \in 1 .. Len(x) + Len(y) :
           t[i] = IF i <= Len(x) THEN x[i] ELSE y[i - Len(x)]
  BY <1>4, <1>5, <1>6, ConcatProperties, ZenonT(60)
<1>8. t \in Blocks
  BY <1>4, <1>5, <1>7, SeqIsBlock
<1>9. \A i \in 1 .. r : t[i] = src[k + i]
  BY <1>4, <1>5, <1>7, SMTT(30)
<1>10. ASSUME NEW i \in r + 1 .. 16 PROVE t[i] = pad[i]
  <2>1. i - r \in 1 .. 16 - r /\ r + (i - r) = i
    OBVIOUS
  <2>2. t[i] = y[i - r]
    BY <1>4, <1>5, <1>7
  <2> QED BY <1>5, <2>1, <2>2
<1> QED BY <1>1, <1>2, <1>3, <1>6, <1>8, <1>9, <1>10, Zenon

\* What the loop leaves for the last part.
LEMMA LastPart ==
  ASSUME IsCipher, NEW src \in Seq(Byte), NEW nonce \in Blocks
  PROVE  /\ LastState(src, nonce) \in States
         /\ Len(LastState(src, nonce).dst) = 16 * FullBlocks(src)
         /\ LastDelta(src, nonce) \in Blocks
         /\ LastPad(src, nonce) \in Blocks
         /\ Filled(src, nonce) \in Blocks
         /\ \A i \in 1 .. RestOf(src) :
              Filled(src, nonce)[i] = src[16 * FullBlocks(src) + i]
         /\ \A i \in RestOf(src) + 1 .. 16 :
              Filled(src, nonce)[i] = LastPad(src, nonce)[i]
<1>1. /\ LastState(src, nonce) \in States
      /\ Len(LastState(src, nonce).dst) = 16 * FullBlocks(src)
  <2>1. PICK k \in 0 .. FullBlocks(src) : k = FullBlocks(src)
    BY FullBlocksIs
  <2>2. /\ Encrypting(src, nonce)[k] \in States
        /\ Len(Encrypting(src, nonce)[k].dst) = 16 * k
    BY EncryptingRounds
  <2> QED BY <2>1, <2>2 DEF LastState
<1>2. LastDelta(src, nonce) \in Blocks
  BY <1>1, StateHas, Times2Of DEF LastDelta
<1>3. LastPad(src, nonce) \in Blocks
  BY <1>2, RestIs, PadOf DEF LastPad
<1>4. PICK pad \in Blocks : pad = LastPad(src, nonce)
  BY <1>3
<1>5. /\ Filled(src, nonce) \in Blocks
      /\ \A i \in 1 .. RestOf(src) :
           Filled(src, nonce)[i] = src[16 * FullBlocks(src) + i]
      /\ \A i \in RestOf(src) + 1 .. 16 : Filled(src, nonce)[i] = pad[i]
  BY <1>4, FillsUp, Zenon DEF Filled
<1> QED BY <1>1, <1>2, <1>3, <1>4, <1>5

\* What is encrypted, named by its parts.
LEMMA EncryptIs ==
  ASSUME IsCipher, NEW src \in Seq(Byte), NEW nonce \in Blocks, NEW tagLength
  PROVE  LET e == Encrypt(src, nonce, tagLength)
             s == LastState(src, nonce)
         IN  /\ e.dst = s.dst \o SubSeq(xor(LastPad(src, nonce), Filled(src, nonce)),
                                        1, RestOf(src))
             /\ e.tag = SubSeq(Tag(LastDelta(src, nonce),
                                   xor(s.checksum, Filled(src, nonce))),
                               1, tagLength)
<1>1. PICK s : s = LastState(src, nonce)
  OBVIOUS
<1>2. Encrypting(src, nonce)[Len(src) \div BlockSize] = s
  BY <1>1, EncryptingEnds DEF LastState, BlockSize
<1>3. PICK k : k = Len(s.dst)
  OBVIOUS
<1>4. PICK r : r = RestOf(src)
  OBVIOUS
<1>5. k = 16 * FullBlocks(src) /\ Len(src) - k = r
  BY <1>1, <1>3, <1>4, LastPart DEF RestOf
<1>6. PICK delta : delta = LastDelta(src, nonce)
  OBVIOUS
<1>7. delta = times2(s.delta)
  BY <1>1, <1>6 DEF LastDelta
<1>8. PICK pad : pad = LastPad(src, nonce)
  OBVIOUS
<1>9. pad = Pad(delta, r)
  BY <1>4, <1>6, <1>8 DEF LastPad
<1>10. PICK tmp : tmp = Filled(src, nonce)
  OBVIOUS
<1>11. tmp = SubSeq(src, k + 1, Len(src)) \o SubSeq(pad, r + 1, BlockSize)
  BY <1>4, <1>5, <1>8, <1>10 DEF Filled, BlockSize
<1>12. Encrypt(src, nonce, tagLength)
         = [dst |-> s.dst \o SubSeq(xor(pad, tmp), 1, r),
            tag |-> SubSeq(Tag(delta, xor(s.checksum, tmp)), 1, tagLength)]
  BY <1>2, <1>3, <1>5, <1>7, <1>9, <1>11, Zenon DEF Encrypt
<1>13. PICK e : e = Encrypt(src, nonce, tagLength)
  OBVIOUS
<1>14. /\ e.dst = s.dst \o SubSeq(xor(pad, tmp), 1, r)
       /\ e.tag = SubSeq(Tag(delta, xor(s.checksum, tmp)), 1, tagLength)
  <2>1. PICK dst, tag :
          /\ dst = s.dst \o SubSeq(xor(pad, tmp), 1, r)
          /\ tag = SubSeq(Tag(delta, xor(s.checksum, tmp)), 1, tagLength)
    OBVIOUS
  <2>2. e = [dst |-> dst, tag |-> tag]
    BY <1>12, <1>13, <2>1, Zenon
  <2>3. e.dst = dst /\ e.tag = tag
    BY <2>2
  <2> QED BY <2>1, <2>3, Zenon
<1> QED BY <1>1, <1>4, <1>6, <1>8, <1>10, <1>13, <1>14, Zenon

\* What is written is as long as what was read: the blocks, and of the rest each
\* byte masked.
LEMMA EncryptBytes ==
  ASSUME IsCipher, NEW src \in Seq(Byte), NEW nonce \in Blocks, NEW tagLength
  PROVE  LET c == Encrypt(src, nonce, tagLength).dst
             k == 16 * FullBlocks(src)
         IN  /\ c \in Seq(Byte) /\ Len(c) = Len(src)
             /\ \A i \in 1 .. k : c[i] = LastState(src, nonce).dst[i]
             /\ \A i \in 1 .. RestOf(src) :
                  c[k + i] = LastPad(src, nonce)[i] ^^ Filled(src, nonce)[i]
<1>1. PICK k \in Nat, r \in 0 .. 16 :
        /\ k = 16 * FullBlocks(src) /\ r = RestOf(src) /\ Len(src) = k + r
  BY RestIs
<1>2. PICK pad \in Blocks, tmp \in Blocks :
        pad = LastPad(src, nonce) /\ tmp = Filled(src, nonce)
  BY LastPart
<1>3. PICK d \in Seq(Byte) : d = LastState(src, nonce).dst
  BY LastPart, StateHas
<1>4. Len(d) = k
  BY <1>1, <1>3, LastPart
<1>5. PICK x \in Blocks : x = xor(pad, tmp)
  BY XorOf
<1>6. PICK y : y = SubSeq(x, 1, r)
  OBVIOUS
<1>7. y \in Seq(Byte) /\ Len(y) = r /\ \A i \in 1 .. r : y[i] = x[i]
  <2>1. x \in Seq(Byte) /\ Len(x) = 16
    BY BlockIsSeq
  <2>2. 0 \in Nat /\ r \in Nat /\ 0 <= r /\ r <= Len(x)
    BY <2>1
  <2>3. /\ SubSeq(x, 0 + 1, r) \in Seq(Byte) /\ Len(SubSeq(x, 0 + 1, r)) = r - 0
        /\ \A i \in 1 .. r - 0 : SubSeq(x, 0 + 1, r)[i] = x[0 + i]
    BY <2>1, <2>2, Slice
  <2> QED BY <1>6, <2>3
<1>8. PICK c : c = Encrypt(src, nonce, tagLength).dst
  OBVIOUS
<1>9. c = d \o y
  BY <1>1, <1>2, <1>3, <1>5, <1>6, <1>8, EncryptIs, SMTT(60)
<1>10. /\ c \in Seq(Byte) /\ Len(c) = Len(d) + Len(y)
       /\ \A i \in 1 .. Len(d) + Len(y) :
            c[i] = IF i <= Len(d) THEN d[i] ELSE y[i - Len(d)]
  BY <1>7, <1>9, ConcatProperties
<1>11. \A i \in 1 .. k : c[i] = d[i]
  BY <1>4, <1>7, <1>10
<1>12. ASSUME NEW i \in 1 .. r PROVE c[k + i] = pad[i] ^^ tmp[i]
  <2>1. k + i \in 1 .. Len(d) + Len(y) /\ ~(k + i <= Len(d)) /\ (k + i) - Len(d) = i
    BY <1>4, <1>7
  <2>2. c[k + i] = y[i]
    BY <1>10, <2>1
  <2>3. x[i] = pad[i] ^^ tmp[i]
    <3>1. i \in 1 .. 16
      BY <1>1, SMTT(30)
    <3>2. xor(pad, tmp)[i] = pad[i] ^^ tmp[i]
      BY <3>1, XorOf
    <3> QED BY <1>5, <3>2
  <2> QED BY <1>7, <2>2, <2>3
<1>13. Len(c) = Len(src)
  BY <1>1, <1>4, <1>7, <1>10
<1> QED BY <1>1, <1>2, <1>3, <1>8, <1>10, <1>11, <1>12, <1>13, Zenon

\* Its blocks are those the rounds made.
LEMMA EncryptBlocks ==
  ASSUME IsCipher, NEW src \in Seq(Byte), NEW nonce \in Blocks, NEW tagLength,
         NEW n \in 1 .. FullBlocks(src)
  PROVE  LET delta == Encrypting(src, nonce)[n].delta
         IN  BlockAt(Encrypt(src, nonce, tagLength).dst, 16 * (n - 1))
               = xor(delta, E(xor(delta, BlockAt(src, 16 * (n - 1)))))
<1>1. PICK m \in Nat : m = n - 1
  OBVIOUS
<1>2. PICK c : c = Encrypt(src, nonce, tagLength).dst
  OBVIOUS
<1>3. PICK k \in Nat : k = FullBlocks(src)
  BY FullBlocksIs
<1>4. /\ c \in Seq(Byte) /\ Len(c) = Len(src)
      /\ \A i \in 1 .. 16 * k : c[i] = LastState(src, nonce).dst[i]
  BY <1>2, <1>3, EncryptBytes
<1>5. \A i \in 1 .. 16 * n :
        LastState(src, nonce).dst[i] = Encrypting(src, nonce)[n].dst[i]
  <2>1. n \in 0 .. FullBlocks(src) /\ k \in n .. FullBlocks(src)
    BY <1>3
  <2>2. \A i \in 1 .. 16 * n :
          Encrypting(src, nonce)[k].dst[i] = Encrypting(src, nonce)[n].dst[i]
    BY <2>1, EncryptingPrefix
  <2> QED BY <1>3, <2>2 DEF LastState
<1>6. PICK delta \in Blocks : delta = Encrypting(src, nonce)[n].delta
  <2>1. n \in 0 .. FullBlocks(src)
    BY <1>3
  <2>2. Encrypting(src, nonce)[n] \in States
    BY <2>1, EncryptingRounds
  <2> QED BY <2>2, StateHas
<1>7. PICK block \in Blocks : block = BlockAt(src, 16 * m)
  BY <1>1, EncryptingBlock
<1>8. PICK x \in Blocks : x = xor(delta, E(xor(delta, block)))
  <2>1. PICK y \in Blocks : y = xor(delta, block)
    BY XorOf
  <2>2. PICK e \in Blocks : e = E(y)
    BY DEF IsCipher
  <2>3. xor(delta, e) \in Blocks
    BY XorOf
  <2> QED BY <2>1, <2>2, <2>3
<1>9. PICK d \in Seq(Byte) : d = Encrypting(src, nonce)[m].dst /\ Len(d) = 16 * m
  <2>1. m \in 0 .. FullBlocks(src)
    BY <1>1, <1>3
  <2>2. /\ Encrypting(src, nonce)[m] \in States
        /\ Len(Encrypting(src, nonce)[m].dst) = 16 * m
    BY <2>1, EncryptingRounds
  <2> QED BY <2>2, StateHas
<1>10. Encrypting(src, nonce)[n].dst = d \o x
  <2>1. Encrypting(src, nonce)[n].dst
          = Encrypting(src, nonce)[n - 1].dst
              \o xor(Encrypting(src, nonce)[n].delta,
                     E(xor(Encrypting(src, nonce)[n].delta,
                           BlockAt(src, 16 * (n - 1)))))
    BY EncryptingBlock, Zenon
  <2> QED BY <1>1, <1>6, <1>7, <1>8, <1>9, <2>1, Zenon
<1>11. ASSUME NEW i \in 1 .. 16 PROVE c[16 * m + i] = x[i]
  <2>1. /\ 16 * m + i \in 1 .. 16 * n /\ 16 * m + i \in 1 .. 16 * k
        /\ 16 * m + i \in 1 .. Len(d) + 16 /\ ~(16 * m + i <= Len(d))
        /\ (16 * m + i) - Len(d) = i
    BY <1>1, <1>3, <1>9
  <2>2. x \in Seq(Byte) /\ Len(x) = 16
    BY BlockIsSeq
  <2>3. (d \o x)[16 * m + i] = x[i]
    <3>1. \A j \in 1 .. Len(d) + Len(x) :
            (d \o x)[j] = IF j <= Len(d) THEN d[j] ELSE x[j - Len(d)]
      BY <2>2, ConcatProperties, Zenon
    <3> QED BY <2>1, <2>2, <3>1
  <2> QED BY <1>4, <1>5, <1>10, <2>1, <2>3
<1>12. BlockAt(c, 16 * m) = x
  <2>1. 16 * m \in Nat /\ 16 * m + 16 <= Len(c)
    BY <1>1, <1>3, <1>4, FullBlocksIs
  <2>2. /\ BlockAt(c, 16 * m) \in Blocks
        /\ \A i \in 1 .. 16 : BlockAt(c, 16 * m)[i] = c[16 * m + i]
    BY <1>4, <2>1, BlockAtIs
  <2>3. PICK b \in Blocks : b = BlockAt(c, 16 * m)
    BY <2>2
  <2>4. \A i \in 1 .. 16 : b[i] = x[i]
    BY <1>11, <2>2, <2>3
  <2>5. b = x
    BY <2>4, SameBlock
  <2> QED BY <2>3, <2>5
<1> QED BY <1>1, <1>2, <1>6, <1>7, <1>8, <1>12, Zenon

-----------------------------------------------------------------------------
(* Decryption.                                                              *)

\* After each round the offsets and the sums are those of encryption, and what was
\* written is what was encrypted.
LEMMA DecryptingUndoes ==
  ASSUME IsCipher, NEW src \in Seq(Byte), NEW nonce \in Blocks, NEW tagLength
  PROVE  LET c == Encrypt(src, nonce, tagLength).dst
         IN  /\ FullBlocks(c) = FullBlocks(src)
             /\ \A n \in 0 .. FullBlocks(src) :
                  /\ Decrypting(c, nonce)[n].delta = Encrypting(src, nonce)[n].delta
                  /\ Decrypting(c, nonce)[n].checksum
                       = Encrypting(src, nonce)[n].checksum
                  /\ \A i \in 1 .. 16 * n : Decrypting(c, nonce)[n].dst[i] = src[i]
<1>1. PICK c \in Seq(Byte) : c = Encrypt(src, nonce, tagLength).dst /\ Len(c) = Len(src)
  BY EncryptBytes
<1>2. PICK k \in Nat : k = FullBlocks(src) /\ k = FullBlocks(c)
  BY <1>1, FullBlocksIs DEF FullBlocks
<1>3. PICK f, g : f = Encrypting(src, nonce) /\ g = Decrypting(c, nonce)
  OBVIOUS
<1> DEFINE Same(n) == /\ g[n].delta = f[n].delta /\ g[n].checksum = f[n].checksum
                      /\ \A i \in 1 .. 16 * n : g[n].dst[i] = src[i]
           T == {n \in Nat : n \in 0 .. k => Same(n)}
<1>4. Same(0)
  BY <1>3, EncryptingUnfolds, DecryptingUnfolds
<1>5. ASSUME NEW m \in Nat, m + 1 \in 0 .. k, Same(m) PROVE Same(m + 1)
  <2>1. PICK n \in 1 .. k : n = m + 1 /\ n - 1 = m
    BY <1>2, <1>5
  <2>2. m \in 0 .. k /\ m \in 0 .. k - 1 /\ n \in 1 .. Len(c) /\ n \in 0 .. k
    <3>1. FullBlocks(src) <= Len(src)
      BY FullBlocksIs
    <3> QED BY <1>1, <1>2, <2>1, <3>1
  <2>3. PICK s : s = g[m]
    OBVIOUS
  <2>4. s \in States /\ Len(s.dst) = 16 * m
    <3>1. m \in 0 .. FullBlocks(c)
      BY <1>2, <2>2
    <3> QED BY <1>3, <2>3, <3>1, DecryptingRounds, Zenon
  <2>5. PICK d \in Seq(Byte) : d = s.dst /\ Len(d) = 16 * m
    BY <2>4, StateHas
  <2>6. PICK t : t = DecryptRound(c, s)
    OBVIOUS
  <2>7. g[n] = t
    BY <1>3, <2>1, <2>2, <2>3, <2>6, DecryptingUnfolds
  <2>8. Len(c) - Len(s.dst) > 16
    BY <1>2, <2>2, <2>4, FullBlocksIs
  <2>9. PICK delta \in Blocks : delta = f[n].delta
    BY <1>2, <1>3, <2>2, EncryptingRounds, StateHas
  <2>10. PICK block \in Blocks : block = BlockAt(src, 16 * m)
    BY <1>2, <2>1, EncryptingBlock
  <2>11. PICK plain \in Blocks :
           /\ plain = xor(t.delta, D(xor(t.delta, BlockAt(c, Len(s.dst)))))
           /\ t.delta = times2(s.delta)
           /\ t.checksum = xor(s.checksum, plain)
           /\ t.dst = s.dst \o plain
    BY <2>4, <2>6, <2>8, DecryptRoundIs, Zenon
  <2>12. f[n].delta = times2(f[m].delta)
         /\ f[n].checksum = xor(f[m].checksum, block)
    <3>1. n \in 1 .. FullBlocks(src)
      BY <1>2
    <3>2. /\ f[n].delta = times2(f[n - 1].delta)
          /\ f[n].checksum = xor(f[n - 1].checksum, BlockAt(src, 16 * (n - 1)))
      BY <1>3, <3>1, EncryptingBlock, Zenon
    <3> QED BY <2>1, <2>10, <3>2
  <2>13. t.delta = delta
    BY <1>5, <2>3, <2>9, <2>11, <2>12
  <2>14. BlockAt(c, 16 * m) = xor(delta, E(xor(delta, block)))
    <3>1. BlockAt(c, 16 * (n - 1)) = xor(delta, E(xor(delta, BlockAt(src, 16 * (n - 1)))))
      <4>1. n \in 1 .. FullBlocks(src)
        BY <1>2
      <4>2. BlockAt(Encrypt(src, nonce, tagLength).dst, 16 * (n - 1))
              = xor(Encrypting(src, nonce)[n].delta,
                    E(xor(Encrypting(src, nonce)[n].delta,
                          BlockAt(src, 16 * (n - 1)))))
        BY <4>1, EncryptBlocks
      <4>3. delta = Encrypting(src, nonce)[n].delta
        BY <1>3, <2>9
      <4>4. c = Encrypt(src, nonce, tagLength).dst
        BY <1>1
      <4> QED BY <4>2, <4>3, <4>4, Zenon
    <3>2. n - 1 = m
      BY <2>1
    <3> QED BY <2>10, <3>1, <3>2, Zenon
  <2>15. plain = block
    <3>1. PICK y \in Blocks : y = xor(delta, block)
      BY XorOf
    <3>2. PICK e \in Blocks : e = E(y) /\ D(e) = y
      BY DEF IsCipher
    <3>3. xor(delta, xor(delta, e)) = e /\ xor(delta, y) = block
      BY <3>1, XorBack
    <3>4. plain = xor(delta, D(xor(delta, xor(delta, e))))
      BY <2>4, <2>11, <2>13, <2>14, <3>1, <3>2
    <3> QED BY <3>2, <3>3, <3>4
  <2>16. ASSUME NEW i \in 1 .. 16 * n PROVE g[n].dst[i] = src[i]
    <3>1. plain \in Seq(Byte) /\ Len(plain) = 16
      BY BlockIsSeq
    <3>2. \A j \in 1 .. Len(d) + Len(plain) :
            (d \o plain)[j] = IF j <= Len(d) THEN d[j] ELSE plain[j - Len(d)]
      BY <3>1, ConcatProperties, Zenon
    <3>3. i \in 1 .. Len(d) + Len(plain)
      BY <2>1, <2>5, <3>1
    <3>4. g[n].dst = d \o plain
      BY <2>5, <2>7, <2>11
    <3>5. CASE i <= 16 * m
      <4>1. i \in 1 .. 16 * m
        BY <3>5
      <4>2. d[i] = src[i]
        BY <1>5, <2>3, <2>5, <4>1
      <4> QED BY <2>5, <3>2, <3>3, <3>4, <3>5, <4>2
    <3>6. CASE ~(i <= 16 * m)
      <4>1. PICK j \in 1 .. 16 : j = i - 16 * m /\ 16 * m + j = i
        BY <2>1, <3>6
      <4>2. block[j] = src[16 * m + j]
        <5>1. 16 * m \in Nat /\ 16 * m + 16 <= Len(src)
          BY <1>1, <2>4, <2>8
        <5> QED BY <2>10, <5>1, BlockAtIs
      <4>3. (d \o plain)[i] = plain[j]
        BY <2>5, <3>2, <3>3, <3>6, <4>1
      <4> QED BY <2>15, <3>4, <4>1, <4>2, <4>3
    <3> QED BY <3>5, <3>6
  <2>17. g[n].delta = f[n].delta /\ g[n].checksum = f[n].checksum
    BY <1>5, <2>3, <2>7, <2>9, <2>11, <2>12, <2>13, <2>15
  <2> QED BY <2>1, <2>16, <2>17
<1>6. Nat \subseteq T
  <2> HIDE DEF Same
  <2>1. 0 \in T
    BY <1>4
  <2>2. ASSUME NEW m \in Nat, m \in T PROVE m + 1 \in T
    <3>1. m + 1 \in 0 .. k => m \in 0 .. k
      OBVIOUS
    <3> QED BY <1>5, <2>2, <3>1
  <2> HIDE DEF T
  <2> QED BY <2>1, <2>2, Induction
<1>7. \A n \in 0 .. k : Same(n)
  <2> HIDE DEF Same
  <2>1. \A n \in 0 .. k : n \in Nat
    OBVIOUS
  <2> QED BY <1>6, <2>1
<1> QED BY <1>1, <1>2, <1>3, <1>7, Zenon

OpenState(c, nonce) == Decrypting(c, nonce)[FullBlocks(c)]
OpenDelta(c, nonce) == times2(OpenState(c, nonce).delta)
Padded(c) ==
  SubSeq(c, 16 * FullBlocks(c) + 1, Len(c)) \o SubSeq(zeros, RestOf(c) + 1, 16)
OpenRest(c, nonce) == xor(Padded(c), Pad(OpenDelta(c, nonce), RestOf(c)))
FoundTag(c, nonce) ==
  Tag(OpenDelta(c, nonce), xor(OpenState(c, nonce).checksum, OpenRest(c, nonce)))
OpenPlain(c, nonce) ==
  OpenState(c, nonce).dst \o SubSeq(OpenRest(c, nonce), 1, RestOf(c))

\* What is decrypted, named by its parts.
LEMMA DecryptIs ==
  ASSUME IsCipher, NEW c \in Seq(Byte), NEW nonce \in Blocks, NEW tag
  PROVE  /\ OpenState(c, nonce) \in States
         /\ Len(OpenState(c, nonce).dst) = 16 * FullBlocks(c)
         /\ OpenDelta(c, nonce) \in Blocks
         /\ Padded(c) \in Blocks
         /\ OpenRest(c, nonce) \in Blocks
         /\ \A i \in 1 .. RestOf(c) : Padded(c)[i] = c[16 * FullBlocks(c) + i]
         /\ \A i \in RestOf(c) + 1 .. 16 : Padded(c)[i] = zeros[i]
         /\ Decrypt(c, nonce, tag).plain = OpenPlain(c, nonce)
         /\ SubSeq(FoundTag(c, nonce), 1, Len(tag)) = tag =>
              Decrypt(c, nonce, tag).ok = TRUE
<1>1. PICK k \in Nat, r \in 0 .. 16 :
        /\ k = 16 * FullBlocks(c) /\ r = RestOf(c) /\ Len(c) = k + r
  BY RestIs
<1>2. PICK s : s = Decrypting(c, nonce)[FullBlocks(c)] /\ s = OpenState(c, nonce)
  BY DEF OpenState
<1>3. s \in States /\ Len(s.dst) = k
  <2>1. PICK n \in 0 .. FullBlocks(c) : n = FullBlocks(c)
    BY FullBlocksIs
  <2>2. Decrypting(c, nonce)[n] \in States /\ Len(Decrypting(c, nonce)[n].dst) = 16 * n
    BY DecryptingRounds, Zenon
  <2> QED BY <1>1, <1>2, <2>1, <2>2
<1>4. PICK delta \in Blocks : delta = times2(s.delta) /\ delta = OpenDelta(c, nonce)
  BY <1>2, <1>3, StateHas, Times2Of DEF OpenDelta
<1>5. PICK rest : /\ rest = SubSeq(c, k + 1, Len(c)) \o SubSeq(zeros, r + 1, 16)
                  /\ rest = Padded(c)
  BY <1>1 DEF Padded
<1>6. /\ rest \in Blocks
      /\ \A i \in 1 .. r : rest[i] = c[k + i]
      /\ \A i \in r + 1 .. 16 : rest[i] = zeros[i]
  <2>1. PICK none \in Blocks : none = zeros
    BY Zeros
  <2>2. rest = SubSeq(c, 16 * FullBlocks(c) + 1, Len(c))
                 \o SubSeq(none, RestOf(c) + 1, 16)
    BY <1>1, <1>5, <2>1
  <2>3. /\ rest \in Blocks
        /\ \A i \in 1 .. RestOf(c) : rest[i] = c[16 * FullBlocks(c) + i]
        /\ \A i \in RestOf(c) + 1 .. 16 : rest[i] = none[i]
    BY <2>2, FillsUp, Zenon
  <2> QED BY <1>1, <2>1, <2>3, Zenon
<1>7. PICK tmp \in Blocks :
        tmp = xor(rest, Pad(delta, r)) /\ tmp = OpenRest(c, nonce)
  <2>1. Pad(delta, r) \in Blocks
    BY PadOf
  <2> QED BY <1>1, <1>4, <1>5, <1>6, <2>1, XorOf DEF OpenRest
<1>8. Decrypting(c, nonce)[Len(c) \div BlockSize] = s
  BY <1>2, DecryptingEnds DEF BlockSize
<1>9. Len(c) - Len(s.dst) = r
  BY <1>1, <1>3
<1>10. rest = SubSeq(c, Len(s.dst) + 1, Len(c)) \o SubSeq(zeros, r + 1, BlockSize)
  BY <1>3, <1>5 DEF BlockSize
<1>11. PICK plain : plain = s.dst \o SubSeq(tmp, 1, r) /\ plain = OpenPlain(c, nonce)
  BY <1>1, <1>2, <1>7 DEF OpenPlain
<1>12. PICK found :
         found = Tag(delta, xor(s.checksum, tmp)) /\ found = FoundTag(c, nonce)
  BY <1>2, <1>4, <1>7 DEF FoundTag
<1>13. PICK o : o = Decrypt(c, nonce, tag)
  OBVIOUS
<1>14. /\ o.plain = plain
       /\ SubSeq(found, 1, Len(tag)) = tag => o.ok = TRUE
  <2>1. PICK ok : ok = (SubSeq(found, 1, Len(tag)) = tag)
    OBVIOUS
  <2>2. o = [plain |-> plain, ok |-> ok]
    BY <1>4, <1>7, <1>8, <1>9, <1>10, <1>11, <1>12, <1>13, <2>1, Zenon DEF Decrypt
  <2>3. o.plain = plain /\ o.ok = ok
    BY <2>2
  <2>4. SubSeq(found, 1, Len(tag)) = tag => ok = TRUE
    BY <2>1, Zenon
  <2> QED BY <2>3, <2>4, Zenon
<1>15. /\ OpenState(c, nonce) \in States
       /\ Len(OpenState(c, nonce).dst) = 16 * FullBlocks(c)
       /\ OpenDelta(c, nonce) \in Blocks
       /\ Padded(c) \in Blocks
       /\ OpenRest(c, nonce) \in Blocks
       /\ \A i \in 1 .. RestOf(c) : Padded(c)[i] = c[16 * FullBlocks(c) + i]
       /\ \A i \in RestOf(c) + 1 .. 16 : Padded(c)[i] = zeros[i]
  BY <1>1, <1>2, <1>3, <1>4, <1>5, <1>6, <1>7
<1> QED BY <1>11, <1>12, <1>13, <1>14, <1>15, Zenon

\* What is decrypted is as long as what it is made of.
LEMMA DecryptBytes ==
  ASSUME IsCipher, NEW c \in Seq(Byte), NEW nonce \in Blocks
  PROVE  LET p == OpenPlain(c, nonce)
         IN  /\ p \in Seq(Byte) /\ Len(p) = Len(c)
             /\ \A i \in 1 .. 16 * FullBlocks(c) : p[i] = OpenState(c, nonce).dst[i]
             /\ \A i \in 1 .. RestOf(c) :
                  p[16 * FullBlocks(c) + i] = OpenRest(c, nonce)[i]
<1>1. PICK k \in Nat, r \in 0 .. 16 :
        /\ k = 16 * FullBlocks(c) /\ r = RestOf(c) /\ Len(c) = k + r
  BY RestIs
<1>2. PICK d \in Seq(Byte) : d = OpenState(c, nonce).dst /\ Len(d) = k
  BY <1>1, DecryptIs, StateHas
<1>3. PICK x \in Blocks : x = OpenRest(c, nonce)
  BY DecryptIs
<1>4. PICK y : y = SubSeq(x, 1, r)
  OBVIOUS
<1>5. y \in Seq(Byte) /\ Len(y) = r /\ \A i \in 1 .. r : y[i] = x[i]
  <2>1. x \in Seq(Byte) /\ Len(x) = 16
    BY BlockIsSeq
  <2>2. 0 \in Nat /\ r \in Nat /\ 0 <= r /\ r <= Len(x)
    BY <2>1
  <2>3. /\ SubSeq(x, 0 + 1, r) \in Seq(Byte) /\ Len(SubSeq(x, 0 + 1, r)) = r - 0
        /\ \A i \in 1 .. r - 0 : SubSeq(x, 0 + 1, r)[i] = x[0 + i]
    BY <2>1, <2>2, Slice
  <2> QED BY <1>4, <2>3
<1>6. PICK p : p = OpenPlain(c, nonce)
  OBVIOUS
<1>7. p = d \o y
  BY <1>1, <1>2, <1>3, <1>4, <1>6 DEF OpenPlain
<1>8. /\ p \in Seq(Byte) /\ Len(p) = Len(d) + Len(y)
      /\ \A i \in 1 .. Len(d) + Len(y) :
           p[i] = IF i <= Len(d) THEN d[i] ELSE y[i - Len(d)]
  BY <1>5, <1>7, ConcatProperties
<1>9. \A i \in 1 .. k : p[i] = d[i]
  BY <1>2, <1>5, <1>8
<1>10. ASSUME NEW i \in 1 .. r PROVE p[k + i] = x[i]
  <2>1. k + i \in 1 .. Len(d) + Len(y) /\ ~(k + i <= Len(d)) /\ (k + i) - Len(d) = i
    BY <1>2, <1>5
  <2>2. p[k + i] = y[i]
    BY <1>8, <2>1
  <2> QED BY <1>5, <2>2
<1>11. Len(p) = Len(c)
  BY <1>1, <1>2, <1>5, <1>8
<1> QED BY <1>1, <1>2, <1>3, <1>6, <1>8, <1>9, <1>10, <1>11, Zenon

\* The tag is cut to its length.
LEMMA CutTag ==
  ASSUME IsCipher, NEW delta \in Blocks, NEW sum \in Blocks, NEW n \in 0 .. 16
  PROVE  /\ SubSeq(Tag(delta, sum), 1, n) \in Seq(Byte)
         /\ Len(SubSeq(Tag(delta, sum), 1, n)) = n
<1>1. PICK t \in Seq(Byte) : t = Tag(delta, sum) /\ Len(t) = 16
  BY TagOf, BlockIsSeq
<1>2. 0 \in Nat /\ n \in Nat /\ 0 <= n /\ n <= Len(t)
  BY <1>1
<1>3. SubSeq(t, 0 + 1, n) \in Seq(Byte) /\ Len(SubSeq(t, 0 + 1, n)) = n - 0
  BY <1>2, Slice
<1> QED BY <1>1, <1>3

\* Decrypt takes back what Encrypt wrote, of every length and under every nonce,
\* and finds its tag of three bytes (cryptstate/ocb2/ocb2.go:115-246).
THEOREM DecryptUndoes ==
  ASSUME IsCipher, NEW src \in Seq(Byte), NEW nonce \in Blocks
  PROVE  LET e == Encrypt(src, nonce, 3)
         IN  /\ e.dst \in Seq(Byte) /\ Len(e.dst) = Len(src)
             /\ e.tag \in Seq(Byte) /\ Len(e.tag) = 3
             /\ Decrypt(e.dst, nonce, e.tag).plain = src
             /\ Decrypt(e.dst, nonce, e.tag).ok = TRUE
<1>0. PICK tagLength : tagLength = 3
  OBVIOUS
<1>17. tagLength \in 0 .. 16
  BY <1>0
<1>1. PICK c \in Seq(Byte) : c = Encrypt(src, nonce, tagLength).dst /\ Len(c) = Len(src)
  BY <1>17, EncryptBytes
<1>2. PICK k \in Nat, r \in 0 .. 16 :
        /\ k = 16 * FullBlocks(src) /\ r = RestOf(src) /\ Len(src) = k + r
        /\ k = 16 * FullBlocks(c) /\ r = RestOf(c)
  <2>1. FullBlocks(c) = FullBlocks(src)
    BY <1>1 DEF FullBlocks
  <2>2. RestOf(c) = RestOf(src)
    BY <1>1, <2>1 DEF RestOf
  <2> QED BY <2>1, <2>2, RestIs
<1>3. PICK pad \in Blocks, tmp \in Blocks, delta \in Blocks, s \in States :
        /\ pad = LastPad(src, nonce) /\ tmp = Filled(src, nonce)
        /\ delta = LastDelta(src, nonce) /\ s = LastState(src, nonce)
  BY LastPart
<1>4. PICK tag : tag = Encrypt(src, nonce, tagLength).tag
  OBVIOUS
<1>5. tag = SubSeq(Tag(delta, xor(s.checksum, tmp)), 1, tagLength)
  BY <1>3, <1>4, <1>17, EncryptIs, ZenonT(60)
<1>6. tag \in Seq(Byte) /\ Len(tag) = tagLength
  <2>1. PICK sum \in Blocks : sum = xor(s.checksum, tmp)
    BY StateHas, XorOf
  <2> QED BY <1>5, <1>17, <2>1, CutTag
<1>7. PICK t : t = OpenState(c, nonce)
  OBVIOUS
<1>8. /\ t.delta = s.delta /\ t.checksum = s.checksum
      /\ \A i \in 1 .. k : t.dst[i] = src[i]
  <2>1. PICK n \in 0 .. FullBlocks(src) : n = FullBlocks(src)
    BY FullBlocksIs
  <2>2. /\ FullBlocks(c) = FullBlocks(src)
        /\ Decrypting(c, nonce)[n].delta = Encrypting(src, nonce)[n].delta
        /\ Decrypting(c, nonce)[n].checksum = Encrypting(src, nonce)[n].checksum
        /\ \A i \in 1 .. 16 * n : Decrypting(c, nonce)[n].dst[i] = src[i]
    BY <1>1, DecryptingUndoes
  <2> QED BY <1>2, <1>3, <1>7, <2>1, <2>2 DEF LastState, OpenState
<1>9. OpenDelta(c, nonce) = delta /\ Pad(delta, r) = pad
  BY <1>2, <1>3, <1>7, <1>8 DEF OpenDelta, LastDelta, LastPad
<1>10. PICK rest \in Blocks :
         /\ rest = Padded(c)
         /\ \A i \in 1 .. r : rest[i] = c[k + i]
         /\ \A i \in r + 1 .. 16 : rest[i] = zeros[i]
  <2>1. /\ Padded(c) \in Blocks
        /\ \A i \in 1 .. RestOf(c) : Padded(c)[i] = c[16 * FullBlocks(c) + i]
        /\ \A i \in RestOf(c) + 1 .. 16 : Padded(c)[i] = zeros[i]
    BY DecryptIs, Zenon
  <2> QED BY <1>2, <2>1
<1>11. OpenRest(c, nonce) = xor(rest, pad)
  BY <1>2, <1>9, <1>10 DEF OpenRest
<1>12. xor(rest, pad) = tmp
  <2>1. ASSUME NEW i \in 1 .. 16 PROVE xor(rest, pad)[i] = tmp[i]
    <3>1. xor(rest, pad)[i] = rest[i] ^^ pad[i]
      BY XorOf
    <3>2. pad[i] \in Byte /\ tmp[i] \in Byte
      BY BlockIsSeq
    <3>3. 0 \in Byte
      BY DEF Byte
    <3>4. CASE i <= r
      <4>1. i \in 1 .. r
        BY <3>4
      <4>2. c[k + i] = pad[i] ^^ tmp[i]
        <5>1. /\ i \in 1 .. RestOf(src) /\ k = 16 * FullBlocks(src)
              /\ pad = LastPad(src, nonce) /\ tmp = Filled(src, nonce)
          BY <1>2, <1>3, <4>1
        <5>2. \A j \in 1 .. RestOf(src) :
                c[16 * FullBlocks(src) + j]
                  = LastPad(src, nonce)[j] ^^ Filled(src, nonce)[j]
          BY <1>1, EncryptBytes
        <5> QED BY <5>1, <5>2
      <4>3. rest[i] = tmp[i] ^^ pad[i]
        BY <1>10, <3>2, <4>1, <4>2, XorLaws
      <4> QED BY <3>1, <3>2, <4>3, XorLaws
    <3>5. CASE ~(i <= r)
      <4>1. i \in r + 1 .. 16
        BY <3>5
      <4>2. rest[i] = 0
        BY <1>10, <4>1, Zeros
      <4>3. tmp[i] = pad[i]
        <5>1. i \in RestOf(src) + 1 .. 16
          BY <1>2, <4>1
        <5>2. Filled(src, nonce)[i] = LastPad(src, nonce)[i]
          BY <5>1, LastPart
        <5> QED BY <1>3, <5>2
      <4>4. 0 ^^ pad[i] = pad[i]
        BY <3>2, <3>3, XorLaws
      <4> QED BY <3>1, <4>2, <4>3, <4>4
    <3> QED BY <3>4, <3>5
  <2>2. PICK x \in Blocks : x = xor(rest, pad)
    BY XorOf
  <2>3. x = tmp
    BY <2>1, <2>2, SameBlock
  <2> QED BY <2>2, <2>3
<1>13. PICK o : o = Decrypt(c, nonce, tag)
  OBVIOUS
<1>14. o.ok = TRUE
  <2>1. FoundTag(c, nonce) = Tag(delta, xor(s.checksum, tmp))
    BY <1>7, <1>8, <1>9, <1>11, <1>12 DEF FoundTag
  <2>2. SubSeq(FoundTag(c, nonce), 1, Len(tag)) = tag
    BY <1>5, <1>6, <2>1
  <2> QED BY <1>13, <2>2, DecryptIs, Zenon
<1>15. o.plain = src
  <2>1. PICK p \in Seq(Byte) :
          /\ p = o.plain /\ Len(p) = Len(c)
          /\ \A i \in 1 .. 16 * FullBlocks(c) : p[i] = OpenState(c, nonce).dst[i]
          /\ \A i \in 1 .. RestOf(c) :
               p[16 * FullBlocks(c) + i] = OpenRest(c, nonce)[i]
    <3>1. o.plain = OpenPlain(c, nonce)
      <4>1. Decrypt(c, nonce, tag).plain = OpenPlain(c, nonce)
        BY DecryptIs, ZenonT(60)
      <4> QED BY <1>13, <4>1
    <3> QED BY <3>1, DecryptBytes
  <2>2. /\ \A i \in 1 .. k : p[i] = t.dst[i]
        /\ \A i \in 1 .. r : p[k + i] = tmp[i]
    BY <1>2, <1>7, <1>11, <1>12, <2>1
  <2>3. ASSUME NEW i \in 1 .. Len(src) PROVE p[i] = src[i]
    <3>1. CASE i <= k
      <4>1. i \in 1 .. k
        BY <3>1
      <4> QED BY <1>8, <2>2, <4>1
    <3>2. CASE ~(i <= k)
      <4>1. PICK j \in 1 .. r : i = k + j
        <5>1. i - k \in 1 .. r /\ i = k + (i - k)
          BY <1>2, <3>2
        <5> QED BY <5>1
      <4>2. tmp[j] = src[k + j]
        <5>1. j \in 1 .. RestOf(src)
          BY <1>2
        <5>2. Filled(src, nonce)[j] = src[16 * FullBlocks(src) + j]
          BY <5>1, LastPart
        <5> QED BY <1>2, <1>3, <5>2
      <4> QED BY <2>2, <4>1, <4>2
    <3> QED BY <3>1, <3>2
  <2>4. p = src
    BY <1>1, <2>1, <2>3, SeqEqual
  <2> QED BY <2>1, <2>4
<1>16. Encrypt(src, nonce, 3).dst = c /\ Encrypt(src, nonce, 3).tag = tag
  BY <1>0, <1>1, <1>4
<1> QED BY <1>0, <1>1, <1>6, <1>13, <1>14, <1>15, <1>16

-----------------------------------------------------------------------------
(* Datagrams.                                                               *)

\* A sequence of two parts is taken apart again.
LEMMA Apart ==
  ASSUME NEW S, NEW a \in Seq(S), NEW b \in Seq(S)
  PROVE  /\ a \o b \in Seq(S) /\ Len(a \o b) = Len(a) + Len(b)
         /\ SubSeq(a \o b, 1, Len(a)) = a
         /\ SubSeq(a \o b, Len(a) + 1, Len(a \o b)) = b
<1>1. PICK k \in Nat, l \in Nat : k = Len(a) /\ l = Len(b)
  OBVIOUS
<1>2. PICK c : c = a \o b
  OBVIOUS
<1>3. /\ c \in Seq(S) /\ Len(c) = k + l
      /\ \A i \in 1 .. k + l : c[i] = IF i <= k THEN a[i] ELSE b[i - k]
  BY <1>1, <1>2, ConcatProperties
<1>4. \A i \in 1 .. k + l : c[i] \in S
  BY <1>3
<1>5. SubSeq(c, 1, k) = a
  <2>1. 1 \in Int /\ k \in Int /\ \A i \in 1 .. k : c[i] \in S
    BY <1>4
  <2>2. /\ SubSeq(c, 1, k) \in Seq(S)
        /\ Len(SubSeq(c, 1, k)) = IF 1 <= k THEN k - 1 + 1 ELSE 0
        /\ \A i \in 1 .. k - 1 + 1 : SubSeq(c, 1, k)[i] = c[1 + i - 1]
    BY <2>1, SubSeqProperties
  <2>3. PICK x : x = SubSeq(c, 1, k)
    OBVIOUS
  <2>4. x \in Seq(S) /\ Len(x) = Len(a)
    BY <1>1, <2>2, <2>3
  <2>5. \A i \in 1 .. Len(x) : x[i] = a[i]
    <3>1. \A i \in 1 .. k : 1 + i - 1 = i /\ i \in 1 .. k - 1 + 1
      OBVIOUS
    <3> QED BY <1>1, <1>3, <2>2, <2>3, <2>4, <3>1
  <2> QED BY <2>3, <2>4, <2>5, SeqEqual
<1>6. SubSeq(c, k + 1, k + l) = b
  <2>1. k + 1 \in Int /\ k + l \in Int /\ \A i \in k + 1 .. k + l : c[i] \in S
    BY <1>4
  <2>2. /\ SubSeq(c, k + 1, k + l) \in Seq(S)
        /\ Len(SubSeq(c, k + 1, k + l))
             = IF k + 1 <= k + l THEN (k + l) - (k + 1) + 1 ELSE 0
        /\ \A i \in 1 .. (k + l) - (k + 1) + 1 :
             SubSeq(c, k + 1, k + l)[i] = c[(k + 1) + i - 1]
    BY <2>1, SubSeqProperties
  <2>3. PICK x : x = SubSeq(c, k + 1, k + l)
    OBVIOUS
  <2>4. x \in Seq(S) /\ Len(x) = Len(b)
    BY <1>1, <2>2, <2>3
  <2>5. ASSUME NEW i \in 1 .. Len(x) PROVE x[i] = b[i]
    <3>1. i \in 1 .. (k + l) - (k + 1) + 1
      BY <1>1, <2>4
    <3>2. (k + 1) + i - 1 = k + i /\ k + i \in 1 .. k + l /\ ~(k + i <= k)
          /\ (k + i) - k = i
      BY <3>1
    <3> QED BY <1>3, <2>2, <2>3, <3>1, <3>2
  <2> QED BY <2>3, <2>4, <2>5, SeqEqual
<1> QED BY <1>1, <1>2, <1>3, <1>5, <1>6

\* A first element is taken off again.
LEMMA BehindFirst ==
  ASSUME NEW S, NEW e \in S, NEW s \in Seq(S)
  PROVE  /\ <<e>> \o s \in Seq(S) /\ Len(<<e>> \o s) = 1 + Len(s)
         /\ (<<e>> \o s)[1] = e
         /\ Tail(<<e>> \o s) = s
         /\ \A i \in 1 .. Len(s) : (<<e>> \o s)[1 + i] = s[i]
<1>1. PICK f \in Seq(S) : f = <<e>> /\ Len(f) = 1 /\ f[1] = e
  <2>1. <<e>> \in Seq(S) /\ Len(<<e>>) = 1 /\ <<e>>[1] = e
    OBVIOUS
  <2> QED BY <2>1, Zenon
<1>2. PICK c : c = f \o s
  OBVIOUS
<1>3. /\ c \in Seq(S) /\ Len(c) = Len(f) + Len(s)
      /\ \A i \in 1 .. Len(f) + Len(s) :
           c[i] = IF i <= Len(f) THEN f[i] ELSE s[i - Len(f)]
  BY <1>1, <1>2, ConcatProperties
<1>4. /\ Len(s) \in Nat /\ Len(c) = 1 + Len(s)
      /\ \A i \in 1 .. 1 + Len(s) : c[i] = IF i <= 1 THEN f[i] ELSE s[i - 1]
  BY <1>1, <1>3
<1>5. c[1] = e /\ c # <<>>
  BY <1>1, <1>3, <1>4
<1>6. \A i \in 1 .. Len(s) : c[1 + i] = s[i]
  <2> TAKE i \in 1 .. Len(s)
  <2>1. 1 + i \in 1 .. 1 + Len(s) /\ ~(1 + i <= 1) /\ (1 + i) - 1 = i
    OBVIOUS
  <2> QED BY <1>4, <2>1
<1>7. Tail(c) = s
  <2>1. PICK t : t = Tail(c)
    OBVIOUS
  <2>2. /\ t \in Seq(S) /\ Len(t) = Len(c) - 1
        /\ \A i \in 1 .. Len(t) : t[i] = c[i + 1]
    BY <1>3, <1>5, <2>1, HeadTailProperties
  <2>3. Len(t) = Len(s)
    BY <1>4, <2>2
  <2>4. ASSUME NEW i \in 1 .. Len(t) PROVE t[i] = s[i]
    <3>1. 1 + i = i + 1 /\ i \in 1 .. Len(s)
      BY <2>3
    <3> QED BY <1>6, <2>2, <3>1
  <2> QED BY <2>1, <2>2, <2>3, <2>4, SeqEqual
<1> QED BY <1>1, <1>2, <1>3, <1>4, <1>5, <1>6, <1>7

\* A box is opened to what was sealed in it.
LEMMA OpensSealed ==
  ASSUME NEW src \in Seq(Byte), NEW nonce
  PROVE  /\ \E S : Byte \subseteq S /\ Seal(src, nonce) \in Seq(S)
         /\ Len(Seal(src, nonce)) = 16 + Len(src)
         /\ Open(Seal(src, nonce), nonce).plain = src
         /\ Open(Seal(src, nonce), nonce).ok = TRUE
<1>1. PICK tag : tag = Poly1305(src, nonce)
  OBVIOUS
<1> DEFINE S == Byte \cup {tag[i] : i \in 1 .. 16}
<1>2. tag \in Seq(S) /\ Len(tag) = 16
  <2> DEFINE value(i) ==
        (nonce[i] + Len(src) + FoldLeft(LAMBDA x, y : x + y, i, src)) % 256
  <2>1. tag = [i \in 1 .. 16 |-> value(i)]
    BY <1>1, Zenon DEF Poly1305
  <2> HIDE DEF value
  <2>2. tag = [i \in 1 .. 16 |-> tag[i]]
    BY <2>1
  <2>3. \A i \in 1 .. 16 : tag[i] \in S
    OBVIOUS
  <2> HIDE DEF S
  <2>4. [i \in 1 .. 16 |-> tag[i]] \in Seq(S) /\ Len([i \in 1 .. 16 |-> tag[i]]) = 16
    BY <2>3
  <2> QED BY <2>2, <2>4
<1>3. Byte \subseteq S /\ src \in Seq(S)
  OBVIOUS
<1> HIDE DEF S
<1>4. PICK box : box = Seal(src, nonce) /\ box = tag \o src
  BY <1>1 DEF Seal
<1>5. /\ box \in Seq(S) /\ Len(box) = 16 + Len(src)
      /\ SubSeq(box, 1, 16) = tag
      /\ SubSeq(box, 16 + 1, Len(box)) = src
  <2>1. /\ tag \o src \in Seq(S) /\ Len(tag \o src) = Len(tag) + Len(src)
        /\ SubSeq(tag \o src, 1, Len(tag)) = tag
        /\ SubSeq(tag \o src, Len(tag) + 1, Len(tag \o src)) = src
    <3>1. PICK U : U = S
      OBVIOUS
    <3>2. tag \in Seq(U) /\ src \in Seq(U)
      BY <1>2, <1>3, <3>1
    <3>3. /\ tag \o src \in Seq(U) /\ Len(tag \o src) = Len(tag) + Len(src)
          /\ SubSeq(tag \o src, 1, Len(tag)) = tag
          /\ SubSeq(tag \o src, Len(tag) + 1, Len(tag \o src)) = src
      BY <3>2, Apart
    <3> QED BY <3>1, <3>3
  <2> QED BY <1>2, <1>4, <2>1
<1>6. Open(box, nonce).plain = src /\ Open(box, nonce).ok = TRUE
  <2>1. 16 + 1 = 17
    OBVIOUS
  <2>2. SubSeq(box, 17, Len(box)) = src
    BY <1>5, <2>1
  <2>3. PICK ok : ok = (SubSeq(box, 1, 16) = Poly1305(src, nonce))
    OBVIOUS
  <2>4. Open(box, nonce) = [plain |-> src, ok |-> ok]
    BY <2>2, <2>3, Zenon DEF Open
  <2>5. ok = TRUE
    BY <1>1, <1>5, <2>3, Zenon
  <2> QED BY <2>4, <2>5
<1> QED BY <1>3, <1>4, <1>5, <1>6

IsMode == mode \in {"OCB2-AES128", "XSalsa20-Poly1305"}

IsNonce(nonce) ==
  nonce \in Seq(Byte) /\ nonce[1] \in Byte
    /\ (mode = "OCB2-AES128" => nonce \in Blocks)

\* The nonces of both sides are bytes, and under OCB2 they are blocks.
LEMMA NoncesAre ==
  IsNonce(ClientNonce) /\ IsNonce(ServerNonce)
<1>1. NonceSize \in {16, 24} /\ (mode = "OCB2-AES128" => NonceSize = 16)
  BY DEF NonceSize
<1>2. PICK n \in {16, 24} : n = NonceSize
  BY <1>1
<1>3. \A i \in 1 .. n : (200 + 3 * i) % 256 \in Byte /\ (7 * i) % 256 \in Byte
  BY DEF Byte
<1>4. ASSUME NEW f, \A i \in 1 .. n : f[i] \in Byte, f = [i \in 1 .. n |-> f[i]]
      PROVE  IsNonce(f)
  <2>1. f \in [1 .. n -> Byte]
    BY <1>4
  <2>2. [i \in 1 .. n |-> f[i]] \in Seq(Byte)
    BY <1>2, <1>4
  <2>3. f[1] \in Byte
    BY <1>2, <1>4
  <2> QED BY <1>1, <1>2, <1>4, <2>1, <2>2, <2>3 DEF IsNonce, Blocks
<1>5. PICK c : c = [i \in 1 .. n |-> (200 + 3 * i) % 256]
  OBVIOUS
<1>6. PICK s : s = [i \in 1 .. n |-> (7 * i) % 256]
  OBVIOUS
<1>7. \A i \in 1 .. n : c[i] \in Byte /\ s[i] \in Byte
  BY <1>3, <1>5, <1>6
<1>8. c = [i \in 1 .. n |-> c[i]] /\ s = [i \in 1 .. n |-> s[i]]
  BY <1>5, <1>6
<1>9. IsNonce(c) /\ IsNonce(s)
  BY <1>4, <1>7, <1>8, Zenon
<1>10. ClientNonce = c /\ ServerNonce = s
  BY <1>2, <1>5, <1>6, Zenon DEF ClientNonce, ServerNonce
<1> QED BY <1>9, <1>10

\* What a mode seals it opens, and finds whole.
LEMMA SealedIs ==
  ASSUME IsCipher, IsMode, NEW p \in Seq(Byte), NEW nonce, IsNonce(nonce)
  PROVE  /\ \E S : Byte \subseteq S /\ Sealed(p, nonce) \in Seq(S)
         /\ Len(Sealed(p, nonce)) = modeOverhead + Len(p)
         /\ Opened(Sealed(p, nonce), nonce).plain = p
         /\ Opened(Sealed(p, nonce), nonce).ok = TRUE
<1>1. CASE mode = "OCB2-AES128"
  <2>1. nonce \in Blocks
    BY <1>1 DEF IsNonce
  <2>2. PICK dst \in Seq(Byte), tag \in Seq(Byte) :
          /\ dst = Encrypt(p, nonce, 3).dst /\ tag = Encrypt(p, nonce, 3).tag
          /\ Len(dst) = Len(p) /\ Len(tag) = 3
          /\ Decrypt(dst, nonce, tag).plain = p
          /\ Decrypt(dst, nonce, tag).ok = TRUE
    <3>1. PICK e : e = Encrypt(p, nonce, 3)
      OBVIOUS
    <3>2. /\ e.dst \in Seq(Byte) /\ Len(e.dst) = Len(p)
          /\ e.tag \in Seq(Byte) /\ Len(e.tag) = 3
          /\ Decrypt(e.dst, nonce, e.tag).plain = p
          /\ Decrypt(e.dst, nonce, e.tag).ok = TRUE
      BY <2>1, <3>1, DecryptUndoes
    <3> QED BY <3>1, <3>2
  <2>3. modeOverhead = 3
    BY <1>1 DEF modeOverhead
  <2>4. PICK c : c = Sealed(p, nonce) /\ c = tag \o dst
    BY <1>1, <2>2, <2>3 DEF Sealed
  <2>5. /\ c \in Seq(Byte) /\ Len(c) = 3 + Len(p)
        /\ SubSeq(c, 1, 3) = tag /\ SubSeq(c, 4, Len(c)) = dst
    <3>1. /\ tag \o dst \in Seq(Byte) /\ Len(tag \o dst) = Len(tag) + Len(dst)
          /\ SubSeq(tag \o dst, 1, Len(tag)) = tag
          /\ SubSeq(tag \o dst, Len(tag) + 1, Len(tag \o dst)) = dst
      BY Apart
    <3>2. Len(tag) = 3
      BY <2>2, Zenon
    <3>3. Len(tag) + 1 = 4
      BY <3>2
    <3> QED BY <2>2, <2>4, <3>1, <3>2, <3>3
  <2>6. Opened(c, nonce) = Decrypt(dst, nonce, tag)
    BY <1>1, <2>5 DEF Opened
  <2> QED BY <2>2, <2>3, <2>4, <2>5, <2>6
<1>2. CASE mode # "OCB2-AES128"
  <2>1. modeOverhead = 16 /\ Sealed(p, nonce) = Seal(p, nonce)
    BY <1>2 DEF modeOverhead, Sealed
  <2>2. PICK c : c = Seal(p, nonce)
    OBVIOUS
  <2>3. Opened(c, nonce) = Open(c, nonce)
    BY <1>2 DEF Opened
  <2>4. /\ \E S : Byte \subseteq S /\ c \in Seq(S)
        /\ Len(c) = 16 + Len(p)
        /\ Open(c, nonce).plain = p /\ Open(c, nonce).ok = TRUE
    BY <2>2, OpensSealed
  <2> QED BY <2>1, <2>2, <2>3, <2>4
<1> QED BY <1>1, <1>2

\* So is what is behind the first byte of a datagram.
LEMMA OpensEncrypted ==
  ASSUME IsCipher, IsMode, NEW p \in Seq(Byte), NEW nonce, IsNonce(nonce)
  PROVE  LET d == Encrypted(p, nonce)
         IN  /\ Len(d) = Overhead + Len(p)
             /\ d[1] = nonce[1]
             /\ Opened(Tail(d), nonce).plain = p
             /\ Opened(Tail(d), nonce).ok = TRUE
<1>1. PICK c : c = Sealed(p, nonce)
  OBVIOUS
<1>2. PICK S : Byte \subseteq S /\ c \in Seq(S)
  BY <1>1, SealedIs
<1>3. PICK e \in S : e = nonce[1]
  BY <1>2 DEF IsNonce
<1>4. PICK d : d = Encrypted(p, nonce) /\ d = <<e>> \o c
  BY <1>1, <1>3 DEF Encrypted
<1>5. Len(d) = 1 + Len(c) /\ d[1] = e /\ Tail(d) = c
  BY <1>2, <1>4, BehindFirst
<1>6. /\ Len(c) = modeOverhead + Len(p)
      /\ Opened(c, nonce).plain = p /\ Opened(c, nonce).ok = TRUE
  BY <1>1, SealedIs
<1>7. Len(d) = Overhead + Len(p)
  <2>1. modeOverhead \in Nat /\ Len(p) \in Nat
    BY DEF modeOverhead
  <2> QED BY <1>5, <1>6, <2>1 DEF Overhead
<1> QED BY <1>3, <1>4, <1>5, <1>6, <1>7

-----------------------------------------------------------------------------
(* Numbers on the wire.                                                     *)

\* The bytes of an encoded number.  But for 2^28 the first one tells how many
\* there are.
LEMMA EncodedIs ==
  ASSUME NEW d \in Positive
  PROVE  LET e == encodeVarint(1, d)
         IN  /\ e \in Seq(Byte) /\ Len(e) \in 1 .. 9
             /\ e[1] \in 0 .. 240 \cup {244}
             /\ d # Two28 => Len(e) = SizeOf(e[1])
<1>1. PICK e : e = encodePositive(d) /\ e = encodeVarint(1, d)
  BY DEF encodeVarint
<1>10. SUFFICES /\ e \in Seq(Byte) /\ Len(e) \in 1 .. 9
                /\ e[1] \in 0 .. 240 \cup {244}
                /\ d # Two28 => Len(e) = SizeOf(e[1])
  BY <1>1, SMT
<1>2. /\ d[1] \in Byte /\ d[2] \in Byte /\ d[3] \in Byte /\ d[4] \in Byte
      /\ d[5] \in Byte /\ d[6] \in Byte /\ d[7] \in Byte /\ d[8] \in Byte
      /\ d[1] \in 0 .. 127
  BY Bytes DEF Byte
<1>3. /\ 224 + (d[5] % 32) \in Byte /\ 192 + (d[6] % 64) \in Byte
      /\ 128 + (d[7] % 128) \in Byte /\ 244 \in Byte /\ 240 \in Byte
  BY <1>2, SMTT(60) DEF Byte
<1>4. CASE Above(d, Two32)
  <2>1. e = <<244, d[1], d[2], d[3], d[4], d[5], d[6], d[7], d[8]>>
    BY <1>1, <1>4 DEF encodePositive
  <2>2. e \in Seq(Byte) /\ Len(e) = 9 /\ e[1] = 244
    BY <1>2, <1>3, <2>1
  <2> QED BY <2>2 DEF SizeOf
<1>5. CASE ~Above(d, Two32) /\ Above(d, Two28)
  <2>1. e = <<240, d[5], d[6], d[7], d[8]>>
    BY <1>1, <1>5 DEF encodePositive
  <2>2. e \in Seq(Byte) /\ Len(e) = 5 /\ e[1] = 240
    BY <1>2, <1>3, <2>1
  <2> QED BY <2>2 DEF SizeOf
<1>6. CASE ~Above(d, Two32) /\ ~Above(d, Two28) /\ Above(d, Most21)
  <2>1. e = <<224 + (d[5] % 32), d[6], d[7], d[8]>>
    BY <1>1, <1>6 DEF encodePositive
  <2>2. e \in Seq(Byte) /\ Len(e) = 4 /\ e[1] = 224 + (d[5] % 32)
    BY <1>2, <1>3, <2>1
  <2>3. d[5] <= 16 /\ (d # Two28 => d[5] < 16)
    <3>1. d[5] < 16 \/ d = Two28
      BY <1>6, Up28
    <3>2. Two28[5] = 16
      BY DEF Two28
    <3> QED BY <1>2, <3>1, <3>2 DEF Byte
  <2>4. PICK x \in 0 .. 255 : x = d[5]
    BY <1>2 DEF Byte
  <2>7. x <= 16 /\ (d # Two28 => x < 16)
    BY <2>3, <2>4
  <2>8. x % 32 = x
    BY <2>7
  <2>9. e[1] = 224 + (x % 32)
    BY <2>2, <2>4
  <2>5. e[1] = 224 + x /\ x <= 16 /\ (d # Two28 => x < 16)
    BY <2>7, <2>8, <2>9
  <2>6. e[1] \in 224 .. 240 /\ (d # Two28 => SizeOf(e[1]) = 4)
    BY <2>5 DEF SizeOf
  <2> QED BY <2>2, <2>6
<1>7. CASE /\ ~Above(d, Two32) /\ ~Above(d, Two28) /\ ~Above(d, Most21)
           /\ Above(d, Most14)
  <2>1. e = <<192 + (d[6] % 64), d[7], d[8]>>
    BY <1>1, <1>7 DEF encodePositive
  <2>2. e \in Seq(Byte) /\ Len(e) = 3 /\ e[1] = 192 + (d[6] % 64)
    BY <1>2, <1>3, <2>1
  <2>3. d[6] <= 31
    BY <1>7, Up21
  <2>4. PICK x \in 0 .. 255 : x = d[6]
    BY <1>2 DEF Byte
  <2>7. x <= 31
    BY <2>3, <2>4
  <2>8. x % 64 = x
    BY <2>7
  <2>9. e[1] = 192 + (x % 64)
    BY <2>2, <2>4
  <2>5. e[1] = 192 + x /\ x <= 31
    BY <2>7, <2>8, <2>9
  <2>6. e[1] \in 192 .. 223 /\ SizeOf(e[1]) = 3
    BY <2>5 DEF SizeOf
  <2> QED BY <2>2, <2>6
<1>8. CASE /\ ~Above(d, Two32) /\ ~Above(d, Two28) /\ ~Above(d, Most21)
           /\ ~Above(d, Most14) /\ Above(d, Most7)
  <2>1. e = <<128 + (d[7] % 128), d[8]>>
    BY <1>1, <1>8 DEF encodePositive
  <2>2. e \in Seq(Byte) /\ Len(e) = 2 /\ e[1] = 128 + (d[7] % 128)
    BY <1>2, <1>3, <2>1
  <2>3. d[7] <= 63
    BY <1>8, Up14
  <2>4. PICK x \in 0 .. 255 : x = d[7]
    BY <1>2 DEF Byte
  <2>7. x <= 63
    BY <2>3, <2>4
  <2>8. x % 128 = x
    BY <2>7
  <2>9. e[1] = 128 + (x % 128)
    BY <2>2, <2>4
  <2>5. e[1] = 128 + x /\ x <= 63
    BY <2>7, <2>8, <2>9
  <2>6. e[1] \in 128 .. 191 /\ SizeOf(e[1]) = 2
    BY <2>5 DEF SizeOf
  <2> QED BY <2>2, <2>6
<1>9. CASE /\ ~Above(d, Two32) /\ ~Above(d, Two28) /\ ~Above(d, Most21)
           /\ ~Above(d, Most14) /\ ~Above(d, Most7)
  <2>1. e = <<d[8]>>
    BY <1>1, <1>9 DEF encodePositive
  <2>2. e \in Seq(Byte) /\ Len(e) = 1 /\ e[1] = d[8]
    BY <1>2, <2>1
  <2>3. d[8] <= 127
    BY <1>9, Up7
  <2>4. PICK x \in 0 .. 255 : x = d[8]
    BY <1>2 DEF Byte
  <2>6. x <= 127 /\ e[1] = x
    BY <2>2, <2>3, <2>4
  <2>5. e[1] \in 0 .. 127 /\ SizeOf(e[1]) = 1
    BY <2>6 DEF SizeOf
  <2> QED BY <2>2, <2>5
<1> QED BY <1>4, <1>5, <1>6, <1>7, <1>8, <1>9

\* A form that is whole is read alike whatever follows it.
LEMMA FormPrefix ==
  ASSUME NEW b \in Seq(Byte), NEW c \in Seq(Byte), NEW n \in Nat, NEW top,
         n + 1 <= Len(b), Len(b) <= Len(c), n <= 8,
         \A i \in 1 .. Len(b) : c[i] = b[i]
  PROVE  Form(c, n, top, 1) = Form(b, n, top, 1)
<1>1. ~(Len(b) < n + 1) /\ ~(Len(c) < n + 1)
  OBVIOUS
<1>2. \A i \in 1 .. 8 : i > 8 - n => i - 7 + n \in 1 .. Len(b)
  OBVIOUS
<1>3. \A i \in 1 .. 8 : i > 8 - n => c[i - 7 + n] = b[i - 7 + n]
  BY <1>2
<1>4. [i \in 1 .. 8 |-> IF i > 8 - n THEN c[i - 7 + n]
                        ELSE IF i = 8 - n THEN top ELSE 0]
        = [i \in 1 .. 8 |-> IF i > 8 - n THEN b[i - 7 + n]
                            ELSE IF i = 8 - n THEN top ELSE 0]
  BY <1>3
<1> QED BY <1>1, <1>4 DEF Form

\* The first bytes of numbers that may be sent, and the form that one announces.
Firsts == 0 .. 240 \cup {244}
TopOf(f) ==
  IF f >= 240 THEN 0 ELSE IF f >= 224 THEN f % 16 ELSE IF f >= 192 THEN f % 32
  ELSE IF f >= 128 THEN f % 64 ELSE f
FormOf(b, f) == Form(b, SizeOf(f) - 1, TopOf(f), 1)

LEMMA DecodeIsFormOf ==
  ASSUME NEW b \in Seq(Nat), Len(b) > 0, NEW f \in Firsts, b[1] = f
  PROVE  decodeVarint(b) = FormOf(b, f)
<1>1. decodeVarint(b) = FormOf(b, b[1])
  <2>1. b[1] \in Nat /\ (b[1] = 244 \/ b[1] <= 240)
    BY DEF Firsts
  <2>2. CASE b[1] = 244 \/ b[1] = 240
    <3>1. SizeOf(b[1]) - 1 = (IF b[1] = 244 THEN 8 ELSE 4) /\ TopOf(b[1]) = 0
      BY <2>1, <2>2 DEF SizeOf, TopOf
    <3> QED BY <2>2, <3>1, ByFirst DEF FormOf
  <2>3. CASE 224 <= b[1] /\ b[1] < 240
    <3>1. SizeOf(b[1]) - 1 = 3 /\ TopOf(b[1]) = b[1] % 16
      BY <2>1, <2>3 DEF SizeOf, TopOf
    <3> QED BY <2>3, <3>1, ByFirst DEF FormOf
  <2>4. CASE 192 <= b[1] /\ b[1] < 224
    <3>1. SizeOf(b[1]) - 1 = 2 /\ TopOf(b[1]) = b[1] % 32
      BY <2>1, <2>4 DEF SizeOf, TopOf
    <3> QED BY <2>4, <3>1, ByFirst DEF FormOf
  <2>5. CASE 128 <= b[1] /\ b[1] < 192
    <3>1. SizeOf(b[1]) - 1 = 1 /\ TopOf(b[1]) = b[1] % 64
      BY <2>1, <2>5 DEF SizeOf, TopOf
    <3> QED BY <2>5, <3>1, ByFirst DEF FormOf
  <2>6. CASE b[1] < 128
    <3>1. SizeOf(b[1]) - 1 = 0 /\ TopOf(b[1]) = b[1]
      BY <2>1, <2>6 DEF SizeOf, TopOf
    <3> QED BY <2>6, <3>1, ByFirst DEF FormOf
  <2> QED BY <2>1, <2>2, <2>3, <2>4, <2>5, <2>6
<1> QED BY <1>1, Zenon

\* Two packets whose bytes of that form are the same.
LEMMA SameFormOf ==
  ASSUME NEW b, NEW c, NEW f \in Firsts,
         \A n \in 0 .. 8 : \A top :
           n + 1 <= SizeOf(f) => Form(c, n, top, 1) = Form(b, n, top, 1)
  PROVE  FormOf(c, f) = FormOf(b, f)
<1>1. f \in Nat
  BY DEF Firsts
<1>2. SizeOf(f) \in 1 .. 9
  BY DEF SizeOf
<1>3. SizeOf(f) - 1 \in 0 .. 8 /\ (SizeOf(f) - 1) + 1 <= SizeOf(f)
  BY <1>2
<1> QED BY <1>3 DEF FormOf

\* So is a number that is whole.
LEMMA DecodePrefix ==
  ASSUME NEW b \in Seq(Byte), NEW c \in Seq(Byte),
         Len(b) >= 1, b[1] \in Firsts, Len(b) = SizeOf(b[1]),
         Len(b) <= Len(c), \A i \in 1 .. Len(b) : c[i] = b[i]
  PROVE  decodeVarint(c) = decodeVarint(b)
<1>1. b \in Seq(Nat) /\ c \in Seq(Nat) /\ Len(b) > 0 /\ Len(c) > 0
  <2>1. ASSUME NEW x \in Seq(Byte) PROVE x \in Seq(Nat)
    <3>1. \A i \in 1 .. Len(x) : x[i] \in Byte
      OBVIOUS
    <3>3. Byte \subseteq Nat
      BY DEF Byte
    <3>2. \A i \in 1 .. Len(x) : x[i] \in Nat
      BY <3>1, <3>3
    <3> QED BY <3>2
  <2> QED BY <2>1
<1>2. PICK f \in Firsts : f = b[1] /\ f = c[1] /\ Len(b) = SizeOf(f)
  <2>1. 1 \in 1 .. Len(b)
    OBVIOUS
  <2> QED BY <2>1
<1>9. ASSUME NEW n \in 0 .. 8, NEW top, n + 1 <= Len(b)
      PROVE  Form(c, n, top, 1) = Form(b, n, top, 1)
  BY <1>9, FormPrefix
<1>3. \A n \in 0 .. 8 : \A top :
        n + 1 <= SizeOf(f) => Form(c, n, top, 1) = Form(b, n, top, 1)
  BY <1>2, <1>9
<1>4. FormOf(c, f) = FormOf(b, f)
  BY <1>3, SameFormOf, Zenon
<1>5. decodeVarint(b) = FormOf(b, f)
  BY <1>1, <1>2, DecodeIsFormOf, Zenon
<1>6. decodeVarint(c) = FormOf(c, f)
  BY <1>1, <1>2, DecodeIsFormOf, Zenon
<1> QED BY <1>4, <1>5, <1>6, Zenon

\* Whatever the first bytes are, ten are enough for a number.
LEMMA TenSuffice ==
  ASSUME NEW b \in Seq(Byte), Len(b) >= 10
  PROVE  decodeVarint(b) # OutOfRange
<1>1. b # <<>> /\ Tail(b) # <<>> /\ Len(Tail(b)) >= 9
  OBVIOUS
<1>2. ASSUME NEW c, Len(c) \in Nat, Len(c) >= 9, NEW n \in {0, 1, 2, 3, 4, 8},
             NEW top, NEW signed
      PROVE  Form(c, n, top, signed) # OutOfRange
  <2>1. PICK f : f = [i \in 1 .. 8 |-> IF i > 8 - n THEN c[i - 7 + n]
                                       ELSE IF i = 8 - n THEN top ELSE 0]
    OBVIOUS
  <2>2. f # <<>>
    <3>1. DOMAIN f = 1 .. 8 /\ DOMAIN <<>> = 1 .. 0
      BY <2>1
    <3> QED BY <3>1
  <2>3. ~(Len(c) < n + 1)
    BY <1>2
  <2>4. Form(c, n, top, signed) = Number(signed, f)
    BY <2>1, <2>3 DEF Form
  <2> QED BY <2>2, <2>4 DEF OutOfRange, Number
<1>3. ASSUME NEW c, c # <<>>, Len(c) \in Nat, Len(c) >= 9, NEW signed
      PROVE  decodeForm(c, signed) # OutOfRange
  BY <1>2, <1>3 DEF decodeForm
<1>4. Len(b) \in Nat /\ Len(b) >= 9 /\ Len(Tail(b)) \in Nat
  BY <1>1
<1>5. Form(b, 0, b[1] % 4, 1) # OutOfRange
  BY <1>2, <1>4
<1>6. decodeForm(Tail(b), -1) # OutOfRange
  BY <1>1, <1>3, <1>4
<1>7. decodeForm(b, 1) # OutOfRange
  BY <1>1, <1>3, <1>4
<1> QED BY <1>1, <1>5, <1>6, <1>7 DEF decodeVarint

-----------------------------------------------------------------------------
(* What is on its way.                                                      *)

\* Datagrams as they are in each mode m: what the nonces are, and what a datagram
\* with packet p is.
SizeIn(m) == IF m = "OCB2-AES128" THEN 16 ELSE 24
ClientIn(m) == [i \in 1 .. SizeIn(m) |-> (200 + 3 * i) % 256]
ServerIn(m) == [i \in 1 .. SizeIn(m) |-> (7 * i) % 256]
OverheadIn(m) == 1 + IF m = "OCB2-AES128" THEN 3 ELSE 16
SealedIn(m, p, nonce) ==
  IF m = "OCB2-AES128"
  THEN Encrypt(p, nonce, 3).tag \o Encrypt(p, nonce, 3).dst
  ELSE Seal(p, nonce)
ToServer(m, p) == <<ClientIn(m)[1]>> \o SealedIn(m, p, ClientIn(m))
ToClient(m, p) == <<ServerIn(m)[1]>> \o SealedIn(m, p, ServerIn(m))

\* They are what the mode makes of it.
LEMMA InMode ==
  /\ ClientNonce = ClientIn(mode) /\ ServerNonce = ServerIn(mode)
  /\ Overhead = OverheadIn(mode)
  /\ \A p : /\ Encrypted(p, ClientNonce) = ToServer(mode, p)
            /\ Encrypted(p, ServerNonce) = ToClient(mode, p)
<1>1. /\ ClientNonce = ClientIn(mode) /\ ServerNonce = ServerIn(mode)
      /\ Overhead = OverheadIn(mode)
  BY Zenon DEF ClientNonce, ServerNonce, ClientIn, ServerIn, NonceSize, SizeIn,
               Overhead, modeOverhead, OverheadIn
<1>2. ASSUME NEW p, NEW nonce
      PROVE  Sealed(p, nonce) = SealedIn(mode, p, nonce)
  <2>1. CASE mode = "OCB2-AES128"
    <3>1. modeOverhead = 3
      BY <2>1, Zenon DEF modeOverhead
    <3> QED BY <2>1, <3>1, Zenon DEF Sealed, SealedIn
  <2>2. CASE mode # "OCB2-AES128"
    BY <2>2, Zenon DEF Sealed, SealedIn
  <2> QED BY <2>1, <2>2, Zenon
<1> QED BY <1>1, <1>2, Zenon DEF Encrypted, ToServer, ToClient

\* What the packets hold.
PingOf(t) == <<PingHeader>> \o encodeVarint(1, t)
VoiceOf(s) == audioPacket(s.number, Payload(s.length), s.last)

\* A packet is read at most once, and only after it was sent.
Phases ==
  /\ mode \in {"OCB2-AES128", "XSalsa20-Poly1305"}
  /\ wire.path \in {"none", "tunnel", "udp", "answer", "stray"}
  /\ wire.path # "none" => result.by = "none"
  /\ sent.kind \in {"none", "voice", "ping"}
  /\ sent.kind = "none" =>
       /\ wire.path = "none" /\ result.by = "none"
       /\ sequenceNumber \in SequenceNumbers

\* What is on its way was made of the packet.
OfVoice ==
  sent.kind = "voice" =>
    /\ sent.number \in SequenceNumbers
    /\ sent.length \in PayloadLengths
    /\ sent.last \in BOOLEAN
    /\ packet = VoiceOf(sent)
    /\ sequenceNumber = nextSequenceNumber(sent.number)
    /\ wire.path \in {"none", "tunnel", "udp"}
    /\ wire.path = "tunnel" => wire.bytes = tunnelPackage(packet)
    /\ wire.path = "udp" => wire.bytes = ToServer(mode, packet)
    /\ result.by \in {"none", "server"}
    /\ result.by = "server" => result.packet = Read(packet)
OfPing ==
  sent.kind = "ping" =>
    /\ sent.time \in Timestamps
    /\ packet = PingOf(sent.time)
    /\ wire.path \in {"none", "udp", "answer", "stray"}
    /\ wire.path = "udp" => wire.bytes = ToServer(mode, packet)
    /\ wire.path = "answer" => wire.bytes = ToClient(mode, packet)
    /\ wire.path = "stray" =>
         /\ wire.bytes \in Strays
         /\ mode # "OCB2-AES128" /\ Len(wire.bytes) > OverheadIn(mode) =>
              ~Open(Tail(wire.bytes), ServerIn(mode)).ok
    /\ result.by \in {"none", "panic", "ignored", "client"}

MadeOfPacket == Phases /\ OfVoice /\ OfPing

-----------------------------------------------------------------------------
(* The packets.                                                             *)

\* A ping is its header and its time.
LEMMA PingIs ==
  ASSUME NEW t \in Positive
  PROVE  /\ PingOf(t) \in Seq(Byte) /\ Len(PingOf(t)) > 0
         /\ PingOf(t)[1] = 32 /\ Tail(PingOf(t)) = encodeVarint(1, t)
<1>1. PICK e \in Seq(Byte) : e = encodeVarint(1, t)
  BY EncodedIs
<1>2. 32 \in Byte
  BY DEF Byte
<1>3. PICK p : p = <<32>> \o e /\ p = PingOf(t)
  BY <1>1 DEF PingOf, PingHeader
<1>4. p \in Seq(Byte)
  BY <1>2, <1>3
<1>5. Len(p) = 1 + Len(e) /\ p[1] = 32 /\ Tail(p) = e
  BY <1>2, <1>3, BehindFirst
<1>6. Len(p) > 0
  BY <1>1, <1>5
<1> QED BY <1>1, <1>3, <1>4, <1>5, <1>6, Zenon

\* The largest number, and that headers are below it.
LEMMA MaxIsNat == MaxInt32 \in Nat /\ MaxInt32 > 16383
  BY SMT DEF MaxInt32

\* A number of 32 bits is one the varint is right about.
LEMMA MagnitudeIs ==
  ASSUME NEW n \in Nat, n <= MaxInt32
  PROVE  Magnitude(n) \in Positive /\ Magnitude(n) # Two32
<1>1. PICK a \in 0 .. 127 : a = n \div 16777216
  <2>1. n <= 2147483647
    BY SMT DEF MaxInt32
  <2>2. n \div 16777216 \in 0 .. 127
    BY <2>1, SMT
  <2> QED BY <2>2, SMT
<1>2. PICK b \in 0 .. 255 : b = (n \div 65536) % 256
  BY SMT
<1>3. PICK c \in 0 .. 255, d \in 0 .. 255 : c = (n \div 256) % 256 /\ d = n % 256
  <2>1. (n \div 256) % 256 \in 0 .. 255 /\ n % 256 \in 0 .. 255
    BY SMT
  <2> QED BY <2>1, Zenon
<1>4. PICK m : m = <<0, 0, 0, 0, a, b, c, d>> /\ m = Magnitude(n)
  <2>1. Magnitude(n) = <<0, 0, 0, 0, n \div 16777216, (n \div 65536) % 256,
                         (n \div 256) % 256, n % 256>>
    BY SMT DEF Magnitude
  <2>2. Magnitude(n) = <<0, 0, 0, 0, a, b, c, d>>
    BY <1>1, <1>2, <1>3, <2>1, SMT
  <2> QED BY <2>2, Zenon
<1>5. m \in Positive
  <2>1. \A i \in 1 .. 8 : m[i] \in Byte
    BY <1>4 DEF Byte
  <2>2. m \in [1 .. 8 -> Byte]
    BY <1>4, <2>1
  <2>3. m[1] < 128
    BY <1>4
  <2> QED BY <2>2, <2>3 DEF Positive, Magnitudes
<1>6. m[4] = 0 /\ Two32[4] = 1
  BY <1>4 DEF Two32
<1> QED BY <1>4, <1>5, <1>6

\* The lengths of frames, and the header of the last one.
Lengths == 0 .. 8191
WithLast(l) == l + 8192

\* The header is the length, with bit 13 for the last frame.
LEMMA HeaderIs ==
  ASSUME NEW l \in Lengths
  PROVE  /\ opusHeader(l, TRUE) = WithLast(l)
         /\ opusHeader(l, FALSE) = l
<1>1. PICK high : high = l \div 8192
  OBVIOUS
<1>2. high % 2 = 0
  BY <1>1, SMT DEF Lengths
<1>3. opusHeader(l, TRUE) = WithLast(l)
  BY <1>1, <1>2, SMT DEF opusHeader, WithLast
<1>4. opusHeader(l, FALSE) = l
  BY SMT DEF opusHeader
<1> QED BY <1>3, <1>4, Zenon

\* A header is a number of 32 bits.
LEMMA LengthIs ==
  ASSUME NEW l \in Lengths
  PROVE  /\ l \in Nat /\ l <= MaxInt32
         /\ WithLast(l) \in Nat /\ WithLast(l) <= MaxInt32
  BY SMT DEF Lengths, WithLast, MaxInt32

\* A frame fits the thirteen bits of its length.
LEMMA ShortFrame ==
  ASSUME NEW l \in Lengths
  PROVE  l \in Nat /\ l <= 8191
  BY SMT DEF Lengths

\* A frame is bytes.
LEMMA PayloadIs ==
  ASSUME NEW l \in Lengths
  PROVE  Payload(l) \in Seq(Byte) /\ Len(Payload(l)) = l
<1>1. \A i \in 1 .. l : i % 256 \in Byte
  BY DEF Byte, Lengths
<1> QED BY <1>1, SMT DEF Payload, Lengths

\* No packet of voice is longer.
MaxPacket == 8210

\* A packet of voice, in its parts.
Parts(x, y, f) == <<128>> \o x \o y \o f

\* A packet of voice is short.
LEMMA PartsAre ==
  ASSUME NEW x \in Seq(Byte), NEW y \in Seq(Byte), NEW f \in Seq(Byte),
         Len(x) <= 9, Len(y) <= 9, Len(f) \in Lengths
  PROVE  Parts(x, y, f) \in Seq(Byte) /\ Len(Parts(x, y, f)) <= MaxPacket
<1>1. 128 \in Byte
  BY DEF Byte
<1>2. PICK p : p = <<128>> \o x \o y \o f
  OBVIOUS
<1>3. p \in Seq(Byte) /\ Len(p) = 1 + Len(x) + Len(y) + Len(f)
  BY <1>1, <1>2
<1>4. Len(f) <= 8191
  <2>1. PICK k \in Lengths : k = Len(f)
    BY Zenon
  <2>2. k <= 8191
    BY ShortFrame
  <2> QED BY <2>1, <2>2, SMT
<1>5. Len(p) <= MaxPacket
  BY <1>3, <1>4, SMT DEF MaxPacket
<1> QED BY <1>2, <1>3, <1>5, SMT DEF Parts

\* Number n, length l and header h make packet p.
IsVoice(p, n, l, h) ==
  /\ n \in Nat /\ n <= MaxInt32
  /\ l \in Lengths
  /\ h \in {l, WithLast(l)}
  /\ p = Parts(encodeVarint(1, Magnitude(n)), encodeVarint(1, Magnitude(h)),
               Payload(l))

\* audioPacket makes a packet of a number, a header and a frame.
LEMMA VoiceIsParts ==
  ASSUME NEW n \in SequenceNumbers, NEW l \in PayloadLengths
  PROVE  /\ IsVoice(audioPacket(n, Payload(l), TRUE), n, l, WithLast(l))
         /\ IsVoice(audioPacket(n, Payload(l), FALSE), n, l, l)
<1>1. n \in Nat /\ n <= MaxInt32
  BY SequenceNumbersAssumption, MaxIsNat
<1>2. l \in Lengths
  BY PayloadLengthsAssumption DEF Lengths
<1>3. Len(Payload(l)) = l
  BY <1>2, PayloadIs, Zenon
<1>4. OPUS * 32 = 128
  BY DEF OPUS
<1>5. /\ opusHeader(Len(Payload(l)), TRUE) = WithLast(l)
      /\ opusHeader(Len(Payload(l)), FALSE) = l
  BY <1>2, <1>3, HeaderIs, Zenon
<1> QED BY <1>1, <1>2, <1>4, <1>5, Zenon DEF IsVoice, Parts, audioPacket

\* So the packet that was sent is one.
LEMMA VoiceIs ==
  ASSUME NEW s, s.number \in SequenceNumbers, s.length \in PayloadLengths,
         s.last \in BOOLEAN
  PROVE  \E h : /\ IsVoice(VoiceOf(s), s.number, s.length, h)
                /\ s.last = TRUE => h = WithLast(s.length)
                /\ s.last = FALSE => h = s.length
<1>1. CASE s.last = TRUE
  <2>1. IsVoice(VoiceOf(s), s.number, s.length, WithLast(s.length))
    BY <1>1, VoiceIsParts, Zenon DEF VoiceOf
  <2> QED BY <1>1, <2>1, Zenon
<1>2. CASE s.last = FALSE
  <2>1. IsVoice(VoiceOf(s), s.number, s.length, s.length)
    BY <1>2, VoiceIsParts, Zenon DEF VoiceOf
  <2> QED BY <1>2, <2>1, Zenon
<1> QED BY <1>1, <1>2, Zenon

\* Its number and its header are written as the varint writes them.
LEMMA VoiceParts ==
  ASSUME NEW p, NEW n, NEW l, NEW h, IsVoice(p, n, l, h)
  PROVE  \E a \in Positive, b \in Positive, f \in Seq(Byte) :
           /\ a = Magnitude(n) /\ a # Two32 /\ b = Magnitude(h) /\ b # Two32
           /\ f = Payload(l) /\ Len(f) \in Lengths
           /\ p = Parts(encodeVarint(1, a), encodeVarint(1, b), f)
<1>1. n \in Nat /\ n <= MaxInt32 /\ l \in Lengths /\ (h = l \/ h = WithLast(l))
  BY Zenon DEF IsVoice
<1>2. h \in Nat /\ h <= MaxInt32
  BY <1>1, LengthIs, Zenon
<1>3. /\ Magnitude(n) \in Positive /\ Magnitude(n) # Two32
      /\ Magnitude(h) \in Positive /\ Magnitude(h) # Two32
  BY <1>1, <1>2, MagnitudeIs, Zenon
<1>4. Payload(l) \in Seq(Byte) /\ Len(Payload(l)) \in Lengths
  BY <1>1, PayloadIs, Zenon
<1>5. p = Parts(encodeVarint(1, Magnitude(n)), encodeVarint(1, Magnitude(h)),
                Payload(l))
  BY Zenon DEF IsVoice
<1> QED BY <1>3, <1>4, <1>5, Zenon

\* A number takes nine bytes at most.
LEMMA EncodedBytes ==
  ASSUME NEW d \in Positive
  PROVE  encodeVarint(1, d) \in Seq(Byte) /\ Len(encodeVarint(1, d)) <= 9
<1>1. PICK e : e = encodeVarint(1, d)
  OBVIOUS
<1>2. e \in Seq(Byte) /\ Len(e) \in 1 .. 9
  BY <1>1, EncodedIs
<1>3. Len(e) <= 9
  <2>1. PICK k \in 1 .. 9 : k = Len(e)
    BY <1>2, Zenon
  <2>2. k <= 9
    OBVIOUS
  <2> QED BY <2>1, <2>2, Zenon
<1> QED BY <1>1, <1>2, <1>3, Zenon

\* A packet of voice is bytes, and short.
LEMMA VoiceBytes ==
  ASSUME NEW p, NEW n, NEW l, NEW h, IsVoice(p, n, l, h)
  PROVE  p \in Seq(Byte) /\ Len(p) <= MaxPacket
<1>1. PICK a \in Positive, b \in Positive, f \in Seq(Byte) :
        /\ a = Magnitude(n) /\ a # Two32 /\ b = Magnitude(h) /\ b # Two32
        /\ f = Payload(l) /\ Len(f) \in Lengths
        /\ p = Parts(encodeVarint(1, a), encodeVarint(1, b), f)
  BY VoiceParts
<1>2. PICK x \in Seq(Byte) : x = encodeVarint(1, a) /\ Len(x) <= 9
  BY EncodedBytes, Zenon
<1>3. PICK y \in Seq(Byte) : y = encodeVarint(1, b) /\ Len(y) <= 9
  BY EncodedBytes, Zenon
<1>4. p = Parts(x, y, f)
  BY <1>1, <1>2, <1>3, Zenon
<1> QED BY <1>1, <1>2, <1>3, <1>4, PartsAre

-----------------------------------------------------------------------------
(* What the server finds.                                                   *)

\* The tunnel: the type of the package and the length before the packet.
TunnelHead(x, y) == <<0, 1>> \o SubSeq(<<0, 0, 0, 0, 0, 0, x, y>>, 5, 8)

\* The type and the length of a package, byte by byte.
LEMMA HeadIs ==
  ASSUME NEW x \in Byte, NEW y \in Byte
  PROVE  /\ TunnelHead(x, y) \in Seq(Byte) /\ Len(TunnelHead(x, y)) = 6
         /\ TunnelHead(x, y)[1] = 0 /\ TunnelHead(x, y)[2] = 1
         /\ TunnelHead(x, y)[3] = 0 /\ TunnelHead(x, y)[4] = 0
         /\ TunnelHead(x, y)[5] = x /\ TunnelHead(x, y)[6] = y
<1>1. PICK s : s = <<0, 0, 0, 0, 0, 0, x, y>>
  BY Zenon
<1>2. PICK t : t = SubSeq(s, 5, 8)
  OBVIOUS
<1>3. s \in Seq(Byte) /\ Len(s) = 8
  BY <1>1 DEF Byte
<1>4. t \in Seq(Byte) /\ Len(t) = 4 /\ \A i \in 1 .. 4 : t[i] = s[4 + i]
  <2>1. 4 \in Nat /\ 8 \in Nat /\ 4 <= 8 /\ 8 <= Len(s)
    BY <1>3
  <2>2. /\ SubSeq(s, 4 + 1, 8) \in Seq(Byte) /\ Len(SubSeq(s, 4 + 1, 8)) = 8 - 4
        /\ \A i \in 1 .. 8 - 4 : SubSeq(s, 4 + 1, 8)[i] = s[4 + i]
    BY <1>3, <2>1, Slice
  <2> QED BY <1>2, <2>2
<1>5. t[1] = 0 /\ t[2] = 0 /\ t[3] = x /\ t[4] = y
  BY <1>1, <1>4
<1>6. PICK a : a = <<0, 1>>
  BY Zenon
<1>7. a \in Seq(Byte) /\ Len(a) = 2 /\ a[1] = 0 /\ a[2] = 1
  BY <1>6 DEF Byte
<1>8. PICK h : h = a \o t
  OBVIOUS
<1>9. /\ h \in Seq(Byte) /\ Len(h) = 6
      /\ \A i \in 1 .. 6 : h[i] = IF i <= 2 THEN a[i] ELSE t[i - 2]
  <2>1. /\ a \o t \in Seq(Byte) /\ Len(a \o t) = Len(a) + Len(t)
        /\ \A i \in 1 .. Len(a) + Len(t) :
             (a \o t)[i] = IF i <= Len(a) THEN a[i] ELSE t[i - Len(a)]
    BY <1>4, <1>7, ConcatProperties
  <2> QED BY <1>4, <1>7, <1>8, <2>1
<1>10. /\ h[1] = 0 /\ h[2] = 1 /\ h[3] = 0 /\ h[4] = 0
       /\ h[5] = x /\ h[6] = y
  BY <1>5, <1>7, <1>9
<1>11. TunnelHead(x, y) = h
  BY <1>1, <1>2, <1>6, <1>8, Zenon DEF TunnelHead
<1> QED BY <1>9, <1>10, <1>11

\* The length of a package in two bytes.
LEMMA LengthBytes ==
  ASSUME NEW n \in Nat, n <= MaxPacket
  PROVE  /\ n \div 256 \in Byte /\ n % 256 \in Byte
         /\ (n \div 256) * 256 + (n % 256) = n
         /\ Magnitude(n) = <<0, 0, 0, 0, 0, 0, n \div 256, n % 256>>
<1>1. n \div 256 \in 0 .. 255 /\ n \div 16777216 = 0 /\ (n \div 65536) % 256 = 0
  BY SMT DEF MaxPacket
<1>2. n % 256 \in 0 .. 255 /\ (n \div 256) * 256 + (n % 256) = n
  BY SMT
<1>3. (n \div 256) % 256 = n \div 256
  BY <1>1, SMT
<1>4. Magnitude(n) = <<0, 0, 0, 0, n \div 16777216, (n \div 65536) % 256,
                       (n \div 256) % 256, n % 256>>
  BY SMT DEF Magnitude
<1>5. Magnitude(n) = <<0, 0, 0, 0, 0, 0, n \div 256, n % 256>>
  BY <1>1, <1>3, <1>4, SMT
<1> QED BY <1>1, <1>2, <1>5, SMT DEF Byte

\* A package tells its type and its length, and the packet follows.
LEMMA TunnelIs ==
  ASSUME NEW p \in Seq(Byte), Len(p) <= MaxPacket
  PROVE  LET b == tunnelPackage(p)
         IN  /\ SubSeq(b, 7, Len(b)) = p
             /\ SubSeq(b, 1, 4) = <<0, 1, 0, 0>>
             /\ b[5] * 256 + b[6] = Len(b) - 6
<1>1. PICK n \in Nat : n = Len(p) /\ n <= MaxPacket
  OBVIOUS
<1>2. PICK x \in Byte, y \in Byte : x = n \div 256 /\ y = n % 256
  BY <1>1, LengthBytes, SMT
<1>3. x * 256 + y = n /\ Magnitude(n) = <<0, 0, 0, 0, 0, 0, x, y>>
  BY <1>1, <1>2, LengthBytes, SMT
<1>4. PICK h \in Seq(Byte) : h = TunnelHead(x, y)
  BY HeadIs
<1>5. /\ h[1] = 0 /\ h[2] = 1 /\ h[3] = 0 /\ h[4] = 0
      /\ h[5] = x /\ h[6] = y
  BY <1>4, HeadIs
<1>6. h \in Seq(Byte) /\ Len(h) = 6
  BY <1>4, HeadIs
<1>8. PICK b : b = h \o p /\ b = tunnelPackage(p)
  BY <1>1, <1>3, <1>4, Zenon DEF tunnelPackage, TunnelHead
<1>9. /\ b \in Seq(Byte) /\ Len(b) = 6 + n
      /\ SubSeq(b, 7, Len(b)) = p
  <2>1. /\ h \o p \in Seq(Byte) /\ Len(h \o p) = Len(h) + Len(p)
        /\ SubSeq(h \o p, 1, Len(h)) = h
        /\ SubSeq(h \o p, Len(h) + 1, Len(h \o p)) = p
    BY Apart
  <2>2. Len(h) + 1 = 7
    BY <1>6
  <2> QED BY <1>1, <1>6, <1>8, <2>1, <2>2
<1>10. \A i \in 1 .. 6 : b[i] = h[i]
  <2>1. \A i \in 1 .. Len(h) + Len(p) :
          (h \o p)[i] = IF i <= Len(h) THEN h[i] ELSE p[i - Len(h)]
    BY <1>6, ConcatProperties
  <2> QED BY <1>1, <1>6, <1>8, <2>1
<1>11. SubSeq(b, 1, 4) = <<0, 1, 0, 0>>
  <2>1. 0 \in Nat /\ 4 \in Nat /\ 0 <= 4 /\ 4 <= Len(b)
    BY <1>9
  <2>2. /\ SubSeq(b, 0 + 1, 4) \in Seq(Byte) /\ Len(SubSeq(b, 0 + 1, 4)) = 4 - 0
        /\ \A i \in 1 .. 4 - 0 : SubSeq(b, 0 + 1, 4)[i] = b[0 + i]
    BY <1>9, <2>1, Slice
  <2>9. PICK s : s = SubSeq(b, 0 + 1, 4)
    OBVIOUS
  <2>3. /\ s = SubSeq(b, 1, 4) /\ s \in Seq(Byte) /\ Len(s) = 4
        /\ \A i \in 1 .. 4 : s[i] = b[i]
    BY <2>2, <2>9
  <2>4. s[1] = 0 /\ s[2] = 1 /\ s[3] = 0 /\ s[4] = 0
    BY <1>5, <1>10, <2>3
  <2>5. PICK t : t = <<0, 1, 0, 0>>
    BY Zenon
  <2>6. t \in Seq(Byte) /\ Len(t) = 4
    BY <2>5 DEF Byte
  <2>7. \A i \in 1 .. Len(s) : s[i] = t[i]
    BY <2>3, <2>4, <2>5
  <2>8. s = t
    BY <2>3, <2>6, <2>7, SeqEqual
  <2> QED BY <2>3, <2>5, <2>8
<1>12. b[5] = x /\ b[6] = y
  BY <1>5, <1>10
<1>13. b[5] * 256 + b[6] = Len(b) - 6
  BY <1>1, <1>3, <1>9, <1>12, SMT
<1> QED BY <1>8, <1>9, <1>11, <1>13, Zenon

\* The packet that was sent is bytes.
LEMMA PacketIs ==
  ASSUME MadeOfPacket, sent.kind # "none"
  PROVE  packet \in Seq(Byte) /\ (sent.kind = "voice" => Len(packet) <= MaxPacket)
<1>1. CASE sent.kind = "voice"
  <2>1. /\ sent.number \in SequenceNumbers /\ sent.length \in PayloadLengths
        /\ sent.last \in BOOLEAN /\ packet = VoiceOf(sent)
    BY <1>1, Zenon DEF MadeOfPacket, OfVoice
  <2>2. \E h : IsVoice(packet, sent.number, sent.length, h)
    BY <2>1, VoiceIs, Zenon
  <2> QED BY <2>2, VoiceBytes, Zenon
<1>2. CASE sent.kind = "ping"
  <2>1. sent.time \in Timestamps /\ packet = PingOf(sent.time)
    BY <1>2, Zenon DEF MadeOfPacket, OfPing
  <2>2. sent.time \in Positive
    BY <2>1, TimestampsAssumption
  <2>3. packet \in Seq(Byte)
    BY <2>1, <2>2, PingIs, Zenon
  <2> QED BY <1>2, <2>3
<1>3. sent.kind \in {"none", "voice", "ping"}
  BY Zenon DEF MadeOfPacket, Phases
<1> QED BY <1>1, <1>2, <1>3

\* There is a mode.
LEMMA ModeIs ==
  ASSUME MadeOfPacket
  PROVE  IsMode
  BY Zenon DEF MadeOfPacket, Phases, IsMode

\* The packet is found again behind the first byte of a datagram, and in the
\* tunnel.
LEMMA UnwrappedIs ==
  ASSUME IsCipher, MadeOfPacket, wire.path \in {"tunnel", "udp"}
  PROVE  Unwrapped.ok = TRUE /\ Unwrapped.plain = packet
<1>1. sent.kind # "none"
  BY DEF MadeOfPacket, Phases
<1>2. packet \in Seq(Byte) /\ (sent.kind = "voice" => Len(packet) <= MaxPacket)
  BY <1>1, PacketIs, Zenon
<1>3. CASE wire.path = "udp"
  <2>1. wire.bytes = ToServer(mode, packet)
    BY <1>1, <1>3 DEF MadeOfPacket, Phases, OfVoice, OfPing
  <2>2. wire.bytes = Encrypted(packet, ClientNonce)
    BY <2>1, InMode, Zenon
  <2>3. /\ Opened(Tail(Encrypted(packet, ClientNonce)), ClientNonce).plain = packet
        /\ Opened(Tail(Encrypted(packet, ClientNonce)), ClientNonce).ok = TRUE
    BY <1>2, ModeIs, NoncesAre, OpensEncrypted, Zenon
  <2>4. Unwrapped = Opened(Tail(wire.bytes), ClientNonce)
    BY <1>3 DEF Unwrapped
  <2> QED BY <2>2, <2>3, <2>4, Zenon
<1>4. CASE wire.path = "tunnel"
  <2>1. wire.bytes = tunnelPackage(packet) /\ sent.kind = "voice"
    BY <1>1, <1>4 DEF MadeOfPacket, Phases, OfVoice, OfPing
  <2>2. PICK b : b = wire.bytes
    OBVIOUS
  <2>3. /\ SubSeq(b, 7, Len(b)) = packet
        /\ SubSeq(b, 1, 4) = <<0, 1, 0, 0>>
        /\ b[5] * 256 + b[6] = Len(b) - 6
    BY <1>2, <2>1, <2>2, TunnelIs, SMT
  <2>4. PICK ok : ok = (/\ SubSeq(b, 1, 4) = <<0, 1, 0, 0>>
                        /\ b[5] * 256 + b[6] = Len(b) - 6)
    OBVIOUS
  <2>5. ok = TRUE
    BY <2>3, <2>4, Zenon
  <2>6. Unwrapped = [plain |-> SubSeq(b, 7, Len(b)), ok |-> ok]
    BY <1>4, <2>2, <2>4, Zenon DEF Unwrapped
  <2> QED BY <2>3, <2>5, <2>6, Zenon
<1> QED BY <1>3, <1>4

-----------------------------------------------------------------------------
(* The invariant.                                                           *)

\* The invariant holds at first.
LEMMA MadeInit ==
  ASSUME Init
  PROVE  MadeOfPacket
<1>1. /\ wire.path = "none" /\ sent.kind = "none" /\ result.by = "none"
      /\ sequenceNumber \in SequenceNumbers
      /\ mode \in {"OCB2-AES128", "XSalsa20-Poly1305"}
  BY ModesAssumption DEF Init, Nothing
<1> QED BY <1>1 DEF MadeOfPacket, Phases, OfVoice, OfPing

\* A packet of voice is sent.
LEMMA MadeVoice ==
  ASSUME MadeOfPacket, sendAudioPacket
  PROVE  MadeOfPacket'
<1>1. PICK n \in PayloadLengths, last \in BOOLEAN, path \in {"tunnel", "udp"} :
        LET p == audioPacket(sequenceNumber, Payload(n), last) IN
        /\ Sends([kind |-> "voice", number |-> sequenceNumber, length |-> n,
                  last |-> last],
                 p, [path |-> path,
                     bytes |-> IF path = "udp" THEN Encrypted(p, ClientNonce)
                               ELSE tunnelPackage(p)])
        /\ sequenceNumber' = nextSequenceNumber(sequenceNumber)
  BY Zenon DEF sendAudioPacket
<1>2. PICK p : p = audioPacket(sequenceNumber, Payload(n), last)
  OBVIOUS
<1>3. /\ sent' = [kind |-> "voice", number |-> sequenceNumber, length |-> n,
                  last |-> last]
      /\ sent.kind = "none" /\ packet' = p
      /\ wire' = [path |-> path,
                  bytes |-> IF path = "udp" THEN Encrypted(p, ClientNonce)
                            ELSE tunnelPackage(p)]
      /\ mode' = mode /\ result' = result
  BY <1>1, <1>2, Zenon DEF Sends
<1>4. /\ sent'.kind = "voice" /\ sent'.number = sequenceNumber
      /\ sent'.length = n /\ sent'.last = last
  BY <1>3, Zenon
<1>5. wire'.path = path
  BY <1>3, Zenon
<1>6. path = "tunnel" => wire'.bytes = tunnelPackage(packet')
  BY <1>3, Zenon
<1>7. path = "udp" => wire'.bytes = ToServer(mode', packet')
  BY <1>3, InMode, Zenon
<1>8. packet' = VoiceOf(sent')
  BY <1>2, <1>3, <1>4, Zenon DEF VoiceOf
<1>9. /\ sequenceNumber \in SequenceNumbers /\ result.by = "none"
      /\ mode \in {"OCB2-AES128", "XSalsa20-Poly1305"}
  BY <1>3, Zenon DEF MadeOfPacket, Phases
<1>10. sequenceNumber' = nextSequenceNumber(sent'.number)
  BY <1>1, <1>4, Zenon
<1>11. Phases'
  <2>1. wire'.path \in {"none", "tunnel", "udp", "answer", "stray"}
    BY <1>5, Zenon
  <2>2. sent'.kind \in {"none", "voice", "ping"} /\ sent'.kind # "none"
    BY <1>4, Zenon
  <2>3. result'.by = "none" /\ mode' \in {"OCB2-AES128", "XSalsa20-Poly1305"}
    BY <1>3, <1>9, Zenon
  <2> QED BY <2>1, <2>2, <2>3, Zenon DEF Phases
<1>12. OfVoice'
  <2>1. /\ sent'.number \in SequenceNumbers /\ sent'.length \in PayloadLengths
        /\ sent'.last \in BOOLEAN
    BY <1>4, <1>9, Zenon
  <2>2. wire'.path \in {"none", "tunnel", "udp"}
    BY <1>5, Zenon
  <2>3. wire'.path = "tunnel" => wire'.bytes = tunnelPackage(packet')
    BY <1>5, <1>6, Zenon
  <2>4. wire'.path = "udp" => wire'.bytes = ToServer(mode', packet')
    BY <1>5, <1>7, Zenon
  <2>5. result'.by \in {"none", "server"} /\ result'.by # "server"
    BY <1>3, <1>9, Zenon
  <2> QED BY <1>8, <1>10, <2>1, <2>2, <2>3, <2>4, <2>5, Zenon DEF OfVoice
<1>13. OfPing'
  BY <1>4, Zenon DEF OfPing
<1> QED BY <1>11, <1>12, <1>13, Zenon DEF MadeOfPacket

\* A ping is sent.
LEMMA MadePing ==
  ASSUME MadeOfPacket, sendPing
  PROVE  MadeOfPacket'
<1>1. PICK t \in Timestamps :
        LET p == <<PingHeader>> \o encodeVarint(1, t) IN
        /\ Sends([kind |-> "ping", time |-> t],
                 p, [path |-> "udp", bytes |-> Encrypted(p, ClientNonce)])
        /\ UNCHANGED sequenceNumber
  BY Zenon DEF sendPing
<1>2. PICK p : p = <<PingHeader>> \o encodeVarint(1, t)
  OBVIOUS
<1>3. /\ sent' = [kind |-> "ping", time |-> t]
      /\ sent.kind = "none" /\ packet' = p
      /\ wire' = [path |-> "udp", bytes |-> Encrypted(p, ClientNonce)]
      /\ mode' = mode /\ result' = result
  BY <1>1, <1>2, Zenon DEF Sends
<1>4. sent'.kind = "ping" /\ sent'.time = t
  BY <1>3, Zenon
<1>5. wire'.path = "udp"
  BY <1>3, Zenon
<1>6. wire'.bytes = ToServer(mode', packet')
  BY <1>3, InMode, Zenon
<1>7. packet' = PingOf(sent'.time)
  BY <1>2, <1>3, <1>4, Zenon DEF PingOf
<1>8. result.by = "none" /\ mode \in {"OCB2-AES128", "XSalsa20-Poly1305"}
  BY <1>3, Zenon DEF MadeOfPacket, Phases
<1>9. Phases'
  <2>1. wire'.path \in {"none", "tunnel", "udp", "answer", "stray"}
    BY <1>5, Zenon
  <2>2. sent'.kind \in {"none", "voice", "ping"} /\ sent'.kind # "none"
    BY <1>4, Zenon
  <2>3. result'.by = "none" /\ mode' \in {"OCB2-AES128", "XSalsa20-Poly1305"}
    BY <1>3, <1>8, Zenon
  <2> QED BY <2>1, <2>2, <2>3, Zenon DEF Phases
<1>10. OfVoice'
  BY <1>4, Zenon DEF OfVoice
<1>11. OfPing'
  <2>1. sent'.time \in Timestamps
    BY <1>4, Zenon
  <2>2. /\ wire'.path \in {"none", "udp", "answer", "stray"}
        /\ wire'.path # "answer" /\ wire'.path # "stray"
    BY <1>5, Zenon
  <2>3. result'.by \in {"none", "panic", "ignored", "client"}
    BY <1>3, <1>8, Zenon
  <2> QED BY <1>6, <1>7, <2>1, <2>2, <2>3, Zenon DEF OfPing
<1> QED BY <1>9, <1>10, <1>11, Zenon DEF MadeOfPacket

\* A step that reads the packet leaves it as it is.
Keeps == mode' = mode /\ sequenceNumber' = sequenceNumber /\ sent' = sent
           /\ packet' = packet

\* The server reads voice.
LEMMA MadeServer ==
  ASSUME IsCipher, MadeOfPacket, ServerReads
  PROVE  MadeOfPacket'
<1>1. /\ wire.path \in {"tunnel", "udp"} /\ sent.kind = "voice"
      /\ result' = IF Unwrapped.ok
                   THEN [by |-> "server", packet |-> Read(Unwrapped.plain)]
                   ELSE [by |-> "refused"]
      /\ wire' = Nothing /\ Keeps
  BY Zenon DEF ServerReads, Keeps
<1>2. Unwrapped.ok = TRUE /\ Unwrapped.plain = packet
  BY <1>1, UnwrappedIs, Zenon
<1>3. result' = [by |-> "server", packet |-> Read(packet)]
  BY <1>1, <1>2, Zenon
<1>4. result'.by = "server" /\ result'.packet = Read(packet)
  BY <1>3, Zenon
<1>5. wire'.path = "none"
  BY <1>1, Zenon DEF Nothing
<1>6. Phases'
  <2>1. sent.kind # "none"
    BY <1>1, Zenon
  <2>2. wire'.path \in {"none", "tunnel", "udp", "answer", "stray"}
    BY <1>5, Zenon
  <2>3. /\ mode \in {"OCB2-AES128", "XSalsa20-Poly1305"}
        /\ sent.kind \in {"none", "voice", "ping"}
    BY Zenon DEF MadeOfPacket, Phases
  <2> QED BY <1>1, <1>5, <2>1, <2>2, <2>3, Zenon DEF Phases, Keeps
<1>7. OfVoice'
  <2>1. /\ wire'.path \in {"none", "tunnel", "udp"}
        /\ wire'.path # "tunnel" /\ wire'.path # "udp"
    BY <1>5, Zenon
  <2>2. result'.by \in {"none", "server"}
    BY <1>4, Zenon
  <2>3. /\ sent.number \in SequenceNumbers /\ sent.length \in PayloadLengths
        /\ sent.last \in BOOLEAN /\ packet = VoiceOf(sent)
        /\ sequenceNumber = nextSequenceNumber(sent.number)
    BY <1>1, Zenon DEF MadeOfPacket, OfVoice
  <2> QED BY <1>1, <1>4, <2>1, <2>2, <2>3, Zenon DEF OfVoice, Keeps
<1>8. OfPing'
  <2>1. sent.kind # "ping"
    BY <1>1, Zenon
  <2> QED BY <1>1, <2>1, Zenon DEF OfPing, Keeps
<1> QED BY <1>6, <1>7, <1>8, Zenon DEF MadeOfPacket

\* A step on the way of a ping: what is on its way after it, and what came of it.
LEMMA MadeOnTheWay ==
  ASSUME MadeOfPacket, Keeps, sent.kind = "ping",
         wire'.path \in {"none", "answer", "stray"},
         wire'.path = "answer" => wire'.bytes = ToClient(mode, packet),
         wire'.path = "stray" =>
           /\ wire'.bytes \in Strays
           /\ mode # "OCB2-AES128" /\ Len(wire'.bytes) > OverheadIn(mode) =>
                ~Open(Tail(wire'.bytes), ServerIn(mode)).ok,
         result'.by \in {"none", "panic", "ignored", "client"},
         wire'.path # "none" => result'.by = "none"
  PROVE  MadeOfPacket'
<1>1. Phases'
  <2>1. sent.kind # "none"
    BY Zenon
  <2>2. wire'.path \in {"none", "tunnel", "udp", "answer", "stray"}
    BY Zenon
  <2>3. /\ mode \in {"OCB2-AES128", "XSalsa20-Poly1305"}
        /\ sent.kind \in {"none", "voice", "ping"}
    BY Zenon DEF MadeOfPacket, Phases
  <2> QED BY <2>1, <2>2, <2>3, Zenon DEF Phases, Keeps
<1>2. OfVoice'
  <2>1. sent.kind # "voice"
    BY Zenon
  <2> QED BY <2>1, Zenon DEF OfVoice, Keeps
<1>3. OfPing'
  <2>1. /\ wire'.path \in {"none", "udp", "answer", "stray"}
        /\ wire'.path # "udp"
    BY Zenon
  <2>2. sent.time \in Timestamps /\ packet = PingOf(sent.time)
    BY Zenon DEF MadeOfPacket, OfPing
  <2> QED BY <2>1, <2>2, Zenon DEF OfPing, Keeps
<1> QED BY <1>1, <1>2, <1>3, Zenon DEF MadeOfPacket

\* The server answers.
LEMMA MadeEcho ==
  ASSUME IsCipher, MadeOfPacket, ServerEchoes
  PROVE  MadeOfPacket'
<1>1. /\ wire.path = "udp" /\ sent.kind = "ping"
      /\ wire' = IF Unwrapped.ok
                 THEN [path |-> "answer",
                       bytes |-> Encrypted(Unwrapped.plain, ServerNonce)]
                 ELSE Nothing
      /\ Keeps /\ result' = result
  BY Zenon DEF ServerEchoes, Keeps
<1>2. wire.path \in {"tunnel", "udp"}
  BY <1>1, Zenon
<1>3. Unwrapped.ok = TRUE /\ Unwrapped.plain = packet
  BY <1>2, UnwrappedIs, Zenon
<1>4. wire' = [path |-> "answer", bytes |-> Encrypted(packet, ServerNonce)]
  BY <1>1, <1>3, Zenon
<1>5. wire'.path = "answer" /\ wire'.bytes = ToClient(mode, packet)
  BY <1>4, InMode, Zenon
<1>6. wire.path # "none"
  BY <1>1, Zenon
<1>7. result'.by = "none"
  BY <1>1, <1>6, Zenon DEF MadeOfPacket, Phases
<1>8. /\ wire'.path \in {"none", "answer", "stray"} /\ wire'.path # "stray"
      /\ result'.by \in {"none", "panic", "ignored", "client"}
  BY <1>5, <1>7, Zenon
<1> QED BY <1>1, <1>5, <1>7, <1>8, MadeOnTheWay, Zenon

\* Another datagram takes the place of the answer.
LEMMA MadeStray ==
  ASSUME MadeOfPacket, StrayArrives
  PROVE  MadeOfPacket'
<1>1. /\ wire.path = "udp" /\ sent.kind = "ping" /\ Keeps /\ result' = result
  BY Zenon DEF StrayArrives, Keeps
<1>2. PICK bytes \in Strays :
        /\ mode # "OCB2-AES128" /\ Len(bytes) > Overhead =>
             ~Open(Tail(bytes), ServerNonce).ok
        /\ wire' = [path |-> "stray", bytes |-> bytes]
  BY Zenon DEF StrayArrives
<1>3. wire'.path = "stray" /\ wire'.bytes = bytes
  BY <1>2, Zenon
<1>4. mode # "OCB2-AES128" /\ Len(bytes) > OverheadIn(mode) =>
        ~Open(Tail(bytes), ServerIn(mode)).ok
  BY <1>2, InMode, Zenon
<1>5. wire.path # "none"
  BY <1>1, Zenon
<1>6. result'.by = "none"
  BY <1>1, <1>5, Zenon DEF MadeOfPacket, Phases
<1>7. /\ wire'.path \in {"none", "answer", "stray"} /\ wire'.path # "answer"
      /\ result'.by \in {"none", "panic", "ignored", "client"}
  BY <1>3, <1>6, Zenon
<1> QED BY <1>1, <1>3, <1>4, <1>6, <1>7, MadeOnTheWay, Zenon

\* What reading a datagram comes to.
LEMMA AnswerBy ==
  ASSUME NEW n, NEW plain
  PROVE  Answer(n, plain).by \in {"panic", "ignored", "client"}
  BY Zenon DEF Answer

\* The client reads a datagram.
LEMMA MadeRead ==
  ASSUME MadeOfPacket, ReadAnswer
  PROVE  MadeOfPacket'
<1>1. /\ wire.path \in {"answer", "stray"} /\ Keeps /\ wire' = Nothing
      /\ \E n, plain : result' = Answer(n, plain)
  BY Zenon DEF ReadAnswer, Keeps
<1>2. sent.kind = "ping"
  <2>1. /\ wire.path # "none" /\ wire.path # "tunnel" /\ wire.path # "udp"
    BY <1>1, Zenon
  <2>2. sent.kind # "none" /\ sent.kind # "voice"
    BY <2>1, Zenon DEF MadeOfPacket, Phases, OfVoice
  <2>3. sent.kind \in {"none", "voice", "ping"}
    BY Zenon DEF MadeOfPacket, Phases
  <2> QED BY <2>2, <2>3, Zenon
<1>3. wire'.path = "none"
  BY <1>1, Zenon DEF Nothing
<1>4. result'.by \in {"none", "panic", "ignored", "client"}
  BY <1>1, AnswerBy, Zenon
<1>5. /\ wire'.path \in {"none", "answer", "stray"}
      /\ wire'.path # "answer" /\ wire'.path # "stray"
  BY <1>3, Zenon
<1> QED BY <1>1, <1>2, <1>3, <1>4, <1>5, MadeOnTheWay, Zenon

\* Every step keeps the invariant.
LEMMA MadeNext ==
  ASSUME IsCipher, MadeOfPacket, [Next]_vars
  PROVE  MadeOfPacket'
<1>1. CASE UNCHANGED vars
  BY <1>1, Zenon DEF vars, MadeOfPacket, Phases, OfVoice, OfPing
<1>2. CASE Next
  BY <1>2, MadeVoice, MadePing, MadeServer, MadeEcho, MadeStray, MadeRead, Zenon
     DEF Next
<1> QED BY <1>1, <1>2, Zenon

\* What is on its way was always made of the packet that was sent, whatever was
\* sent and read before.
THEOREM MadeAlways ==
  ASSUME IsCipher
  PROVE  Spec => []MadeOfPacket
<1>1. MadeOfPacket /\ [Next]_vars => MadeOfPacket'
  BY MadeNext
<1>2. Init => MadeOfPacket
  BY MadeInit
<1> QED BY <1>1, <1>2, PTL DEF Spec

-----------------------------------------------------------------------------
(* The answer.                                                              *)

\* The time in a ping is a number of eight bytes.
LEMMA TimeIs ==
  ASSUME NEW t \in Timestamps
  PROVE  /\ t \in Positive
         /\ decodeVarint(encodeVarint(1, t)) = Number(1, t)
         /\ Number(1, t) # OutOfRange
<1>1. t \in Positive /\ Above(t, Two32)
  BY TimestampsAssumption
<1>2. t # Two32 /\ t # Two28
  BY <1>1, NotTheLimits
<1>3. decodeVarint(encodeVarint(1, t)) = Number(1, t)
  BY <1>1, <1>2, RoundTrip
<1>4. t # <<>>
  <2>1. DOMAIN t = 1 .. 8 /\ DOMAIN <<>> = 1 .. 0
    BY <1>1, Bytes
  <2> QED BY <2>1
<1>5. Number(1, t) # OutOfRange
  BY <1>4 DEF Number, OutOfRange
<1> QED BY <1>1, <1>3, <1>5

\* What is left of what is opened.
LEMMA LeftOpened ==
  ASSUME NEW o, o.ok = TRUE
  PROVE  Left(o) = o.plain
  BY Zenon DEF Left

\* Nothing but a ping with its time is made of an answer.
LEMMA AnswerIs ==
  ASSUME IsCipher, MadeOfPacket, wire.path = "answer"
  PROVE  Answer(Len(wire.bytes), Left(Opened(Tail(wire.bytes), ServerNonce)))
           = [by |-> "client", number |-> Number(1, sent.time)]
<1>1. sent.kind = "ping"
  BY DEF MadeOfPacket, Phases, OfVoice
<1>2. PICK t \in Timestamps : t = sent.time /\ packet = PingOf(t)
  BY <1>1, Zenon DEF MadeOfPacket, OfPing
<1>3. PICK p \in Seq(Byte) :
        /\ p = packet /\ Len(p) > 0 /\ p[1] = 32
        /\ Tail(p) = encodeVarint(1, t)
  BY <1>2, TimeIs, PingIs
<1>4. wire.bytes = Encrypted(p, ServerNonce)
  <2>1. wire.bytes = ToClient(mode, packet)
    BY <1>1, Zenon DEF MadeOfPacket, OfPing
  <2> QED BY <1>3, <2>1, InMode, Zenon
<1>5. PICK d : d = wire.bytes
  OBVIOUS
<1>6. PICK o : o = Opened(Tail(d), ServerNonce)
  OBVIOUS
<1>7. Len(d) = Overhead + Len(p) /\ o.plain = p /\ o.ok = TRUE
  BY <1>4, <1>5, <1>6, ModeIs, NoncesAre, OpensEncrypted, Zenon
<1>8. Left(o) = p
  BY <1>7, LeftOpened, Zenon
<1>9. ~(Len(d) <= Overhead)
  <2>1. Overhead \in Nat
    BY DEF Overhead, modeOverhead
  <2> QED BY <1>3, <1>7, <2>1
<1>10. p[1] \div 32 = 1
  BY <1>3
<1>11. /\ decodeVarint(Tail(p)) = Number(1, t)
       /\ decodeVarint(Tail(p)) # OutOfRange
  BY <1>3, TimeIs, Zenon
<1>12. Answer(Len(d), p) = [by |-> "client", number |-> Number(1, t)]
  BY <1>9, <1>10, <1>11, Zenon DEF Answer
<1> QED BY <1>2, <1>5, <1>6, <1>8, <1>12, Zenon

\* Only pingRoutine takes an answer off its way.
LEMMA OnlyReadAnswers ==
  ASSUME MadeOfPacket, wire.path = "answer", Next
  PROVE  ReadAnswer
<1>1. sent.kind = "ping"
  BY DEF MadeOfPacket, Phases, OfVoice
<1>2. sent.kind # "none" /\ sent.kind # "voice"
  BY <1>1, Zenon
<1>3. wire.path # "udp"
  BY Zenon
<1> QED BY <1>2, <1>3, Zenon
        DEF Next, sendAudioPacket, sendPing, Sends, ServerReads, ServerEchoes,
            StrayArrives

\* An answer of the server is recognised, and the time in it is the one that was
\* sent, whatever the time (packagewriter.go:113-131).
THEOREM AnswerTellsTheTimeAlways ==
  ASSUME IsCipher
  PROVE  Spec => AnswerTellsTheTime
<1>1. ASSUME MadeOfPacket, [Next]_vars
      PROVE  [wire.path = "answer" =>
                result' = [by |-> "client", number |-> Number(1, sent.time)]]_vars
  <2>1. ASSUME Next, wire.path = "answer"
        PROVE  result' = [by |-> "client", number |-> Number(1, sent.time)]
    <3>1. ReadAnswer
      BY <1>1, <2>1, OnlyReadAnswers, Zenon
    <3>2. result' = Answer(Len(wire.bytes),
                           Left(Opened(Tail(wire.bytes), ServerNonce)))
      BY <3>1, Zenon DEF ReadAnswer
    <3> QED BY <1>1, <2>1, <3>2, AnswerIs, Zenon
  <2> QED BY <1>1, <2>1, Zenon
<1> QED BY <1>1, MadeAlways, PTL DEF Spec, AnswerTellsTheTime

-----------------------------------------------------------------------------
(* What ends the process.                                                   *)

\* What is recognised depends on nothing but what is left.
LEMMA PlainIs ==
  ASSUME IsCipher, NEW c \in Seq(Byte), NEW nonce \in Blocks, NEW tag
  PROVE  Decrypt(c, nonce, tag).plain = OpenPlain(c, nonce)
  BY DecryptIs

\* Under OCB2 as much is left as the tag is followed by.
LEMMA LeftUnderOcb2 ==
  ASSUME IsCipher, mode = "OCB2-AES128", NEW d \in Seq(Byte), Len(d) > 4
  PROVE  LET p == Left(Opened(Tail(d), ServerNonce))
         IN  p \in Seq(Byte) /\ Len(p) = Len(d) - 4
<1>1. PICK e \in Seq(Byte) : e = Tail(d) /\ Len(e) = Len(d) - 1
  <2>1. d # <<>>
    OBVIOUS
  <2>2. Tail(d) \in Seq(Byte) /\ Len(Tail(d)) = Len(d) - 1
    BY <2>1, HeadTailProperties
  <2> QED BY <2>2, Zenon
<1>2. PICK c \in Seq(Byte) : c = SubSeq(e, 4, Len(e)) /\ Len(c) = Len(d) - 4
  <2>1. PICK k \in Nat : k = Len(e)
    OBVIOUS
  <2>2. 3 \in Nat /\ 3 <= k /\ k <= Len(e)
    BY <1>1, <2>1
  <2>3. SubSeq(e, 3 + 1, k) \in Seq(Byte) /\ Len(SubSeq(e, 3 + 1, k)) = k - 3
    BY <2>2, Slice
  <2>4. SubSeq(e, 4, Len(e)) \in Seq(Byte) /\ Len(SubSeq(e, 4, Len(e))) = Len(d) - 4
    BY <1>1, <2>1, <2>3
  <2> QED BY <2>4, Zenon
<1>4. PICK nonce \in Blocks : nonce = ServerNonce
  BY NoncesAre DEF IsNonce
<1>5. PICK tag : tag = SubSeq(e, 1, 3)
  OBVIOUS
<1>6. Opened(e, ServerNonce) = Decrypt(c, nonce, tag)
  BY <1>2, <1>4, <1>5, Zenon DEF Opened
<1>7. Decrypt(c, nonce, tag).plain = OpenPlain(c, nonce)
  BY PlainIs, Zenon
<1>8. OpenPlain(c, nonce) \in Seq(Byte) /\ Len(OpenPlain(c, nonce)) = Len(c)
  BY DecryptBytes
<1>9. Left(Opened(e, ServerNonce)) = OpenPlain(c, nonce)
  BY <1>6, <1>7, Zenon DEF Left
<1> QED BY <1>1, <1>2, <1>8, <1>9

\* Otherwise nothing but zeros are left of what is refused.
LEMMA LeftRefused ==
  ASSUME mode # "OCB2-AES128", NEW d \in Seq(Byte), Len(d) > 17,
         ~Open(Tail(d), ServerNonce).ok
  PROVE  Left(Opened(Tail(d), ServerNonce))[1] = 0
<1>1. PICK e \in Seq(Byte) : e = Tail(d) /\ Len(e) = Len(d) - 1
  <2>1. d # <<>>
    OBVIOUS
  <2>2. Tail(d) \in Seq(Byte) /\ Len(Tail(d)) = Len(d) - 1
    BY <2>1, HeadTailProperties
  <2> QED BY <2>2, Zenon
<1>2. PICK o : o = Open(e, ServerNonce)
  OBVIOUS
<1>3. o.plain = SubSeq(e, 17, Len(e))
  BY <1>2, Zenon DEF Open
<1>4. Len(o.plain) \in Nat /\ Len(o.plain) > 0
  <2>1. PICK k \in Nat : k = Len(e)
    OBVIOUS
  <2>2. 16 \in Nat /\ 16 <= k /\ k <= Len(e)
    BY <1>1, <2>1
  <2>3. Len(SubSeq(e, 16 + 1, k)) = k - 16
    BY <2>2, Slice
  <2> QED BY <1>1, <1>3, <2>1, <2>3
<1>5. Opened(e, ServerNonce) = o
  BY <1>2, Zenon DEF Opened
<1>6. Left(o) = [i \in 1 .. Len(o.plain) |-> 0]
  BY <1>1, <1>2, Zenon DEF Left
<1>7. 1 \in 1 .. Len(o.plain)
  BY <1>4
<1> QED BY <1>1, <1>5, <1>6, <1>7, Zenon

\* Of what is long enough no panic is made.
LEMMA NoPanic ==
  ASSUME NEW n, NEW plain, ~(n <= Overhead),
         plain[1] \div 32 # 1 \/ decodeVarint(Tail(plain)) # OutOfRange
  PROVE  Answer(n, plain).by # "panic"
<1>1. \/ Answer(n, plain) = [by |-> "ignored"]
      \/ Answer(n, plain) = [by |-> "client", number |-> decodeVarint(Tail(plain))]
  BY Zenon DEF Answer
<1> QED BY <1>1

\* What ends the process is too short, or cut off under OCB2.
LEMMA ReadPanics ==
  ASSUME IsCipher, MadeOfPacket, ReadAnswer, result'.by = "panic"
  PROVE  Len(wire.bytes) <= Overhead + IF mode = "OCB2-AES128" THEN 10 ELSE 0
<1>1. result' = Answer(Len(wire.bytes),
                       Left(Opened(Tail(wire.bytes), ServerNonce)))
  BY Zenon DEF ReadAnswer
<1>2. wire.path = "answer" \/ wire.path = "stray"
  BY Zenon DEF ReadAnswer
<1>3. wire.path # "answer"
  <2>1. ASSUME wire.path = "answer" PROVE FALSE
    <3>1. result' = [by |-> "client", number |-> Number(1, sent.time)]
      BY <1>1, <2>1, AnswerIs, Zenon
    <3>2. result'.by = "client"
      BY <3>1, Zenon
    <3> QED BY <3>2, Zenon
  <2> QED BY <2>1, Zenon
<1>4. wire.path = "stray" /\ sent.kind = "ping"
  BY <1>2, <1>3 DEF MadeOfPacket, Phases, OfVoice
<1>5. PICK d \in Seq(Byte) :
        /\ d = wire.bytes
        /\ mode # "OCB2-AES128" /\ Len(d) > Overhead =>
             ~Open(Tail(d), ServerNonce).ok
  <2>1. /\ wire.bytes \in Strays
        /\ mode # "OCB2-AES128" /\ Len(wire.bytes) > OverheadIn(mode) =>
             ~Open(Tail(wire.bytes), ServerIn(mode)).ok
    BY <1>4, Zenon DEF MadeOfPacket, OfPing
  <2>2. wire.bytes \in Seq(Byte)
    BY <2>1, StraysAssumption
  <2> QED BY <2>1, <2>2, InMode, Zenon
<1>6. PICK p : p = Left(Opened(Tail(d), ServerNonce))
  OBVIOUS
<1>7. Answer(Len(d), p).by = "panic"
  BY <1>1, <1>5, <1>6, Zenon
<1>8. CASE mode = "OCB2-AES128"
  <2>1. Overhead = 4
    BY <1>8 DEF Overhead, modeOverhead
  <2>2. ASSUME Len(d) > 14 PROVE FALSE
    <3>1. Len(d) > 4 /\ ~(Len(d) <= Overhead)
      BY <2>1, <2>2
    <3>2. p \in Seq(Byte) /\ Len(p) = Len(d) - 4
      BY <1>6, <1>8, <3>1, LeftUnderOcb2
    <3>3. PICK t \in Seq(Byte) : t = Tail(p) /\ Len(t) >= 10
      <4>1. p # <<>>
        BY <2>2, <3>2
      <4>2. Tail(p) \in Seq(Byte) /\ Len(Tail(p)) = Len(p) - 1
        BY <3>2, <4>1, HeadTailProperties
      <4>3. Len(Tail(p)) >= 10
        BY <2>2, <3>2, <4>2
      <4> QED BY <4>2, <4>3, Zenon
    <3>4. decodeVarint(t) # OutOfRange
      BY <3>3, TenSuffice
    <3> QED BY <1>7, <3>1, <3>3, <3>4, NoPanic, Zenon
  <2>3. Len(d) <= 14
    BY <2>2
  <2>4. Overhead + (IF mode = "OCB2-AES128" THEN 10 ELSE 0) = 14
    BY <1>8, <2>1
  <2> QED BY <1>5, <2>3, <2>4
<1>9. CASE mode # "OCB2-AES128"
  <2>1. Overhead = 17
    BY <1>9 DEF Overhead, modeOverhead
  <2>2. ASSUME Len(d) > 17 PROVE FALSE
    <3>1. ~Open(Tail(d), ServerNonce).ok
      BY <1>5, <1>9, <2>1, <2>2
    <3>2. p[1] = 0
      BY <1>6, <1>9, <2>2, <3>1, LeftRefused
    <3>3. p[1] \div 32 # 1
      BY <3>2
    <3>4. ~(Len(d) <= Overhead)
      BY <2>1, <2>2
    <3> QED BY <1>7, <3>3, <3>4, NoPanic, Zenon
  <2>3. Len(d) <= 17
    BY <2>2
  <2>4. Overhead + (IF mode = "OCB2-AES128" THEN 10 ELSE 0) = 17
    BY <1>9, <2>1
  <2> QED BY <1>5, <2>3, <2>4
<1> QED BY <1>8, <1>9

\* Only pingRoutine ends the process.
LEMMA OnlyReadPanics ==
  ASSUME MadeOfPacket, Next, result'.by = "panic"
  PROVE  ReadAnswer
<1>1. CASE sendAudioPacket \/ sendPing
  <2>1. sent.kind = "none" /\ result' = result
    BY <1>1, Zenon DEF sendAudioPacket, sendPing, Sends
  <2>2. result.by = "none"
    BY <2>1, Zenon DEF MadeOfPacket, Phases
  <2> QED BY <2>1, <2>2
<1>2. CASE ServerEchoes \/ StrayArrives
  <2>1. wire.path = "udp" /\ result' = result
    BY <1>2, Zenon DEF ServerEchoes, StrayArrives
  <2>2. wire.path # "none"
    BY <2>1, Zenon
  <2>3. result.by = "none"
    BY <2>2, Zenon DEF MadeOfPacket, Phases
  <2> QED BY <2>1, <2>3
<1>3. CASE ServerReads
  <2>1. PICK r, s : /\ r = [by |-> "server", packet |-> Read(Unwrapped.plain)]
                    /\ s = [by |-> "refused"]
                    /\ result' = r \/ result' = s
    BY <1>3, Zenon DEF ServerReads
  <2>3. r.by = "server" /\ s.by = "refused"
    BY <2>1, Zenon
  <2>2. result'.by = "server" \/ result'.by = "refused"
    BY <2>1, <2>3, Zenon
  <2> QED BY <2>2
<1> QED BY <1>1, <1>2, <1>3, Zenon DEF Next

\* A datagram ends the process only if it is no longer than the overhead, or under
\* OCB2 than that and a ping with a cut-off time (packagewriter.go:113-131).
THEOREM OnlyShortPanicsAlways ==
  ASSUME IsCipher
  PROVE  Spec => OnlyShortPanics
<1>1. ASSUME MadeOfPacket, [Next]_vars
      PROVE  [result'.by = "panic" =>
                Len(wire.bytes)
                  <= Overhead + IF mode = "OCB2-AES128" THEN 10 ELSE 0]_vars
  <2>1. ASSUME Next, result'.by = "panic"
        PROVE  Len(wire.bytes)
                 <= Overhead + IF mode = "OCB2-AES128" THEN 10 ELSE 0
    BY <1>1, <2>1, OnlyReadPanics, ReadPanics, Zenon
  <2> QED BY <1>1, <2>1, Zenon
<1> QED BY <1>1, MadeAlways, PTL DEF Spec, OnlyShortPanics

-----------------------------------------------------------------------------
(* What the server reads.                                                   *)

\* A number is read, and taken off, whatever follows it.
LEMMA NumberRead ==
  ASSUME NEW d \in Positive, d # Two28, d # Two32, NEW z \in Seq(Byte)
  PROVE  LET s == encodeVarint(1, d) \o z
         IN  /\ s \in Seq(Byte) /\ s # <<>>
             /\ decodeVarint(s) = Number(1, d)
             /\ SubSeq(s, SizeOf(s[1]) + 1, Len(s)) = z
<1>1. PICK x \in Seq(Byte) : x = encodeVarint(1, d)
  BY EncodedBytes, Zenon
<1>2. /\ Len(x) \in 1 .. 9 /\ x[1] \in 0 .. 240 \cup {244}
      /\ Len(x) = SizeOf(x[1])
  BY <1>1, EncodedIs
<1>3. Len(x) >= 1
  <2>1. PICK k \in 1 .. 9 : k = Len(x)
    BY <1>2, Zenon
  <2> QED BY <2>1
<1>4. PICK s : s = x \o z
  OBVIOUS
<1>5. /\ s \in Seq(Byte) /\ Len(s) = Len(x) + Len(z)
      /\ SubSeq(s, Len(x) + 1, Len(s)) = z
  <2>1. /\ x \o z \in Seq(Byte) /\ Len(x \o z) = Len(x) + Len(z)
        /\ SubSeq(x \o z, Len(x) + 1, Len(x \o z)) = z
    BY Apart
  <2> QED BY <1>4, <2>1
<1>6. \A i \in 1 .. Len(x) : s[i] = x[i]
  <2>1. \A i \in 1 .. Len(x) + Len(z) :
          (x \o z)[i] = IF i <= Len(x) THEN x[i] ELSE z[i - Len(x)]
    BY ConcatProperties
  <2> QED BY <1>3, <1>4, <2>1
<1>7. s[1] = x[1] /\ Len(x) <= Len(s) /\ s # <<>>
  BY <1>3, <1>5, <1>6
<1>8. decodeVarint(s) = decodeVarint(x)
  <2>1. x[1] \in Firsts
    BY <1>2 DEF Firsts
  <2> QED BY <1>2, <1>3, <1>5, <1>6, <1>7, <2>1, DecodePrefix
<1>9. decodeVarint(x) = Number(1, d)
  BY <1>1, RoundTrip
<1>10. SubSeq(s, SizeOf(s[1]) + 1, Len(s)) = z
  BY <1>2, <1>5, <1>7
<1> QED BY <1>1, <1>4, <1>5, <1>7, <1>8, <1>9, <1>10, Zenon

\* The header is never read as another.
LEMMA HeaderNumber ==
  ASSUME NEW l \in Lengths, NEW h \in {l, WithLast(l)}
  PROVE  /\ Magnitude(h) # Two28
         /\ (Magnitude(h)[7] % 32) * 256 + Magnitude(h)[8] = l
         /\ h = l => (Magnitude(h)[7] \div 32) % 2 = 0
         /\ h = WithLast(l) => (Magnitude(h)[7] \div 32) % 2 = 1
<1>1. h = l \/ h = l + 8192
  BY SMT DEF WithLast
<1>2. l \in Nat /\ l <= 8191
  BY ShortFrame
<1>3. h \in Nat /\ h <= 16383
  BY <1>1, <1>2, SMT
<1>4. h \div 16777216 = 0 /\ (h \div 65536) % 256 = 0 /\ (h \div 256) % 256 = h \div 256
  BY <1>3, SMT
<1>5. Magnitude(h) = <<0, 0, 0, 0, h \div 16777216, (h \div 65536) % 256,
                       (h \div 256) % 256, h % 256>>
  BY SMT DEF Magnitude
<1>6. Magnitude(h)[5] = 0 /\ Magnitude(h)[7] = h \div 256 /\ Magnitude(h)[8] = h % 256
  BY <1>4, <1>5, SMT
<1>7. Two28[5] = 16
  BY DEF Two28
<1>8. ((h \div 256) % 32) * 256 + (h % 256) = l
  BY <1>1, <1>2, SMT
<1>9. h = l => ((h \div 256) \div 32) % 2 = 0
  BY <1>2, SMT
<1>10. h = l + 8192 => ((h \div 256) \div 32) % 2 = 1
  BY <1>2, SMT
<1> QED BY <1>6, <1>7, <1>8, <1>9, <1>10, SMT DEF WithLast

\* Number, header and frame are found one behind the other.
LEMMA ReadParts ==
  ASSUME NEW p, NEW n, NEW l, NEW h, IsVoice(p, n, l, h), Magnitude(n) # Two28
  PROVE  LET rest  == Tail(p)
             after == SubSeq(rest, SizeOf(rest[1]) + 1, Len(rest))
         IN  /\ p[1] = 128
             /\ decodeVarint(rest) = Number(1, Magnitude(n))
             /\ after # <<>>
             /\ decodeVarint(after) = Number(1, Magnitude(h))
             /\ SubSeq(after, SizeOf(after[1]) + 1, Len(after)) = Payload(l)
<1>1. PICK a \in Positive, b \in Positive, f \in Seq(Byte) :
        /\ a = Magnitude(n) /\ a # Two32 /\ b = Magnitude(h) /\ b # Two32
        /\ f = Payload(l) /\ Len(f) \in Lengths
        /\ p = Parts(encodeVarint(1, a), encodeVarint(1, b), f)
  BY VoiceParts
<1>2. a # Two28 /\ b # Two28
  <2>1. l \in Lengths /\ h \in {l, WithLast(l)}
    BY Zenon DEF IsVoice
  <2> QED BY <1>1, <2>1, HeaderNumber, SMT
<1>3. PICK x \in Seq(Byte) : x = encodeVarint(1, a)
  BY EncodedBytes, Zenon
<1>4. PICK y \in Seq(Byte) : y = encodeVarint(1, b)
  BY EncodedBytes, Zenon
<1>5. PICK after \in Seq(Byte) :
        /\ after = y \o f /\ after # <<>> /\ decodeVarint(after) = Number(1, b)
        /\ SubSeq(after, SizeOf(after[1]) + 1, Len(after)) = f
  <2>1. LET s == encodeVarint(1, b) \o f
        IN  /\ s \in Seq(Byte) /\ s # <<>>
            /\ decodeVarint(s) = Number(1, b)
            /\ SubSeq(s, SizeOf(s[1]) + 1, Len(s)) = f
    BY <1>1, <1>2, NumberRead, Zenon
  <2> QED BY <1>4, <2>1, Zenon
<1>6. PICK rest \in Seq(Byte) :
        /\ rest = x \o after /\ decodeVarint(rest) = Number(1, a)
        /\ SubSeq(rest, SizeOf(rest[1]) + 1, Len(rest)) = after
  <2>1. LET s == encodeVarint(1, a) \o after
        IN  /\ s \in Seq(Byte) /\ s # <<>>
            /\ decodeVarint(s) = Number(1, a)
            /\ SubSeq(s, SizeOf(s[1]) + 1, Len(s)) = after
    BY <1>1, <1>2, NumberRead, Zenon
  <2> QED BY <1>3, <2>1, Zenon
<1>7. Tail(p) = rest /\ p[1] = 128
  <2>1. 128 \in Byte
    BY DEF Byte
  <2>2. (<<128>> \o x \o y) \o f = <<128>> \o (x \o (y \o f))
    BY <2>1, SMTT(30)
  <2>3. p = <<128>> \o rest
    BY <1>1, <1>3, <1>4, <1>5, <1>6, <2>2, Zenon DEF Parts
  <2> QED BY <2>1, <2>3, BehindFirst
<1> QED BY <1>1, <1>5, <1>6, <1>7, Zenon

\* A packet as the server would have it.
AsSent(n, last, l) ==
  [type |-> OPUS, target |-> 0, number |-> Magnitude(n), last |-> last,
   length |-> l, frame |-> Payload(l)]

\* A number, the length and the last bit in a header.
LEMMA MagnitudeOf ==
  ASSUME NEW signed, NEW d
  PROVE  Number(signed, d).magnitude = d
  BY DEF Number

LengthOf(m) == (m[7] % 32) * 256 + m[8]

LastOf(m) == (m[7] \div 32) % 2

HeaderTells(l, h) ==
  /\ LengthOf(Magnitude(h)) = l
  /\ h = l => LastOf(Magnitude(h)) = 0
  /\ h = WithLast(l) => LastOf(Magnitude(h)) = 1

\* The header of a packet tells its length, and whether it is the last one.
LEMMA HeaderOfVoice ==
  ASSUME NEW p, NEW n, NEW l, NEW h, IsVoice(p, n, l, h)
  PROVE  HeaderTells(l, h)
<1>1. PICK l1 \in Lengths : l1 = l
  BY Zenon DEF IsVoice
<1>2. PICK h1 \in {l1, WithLast(l1)} : h1 = h
  BY <1>1, Zenon DEF IsVoice
<1>3. /\ Magnitude(h1) # Two28
      /\ (Magnitude(h1)[7] % 32) * 256 + Magnitude(h1)[8] = l1
      /\ h1 = l1 => (Magnitude(h1)[7] \div 32) % 2 = 0
      /\ h1 = WithLast(l1) => (Magnitude(h1)[7] \div 32) % 2 = 1
  BY HeaderNumber
<1>4. /\ LengthOf(Magnitude(h1)) = l1
      /\ h1 = l1 => LastOf(Magnitude(h1)) = 0
      /\ h1 = WithLast(l1) => LastOf(Magnitude(h1)) = 1
  BY <1>3 DEF LengthOf, LastOf
<1>5. HeaderTells(l1, h1)
  BY <1>4, Zenon DEF HeaderTells
<1> QED BY <1>1, <1>2, <1>5, Zenon

\* But for number 2^28 a packet is read as it was sent.
LEMMA ReadIs ==
  ASSUME NEW p, NEW n, NEW l, NEW h, IsVoice(p, n, l, h), Magnitude(n) # Two28,
         NEW last, last = TRUE \/ last = FALSE,
         last = TRUE => h = WithLast(l), last = FALSE => h = l
  PROVE  Read(p) = AsSent(n, last, l)
<1>1. PICK rest : rest = Tail(p)
  OBVIOUS
<1>2. PICK after : after = SubSeq(rest, SizeOf(rest[1]) + 1, Len(rest))
  OBVIOUS
<1>3. /\ p[1] = 128
      /\ decodeVarint(rest) = Number(1, Magnitude(n))
      /\ after # <<>>
      /\ decodeVarint(after) = Number(1, Magnitude(h))
      /\ SubSeq(after, SizeOf(after[1]) + 1, Len(after)) = Payload(l)
  <2>1. LET t == Tail(p)
            a == SubSeq(t, SizeOf(t[1]) + 1, Len(t))
        IN  /\ p[1] = 128
            /\ decodeVarint(t) = Number(1, Magnitude(n))
            /\ a # <<>>
            /\ decodeVarint(a) = Number(1, Magnitude(h))
            /\ SubSeq(a, SizeOf(a[1]) + 1, Len(a)) = Payload(l)
    BY ReadParts, Zenon
  <2> QED BY <1>1, <1>2, <2>1, Zenon
<1>5. /\ decodeVarint(rest).magnitude = Magnitude(n)
      /\ decodeVarint(after).magnitude = Magnitude(h)
  <2>1. /\ Number(1, Magnitude(n)).magnitude = Magnitude(n)
        /\ Number(1, Magnitude(h)).magnitude = Magnitude(h)
    BY MagnitudeOf, Zenon
  <2>2. decodeVarint(rest).magnitude = Number(1, Magnitude(n)).magnitude
    BY <1>3, Zenon
  <2>3. decodeVarint(after).magnitude = Number(1, Magnitude(h)).magnitude
    BY <1>3, Zenon
  <2> QED BY <2>1, <2>2, <2>3, Zenon
<1>6. Read(p) = [type |-> p[1] \div 32, target |-> p[1] % 32,
                 number |-> Magnitude(n),
                 last |-> LastOf(Magnitude(h)) = 1,
                 length |-> LengthOf(Magnitude(h)),
                 frame |-> Payload(l)]
  BY <1>1, <1>2, <1>3, <1>5, Zenon DEF Read, LengthOf, LastOf
<1>7. p[1] \div 32 = OPUS /\ p[1] % 32 = 0
  <2>1. 128 \div 32 = 4 /\ 128 % 32 = 0
    BY SMT
  <2> QED BY <1>3, <2>1, Zenon DEF OPUS
<1>8. /\ LengthOf(Magnitude(h)) = l
      /\ h = l => LastOf(Magnitude(h)) = 0
      /\ h = WithLast(l) => LastOf(Magnitude(h)) = 1
  <2>1. HeaderTells(l, h)
    BY HeaderOfVoice, Zenon
  <2> QED BY <2>1, Zenon DEF HeaderTells
<1>9. PICK ok : ok = (LastOf(Magnitude(h)) = 1)
  OBVIOUS
<1>10. ok = last
  <2>1. CASE last = TRUE
    <3>1. LastOf(Magnitude(h)) = 1
      BY <1>8, <2>1, Zenon
    <3> QED BY <1>9, <2>1, <3>1, Zenon
  <2>2. CASE last = FALSE
    <3>1. LastOf(Magnitude(h)) = 0
      BY <1>8, <2>2, Zenon
    <3>2. ~(LastOf(Magnitude(h)) = 1)
      <4>1. 0 # 1
        BY SMT
      <4> QED BY <3>1, <4>1, Zenon
    <3> QED BY <1>9, <2>2, <3>2, Zenon
  <2> QED BY <2>1, <2>2, Zenon
<1> QED BY <1>6, <1>7, <1>8, <1>9, <1>10, Zenon DEF AsSent

\* Bytes are numbers.
LEMMA BytesAreNumbers ==
  ASSUME NEW x \in Seq(Byte)
  PROVE  x \in Seq(Nat)
<1>1. \A i \in 1 .. Len(x) : x[i] \in Byte
  OBVIOUS
<1>2. Byte \subseteq Nat
  BY DEF Byte
<1>3. \A i \in 1 .. Len(x) : x[i] \in Nat
  BY <1>1, <1>2
<1> QED BY <1>3

\* Number 2^28 is read as another, whose second byte is not the right one.
LEMMA ReadTwo28 ==
  ASSUME NEW p, NEW n, NEW l, NEW h, IsVoice(p, n, l, h), Magnitude(n) = Two28,
         NEW last
  PROVE  Read(p) # AsSent(n, last, l)
<1>1. PICK a \in Positive, b \in Positive, f \in Seq(Byte) :
        /\ a = Magnitude(n) /\ a # Two32 /\ b = Magnitude(h) /\ b # Two32
        /\ f = Payload(l) /\ Len(f) \in Lengths
        /\ p = Parts(encodeVarint(1, a), encodeVarint(1, b), f)
  BY VoiceParts
<1>2. PICK y \in Seq(Byte) : y = encodeVarint(1, b) /\ Len(y) >= 1
  <2>1. encodeVarint(1, b) \in Seq(Byte) /\ Len(encodeVarint(1, b)) \in 1 .. 9
    BY EncodedIs
  <2>2. PICK k \in 1 .. 9 : k = Len(encodeVarint(1, b))
    BY <2>1, Zenon
  <2>4. k >= 1
    OBVIOUS
  <2>3. Len(encodeVarint(1, b)) >= 1
    BY <2>2, <2>4, Zenon
  <2> QED BY <2>1, <2>3, Zenon
<1>3. encodeVarint(1, Two28) = <<240, 0, 0, 0>>
  <2>1. /\ Two28[5] = 16 /\ Two28[6] = 0 /\ Two28[7] = 0 /\ Two28[8] = 0
    BY DEF Two28
  <2>2. encodePositive(Two28)
          = <<224 + (Two28[5] % 32), Two28[6], Two28[7], Two28[8]>>
    BY NotTheLimits DEF encodePositive
  <2>3. 224 + (Two28[5] % 32) = 240
    BY <2>1
  <2> QED BY <2>1, <2>2, <2>3, Zenon DEF encodeVarint
<1>4. PICK x \in Seq(Byte) :
        x = encodeVarint(1, a) /\ x = <<240, 0, 0, 0>>
  <2>1. <<240, 0, 0, 0>> \in Seq(Byte)
    BY DEF Byte
  <2> QED BY <1>1, <1>3, <2>1, Zenon
<1>5. Len(x) = 4 /\ x[1] = 240 /\ x[2] = 0
  BY <1>4
<1>6. PICK rest \in Seq(Byte) : rest = x \o (y \o f)
  <2>1. PICK z \in Seq(Byte) : z = y \o f
    <3>1. y \o f \in Seq(Byte)
      BY ConcatProperties
    <3> QED BY <3>1, Zenon
  <2>2. x \o z \in Seq(Byte)
    BY ConcatProperties
  <2> QED BY <2>1, <2>2, Zenon
<1>7. Len(rest) >= 5 /\ rest[1] = 240 /\ rest[2] = 0
  <2>1. PICK z \in Seq(Byte) : z = y \o f /\ Len(z) >= 1
    <3>1. y \o f \in Seq(Byte) /\ Len(y \o f) = Len(y) + Len(f)
      BY ConcatProperties
    <3>2. Len(y \o f) >= 1
      BY <1>2, <3>1
    <3> QED BY <3>1, <3>2, Zenon
  <2>2. /\ Len(x \o z) = Len(x) + Len(z)
        /\ \A i \in 1 .. Len(x) + Len(z) :
             (x \o z)[i] = IF i <= Len(x) THEN x[i] ELSE z[i - Len(x)]
    BY ConcatProperties
  <2> QED BY <1>5, <1>6, <2>1, <2>2
<1>8. Tail(p) = rest
  <2>1. 128 \in Byte
    BY DEF Byte
  <2>2. (<<128>> \o x \o y) \o f = <<128>> \o (x \o (y \o f))
    BY <2>1, SMTT(30)
  <2>3. p = <<128>> \o rest
    BY <1>1, <1>2, <1>4, <1>6, <2>2, Zenon DEF Parts
  <2> QED BY <2>1, <2>3, BehindFirst
<1>9. decodeVarint(rest).magnitude # Two28
  <2>1. rest \in Seq(Nat) /\ Len(rest) > 0
    <3>1. rest \in Seq(Nat)
      BY BytesAreNumbers, Zenon
    <3> QED BY <1>7, <3>1
  <2>2. decodeVarint(rest) = Form(rest, 4, 0, 1)
    BY <1>7, <2>1, ByFirst
  <2>3. PICK m : m = [i \in 1 .. 8 |-> IF i > 8 - 4 THEN rest[i - 7 + 4]
                                       ELSE IF i = 8 - 4 THEN 0 ELSE 0]
    OBVIOUS
  <2>4. ~(Len(rest) < 4 + 1)
    BY <1>7
  <2>5. decodeVarint(rest) = Number(1, m)
    BY <2>2, <2>3, <2>4, Zenon DEF Form
  <2>6. decodeVarint(rest).magnitude = m
    BY <2>5, MagnitudeOf, Zenon
  <2>7. m[5] = 0
    BY <1>7, <2>3
  <2>8. Two28[5] = 16
    BY DEF Two28
  <2> QED BY <2>6, <2>7, <2>8
<1>10. PICK after : after = SubSeq(rest, SizeOf(rest[1]) + 1, Len(rest))
  OBVIOUS
<1>11. CASE after = <<>>
  <2>1. Read(p) = [type |-> "none"]
    BY <1>8, <1>10, <1>11, Zenon DEF Read
  <2>2. "number" \notin DOMAIN [type |-> "none"]
    OBVIOUS
  <2>3. "number" \in DOMAIN AsSent(n, last, l)
    BY Zenon DEF AsSent
  <2> QED BY <2>1, <2>2, <2>3, Zenon
<1>12. CASE after # <<>>
  <2>1. Read(p).number = decodeVarint(rest).magnitude
    BY <1>8, <1>10, <1>12, Zenon DEF Read
  <2>2. AsSent(n, last, l).number = Two28
    BY Zenon DEF AsSent
  <2> QED BY <1>9, <2>1, <2>2, Zenon
<1> QED BY <1>11, <1>12, Zenon

\* The server never refuses voice, and reads what was sent.
LEMMA VoiceReads ==
  ASSUME MadeOfPacket
  PROVE  ServerReadsVoice
<1>1. result.by # "refused"
  BY Zenon DEF MadeOfPacket, Phases, OfVoice, OfPing
<1>2. ASSUME result.by = "server"
      PROVE  /\ sequenceNumber = nextSequenceNumber(sent.number)
             /\ result.packet = AsSent(sent.number, sent.last, sent.length)
                <=> Magnitude(sent.number) # Two28
  <2>1. sent.kind = "voice"
    <3>1. sent.kind \in {"none", "voice", "ping"}
      BY Zenon DEF MadeOfPacket, Phases
    <3>2. sent.kind # "none"
      BY <1>2, Zenon DEF MadeOfPacket, Phases
    <3>3. sent.kind # "ping"
      BY <1>2, Zenon DEF MadeOfPacket, OfPing
    <3> QED BY <3>1, <3>2, <3>3, Zenon
  <2>2. /\ sent.number \in SequenceNumbers /\ sent.length \in PayloadLengths
        /\ sent.last \in BOOLEAN /\ packet = VoiceOf(sent)
        /\ sequenceNumber = nextSequenceNumber(sent.number)
        /\ result.packet = Read(packet)
    BY <1>2, <2>1, Zenon DEF MadeOfPacket, OfVoice
  <2>3. PICK h : /\ IsVoice(packet, sent.number, sent.length, h)
                 /\ sent.last = TRUE => h = WithLast(sent.length)
                 /\ sent.last = FALSE => h = sent.length
    BY <2>2, VoiceIs, Zenon
  <2>4. CASE Magnitude(sent.number) # Two28
    <3>0. PICK last \in BOOLEAN : last = sent.last
      BY <2>2, Zenon
    <3>1. PICK p, n, l :
            p = packet /\ n = sent.number /\ l = sent.length /\ last = sent.last
      BY <3>0, Zenon
    <3>2. /\ IsVoice(p, n, l, h) /\ Magnitude(n) # Two28
          /\ last = TRUE => h = WithLast(l)
          /\ last = FALSE => h = l
      BY <2>3, <2>4, <3>1, Zenon
    <3>5. last = TRUE \/ last = FALSE
      BY <3>0, Zenon
    <3>3. Read(p) = AsSent(n, last, l)
      BY <3>2, <3>5, ReadIs, Zenon
    <3>4. Read(packet) = AsSent(sent.number, sent.last, sent.length)
      BY <3>1, <3>3, Zenon
    <3> QED BY <2>2, <2>4, <3>4, Zenon
  <2>5. CASE Magnitude(sent.number) = Two28
    <3>1. Read(packet) # AsSent(sent.number, sent.last, sent.length)
      BY <2>3, <2>5, ReadTwo28, Zenon
    <3> QED BY <2>2, <2>5, <3>1, Zenon
  <2> QED BY <2>4, <2>5, Zenon
<1> QED BY <1>1, <1>2, Zenon DEF ServerReadsVoice, AsSent

\* The server never refuses a packet of voice, by UDP or through the tunnel, and
\* reads every one as it was sent, but number 2^28 (audiopackagewriter.go:23-78).
THEOREM ServerReadsVoiceAlways ==
  ASSUME IsCipher
  PROVE  Spec => []ServerReadsVoice
<1>1. MadeOfPacket => ServerReadsVoice
  BY VoiceReads
<1> QED BY <1>1, MadeAlways, PTL

-----------------------------------------------------------------------------
(* What is written is OCB2.                                                 *)

\* The value of each bit of a byte.
LEMMA PlacesAre ==
  /\ Places[1] = 128 /\ Places[2] = 64 /\ Places[3] = 32 /\ Places[4] = 16
  /\ Places[5] = 8 /\ Places[6] = 4 /\ Places[7] = 2 /\ Places[8] = 1
BY DEF Places

\* Bit q of a byte, the first one first.
Bit(x, q) == (x \div Places[q]) % 2

\* A bit of a block is a bit of one of its bytes.
LEMMA BitPlace ==
  ASSUME NEW block, NEW j \in 1 .. 16, NEW q \in 1 .. 8, NEW k \in Nat,
         k = 8 * (j - 1) + q
  PROVE  BitOf(block, k) = Bit(block[j], q)
<1>1. (((k - 1) \div 8) + 1) = j /\ ((k - 1) % 8) + 1 = q
  OBVIOUS
<1> QED BY <1>1, Zenon DEF BitOf, Bit

\* Bit q has the value that the bits of the byte give it.
LEMMA BitsOf ==
  ASSUME NEW f \in EightBits
  PROVE  \A q \in 1 .. 8 : Bit(ByteOf(f), q) = f[8 - q]
<1>1. PICK a : a = ByteOf(f)
  OBVIOUS
<1>2. Halves(a, f)
  BY <1>1, BitsAbove, Zenon
<1>3. \A k \in 0 .. 7 : f[k] \in 0 .. 1
  BY DEF EightBits, Bits
<1>4. ASSUME NEW k \in 0 .. 7, NEW p \in Nat, Ends(a, p, f, k)
      PROVE  (a \div p) % 2 = f[k]
  <2>1. PICK m \in Nat : a \div p = f[k] + 2 * m
    BY <1>4 DEF Ends
  <2>2. PICK x \in 0 .. 1 : x = f[k]
    BY <1>3
  <2>3. (x + 2 * m) % 2 = x
    OBVIOUS
  <2> QED BY <2>1, <2>2, <2>3
<1>5. /\ (a \div 1) % 2 = f[0] /\ (a \div 2) % 2 = f[1]
      /\ (a \div 4) % 2 = f[2] /\ (a \div 8) % 2 = f[3]
      /\ (a \div 16) % 2 = f[4] /\ (a \div 32) % 2 = f[5]
      /\ (a \div 64) % 2 = f[6] /\ (a \div 128) % 2 = f[7]
  BY <1>2, <1>4 DEF Halves
<1>6. /\ Bit(a, 1) = f[7] /\ Bit(a, 2) = f[6] /\ Bit(a, 3) = f[5]
      /\ Bit(a, 4) = f[4] /\ Bit(a, 5) = f[3] /\ Bit(a, 6) = f[2]
      /\ Bit(a, 7) = f[1] /\ Bit(a, 8) = f[0]
  BY <1>5, PlacesAre, Zenon DEF Bit
<1>7. \A q \in 1 .. 8 : Bit(a, q) = f[8 - q]
  <2> TAKE q \in 1 .. 8
  <2>1. \/ q = 1 \/ q = 2 \/ q = 3 \/ q = 4 \/ q = 5 \/ q = 6 \/ q = 7 \/ q = 8
    OBVIOUS
  <2> QED BY <1>6, <2>1
<1> QED BY <1>1, <1>7

\* A bit is 0 or 1.
LEMMA BitIs ==
  ASSUME NEW a \in Byte, NEW q \in 1 .. 8
  PROVE  Bit(a, q) \in 0 .. 1
<1>1. PICK f \in EightBits : a = ByteOf(f)
  BY ByteOfSome
<1>2. f[8 - q] \in 0 .. 1
  BY DEF EightBits, Bits
<1> QED BY <1>1, <1>2, BitsOf

\* An exclusive or adds bit by bit.
LEMMA BitOfXor ==
  ASSUME NEW a \in Byte, NEW b \in Byte, NEW q \in 1 .. 8
  PROVE  Bit(a ^^ b, q) = (Bit(a, q) + Bit(b, q)) % 2
<1>1. PICK f \in EightBits : a = ByteOf(f)
  BY ByteOfSome
<1>2. PICK g \in EightBits : b = ByteOf(g)
  BY ByteOfSome
<1>3. PICK h \in EightBits : h = Sum8(f, g)
  BY SumIs
<1>4. a ^^ b = ByteOf(h)
  BY <1>1, <1>2, <1>3, SumIs
<1>5. /\ Bit(a, q) = f[8 - q] /\ Bit(b, q) = g[8 - q]
      /\ Bit(a ^^ b, q) = h[8 - q]
  BY <1>1, <1>2, <1>4, BitsOf
<1>6. PICK x \in 0 .. 1, y \in 0 .. 1 : x = f[8 - q] /\ y = g[8 - q]
  BY DEF EightBits, Bits
<1>7. h[8 - q] = Sum2(x, y)
  BY <1>3, <1>6 DEF Sum8
<1>8. Sum2(x, y) = (x + y) % 2
  BY DEF Sum2
<1> QED BY <1>5, <1>6, <1>7, <1>8

\* A byte that takes the first bit of the next one.
LEMMA BitsShift ==
  ASSUME NEW a \in Byte, NEW next \in Byte
  PROVE  LET v == ((2 * a) % 256) + (next \div 128)
         IN  /\ v \in Byte
             /\ \A q \in 1 .. 7 : Bit(v, q) = Bit(a, q + 1)
             /\ Bit(v, 8) = Bit(next, 1)
<1>1. PICK f \in EightBits : a = ByteOf(f)
  BY ByteOfSome
<1>2. PICK g \in EightBits : next = ByteOf(g)
  BY ByteOfSome
<1>3. PICK h : h = [k \in 0 .. 7 |-> IF k = 0 THEN g[7] ELSE f[k - 1]]
  OBVIOUS
<1>4. /\ h \in EightBits /\ h[0] = g[7]
      /\ \A k \in 1 .. 7 : h[k] = f[k - 1]
  BY <1>3 DEF EightBits
<1>5. ((2 * a) % 256) + (next \div 128) = ByteOf(h)
  <2>1. PICK a0 \in 0 .. 1, a1 \in 0 .. 1, a2 \in 0 .. 1, a3 \in 0 .. 1,
             a4 \in 0 .. 1, a5 \in 0 .. 1, a6 \in 0 .. 1, a7 \in 0 .. 1 :
          /\ f[0] = a0 /\ f[1] = a1 /\ f[2] = a2 /\ f[3] = a3
          /\ f[4] = a4 /\ f[5] = a5 /\ f[6] = a6 /\ f[7] = a7
    BY EightOf
  <2>2. a = a0 + 2 * a1 + 4 * a2 + 8 * a3 + 16 * a4 + 32 * a5 + 64 * a6 + 128 * a7
    BY <1>1, <2>1 DEF ByteOf
  <2>3. (2 * a) % 256
          = 2 * a0 + 4 * a1 + 8 * a2 + 16 * a3 + 32 * a4 + 64 * a5 + 128 * a6
    BY <2>2
  <2>4. PICK x \in 0 .. 1 : x = g[7] /\ next \div 128 = x
    <3>1. PICK b0 \in 0 .. 1, b1 \in 0 .. 1, b2 \in 0 .. 1, b3 \in 0 .. 1,
               b4 \in 0 .. 1, b5 \in 0 .. 1, b6 \in 0 .. 1, b7 \in 0 .. 1 :
            /\ g[0] = b0 /\ g[1] = b1 /\ g[2] = b2 /\ g[3] = b3
            /\ g[4] = b4 /\ g[5] = b5 /\ g[6] = b6 /\ g[7] = b7
      BY EightOf
    <3>2. next = b0 + 2 * b1 + 4 * b2 + 8 * b3 + 16 * b4 + 32 * b5 + 64 * b6
                   + 128 * b7
      BY <1>2, <3>1 DEF ByteOf
    <3>3. next \div 128 = b7
      BY <3>2
    <3> QED BY <3>1, <3>3
  <2>5. /\ h[0] = x /\ h[1] = a0 /\ h[2] = a1 /\ h[3] = a2 /\ h[4] = a3
        /\ h[5] = a4 /\ h[6] = a5 /\ h[7] = a6
    BY <1>4, <2>1, <2>4
  <2>6. ByteOf(h) = x + 2 * a0 + 4 * a1 + 8 * a2 + 16 * a3 + 32 * a4 + 64 * a5
                      + 128 * a6
    BY <2>5, Zenon DEF ByteOf
  <2> QED BY <2>3, <2>4, <2>6
<1>6. PICK v \in Byte : v = ((2 * a) % 256) + (next \div 128) /\ v = ByteOf(h)
  BY <1>4, <1>5, ByteOfBits
<1>7. ASSUME NEW q \in 1 .. 7 PROVE Bit(v, q) = Bit(a, q + 1)
  <2>1. Bit(v, q) = h[8 - q]
    BY <1>4, <1>6, BitsOf
  <2>2. Bit(a, q + 1) = f[8 - (q + 1)]
    BY <1>1, BitsOf
  <2>3. h[8 - q] = f[8 - (q + 1)]
    BY <1>4
  <2> QED BY <2>1, <2>2, <2>3
<1>8. Bit(v, 8) = Bit(next, 1)
  <2>1. Bit(v, 8) = h[0]
    BY <1>4, <1>6, BitsOf
  <2>2. Bit(next, 1) = g[7]
    BY <1>2, BitsOf
  <2> QED BY <1>4, <2>1, <2>2
<1> QED BY <1>6, <1>7, <1>8

\* The constant of the field, in bits, if it is taken.
LEMMA BitsOf135 ==
  ASSUME NEW carry \in 0 .. 1
  PROVE  /\ carry * 135 \in Byte
         /\ \A q \in 1 .. 8 :
              Bit(carry * 135, q) = IF q \in {1, 6, 7, 8} THEN carry ELSE 0
<1>0. /\ carry = 0 => carry * 135 = 0
      /\ carry = 1 => carry * 135 = 135
      /\ carry = 0 \/ carry = 1
  OBVIOUS
<1>1. PICK x : x = carry * 135
  OBVIOUS
<1>2. \/ x = 0 /\ carry = 0
      \/ x = 135 /\ carry = 1
  BY <1>0, <1>1, Zenon
<1>3. x \in Byte
  BY <1>2 DEF Byte
<1>4. /\ (x \div 128) % 2 = carry /\ (x \div 64) % 2 = 0
      /\ (x \div 32) % 2 = 0 /\ (x \div 16) % 2 = 0
      /\ (x \div 8) % 2 = 0 /\ (x \div 4) % 2 = carry
      /\ (x \div 2) % 2 = carry /\ (x \div 1) % 2 = carry
  BY <1>2
<1>5. /\ Bit(x, 1) = carry /\ Bit(x, 2) = 0 /\ Bit(x, 3) = 0 /\ Bit(x, 4) = 0
      /\ Bit(x, 5) = 0 /\ Bit(x, 6) = carry /\ Bit(x, 7) = carry
      /\ Bit(x, 8) = carry
  BY <1>4, PlacesAre, Zenon DEF Bit
<1>6. \A q \in 1 .. 8 : Bit(x, q) = IF q \in {1, 6, 7, 8} THEN carry ELSE 0
  <2> TAKE q \in 1 .. 8
  <2>1. \/ q = 1 \/ q = 2 \/ q = 3 \/ q = 4 \/ q = 5 \/ q = 6 \/ q = 7 \/ q = 8
    OBVIOUS
  <2> QED BY <1>5, <2>1
<1> QED BY <1>1, <1>3, <1>6

\* The last byte takes no bit.
LEMMA BitsShiftOut ==
  ASSUME NEW a \in Byte, NEW v, v = (2 * a) % 256
  PROVE  /\ \A q \in 1 .. 7 : Bit(v, q) = Bit(a, q + 1)
         /\ Bit(v, 8) = 0
<1>1. PICK z \in Byte : z = 0
  BY DEF Byte
<1>2. PICK w : w = ((2 * a) % 256) + (z \div 128)
  OBVIOUS
<1>3. /\ \A q \in 1 .. 7 : Bit(w, q) = Bit(a, q + 1)
      /\ Bit(w, 8) = Bit(z, 1)
  BY <1>2, BitsShift
<1>4. Bit(z, 1) = 0
  BY <1>1, PlacesAre DEF Bit
<1>5. w = v
  BY <1>1, <1>2 DEF Byte
<1> QED BY <1>3, <1>4, <1>5

\* times2 doubles a block.
LEMMA Times2Doubles ==
  ASSUME NEW b \in Blocks
  PROVE  IsDouble(times2(b), b)
<1>1. PICK d \in Blocks : d = times2(b)
  BY Times2Of
<1>2. /\ \A i \in 1 .. 15 : d[i] = ((2 * b[i]) % 256) + (b[i + 1] \div 128)
      /\ d[16] = ((2 * b[16]) % 256) ^^ ((b[1] \div 128) * 135)
  BY <1>1, Times2Of
<1>3. \A i \in 1 .. 16 : b[i] \in Byte /\ d[i] \in Byte
  BY BlockIsSeq
<1>4. ASSUME NEW j \in 1 .. 15, NEW q \in 1 .. 8
      PROVE  Bit(d[j], q) = IF q = 8 THEN Bit(b[j + 1], 1) ELSE Bit(b[j], q + 1)
  <2>1. PICK x \in Byte, y \in Byte : x = b[j] /\ y = b[j + 1]
    BY <1>3
  <2>2. PICK v : v = ((2 * x) % 256) + (y \div 128)
    OBVIOUS
  <2>3. /\ \A p \in 1 .. 7 : Bit(v, p) = Bit(x, p + 1)
        /\ Bit(v, 8) = Bit(y, 1)
    BY <2>2, BitsShift
  <2>4. d[j] = v
    BY <1>2, <2>1, <2>2
  <2>5. Bit(v, q) = IF q = 8 THEN Bit(y, 1) ELSE Bit(x, q + 1)
    BY <2>3
  <2> QED BY <2>1, <2>4, <2>5
<1>5. ASSUME NEW q \in 1 .. 8
      PROVE  Bit(d[16], q)
               = ((IF q = 8 THEN 0 ELSE Bit(b[16], q + 1))
                   + (IF q \in {1, 6, 7, 8} THEN Bit(b[1], 1) ELSE 0)) % 2
  <2>1. PICK x \in Byte, y \in Byte : x = b[16] /\ y = b[1]
    BY <1>3
  <2>2. PICK v \in Byte : v = (2 * x) % 256
    BY DEF Byte
  <2>3. PICK carry \in 0 .. 1 : carry = y \div 128 /\ carry = Bit(y, 1)
    <3>1. y \div 128 \in 0 .. 1 /\ (y \div 128) % 2 = y \div 128
      BY DEF Byte
    <3> QED BY <3>1, PlacesAre DEF Bit
  <2>4. PICK w \in Byte : w = carry * 135
    BY BitsOf135
  <2>5. d[16] = v ^^ w
    BY <1>2, <2>1, <2>2, <2>3, <2>4
  <2>6. Bit(v, q) = IF q = 8 THEN 0 ELSE Bit(x, q + 1)
    <3>1. /\ \A p \in 1 .. 7 : Bit(v, p) = Bit(x, p + 1)
          /\ Bit(v, 8) = 0
      BY <2>2, BitsShiftOut
    <3> QED BY <3>1
  <2>7. Bit(w, q) = IF q \in {1, 6, 7, 8} THEN carry ELSE 0
    BY <2>4, BitsOf135
  <2>8. Bit(v ^^ w, q) = (Bit(v, q) + Bit(w, q)) % 2
    BY BitOfXor
  <2> QED BY <2>1, <2>3, <2>5, <2>6, <2>7, <2>8
<1>6. ASSUME NEW k \in 1 .. 128
      PROVE  BitOf(d, k)
               = ((IF k = 128 THEN 0 ELSE BitOf(b, k + 1))
                   + (IF k \in {121, 126, 127, 128} THEN BitOf(b, 1) ELSE 0)) % 2
  <2>1. PICK j \in 1 .. 16, q \in 1 .. 8 : k = 8 * (j - 1) + q
    <3>1. /\ ((k - 1) \div 8) + 1 \in 1 .. 16 /\ ((k - 1) % 8) + 1 \in 1 .. 8
          /\ k = 8 * ((((k - 1) \div 8) + 1) - 1) + (((k - 1) % 8) + 1)
      OBVIOUS
    <3> QED BY <3>1
  <2>2. BitOf(d, k) = Bit(d[j], q)
    BY <2>1, BitPlace
  <2>3. BitOf(b, 1) = Bit(b[1], 1)
    <3>1. 1 = 8 * (1 - 1) + 1 /\ 1 \in 1 .. 16 /\ 1 \in 1 .. 8
      OBVIOUS
    <3> QED BY <3>1, BitPlace
  <2>4. q < 8 => BitOf(b, k + 1) = Bit(b[j], q + 1)
    <3> SUFFICES ASSUME q < 8 PROVE BitOf(b, k + 1) = Bit(b[j], q + 1)
      OBVIOUS
    <3>1. q + 1 \in 1 .. 8 /\ k + 1 \in Nat /\ k + 1 = 8 * (j - 1) + (q + 1)
      BY <2>1
    <3> QED BY <3>1, BitPlace
  <2>5. q = 8 /\ j < 16 => BitOf(b, k + 1) = Bit(b[j + 1], 1)
    <3> SUFFICES ASSUME q = 8, j < 16 PROVE BitOf(b, k + 1) = Bit(b[j + 1], 1)
      OBVIOUS
    <3>1. /\ j + 1 \in 1 .. 16 /\ k + 1 \in Nat /\ 1 \in 1 .. 8
          /\ k + 1 = 8 * ((j + 1) - 1) + 1
      BY <2>1
    <3> QED BY <3>1, BitPlace
  <2>6. CASE j < 16
    <3>1. k <= 120 /\ j \in 1 .. 15
      BY <2>1, <2>6
    <3>2. PICK x \in 0 .. 1 : x = BitOf(b, k + 1) /\ x = Bit(d[j], q)
      <4>1. CASE q = 8
        <5>1. Bit(b[j + 1], 1) \in 0 .. 1
          BY <1>3, <3>1, BitIs
        <5> QED BY <1>4, <2>5, <2>6, <3>1, <4>1, <5>1
      <4>2. CASE q < 8
        <5>1. Bit(b[j], q + 1) \in 0 .. 1
          BY <1>3, <3>1, <4>2, BitIs
        <5> QED BY <1>4, <2>4, <3>1, <4>2, <5>1
      <4> QED BY <4>1, <4>2
    <3>3. (x + 0) % 2 = x
      OBVIOUS
    <3> QED BY <2>2, <3>1, <3>2, <3>3, SMTT(30)
  <2>7. CASE j = 16
    <3>1. /\ k = 120 + q
          /\ k \in {121, 126, 127, 128} <=> q \in {1, 6, 7, 8}
          /\ k = 128 <=> q = 8
      BY <2>1, <2>7
    <3>2. q # 8 => BitOf(b, k + 1) = Bit(b[16], q + 1)
      BY <2>4, <2>7
    <3> QED BY <1>5, <2>2, <2>3, <2>7, <3>1, <3>2
  <2> QED BY <2>6, <2>7
<1>7. 8 * BlockSize = 128
  BY DEF BlockSize
<1> QED BY <1>1, <1>6, <1>7, Zenon DEF IsDouble

\* The offsets of the definition are those of the loop.
LEMMA OffsetsUnfold ==
  ASSUME IsCipher, NEW nonce \in Blocks, NEW l \in Nat
  PROVE  /\ Offsets(nonce, l)[0] = E(nonce)
         /\ \A n \in 1 .. l : Offsets(nonce, l)[n] = times2(Offsets(nonce, l)[n - 1])
<1> DEFINE step == [e \in Blocks \X Nat |-> times2(e[1])]
           cut(g) == [i \in 0 .. l |-> IF i = 0 THEN E(nonce) ELSE times2(g[i - 1])]
<1>1. step \in [Blocks \X Nat -> Blocks]
  BY Times2Of
<1>2. E(nonce) \in Blocks
  BY DEF IsCipher
<1>3. PICK f : IsRecursion(f, Blocks, E(nonce), step, l)
  <2> HIDE DEF step
  <2>1. \E f : IsRecursion(f, Blocks, E(nonce), step, l)
    BY <1>1, <1>2, Recursion, Zenon
  <2> QED BY <2>1
<1>4. /\ f \in [0 .. l -> Blocks] /\ f[0] = E(nonce)
      /\ \A n \in 1 .. l : f[n] = step[<<f[n - 1], n>>]
  BY <1>3 DEF IsRecursion
<1>5. \A n \in 1 .. l : f[n] = times2(f[n - 1])
  <2> TAKE n \in 1 .. l
  <2>1. <<f[n - 1], n>> \in Blocks \X Nat
    BY <1>4
  <2>2. step[<<f[n - 1], n>>] = times2(f[n - 1])
    BY <2>1
  <2> HIDE DEF step
  <2> QED BY <1>4, <2>2
<1>6. f = cut(f)
  <2>1. \A n \in 0 .. l : f[n] = IF n = 0 THEN E(nonce) ELSE times2(f[n - 1])
    BY <1>4, <1>5
  <2>2. f = [n \in 0 .. l |-> f[n]]
    BY <1>4
  <2> QED BY <2>1, <2>2
<1>7. Offsets(nonce, l) = CHOOSE g : g = cut(g)
  BY Zenon DEF Offsets
<1>8. Offsets(nonce, l) = cut(Offsets(nonce, l))
  <2> HIDE DEF cut
  <2> QED BY <1>6, <1>7
<1>9. PICK g : g = Offsets(nonce, l)
  OBVIOUS
<1>10. g = cut(g)
  BY <1>8, <1>9
<1>11. \A n \in 0 .. l : g[n] = IF n = 0 THEN E(nonce) ELSE times2(g[n - 1])
  <2>1. DOMAIN g = 0 .. l
    BY <1>10
  <2> QED BY <1>10
<1>12. g[0] = E(nonce)
  BY <1>11
<1>13. \A n \in 1 .. l : g[n] = times2(g[n - 1])
  BY <1>11
<1> QED BY <1>9, <1>12, <1>13

\* They are as far as the loop goes, and the last part has the one after.
LEMMA OffsetsAre ==
  ASSUME IsCipher, NEW src \in Seq(Byte), NEW nonce \in Blocks,
         NEW l \in Nat, l = FullBlocks(src) + 1
  PROVE  /\ \A n \in 0 .. FullBlocks(src) :
              Offsets(nonce, l)[n] = Encrypting(src, nonce)[n].delta
         /\ \A n \in 0 .. l : Offsets(nonce, l)[n] \in Blocks
         /\ \A n \in 1 .. l :
              Offsets(nonce, l)[n] = times2(Offsets(nonce, l)[n - 1])
         /\ Offsets(nonce, l)[l] = LastDelta(src, nonce)
<1> DEFINE o == Offsets(nonce, l)
           f == Encrypting(src, nonce)
           k == FullBlocks(src)
           T == {n \in Nat : n \in 0 .. k => o[n] = f[n].delta}
           U == {n \in Nat : n \in 0 .. l => o[n] \in Blocks}
<1>1. o[0] = E(nonce) /\ \A n \in 1 .. l : o[n] = times2(o[n - 1])
  BY OffsetsUnfold
<1>2. k \in Nat
  BY FullBlocksIs
<1>3. \A n \in 1 .. k : f[n].delta = times2(f[n - 1].delta)
  BY EncryptingBlock
<1>4. f[0].delta = E(nonce)
  BY EncryptingUnfolds, StartOf
<1>5. E(nonce) \in Blocks
  BY DEF IsCipher
<1>6. l = k + 1
  OBVIOUS
<1>7. LastDelta(src, nonce) = times2(f[k].delta)
  BY Zenon DEF LastDelta, LastState
<1> HIDE DEF o, f, k
<1>8. 0 \in T /\ 0 \in U
  BY <1>1, <1>4, <1>5
<1>9. ASSUME NEW n \in Nat, n \in T PROVE n + 1 \in T
  <2> SUFFICES ASSUME n + 1 \in 0 .. k PROVE o[n + 1] = f[n + 1].delta
    OBVIOUS
  <2>1. n \in 0 .. k /\ n + 1 \in 1 .. k /\ n + 1 \in 1 .. l /\ (n + 1) - 1 = n
    BY <1>2, <1>6
  <2> QED BY <1>1, <1>3, <1>9, <2>1
<1>10. ASSUME NEW n \in Nat, n \in U PROVE n + 1 \in U
  <2> SUFFICES ASSUME n + 1 \in 0 .. l PROVE o[n + 1] \in Blocks
    OBVIOUS
  <2>1. n \in 0 .. l /\ n + 1 \in 1 .. l /\ (n + 1) - 1 = n
    OBVIOUS
  <2>2. o[n] \in Blocks
    BY <1>10, <2>1
  <2>3. o[n + 1] = times2(o[(n + 1) - 1])
    BY <1>1, <2>1
  <2>4. o[n + 1] = times2(o[n])
    BY <2>1, <2>3
  <2> QED BY <2>2, <2>4, Times2Of, SMT
<1>11. Nat \subseteq T /\ Nat \subseteq U
  <2> HIDE DEF T, U
  <2> QED BY <1>8, <1>9, <1>10, Induction
<1>12. /\ \A n \in 0 .. k : o[n] = f[n].delta
       /\ \A n \in 0 .. l : o[n] \in Blocks
  BY <1>2, <1>11
<1>13. o[l] = LastDelta(src, nonce)
  <2>1. l \in 1 .. l /\ l - 1 = k /\ k \in 0 .. k
    BY <1>2, <1>6
  <2> QED BY <1>1, <1>7, <1>12, <2>1
<1> QED BY <1>1, <1>12, <1>13 DEF o, f, k

\* The order in which the plain blocks are added is of no concern.
LEMMA PlainSumsUnfold ==
  ASSUME NEW m \in Seq(Byte), NEW filled \in Blocks,
         NEW l \in Nat, l = FullBlocks(m)
  PROVE  /\ PlainSums(filled, m, l)[0] = filled
         /\ \A n \in 1 .. l :
              PlainSums(filled, m, l)[n]
                = xor(PlainSums(filled, m, l)[n - 1], BlockAt(m, 16 * (n - 1)))
<1> DEFINE at(n) == BlockAt(m, 16 * (n - 1))
           step == [e \in Blocks \X Nat |->
                      IF e[2] \in 1 .. l THEN xor(e[1], at(e[2])) ELSE e[1]]
           cut(g) == [i \in 0 .. l |->
                        IF i = 0 THEN filled ELSE xor(g[i - 1], at(i))]
<1>0. \A n \in 1 .. l : at(n) \in Blocks
  <2> TAKE n \in 1 .. l
  <2>1. n - 1 \in 0 .. FullBlocks(m) - 1 /\ Len(m) \in Nat
    BY FullBlocksIs
  <2>2. Len(m) - 16 * (n - 1) > 16
    BY <2>1, FullBlocksIs
  <2>3. PICK x \in Nat : x = 16 * (n - 1)
    OBVIOUS
  <2>4. x + 16 <= Len(m)
    BY <2>1, <2>2, <2>3
  <2> QED BY <2>3, <2>4, BlockAtIs
<1> HIDE DEF at
<1>1. step \in [Blocks \X Nat -> Blocks]
  <2>1. ASSUME NEW e \in Blocks \X Nat
        PROVE  (IF e[2] \in 1 .. l THEN xor(e[1], at(e[2])) ELSE e[1]) \in Blocks
    BY <1>0, XorOf
  <2> QED BY <2>1
<1>3. PICK f : IsRecursion(f, Blocks, filled, step, l)
  <2> HIDE DEF step
  <2>1. \E f : IsRecursion(f, Blocks, filled, step, l)
    BY <1>1, Recursion, Zenon
  <2> QED BY <2>1
<1>4. /\ f \in [0 .. l -> Blocks] /\ f[0] = filled
      /\ \A n \in 1 .. l : f[n] = step[<<f[n - 1], n>>]
  BY <1>3 DEF IsRecursion
<1>5. \A n \in 1 .. l : f[n] = xor(f[n - 1], at(n))
  <2> TAKE n \in 1 .. l
  <2>1. <<f[n - 1], n>> \in Blocks \X Nat
    BY <1>4
  <2>2. step[<<f[n - 1], n>>] = xor(f[n - 1], at(n))
    BY <2>1
  <2> HIDE DEF step
  <2> QED BY <1>4, <2>2
<1>6. f = cut(f)
  <2>1. \A n \in 0 .. l : f[n] = IF n = 0 THEN filled ELSE xor(f[n - 1], at(n))
    BY <1>4, <1>5
  <2>2. f = [n \in 0 .. l |-> f[n]]
    BY <1>4
  <2> QED BY <2>1, <2>2
<1>7. PlainSums(filled, m, l) = CHOOSE g : g = cut(g)
  BY Zenon DEF PlainSums, at, BlockSize
<1>8. PlainSums(filled, m, l) = cut(PlainSums(filled, m, l))
  <2> HIDE DEF cut
  <2> QED BY <1>6, <1>7
<1>9. PICK g : g = PlainSums(filled, m, l)
  OBVIOUS
<1>10. g = cut(g)
  BY <1>8, <1>9
<1>11. \A n \in 0 .. l : g[n] = IF n = 0 THEN filled ELSE xor(g[n - 1], at(n))
  <2>1. DOMAIN g = 0 .. l
    BY <1>10
  <2> QED BY <1>10
<1>12. g[0] = filled
  BY <1>11
<1>13. \A n \in 1 .. l : g[n] = xor(g[n - 1], at(n))
  BY <1>11
<1> QED BY <1>9, <1>12, <1>13 DEF at

\* The sum of the definition is the one of the loop with the last part added.
LEMMA PlainSumsAre ==
  ASSUME IsCipher, NEW m \in Seq(Byte), NEW nonce \in Blocks,
         NEW filled \in Blocks, NEW l \in Nat, l = FullBlocks(m)
  PROVE  PlainSums(filled, m, l)[l]
           = xor(Encrypting(m, nonce)[l].checksum, filled)
<1> DEFINE g == PlainSums(filled, m, l)
           f == Encrypting(m, nonce)
           at(n) == BlockAt(m, 16 * (n - 1))
           T == {n \in Nat : n \in 0 .. l => g[n] = xor(f[n].checksum, filled)}
<1>1. g[0] = filled /\ \A n \in 1 .. l : g[n] = xor(g[n - 1], at(n))
  BY PlainSumsUnfold
<1>2. \A n \in 1 .. l : at(n) \in Blocks /\ f[n].checksum = xor(f[n - 1].checksum, at(n))
  BY EncryptingBlock
<1>3. f[0].checksum = zeros
  BY EncryptingUnfolds, StartOf
<1>4. \A n \in 0 .. l : f[n].checksum \in Blocks
  BY EncryptingRounds, StateHas
<1> HIDE DEF g, f, at
<1>5. 0 \in T
  BY <1>1, <1>3, Zeros
<1>6. ASSUME NEW n \in Nat, n \in T PROVE n + 1 \in T
  <2> SUFFICES ASSUME n + 1 \in 0 .. l PROVE g[n + 1] = xor(f[n + 1].checksum, filled)
    OBVIOUS
  <2>1. n \in 0 .. l /\ n + 1 \in 1 .. l /\ (n + 1) - 1 = n
    OBVIOUS
  <2>2. PICK c \in Blocks : c = f[n].checksum
    BY <1>4, <2>1
  <2>3. PICK b \in Blocks : b = at(n + 1)
    BY <1>2, <2>1
  <2>4. g[n + 1] = xor(xor(c, filled), b)
    BY <1>1, <1>6, <2>1, <2>2, <2>3
  <2>5. f[n + 1].checksum = xor(c, b)
    BY <1>2, <2>1, <2>2, <2>3
  <2>6. xor(xor(c, filled), b) = xor(xor(c, b), filled)
    BY XorBlockOrder
  <2> QED BY <2>4, <2>5, <2>6
<1>7. Nat \subseteq T
  <2> HIDE DEF T
  <2> QED BY <1>5, <1>6, Induction
<1>8. g[l] = xor(f[l].checksum, filled)
  <2>1. l \in T /\ l \in 0 .. l
    BY <1>7
  <2> QED BY <2>1
<1> QED BY <1>8 DEF g, f

\* Encrypt, in place and in rounds, writes OCB2 as it is defined: every message,
\* whatever its length, every nonce, and as many bytes of the tag as are asked for
\* (cryptstate/ocb2/ocb2.go:115-170).
THEOREM EncryptIsOcb2 ==
  ASSUME IsCipher, NEW src \in Seq(Byte), NEW nonce \in Blocks,
         NEW tagLength \in 0 .. BlockSize
  PROVE  LET e == Encrypt(src, nonce, tagLength)
         IN  IsOcb2(src, nonce, e.dst, e.tag)
<1>1. PICK k \in Nat, r \in 0 .. 16 :
        /\ k = FullBlocks(src) /\ r = RestOf(src) /\ Len(src) = 16 * k + r
  BY RestIs, FullBlocksIs
<1>2. PICK l \in Nat : l = k + 1
  OBVIOUS
<1>3. PICK o : o = Offsets(nonce, l)
  OBVIOUS
<1>4. PICK f : f = Encrypting(src, nonce)
  OBVIOUS
<1>5. PICK c : c = Encrypt(src, nonce, tagLength).dst
  OBVIOUS
<1>6. PICK t : t = Encrypt(src, nonce, tagLength).tag
  OBVIOUS
<1>7. PICK final \in Blocks, pad \in Blocks, filled \in Blocks :
        /\ final = LastDelta(src, nonce)
        /\ pad = LastPad(src, nonce)
        /\ filled = Filled(src, nonce)
  BY LastPart
<1>8. /\ \A n \in 0 .. k : o[n] = f[n].delta
      /\ \A n \in 0 .. l : o[n] \in Blocks
      /\ \A n \in 1 .. l : o[n] = times2(o[n - 1])
      /\ o[l] = final
  BY <1>1, <1>2, <1>3, <1>4, <1>7, OffsetsAre, SMTT(30)
<1>9. Len(c) = Len(src)
  BY <1>5, EncryptBytes
<1>10. \A i \in 1 .. l : IsDouble(o[i], o[i - 1])
  <2> TAKE i \in 1 .. l
  <2>1. PICK b \in Blocks : b = o[i - 1]
    BY <1>8
  <2>2. IsDouble(times2(b), b)
    BY Times2Doubles
  <2> QED BY <1>8, <2>1, <2>2
<1>11. \A i \in 1 .. l - 1 :
         BlockAt(c, 16 * (i - 1))
           = xor(o[i], E(xor(BlockAt(src, 16 * (i - 1)), o[i])))
  <2> TAKE i \in 1 .. l - 1
  <2>1. i \in 1 .. FullBlocks(src) /\ i \in 0 .. k /\ i \in 0 .. l
    BY <1>1, <1>2, SMTT(30)
  <2>2. BlockAt(src, 16 * (i - 1)) \in Blocks
    BY <2>1, EncryptingBlock
  <2>3. PICK d \in Blocks, b \in Blocks : d = o[i] /\ b = BlockAt(src, 16 * (i - 1))
    BY <1>8, <2>1, <2>2
  <2>4. BlockAt(c, 16 * (i - 1)) = xor(d, E(xor(d, b)))
    BY <1>4, <1>5, <1>8, <2>1, <2>3, EncryptBlocks, SMTT(30)
  <2>5. xor(d, b) = xor(b, d)
    BY XorCommutes
  <2> QED BY <2>3, <2>4, <2>5
<1>12. \A j \in 1 .. r : c[16 * k + j] = filled[j] ^^ pad[j]
  <2> TAKE j \in 1 .. r
  <2>1. c[16 * k + j] = pad[j] ^^ filled[j]
    BY <1>1, <1>5, <1>7, EncryptBytes, SMTT(30)
  <2>2. PICK x \in Byte, y \in Byte : x = pad[j] /\ y = filled[j]
    <3>1. j \in 1 .. 16
      OBVIOUS
    <3>2. pad[j] \in Byte /\ filled[j] \in Byte
      BY <3>1, BlockIsSeq
    <3> QED BY <3>2
  <2>3. x ^^ y = y ^^ x
    BY XorLaws
  <2> QED BY <2>1, <2>2, <2>3
<1>13. pad = E(xor(final, LengthBlock(r)))
  <2>1. pad = E(xor(LengthBlock(r), final))
    BY <1>1, <1>7, Zenon DEF LastPad, Pad
  <2>2. xor(LengthBlock(r), final) = xor(final, LengthBlock(r))
    BY LengthBlockOf, XorCommutes
  <2> QED BY <2>1, <2>2
<1>14. filled = SubSeq(src, 16 * k + 1, Len(src)) \o SubSeq(pad, r + 1, 16)
  BY <1>1, <1>7, Zenon DEF Filled
<1>15. PICK sum : sum = PlainSums(filled, src, l - 1)[l - 1]
  OBVIOUS
<1>16. Len(t) \in Nat /\ t = SubSeq(E(xor(xor(final, times2(final)), sum)), 1, Len(t))
  <2>1. PICK s \in Blocks : s = f[k].checksum
    <3>1. k \in 0 .. FullBlocks(src)
      BY <1>1
    <3>2. f[k] \in States
      BY <1>4, <3>1, EncryptingRounds
    <3> QED BY <3>2, StateHas
  <2>2. sum = xor(s, filled)
    <3>1. l - 1 = k
      BY <1>2
    <3>2. PlainSums(filled, src, k)[k] = xor(Encrypting(src, nonce)[k].checksum, filled)
      BY <1>1, PlainSumsAre
    <3> QED BY <1>4, <1>15, <2>1, <3>1, <3>2
  <2>3. sum \in Blocks
    BY <2>2, XorOf
  <2>4. times3(final) = xor(final, times2(final))
    <3>1. times2(final) \in Blocks
      BY Times2Of
    <3> QED BY <3>1, XorCommutes DEF times3
  <2>5. PICK whole \in Blocks : whole = Tag(final, sum)
    BY <2>3, TagOf
  <2>6. whole = E(xor(xor(final, times2(final)), sum))
    BY <2>4, <2>5, Zenon DEF Tag
  <2>7. t = SubSeq(whole, 1, tagLength)
    <3>1. t = SubSeq(Tag(LastDelta(src, nonce),
                         xor(LastState(src, nonce).checksum, Filled(src, nonce))),
                     1, tagLength)
      BY <1>6, EncryptIs
    <3>2. LastState(src, nonce).checksum = s
      BY <1>1, <1>4, <2>1, Zenon DEF LastState
    <3> QED BY <1>7, <2>2, <2>5, <3>1, <3>2, Zenon
  <2>8. Len(t) = tagLength
    <3>1. whole \in Seq(Byte) /\ Len(whole) = 16
      BY BlockIsSeq
    <3>2. PICK n \in 0 .. 16 : n = tagLength
      BY DEF BlockSize
    <3>3. 0 \in Nat /\ n \in Nat /\ 0 <= n /\ n <= Len(whole) /\ 0 + 1 = 1
      BY <3>1
    <3>4. Len(SubSeq(whole, 0 + 1, n)) = n - 0
      BY <3>1, <3>3, Slice
    <3> QED BY <2>7, <3>2, <3>3, <3>4
  <2> QED BY <2>6, <2>7, <2>8 DEF BlockSize
<1>17. (IF src = <<>> THEN 1 ELSE ((Len(src) - 1) \div BlockSize) + 1) = l
  <2>1. src = <<>> <=> Len(src) = 0
    OBVIOUS
  <2>2. (IF src = <<>> THEN 1 ELSE ((Len(src) - 1) \div 16) + 1)
          = FullBlocks(src) + 1
    <3>1. CASE src = <<>>
      BY <2>1, <3>1 DEF FullBlocks
    <3>2. CASE src # <<>>
      BY <2>1, <3>2 DEF FullBlocks
    <3> QED BY <3>1, <3>2
  <2> QED BY <1>1, <1>2, <2>2 DEF BlockSize
<1>18. /\ BlockSize = 16 /\ 16 * (l - 1) = 16 * k
       /\ Len(src) - 16 * k = r
  BY <1>1, <1>2, SMTT(30) DEF BlockSize
<1>19. IsOcb2(src, nonce, c, t)
  <2>1. /\ SubSeq(src, 16 * (l - 1) + 1, Len(src)) \o SubSeq(pad, r + 1, 16) = filled
        /\ E(xor(o[l], LengthBlock(r))) = pad
        /\ PlainSums(filled, src, l - 1)[l - 1] = sum
        /\ Offsets(nonce, l) = o
    BY <1>3, <1>8, <1>13, <1>14, <1>15, <1>18, Zenon
  <2>2. /\ Len(c) = Len(src)
        /\ \A i \in 1 .. l : IsDouble(o[i], o[i - 1])
        /\ \A i \in 1 .. l - 1 :
             BlockAt(c, BlockSize * (i - 1))
               = xor(o[i], E(xor(BlockAt(src, BlockSize * (i - 1)), o[i])))
        /\ \A j \in 1 .. Len(src) - BlockSize * (l - 1) :
             c[BlockSize * (l - 1) + j] = filled[j] ^^ pad[j]
        /\ t = SubSeq(E(xor(xor(o[l], times2(o[l])),
                            PlainSums(filled, src, l - 1)[l - 1])), 1, Len(t))
    BY <1>8, <1>9, <1>10, <1>11, <1>12, <1>15, <1>16, <1>18, Zenon
  <2>3. /\ pad = E(xor(o[l], LengthBlock(Len(src) - BlockSize * (l - 1))))
        /\ filled = SubSeq(src, BlockSize * (l - 1) + 1, Len(src))
                      \o SubSeq(pad, Len(src) - BlockSize * (l - 1) + 1, BlockSize)
    BY <1>8, <1>13, <1>14, <1>18, Zenon
  <2> QED BY <1>3, <1>17, <2>2, <2>3, Zenon DEF IsOcb2
<1> QED BY <1>5, <1>6, <1>19

\* A piece of a sequence is what has its elements.
LEMMA SliceIs ==
  ASSUME NEW s \in Seq(Byte), NEW t \in Seq(Byte), NEW x \in Nat, NEW y \in Nat,
         y = x + Len(t), y <= Len(s), \A i \in 1 .. Len(t) : s[x + i] = t[i]
  PROVE  SubSeq(s, x + 1, y) = t
<1>1. PICK u : u = SubSeq(s, x + 1, y)
  OBVIOUS
<1>2. PICK l \in Nat : l = Len(t)
  OBVIOUS
<1>3. x <= y /\ y - x = l
  BY <1>2
<1>4. u \in Seq(Byte) /\ Len(u) = l /\ \A i \in 1 .. l : u[i] = s[x + i]
  <2>1. /\ SubSeq(s, x + 1, y) \in Seq(Byte) /\ Len(SubSeq(s, x + 1, y)) = y - x
        /\ \A i \in 1 .. y - x : SubSeq(s, x + 1, y)[i] = s[x + i]
    BY <1>3, Slice
  <2> QED BY <1>1, <1>3, <2>1
<1>5. \A i \in 1 .. l : u[i] = t[i]
  BY <1>2, <1>4
<1>6. u = t
  BY <1>2, <1>4, <1>5
<1> QED BY <1>1, <1>6

\* Datagram d consists of its first byte, the tag and the rest.
ConsistsOf(d, e, tag, dst) ==
  d[1] = e /\ SubSeq(d, 2, 4) = tag /\ SubSeq(d, 5, Len(d)) = dst

\* It is taken apart again.
LEMMA TakenApart ==
  ASSUME NEW e \in Byte, NEW tag \in Seq(Byte), Len(tag) = 3, NEW dst \in Seq(Byte)
  PROVE  ConsistsOf(<<e>> \o (tag \o dst), e, tag, dst)
<1>1. PICK l \in Nat : l = Len(dst)
  OBVIOUS
<1>2. PICK c : c = tag \o dst
  OBVIOUS
<1>3. /\ c \in Seq(Byte) /\ Len(c) = 3 + l
      /\ \A i \in 1 .. 3 + l : c[i] = IF i <= 3 THEN tag[i] ELSE dst[i - 3]
  <2>1. /\ tag \o dst \in Seq(Byte) /\ Len(tag \o dst) = Len(tag) + Len(dst)
        /\ \A i \in 1 .. Len(tag) + Len(dst) :
             (tag \o dst)[i] = IF i <= Len(tag) THEN tag[i] ELSE dst[i - Len(tag)]
    BY ConcatProperties
  <2> QED BY <1>1, <1>2, <2>1, Zenon
<1>4. PICK d : d = <<e>> \o c
  OBVIOUS
<1>5. /\ d \in Seq(Byte) /\ Len(d) = 1 + Len(c) /\ d[1] = e
      /\ \A i \in 1 .. Len(c) : d[1 + i] = c[i]
  BY <1>3, <1>4, BehindFirst
<1>6. PICK n \in Nat : n = Len(d) /\ n = 4 + l
  BY <1>3, <1>5
<1>7. ASSUME NEW i \in 1 .. 3 PROVE d[1 + i] = tag[i]
  <2>1. i \in 1 .. Len(c) /\ i \in 1 .. 3 + l
    BY <1>3
  <2> QED BY <1>3, <1>5, <2>1
<1>8. ASSUME NEW i \in 1 .. l PROVE d[4 + i] = dst[i]
  <2>1. 3 + i \in 1 .. Len(c) /\ 3 + i \in 1 .. 3 + l
    BY <1>3
  <2>2. 1 + (3 + i) = 4 + i /\ (3 + i) - 3 = i /\ ~(3 + i <= 3)
    OBVIOUS
  <2>3. d[1 + (3 + i)] = c[3 + i]
    BY <1>5, <2>1
  <2>4. c[3 + i] = dst[(3 + i) - 3]
    BY <1>3, <2>1, <2>2
  <2> QED BY <2>2, <2>3, <2>4
<1>9. SubSeq(d, 2, 4) = tag
  <2>1. PICK x \in Nat, y \in Nat : x = 1 /\ y = 4 /\ x + 1 = 2
    OBVIOUS
  <2>2. y = x + Len(tag) /\ y <= Len(d) /\ \A i \in 1 .. Len(tag) : d[x + i] = tag[i]
    BY <1>6, <1>7, <2>1
  <2>3. SubSeq(d, x + 1, y) = tag
    BY <1>5, <2>2, SliceIs
  <2> QED BY <2>1, <2>3, Zenon
<1>10. SubSeq(d, 5, Len(d)) = dst
  <2>1. PICK x \in Nat : x = 4 /\ x + 1 = 5
    OBVIOUS
  <2>2. n = x + Len(dst) /\ n <= Len(d) /\ \A i \in 1 .. Len(dst) : d[x + i] = dst[i]
    BY <1>1, <1>6, <1>8, <2>1
  <2>3. SubSeq(d, x + 1, n) = dst
    BY <1>5, <2>2, SliceIs
  <2> QED BY <1>6, <2>1, <2>3, Zenon
<1> QED BY <1>2, <1>4, <1>5, <1>9, <1>10, Zenon DEF ConsistsOf

\* A datagram has the first byte of the nonce, the tag and the ciphertext.
LEMMA DatagramParts ==
  ASSUME IsCipher, NEW p \in Seq(Byte), NEW nonce \in Blocks
  PROVE  LET d == <<nonce[1]>> \o (Encrypt(p, nonce, 3).tag \o Encrypt(p, nonce, 3).dst)
         IN  /\ d[1] = nonce[1]
             /\ SubSeq(d, 2, 4) = Encrypt(p, nonce, 3).tag
             /\ SubSeq(d, 5, Len(d)) = Encrypt(p, nonce, 3).dst
<1>1. PICK dst \in Seq(Byte), tag \in Seq(Byte) :
        /\ dst = Encrypt(p, nonce, 3).dst /\ tag = Encrypt(p, nonce, 3).tag
        /\ Len(tag) = 3
  <2>1. PICK e : e = Encrypt(p, nonce, 3)
    OBVIOUS
  <2>2. e.dst \in Seq(Byte) /\ e.tag \in Seq(Byte) /\ Len(e.tag) = 3
    BY <2>1, DecryptUndoes
  <2> QED BY <2>1, <2>2
<1>2. PICK n \in Byte : n = nonce[1]
  <2>1. 1 \in 1 .. 16
    OBVIOUS
  <2>2. nonce[1] \in Byte
    BY <2>1, BlockIsSeq
  <2> QED BY <2>2
<1>3. ConsistsOf(<<n>> \o (tag \o dst), n, tag, dst)
  <2>1. Len(tag) = 3
    BY <1>1, Zenon
  <2> QED BY <2>1, TakenApart, Zenon
<1> QED BY <1>1, <1>2, <1>3, Zenon DEF ConsistsOf

\* A datagram on its way is OCB2 of the packet.
LEMMA OnItsWay ==
  ASSUME IsCipher, MadeOfPacket
  PROVE  WrittenAsOcb2
<1> SUFFICES ASSUME mode = "OCB2-AES128", wire.path = "udp"
             PROVE  /\ wire.bytes[1] = ClientNonce[1]
                    /\ IsOcb2(packet, ClientNonce,
                              SubSeq(wire.bytes, 5, Len(wire.bytes)),
                              SubSeq(wire.bytes, 2, 4))
  BY Zenon DEF WrittenAsOcb2
<1>1. sent.kind \in {"voice", "ping"}
  BY DEF MadeOfPacket, Phases
<1>2. packet \in Seq(Byte)
  BY <1>1, PacketIs
<1>3. wire.bytes = ToServer(mode, packet)
  BY <1>1, Zenon DEF MadeOfPacket, OfVoice, OfPing
<1>4. ClientNonce \in Blocks
  BY NoncesAre DEF IsNonce
<1>5. PICK p \in Seq(Byte), nonce \in Blocks : p = packet /\ nonce = ClientNonce
  BY <1>2, <1>4
<1>6. PICK d : d = wire.bytes
  OBVIOUS
<1>7. d = <<nonce[1]>> \o (Encrypt(p, nonce, 3).tag \o Encrypt(p, nonce, 3).dst)
  BY <1>3, <1>5, <1>6, InMode, Zenon DEF ToServer, SealedIn
<1>8. /\ d[1] = nonce[1]
      /\ SubSeq(d, 2, 4) = Encrypt(p, nonce, 3).tag
      /\ SubSeq(d, 5, Len(d)) = Encrypt(p, nonce, 3).dst
  <2>1. LET b == <<nonce[1]>> \o (Encrypt(p, nonce, 3).tag \o Encrypt(p, nonce, 3).dst)
        IN  /\ b[1] = nonce[1]
            /\ SubSeq(b, 2, 4) = Encrypt(p, nonce, 3).tag
            /\ SubSeq(b, 5, Len(b)) = Encrypt(p, nonce, 3).dst
    BY DatagramParts, Zenon
  <2> QED BY <1>7, <2>1, Zenon
<1>9. IsOcb2(p, nonce, Encrypt(p, nonce, 3).dst, Encrypt(p, nonce, 3).tag)
  <2>1. PICK n \in 0 .. BlockSize : n = 3
    BY DEF BlockSize
  <2>2. IsOcb2(p, nonce, Encrypt(p, nonce, n).dst, Encrypt(p, nonce, n).tag)
    BY EncryptIsOcb2, Zenon
  <2> QED BY <2>1, <2>2, Zenon
<1> QED BY <1>5, <1>6, <1>8, <1>9, Zenon

\* A datagram under OCB2-AES128 is what the definition of OCB2 says of its packet,
\* whatever the packet is (cryptstate/cryptstate.go:235-246).
THEOREM WrittenAsOcb2Always ==
  ASSUME IsCipher
  PROVE  Spec => []WrittenAsOcb2
<1>1. MadeOfPacket => WrittenAsOcb2
  BY OnItsWay
<1> QED BY <1>1, MadeAlways, PTL
=============================================================================
