------------------------- MODULE FramePipelineProofs -------------------------
(***************************************************************************)
(* Proofs about FramePipeline, for contents, frames and numbers of faults  *)
(* of any size.                                                            *)
(*                                                                         *)
(* The argument: the stream never hands over less than it counts, so when  *)
(* it says EOF everything was handed over, and a reader that has nothing   *)
(* left to parse then has parsed everything.  An error other than EOF      *)
(* leaves the stream only with a failed request, and takes one block with  *)
(* it; as long as no data came uncounted, each unit handed over is at its  *)
(* place.  The blocks parsed and not lost are at any time those decoded    *)
(* and then those in Blocks, so that what is played is their samples in    *)
(* order.                                                                  *)
(***************************************************************************)
EXTENDS FramePipeline, WellFoundedInduction, SequenceTheorems,
        FiniteSetTheorems, TLAPS

-----------------------------------------------------------------------------
(* Natural numbers: quotients and remainders, induction and recursion.      *)

LEMMA DivMod ==
  ASSUME NEW b \in Nat, b >= 1, NEW n \in Nat
  PROVE  /\ n \div b \in Nat
         /\ n % b \in 0 .. b - 1
         /\ n = b * (n \div b) + (n % b)
  OBVIOUS

LEMMA DivModUnique ==
  ASSUME NEW b \in Nat, b >= 1, NEW q \in Nat, NEW r \in 0 .. b - 1
  PROVE  /\ (b * q + r) \div b = q
         /\ (b * q + r) % b = r
  OBVIOUS

\* Every set of natural numbers that is not empty has a least one.
LEMMA LeastNumber ==
  ASSUME NEW T \in SUBSET Nat, T # {}
  PROVE  \E n \in T : \A m \in T : n <= m
<1> DEFINE R == {p \in Nat \X Nat : p[1] < p[2]}
<1>1. R = OpToRel(<, Nat)
  BY DEF OpToRel
<1>2. IsWellFoundedOn(R, Nat)
  BY <1>1, NatLessThanWellFounded, Zenon
<1>3. \E x \in T : \A y \in T : ~ (<<y, x>> \in R)
  <2> HIDE DEF R
  <2> QED BY <1>2, WFMin, Zenon
<1>4. PICK n \in T : \A m \in T : ~ (<<m, n>> \in R)
  BY <1>3
<1>5. ASSUME NEW m \in T PROVE n <= m
  <2>1. n \in Nat /\ m \in Nat
    OBVIOUS
  <2>2. m < n => <<m, n>> \in R
    BY <2>1
  <2> QED BY <1>4, <2>1, <2>2
<1> QED BY <1>5

\* Induction: a set that holds 0 and with every number its successor holds all
\* natural numbers.
LEMMA Induction ==
  ASSUME NEW S,
         0 \in S,
         \A n \in Nat : n \in S => n + 1 \in S
  PROVE  Nat \subseteq S
<1> DEFINE T == Nat \ S
<1>1. SUFFICES ASSUME T # {} PROVE FALSE
  OBVIOUS
<1>2. PICK n \in T : \A m \in T : n <= m
  BY <1>1, LeastNumber
<1>3. n \in Nat /\ n # 0 /\ n - 1 \in Nat /\ ~ (n <= n - 1) /\ (n - 1) + 1 = n
  BY <1>2
<1>4. n - 1 \in S
  BY <1>2, <1>3
<1> QED BY <1>2, <1>3, <1>4

\* f is given up to k by a first value and a function that makes the i-th value
\* from the one before it.
IsRecursion(f, S, s, rule, k) ==
  /\ f \in [0 .. k -> S]
  /\ f[0] = s
  /\ \A i \in 1 .. k : f[i] = rule[<<f[i - 1], i>>]

\* Such a function exists.
LEMMA Recursion ==
  ASSUME NEW S, NEW s \in S, NEW rule \in [S \X Nat -> S], NEW k \in Nat
  PROVE  \E f : IsRecursion(f, S, s, rule, k)
<1> DEFINE T == {n \in Nat : \E f : IsRecursion(f, S, s, rule, n)}
<1>1. 0 \in T
  <2>1. IsRecursion([i \in 0 .. 0 |-> s], S, s, rule, 0)
    BY DEF IsRecursion
  <2> QED BY <2>1
<1>2. ASSUME NEW n \in Nat, n \in T PROVE n + 1 \in T
  <2>1. PICK f : IsRecursion(f, S, s, rule, n)
    BY <1>2
  <2>2. /\ f \in [0 .. n -> S] /\ f[0] = s
        /\ \A i \in 1 .. n : f[i] = rule[<<f[i - 1], i>>]
    BY <2>1 DEF IsRecursion
  <2> DEFINE v == rule[<<f[n], n + 1>>]
             g == [i \in 0 .. n + 1 |-> IF i = n + 1 THEN v ELSE f[i]]
  <2>3. v \in S
    BY <2>2
  <2>4. g \in [0 .. n + 1 -> S] /\ g[0] = s
    BY <2>2, <2>3
  <2>5. ASSUME NEW i \in 1 .. n + 1 PROVE g[i] = rule[<<g[i - 1], i>>]
    <3>1. CASE i = n + 1
      <4>1. g[i] = v /\ g[i - 1] = f[n]
        BY <3>1
      <4> QED BY <3>1, <4>1
    <3>2. CASE i # n + 1
      <4>1. i \in 1 .. n /\ g[i] = f[i] /\ g[i - 1] = f[i - 1]
        BY <3>2
      <4> QED BY <2>2, <4>1
    <3> QED BY <3>1, <3>2
  <2>6. IsRecursion(g, S, s, rule, n + 1)
    <3> HIDE DEF g
    <3> QED BY <2>4, <2>5 DEF IsRecursion
  <2> HIDE DEF g
  <2> QED BY <2>6
<1>3. Nat \subseteq T
  <2> HIDE DEF T
  <2> QED BY <1>1, <1>2, Induction
<1> QED BY <1>3

-----------------------------------------------------------------------------
StreamInv ==
  /\ aposition <= Len(delivered)
  /\ err = "EOF" => aposition = Len(content)
  /\ failed = 0 => err # "error" /\ body # "broken"

PipeInv ==
  /\ parsed <= Len(delivered)
  /\ pc = "block" => parsed < Len(content)
  /\ pc = "GetNextFrames" => Len(pcmbuff) < neededSamples
  /\ pc \in {"segment", "cluster", "block", "rest"} =>
       Len(pcmbuff) < neededSamples /\ ~doneReadingMatroska
  /\ doneReadingMatroska => parsed = Len(content)
  /\ doneReading => doneReadingMatroska
  /\ pc = "EOF" => doneReading /\ Len(pcmbuff) < neededSamples

\* As long as no data came uncounted, what was handed over is counted and is
\* the content from its start.
InPlace ==
  uncounted = 0 =>
    /\ aposition = Len(delivered)
    /\ \A i \in 1 .. Len(delivered) : delivered[i] = i

\* What the ends of a track come from.
Hurt ==
  /\ pc = "garbled" => failed > 0 \/ uncounted > 0
  /\ pc = "error" =>
       failed > 0 \/ \E b \in 1 .. parsed : content[b] = "corrupt"

IInv == TypeOK /\ StreamInv /\ InPlace /\ PipeInv /\ Hurt

-----------------------------------------------------------------------------
(* Sequences.                                                               *)

\* The units of one hand-over are a sequence of places.
LEMMA Places ==
  ASSUME NEW a \in Nat, NEW n \in Nat, NEW m \in Nat, a + n <= m
  PROVE  /\ [i \in 1 .. n |-> a + i] \in Seq(1 .. m)
         /\ Len([i \in 1 .. n |-> a + i]) = n
<1> DEFINE s == [i \in 1 .. n |-> a + i]
<1>1. s \in [1 .. n -> 1 .. m]
  OBVIOUS
<1>2. s \in Seq(1 .. m)
  BY <1>1
<1>3. Len(s) = n
  BY <1>1, <1>2
<1> QED
  BY <1>2, <1>3

LEMMA Concatenation ==
  ASSUME NEW S, NEW s \in Seq(S), NEW t \in Seq(S)
  PROVE  s \o t \in Seq(S) /\ Len(s \o t) = Len(s) + Len(t)
  OBVIOUS

LEMMA Cut ==
  ASSUME NEW S, NEW s \in Seq(S), NEW n \in Nat, n <= Len(s)
  PROVE  /\ SubSeq(s, 1, n) \in Seq(S)
         /\ SubSeq(s, n + 1, Len(s)) \in Seq(S)
         /\ Len(SubSeq(s, n + 1, Len(s))) = Len(s) - n
<1>1. Len(s) \in Nat /\ \A i \in 1 .. Len(s) : s[i] \in S
  OBVIOUS
<1>2. SubSeq(s, 1, n) \in Seq(S)
  BY <1>1, SubSeqProperties
<1>3. /\ SubSeq(s, n + 1, Len(s)) \in Seq(S)
      /\ Len(SubSeq(s, n + 1, Len(s)))
           = IF n + 1 <= Len(s) THEN Len(s) - (n + 1) + 1 ELSE 0
  <2>1. \A i \in n + 1 .. Len(s) : s[i] \in S
    BY <1>1
  <2> QED
    BY <1>1, <2>1, SubSeqProperties
<1> QED
  BY <1>1, <1>2, <1>3

\* A hand-over makes the sequence of units delivered longer by its length.
LEMMA HandOverStep ==
  ASSUME NEW n \in Nat, StreamTypeOK, HandOver(n),
         aposition + n <= Len(content), content \in Seq(Kinds)
  PROVE  /\ delivered' \in Seq(1 .. Len(content))
         /\ Len(delivered') = Len(delivered) + n
         /\ \A i \in 1 .. Len(delivered) : delivered'[i] = delivered[i]
         /\ \A i \in 1 .. n : delivered'[Len(delivered) + i] = aposition + i
<1> DEFINE s == [i \in 1 .. n |-> aposition + i]
<1>1. Len(content) \in Nat /\ aposition \in Nat
  BY DEF StreamTypeOK
<1>2. s \in Seq(1 .. Len(content)) /\ Len(s) = n
  BY <1>1, Places
<1>3. delivered \in Seq(1 .. Len(content)) /\ delivered' = delivered \o s
  BY DEF StreamTypeOK, HandOver
<1>4. s \in Seq(1 .. Len(content))
  BY <1>2
<1>5. \A i \in 1 .. n : s[i] = aposition + i
  OBVIOUS
<1> HIDE DEF s
<1>6. /\ Len(delivered) \in Nat
      /\ \A i \in 1 .. Len(delivered) : (delivered \o s)[i] = delivered[i]
      /\ \A i \in 1 .. n : (delivered \o s)[Len(delivered) + i] = s[i]
  BY <1>2, <1>3
<1> QED
  BY <1>2, <1>3, <1>4, <1>5, <1>6, Concatenation

\* The samples of a block.
LEMMA PcmSamples ==
  ASSUME NEW m \in Nat, NEW b \in 1 .. m
  PROVE  Pcm(b) \in Seq(1 .. m) /\ Len(Pcm(b)) = BlockSamples
<1>1. Pcm(b) \in [1 .. BlockSamples -> 1 .. m] /\ BlockSamples \in Nat
  BY BlockSamplesAssumption DEF Pcm
<1>2. Pcm(b) \in Seq(1 .. m)
  BY <1>1
<1> QED
  BY <1>1, <1>2

\* A larger set of places has all sequences over the smaller one.
LEMMA SeqGrows ==
  ASSUME NEW m \in Nat, NEW n \in Nat, m <= n, NEW s \in Seq(1 .. m)
  PROVE  s \in Seq(1 .. n)
<1>1. Len(s) \in Nat /\ s \in [1 .. Len(s) -> 1 .. m]
  OBVIOUS
<1>2. s \in [1 .. Len(s) -> 1 .. n]
  BY <1>1
<1> QED
  BY <1>1, <1>2

LEMMA ContentTyped ==
  ASSUME StreamTypeOK
  PROVE  content \in Seq(Kinds) /\ Len(content) \in Nat /\ WellFormed(content)
  BY ContentsAssumption DEF StreamTypeOK

-----------------------------------------------------------------------------
(* The stream.                                                              *)

\* What a request leaves, in terms of the place it asks from.
LEMMA RequestStep ==
  ASSUME StreamTypeOK, NEW a \in 0 .. Len(content),
         NEW state \in {"ended", "broken"}, RequestNext(a, state)
  PROVE  /\ body' \in {"open", state}
         /\ left' \in 0 .. Len(content) - a
         /\ err' \in {"nil", "error"}
         /\ failed' \in failed .. MaxFailed
         /\ failed' = 0 => err' = "nil" /\ body' = "open"
<1>1. /\ Len(content) \in Nat /\ failed \in 0 .. MaxFailed /\ MaxFailed \in Nat
  BY ContentTyped, MaxFailedAssumption DEF StreamTypeOK
<1>2. CASE body' = "open" /\ left' \in Lengths(a) /\ err' = "nil" /\ failed' = failed
  <2>1. left' \in 0 .. Len(content) - a
    BY <1>1, <1>2 DEF Lengths
  <2> QED
    BY <1>1, <1>2, <2>1
<1>3. CASE /\ failed < MaxFailed /\ failed' = failed + 1
           /\ body' = state /\ left' = 0 /\ err' = "error"
  BY <1>1, <1>3
<1> QED
  BY <1>2, <1>3 DEF RequestNext

LEMMA ReadStep ==
  ASSUME StreamTypeOK, StreamInv, Read
  PROVE  /\ StreamTypeOK' /\ StreamInv'
         /\ content' = content
         /\ Len(delivered') >= Len(delivered)
         /\ failed' >= failed
<1>1. /\ content \in Seq(Kinds) /\ Len(content) \in Nat
      /\ MaxCuts \in Nat /\ MaxFailed \in Nat
  BY ContentTyped, MaxCutsAssumption, MaxFailedAssumption
<1>2. /\ aposition \in 0 .. Len(content) /\ left \in 0 .. Len(content) - aposition
      /\ delivered \in Seq(1 .. Len(content)) /\ Len(delivered) \in Nat
      /\ cuts \in 0 .. MaxCuts /\ uncounted \in 0 .. cuts
      /\ failed \in 0 .. MaxFailed
  BY DEF StreamTypeOK
<1>3. CASE ReadData
  <2>1. PICK n \in 1 .. left : /\ HandOver(n) /\ aposition' = aposition + n
                               /\ left' = left - n
    BY <1>3 DEF ReadData
  <2>2. /\ delivered' \in Seq(1 .. Len(content))
        /\ Len(delivered') = Len(delivered) + n
    BY <1>1, <1>2, <2>1, HandOverStep
  <2> QED
    BY <1>1, <1>2, <1>3, <2>1, <2>2 DEF ReadData, StreamTypeOK, StreamInv
<1>4. CASE ReadEnd
  <2>1. /\ HandOver(left) /\ aposition' = aposition + left
        /\ UNCHANGED <<content, cuts, uncounted>> /\ body # "broken"
    BY <1>4 DEF ReadEnd
  <2>2. /\ delivered' \in Seq(1 .. Len(content))
        /\ Len(delivered') = Len(delivered) + left
    BY <1>1, <1>2, <2>1, HandOverStep
  <2>3. CASE /\ aposition + left = Len(content) /\ body' = "ended" /\ left' = 0
             /\ err' = "EOF" /\ UNCHANGED failed
    BY <1>1, <1>2, <2>1, <2>2, <2>3 DEF StreamTypeOK, StreamInv
  <2>4. CASE RequestNext(aposition + left, "ended")
    <3>1. /\ body' \in {"open", "ended"}
          /\ left' \in 0 .. Len(content) - (aposition + left)
          /\ err' \in {"nil", "error"}
          /\ failed' \in failed .. MaxFailed
          /\ failed' = 0 => err' = "nil" /\ body' = "open"
      BY <1>1, <1>2, <2>4, RequestStep
    <3> QED
      BY <1>1, <1>2, <2>1, <2>2, <3>1 DEF StreamTypeOK, StreamInv
  <2> QED
    BY <1>4, <2>3, <2>4 DEF ReadEnd
<1>5. CASE ReadCut
  <2>1. /\ delivered' \in Seq(1 .. Len(content))
        /\ Len(delivered') >= Len(delivered)
        /\ cuts' \in 0 .. MaxCuts /\ uncounted' \in 0 .. cuts'
    <3>1. CASE /\ body = "open" /\ left > 0 /\ cuts < MaxCuts
               /\ cuts' = cuts + 1
               /\ \E n \in 0 .. left :
                    /\ HandOver(n)
                    /\ uncounted' = IF n > 0 THEN uncounted + 1 ELSE uncounted
      <4>1. PICK n \in 0 .. left :
              /\ HandOver(n)
              /\ uncounted' = IF n > 0 THEN uncounted + 1 ELSE uncounted
        BY <3>1
      <4>2. /\ delivered' \in Seq(1 .. Len(content))
            /\ Len(delivered') = Len(delivered) + n
        BY <1>1, <1>2, <4>1, HandOverStep
      <4> QED
        BY <1>1, <1>2, <3>1, <4>1, <4>2
    <3>2. CASE body = "broken" /\ UNCHANGED <<cuts, uncounted, delivered>>
      BY <1>2, <3>2
    <3> QED
      BY <1>5, <3>1, <3>2 DEF ReadCut
  <2>2. content' = content /\ aposition' = aposition
    BY <1>5 DEF ReadCut
  <2>3. /\ body' \in {"open", "broken"}
        /\ left' \in 0 .. Len(content) - aposition
        /\ err' \in {"nil", "error"}
        /\ failed' \in failed .. MaxFailed
        /\ failed' = 0 => err' = "nil" /\ body' = "open"
    BY <1>1, <1>2, <1>5, RequestStep DEF ReadCut
  <2> QED
    BY <1>1, <1>2, <2>1, <2>2, <2>3 DEF StreamTypeOK, StreamInv
<1> QED
  BY <1>3, <1>4, <1>5 DEF Read

\* A read that hands over n units and counts them, or hands over none, leaves
\* everything at its place.
LEMMA HandedInPlace ==
  ASSUME StreamTypeOK, InPlace, NEW n \in Nat, HandOver(n),
         aposition + n <= Len(content),
         n = 0 \/ uncounted' # 0 \/ aposition' = aposition + n,
         n # 0 \/ aposition' = aposition,
         uncounted' = 0 => uncounted = 0
  PROVE  InPlace'
<1> SUFFICES ASSUME uncounted' = 0
             PROVE  /\ aposition' = Len(delivered')
                    /\ \A i \in 1 .. Len(delivered') : delivered'[i] = i
  BY DEF InPlace
<1>1. aposition = Len(delivered) /\ \A i \in 1 .. Len(delivered) : delivered[i] = i
  BY DEF InPlace
<1>2. /\ Len(delivered) \in Nat /\ Len(delivered') = Len(delivered) + n
      /\ \A i \in 1 .. Len(delivered) : delivered'[i] = delivered[i]
      /\ \A i \in 1 .. n : delivered'[Len(delivered) + i] = aposition + i
  <2>1. Len(delivered) \in Nat
    BY DEF StreamTypeOK
  <2> QED
    BY <2>1, ContentTyped, HandOverStep
<1>3. aposition' = Len(delivered')
  BY <1>1, <1>2
<1>4. ASSUME NEW i \in 1 .. Len(delivered') PROVE delivered'[i] = i
  <2>1. CASE i <= Len(delivered)
    BY <1>1, <1>2, <2>1
  <2>2. CASE i > Len(delivered)
    <3>1. PICK j : j = i - Len(delivered)
      OBVIOUS
    <3>2. j \in 1 .. n /\ i = Len(delivered) + j
      BY <1>2, <2>2, <3>1
    <3> QED
      BY <1>1, <1>2, <3>2
  <2> QED
    BY <1>2, <2>1, <2>2
<1> QED
  BY <1>3, <1>4

LEMMA ReadInPlace ==
  ASSUME StreamTypeOK, InPlace, Read
  PROVE  InPlace'
<1>1. /\ aposition \in 0 .. Len(content) /\ left \in 0 .. Len(content) - aposition
      /\ Len(content) \in Nat /\ uncounted \in Nat
  BY ContentTyped, MaxCutsAssumption DEF StreamTypeOK
<1>2. CASE ReadData
  <2>1. PICK n \in 1 .. left : HandOver(n) /\ aposition' = aposition + n
    BY <1>2 DEF ReadData
  <2>2. n \in Nat /\ n # 0 /\ aposition + n <= Len(content)
    BY <1>1
  <2> QED
    BY <1>2, <2>1, <2>2, HandedInPlace DEF ReadData
<1>3. CASE ReadEnd
  <2>1. /\ HandOver(left) /\ aposition' = aposition + left
        /\ uncounted' = uncounted
    BY <1>3 DEF ReadEnd
  <2>2. left \in Nat /\ aposition + left <= Len(content)
        /\ (left # 0 \/ aposition' = aposition)
    BY <1>1, <2>1
  <2> QED
    BY <2>1, <2>2, HandedInPlace
<1>4. CASE ReadCut
  <2>1. CASE body = "broken" /\ UNCHANGED <<uncounted, delivered>>
    BY <1>4, <2>1 DEF ReadCut, InPlace
  <2>2. CASE \E n \in 0 .. left :
               /\ HandOver(n)
               /\ uncounted' = IF n > 0 THEN uncounted + 1 ELSE uncounted
    <3>1. PICK n \in 0 .. left :
            /\ HandOver(n)
            /\ uncounted' = IF n > 0 THEN uncounted + 1 ELSE uncounted
      BY <2>2
    <3>2. /\ n \in Nat /\ aposition + n <= Len(content)
          /\ n = 0 \/ uncounted' # 0
          /\ uncounted' = 0 => uncounted = 0
      BY <1>1, <3>1
    <3>3. aposition' = aposition
      BY <1>4 DEF ReadCut
    <3> QED
      BY <3>1, <3>2, <3>3, HandedInPlace
  <2> QED
    BY <1>4, <2>1, <2>2 DEF ReadCut
<1> QED
  BY <1>2, <1>3, <1>4 DEF Read

-----------------------------------------------------------------------------
(* The pipeline.                                                            *)

LEMMA InitInv == Init => IInv
<1> SUFFICES ASSUME Init PROVE IInv
  OBVIOUS
<1>1. content \in Seq(Kinds) /\ Len(content) \in Nat
  BY ContentsAssumption DEF Init, StreamInit
<1>2. left \in 0 .. Len(content)
  BY <1>1 DEF Init, StreamInit, Lengths
<1>3. StreamTypeOK
  BY <1>1, <1>2, MaxCutsAssumption, MaxFailedAssumption
  DEF Init, StreamInit, StreamTypeOK
<1>4. /\ pc \in Calls /\ parsed = 0 /\ lost = {} /\ Blocks = <<>>
      /\ pcmbuff = <<>> /\ played = <<>>
      /\ doneReadingMatroska = FALSE /\ doneReading = FALSE
  BY DEF Init, Calls
<1>5. Len(pcmbuff) < neededSamples + BlockSamples
  BY <1>4, BlockSamplesAssumption, neededSamplesAssumption
<1>6. TypeOK
  <2>1. /\ Blocks \in Seq(1 .. parsed) /\ pcmbuff \in Seq(1 .. parsed)
        /\ played \in Seq(1 .. parsed)
    BY <1>4, EmptySeq
  <2>2. parsed \in 0 .. Len(content) /\ lost \subseteq 1 .. parsed + 1
    BY <1>1, <1>4
  <2> QED
    BY <1>3, <1>4, <1>5, <2>1, <2>2 DEF TypeOK
<1> QED
  BY <1>1, <1>6 DEF Init, StreamInit, IInv, StreamInv, PipeInv,
                    InPlace, Hurt

\* The steps that leave the stream alone keep what is said of it.
LEMMA StreamKept ==
  ASSUME IInv, UNCHANGED streamVars
  PROVE  StreamTypeOK' /\ StreamInv' /\ InPlace'
  BY DEF IInv, TypeOK, streamVars, StreamTypeOK, StreamInv, InPlace

\* What the parts of IInv say of the pipeline, in one place.
LEMMA Typed ==
  ASSUME IInv
  PROVE  /\ Len(content) \in Nat /\ content \in Seq(Kinds)
         /\ parsed \in 0 .. Len(content)
         /\ Blocks \in Seq(1 .. parsed)
         /\ pcmbuff \in Seq(1 .. parsed) /\ Len(pcmbuff) \in Nat
         /\ played \in Seq(1 .. parsed)
         /\ neededSamples \in Nat \ {0} /\ BlockSamples \in Nat \ {0}
  BY ContentTyped, neededSamplesAssumption, BlockSamplesAssumption
  DEF IInv, TypeOK

\* GetPCMFrame and GetNextFrames.
LEMMA FrameStep ==
  ASSUME IInv,
         \/ ReturnFrame \/ ReturnEOF \/ WantFrame \/ ReadContent
         \/ DecodeFrame \/ DecodeFails \/ NoMoreFrames
  PROVE  IInv'
<1>1. UNCHANGED streamVars /\ UNCHANGED <<parsed, lost>>
  BY DEF ReturnFrame, ReturnEOF, WantFrame, ReadContent, DecodeFrame,
         DecodeFails, NoMoreFrames
<1>2. /\ StreamTypeOK' /\ StreamInv' /\ InPlace'
      /\ content' = content /\ delivered' = delivered
      /\ failed' = failed /\ uncounted' = uncounted
      /\ parsed' = parsed /\ lost' = lost
  BY <1>1, StreamKept DEF streamVars
<1>3. CASE ReturnFrame
  <2>1. /\ SubSeq(pcmbuff, 1, neededSamples) \in Seq(1 .. parsed)
        /\ pcmbuff' \in Seq(1 .. parsed)
        /\ Len(pcmbuff') \in Nat
        /\ Len(pcmbuff') = Len(pcmbuff) - neededSamples
    <3>1. /\ pcmbuff \in Seq(1 .. parsed) /\ Len(pcmbuff) \in Nat
          /\ neededSamples \in Nat /\ neededSamples <= Len(pcmbuff)
      BY <1>3, Typed DEF ReturnFrame
    <3>2. pcmbuff' = SubSeq(pcmbuff, neededSamples + 1, Len(pcmbuff))
      BY <1>3 DEF ReturnFrame
    <3>3. /\ SubSeq(pcmbuff, 1, neededSamples) \in Seq(1 .. parsed)
          /\ SubSeq(pcmbuff, neededSamples + 1, Len(pcmbuff))
               \in Seq(1 .. parsed)
          /\ Len(SubSeq(pcmbuff, neededSamples + 1, Len(pcmbuff)))
               = Len(pcmbuff) - neededSamples
      BY <3>1, Cut
    <3> QED
      BY <3>1, <3>2, <3>3
  <2>2. played' \in Seq(1 .. parsed)
    BY <1>3, <2>1, Typed, Concatenation DEF ReturnFrame
  <2>3. Len(pcmbuff') < neededSamples + BlockSamples
    BY <2>1, Typed DEF IInv, TypeOK
  <2>4. /\ pc = "GetPCMFrame" /\ pc' = pc /\ Blocks' = Blocks
        /\ doneReadingMatroska' = doneReadingMatroska
        /\ doneReading' = doneReading
    BY <1>3 DEF ReturnFrame
  <2>5. TypeOK'
    BY <1>2, <2>1, <2>2, <2>3, <2>4 DEF IInv, TypeOK
  <2> QED
    BY <1>2, <2>4, <2>5 DEF IInv, PipeInv, Hurt
<1>4. CASE ReturnEOF
  BY <1>2, <1>4, Typed
  DEF ReturnEOF, IInv, TypeOK, PipeInv, Hurt, Ends
<1>5. CASE WantFrame
  BY <1>2, <1>5, Typed
  DEF WantFrame, IInv, TypeOK, PipeInv, Hurt, Calls
<1>6. CASE ReadContent
  BY <1>2, <1>6, Typed
  DEF ReadContent, IInv, TypeOK, PipeInv, Hurt, Calls
<1>7. CASE DecodeFrame
  <2>1. Head(Blocks) \in 1 .. parsed /\ Tail(Blocks) \in Seq(1 .. parsed)
    BY <1>7, Typed DEF DecodeFrame
  <2>2. /\ Pcm(Head(Blocks)) \in Seq(1 .. parsed)
        /\ Len(Pcm(Head(Blocks))) = BlockSamples
    BY <2>1, Typed, PcmSamples
  <2>3. /\ pcmbuff' \in Seq(1 .. parsed)
        /\ Len(pcmbuff') = Len(pcmbuff) + BlockSamples
    BY <1>7, <2>2, Typed, Concatenation DEF DecodeFrame
  <2>4. Len(pcmbuff) < neededSamples
    BY <1>7 DEF DecodeFrame, IInv, PipeInv
  <2> QED
    BY <1>2, <1>7, <2>1, <2>3, <2>4, Typed, SMTT(30)
    DEF DecodeFrame, IInv, TypeOK, PipeInv, Hurt, Calls
<1>8. CASE DecodeFails
  <2>1. Head(Blocks) \in 1 .. parsed /\ Tail(Blocks) \in Seq(1 .. parsed)
    BY <1>8, Typed DEF DecodeFails
  <2> QED
    BY <1>2, <1>8, <2>1, Typed
    DEF DecodeFails, IInv, TypeOK, PipeInv, Hurt, Ends
<1>9. CASE NoMoreFrames
  BY <1>2, <1>9, Typed
  DEF NoMoreFrames, IInv, TypeOK, PipeInv, Hurt, Calls
<1> QED
  BY <1>3, <1>4, <1>5, <1>6, <1>7, <1>8, <1>9

-----------------------------------------------------------------------------
\* ReadContent on a unit that is there: parsed moves on by one, or not at all.
LEMMA UnitStep ==
  ASSUME IInv,
         \/ ReadCluster \/ ReadOther \/ EndSegment \/ EndCluster
         \/ ReadBlockHead \/ ParseBlock \/ ParseBlockRefuses \/ SkipRest
         \/ MeetRepeated
  PROVE  IInv'
<1>1. /\ UNCHANGED streamVars
      /\ doneReading' = doneReading /\ pcmbuff' = pcmbuff /\ played' = played
  BY DEF ReadCluster, ReadOther, EndSegment, EndCluster, ReadBlockHead,
         ParseBlock, ParseBlockRefuses, SkipRest, MeetRepeated
<1>2. /\ StreamTypeOK' /\ StreamInv' /\ InPlace'
      /\ content' = content /\ delivered' = delivered
      /\ failed' = failed /\ uncounted' = uncounted
  BY <1>1, StreamKept DEF streamVars
<1>3. /\ pc \in {"segment", "cluster", "block", "rest"}
      /\ ~doneReadingMatroska /\ ~doneReading
      /\ Len(pcmbuff) < neededSamples
  BY DEF IInv, PipeInv, ReadCluster, ReadOther, EndSegment, EndCluster,
         ReadBlockHead, ParseBlock, ParseBlockRefuses, SkipRest, MeetRepeated
<1>4. ASSUME NEW kinds, Have(kinds)
      PROVE  /\ parsed' = parsed + 1 /\ parsed' \in 0 .. Len(content)
             /\ parsed' <= Len(delivered)
             /\ content[parsed + 1] \in kinds
             /\ lost \subseteq 1 .. parsed' + 1
             /\ Blocks \in Seq(1 .. parsed')
             /\ pcmbuff \in Seq(1 .. parsed') /\ played \in Seq(1 .. parsed')
  <2>1. /\ parsed' = parsed + 1 /\ parsed < Len(delivered)
        /\ delivered[parsed + 1] = parsed + 1
        /\ content[parsed + 1] \in kinds
    BY <1>4 DEF Have
  <2>2. delivered[parsed + 1] \in 1 .. Len(content)
    BY <2>1, Typed, SMTT(30) DEF IInv, TypeOK, StreamTypeOK
  <2>3. parsed' \in 0 .. Len(content) /\ parsed' <= Len(delivered)
    BY <2>1, <2>2, Typed DEF IInv, TypeOK, StreamTypeOK
  <2>4. /\ Blocks \in Seq(1 .. parsed')
        /\ pcmbuff \in Seq(1 .. parsed') /\ played \in Seq(1 .. parsed')
    <3>1. parsed \in Nat /\ parsed' \in Nat /\ parsed <= parsed'
      BY <2>1, Typed
    <3> QED
      BY <3>1, Typed, SeqGrows
  <2>5. lost \subseteq 1 .. parsed' + 1
    BY <2>1, Typed DEF IInv, TypeOK
  <2> QED
    BY <2>1, <2>3, <2>4, <2>5
<1>5. CASE ReadCluster \/ ReadOther \/ SkipRest
  <2>1. /\ Have({"cluster"}) \/ Have({"cue"}) \/ Have(Kinds)
        /\ pc' \in {"cluster", "GetNextFrames"}
        /\ UNCHANGED <<lost, Blocks, doneReadingMatroska>>
    BY <1>5 DEF ReadCluster, ReadOther, SkipRest
  <2>2. /\ parsed' = parsed + 1 /\ parsed' \in 0 .. Len(content)
        /\ parsed' <= Len(delivered)
        /\ lost \subseteq 1 .. parsed' + 1
        /\ Blocks \in Seq(1 .. parsed')
        /\ pcmbuff \in Seq(1 .. parsed') /\ played \in Seq(1 .. parsed')
    BY <1>4, <2>1
  <2>3. TypeOK'
    BY <1>1, <1>2, <2>1, <2>2 DEF IInv, TypeOK, Calls
  <2> QED
    BY <1>1, <1>2, <1>3, <2>1, <2>2, <2>3
    DEF IInv, PipeInv, Hurt
<1>6. CASE EndSegment
  BY <1>1, <1>2, <1>3, <1>6 DEF EndSegment, IInv, TypeOK, PipeInv,
     Hurt, Calls
<1>7. CASE EndCluster
  BY <1>1, <1>2, <1>3, <1>7 DEF EndCluster, IInv, TypeOK, PipeInv,
     Hurt, Calls
<1>8. CASE ReadBlockHead
  <2>1. /\ Have({"head"}) /\ pc' = "block"
        /\ UNCHANGED <<lost, Blocks, doneReadingMatroska>>
    BY <1>8 DEF ReadBlockHead
  <2>2. /\ parsed' = parsed + 1 /\ parsed' \in 0 .. Len(content)
        /\ parsed' <= Len(delivered)
        /\ content[parsed + 1] = "head"
        /\ lost \subseteq 1 .. parsed' + 1
        /\ Blocks \in Seq(1 .. parsed')
        /\ pcmbuff \in Seq(1 .. parsed') /\ played \in Seq(1 .. parsed')
    BY <1>4, <2>1
  <2>3. parsed' < Len(content)
    <3>1. WellFormed(content) /\ Len(content) \in Nat
      BY ContentTyped DEF IInv, TypeOK
    <3>2. ~(parsed' = Len(content))
      BY <2>2, <3>1, Typed DEF WellFormed
    <3> QED
      BY <2>2, <3>1, <3>2
  <2>4. TypeOK'
    BY <1>1, <1>2, <2>1, <2>2 DEF IInv, TypeOK, Calls
  <2> QED
    BY <1>1, <1>2, <1>3, <2>1, <2>2, <2>3, <2>4
    DEF IInv, PipeInv, Hurt
<1>9. CASE ParseBlock
  <2>1. /\ Have({"data", "corrupt"}) /\ pc' = "cluster"
        /\ Blocks' = Append(Blocks, parsed + 1)
        /\ UNCHANGED <<lost, doneReadingMatroska>>
    BY <1>9 DEF ParseBlock
  <2>2. /\ parsed' = parsed + 1 /\ parsed' \in 0 .. Len(content)
        /\ parsed' <= Len(delivered)
        /\ lost \subseteq 1 .. parsed' + 1
        /\ Blocks \in Seq(1 .. parsed')
        /\ pcmbuff \in Seq(1 .. parsed') /\ played \in Seq(1 .. parsed')
    BY <1>4, <2>1
  <2>3. Blocks' \in Seq(1 .. parsed')
    BY <2>1, <2>2, Typed
  <2>4. TypeOK'
    BY <1>1, <1>2, <2>1, <2>2, <2>3 DEF IInv, TypeOK, Calls
  <2> QED
    BY <1>1, <1>2, <1>3, <2>1, <2>2, <2>4
    DEF IInv, PipeInv, Hurt
<1>10. CASE ParseBlockRefuses
  <2>1. /\ Have({"laced"}) /\ pc' = "cluster"
        /\ lost' = lost \cup {parsed + 1}
        /\ UNCHANGED <<Blocks, doneReadingMatroska>>
    BY <1>10 DEF ParseBlockRefuses
  <2>2. /\ parsed' = parsed + 1 /\ parsed' \in 0 .. Len(content)
        /\ parsed' <= Len(delivered)
        /\ content[parsed + 1] = "laced"
        /\ lost \subseteq 1 .. parsed' + 1
        /\ Blocks \in Seq(1 .. parsed')
        /\ pcmbuff \in Seq(1 .. parsed') /\ played \in Seq(1 .. parsed')
    BY <1>4, <2>1
  <2>3. lost' \subseteq 1 .. parsed' + 1
    <3>1. parsed \in Nat /\ parsed' \in Nat
      BY <2>2, Typed
    <3>2. parsed + 1 \in 1 .. parsed' + 1
      BY <2>2, <3>1
    <3> QED
      BY <2>1, <2>2, <3>2
  <2>4. TypeOK'
    BY <1>1, <1>2, <2>1, <2>2, <2>3 DEF IInv, TypeOK, Calls
  <2> QED
    BY <1>1, <1>2, <1>3, <2>1, <2>2, <2>4
    DEF IInv, PipeInv, Hurt
<1>11. CASE MeetRepeated
  <2>1. /\ parsed < Len(delivered) /\ delivered[parsed + 1] # parsed + 1
        /\ pc' = "garbled"
        /\ UNCHANGED <<parsed, lost, Blocks, doneReadingMatroska>>
    BY <1>11 DEF MeetRepeated
  <2>2. parsed + 1 \in 1 .. Len(delivered) /\ uncounted \in Nat
    BY <2>1, Typed, MaxCutsAssumption DEF IInv, TypeOK, StreamTypeOK
  <2>3. uncounted > 0
    BY <2>1, <2>2 DEF IInv, InPlace
  <2>4. TypeOK'
    BY <1>1, <1>2, <2>1 DEF IInv, TypeOK, Ends
  <2>5. PipeInv' /\ Hurt'
    BY <1>1, <1>2, <1>3, <2>1, <2>3 DEF IInv, PipeInv, Hurt
  <2> QED
    BY <1>2, <2>4, <2>5 DEF IInv
<1> QED
  BY <1>5, <1>6, <1>7, <1>8, <1>9, <1>10, <1>11

-----------------------------------------------------------------------------
\* Reading from the stream.  That it comes with nothing new can be EOF only when
\* everything is parsed, and otherwise a failed request.
LEMMA FillStep ==
  ASSUME IInv, Fill
  PROVE  IInv'
<1>1. /\ StreamTypeOK' /\ StreamInv' /\ InPlace' /\ content' = content
      /\ Len(delivered') >= Len(delivered) /\ failed' >= failed
  BY ReadStep, ReadInPlace DEF IInv, TypeOK, Fill
<1>2. /\ parsed' = parsed /\ Blocks' = Blocks /\ doneReading' = doneReading
      /\ pcmbuff' = pcmbuff /\ played' = played
      /\ parsed = Len(delivered)
      /\ pc \in {"segment", "cluster", "block", "rest"}
      /\ ~doneReadingMatroska /\ ~doneReading /\ Len(pcmbuff) < neededSamples
  BY DEF IInv, PipeInv, Fill
<1>3. /\ parsed \in Nat /\ Len(content) \in Nat /\ parsed <= Len(content)
      /\ Len(delivered') \in Nat /\ parsed <= Len(delivered')
      /\ failed \in Nat /\ failed' \in Nat /\ aposition' \in 0 .. Len(content)
  BY <1>1, <1>2, Typed, MaxFailedAssumption, SMTT(30) DEF IInv, TypeOK, StreamTypeOK
<1>4. failed' = 0 => failed = 0
  BY <1>1, <1>3
<1>5. CASE UNCHANGED <<pc, lost, doneReadingMatroska>>
  <2>1. TypeOK'
    BY <1>1, <1>2, <1>5 DEF IInv, TypeOK
  <2>2. PipeInv'
    BY <1>1, <1>2, <1>3, <1>5 DEF IInv, PipeInv
  <2>3. Hurt'
    BY <1>2, <1>5 DEF Hurt
  <2> QED
    BY <1>1, <2>1, <2>2, <2>3 DEF IInv
<1>6. CASE Len(delivered') = parsed /\ err' # "nil" /\ (ElementFails \/ BlockFails)
  <2>1. err' \in {"EOF", "error"}
    BY <1>1, <1>6 DEF StreamTypeOK
  <2>2. err' = "EOF" => parsed = Len(content)
    BY <1>1, <1>3, <1>6 DEF StreamInv
  <2>3. failed' = 0 => err' = "EOF"
    BY <1>1, <2>1 DEF StreamInv
  <2>4. CASE ElementFails
    <3>1. /\ lost' = lost /\ pc # "block"
          /\ pc' = IF err' = "EOF" THEN "GetNextFrames" ELSE "error"
          /\ doneReadingMatroska' \in BOOLEAN
          /\ doneReadingMatroska' => err' = "EOF"
      BY <1>2, <2>4 DEF ElementFails
    <3>2. TypeOK'
      BY <1>1, <1>2, <3>1 DEF IInv, TypeOK, Calls, Ends
    <3>3. PipeInv'
      BY <1>1, <1>2, <1>3, <2>2, <3>1 DEF PipeInv
    <3>4. Hurt'
      BY <1>3, <2>3, <3>1 DEF Hurt
    <3> QED
      BY <1>1, <3>2, <3>3, <3>4 DEF IInv
  <2>5. CASE BlockFails
    <3>1. /\ pc = "block" /\ lost' = lost \cup {parsed + 1}
          /\ pc' \in {"rest", "garbled"}
          /\ doneReadingMatroska' = doneReadingMatroska
      BY <2>5 DEF BlockFails
    <3>2. parsed < Len(content)
      BY <3>1 DEF IInv, PipeInv
    <3>3. failed' # 0
      BY <1>3, <2>2, <2>3, <3>2
    <3>4. lost' \subseteq 1 .. parsed + 1
      <4>1. parsed + 1 \in 1 .. parsed + 1
        BY <1>3
      <4> QED
        BY <3>1, <4>1 DEF IInv, TypeOK
    <3>5. TypeOK'
      BY <1>1, <1>2, <3>1, <3>4 DEF IInv, TypeOK, Calls, Ends
    <3>6. PipeInv'
      BY <1>1, <1>2, <1>3, <3>1 DEF PipeInv
    <3> QED
      BY <1>1, <1>3, <3>1, <3>3, <3>5, <3>6 DEF IInv, Hurt
  <2> QED
    BY <1>6, <2>4, <2>5
<1> QED
  BY <1>5, <1>6 DEF Fill

-----------------------------------------------------------------------------
LEMMA NextInv == IInv /\ [Next]_vars => IInv'
<1> SUFFICES ASSUME IInv, [Next]_vars PROVE IInv'
  OBVIOUS
<1>1. CASE ReadContentStep
  BY <1>1, UnitStep, FillStep DEF ReadContentStep
<1>2. CASE Next /\ ~ReadContentStep
  BY <1>2, FrameStep DEF Next
<1>3. CASE UNCHANGED vars
  BY <1>3 DEF vars, streamVars, pipeVars, IInv, TypeOK, StreamTypeOK,
     StreamInv, InPlace, PipeInv, Hurt
<1> QED
  BY <1>1, <1>2, <1>3

LEMMA Inductive == Spec => []IInv
  BY InitInv, NextInv, PTL DEF Spec

\* Every variable keeps its type, and pcmbuff never holds more than a frame and
\* a block (GetPCMFrame).
THEOREM TypeCorrect == Spec => []TypeOK
<1>1. IInv => TypeOK
  BY DEF IInv
<1> QED
  BY <1>1, Inductive, PTL

\* A track that ends with EOF was read to its end, however responses end, break
\* or are refused (persistentYoutubeStream.Read, GetNextFrames).
THEOREM EOFIsTheEndAlways == Spec => []EOFIsTheEnd
<1>1. IInv => EOFIsTheEnd
  BY DEF IInv, PipeInv, EOFIsTheEnd
<1> QED
  BY <1>1, Inductive, PTL

\* How many blocks were lost to failed requests, those that parseBlock refuses
\* aside.
LostData == {b \in lost : content[b] # "laced"}
Cost == Cardinality(LostData) <= failed

LEMMA CostInit == Init => Cost
<1> SUFFICES ASSUME Init PROVE Cost
  OBVIOUS
<1>1. LostData = {} /\ failed = 0
  BY DEF Init, StreamInit, LostData
<1> QED
  BY <1>1, FS_EmptySet DEF Cost

\* A block is lost in a step that parses a laced one, or in a read that comes with
\* nothing because its request failed.
LEMMA LostStep ==
  ASSUME IInv, [Next]_vars
  PROVE  /\ content' = content /\ failed \in Nat /\ failed' \in Nat
         /\ \/ LostData' \subseteq LostData /\ failed' >= failed
            \/ LostData' \subseteq LostData \cup {parsed + 1}
               /\ failed' >= failed + 1
<1>0. failed \in Nat /\ MaxFailed \in Nat
  BY MaxFailedAssumption DEF IInv, TypeOK, StreamTypeOK
<1>1. CASE \/ ReturnFrame \/ ReturnEOF \/ WantFrame \/ ReadContent
           \/ DecodeFrame \/ DecodeFails \/ NoMoreFrames
           \/ ReadCluster \/ ReadOther \/ EndSegment \/ EndCluster
           \/ ReadBlockHead \/ ParseBlock \/ SkipRest \/ MeetRepeated
           \/ UNCHANGED vars
  <2>1. UNCHANGED <<content, failed, lost>>
    BY <1>1 DEF ReturnFrame, ReturnEOF, WantFrame, ReadContent, DecodeFrame,
         DecodeFails, NoMoreFrames, ReadCluster, ReadOther, EndSegment,
         EndCluster, ReadBlockHead, ParseBlock, SkipRest, MeetRepeated, vars,
         streamVars, pipeVars
  <2> QED
    BY <1>0, <2>1 DEF LostData
<1>2. CASE ParseBlockRefuses
  <2>1. /\ UNCHANGED <<content, failed>> /\ lost' = lost \cup {parsed + 1}
        /\ content[parsed + 1] = "laced"
    BY <1>2 DEF ParseBlockRefuses, Have, streamVars
  <2> QED
    BY <1>0, <2>1 DEF LostData
<1>3. CASE Fill
  <2>1. /\ StreamTypeOK' /\ StreamInv' /\ content' = content
        /\ failed' >= failed /\ failed' \in Nat
    BY <1>3, <1>0, ReadStep DEF IInv, TypeOK, Fill, StreamTypeOK
  <2>2. CASE lost' = lost
    BY <1>0, <2>1, <2>2 DEF LostData
  <2>3. CASE BlockFails /\ Len(delivered') = parsed /\ err' # "nil"
    <3>1. /\ pc = "block" /\ lost' = lost \cup {parsed + 1}
          /\ parsed < Len(content)
      BY <2>3 DEF BlockFails, IInv, PipeInv
    <3>2. err' = "error"
      BY <2>1, <2>3, <3>1, Typed DEF StreamInv, StreamTypeOK
    <3>3. failed' = failed + 1
      BY <1>3, <3>2 DEF Fill, Read, ReadData, ReadEnd, ReadCut, RequestNext
    <3> QED
      BY <1>0, <2>1, <3>1, <3>3 DEF LostData
  <2> QED
    BY <1>3, <2>2, <2>3 DEF Fill, ElementFails
<1> QED
  BY <1>1, <1>2, <1>3 DEF Next, ReadContentStep

LEMMA CostStep == IInv /\ Cost /\ [Next]_vars => Cost'
<1> SUFFICES ASSUME IInv, Cost, [Next]_vars PROVE Cost'
  OBVIOUS
<1>1. IsFiniteSet(LostData)
  <2>1. lost \subseteq 1 .. parsed + 1 /\ parsed \in Nat
    BY Typed DEF IInv, TypeOK
  <2>2. IsFiniteSet(1 .. parsed + 1)
    BY <2>1, FS_Interval
  <2>3. LostData \subseteq 1 .. parsed + 1
    BY <2>1 DEF LostData
  <2> QED
    BY <2>2, <2>3, FS_Subset
<1>2. Cardinality(LostData) \in Nat /\ Cardinality(LostData) <= failed
  BY <1>1, FS_CardinalityType DEF Cost
<1>3. CASE LostData' \subseteq LostData /\ failed' >= failed
  <2>1. Cardinality(LostData') <= Cardinality(LostData)
        /\ Cardinality(LostData') \in Nat
    BY <1>1, <1>3, FS_Subset, FS_CardinalityType
  <2> QED
    BY <1>2, <1>3, <2>1, LostStep DEF Cost
<1>4. CASE /\ LostData' \subseteq LostData \cup {parsed + 1}
           /\ failed' >= failed + 1
  <2>1. /\ IsFiniteSet(LostData \cup {parsed + 1})
        /\ Cardinality(LostData \cup {parsed + 1}) \in
             {Cardinality(LostData), Cardinality(LostData) + 1}
    BY <1>1, FS_AddElement
  <2>2. /\ Cardinality(LostData') <= Cardinality(LostData \cup {parsed + 1})
        /\ Cardinality(LostData') \in Nat
    BY <1>4, <2>1, FS_Subset, FS_CardinalityType
  <2>3. Cardinality(LostData') <= Cardinality(LostData) + 1
    BY <1>2, <2>1, <2>2
  <2> QED
    BY <1>2, <1>4, <2>2, <2>3, LostStep DEF Cost
<1> QED
  BY <1>3, <1>4, LostStep

\* However often connections break and requests fail: each failed request costs
\* one block at most, and what is parsed differs from the content, or a track ends
\* with an error, only after a failed request, after data that came with an error
\* and was not counted, or at a block that cannot be decoded
\* (persistentYoutubeStream.Read, RequestNext).
THEOREM OnlyFailuresHurtAlways == Spec => []OnlyFailuresHurt
<1>1. Init => IInv /\ Cost
  BY InitInv, CostInit
<1>2. (IInv /\ Cost) /\ [Next]_vars => (IInv /\ Cost)'
  BY NextInv, CostStep
<1>3. IInv /\ Cost => OnlyFailuresHurt
  BY Zenon DEF IInv, Hurt, Cost, LostData, OnlyFailuresHurt
<1> QED
  BY <1>1, <1>2, <1>3, PTL DEF Spec

-----------------------------------------------------------------------------
(* Sequences of blocks and of samples.                                      *)

\* Appending to the second of two sequences is appending to both.
LEMMA AppendToConcat ==
  ASSUME NEW S, NEW s \in Seq(S), NEW t \in Seq(S), NEW e \in S
  PROVE  s \o Append(t, e) = Append(s \o t, e)
<1>1. /\ Append(t, e) = t \o <<e>> /\ <<e>> \in Seq(S)
      /\ s \o t \in Seq(S) /\ Append(s \o t, e) = (s \o t) \o <<e>>
  BY AppendIsConcat, ConcatProperties
<1> QED BY <1>1, ConcatAssociative

\* A block taken from the front of one sequence and put at the end of another
\* leaves the two together what they are.
LEMMA MoveHead ==
  ASSUME NEW S, NEW s \in Seq(S), NEW t \in Seq(S), t # <<>>
  PROVE  /\ Append(s, Head(t)) \in Seq(S)
         /\ Append(s, Head(t)) \o Tail(t) = s \o t
<1>1. Head(t) \in S /\ Tail(t) \in Seq(S) /\ t = <<Head(t)>> \o Tail(t)
  OBVIOUS
<1>2. <<Head(t)>> \in Seq(S) /\ Append(s, Head(t)) = s \o <<Head(t)>>
  BY <1>1, AppendIsConcat
<1>3. Append(s, Head(t)) \in Seq(S)
  BY <1>1
<1>4. (s \o <<Head(t)>>) \o Tail(t) = s \o (<<Head(t)>> \o Tail(t))
  BY <1>1, <1>2, ConcatAssociative
<1> QED BY <1>1, <1>2, <1>3, <1>4

\* Without its last element, a sequence that ends in one of length one.
LEMMA FrontOfOne ==
  ASSUME NEW S, NEW s \in Seq(S), NEW t \in Seq(S), Len(t) = 1
  PROVE  s \o t # <<>> /\ Front(s \o t) = s
<1>1. /\ s \o t \in Seq(S) /\ Len(s \o t) = Len(s) + 1 /\ Len(s) \in Nat
      /\ \A i \in 1 .. Len(s) : (s \o t)[i] = s[i]
  BY ConcatProperties, SMTT(30)
<1>2. Front(s \o t) = SubSeq(s \o t, 1, Len(s))
  BY <1>1 DEF Front
<1>3. /\ SubSeq(s \o t, 1, Len(s)) \in Seq(S)
      /\ Len(SubSeq(s \o t, 1, Len(s))) = Len(s)
      /\ \A i \in 1 .. Len(s) : SubSeq(s \o t, 1, Len(s))[i] = s[i]
  BY <1>1
<1>4. SubSeq(s \o t, 1, Len(s)) = s
  BY <1>3, SeqEqual
<1>5. Len(s \o t) # 0
  BY <1>1
<1> QED BY <1>2, <1>4, <1>5

\* A sequence cut in two and joined again.
LEMMA CutAndJoined ==
  ASSUME NEW S, NEW s \in Seq(S), NEW t \in Seq(S), NEW n \in 1 .. Len(t)
  PROVE  (s \o SubSeq(t, 1, n)) \o SubSeq(t, n + 1, Len(t)) = s \o t
<1>1. /\ SubSeq(t, 1, n) \in Seq(S) /\ SubSeq(t, n + 1, Len(t)) \in Seq(S)
      /\ Len(t) \in Nat
  OBVIOUS
<1>2. SubSeq(t, 1, n) \o SubSeq(t, n + 1, Len(t)) = SubSeq(t, 1, Len(t))
  BY <1>1, ConcatAdjacentSubSeq
<1>3. SubSeq(t, 1, Len(t)) = t
  BY SubSeqFull
<1> DEFINE u == SubSeq(t, 1, n)
           v == SubSeq(t, n + 1, Len(t))
<1>4. (s \o u) \o v = s \o (u \o v)
  <2>1. u \in Seq(S) /\ v \in Seq(S)
    BY <1>1
  <2> HIDE DEF u, v
  <2> QED BY <2>1, ConcatAssociative, SMTT(30)
<1> QED BY <1>2, <1>3, <1>4

LEMMA PrefixOfConcat ==
  ASSUME NEW S, NEW s \in Seq(S), NEW t \in Seq(S)
  PROVE  IsPrefix(s, s \o t)
<1>1. /\ s \o t \in Seq(S) /\ Len(s \o t) = Len(s) + Len(t)
      /\ Len(s) \in Nat /\ Len(t) \in Nat
      /\ \A i \in 1 .. Len(s) : (s \o t)[i] = s[i]
  BY ConcatProperties
<1>2. SubSeq(s, 1, Len(s)) = s
  BY SubSeqFull
<1>3. /\ SubSeq(s \o t, 1, Len(s)) \in Seq(S)
      /\ Len(SubSeq(s \o t, 1, Len(s))) = Len(s)
      /\ \A i \in 1 .. Len(s) : SubSeq(s \o t, 1, Len(s))[i] = s[i]
  BY <1>1
<1>4. SubSeq(s \o t, 1, Len(s)) = s
  BY <1>3, SeqEqual
<1> QED BY <1>1, <1>2, <1>4 DEF IsPrefix

\* The samples of n blocks are those of the first to the n-th.
LEMMA BlockOfSample ==
  ASSUME NEW n \in Nat, NEW k \in 1 .. BlockSamples * n
  PROVE  ((k - 1) \div BlockSamples) + 1 \in 1 .. n
<1>1. BlockSamples \in Nat /\ BlockSamples >= 1 /\ BlockSamples * n \in Nat
  BY BlockSamplesAssumption
<1>2. k \in Nat /\ k - 1 \in Nat
  BY <1>1
<1>3. PICK q \in Nat, r \in 0 .. BlockSamples - 1 :
        q = (k - 1) \div BlockSamples /\ k - 1 = BlockSamples * q + r
  BY <1>1, <1>2, DivMod
<1>4. ASSUME q >= n PROVE FALSE
  <2>1. PICK d \in Nat : q = n + d
    <3>1. q - n \in Nat /\ q = n + (q - n)
      BY <1>4
    <3> QED BY <3>1
  <2>2. BlockSamples * q = BlockSamples * n + BlockSamples * d
        /\ BlockSamples * d \in Nat
    BY <1>1, <2>1
  <2> QED BY <1>1, <1>2, <1>3, <2>2
<1> QED BY <1>3, <1>4

LEMMA SamplesTyped ==
  ASSUME NEW S, NEW s \in Seq(S)
  PROVE  /\ Samples(s) \in Seq(S)
         /\ Len(Samples(s)) = BlockSamples * Len(s)
<1>1. Len(s) \in Nat /\ BlockSamples * Len(s) \in Nat
  BY BlockSamplesAssumption
<1>2. Samples(s) \in [1 .. BlockSamples * Len(s) -> S]
  BY BlockOfSample, <1>1 DEF Samples
<1> QED BY <1>1, <1>2

\* The samples of two sequences of blocks, one after the other.
LEMMA SamplesConcat ==
  ASSUME NEW S, NEW s \in Seq(S), NEW t \in Seq(S)
  PROVE  Samples(s \o t) = Samples(s) \o Samples(t)
<1>1. /\ BlockSamples \in Nat /\ BlockSamples >= 1
      /\ Len(s) \in Nat /\ Len(t) \in Nat
      /\ s \o t \in Seq(S) /\ Len(s \o t) = Len(s) + Len(t)
      /\ \A i \in 1 .. Len(s) + Len(t) :
           (s \o t)[i] = IF i <= Len(s) THEN s[i] ELSE t[i - Len(s)]
  BY BlockSamplesAssumption, ConcatProperties
<1>2. PICK x \in Nat, y \in Nat :
        /\ x = BlockSamples * Len(s) /\ y = BlockSamples * Len(t)
        /\ x + y = BlockSamples * Len(s \o t)
  <2>1. PICK a \in Nat, b \in Nat : a = Len(s) /\ b = Len(t)
    BY <1>1
  <2>2. /\ BlockSamples * a \in Nat /\ BlockSamples * b \in Nat
        /\ BlockSamples * (a + b) = BlockSamples * a + BlockSamples * b
    BY <1>1
  <2> QED BY <1>1, <2>1, <2>2
<1>3. /\ Samples(s) \in Seq(S) /\ Len(Samples(s)) = x
      /\ Samples(t) \in Seq(S) /\ Len(Samples(t)) = y
      /\ Samples(s \o t) \in Seq(S) /\ Len(Samples(s \o t)) = x + y
  BY <1>1, <1>2, SamplesTyped
<1>4. /\ Samples(s) \o Samples(t) \in Seq(S)
      /\ Len(Samples(s) \o Samples(t)) = x + y
      /\ \A k \in 1 .. x + y :
           (Samples(s) \o Samples(t))[k] =
             IF k <= x THEN Samples(s)[k] ELSE Samples(t)[k - x]
  BY <1>3, ConcatProperties
<1>5. ASSUME NEW k \in 1 .. x + y
      PROVE  Samples(s \o t)[k] =
               IF k <= x THEN Samples(s)[k] ELSE Samples(t)[k - x]
  <2>1. k \in Nat /\ k - 1 \in Nat
    BY <1>2
  <2>2. Samples(s \o t)[k] = (s \o t)[((k - 1) \div BlockSamples) + 1]
    BY <1>2 DEF Samples
  <2>3. ((k - 1) \div BlockSamples) + 1 \in 1 .. Len(s) + Len(t)
    BY <1>1, <1>2, BlockOfSample
  <2>4. CASE k <= x
    <3>1. k \in 1 .. x
      BY <2>1, <2>4, <1>2
    <3>2. ((k - 1) \div BlockSamples) + 1 \in 1 .. Len(s)
      BY <1>1, <1>2, <3>1, BlockOfSample
    <3>3. Samples(s)[k] = s[((k - 1) \div BlockSamples) + 1]
      BY <1>2, <3>1 DEF Samples
    <3> QED BY <1>1, <2>2, <2>3, <2>4, <3>2, <3>3
  <2>5. CASE ~(k <= x)
    <3>1. PICK j \in Nat : /\ j \in 1 .. y /\ j >= 1
                           /\ k = x + j /\ j = k - x
      <4>1. k - x \in Nat /\ k - x \in 1 .. y /\ k - x >= 1 /\ k = x + (k - x)
        BY <1>2, <2>1, <2>5
      <4> QED BY <4>1
    <3>2. PICK q \in Nat, r \in 0 .. BlockSamples - 1 :
            q = (j - 1) \div BlockSamples /\ j - 1 = BlockSamples * q + r
      <4>1. PICK i \in Nat : i = j - 1
        BY <3>1
      <4>2. /\ i \div BlockSamples \in Nat
            /\ i % BlockSamples \in 0 .. BlockSamples - 1
            /\ i = BlockSamples * (i \div BlockSamples) + (i % BlockSamples)
        BY <1>1, DivMod
      <4> QED BY <4>1, <4>2
    <3>3. PICK u \in Nat : u = Len(s) + q
      BY <1>1
    <3>4. BlockSamples * u = x + BlockSamples * q
      <4>1. PICK a \in Nat : a = Len(s)
        BY <1>1
      <4>2. BlockSamples * (a + q) = BlockSamples * a + BlockSamples * q
        BY <1>1
      <4> QED BY <1>2, <3>3, <4>1, <4>2
    <3>5. k - 1 = BlockSamples * u + r
      <4>1. PICK z \in Nat : z = BlockSamples * q
        BY <1>1
      <4>2. r \in Nat
        BY <1>1
      <4> QED BY <3>1, <3>2, <3>4, <4>1, <4>2, SMTT(30)
    <3>6. (BlockSamples * u + r) \div BlockSamples = u
      BY <1>1, DivModUnique
    <3>7. (k - 1) \div BlockSamples = Len(s) + q
      BY <3>3, <3>5, <3>6
    <3>8. Samples(t)[j] = t[q + 1]
      BY <1>2, <3>1, <3>2 DEF Samples
    <3>9. q + 1 \in 1 .. Len(t)
      BY <1>1, <1>2, <3>1, <3>2, BlockOfSample
    <3>10. (s \o t)[(Len(s) + q) + 1] = t[q + 1]
      <4>1. (Len(s) + q) + 1 \in 1 .. Len(s) + Len(t)
        BY <1>1, <3>9
      <4>2. ~((Len(s) + q) + 1 <= Len(s)) /\ ((Len(s) + q) + 1) - Len(s) = q + 1
        BY <1>1, <3>2
      <4> QED BY <1>1, <4>1, <4>2
    <3> QED BY <2>2, <2>5, <3>1, <3>7, <3>8, <3>10
  <2> QED BY <2>4, <2>5
<1>6. Len(Samples(s \o t)) = Len(Samples(s) \o Samples(t))
      /\ \A k \in 1 .. Len(Samples(s \o t)) :
           Samples(s \o t)[k] = (Samples(s) \o Samples(t))[k]
  BY <1>3, <1>4, <1>5
<1> QED BY <1>3, <1>4, <1>6, SeqEqual

LEMMA SamplesOfOne ==
  ASSUME NEW b
  PROVE  Samples(<<b>>) = Pcm(b)
<1>1. Len(<<b>>) = 1 /\ <<b>>[1] = b /\ BlockSamples * 1 = BlockSamples
  BY BlockSamplesAssumption
<1>2. \A k \in 1 .. BlockSamples : ((k - 1) \div BlockSamples) + 1 = 1
  <2> TAKE k \in 1 .. BlockSamples
  <2>1. k \in 1 .. BlockSamples * 1 /\ 1 \in Nat
    BY <1>1
  <2>2. ((k - 1) \div BlockSamples) + 1 \in 1 .. 1
    BY <2>1, BlockOfSample
  <2> QED BY <2>2
<1> QED BY <1>1, <1>2 DEF Samples, Pcm

-----------------------------------------------------------------------------
(* The blocks of a content.                                                 *)

Keeps(c, l, p) == c[p] \in {"data", "corrupt"} /\ p \notin l

LEMMA BlocksUptoIs ==
  ASSUME NEW c, Len(c) \in Nat, NEW l
  PROVE  /\ BlocksUpto(c, l) \in [0 .. Len(c) -> Seq(Nat)]
         /\ BlocksUpto(c, l)[0] = <<>>
         /\ \A p \in 1 .. Len(c) :
              BlocksUpto(c, l)[p] =
                IF Keeps(c, l, p) THEN Append(BlocksUpto(c, l)[p - 1], p)
                                  ELSE BlocksUpto(c, l)[p - 1]
<1> DEFINE step == [e \in Seq(Nat) \X Nat |->
                      IF Keeps(c, l, e[2]) THEN Append(e[1], e[2]) ELSE e[1]]
           none == <<>>
           cut(g) == [p \in 0 .. Len(c) |->
                        IF p = 0 THEN none
                        ELSE IF Keeps(c, l, p) THEN Append(g[p - 1], p)
                                               ELSE g[p - 1]]
<1>1. step \in [Seq(Nat) \X Nat -> Seq(Nat)]
  <2>1. \A e \in Seq(Nat) \X Nat : Append(e[1], e[2]) \in Seq(Nat) /\ e[1] \in Seq(Nat)
    BY AppendProperties
  <2> QED BY <2>1
<1>2. none \in Seq(Nat)
  BY EmptySeq
<1>3. PICK f : IsRecursion(f, Seq(Nat), none, step, Len(c))
  <2> HIDE DEF step, none
  <2> DEFINE S == Seq(Nat)
  <2>1. step \in [S \X Nat -> S] /\ none \in S
    BY <1>1, <1>2
  <2> HIDE DEF S
  <2>2. \E f : IsRecursion(f, S, none, step, Len(c))
    BY <2>1, Recursion, Zenon
  <2> QED BY <2>2 DEF S
<1>4. /\ f \in [0 .. Len(c) -> Seq(Nat)] /\ f[0] = none
      /\ \A p \in 1 .. Len(c) : f[p] = step[<<f[p - 1], p>>]
  BY <1>3 DEF IsRecursion
<1>5. \A p \in 1 .. Len(c) :
        f[p] = IF Keeps(c, l, p) THEN Append(f[p - 1], p) ELSE f[p - 1]
  <2> HIDE DEF none
  <2> TAKE p \in 1 .. Len(c)
  <2>1. p \in Nat /\ p - 1 \in 0 .. Len(c)
    OBVIOUS
  <2>2. <<f[p - 1], p>> \in Seq(Nat) \X Nat
    BY <1>4, <2>1
  <2>3. step[<<f[p - 1], p>>] =
          IF Keeps(c, l, p) THEN Append(f[p - 1], p) ELSE f[p - 1]
    BY <2>2
  <2> HIDE DEF step
  <2> QED BY <1>4, <2>3
<1>6. f = cut(f)
  <2>1. \A p \in 0 .. Len(c) : p # 0 => p \in 1 .. Len(c)
    OBVIOUS
  <2>2. \A p \in 0 .. Len(c) :
          f[p] = IF p = 0 THEN none
                 ELSE IF Keeps(c, l, p) THEN Append(f[p - 1], p) ELSE f[p - 1]
    <3> HIDE DEF none
    <3> QED BY <1>4, <1>5, <2>1
  <2>3. f = [p \in 0 .. Len(c) |-> f[p]]
    BY <1>4
  <2> HIDE DEF none
  <2> QED BY <2>2, <2>3
<1>7. BlocksUpto(c, l) = CHOOSE g : g = cut(g)
  BY Zenon DEF BlocksUpto, Keeps
<1>8. BlocksUpto(c, l) = cut(BlocksUpto(c, l))
  <2> HIDE DEF cut
  <2> QED BY <1>6, <1>7
<1>9. ASSUME NEW g, g = cut(g), NEW p \in 0 .. Len(c)
      PROVE  g[p] = f[p]
  <2> DEFINE T == {i \in Nat : i \in 0 .. Len(c) => g[i] = f[i]}
  <2>1. g[0] = none
    <3>1. 0 \in 0 .. Len(c)
      OBVIOUS
    <3> HIDE DEF none
    <3> QED BY <1>9, <3>1
  <2>2. 0 \in T
    <3> HIDE DEF none
    <3> QED BY <1>4, <2>1
  <2>3. ASSUME NEW i \in Nat, i \in T PROVE i + 1 \in T
    <3> SUFFICES ASSUME i + 1 \in 0 .. Len(c) PROVE g[i + 1] = f[i + 1]
      OBVIOUS
    <3>1. /\ i + 1 \in 1 .. Len(c) /\ i \in 0 .. Len(c) /\ (i + 1) - 1 = i
          /\ i + 1 # 0
      OBVIOUS
    <3>2. g[i] = f[i]
      BY <2>3, <3>1
    <3>3. g[i + 1] = IF Keeps(c, l, i + 1) THEN Append(g[i], i + 1) ELSE g[i]
      <4> HIDE DEF none
      <4> QED BY <1>9, <3>1
    <3>4. f[i + 1] = IF Keeps(c, l, i + 1) THEN Append(f[i], i + 1) ELSE f[i]
      BY <1>5, <3>1
    <3> QED BY <3>2, <3>3, <3>4
  <2>4. Nat \subseteq T
    <3> HIDE DEF T
    <3> QED BY <2>2, <2>3, Induction
  <2> QED BY <2>4
<1>10. BlocksUpto(c, l) = f
  <2>1. DOMAIN BlocksUpto(c, l) = 0 .. Len(c)
        /\ BlocksUpto(c, l) = [p \in 0 .. Len(c) |-> BlocksUpto(c, l)[p]]
    BY <1>8
  <2>2. \A p \in 0 .. Len(c) : BlocksUpto(c, l)[p] = f[p]
    <3> HIDE DEF cut
    <3> QED BY <1>8, <1>9
  <2>3. f = [p \in 0 .. Len(c) |-> f[p]]
    BY <1>4
  <2> QED BY <2>1, <2>2, <2>3
<1> QED BY <1>4, <1>5, <1>10

\* Places beyond the first n do not matter to the blocks of the first n units.
LEMMA BlocksUptoSame ==
  ASSUME NEW c, Len(c) \in Nat, NEW l, NEW m, NEW n \in 0 .. Len(c),
         \A p \in 1 .. n : p \in l <=> p \in m
  PROVE  BlocksUpto(c, l)[n] = BlocksUpto(c, m)[n]
<1> DEFINE f == BlocksUpto(c, l)
           g == BlocksUpto(c, m)
           T == {i \in Nat : i <= n => f[i] = g[i]}
<1>1. /\ f[0] = <<>> /\ g[0] = <<>>
      /\ \A p \in 1 .. Len(c) :
           f[p] = IF Keeps(c, l, p) THEN Append(f[p - 1], p) ELSE f[p - 1]
      /\ \A p \in 1 .. Len(c) :
           g[p] = IF Keeps(c, m, p) THEN Append(g[p - 1], p) ELSE g[p - 1]
  BY BlocksUptoIs
<1> HIDE DEF f, g
<1>2. 0 \in T
  BY <1>1
<1>3. ASSUME NEW i \in Nat, i \in T PROVE i + 1 \in T
  <2> SUFFICES ASSUME i + 1 <= n PROVE f[i + 1] = g[i + 1]
    OBVIOUS
  <2>1. /\ i + 1 \in 1 .. Len(c) /\ i + 1 \in 1 .. n /\ (i + 1) - 1 = i
        /\ f[i] = g[i]
    BY <1>3
  <2>2. Keeps(c, l, i + 1) <=> Keeps(c, m, i + 1)
    BY <2>1 DEF Keeps
  <2>3. f[i + 1] = IF Keeps(c, l, i + 1) THEN Append(f[i], i + 1) ELSE f[i]
    BY <1>1, <2>1
  <2>4. g[i + 1] = IF Keeps(c, m, i + 1) THEN Append(g[i], i + 1) ELSE g[i]
    BY <1>1, <2>1
  <2> QED BY <2>1, <2>2, <2>3, <2>4
<1>4. Nat \subseteq T
  <2> HIDE DEF T
  <2> QED BY <1>2, <1>3, Induction
<1>5. n \in Nat /\ n <= n
  OBVIOUS
<1>6. f[n] = g[n]
  BY <1>4, <1>5
<1> QED BY <1>6 DEF f, g

-----------------------------------------------------------------------------
(* What is heard.                                                           *)

\* The blocks kept are those decoded, whose samples are played or buffered,
\* and those waiting in Blocks; after the end of the content the last one is
\* neither.
Heard(decoded, waiting) ==
  /\ decoded \in Seq(Nat) /\ waiting \in Seq(Nat)
  /\ played \o pcmbuff = Samples(decoded)
  /\ decoded \o waiting = IF doneReading /\ Kept # <<>> THEN Front(Kept)
                                                        ELSE Kept
  /\ pc # "error" => waiting = Blocks

LostInv ==
  /\ pc \notin {"rest", "garbled", "error"} => lost \subseteq 1 .. parsed
  /\ pc = "rest" => parsed + 1 \in lost /\ parsed < Len(content)

\* GetNextFrames leaves one block in Blocks until the content ends.
WaitingInv ==
  /\ doneReading => pc \in {"GetPCMFrame", "EOF"}
  /\ ~doneReading /\ pc # "error" /\ Kept # <<>> => Blocks # <<>>

HeardInv ==
  /\ LostInv
  /\ WaitingInv
  /\ \E decoded, waiting : Heard(decoded, waiting)

LEMMA KeptTyped ==
  ASSUME IInv
  PROVE  Kept \in Seq(Nat)
<1>1. Len(content) \in Nat /\ parsed \in 0 .. Len(content)
  BY Typed
<1> QED
  BY <1>1, BlocksUptoIs DEF Kept

LEMMA KeptStays ==
  ASSUME IInv, content' = content, parsed' = parsed,
         \A p \in 1 .. parsed : p \in lost' <=> p \in lost
  PROVE  Kept' = Kept
<1>1. Len(content) \in Nat /\ parsed \in 0 .. Len(content)
  BY Typed
<1>2. BlocksUpto(content, lost')[parsed] = BlocksUpto(content, lost)[parsed]
  BY <1>1, BlocksUptoSame
<1> QED
  BY <1>2 DEF Kept

LEMMA KeptGrows ==
  ASSUME IInv, content' = content, parsed' = parsed + 1,
         parsed + 1 \in 1 .. Len(content),
         \A p \in 1 .. parsed : p \in lost' <=> p \in lost
  PROVE  Kept' = IF Keeps(content, lost', parsed + 1)
                 THEN Append(Kept, parsed + 1) ELSE Kept
<1>1. Len(content) \in Nat /\ parsed \in 0 .. Len(content)
      /\ (parsed + 1) - 1 = parsed
  BY Typed
<1>2. BlocksUpto(content, lost')[parsed] = BlocksUpto(content, lost)[parsed]
  BY <1>1, BlocksUptoSame
<1>3. BlocksUpto(content, lost')[parsed + 1] =
        IF Keeps(content, lost', parsed + 1)
        THEN Append(BlocksUpto(content, lost')[(parsed + 1) - 1], parsed + 1)
        ELSE BlocksUpto(content, lost')[(parsed + 1) - 1]
  BY <1>1, BlocksUptoIs
<1> QED
  BY <1>1, <1>2, <1>3 DEF Kept

LEMMA HeardInit == Init => HeardInv
<1> SUFFICES ASSUME Init PROVE HeardInv
  OBVIOUS
<1>1. /\ pc = "GetPCMFrame" /\ parsed = 0 /\ lost = {} /\ Blocks = <<>>
      /\ pcmbuff = <<>> /\ played = <<>> /\ doneReading = FALSE
  BY DEF Init
<1>2. Kept = <<>>
  <2>1. Len(content) \in Nat
    BY ContentsAssumption DEF Init, StreamInit
  <2> QED
    BY <1>1, <2>1, BlocksUptoIs DEF Kept
<1>3. <<>> \in Seq(Nat) /\ <<>> \o <<>> = <<>>
  BY EmptySeq, ConcatEmptySeq
<1>4. Samples(<<>>) = <<>>
  <2>1. Samples(<<>>) \in Seq(Nat) /\ Len(Samples(<<>>)) = BlockSamples * Len(<<>>)
    BY <1>3, SamplesTyped
  <2>2. BlockSamples * Len(<<>>) = 0
    BY BlockSamplesAssumption
  <2> QED
    BY <2>1, <2>2
<1>5. played \o pcmbuff = <<>> /\ <<>> \o Blocks = Kept
  BY <1>1, <1>2, <1>3, Zenon
<1>6. Heard(<<>>, Blocks)
  BY <1>1, <1>3, <1>4, <1>5 DEF Heard
<1> QED
  BY <1>1, <1>2, <1>6 DEF HeardInv, LostInv, WaitingInv

\* GetPCMFrame and GetNextFrames.
LEMMA FrameHeard ==
  ASSUME IInv, HeardInv,
         \/ ReturnFrame \/ ReturnEOF \/ WantFrame \/ ReadContent
         \/ DecodeFrame \/ DecodeFails \/ NoMoreFrames
  PROVE  HeardInv'
<1>1. /\ content' = content /\ parsed' = parsed /\ lost' = lost
      /\ pc \in {"GetPCMFrame", "GetNextFrames"}
      /\ pc' \notin {"rest", "garbled"}
  BY DEF ReturnFrame, ReturnEOF, WantFrame, ReadContent, DecodeFrame,
         DecodeFails, NoMoreFrames, streamVars
<1>2. Kept' = Kept /\ Kept \in Seq(Nat)
  BY <1>1, KeptStays, KeptTyped
<1>3. LostInv'
  BY <1>1 DEF HeardInv, LostInv
<1>4. PICK decoded, waiting : Heard(decoded, waiting)
  BY DEF HeardInv
<1>5. /\ decoded \in Seq(Nat) /\ waiting = Blocks /\ Blocks \in Seq(Nat)
      /\ played \o pcmbuff = Samples(decoded)
      /\ decoded \o Blocks = IF doneReading /\ Kept # <<>> THEN Front(Kept)
                                                           ELSE Kept
  BY <1>1, <1>4 DEF Heard
<1>6. /\ doneReading => pc \in {"GetPCMFrame", "EOF"}
      /\ ~doneReading /\ Kept # <<>> => Blocks # <<>>
  BY <1>1 DEF HeardInv, WaitingInv
<1>7. CASE ReturnEOF \/ WantFrame \/ ReadContent
  <2>1. /\ UNCHANGED <<Blocks, doneReading, pcmbuff, played>>
        /\ pc' # "error"
        /\ doneReading' => pc' = "EOF"
    BY <1>6, <1>7 DEF ReturnEOF, WantFrame, ReadContent
  <2>2. Heard(decoded, Blocks)'
    BY <1>2, <1>5, <2>1 DEF Heard
  <2>3. WaitingInv'
    BY <1>2, <1>6, <2>1 DEF WaitingInv
  <2> QED
    BY <1>3, <2>2, <2>3 DEF HeardInv
<1>8. CASE ReturnFrame
  <2>1. /\ Blocks' = Blocks /\ doneReading' = doneReading /\ pc' = pc
        /\ pc = "GetPCMFrame"
        /\ Len(pcmbuff) >= neededSamples
        /\ played' = played \o SubSeq(pcmbuff, 1, neededSamples)
        /\ pcmbuff' = SubSeq(pcmbuff, neededSamples + 1, Len(pcmbuff))
    BY <1>8 DEF ReturnFrame
  <2>2. played' \o pcmbuff' = played \o pcmbuff
    <3>1. /\ pcmbuff \in Seq(1 .. parsed) /\ played \in Seq(1 .. parsed)
          /\ neededSamples \in 1 .. Len(pcmbuff)
      BY <2>1, Typed
    <3> QED
      BY <2>1, <3>1, CutAndJoined
  <2>3. Heard(decoded, Blocks)'
    BY <1>2, <1>5, <2>1, <2>2 DEF Heard
  <2>4. WaitingInv'
    BY <1>2, <1>6, <2>1 DEF WaitingInv
  <2> QED
    BY <1>3, <2>3, <2>4 DEF HeardInv
<1>9. CASE DecodeFrame
  <2>1. /\ Len(Blocks) > 1 /\ Blocks' = Tail(Blocks)
        /\ pcmbuff' = pcmbuff \o Pcm(Head(Blocks)) /\ played' = played
        /\ doneReading' = doneReading /\ pc' = "GetPCMFrame"
        /\ pc = "GetNextFrames"
    BY <1>9 DEF DecodeFrame
  <2> DEFINE h == Head(Blocks)
  <2>2. /\ h \in Nat /\ Tail(Blocks) \in Seq(Nat) /\ Tail(Blocks) # <<>>
        /\ Blocks # <<>>
    <3>1. Blocks # <<>>
      BY <2>1, EmptySeq
    <3>2. h \in Nat /\ Tail(Blocks) \in Seq(Nat)
          /\ Len(Tail(Blocks)) = Len(Blocks) - 1
      BY <1>5, <3>1, HeadTailProperties
    <3>3. Len(Tail(Blocks)) # 0
      <4>1. Len(Blocks) \in Nat /\ Len(Blocks) > 1
        BY <1>5, <2>1
      <4> QED
        BY <3>2, <4>1
    <3>4. Tail(Blocks) # <<>>
      BY <3>3, EmptySeq
    <3> QED
      BY <3>1, <3>2, <3>4
  <2>3. /\ Append(decoded, h) \in Seq(Nat)
        /\ Append(decoded, h) \o Tail(Blocks) = decoded \o Blocks
    BY <1>5, <2>2, MoveHead
  <2>4. Samples(Append(decoded, h)) = Samples(decoded) \o Pcm(h)
    <3>1. Append(decoded, h) = decoded \o <<h>> /\ <<h>> \in Seq(Nat)
      BY <1>5, <2>2, AppendIsConcat
    <3>2. Samples(decoded \o <<h>>) = Samples(decoded) \o Samples(<<h>>)
      BY <1>5, <3>1, SamplesConcat
    <3> QED
      BY <3>1, <3>2, SamplesOfOne
  <2>5. played' \o pcmbuff' = Samples(decoded) \o Pcm(h)
    <3>1. /\ played \in Seq(1 .. parsed) /\ pcmbuff \in Seq(1 .. parsed)
          /\ parsed \in Nat /\ h \in 1 .. parsed
      BY <2>1, Typed
    <3>2. Pcm(h) \in Seq(1 .. parsed)
      BY <3>1, PcmSamples
    <3>3. (played \o pcmbuff) \o Pcm(h) = played \o (pcmbuff \o Pcm(h))
      BY <3>1, <3>2, ConcatAssociative
    <3> QED
      BY <1>5, <2>1, <3>3
  <2>6. \E d, w : Heard(d, w)'
    <3>1. PICK d \in Seq(Nat), w \in Seq(Nat) :
            d = Append(decoded, h) /\ w = Tail(Blocks)
      BY <2>2, <2>3
    <3>2. Heard(d, w)'
      <4>1. played' \o pcmbuff' = Samples(d)
        BY <2>4, <2>5, <3>1
      <4>2. d \o w = IF doneReading /\ Kept # <<>> THEN Front(Kept) ELSE Kept
        BY <1>5, <2>3, <3>1
      <4> QED
        BY <1>2, <2>1, <3>1, <4>1, <4>2 DEF Heard
    <3> QED
      BY <3>2
  <2>7. WaitingInv'
    BY <1>6, <2>1, <2>2 DEF WaitingInv
  <2> QED
    BY <1>3, <2>6, <2>7 DEF HeardInv
<1>10. CASE DecodeFails
  <2>1. /\ pc = "GetNextFrames" /\ pc' = "error"
        /\ doneReading' = doneReading /\ pcmbuff' = pcmbuff /\ played' = played
    BY <1>10 DEF DecodeFails
  <2>2. Heard(decoded, waiting)'
    BY <1>2, <1>5, <2>1 DEF Heard
  <2>3. WaitingInv'
    BY <1>6, <2>1 DEF WaitingInv
  <2> QED
    BY <1>3, <2>2, <2>3 DEF HeardInv
<1>11. CASE NoMoreFrames
  <2>1. /\ pc = "GetNextFrames" /\ pc' = "GetPCMFrame" /\ Len(Blocks) <= 1
        /\ Blocks' = <<>> /\ doneReading' = TRUE
        /\ pcmbuff' = pcmbuff /\ played' = played
    BY <1>11 DEF NoMoreFrames
  <2>2. ~doneReading
    BY <1>6, <2>1
  <2>3. decoded \o Blocks = Kept
    BY <1>5, <2>2
  <2>4. <<>> \in Seq(Nat) /\ decoded \o <<>> = decoded
    BY <1>5, EmptySeq, ConcatEmptySeq
  <2>5. decoded = IF Kept # <<>> THEN Front(Kept) ELSE Kept
    <3>1. CASE Kept = <<>>
      BY <1>5, <2>3, <3>1, ConcatEqualIffEmpty
    <3>2. CASE Kept # <<>>
      <4>1. Len(Blocks) = 1
        <5>1. Blocks # <<>>
          BY <1>6, <2>2, <3>2
        <5>2. Len(Blocks) \in Nat \ {0}
          BY <1>5, <5>1, EmptySeq
        <5> QED
          BY <2>1, <5>2
      <4>2. Front(decoded \o Blocks) = decoded
        BY <1>5, <4>1, FrontOfOne
      <4> QED
        BY <2>3, <3>2, <4>2
    <3> QED
      BY <3>1, <3>2
  <2>6. Heard(decoded, Blocks)'
    <3>1. decoded \o Blocks' = decoded /\ Blocks' \in Seq(Nat)
      BY <2>1, <2>4, Zenon
    <3> QED
      BY <1>2, <1>5, <2>1, <2>5, <3>1 DEF Heard
  <2>7. WaitingInv'
    BY <2>1 DEF WaitingInv
  <2> QED
    BY <1>3, <2>6, <2>7 DEF HeardInv
<1> QED
  BY <1>7, <1>8, <1>9, <1>10, <1>11

\* A step of the reader that neither decodes nor plays: the blocks kept and
\* those waiting grow by the same block, or by none.
LEMMA ReaderHeard ==
  ASSUME IInv, HeardInv, ~doneReading, pc # "error",
         UNCHANGED <<doneReading, pcmbuff, played>>,
         NEW b \in Nat,
         \/ Kept' = Kept /\ Blocks' = Blocks
         \/ Kept' = Append(Kept, b) /\ Blocks' = Append(Blocks, b)
  PROVE  /\ WaitingInv'
         /\ \E decoded, waiting : Heard(decoded, waiting)'
<1>1. PICK decoded, waiting : Heard(decoded, waiting)
  BY DEF HeardInv
<1>2. /\ decoded \in Seq(Nat) /\ waiting = Blocks /\ Blocks \in Seq(Nat)
      /\ played \o pcmbuff = Samples(decoded)
      /\ decoded \o Blocks = Kept
      /\ Kept # <<>> => Blocks # <<>>
  BY <1>1 DEF Heard, HeardInv, WaitingInv
<1>3. CASE Kept' = Kept /\ Blocks' = Blocks
  <2>1. Heard(decoded, Blocks)'
    BY <1>2, <1>3 DEF Heard
  <2>2. WaitingInv'
    BY <1>2, <1>3 DEF WaitingInv
  <2> QED
    BY <2>1, <2>2
<1>4. CASE Kept' = Append(Kept, b) /\ Blocks' = Append(Blocks, b)
  <2>1. decoded \o Append(Blocks, b) = Append(decoded \o Blocks, b)
    BY <1>2, AppendToConcat, SMTT(30)
  <2>2. Append(Blocks, b) \in Seq(Nat) /\ Append(Blocks, b) # <<>>
    <3>1. Blocks \in Seq(Nat)
      BY <1>2
    <3>2. Append(Blocks, b) \in Seq(Nat) /\ Len(Append(Blocks, b)) \in Nat \ {0}
      BY <3>1
    <3>3. Append(Blocks, b) # <<>>
      BY <3>2, EmptySeq
    <3> QED
      BY <3>2, <3>3
  <2>3. Heard(decoded, Blocks)'
    <3>1. decoded \o Blocks' = Kept' /\ Blocks' \in Seq(Nat)
      BY <1>2, <1>4, <2>1, <2>2
    <3> QED
      BY <1>2, <3>1 DEF Heard
  <2>4. WaitingInv'
    BY <1>4, <2>2 DEF WaitingInv
  <2> QED
    BY <2>3, <2>4
<1> QED
  BY <1>3, <1>4

\* ReadContent on a unit that is there.
LEMMA UnitHeard ==
  ASSUME IInv, HeardInv,
         \/ ReadCluster \/ ReadOther \/ EndSegment \/ EndCluster
         \/ ReadBlockHead \/ ParseBlock \/ ParseBlockRefuses \/ SkipRest
         \/ MeetRepeated
  PROVE  HeardInv'
<1>1. /\ UNCHANGED <<content, delivered, doneReading, pcmbuff, played>>
      /\ pc \in {"segment", "cluster", "block", "rest"}
  BY DEF ReadCluster, ReadOther, EndSegment, EndCluster, ReadBlockHead,
         ParseBlock, ParseBlockRefuses, SkipRest, MeetRepeated, streamVars
<1>2. /\ ~doneReading /\ pc # "error"
      /\ parsed \in 0 .. Len(content) /\ Len(content) \in Nat
      /\ parsed \in Nat /\ parsed + 1 \in Nat
      /\ pc # "rest" => lost \subseteq 1 .. parsed
      /\ pc = "rest" => parsed + 1 \in lost /\ parsed < Len(content)
      /\ lost \subseteq 1 .. parsed + 1
  BY <1>1, Typed DEF HeardInv, WaitingInv, LostInv, IInv, TypeOK
<1>3. ASSUME NEW kinds, Have(kinds)
      PROVE  /\ parsed' = parsed + 1
             /\ parsed + 1 \in 1 .. Len(content)
             /\ content[parsed + 1] \in kinds
             /\ lost \subseteq 1 .. parsed'
  <2>1. /\ parsed' = parsed + 1 /\ parsed < Len(delivered)
        /\ delivered[parsed + 1] = parsed + 1 /\ content[parsed + 1] \in kinds
    BY <1>3 DEF Have
  <2>2. delivered \in Seq(1 .. Len(content))
    BY DEF IInv, TypeOK, StreamTypeOK
  <2>3. delivered[parsed + 1] \in 1 .. Len(content)
    BY <1>2, <2>1, <2>2
  <2> QED
    BY <1>2, <2>1, <2>3
<1>4. CASE EndSegment \/ EndCluster \/ MeetRepeated
  <2>1. /\ parsed' = parsed /\ lost' = lost /\ Blocks' = Blocks
        /\ pc # "rest" \/ pc' = "garbled"
        /\ pc' \in {"GetNextFrames", "garbled"}
    BY <1>4 DEF EndSegment, EndCluster, MeetRepeated
  <2>2. Kept' = Kept
    BY <1>1, <2>1, KeptStays
  <2>3. LostInv'
    BY <1>1, <1>2, <2>1 DEF LostInv
  <2> QED
    BY <1>1, <1>2, <2>1, <2>2, <2>3, ReaderHeard DEF HeardInv
<1>5. CASE \/ ReadCluster \/ ReadOther \/ ReadBlockHead \/ SkipRest
           \/ ParseBlockRefuses
  <2>1. /\ parsed' = parsed + 1 /\ parsed + 1 \in 1 .. Len(content)
        /\ lost \subseteq 1 .. parsed'
        /\ Blocks' = Blocks
        /\ pc' \in {"cluster", "GetNextFrames", "block"}
    BY <1>3, <1>5
    DEF ReadCluster, ReadOther, ReadBlockHead, SkipRest, ParseBlockRefuses
  <2>2. lost' \in {lost, lost \cup {parsed + 1}}
    BY <1>5
    DEF ReadCluster, ReadOther, ReadBlockHead, SkipRest, ParseBlockRefuses
  <2>3. \A p \in 1 .. parsed : p \in lost' <=> p \in lost
    BY <1>2, <2>2
  <2>4. ~Keeps(content, lost', parsed + 1)
    <3>1. CASE SkipRest
      <4>1. pc = "rest" /\ lost' = lost
        BY <3>1 DEF SkipRest
      <4> QED
        BY <1>2, <4>1 DEF Keeps
    <3>2. CASE ReadCluster \/ ReadOther \/ ReadBlockHead \/ ParseBlockRefuses
      <4>1. content[parsed + 1] \in {"cluster", "cue", "head", "laced"}
        BY <1>3, <3>2
        DEF ReadCluster, ReadOther, ReadBlockHead, ParseBlockRefuses
      <4> QED
        BY <4>1 DEF Keeps
    <3> QED
      BY <1>5, <3>1, <3>2
  <2>5. Kept' = Kept
    BY <1>1, <2>1, <2>3, <2>4, KeptGrows
  <2>6. LostInv'
    <3>1. lost' \subseteq 1 .. parsed'
      BY <1>2, <2>1, <2>2
    <3> QED
      BY <2>1, <3>1 DEF LostInv
  <2> QED
    BY <1>1, <1>2, <2>1, <2>5, <2>6, ReaderHeard DEF HeardInv
<1>6. CASE ParseBlock
  <2>1. /\ parsed' = parsed + 1 /\ parsed + 1 \in 1 .. Len(content)
        /\ lost' = lost /\ lost \subseteq 1 .. parsed
        /\ content[parsed + 1] \in {"data", "corrupt"}
        /\ Blocks' = Append(Blocks, parsed + 1)
        /\ pc' = "cluster"
    BY <1>2, <1>3, <1>6 DEF ParseBlock
  <2>2. parsed + 1 \notin lost'
    BY <1>2, <2>1
  <2>3. Kept' = Append(Kept, parsed + 1)
    BY <1>1, <2>1, <2>2, KeptGrows DEF Keeps
  <2>4. LostInv'
    <3>1. lost' \subseteq 1 .. parsed'
      BY <1>2, <2>1
    <3> QED
      BY <2>1, <3>1 DEF LostInv
  <2> QED
    BY <1>1, <1>2, <2>1, <2>3, <2>4, ReaderHeard DEF HeardInv
<1> QED
  BY <1>4, <1>5, <1>6

\* Reading from the stream keeps or loses blocks, and moves none.
LEMMA FillHeard ==
  ASSUME IInv, HeardInv, Fill
  PROVE  HeardInv'
<1>1. /\ StreamTypeOK' /\ StreamInv' /\ content' = content
      /\ Len(delivered') >= Len(delivered)
  BY ReadStep DEF IInv, TypeOK, Fill
<1>2. /\ parsed' = parsed /\ Blocks' = Blocks
      /\ UNCHANGED <<doneReading, pcmbuff, played>>
      /\ pc \in {"segment", "cluster", "block", "rest"}
      /\ parsed = Len(delivered)
  BY DEF Fill
<1>3. /\ ~doneReading /\ pc # "error"
      /\ parsed \in 0 .. Len(content) /\ Len(content) \in Nat
      /\ parsed \in Nat
      /\ pc # "rest" => lost \subseteq 1 .. parsed
      /\ pc = "rest" => parsed + 1 \in lost /\ parsed < Len(content)
      /\ pc = "block" => parsed < Len(content)
  BY <1>2, Typed DEF HeardInv, WaitingInv, LostInv, IInv, PipeInv
<1>4. /\ lost' \in {lost, lost \cup {parsed + 1}}
      /\ LostInv'
  <2>1. CASE UNCHANGED <<pc, lost, doneReadingMatroska>>
    BY <1>1, <1>2, <1>3, <2>1 DEF LostInv
  <2>2. CASE Len(delivered') = parsed /\ err' # "nil" /\ ElementFails
    <3>1. /\ lost' = lost
          /\ pc' = IF err' = "EOF" THEN "GetNextFrames" ELSE "error"
      BY <2>2 DEF ElementFails
    <3>2. err' = "EOF" => parsed = Len(content)
      <4>1. aposition' <= Len(delivered') /\ aposition' \in 0 .. Len(content)
            /\ (err' = "EOF" => aposition' = Len(content))
        BY <1>1 DEF StreamInv, StreamTypeOK
      <4> QED
        BY <1>3, <2>2, <4>1
    <3>3. err' = "EOF" => pc # "rest"
      BY <1>3, <3>2
    <3> QED
      BY <1>2, <1>3, <3>1, <3>3 DEF LostInv
  <2>3. CASE BlockFails
    <3>1. /\ pc = "block" /\ lost' = lost \cup {parsed + 1}
          /\ pc' \in {"rest", "garbled"}
      BY <2>3 DEF BlockFails
    <3> QED
      BY <1>1, <1>2, <1>3, <3>1 DEF LostInv
  <2> QED
    BY <2>1, <2>2, <2>3 DEF Fill
<1>5. \A p \in 1 .. parsed : p \in lost' <=> p \in lost
  BY <1>3, <1>4
<1>6. Kept' = Kept
  BY <1>1, <1>2, <1>5, KeptStays
<1> QED
  BY <1>2, <1>3, <1>4, <1>6, ReaderHeard DEF HeardInv

LEMMA NextHeard == IInv /\ HeardInv /\ [Next]_vars => HeardInv'
<1> SUFFICES ASSUME IInv, HeardInv, [Next]_vars PROVE HeardInv'
  OBVIOUS
<1>1. CASE ReadContentStep
  BY <1>1, UnitHeard, FillHeard DEF ReadContentStep
<1>2. CASE Next /\ ~ReadContentStep
  BY <1>2, FrameHeard DEF Next
<1>3. CASE UNCHANGED vars
  <2>1. /\ content' = content /\ UNCHANGED pipeVars
        /\ UNCHANGED <<pc, parsed, lost, Blocks, doneReading, pcmbuff, played>>
    BY <1>3 DEF vars, streamVars, pipeVars
  <2>2. Kept' = Kept
    BY <2>1, KeptStays
  <2>3. PICK decoded, waiting : Heard(decoded, waiting)
    BY DEF HeardInv
  <2>4. Heard(decoded, waiting)'
    BY <2>1, <2>2, <2>3 DEF Heard
  <2>5. LostInv' /\ WaitingInv'
    BY <2>1, <2>2 DEF HeardInv, LostInv, WaitingInv
  <2> QED
    BY <2>4, <2>5 DEF HeardInv
<1> QED
  BY <1>1, <1>2, <1>3

\* A sequence is what comes before its last element, and that.
LEMMA LastOfSeq ==
  ASSUME NEW S, NEW s \in Seq(S), s # <<>>
  PROVE  /\ Last(s) \in S /\ Front(s) \in Seq(S)
         /\ s = Append(Front(s), Last(s))
<1>1. Len(s) \in Nat \ {0} /\ \A i \in 1 .. Len(s) : s[i] \in S
  BY EmptySeq
<1>2. PICK n \in Nat : n = Len(s) - 1
  BY <1>1
<1>3. /\ Front(s) \in Seq(S) /\ Len(Front(s)) = n
      /\ \A i \in 1 .. n : Front(s)[i] = s[i]
  BY <1>1, <1>2 DEF Front
<1>4. Last(s) \in S /\ Last(s) = s[n + 1]
  BY <1>1, <1>2 DEF Last
<1>5. /\ Append(Front(s), Last(s)) \in Seq(S)
      /\ Len(Append(Front(s), Last(s))) = n + 1
      /\ \A i \in 1 .. n : Append(Front(s), Last(s))[i] = s[i]
      /\ Append(Front(s), Last(s))[n + 1] = s[n + 1]
  BY <1>3, <1>4
<1>6. \A i \in 1 .. n + 1 : Append(Front(s), Last(s))[i] = s[i]
  BY <1>5
<1>7. Append(Front(s), Last(s)) = s
  BY <1>1, <1>2, <1>5, <1>6, SeqEqual
<1> QED
  BY <1>3, <1>4, <1>7

\* For contents, blocks and frames of any size and any number of broken and
\* refused responses: what is played is what was parsed out of the container, from
\* its start, whole and in order, and until the end of the content is met what is
\* not played is buffered or waits in a block (GetNextFrames, GetPCMFrame).
THEOREM HeardInOrderAlways == Spec => []HeardInOrder
<1>1. Init => IInv /\ HeardInv
  BY InitInv, HeardInit
<1>2. (IInv /\ HeardInv) /\ [Next]_vars => (IInv /\ HeardInv)'
  BY NextInv, NextHeard
<1>3. ASSUME IInv, HeardInv PROVE HeardInOrder
  <2>1. PICK decoded, waiting : Heard(decoded, waiting)
    BY <1>3 DEF HeardInv
  <2> DEFINE kept == IF doneReading /\ Kept # <<>> THEN Front(Kept) ELSE Kept
  <2>2. /\ decoded \in Seq(Nat) /\ waiting \in Seq(Nat)
        /\ played \o pcmbuff = Samples(decoded)
        /\ decoded \o waiting = kept
        /\ pc # "error" => waiting = Blocks
    BY <2>1 DEF Heard
  <2>3. PICK rest \in Seq(Nat) : Kept = decoded \o rest
    <3>1. CASE ~doneReading \/ Kept = <<>>
      BY <2>2, <3>1
    <3>2. CASE doneReading /\ Kept # <<>>
      <4>1. Kept \in Seq(Nat)
        BY <1>3, KeptTyped
      <4>2. Last(Kept) \in Nat /\ Kept = Append(Front(Kept), Last(Kept))
        BY <3>2, <4>1, LastOfSeq
      <4>3. decoded \o Append(waiting, Last(Kept)) = Kept
        <5>1. PICK e \in Nat : e = Last(Kept)
          BY <4>2
        <5>2. decoded \in Seq(Nat) /\ waiting \in Seq(Nat)
          BY <2>2
        <5>3. decoded \o Append(waiting, e) = Append(decoded \o waiting, e)
          BY <5>2, AppendToConcat, SMTT(30)
        <5>4. decoded \o waiting = Front(Kept)
          BY <2>2, <3>2
        <5> QED
          BY <4>2, <5>1, <5>3, <5>4, Zenon
      <4>4. Append(waiting, Last(Kept)) \in Seq(Nat)
        BY <2>2, <4>2
      <4> QED
        BY <4>3, <4>4
    <3> QED
      BY <3>1, <3>2
  <2>4. IsPrefix(played \o pcmbuff, Samples(Kept))
    <3>1. Samples(decoded) \in Seq(Nat) /\ Samples(rest) \in Seq(Nat)
      BY <2>2, <2>3, SamplesTyped
    <3>2. IsPrefix(Samples(decoded), Samples(decoded) \o Samples(rest))
      BY <3>1, PrefixOfConcat
    <3>3. Samples(Kept) = Samples(decoded) \o Samples(rest)
      BY <2>2, <2>3, SamplesConcat
    <3> HIDE DEF kept
    <3> QED
      BY <2>2, <3>2, <3>3
  <2>5. pc # "error" /\ ~doneReading =>
          played \o pcmbuff \o Samples(Blocks) = Samples(Kept)
    <3> SUFFICES ASSUME pc # "error", ~doneReading
                 PROVE  played \o pcmbuff \o Samples(Blocks) = Samples(Kept)
      OBVIOUS
    <3>1. waiting = Blocks /\ decoded \o waiting = Kept
      BY <2>2
    <3>2. Samples(decoded \o waiting) = Samples(decoded) \o Samples(waiting)
      BY <2>2, SamplesConcat
    <3> HIDE DEF kept
    <3> QED
      BY <2>2, <3>1, <3>2
  <2> QED
    BY <2>4, <2>5 DEF HeardInOrder
<1> QED
  BY <1>1, <1>2, <1>3, PTL DEF Spec
=============================================================================
