------------------------------- MODULE Varint --------------------------------
(***************************************************************************)
(* The numbers in voice packets and pings (gomble/varint.go).  An int64 is *)
(* its sign, 1 or -1, and the eight bytes of its magnitude, the most       *)
(* significant first, since most of what is encoded is beyond the integers *)
(* of a model checker.  Masks and shifts are remainders and quotients by   *)
(* powers of two.                                                          *)
(***************************************************************************)
EXTENDS Integers, Sequences

Byte == 0 .. 255
Magnitudes == [1 .. 8 -> Byte]
Positive == {d \in Magnitudes : d[1] < 128}

\* d is more than b.
Above(d, b) ==
  \E i \in 1 .. 8 : d[i] > b[i] /\ \A j \in 1 .. i - 1 : d[j] = b[j]

Two32 == <<0, 0, 0, 1, 0, 0, 0, 0>>
Two28 == <<0, 0, 0, 0, 16, 0, 0, 0>>
Most21 == <<0, 0, 0, 0, 0, 31, 255, 255>>
Most14 == <<0, 0, 0, 0, 0, 0, 63, 255>>
Most7 == <<0, 0, 0, 0, 0, 0, 0, 127>>

\* Mutant of encodePositive: 28 bits are taken to be one more.
encodePositiveWide(d) ==
  IF Above(d, Two32)
  THEN <<244, d[1], d[2], d[3], d[4], d[5], d[6], d[7], d[8]>>
  ELSE IF Above(d, <<0, 0, 0, 0, 32, 0, 0, 0>>)
       THEN <<240, d[5], d[6], d[7], d[8]>>
  ELSE IF Above(d, Most21)
       THEN <<224 + (d[5] % 32), d[6], d[7], d[8]>>
  ELSE IF Above(d, Most14)
       THEN <<192 + (d[6] % 64), d[7], d[8]>>
  ELSE IF Above(d, Most7)
       THEN <<128 + (d[7] % 128), d[8]>>
  ELSE <<d[8]>>

\* What is written for a number that is not negative: the shortest form that
\* holds it, told by the first bits.
encodePositive(d) ==
  IF Above(d, Two32)
  THEN <<244, d[1], d[2], d[3], d[4], d[5], d[6], d[7], d[8]>>
  ELSE IF Above(d, Two28) THEN <<240, d[5], d[6], d[7], d[8]>>
  ELSE IF Above(d, Most21)
       THEN <<224 + (d[5] % 32), d[6], d[7], d[8]>>
  ELSE IF Above(d, Most14)
       THEN <<192 + (d[6] % 64), d[7], d[8]>>
  ELSE IF Above(d, Most7)
       THEN <<128 + (d[7] % 128), d[8]>>
  ELSE <<d[8]>>

\* A negative number has one byte if it is small, or if its magnitude is that of
\* the least int64, which stays negative.  Otherwise a prefix pushes the form to
\* the right, out of the length that is returned.
encodeVarint(sign, d) ==
  LET form == encodePositive(d) IN
  IF sign = 1 THEN form
  ELSE IF d[1] >= 128 \/ ~Above(d, <<0, 0, 0, 0, 0, 0, 0, 3>>)
       THEN <<252 + (d[8] % 4)>>
  ELSE SubSeq(<<248>> \o form, 1, Len(form))

\* A number, or the panic of an index out of range.
Number(signed, d) == [signed |-> signed, magnitude |-> d]
OutOfRange == Number(1, <<>>)

\* A form with n bytes after its first, of which top is left.
Form(b, n, top, signed) ==
  IF Len(b) < n + 1 THEN OutOfRange
  ELSE Number(signed,
              [i \in 1 .. 8 |-> IF i > 8 - n THEN b[i - 7 + n]
                                ELSE IF i = 8 - n THEN top ELSE 0])

\* The forms are told apart from the longest prefix to the shortest.
decodeForm(b, signed) ==
  IF b = <<>> THEN OutOfRange
  ELSE IF b[1] >= 240 /\ (b[1] \div 4) % 2 = 1 THEN Form(b, 8, 0, signed)
  ELSE IF b[1] >= 240 THEN Form(b, 4, 0, signed)
  ELSE IF b[1] >= 224 THEN Form(b, 3, b[1] % 16, signed)
  ELSE IF b[1] >= 192 THEN Form(b, 2, b[1] % 32, signed)
  ELSE IF b[1] >= 128 THEN Form(b, 1, b[1] % 64, signed)
  ELSE Form(b, 0, b[1], signed)

\* Two bits after six ones are a number of their own, whose sign is forgotten;
\* five ones are a sign.
decodeVarint(b) ==
  IF b = <<>> THEN OutOfRange
  ELSE IF b[1] >= 252 THEN Form(b, 0, b[1] % 4, 1)
  ELSE IF b[1] >= 248 THEN decodeForm(Tail(b), -1)
  ELSE decodeForm(b, 1)
=============================================================================
