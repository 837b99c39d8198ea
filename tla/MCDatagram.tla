----------------------------- MODULE MCDatagram -----------------------------
(* Instances of Datagram for TLC: numbers around every power of two at     *)
(* which a form of the varint begins or a byte fills up, frames that end   *)
(* around the end of a block, and a permutation of blocks in the place of  *)
(* AES.                                                                    *)
EXTENDS Datagram

\* Each byte is mixed with the one before, first forwards, then backwards.
Mix(b, m) ==
  LET c[i \in 0 .. BlockSize] ==
        IF i = 0 THEN m ELSE (5 * b[i] + 3 * c[i - 1] + 29 * i) % 256
  IN  Block([i \in 1 .. BlockSize |-> c[i]])
\* 205 is the inverse of 5, and 256 * 3 keeps the difference from being negative.
Unmix(c, m) ==
  Block([i \in 1 .. BlockSize |->
    (205 * (c[i] + 2816 - 3 * (IF i = 1 THEN m ELSE c[i - 1]) - 29 * i)) % 256])
MCE(b) == Mix(Reverse(Mix(b, 99)), 45)
MCD(c) == Unmix(Reverse(Unmix(c, 45)), 99)

Numbers == {127, 128, 16383, 16384, 2097151, 2097152, 268435455,
            268435456, 268435457, MaxInt32 - 2, MaxInt32 - 1}

\* Times with one byte of these, all before it 0 and all after it the same.
Limits == {1, 127, 128}
MCTimestamps ==
  {t \in {[i \in 1 .. 8 |-> IF i = p THEN b ELSE IF i > p THEN c ELSE 0] :
            p \in 1 .. 4, b \in Limits, c \in {0, 255}}
     \cap Positive : Above(t, Two32)}

\* Shorter and longer than either overhead, with the same bytes behind the first.
MCStrays ==
  {[i \in 1 .. n |-> IF i = 1 THEN 7 ELSE b] :
     n \in 0 .. 19 \cup {27}, b \in {0, 16, 200}}
=============================================================================
