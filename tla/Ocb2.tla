-------------------------------- MODULE Ocb2 --------------------------------
(***************************************************************************)
(* OCB2 as cryptstate/ocb2/ocb2.go computes it, in place and block after   *)
(* block, and as its authors define it, block by block.  A block is a      *)
(* sequence of bytes; E and D stand for the block cipher under some key    *)
(* and for its inverse.                                                    *)
(***************************************************************************)
EXTENDS Naturals, Sequences

CONSTANTS E(_), D(_)

BlockSize == 16

\* Exclusive or of two bytes: their bits, of each value p, added without a carry.
AddedBit(a, b, p) == p * (((a \div p) + (b \div p)) % 2)
a ^^ b ==
  AddedBit(a, b, 1) + AddedBit(a, b, 2) + AddedBit(a, b, 4) + AddedBit(a, b, 8)
    + AddedBit(a, b, 16) + AddedBit(a, b, 32) + AddedBit(a, b, 64)
    + AddedBit(a, b, 128)

\* The block, as a sequence, whose bytes are those of f.
Block(f) == SubSeq(f, 1, BlockSize)

zeros == Block([i \in 1 .. BlockSize |-> 0])
xor(a, b) == Block([i \in 1 .. BlockSize |-> a[i] ^^ b[i]])

\* Each byte takes the first bit of the next one, the last byte the constant of
\* the field if the first bit of all was set.
times2(block) ==
  LET carry == block[1] \div 128 IN
  Block([i \in 1 .. BlockSize |->
    IF i < BlockSize THEN ((2 * block[i]) % 256) + (block[i + 1] \div 128)
    ELSE ((2 * block[i]) % 256) ^^ (carry * 135)])

times3(block) == xor(times2(block), block)

\* A block that tells the length in bits of the last part.
LengthBlock(remain) ==
  [zeros EXCEPT ![BlockSize - 1] = (8 * remain) \div 256,
                ![BlockSize] = (8 * remain) % 256]

BlockAt(s, off) == SubSeq(s, off + 1, off + BlockSize)

\* Mutant of IsLast: a full block is never the last.
IsLastUnlessFull(remain) == remain < BlockSize

\* The loop leaves at least a byte for the last part, if there is any.
IsLast(remain) == ~(remain > BlockSize)

\* The offset, the sum of the plain blocks, and what was written.
State(delta, checksum, dst) ==
  [delta |-> delta, checksum |-> checksum, dst |-> dst]
Start(nonce) == State(E(nonce), zeros, <<>>)

\* A round of the loops, if there is more than the last part: the next block is
\* masked with the next offset before and after the cipher.
EncryptRound(src, s) ==
  LET delta == times2(s.delta)
      block == BlockAt(src, Len(s.dst))
  IN  IF IsLast(Len(src) - Len(s.dst)) THEN s
      ELSE State(delta, xor(s.checksum, block),
                 s.dst \o xor(delta, E(xor(delta, block))))
DecryptRound(encrypted, s) ==
  LET delta == times2(s.delta)
      plain == xor(delta, D(xor(delta, BlockAt(encrypted, Len(s.dst)))))
  IN  IF IsLast(Len(encrypted) - Len(s.dst)) THEN s
      ELSE State(delta, xor(s.checksum, plain), s.dst \o plain)

\* The loops, after each number of rounds.
Encrypting(src, nonce) ==
  LET after[n \in 0 .. Len(src)] ==
        IF n = 0 THEN Start(nonce) ELSE EncryptRound(src, after[n - 1])
  IN  after
Decrypting(encrypted, nonce) ==
  LET after[n \in 0 .. Len(encrypted)] ==
        IF n = 0 THEN Start(nonce) ELSE DecryptRound(encrypted, after[n - 1])
  IN  after

\* The pad of what remains, and the tag.
Pad(delta, remain) == E(xor(LengthBlock(remain), delta))
Tag(delta, checksum) == E(xor(times3(delta), checksum))

\* The last part is masked with a pad, which also fills up its block.  The tag
\* is cut to the length of the slice that is given for it.
Encrypt(src, nonce, tagLength) ==
  LET s      == Encrypting(src, nonce)[Len(src) \div BlockSize]
      remain == Len(src) - Len(s.dst)
      delta  == times2(s.delta)
      pad    == Pad(delta, remain)
      tmp    == SubSeq(src, Len(s.dst) + 1, Len(src))
                  \o SubSeq(pad, remain + 1, BlockSize)
  IN  [dst |-> s.dst \o SubSeq(xor(pad, tmp), 1, remain),
       tag |-> SubSeq(Tag(delta, xor(s.checksum, tmp)), 1, tagLength)]

\* The same backwards: a block of zeros that holds the last part comes out of the
\* mask as its plain part and the pad.
Decrypt(encrypted, nonce, tag) ==
  LET s      == Decrypting(encrypted, nonce)[Len(encrypted) \div BlockSize]
      remain == Len(encrypted) - Len(s.dst)
      delta  == times2(s.delta)
      tmp    == xor(SubSeq(encrypted, Len(s.dst) + 1, Len(encrypted))
                      \o SubSeq(zeros, remain + 1, BlockSize),
                    Pad(delta, remain))
      calcTag == Tag(delta, xor(s.checksum, tmp))
  IN  [plain |-> s.dst \o SubSeq(tmp, 1, remain),
       ok |-> SubSeq(calcTag, 1, Len(tag)) = tag]

-----------------------------------------------------------------------------
(* OCB2 as it is defined: no block is treated after another.                *)

\* A block as its bits, the first one first; doubling shifts them, and the first
\* one comes back in places 121, 126, 127 and 128.
Places == <<128, 64, 32, 16, 8, 4, 2, 1>>
BitOf(block, k) ==
  (block[((k - 1) \div 8) + 1] \div Places[((k - 1) % 8) + 1]) % 2

IsDouble(d, block) ==
  \A k \in 1 .. 8 * BlockSize :
    BitOf(d, k) =
      ((IF k = 8 * BlockSize THEN 0 ELSE BitOf(block, k + 1))
        + (IF k \in {121, 126, 127, 128} THEN BitOf(block, 1) ELSE 0)) % 2

\* The offsets up to the n-th, each the double of the one before, and the sum of
\* the filled last part and of the first n blocks of m, after each block.
Offsets(nonce, n) ==
  LET offset[i \in 0 .. n] ==
        IF i = 0 THEN E(nonce) ELSE times2(offset[i - 1])
  IN  offset
PlainSums(filled, m, n) ==
  LET sum[i \in 0 .. n] ==
        IF i = 0 THEN filled
        ELSE xor(sum[i - 1], BlockAt(m, BlockSize * (i - 1)))
  IN  sum

\* Message m under a nonce: c is its ciphertext, and t its tag or the first bytes
\* of it.  The last of the blocks may be part of one.
IsOcb2(m, nonce, c, t) ==
  LET blocks == IF m = <<>> THEN 1 ELSE ((Len(m) - 1) \div BlockSize) + 1
      full   == BlockSize * (blocks - 1)
      rest   == Len(m) - full
      offset == Offsets(nonce, blocks)
      final  == offset[blocks]
      pad    == E(xor(final, LengthBlock(rest)))
      filled == SubSeq(m, full + 1, Len(m)) \o SubSeq(pad, rest + 1, BlockSize)
      sum    == PlainSums(filled, m, blocks - 1)[blocks - 1]
  IN  /\ Len(c) = Len(m)
      /\ \A i \in 1 .. blocks : IsDouble(offset[i], offset[i - 1])
      /\ \A i \in 1 .. blocks - 1 :
           BlockAt(c, BlockSize * (i - 1)) =
             xor(offset[i],
                 E(xor(BlockAt(m, BlockSize * (i - 1)), offset[i])))
      /\ \A j \in 1 .. rest : c[full + j] = filled[j] ^^ pad[j]
      /\ t = SubSeq(E(xor(xor(final, times2(final)), sum)), 1, Len(t))
=============================================================================
