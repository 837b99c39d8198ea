---------------------------- MODULE AudioPacket -----------------------------
(***************************************************************************)
(* What sendAudioPacket writes (gomble/audiopackagewriter.go), and how the *)
(* server reads it.                                                        *)
(***************************************************************************)
EXTENDS Varint

MaxInt32 == 2147483647

\* The magnitude of a number below 2^31.
Magnitude(n) ==
  <<0, 0, 0, 0, n \div 16777216, (n \div 65536) % 256, (n \div 256) % 256,
    n % 256>>

OPUS == 4

\* Mutant of opusHeader: the last packet is told by bit 14.
opusHeaderShifted(length, last) == IF last THEN length + 16384 ELSE length

\* The length of the frame, and bit 13 for the last one.
opusHeader(length, last) ==
  IF last /\ (length \div 8192) % 2 = 0 THEN length + 8192 ELSE length

\* A packet: its type and its target, its number, the length of the frame and
\* whether it is the last, and the frame.
audioPacket(sequenceNumber, opusPayload, last) ==
  <<OPUS * 32>>
    \o encodeVarint(1, Magnitude(sequenceNumber))
    \o encodeVarint(1, Magnitude(opusHeader(Len(opusPayload), last)))
    \o opusPayload

\* The same as a package of the TCP connection, of type UDPTunnel.
tunnelPackage(packet) == <<0, 1>> \o SubSeq(Magnitude(Len(packet)), 5, 8)
                           \o packet

\* The number of the packet after this one.
nextSequenceNumber(n) == (n + 1) % MaxInt32

-----------------------------------------------------------------------------
(* The server.                                                              *)

\* The bytes of a number, told by its first one.
SizeOf(first) ==
  IF first < 128 THEN 1 ELSE IF first < 192 THEN 2
  ELSE IF first < 224 THEN 3 ELSE IF first < 240 THEN 4
  ELSE IF first < 244 THEN 5 ELSE 9

\* It reads one number after the other, if there are two, and takes what is left
\* as the frame.
Read(packet) ==
  LET rest   == Tail(packet)
      number == decodeVarint(rest)
      after  == SubSeq(rest, SizeOf(rest[1]) + 1, Len(rest))
      header == decodeVarint(after)
  IN  IF after = <<>> THEN [type |-> "none"] ELSE
      [type |-> packet[1] \div 32, target |-> packet[1] % 32,
       number |-> number.magnitude,
       last |-> (header.magnitude[7] \div 32) % 2 = 1,
       length |-> (header.magnitude[7] % 32) * 256 + header.magnitude[8],
       frame |-> SubSeq(after, SizeOf(after[1]) + 1, Len(after))]
=============================================================================
