------------------------------ MODULE Datagram ------------------------------
(***************************************************************************)
(* The way of a packet, byte for byte: sendAudioPacket or pingRoutine make *)
(* it, cryptState encrypts it or the tunnel wraps it, the server reads it  *)
(* and answers a ping, and pingRoutine reads what comes                    *)
(* (gomble/audiopackagewriter.go, packagewriter.go, varint.go, cryptstate).*)
(* Which nonce is used is in CryptState, when it is sent in Transport.     *)
(***************************************************************************)
EXTENDS AudioPacket, Ocb2, SequencesExt

CONSTANTS
  Modes,            \* the modes a server may choose
  SequenceNumbers,  \* where the count of packets may have got to
  PayloadLengths,   \* lengths of frames of Opus
  Timestamps,       \* times of the clock, in nanoseconds since 1970
  Strays,           \* datagrams nobody encrypted
  MaxDatagram       \* bound: no longer packet goes over UDP

ASSUME ModesAssumption == Modes \subseteq {"OCB2-AES128", "XSalsa20-Poly1305"}
ASSUME SequenceNumbersAssumption == SequenceNumbers \subseteq 0 .. MaxInt32 - 1
ASSUME PayloadLengthsAssumption == PayloadLengths \subseteq 0 .. 8191
ASSUME TimestampsAssumption ==
  Timestamps \subseteq Positive /\ \A t \in Timestamps : Above(t, Two32)
ASSUME StraysAssumption == Strays \subseteq Seq(Byte)
ASSUME MaxDatagramAssumption == MaxDatagram \in Nat

VARIABLES
  mode,            \* the mode of cryptState
  sequenceNumber,  \* the number of the next packet of voice
  sent,            \* what the packet was to say
  packet,          \* the packet: there is one in each behaviour
  wire,            \* what is on its way: by which path, and its bytes
  result           \* what the one that read it last made of it

vars == <<mode, sequenceNumber, sent, packet, wire, result>>

-----------------------------------------------------------------------------
(* Modes.                                                                   *)

NonceSize == IF mode = "OCB2-AES128" THEN 16 ELSE 24
modeOverhead == IF mode = "OCB2-AES128" THEN 3 ELSE 16

\* Overhead of CryptState: the tag, and the first byte of the nonce.
Overhead == 1 + modeOverhead

\* The nonces that client and server are at; the first byte is sent.
ClientNonce == [i \in 1 .. NonceSize |-> (200 + 3 * i) % 256]
ServerNonce == [i \in 1 .. NonceSize |-> (7 * i) % 256]

\* The secretbox: a tag and something of the same length as the message, which
\* under another nonce or after a change is not opened.
Poly1305(src, nonce) ==
  [i \in 1 .. 16 |-> (nonce[i] + Len(src) + FoldLeft(LAMBDA x, y : x + y, i, src)) % 256]
Seal(src, nonce) == Poly1305(src, nonce) \o src
Open(box, nonce) ==
  LET plain == SubSeq(box, 17, Len(box)) IN
  [plain |-> plain, ok |-> SubSeq(box, 1, 16) = Poly1305(plain, nonce)]

\* Mutant of Sealed: the tag follows the message.
SealedTagLast(src, nonce) ==
  IF mode = "OCB2-AES128"
  THEN LET e == Encrypt(src, nonce, modeOverhead) IN e.dst \o e.tag
  ELSE Seal(src, nonce)

\* Encrypt of the mode.
Sealed(src, nonce) ==
  IF mode = "OCB2-AES128"
  THEN LET e == Encrypt(src, nonce, modeOverhead) IN e.tag \o e.dst
  ELSE Seal(src, nonce)

\* Decrypt of the mode.
Opened(src, nonce) ==
  IF mode = "OCB2-AES128"
  THEN Decrypt(SubSeq(src, 4, Len(src)), nonce, SubSeq(src, 1, 3))
  ELSE Open(src, nonce)

\* Encrypt of CryptState: the first byte of the nonce, and what the mode makes.
Encrypted(src, nonce) == <<nonce[1]>> \o Sealed(src, nonce)

-----------------------------------------------------------------------------
(* The client sends.                                                        *)

Nothing == [path |-> "none", bytes |-> <<>>]

Init ==
  /\ mode \in Modes
  /\ sequenceNumber \in SequenceNumbers
  /\ sent = [kind |-> "none"] /\ packet = <<>> /\ wire = Nothing
  /\ result = [by |-> "none"]

Sends(content, p, w) ==
  /\ sent.kind = "none"
  /\ sent' = content
  /\ packet' = p
  /\ wire' = w
  /\ UNCHANGED <<mode, result>>

\* A frame of n bytes goes into the tunnel or into a datagram.
Payload(n) == [i \in 1 .. n |-> i % 256]
sendAudioPacket ==
  \E n \in PayloadLengths, last \in BOOLEAN, path \in {"tunnel", "udp"} :
    LET p == audioPacket(sequenceNumber, Payload(n), last) IN
    /\ path = "udp" => Len(p) <= MaxDatagram
    /\ Sends([kind |-> "voice", number |-> sequenceNumber, length |-> n,
              last |-> last],
             p, [path |-> path,
                 bytes |-> IF path = "udp" THEN Encrypted(p, ClientNonce)
                           ELSE tunnelPackage(p)])
    /\ sequenceNumber' = nextSequenceNumber(sequenceNumber)

\* A ping holds the time of the clock.
PingHeader == 32
sendPing ==
  \E t \in Timestamps :
    LET p == <<PingHeader>> \o encodeVarint(1, t) IN
    /\ Sends([kind |-> "ping", time |-> t],
             p, [path |-> "udp", bytes |-> Encrypted(p, ClientNonce)])
    /\ UNCHANGED sequenceNumber

-----------------------------------------------------------------------------
(* The server.                                                              *)

Unwrapped ==
  IF wire.path = "tunnel"
  THEN [plain |-> SubSeq(wire.bytes, 7, Len(wire.bytes)),
        ok |-> /\ SubSeq(wire.bytes, 1, 4) = <<0, 1, 0, 0>>
               /\ wire.bytes[5] * 256 + wire.bytes[6] = Len(wire.bytes) - 6]
  ELSE Opened(Tail(wire.bytes), ClientNonce)

\* It takes voice.
ServerReads ==
  /\ wire.path \in {"tunnel", "udp"}
  /\ sent.kind = "voice"
  /\ result' = IF Unwrapped.ok
               THEN [by |-> "server", packet |-> Read(Unwrapped.plain)]
               ELSE [by |-> "refused"]
  /\ wire' = Nothing
  /\ UNCHANGED <<mode, sequenceNumber, sent, packet>>

\* It sends a ping back as it came.
ServerEchoes ==
  /\ wire.path = "udp" /\ sent.kind = "ping"
  /\ wire' = IF Unwrapped.ok
             THEN [path |-> "answer",
                   bytes |-> Encrypted(Unwrapped.plain, ServerNonce)]
             ELSE Nothing
  /\ UNCHANGED <<mode, sequenceNumber, sent, packet, result>>

\* Instead, something comes that nobody encrypted, which secretbox finds out, but
\* whose first byte is that of the nonce.
StrayArrives ==
  /\ wire.path = "udp" /\ sent.kind = "ping"
  /\ \E bytes \in Strays :
       /\ bytes # <<>> => bytes[1] = ServerNonce[1]
       /\ mode # "OCB2-AES128" /\ Len(bytes) > Overhead =>
            ~Open(Tail(bytes), ServerNonce).ok
       /\ wire' = [path |-> "stray", bytes |-> bytes]
  /\ UNCHANGED <<mode, sequenceNumber, sent, packet, result>>

-----------------------------------------------------------------------------
(* The client reads the answer.                                             *)

\* What Decrypt leaves in dst: nothing if the datagram is too short for it, and
\* only what secretbox has checked.
Left(o) ==
  IF mode = "OCB2-AES128" \/ o.ok THEN o.plain
  ELSE [i \in 1 .. Len(o.plain) |-> 0]

\* Mutant of Answer: the time is read from the first byte on.
AnswerWithHeader(n, plain) ==
  IF n <= Overhead THEN [by |-> "panic"]
  ELSE IF plain[1] \div 32 # 1 THEN [by |-> "ignored"]
  ELSE IF decodeVarint(plain) = OutOfRange THEN [by |-> "panic"]
  ELSE [by |-> "client", number |-> decodeVarint(plain)]

\* Mutant of Answer: the overhead is removed twice.
AnswerCutTwice(n, plain) ==
  IF n <= 2 * Overhead THEN [by |-> "panic"]
  ELSE IF plain[1] \div 32 # 1 THEN [by |-> "ignored"]
  ELSE IF decodeVarint(Tail(plain)) = OutOfRange THEN [by |-> "panic"]
  ELSE [by |-> "client", number |-> decodeVarint(Tail(plain))]

\* What pingRoutine makes of n bytes and their plain text: Decrypt panics if there
\* is nothing behind the tag, the slice that removes the overhead if there is
\* less; the type of what is left tells a ping, whose time is decoded.
Answer(n, plain) ==
  IF n <= Overhead THEN [by |-> "panic"]
  ELSE IF plain[1] \div 32 # 1 THEN [by |-> "ignored"]
  ELSE IF decodeVarint(Tail(plain)) = OutOfRange THEN [by |-> "panic"]
  ELSE [by |-> "client", number |-> decodeVarint(Tail(plain))]

\* pingRoutine reads from the socket and decrypts.
ReadAnswer ==
  /\ wire.path \in {"answer", "stray"}
  /\ result' = Answer(Len(wire.bytes),
                      Left(Opened(Tail(wire.bytes), ServerNonce)))
  /\ wire' = Nothing
  /\ UNCHANGED <<mode, sequenceNumber, sent, packet>>

Next ==
  \/ sendAudioPacket \/ sendPing
  \/ ServerReads \/ ServerEchoes \/ StrayArrives
  \/ ReadAnswer

Spec == Init /\ [][Next]_vars

-----------------------------------------------------------------------------
(* Properties                                                               *)

\* The server accepts a packet of voice and reads what was sent, over either path:
\* its number, one before that of the next packet, the frame, and whether it is
\* the last.  Only the packet of number 2^28 reads as another
\* (audiopackagewriter.go:36-101, varint.go:45, mode_ocb2.go:50).
ServerReadsVoice ==
  /\ result.by # "refused"
  /\ result.by = "server" =>
       /\ sequenceNumber = nextSequenceNumber(sent.number)
       /\ result.packet =
            [type |-> OPUS, target |-> 0, number |-> Magnitude(sent.number),
             last |-> sent.last, length |-> sent.length,
             frame |-> Payload(sent.length)]
          <=> Magnitude(sent.number) # Two28

\* A datagram under OCB2-AES128 is what the definition of OCB2 says
\* (cryptstate/ocb2/ocb2.go:45-170).
WrittenAsOcb2 ==
  mode = "OCB2-AES128" /\ wire.path = "udp" =>
    /\ wire.bytes[1] = ClientNonce[1]
    /\ IsOcb2(packet, ClientNonce, SubSeq(wire.bytes, 5, Len(wire.bytes)),
              SubSeq(wire.bytes, 2, 4))

\* An answer of the server is decrypted and recognised, and its time is the one
\* that was sent (packagewriter.go:113-131, varint.go:75, ocb2.go:185-246).
AnswerTellsTheTime ==
  [][wire.path = "answer" =>
       result' = [by |-> "client", number |-> Number(1, sent.time)]]_vars

\* A datagram ends the process only if nothing is left of it without the overhead
\* or if OCB2, which leaves the plain text of what it refuses, makes a ping of it
\* whose time is cut off: a header and at most 9 of the 10 bytes it may announce
\* (cryptstate.go:121, mode_ocb2.go:63, packagewriter.go:118-125, varint.go:75).
OnlyShortPanics ==
  [][result'.by = "panic" =>
       Len(wire.bytes) <= Overhead + IF mode = "OCB2-AES128" THEN 10 ELSE 0]_vars
=============================================================================
