-------------------------- MODULE TransportProofs ---------------------------
(* Proofs about Transport, for every value of its constants. *)
EXTENDS Transport, TLAPS

\* What is left in the receive buffer of a broken path and the rounds already
\* spent on it make up at most a full buffer.
BacklogInv == udp # "up" => deadRounds + Len(socket) <= SocketCap

IInv == TypeOK /\ BacklogInv

-----------------------------------------------------------------------------
\* Facts about the receive buffer.
LEMMA BufferFacts ==
  ASSUME TypeOK
  PROVE  /\ socket \in Seq(Kinds)
         /\ Len(socket) \in 0 .. SocketCap
         /\ SocketCap \in Nat
         /\ deadRounds \in Nat /\ deadRounds <= SocketCap + 1
  BY SocketCapAssumption DEF TypeOK

\* Reading takes the oldest datagram out of the buffer.
LEMMA TailOfBuffer ==
  ASSUME TypeOK, socket # <<>>
  PROVE  /\ Tail(socket) \in Seq(Kinds)
         /\ Len(Tail(socket)) = Len(socket) - 1
         /\ Head(socket) \in Kinds
         /\ Len(socket) > 0
  BY DEF TypeOK

\* A datagram received keeps the buffer within its capacity.
LEMMA ReceivedFits ==
  ASSUME TypeOK, NEW k \in Kinds, Received(k)
  PROVE  /\ socket' \in Seq(Kinds)
         /\ Len(socket') <= SocketCap
         /\ gaps' \in BOOLEAN
<1>1. CASE Len(socket) < SocketCap
  <2>1. socket' = Append(socket, k) /\ gaps' = gaps
    BY <1>1 DEF Received
  <2>2. Append(socket, k) \in Seq(Kinds) /\ Len(Append(socket,
  k)) = Len(socket) + 1
    BY BufferFacts
  <2>3. Len(Append(socket, k)) <= SocketCap
    BY <1>1, <2>2, BufferFacts
  <2> QED BY <2>1, <2>2, <2>3 DEF TypeOK
<1>2. CASE ~(Len(socket) < SocketCap)
  BY <1>2, BufferFacts DEF Received, TypeOK
<1> QED BY <1>1, <1>2

\* A new key makes everything in the buffer stale and loses nothing of it.
LEMMA StaleBuffer ==
  ASSUME NEW s \in Seq(Kinds)
  PROVE  LET t == [i \in DOMAIN s |-> "stale"]
         IN  t \in Seq(Kinds) /\ Len(t) = Len(s)
<1> DEFINE t == [i \in DOMAIN s |-> "stale"]
<1>1. Len(s) \in Nat /\ DOMAIN s = 1 .. Len(s)
  OBVIOUS
<1>2. t = [i \in 1 .. Len(s) |-> "stale"]
  BY <1>1
<1>3. "stale" \in Kinds
  BY DEF Kinds, Answers
<1>4. t \in Seq(Kinds)
  BY <1>1, <1>2, <1>3
<1>5. Len(t) = Len(s)
  BY <1>1, <1>2, <1>4
<1> QED BY <1>4, <1>5

\* The count of rounds stays within its bound and grows by at most one.
LEMMA CountDeadRoundFacts ==
  ASSUME TypeOK, CountDeadRound
  PROVE  /\ deadRounds' \in 0 .. SocketCap + 1
         /\ deadRounds' <= deadRounds + 1
         /\ tcpTunnelMode' => deadRounds' = 0
  BY BufferFacts DEF CountDeadRound, TypeOK

-----------------------------------------------------------------------------
LEMMA InitIInv == Init => IInv
<1> SUFFICES ASSUME Init PROVE IInv
  OBVIOUS
<1>1. socket \in Seq(Kinds) /\ Len(socket) = 0 /\ deadRounds = 0
  BY DEF Init
<1>2. air \in [Answers -> 0 .. AirCap]
  BY AirCapAssumption DEF Init
<1>3. TypeOK
  <2>1. Len(socket) <= SocketCap /\ deadRounds \in 0 .. SocketCap + 1
    BY <1>1, SocketCapAssumption
  <2>2. /\ mode \in Ciphers \cup {"none"} /\ tcpTunnelMode \in BOOLEAN
        /\ gaps \in BOOLEAN
        /\ answered \in BOOLEAN /\ exited \in BOOLEAN
    BY DEF Init
  <2>3. /\ pinger \in {"select", "tcpData", "encrypt", "read"}
        /\ messenger \in {"idle", "data"}
        /\ audio \in {"idle", "udp"}
        /\ voicePath \in {"none", "tcp", "udp"}
        /\ udp \in {"up", "cut", "refused"}
    BY DEF Init
  <2> QED BY <1>1, <1>2, <2>1, <2>2, <2>3 DEF TypeOK
<1>4. BacklogInv
  BY <1>1, SocketCapAssumption DEF BacklogInv
<1> QED BY <1>3, <1>4 DEF IInv

LEMMA PathChangesIInv == IInv /\ PathChanges => IInv'
<1> SUFFICES ASSUME IInv, PathChanges PROVE IInv'
  OBVIOUS
<1>1. TypeOK'
  BY BufferFacts, AirCapAssumption
  DEF IInv, TypeOK, PathChanges, clientVars, voiceVars
<1>2. BacklogInv'
  BY BufferFacts DEF IInv, BacklogInv, PathChanges
<1> QED BY <1>1, <1>2 DEF IInv

LEMMA AnswerArrivesIInv ==
  ASSUME IInv, NEW k \in Answers, AnswerArrives(k)
  PROVE  IInv'
<1>1. /\ socket' \in Seq(Kinds)
      /\ Len(socket') <= SocketCap
      /\ gaps' \in BOOLEAN
  <2>1. CASE Received(k)
    BY <2>1, ReceivedFits DEF IInv, Kinds
  <2>2. CASE ~Received(k)
    BY <2>2 DEF AnswerArrives, IInv, TypeOK
  <2> QED BY <2>1, <2>2
<1>2. air' \in [Answers -> 0 .. AirCap]
  <2>1. air[k] \in 0 .. AirCap /\ air[k] > 0
    BY DEF AnswerArrives, IInv, TypeOK
  <2>2. air[k] - 1 \in 0 .. AirCap
    BY <2>1, AirCapAssumption
  <2> QED BY <2>2 DEF AnswerArrives, IInv, TypeOK
<1>3. TypeOK'
  BY <1>1, <1>2
  DEF IInv, TypeOK, AnswerArrives, clientVars, voiceVars
<1>4. BacklogInv'
  BY DEF BacklogInv, AnswerArrives
<1> QED BY <1>3, <1>4 DEF IInv

LEMMA VoiceArrivesIInv == IInv /\ VoiceArrives => IInv'
<1> SUFFICES ASSUME IInv, VoiceArrives PROVE IInv'
  OBVIOUS
<1>1. /\ socket' \in Seq(Kinds)
      /\ Len(socket') <= SocketCap
      /\ gaps' \in BOOLEAN
  BY ReceivedFits DEF VoiceArrives, IInv, Kinds
<1>2. TypeOK'
  BY <1>1 DEF IInv, TypeOK, VoiceArrives, clientVars, voiceVars
<1>3. BacklogInv'
  BY DEF BacklogInv, VoiceArrives
<1> QED BY <1>2, <1>3 DEF IInv

LEMMA CryptSetupIInv == IInv /\ CryptSetup => IInv'
<1> SUFFICES ASSUME IInv, CryptSetup PROVE IInv'
  OBVIOUS
<1>1. socket' \in Seq(Kinds) /\ Len(socket') = Len(socket)
  BY StaleBuffer DEF CryptSetup, IInv, TypeOK
<1>2. air' \in [Answers -> 0 .. AirCap]
  <2>1. air["answer"] \in 0 .. AirCap /\ air["stale"] \in 0 .. AirCap
    BY DEF IInv, TypeOK, Answers
  <2>2. air["answer"] + air["stale"] \in 0 .. AirCap
    BY <2>1, AirCapAssumption DEF CryptSetup
  <2>3. air' = [answer |-> 0, stale |-> air["answer"] + air["stale"]]
    BY DEF CryptSetup
  <2>4. \A n \in 0 .. AirCap :
          [answer |-> 0, stale |-> n] \in [{"answer", "stale"} -> 0 .. AirCap]
    BY AirCapAssumption
  <2> QED BY <2>2, <2>3, <2>4 DEF Answers
<1>3. TypeOK'
  BY <1>1, <1>2 DEF IInv, TypeOK, CryptSetup, voiceVars
<1>4. BacklogInv'
  BY <1>1 DEF IInv, BacklogInv, CryptSetup
<1> QED BY <1>3, <1>4 DEF IInv

\* The steps of pingRoutine before it reads.
BeforeRead ==
  \/ TcpPing \/ TcpPingData
  \/ UdpPing \/ UdpPingPanics
  \/ WritePing \/ WritePingFails

LEMMA WriteIInv ==
  IInv /\ BeforeRead => IInv'
<1> SUFFICES ASSUME IInv, BeforeRead PROVE IInv'
  OBVIOUS
<1>1. socket' = socket /\ udp' = udp /\ deadRounds' = deadRounds /\ gaps' = gaps
  BY DEF BeforeRead, TcpPing, TcpPingData, UdpPing, UdpPingPanics, WritePing,
     WritePingFails, networkVars
<1>2. air' \in [Answers -> 0 .. AirCap]
  <2>1. CASE air' = [air EXCEPT !["answer"] = @ + 1] /\ air["answer"] < AirCap
    <3>1. air["answer"] \in 0 .. AirCap
      BY DEF IInv, TypeOK, Answers
    <3>2. air["answer"] + 1 \in 0 .. AirCap
      BY <2>1, <3>1, AirCapAssumption
    <3> QED BY <2>1, <3>2 DEF IInv, TypeOK
  <2>2. CASE air' = air
    BY <2>2 DEF IInv, TypeOK
  <2> QED
    BY <2>1, <2>2
    DEF BeforeRead, TcpPing, TcpPingData, UdpPing, UdpPingPanics, WritePing,
        WritePingFails, networkVars
<1>3. TypeOK'
  <2> USE DEF IInv, TypeOK, voiceVars, clientVars
  <2>1. CASE TcpPing
    BY <1>1, <1>2, <2>1 DEF TcpPing
  <2>2. CASE TcpPingData
    BY <1>1, <1>2, <2>2 DEF TcpPingData
  <2>3. CASE UdpPing
    BY <1>1, <1>2, <2>3 DEF UdpPing
  <2>4. CASE UdpPingPanics
    BY <1>1, <1>2, <2>4 DEF UdpPingPanics
  <2>5. CASE WritePing
    BY <1>1, <1>2, <2>5 DEF WritePing
  <2>6. CASE WritePingFails
    BY <1>1, <1>2, <2>6 DEF WritePingFails
  <2> QED BY <2>1, <2>2, <2>3, <2>4, <2>5, <2>6 DEF BeforeRead
<1>4. BacklogInv'
  BY <1>1 DEF IInv, BacklogInv
<1> QED BY <1>3, <1>4 DEF IInv

\* A round ends with one datagram less in the buffer, or with the tunnel.
LEMMA ReadIInv == IInv /\ (ReadAnswer \/ ReadTimeout \/ ReadRefused) => IInv'
<1>1. ASSUME IInv, ReadAnswer PROVE IInv'
  <2>1. /\ socket # <<>> /\ socket' = Tail(socket) /\ udp' = udp
        /\ CountDeadRound
        /\ tcpTunnelMode' \in BOOLEAN /\ answered' \in BOOLEAN
    BY <1>1 DEF ReadAnswer, IInv, TypeOK
  <2>2. TypeOK'
    BY <1>1, <2>1, TailOfBuffer, BufferFacts, CountDeadRoundFacts
    DEF IInv, TypeOK, ReadAnswer, voiceVars
  <2>3. BacklogInv'
    <3>1. /\ Len(socket') = Len(socket) - 1
          /\ Len(socket) \in 0 .. SocketCap
          /\ deadRounds \in Nat /\ SocketCap \in Nat
          /\ deadRounds' \in Nat /\ deadRounds' <= deadRounds + 1
      BY <1>1, <2>1, TailOfBuffer, BufferFacts, CountDeadRoundFacts DEF IInv
    <3> QED BY <1>1, <2>1, <3>1 DEF IInv, BacklogInv
  <2> QED BY <2>2, <2>3 DEF IInv
<1>2. ASSUME IInv, ReadTimeout PROVE IInv'
  <2>1. socket = <<>> /\ UNCHANGED networkVars /\ CountDeadRound /\ tcpTunnelMode'
    BY <1>2 DEF ReadTimeout
  <2>2. deadRounds' = 0 /\ socket' = <<>>
    BY <1>2, <2>1, CountDeadRoundFacts DEF IInv, networkVars
  <2>3. TypeOK'
    BY <1>2, <2>1, <2>2, BufferFacts
    DEF IInv, TypeOK, ReadTimeout, networkVars, voiceVars
  <2>4. BacklogInv'
    BY <1>2, <2>2, BufferFacts DEF IInv, BacklogInv
  <2> QED BY <2>3, <2>4 DEF IInv
<1>3. ASSUME IInv, ReadRefused PROVE IInv'
  BY <1>3
  DEF IInv, TypeOK, BacklogInv, ReadRefused, clientVars, voiceVars,
      networkVars
<1> QED BY <1>1, <1>2, <1>3

LEMMA sendAudioPacketIInv == IInv /\ sendAudioPacket => IInv'
<1> SUFFICES ASSUME IInv, sendAudioPacket PROVE IInv'
  OBVIOUS
<1>1. TypeOK'
  BY DEF IInv, TypeOK, sendAudioPacket, SendAudioPacket, WriteAudio,
         WriteAudioFails, clientVars, voiceVars, networkVars
<1>2. BacklogInv'
  BY DEF IInv, BacklogInv, sendAudioPacket, SendAudioPacket, WriteAudio,
         WriteAudioFails, networkVars
<1> QED BY <1>1, <1>2 DEF IInv

LEMMA eventRoutineIInv == IInv /\ eventRoutine => IInv'
  BY DEF IInv, TypeOK, BacklogInv, eventRoutine, SendMessage, SendMessageData,
     clientVars, voiceVars, networkVars

LEMMA NextIInv == IInv /\ [Next]_vars => IInv'
<1> SUFFICES ASSUME IInv, [Next]_vars PROVE IInv'
  OBVIOUS
<1>1. CASE Network
  BY <1>1, PathChangesIInv, VoiceArrivesIInv, AnswerArrivesIInv DEF Network
<1>2. CASE CryptSetup
  BY <1>2, CryptSetupIInv
<1>3. CASE pingRoutine
  BY <1>3, WriteIInv, ReadIInv DEF pingRoutine, BeforeRead
<1>4. CASE sendAudioPacket
  BY <1>4, sendAudioPacketIInv
<1>5. CASE eventRoutine
  BY <1>5, eventRoutineIInv
<1>6. CASE UNCHANGED vars
  BY <1>6 DEF IInv, TypeOK, BacklogInv, vars
<1> QED BY <1>1, <1>2, <1>3, <1>4, <1>5, <1>6 DEF Next

LEMMA Invariance == Spec => []IInv
  BY InitIInv, NextIInv, PTL DEF Spec

-----------------------------------------------------------------------------
\* The state is what the goroutines expect: the receive buffer within its
\* capacity, the answers under way within their bound, the mode one of those
\* the server may set (packagewriter.go, audiopackagewriter.go).
THEOREM TypeCorrect == Spec => []TypeOK
<1>1. IInv => TypeOK
  BY DEF IInv
<1> QED BY <1>1, Invariance, PTL

\* A broken path keeps the voice for at most as many rounds of pingRoutine as
\* the receive buffer holds datagrams, whatever the cipher, the capacity and
\* the network (packagewriter.go:97-131).
THEOREM FallbackBoundAlways == Spec => []FallbackBound
<1>1. IInv => FallbackBound
  BY DEF IInv, BacklogInv, FallbackBound
<1> QED BY <1>1, Invariance, PTL

\* Under XSalsa20-Poly1305, voice goes over UDP only after a ping was answered
\* (packagewriter.go:124-131, audiopackagewriter.go:77-101).  A datagram that
\* cannot be decrypted never reads as a ping there.
THEOREM AnsweredBeforeUdpAlways == Spec => []AnsweredBeforeUdp
<1>1. Init => AnsweredBeforeUdp
  BY DEF Init, AnsweredBeforeUdp
<1>2. ASSUME IInv, AnsweredBeforeUdp, [Next]_vars PROVE AnsweredBeforeUdp'
  <2>1. ASSUME ReadAnswer PROVE AnsweredBeforeUdp'
    <3>1. Head(socket) \in Kinds
      BY <1>2, <2>1, TailOfBuffer DEF ReadAnswer, IInv
    <3>2. PICK pckType \in PacketTypes(Head(socket)) :
            /\ tcpTunnelMode' = (tcpTunnelMode /\ pckType # "Ping")
            /\ answered' =
                 (answered \/ (Head(socket) = "answer" /\ pckType = "Ping"))
      BY <2>1 DEF ReadAnswer
    <3>3. mode # "OCB2-AES128" /\ pckType = "Ping" => Head(socket) = "answer"
      BY <3>1, <3>2 DEF PacketTypes, Kinds, Answers
    <3>4. audio' = audio /\ mode' = mode
      BY <2>1 DEF ReadAnswer, voiceVars
    <3> QED BY <1>2, <3>2, <3>3, <3>4 DEF AnsweredBeforeUdp, IInv, TypeOK
  <2>2. CASE Network
    BY <1>2, <2>2
    DEF Network, PathChanges, VoiceArrives, AnswerArrives, AnsweredBeforeUdp,
        clientVars, voiceVars
  <2>3. CASE CryptSetup
    BY <1>2, <2>3 DEF CryptSetup, AnsweredBeforeUdp, voiceVars
  <2>4. CASE pingRoutine
    BY <1>2, <2>1, <2>4
    DEF pingRoutine, TcpPing, TcpPingData, UdpPing, UdpPingPanics, WritePing,
        WritePingFails,
        ReadTimeout, ReadRefused, AnsweredBeforeUdp, clientVars,
        voiceVars
  <2>5. CASE sendAudioPacket
    BY <1>2, <2>5
    DEF sendAudioPacket, SendAudioPacket, WriteAudio, WriteAudioFails,
        AnsweredBeforeUdp, clientVars, voiceVars
  <2>6. CASE eventRoutine
    BY <1>2, <2>6
    DEF eventRoutine, SendMessage, SendMessageData, AnsweredBeforeUdp,
        clientVars, voiceVars
  <2>7. CASE UNCHANGED vars
    BY <1>2, <2>7 DEF AnsweredBeforeUdp, vars
  <2> QED BY <1>2, <2>2, <2>3, <2>4, <2>5, <2>6, <2>7 DEF Next
<1> QED BY <1>1, <1>2, Invariance, PTL DEF Spec
=============================================================================
