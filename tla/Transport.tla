----------------------------- MODULE Transport -----------------------------
(***************************************************************************)
(* The two connections to the server and the goroutines that write to      *)
(* them. pingRoutine (gomble/packagewriter.go) sends pings over TCP and    *)
(* UDP; after a UDP ping, every 4 s, it reads one datagram and sets        *)
(* tcpTunnelMode by what it gets. sendAudioPacket                          *)
(* (gomble/audiopackagewriter.go), on the audioroutine, follows that flag  *)
(* and sends voice over UDP or through the TCP tunnel. The callbacks on    *)
(* eventRoutine send messages (gomble/user.go) over TCP. The CryptSetup    *)
(* message (gomble/packagereader.go) sets the key.                         *)
(*                                                                         *)
(* A datagram of the server is its kind: the "answer" to a ping, the       *)
(* "voice" of another user, or "stale" when it is under a key no longer in *)
(* use.                                                                    *)
(***************************************************************************)
EXTENDS Naturals, Sequences

CONSTANTS
  Ciphers,    \* the modes CryptSetup may set, one of them for a session
  SocketCap,  \* datagrams the receive buffer of audioConn holds
  AirCap,     \* bound: answers under way from the server
  Conditions  \* what the network and the server may do in a run

ASSUME CiphersAssumption ==
  Ciphers \subseteq {"OCB2-AES128", "XSalsa20-Poly1305"}
ASSUME SocketCapAssumption == SocketCap \in Nat \ {0}
ASSUME AirCapAssumption == AirCap \in Nat \ {0}
ASSUME ConditionsAssumption ==
  Conditions \subseteq {"loss", "cut", "refused", "recover", "rekey", "voice"}

VARIABLES
  mode,                \* of cryptState, "none" before CryptSetup
  tcpTunnelMode,       \* as in audioCryptoConfig
  pinger,              \* where pingRoutine is
  audio,               \* where sendAudioPacket is
  messenger,           \* where the writeProto of a callback is
  voicePath,           \* the way the last voice packet went
  udp,                 \* the path to the server's UDP port
  air,                 \* how many answers of each kind are under way
  socket,              \* the receive buffer of audioConn
  gaps,                \* a datagram was lost: Decrypt may refuse later ones
  answered,            \* an answer to a ping was received and decrypted
  deadRounds,          \* rounds of pingRoutine over a cut path, in UDP mode
  exited               \* the process has ended

Answers == {"answer", "stale"}
Kinds == Answers \cup {"voice"}

clientVars == <<mode, tcpTunnelMode, pinger, answered>>
networkVars == <<udp, air, socket, gaps>>
voiceVars == <<audio, voicePath>>
vars == <<mode, tcpTunnelMode, pinger, audio, voicePath, messenger,
          udp, air, socket, gaps, answered, deadRounds, exited>>

TypeOK ==
  /\ mode \in Ciphers \cup {"none"} /\ tcpTunnelMode \in BOOLEAN
  /\ pinger \in {"select", "tcpData", "encrypt", "read"}
  /\ messenger \in {"idle", "data"}
  /\ audio \in {"idle", "udp"}
  /\ voicePath \in {"none", "tcp", "udp"}
  /\ udp \in {"up", "cut", "refused"}
  /\ air \in [Answers -> 0 .. AirCap]
  /\ socket \in Seq(Kinds) /\ Len(socket) <= SocketCap
  /\ gaps \in BOOLEAN /\ answered \in BOOLEAN /\ exited \in BOOLEAN
  /\ deadRounds \in 0 .. SocketCap + 1

Init ==
  /\ mode = "none" /\ tcpTunnelMode = TRUE
  /\ pinger = "select" /\ audio = "idle" /\ voicePath = "none"
  /\ messenger = "idle"
  /\ udp = "up" /\ air = [k \in Answers |-> 0] /\ socket = <<>>
  /\ gaps = FALSE /\ answered = FALSE /\ deadRounds = 0
  /\ exited = FALSE

-----------------------------------------------------------------------------
(* The network and the server.                                              *)

\* The path may break and come back; what is under way is lost with it.
PathChanges ==
  /\ udp' \in (IF udp = "up" THEN {"cut", "refused"} ELSE {"up"})
  /\ IF udp' = "up" THEN "recover" \in Conditions ELSE udp' \in Conditions
  /\ air' = [k \in Answers |-> 0]
  /\ gaps' = (gaps \/ \E k \in Answers : air[k] > 0)
  /\ deadRounds' = 0
  /\ UNCHANGED <<clientVars, messenger, voiceVars, socket, exited>>

\* A datagram reaches the receive buffer, which drops what it has no room for.
Received(k) ==
  IF Len(socket) < SocketCap
  THEN socket' = Append(socket, k) /\ UNCHANGED gaps
  ELSE gaps' = TRUE /\ UNCHANGED socket

\* An answer arrives, or is lost.
AnswerArrives(k) ==
  /\ udp = "up"
  /\ air[k] > 0
  /\ air' = [air EXCEPT ![k] = @ - 1]
  /\ \/ Received(k)
     \/ "loss" \in Conditions /\ gaps' = TRUE /\ UNCHANGED socket
  /\ UNCHANGED <<clientVars, messenger, voiceVars, udp, deadRounds,
                 exited>>

\* The server passes on what another user says.
VoiceArrives ==
  /\ "voice" \in Conditions
  /\ udp = "up"
  /\ mode # "none"
  /\ Received("voice")
  /\ UNCHANGED <<clientVars, messenger, voiceVars, udp, air,
                 deadRounds, exited>>

-----------------------------------------------------------------------------
(* readRoutine.                                                             *)

\* CryptSetup: the first key, or a new one, under which nothing that was sent
\* before can be decrypted.
CryptSetup ==
  /\ ~exited
  /\ IF mode = "none" THEN mode' \in Ciphers
     ELSE "rekey" \in Conditions /\ UNCHANGED mode
  /\ air["answer"] + air["stale"] <= AirCap
  /\ air' = [answer |-> 0, stale |-> air["answer"] + air["stale"]]
  /\ socket' = [i \in DOMAIN socket |-> "stale"]
  /\ UNCHANGED <<tcpTunnelMode, messenger, pinger, voiceVars,
                 udp, gaps, answered, deadRounds, exited>>

-----------------------------------------------------------------------------
(* pingRoutine.                                                             *)

\* The tick of tcpPing: writeProto writes the header of the ping ...
TcpPing ==
  /\ ~exited /\ pinger = "select"
  /\ pinger' = "tcpData"
  /\ UNCHANGED <<mode, tcpTunnelMode, answered, messenger, voiceVars,
                 networkVars, deadRounds, exited>>

\* ... and then its data.
TcpPingData ==
  /\ ~exited /\ pinger = "tcpData"
  /\ pinger' = "select"
  /\ UNCHANGED <<mode, tcpTunnelMode, answered, messenger, voiceVars,
                 networkVars, deadRounds, exited>>

\* The tick of udpPing: Encrypt counts EncryptIV up ...
UdpPing ==
  /\ ~exited /\ pinger = "select"
  /\ mode # "none"
  /\ pinger' = "encrypt"
  /\ UNCHANGED <<mode, tcpTunnelMode, answered, messenger,
                 voiceVars, networkVars, deadRounds, exited>>

\* Before CryptSetup there is no mode to ask for its overhead.
UdpPingPanics ==
  /\ ~exited /\ pinger = "select"
  /\ mode = "none"
  /\ exited' = TRUE
  /\ UNCHANGED <<clientVars, messenger, voiceVars, networkVars,
                 deadRounds>>

\* Mutant of WritePing: the ping is written a second time.
WritePingTwice ==
  /\ ~exited /\ pinger = "encrypt"
  /\ air["answer"] < AirCap
  /\ pinger' = "read"
  /\ \/ udp = "up" /\ air' = [air EXCEPT !["answer"] = @ + 2]
     \/ (udp = "up" => "loss" \in Conditions) /\ UNCHANGED air
  /\ UNCHANGED <<mode, tcpTunnelMode, answered, messenger,
                 voiceVars, udp, socket, gaps, deadRounds, exited>>

\* ... and encrypts under what EncryptIV is by then.  The ping is written, and
\* answered if it reaches the server.
WritePing ==
  /\ ~exited /\ pinger = "encrypt"
  /\ air["answer"] < AirCap
  /\ pinger' = "read"
  /\ \/ udp = "up" /\ air' = [air EXCEPT !["answer"] = @ + 1]
     \/ (udp = "up" => "loss" \in Conditions) /\ UNCHANGED air
  /\ UNCHANGED <<mode, tcpTunnelMode, answered, messenger,
                 voiceVars, udp, socket, gaps, deadRounds, exited>>

\* The same, but Write reports an error.
WritePingFails ==
  /\ ~exited /\ pinger = "encrypt"
  /\ udp # "up"
  /\ tcpTunnelMode' = TRUE
  /\ pinger' = "select"
  /\ UNCHANGED <<mode, answered, messenger, voiceVars, networkVars,
                 deadRounds, exited>>

\* One more round that leaves the voice on a path that does not carry it.
CountDeadRound ==
  deadRounds' = IF udp = "up" \/ tcpTunnelMode' THEN 0
                ELSE IF deadRounds > SocketCap THEN deadRounds
                ELSE deadRounds + 1

\* What Decrypt makes of a datagram.  Its error is ignored: OCB2 leaves in plain
\* whatever came out, the others nothing, which reads as the type CELTAplha.
PacketTypes(k) ==
  LET decrypted == IF k = "answer" THEN "Ping" ELSE "OPUS"
      refused   == IF mode = "OCB2-AES128" THEN {"Ping", "OPUS"}
                                             ELSE {"CELTAplha"}
  IN  (IF k = "stale" THEN {} ELSE {decrypted})
        \cup (IF k = "stale" \/ gaps THEN refused ELSE {})

\* Mutant of ReadAnswer: the packet type is not looked at.
ReadAnswerOfAnyType ==
  /\ ~exited /\ pinger = "read"
  /\ socket # <<>>
  /\ socket' = Tail(socket)
  /\ pinger' = "select"
  /\ tcpTunnelMode' = FALSE
  /\ answered' = (answered \/ Head(socket) = "answer")
  /\ CountDeadRound
  /\ UNCHANGED <<mode, messenger, voiceVars, udp, air, gaps, exited>>

\* Mutant of ReadAnswer: UDP is not taken up again.
ReadAnswerForNothing ==
  /\ ~exited /\ pinger = "read"
  /\ socket # <<>>
  /\ socket' = Tail(socket)
  /\ pinger' = "select"
  /\ UNCHANGED <<mode, tcpTunnelMode, answered, messenger, voiceVars,
                 udp, air, gaps, deadRounds, exited>>

\* Read returns a datagram, the oldest one, whatever it is.
ReadAnswer ==
  /\ ~exited /\ pinger = "read"
  /\ socket # <<>>
  /\ socket' = Tail(socket)
  /\ pinger' = "select"
  /\ \E pckType \in PacketTypes(Head(socket)) :
       /\ tcpTunnelMode' = (tcpTunnelMode /\ pckType # "Ping")
       /\ answered' =
            (answered \/ (Head(socket) = "answer" /\ pckType = "Ping"))
  /\ CountDeadRound
  /\ UNCHANGED <<mode, messenger, voiceVars, udp, air, gaps, exited>>

\* Mutant of ReadTimeout: the flag stays.
ReadTimeoutIgnored ==
  /\ ~exited /\ pinger = "read"
  /\ socket = <<>>
  /\ pinger' = "select"
  /\ UNCHANGED tcpTunnelMode
  /\ CountDeadRound
  /\ UNCHANGED <<mode, answered, messenger, voiceVars, networkVars,
                 exited>>

\* The deadline of 500 ms passes first.
ReadTimeout ==
  /\ ~exited /\ pinger = "read"
  /\ socket = <<>>
  /\ tcpTunnelMode' = TRUE
  /\ pinger' = "select"
  /\ CountDeadRound
  /\ UNCHANGED <<mode, answered, messenger, voiceVars, networkVars,
                 exited>>

\* Read reports that the port is closed: Fatalf.
ReadRefused ==
  /\ ~exited /\ pinger = "read"
  /\ udp = "refused"
  /\ exited' = TRUE
  /\ UNCHANGED <<clientVars, messenger, voiceVars, networkVars,
                 deadRounds>>

pingRoutine ==
  \/ TcpPing \/ TcpPingData
  \/ UdpPing \/ UdpPingPanics
  \/ WritePing \/ WritePingFails
  \/ ReadAnswer \/ ReadTimeout \/ ReadRefused

-----------------------------------------------------------------------------
(* sendAudioPacket, on the audioroutine.                                    *)

\* The flag is looked at: through the tunnel in one Write, or over UDP, for
\* which Encrypt counts EncryptIV up ...
SendAudioPacket ==
  /\ ~exited /\ audio = "idle"
  /\ IF tcpTunnelMode
     THEN voicePath' = "tcp" /\ UNCHANGED audio
     ELSE audio' = "udp" /\ UNCHANGED voicePath
  /\ UNCHANGED <<clientVars, messenger, networkVars,
                 deadRounds, exited>>

\* ... and encrypts under what EncryptIV is by then.
WriteAudio ==
  /\ ~exited /\ audio = "udp"
  /\ voicePath' = "udp"
  /\ audio' = "idle"
  /\ UNCHANGED <<clientVars, messenger, networkVars,
                 deadRounds, exited>>

\* Write reports an error: Fatalf.
WriteAudioFails ==
  /\ ~exited /\ audio = "udp"
  /\ udp # "up"
  /\ exited' = TRUE
  /\ UNCHANGED <<clientVars, messenger, voiceVars, networkVars,
                 deadRounds>>

sendAudioPacket == SendAudioPacket \/ WriteAudio \/ WriteAudioFails

-----------------------------------------------------------------------------
(* writeProto, called by a callback on eventRoutine.                        *)

\* The header of a message ...
SendMessage ==
  /\ ~exited /\ messenger = "idle"
  /\ messenger' = "data"
  /\ UNCHANGED <<clientVars, voiceVars, networkVars,
                 deadRounds, exited>>

\* ... and its data.
SendMessageData ==
  /\ ~exited /\ messenger = "data"
  /\ messenger' = "idle"
  /\ UNCHANGED <<clientVars, voiceVars, networkVars,
                 deadRounds, exited>>

eventRoutine == SendMessage \/ SendMessageData

-----------------------------------------------------------------------------
Network == PathChanges \/ VoiceArrives \/ \E k \in Answers : AnswerArrives(k)

Next ==
  \/ Network
  \/ CryptSetup
  \/ pingRoutine
  \/ sendAudioPacket
  \/ eventRoutine

Spec == Init /\ [][Next]_vars

\* The scheduler runs both goroutines, select takes a tick of udpPing in the
\* end even if ticks of tcpPing come too, and what is under way to a reachable
\* client arrives or is lost.
FairSpec ==
  /\ Spec
  /\ WF_vars(pingRoutine)
  /\ WF_vars(sendAudioPacket)
  /\ SF_vars(UdpPing)
  /\ \A k \in Answers : WF_vars(AnswerArrives(k))

-----------------------------------------------------------------------------
(* Properties                                                               *)

\* "our audio goes through the tcp tunnel, until we successfully got a UDP Ping
\* answer from the mumble-server" (eventhandler.go:47), also when datagrams of
\* other users, of an older key or undecryptable ones come in between, unless
\* OCB2 leaves something in them that looks like a ping.
AnsweredBeforeUdp ==
  mode # "OCB2-AES128" => (~tcpTunnelMode \/ audio = "udp" => answered)

\* A path that broke keeps the voice for at most as many rounds of pingRoutine
\* as the receive buffer held datagrams: each round reads one of them
\* (packagewriter.go:97-131).
FallbackBound ==
  udp # "up" /\ ~tcpTunnelMode => deadRounds + Len(socket) <= SocketCap

\* When the path is cut for good, voice ends up in the tunnel, whatever is still
\* in the receive buffer (packagewriter.go:41, 103-109).
CutPathTunnels ==
  <>[](udp = "cut" /\ ~exited) =>
    <>[](tcpTunnelMode /\ audio = "idle" /\ voicePath = "tcp")

\* As long as answers keep coming and nothing else does, UDP is taken up again
\* and again, though each answer may miss its deadline and be read a round
\* later (packagewriter.go:97-131).
OnlyAnswers ==
  /\ udp = "up" /\ ~gaps /\ ~exited
  /\ \A i \in DOMAIN socket : socket[i] = "answer"

WorkingPathTaken ==
  <>[]OnlyAnswers /\ []<>(socket # <<>>) => []<>~tcpTunnelMode

-----------------------------------------------------------------------------
(* What comments of the code say, and the code does not do.                 *)

\* conn is used "by packagewriter to write packages to the mumble-server"
\* (eventhandler.go:27): once the header of a package is written, its data
\* follow before anything of another package.
PackagesWhole ==
  [][/\ pinger = "tcpData" => ~SendMessage
     /\ messenger = "data" => ~TcpPing
     /\ pinger = "tcpData" \/ messenger = "data" =>
          ~(tcpTunnelMode /\ SendAudioPacket)]_vars
=============================================================================
