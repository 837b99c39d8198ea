------------------------------ MODULE Session -------------------------------
(***************************************************************************)
(* The session with the server: Begin connects and starts the goroutines   *)
(* (gomble/eventhandler.go), readRoutine receives packages, keeps what     *)
(* they say and hands text messages to eventRoutine                        *)
(* (gomble/packagereader.go), eventRoutine calls the callbacks of the bot  *)
(* (main.go), which answer (gomble/user.go).                               *)
(*                                                                         *)
(* A package is written by the server as a whole and received in two       *)
(* reads, its header and its data.  "sent" keeps all of them, "taken" says *)
(* how many were received.  Each carries how many text messages were among *)
(* the packages up to it ("texts") and whether it is longer than the       *)
(* buffer of readRoutine ("long").                                         *)
(***************************************************************************)
EXTENDS Messages

CONSTANTS
  MaxPackages,   \* bound: packages the server sends
  MaxEvents,     \* bound: events of tracks
  Channels,      \* channels
  Texts,         \* text messages the server may write: an actor, a channel
                 \* or none, and a command or something else
  Conditions     \* what else may happen in a run

ASSUME ChannelsAssumption == Channels \subseteq Nat
ASSUME TextsAssumption ==
  Texts \subseteq [actor : Nat, channelId : Channels \cup {Absent},
                   message : {"#play", "#stop", "other"}]
ASSUME BoundsAssumption == MaxPackages \in Nat \ {0} /\ MaxEvents \in Nat
ASSUME ConditionsAssumption ==
  Conditions \subseteq {"unreachable", "no udp", "cut", "long", "unlisted",
                         "resync", "no youtube-dl", "sourceless"}

VARIABLES
  main,                \* where Begin, and then eventRoutine, is
  reader,              \* where readRoutine is
  open,                \* the TCP connection is up
  sent,                \* the packages the server wrote
  taken,               \* how many of them receivePacket returned
  texts,               \* the text messages among them
  cryptoMode,          \* as in audioCryptoConfig: "" or the mode to prefer
  cryptState,          \* mode, key and nonces of audiocryptoconfig.cryptState
  BotUserState,        \* what is known of the bot's own user
  queue,               \* the tracks that wait: whether each has a source
  heard,               \* the events of text messages given to callbacks
  events,              \* how many events of tracks were given to callbacks
  replies,             \* the users that were answered
  announced,           \* the channel that was told of a track last
  exited               \* whether and how the process ended

serverVars == <<open, sent, texts>>
handlerVars == <<cryptoMode, cryptState, BotUserState>>
botVars == <<queue, heard, events, replies, announced>>
vars == <<main, reader, open, sent, taken, texts, cryptoMode, cryptState,
          BotUserState, queue, heard, events, replies, announced, exited>>

-----------------------------------------------------------------------------
(* What the session deals with.                                             *)

Modes == {"OCB2-AES128", "XSalsa20-Poly1305"}
Preferred == "XSalsa20-Poly1305"
BotName == "gomble-bot"
Empty == ""

KeySize(mode) == IF mode = Preferred THEN 32 ELSE 16

\* A key or a nonce is known by the number of the package that brought it.
NoKey == [size |-> 0, of |-> 0]
Keys == [size : {0, 16, 32}, of : 0 .. MaxPackages]
NoNonce == <<"none", 0>>
Nonces == {NoNonce} \cup ({"client", "server"} \X (1 .. MaxPackages))
ASSUME AbsentValueAssumption == Absent \notin Nonces \cup {BotName}

\* The event readRoutine makes of a text message: a private one if there is no
\* channel, also when it was sent to a tree of channels.
Event ==
  [t \in Texts |->
    IF t.channelId = Absent
    THEN [kind |-> "private", actor |-> t.actor, channel |-> Absent,
          message |-> t.message]
    ELSE [kind |-> "channel", actor |-> t.actor, channel |-> t.channelId,
          message |-> t.message]]

Package(message, long, count) ==
  [message |-> message, long |-> long, texts |-> count]

\* The types handlePacket has a case for, by what it does with them.
Ignored == {1, 7, 5, 21, 20, 24, 3, 8}
Listed == Ignored \cup {0, 15, 9, 11}

Init ==
  /\ main = "dial" /\ reader = "off"
  /\ open = FALSE /\ sent = <<>> /\ taken = 0 /\ texts = <<>>
  /\ cryptoMode = Empty
  /\ cryptState = [mode |-> "none", key |-> NoKey, EncryptIV |-> NoNonce,
                   DecryptIV |-> NoNonce]
  /\ BotUserState = [Name |-> Empty, Session |-> 0, ChannelId |-> 0]
  /\ queue = <<>>
  /\ heard = <<>> /\ events = 0 /\ replies = <<>> /\ announced = Absent
  /\ exited = "no"

-----------------------------------------------------------------------------
(* Begin, on the goroutine of main.                                         *)

\* What it tells the server: the mode it would like, and its name.
versionPacket == Version({Preferred})
authPacket == Authenticate(BotName)

\* Connect, or end.
Dial ==
  /\ main = "dial" /\ exited = "no"
  /\ \/ main' = "version" /\ open' = TRUE /\ UNCHANGED exited
     \/ /\ "unreachable" \in Conditions
        /\ exited' = "fatal" /\ UNCHANGED <<main, open>>
  /\ UNCHANGED <<reader, sent, taken, texts, handlerVars, botVars>>

\* A write of Begin: it goes through, or the process ends.
BeginWrites(from, to) ==
  /\ main = from /\ exited = "no"
  /\ \/ main' = to /\ UNCHANGED exited
     \/ ~open /\ exited' = "fatal" /\ UNCHANGED main
  /\ UNCHANGED <<reader, serverVars, taken, handlerVars, botVars>>

SendVersion == BeginWrites("version", "authenticate")
SendAuthenticate == BeginWrites("authenticate", "start")

\* The UDP socket, without which the process ends, the channel for events, and
\* the goroutines.
StartRoutines ==
  /\ main = "start" /\ exited = "no"
  /\ \/ main' = "idle" /\ reader' = "header" /\ UNCHANGED exited
     \/ "no udp" \in Conditions /\ exited' = "fatal"
        /\ UNCHANGED <<main, reader>>
  /\ UNCHANGED <<serverVars, taken, handlerVars, botVars>>

-----------------------------------------------------------------------------
(* The server.                                                              *)

\* How many text messages the server has written.
Count == Len(texts)

\* The mode it will use, by what both sides can.
ServerMode ==
  IF Preferred \in sent[1].message.cryptoModes \cap versionPacket.cryptoModes
  THEN Preferred ELSE "OCB2-AES128"

\* The server greets with its version; an older one lists no modes in it.
ServerVersion ==
  /\ open /\ exited = "no" /\ sent = <<>>
  /\ \E modes \in {{}, Modes} :
       sent' = <<Package(Version(modes), FALSE, Count)>>
  /\ UNCHANGED <<main, reader, open, taken, texts, handlerVars, botVars,
                 exited>>

\* What it may write once it knows the user: keys, ...
KeyMessages ==
  LET n == Len(sent) + 1 IN
  {CryptSetup([size |-> KeySize(ServerMode), of |-> n],
              <<"client", n>>, <<"server", n>>)}
    \cup (IF "resync" \in Conditions
          THEN {CryptSetup(Absent, Absent, Absent),
                CryptSetup(Absent, Absent, <<"server", n>>)} ELSE {})

\* ... news of users, where what did not change is left out, ...
UserMessages ==
  {UserState("other", 2, 0)}
    \cup UNION {{UserState(authPacket.username, 1, c),
                  UserState(Absent, 1, c)} : c \in Channels}

\* ... and more that is not looked at, or not known.
OtherMessages ==
  {[type |-> MessageType("ServerSync")]}
    \cup (IF "unlisted" \in Conditions
          THEN {[type |-> MessageType("PermissionDenied")]} ELSE {})

CanSend ==
  /\ open /\ exited = "no" /\ main \notin {"version", "authenticate"}
  /\ Len(sent) \in 1 .. MaxPackages - 1

ServerMessage ==
  /\ CanSend
  /\ \E m \in KeyMessages \cup UserMessages \cup OtherMessages :
       sent' = Append(sent, Package(m, FALSE, Count))
  /\ UNCHANGED <<main, reader, open, taken, texts, handlerVars, botVars,
                 exited>>

\* A text, which may not fit into the buffer of readRoutine.
ServerText ==
  /\ CanSend
  /\ \E t \in Texts, long \in BOOLEAN :
       /\ long => "long" \in Conditions /\ t.message = "other"
       /\ sent' = Append(sent,
            Package(TextMessage(t.actor, Absent, t.channelId, t.message),
                    long, Count + 1))
       /\ texts' = Append(texts, t)
  /\ UNCHANGED <<main, reader, open, taken, handlerVars, botVars, exited>>

\* The connection ends.
ConnectionEnds ==
  /\ "cut" \in Conditions
  /\ open
  /\ open' = FALSE
  /\ UNCHANGED <<main, reader, sent, taken, texts, handlerVars, botVars,
                 exited>>

Server == ServerVersion \/ ServerMessage \/ ServerText \/ ConnectionEnds

-----------------------------------------------------------------------------
(* readRoutine.                                                             *)

Current == sent[taken].message

\* receivePacket reads the header of a package; the length in it may be more
\* than there is room for.
ReceiveHeader ==
  /\ reader = "header" /\ exited = "no"
  /\ taken < Len(sent)
  /\ IF sent[taken + 1].long
     THEN exited' = "fatal" /\ UNCHANGED reader
     ELSE reader' = "data" /\ UNCHANGED exited
  /\ UNCHANGED <<main, serverVars, taken, handlerVars, botVars>>

\* It reads as many bytes as the header says.
ReceiveData ==
  /\ reader = "data" /\ exited = "no"
  /\ taken' = taken + 1
  /\ reader' = "handle"
  /\ UNCHANGED <<main, serverVars, handlerVars, botVars, exited>>

\* Either read ends early when the connection does.
ReceiveFails ==
  /\ reader \in {"header", "data"} /\ exited = "no"
  /\ ~open
  /\ exited' = "fatal"
  /\ UNCHANGED <<main, reader, serverVars, taken, handlerVars, botVars>>

\* printReceivedPackage ends the process at a type that is not listed.
HandleUnlisted ==
  /\ reader = "handle" /\ exited = "no"
  /\ Current.type \notin Listed
  /\ exited' = "fatal"
  /\ UNCHANGED <<main, reader, serverVars, taken, handlerVars, botVars>>

\* A case of handlePacket that returns to the loop of readRoutine.
Handle(types) ==
  /\ reader = "handle" /\ exited = "no"
  /\ Current.type \in types
  /\ reader' = "header"
  /\ UNCHANGED <<main, serverVars, taken, botVars>>

\* Mutant of HandleIgnored: the loop is left.
HandleIgnoredLeaves ==
  /\ reader = "handle" /\ exited = "no"
  /\ Current.type \in Ignored
  /\ reader' = "off"
  /\ UNCHANGED <<main, serverVars, taken, handlerVars, botVars, exited>>

HandleIgnored == Handle(Ignored) /\ UNCHANGED <<handlerVars, exited>>

HandleVersion ==
  /\ Handle({0})
  /\ cryptoMode' = IF Preferred \in Current.cryptoModes THEN Preferred
                   ELSE cryptoMode
  /\ UNCHANGED <<cryptState, BotUserState, exited>>

\* Mutant of HandleCryptSetup: the nonces are taken the other way round.
HandleCryptSetupSwapped ==
  LET mode == IF cryptoMode = Preferred THEN Preferred ELSE "OCB2-AES128"
      key  == Get(Current.key, NoKey)
  IN  /\ Handle({15})
      /\ IF key.size # KeySize(mode)
         THEN exited' = "panic" /\ UNCHANGED cryptState
         ELSE /\ cryptState' =
                   [mode |-> mode, key |-> key,
                    EncryptIV |-> Get(Current.serverNonce, NoNonce),
                    DecryptIV |-> Get(Current.clientNonce, NoNonce)]
              /\ UNCHANGED exited
      /\ UNCHANGED <<cryptoMode, BotUserState>>

\* SetKey panics unless the key has the length of the mode.
HandleCryptSetup ==
  LET mode == IF cryptoMode = Preferred THEN Preferred ELSE "OCB2-AES128"
      key  == Get(Current.key, NoKey)
  IN  /\ Handle({15})
      /\ IF key.size # KeySize(mode)
         THEN exited' = "panic" /\ UNCHANGED cryptState
         ELSE /\ cryptState' =
                   [mode |-> mode, key |-> key,
                    EncryptIV |-> Get(Current.clientNonce, NoNonce),
                    DecryptIV |-> Get(Current.serverNonce, NoNonce)]
              /\ UNCHANGED exited
      /\ UNCHANGED <<cryptoMode, BotUserState>>

\* Mutant of HandleUserState: the name is not compared.
HandleUserStateOfAnyone ==
  /\ Handle({9})
  /\ BotUserState' = [Name |-> Get(Current.name, Empty),
                      Session |-> Get(Current.session, 0),
                      ChannelId |-> Get(Current.channelId, 0)]
  /\ UNCHANGED <<cryptoMode, cryptState, exited>>

\* Mutant of HandleUserState: only the first one is kept.
HandleUserStateOnce ==
  /\ Handle({9})
  /\ IF Get(Current.name, Empty) = BotName /\ BotUserState.Name = Empty
     THEN BotUserState' = [Name |-> Current.name,
                           Session |-> Get(Current.session, 0),
                           ChannelId |-> Get(Current.channelId, 0)]
     ELSE UNCHANGED BotUserState
  /\ UNCHANGED <<cryptoMode, cryptState, exited>>

\* Mutant of HandleUserState: the name is taken to be there.
HandleUserStateDereferences ==
  /\ Handle({9})
  /\ IF Current.name = Absent
     THEN exited' = "panic" /\ UNCHANGED BotUserState
     ELSE /\ BotUserState' = IF Current.name = BotName
                             THEN [Name |-> Current.name,
                                   Session |-> Get(Current.session, 0),
                                   ChannelId |-> Get(Current.channelId, 0)]
                             ELSE BotUserState
          /\ UNCHANGED exited
  /\ UNCHANGED <<cryptoMode, cryptState>>

\* The bot's own state is known by the name.
HandleUserState ==
  /\ Handle({9})
  /\ IF Get(Current.name, Empty) = BotName
     THEN BotUserState' = [Name |-> Current.name,
                           Session |-> Get(Current.session, 0),
                           ChannelId |-> Get(Current.channelId, 0)]
     ELSE UNCHANGED BotUserState
  /\ UNCHANGED <<cryptoMode, cryptState, exited>>

\* Mutant of HandleTextMessage: it is dropped when eventRoutine is busy.
HandleTextMessageOrDrop ==
  /\ reader = "handle" /\ exited = "no"
  /\ Current.type = 11
  /\ reader' = IF main = "idle" THEN "event" ELSE "header"
  /\ UNCHANGED <<main, serverVars, taken, handlerVars, botVars, exited>>

\* A text message goes to eventpuffer, which waits for eventRoutine.
HandleTextMessage ==
  /\ reader = "handle" /\ exited = "no"
  /\ Current.type = 11
  /\ reader' = "event"
  /\ UNCHANGED <<main, serverVars, taken, handlerVars, botVars, exited>>

readRoutine ==
  \/ ReceiveHeader \/ ReceiveData \/ ReceiveFails
  \/ HandleUnlisted \/ HandleIgnored \/ HandleVersion \/ HandleCryptSetup
  \/ HandleUserState \/ HandleTextMessage

-----------------------------------------------------------------------------
(* eventRoutine, on the goroutine of main.                                  *)

MessageOf(m) ==
  [actor |-> m.actor, channelId |-> m.channelId, message |-> m.message]

\* eventRoutine takes the event of a text message and calls its callback, which
\* answers, obeys a command, or does nothing.
DeliverMessage ==
  /\ main = "idle" /\ reader = "event" /\ exited = "no"
  /\ LET e == Event[MessageOf(Current)]
     IN  /\ heard' = Append(heard, e)
         /\ main' = IF e.kind = "private" THEN "reply"
                    ELSE IF e.message = "other" THEN "idle" ELSE e.message
  /\ reader' = "header"
  /\ UNCHANGED <<serverVars, taken, handlerVars, queue, events, replies,
                 announced, exited>>

\* It takes the last event of a track that was started; OnTrackFinished starts
\* the next one, the others log.
DeliverTrackEvent ==
  /\ main = "idle" /\ exited = "no"
  /\ events < MaxEvents /\ announced # Absent
  /\ events' = events + 1
  /\ main' \in {"idle", "start track"}
  /\ UNCHANGED <<reader, serverVars, taken, handlerVars, queue, heard, replies,
                 announced, exited>>

\* LoadTrack finds no video and its error is logged, or it loads a track, which
\* comes without a source if NewYoutubedlVideo failed, or youtube-dl is missing
\* and the process ends.
OnPlay ==
  /\ main = "#play" /\ exited = "no"
  /\ \/ main' = "idle" /\ UNCHANGED <<queue, exited>>
     \/ \E source \in BOOLEAN :
          /\ source \/ "sourceless" \in Conditions
          /\ queue' = Append(queue, source)
          /\ main' = "start track" /\ UNCHANGED exited
     \/ "no youtube-dl" \in Conditions /\ exited' = "fatal"
        /\ UNCHANGED <<main, queue>>
  /\ UNCHANGED <<reader, serverVars, taken, handlerVars, heard, events, replies,
                 announced>>

\* Stop waits for the player, which may never take it.
OnStop ==
  /\ main = "#stop" /\ exited = "no"
  /\ main' \in {"idle", "hung"}
  /\ UNCHANGED <<reader, serverVars, taken, handlerVars, botVars, exited>>

\* Mutant of OnPrivateMessageReceived: it answers whoever wrote first.
OnPrivateMessageAnswersFirst ==
  /\ main = "reply" /\ exited = "no"
  /\ main' = "idle"
  /\ \/ replies' = Append(replies, heard[1].actor)
     \/ ~open /\ UNCHANGED replies
  /\ UNCHANGED <<reader, serverVars, taken, handlerVars, queue, heard, events,
                 announced, exited>>

\* OnPrivateMessageReceived answers the actor; an error is logged.
OnPrivateMessageReceived ==
  /\ main = "reply" /\ exited = "no"
  /\ main' = "idle"
  /\ \/ replies' = Append(replies, heard[Len(heard)].actor)
     \/ ~open /\ UNCHANGED replies
  /\ UNCHANGED <<reader, serverVars, taken, handlerVars, queue, heard, events,
                 announced, exited>>

\* startNextTrack: the queue is empty or Play refuses, or the track is announced
\* in what is taken to be the channel of the bot.  GetTitle panics on a track
\* without a source.
startNextTrack ==
  /\ main = "start track" /\ exited = "no"
  /\ \/ main' = "idle" /\ UNCHANGED <<queue, announced, exited>>
     \/ /\ queue # <<>> /\ Head(queue)
        /\ announced' = BotUserState.ChannelId /\ queue' = Tail(queue)
        /\ main' = "idle" /\ UNCHANGED exited
     \/ /\ queue # <<>> /\ ~Head(queue)
        /\ exited' = "panic" /\ UNCHANGED <<main, queue, announced>>
  /\ UNCHANGED <<reader, serverVars, taken, handlerVars, heard, events, replies>>

eventRoutine ==
  \/ DeliverMessage \/ DeliverTrackEvent
  \/ OnPlay \/ OnStop \/ OnPrivateMessageReceived
  \/ startNextTrack

Begin == Dial \/ SendVersion \/ SendAuthenticate \/ StartRoutines

Next == Server \/ Begin \/ readRoutine \/ eventRoutine

Spec == Init /\ [][Next]_vars

\* The scheduler runs the goroutines of main and of readRoutine.  Nothing is
\* assumed of the server.
FairSpec == Spec /\ WF_vars(Begin \/ eventRoutine) /\ WF_vars(readRoutine)

-----------------------------------------------------------------------------
(* Properties                                                               *)

TypeOK ==
  /\ main \in {"dial", "version", "authenticate", "start", "idle", "reply",
               "start track", "hung", "#play", "#stop"}
  /\ reader \in {"off", "header", "data", "handle", "event"}
  /\ open \in BOOLEAN
  /\ Len(sent) \in 0 .. MaxPackages /\ taken \in 0 .. Len(sent)
  /\ texts \in Seq(Texts)
  /\ cryptoMode \in {Empty, Preferred}
  /\ cryptState \in [mode : Modes \cup {"none"}, key : Keys,
                      EncryptIV : Nonces, DecryptIV : Nonces]
  /\ BotUserState \in [Name : {Empty, BotName}, Session : Nat,
                        ChannelId : Channels \cup {0}]
  /\ queue \in Seq(BOOLEAN)
  /\ heard \in Seq({Event[t] : t \in Texts})
  /\ events \in 0 .. MaxEvents
  /\ replies \in Seq(Nat) /\ announced \in Channels \cup {0, Absent}
  /\ exited \in {"no", "fatal", "panic"}

\* The callbacks get the texts of the server once each, in order, whatever comes
\* between them and however long a callback takes (packagereader.go:111-130,
\* eventhandler.go:109).
Box == INSTANCE Mailbox WITH ended <- exited # "no"
ImplementsMailbox == Box!Spec

\* The packages that handlePacket is done with.
Handled == {i \in 1 .. taken : i < taken \/ reader # "handle"}
HandledOf(type) == {i \in Handled : sent[i].message.type = type}
LastOf(indices) == CHOOSE i \in indices : \A j \in indices : j <= i

\* The client encrypts in the mode the server uses, and key and nonces are those
\* of one package, each for its own direction (packagereader.go:57-81).
CiphersAgree ==
  LET setups == HandledOf(15) IN
  /\ setups = {} => cryptState.mode = "none"
  /\ setups # {} /\ exited # "panic" =>
       LET last == LastOf(setups) IN
       /\ cryptState.mode = ServerMode
       /\ cryptState.key = sent[last].message.key
       /\ cryptState.EncryptIV = <<"client", last>>
       /\ cryptState.DecryptIV = <<"server", last>>

\* The bot knows of itself what the last package that named it said; what is
\* said without the name, as when it is moved, does not reach it.  Tracks are
\* announced where it was said to be then or before (packagereader.go:91,
\* main.go:69).
KnowsItsNamedState ==
  LET named == {i \in HandledOf(9) : sent[i].message.name = BotName} IN
  /\ named = {} => BotUserState.Name = Empty
  /\ named # {} =>
       LET m == sent[LastOf(named)].message IN
       BotUserState = [Name |-> BotName, Session |-> m.session,
                       ChannelId |-> m.channelId]
  /\ announced \in {Absent, 0} \cup {sent[i].message.channelId : i \in named}

\* Whom the first events of h ask to be answered, for each number of them.
Due(h) ==
  LET due[i \in 0 .. Len(h)] ==
        IF i = 0 THEN <<>>
        ELSE IF h[i].kind = "private" THEN Append(due[i - 1], h[i].actor)
        ELSE due[i - 1]
  IN  due

\* While the connection holds, whoever writes privately is answered, once for
\* each message and in order, though the next message may have been received
\* by then (main.go:25, packagereader.go:111-130).
AnswersEveryone ==
  open => replies = Due(heard)[IF main = "reply" THEN Len(heard) - 1
                               ELSE Len(heard)]

\* What Begin, readRoutine and the callbacks end the process for.  Fatalf: there
\* is no connection or no UDP socket, a package does not fit or is not listed,
\* youtube-dl is missing.  Panics, which nobody wants: the server asked for a
\* resync, although Mumble.proto:378-380 says that it may, or the next track to
\* be started has no source (eventhandler.go:55-93, packagereader.go:23, 43, 77,
\* 147, track.go:47, 60).
EndsForCause ==
  /\ exited = "fatal" =>
       \/ ~open
       \/ main = "start" /\ "no udp" \in Conditions
       \/ main = "#play" /\ "no youtube-dl" \in Conditions
       \/ reader = "header" /\ taken < Len(sent) /\ sent[taken + 1].long
       \/ reader = "handle" /\ Current.type \notin Listed
  /\ exited = "panic" =>
       \/ main = "start track" /\ queue # <<>> /\ ~Head(queue)
       \/ taken > 0 /\ Current.type = 15 /\ Current.key = Absent

\* The callbacks catch up with what the server wrote, again and again, as long as
\* the process and the connection live and no callback waits for ever
\* (packagereader.go:16, eventhandler.go:109).
CatchesUp ==
  []<>(Len(heard) = Len(texts) \/ ~open \/ exited # "no" \/ main = "hung")
=============================================================================
