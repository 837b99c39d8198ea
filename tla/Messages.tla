------------------------------ MODULE Messages ------------------------------
(***************************************************************************)
(* The messages of the Mumble protocol (mumbleproto/Mumble.pb.go) and the  *)
(* numbers they have on the wire (mumbleproto/types.go).  A message is its *)
(* number and the fields that somebody reads; an optional field that was   *)
(* not sent is Absent.                                                     *)
(***************************************************************************)
EXTENDS Naturals, Sequences

CONSTANT Absent  \* an optional field without a value

ASSUME AbsentAssumption == Absent \notin Nat

\* The constants of types.go count up from 0 in this order.
MessageNames ==
  <<"Version", "UDPTunnel", "Authenticate", "Ping", "Reject", "ServerSync",
    "ChannelRemove", "ChannelState", "UserRemove", "UserState", "BanList",
    "TextMessage", "PermissionDenied", "ACL", "QueryUsers", "CryptSetup",
    "ContextActionModify", "ContextAction", "UserList", "VoiceTarget",
    "PermissionQuery", "CodecVersion", "UserStats", "RequestBlob",
    "ServerConfig">>

MessageTypes == 0 .. Len(MessageNames) - 1

\* The number under which writeProto sends a message of a kind.  That of a tunnel
\* is the number of plain bytes: a UDPTunnel has a case without a statement, and
\* the function panics.
MessageType(kind) ==
  CHOOSE n \in MessageTypes :
    IF kind = "[]byte" THEN MessageNames[n + 1] = "UDPTunnel"
    ELSE kind # "UDPTunnel" /\ MessageNames[n + 1] = kind

\* What the getter of an optional field returns.
Get(field, default) == IF field = Absent THEN default ELSE field

\* The modes a side can encrypt with.
Version(cryptoModes) ==
  [type |-> MessageType("Version"), cryptoModes |-> cryptoModes]

Authenticate(username) ==
  [type |-> MessageType("Authenticate"), username |-> username]

\* A key, known by its length and its number, and the nonces both sides start
\* from; each of them may be missing.
CryptSetup(key, clientNonce, serverNonce) ==
  [type |-> MessageType("CryptSetup"), key |-> key,
   clientNonce |-> clientNonce, serverNonce |-> serverNonce]

\* What is new about a user.
UserState(name, session, channelId) ==
  [type |-> MessageType("UserState"), name |-> name, session |-> session,
   channelId |-> channelId]

\* A text for the user with a session or for a channel; from the server it has
\* an actor.  One for a tree of channels has neither of the two.
TextMessage(actor, session, channelId, message) ==
  [type |-> MessageType("TextMessage"), actor |-> actor, session |-> session,
   channelId |-> channelId, message |-> message]
=============================================================================
