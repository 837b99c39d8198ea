---------------------------- MODULE SessionProofs ----------------------------
(***************************************************************************)
(* Theorems about Session, for every set of channels and of texts, every   *)
(* bound and every set of conditions: type correctness, the mailbox it     *)
(* implements, whom it answers, what it ends for, and that cipher and      *)
(* state of the bot are those of the last package that brought them.       *)
(***************************************************************************)
EXTENDS Session, WellFoundedInduction, TLAPS

-----------------------------------------------------------------------------
(* Natural numbers: induction, and functions given by recursion.            *)

\* Every set of natural numbers that is not empty has a least one.
LEMMA LeastNumber ==
  ASSUME NEW T \in SUBSET Nat, T # {}
  PROVE  \E n \in T : \A m \in T : n <= m
<1> DEFINE R == {p \in Nat \X Nat : p[1] < p[2]}
<1>1. R = OpToRel(<, Nat)
  BY DEF OpToRel
<1>2. IsWellFoundedOn(R, Nat)
  BY <1>1, NatLessThanWellFounded, Zenon
<1>3. \E x \in T : \A y \in T : ~ (<<y, x>> \in R)
  <2> HIDE DEF R
  <2> QED BY <1>2, WFMin, Zenon
<1>4. PICK n \in T : \A m \in T : ~ (<<m, n>> \in R)
  BY <1>3
<1>5. ASSUME NEW m \in T PROVE n <= m
  <2>1. n \in Nat /\ m \in Nat
    OBVIOUS
  <2>2. m < n => <<m, n>> \in R
    BY <2>1
  <2> QED BY <1>4, <2>1, <2>2
<1> QED BY <1>5

\* Induction: a set that holds 0 and with every number its successor holds all
\* natural numbers.
LEMMA Induction ==
  ASSUME NEW S,
         0 \in S,
         \A n \in Nat : n \in S => n + 1 \in S
  PROVE  Nat \subseteq S
<1> DEFINE T == Nat \ S
<1>1. SUFFICES ASSUME T # {} PROVE FALSE
  OBVIOUS
<1>2. PICK n \in T : \A m \in T : n <= m
  BY <1>1, LeastNumber
<1>3. n \in Nat /\ n # 0 /\ n - 1 \in Nat /\ ~ (n <= n - 1) /\ (n - 1) + 1 = n
  BY <1>2
<1>4. n - 1 \in S
  BY <1>2, <1>3
<1> QED BY <1>2, <1>3, <1>4

\* f is given up to k by a first value and a function that makes the i-th value
\* from the one before it.
IsRecursion(f, S, s, rule, k) ==
  /\ f \in [0 .. k -> S]
  /\ f[0] = s
  /\ \A i \in 1 .. k : f[i] = rule[<<f[i - 1], i>>]

\* Such a function exists.
LEMMA Recursion ==
  ASSUME NEW S, NEW s \in S, NEW rule \in [S \X Nat -> S], NEW k \in Nat
  PROVE  \E f : IsRecursion(f, S, s, rule, k)
<1> DEFINE T == {n \in Nat : \E f : IsRecursion(f, S, s, rule, n)}
<1>1. 0 \in T
  <2>1. IsRecursion([i \in 0 .. 0 |-> s], S, s, rule, 0)
    BY DEF IsRecursion
  <2> QED BY <2>1
<1>2. ASSUME NEW n \in Nat, n \in T PROVE n + 1 \in T
  <2>1. PICK f : IsRecursion(f, S, s, rule, n)
    BY <1>2
  <2>2. /\ f \in [0 .. n -> S] /\ f[0] = s
        /\ \A i \in 1 .. n : f[i] = rule[<<f[i - 1], i>>]
    BY <2>1 DEF IsRecursion
  <2> DEFINE v == rule[<<f[n], n + 1>>]
             g == [i \in 0 .. n + 1 |-> IF i = n + 1 THEN v ELSE f[i]]
  <2>3. v \in S
    BY <2>2
  <2>4. g \in [0 .. n + 1 -> S] /\ g[0] = s
    BY <2>2, <2>3
  <2>5. ASSUME NEW i \in 1 .. n + 1 PROVE g[i] = rule[<<g[i - 1], i>>]
    <3>1. CASE i = n + 1
      <4>1. g[i] = v /\ g[i - 1] = f[n]
        BY <3>1
      <4> QED BY <3>1, <4>1
    <3>2. CASE i # n + 1
      <4>1. i \in 1 .. n /\ g[i] = f[i] /\ g[i - 1] = f[i - 1]
        BY <3>2
      <4> QED BY <2>2, <4>1
    <3> QED BY <3>1, <3>2
  <2>6. IsRecursion(g, S, s, rule, n + 1)
    <3> HIDE DEF g
    <3> QED BY <2>4, <2>5 DEF IsRecursion
  <2> HIDE DEF g
  <2> QED BY <2>6
<1>3. Nat \subseteq T
  <2> HIDE DEF T
  <2> QED BY <1>1, <1>2, Induction
<1> QED BY <1>3

-----------------------------------------------------------------------------
(* Numbers of the messages.                                                 *)

\* A name that is in the list has the number of its place.
LEMMA TypeNumbers ==
  /\ MessageType("Version") = 0
  /\ MessageType("ServerSync") = 5
  /\ MessageType("UserState") = 9
  /\ MessageType("TextMessage") = 11
  /\ MessageType("PermissionDenied") = 12
  /\ MessageType("CryptSetup") = 15
<1>1. Len(MessageNames) = 25
  BY DEF MessageNames
<1>2. \A n \in MessageTypes :
        /\ MessageNames[n + 1] = "Version" => n = 0
        /\ MessageNames[n + 1] = "ServerSync" => n = 5
        /\ MessageNames[n + 1] = "UserState" => n = 9
        /\ MessageNames[n + 1] = "TextMessage" => n = 11
        /\ MessageNames[n + 1] = "PermissionDenied" => n = 12
        /\ MessageNames[n + 1] = "CryptSetup" => n = 15
  BY <1>1 DEF MessageTypes, MessageNames
<1>3. {0, 5, 9, 11, 12, 15} \subseteq MessageTypes
  BY <1>1 DEF MessageTypes
<1>4. /\ MessageNames[0 + 1] = "Version" /\ MessageNames[5 + 1] = "ServerSync"
      /\ MessageNames[9 + 1] = "UserState"
      /\ MessageNames[11 + 1] = "TextMessage"
      /\ MessageNames[12 + 1] = "PermissionDenied"
      /\ MessageNames[15 + 1] = "CryptSetup"
  BY DEF MessageNames
<1>5. ASSUME NEW kind, kind # "[]byte", kind # "UDPTunnel"
      PROVE  MessageType(kind) =
               CHOOSE n \in MessageTypes : MessageNames[n + 1] = kind
  BY <1>5, Zenon DEF MessageType
<1> QED BY <1>2, <1>3, <1>4, <1>5

-----------------------------------------------------------------------------
(* The invariant.                                                           *)

\* What the server writes.
Messages ==
  [type : {0}, cryptoModes : SUBSET Modes]
    \cup [type : {15}, key : Keys \cup {Absent},
          clientNonce : Nonces \cup {Absent},
          serverNonce : Nonces \cup {Absent}]
    \cup [type : {9}, name : {BotName, "other", Absent}, session : Nat,
          channelId : Channels \cup {0}]
    \cup [type : {11}, actor : Nat, session : {Absent},
          channelId : Channels \cup {Absent},
          message : {"#play", "#stop", "other"}]
    \cup [type : {5, 12}]

Packages == [message : Messages, long : BOOLEAN, texts : Nat]

\* How many text messages are among the first i packages.
TextsUpTo(i) == IF i = 0 THEN 0 ELSE sent[i].texts

\* Each package tells how many texts there are up to it, and the texts are those
\* of the packages.
Stamps ==
  /\ sent \in Seq(Packages)
  /\ TextsUpTo(Len(sent)) = Len(texts)
  /\ \A i \in 1 .. Len(sent) :
       /\ sent[i].texts \in 0 .. Len(texts)
       /\ sent[i].message.type = 11 =>
            /\ sent[i].texts = TextsUpTo(i - 1) + 1
            /\ MessageOf(sent[i].message) = texts[sent[i].texts]
       /\ sent[i].message.type # 11 => sent[i].texts = TextsUpTo(i - 1)

\* The package that was received last is still to be given to a callback.
Undelivered ==
  \/ reader = "event"
  \/ reader = "handle" /\ sent[taken].message.type = 11

\* What was heard is what was received, but for such a package.
Delivered ==
  /\ reader \in {"handle", "event"} => taken > 0
  /\ reader = "data" => taken < Len(sent)
  /\ reader = "event" => sent[taken].message.type = 11
  /\ Len(heard) = IF Undelivered THEN TextsUpTo(taken) - 1
                  ELSE TextsUpTo(taken)

\* Where the goroutines are: readRoutine is started last, and whoever is to be
\* answered was heard.
Places ==
  /\ main \in {"dial", "version", "authenticate", "start", "idle", "reply",
               "start track", "hung", "#play", "#stop"}
  /\ reader \in {"off", "header", "data", "handle", "event"}
  /\ open \in BOOLEAN
  /\ exited \in {"no", "fatal", "panic"}
  /\ main \in {"dial", "version", "authenticate", "start"} => reader = "off"
  /\ main = "dial" => ~open
  /\ main = "reply" => Len(heard) > 0

Log ==
  /\ Len(sent) \in 0 .. MaxPackages /\ taken \in 0 .. Len(sent)
  /\ texts \in Seq(Texts)

Known ==
  /\ cryptoMode \in {Empty, Preferred}
  /\ cryptState \in [mode : Modes \cup {"none"}, key : Keys,
                      EncryptIV : Nonces, DecryptIV : Nonces]
  /\ BotUserState \in [Name : {Empty, BotName}, Session : Nat,
                        ChannelId : Channels \cup {0}]

Answers ==
  /\ queue \in Seq(BOOLEAN)
  /\ heard \in Seq({Event[t] : t \in Texts})
  /\ events \in 0 .. MaxEvents
  /\ replies \in Seq(Nat) /\ announced \in Channels \cup {0, Absent}

\* A key is for a mode, or missing.
Fits(key, mode) == key = Absent \/ key.size = KeySize(mode)

\* The version of the server comes first and once, and the keys are for the mode
\* it told, which is the one the client takes from it.
Greeted ==
  /\ \A i \in 1 .. Len(sent) :
       /\ sent[i].message.type = 0 <=> i = 1
       /\ sent[i].message.type = 15 => Fits(sent[i].message.key, ServerMode)
  /\ taken = 0 \/ (taken = 1 /\ reader = "handle") => cryptoMode = Empty
  /\ taken > 1 \/ (taken = 1 /\ reader # "handle") =>
       (cryptoMode = Preferred <=> ServerMode = Preferred)

IInv ==
  /\ Places /\ Log /\ Known /\ Answers
  /\ Stamps /\ Delivered /\ Greeted

-----------------------------------------------------------------------------
\* Every key and nonce the session deals with is one of its set.
LEMMA KeysAndNonces ==
  /\ NoKey \in Keys /\ NoNonce \in Nonces
  /\ \A n \in 1 .. MaxPackages :
       /\ <<"client", n>> \in Nonces /\ <<"server", n>> \in Nonces
       /\ \A mode \in Modes : [size |-> KeySize(mode), of |-> n] \in Keys
<1>1. NoKey \in Keys
  BY BoundsAssumption DEF NoKey, Keys
<1>2. NoNonce \in Nonces
  BY DEF Nonces
<1>3. ASSUME NEW n \in 1 .. MaxPackages
      PROVE  <<"client", n>> \in Nonces /\ <<"server", n>> \in Nonces
  BY <1>3 DEF Nonces
<1>4. ASSUME NEW n \in 1 .. MaxPackages, NEW mode \in Modes
      PROVE  [size |-> KeySize(mode), of |-> n] \in Keys
  BY <1>4, BoundsAssumption DEF Keys, KeySize
<1> QED BY <1>1, <1>2, <1>3, <1>4

\* The empty string is no name and no mode.
LEMMA EmptyIsNone == Empty # BotName /\ Empty # Preferred
BY Zenon DEF Empty, BotName, Preferred

\* What the fields of a message are, by its type.
LEMMA MessageFields ==
  ASSUME NEW m \in Messages
  PROVE  /\ m.type \in {0, 5, 9, 11, 12, 15}
         /\ m.type = 15 =>
              /\ Get(m.key, NoKey) \in Keys
              /\ Get(m.clientNonce, NoNonce) \in Nonces
              /\ Get(m.serverNonce, NoNonce) \in Nonces
         /\ m.type = 9 /\ Get(m.name, Empty) = BotName =>
              /\ m.name = BotName
              /\ Get(m.session, 0) \in Nat
              /\ Get(m.channelId, 0) \in Channels \cup {0}
<1>1. m.type \in {0, 5, 9, 11, 12, 15}
  BY DEF Messages
<1>2. ASSUME m.type = 15
      PROVE  /\ m.key \in Keys \cup {Absent}
             /\ m.clientNonce \in Nonces \cup {Absent}
             /\ m.serverNonce \in Nonces \cup {Absent}
  BY <1>2 DEF Messages
<1>3. ASSUME m.type = 9, Get(m.name, Empty) = BotName
      PROVE  /\ m.name = BotName
             /\ Get(m.session, 0) \in Nat
             /\ Get(m.channelId, 0) \in Channels \cup {0}
  <2>1. m \in [type : {9}, name : {BotName, "other", Absent}, session : Nat,
               channelId : Channels \cup {0}]
    <3>1. m.type = 9
      BY <1>3
    <3> QED BY <3>1 DEF Messages
  <2> QED BY <1>3, <2>1, AbsentAssumption, ChannelsAssumption, EmptyIsNone
        DEF Get
<1> QED BY <1>1, <1>2, <1>3, KeysAndNonces DEF Get

LEMMA InitIInv == Init => IInv
<1> SUFFICES ASSUME Init PROVE IInv
  OBVIOUS
<1>1. /\ sent = <<>> /\ texts = <<>> /\ heard = <<>> /\ taken = 0
      /\ reader = "off" /\ queue = <<>> /\ events = 0 /\ replies = <<>>
      /\ main = "dial" /\ open = FALSE /\ cryptoMode = Empty
      /\ announced = Absent /\ exited = "no"
  BY DEF Init
<1>2. Places /\ Log /\ Known /\ Answers
  <2>1. /\ Len(sent) \in 0 .. MaxPackages /\ taken \in 0 .. Len(sent)
        /\ events \in 0 .. MaxEvents
    <3>1. Len(<<>>) = 0
      OBVIOUS
    <3>2. Len(sent) = 0
      BY <1>1, <3>1, Zenon
    <3>3. taken = 0 /\ events = 0
      BY <1>1
    <3> QED BY <3>2, <3>3, BoundsAssumption
  <2>2. cryptState \in [mode : Modes \cup {"none"}, key : Keys,
                        EncryptIV : Nonces, DecryptIV : Nonces]
    <3>1. cryptState = [mode |-> "none", key |-> NoKey, EncryptIV |-> NoNonce,
                        DecryptIV |-> NoNonce]
      BY DEF Init
    <3> HIDE DEF NoKey, NoNonce, Keys, Nonces
    <3> QED BY <3>1, KeysAndNonces
  <2>3. BotUserState \in [Name : {Empty, BotName}, Session : Nat,
                          ChannelId : Channels \cup {0}]
    BY DEF Init
  <2>4. texts \in Seq(Texts)
    <3>1. <<>> \in Seq(Texts)
      OBVIOUS
    <3> QED BY <1>1, <3>1, Zenon
  <2>5. heard \in Seq({Event[t] : t \in Texts})
    <3> DEFINE Events == {Event[t] : t \in Texts}
    <3> HIDE DEF Events
    <3>1. <<>> \in Seq(Events)
      OBVIOUS
    <3> QED BY <1>1, <3>1 DEF Events
  <2>6. replies \in Seq(Nat)
    <3>1. <<>> \in Seq(Nat)
      OBVIOUS
    <3> QED BY <1>1, <3>1, Zenon
  <2>7. Places
    BY <1>1, Zenon DEF Places
  <2>8. queue \in Seq(BOOLEAN)
    <3>1. <<>> \in Seq(BOOLEAN)
      OBVIOUS
    <3> QED BY <1>1, <3>1, Zenon
  <2> QED BY <1>1, <2>1, <2>2, <2>3, <2>4, <2>5, <2>6, <2>7, <2>8, Zenon
        DEF Log, Known, Answers
<1>3. Stamps
  <2>1. <<>> \in Seq(Packages) /\ Len(<<>>) = 0
    OBVIOUS
  <2>2. sent \in Seq(Packages) /\ Len(sent) = 0 /\ Len(texts) = 0
    BY <1>1, <2>1, Zenon
  <2> QED BY <2>2 DEF Stamps, TextsUpTo
<1>4. Delivered
  <2>1. Len(<<>>) = 0
    OBVIOUS
  <2>2. Len(heard) = 0 /\ taken = 0 /\ reader = "off"
    BY <1>1, <2>1, Zenon
  <2> QED BY <2>2 DEF Delivered, TextsUpTo, Undelivered
<1>5. Greeted
  <2>1. Len(<<>>) = 0
    OBVIOUS
  <2>2. Len(sent) = 0 /\ taken = 0 /\ cryptoMode = Empty
    BY <1>1, <2>1, Zenon
  <2> QED BY <2>2 DEF Greeted
<1> QED BY <1>2, <1>3, <1>4, <1>5 DEF IInv

-----------------------------------------------------------------------------
(* The server writes.                                                       *)

\* What type correctness says of the books.
LEMMA Books ==
  ASSUME IInv
  PROVE  /\ sent \in Seq(Packages) /\ Len(sent) \in Nat
         /\ taken \in 0 .. Len(sent)
         /\ texts \in Seq(Texts) /\ Len(texts) \in Nat
         /\ \A i \in 0 .. Len(sent) : TextsUpTo(i) \in Nat
<1>1. sent \in Seq(Packages)
  BY DEF IInv, Stamps
<1>2. taken \in 0 .. Len(sent) /\ texts \in Seq(Texts)
  BY DEF IInv, Log
<1>3. ASSUME NEW i \in 0 .. Len(sent) PROVE TextsUpTo(i) \in Nat
  <2>1. ASSUME i # 0 PROVE sent[i] \in Packages
    BY <2>1, <1>1
  <2> QED BY <2>1 DEF TextsUpTo, Packages
<1> QED BY <1>1, <1>2, <1>3

\* A package that is added keeps the books right, whether it is a text or not.
LEMMA Appended ==
  ASSUME IInv, NEW p \in Packages, NEW t,
         sent' = Append(sent, p), UNCHANGED <<taken, reader, heard>>,
         \/ /\ UNCHANGED texts
            /\ p.message.type # 11 /\ p.texts = Len(texts)
         \/ /\ t \in Texts
            /\ texts' = Append(texts, t) /\ MessageOf(p.message) = t
            /\ p.message.type = 11 /\ p.texts = Len(texts) + 1
  PROVE  Stamps' /\ Delivered'
<1> DEFINE n == Len(sent)
           k == Len(texts)
<1> HIDE DEF MessageOf, TextsUpTo, Packages
<1>1. /\ sent \in Seq(Packages) /\ n \in Nat /\ taken \in 0 .. n
      /\ texts \in Seq(Texts) /\ k \in Nat
      /\ \A i \in 0 .. n : TextsUpTo(i) \in Nat
  BY Books
<1>2. /\ sent' \in Seq(Packages) /\ Len(sent') = n + 1
      /\ \A i \in 1 .. n : sent'[i] = sent[i]
      /\ sent'[n + 1] = p
  BY <1>1
<1>3. /\ Len(texts') \in {k, k + 1}
      /\ \A i \in 1 .. k : texts'[i] = texts[i]
      /\ p.texts = Len(texts')
      /\ p.message.type # 11 => Len(texts') = k
      /\ p.message.type = 11 =>
           Len(texts') = k + 1 /\ texts'[k + 1] = MessageOf(p.message)
  <2>1. CASE UNCHANGED texts /\ p.message.type # 11 /\ p.texts = k
    BY <2>1, <1>1
  <2>2. CASE /\ t \in Texts
             /\ texts' = Append(texts, t) /\ MessageOf(p.message) = t
             /\ p.message.type = 11 /\ p.texts = k + 1
    <3>1. /\ Len(texts') = k + 1 /\ texts'[k + 1] = t
          /\ \A i \in 1 .. k : texts'[i] = texts[i]
      BY <2>2, <1>1
    <3> QED BY <2>2, <3>1, <1>1
  <2> QED BY <2>1, <2>2
<1>4. \A i \in 0 .. n : TextsUpTo(i)' = TextsUpTo(i)
  BY <1>1, <1>2 DEF TextsUpTo
<1>5. TextsUpTo(n) = k
  BY DEF IInv, Stamps
<1>6. TextsUpTo(Len(sent))' = Len(texts')
  BY <1>1, <1>2, <1>3 DEF TextsUpTo
<1>7. ASSUME NEW i \in 1 .. n + 1
      PROVE  /\ sent'[i].texts \in 0 .. Len(texts')
             /\ sent'[i].message.type = 11 =>
                  /\ sent'[i].texts = TextsUpTo(i - 1)' + 1
                  /\ MessageOf(sent'[i].message) = texts'[sent'[i].texts]
             /\ sent'[i].message.type # 11 =>
                  sent'[i].texts = TextsUpTo(i - 1)'
  <2>1. CASE i \in 1 .. n
    <3>1. sent'[i] = sent[i] /\ TextsUpTo(i - 1)' = TextsUpTo(i - 1)
      BY <2>1, <1>1, <1>2, <1>4
    <3>2. /\ sent[i].texts \in 0 .. k
          /\ sent[i].message.type = 11 =>
               /\ sent[i].texts = TextsUpTo(i - 1) + 1
               /\ MessageOf(sent[i].message) = texts[sent[i].texts]
          /\ sent[i].message.type # 11 => sent[i].texts = TextsUpTo(i - 1)
      BY <2>1 DEF IInv, Stamps
    <3>3. sent[i].texts \in 1 .. k =>
            texts'[sent[i].texts] = texts[sent[i].texts]
      BY <1>3
    <3>4. TextsUpTo(i - 1) \in Nat
      BY <2>1, <1>1
    <3> QED BY <3>1, <3>2, <3>3, <3>4, <1>1, <1>3, SMTT(30)
  <2>2. CASE i = n + 1
    <3>1. sent'[i] = p /\ TextsUpTo(i - 1)' = k
      BY <2>2, <1>1, <1>2, <1>4, <1>5
    <3> QED BY <3>1, <1>1, <1>3
  <2> QED BY <2>1, <2>2, <1>1
<1>8. Stamps'
  BY <1>1, <1>2, <1>6, <1>7 DEF Stamps
<1>9. Delivered'
  <2>1. taken > 0 => sent'[taken] = sent[taken]
    BY <1>1, <1>2
  <2>2. TextsUpTo(taken)' = TextsUpTo(taken)
    BY <1>1, <1>4
  <2>3. taken' = taken /\ reader' = reader /\ heard' = heard
    OBVIOUS
  <2>4. Delivered
    BY DEF IInv
  <2>5. Undelivered' = Undelivered
    BY <2>1, <2>3, <2>4 DEF Undelivered, Delivered
  <2> QED BY <2>1, <2>2, <2>3, <2>4, <2>5, <1>1, <1>2 DEF Delivered
<1> QED BY <1>8, <1>9

\* What the server writes besides texts.
LEMMA OtherThanTexts ==
  ASSUME IInv, Len(sent) \in 1 .. MaxPackages - 1,
         NEW m \in KeyMessages \cup UserMessages \cup OtherMessages
  PROVE  /\ m \in Messages /\ m.type \notin {0, 11}
         /\ m.type = 15 => Fits(m.key, ServerMode)
<1> DEFINE n == Len(sent) + 1
<1>1. n \in 1 .. MaxPackages
  BY BoundsAssumption
<1>2. ServerMode \in Modes
  BY DEF ServerMode, Modes, Preferred
<1>3. CASE m \in KeyMessages
  <2> DEFINE key == [size |-> KeySize(ServerMode), of |-> n]
  <2>1. /\ key \in Keys /\ <<"client", n>> \in Nonces
        /\ <<"server", n>> \in Nonces
    BY <1>1, <1>2, KeysAndNonces
  <2>2. \/ m = CryptSetup(key, <<"client", n>>, <<"server", n>>)
        \/ m = CryptSetup(Absent, Absent, Absent)
        \/ m = CryptSetup(Absent, Absent, <<"server", n>>)
    BY <1>3 DEF KeyMessages
  <2> HIDE DEF key, n
  <2>3. ASSUME NEW a \in Keys \cup {Absent}, NEW b \in Nonces \cup {Absent},
               NEW c \in Nonces \cup {Absent}
        PROVE  /\ CryptSetup(a, b, c) \in Messages
               /\ CryptSetup(a, b, c).type = 15 /\ CryptSetup(a, b, c).key = a
    BY TypeNumbers DEF CryptSetup, Messages
  <2>4. Fits(key, ServerMode) /\ Fits(Absent, ServerMode)
    BY DEF key, Fits
  <2> HIDE DEF CryptSetup
  <2>5. ASSUME NEW a \in Keys \cup {Absent}, NEW b \in Nonces \cup {Absent},
               NEW c \in Nonces \cup {Absent}, m = CryptSetup(a, b, c),
               a = Absent \/ a = key
        PROVE  /\ m \in Messages /\ m.type = 15
               /\ m.key = Absent \/ m.key = key
    BY <2>3, <2>5, ZenonT(60)
  <2>6. /\ m \in Messages /\ m.type = 15
        /\ m.key = Absent \/ m.key = key
    BY <2>1, <2>2, <2>5
  <2> QED BY <2>4, <2>6
<1>4. CASE m \in UserMessages
  <2>1. PICK a \in {BotName, "other", Absent}, b \in {1, 2},
             c \in Channels \cup {0} : m = UserState(a, b, c)
    BY <1>4 DEF UserMessages, authPacket, Authenticate
  <2> QED BY <2>1, TypeNumbers DEF UserState, Messages
<1>5. CASE m \in OtherMessages
  <2>1. m = [type |-> 5] \/ m = [type |-> 12]
    BY <1>5, TypeNumbers DEF OtherMessages
  <2> QED BY <2>1 DEF Messages
<1> QED BY <1>3, <1>4, <1>5

\* A package that is added after the first one.
LEMMA AppendedLater ==
  ASSUME IInv, NEW p \in Packages, Len(sent) \in 1 .. MaxPackages - 1,
         sent' = Append(sent, p), UNCHANGED <<taken, reader, cryptoMode>>,
         p.message.type # 0,
         p.message.type = 15 => Fits(p.message.key, ServerMode)
  PROVE  Greeted'
<1>1. /\ sent \in Seq(Packages) /\ Len(sent) \in Nat /\ taken \in 0 .. Len(sent)
  BY Books
<1>2. /\ Len(sent') = Len(sent) + 1 /\ sent'[Len(sent) + 1] = p
      /\ \A i \in 1 .. Len(sent) : sent'[i] = sent[i]
  BY <1>1
<1>3. ServerMode' = ServerMode
  BY <1>1, <1>2 DEF ServerMode
<1> HIDE DEF ServerMode
<1> QED BY <1>1, <1>2, <1>3 DEF IInv, Greeted

LEMMA ServerIInv == IInv /\ Server => IInv'
<1> SUFFICES ASSUME IInv, Server PROVE IInv'
  OBVIOUS
<1>1. /\ sent \in Seq(Packages) /\ Len(sent) \in Nat /\ taken \in 0 .. Len(sent)
      /\ texts \in Seq(Texts) /\ Len(texts) \in Nat
  BY Books
<1>2. UNCHANGED <<main, reader, taken, handlerVars, botVars, exited>>
  BY DEF Server, ServerVersion, ServerMessage, ServerText, ConnectionEnds
<1>0. taken' = taken
  BY <1>2
<1>3. Known' /\ Answers'
  BY <1>2, Zenon DEF IInv, Known, Answers, handlerVars, botVars
<1>4. CASE ServerVersion
  <2>1. PICK modes \in {{}, Modes} :
          sent' = <<Package(Version(modes), FALSE, Count)>>
    BY <1>4 DEF ServerVersion
  <2> DEFINE p == Package(Version(modes), FALSE, Count)
  <2>2. p \in Packages /\ p.message.type = 0 /\ p.texts = Len(texts)
    BY <1>1, TypeNumbers DEF Package, Packages, Messages, Version, Count
  <2> HIDE DEF p
  <2>3. sent = <<>> /\ UNCHANGED <<open, texts>>
    BY <1>4 DEF ServerVersion
  <2>4. sent' = Append(sent, p) /\ Len(sent) = 0
    <3>1. Append(<<>>, p) = <<p>> /\ Len(<<>>) = 0
      OBVIOUS
    <3> QED BY <2>1, <2>3, <3>1, Zenon DEF p
  <2>5. Stamps' /\ Delivered'
    BY <2>2, <2>3, <2>4, <1>2, Appended DEF botVars
  <2>6. Len(sent') = 1 /\ sent'[1] = p
    BY <2>2, <2>4, <1>1
  <2>7. Greeted'
    <3>1. taken = 0 /\ taken' = taken /\ reader' = reader
          /\ cryptoMode' = cryptoMode /\ cryptoMode = Empty
      BY <2>4, <1>0, <1>1, <1>2 DEF IInv, Greeted, handlerVars
    <3> QED BY <2>2, <2>6, <3>1 DEF Greeted
  <2>8. Log'
    <3>1. Len(sent') = 1 /\ taken' = 0 /\ texts' \in Seq(Texts)
      BY <2>3, <2>4, <2>6, <1>0, <1>1
    <3> QED BY <3>1, BoundsAssumption DEF Log
  <2>9. Places'
    BY <2>3, <1>2, Zenon DEF IInv, Places, botVars
  <2> QED BY <2>5, <2>7, <2>8, <2>9, <1>3 DEF IInv
<1>5. CASE ServerMessage
  <2>1. PICK m \in KeyMessages \cup UserMessages \cup OtherMessages :
          sent' = Append(sent, Package(m, FALSE, Count))
    BY <1>5 DEF ServerMessage
  <2> DEFINE p == Package(m, FALSE, Count)
  <2>2. Len(sent) \in 1 .. MaxPackages - 1 /\ UNCHANGED <<open, texts>>
    BY <1>5 DEF ServerMessage, CanSend
  <2>3. /\ m \in Messages /\ m.type \notin {0, 11}
        /\ m.type = 15 => Fits(m.key, ServerMode)
    BY <2>2, OtherThanTexts
  <2>4. p \in Packages /\ p.message = m /\ p.texts = Len(texts)
    BY <2>3, <1>1 DEF Package, Packages, Count
  <2> HIDE DEF p
  <2>5. Stamps' /\ Delivered'
    BY <2>1, <2>2, <2>3, <2>4, <1>2, Appended DEF p, botVars
  <2>6. Greeted'
    BY <2>1, <2>2, <2>3, <2>4, <1>2, AppendedLater DEF p, handlerVars
  <2>7. Log'
    BY <2>1, <2>2, <2>4, <1>0, <1>1, BoundsAssumption DEF Log, p
  <2>8. Places'
    BY <2>2, <1>2, Zenon DEF IInv, Places, botVars
  <2> QED BY <2>5, <2>6, <2>7, <2>8, <1>3 DEF IInv
<1>6. CASE ServerText
  <2>1. PICK t \in Texts, long \in BOOLEAN :
          /\ sent' = Append(sent,
               Package(TextMessage(t.actor, Absent, t.channelId, t.message),
                       long, Count + 1))
          /\ texts' = Append(texts, t)
    BY <1>6 DEF ServerText
  <2> DEFINE m == TextMessage(t.actor, Absent, t.channelId, t.message)
             p == Package(m, long, Count + 1)
  <2>2. Len(sent) \in 1 .. MaxPackages - 1 /\ UNCHANGED open
    BY <1>6 DEF ServerText, CanSend
  <2>3. /\ t.actor \in Nat /\ t.channelId \in Channels \cup {Absent}
        /\ t.message \in {"#play", "#stop", "other"}
        /\ t = [actor |-> t.actor, channelId |-> t.channelId,
                message |-> t.message]
    BY TextsAssumption
  <2>4. m \in Messages /\ m.type = 11 /\ MessageOf(m) = t
    BY <2>3, TypeNumbers DEF TextMessage, Messages, MessageOf
  <2> HIDE DEF m
  <2>5. p \in Packages /\ p.message = m /\ p.texts = Len(texts) + 1
    BY <2>4, <1>1 DEF Package, Packages, Count
  <2>6. sent' = Append(sent, p) /\ texts' = Append(texts, t)
    BY <2>1 DEF m
  <2> HIDE DEF p
  <2>7. Stamps' /\ Delivered'
    BY <2>4, <2>5, <2>6, <1>2, Appended DEF botVars
  <2>8. Greeted'
    BY <2>2, <2>4, <2>5, <2>6, <1>2, AppendedLater DEF handlerVars
  <2>9. Log'
    BY <2>2, <2>5, <2>6, <1>0, <1>1, BoundsAssumption DEF Log
  <2>10. Places'
    BY <2>2, <1>2, Zenon DEF IInv, Places, botVars
  <2> QED BY <2>7, <2>8, <2>9, <2>10, <1>3 DEF IInv
<1>7. CASE ConnectionEnds
  <2>1. UNCHANGED <<sent, texts>> /\ open' = FALSE
    BY <1>7 DEF ConnectionEnds
  <2>2. Log' /\ Stamps' /\ Delivered' /\ Greeted'
    BY <2>1, <1>2, Zenon
        DEF IInv, Log, Stamps, Delivered, Greeted, Undelivered, TextsUpTo,
            ServerMode, botVars, handlerVars
  <2>3. Places'
    BY <2>1, <1>2, Zenon DEF IInv, Places, botVars
  <2> QED BY <2>2, <2>3, <1>3 DEF IInv
<1> QED BY <1>4, <1>5, <1>6, <1>7 DEF Server

-----------------------------------------------------------------------------
(* Begin and its goroutines.                                                *)

LEMMA BeginIInv == IInv /\ Begin => IInv'
<1> SUFFICES ASSUME IInv, Begin PROVE IInv'
  OBVIOUS
<1>1. UNCHANGED <<sent, texts, taken, handlerVars, botVars>>
  BY Zenon DEF Begin, Dial, SendVersion, SendAuthenticate, BeginWrites,
               StartRoutines, serverVars
<1>2. Log' /\ Known' /\ Answers' /\ Stamps'
  BY <1>1, Zenon
     DEF IInv, Log, Known, Answers, Stamps, TextsUpTo, handlerVars, botVars
<1>3. Places'
  <2>1. CASE Dial
    <3>1. UNCHANGED <<reader, heard>>
      BY <2>1, Zenon DEF Dial, botVars
    <3>2. CASE main' = "version" /\ open' = TRUE /\ UNCHANGED exited
      <4>1. reader = "off"
        BY <2>1 DEF Dial, IInv, Places
      <4> QED BY <3>1, <3>2, <4>1, Zenon DEF IInv, Places
    <3>3. CASE exited' = "fatal" /\ UNCHANGED <<main, open>>
      BY <3>1, <3>3, Zenon DEF IInv, Places
    <3> QED BY <2>1, <3>2, <3>3 DEF Dial
  <2>2. CASE SendVersion \/ SendAuthenticate
    BY <2>2 DEF IInv, Places, SendVersion, SendAuthenticate, BeginWrites,
                serverVars, botVars
  <2>3. CASE StartRoutines
    <3>1. /\ main = "start" /\ UNCHANGED <<open, heard>>
          /\ \/ main' = "idle" /\ reader' = "header" /\ exited' = exited
             \/ exited' = "fatal" /\ UNCHANGED <<main, reader>>
      BY <2>3, Zenon DEF StartRoutines, serverVars, botVars
    <3> QED BY <3>1 DEF IInv, Places
  <2> QED BY <2>1, <2>2, <2>3 DEF Begin
<1>4. Delivered' /\ Greeted'
  <2>1. reader = "off" /\ reader' \in {"off", "header"}
    BY DEF IInv, Places, Begin, Dial, SendVersion, SendAuthenticate,
           BeginWrites, StartRoutines
  <2>2. Delivered'
    BY <2>1, <1>1 DEF IInv, Delivered, Undelivered, TextsUpTo, botVars
  <2>3. Greeted'
    BY <2>1, <1>1 DEF IInv, Greeted, ServerMode, handlerVars
  <2> QED BY <2>2, <2>3
<1> QED BY <1>2, <1>3, <1>4 DEF IInv

-----------------------------------------------------------------------------
(* readRoutine.                                                             *)

\* A case of handlePacket for anything but a text message, whatever else it
\* keeps of what was said.
LEMMA HandleIInv ==
  ASSUME IInv, NEW types, Handle(types), 11 \notin types, Known', Greeted',
         exited' \in {"no", "fatal", "panic"}
  PROVE  IInv'
<1>1. /\ reader = "handle" /\ reader' = "header" /\ Current.type # 11
      /\ UNCHANGED <<main, serverVars, taken, botVars>>
  BY DEF Handle
<1>2. Log' /\ Answers' /\ Stamps'
  BY <1>1, Zenon DEF IInv, Log, Answers, Stamps, TextsUpTo, serverVars, botVars
<1>3. Places'
  BY <1>1 DEF IInv, Places, serverVars, botVars
<1>4. Delivered'
  BY <1>1 DEF IInv, Delivered, Undelivered, TextsUpTo, Current, serverVars,
              botVars
<1> QED BY <1>2, <1>3, <1>4 DEF IInv

\* What comes after the version does not touch what was agreed on.
LEMMA HandledLater ==
  ASSUME IInv, NEW types, Handle(types), 0 \notin types, UNCHANGED cryptoMode
  PROVE  Greeted'
<1>1. /\ reader = "handle" /\ reader' = "header" /\ Current.type # 0
      /\ sent' = sent /\ taken' = taken
  BY DEF Handle, serverVars
<1>2. taken \in 1 .. Len(sent) /\ Len(sent) \in Nat
  BY <1>1, Books DEF IInv, Delivered
<1>3. taken > 1
  BY <1>1, <1>2 DEF IInv, Greeted, Current
<1> QED BY <1>1, <1>2, <1>3 DEF IInv, Greeted, ServerMode

LEMMA CurrentMessage ==
  ASSUME IInv, reader \in {"handle", "event"}
  PROVE  /\ taken \in 1 .. Len(sent) /\ Len(sent) \in Nat
         /\ Current \in Messages
<1>1. taken \in 1 .. Len(sent) /\ Len(sent) \in Nat /\ sent \in Seq(Packages)
  BY Books DEF IInv, Delivered
<1>2. sent[taken] \in Packages
  BY <1>1
<1>3. \A q \in Packages : q.message \in Messages
  BY DEF Packages
<1> QED BY <1>1, <1>2, <1>3 DEF Current

LEMMA ReaderIInv == IInv /\ readRoutine => IInv'
<1> SUFFICES ASSUME IInv, readRoutine PROVE IInv'
  OBVIOUS
<1>1. UNCHANGED <<main, serverVars, botVars>>
  BY Zenon DEF readRoutine, ReceiveHeader, ReceiveData, ReceiveFails, Handle,
               HandleUnlisted, HandleIgnored, HandleVersion, HandleCryptSetup,
               HandleUserState, HandleTextMessage
<1>2. /\ sent' = sent /\ texts' = texts /\ heard' = heard
      /\ Answers' /\ Stamps'
  BY <1>1, Zenon DEF IInv, Answers, Stamps, TextsUpTo, serverVars, botVars
<1>3. /\ sent \in Seq(Packages) /\ Len(sent) \in Nat /\ taken \in 0 .. Len(sent)
      /\ \A i \in 0 .. Len(sent) : TextsUpTo(i) \in Nat
      /\ \A i \in 0 .. Len(sent) : TextsUpTo(i)' = TextsUpTo(i)
  BY <1>2, Books DEF TextsUpTo
<1>4. CASE ReceiveHeader \/ ReceiveFails \/ HandleUnlisted
  <2>1. /\ UNCHANGED <<taken, handlerVars>>
        /\ exited' \in {"no", "fatal", "panic"}
        /\ \/ UNCHANGED reader
           \/ reader = "header" /\ reader' = "data" /\ taken < Len(sent)
    BY <1>4 DEF ReceiveHeader, ReceiveFails, HandleUnlisted, IInv, Places
  <2>2. Log' /\ Known'
    BY <2>1, <1>1, Zenon DEF IInv, Log, Known, handlerVars, serverVars
  <2>3. Places'
    BY <2>1, <1>1 DEF IInv, Places, serverVars, botVars
  <2>4. Delivered'
    BY <2>1, <1>2, <1>3 DEF IInv, Delivered, Undelivered
  <2>5. Greeted'
    BY <2>1, <1>2, <1>3 DEF IInv, Greeted, ServerMode, handlerVars
  <2> QED BY <2>2, <2>3, <2>4, <2>5, <1>2 DEF IInv
<1>5. CASE ReceiveData
  <2>1. /\ reader = "data" /\ reader' = "handle" /\ taken' = taken + 1
        /\ UNCHANGED <<handlerVars, exited>>
    BY <1>5 DEF ReceiveData
  <2>2. taken' \in 1 .. Len(sent)
    BY <2>1, <1>3 DEF IInv, Delivered
  <2>3. Log' /\ Known'
    BY <2>1, <2>2, <1>2 DEF IInv, Log, Known, handlerVars
  <2>4. Places'
    BY <2>1, <1>1 DEF IInv, Places, serverVars, botVars
  <2>5. Delivered'
    <3>1. Len(heard) = TextsUpTo(taken)
      BY <2>1 DEF IInv, Delivered, Undelivered
    <3>2. TextsUpTo(taken') = IF sent[taken'].message.type = 11
                              THEN TextsUpTo(taken) + 1 ELSE TextsUpTo(taken)
      BY <2>1, <2>2, <1>3 DEF IInv, Stamps, TextsUpTo
    <3>3. TextsUpTo(taken)' = TextsUpTo(taken')
      BY <1>2 DEF TextsUpTo
    <3>4. Undelivered' <=> sent[taken'].message.type = 11
      BY <2>1, <1>2 DEF Undelivered
    <3>5. TextsUpTo(taken) \in Nat
      BY <1>3
    <3> QED BY <3>1, <3>2, <3>3, <3>4, <3>5, <2>1, <2>2, <1>2, <1>3
            DEF Delivered
  <2>6. Greeted'
    BY <2>1, <2>2, <1>2, <1>3 DEF IInv, Greeted, ServerMode, handlerVars
  <2> QED BY <2>3, <2>4, <2>5, <2>6, <1>2 DEF IInv
<1>6. CASE HandleIgnored
  <2>1. Handle(Ignored) /\ UNCHANGED <<cryptoMode, cryptState, BotUserState>>
        /\ UNCHANGED exited
    BY <1>6 DEF HandleIgnored, handlerVars
  <2>2. 11 \notin Ignored /\ 0 \notin Ignored
    BY DEF Ignored
  <2>3. Known'
    BY <2>1, Zenon DEF IInv, Known
  <2>4. Greeted'
    BY <2>1, <2>2, HandledLater
  <2> QED BY <2>1, <2>2, <2>3, <2>4, HandleIInv DEF IInv, Places
<1>7. CASE HandleVersion
  <2>1. /\ Handle({0}) /\ Current.type = 0 /\ reader = "handle"
        /\ reader' = "header" /\ taken' = taken
    BY <1>7 DEF HandleVersion, Handle
  <2>2. /\ cryptoMode' = IF Preferred \in Current.cryptoModes THEN Preferred
                         ELSE cryptoMode
        /\ UNCHANGED <<cryptState, BotUserState, exited>>
    BY <1>7 DEF HandleVersion
  <2>3. Known'
    BY <2>2 DEF IInv, Known
  <2>4. Greeted'
    <3>1. taken = 1
      BY <2>1, <1>3 DEF IInv, Delivered, Greeted, Current
    <3>2. cryptoMode = Empty
      BY <2>1, <3>1 DEF IInv, Greeted
    <3>3. versionPacket.cryptoModes = {Preferred}
      BY DEF versionPacket, Version
    <3>4. cryptoMode' = Preferred <=> ServerMode = Preferred
      BY <2>2, <3>1, <3>2, <3>3, EmptyIsNone
         DEF ServerMode, Current, Preferred
    <3> QED BY <2>1, <3>1, <3>4, <1>2, <1>3 DEF IInv, Greeted, ServerMode
  <2>5. exited' \in {"no", "fatal", "panic"}
    BY <2>2 DEF IInv, Places
  <2> QED BY <2>1, <2>3, <2>4, <2>5, HandleIInv
<1>8. CASE HandleCryptSetup
  <2>1. /\ Handle({15}) /\ Current.type = 15 /\ reader = "handle"
        /\ UNCHANGED <<cryptoMode, BotUserState>>
        /\ exited' \in {"no", "fatal", "panic"}
    BY <1>8 DEF HandleCryptSetup, Handle, IInv, Places
  <2>2. Current \in Messages
    BY <2>1, <1>3, CurrentMessage
  <2>3. cryptState' \in [mode : Modes \cup {"none"}, key : Keys,
                         EncryptIV : Nonces, DecryptIV : Nonces]
    <3> DEFINE mode == IF cryptoMode = Preferred THEN Preferred
                       ELSE "OCB2-AES128"
               key == Get(Current.key, NoKey)
               client == Get(Current.clientNonce, NoNonce)
               server == Get(Current.serverNonce, NoNonce)
    <3>1. key \in Keys /\ client \in Nonces /\ server \in Nonces
      BY <2>1, <2>2, MessageFields
    <3>2. mode \in Modes
      BY DEF Modes, Preferred
    <3> HIDE DEF mode, key, client, server
    <3>3. \/ cryptState' = cryptState
          \/ cryptState' = [mode |-> mode, key |-> key, EncryptIV |-> client,
                            DecryptIV |-> server]
      BY <1>8 DEF HandleCryptSetup, mode, key, client, server
    <3> QED BY <3>1, <3>2, <3>3 DEF IInv, Known
  <2>4. Known'
    BY <2>1, <2>3, Zenon DEF IInv, Known
  <2>5. Greeted'
    BY <2>1, HandledLater
  <2> QED BY <2>1, <2>4, <2>5, HandleIInv
<1>9. CASE HandleUserState
  <2>1. /\ Handle({9}) /\ Current.type = 9 /\ reader = "handle"
        /\ UNCHANGED <<cryptoMode, cryptState, exited>>
    BY <1>9 DEF HandleUserState, Handle
  <2>2. Current \in Messages
    BY <2>1, <1>3, CurrentMessage
  <2>3. BotUserState' \in [Name : {Empty, BotName}, Session : Nat,
                           ChannelId : Channels \cup {0}]
    <3>1. CASE Get(Current.name, Empty) = BotName
      <4>1. BotUserState' = [Name |-> Current.name,
                             Session |-> Get(Current.session, 0),
                             ChannelId |-> Get(Current.channelId, 0)]
        BY <1>9, <3>1 DEF HandleUserState
      <4> QED BY <2>1, <2>2, <3>1, <4>1, MessageFields
    <3>2. CASE Get(Current.name, Empty) # BotName
      BY <1>9, <3>2 DEF HandleUserState, IInv, Known
    <3> QED BY <3>1, <3>2
  <2>4. Known'
    BY <2>1, <2>3, Zenon DEF IInv, Known
  <2>5. Greeted'
    BY <2>1, HandledLater
  <2>6. exited' \in {"no", "fatal", "panic"}
    BY <2>1 DEF IInv, Places
  <2> QED BY <2>1, <2>4, <2>5, <2>6, HandleIInv
<1>10. CASE HandleTextMessage
  <2>1. /\ reader = "handle" /\ reader' = "event" /\ taken' = taken
        /\ Current.type = 11 /\ UNCHANGED <<handlerVars, exited>>
    BY <1>10 DEF HandleTextMessage
  <2>2. Log' /\ Known'
    BY <2>1, <1>1, Zenon DEF IInv, Log, Known, handlerVars, serverVars
  <2>3. Places'
    BY <2>1, <1>1 DEF IInv, Places, serverVars, botVars
  <2>4. Delivered'
    BY <2>1, <1>2, <1>3 DEF IInv, Delivered, Undelivered, Current
  <2>5. taken > 1
    BY <2>1, <1>3 DEF IInv, Delivered, Greeted, Current
  <2>6. Greeted'
    BY <2>1, <2>5, <1>2, <1>3 DEF IInv, Greeted, ServerMode, handlerVars
  <2> QED BY <2>2, <2>3, <2>4, <2>6, <1>2 DEF IInv
<1> QED BY <1>4, <1>5, <1>6, <1>7, <1>8, <1>9, <1>10 DEF readRoutine

-----------------------------------------------------------------------------
(* eventRoutine.                                                            *)

\* What a callback is given is the next text that no callback was given.
LEMMA NextText ==
  ASSUME IInv, reader = "event"
  PROVE  /\ Len(heard) \in Nat /\ Len(heard) + 1 \in 1 .. Len(texts)
         /\ MessageOf(Current) = texts[Len(heard) + 1]
         /\ MessageOf(Current) \in Texts
<1>1. /\ texts \in Seq(Texts) /\ Len(texts) \in Nat
      /\ taken \in 1 .. Len(sent) /\ Len(sent) \in Nat
  BY Books, CurrentMessage
<1>2. Current.type = 11 /\ Len(heard) = TextsUpTo(taken) - 1
  BY DEF IInv, Delivered, Undelivered, Current
<1>3. /\ sent[taken].texts \in 0 .. Len(texts)
      /\ sent[taken].texts = TextsUpTo(taken - 1) + 1
      /\ MessageOf(Current) = texts[sent[taken].texts]
  BY <1>1, <1>2 DEF IInv, Stamps, Current
<1>4. TextsUpTo(taken) = sent[taken].texts /\ TextsUpTo(taken - 1) \in Nat
  <2>1. taken - 1 \in 0 .. Len(sent)
    BY <1>1
  <2> QED BY <1>1, <2>1, Books DEF TextsUpTo
<1> HIDE DEF MessageOf, TextsUpTo, Current
<1>5. sent[taken].texts \in 1 .. Len(texts)
  BY <1>1, <1>3, <1>4
<1> QED BY <1>1, <1>2, <1>3, <1>4, <1>5

LEMMA EventFields ==
  ASSUME NEW t \in Texts
  PROVE  /\ Event[t].kind \in {"private", "channel"} /\ Event[t].actor \in Nat
         /\ Event[t].message \in {"#play", "#stop", "other"}
<1>1. t.actor \in Nat /\ t.message \in {"#play", "#stop", "other"}
  BY TextsAssumption
<1> QED BY <1>1 DEF Event

LEMMA EventIInv == IInv /\ eventRoutine => IInv'
<1> SUFFICES ASSUME IInv, eventRoutine PROVE IInv'
  OBVIOUS
<1>1. /\ UNCHANGED <<serverVars, taken, handlerVars>>
      /\ exited = "no" /\ exited' \in {"no", "fatal", "panic"}
  BY DEF eventRoutine, DeliverMessage, DeliverTrackEvent, OnPlay, OnStop,
         OnPrivateMessageReceived, startNextTrack
<1>2. Log' /\ Known' /\ Stamps'
  BY <1>1, Zenon
     DEF IInv, Log, Known, Stamps, TextsUpTo, handlerVars, serverVars
<1>3. sent' = sent /\ taken' = taken /\ cryptoMode' = cryptoMode
  BY <1>1, Zenon DEF serverVars, handlerVars
<1>4. ASSUME UNCHANGED <<reader, heard>>
      PROVE  Delivered' /\ Greeted'
  BY <1>3, <1>4, Zenon DEF IInv, Delivered, Greeted, Undelivered, TextsUpTo,
                           ServerMode
<1>5. ASSUME UNCHANGED <<reader, heard>>, main \notin {"dial", "version",
               "authenticate", "start"},
             main' \in {"idle", "#play", "start track", "hung"}
      PROVE  Places'
  BY <1>1, <1>5 DEF IInv, Places, serverVars
<1>6. CASE DeliverMessage
  <2> DEFINE e == Event[MessageOf(Current)]
             Events == {Event[t] : t \in Texts}
  <2>1. /\ main = "idle" /\ reader = "event" /\ reader' = "header"
        /\ heard' = Append(heard, e)
        /\ main' = IF e.kind = "private" THEN "reply"
                   ELSE IF e.message = "other" THEN "idle" ELSE e.message
        /\ UNCHANGED <<queue, events, replies, announced, exited>>
    BY <1>6 DEF DeliverMessage
  <2>2. e \in Events /\ e.message \in {"#play", "#stop", "other"}
    BY <2>1, NextText, EventFields
  <2> HIDE DEF e, Events
  <2>3. heard \in Seq(Events)
    BY DEF IInv, Answers, Events
  <2>4. /\ heard' \in Seq(Events) /\ Len(heard') = Len(heard) + 1
        /\ Len(heard) \in Nat
    BY <2>1, <2>2, <2>3
  <2>5. Answers'
    BY <2>1, <2>4, Zenon DEF IInv, Answers, Events
  <2>6. Places'
    <3>1. Len(heard') > 0
      BY <2>4
    <3>2. main' \in {"idle", "reply", "#play", "#stop"}
      BY <2>1, <2>2
    <3>3. UNCHANGED <<open, exited>>
      BY <1>1, <2>1, Zenon DEF serverVars
    <3>4. open \in BOOLEAN /\ exited \in {"no", "fatal", "panic"}
      BY Zenon DEF IInv, Places
    <3>5. /\ main' \in {"dial", "version", "authenticate", "start", "idle",
                      "reply", "start track", "hung", "#play", "#stop"}
          /\ main' \in {"dial", "version", "authenticate", "start"} =>
               reader' = "off"
          /\ main' = "dial" => ~open'
          /\ reader' \in {"off", "header", "data", "handle", "event"}
      BY <2>1, <3>2
    <3>6. /\ open' \in BOOLEAN /\ exited' \in {"no", "fatal", "panic"}
          /\ main' = "reply" => Len(heard') > 0
      BY <3>1, <3>3, <3>4
    <3> QED BY <3>5, <3>6, Zenon DEF Places
  <2>7. Delivered'
    <3>1. Len(heard) = TextsUpTo(taken) - 1 /\ TextsUpTo(taken) \in Nat
      BY <2>1, Books DEF IInv, Delivered, Undelivered
    <3>2. TextsUpTo(taken)' = TextsUpTo(taken)
      BY <1>3 DEF TextsUpTo
    <3>3. ~Undelivered'
      BY <2>1 DEF Undelivered
    <3> QED BY <2>1, <2>4, <3>1, <3>2, <3>3 DEF Delivered
  <2>8. Greeted'
    BY <2>1, <1>3 DEF IInv, Greeted, ServerMode
  <2> QED BY <2>5, <2>6, <2>7, <2>8, <1>2 DEF IInv
<1>7. CASE DeliverTrackEvent
  <2>1. /\ UNCHANGED <<reader, queue, heard, replies, announced>>
        /\ main = "idle"
        /\ main' \in {"idle", "start track"}
        /\ events < MaxEvents /\ events' = events + 1
    BY <1>7 DEF DeliverTrackEvent
  <2>2. events' \in 0 .. MaxEvents
    <3>1. events \in 0 .. MaxEvents
      BY Zenon DEF IInv, Answers
    <3>2. events < MaxEvents /\ events' = events + 1
      BY <2>1
    <3> QED BY <3>1, <3>2, BoundsAssumption
  <2>3. Answers'
    BY <2>1, <2>2, Zenon DEF IInv, Answers
  <2> QED BY <2>1, <2>3, <1>2, <1>4, <1>5 DEF IInv
<1>8. CASE OnPlay \/ OnStop
  <2>1. /\ UNCHANGED <<reader, heard, replies, announced, events>>
        /\ main \in {"#play", "#stop"}
        /\ main' \in {"idle", "#play", "start track", "hung"}
        /\ \/ queue' = queue
           \/ \E source \in BOOLEAN : queue' = Append(queue, source)
    BY <1>8 DEF OnPlay, OnStop, botVars
  <2>2. queue' \in Seq(BOOLEAN)
    <3>1. queue \in Seq(BOOLEAN)
      BY Zenon DEF IInv, Answers
    <3>2. ASSUME NEW S, queue \in Seq(S), NEW source \in S
          PROVE  Append(queue, source) \in Seq(S)
      BY <3>2
    <3> QED BY <2>1, <3>1, <3>2
  <2>3. Answers'
    BY <2>1, <2>2, Zenon DEF IInv, Answers
  <2> QED BY <2>1, <2>3, <1>2, <1>4, <1>5 DEF IInv
<1>9. CASE OnPrivateMessageReceived
  <2>1. /\ UNCHANGED <<reader, queue, heard, announced, events>>
        /\ main = "reply" /\ main' = "idle"
        /\ \/ replies' = Append(replies, heard[Len(heard)].actor)
           \/ UNCHANGED replies
    BY <1>9 DEF OnPrivateMessageReceived
  <2>2. heard[Len(heard)].actor \in Nat
    <3>1. Len(heard) > 0 /\ heard \in Seq({Event[t] : t \in Texts})
      BY <2>1 DEF IInv, Places, Answers
    <3> DEFINE Events == {Event[t] : t \in Texts}
    <3>2. \A e \in Events : e.actor \in Nat
      BY EventFields
    <3> HIDE DEF Events
    <3>3. heard[Len(heard)] \in Events
      <4>1. heard \in Seq(Events) /\ Len(heard) > 0
        BY <3>1 DEF Events
      <4> QED BY <4>1
    <3> QED BY <3>2, <3>3
  <2>3. replies' \in Seq(Nat)
    BY <2>1, <2>2, SMTT(30) DEF IInv, Answers
  <2>4. Answers'
    BY <2>1, <2>3, Zenon DEF IInv, Answers
  <2> QED BY <2>1, <2>4, <1>2, <1>4, <1>5 DEF IInv
<1>10. CASE startNextTrack
  <2>1. /\ UNCHANGED <<reader, heard, replies, events>>
        /\ main = "start track" /\ main' \in {"idle", "start track"}
        /\ announced' \in {announced, BotUserState.ChannelId}
        /\ \/ queue' = queue
           \/ queue # <<>> /\ queue' = Tail(queue)
    BY <1>10 DEF startNextTrack
  <2>2. announced' \in Channels \cup {0, Absent}
    BY <2>1 DEF IInv, Answers, Known
  <2>3. queue' \in Seq(BOOLEAN)
    <3>1. queue \in Seq(BOOLEAN)
      BY Zenon DEF IInv, Answers
    <3>2. ASSUME NEW S, queue \in Seq(S), queue # <<>>
          PROVE  Tail(queue) \in Seq(S)
      BY <3>2
    <3> QED BY <2>1, <3>1, <3>2
  <2>4. Answers'
    BY <2>1, <2>2, <2>3, Zenon DEF IInv, Answers
  <2> QED BY <2>1, <2>4, <1>2, <1>4, <1>5 DEF IInv
<1> QED BY <1>6, <1>7, <1>8, <1>9, <1>10 DEF eventRoutine

-----------------------------------------------------------------------------
(* The theorems.                                                            *)

LEMMA StepIInv == IInv /\ [Next]_vars => IInv'
<1> SUFFICES ASSUME IInv, [Next]_vars PROVE IInv'
  OBVIOUS
<1>1. CASE UNCHANGED vars
  <2>1. Places' /\ Log'
    BY <1>1, Zenon DEF IInv, Places, Log, vars
  <2>2. Known' /\ Answers'
    BY <1>1, Zenon DEF IInv, Known, Answers, vars
  <2>3. Stamps' /\ Delivered'
    BY <1>1, Zenon DEF IInv, Stamps, Delivered, Undelivered, TextsUpTo, vars
  <2>4. Greeted'
    BY <1>1, Zenon DEF IInv, Greeted, ServerMode, vars
  <2> QED BY <2>1, <2>2, <2>3, <2>4 DEF IInv
<1>2. CASE Next
  BY <1>2, ServerIInv, BeginIInv, ReaderIInv, EventIInv DEF Next
<1> QED BY <1>1, <1>2

LEMMA Invariance == Spec => []IInv
BY InitIInv, StepIInv, PTL DEF Spec

\* Every variable keeps its type, for every set of channels and of texts: no
\* package of the server, however it is cut or repeated, brings a goroutine
\* somewhere it does not go on from (packagereader.go:16, eventhandler.go:109).
THEOREM TypeCorrect == Spec => []TypeOK
<1>1. IInv => TypeOK
  BY Zenon DEF IInv, Places, Log, Known, Answers, TypeOK
<1> QED BY <1>1, Invariance, PTL

\* A step gives a callback the next text, adds a text, ends the session, or is
\* none of the concern of the mailbox.
LEMMA StepBox == IInv /\ [Next]_vars => [Box!Next]_Box!vars
<1> SUFFICES ASSUME IInv, [Next]_vars PROVE [Box!Next]_Box!vars
  OBVIOUS
<1>1. ASSUME UNCHANGED <<texts, heard>>,
             exited' = exited \/ (exited = "no" /\ exited' # "no")
      PROVE  [Box!Next]_Box!vars
  BY <1>1, Zenon DEF Box!Next, Box!vars, Box!End
<1>2. CASE DeliverMessage
  <2>1. /\ reader = "event" /\ exited = "no" /\ exited' = exited
        /\ texts' = texts /\ heard' = Append(heard, Event[MessageOf(Current)])
    BY <1>2 DEF DeliverMessage, serverVars
  <2>2. /\ Len(heard) < Len(texts)
        /\ MessageOf(Current) = texts[Len(heard) + 1]
    BY <2>1, NextText, Books
  <2> QED BY <2>1, <2>2, Zenon DEF Box!Next, Box!Deliver
<1>3. CASE ServerText
  <2>1. PICK t \in Texts : texts' = Append(texts, t)
    BY <1>3 DEF ServerText
  <2>2. heard' = heard /\ exited' = exited
    BY <1>3 DEF ServerText, botVars
  <2> QED BY <2>1, <2>2, Zenon DEF Box!Next, Box!Write
<1>4. CASE ServerVersion \/ ServerMessage \/ ConnectionEnds
  BY <1>1, <1>4, Zenon DEF ServerVersion, ServerMessage, ConnectionEnds, botVars
<1>5. CASE Begin
  BY <1>1, <1>5 DEF Begin, Dial, SendVersion, SendAuthenticate, BeginWrites,
                    StartRoutines, serverVars, botVars
<1>6. CASE readRoutine
  BY <1>1, <1>6 DEF readRoutine, ReceiveHeader, ReceiveData, ReceiveFails,
       Handle, HandleUnlisted, HandleIgnored, HandleVersion, HandleCryptSetup,
       HandleUserState, HandleTextMessage, serverVars, botVars
<1>7. CASE DeliverTrackEvent \/ OnPlay \/ OnStop \/ OnPrivateMessageReceived
           \/ startNextTrack
  BY <1>1, <1>7 DEF DeliverTrackEvent, OnPlay, OnStop,
       OnPrivateMessageReceived, startNextTrack, serverVars, botVars
<1>8. CASE UNCHANGED vars
  BY <1>1, <1>8, Zenon DEF vars
<1> QED BY <1>2, <1>3, <1>4, <1>5, <1>6, <1>7, <1>8
        DEF Next, Server, eventRoutine

\* The callbacks get the texts of the server once each and in order, however the
\* goroutines are scheduled and whatever else the server sends or fails at
\* (packagereader.go:111-130, eventhandler.go:109).
THEOREM MailboxImplemented == Spec => ImplementsMailbox
<1>1. Init => Box!Init
  BY Zenon DEF Init, Box!Init
<1> QED BY <1>1, StepBox, Invariance, PTL DEF Spec, ImplementsMailbox, Box!Spec

-----------------------------------------------------------------------------
(* What the process ends for.                                               *)

\* SetKey is given a key of the length of its mode, unless it is given none.
LEMMA KeyFits ==
  ASSUME IInv, HandleCryptSetup, exited' # exited
  PROVE  /\ exited' = "panic" /\ taken' > 0
         /\ Current'.type = 15 /\ Current'.key = Absent
<1> DEFINE mode == IF cryptoMode = Preferred THEN Preferred ELSE "OCB2-AES128"
           key == Current.key
<1>1. /\ Current.type = 15 /\ reader = "handle" /\ exited' = "panic"
      /\ sent' = sent /\ taken' = taken
      /\ Get(key, NoKey).size # KeySize(mode)
  BY DEF HandleCryptSetup, Handle, serverVars
<1>2. taken \in 1 .. Len(sent) /\ Len(sent) \in Nat
  BY <1>1, CurrentMessage
<1>3. taken > 1 /\ Fits(key, ServerMode)
  BY <1>1, <1>2 DEF IInv, Greeted, Current
<1>4. cryptoMode = Preferred <=> ServerMode = Preferred
  BY <1>2, <1>3 DEF IInv, Greeted
<1>5. KeySize(mode) = KeySize(ServerMode)
  BY <1>4 DEF KeySize, Preferred
<1> HIDE DEF mode, key
<1>6. key = Absent
  BY <1>1, <1>3, <1>5 DEF Fits, Get
<1>7. taken' > 0
  BY <1>1, <1>2
<1> QED BY <1>1, <1>6, <1>7 DEF Current, key

LEMMA StepEnds == IInv /\ EndsForCause /\ [Next]_vars => EndsForCause'
<1> SUFFICES ASSUME IInv, EndsForCause, [Next]_vars PROVE EndsForCause'
  OBVIOUS
<1>1. CASE UNCHANGED vars
  BY <1>1, Zenon DEF EndsForCause, Current, vars
<1>2. CASE ConnectionEnds
  <2>1. open' = FALSE /\ UNCHANGED <<main, queue, exited, sent, taken>>
    BY <1>2, Zenon DEF ConnectionEnds, botVars
  <2> QED BY <2>1, Zenon DEF EndsForCause, Current
<1>3. ASSUME exited = "no", exited' = exited PROVE EndsForCause'
  BY <1>3 DEF EndsForCause
<1>4. CASE \/ ServerVersion \/ ServerMessage \/ ServerText
           \/ DeliverMessage \/ DeliverTrackEvent \/ OnStop
           \/ OnPrivateMessageReceived
  <2>1. exited = "no" /\ exited' = exited
    BY <1>4, Zenon DEF ServerVersion, ServerMessage, ServerText, CanSend,
         DeliverMessage, DeliverTrackEvent, OnStop, OnPrivateMessageReceived
  <2> QED BY <2>1, <1>3
<1>5. CASE Begin
  <2>1. /\ exited = "no"
        /\ \/ exited' = exited
           \/ exited' = "fatal" /\ ~open'
           \/ exited' = "fatal" /\ main' = "start" /\ "no udp" \in Conditions
    <3>1. main = "dial" => ~open
      BY Zenon DEF IInv, Places
    <3>2. CASE Dial
      <4>1. /\ exited = "no" /\ main = "dial"
            /\ \/ exited' = exited
               \/ exited' = "fatal" /\ open' = open
        BY <3>2, Zenon DEF Dial
      <4>2. exited' = "fatal" /\ open' = open => ~open'
        BY <3>1, <4>1
      <4> QED BY <4>1, <4>2
    <3>3. CASE SendVersion \/ SendAuthenticate
      <4>1. /\ exited = "no" /\ open' = open
            /\ \/ exited' = exited
               \/ exited' = "fatal" /\ ~open
        BY <3>3, Zenon DEF SendVersion, SendAuthenticate, BeginWrites, serverVars
      <4> QED BY <4>1, Zenon
    <3>4. CASE StartRoutines
      BY <3>4, Zenon DEF StartRoutines
    <3> QED BY <1>5, <3>2, <3>3, <3>4 DEF Begin
  <2> QED BY <2>1, <1>3 DEF EndsForCause
<1>6. CASE HandleCryptSetup
  <2>1. exited = "no"
    BY <1>6 DEF HandleCryptSetup, Handle
  <2> QED BY <2>1, <1>3, <1>6, KeyFits DEF EndsForCause
<1>7. CASE ReceiveHeader \/ ReceiveFails \/ HandleUnlisted
  <2>1. /\ exited = "no" /\ exited' \in {exited, "fatal"}
        /\ UNCHANGED <<open, sent, taken>>
        /\ exited' = "fatal" =>
             /\ reader' = reader
             /\ \/ ~open
                \/ /\ reader = "header" /\ taken < Len(sent)
                   /\ sent[taken + 1].long
                \/ reader = "handle" /\ Current.type \notin Listed
    BY <1>7 DEF ReceiveHeader, ReceiveFails, HandleUnlisted, serverVars
  <2>2. CASE exited' = exited
    BY <2>1, <2>2, <1>3
  <2>3. CASE exited' = "fatal"
    BY <2>1, <2>3, Zenon DEF EndsForCause, Current
  <2> QED BY <2>1, <2>2, <2>3
<1>8. CASE ReceiveData \/ HandleIgnored \/ HandleVersion \/ HandleUserState
           \/ HandleTextMessage
  BY <1>3, <1>8 DEF ReceiveData, HandleIgnored, HandleVersion, HandleUserState,
                    HandleTextMessage, Handle
<1>9. CASE OnPlay
  <2>1. /\ exited = "no"
        /\ \/ exited' = exited
           \/ /\ exited' = "fatal"
              /\ main' = "#play" /\ "no youtube-dl" \in Conditions
    BY <1>9 DEF OnPlay
  <2> QED BY <2>1, <1>3 DEF EndsForCause
<1>10. CASE startNextTrack
  <2>1. /\ exited = "no"
        /\ \/ exited' = exited
           \/ /\ exited' = "panic" /\ main' = "start track"
              /\ queue' # <<>> /\ ~Head(queue')
    BY <1>10, Zenon DEF startNextTrack
  <2> QED BY <2>1, <1>3 DEF EndsForCause
<1> QED BY <1>1, <1>2, <1>4, <1>5, <1>6, <1>7, <1>8, <1>9, <1>10
        DEF Next, Server, readRoutine, eventRoutine

\* For any number of packages the process ends only without a connection, a UDP
\* socket or youtube-dl, at a package that does not fit or is not listed, at a
\* CryptSetup without a key, or at a track without a source: a key is never one
\* for the other mode (eventhandler.go:55-93, packagereader.go:18-25, 43, 77, 147,
\* track.go:47, 60).
THEOREM EndsForItsCause == Spec => []EndsForCause
<1>1. Init => EndsForCause
  BY DEF Init, EndsForCause
<1> QED BY <1>1, StepEnds, Invariance, PTL DEF Spec

-----------------------------------------------------------------------------
(* What the client keeps of what the server told it.                        *)

Setups == HandledOf(15)
Named == {i \in HandledOf(9) : sent[i].message.name = BotName}

\* A set of numbers has a last one, unless it is empty.  That each of the two
\* has is part of the invariant: they grow at the end.
HasLast(S) == S = {} \/ \E i \in S : \A j \in S : j <= i
IsLastOf(i, S) == i \in S /\ \A j \in S : j <= i

\* A key comes with the nonces of its package.
Keyed ==
  \A i \in 1 .. Len(sent) :
    sent[i].message.type = 15 /\ sent[i].message.key # Absent =>
      /\ sent[i].message.clientNonce = <<"client", i>>
      /\ sent[i].message.serverNonce = <<"server", i>>

\* The cipher of package i.
CipherOf(i) ==
  /\ cryptState.mode = ServerMode
  /\ cryptState.key = sent[i].message.key
  /\ cryptState.EncryptIV = <<"client", i>>
  /\ cryptState.DecryptIV = <<"server", i>>

\* The state of the bot in package i.
StateOf(i) ==
  [Name |-> BotName, Session |-> sent[i].message.session,
   ChannelId |-> sent[i].message.channelId]

KeptCipher ==
  /\ HasLast(Setups)
  /\ Setups = {} => cryptState.mode = "none"
  /\ exited # "panic" => \A i \in Setups : IsLastOf(i, Setups) => CipherOf(i)

KeptState ==
  /\ HasLast(Named)
  /\ Named = {} => BotUserState = [Name |-> Empty, Session |-> 0, ChannelId |-> 0]
  /\ \A i \in Named : IsLastOf(i, Named) => BotUserState = StateOf(i)

Announced == {Absent, 0} \cup {sent[i].message.channelId : i \in Named}
KeptChannel == announced \in Announced

Kept == Keyed /\ KeptCipher /\ KeptState /\ KeptChannel

LEMMA LastIsLast ==
  ASSUME NEW S, S # {}, HasLast(S)
  PROVE  IsLastOf(LastOf(S), S)
<1>1. PICK i \in S : \A j \in S : j <= i
  BY DEF HasLast
<1> QED BY <1>1, Zenon DEF LastOf, IsLastOf

\* The invariant says what the properties say.
LEMMA KeptImplies == IInv /\ Kept => CiphersAgree /\ KnowsItsNamedState
<1> SUFFICES ASSUME IInv, Kept PROVE CiphersAgree /\ KnowsItsNamedState
  OBVIOUS
<1>1. CiphersAgree
  <2>1. ASSUME Setups # {}, exited # "panic"
        PROVE  CipherOf(LastOf(Setups))
    <3>1. IsLastOf(LastOf(Setups), Setups)
      BY <2>1, LastIsLast DEF Kept, KeptCipher
    <3> QED BY <2>1, <3>1, Zenon DEF Kept, KeptCipher, IsLastOf
  <2> QED BY <2>1, Zenon DEF Kept, KeptCipher, CiphersAgree, CipherOf, Setups
<1>2. KnowsItsNamedState
  <2>1. ASSUME Named # {} PROVE BotUserState = StateOf(LastOf(Named))
    <3>1. IsLastOf(LastOf(Named), Named)
      BY <2>1, LastIsLast DEF Kept, KeptState
    <3> QED BY <3>1, Zenon DEF Kept, KeptState, IsLastOf
  <2>2. Named = {} => BotUserState.Name = Empty
    BY DEF Kept, KeptState
  <2>3. announced \in Announced
    BY DEF Kept, KeptChannel
  <2> QED BY <2>1, <2>2, <2>3, Zenon
          DEF KnowsItsNamedState, Named, StateOf, Announced
<1> QED BY <1>1, <1>2

\* The packages that were handled are those up to the one in hand.
LEMMA HandledRange ==
  ASSUME IInv
  PROVE  /\ taken \in Nat /\ Len(sent) \in Nat /\ taken <= Len(sent)
         /\ Handled = IF reader = "handle" THEN 1 .. taken - 1 ELSE 1 .. taken
<1>1. taken \in Nat /\ Len(sent) \in Nat /\ taken <= Len(sent)
  BY Books
<1> QED BY <1>1 DEF Handled

LEMMA InitKept == Init => Kept
<1> SUFFICES ASSUME Init PROVE Kept
  OBVIOUS
<1>1. Len(sent) = 0 /\ taken = 0
  <2>1. Len(<<>>) = 0
    OBVIOUS
  <2> QED BY <2>1, Zenon DEF Init
<1>2. Handled = {}
  BY <1>1 DEF Handled
<1>3. Setups = {} /\ Named = {}
  BY <1>2 DEF Setups, Named, HandledOf
<1>4. Keyed
  BY <1>1 DEF Keyed
<1>5. KeptCipher /\ KeptState
  BY <1>3 DEF Init, KeptCipher, KeptState, HasLast
<1>6. KeptChannel
  BY DEF Init, KeptChannel, Announced
<1> QED BY <1>4, <1>5, <1>6 DEF Kept

\* A step that handles no package, and leaves the handled ones as they are.
LEMMA SameHandled ==
  ASSUME IInv, Kept, Handled' = Handled,
         \A i \in Handled : sent'[i] = sent[i], ServerMode' = ServerMode,
         UNCHANGED <<cryptState, BotUserState>>,
         exited' = "panic" \/ exited # "panic",
         announced' \in Announced
  PROVE  KeptCipher' /\ KeptState' /\ KeptChannel'
<1>1. Setups' = Setups /\ Named' = Named
  BY DEF Setups, Named, HandledOf
<1>2. Setups \subseteq Handled /\ Named \subseteq Handled
  BY DEF Setups, Named, HandledOf
<1> HIDE DEF Setups, Named, Handled
<1>3. \A i \in Setups : CipherOf(i)' <=> CipherOf(i)
  BY <1>2 DEF CipherOf
<1>4. \A i \in Named : StateOf(i)' = StateOf(i)
  BY <1>2 DEF StateOf
<1>5. Announced' = Announced
  BY <1>1, <1>2 DEF Announced
<1>6. KeptCipher'
  BY <1>1, <1>3, Zenon DEF Kept, KeptCipher, HasLast, IsLastOf
<1>7. KeptState'
  BY <1>1, <1>4, Zenon DEF Kept, KeptState, HasLast, IsLastOf
<1> QED BY <1>5, <1>6, <1>7 DEF KeptChannel

\* A step of readRoutine that is done with the package in hand: it is the last
\* one handled.
LEMMA OneMoreHandled ==
  ASSUME IInv, reader = "handle", reader' # "handle",
         UNCHANGED <<sent, taken>>
  PROVE  /\ taken \in 1 .. Len(sent) /\ taken \notin Handled
         /\ Handled' = Handled \cup {taken}
         /\ \A i \in Handled : i <= taken
         /\ Setups' = IF Current.type = 15 THEN Setups \cup {taken} ELSE Setups
         /\ Named' = IF Current.type = 9 /\ Current.name = BotName
                     THEN Named \cup {taken} ELSE Named
<1>1. taken \in 1 .. Len(sent) /\ Len(sent) \in Nat
  BY CurrentMessage
<1>2. /\ taken \notin Handled /\ Handled' = Handled \cup {taken}
      /\ \A i \in Handled : i <= taken
  BY <1>1 DEF Handled
<1> HIDE DEF Handled
<1>3. \A type : HandledOf(type)' =
                  HandledOf(type) \cup {i \in {taken} : sent[i].message.type = type}
  BY <1>2 DEF HandledOf
<1>4. Setups' = IF Current.type = 15 THEN Setups \cup {taken} ELSE Setups
  BY <1>3 DEF Setups, Current
<1>5. Named' = IF Current.type = 9 /\ Current.name = BotName
               THEN Named \cup {taken} ELSE Named
  BY <1>3 DEF Named, Current
<1> QED BY <1>1, <1>2, <1>4, <1>5

\* A package of no concern to the cipher leaves it.
LEMMA CipherStays ==
  ASSUME IInv, Kept, Setups' = Setups, UNCHANGED <<sent, cryptState, exited>>
  PROVE  KeptCipher'
<1> HIDE DEF Setups
<1>1. \A i : CipherOf(i)' <=> CipherOf(i)
  BY DEF CipherOf, ServerMode
<1> QED BY <1>1, Zenon DEF Kept, KeptCipher, HasLast, IsLastOf

\* Neither does one that does not name the bot touch what is known of it.
LEMMA StateStays ==
  ASSUME IInv, Kept, Named' = Named, UNCHANGED <<sent, BotUserState, announced>>
  PROVE  KeptState' /\ KeptChannel'
<1> HIDE DEF Named
<1>1. \A i : StateOf(i)' = StateOf(i)
  BY DEF StateOf
<1>2. KeptState'
  BY <1>1, Zenon DEF Kept, KeptState, HasLast, IsLastOf
<1>3. KeptChannel'
  BY DEF Kept, KeptChannel, Announced
<1> QED BY <1>2, <1>3

\* The number that is added at the end is the last one.
LEMMA LastAdded ==
  ASSUME NEW S \in SUBSET Nat, NEW n \in Nat, \A i \in S : i <= n
  PROVE  /\ HasLast(S \cup {n})
         /\ \A i \in S \cup {n} : IsLastOf(i, S \cup {n}) => i = n
BY DEF HasLast, IsLastOf

\* What the server writes keeps each key with the nonces of its package.
LEMMA ServerKeyed == IInv /\ Kept /\ Server => Keyed'
<1> SUFFICES ASSUME IInv, Kept, Server PROVE Keyed'
  OBVIOUS
<1>1. sent \in Seq(Packages) /\ Len(sent) \in Nat
  BY Books
<1>2. ASSUME NEW p, sent' = Append(sent, p),
             p.message.type = 15 /\ p.message.key # Absent =>
               /\ p.message.clientNonce = <<"client", Len(sent) + 1>>
               /\ p.message.serverNonce = <<"server", Len(sent) + 1>>
      PROVE  Keyed'
  <2> DEFINE c(i) == <<"client", i>>
             s(i) == <<"server", i>>
  <2>1. \A i \in 1 .. Len(sent) :
          sent[i].message.type = 15 /\ sent[i].message.key # Absent =>
            sent[i].message.clientNonce = c(i) /\ sent[i].message.serverNonce = s(i)
    BY Zenon DEF Kept, Keyed
  <2>2. p.message.type = 15 /\ p.message.key # Absent =>
          /\ p.message.clientNonce = c(Len(sent) + 1)
          /\ p.message.serverNonce = s(Len(sent) + 1)
    BY <1>2
  <2> HIDE DEF c, s
  <2>3. /\ Len(sent') = Len(sent) + 1 /\ sent'[Len(sent) + 1] = p
        /\ \A i \in 1 .. Len(sent) : sent'[i] = sent[i]
    BY <1>1, <1>2
  <2>4. \A i \in 1 .. Len(sent') :
          sent'[i].message.type = 15 /\ sent'[i].message.key # Absent =>
            sent'[i].message.clientNonce = c(i) /\ sent'[i].message.serverNonce = s(i)
    BY <2>1, <2>2, <2>3, <1>1
  <2> QED BY <2>4, Zenon DEF Keyed, c, s
<1>3. CASE ServerVersion
  <2>1. PICK modes \in {{}, Modes} :
          sent' = <<Package(Version(modes), FALSE, Count)>>
    BY <1>3 DEF ServerVersion
  <2> DEFINE p == Package(Version(modes), FALSE, Count)
  <2>2. p.message.type = 0
    BY TypeNumbers DEF Package, Version
  <2> HIDE DEF p
  <2>3. sent' = Append(sent, p)
    <3>1. Append(<<>>, p) = <<p>>
      OBVIOUS
    <3>2. sent = <<>>
      BY <1>3, Zenon DEF ServerVersion
    <3> QED BY <2>1, <3>1, <3>2, Zenon DEF p
  <2> QED BY <2>2, <2>3, <1>2
<1>4. CASE ServerMessage
  <2>1. PICK m \in KeyMessages \cup UserMessages \cup OtherMessages :
          sent' = Append(sent, Package(m, FALSE, Count))
    BY <1>4 DEF ServerMessage
  <2>2. m.type = 15 /\ m.key # Absent =>
          /\ m.clientNonce = <<"client", Len(sent) + 1>>
          /\ m.serverNonce = <<"server", Len(sent) + 1>>
    <3>1. CASE m \in KeyMessages
      <4> DEFINE n == Len(sent) + 1
                 key == [size |-> KeySize(ServerMode), of |-> n]
                 c == <<"client", n>>
                 s == <<"server", n>>
      <4>1. \/ m = CryptSetup(key, c, s)
            \/ m = CryptSetup(Absent, Absent, Absent)
            \/ m = CryptSetup(Absent, Absent, s)
        BY <3>1 DEF KeyMessages
      <4> HIDE DEF key, c, s
      <4>2. m.key # Absent => m.clientNonce = c /\ m.serverNonce = s
        BY <4>1 DEF CryptSetup
      <4> QED BY <4>2, Zenon DEF c, s
    <3>2. CASE m \in UserMessages
      <4>1. PICK a, b, c : m = UserState(a, b, c)
        BY <3>2 DEF UserMessages
      <4>2. m.type = 9
        BY <4>1, TypeNumbers DEF UserState
      <4> QED BY <4>2
    <3>3. CASE m \in OtherMessages
      <4>1. m.type # 15
        BY <3>3, TypeNumbers DEF OtherMessages
      <4> QED BY <4>1
    <3> QED BY <3>1, <3>2, <3>3
  <2>3. Package(m, FALSE, Count).message = m
    BY DEF Package
  <2> HIDE DEF Package
  <2> QED BY <2>1, <2>2, <2>3, <1>2, Zenon
<1>5. CASE ServerText
  <2>1. PICK t \in Texts, long \in BOOLEAN :
          sent' = Append(sent,
               Package(TextMessage(t.actor, Absent, t.channelId, t.message),
                       long, Count + 1))
    BY <1>5 DEF ServerText
  <2>2. Package(TextMessage(t.actor, Absent, t.channelId, t.message), long,
                Count + 1).message.type = 11
    BY TypeNumbers DEF Package, TextMessage
  <2> QED BY <2>1, <2>2, <1>2
<1>6. CASE ConnectionEnds
  <2>1. sent' = sent
    BY <1>6, Zenon DEF ConnectionEnds
  <2> QED BY <2>1, Zenon DEF Kept, Keyed
<1> QED BY <1>3, <1>4, <1>5, <1>6 DEF Server

LEMMA ServerKept == IInv /\ Kept /\ Server => Kept'
<1> SUFFICES ASSUME IInv, Kept, Server PROVE Kept'
  OBVIOUS
<1>1. UNCHANGED <<reader, taken, cryptState, BotUserState, announced, exited>>
  BY DEF Server, ServerVersion, ServerMessage, ServerText, ConnectionEnds,
         handlerVars, botVars
<1>2. /\ sent \in Seq(Packages) /\ Len(sent) \in Nat /\ taken \in 0 .. Len(sent)
  BY Books
<1>3. \/ sent' = sent
      \/ \E p : sent' = Append(sent, p)
      \/ Len(sent) = 0
  <2>1. CASE ServerVersion
    <3>1. Len(<<>>) = 0
      OBVIOUS
    <3> QED BY <2>1, <3>1, Zenon DEF ServerVersion
  <2>2. CASE ServerMessage \/ ServerText
    BY <2>2, Zenon DEF ServerMessage, ServerText
  <2>3. CASE ConnectionEnds
    BY <2>3, Zenon DEF ConnectionEnds
  <2> QED BY <2>1, <2>2, <2>3 DEF Server
<1>4. \A i \in 1 .. Len(sent) : sent'[i] = sent[i]
  BY <1>2, <1>3
<1>5. Handled' = Handled /\ \A i \in Handled : sent'[i] = sent[i]
  BY <1>1, <1>2, <1>4 DEF Handled
<1>6. KeptCipher' /\ KeptState' /\ KeptChannel'
  <2>1. CASE Len(sent) = 0
    <3>1. Setups = {} /\ Named = {} /\ Setups' = {} /\ Named' = {}
      BY <2>1, <1>1, <1>2 DEF Setups, Named, HandledOf, Handled
    <3> QED BY <3>1, <1>1
            DEF Kept, KeptCipher, KeptState, KeptChannel, Announced, HasLast
  <2>2. CASE Len(sent) # 0
    <3>1. sent'[1] = sent[1]
      BY <2>2, <1>2, <1>4
    <3>2. ServerMode' = ServerMode
      BY <3>1 DEF ServerMode
    <3>3. announced' \in Announced
      BY <1>1 DEF Kept, KeptChannel
    <3>4. exited' = "panic" \/ exited # "panic"
      BY <1>1
    <3> QED BY <3>2, <3>3, <3>4, <1>1, <1>5, SameHandled
  <2> QED BY <2>1, <2>2
<1> QED BY <1>6, ServerKeyed DEF Kept

\* SetKey takes key and nonces of the package, or panics if it brings none.
LEMMA CipherKept == IInv /\ Kept /\ HandleCryptSetup => KeptCipher'
<1> SUFFICES ASSUME IInv, Kept, HandleCryptSetup, NEW n, n = taken
             PROVE  KeptCipher'
  OBVIOUS
<1> DEFINE mode == IF cryptoMode = Preferred THEN Preferred ELSE "OCB2-AES128"
           m == sent[n].message
<1>1. /\ reader = "handle" /\ reader' = "header" /\ m.type = 15
      /\ sent' = sent /\ taken' = taken
  BY DEF HandleCryptSetup, Handle, serverVars, Current
<1>2. /\ n \in 1 .. Len(sent) /\ Len(sent) \in Nat /\ m \in Messages
  BY <1>1, CurrentMessage DEF Current
<1>3. n > 1 /\ Fits(m.key, ServerMode)
  BY <1>1, <1>2 DEF IInv, Greeted
<1>4. cryptoMode = Preferred <=> ServerMode = Preferred
  BY <1>2, <1>3 DEF IInv, Greeted
<1>5. mode = ServerMode
  BY <1>4 DEF ServerMode, Preferred
<1>6. Setups' = Setups \cup {n}
  BY <1>1, OneMoreHandled DEF Current
<1>7. HasLast(Setups') /\ \A i \in Setups' : IsLastOf(i, Setups') => i = n
  <2>1. Setups \in SUBSET Nat /\ \A i \in Setups : i <= n
    BY <1>1, OneMoreHandled, HandledRange DEF Setups, HandledOf
  <2>2. n \in Nat
    BY <1>2
  <2> HIDE DEF Setups
  <2> QED BY <1>6, <2>1, <2>2, LastAdded
<1>8. ASSUME exited' # "panic" PROVE CipherOf(n)'
  <2> DEFINE c == <<"client", n>>
             s == <<"server", n>>
  <2>1. /\ Get(m.key, NoKey).size = KeySize(mode)
        /\ cryptState' = [mode |-> mode, key |-> Get(m.key, NoKey),
                          EncryptIV |-> Get(m.clientNonce, NoNonce),
                          DecryptIV |-> Get(m.serverNonce, NoNonce)]
    BY <1>8 DEF HandleCryptSetup, Current
  <2>2. m.key # Absent
    BY <2>1 DEF Get, NoKey, KeySize
  <2>3. m.clientNonce = c /\ m.serverNonce = s
    BY <1>1, <1>2, <2>2, Zenon DEF Kept, Keyed
  <2>4. c # Absent /\ s # Absent
    <3>1. n \in 1 .. MaxPackages
      BY <1>2, BoundsAssumption DEF IInv, Log
    <3>2. c \in Nonces /\ s \in Nonces
      BY <3>1, KeysAndNonces
    <3> QED BY <3>2, AbsentValueAssumption
  <2> HIDE DEF c, s, mode
  <2>5. /\ cryptState'.mode = mode /\ cryptState'.key = m.key
        /\ cryptState'.EncryptIV = c /\ cryptState'.DecryptIV = s
    BY <2>1, <2>2, <2>3, <2>4 DEF Get
  <2>6. ServerMode' = ServerMode
    BY <1>1 DEF ServerMode
  <2> QED BY <2>5, <2>6, <1>1, <1>5, Zenon DEF CipherOf, c, s
<1>9. Setups' # {}
  BY <1>6
<1> HIDE DEF Setups
<1> QED BY <1>7, <1>8, <1>9, Zenon DEF KeptCipher

\* What a package that names the bot says of it is kept, and no other is.
LEMMA StateKept == IInv /\ Kept /\ HandleUserState => KeptState' /\ KeptChannel'
<1> SUFFICES ASSUME IInv, Kept, HandleUserState, NEW n, n = taken
             PROVE  KeptState' /\ KeptChannel'
  OBVIOUS
<1> DEFINE m == sent[n].message
<1>1. /\ reader = "handle" /\ reader' = "header" /\ m.type = 9
      /\ sent' = sent /\ taken' = taken /\ announced' = announced
  BY DEF HandleUserState, Handle, serverVars, Current, botVars
<1>2. /\ n \in 1 .. Len(sent) /\ Len(sent) \in Nat /\ m \in Messages
  BY <1>1, CurrentMessage DEF Current
<1>3. Get(m.name, Empty) = BotName <=> m.name = BotName
  BY EmptyIsNone, AbsentValueAssumption DEF Get
<1>4. CASE m.name # BotName
  <2>1. BotUserState' = BotUserState
    BY <1>3, <1>4 DEF HandleUserState, Current
  <2>2. Named' = Named
    BY <1>1, <1>4, OneMoreHandled DEF Current
  <2> QED BY <2>1, <2>2, <1>1, StateStays
<1>5. CASE m.name = BotName
  <2>1. Named' = Named \cup {n}
    BY <1>1, <1>5, OneMoreHandled DEF Current
  <2>2. HasLast(Named') /\ \A i \in Named' : IsLastOf(i, Named') => i = n
    <3>1. Named \in SUBSET Nat /\ \A i \in Named : i <= n
      BY <1>1, OneMoreHandled, HandledRange DEF Named, HandledOf
    <3>2. n \in Nat
      BY <1>2
    <3> HIDE DEF Named
    <3> QED BY <2>1, <3>1, <3>2, LastAdded
  <2>3. BotUserState' = StateOf(n)'
    <3>1. BotUserState' = [Name |-> m.name, Session |-> Get(m.session, 0),
                           ChannelId |-> Get(m.channelId, 0)]
      BY <1>3, <1>5 DEF HandleUserState, Current
    <3>2. m \in [type : {9}, name : {BotName, "other", Absent}, session : Nat,
                 channelId : Channels \cup {0}]
      BY <1>1, <1>2 DEF Messages
    <3> HIDE DEF m
    <3>3. m.session # Absent /\ m.channelId # Absent
      <4>1. m.session \in Nat /\ m.channelId \in Channels \cup {0}
        BY <3>2
      <4>2. Absent \notin Nat
        BY AbsentAssumption
      <4>3. Channels \cup {0} \subseteq Nat
        BY ChannelsAssumption
      <4> QED BY <4>1, <4>2, <4>3, Zenon
    <3> QED BY <3>1, <3>3, <1>1, <1>5 DEF Get, StateOf, m
  <2>4. KeptState'
    <3>1. Named' # {}
      BY <2>1
    <3> HIDE DEF Named
    <3> QED BY <2>2, <2>3, <3>1, Zenon DEF KeptState
  <2>5. KeptChannel'
    <3>1. announced \in Announced
      BY DEF Kept, KeptChannel
    <3> HIDE DEF Named
    <3> QED BY <3>1, <2>1, <1>1 DEF KeptChannel, Announced
  <2> QED BY <2>4, <2>5
<1> QED BY <1>4, <1>5

\* A step of readRoutine.
LEMMA ReaderKept == IInv /\ Kept /\ readRoutine => Kept'
<1> SUFFICES ASSUME IInv, Kept, readRoutine PROVE Kept'
  OBVIOUS
<1>1. /\ sent' = sent /\ announced' = announced /\ exited = "no"
  BY Zenon DEF readRoutine, ReceiveHeader, ReceiveData, ReceiveFails, Handle,
               HandleUnlisted, HandleIgnored, HandleVersion, HandleCryptSetup,
               HandleUserState, HandleTextMessage, serverVars, botVars
<1>2. Keyed'
  BY <1>1, Zenon DEF Kept, Keyed
<1>3. ServerMode' = ServerMode
  BY <1>1, Zenon DEF ServerMode
<1>4. announced' \in Announced
  BY <1>1 DEF Kept, KeptChannel
<1>5. CASE ReceiveHeader \/ ReceiveData \/ ReceiveFails \/ HandleUnlisted
  <2>1. UNCHANGED <<cryptState, BotUserState>>
    BY <1>5, Zenon DEF ReceiveHeader, ReceiveData, ReceiveFails, HandleUnlisted,
                       handlerVars
  <2>2. Handled' = Handled
    <3>1. taken \in Nat
      BY HandledRange
    <3>2. CASE ReceiveData
      BY <3>1, <3>2 DEF ReceiveData, Handled
    <3>3. CASE ReceiveHeader \/ ReceiveFails \/ HandleUnlisted
      BY <3>1, <3>3 DEF ReceiveHeader, ReceiveFails, HandleUnlisted, Handled
    <3> QED BY <1>5, <3>2, <3>3
  <2> QED BY <2>1, <2>2, <1>1, <1>2, <1>3, <1>4, SameHandled DEF Kept
<1>6. CASE HandleIgnored \/ HandleVersion \/ HandleTextMessage
  <2>1. /\ reader = "handle" /\ reader' # "handle" /\ taken' = taken
        /\ Current.type \notin {9, 15}
        /\ UNCHANGED <<cryptState, BotUserState, exited>>
    BY <1>6 DEF HandleIgnored, HandleVersion, HandleTextMessage, Handle, Ignored,
                handlerVars
  <2>2. Setups' = Setups /\ Named' = Named
    BY <2>1, <1>1, OneMoreHandled
  <2> QED BY <2>1, <2>2, <1>1, <1>2, CipherStays, StateStays DEF Kept
<1>7. CASE HandleCryptSetup
  <2>1. /\ reader = "handle" /\ reader' # "handle" /\ taken' = taken
        /\ Current.type = 15 /\ BotUserState' = BotUserState
    BY <1>7 DEF HandleCryptSetup, Handle
  <2>2. Named' = Named
    BY <2>1, <1>1, OneMoreHandled
  <2> QED BY <2>1, <2>2, <1>1, <1>2, <1>7, CipherKept, StateStays DEF Kept
<1>8. CASE HandleUserState
  <2>1. /\ reader = "handle" /\ reader' # "handle" /\ taken' = taken
        /\ Current.type = 9 /\ UNCHANGED <<cryptState, exited>>
    BY <1>8 DEF HandleUserState, Handle
  <2>2. Setups' = Setups
    BY <2>1, <1>1, OneMoreHandled
  <2> QED BY <2>1, <2>2, <1>1, <1>2, <1>8, StateKept, CipherStays DEF Kept
<1> QED BY <1>5, <1>6, <1>7, <1>8 DEF readRoutine

\* A step of eventRoutine: readRoutine goes on when its text message was taken.
LEMMA EventKept == IInv /\ Kept /\ eventRoutine => Kept'
<1> SUFFICES ASSUME IInv, Kept, eventRoutine PROVE Kept'
  OBVIOUS
<1>1. UNCHANGED <<sent, taken, cryptState, BotUserState>>
  BY Zenon DEF eventRoutine, DeliverMessage, DeliverTrackEvent, OnPlay, OnStop,
                OnPrivateMessageReceived, startNextTrack, serverVars,
               handlerVars, botVars
<1>2. Keyed'
  BY <1>1, Zenon DEF Kept, Keyed
<1>3. ServerMode' = ServerMode
  BY <1>1, Zenon DEF ServerMode
<1>4. reader' = reader \/ (reader = "event" /\ reader' = "header")
  <2>1. CASE DeliverMessage
    BY <2>1, Zenon DEF DeliverMessage
  <2>2. CASE eventRoutine /\ ~DeliverMessage
    BY <2>2, Zenon DEF eventRoutine, DeliverTrackEvent, OnPlay, OnStop,
               OnPrivateMessageReceived, startNextTrack
  <2> QED BY <2>1, <2>2
<1>5. Handled' = Handled
  BY <1>1, <1>4 DEF Handled
<1>6. exited' = "panic" \/ exited # "panic"
  BY Zenon DEF eventRoutine, DeliverMessage, DeliverTrackEvent, OnPlay, OnStop,
               OnPrivateMessageReceived, startNextTrack
<1>7. announced' = announced \/ announced' = BotUserState.ChannelId
  BY Zenon DEF eventRoutine, DeliverMessage, DeliverTrackEvent, OnPlay, OnStop,
               OnPrivateMessageReceived, startNextTrack, botVars
<1>8. BotUserState.ChannelId \in Announced
  <2>1. CASE Named = {}
    BY <2>1 DEF Kept, KeptState, Announced
  <2>2. CASE Named # {}
    <3>1. PICK i \in Named : BotUserState = StateOf(i)
      <4> HIDE DEF Named
      <4> QED BY <2>2, Zenon DEF Kept, KeptState, HasLast, IsLastOf
    <3>2. BotUserState.ChannelId = sent[i].message.channelId
      BY <3>1 DEF StateOf
    <3> HIDE DEF Named
    <3> QED BY <3>2 DEF Announced
  <2> QED BY <2>1, <2>2
<1>9. announced' \in Announced
  BY <1>7, <1>8, Zenon DEF Kept, KeptChannel
<1> QED BY <1>1, <1>2, <1>3, <1>5, <1>6, <1>9, SameHandled DEF Kept

\* A step of Begin: nothing was received yet.
LEMMA BeginKept == IInv /\ Kept /\ Begin => Kept'
<1> SUFFICES ASSUME IInv, Kept, Begin PROVE Kept'
  OBVIOUS
<1>1. UNCHANGED <<sent, taken, cryptState, BotUserState, announced>>
  BY Zenon DEF Begin, Dial, SendVersion, SendAuthenticate, BeginWrites,
               StartRoutines, serverVars, handlerVars, botVars
<1>2. Keyed'
  BY <1>1, Zenon DEF Kept, Keyed
<1>3. ServerMode' = ServerMode
  BY <1>1, Zenon DEF ServerMode
<1>4. exited # "panic"
  BY DEF Begin, Dial, SendVersion, SendAuthenticate, BeginWrites, StartRoutines
<1>5. (reader = "handle") <=> (reader' = "handle")
  BY DEF Begin, Dial, SendVersion, SendAuthenticate, BeginWrites, StartRoutines,
         IInv, Places
<1>6. Handled' = Handled
  BY <1>1, <1>5 DEF Handled
<1>7. announced' \in Announced
  BY <1>1 DEF Kept, KeptChannel
<1> QED BY <1>1, <1>2, <1>3, <1>4, <1>6, <1>7, SameHandled DEF Kept

LEMMA StepKept == IInv /\ Kept /\ [Next]_vars => Kept'
<1> SUFFICES ASSUME IInv, Kept, [Next]_vars PROVE Kept'
  OBVIOUS
<1>1. CASE UNCHANGED vars
  <2>1. UNCHANGED <<reader, sent, taken, cryptState, BotUserState, announced,
                    exited>>
    BY <1>1 DEF vars
  <2>2. Keyed' /\ Handled' = Handled /\ ServerMode' = ServerMode
    BY <2>1, Zenon DEF Kept, Keyed, Handled, ServerMode
  <2>3. announced' \in Announced
    BY <2>1 DEF Kept, KeptChannel
  <2>4. exited' = "panic" \/ exited # "panic"
    BY <2>1
  <2> QED BY <2>1, <2>2, <2>3, <2>4, SameHandled DEF Kept
<1> QED BY <1>1, ServerKept, BeginKept, ReaderKept, EventKept DEF Next

LEMMA KeptAlways == Spec => []Kept
<1>1. Init => Kept
  BY InitKept
<1>2. IInv /\ Kept /\ [Next]_vars => Kept'
  BY StepKept
<1> QED BY <1>1, <1>2, Invariance, PTL DEF Spec

\* Whatever the server sends, and in whatever order: both sides use one mode, and
\* the key and the nonces of one package, each for its own direction
\* (packagereader.go:57-81, cryptstate.go SetKey).
THEOREM CiphersAgreeAlways == Spec => []CiphersAgree
<1>1. IInv /\ Kept => CiphersAgree
  BY KeptImplies
<1> QED BY <1>1, Invariance, KeptAlways, PTL

\* What the bot knows of itself is what the last package that named it said, and
\* every channel a track was announced in is one that such a package named
\* (packagereader.go:91, main.go:69).
THEOREM KnowsItsNamedStateAlways == Spec => []KnowsItsNamedState
<1>1. IInv /\ Kept => KnowsItsNamedState
  BY KeptImplies
<1> QED BY <1>1, Invariance, KeptAlways, PTL
-----------------------------------------------------------------------------
(* Whoever is to be answered.                                               *)

IsPrivate(h, i) == h[i].kind = "private"

\* What Due is: nobody at first, and then one more for each private message.
LEMMA DueIs ==
  ASSUME NEW h, Len(h) \in Nat, \A i \in 1 .. Len(h) : h[i].actor \in Nat
  PROVE  /\ Due(h) \in [0 .. Len(h) -> Seq(Nat)]
         /\ Due(h)[0] = <<>>
         /\ \A i \in 1 .. Len(h) :
              Due(h)[i] = IF IsPrivate(h, i)
                          THEN Append(Due(h)[i - 1], h[i].actor)
                          ELSE Due(h)[i - 1]
<1> DEFINE step == [e \in Seq(Nat) \X Nat |->
                      IF e[2] \in 1 .. Len(h) /\ IsPrivate(h, e[2])
                      THEN Append(e[1], h[e[2]].actor) ELSE e[1]]
           none == <<>>
           cut(g) == [i \in 0 .. Len(h) |->
                        IF i = 0 THEN none
                        ELSE IF IsPrivate(h, i)
                             THEN Append(g[i - 1], h[i].actor)
                             ELSE g[i - 1]]
<1>1. step \in [Seq(Nat) \X Nat -> Seq(Nat)]
  <2>1. ASSUME NEW e \in Seq(Nat) \X Nat
        PROVE  (IF e[2] \in 1 .. Len(h) /\ IsPrivate(h, e[2])
                THEN Append(e[1], h[e[2]].actor) ELSE e[1]) \in Seq(Nat)
    <3>1. e[1] \in Seq(Nat)
      OBVIOUS
    <3>2. CASE e[2] \in 1 .. Len(h)
      <4>1. h[e[2]].actor \in Nat
        BY <3>2
      <4> QED BY <3>1, <4>1
    <3> QED BY <3>1, <3>2
  <2> QED BY <2>1
<1>2. none \in Seq(Nat)
  OBVIOUS
<1>3. PICK f : IsRecursion(f, Seq(Nat), none, step, Len(h))
  <2> HIDE DEF step, none
  <2> DEFINE S == Seq(Nat)
  <2>1. step \in [S \X Nat -> S] /\ none \in S
    BY <1>1, <1>2
  <2> HIDE DEF S
  <2>2. \E f : IsRecursion(f, S, none, step, Len(h))
    BY <2>1, Recursion, Zenon
  <2> QED BY <2>2 DEF S
<1>4. /\ f \in [0 .. Len(h) -> Seq(Nat)] /\ f[0] = none
      /\ \A i \in 1 .. Len(h) : f[i] = step[<<f[i - 1], i>>]
  BY <1>3 DEF IsRecursion
<1>5. \A i \in 1 .. Len(h) :
        f[i] = IF IsPrivate(h, i) THEN Append(f[i - 1], h[i].actor)
               ELSE f[i - 1]
  <2> HIDE DEF none
  <2> TAKE i \in 1 .. Len(h)
  <2>1. i \in Nat /\ i - 1 \in 0 .. Len(h)
    OBVIOUS
  <2>2. <<f[i - 1], i>> \in Seq(Nat) \X Nat
    BY <1>4, <2>1
  <2>3. step[<<f[i - 1], i>>] =
          IF IsPrivate(h, i) THEN Append(f[i - 1], h[i].actor) ELSE f[i - 1]
    BY <2>2
  <2> HIDE DEF step
  <2> QED BY <1>4, <2>3
<1>6. f = cut(f)
  <2>1. \A i \in 0 .. Len(h) : i # 0 => i \in 1 .. Len(h)
    OBVIOUS
  <2>2. \A i \in 0 .. Len(h) :
          f[i] = IF i = 0 THEN none
                 ELSE IF IsPrivate(h, i) THEN Append(f[i - 1], h[i].actor)
                 ELSE f[i - 1]
    <3> HIDE DEF none
    <3> QED BY <1>4, <1>5, <2>1
  <2>3. f = [i \in 0 .. Len(h) |-> f[i]]
    BY <1>4
  <2> HIDE DEF none
  <2> QED BY <2>2, <2>3
<1>7. Due(h) = CHOOSE g : g = cut(g)
  BY Zenon DEF Due, IsPrivate
<1>8. Due(h) = cut(Due(h))
  <2> HIDE DEF cut
  <2> QED BY <1>6, <1>7
<1>9. ASSUME NEW g, g = cut(g), NEW i \in 0 .. Len(h)
      PROVE  g[i] = f[i]
  <2> DEFINE T == {n \in Nat : n \in 0 .. Len(h) => g[n] = f[n]}
  <2>1. g[0] = none
    <3>1. 0 \in 0 .. Len(h)
      OBVIOUS
    <3> HIDE DEF none
    <3> QED BY <1>9, <3>1
  <2>2. 0 \in T
    <3> HIDE DEF none
    <3> QED BY <1>4, <2>1
  <2>3. ASSUME NEW n \in Nat, n \in T PROVE n + 1 \in T
    <3> SUFFICES ASSUME n + 1 \in 0 .. Len(h) PROVE g[n + 1] = f[n + 1]
      OBVIOUS
    <3>1. /\ n + 1 \in 1 .. Len(h) /\ n \in 0 .. Len(h) /\ (n + 1) - 1 = n
          /\ n + 1 # 0
      OBVIOUS
    <3>2. g[n] = f[n]
      BY <2>3, <3>1
    <3>3. g[n + 1] = IF IsPrivate(h, n + 1) THEN Append(g[n], h[n + 1].actor)
                     ELSE g[n]
      <4> HIDE DEF none
      <4> QED BY <1>9, <3>1
    <3>4. f[n + 1] = IF IsPrivate(h, n + 1) THEN Append(f[n], h[n + 1].actor)
                     ELSE f[n]
      BY <1>5, <3>1
    <3> QED BY <3>2, <3>3, <3>4
  <2>4. Nat \subseteq T
    <3> HIDE DEF T
    <3> QED BY <2>2, <2>3, Induction
  <2> QED BY <2>4
<1>10. Due(h) = f
  <2>1. DOMAIN Due(h) = 0 .. Len(h) /\ Due(h) = [i \in 0 .. Len(h) |-> Due(h)[i]]
    BY <1>8
  <2>2. \A i \in 0 .. Len(h) : Due(h)[i] = f[i]
    <3> HIDE DEF cut
    <3> QED BY <1>8, <1>9
  <2>3. f = [i \in 0 .. Len(h) |-> f[i]]
    BY <1>4
  <2> QED BY <2>1, <2>2, <2>3
<1> QED BY <1>4, <1>5, <1>10

\* Events that come later do not change who was due before.
LEMMA DueSame ==
  ASSUME NEW h, Len(h) \in Nat, \A i \in 1 .. Len(h) : h[i].actor \in Nat,
         NEW k, Len(k) \in Nat, \A i \in 1 .. Len(k) : k[i].actor \in Nat,
         Len(h) <= Len(k), \A i \in 1 .. Len(h) : k[i] = h[i]
  PROVE  Due(k)[Len(h)] = Due(h)[Len(h)]
<1> DEFINE f == Due(h)
           g == Due(k)
           T == {n \in Nat : n <= Len(h) => f[n] = g[n]}
<1>1. /\ f[0] = <<>> /\ g[0] = <<>>
      /\ \A i \in 1 .. Len(h) :
           /\ f[i] = IF IsPrivate(h, i) THEN Append(f[i - 1], h[i].actor)
                     ELSE f[i - 1]
           /\ g[i] = IF IsPrivate(h, i) THEN Append(g[i - 1], h[i].actor)
                     ELSE g[i - 1]
  <2>1. \A i \in 1 .. Len(h) : i \in 1 .. Len(k) /\ k[i] = h[i]
    OBVIOUS
  <2>2. \A i \in 1 .. Len(h) :
          g[i] = IF IsPrivate(k, i) THEN Append(g[i - 1], k[i].actor)
                 ELSE g[i - 1]
    BY <2>1, DueIs
  <2>3. \A i \in 1 .. Len(h) : IsPrivate(k, i) <=> IsPrivate(h, i)
    BY <2>1, Zenon DEF IsPrivate
  <2> HIDE DEF f, g
  <2>4. f[0] = <<>> /\ g[0] = <<>>
    BY DueIs, Zenon DEF f, g
  <2>5. \A i \in 1 .. Len(h) :
          f[i] = IF IsPrivate(h, i) THEN Append(f[i - 1], h[i].actor)
                 ELSE f[i - 1]
    BY DueIs DEF f
  <2> QED BY <2>1, <2>2, <2>3, <2>4, <2>5
<1> HIDE DEF f, g
<1>2. f[0] = g[0]
  BY <1>1, Zenon
<1>3. 0 \in T
  BY <1>2
<1>4. ASSUME NEW n \in Nat, n \in T PROVE n + 1 \in T
  <2> SUFFICES ASSUME n + 1 <= Len(h) PROVE f[n + 1] = g[n + 1]
    OBVIOUS
  <2>1. n + 1 \in 1 .. Len(h) /\ n <= Len(h) /\ (n + 1) - 1 = n
    OBVIOUS
  <2>2. f[n] = g[n]
    BY <1>4, <2>1
  <2> QED BY <1>1, <2>1, <2>2
<1>5. Nat \subseteq T
  <2> HIDE DEF T
  <2> QED BY <1>3, <1>4, Induction
<1>6. f[Len(h)] = g[Len(h)]
  BY <1>5
<1> QED BY <1>6 DEF f, g

\* How many of the events heard were dealt with.
Settled == IF main = "reply" THEN Len(heard) - 1 ELSE Len(heard)

\* Before the connection is up, too, nobody is due; and the callback that answers
\* was given a private message.
Answered ==
  /\ open \/ main = "dial" => replies = Due(heard)[Settled]
  /\ main = "reply" => IsPrivate(heard, Len(heard))

LEMMA AnsweredImplies == Answered => AnswersEveryone
BY Zenon DEF Answered, AnswersEveryone, Settled

LEMMA InitAnswered == Init => Answered
<1> SUFFICES ASSUME Init PROVE Answered
  OBVIOUS
<1>1. heard = <<>> /\ replies = <<>> /\ main = "dial"
  BY Zenon DEF Init
<1>2. Len(<<>>) = 0
  OBVIOUS
<1>3. Len(heard) = 0
  BY <1>1, <1>2, Zenon
<1>4. Due(heard)[0] = <<>>
  <2>1. Len(heard) \in Nat /\ \A i \in 1 .. Len(heard) : heard[i].actor \in Nat
    BY <1>3
  <2> QED BY <2>1, DueIs, Zenon
<1>5. main # "reply"
  BY <1>1
<1>6. Settled = 0
  BY <1>3, <1>5 DEF Settled
<1> QED BY <1>1, <1>4, <1>5, <1>6, Zenon DEF Answered

\* What type correctness says of the events heard.
LEMMA HeardActors ==
  ASSUME IInv
  PROVE  /\ heard \in Seq({Event[t] : t \in Texts}) /\ Len(heard) \in Nat
         /\ \A i \in 1 .. Len(heard) : heard[i].actor \in Nat
<1> DEFINE Events == {Event[t] : t \in Texts}
<1>1. heard \in Seq(Events)
  BY Zenon DEF IInv, Answers
<1>2. \A e \in Events : e.actor \in Nat
  BY EventFields
<1> HIDE DEF Events
<1>3. Len(heard) \in Nat /\ \A i \in 1 .. Len(heard) : heard[i].actor \in Nat
  BY <1>1, <1>2
<1> QED BY <1>1, <1>3 DEF Events

\* A step that gives nothing to a callback and answers nobody.
LEMMA AnsweredStays ==
  ASSUME Answered, UNCHANGED <<heard, replies>>,
         main' = "reply" <=> main = "reply",
         open' \/ main' = "dial" => open \/ main = "dial"
  PROVE  Answered'
<1>1. Settled' = Settled
  BY DEF Settled
<1>2. Due(heard)' = Due(heard)
  OBVIOUS
<1>3. IsPrivate(heard, Len(heard))' <=> IsPrivate(heard, Len(heard))
  BY Zenon DEF IsPrivate
<1> QED BY <1>1, <1>2, <1>3 DEF Answered

\* A callback is given the next text.
LEMMA DeliverAnswered == IInv /\ Answered /\ DeliverMessage => Answered'
<1> SUFFICES ASSUME IInv, Answered, DeliverMessage,
                    NEW e, e = Event[MessageOf(Current)], NEW n, n = Len(heard)
             PROVE  Answered'
  OBVIOUS
<1>1. /\ main = "idle" /\ reader = "event" /\ heard' = Append(heard, e)
      /\ main' = IF e.kind = "private" THEN "reply"
                 ELSE IF e.message = "other" THEN "idle" ELSE e.message
      /\ UNCHANGED <<open, replies>>
  BY DEF DeliverMessage, serverVars
<1>2. e \in {Event[t] : t \in Texts}
  BY <1>1, NextText
<1>3. e.actor \in Nat /\ e.message \in {"#play", "#stop", "other"}
  BY <1>2, EventFields
<1>4. /\ n \in Nat /\ heard \in Seq({Event[t] : t \in Texts})
      /\ \A i \in 1 .. n : heard[i].actor \in Nat
  BY HeardActors
<1>5. /\ Len(heard') = n + 1 /\ heard'[n + 1] = e
      /\ \A i \in 1 .. n : heard'[i] = heard[i]
  <2> DEFINE Events == {Event[t] : t \in Texts}
  <2> HIDE DEF Events
  <2>1. heard \in Seq(Events) /\ e \in Events
    BY <1>2, <1>4 DEF Events
  <2> QED BY <2>1, <1>1
<1>6. \A i \in 1 .. n + 1 : heard'[i].actor \in Nat
  BY <1>3, <1>4, <1>5
<1>7. Due(heard')[n] = Due(heard)[n]
  <2> DEFINE h == heard
             k == heard'
  <2>1. /\ Len(h) = n /\ Len(h) \in Nat /\ Len(k) \in Nat /\ Len(h) <= Len(k)
        /\ \A i \in 1 .. Len(h) : h[i].actor \in Nat /\ k[i] = h[i]
        /\ \A i \in 1 .. Len(k) : k[i].actor \in Nat
    BY <1>4, <1>5, <1>6
  <2> HIDE DEF h, k
  <2>2. Due(k)[Len(h)] = Due(h)[Len(h)]
    BY <2>1, DueSame
  <2> QED BY <2>1, <2>2 DEF h, k
<1>8. Due(heard')[n + 1] = IF IsPrivate(heard', n + 1)
                           THEN Append(Due(heard')[(n + 1) - 1],
                                       heard'[n + 1].actor)
                           ELSE Due(heard')[(n + 1) - 1]
  BY <1>4, <1>5, <1>6, DueIs
<1>9. IsPrivate(heard', n + 1) <=> e.kind = "private"
  BY <1>5, Zenon DEF IsPrivate
<1>10. (n + 1) - 1 = n
  BY <1>4
<1>11. open => replies = Due(heard)[n]
  BY <1>1 DEF Answered, Settled
<1>12. CASE e.kind = "private"
  <2>1. main' = "reply"
    BY <1>1, <1>12
  <2>2. Settled' = n
    BY <2>1, <1>5, <1>10 DEF Settled
  <2> QED BY <2>1, <2>2, <1>1, <1>5, <1>7, <1>9, <1>11, <1>12 DEF Answered
<1>13. CASE e.kind # "private"
  <2>1. main' # "reply" /\ main' # "dial"
    BY <1>1, <1>3, <1>13
  <2>2. Settled' = n + 1
    BY <2>1, <1>5 DEF Settled
  <2>3. Due(heard')[n + 1] = Due(heard)[n]
    BY <1>7, <1>8, <1>9, <1>10, <1>13
  <2> QED BY <2>1, <2>2, <2>3, <1>1, <1>11 DEF Answered
<1> QED BY <1>12, <1>13

\* A callback answers the message it was given last.
LEMMA ReplyAnswered == IInv /\ Answered /\ OnPrivateMessageReceived => Answered'
<1> SUFFICES ASSUME IInv, Answered, OnPrivateMessageReceived,
                    NEW n, n = Len(heard)
             PROVE  Answered'
  OBVIOUS
<1>1. /\ main = "reply" /\ main' = "idle" /\ UNCHANGED <<open, heard>>
      /\ replies' = Append(replies, heard[n].actor) \/ ~open
  BY DEF OnPrivateMessageReceived, serverVars
<1>2. n \in Nat /\ n > 0 /\ \A i \in 1 .. n : heard[i].actor \in Nat
  BY <1>1, HeardActors DEF IInv, Places
<1>3. n \in 1 .. n
  BY <1>2
<1>4. Due(heard)[n] = IF IsPrivate(heard, n)
                      THEN Append(Due(heard)[n - 1], heard[n].actor)
                      ELSE Due(heard)[n - 1]
  BY <1>2, <1>3, DueIs
<1>5. IsPrivate(heard, n) /\ (open => replies = Due(heard)[n - 1])
  BY <1>1 DEF Answered, Settled
<1>6. open => replies' = Due(heard)[n]
  BY <1>1, <1>4, <1>5
<1>7. Settled' = n /\ main' # "reply" /\ main' # "dial"
  BY <1>1 DEF Settled
<1> QED BY <1>1, <1>6, <1>7 DEF Answered

LEMMA StepAnswered == IInv /\ Answered /\ [Next]_vars => Answered'
<1> SUFFICES ASSUME IInv, Answered, [Next]_vars PROVE Answered'
  OBVIOUS
<1>1. CASE UNCHANGED vars
  BY <1>1, AnsweredStays DEF vars
<1>2. CASE Server
  <2>1. UNCHANGED <<main, heard, replies>>
    BY <1>2, Zenon DEF Server, ServerVersion, ServerMessage, ServerText,
                       ConnectionEnds, botVars
  <2>2. open
    BY <1>2 DEF Server, ServerVersion, ServerMessage, ServerText, CanSend,
                ConnectionEnds
  <2> QED BY <2>1, <2>2, AnsweredStays
<1>3. CASE Begin
  <2>1. UNCHANGED <<heard, replies>>
    BY <1>3, Zenon DEF Begin, Dial, SendVersion, SendAuthenticate, BeginWrites,
                       StartRoutines, botVars
  <2>2. main' # "reply" /\ main # "reply"
    BY <1>3 DEF Begin, Dial, SendVersion, SendAuthenticate, BeginWrites,
                StartRoutines
  <2>3. open' \/ main' = "dial" => open \/ main = "dial"
    BY <1>3 DEF Begin, Dial, SendVersion, SendAuthenticate, BeginWrites,
                StartRoutines, serverVars
  <2> QED BY <2>1, <2>2, <2>3, AnsweredStays
<1>4. CASE readRoutine
  <2>1. UNCHANGED <<main, open, heard, replies>>
    BY <1>4, Zenon
       DEF readRoutine, ReceiveHeader, ReceiveData, ReceiveFails, Handle,
           HandleUnlisted, HandleIgnored, HandleVersion, HandleCryptSetup,
           HandleUserState, HandleTextMessage, serverVars, botVars
  <2> QED BY <2>1, AnsweredStays
<1>5. CASE eventRoutine
  <2>1. CASE DeliverTrackEvent \/ OnPlay \/ OnStop \/ startNextTrack
    <3>1. UNCHANGED <<open, heard, replies>>
      BY <2>1, Zenon DEF DeliverTrackEvent, OnPlay, OnStop, startNextTrack,
                         botVars, serverVars
    <3>2. main \notin {"reply", "dial"} /\ main' \notin {"reply", "dial"}
      BY <2>1 DEF DeliverTrackEvent, OnPlay, OnStop, startNextTrack
    <3> QED BY <3>1, <3>2, AnsweredStays
  <2> QED BY <2>1, <1>5, DeliverAnswered, ReplyAnswered DEF eventRoutine
<1> QED BY <1>1, <1>2, <1>3, <1>4, <1>5 DEF Next

\* Whatever comes between, and however many there are: while the connection
\* holds, the users that wrote privately are answered once for each message, in
\* their order (main.go:25, packagereader.go:111-130).
THEOREM AnswersEveryoneAlways == Spec => []AnswersEveryone
<1>1. Init => Answered
  BY InitAnswered
<1>2. IInv /\ Answered /\ [Next]_vars => Answered'
  BY StepAnswered
<1>3. Answered => AnswersEveryone
  BY AnsweredImplies
<1> QED BY <1>1, <1>2, <1>3, Invariance, PTL DEF Spec
=============================================================================
