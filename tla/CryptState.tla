----------------------------- MODULE CryptState -----------------------------
(***************************************************************************)
(* The receiving half of cryptstate/cryptstate.go: CryptState.Decrypt on a  *)
(* network that loses, repeats and reorders datagrams, against a sender     *)
(* that runs CryptState.Encrypt.                                            *)
(*                                                                         *)
(* A datagram is the number of the nonce it was encrypted under; of that    *)
(* only the lowest byte travels with it.  Decrypt guesses the nonce from    *)
(* that byte, and the cipher's tag is right exactly when the guess is.      *)
(* Nonces are numbers below Base ^ Width; the module Nonce relates them to  *)
(* the loops over bytes.                                                    *)
(***************************************************************************)
EXTENDS Nonce, Integers, FiniteSets

CONSTANTS
  LateWindow,  \* how far back a late packet may be (30 in the code)
  StartIVs,    \* nonces a CryptSetup of the server may start from
  MaxSent,     \* bound: datagrams sent under one key
  MaxKeys      \* bound: how often the server sets a key

ASSUME LateWindowAssumption == LateWindow \in 1 .. Base \div 2
ASSUME StartIVsAssumption == StartIVs \subseteq Nat /\ StartIVs # {}
ASSUME MaxSentAssumption == MaxSent \in Nat
ASSUME MaxKeysAssumption == MaxKeys \in Nat

\* What Decrypt makes of the nonce n for a late byte of the last round.
Borrowed(n, b) == Value(CountDown([NonceOf(n) EXCEPT ![0] = b], 1))

\* A borrow that stops at the wrong byte may raise the nonce, but by more than
\* the datagrams the network can hold.
ASSUME BorrowAssumption ==
  \A s \in StartIVs : \A n \in s .. s + MaxSent : \A b \in Digits :
    b > n % Base => Borrowed(n, b) \notin n .. s + MaxSent

VARIABLES
  key,             \* how many keys were set before the current one
  startIV,         \* the nonce the current key started from
  encryptIV,       \* EncryptIV of the sender
  decryptIV,       \* DecryptIV of the receiver
  decryptHistory,  \* decryptHistory of the receiver
  accepted,        \* the <<key, nonce>> for which Decrypt returned nil
  Good, Late, Lost \* the counters of the receiver

ivVars == <<key, startIV, encryptIV>>
counters == <<Good, Late, Lost>>
vars == <<key, startIV, encryptIV, decryptIV, decryptHistory, accepted, Good,
          Late, Lost>>

TypeOK ==
  /\ key \in Nat
  /\ startIV \in Nat
  /\ encryptIV \in Nat
  /\ decryptIV \in Nat
  /\ decryptHistory \in [Digits -> Digits]
  /\ accepted \subseteq Nat \X Nat
  /\ Good \in Nat /\ Late \in Nat /\ Lost \in Nat

Init ==
  /\ key = 0
  /\ startIV \in StartIVs
  /\ encryptIV = startIV
  /\ decryptIV = startIV
  /\ decryptHistory = [b \in Digits |-> 0]
  /\ accepted = {}
  /\ Good = 0 /\ Late = 0 /\ Lost = 0

\* A new key from the server; the history of the old one stays.
SetKey ==
  /\ key < MaxKeys
  /\ key' = key + 1
  /\ startIV' \in StartIVs
  /\ encryptIV' = startIV'
  /\ decryptIV' = startIV'
  /\ UNCHANGED <<decryptHistory, accepted, counters>>

\* The sender's Encrypt: count the nonce up, then use it.
Encrypt ==
  /\ encryptIV < startIV + MaxSent
  /\ encryptIV' = encryptIV + 1
  /\ UNCHANGED <<key, startIV, decryptIV, decryptHistory, accepted, counters>>

-----------------------------------------------------------------------------
(* Decrypt, for a datagram whose first byte is b.                           *)

Low == decryptIV % Base

\* byte(cs.DecryptIV[0]+1) == ivbyte
InOrder(b) == b = IF Low = Base - 1 THEN 0 ELSE Low + 1

\* Mutant of Diff: not brought into the range around 0.
DiffUnwrapped(b) == b - Low

\* The difference of two bytes, brought into the range around 0.
Diff(b) ==
  LET d == IF b >= Low THEN b - Low ELSE b - Low + Base
  IN  IF d > Base \div 2 THEN d - Base ELSE d

IsLate(b) == ~InOrder(b) /\ - LateWindow < Diff(b) /\ Diff(b) < 0
IsAhead(b) == ~InOrder(b) /\ Diff(b) > 0

\* DecryptIV[0] = ivbyte, with a carry into the bytes above when it wrapped.
NonceAhead(b) == decryptIV - Low + b + (IF b < Low THEN Base ELSE 0)

\* DecryptIV[0] = ivbyte, with a borrow when it comes from the last round.
NonceBehind(b) ==
  IF b < Low THEN decryptIV - Low + b ELSE Borrowed(decryptIV, b)

\* Mutant of HistoryChecked: replays are not looked for.
HistoryIgnored(b, nonce) == nonce

\* A byte in the history puts the nonce back to what it was, and Decrypt goes
\* on.
HistoryChecked(b, nonce) == IF decryptHistory[b] = b THEN decryptIV ELSE nonce

\* The nonce n is what Decrypt tries for a datagram whose first byte is b.
Tries(b, n) ==
  \/ InOrder(b) /\ n = NonceAhead(b)
  \/ IsLate(b) /\ n = HistoryChecked(b, NonceBehind(b))
  \/ IsAhead(b) /\ n = HistoryChecked(b, NonceAhead(b))

\* Decrypt returns nil for the datagram with nonce p: the tag is that of p.
Accepts(p) == Tries(p % Base, p)

\* Mutant of Decrypt: a late packet does not restore the newer nonce.
DecryptUnrestored(p) ==
  LET b == p % Base IN
  /\ Accepts(p)
  /\ decryptIV' = p
  /\ decryptHistory' = [decryptHistory EXCEPT ![b] = b]
  /\ accepted' = accepted \cup {<<key, p>>}
  /\ Good' = Good + 1
  /\ UNCHANGED <<ivVars, Late, Lost>>

\* Mutant of Decrypt: the sign of lost is not turned for a late packet.
DecryptLostSigned(p) ==
  LET b == p % Base IN
  /\ Accepts(p)
  /\ decryptIV' = IF IsLate(b) THEN decryptIV ELSE p
  /\ decryptHistory' = [decryptHistory EXCEPT ![b] = b]
  /\ accepted' = accepted \cup {<<key, p>>}
  /\ Good' = Good + 1
  /\ Late' = IF IsLate(b) THEN Late + 1 ELSE Late
  /\ Lost' = p - decryptIV - 1
  /\ UNCHANGED ivVars

\* Decrypt of a datagram that it accepts.  One that it does not accept leaves
\* everything as it was.
Decrypt(p) ==
  LET b == p % Base IN
  /\ Accepts(p)
  /\ decryptIV' = IF IsLate(b) THEN decryptIV ELSE p
  /\ decryptHistory' = [decryptHistory EXCEPT ![b] = b]
  /\ accepted' = accepted \cup {<<key, p>>}
  /\ Good' = Good + 1
  /\ Late' = IF IsLate(b) THEN Late + 1 ELSE Late
  /\ Lost' = IF IsLate(b) THEN 1 ELSE p - decryptIV - 1
  /\ UNCHANGED ivVars

\* The network holds every datagram sent, and delivers any of them any number
\* of times; one sent under an older key is never accepted.
Deliver == \E p \in startIV + 1 .. encryptIV : Decrypt(p)

Next == SetKey \/ Encrypt \/ Deliver

Spec == Init /\ [][Next]_vars

-----------------------------------------------------------------------------
(* Properties                                                               *)

\* No datagram is accepted twice, however often the network repeats it: Good
\* counts datagrams, not deliveries (cryptstate.go:199-216).
NoReplay == Good = Cardinality(accepted)

\* The receiver's nonce is that of the newest datagram it accepted under the
\* key, neither ahead of it after a failure nor behind it after a late one,
\* which the saved nonce is for (cryptstate.go:135-136, 205-214).
TracksNewest ==
  LET current == {n \in startIV .. encryptIV : <<key, n>> \in accepted}
  IN  /\ decryptIV \in current \cup {startIV}
      /\ \A n \in current : n <= decryptIV

\* A datagram is accepted at its first arrival, whatever was lost, repeated or
\* late before: the direct successor of the newest one always, another when its
\* byte is not in the history and it is at most half a round ahead, or late
\* within the window and of the same round (cryptstate.go:138-197).
FreshAccepted ==
  \A p \in startIV + 1 .. encryptIV :
    \/ p = decryptIV + 1
    \/ /\ decryptHistory[p % Base] # p % Base
       /\ \/ p > decryptIV /\ p <= decryptIV + Base \div 2
          \/ /\ p < decryptIV /\ p > decryptIV - LateWindow
             /\ p \div Base = decryptIV \div Base
    => Accepts(p)

\* The two loops count nonces up by one through all their bytes: Encrypt's from
\* the lowest byte on, Decrypt's carry after it set the lowest byte to 0, so
\* that both sides agree after a wrap-around (cryptstate.go:144-149, 235-240).
LoopsAgree ==
  /\ CountUp(NonceOf(encryptIV), 0) = NonceOf(encryptIV + 1)
  /\ Low = Base - 1 =>
       CountUp([NonceOf(decryptIV) EXCEPT ![0] = 0], 1)
         = NonceOf(decryptIV + 1)

-----------------------------------------------------------------------------
(* What comments of the code say, and the code does not do.                 *)

\* "Lost a few packets, but beyond that we're good." (cryptstate.go:182): a new
\* datagram that follows a gap in the same round is accepted.
AfterLossAccepted ==
  \A p \in decryptIV + 2 .. encryptIV :
    p <= decryptIV + Base \div 2 /\ p \div Base = decryptIV \div Base
      => Accepts(p)
=============================================================================
