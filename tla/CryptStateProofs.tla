-------------------------- MODULE CryptStateProofs --------------------------
(* Proofs about CryptState, for every value of its constants. *)
EXTENDS CryptState, WellFoundedInduction, FiniteSetTheorems, TLAPS

-----------------------------------------------------------------------------
(* Natural numbers: quotients and remainders, induction and recursion.      *)

LEMMA DivMod ==
  ASSUME NEW b \in Nat, b >= 1, NEW n \in Nat
  PROVE  /\ n \div b \in Nat
         /\ n % b \in 0 .. b - 1
         /\ n = b * (n \div b) + (n % b)
  OBVIOUS

LEMMA DivModUnique ==
  ASSUME NEW b \in Nat, b >= 1, NEW q \in Nat, NEW r \in 0 .. b - 1
  PROVE  /\ (b * q + r) \div b = q
         /\ (b * q + r) % b = r
  OBVIOUS

\* The last digit of a sum, when at most one digit is added.
LEMMA ModAdd ==
  ASSUME NEW b \in Nat, b >= 1, NEW n \in Nat, NEW k \in 0 .. b - 1
  PROVE  (n + k) % b = IF (n % b) + k < b THEN (n % b) + k ELSE (n % b) + k - b
<1>1. PICK q \in Nat, r \in 0 .. b - 1 : r = n % b /\ n = b * q + r
  BY DivMod
<1>2. b * (q + 1) = b * q + b
  BY <1>1
<1>3. CASE r + k < b
  <2>1. n + k = b * q + (r + k) /\ r + k \in 0 .. b - 1
    BY <1>1, <1>3
  <2>2. (b * q + (r + k)) % b = r + k
    BY <1>1, <2>1, DivModUnique
  <2> QED BY <1>3, <2>1, <2>2
<1>4. CASE ~(r + k < b)
  <2>1. PICK d \in 0 .. b - 1 : d = r + k - b
    BY <1>4
  <2>2. PICK u \in Nat : u = q + 1
    OBVIOUS
  <2>3. b * u \in Nat /\ n + k = b * u + d
    BY <1>1, <1>2, <2>1, <2>2
  <2>4. (b * u + d) % b = d
    BY DivModUnique
  <2> QED BY <1>1, <1>4, <2>1, <2>3, <2>4
<1> QED BY <1>1, <1>3, <1>4

\* Every set of natural numbers that is not empty has a least one.
LEMMA LeastNumber ==
  ASSUME NEW T \in SUBSET Nat, T # {}
  PROVE  \E n \in T : \A m \in T : n <= m
<1> DEFINE R == {p \in Nat \X Nat : p[1] < p[2]}
<1>1. R = OpToRel(<, Nat)
  BY DEF OpToRel
<1>2. IsWellFoundedOn(R, Nat)
  BY <1>1, NatLessThanWellFounded, Zenon
<1>3. \E x \in T : \A y \in T : ~ (<<y, x>> \in R)
  <2> HIDE DEF R
  <2> QED BY <1>2, WFMin, Zenon
<1>4. PICK n \in T : \A m \in T : ~ (<<m, n>> \in R)
  BY <1>3
<1>5. ASSUME NEW m \in T PROVE n <= m
  <2>1. n \in Nat /\ m \in Nat
    OBVIOUS
  <2>2. m < n => <<m, n>> \in R
    BY <2>1
  <2> QED BY <1>4, <2>1, <2>2
<1> QED BY <1>5

\* Induction: a set that holds 0 and with every number its successor holds all
\* natural numbers.
LEMMA Induction ==
  ASSUME NEW S,
         0 \in S,
         \A n \in Nat : n \in S => n + 1 \in S
  PROVE  Nat \subseteq S
<1> DEFINE T == Nat \ S
<1>1. SUFFICES ASSUME T # {} PROVE FALSE
  OBVIOUS
<1>2. PICK n \in T : \A m \in T : n <= m
  BY <1>1, LeastNumber
<1>3. n \in Nat /\ n # 0 /\ n - 1 \in Nat /\ ~ (n <= n - 1) /\ (n - 1) + 1 = n
  BY <1>2
<1>4. n - 1 \in S
  BY <1>2, <1>3
<1> QED BY <1>2, <1>3, <1>4

\* f is given up to k by a first value and a function that makes the i-th value
\* from the one before it.
IsRecursion(f, S, s, rule, k) ==
  /\ f \in [0 .. k -> S]
  /\ f[0] = s
  /\ \A i \in 1 .. k : f[i] = rule[<<f[i - 1], i>>]

\* Such a function exists.
LEMMA Recursion ==
  ASSUME NEW S, NEW s \in S, NEW rule \in [S \X Nat -> S], NEW k \in Nat
  PROVE  \E f : IsRecursion(f, S, s, rule, k)
<1> DEFINE T == {n \in Nat : \E f : IsRecursion(f, S, s, rule, n)}
<1>1. 0 \in T
  <2>1. IsRecursion([i \in 0 .. 0 |-> s], S, s, rule, 0)
    BY DEF IsRecursion
  <2> QED BY <2>1
<1>2. ASSUME NEW n \in Nat, n \in T PROVE n + 1 \in T
  <2>1. PICK f : IsRecursion(f, S, s, rule, n)
    BY <1>2
  <2>2. /\ f \in [0 .. n -> S] /\ f[0] = s
        /\ \A i \in 1 .. n : f[i] = rule[<<f[i - 1], i>>]
    BY <2>1 DEF IsRecursion
  <2> DEFINE v == rule[<<f[n], n + 1>>]
             g == [i \in 0 .. n + 1 |-> IF i = n + 1 THEN v ELSE f[i]]
  <2>3. v \in S
    BY <2>2
  <2>4. g \in [0 .. n + 1 -> S] /\ g[0] = s
    BY <2>2, <2>3
  <2>5. ASSUME NEW i \in 1 .. n + 1 PROVE g[i] = rule[<<g[i - 1], i>>]
    <3>1. CASE i = n + 1
      <4>1. g[i] = v /\ g[i - 1] = f[n]
        BY <3>1
      <4> QED BY <3>1, <4>1
    <3>2. CASE i # n + 1
      <4>1. i \in 1 .. n /\ g[i] = f[i] /\ g[i - 1] = f[i - 1]
        BY <3>2
      <4> QED BY <2>2, <4>1
    <3> QED BY <3>1, <3>2
  <2>6. IsRecursion(g, S, s, rule, n + 1)
    <3> HIDE DEF g
    <3> QED BY <2>4, <2>5 DEF IsRecursion
  <2> HIDE DEF g
  <2> QED BY <2>6
<1>3. Nat \subseteq T
  <2> HIDE DEF T
  <2> QED BY <1>1, <1>2, Induction
<1> QED BY <1>3

-----------------------------------------------------------------------------
\* Why no replay gets through: what was accepted under the key is in the
\* history, and only nonces above all of it are tried without a look at the
\* history.
KeyInv ==
  /\ startIV \in StartIVs
  /\ startIV <= decryptIV
  /\ decryptIV <= encryptIV
  /\ encryptIV <= startIV + MaxSent
  /\ decryptIV = startIV \/ <<key, decryptIV>> \in accepted
  /\ \A e \in accepted : e[1] <= key

HistoryInv ==
  \A n \in Nat :
    <<key, n>> \in accepted =>
      /\ n <= decryptIV
      /\ decryptHistory[n % Base] = n % Base

GoodInv ==
  /\ IsFiniteSet(accepted)
  /\ Good = Cardinality(accepted)

IInv == TypeOK /\ KeyInv /\ HistoryInv /\ GoodInv

-----------------------------------------------------------------------------
\* The lowest byte of a nonce is a byte.
LEMMA LowByte ==
  ASSUME NEW n \in Nat
  PROVE  /\ n % Base \in Digits
         /\ n % Base \in Nat
         /\ n % Base < Base
         /\ Base \in Nat
  BY BaseAssumption DEF Digits

\* What a datagram that Decrypt accepts is: a nonce above the newest one, or a
\* late one below it whose byte is not in the history.
LEMMA AcceptedIs ==
  ASSUME IInv, NEW p \in startIV + 1 .. encryptIV, Accepts(p)
  PROVE  /\ p \in Nat
         /\ IsLate(p % Base) => /\ p < decryptIV
                                /\ decryptHistory[p % Base] # p % Base
         /\ ~IsLate(p % Base) => p > decryptIV
<1> DEFINE b == p % Base
<1>1. p \in Nat /\ b \in Digits /\ b \in Nat /\ b < Base /\ Base \in Nat
  BY LowByte DEF IInv, TypeOK
<1>2. /\ decryptIV \in Nat /\ startIV \in StartIVs /\ encryptIV \in Nat
      /\ startIV \in Nat /\ decryptIV \in startIV .. startIV + MaxSent
      /\ encryptIV \in Nat /\ encryptIV <= startIV + MaxSent
      /\ MaxSent \in Nat /\ LateWindow \in Nat
  BY MaxSentAssumption, LateWindowAssumption, BaseAssumption
  DEF IInv, TypeOK, KeyInv
<1>3. Low \in Digits /\ Low \in Nat /\ Low < Base /\ Low = decryptIV % Base
  BY <1>2, LowByte DEF Low
<1>4. ASSUME b = Low PROVE FALSE
  <2>1. ~InOrder(b)
    BY <1>1, <1>3, <1>4, BaseAssumption DEF InOrder
  <2>2. Diff(b) = 0
    BY <1>1, <1>3, <1>4, BaseAssumption DEF Diff
  <2>3. ~Tries(b, p)
    BY <2>1, <2>2 DEF Tries, IsLate, IsAhead
  <2> QED BY <2>3 DEF Accepts
<1>5. p # decryptIV
  BY <1>3, <1>4
<1>6. InOrder(b) \/ IsAhead(b) => NonceAhead(b) > decryptIV
  <2>1. CASE InOrder(b)
    BY <1>1, <1>2, <1>3, <2>1, BaseAssumption DEF InOrder, NonceAhead
  <2>2. CASE IsAhead(b)
    <3>1. b # Low
      BY <1>4
    <3> QED BY <1>1, <1>2, <1>3, <3>1, BaseAssumption DEF NonceAhead
  <2> QED BY <2>1, <2>2
<1>7. CASE IsLate(b)
  <2>1. ~InOrder(b) /\ ~IsAhead(b)
    BY <1>1, <1>2, <1>3, <1>7, BaseAssumption DEF IsLate, IsAhead, Diff
  <2>2. p = HistoryChecked(b, NonceBehind(b))
    BY <2>1 DEF Accepts, Tries
  <2>3. decryptHistory[b] # b /\ p = NonceBehind(b)
    BY <2>2, <1>5 DEF HistoryChecked
  <2>4. CASE b < Low
    <3>1. p = decryptIV - Low + b
      BY <2>3, <2>4 DEF NonceBehind
    <3> QED BY <1>1, <1>2, <1>3, <1>7, <2>3, <2>4, <3>1
  <2>5. CASE ~(b < Low)
    <3>1. b > decryptIV % Base
      BY <1>1, <1>3, <1>4, <2>5
    <3>2. p = Borrowed(decryptIV, b)
      BY <2>3, <2>5 DEF NonceBehind
    <3>3. p \notin decryptIV .. startIV + MaxSent
      BY <1>1, <1>2, <3>1, <3>2, BorrowAssumption
    <3> QED BY <1>1, <1>2, <1>7, <2>3, <3>3
  <2> QED BY <1>1, <1>7, <2>3, <2>4, <2>5
<1>8. CASE ~IsLate(b)
  <2>1. \/ InOrder(b) /\ p = NonceAhead(b)
        \/ IsAhead(b) /\ p = HistoryChecked(b, NonceAhead(b))
    BY <1>8 DEF Accepts, Tries
  <2>2. p = NonceAhead(b)
    BY <2>1, <1>5 DEF HistoryChecked
  <2> QED BY <1>1, <1>6, <1>8, <2>1, <2>2
<1> QED BY <1>7, <1>8

-----------------------------------------------------------------------------
LEMMA InitIInv == Init => IInv
<1> SUFFICES ASSUME Init PROVE IInv
  OBVIOUS
<1>1. TypeOK
  BY StartIVsAssumption, BaseAssumption DEF Init, TypeOK, Digits
<1>2. KeyInv
  BY StartIVsAssumption, MaxSentAssumption DEF Init, KeyInv
<1>3. HistoryInv
  BY DEF Init, HistoryInv
<1>4. GoodInv
  BY FS_EmptySet DEF Init, GoodInv
<1> QED BY <1>1, <1>2, <1>3, <1>4 DEF IInv

\* A new key: nothing was accepted under it yet.
LEMMA SetKeyIInv == IInv /\ SetKey => IInv'
<1> SUFFICES ASSUME IInv, SetKey PROVE IInv'
  OBVIOUS
<1>1. TypeOK'
  BY StartIVsAssumption DEF IInv, TypeOK, SetKey, counters
<1>2. KeyInv'
  <2>1. PICK s \in StartIVs : startIV' = s
    BY DEF SetKey
  <2>2. encryptIV' = s /\ decryptIV' = s /\ s \in Nat
    BY <2>1, StartIVsAssumption DEF SetKey
  <2>3. \A e \in accepted' : e[1] <= key'
    <3>1. \A e \in accepted : e[1] \in Nat /\ e[1] <= key
      BY DEF IInv, TypeOK, KeyInv
    <3>2. key \in Nat /\ key' = key + 1 /\ accepted' = accepted
      BY DEF IInv, TypeOK, SetKey
    <3> QED BY <3>1, <3>2
  <2>4. s <= s + MaxSent /\ s <= s
    BY <2>2, MaxSentAssumption
  <2> QED BY <2>1, <2>2, <2>3, <2>4 DEF KeyInv
<1>3. HistoryInv'
  <2>1. \A n \in Nat : <<key', n>> \notin accepted'
    BY DEF IInv, TypeOK, KeyInv, SetKey
  <2> QED BY <2>1 DEF HistoryInv
<1>4. GoodInv'
  BY DEF IInv, GoodInv, SetKey, counters
<1> QED BY <1>1, <1>2, <1>3, <1>4 DEF IInv

LEMMA EncryptIInv == IInv /\ Encrypt => IInv'
<1> SUFFICES ASSUME IInv, Encrypt PROVE IInv'
  OBVIOUS
<1>1. TypeOK'
  BY DEF IInv, TypeOK, Encrypt, counters
<1>2. KeyInv'
  BY MaxSentAssumption DEF IInv, TypeOK, KeyInv, Encrypt
<1>3. HistoryInv'
  BY DEF IInv, HistoryInv, Encrypt
<1>4. GoodInv'
  BY DEF IInv, GoodInv, Encrypt, counters
<1> QED BY <1>1, <1>2, <1>3, <1>4 DEF IInv

LEMMA DecryptIInv ==
  ASSUME IInv, NEW p \in startIV + 1 .. encryptIV, Decrypt(p)
  PROVE  IInv'
<1> DEFINE b == p % Base
<1>1. /\ Accepts(p)
      /\ decryptIV' = IF IsLate(b) THEN decryptIV ELSE p
      /\ decryptHistory' = [decryptHistory EXCEPT ![b] = b]
      /\ accepted' = accepted \cup {<<key, p>>}
      /\ Good' = Good + 1
      /\ Late' = IF IsLate(b) THEN Late + 1 ELSE Late
      /\ Lost' = IF IsLate(b) THEN 1 ELSE p - decryptIV - 1
      /\ key' = key /\ startIV' = startIV /\ encryptIV' = encryptIV
  BY DEF Decrypt, ivVars
<1>2. /\ p \in Nat
      /\ IsLate(b) => p < decryptIV /\ decryptHistory[b] # b
      /\ ~IsLate(b) => p > decryptIV
  BY <1>1, AcceptedIs
<1>3. b \in Digits
  BY <1>2, LowByte
<1>4. /\ key \in Nat /\ startIV \in Nat /\ encryptIV \in Nat /\ decryptIV \in Nat
      /\ decryptHistory \in [Digits -> Digits]
      /\ accepted \subseteq Nat \X Nat
      /\ Good \in Nat /\ Late \in Nat /\ Lost \in Nat
  BY DEF IInv, TypeOK
<1>5. <<key, p>> \notin accepted
  BY <1>2, <1>4 DEF IInv, HistoryInv
<1>6. TypeOK'
  <2>1. decryptIV' \in Nat /\ Good' \in Nat /\ Late' \in Nat /\ Lost' \in Nat
    BY <1>1, <1>2, <1>4
  <2>2. decryptHistory' \in [Digits -> Digits]
    BY <1>1, <1>3, <1>4
  <2>3. accepted' \subseteq Nat \X Nat
    BY <1>1, <1>2, <1>4
  <2> QED BY <1>1, <1>4, <2>1, <2>2, <2>3 DEF TypeOK
<1>7. KeyInv'
  <2>1. /\ startIV' \in StartIVs
        /\ startIV' <= decryptIV'
        /\ decryptIV' <= encryptIV'
        /\ encryptIV' <= startIV' + MaxSent
    BY <1>1, <1>2, <1>4 DEF IInv, KeyInv
  <2>2. decryptIV' = startIV' \/ <<key', decryptIV'>> \in accepted'
    BY <1>1 DEF IInv, KeyInv
  <2>3. \A e \in accepted' : e[1] <= key'
    BY <1>1, <1>4 DEF IInv, KeyInv
  <2> QED BY <2>1, <2>2, <2>3 DEF KeyInv
<1>8. HistoryInv'
  <2> SUFFICES ASSUME NEW n \in Nat, <<key, n>> \in accepted'
               PROVE  /\ n <= decryptIV'
                      /\ decryptHistory'[n % Base] = n % Base
    BY <1>1 DEF HistoryInv
  <2>1. n % Base \in Digits
    BY LowByte
  <2>2. CASE n = p
    BY <1>1, <1>2, <1>3, <1>4, <2>2
  <2>3. CASE <<key, n>> \in accepted
    <3>1. n <= decryptIV /\ decryptHistory[n % Base] = n % Base
      BY <2>3 DEF IInv, HistoryInv
    <3>2. n <= decryptIV'
      BY <1>1, <1>2, <1>4, <3>1
    <3>3. decryptHistory'[n % Base] = n % Base
      BY <1>1, <1>3, <1>4, <2>1, <3>1
    <3> QED BY <3>2, <3>3
  <2> QED BY <1>1, <2>2, <2>3
<1>9. GoodInv'
  <2>1. IsFiniteSet(accepted) /\ Good = Cardinality(accepted)
    BY DEF IInv, GoodInv
  <2>2. /\ IsFiniteSet(accepted \cup {<<key, p>>})
        /\ Cardinality(accepted \cup {<<key, p>>}) = Cardinality(accepted) + 1
    BY <1>5, <2>1, FS_AddElement
  <2> QED BY <1>1, <2>1, <2>2 DEF GoodInv
<1> QED BY <1>6, <1>7, <1>8, <1>9 DEF IInv

LEMMA NextIInv == IInv /\ [Next]_vars => IInv'
<1> SUFFICES ASSUME IInv, [Next]_vars PROVE IInv'
  OBVIOUS
<1>1. CASE SetKey
  BY <1>1, SetKeyIInv
<1>2. CASE Encrypt
  BY <1>2, EncryptIInv
<1>3. CASE Deliver
  BY <1>3, DecryptIInv DEF Deliver
<1>4. CASE UNCHANGED vars
  BY <1>4 DEF IInv, TypeOK, KeyInv, HistoryInv, GoodInv, vars
<1> QED BY <1>1, <1>2, <1>3, <1>4 DEF Next

LEMMA Invariance == Spec => []IInv
  BY InitIInv, NextIInv, PTL DEF Spec

-----------------------------------------------------------------------------
\* The variables keep their types; the counters, which are unsigned in the code,
\* are never given a negative number (cryptstate.go:216-226).
THEOREM TypeCorrect == Spec => []TypeOK
<1>1. IInv => TypeOK
  BY DEF IInv
<1> QED BY <1>1, Invariance, PTL

\* Decrypt never accepts a datagram twice, whatever the network loses, repeats
\* or reorders, for any width of the nonce and any window
\* (cryptstate.go:120-231).
THEOREM NoReplayAlways == Spec => []NoReplay
<1>1. IInv => NoReplay
  BY DEF IInv, GoodInv, NoReplay
<1> QED BY <1>1, Invariance, PTL

\* The nonce of the receiver is that of the newest datagram accepted under the
\* current key, so a failed or late datagram never moves it
\* (cryptstate.go:205-214).
THEOREM TracksNewestAlways == Spec => []TracksNewest
<1>1. ASSUME IInv PROVE TracksNewest
  <2>1. decryptIV = startIV \/ decryptIV \in startIV .. encryptIV
    BY <1>1 DEF IInv, TypeOK, KeyInv
  <2>2. \A n \in startIV .. encryptIV : n \in Nat
    BY <1>1 DEF IInv, TypeOK
  <2> QED BY <1>1, <2>1, <2>2 DEF IInv, KeyInv, HistoryInv, TracksNewest
<1> QED BY <1>1, Invariance, PTL

-----------------------------------------------------------------------------
\* The lowest byte of a nonce at most a round away, from that of the newest
\* nonce: the sum of the bytes, or what remains of it after the carry.
LEMMA BytesApart ==
  ASSUME TypeOK, NEW k \in 0 .. Base - 1
  PROVE  /\ Low \in 0 .. Base - 1
         /\ (decryptIV + k) % Base = IF Low + k < Base THEN Low + k
                                                       ELSE Low + k - Base
<1>1. Base \in Nat /\ Base >= 1 /\ decryptIV \in Nat
  BY BaseAssumption DEF TypeOK
<1> QED BY <1>1, DivMod, ModAdd DEF Low

\* A newer datagram that is the direct successor, or within half a round with a
\* byte that is not in the history, makes Decrypt try its own nonce.
LEMMA AheadAccepted ==
  ASSUME IInv, NEW p \in Nat, p > decryptIV, p <= decryptIV + Base \div 2,
         p = decryptIV + 1 \/ decryptHistory[p % Base] # p % Base
  PROVE  Accepts(p)
<1> DEFINE b == p % Base
<1>1. Base \in Nat /\ Base >= 2 /\ decryptIV \in Nat /\ Base \div 2 < Base
  BY BaseAssumption DEF IInv, TypeOK
<1>2. PICK k \in 1 .. Base \div 2 : p = decryptIV + k
  <2>1. p - decryptIV \in 1 .. Base \div 2
    BY <1>1
  <2> QED BY <1>1, <2>1
<1>3. /\ Low \in 0 .. Base - 1
      /\ b = IF Low + k < Base THEN Low + k ELSE Low + k - Base
  BY <1>1, <1>2, BytesApart DEF IInv
<1>4. k \in Nat /\ b \in Nat /\ k < Base
  BY <1>1, <1>2, <1>3
<1>5. NonceAhead(b) = p
  BY <1>1, <1>2, <1>3, <1>4 DEF NonceAhead
<1>6. CASE k = 1
  <2>1. InOrder(b)
    BY <1>1, <1>3, <1>6 DEF InOrder
  <2> QED BY <1>5, <2>1 DEF Accepts, Tries
<1>7. CASE k # 1
  <2>1. ~InOrder(b)
    BY <1>1, <1>3, <1>4, <1>7 DEF InOrder
  <2>2. Diff(b) = k
    BY <1>1, <1>2, <1>3, <1>4 DEF Diff
  <2>3. IsAhead(b)
    BY <1>2, <2>1, <2>2 DEF IsAhead
  <2>4. HistoryChecked(b, NonceAhead(b)) = p
    BY <1>1, <1>2, <1>5, <1>7 DEF HistoryChecked
  <2> QED BY <2>3, <2>4 DEF Accepts, Tries
<1> QED BY <1>6, <1>7

\* A late datagram of the same round within the window, with a byte that is not
\* in the history, makes Decrypt try its own nonce.
LEMMA LateAccepted ==
  ASSUME IInv, NEW p \in Nat, p < decryptIV, p > decryptIV - LateWindow,
         p \div Base = decryptIV \div Base,
         decryptHistory[p % Base] # p % Base
  PROVE  Accepts(p)
<1> DEFINE b == p % Base
<1>1. Base \in Nat /\ Base >= 2 /\ decryptIV \in Nat
  BY BaseAssumption DEF IInv, TypeOK
<1>2. LateWindow \in Nat /\ LateWindow <= Base \div 2
  BY <1>1, LateWindowAssumption
<1>3. /\ b \in 0 .. Base - 1 /\ p = Base * (p \div Base) + b
      /\ Low \in 0 .. Base - 1
      /\ decryptIV = Base * (decryptIV \div Base) + Low
  BY <1>1, DivMod DEF Low
<1>4. PICK round \in Nat : /\ round = Base * (decryptIV \div Base)
                           /\ p = round + b /\ decryptIV = round + Low
  <2>1. PICK q \in Nat : q = decryptIV \div Base
    BY <1>1
  <2>2. Base * q \in Nat
    BY <1>1
  <2> QED BY <1>3, <2>1, <2>2
<1>5. b \in Nat /\ Low \in Nat /\ b < Low /\ Low < Base /\ Low - b < LateWindow
  BY <1>1, <1>2, <1>3, <1>4
<1>6. ~InOrder(b)
  BY <1>1, <1>2, <1>5 DEF InOrder
<1>7. Diff(b) = b - Low
  BY <1>1, <1>2, <1>5 DEF Diff
<1>8. IsLate(b)
  BY <1>2, <1>5, <1>6, <1>7 DEF IsLate
<1>9. NonceBehind(b) = p
  BY <1>1, <1>4, <1>5 DEF NonceBehind
<1>10. HistoryChecked(b, NonceBehind(b)) = p
  BY <1>9 DEF HistoryChecked
<1> QED BY <1>8, <1>10 DEF Accepts, Tries

\* A datagram is accepted at its first arrival whatever the network did before:
\* the successor of the newest one always, a newer one up to half a round ahead
\* and a late one of the same round within the window when its byte is not in
\* the history (cryptstate.go:138-197).
THEOREM FreshAcceptedAlways == Spec => []FreshAccepted
<1>1. ASSUME IInv PROVE FreshAccepted
  <2>1. /\ startIV \in Nat /\ encryptIV \in Nat /\ decryptIV \in Nat
        /\ Base \in Nat /\ Base >= 2 /\ 1 <= Base \div 2
    BY <1>1, BaseAssumption DEF IInv, TypeOK
  <2> SUFFICES ASSUME NEW p \in startIV + 1 .. encryptIV,
                 \/ p = decryptIV + 1
                 \/ /\ decryptHistory[p % Base] # p % Base
                    /\ \/ p > decryptIV /\ p <= decryptIV + Base \div 2
                       \/ /\ p < decryptIV /\ p > decryptIV - LateWindow
                          /\ p \div Base = decryptIV \div Base
               PROVE  Accepts(p)
    BY DEF FreshAccepted
  <2>2. p \in Nat
    BY <2>1
  <2>3. CASE p = decryptIV + 1
    <3>1. p > decryptIV /\ p <= decryptIV + Base \div 2
      BY <2>1, <2>3
    <3> QED BY <1>1, <2>2, <2>3, <3>1, AheadAccepted
  <2>4. CASE decryptHistory[p % Base] # p % Base
    BY <1>1, <2>2, <2>3, <2>4, AheadAccepted, LateAccepted
  <2> QED BY <2>3, <2>4
<1> QED BY <1>1, Invariance, PTL

-----------------------------------------------------------------------------
(* Why the loops over the bytes count by one: a number and its successor have *)
(* the same digits above the first place that does not carry.                 *)

\* Cutting digits off a number one by one.
LEMMA AboveIs ==
  ASSUME NEW n \in Nat
  PROVE  /\ Above(n) \in [0 .. Width -> Nat]
         /\ Above(n)[0] = n
         /\ \A i \in 1 .. Width : Above(n)[i] = Above(n)[i - 1] \div Base
<1>1. Base \in Nat /\ Base >= 1 /\ Width \in Nat
  BY BaseAssumption, WidthAssumption
<1> DEFINE step == [p \in Nat \X Nat |-> p[1] \div Base]
<1>2. step \in [Nat \X Nat -> Nat]
  <2>1. \A p \in Nat \X Nat : p[1] \div Base \in Nat
    BY <1>1
  <2> QED BY <2>1
<1>3. PICK f : IsRecursion(f, Nat, n, step, Width)
  <2> HIDE DEF step
  <2> QED BY <1>1, <1>2, Recursion, Zenon
<1>4. /\ f \in [0 .. Width -> Nat] /\ f[0] = n
      /\ \A i \in 1 .. Width : f[i] = step[<<f[i - 1], i>>]
  BY <1>3 DEF IsRecursion
<1> DEFINE cut(g) == [i \in 0 .. Width |->
                        IF i = 0 THEN n ELSE g[i - 1] \div Base]
<1>5. f = cut(f)
  <2>1. ASSUME NEW i \in 1 .. Width PROVE f[i] = f[i - 1] \div Base
    <3>1. i \in Nat /\ i - 1 \in 0 .. Width
      BY <1>1
    <3>2. <<f[i - 1], i>> \in Nat \X Nat
      BY <1>4, <3>1
    <3> QED BY <1>4, <3>2
  <2>2. \A i \in 0 .. Width :
          f[i] = IF i = 0 THEN n ELSE f[i - 1] \div Base
    <3>1. \A i \in 0 .. Width : i # 0 => i \in 1 .. Width
      BY <1>1
    <3> QED BY <1>4, <2>1, <3>1
  <2>3. f = [i \in 0 .. Width |-> f[i]]
    BY <1>4
  <2> QED BY <2>2, <2>3
<1>6. Above(n) = CHOOSE g : g = cut(g)
  BY DEF Above
<1>7. Above(n) = cut(Above(n))
  <2> HIDE DEF cut
  <2> QED BY <1>5, <1>6
<1> DEFINE a == Above(n)
<1>8. a[0] = n /\ \A i \in 1 .. Width : a[i] = a[i - 1] \div Base
  <2> HIDE DEF a
  <2>1. a = [i \in 0 .. Width |-> IF i = 0 THEN n ELSE a[i - 1] \div Base]
    BY <1>7 DEF a
  <2>2. 0 \in 0 .. Width /\ \A i \in 1 .. Width : i \in 0 .. Width /\ i # 0
    BY <1>1
  <2> QED BY <2>1, <2>2
<1>9. a \in [0 .. Width -> Nat]
  <2> DEFINE T == {i \in Nat : i \in 0 .. Width => a[i] \in Nat}
  <2>1. 0 \in T
    BY <1>8
  <2>2. ASSUME NEW i \in Nat, i \in T PROVE i + 1 \in T
    <3>1. CASE i + 1 \in 0 .. Width
      <4>1. i \in 0 .. Width /\ i + 1 \in 1 .. Width /\ (i + 1) - 1 = i
        BY <1>1, <3>1
      <4>2. a[i] \in Nat /\ a[i + 1] = a[i] \div Base
        BY <1>8, <2>2, <4>1
      <4> HIDE DEF a
      <4>3. a[i + 1] \in Nat
        BY <1>1, <4>2, DivMod
      <4> QED BY <4>3
    <3> QED BY <3>1
  <2>3. Nat \subseteq T
    <3> HIDE DEF T
    <3> QED BY <2>1, <2>2, Induction
  <2>4. \A i \in 0 .. Width : a[i] \in Nat
    BY <1>1, <2>3
  <2>5. a = cut(a)
    BY <1>7
  <2> HIDE DEF a
  <2> QED BY <2>4, <2>5
<1> QED BY <1>8, <1>9

\* What counting a number up by one does to its last digit and to what is left
\* without it.
LEMMA Successor ==
  ASSUME NEW m \in Nat
  PROVE  /\ m % Base = Base - 1 => /\ (m + 1) \div Base = (m \div Base) + 1
                                   /\ (m + 1) % Base = 0
         /\ m % Base # Base - 1 => /\ (m + 1) \div Base = m \div Base
                                   /\ (m + 1) % Base = (m % Base) + 1
<1>1. Base \in Nat /\ Base >= 1
  BY BaseAssumption
<1>2. PICK u \in Nat, d \in 0 .. Base - 1 :
        u = m \div Base /\ d = m % Base /\ m = Base * u + d
  BY <1>1, DivMod
<1>3. CASE d = Base - 1
  <2>1. PICK v \in Nat, z \in 0 .. Base - 1 : v = u + 1 /\ z = 0
    BY <1>1
  <2>2. Base * v = Base * u + Base
    BY <1>1, <2>1
  <2>3. m + 1 = Base * v + z
    BY <1>1, <1>2, <1>3, <2>1, <2>2
  <2>4. (Base * v + z) \div Base = v /\ (Base * v + z) % Base = z
    BY <1>1, DivModUnique
  <2> QED BY <1>2, <1>3, <2>1, <2>3, <2>4
<1>4. CASE d # Base - 1
  <2>1. PICK e \in 0 .. Base - 1 : e = d + 1
    BY <1>1, <1>4
  <2>2. m + 1 = Base * u + e
    <3>1. Base * u \in Nat
      BY <1>1
    <3> QED BY <1>1, <1>2, <2>1, <3>1
  <2>3. (Base * u + e) \div Base = u /\ (Base * u + e) % Base = e
    BY <1>1, DivModUnique
  <2> QED BY <1>2, <1>4, <2>1, <2>2, <2>3
<1> QED BY <1>2, <1>3, <1>4

\* Where a loop breaks.
LEMMA BreaksAtIs ==
  ASSUME NEW iv, NEW first \in 0 .. Width, NEW z
  PROVE  /\ BreaksAt(iv, first, z) \in first .. Width
         /\ \/ BreaksAt(iv, first, z) = Width
            \/ iv[BreaksAt(iv, first, z)] # z
         /\ \A j \in first .. BreaksAt(iv, first, z) - 1 : iv[j] = z
<1> DEFINE T == {i \in first .. Width : i = Width \/ iv[i] # z}
<1>1. Width \in Nat /\ first \in Nat /\ first <= Width
  BY WidthAssumption
<1>2. T \in SUBSET Nat /\ Width \in T
  BY <1>1
<1>3. PICK i \in T : \A m \in T : i <= m
  <2> HIDE DEF T
  <2> QED BY <1>2, LeastNumber
<1>4. \A j \in first .. i - 1 : iv[j] = z
  <2> SUFFICES ASSUME NEW j \in first .. i - 1, iv[j] # z PROVE FALSE
    OBVIOUS
  <2>1. j \in T /\ ~(i <= j)
    BY <1>1, <1>3
  <2> QED BY <1>3, <2>1
<1>5. \E k \in first .. Width :
        /\ k = Width \/ iv[k] # z
        /\ \A j \in first .. k - 1 : iv[j] = z
  BY <1>3, <1>4
<1> QED BY <1>5 DEF BreaksAt

\* The loop counts the nonce of a number up to the nonce of the next one, when
\* the digits below its first place carried before.
LEMMA CountsToTheNext ==
  ASSUME NEW n \in Nat, NEW first \in 0 .. Width, NEW iv,
         \A i \in Places : i < first => NonceOf(n)[i] = Base - 1 /\ iv[i] = 0,
         \A i \in Places : i >= first => iv[i] = NonceOf(n)[i]
  PROVE  CountUp(iv, first) = NonceOf(n + 1)
<1> DEFINE a == Above(n)
           c == Above(n + 1)
           last == BreaksAt(iv, first, Base - 1)
<1>1. Base \in Nat /\ Base >= 2 /\ Width \in Nat /\ n + 1 \in Nat
  BY BaseAssumption, WidthAssumption
<1>2. /\ a \in [0 .. Width -> Nat] /\ a[0] = n
      /\ \A i \in 1 .. Width : a[i] = a[i - 1] \div Base
      /\ c \in [0 .. Width -> Nat] /\ c[0] = n + 1
      /\ \A i \in 1 .. Width : c[i] = c[i - 1] \div Base
  BY <1>1, AboveIs
<1>3. /\ last \in first .. Width
      /\ last = Width \/ iv[last] # Base - 1
      /\ \A j \in first .. last - 1 : iv[j] = Base - 1
  BY BreaksAtIs
<1>4. \A i \in Places : /\ i \in 0 .. Width /\ a[i] \in Nat
                        /\ NonceOf(n)[i] = a[i] % Base
                        /\ NonceOf(n + 1)[i] = c[i] % Base
  BY <1>1, <1>2 DEF Places, NonceOf
<1> HIDE DEF a, c, last
<1>5. \A i \in 0 .. Width : c[i] = IF i <= last THEN a[i] + 1 ELSE a[i]
  <2> DEFINE T == {i \in Nat : i <= Width =>
                                 c[i] = IF i <= last THEN a[i] + 1 ELSE a[i]}
  <2>1. 0 \in T
    BY <1>1, <1>2, <1>3
  <2>2. ASSUME NEW i \in Nat, i \in T, i + 1 <= Width
        PROVE  c[i + 1] = IF i + 1 <= last THEN a[i + 1] + 1 ELSE a[i + 1]
    <3>1. /\ i \in Places /\ i + 1 \in 1 .. Width /\ i \in 0 .. Width
          /\ a[i] \in Nat /\ (i + 1) - 1 = i
      BY <1>1, <1>2, <2>2 DEF Places
    <3>2. a[i + 1] = a[i] \div Base /\ c[i + 1] = c[i] \div Base
      BY <1>2, <3>1
    <3>3. c[i] = IF i <= last THEN a[i] + 1 ELSE a[i]
      BY <1>1, <2>2
    <3>4. CASE i < last
      <4>1. a[i] % Base = Base - 1
        BY <1>1, <1>3, <1>4, <3>1, <3>4
      <4>2. (a[i] + 1) \div Base = (a[i] \div Base) + 1
        BY <3>1, <4>1, Successor
      <4> QED BY <1>3, <3>1, <3>2, <3>3, <3>4, <4>2
    <3>5. CASE i = last
      <4>1. a[i] % Base # Base - 1
        BY <1>1, <1>3, <1>4, <2>2, <3>1, <3>5
      <4>2. (a[i] + 1) \div Base = a[i] \div Base
        BY <3>1, <4>1, Successor
      <4> QED BY <1>3, <3>1, <3>2, <3>3, <3>5, <4>2
    <3>6. CASE i > last
      BY <1>3, <3>1, <3>2, <3>3, <3>6
    <3> QED BY <1>3, <3>4, <3>5, <3>6
  <2>3. \A i \in Nat : i \in T => i + 1 \in T
    BY <2>2
  <2>4. Nat \subseteq T
    <3> HIDE DEF T
    <3> QED BY <2>1, <2>3, Induction
  <2> QED BY <1>1, <2>4
<1>6. ASSUME NEW i \in Places
      PROVE  c[i] % Base = IF i \in first .. last THEN (iv[i] + 1) % Base
                                                  ELSE iv[i]
  <2>1. /\ i \in Nat /\ i \in 0 .. Width /\ a[i] \in Nat /\ first \in Nat
        /\ last \in Nat /\ first <= last
    BY <1>1, <1>3, <1>4 DEF Places
  <2>2. c[i] = IF i <= last THEN a[i] + 1 ELSE a[i]
    BY <1>5, <2>1
  <2>3. CASE i < first
    <3>1. a[i] % Base = Base - 1 /\ iv[i] = 0
      BY <1>4, <2>3
    <3>2. (a[i] + 1) % Base = 0
      BY <2>1, <3>1, Successor
    <3> QED BY <2>1, <2>2, <2>3, <3>1, <3>2
  <2>4. CASE i \in first .. last
    <3>1. iv[i] = a[i] % Base
      BY <1>4, <2>1, <2>4
    <3>2. PICK d \in 0 .. Base - 1 : d = a[i] % Base
      BY <1>1, <2>1, DivMod
    <3>3. (a[i] + 1) % Base = IF d = Base - 1 THEN 0 ELSE d + 1
      BY <2>1, <3>2, Successor
    <3>4. (d + 1) % Base = IF d = Base - 1 THEN 0 ELSE d + 1
      BY <1>1, <3>2
    <3> QED BY <2>1, <2>2, <2>4, <3>1, <3>2, <3>3, <3>4
  <2>5. CASE i > last
    BY <1>4, <2>1, <2>2, <2>5
  <2> QED BY <2>1, <2>3, <2>4, <2>5
<1>7. \A i \in Places :
        (IF i \in first .. last THEN (iv[i] + 1) % Base ELSE iv[i])
          = c[i] % Base
  BY <1>6
<1>8. NonceOf(n + 1) = [i \in Places |-> c[i] % Base]
  BY DEF NonceOf, c
<1>9. CountUp(iv, first) =
        [i \in Places |-> IF i \in first .. last THEN (iv[i] + 1) % Base
                                                 ELSE iv[i]]
  BY DEF CountUp, last
<1> QED BY <1>7, <1>8, <1>9

\* The loop of Encrypt and the carries of Decrypt count nonces up by one through
\* all their bytes, for any number of bytes and any number of values of a byte,
\* also past the highest nonce, so that the two ends agree on the nonce after a
\* wrap-around (cryptstate.go:144-149, 235-240).
THEOREM LoopsAgreeAlways == Spec => []LoopsAgree
<1>1. ASSUME TypeOK PROVE LoopsAgree
  <2>1. /\ encryptIV \in Nat /\ decryptIV \in Nat
        /\ Base \in Nat /\ Base >= 2 /\ Width \in Nat /\ Width >= 1
    BY <1>1, BaseAssumption, WidthAssumption DEF TypeOK
  <2>2. CountUp(NonceOf(encryptIV), 0) = NonceOf(encryptIV + 1)
    <3>1. 0 \in 0 .. Width /\ \A i \in Places : ~(i < 0)
      BY <2>1 DEF Places
    <3> QED BY <2>1, <3>1, CountsToTheNext
  <2>3. ASSUME Low = Base - 1
        PROVE  CountUp([NonceOf(decryptIV) EXCEPT ![0] = 0], 1)
                 = NonceOf(decryptIV + 1)
    <3> DEFINE iv == [NonceOf(decryptIV) EXCEPT ![0] = 0]
    <3>1. 1 \in 0 .. Width /\ 0 \in Places
          /\ \A i \in Places : i \in Nat /\ (i < 1 => i = 0)
      BY <2>1 DEF Places
    <3>2. NonceOf(decryptIV)[0] = Base - 1
      BY <2>1, <2>3, <3>1, AboveIs DEF NonceOf, Low
    <3>3. DOMAIN NonceOf(decryptIV) = Places
      BY DEF NonceOf
    <3>4. /\ iv[0] = 0
          /\ \A i \in Places : i # 0 => iv[i] = NonceOf(decryptIV)[i]
      BY <3>1, <3>3
    <3> HIDE DEF iv
    <3>5. \A i \in Places :
            i < 1 => NonceOf(decryptIV)[i] = Base - 1 /\ iv[i] = 0
      BY <3>1, <3>2, <3>4
    <3>6. \A i \in Places : i >= 1 => iv[i] = NonceOf(decryptIV)[i]
      BY <3>1, <3>4
    <3>7. CountUp(iv, 1) = NonceOf(decryptIV + 1)
      BY <2>1, <3>1, <3>5, <3>6, CountsToTheNext
    <3> QED BY <3>7 DEF iv
  <2> QED BY <2>2, <2>3 DEF LoopsAgree
<1> QED BY <1>1, TypeCorrect, PTL
=============================================================================
