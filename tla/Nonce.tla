------------------------------- MODULE Nonce -------------------------------
(***************************************************************************)
(* The nonces of cryptstate/cryptstate.go: little-endian byte arrays that   *)
(* Encrypt and Decrypt count up and down with loops of the form             *)
(*                                                                         *)
(*   for i := first; i < len(iv); i++ { iv[i] += 1; if iv[i] > 0 { break } } *)
(*                                                                         *)
(* A byte is unsigned, so "> 0" tells a carry apart from a byte that did    *)
(* not wrap, but not a borrow: after -= 1 it is 0 that must stop the loop   *)
(* and 255 that must not.                                                   *)
(***************************************************************************)
EXTENDS Integers

CONSTANTS
  Base,     \* values of a byte (256 in the code)
  Width     \* bytes of a nonce (16 for OCB2-AES128, 24 for XSalsa20)

ASSUME BaseAssumption == Base \in Nat /\ Base >= 2
ASSUME WidthAssumption == Width \in Nat /\ Width >= 1

LOCAL INSTANCE FiniteSetsExt

Digits == 0 .. Base - 1
Places == 0 .. Width - 1
Nonces == [Places -> Digits]

\* The place at which the loop breaks: the first one from "first" on whose digit
\* does not become 0; Width when there is none.
BreaksAt(iv, first, becomesZero) ==
  CHOOSE i \in first .. Width :
    /\ i = Width \/ iv[i] # becomesZero
    /\ \A j \in first .. i - 1 : iv[j] = becomesZero

\* Mutant of CountUp: always from the lowest byte.
CountUpFromLowest(iv, first) ==
  LET last == BreaksAt(iv, 0, Base - 1)
  IN  [i \in Places |-> IF i \in 0 .. last THEN (iv[i] + 1) % Base ELSE iv[i]]

\* The loop of Encrypt (first = 0) and the carries of Decrypt (first = 1).
CountUp(iv, first) ==
  LET last == BreaksAt(iv, first, Base - 1)
  IN  [i \in Places |-> IF i \in first .. last THEN (iv[i] + 1) % Base
                                               ELSE iv[i]]

\* The borrow of Decrypt, for a late packet from before a wrap-around.
CountDown(iv, first) ==
  LET last == BreaksAt(iv, first, 1)
  IN  [i \in Places |-> IF i \in first .. last THEN (iv[i] + Base - 1) % Base
                                               ELSE iv[i]]

\* The number a nonce stands for.
Value(iv) == MapThenSumSet(LAMBDA i : iv[i] * Base ^ i, Places)

\* What is left of a number when its lowest i digits are cut off.
Above(n) ==
  LET above[i \in 0 .. Width] == IF i = 0 THEN n ELSE above[i - 1] \div Base
  IN  above

\* The nonce of a number: its digits, the lowest first.
NonceOf(n) ==
  LET above == Above(n) IN [i \in Places |-> above[i] % Base]
=============================================================================
