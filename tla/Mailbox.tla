------------------------------ MODULE Mailbox -------------------------------
(***************************************************************************)
(* What a session promises to the callbacks: each text message of the      *)
(* server is delivered at most once, in the order the server wrote them,   *)
(* none left out, until the session ends.                                  *)
(***************************************************************************)
EXTENDS Naturals, Sequences

CONSTANTS
  Texts,      \* what the server may write
  Event       \* what a callback is to get for each of them

VARIABLES
  texts,      \* the text messages written so far
  heard,      \* the events delivered to callbacks so far
  ended       \* the session is over

vars == <<texts, heard, ended>>

Init == texts = <<>> /\ heard = <<>> /\ ended = FALSE

Write(t) ==
  /\ texts' = Append(texts, t)
  /\ UNCHANGED <<heard, ended>>

Deliver ==
  /\ ~ended
  /\ Len(heard) < Len(texts)
  /\ heard' = Append(heard, Event[texts[Len(heard) + 1]])
  /\ UNCHANGED <<texts, ended>>

End ==
  /\ ~ended
  /\ ended' = TRUE
  /\ UNCHANGED <<texts, heard>>

Next == (\E t \in Texts : Write(t)) \/ Deliver \/ End

Spec == Init /\ [][Next]_vars
=============================================================================
