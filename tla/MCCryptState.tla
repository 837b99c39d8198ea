---------------------------- MODULE MCCryptState ----------------------------
(* Instances of CryptState for TLC. *)
EXTENDS CryptState
=============================================================================
