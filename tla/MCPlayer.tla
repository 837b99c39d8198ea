------------------------------ MODULE MCPlayer ------------------------------
(* Instances of Player for TLC. *)
EXTENDS Player

\* Tracks of different lengths, an empty one among them.
FramesShort == [t \in Tracks |-> IF t = 2 THEN 1 ELSE 2]
FramesMixed == [t \in Tracks |-> CASE t = 1 -> 3 [] t = 2 -> 0 [] OTHER -> 2]
=============================================================================
