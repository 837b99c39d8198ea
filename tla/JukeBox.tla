------------------------------ MODULE JukeBox ------------------------------
(***************************************************************************)
(* What the player of gomble/track.go promises to the library's user, with *)
(* no goroutine, channel or buffer in sight: one track at a time, each     *)
(* played at most once, its frames in order, and "finished" said of a      *)
(* track only when every frame of it has been heard.                       *)
(***************************************************************************)
EXTENDS Naturals

CONSTANTS
  NTracks,   \* tracks are numbered in the order in which they were loaded
  Frames     \* Frames[t]: how many audio frames the source of t holds

VARIABLES
  now,       \* the track being played, 0 when there is none
  heard,     \* heard[t]: how many frames of t went out
  verdict    \* verdict[t]: how t ended, "none" while it has not

abstractVars == <<now, heard, verdict>>

Catalogue == 1 .. NTracks

Start(t) ==
  /\ now = 0
  /\ verdict[t] = "none"
  /\ heard[t] = 0
  /\ now' = t
  /\ UNCHANGED <<heard, verdict>>

\* The next frame of the current track, never a later one or one again.
Hear(t) ==
  /\ now = t
  /\ heard[t] < Frames[t]
  /\ heard' = [heard EXCEPT ![t] = @ + 1]
  /\ UNCHANGED <<now, verdict>>

End(t, v) ==
  /\ now = t
  /\ verdict[t] = "none"
  /\ v = "finished" => heard[t] = Frames[t]
  /\ now' = 0
  /\ verdict' = [verdict EXCEPT ![t] = v]
  /\ UNCHANGED heard

AbstractInit ==
  /\ now = 0
  /\ heard = [t \in Catalogue |-> 0]
  /\ verdict = [t \in Catalogue |-> "none"]

AbstractNext ==
  \E t \in Catalogue :
    \/ Start(t)
    \/ Hear(t)
    \/ \E v \in {"finished", "stopped", "exception"} : End(t, v)

AbstractSpec == AbstractInit /\ [][AbstractNext]_abstractVars
=============================================================================
