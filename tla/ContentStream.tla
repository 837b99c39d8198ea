---------------------------- MODULE ContentStream ----------------------------
(***************************************************************************)
(* The content of a video as a stream that outlives its connections:       *)
(* persistentYoutubeStream (tracksources/youtube).  The content is a       *)
(* sequence of units, numbered by their place; a unit is what the reader   *)
(* of the container takes in one piece.  The body of an HTTP response and  *)
(* the server behind it are external.                                      *)
(***************************************************************************)
EXTENDS Naturals, Sequences

CONSTANTS
  Contents,   \* the contents looked at, sequences of kinds of unit
  MaxCuts,    \* bound: how many bodies end with an error
  MaxFailed   \* bound: how many requests fail

Kinds == {"cluster", "head", "data", "laced", "corrupt", "cue"}

\* A content is a sequence of clusters and other elements, and a cluster one of
\* blocks, each of a head and its data.
WellFormed(c) ==
  \A i \in 0 .. Len(c) :
    LET kind == IF i = 0 THEN "cue" ELSE c[i]
        follow == CASE kind = "head"    -> {"data", "laced", "corrupt"}
                    [] kind = "cue"     -> {"cluster", "cue"}
                    [] OTHER            -> {"cluster", "cue", "head"}
    IN  IF i = Len(c) THEN kind # "head" ELSE c[i + 1] \in follow

ASSUME ContentsAssumption ==
  Contents \subseteq {c \in Seq(Kinds) : WellFormed(c)}
ASSUME MaxCutsAssumption == MaxCuts \in Nat
ASSUME MaxFailedAssumption == MaxFailed \in Nat

VARIABLES
  content,    \* what the server holds
  aposition,  \* units of the content the stream counts as read
  body,       \* the body of the response: open, ended (EOF) or broken
  left,       \* units the body will still give
  delivered,  \* the place of each unit handed to the reader, in order
  err,        \* the error returned with the last Read
  cuts,       \* how many bodies broke
  uncounted,  \* how many of them handed over data that is not counted
  failed      \* how many requests failed

streamVars == <<content, aposition, body, left, delivered, err, cuts, uncounted,
                failed>>

StreamTypeOK ==
  /\ content \in Contents
  /\ aposition \in 0 .. Len(content)
  /\ body \in {"open", "ended", "broken"}
  /\ left \in 0 .. Len(content) - aposition
  /\ delivered \in Seq(1 .. Len(content))
  /\ err \in {"nil", "EOF", "error"}
  /\ cuts \in 0 .. MaxCuts
  /\ uncounted \in 0 .. cuts
  /\ failed \in 0 .. MaxFailed

\* A response to the range from a on may be shorter than asked for, and is
\* empty only where nothing is left.
Lengths(a) == IF a = Len(content) THEN {0} ELSE 1 .. Len(content) - a

\* NewPersistentYoutubeStream returned and the header of the container is
\* read; places count from there.
StreamInit ==
  /\ content \in Contents
  /\ aposition = 0
  /\ body = "open"
  /\ left \in Lengths(0)
  /\ delivered = <<>>
  /\ err = "nil"
  /\ cuts = 0
  /\ uncounted = 0
  /\ failed = 0

-----------------------------------------------------------------------------
\* Mutant of RequestNext: the new response is not stored.
RequestNextForgotten(a, state) ==
  /\ body' = state
  /\ left' = 0
  /\ err' = "nil"
  /\ UNCHANGED failed

\* Ask for everything from a on.  When that fails the old body stays, which
\* is in the given state and has nothing more to give.
RequestNext(a, state) ==
  \/ /\ body' = "open"
     /\ left' \in Lengths(a)
     /\ err' = "nil"
     /\ UNCHANGED failed
  \/ /\ failed < MaxFailed
     /\ failed' = failed + 1
     /\ body' = state
     /\ left' = 0
     /\ err' = "error"

\* n units are handed to the reader.
HandOver(n) == delivered' = delivered \o [i \in 1 .. n |-> aposition + i]

\* Read: the body has data and no error.
ReadData ==
  /\ body = "open"
  /\ \E n \in 1 .. left :
       /\ HandOver(n)
       /\ aposition' = aposition + n
       /\ left' = left - n
  /\ err' = "nil"
  /\ UNCHANGED <<content, body, cuts, uncounted, failed>>

\* Mutant of ReadEnd: the end of a response is the end of the content.
ReadEndUnchecked ==
  /\ body # "broken"
  /\ HandOver(left)
  /\ aposition' = aposition + left
  /\ body' = "ended"
  /\ left' = 0
  /\ err' = "EOF"
  /\ UNCHANGED <<content, cuts, uncounted, failed>>

\* Mutant of ReadEnd: the request is made before the last piece is counted.
ReadEndUncounted ==
  /\ body # "broken"
  /\ HandOver(left)
  /\ \/ /\ aposition + left = Len(content)
        /\ aposition' = aposition + left
        /\ body' = "ended"
        /\ left' = 0
        /\ err' = "EOF"
        /\ UNCHANGED failed
     \/ /\ aposition + left # Len(content)
        /\ aposition' = aposition
        /\ RequestNext(aposition, "ended")
  /\ UNCHANGED <<content, cuts, uncounted>>

\* Read: the body ends, with or without a last piece.
ReadEnd ==
  /\ body # "broken"
  /\ HandOver(left)
  /\ aposition' = aposition + left
  /\ \/ /\ aposition + left = Len(content)
        /\ body' = "ended"
        /\ left' = 0
        /\ err' = "EOF"
        /\ UNCHANGED failed
     \/ /\ aposition + left # Len(content)
        /\ RequestNext(aposition + left, "ended")
  /\ UNCHANGED <<content, cuts, uncounted>>

\* Read: the body gives an error other than EOF, perhaps with data, which is
\* handed over and not counted, so that the next response repeats it.  A broken
\* body repeats its error.
ReadCut ==
  /\ \/ body = "open" /\ left > 0 /\ cuts < MaxCuts /\ cuts' = cuts + 1
        /\ \E n \in 0 .. left :
             /\ HandOver(n)
             /\ uncounted' = IF n > 0 THEN uncounted + 1 ELSE uncounted
     \/ body = "broken" /\ UNCHANGED <<cuts, uncounted, delivered>>
  /\ RequestNext(aposition, "broken")
  /\ UNCHANGED <<content, aposition>>

Read == ReadData \/ ReadEnd \/ ReadCut
=============================================================================
