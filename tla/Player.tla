------------------------------- MODULE Player -------------------------------
(***************************************************************************)
(* The player of gomble: the goroutines that play tracks (audioroutine and *)
(* its producer, gomble/track.go), the event loop that runs the listener's *)
(* callbacks (gomble/eventhandler.go), the callbacks of the bot (main.go)  *)
(* and the goroutine that turns text messages into events                  *)
(* (gomble/packagereader.go).                                              *)
(*                                                                         *)
(* Goroutines meet on three unbuffered channels, stop, pause and           *)
(* eventpuffer, and on one buffered channel per track, opusbuf.  A send on *)
(* an unbuffered channel and its receive are one joint action; the sender  *)
(* waits in a state named for the send.                                    *)
(***************************************************************************)
EXTENDS Naturals, Sequences

CONSTANTS
  NTracks,      \* bound: how many #play messages name a playable video
  Frames,       \* Frames[t]: how many opus frames the source of t yields
  BufCap,       \* capacity of opusbuf (50 in the code)
  MaxMessages,  \* bound: how many text messages the server forwards
  Commands,     \* the kinds of message sent, a subset of AllCommands
  Faults        \* what may fail outside the program, a subset of AllFaults

AllCommands == {"play", "stop", "pause", "resume", "other"}
AllFaults == {"youtubedl", "load", "encoder", "source"}

Tracks == 1 .. NTracks

ASSUME NTracksAssumption == NTracks \in Nat
ASSUME FramesAssumption == Frames \in [Tracks -> Nat]
ASSUME BufCapAssumption == BufCap \in Nat \ {0}
ASSUME MaxMessagesAssumption == MaxMessages \in Nat
ASSUME CommandsAssumption == Commands \subseteq AllCommands
ASSUME FaultsAssumption == Faults \subseteq AllFaults

None == 0      \* currTrack == nil
NilFrame == 0  \* the nil payload a producer sends after an error

VARIABLES
  messages,   \* how many text messages came in so far
  reader,     \* the message readRoutine is trying to hand over, or "none"
  eventPc,    \* what eventRoutine is doing
  queue,      \* the bot's queue of tracks
  loaded,     \* how many tracks LoadTrack returned; they are 1 .. loaded
  broken,     \* tracks whose source LoadTrack failed to build
  currTrack,  \* the global currTrack
  Done,       \* Done[t]
  audio,      \* audio[t]: where the audioroutine of t is
  outcome,    \* outcome[t]: which last event that audioroutine reports
  producer,   \* producer[t]: where the producer goroutine of t is
  fetched,    \* fetched[t]: the last frame taken from the source of t
  opusbuf,    \* opusbuf[t]: the frames in the channel between the two
  closed,     \* closed[t]: the producer closed opusbuf
  sent,       \* sent[t]: the last frame of t given to sendAudioPacket
  crashed     \* the process exited (logger.Fatalf or a panic)

readerVars == <<messages, reader>>
botVars == <<queue, loaded, broken>>
playerVars == <<currTrack, Done>>
audioVars == <<audio, outcome, sent>>
producerVars == <<producer, fetched, closed>>
vars == <<messages, reader, eventPc, queue, loaded, broken, currTrack, Done,
          audio, outcome, producer, fetched, opusbuf, closed, sent, crashed>>

EventStates == {"idle", "load", "start", "stop", "pause", "resume"}
AudioStates == {"none", "start", "tick", "notify", "paused", "receive",
                "halting", "report", "exit"}
Outcomes == {"none", "finished", "stopped", "exception"}
ProducerStates == {"none", "fetch", "offer", "offerNil", "exit"}

TypeOK ==
  /\ messages \in 0 .. MaxMessages
  /\ reader \in AllCommands \cup {"none"}
  /\ eventPc \in EventStates
  /\ queue \in Seq(Tracks)
  /\ loaded \in 0 .. NTracks
  /\ broken \subseteq Tracks
  /\ currTrack \in Tracks \cup {None}
  /\ Done \in [Tracks -> BOOLEAN]
  /\ audio \in [Tracks -> AudioStates]
  /\ outcome \in [Tracks -> Outcomes]
  /\ producer \in [Tracks -> ProducerStates]
  /\ fetched \in [Tracks -> Nat]
  /\ opusbuf \in [Tracks -> Seq(Nat)]
  /\ \A t \in Tracks : Len(opusbuf[t]) <= BufCap
  /\ closed \in [Tracks -> BOOLEAN]
  /\ sent \in [Tracks -> Nat]
  /\ crashed \in BOOLEAN

Init ==
  /\ messages = 0
  /\ reader = "none"
  /\ eventPc = "idle"
  /\ queue = <<>>
  /\ loaded = 0
  /\ broken = {}
  /\ currTrack = None
  /\ Done = [t \in Tracks |-> FALSE]
  /\ audio = [t \in Tracks |-> "none"]
  /\ outcome = [t \in Tracks |-> "none"]
  /\ producer = [t \in Tracks |-> "none"]
  /\ fetched = [t \in Tracks |-> 0]
  /\ opusbuf = [t \in Tracks |-> <<>>]
  /\ closed = [t \in Tracks |-> FALSE]
  /\ sent = [t \in Tracks |-> 0]
  /\ crashed = FALSE

-----------------------------------------------------------------------------
(* readRoutine: handlePacket blocks in eventpuffer <- until eventRoutine    *)
(* takes the event, and reads no further packet meanwhile.                  *)

ReadMessage ==
  /\ reader = "none"
  /\ messages < MaxMessages
  /\ messages' = messages + 1
  /\ \E c \in Commands : reader' = c
  /\ UNCHANGED <<eventPc, botVars, playerVars, audioVars, producerVars,
                 opusbuf, crashed>>

-----------------------------------------------------------------------------
(* eventRoutine and the callbacks, all on one goroutine.  It receives from  *)
(* eventpuffer only in "idle"; in "stop", "pause" and "resume" it is inside *)
(* Stop, Pause or Resume, waiting for somebody to receive.                  *)

\* The callback of a message: #play goes on to LoadTrack, #stop, #pause and
\* #resume to the send, anything else is answered or ignored.
DeliverMessage ==
  /\ eventPc = "idle"
  /\ reader # "none"
  /\ reader' = "none"
  /\ eventPc' = CASE reader = "play"  -> "load"
                  [] reader = "other" -> "idle"
                  [] OTHER            -> reader
  /\ UNCHANGED <<messages, botVars, playerVars, audioVars, producerVars,
                 opusbuf, crashed>>

\* Mutant of LoadTrack: the new track goes to the front of the queue.
LoadTrackInFront ==
  /\ eventPc = "load"
  /\ loaded < NTracks
  /\ loaded' = loaded + 1
  /\ queue' = <<loaded + 1>> \o queue
  /\ eventPc' = "start"
  /\ UNCHANGED <<readerVars, broken, playerVars, audioVars, producerVars,
                 opusbuf, crashed>>

\* LoadTrack returns a track, appended to the queue.  An error of
\* NewYoutubedlVideo goes to a shadowed err: the track comes without a source.
LoadTrack ==
  /\ eventPc = "load"
  /\ loaded < NTracks
  /\ loaded' = loaded + 1
  /\ queue' = Append(queue, loaded + 1)
  /\ \/ broken' = broken
     \/ "load" \in Faults /\ broken' = broken \cup {loaded + 1}
  /\ eventPc' = "start"
  /\ UNCHANGED <<readerVars, playerVars, audioVars, producerVars, opusbuf,
                 crashed>>

\* The message names no video: the callback logs the error and returns.
LoadTrackRejected ==
  /\ eventPc = "load"
  /\ eventPc' = "idle"
  /\ UNCHANGED <<readerVars, botVars, playerVars, audioVars, producerVars,
                 opusbuf, crashed>>

\* No /bin/youtube-dl: logger.Fatalf ends the process.
LoadTrackExits ==
  /\ eventPc = "load"
  /\ "youtubedl" \in Faults
  /\ crashed' = TRUE
  /\ UNCHANGED <<readerVars, eventPc, botVars, playerVars, audioVars,
                 producerVars, opusbuf>>

\* Mutant of CanPlay: the test of currTrack is missing.
CanPlayAnyTime(t) == ~Done[t]

\* Play returns true.
CanPlay(t) == ~Done[t] /\ currTrack = None

\* startNextTrack when the queue is empty or Play returns false.
StartNothing ==
  /\ eventPc = "start"
  /\ queue # <<>> => ~CanPlay(Head(queue))
  /\ eventPc' = "idle"
  /\ UNCHANGED <<readerVars, botVars, playerVars, audioVars, producerVars,
                 opusbuf, crashed>>

\* startNextTrack when Play returns true: the audioroutine is under way and
\* the track leaves the queue.
StartNextTrack ==
  /\ eventPc = "start"
  /\ queue # <<>>
  /\ LET t == Head(queue) IN
       /\ CanPlay(t)
       /\ t \notin broken
       /\ currTrack' = t
       /\ audio' = [audio EXCEPT ![t] = "start"]
  /\ queue' = Tail(queue)
  /\ eventPc' = "idle"
  /\ UNCHANGED <<readerVars, loaded, broken, Done, outcome, sent,
                 producerVars, opusbuf, crashed>>

\* A track without a source: t.GetTitle() dereferences nil.
StartPanics ==
  /\ eventPc = "start"
  /\ queue # <<>>
  /\ CanPlay(Head(queue))
  /\ Head(queue) \in broken
  /\ crashed' = TRUE
  /\ UNCHANGED <<readerVars, eventPc, botVars, playerVars, audioVars,
                 producerVars, opusbuf>>

-----------------------------------------------------------------------------
(* audioroutine: one tick of the ticker per round, at most one command, one *)
(* frame.  Leaving a state by an event is in the section of the event loop's *)
(* rendezvous below.                                                        *)

NewOpusEncoder(t) ==
  /\ audio[t] = "start"
  /\ audio' = [audio EXCEPT ![t] = "tick"]
  /\ producer' = [producer EXCEPT ![t] = "fetch"]
  /\ UNCHANGED <<readerVars, eventPc, botVars, playerVars, outcome, sent,
                 fetched, closed, opusbuf, crashed>>

\* No encoder: the exception is reported, and neither Done nor currTrack is
\* touched.
NewOpusEncoderFails(t) ==
  /\ "encoder" \in Faults
  /\ audio[t] = "start"
  /\ audio' = [audio EXCEPT ![t] = "report"]
  /\ outcome' = [outcome EXCEPT ![t] = "exception"]
  /\ UNCHANGED <<readerVars, eventPc, botVars, playerVars, sent,
                 producerVars, opusbuf, crashed>>

\* The default of the select: nobody waits to send on stop or pause.
NoCommand(t) ==
  /\ audio[t] = "tick"
  /\ eventPc \notin {"stop", "pause", "resume"}
  /\ audio' = [audio EXCEPT ![t] = "receive"]
  /\ UNCHANGED <<readerVars, eventPc, botVars, playerVars, outcome, sent,
                 producerVars, opusbuf, crashed>>

\* Done, currTrack = nil, and then the send of the last event.
Conclude(t, v) ==
  /\ Done' = [Done EXCEPT ![t] = TRUE]
  /\ currTrack' = None
  /\ outcome' = [outcome EXCEPT ![t] = v]
  /\ audio' = [audio EXCEPT ![t] = "report"]

ReceiveFrame(t) ==
  /\ audio[t] = "receive"
  /\ opusbuf[t] # <<>>
  /\ Head(opusbuf[t]) # NilFrame
  /\ opusbuf' = [opusbuf EXCEPT ![t] = Tail(@)]
  /\ sent' = [sent EXCEPT ![t] = Head(opusbuf[t])]
  /\ audio' = [audio EXCEPT ![t] = "tick"]
  /\ UNCHANGED <<readerVars, eventPc, botVars, playerVars, outcome,
                 producerVars, crashed>>

\* Mutant of ReceiveNil: a nil payload is taken for the end of the track.
ReceiveNilAsEnd(t) ==
  /\ audio[t] = "receive"
  /\ opusbuf[t] # <<>>
  /\ Head(opusbuf[t]) = NilFrame
  /\ opusbuf' = [opusbuf EXCEPT ![t] = Tail(@)]
  /\ Conclude(t, "finished")
  /\ UNCHANGED <<readerVars, eventPc, botVars, sent, producerVars, crashed>>

ReceiveNil(t) ==
  /\ audio[t] = "receive"
  /\ opusbuf[t] # <<>>
  /\ Head(opusbuf[t]) = NilFrame
  /\ opusbuf' = [opusbuf EXCEPT ![t] = Tail(@)]
  /\ Conclude(t, "exception")
  /\ UNCHANGED <<readerVars, eventPc, botVars, sent, producerVars, crashed>>

ReceiveClosed(t) ==
  /\ audio[t] = "receive"
  /\ opusbuf[t] = <<>>
  /\ closed[t]
  /\ Conclude(t, "finished")
  /\ UNCHANGED <<readerVars, eventPc, botVars, sent, producerVars, opusbuf,
                 crashed>>

\* After a stop: Stop has returned already, so a Play may come before this.
HaltTrack(t) ==
  /\ audio[t] = "halting"
  /\ Conclude(t, "stopped")
  /\ UNCHANGED <<readerVars, eventPc, botVars, sent, producerVars, opusbuf,
                 crashed>>

-----------------------------------------------------------------------------
(* The producer of a track.                                                 *)

FetchFrame(t) ==
  /\ producer[t] = "fetch"
  /\ fetched[t] < Frames[t]
  /\ fetched' = [fetched EXCEPT ![t] = @ + 1]
  /\ producer' = [producer EXCEPT ![t] = "offer"]
  /\ UNCHANGED <<readerVars, eventPc, botVars, playerVars, audioVars,
                 closed, opusbuf, crashed>>

\* Mutant of FetchFails: the producer returns without sending nil.
FetchFailsSilently(t) ==
  /\ "source" \in Faults
  /\ producer[t] = "fetch"
  /\ producer' = [producer EXCEPT ![t] = "exit"]
  /\ UNCHANGED <<readerVars, eventPc, botVars, playerVars, audioVars,
                 fetched, closed, opusbuf, crashed>>

FetchFails(t) ==
  /\ "source" \in Faults
  /\ producer[t] = "fetch"
  /\ producer' = [producer EXCEPT ![t] = "offerNil"]
  /\ UNCHANGED <<readerVars, eventPc, botVars, playerVars, audioVars,
                 fetched, closed, opusbuf, crashed>>

FetchEOF(t) ==
  /\ producer[t] = "fetch"
  /\ fetched[t] = Frames[t]
  /\ closed' = [closed EXCEPT ![t] = TRUE]
  /\ producer' = [producer EXCEPT ![t] = "exit"]
  /\ UNCHANGED <<readerVars, eventPc, botVars, playerVars, audioVars,
                 fetched, opusbuf, crashed>>

\* Mutant of OfferFrame: the channel takes more than its capacity.
OfferFrameUnbounded(t) ==
  /\ producer[t] = "offer"
  /\ opusbuf' = [opusbuf EXCEPT ![t] = Append(@, fetched[t])]
  /\ producer' = [producer EXCEPT ![t] = "fetch"]
  /\ UNCHANGED <<readerVars, eventPc, botVars, playerVars, audioVars,
                 fetched, closed, crashed>>

\* Mutant of OfferFrame: the select has a default, which drops the frame.
OfferFrameOrDrop(t) ==
  /\ producer[t] = "offer"
  /\ opusbuf' = IF Len(opusbuf[t]) < BufCap
                THEN [opusbuf EXCEPT ![t] = Append(@, fetched[t])]
                ELSE opusbuf
  /\ producer' = [producer EXCEPT ![t] = "fetch"]
  /\ UNCHANGED <<readerVars, eventPc, botVars, playerVars, audioVars,
                 fetched, closed, crashed>>

\* The send case of the producer's select.
OfferFrame(t) ==
  /\ producer[t] = "offer"
  /\ Len(opusbuf[t]) < BufCap
  /\ opusbuf' = [opusbuf EXCEPT ![t] = Append(@, fetched[t])]
  /\ producer' = [producer EXCEPT ![t] = "fetch"]
  /\ UNCHANGED <<readerVars, eventPc, botVars, playerVars, audioVars,
                 fetched, closed, crashed>>

\* The send of nil is in no select: it waits for room and hears no stop.
OfferNil(t) ==
  /\ producer[t] = "offerNil"
  /\ Len(opusbuf[t]) < BufCap
  /\ opusbuf' = [opusbuf EXCEPT ![t] = Append(@, NilFrame)]
  /\ producer' = [producer EXCEPT ![t] = "exit"]
  /\ UNCHANGED <<readerVars, eventPc, botVars, playerVars, audioVars,
                 fetched, closed, crashed>>

-----------------------------------------------------------------------------
(* Rendezvous between the event loop and the goroutines of a track.         *)

\* Stop meets the select of a tick, or the one inside a pause.
StopTakenByAudio(t) ==
  /\ eventPc = "stop"
  /\ audio[t] \in {"tick", "paused"}
  /\ audio' = [audio EXCEPT ![t] = "halting"]
  /\ eventPc' = "idle"
  /\ UNCHANGED <<readerVars, botVars, playerVars, outcome, sent,
                 producerVars, opusbuf, crashed>>

\* Stop meets the other case of the producer's select: its frame is dropped
\* and opusbuf stays open.
StopTakenByProducer(t) ==
  /\ eventPc = "stop"
  /\ producer[t] = "offer"
  /\ producer' = [producer EXCEPT ![t] = "exit"]
  /\ eventPc' = "idle"
  /\ UNCHANGED <<readerVars, botVars, playerVars, audioVars, fetched,
                 closed, opusbuf, crashed>>

\* The value sent on pause is not looked at: a Resume pauses too ...
PauseTakenAtTick(t) ==
  /\ eventPc \in {"pause", "resume"}
  /\ audio[t] = "tick"
  /\ audio' = [audio EXCEPT ![t] = "notify"]
  /\ eventPc' = "idle"
  /\ UNCHANGED <<readerVars, botVars, playerVars, outcome, sent,
                 producerVars, opusbuf, crashed>>

\* ... and a Pause resumes.
PauseTakenWhilePaused(t) ==
  /\ eventPc \in {"pause", "resume"}
  /\ audio[t] = "paused"
  /\ audio' = [audio EXCEPT ![t] = "receive"]
  /\ eventPc' = "idle"
  /\ UNCHANGED <<readerVars, botVars, playerVars, outcome, sent,
                 producerVars, opusbuf, crashed>>

\* OnTrackPaused only logs.
DeliverPaused(t) ==
  /\ eventPc = "idle"
  /\ audio[t] = "notify"
  /\ audio' = [audio EXCEPT ![t] = "paused"]
  /\ UNCHANGED <<readerVars, eventPc, botVars, playerVars, outcome, sent,
                 producerVars, opusbuf, crashed>>

\* Mutant of DeliverOutcome: OnTrackFinished does not start the next track.
DeliverOutcomeOnly(t) ==
  /\ eventPc = "idle"
  /\ audio[t] = "report"
  /\ audio' = [audio EXCEPT ![t] = "exit"]
  /\ UNCHANGED <<readerVars, eventPc, botVars, playerVars, outcome, sent,
                 producerVars, opusbuf, crashed>>

\* The last event of a track: OnTrackFinished starts the next one,
\* OnTrackStopped and OnTrackException only log.
DeliverOutcome(t) ==
  /\ eventPc = "idle"
  /\ audio[t] = "report"
  /\ audio' = [audio EXCEPT ![t] = "exit"]
  /\ eventPc' = IF outcome[t] = "finished" THEN "start" ELSE "idle"
  /\ UNCHANGED <<readerVars, botVars, playerVars, outcome, sent,
                 producerVars, opusbuf, crashed>>

-----------------------------------------------------------------------------
EventStep ==
  \/ DeliverMessage
  \/ LoadTrack \/ LoadTrackRejected \/ LoadTrackExits
  \/ StartNothing \/ StartNextTrack \/ StartPanics

AudioStep(t) ==
  \/ NewOpusEncoder(t) \/ NewOpusEncoderFails(t)
  \/ NoCommand(t)
  \/ ReceiveFrame(t) \/ ReceiveNil(t) \/ ReceiveClosed(t)
  \/ HaltTrack(t)

ProducerStep(t) ==
  \/ FetchFrame(t) \/ FetchFails(t) \/ FetchEOF(t)
  \/ OfferFrame(t) \/ OfferNil(t)

Rendezvous(t) ==
  \/ StopTakenByAudio(t) \/ StopTakenByProducer(t)
  \/ PauseTakenAtTick(t) \/ PauseTakenWhilePaused(t)
  \/ DeliverPaused(t) \/ DeliverOutcome(t)

Next ==
  /\ ~crashed
  /\ \/ ReadMessage
     \/ EventStep
     \/ \E t \in Tracks : AudioStep(t) \/ ProducerStep(t) \/ Rendezvous(t)

Spec == Init /\ [][Next]_vars

\* Every goroutine that can run does in the end, and so does a send whose
\* receiver waits: the Go scheduler starves nobody.  Which sender a receiver
\* picks, and whether another message comes, is left open.
Fairness ==
  /\ WF_vars(~crashed /\ EventStep)
  /\ \A t \in Tracks :
       /\ WF_vars(~crashed /\ AudioStep(t))
       /\ WF_vars(~crashed /\ ProducerStep(t))
       /\ WF_vars(~crashed /\ Rendezvous(t))

FairSpec == Spec /\ Fairness

-----------------------------------------------------------------------------
(* Properties                                                               *)

Playing(t) ==
  audio[t] \in {"start", "tick", "notify", "paused", "receive", "halting"}

\* At most one audioroutine is playing at any time, and it is the one of
\* currTrack: Play's unsynchronised test of currTrack (track.go:68) against the
\* assignments of nil by an audioroutine that may still be running.
OneVoice == \A t \in Tracks : Playing(t) => currTrack = t

\* No frame is lost, repeated or overtaken between the source and
\* sendAudioPacket while a producer runs or after it closed the channel: what
\* was fetched is what was sent, then what is buffered, then what it holds
\* (track.go:104-124, 162).
FramesConserved ==
  \A t \in Tracks :
    producer[t] \in {"fetch", "offer", "offerNil"} \/ closed[t] =>
      /\ fetched[t] = sent[t] + Len(opusbuf[t])
                      + (IF producer[t] = "offer" THEN 1 ELSE 0)
      /\ \A i \in 1 .. Len(opusbuf[t]) : opusbuf[t][i] = sent[t] + i

\* Tracks start in the order in which they were requested, whatever mixture of
\* messages and "finished" events calls startNextTrack (main.go:64-74).
StartOrderKept ==
  \A t \in Tracks :
    audio[t] = "none" /\ audio'[t] # "none" =>
      \A u \in 1 .. t - 1 : audio[u] # "none"

StartsInOrder == [][StartOrderKept]_vars

\* The player implements the juke box: one track at a time, each once, its
\* frames in order, "finished" only after the last one (track.go:92-190).
Juke == INSTANCE JukeBox WITH
  now     <- currTrack,
  heard   <- sent,
  verdict <- [t \in Tracks |-> IF Done[t] THEN outcome[t] ELSE "none"]

ImplementsJukeBox == Juke!AbstractSpec

\* The program runs, nobody sent #stop, #pause or #resume, whose handlers may
\* wait for ever, and no encoder failed, which would leave Done as it is.
Undisturbed ==
  /\ ~crashed
  /\ eventPc \notin {"stop", "pause", "resume"}
  /\ \A t \in Tracks : audio[t] \in {"report", "exit"} => Done[t]

\* While it is undisturbed, every loaded track is played to its end unless a
\* source failed: the queue moves on with each "finished" event
\* (main.go:48-50), and no event or message handler waits for another for ever.
EveryTrackPlays ==
  []Undisturbed =>
    \A t \in Tracks :
      loaded >= t ~> \/ Done[t] /\ sent[t] = Frames[t]
                     \/ \E u \in Tracks : Done[u] /\ ~closed[u]

\* A source that fails does not hang the player: while it is undisturbed, every
\* track that was started ends with one event or the other, and leaves the
\* player free (track.go:176-184).
EveryStartEnds ==
  []Undisturbed =>
    \A t \in Tracks : Playing(t) ~> audio[t] = "exit" /\ Done[t]

-----------------------------------------------------------------------------
(* What comments of the code say, and the code does not do.                 *)

\* track.go:77 "Stops the current Track if one is playing": a Stop that returns
\* while a track is playing has reached the audioroutine of that track.
StopStopsCurrent ==
  [][eventPc = "stop" /\ eventPc' = "idle" /\ currTrack # None =>
       audio'[currTrack] = "halting"]_vars

\* track.go:82 "Pauses the current Track if one is playing": a Pause called
\* while a track is playing returns.
PauseReturnsWhilePlaying ==
  eventPc = "pause" /\ currTrack # None ~> eventPc # "pause"
=============================================================================
