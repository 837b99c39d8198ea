---------------------------- MODULE PlayerProofs ----------------------------
(* Proofs about Player, for every value of its constants. *)
EXTENDS Player, TLAPS

\* The queue holds the tracks loaded last, in order; the others were started.
QueueInv ==
  /\ Len(queue) <= loaded
  /\ \A i \in 1 .. Len(queue) : queue[i] = loaded - Len(queue) + i
  /\ \A t \in Tracks : audio[t] # "none" <=> t <= loaded - Len(queue)

\* A track is done only once its audioroutine has left the loop, and currTrack
\* is a track that was started and is not done.
VoiceInv ==
  /\ OneVoice
  /\ currTrack # None => ~Done[currTrack] /\ audio[currTrack] # "none"
  /\ \A t \in Tracks : Done[t] => audio[t] \in {"report", "exit"}

\* How many frames of a track are where ...
PipeCounts(t) ==
  /\ audio[t] \in {"none", "start"} => producer[t] = "none"
  /\ producer[t] = "none" =>
       fetched[t] = 0 /\ sent[t] = 0 /\ opusbuf[t] = <<>> /\ ~closed[t]
  /\ producer[t] \in {"fetch", "offer", "offerNil"} => ~closed[t]
  /\ producer[t] \in {"fetch", "offerNil"} \/ closed[t] =>
       fetched[t] = sent[t] + Len(opusbuf[t])
  /\ producer[t] = "offer" => fetched[t] = sent[t] + Len(opusbuf[t]) + 1
  /\ closed[t] => fetched[t] = Frames[t]
  /\ fetched[t] <= Frames[t]

\* ... and which ones are in its opusbuf: a nil can only be the last.
BufferedFrame(t, i) ==
  /\ \/ opusbuf[t][i] = sent[t] + i
     \/ /\ opusbuf[t][i] = NilFrame
        /\ i = Len(opusbuf[t])
        /\ producer[t] = "exit"
        /\ ~closed[t]
  /\ opusbuf[t][i] <= fetched[t]

PipeInv(t) ==
  /\ PipeCounts(t)
  /\ \A i \in 1 .. Len(opusbuf[t]) : BufferedFrame(t, i)

IInv ==
  /\ TypeOK
  /\ QueueInv
  /\ VoiceInv
  /\ \A t \in Tracks : PipeInv(t)

-----------------------------------------------------------------------------
\* Facts about the sequences that hold queue and opusbuf.
LEMMA TailFacts ==
  ASSUME NEW S, NEW s \in Seq(S), s # <<>>
  PROVE  /\ Head(s) \in S
         /\ Head(s) = s[1]
         /\ Len(s) > 0
         /\ Tail(s) \in Seq(S)
         /\ Len(Tail(s)) = Len(s) - 1
         /\ \A i \in 1 .. Len(Tail(s)) : Tail(s)[i] = s[i + 1]
  OBVIOUS

LEMMA AppendFacts ==
  ASSUME NEW S, NEW s \in Seq(S), NEW e \in S
  PROVE  /\ Append(s, e) \in Seq(S)
         /\ Len(Append(s, e)) = Len(s) + 1
         /\ \A i \in 1 .. Len(s) : Append(s, e)[i] = s[i]
         /\ Append(s, e)[Len(s) + 1] = e
  OBVIOUS

\* One case per action of Next: what each invariant's proof has to show.
LEMMA NextCases ==
  ASSUME NEW P,
         ReadMessage => P,
         DeliverMessage => P,
         LoadTrack => P,
         LoadTrackRejected => P,
         LoadTrackExits => P,
         StartNothing => P,
         StartNextTrack => P,
         StartPanics => P,
         \A t \in Tracks : NewOpusEncoder(t) => P,
         \A t \in Tracks : NewOpusEncoderFails(t) => P,
         \A t \in Tracks : NoCommand(t) => P,
         \A t \in Tracks : ReceiveFrame(t) => P,
         \A t \in Tracks : ReceiveNil(t) => P,
         \A t \in Tracks : ReceiveClosed(t) => P,
         \A t \in Tracks : HaltTrack(t) => P,
         \A t \in Tracks : FetchFrame(t) => P,
         \A t \in Tracks : FetchFails(t) => P,
         \A t \in Tracks : FetchEOF(t) => P,
         \A t \in Tracks : OfferFrame(t) => P,
         \A t \in Tracks : OfferNil(t) => P,
         \A t \in Tracks : StopTakenByAudio(t) => P,
         \A t \in Tracks : StopTakenByProducer(t) => P,
         \A t \in Tracks : PauseTakenAtTick(t) => P,
         \A t \in Tracks : PauseTakenWhilePaused(t) => P,
         \A t \in Tracks : DeliverPaused(t) => P,
         \A t \in Tracks : DeliverOutcome(t) => P,
         UNCHANGED vars => P,
         [Next]_vars
  PROVE  P
  BY DEF Next, EventStep, AudioStep, ProducerStep, Rendezvous

-----------------------------------------------------------------------------
\* Type correctness.
LEMMA TypeInit == Init => TypeOK
<1> SUFFICES ASSUME Init PROVE TypeOK
  OBVIOUS
<1>1. messages \in 0 .. MaxMessages /\ loaded \in 0 .. NTracks
  BY NTracksAssumption, MaxMessagesAssumption DEF Init
<1>2. /\ queue \in Seq(Tracks)
      /\ opusbuf \in [Tracks -> Seq(Nat)]
      /\ \A t \in Tracks : Len(opusbuf[t]) <= BufCap
  BY BufCapAssumption DEF Init
<1>3. QED
  BY <1>1, <1>2
  DEF Init, TypeOK, AudioStates, ProducerStates, Outcomes, EventStates, None,
      AllCommands

LEMMA TypeStep == TypeOK /\ [Next]_vars => TypeOK'
<1> SUFFICES ASSUME TypeOK, [Next]_vars PROVE TypeOK'
  OBVIOUS
<1> USE
DEF TypeOK, vars, readerVars, botVars, playerVars, audioVars, producerVars
<1>1. CASE ReadMessage
  <2>1. messages' \in 0 .. MaxMessages
    BY <1>1, MaxMessagesAssumption DEF ReadMessage
  <2>2. reader' \in AllCommands \cup {"none"}
    BY <1>1, CommandsAssumption DEF ReadMessage
  <2>3. QED
    BY <1>1, <2>1, <2>2 DEF ReadMessage
<1>2. CASE DeliverMessage
  BY <1>2
  DEF DeliverMessage, AudioStates, ProducerStates, Outcomes, EventStates,
      AllCommands, None
<1>3. CASE LoadTrack
  <2>1. loaded' \in 0 .. NTracks /\ loaded + 1 \in Tracks
    BY <1>3, NTracksAssumption DEF LoadTrack, Tracks
  <2>2. queue' \in Seq(Tracks)
    BY <1>3, <2>1, AppendFacts DEF LoadTrack
  <2>3. QED
    BY <1>3, <2>1, <2>2 DEF LoadTrack, EventStates
<1>4. CASE LoadTrackRejected
  BY <1>4
  DEF LoadTrackRejected, AudioStates, ProducerStates, Outcomes, EventStates,
      AllCommands, None
<1>5. CASE LoadTrackExits
  BY <1>5
  DEF LoadTrackExits, AudioStates, ProducerStates, Outcomes, EventStates,
      AllCommands, None
<1>6. CASE StartNothing
  BY <1>6
  DEF StartNothing, AudioStates, ProducerStates, Outcomes, EventStates,
      AllCommands, None
<1>7. CASE StartNextTrack
  BY <1>7
  DEF StartNextTrack, AudioStates, ProducerStates, Outcomes, EventStates,
      AllCommands, None
<1>8. CASE StartPanics
  BY <1>8
  DEF StartPanics, AudioStates, ProducerStates, Outcomes, EventStates,
      AllCommands, None
<1>9. ASSUME NEW t \in Tracks, NewOpusEncoder(t) PROVE TypeOK'
  BY <1>9
  DEF NewOpusEncoder, AudioStates, ProducerStates, Outcomes, EventStates, None
<1>10. ASSUME NEW t \in Tracks, NewOpusEncoderFails(t) PROVE TypeOK'
  BY <1>10
  DEF NewOpusEncoderFails, AudioStates, ProducerStates, Outcomes, EventStates,
      None
<1>11. ASSUME NEW t \in Tracks, NoCommand(t) PROVE TypeOK'
  BY <1>11
  DEF NoCommand, AudioStates, ProducerStates, Outcomes, EventStates, None
<1>12. ASSUME NEW t \in Tracks, ReceiveFrame(t) PROVE TypeOK'
  <2>1. opusbuf' = [opusbuf EXCEPT ![t] = Tail(opusbuf[t])]
    BY <1>12 DEF ReceiveFrame
  <2>2. /\ Tail(opusbuf[t]) \in Seq(Nat) /\ Head(opusbuf[t]) \in Nat
        /\ Len(Tail(opusbuf[t])) <= BufCap
    BY <1>12, TailFacts, BufCapAssumption, SMTT(30) DEF ReceiveFrame, NilFrame
  <2>3. /\ opusbuf' \in [Tracks -> Seq(Nat)]
        /\ \A u \in Tracks : Len(opusbuf'[u]) <= BufCap
    BY <2>1, <2>2
  <2>4. QED
    BY <1>12, <2>2, <2>3
    DEF ReceiveFrame, AudioStates, ProducerStates, Outcomes, EventStates, None
<1>13. ASSUME NEW t \in Tracks, ReceiveNil(t) PROVE TypeOK'
  <2>1. opusbuf' = [opusbuf EXCEPT ![t] = Tail(opusbuf[t])]
    BY <1>13 DEF ReceiveNil
  <2>2. /\ Tail(opusbuf[t]) \in Seq(Nat) /\ Head(opusbuf[t]) \in Nat
        /\ Len(Tail(opusbuf[t])) <= BufCap
    BY <1>13, TailFacts, BufCapAssumption DEF ReceiveNil, NilFrame
  <2>3. /\ opusbuf' \in [Tracks -> Seq(Nat)]
        /\ \A u \in Tracks : Len(opusbuf'[u]) <= BufCap
    BY <2>1, <2>2
  <2>4. QED
    BY <1>13, <2>2, <2>3
    DEF ReceiveNil, Conclude, AudioStates, ProducerStates, Outcomes,
        EventStates, None
<1>14. ASSUME NEW t \in Tracks, ReceiveClosed(t) PROVE TypeOK'
  BY <1>14
  DEF ReceiveClosed, Conclude, AudioStates, ProducerStates, Outcomes,
      EventStates, None
<1>h. ASSUME NEW t \in Tracks, HaltTrack(t) PROVE TypeOK'
  BY <1>h
  DEF HaltTrack, Conclude, AudioStates, ProducerStates, Outcomes, EventStates,
      None
<1>15. ASSUME NEW t \in Tracks, FetchFrame(t) PROVE TypeOK'
  BY <1>15
  DEF FetchFrame, AudioStates, ProducerStates, Outcomes, EventStates, None
<1>16. ASSUME NEW t \in Tracks, FetchFails(t) PROVE TypeOK'
  BY <1>16
  DEF FetchFails, AudioStates, ProducerStates, Outcomes, EventStates, None
<1>17. ASSUME NEW t \in Tracks, FetchEOF(t) PROVE TypeOK'
  BY <1>17
  DEF FetchEOF, AudioStates, ProducerStates, Outcomes, EventStates, None
<1>18. ASSUME NEW t \in Tracks, OfferFrame(t) PROVE TypeOK'
  <2>1. opusbuf' = [opusbuf EXCEPT ![t] = Append(opusbuf[t], fetched[t])]
    BY <1>18 DEF OfferFrame
  <2>2. /\ Append(opusbuf[t], fetched[t]) \in Seq(Nat)
        /\ Len(Append(opusbuf[t], fetched[t])) <= BufCap
    BY <1>18, AppendFacts, BufCapAssumption DEF OfferFrame, NilFrame
  <2>3. /\ opusbuf' \in [Tracks -> Seq(Nat)]
        /\ \A u \in Tracks : Len(opusbuf'[u]) <= BufCap
    BY <2>1, <2>2
  <2>4. QED
    BY <1>18, <2>2, <2>3
    DEF OfferFrame, AudioStates, ProducerStates, Outcomes, EventStates, None
<1>19. ASSUME NEW t \in Tracks, OfferNil(t) PROVE TypeOK'
  <2>1. opusbuf' = [opusbuf EXCEPT ![t] = Append(opusbuf[t], NilFrame)]
    BY <1>19 DEF OfferNil
  <2>2. /\ Append(opusbuf[t], NilFrame) \in Seq(Nat)
        /\ Len(Append(opusbuf[t], NilFrame)) <= BufCap
    BY <1>19, AppendFacts, BufCapAssumption DEF OfferNil, NilFrame
  <2>3. /\ opusbuf' \in [Tracks -> Seq(Nat)]
        /\ \A u \in Tracks : Len(opusbuf'[u]) <= BufCap
    BY <2>1, <2>2
  <2>4. QED
    BY <1>19, <2>2, <2>3
    DEF OfferNil, AudioStates, ProducerStates, Outcomes, EventStates, None
<1>20. ASSUME NEW t \in Tracks, StopTakenByAudio(t) PROVE TypeOK'
  BY <1>20
  DEF StopTakenByAudio, AudioStates, ProducerStates, Outcomes, EventStates, None
<1>21. ASSUME NEW t \in Tracks, StopTakenByProducer(t) PROVE TypeOK'
  BY <1>21
  DEF StopTakenByProducer, AudioStates, ProducerStates, Outcomes, EventStates,
      None
<1>22. ASSUME NEW t \in Tracks, PauseTakenAtTick(t) PROVE TypeOK'
  BY <1>22
  DEF PauseTakenAtTick, AudioStates, ProducerStates, Outcomes, EventStates, None
<1>23. ASSUME NEW t \in Tracks, PauseTakenWhilePaused(t) PROVE TypeOK'
  BY <1>23
  DEF PauseTakenWhilePaused, AudioStates, ProducerStates, Outcomes,
      EventStates, None
<1>24. ASSUME NEW t \in Tracks, DeliverPaused(t) PROVE TypeOK'
  BY <1>24
  DEF DeliverPaused, AudioStates, ProducerStates, Outcomes, EventStates, None
<1>25. ASSUME NEW t \in Tracks, DeliverOutcome(t) PROVE TypeOK'
  BY <1>25
  DEF DeliverOutcome, AudioStates, ProducerStates, Outcomes, EventStates, None
<1>26. CASE UNCHANGED vars
  BY <1>26
<1>27. QED
  BY <1>1, <1>2, <1>3, <1>4, <1>5, <1>6, <1>7, <1>8, <1>9, <1>10, <1>11, <1>12,
     <1>13, <1>14, <1>h, <1>15, <1>16, <1>17, <1>18, <1>19, <1>20, <1>21,
     <1>22, <1>23, <1>24, <1>25, <1>26, NextCases
\* The queue: only LoadTrack and StartNextTrack touch it.
LEMMA QueueStep ==
  ASSUME TypeOK, QueueInv, [Next]_vars
  PROVE  QueueInv'
<1> USE DEF vars, readerVars, botVars, playerVars, audioVars, producerVars
<1>a. /\ loaded \in Nat /\ loaded <= NTracks
      /\ queue \in Seq(Tracks) /\ Len(queue) \in Nat
      /\ Tracks \subseteq Nat
      /\ audio \in [Tracks -> AudioStates]
  BY NTracksAssumption DEF TypeOK, Tracks
<1>b. /\ Len(queue) <= loaded
      /\ \A i \in 1 .. Len(queue) : queue[i] = loaded - Len(queue) + i
      /\ \A t \in Tracks : audio[t] # "none" <=> t <= loaded - Len(queue)
  BY DEF QueueInv
<1>1. CASE ReadMessage
  BY <1>1 DEF ReadMessage, TypeOK, QueueInv
<1>2. CASE DeliverMessage
  BY <1>2 DEF DeliverMessage, TypeOK, QueueInv
<1>3. CASE LoadTrack
  <2>1. /\ queue' = Append(queue, loaded + 1)
        /\ loaded' = loaded + 1 /\ loaded + 1 \in Tracks
        /\ audio' = audio
    BY <1>3, <1>a, NTracksAssumption DEF LoadTrack, Tracks
  <2>2. /\ Len(queue') = Len(queue) + 1
        /\ \A i \in 1 .. Len(queue) : queue'[i] = queue[i]
        /\ queue'[Len(queue) + 1] = loaded + 1
    BY <2>1, <1>a, AppendFacts
  <2>3. loaded' - Len(queue') = loaded - Len(queue) /\ Len(queue') <= loaded'
    BY <2>1, <2>2, <1>a, <1>b
  <2>4. ASSUME NEW i \in 1 .. Len(queue')
        PROVE  queue'[i] = loaded' - Len(queue') + i
    <3>1. CASE i \in 1 .. Len(queue)
      BY <3>1, <2>2, <2>3, <1>b
    <3>2. CASE i = Len(queue) + 1
      BY <3>2, <2>2, <2>3, <1>a
    <3>3. QED
      BY <3>1, <3>2, <2>2, <1>a
  <2>5. QED
    BY <2>1, <2>3, <2>4, <1>b DEF QueueInv
<1>4. CASE LoadTrackRejected
  BY <1>4 DEF LoadTrackRejected, TypeOK, QueueInv
<1>5. CASE LoadTrackExits
  BY <1>5 DEF LoadTrackExits, TypeOK, QueueInv
<1>6. CASE StartNothing
  BY <1>6 DEF StartNothing, TypeOK, QueueInv
<1>7. CASE StartNextTrack
  <2> DEFINE h == Head(queue)
  <2>1. /\ queue # <<>> /\ queue' = Tail(queue)
        /\ loaded' = loaded
        /\ audio' = [audio EXCEPT ![h] = "start"]
    BY <1>7 DEF StartNextTrack
  <2>2. /\ h \in Tracks /\ h = queue[1]
        /\ Len(queue) > 0
        /\ Len(queue') = Len(queue) - 1
        /\ \A i \in 1 .. Len(queue') : queue'[i] = queue[i + 1]
    BY <2>1, <1>a, TailFacts
  <2>3. 1 \in 1 .. Len(queue)
    BY <2>2, <1>a
  <2>4. h = loaded - Len(queue) + 1
    BY <2>2, <2>3, <1>b
  <2>5. /\ Len(queue') \in Nat
        /\ Len(queue') <= loaded'
        /\ loaded' - Len(queue') = loaded - Len(queue) + 1
    <3>1. Len(queue') \in Nat
      BY <2>2, <1>a
    <3>2. loaded' - Len(queue') = loaded - (Len(queue) - 1)
      BY <2>1, <2>2
    <3>3. Len(queue) - 1 <= loaded
      BY <1>a, <1>b
    <3>4. Len(queue') <= loaded'
      BY <3>3, <2>1, <2>2
    <3>5. loaded - (Len(queue) - 1) = loaded - Len(queue) + 1
      BY <1>a
    <3>6. QED
      BY <3>1, <3>2, <3>4, <3>5
  <2> HIDE DEF h
  <2>6. ASSUME NEW i \in 1 .. Len(queue')
        PROVE  queue'[i] = loaded' - Len(queue') + i
    <3>1. i + 1 \in 1 .. Len(queue)
      BY <2>2, <2>5, <1>a
    <3>2. queue[i + 1] = loaded - Len(queue) + (i + 1)
      BY <3>1, <1>b
    <3>3. QED
      BY <3>2, <2>2, <2>5, <1>a
  <2>7. ASSUME NEW u \in Tracks
        PROVE  audio'[u] # "none" <=> u <= loaded' - Len(queue')
    <3>1. CASE u = h
      BY <3>1, <2>1, <2>4, <2>5, <1>a
    <3>2. CASE u # h
      <4>1. audio'[u] = audio[u]
        BY <3>2, <2>1, <1>a
      <4>2. audio[u] # "none" <=> u <= loaded - Len(queue)
        BY <1>b
      <4>3. u <= loaded - Len(queue) + 1 <=> u <= loaded - Len(queue)
        BY <3>2, <2>4, <1>a
      <4>4. QED
        BY <4>1, <4>2, <4>3, <2>5
    <3>3. QED
      BY <3>1, <3>2
  <2>8. QED
    BY <2>5, <2>6, <2>7 DEF QueueInv
<1>8. CASE StartPanics
  BY <1>8 DEF StartPanics, TypeOK, QueueInv
<1>9. ASSUME NEW t \in Tracks, NewOpusEncoder(t) PROVE QueueInv'
  BY <1>9 DEF NewOpusEncoder, TypeOK, QueueInv
<1>10. ASSUME NEW t \in Tracks, NewOpusEncoderFails(t) PROVE QueueInv'
  BY <1>10 DEF NewOpusEncoderFails, TypeOK, QueueInv
<1>11. ASSUME NEW t \in Tracks, NoCommand(t) PROVE QueueInv'
  BY <1>11 DEF NoCommand, TypeOK, QueueInv
<1>12. ASSUME NEW t \in Tracks, ReceiveFrame(t) PROVE QueueInv'
  BY <1>12 DEF ReceiveFrame, TypeOK, QueueInv
<1>13. ASSUME NEW t \in Tracks, ReceiveNil(t) PROVE QueueInv'
  BY <1>13 DEF ReceiveNil, Conclude, TypeOK, QueueInv
<1>14. ASSUME NEW t \in Tracks, ReceiveClosed(t) PROVE QueueInv'
  BY <1>14 DEF ReceiveClosed, Conclude, TypeOK, QueueInv
<1>h. ASSUME NEW t \in Tracks, HaltTrack(t) PROVE QueueInv'
  BY <1>h DEF HaltTrack, Conclude, TypeOK, QueueInv
<1>15. ASSUME NEW t \in Tracks, FetchFrame(t) PROVE QueueInv'
  BY <1>15 DEF FetchFrame, TypeOK, QueueInv
<1>16. ASSUME NEW t \in Tracks, FetchFails(t) PROVE QueueInv'
  BY <1>16 DEF FetchFails, TypeOK, QueueInv
<1>17. ASSUME NEW t \in Tracks, FetchEOF(t) PROVE QueueInv'
  BY <1>17 DEF FetchEOF, TypeOK, QueueInv
<1>18. ASSUME NEW t \in Tracks, OfferFrame(t) PROVE QueueInv'
  BY <1>18 DEF OfferFrame, TypeOK, QueueInv
<1>19. ASSUME NEW t \in Tracks, OfferNil(t) PROVE QueueInv'
  BY <1>19 DEF OfferNil, TypeOK, QueueInv
<1>20. ASSUME NEW t \in Tracks, StopTakenByAudio(t) PROVE QueueInv'
  BY <1>20 DEF StopTakenByAudio, TypeOK, QueueInv
<1>21. ASSUME NEW t \in Tracks, StopTakenByProducer(t) PROVE QueueInv'
  BY <1>21 DEF StopTakenByProducer, TypeOK, QueueInv
<1>22. ASSUME NEW t \in Tracks, PauseTakenAtTick(t) PROVE QueueInv'
  BY <1>22 DEF PauseTakenAtTick, TypeOK, QueueInv
<1>23. ASSUME NEW t \in Tracks, PauseTakenWhilePaused(t) PROVE QueueInv'
  BY <1>23 DEF PauseTakenWhilePaused, TypeOK, QueueInv
<1>24. ASSUME NEW t \in Tracks, DeliverPaused(t) PROVE QueueInv'
  BY <1>24 DEF DeliverPaused, TypeOK, QueueInv
<1>25. ASSUME NEW t \in Tracks, DeliverOutcome(t) PROVE QueueInv'
  BY <1>25 DEF DeliverOutcome, TypeOK, QueueInv
<1>26. CASE UNCHANGED vars
  BY <1>26 DEF TypeOK, QueueInv
<1>27. QED
  BY <1>1, <1>2, <1>3, <1>4, <1>5, <1>6, <1>7, <1>8, <1>9, <1>10, <1>11, <1>12,
     <1>13, <1>14, <1>h, <1>15, <1>16, <1>17, <1>18, <1>19, <1>20, <1>21,
     <1>22, <1>23, <1>24, <1>25, <1>26, NextCases

\* Who plays: Play claims currTrack, and only its owner gives it up.
LEMMA VoiceStep ==
  ASSUME TypeOK, VoiceInv, [Next]_vars
  PROVE  VoiceInv'
<1>0. None \notin Tracks
  BY NTracksAssumption DEF None, Tracks
<1> USE
DEF TypeOK, VoiceInv, OneVoice, Playing, vars, readerVars, botVars, playerVars,
    audioVars, producerVars
<1>1. CASE ReadMessage
  BY <1>1, <1>0 DEF ReadMessage
<1>2. CASE DeliverMessage
  BY <1>2, <1>0 DEF DeliverMessage
<1>3. CASE LoadTrack
  BY <1>3, <1>0 DEF LoadTrack
<1>4. CASE LoadTrackRejected
  BY <1>4, <1>0 DEF LoadTrackRejected
<1>5. CASE LoadTrackExits
  BY <1>5, <1>0 DEF LoadTrackExits
<1>6. CASE StartNothing
  BY <1>6, <1>0 DEF StartNothing
<1>7. CASE StartNextTrack
  <2> DEFINE h == Head(queue)
  <2>1. h \in Tracks
    BY <1>7, TailFacts DEF StartNextTrack
  <2>2. QED
    BY <1>7, <2>1, <1>0 DEF StartNextTrack, CanPlay
<1>8. CASE StartPanics
  BY <1>8, <1>0 DEF StartPanics
<1>9. ASSUME NEW t \in Tracks, NewOpusEncoder(t) PROVE VoiceInv'
  BY <1>9, <1>0 DEF NewOpusEncoder
<1>10. ASSUME NEW t \in Tracks, NewOpusEncoderFails(t) PROVE VoiceInv'
  BY <1>10, <1>0 DEF NewOpusEncoderFails
<1>11. ASSUME NEW t \in Tracks, NoCommand(t) PROVE VoiceInv'
  BY <1>11, <1>0 DEF NoCommand
<1>12. ASSUME NEW t \in Tracks, ReceiveFrame(t) PROVE VoiceInv'
  BY <1>12, <1>0 DEF ReceiveFrame
<1>13. ASSUME NEW t \in Tracks, ReceiveNil(t) PROVE VoiceInv'
  BY <1>13, <1>0 DEF ReceiveNil, Conclude
<1>14. ASSUME NEW t \in Tracks, ReceiveClosed(t) PROVE VoiceInv'
  BY <1>14, <1>0 DEF ReceiveClosed, Conclude
<1>h. ASSUME NEW t \in Tracks, HaltTrack(t) PROVE VoiceInv'
  BY <1>h, <1>0 DEF HaltTrack, Conclude
<1>15. ASSUME NEW t \in Tracks, FetchFrame(t) PROVE VoiceInv'
  BY <1>15, <1>0 DEF FetchFrame
<1>16. ASSUME NEW t \in Tracks, FetchFails(t) PROVE VoiceInv'
  BY <1>16, <1>0 DEF FetchFails
<1>17. ASSUME NEW t \in Tracks, FetchEOF(t) PROVE VoiceInv'
  BY <1>17, <1>0 DEF FetchEOF
<1>18. ASSUME NEW t \in Tracks, OfferFrame(t) PROVE VoiceInv'
  BY <1>18, <1>0 DEF OfferFrame
<1>19. ASSUME NEW t \in Tracks, OfferNil(t) PROVE VoiceInv'
  BY <1>19, <1>0 DEF OfferNil
<1>20. ASSUME NEW t \in Tracks, StopTakenByAudio(t) PROVE VoiceInv'
  BY <1>20, <1>0 DEF StopTakenByAudio
<1>21. ASSUME NEW t \in Tracks, StopTakenByProducer(t) PROVE VoiceInv'
  BY <1>21, <1>0 DEF StopTakenByProducer
<1>22. ASSUME NEW t \in Tracks, PauseTakenAtTick(t) PROVE VoiceInv'
  BY <1>22, <1>0 DEF PauseTakenAtTick
<1>23. ASSUME NEW t \in Tracks, PauseTakenWhilePaused(t) PROVE VoiceInv'
  BY <1>23, <1>0 DEF PauseTakenWhilePaused
<1>24. ASSUME NEW t \in Tracks, DeliverPaused(t) PROVE VoiceInv'
  BY <1>24, <1>0 DEF DeliverPaused
<1>25. ASSUME NEW t \in Tracks, DeliverOutcome(t) PROVE VoiceInv'
  BY <1>25, <1>0 DEF DeliverOutcome
<1>26. CASE UNCHANGED vars
  BY <1>26
<1>27. QED
  BY <1>1, <1>2, <1>3, <1>4, <1>5, <1>6, <1>7, <1>8, <1>9, <1>10, <1>11, <1>12,
     <1>13, <1>14, <1>h, <1>15, <1>16, <1>17, <1>18, <1>19, <1>20, <1>21,
     <1>22, <1>23, <1>24, <1>25, <1>26, NextCases

\* The frames of one track, on their way from the source to the wire.
LEMMA PipeStep ==
  ASSUME TypeOK, QueueInv, [Next]_vars, NEW u \in Tracks, PipeInv(u)
  PROVE  PipeInv(u)'
<1>0. /\ Frames[u] \in Nat /\ fetched[u] \in Nat /\ sent[u] \in Nat
      /\ opusbuf[u] \in Seq(Nat) /\ Len(opusbuf[u]) \in Nat
  BY FramesAssumption DEF TypeOK
<1>00. /\ PipeCounts(u)
       /\ \A i \in 1 .. Len(opusbuf[u]) : BufferedFrame(u, i)
  BY DEF PipeInv
<1> USE DEF vars, readerVars, botVars, playerVars, audioVars, producerVars
<1>1. CASE ReadMessage
  BY <1>1, <1>0 DEF ReadMessage, TypeOK, PipeInv, PipeCounts, BufferedFrame
<1>2. CASE DeliverMessage
  BY <1>2, <1>0 DEF DeliverMessage, TypeOK, PipeInv, PipeCounts, BufferedFrame
<1>3. CASE LoadTrack
  BY <1>3, <1>0 DEF LoadTrack, TypeOK, PipeInv, PipeCounts, BufferedFrame
<1>4. CASE LoadTrackRejected
  BY <1>4, <1>0
  DEF LoadTrackRejected, TypeOK, PipeInv, PipeCounts, BufferedFrame
<1>5. CASE LoadTrackExits
  BY <1>5, <1>0 DEF LoadTrackExits, TypeOK, PipeInv, PipeCounts, BufferedFrame
<1>6. CASE StartNothing
  BY <1>6, <1>0 DEF StartNothing, TypeOK, PipeInv, PipeCounts, BufferedFrame
<1>7. CASE StartNextTrack
  <2>1. /\ Head(queue) \in Tracks /\ Head(queue) = queue[1]
        /\ Len(queue) \in Nat /\ Len(queue) > 0
        /\ loaded \in Nat /\ audio' = [audio EXCEPT ![Head(queue)] = "start"]
    BY <1>7, TailFacts DEF StartNextTrack, TypeOK
  <2>2. 1 \in 1 .. Len(queue)
    BY <2>1
  <2>3. queue[1] = loaded - Len(queue) + 1
    BY <2>2 DEF QueueInv
  <2>4. ~(queue[1] <= loaded - Len(queue))
    BY <2>1, <2>3
  <2>5. audio[Head(queue)] = "none"
    BY <2>1, <2>4 DEF QueueInv
  <2>6. audio'[u] \in {"none", "start"} => audio[u] \in {"none", "start"}
    BY <2>1, <2>5 DEF TypeOK
  <2>7. QED
    BY <1>7, <2>6 DEF StartNextTrack, PipeInv, PipeCounts, BufferedFrame
<1>8. CASE StartPanics
  BY <1>8, <1>0 DEF StartPanics, TypeOK, PipeInv, PipeCounts, BufferedFrame
<1>9. ASSUME NEW t \in Tracks, NewOpusEncoder(t) PROVE PipeInv(u)'
  BY <1>9, <1>0 DEF NewOpusEncoder, TypeOK, PipeInv, PipeCounts, BufferedFrame
<1>10. ASSUME NEW t \in Tracks, NewOpusEncoderFails(t) PROVE PipeInv(u)'
  BY <1>10, <1>0
  DEF NewOpusEncoderFails, TypeOK, PipeInv, PipeCounts, BufferedFrame
<1>11. ASSUME NEW t \in Tracks, NoCommand(t) PROVE PipeInv(u)'
  BY <1>11, <1>0 DEF NoCommand, TypeOK, PipeInv, PipeCounts, BufferedFrame
<1>12. ASSUME NEW t \in Tracks, ReceiveFrame(t) PROVE PipeInv(u)'
  <2>1. CASE u # t
    BY <1>12, <2>1 DEF ReceiveFrame, TypeOK, PipeInv, PipeCounts, BufferedFrame
  <2>2. CASE u = t
    <3> DEFINE b == opusbuf[u]
    <3>1. /\ b # <<>> /\ Head(b) # NilFrame
          /\ opusbuf'[u] = Tail(b) /\ sent'[u] = Head(b)
          /\ audio'[u] = "tick" /\ producer' = producer
          /\ fetched' = fetched /\ closed' = closed
      BY <1>12, <2>2 DEF ReceiveFrame, TypeOK
    <3>2. /\ Head(b) = b[1] /\ Len(b) > 0 /\ Len(Tail(b)) = Len(b) - 1
          /\ \A i \in 1 .. Len(Tail(b)) : Tail(b)[i] = b[i + 1]
      BY <1>0, <3>1, TailFacts
    <3>3. 1 \in 1 .. Len(b)
      BY <1>0, <3>2
    <3>4. sent'[u] = sent[u] + 1
      BY <1>00, <3>1, <3>2, <3>3 DEF BufferedFrame
    <3>5. producer[u] # "none"
      BY <3>1, <1>00 DEF PipeCounts
    <3>6. sent'[u] + Len(opusbuf'[u]) = sent[u] + Len(b)
      <4>1. \A m, n \in Nat : (m + 1) + (n - 1) = m + n
        OBVIOUS
      <4>2. QED
        <5>1. sent'[u] + Len(opusbuf'[u]) = (sent[u] + 1) + (Len(b) - 1)
          BY <3>1, <3>2, <3>4
        <5>2. (sent[u] + 1) + (Len(b) - 1) = sent[u] + Len(b)
          BY <4>1, <1>0
        <5>3. QED
          BY <5>1, <5>2
    <3>7. PipeCounts(u)'
      BY <1>0, <1>00, <3>1, <3>5, <3>6 DEF PipeCounts
    <3>8. ASSUME NEW i \in 1 .. Len(opusbuf'[u])
          PROVE  BufferedFrame(u, i)'
      <4>1. i \in Nat /\ i + 1 \in 1 .. Len(b) /\ opusbuf'[u][i] = b[i + 1]
        BY <3>1, <3>2, <1>0
      <4>2. BufferedFrame(u, i + 1)
        BY <4>1, <1>00
      <4>3. sent[u] + (i + 1) = sent'[u] + i
        <5>1. \A m, n \in Nat : m + (n + 1) = (m + 1) + n
          OBVIOUS
        <5>2. QED
          BY <5>1, <1>0, <3>4, <4>1
      <4>4. i + 1 = Len(b) => i = Len(opusbuf'[u])
        BY <1>0, <3>1, <3>2, <4>1
      <4>5. QED
        BY <3>1, <4>1, <4>2, <4>3, <4>4 DEF BufferedFrame
    <3>9. QED
      BY <3>7, <3>8 DEF PipeInv
  <2>3. QED
    BY <2>1, <2>2
<1>13. ASSUME NEW t \in Tracks, ReceiveNil(t) PROVE PipeInv(u)'
  <2>1. CASE u # t
    BY <1>13, <2>1
    DEF ReceiveNil, Conclude, TypeOK, PipeInv, PipeCounts, BufferedFrame
  <2>2. CASE u = t
    <3> DEFINE b == opusbuf[u]
    <3>1. /\ b # <<>> /\ Head(b) = NilFrame
          /\ opusbuf'[u] = Tail(b) /\ sent' = sent
          /\ audio'[u] = "report" /\ producer' = producer
          /\ fetched' = fetched /\ closed' = closed
      BY <1>13, <2>2 DEF ReceiveNil, Conclude, TypeOK
    <3>2. Head(b) = b[1] /\ Len(b) > 0 /\ Len(Tail(b)) = Len(b) - 1
      BY <1>0, <3>1, TailFacts
    <3>3. 1 \in 1 .. Len(b)
      BY <1>0, <3>2
    <3>4. b[1] # sent[u] + 1
      BY <1>0, <3>1, <3>2 DEF NilFrame
    <3>5. 1 = Len(b) /\ producer[u] = "exit" /\ ~closed[u]
      BY <3>3, <3>4, <1>00 DEF BufferedFrame
    <3>6. Len(opusbuf'[u]) = 0
      BY <3>1, <3>2, <3>5
    <3>7. PipeCounts(u)'
      BY <1>00, <3>1, <3>5 DEF PipeCounts
    <3>8. QED
      BY <3>6, <3>7 DEF PipeInv
  <2>3. QED
    BY <2>1, <2>2
<1>14. ASSUME NEW t \in Tracks, ReceiveClosed(t) PROVE PipeInv(u)'
  BY <1>14, <1>0
  DEF ReceiveClosed, Conclude, TypeOK, PipeInv, PipeCounts, BufferedFrame
<1>h. ASSUME NEW t \in Tracks, HaltTrack(t) PROVE PipeInv(u)'
  BY <1>h, <1>0
  DEF HaltTrack, Conclude, TypeOK, PipeInv, PipeCounts, BufferedFrame
<1>15. ASSUME NEW t \in Tracks, FetchFrame(t) PROVE PipeInv(u)'
  <2>1. CASE u # t
    BY <1>15, <2>1 DEF FetchFrame, TypeOK, PipeInv, PipeCounts, BufferedFrame
  <2>2. CASE u = t
    <3>1. /\ fetched'[u] = fetched[u] + 1 /\ fetched[u] < Frames[u]
          /\ producer[u] = "fetch" /\ producer'[u] = "offer"
          /\ audio' = audio /\ sent' = sent /\ opusbuf' = opusbuf
          /\ closed' = closed
      BY <1>15, <2>2 DEF FetchFrame, TypeOK
    <3>2. PipeCounts(u)'
      BY <1>0, <1>00, <3>1 DEF PipeCounts
    <3>3. ASSUME NEW i \in 1 .. Len(opusbuf'[u])
          PROVE  BufferedFrame(u, i)'
      <4>1. BufferedFrame(u, i) /\ opusbuf[u][i] \in Nat
        BY <1>0, <1>00, <3>1
      <4>2. opusbuf[u][i] <= fetched[u] => opusbuf[u][i] <= fetched'[u]
        BY <1>0, <3>1, <4>1
      <4>3. QED
        BY <3>1, <4>1, <4>2 DEF BufferedFrame
    <3>4. QED
      BY <3>2, <3>3 DEF PipeInv
  <2>3. QED
    BY <2>1, <2>2
<1>16. ASSUME NEW t \in Tracks, FetchFails(t) PROVE PipeInv(u)'
  BY <1>16, <1>0 DEF FetchFails, TypeOK, PipeInv, PipeCounts, BufferedFrame
<1>17. ASSUME NEW t \in Tracks, FetchEOF(t) PROVE PipeInv(u)'
  BY <1>17, <1>0 DEF FetchEOF, TypeOK, PipeInv, PipeCounts, BufferedFrame
<1>18. ASSUME NEW t \in Tracks, OfferFrame(t) PROVE PipeInv(u)'
  <2>1. CASE u # t
    BY <1>18, <2>1 DEF OfferFrame, TypeOK, PipeInv, PipeCounts, BufferedFrame
  <2>2. CASE u = t
    <3> DEFINE b == opusbuf[u]
    <3>1. /\ opusbuf'[u] = Append(b, fetched[u])
          /\ producer[u] = "offer" /\ producer'[u] = "fetch"
          /\ audio' = audio /\ sent' = sent
          /\ fetched' = fetched /\ closed' = closed
      BY <1>18, <2>2 DEF OfferFrame, TypeOK
    <3>2. /\ Len(opusbuf'[u]) = Len(b) + 1
          /\ \A i \in 1 .. Len(b) : opusbuf'[u][i] = b[i]
          /\ opusbuf'[u][Len(b) + 1] = fetched[u]
      BY <1>0, <3>1, AppendFacts DEF NilFrame
    <3>3. ~closed[u]
      BY <1>00, <3>1 DEF PipeCounts
    <3>4. fetched[u] = sent[u] + (Len(b) + 1)
      <4>1. \A m, n \in Nat : m + n + 1 = m + (n + 1)
        OBVIOUS
      <4>2. QED
        BY <4>1, <1>0, <1>00, <3>1 DEF PipeCounts
    <3>5. PipeCounts(u)'
      BY <1>00, <3>1, <3>2, <3>3, <3>4 DEF PipeCounts
    <3>6. ASSUME NEW i \in 1 .. Len(opusbuf'[u])
          PROVE  BufferedFrame(u, i)'
      <4>1. CASE i \in 1 .. Len(b)
        <5>1. BufferedFrame(u, i) /\ opusbuf'[u][i] = opusbuf[u][i]
          BY <1>00, <3>2, <4>1
        <5>2. QED
          BY <5>1, <3>1 DEF BufferedFrame
      <4>2. CASE i = Len(b) + 1
        <5>1. opusbuf'[u][i] = fetched[u] /\ fetched[u] = sent[u] + i
          BY <3>2, <3>4, <4>2
        <5>2. fetched[u] <= fetched[u]
          BY <1>0
        <5>3. QED
          BY <5>1, <5>2, <3>1 DEF BufferedFrame
      <4>3. QED
        BY <1>0, <3>2, <4>1, <4>2
    <3>7. QED
      BY <3>5, <3>6 DEF PipeInv
  <2>3. QED
    BY <2>1, <2>2
<1>19. ASSUME NEW t \in Tracks, OfferNil(t) PROVE PipeInv(u)'
  <2>1. CASE u # t
    BY <1>19, <2>1 DEF OfferNil, TypeOK, PipeInv, PipeCounts, BufferedFrame
  <2>2. CASE u = t
    <3> DEFINE b == opusbuf[u]
    <3>1. /\ opusbuf'[u] = Append(b, NilFrame)
          /\ producer[u] = "offerNil" /\ producer'[u] = "exit"
          /\ audio' = audio /\ sent' = sent
          /\ fetched' = fetched /\ closed' = closed
      BY <1>19, <2>2 DEF OfferNil, TypeOK
    <3>2. /\ Len(opusbuf'[u]) = Len(b) + 1
          /\ \A i \in 1 .. Len(b) : opusbuf'[u][i] = b[i]
          /\ opusbuf'[u][Len(b) + 1] = NilFrame
      BY <1>0, <3>1, AppendFacts DEF NilFrame
    <3>3. ~closed[u]
      BY <1>00, <3>1 DEF PipeCounts
    <3>4. PipeCounts(u)'
      BY <1>00, <3>1, <3>3 DEF PipeCounts
    <3>5. ASSUME NEW i \in 1 .. Len(opusbuf'[u])
          PROVE  BufferedFrame(u, i)'
      <4>1. CASE i \in 1 .. Len(b)
        <5>1. BufferedFrame(u, i) /\ opusbuf'[u][i] = opusbuf[u][i]
          BY <1>00, <3>2, <4>1
        <5>2. QED
          BY <5>1, <3>1 DEF BufferedFrame
      <4>2. CASE i = Len(b) + 1
        <5>1. opusbuf'[u][i] = NilFrame /\ i = Len(opusbuf'[u])
          BY <3>2, <4>2
        <5>2. NilFrame <= fetched[u]
          BY <1>0 DEF NilFrame
        <5>3. QED
          BY <5>1, <5>2, <3>1, <3>3 DEF BufferedFrame
      <4>3. QED
        BY <1>0, <3>2, <4>1, <4>2
    <3>6. QED
      BY <3>4, <3>5 DEF PipeInv
  <2>3. QED
    BY <2>1, <2>2
<1>20. ASSUME NEW t \in Tracks, StopTakenByAudio(t) PROVE PipeInv(u)'
  BY <1>20, <1>0
  DEF StopTakenByAudio, TypeOK, PipeInv, PipeCounts, BufferedFrame
<1>21. ASSUME NEW t \in Tracks, StopTakenByProducer(t) PROVE PipeInv(u)'
  BY <1>21, <1>0
  DEF StopTakenByProducer, TypeOK, PipeInv, PipeCounts, BufferedFrame
<1>22. ASSUME NEW t \in Tracks, PauseTakenAtTick(t) PROVE PipeInv(u)'
  BY <1>22, <1>0
  DEF PauseTakenAtTick, TypeOK, PipeInv, PipeCounts, BufferedFrame
<1>23. ASSUME NEW t \in Tracks, PauseTakenWhilePaused(t) PROVE PipeInv(u)'
  BY <1>23, <1>0
  DEF PauseTakenWhilePaused, TypeOK, PipeInv, PipeCounts, BufferedFrame
<1>24. ASSUME NEW t \in Tracks, DeliverPaused(t) PROVE PipeInv(u)'
  BY <1>24, <1>0 DEF DeliverPaused, TypeOK, PipeInv, PipeCounts, BufferedFrame
<1>25. ASSUME NEW t \in Tracks, DeliverOutcome(t) PROVE PipeInv(u)'
  BY <1>25, <1>0 DEF DeliverOutcome, TypeOK, PipeInv, PipeCounts, BufferedFrame
<1>26. CASE UNCHANGED vars
  BY <1>26 DEF TypeOK, PipeInv, PipeCounts, BufferedFrame
<1>27. QED
  BY <1>1, <1>2, <1>3, <1>4, <1>5, <1>6, <1>7, <1>8, <1>9, <1>10, <1>11, <1>12,
     <1>13, <1>14, <1>h, <1>15, <1>16, <1>17, <1>18, <1>19, <1>20, <1>21,
     <1>22, <1>23, <1>24, <1>25, <1>26, NextCases

-----------------------------------------------------------------------------
LEMMA InvInit == Init => IInv
<1> SUFFICES ASSUME Init PROVE IInv
  OBVIOUS
<1>1. TypeOK
  BY TypeInit
<1>2. QueueInv
  <2>1. \A t \in Tracks : t \in Nat /\ t >= 1
    BY NTracksAssumption DEF Tracks
  <2>2. QED
    BY <2>1 DEF Init, QueueInv
<1>3. VoiceInv
  BY DEF Init, VoiceInv, OneVoice, Playing, None
<1>4. ASSUME NEW t \in Tracks PROVE PipeInv(t)
  <2>1. Frames[t] \in Nat
    BY FramesAssumption
  <2>2. QED
    BY <2>1 DEF Init, PipeInv, PipeCounts
<1>5. QED
  BY <1>1, <1>2, <1>3, <1>4 DEF IInv

LEMMA InvStep == IInv /\ [Next]_vars => IInv'
<1> SUFFICES ASSUME IInv, [Next]_vars PROVE IInv'
  OBVIOUS
<1>1. ASSUME NEW t \in Tracks PROVE PipeInv(t)'
  BY PipeStep DEF IInv
<1>2. Tracks' = Tracks
  BY DEF Tracks
<1>3. QED
  BY <1>1, TypeStep, QueueStep, VoiceStep DEF IInv

\* The invariant of every reachable state.
THEOREM Invariance == Spec => []IInv
<1>1. QED
  BY InvInit, InvStep, PTL DEF Spec

\* Every variable keeps its type, and no opusbuf holds more than its capacity,
\* whatever the tracks, their lengths, the messages and the faults.
THEOREM TypeCorrect == Spec => []TypeOK
<1>1. IInv => TypeOK
  BY DEF IInv
<1>2. QED
  BY <1>1, Invariance, PTL

\* At most one audioroutine plays, the one of currTrack.
THEOREM OneVoiceAlways == Spec => []OneVoice
<1>1. IInv => OneVoice
  BY DEF IInv, VoiceInv
<1>2. QED
  BY <1>1, Invariance, PTL

\* No frame is lost, repeated or overtaken between a source and the wire.
THEOREM FramesConservedAlways == Spec => []FramesConserved
<1>1. IInv => FramesConserved
  <2> SUFFICES ASSUME IInv, NEW t \in Tracks,
                      producer[t] \in {"fetch", "offer",
                      "offerNil"} \/ closed[t]
               PROVE  /\ fetched[t] = sent[t] + Len(opusbuf[t])
                                      + (IF producer[t] = "offer" THEN 1 ELSE 0)
                      /\ \A i \in 1 .. Len(opusbuf[t]) :
                           opusbuf[t][i] = sent[t] + i
    BY DEF FramesConserved
  <2>1. PipeInv(t) /\ fetched[t] \in Nat /\ sent[t] \in Nat
        /\ Len(opusbuf[t]) \in Nat
    BY DEF IInv, TypeOK
  <2>2. closed[t] => producer[t] # "offer"
    BY <2>1 DEF PipeInv, PipeCounts
  <2>3. fetched[t] = sent[t] + Len(opusbuf[t])
                     + (IF producer[t] = "offer" THEN 1 ELSE 0)
    BY <2>1, <2>2 DEF PipeInv, PipeCounts
  <2>4. \A i \in 1 .. Len(opusbuf[t]) : opusbuf[t][i] = sent[t] + i
    BY <2>1 DEF PipeInv, BufferedFrame
  <2>5. QED
    BY <2>3, <2>4
<1>2. QED
  BY <1>1, Invariance, PTL

-----------------------------------------------------------------------------
\* Only StartNextTrack takes a track out of "none".
LEMMA OnlyStartNextTrackStarts ==
  ASSUME TypeOK, [Next]_vars, NEW t \in Tracks,
         audio[t] = "none", audio'[t] # "none"
  PROVE  StartNextTrack
<1> USE DEF TypeOK, vars, audioVars
<1>1. ASSUME \/ ReadMessage \/ DeliverMessage \/ LoadTrack
             \/ LoadTrackRejected \/ LoadTrackExits
             \/ StartNothing \/ StartPanics \/ UNCHANGED vars
      PROVE  FALSE
  BY <1>1 DEF ReadMessage, DeliverMessage, LoadTrack, LoadTrackRejected,
              LoadTrackExits, StartNothing, StartPanics
<1>2. ASSUME NEW u \in Tracks, ProducerStep(u) PROVE FALSE
  BY <1>2 DEF ProducerStep, FetchFrame, FetchFails, FetchEOF, OfferFrame,
              OfferNil
<1>3. ASSUME NEW u \in Tracks, AudioStep(u) PROVE FALSE
  BY <1>3 DEF AudioStep, NewOpusEncoder, NewOpusEncoderFails, NoCommand,
              ReceiveFrame, ReceiveNil, ReceiveClosed, HaltTrack,
              Conclude
<1>4. ASSUME NEW u \in Tracks, Rendezvous(u) PROVE FALSE
  BY <1>4 DEF Rendezvous, StopTakenByAudio, StopTakenByProducer,
              PauseTakenAtTick, PauseTakenWhilePaused, DeliverPaused,
              DeliverOutcome, Conclude
<1>5. QED
  BY <1>1, <1>2, <1>3, <1>4 DEF Next, EventStep

\* Tracks start in the order of their requests: what startNextTrack takes from
\* the queue is the lowest track that has not started.
THEOREM StartsInOrderAlways == Spec => StartsInOrder
<1>1. IInv /\ [Next]_vars => [StartOrderKept]_vars
  <2> SUFFICES ASSUME IInv, [Next]_vars, NEW t \in Tracks,
                      audio[t] = "none", audio'[t] # "none",
                      NEW u \in 1 .. t - 1
               PROVE  audio[u] # "none"
    BY DEF StartOrderKept
  <2>1. TypeOK /\ QueueInv
    BY DEF IInv
  <2>2. StartNextTrack
    BY <2>1, OnlyStartNextTrackStarts
  <2>3. /\ queue # <<>> /\ queue \in Seq(Tracks) /\ loaded \in Nat
        /\ audio' = [audio EXCEPT ![Head(queue)] = "start"]
        /\ audio \in [Tracks -> AudioStates]
    BY <2>1, <2>2, NTracksAssumption DEF StartNextTrack, TypeOK
  <2>4. Head(queue) = queue[1] /\ Len(queue) \in Nat /\ Len(queue) > 0
    BY <2>3, TailFacts
  <2>5. t = Head(queue)
    BY <2>3
  <2>6. 1 \in 1 .. Len(queue)
    BY <2>4
  <2>7. t = loaded - Len(queue) + 1
    BY <2>1, <2>4, <2>5, <2>6 DEF QueueInv
  <2>8. u \in Tracks /\ u <= loaded - Len(queue)
    BY <2>3, <2>4, <2>7, NTracksAssumption DEF Tracks
  <2>9. QED
    BY <2>1, <2>8 DEF QueueInv
<1>2. QED
  BY <1>1, Invariance, PTL DEF Spec, StartsInOrder

-----------------------------------------------------------------------------
\* The refinement: a frame sent is heard, a conclusion is an end, and every
\* other step but the start of a track is a stutter of the juke box.
Verdict == [t \in Tracks |-> IF Done[t] THEN outcome[t] ELSE "none"]

LEMMA JukeInit == Init => Juke!AbstractInit
  BY DEF Init, Juke!AbstractInit, Juke!Catalogue, Tracks, None

LEMMA ConcludeEnds ==
  ASSUME TypeOK, VoiceInv, NEW t \in Tracks, Playing(t),
         NEW v \in {"finished", "stopped", "exception"}, Conclude(t, v),
         v = "finished" => sent[t] = Frames[t],
         sent' = sent
  PROVE  Juke!End(t, v)
<1>1. currTrack = t
  BY DEF VoiceInv, OneVoice
<1>2. ~Done[t]
  BY DEF VoiceInv, Playing
<1>3. Verdict' = [Verdict EXCEPT ![t] = v]
  <2>1. ASSUME NEW u \in Tracks
        PROVE  Verdict'[u] = [Verdict EXCEPT ![t] = v][u]
    BY DEF Conclude, TypeOK, Verdict
  <2>2. QED
    BY <2>1 DEF Verdict
<1>4. QED
  BY <1>1, <1>2, <1>3 DEF Juke!End, Conclude, Verdict, None

LEMMA JukeStutters ==
  ASSUME currTrack' = currTrack, sent' = sent, Done' = Done,
         outcome' = outcome \/ \E t \in Tracks : NewOpusEncoderFails(t),
         TypeOK, VoiceInv
  PROVE  UNCHANGED Juke!abstractVars
<1>1. ASSUME NEW u \in Tracks PROVE Verdict'[u] = Verdict[u]
  <2>1. CASE outcome' = outcome
    BY <2>1 DEF Verdict
  <2>2. CASE \E t \in Tracks : NewOpusEncoderFails(t)
    <3>1. PICK t \in Tracks : NewOpusEncoderFails(t)
      BY <2>2
    <3>2. ~Done[t] /\ \A w \in Tracks : w # t => outcome'[w] = outcome[w]
      BY <3>1 DEF NewOpusEncoderFails, VoiceInv, TypeOK
    <3>3. QED
      BY <3>2 DEF Verdict
  <2>3. QED
    BY <2>1, <2>2
<1>2. Verdict' = Verdict
  BY <1>1 DEF Verdict
<1>3. QED
  BY <1>2 DEF Juke!abstractVars, Verdict

LEMMA JukeStep ==
  ASSUME IInv, [Next]_vars
  PROVE  [Juke!AbstractNext]_Juke!abstractVars
<1> DEFINE G == [Juke!AbstractNext]_Juke!abstractVars
<1>0. TypeOK /\ QueueInv /\ VoiceInv /\ Juke!Catalogue = Tracks
  BY DEF IInv, Juke!Catalogue, Tracks
<1> USE DEF vars, readerVars, botVars, playerVars, audioVars, producerVars
<1>s. ASSUME currTrack' = currTrack, sent' = sent, Done' = Done,
             outcome' = outcome
      PROVE  G
  BY <1>0, <1>s, JukeStutters
<1>e. ASSUME NEW t \in Tracks, NEW v \in {"finished", "stopped", "exception"},
             Juke!End(t, v)
      PROVE  G
  BY <1>e, <1>0 DEF Juke!AbstractNext
<1> HIDE DEF G
<1>1. ASSUME ReadMessage PROVE G
  BY <1>1, <1>s DEF ReadMessage
<1>2. ASSUME DeliverMessage PROVE G
  BY <1>2, <1>s DEF DeliverMessage
<1>3. ASSUME LoadTrack PROVE G
  BY <1>3, <1>s DEF LoadTrack
<1>4. ASSUME LoadTrackRejected PROVE G
  BY <1>4, <1>s DEF LoadTrackRejected
<1>5. ASSUME LoadTrackExits PROVE G
  BY <1>5, <1>s DEF LoadTrackExits
<1>6. ASSUME StartNothing PROVE G
  BY <1>6, <1>s DEF StartNothing
<1>7. ASSUME StartNextTrack PROVE G
  <2> DEFINE h == Head(queue)
  <2>1. h \in Tracks /\ h = queue[1] /\ Len(queue) \in Nat /\ Len(queue) > 0
    BY <1>0, <1>7, TailFacts DEF StartNextTrack, TypeOK
  <2>2. audio[h] = "none"
    <3>1. 1 \in 1 .. Len(queue)
      BY <2>1
    <3>2. h = loaded - Len(queue) + 1 /\ loaded \in Nat
      BY <1>0, <2>1, <3>1, NTracksAssumption DEF QueueInv, TypeOK
    <3>3. ~(h <= loaded - Len(queue))
      BY <2>1, <3>2
    <3>4. QED
      BY <1>0, <2>1, <3>3 DEF QueueInv
  <2>3. sent[h] = 0 /\ ~Done[h]
    BY <1>0, <2>1, <2>2 DEF IInv, PipeInv, PipeCounts, VoiceInv
  <2>4. Juke!Start(h)
    BY <1>7, <2>1, <2>3 DEF StartNextTrack, CanPlay, Juke!Start, None
  <2>5. QED
    BY <1>0, <2>1, <2>4 DEF Juke!AbstractNext, G
<1>8. ASSUME StartPanics PROVE G
  BY <1>8, <1>s DEF StartPanics
<1>9. ASSUME NEW t \in Tracks, NewOpusEncoder(t) PROVE G
  BY <1>9, <1>s DEF NewOpusEncoder
<1>10. ASSUME NEW t \in Tracks, NewOpusEncoderFails(t) PROVE G
  BY <1>0, <1>10, JukeStutters DEF NewOpusEncoderFails, G
<1>11. ASSUME NEW t \in Tracks, NoCommand(t) PROVE G
  BY <1>11, <1>s DEF NoCommand
<1>12. ASSUME NEW t \in Tracks, ReceiveFrame(t) PROVE G
  <2>1. /\ opusbuf[t] \in Seq(Nat) /\ opusbuf[t] # <<>>
        /\ Head(opusbuf[t]) # NilFrame
        /\ sent' = [sent EXCEPT ![t] = Head(opusbuf[t])]
        /\ sent \in [Tracks -> Nat] /\ fetched[t] \in Nat /\ Frames[t] \in Nat
        /\ currTrack' = currTrack /\ Done' = Done /\ outcome' = outcome
        /\ audio[t] = "receive"
    BY <1>0, <1>12, FramesAssumption DEF ReceiveFrame, TypeOK
  <2>2. Head(opusbuf[t]) = opusbuf[t][1] /\ 1 \in 1 .. Len(opusbuf[t])
    BY <2>1, TailFacts
  <2>3. opusbuf[t][1] = sent[t] + 1 /\ opusbuf[t][1] <= fetched[t]
        /\ fetched[t] <= Frames[t]
    BY <2>1, <2>2 DEF IInv, PipeInv, PipeCounts, BufferedFrame
  <2>4. sent[t] < Frames[t]
    BY <2>1, <2>3
  <2>5. sent' = [sent EXCEPT ![t] = @ + 1]
    BY <2>1, <2>2, <2>3
  <2>6. currTrack = t
    BY <1>0, <2>1 DEF VoiceInv, OneVoice, Playing
  <2>7. Juke!Hear(t)
    BY <2>1, <2>4, <2>5, <2>6 DEF Juke!Hear
  <2>8. QED
    BY <1>0, <2>7 DEF Juke!AbstractNext, G
<1>13. ASSUME NEW t \in Tracks, ReceiveNil(t) PROVE G
  <2>1. Juke!End(t, "exception")
    BY <1>0, <1>13, ConcludeEnds DEF ReceiveNil, Playing
  <2>2. QED
    BY <1>e, <2>1
<1>14. ASSUME NEW t \in Tracks, ReceiveClosed(t) PROVE G
  <2>1. sent[t] = Frames[t]
    BY <1>0, <1>14 DEF ReceiveClosed, IInv, PipeInv, PipeCounts, TypeOK
  <2>2. Juke!End(t, "finished")
    BY <1>0, <1>14, <2>1, ConcludeEnds DEF ReceiveClosed, Playing
  <2>3. QED
    BY <1>e, <2>2
<1>h. ASSUME NEW t \in Tracks, HaltTrack(t) PROVE G
  <2>1. Juke!End(t, "stopped")
    BY <1>0, <1>h, ConcludeEnds DEF HaltTrack, Playing
  <2>2. QED
    BY <1>e, <2>1
<1>15. ASSUME NEW t \in Tracks, FetchFrame(t) PROVE G
  BY <1>15, <1>s DEF FetchFrame
<1>16. ASSUME NEW t \in Tracks, FetchFails(t) PROVE G
  BY <1>16, <1>s DEF FetchFails
<1>17. ASSUME NEW t \in Tracks, FetchEOF(t) PROVE G
  BY <1>17, <1>s DEF FetchEOF
<1>18. ASSUME NEW t \in Tracks, OfferFrame(t) PROVE G
  BY <1>18, <1>s DEF OfferFrame
<1>19. ASSUME NEW t \in Tracks, OfferNil(t) PROVE G
  BY <1>19, <1>s DEF OfferNil
<1>20. ASSUME NEW t \in Tracks, StopTakenByAudio(t) PROVE G
  BY <1>20, <1>s DEF StopTakenByAudio
<1>21. ASSUME NEW t \in Tracks, StopTakenByProducer(t) PROVE G
  BY <1>21, <1>s DEF StopTakenByProducer
<1>22. ASSUME NEW t \in Tracks, PauseTakenAtTick(t) PROVE G
  BY <1>22, <1>s DEF PauseTakenAtTick
<1>23. ASSUME NEW t \in Tracks, PauseTakenWhilePaused(t) PROVE G
  BY <1>23, <1>s DEF PauseTakenWhilePaused
<1>24. ASSUME NEW t \in Tracks, DeliverPaused(t) PROVE G
  BY <1>24, <1>s DEF DeliverPaused
<1>25. ASSUME NEW t \in Tracks, DeliverOutcome(t) PROVE G
  BY <1>25, <1>s DEF DeliverOutcome
<1>26. ASSUME UNCHANGED vars PROVE G
  BY <1>26, <1>s
<1>27. G
  BY <1>1, <1>2, <1>3, <1>4, <1>5, <1>6, <1>7, <1>8, <1>9, <1>10, <1>11, <1>12,
     <1>13, <1>14, <1>h, <1>15, <1>16, <1>17, <1>18, <1>19, <1>20, <1>21,
     <1>22, <1>23, <1>24, <1>25, <1>26, NextCases
<1>28. QED
  BY <1>27 DEF G

\* The player implements the juke box: at most one track at a time, each at most
\* once, its frames in order, "finished" only after the last frame.
THEOREM JukeBoxImplemented == Spec => ImplementsJukeBox
<1>1. QED
  BY JukeInit, JukeStep, Invariance, PTL
  DEF Spec, ImplementsJukeBox, Juke!AbstractSpec
=============================================================================
