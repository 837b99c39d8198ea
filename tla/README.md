# A formal model of gomble

gomble (`src/gomble`) is a client library for the Mumble voice chat, with a bot built on it (`src/main.go`) that plays the sound of videos into a channel.
This directory holds TLA+ modules that model its concurrent and stateful parts, TLC configurations that check them on small instances, and theorems that TLAPS proves for every value of the constants.
Paths below are relative to `src/`.

## The system

### Components

| Part | State it keeps | Operations | Module |
|---|---|---|---|
| Player, `gomble/track.go` | `currTrack`, `Done` of each track, `stop`, `pause` and per track `opusbuf` | `Play`, `Stop`, `Pause`, `Resume`, `LoadTrack`; goroutine `audioroutine` and the producer it starts | `Player` |
| Event loop, `gomble/eventhandler.go`, `event.go` | `eventpuffer`, `Listener` | goroutine `eventRoutine`; `Init`, `Begin` | `Player`; `Session` for `Init` and `Begin` |
| Bot, `main.go` | `queue` | callbacks `OnPrivateMessageReceived`, `OnChannelMessageReceived`, `OnTrack...`; `startNextTrack` | `Player`; what they answer in `Session` |
| Packet reader, `gomble/packagereader.go` | `BotUserState`, the mode to prefer, keys and nonces | goroutine `readRoutine`: `receivePacket`, `handlePacket` | `Session` |
| Protocol messages, `mumbleproto` | none | numbers and fields of messages | `Messages` |
| Package writer, `gomble/packagewriter.go` | `conn`, `audioConn`, `tcpTunnelMode` | `writeProto`, `sendPacket`; goroutine `pingRoutine` | `Transport`; bytes in `Datagram` |
| Voice writer, `gomble/audiopackagewriter.go` | its sequence number | `sendAudioPacket` | `Transport`; bytes in `AudioPacket`, `Datagram` |
| Messages to the server, `gomble/user.go` | none | `SendMessageToUser`, `SendMessageToChannel`, ... | `Session` (whom they reach), `Transport` (their writes) |
| Crypt state, `cryptstate/cryptstate.go` | `EncryptIV`, `DecryptIV`, `decryptHistory`, counters | `SetKey`, `Encrypt`, `Decrypt` | `Nonce`, `CryptState` |
| Cipher modes, `cryptstate/mode_*.go`, `ocb2` | none | sealing and opening of one packet | `Ocb2`, `Datagram` |
| Varint, `gomble/varint.go` | none | `encodeVarint`, `decodeVarint` | `Varint` |
| Content stream, `gomble/tracksources/youtube/persistentYoutubeStream.go` | `aposition`, the body of a response | `Read`, `RequestNext` | `ContentStream` |
| EBML decoder, `gomble/container/matroska/ebml` | a buffer, an offset, a chain of `Reader`s | `ReadElement`, `Read`, `Skip`, `Decode` | `EbmlDecoder` |
| Matroska reader, `gomble/container/matroska` | `Blocks`, `doneReadingMatroska`, the selected track | `ReadHeader`, `ReadContent`, `GetNextFrames` | `Matroska`, `MatroskaTypes`, `MatroskaFile`; `GetNextFrames` in `FramePipeline` |
| youtube-dl source, `gomble/tracksources/youtube/youtubedl.go` | `pcmbuff`, `doneReading` | `GetPCMFrame` | `FramePipeline` |

What is not modelled, and why, is at the end; `PROJECT.json` lists every part.

### How they interact

* `Begin` connects, tells the server a version and a name, and starts `readRoutine` and `pingRoutine`; its own goroutine becomes `eventRoutine`.
* A text message from the server is read by `readRoutine`, which hands it to `eventRoutine` over the unbuffered `eventpuffer` and waits until it is taken. `eventRoutine` calls the bot's callbacks itself, so `LoadTrack`, `Play`, `Stop` and `Pause` run on it, and so do the answers.
* `Play` starts one `audioroutine`, which starts a producer. The producer gets frames from the source and puts them into `opusbuf` (50 frames); the audioroutine takes one per tick of 10 ms and calls `sendAudioPacket`. Its last event goes to `eventpuffer`.
* `Stop`, `Pause` and `Resume` are sends on unbuffered channels. Receivers of `stop` are the audioroutine's select and the producer's.
* `sendAudioPacket` reads `tcpTunnelMode`, which `pingRoutine` sets by what it reads from the UDP socket after each UDP ping. Both encrypt, which counts `EncryptIV` up, and both write to `conn`, as the callbacks do.
* `Version` tells the mode of the cipher, `CryptSetup` sets key and nonces, both on `readRoutine`, for all of them. `UserState` tells the bot which channel it announces tracks in.
* The source is a chain of readers on the producer goroutine: HTTP body, `persistentYoutubeStream`, EBML decoder, Matroska reader, opus decoder, `pcmbuff`.

### What is hard

* Interleaving: nothing in the package is locked. Two goroutines receive from `stop`; three write to `conn`; two use `EncryptIV`; `currTrack` and `tcpTunnelMode` are tested and set by different goroutines.
* Waiting: all control channels are unbuffered, and the event loop waits on them.
* The network: lost, repeated, late and reordered datagrams; a UDP path that breaks and comes back; HTTP responses that end early, break or are refused.
* Counting: nonces over several bytes with carry and borrow; the last block of a cipher, of a file, the last part of a frame; forms of a number that end at a power of two.
* Files: sizes that are unknown, wrong or cut off, elements in any order, and errors that are dropped on the way up.

`PROJECT.json` lists each hazard at its line with the properties that would catch it.

## Modules

| Module | What it is |
|---|---|
| `JukeBox` | abstract specification: one track at a time, each at most once, its frames in order, "finished" only after the last |
| `Player` | player, event loop, bot; implements `JukeBox` |
| `Mailbox` | abstract specification: each text message is given to a callback once, in order, until the session ends |
| `Messages` | the numbers and fields of messages |
| `Session` | `Begin`, `readRoutine`, `eventRoutine` and a server; extends `Messages` and implements `Mailbox` |
| `Nonce` | nonces as arrays of digits and the loops that count them |
| `CryptState` | `Encrypt`, `Decrypt` and `SetKey` over a network that loses, repeats and reorders |
| `Transport` | the writers of both connections and the choice between UDP and the tunnel |
| `Varint`, `AudioPacket`, `Ocb2` | operators on bytes: numbers, a packet of voice, the cipher |
| `Datagram` | the way of one packet, from the client to the server and back, composed of these three |
| `EbmlDecoder` | elements in elements, read byte by byte through a buffer |
| `MatroskaTypes` | the ids and the structs that `Decode` fills |
| `MatroskaFile` | what a file contains, told from its bytes alone: elements, blocks, well-formed files |
| `Matroska` | extends these: `ReadHeader`, `ReadContent`, `parseBlock` on whole, cut and damaged files |
| `ContentStream` | `persistentYoutubeStream` over every outcome of the network |
| `FramePipeline` | extends `ContentStream`: what becomes of blocks, buffers, `GetPCMFrame` |
| `MC...` | instances for TLC |
| `...Proofs` | the inductive invariant and the theorems of a module |
| `MatroskaFileProofs` | extends `MatroskaProofs`: the theorems about well-formed files |

Each of `Player`, `Session`, `CryptState`, `Transport`, `Datagram`, `Matroska` and `FramePipeline` has the other parts as its environment. `Player` takes a source as a number of frames that may fail at any point, `FramePipeline` is one such source, over files that are well formed, and `Matroska` has the files that are not. `Session` has callbacks that take as long as they like, and may wait for ever, as `Player` shows they can; `Player` has messages at any time, as `Session` delivers them. `Transport` says when a datagram is sent, `CryptState` under which nonce, `Datagram` with which bytes.

### Player

A goroutine is a program counter (`reader`, `eventPc`, `audio[t]`, `producer[t]`).
A send on an unbuffered channel and its receive are one joint action (`StopTakenByAudio`, `DeliverOutcome`); the sender waits in a state named for the send.
A step of a goroutine goes from one channel operation to the next, except where other goroutines could see the difference: `HaltTrack` is apart from `StopTakenByAudio`, since `Stop` has returned and `currTrack` is not yet `nil`.
`Conclude` makes the two assignments to `Done` and `currTrack` and reaches the send of the event, which is its own rendezvous.
Frames of a track are numbered; 0 is the `nil` that a failed source sends.
`Faults` says what may fail outside: youtube-dl is missing, a track loads without a source, no encoder, a failing source.

### Session and Mailbox

`Begin` is a chain of steps on the goroutine of `main` (`Dial`, `SendVersion`, `SendAuthenticate`, `StartRoutines`), which goes on as `eventRoutine`; `main` and `reader` are the two program counters.
A package is received in two reads (`ReceiveHeader`, `ReceiveData`), either of which may end the process, and then handled by one action for each case of `handlePacket`. The types that are named and then ignored are one action, those missing from `printReceivedPackage` end the process (`HandleUnlisted`).
`DeliverMessage` is the rendezvous on `eventpuffer`: `eventRoutine` calls the callback while `readRoutine` goes on, so the next package may be handled before the callback answers.
The server is part of the module: it greets with its version, chooses the mode both can, and sends keys, news of users, texts and more, as far as `Conditions` permits. A key is known by the number of the package that brought it. What `Play` and `Stop` do is in `Player`; here a callback takes its time, or with `#stop` possibly for ever, and of the bot's `queue` only is kept which tracks have a source, since `startNextTrack` panics at one that has none.
`sent` keeps every package, so that properties can compare what the client holds with what it was told.

### CryptState

A datagram is the number of the nonce it was encrypted under; its lowest byte travels with it.
`Decrypt` guesses the nonce from that byte, and accepts when the guess is right.
The network holds every datagram ever sent under the key and may deliver any of them any number of times, or never.
Carries are arithmetic on numbers in `CryptState`; `LoopsAgree` relates them to the loops over bytes in `Nonce`.
The borrow for a late packet is not the subtraction it is meant to be: the loop of `cryptstate.go:176` stops at a byte that became 255, since that is above 0, and goes on after one that became 0. `Borrowed` does the same.
`GenerateKey` (server side) is left out; the two checks of a datagram's length and the moving of the bytes are in `Datagram`.

### Transport

`pingRoutine`, `sendAudioPacket` and the `writeProto` of a callback are program counters; a package takes two writes (`TcpPing`, `TcpPingData`) and an encrypted datagram two steps, the look at the flag or the tick and then the write (`UdpPing`, `WritePing`).
The network keeps answers under way, the receive buffer of the socket and whether the path is up, cut or refused.
`gaps` remembers that a datagram was lost, from which on `Decrypt` may refuse later ones (the run `cryptstate_loss`).
What is in the plain text after a failed `Decrypt` depends on the mode: nothing under XSalsa20, under OCB2 whatever came out.

### Datagram, AudioPacket, Varint and Ocb2

Bytes are numbers below 256, and a number of 64 bits is the sequence of its eight bytes, since TLC's integers end at 2^31. The exclusive or of two bytes is bit by bit (`AddedBit`).
`Varint` translates both functions with the order of their cases, so that `encodeVarint` takes the 28-bit form also for 2^28, and the 32-bit form for 2^32.
`Ocb2` has the code's way through a packet (`Encrypt`, `Decrypt`, block after block in place) and, next to it, the definition of OCB2 (`IsOcb2`). The loops over the blocks are recursive functions that give the offset, the checksum and what was written after each number of rounds (`Encrypting`, `Decrypting`). The block cipher is a parameter; `MCDatagram` puts a permutation of blocks there in which every byte depends on all before it.
`secretbox` is external: a seal that opens under the right nonce.
A behaviour of `Datagram` is one packet: voice by the tunnel or by UDP, which the server reads, or a ping, which it answers, or instead of the answer comes a stray datagram, one of the constant `Strays`. `ServerReads` is external, the format as Mumble describes it.
Panics of the code (an index out of range in `Decrypt`, in the slice that removes the overhead, in `decodeVarint`) are a result of their own.

### EbmlDecoder and Matroska

A `Reader` is a record of how much is left of its element, the `Reader`s that are open are the sequence `readers`, `at` is the one whose `ReadElement` runs. The buffer is what is in it and not yet read; `fill` takes as much as fits.
`ReadElement` takes a step for each of its reads: what is left of the element before (`skip`), the id, its other bytes, the size. Then one action does what the loop around it does with the element or the error: `phase` names the loop, those of `ReadHeader`, of `Decode` or of `ReadContent`. A read of the source gives as many bytes as are asked for, or all there is room for, or fails at the end; connections that fail in between are in `FramePipeline`.
`Decode` uses reflection on the tags of the structs. `MatroskaTypes` lists, of each struct, the ids and what kind of value they have (a struct, a slice of structs, a number, a text, bytes), and `Matroska` decodes by that table. Values themselves are dropped except for what the reader looks at: whether an entry of `Tracks` has audio.
`Files` are sequences of bytes; each is read whole and cut off at every place. What a reader should make of one is stated in `MatroskaFile` without a reader: from the bytes alone it tells whether an element or a block is at some place (`Begins`, `IsBlock`), what is played of a block (`Playable`, `BlockAt`) and what cannot be survived (`Deadly`), where `Memory` is the length of the longest slice that can be made. With a file comes `within`, a record of which elements are in it and each in which other; it is no state of the program. `Tiled` says when it is a right account of the bytes: every element begins where it says, those in an element follow one another to its end with at most some bytes between them that no id starts with, and nothing else does. `WellFormed` adds what a file of a site has, `Headed` that the header is complete. The conditions are those under which the code is right, and weak: a header may be broken, missing or double and values of any length in a `WellFormed` file.
Each block in `Blocks` has its place and size next to its data, which the code does not keep.
`end` of a `Reader` is not in the code: it says where the element should end, for `Nested`. `OpenUnknown` and a value that the buffer has no room for forget it of every open element (`Astray`), since the code counts nothing of the one and counts the other without having read it.

### ContentStream and FramePipeline

A content is a sequence of units: a cluster's header, a block's head, a block's data, another element.
`delivered` holds the place in the content of each unit the reader was given; what it should have been given is 1, 2, 3, ...
All of it runs on one goroutine, so `pc` is the innermost call and what varies are the outcomes of `Read`: how much, with or without an error, how long the next response is, whether the request fails.
`parseBlock` refuses "laced" data and the decoder "corrupt" data.
When bytes come that were delivered before, the model goes to `garbled` and ends: what is decoded from there on is not the content. `uncounted`, which the code does not keep, is how many bodies handed over data with their error.

## Runs

| Run | Module, cfg | Properties | States |
|---|---|---|---|
| `player` | `MCPlayer`, `Player` | `TypeOK`, `OneVoice`, `FramesConserved`, `StartsInOrder`, `ImplementsJukeBox`, `EveryTrackPlays`, `EveryStartEnds` | 140 000 |
| `player_stop_stolen` | `MCPlayer`, `PlayerStopStolen` | `StopStopsCurrent` (violated) | |
| `player_pause_hangs` | `MCPlayer`, `PlayerPauseHangs` | `PauseReturnsWhilePlaying` (violated) | |
| `session` | `MCSession`, `Session` | `TypeOK`, `CiphersAgree`, `KnowsItsNamedState`, `AnswersEveryone`, `EndsForCause`, `ImplementsMailbox`, `CatchesUp` | 427 000 |
| `cryptstate_safety` | `MCCryptState`, `CryptStateSafety` | `TypeOK`, `NoReplay`, `TracksNewest`, `FreshAccepted`, `LoopsAgree` | 1 060 000 |
| `cryptstate_loss` | `MCCryptState`, `CryptStateLoss` | `AfterLossAccepted` (violated) | |
| `transport` | `MCTransport`, `Transport` | `TypeOK`, `AnsweredBeforeUdp`, `FallbackBound`, `CutPathTunnels`, `WorkingPathTaken` | 100 000 |
| `transport_packages` | `MCTransport`, `TransportPackages` | `PackagesWhole` (violated) | |
| `datagram` | `MCDatagram`, `Datagram` | `ServerReadsVoice`, `WrittenAsOcb2`, `AnswerTellsTheTime`, `OnlyShortPanics` | 31 000 |
| `matroska` | `MCMatroska`, `Matroska` | `TypeOK`, `InStep`, `Nested`, `HeaderFirst`, `BlocksOfFile`, `PanicsForCause`, `ComesToAnEnd` | 541 000 |
| `source_safety` | `MCFramePipeline`, `SourceSafety` | `TypeOK`, `HeardInOrder`, `EOFIsTheEnd`, `OnlyFailuresHurt`, `SourceEnds` | 306 000 |
| `source_last_block` | `MCFramePipeline`, `SourceLastBlock` | `RestReturned` (violated) | |

### What they show

* Player: although `currTrack` is tested and set without a lock, two audioroutines never play at once (`OneVoice`); no frame is lost, repeated or overtaken on its way to `sendAudioPacket`, however commands and failures come (`FramesConserved`); tracks start in the order of their requests (`StartsInOrder`); seen from outside it is a juke box (`ImplementsJukeBox`). While nobody stops, pauses or resumes, no encoder fails and the process runs (`Undisturbed`), every request is played although it races with "finished" events (`EveryTrackPlays`), and a source that fails does not hang the player (`EveryStartEnds`).
* Session: callbacks get each text once and in order (`ImplementsMailbox`) and catch up again and again (`CatchesUp`); whoever writes privately is answered, and not somebody whose message came meanwhile (`AnswersEveryone`). Client and server use one mode and the keys and nonces of one package (`CiphersAgree`). The bot knows of itself what was said with its name, and only that: a move that leaves the name out does not reach it (`KnowsItsNamedState`). The causes for which the process ends are all listed in `EndsForCause`: a connection that is gone, no UDP socket, no youtube-dl, a package that is too long or of a type not listed, and two panics, of a track without a source when it is started and of a `CryptSetup` without a key.
* Crypt state: nothing is accepted twice (`NoReplay`), the nonce follows the newest datagram whatever fails or comes late (`TracksNewest`), what is new is accepted as far as the history permits (`FreshAccepted`), sender and receiver count alike across every carry (`LoopsAgree`).
* Transport: voice goes over UDP only after an answer to a ping (`AnsweredBeforeUdp`, under XSalsa20); a broken path is left after at most as many rounds as the socket buffers datagrams (`FallbackBound`, `CutPathTunnels`), and one that works is taken up again and again (`WorkingPathTaken`).
* Datagram: what is sent is what is read, by either path and in either mode, except for the number 2^28 (`ServerReadsVoice`, `AnswerTellsTheTime`); the blocks are those of OCB2 (`WrittenAsOcb2`); the client panics only at a datagram that is no longer than its overhead or, under OCB2, which leaves the plain text of what it refuses, at one that is up to ten bytes longer, a header and at most nine bytes of a time (`OnlyShortPanics`).
* Matroska: through every skip, seek over the end and short buffer, the decoder stands where the sizes of the elements say (`InStep`, `Nested`); what is heard of a file, damaged or cut, is blocks of it in their order, of a well-formed one without a gap, and of a good one all of them (`BlocksOfFile`); `HeaderFirst` says how far an ignored failure of `ReadHeader` goes, `PanicsForCause` what in a file the reader does not survive, memory that ends at a block's declared size among it, and reading ends whatever the file (`ComesToAnEnd`).
* Source: what is played is the samples that were parsed, in order, and until the end of the content is met none of them is missing (`HeardInOrder`); at the end the last block is, against a comment (`RestReturned`, violated). EOF means the end of the content and never that of a response (`EOFIsTheEnd`). A short response costs nothing, a failed request one block at most, a broken connection nothing unless data came with its error: then these come twice, and what follows is no longer the content (`OnlyFailuresHurt`). The source always comes to an end (`SourceEnds`).

### Bounds

* `Player`: three tracks are one playing, one still winding down and one waiting; lengths differ, and one track is empty. A buffer of two frames is full, half full and empty in turn; the violations have one of one frame. Four messages are enough for play, play, stop and play, or any other command, in any order; what a message may do does not depend on how many came before, but for the tracks that were loaded.
* `Session`: four packages are the version and any three of: keys twice, the bot named and then moved, a text while the one before is worked on. Two channels and two other users tell whom and where from whom else; each channel has one of the commands, and a text that no callback acts on comes privately. One event of a track falls between any two of these. `Conditions` names what may go wrong outside: no server, no UDP socket, a connection that breaks, packages that are too long or of other types, a resync, no youtube-dl, a track without a source.
* `CryptState`: bytes have 8 values, nonces 3 bytes, the window is 3. The start nonces 13 and 62 make the run pass a carry of the first byte and, with 62, of the first two at once. Ten datagrams go more than once around the values of a byte. One change of key. `CryptStateLoss` needs a full round and a gap: twelve datagrams.
* `Transport`: a socket of two datagrams fills up; two answers under way mean an answer that overtakes its round. An answer beyond `AirCap` is not waited for: `WritePing` waits until one has arrived or got lost, which happens within the 4 s between pings.
* `Datagram`: numbers and times on both sides of every limit of the varint, frames that end before, at and after the end of a block, or fill the 13 bits of their length. Strays are of every length up to 19 bytes and of 27, so up to and over both overheads and the ten bytes after that of OCB2, each with three patterns of bytes. Frames over `MaxDatagram`, 70 bytes or four blocks and a bit, go by the tunnel only: more blocks repeat what the middle ones do.
* `Matroska`: a buffer of eight bytes is the smallest that an id with its size needs, so that elements are longer than it and begin anywhere in it. The files have sizes of one, two and eight bytes and unknown ones, elements nobody asks for, headers in every order, values that are empty or too long, blocks that are laced, in groups, too short, or of more than `Memory`, 1000 bytes, by their own account, next to one of just as many; each of them is also cut off at every byte. `MCMatroska` takes `within` from the bytes by `Parsing`, and TLC evaluates that `Full` and `Live`, which have all of this that is allowed, are `Headed` and `WellFormed`.
* Source: five contents, with several clusters of several sizes, blocks that the parser or the decoder refuses, other elements, no blocks at all, nothing at all. Two cuts and two failed requests, so that a failure during the recovery from another one happens. A block has 3 samples and a frame 2, so a block is a frame and a half.

### Fairness

* `Player`: weak fairness of each goroutine's steps and of each track's rendezvous: the Go scheduler starves no goroutine, and a send whose receiver waits goes through. Nothing is assumed about which sender a receiver picks or whether a message comes.
* `Session`: weak fairness of the goroutine of `main` and of `readRoutine`, nothing of the server or the connection. `CatchesUp` excepts a callback that waits for ever.
* `Transport`: weak fairness of `pingRoutine` and of `sendAudioPacket`; strong fairness of `UdpPing`, since Go's select picks at random among the ready cases and a tick that is due stays due; weak fairness of each answer under way, which arrives or is lost. `CutPathTunnels` needs a track that plays, which the fairness of `sendAudioPacket` stands for.
* `Matroska`: weak fairness of `Next`: one goroutine, which runs.
* Source: weak fairness of `Next`: the producer goroutine runs, and each request is answered or fails. Cuts and failures are bounded in number, and a response that is not at the end of the content carries something. Without that, a server could keep the reader busy for ever, in the code as in the model.

## Findings

Each is a run with a counterexample.

1. `player_stop_stolen`: the `stop` channel has a second receiver, the producer's select (`track.go:120`), of the current track or of one that was stopped before. `Stop` returns, the track goes on to the end of the buffer and then waits for ever.
2. `player_pause_hangs`: `Pause` on the event loop meets an audioroutine that sends its last event (`track.go:84`, `171`): each waits for the other for ever.
3. `cryptstate_loss`: the history is indexed by the byte it stores (`cryptstate.go:199`), so after 256 datagrams every byte counts as seen, and after one lost datagram nothing more is accepted. The reference in `testgen/CryptState.cpp` stores the next byte.
4. `transport_packages`: a package is two writes without a lock (`packagewriter.go:34`).
5. `source_last_block`: at the end of the content `GetNextFrames` empties `Blocks` before it takes its length (`matroska.go:297-298`), and returns nothing of the block that is left, where the comment at line 293 says "we just return the rest of the buffer".

Met while modelling, in the models as the code has it where a part is modelled, without a run of their own:

* A `CryptSetup` without a key, by which either side asks for a resync (`Mumble.proto:378-380`), sets an empty key, and `SetKey` panics (`packagereader.go:77`). `EndsForCause` names it, and that is no approval: it is the cause of a panic where the protocol has a request. One package shows it, so it has no run.
* `EncryptIV` is counted up without a lock (`cryptstate.go:235`), so two datagrams of two goroutines may carry one nonce.
* Data that come with an error are returned and not counted, so that the next response brings them again (`persistentYoutubeStream.go:46-47`), against the comment there: "here we will return 0 data". A broken connection alone can so ruin all that follows; `OnlyFailuresHurt` names the case by `uncounted`.
* `forceTcpTunnelMode` is stored (`eventhandler.go:48`) and never read, against the comment at line 37.
* A closed UDP port ends the process (`packagewriter.go:110`), where the comment at line 41 falls back to TCP. Before `CryptSetup`, so does the first tick of the ping (line 80).
* Under OCB2 the plain text of a refused datagram can look like a ping (`packagewriter.go:115`), and if its time is cut off the process ends (`varint.go`, called at line 117).
* Pause and resume are one toggle: the value received is not looked at (`track.go:154`).
* Up to a frame is dropped at EOF (`track.go:196`); `EOFIsTheEnd` says that it is less than one.
* A request that fails within a block is ignored (`matroska.go:180`) and what follows may be shifted.
* A track that failed to load is queued all the same, as an inner `err` hides the outer one (`track.go:41`), and `GetTitle` panics when its turn comes (line 60, `main.go:69`); one without an encoder leaves the player occupied (`track.go:99`). A format without a known size has `Filesize` 0 (`youtubedl.go:61`).
* The failure of `ReadHeader` is ignored (`youtubedl.go:70`): of a segment of known size nothing is heard then, of one of unknown size the clusters are played as if there were a header. A file that is cut off within a value of the header is played in part all the same: the bytes that had come stay in the buffer (`decoder.go:309-322`; up to 64 000 of them), and `ReadContent` may find clusters among them. Two `Info` elements count as a header (`matroska.go:124`).
* The reader panics at a file that is cut within the size of its segment (`matroska.go:66-75`), at a block that ends with its time (line 249), and at a value or block of unknown size (`ebml/type.go:66`). `parseBlock` makes a slice as long as a block says it is, before it reads it (`matroska.go:210`): in elements of unknown size, which bound nothing, a block of a few bytes can ask for more than there is memory for.
* `CodecPrivate` is a slice of the decoder's buffer, which is overwritten (`ebml/type.go:71`); nobody uses it.
* The numbers 2^28 and 2^32 come back from their varint as others (`varint.go:45`).

## Proofs

TLAPS checks these for every value of the constants that satisfies the assumptions in the modules.

| Module | Theorem | Property |
|---|---|---|
| `PlayerProofs` | `TypeCorrect`, `OneVoiceAlways`, `FramesConservedAlways`, `StartsInOrderAlways`, `JukeBoxImplemented` | any number and length of tracks, any buffer, messages and faults |
| `SessionProofs` | `TypeCorrect`, `MailboxImplemented`, `EndsForItsCause`, `CiphersAgreeAlways`, `KnowsItsNamedStateAlways`, `AnswersEveryoneAlways` | any number of packages and events, any channels, texts and conditions |
| `CryptStateProofs` | `TypeCorrect`, `NoReplayAlways`, `TracksNewestAlways`, `FreshAcceptedAlways`, `LoopsAgreeAlways` | any byte size, width, window, start nonces and number of keys, under `BorrowAssumption` |
| `TransportProofs` | `TypeCorrect`, `FallbackBoundAlways`, `AnsweredBeforeUdpAlways` | any buffer and network; the last for XSalsa20 only |
| `FramePipelineProofs` | `TypeCorrect`, `EOFIsTheEndAlways`, `OnlyFailuresHurtAlways`, `HeardInOrderAlways` | any set of contents, any sizes and bounds |
| `MatroskaProofs` | `TypeOKAlways`, `InStepAlways`, `NestedAlways`, `PanicsForCauseAlways`, `GenuineAlways` (the first part of `BlocksOfFile`) | any set of files, of whatever bytes (`FilesAssumption`), any buffer of at least 8 bytes, any memory |
| `MatroskaFileProofs` | `HeaderFirstAlways`, `BlocksOfFileAlways` | the same: any set of files, among them any well-formed ones (`WellFormed`, `Headed`), cut off at any byte |
| `DatagramProofs` | `RoundTrip`, `EncryptIsOcb2`, `DecryptUndoes`, `MadeAlways`, `ServerReadsVoiceAlways`, `WrittenAsOcb2Always`, `AnswerTellsTheTimeAlways`, `OnlyShortPanicsAlways` | any sequence numbers and lengths of frames, times over 32 bits, stray datagrams of whatever bytes, any block cipher (`IsCipher`); the first three of packets of any length and numbers of up to 63 bits |

Each module about a component has an inductive invariant (`IInv`, in `MatroskaProofs` `Inv`), lemmas that each action preserves each part, and theorems that follow.

* `PlayerProofs`: `QueueInv` says that the queue is the tracks loaded and not started, in order. `VoiceInv` ties the program counters of the audioroutines to `currTrack` and `Done`: only the one of `currTrack` plays, `currTrack` was started and is not done, and a track that is done has left its loop. `PipeInv` follows a frame from the producer to `sent`, with the case of a producer that was stopped away, whose track can never be "finished" because its channel is never closed. `FramesConserved` alone is not inductive: it says nothing of a track whose producer is gone, and the refinement needs to know that what is sent there is still a beginning of the track.
* `SessionProofs`: `Stamps` and `Delivered` count, for every package, the texts up to it, which makes the text in hand the next one of the mailbox; `Greeted` says that the version comes first and once, that keys fit the mode it told, and that the client has read that mode before any key. `EndsForCause` needs this, or a key of the wrong size would be another cause for a panic. On top of `IInv`, `Kept` says what the last `CryptSetup` and the last `UserState` with the bot's name left behind. It is a second invariant, inductive relative to the first: packages are handled in the order of their numbers, so the one in hand becomes the last, and it is stated with "whichever is the last" instead of the `CHOOSE` of the properties. It rests on `Keyed`, what a server promises: a key comes with both nonces. `Answered` is `AnswersEveryone` with two things more: that nobody is due before the connection is up, and that the callback which is about to answer was given a private message. `Due` is a recursive function of the events heard; `DueIs` has its equations, and `DueSame` says that it does not depend on what is heard later.
* `CryptStateProofs`: `KeyInv` puts the receiver's nonce between the start and the sender's and makes it that of an accepted datagram; `HistoryInv` says that whatever was accepted under the key is not newer than it and is in the history; `GoodInv` counts. A late datagram or one ahead is accepted only when its byte is not in the history, hence was not accepted before; the direct successor is newer than everything accepted. `BorrowAssumption` is needed because a borrow that fails may raise the nonce: it says that it is not raised to one that was sent. With 256 values of a byte the jump is more than 65 000, so it holds of a key under which fewer datagrams are sent; TLC evaluates it for the instances. `FreshAccepted` follows from the same invariant, by the branch of `Decrypt` that a datagram's byte leads to. `LoopsAgree` needs no history at all: a nonce as digits is a sum of powers, a loop that carries changes one digit after another, and by induction over the digit where the carry ends the sum grows by one.
* `TransportProofs`: `BacklogInv` is `FallbackBound` without its condition on the flag, which a ping could otherwise clear with a full socket behind it: while the path is down nothing comes in, and a round that leaves the voice on UDP takes one datagram out of the socket. `AnsweredBeforeUdp` is inductive with the types: a datagram reads as a ping only if it decrypts.
* `FramePipelineProofs`: `StreamInv` says that the stream hands over at least what it counts, so that at EOF everything was handed over; `PipeInv` that a reader with nothing left to parse has parsed it all, which makes EOF the end. An error other than EOF leaves the stream only with a failed request. For `OnlyFailuresHurt`, `Cost` counts the blocks lost against the requests that failed: a step that loses one is a read in which a request fails (`LostStep`); `InPlace` says that as long as no data was left uncounted the units handed over are those of the content, from its start, without which nothing makes the reader meet repeated ones. For `HeardInOrder`, `HeardInv` splits the blocks that were parsed and kept into those decoded, whose samples are exactly what was played and what is in `pcmbuff`, and those waiting in `Blocks`; until the end is met, all of them are there.
* `MatroskaProofs`: `Inv` has four parts. `Buffer` says that the buffer is the stretch of the source after the bytes read, and that source and buffer are apart only after the source ended; each of `Next`, `Read` and `Skip`, in each of its outcomes, leaves it so with as many bytes less as were asked for (`ReadLeaves`, `SkipLeaves`), which is `InStep`. `Chain` says which `Reader` is at work and whether one is open below it. `Nesting` is `Nested` of the chain; every read is charged to the last `Reader` and only to it (`ReadOfLast`), opening an element moves its bytes from its parent to it (`OpenedEnds`), cutting the chain after a skip drops what was skipped (`CutEnds`). All of this holds of any file whatever. `Loops` ties the phase to the `Reader` whose elements are asked for, without which a value could be read from another one. TLC checked `Inv` on the run's files before it was proved. On top of `Inv`, `Located` ties the state to the bytes: in the middle of an element the reader stands at some place `p` where the file has what was read so far (`Marks`), the id from its first byte (`MarkId`, `MarkIdRest`), the size from the place after it, and the body begins at `off`; what was heard ends at or before `p`. It needs that a number read byte by byte, from the buffer, is `NumberAt` that place (`NumberIs`, `ReaderNextBytes`), that no read goes backward (`Forward`), and that a reader which had gone beyond the end of the source reads no value (`Reading`, `Ceases`), since then the last bytes are no longer those at `off`. Then a block that is parsed is the one at `p` (`HeardOne`, `ContentIs`), which gives `Genuine`, and the ways to panic are those of `Deadly`; of a block that no slice can be made for (`CanMake`), at the place before its data was read.
* `MatroskaFileProofs`: `Gapless`, `Complete` and `HeaderFirst` compare what was heard with the elements of the file, and neither `Inv` nor `Located` knows of any element but the one at hand. `OnTrack` says that of a well-formed file one of three things holds.
  * `Following`: there are a path of elements, each in the one before, and a border `cur` that the reader comes to next. `Core` says that the open `Reader`s are those of the path and end where its elements end, and that `cur` is a border between the elements in the last one; `Shape` ties the phase to the ids of the path; `Hears` says that the blocks heard are exactly those before `cur`. `Heading` is the header: `Listed` that the entries decoded are those of the file before `cur`, in their order and each with what it said of audio, `Counted` that `cntNeeded` and `satrack` tell which of Info and Tracks were decoded. `Heading` is apart, since it holds only of files that have each of them once (`Headed`).
  * The file was cut off within an element (`CutOff`). Then the path is lost, and the reader may take bytes in the middle of an element for an id. What saves `Gapless` is that the source is at its end and so few bytes are left in the buffer (`Over`) that no block can follow, or that a value of the header failed (`LostIn`), which is the exception that `HeaderFirst` names. `Sound` says of what was heard that it is the first blocks of the file, after its header.
  * It has come to an end, where `Final` says that of a whole file with a complete header nothing is left out.

  A read of the next id or size keeps `Core` or is one beyond the end of a file that was cut off (`CoreReads`); leaving an element cuts the path (`BackTo`, `BackFrom`) and no block lies between its last border and its end (`NothingTo`). Each loop then has a lemma for each way on: the element it wants, one it skips, the end of what it is in. `Followed` is `OnTrack` of the file at hand, with `OfFile`, that `bytes` is a beginning of it; it is inductive relative to `Inv` and `Located`.
* `DatagramProofs`: `RoundTrip` goes by the cases of `encodeVarint`, each form with its first byte and the limits it is used for; a lemma for each says which case of `decodeVarint` that byte meets. A byte is the sum of its eight bits (`BitsOf`), which makes the exclusive or of bytes, and of blocks, commute, associate and undo itself. `FullBlocks` is the number of rounds that the loops make. That decryption undoes encryption (`DecryptUndoes`) is shown by induction over these: after each of them both loops have the same offset and checksum, and the one has written the beginning of the other's message. In `EncryptIsOcb2` the offsets and sums of the definition are those of the loop, again by induction (`OffsetsAre`, `PlainSumsAre`; the definition begins its sum with the last part, the loop ends with it), and `times2` is the doubling of 128 bits, bit by bit (`Times2Doubles`). `MadeOfPacket` is the inductive invariant: what was sent says which packet was made, what is on the wire is that packet by one path, or the answer, or a stray (`Phases`, `OfVoice`, `OfPing`); each property is then what one reader makes of such bytes. That the cipher's `E` and `D` take blocks to blocks and `D` takes back what `E` did is `IsCipher`. It is a hypothesis of the theorems that need it and not an assumption of a module, since TLC would have to go through all blocks of 16 bytes to evaluate it.

Five of these modules begin with facts about natural numbers, of which each has the ones it needs: that quotient and remainder are unique, that a set of numbers with 0 and the successor of each of its members has all numbers (from the least number of what it would miss), and that a function given by its value at 0 and a rule for the next one exists (`Recursion`), which a recursive definition needs to be known by its equations. The library's theorems of induction take a predicate as a parameter, which the provers cannot instantiate; these take a set.

Only model-checked:

* liveness (`EveryTrackPlays`, `EveryStartEnds`, `CatchesUp`, `CutPathTunnels`, `WorkingPathTaken`, `ComesToAnEnd`, `SourceEnds`), which is out of the prover's reach;
* the violations, each of which is a single behaviour.

## Not modelled

* `cryptstate/testgen`: C++ of the Mumble server and a generator of test vectors, quoted as a reference.
* `opus.go`: a wrapper of libopus; in the models a frame is encoded or decoded, or fails.
* The native YouTube source (`youtube.go`, `youtubevideo.old.go`) and `oggopusfile`: `LoadTrack` uses neither.
* `audiopackagereader.go`: all of it is commented out.
* `util.go`, the logger, the call of youtube-dl: I/O without state; that they fail is in `Player`, `Session` and `Transport`.
* In modelled parts: `SwitchChannel`, which the bot does not call; `GenerateKey` and the null mode, which a client does not use; of the EBML decoder `Seek`, as no source of the program can, and `SkipDamaged` and `DecodeUnknown`, which are never set; errors of writes to `conn`, after which `readRoutine` ends the process; the generated code of protobuf.

## Plan

What could follow:

1. `FrameSource`: an abstract source, frames in order and then EOF or an error, implemented by `FramePipeline` and used by `Player`, so that the two can be composed.
2. `CryptState` at both ends of `Transport`, in place of `gaps`.
