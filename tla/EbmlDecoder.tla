---------------------------- MODULE EbmlDecoder -----------------------------
(***************************************************************************)
(* Reading a file of nested elements (ebml/decoder.go): decoderState takes *)
(* bytes from a source through a buffer, and each Reader counts down the   *)
(* length of its element.  One element is read at a time, in the innermost *)
(* Reader that is of interest; the Readers that are open form a chain.     *)
(*                                                                         *)
(* The buffer is modelled by the bytes in it that were not read yet; where *)
(* they lie in it does not matter, as fill moves them to its front.  No    *)
(* source of the program can seek, so Skip always reads.                   *)
(***************************************************************************)
EXTENDS Integers, SequencesExt

CONSTANTS
  BufferSize   \* bufferSize and maxBufferSize

ASSUME BufferSizeAssumption == BufferSize \in Nat /\ BufferSize >= 8

VARIABLES
  bytes,     \* what the source has
  src,       \* how many of them were taken from it
  buffered,  \* the bytes in the buffer that were not read
  off,       \* decoderState.off
  readers,   \* the chain of Readers, the outermost first
  at,        \* the Reader whose ReadElement runs, or ran last
  step,      \* where in it, or how it ended
  first,     \* the first byte of the id or size that is being read
  id,        \* the id of the element, as far as it was read
  err        \* how ReadElement failed

decoderVars == <<bytes, src, buffered, off, readers, at, step, first, id, err>>

\* A Reader: its element, the bytes left in it, -1 if its length is unknown, and
\* where it should end, -1 if that cannot be told.
Reader(elem, size, end) == [id |-> elem, len |-> size, end |-> end]
Unknown == -1

NewReader ==
  /\ src = 0 /\ buffered = <<>> /\ off = 0
  /\ readers = <<Reader(0, Unknown, Unknown)>>
  /\ at = 1 /\ step = "skip" /\ first = 0 /\ id = 0 /\ err = "none"

-----------------------------------------------------------------------------
(* decoderState.  The outcomes of a call, in terms of what it leaves.       *)

Left == Len(bytes) - src

Outcome(error, taken, rest, offset, b) ==
  [err |-> error, src |-> taken, buffered |-> rest, off |-> offset, b |-> b]

\* All that was wanted is in the buffer.
FromBuffer(n) ==
  Outcome("none", src, SubSeq(buffered, n + 1, Len(buffered)), off + n,
          SubSeq(buffered, 1, n))

\* What io.ReadAtLeast may return: what is asked for, or all there is room for.
\* Bound: nothing in between.
Given(least, room) == {least, IF Left < room THEN Left ELSE room}

\* How it fails when the source ends first; what it took is dropped.
EndOfSource(taken) == IF Left = taken THEN "EOF" ELSE "unexpected"

\* Mutant of Next: fills the buffer as if it were empty.
NextUncompacted(n) ==
  LET p == n - Len(buffered) IN
  IF n > BufferSize THEN {Outcome("too small", src, buffered, off, <<>>)}
  ELSE IF p <= 0 THEN {FromBuffer(n)}
  ELSE IF Left < p
  THEN {Outcome(EndOfSource(0), Len(bytes), buffered, off, <<>>)}
  ELSE {LET have == buffered \o SubSeq(bytes, src + 1, src + k)
        IN  Outcome("none", src + k, SubSeq(have, n + 1, Len(have)), off + n,
                    SubSeq(have, 1, n)) : k \in Given(p, BufferSize + n)}

Next(n) ==
  LET p == n - Len(buffered) IN
  IF n > BufferSize THEN {Outcome("too small", src, buffered, off, <<>>)}
  ELSE IF p <= 0 THEN {FromBuffer(n)}
  ELSE IF Left < p
  THEN {Outcome(EndOfSource(0), Len(bytes), buffered, off, <<>>)}
  ELSE {LET have == buffered \o SubSeq(bytes, src + 1, src + k)
        IN  Outcome("none", src + k, SubSeq(have, n + 1, Len(have)), off + n,
                    SubSeq(have, 1, n)) :
          k \in Given(p, BufferSize - Len(buffered))}

\* Read into n bytes: more than the buffer holds is read past it.
Read(n) ==
  LET m == n - Len(buffered) IN
  IF m <= 0 THEN {FromBuffer(n)}
  ELSE IF Left < m
  THEN {Outcome(EndOfSource(0), Len(bytes), <<>>,
                off + Len(buffered) + (IF m > BufferSize THEN Left ELSE 0),
                <<>>)}
  ELSE {Outcome("none", src + k, SubSeq(bytes, src + m + 1, src + k), off + n,
                buffered \o SubSeq(bytes, src + 1, src + m)) :
          k \in IF m > BufferSize THEN {m} ELSE Given(m, BufferSize)}

\* Mutant of Skip: the buffer is left empty after the last read.
SkipEmpties(n) ==
  LET d    == n - Len(buffered)
      full == ((d - 1) \div BufferSize) * BufferSize
      read == (Min({Left, full}) \div BufferSize) * BufferSize
  IN
  IF d <= 0 THEN {FromBuffer(n)}
  ELSE IF Left < d
  THEN {Outcome(EndOfSource(read), Len(bytes), <<>>,
                off + Len(buffered) + read, <<>>)}
  ELSE {Outcome("none", src + k, <<>>, off + n, <<>>) :
          k \in Given(d, full + BufferSize)}

\* Skip reads full buffers, and the last one as far as the source gives.
Skip(n) ==
  LET d    == n - Len(buffered)
      full == ((d - 1) \div BufferSize) * BufferSize
      read == (Min({Left, full}) \div BufferSize) * BufferSize
  IN
  IF d <= 0 THEN {FromBuffer(n)}
  ELSE IF Left < d
  THEN {Outcome(EndOfSource(read), Len(bytes), <<>>,
                off + Len(buffered) + read, <<>>)}
  ELSE {Outcome("none", src + k, SubSeq(bytes, src + d + 1, src + k), off + n,
                <<>>) : k \in Given(d, full + BufferSize)}

Takes(o) == src' = o.src /\ buffered' = o.buffered /\ off' = o.off

-----------------------------------------------------------------------------
(* Reader.                                                                  *)

\* Reader.next: an element that is used up ends in EOF, also when nothing was
\* to be read.
next(r, n) ==
  IF r.len = 0 THEN {Outcome("EOF", src, buffered, off, <<>>)}
  ELSE IF 0 <= r.len /\ r.len < n
  THEN {Outcome("format", src, buffered, off, <<>>)}
  ELSE Next(n)

\* What fails to come is counted all the same.
Used(r, n) == IF r.len >= n THEN [r EXCEPT !.len = @ - n] ELSE r

\* The bytes left in the Readers of a chain up to each of them, without the
\* first i; and in those below a Reader.
LeftIn(chain, i) ==
  LET left[j \in 0 .. Len(chain)] ==
        IF j <= i THEN 0
        ELSE left[j - 1] + (IF chain[j].len > 0 THEN chain[j].len ELSE 0)
  IN  left
Below(i) == LeftIn(readers, i)[Len(readers)]

\* A chain of which it cannot be told any more where its elements end.
Astray(chain) == [i \in DOMAIN chain |-> [chain[i] EXCEPT !.end = Unknown]]

\* How many more bytes an id or a size has: the zeros its first byte starts
\* with.
More(b) == Cardinality({k \in 0 .. 7 : b < 2 ^ k})

\* What the first bytes stand for, after what is known of it, for each number
\* of them.
BigEndian(b, high) ==
  LET value[i \in 0 .. Len(b)] ==
        IF i = 0 THEN high ELSE value[i - 1] * 256 + b[i]
  IN  value

\* ReadElement starts with what is left of the element before.
ReadNext(i) == at' = i /\ step' = "skip"

Fails(e) == step' = "error" /\ err' = e

Lost(o, n) ==
  /\ o.err # "none"
  /\ Fails(o.err)
  /\ readers' = [readers EXCEPT ![at] = Used(@, n)]
  /\ UNCHANGED <<first, id>>

Gets(o, n) ==
  /\ o.err = "none"
  /\ readers' = [readers EXCEPT ![at] = Used(@, n)]

skip ==
  /\ step = "skip"
  /\ \E o \in Skip(Below(at)) :
       /\ Takes(o)
       /\ IF o.err = "none" THEN step' = "id" /\ UNCHANGED err
          ELSE Fails(o.err)
  /\ readers' = SubSeq(readers, 1, at)
  /\ id' = 0
  /\ UNCHANGED <<bytes, at, first>>

\* readID: bytes no id starts with are left out.
readID ==
  /\ step = "id"
  /\ \E o \in next(readers[at], 1) :
       /\ Takes(o)
       /\ \/ Lost(o, 1)
          \/ /\ Gets(o, 1)
             /\ step' = IF o.b[1] < 16 THEN "id"
                        ELSE IF More(o.b[1]) = 0 THEN "size" ELSE "id rest"
             /\ first' = o.b[1] /\ id' = o.b[1]
             /\ UNCHANGED err
  /\ UNCHANGED <<bytes, at>>

readIDRest ==
  /\ step = "id rest"
  /\ \E o \in next(readers[at], More(first)) :
       /\ Takes(o)
       /\ \/ Lost(o, More(first))
          \/ /\ Gets(o, More(first))
             /\ step' = "size"
             /\ id' = BigEndian(o.b, first)[More(first)]
             /\ UNCHANGED <<first, err>>
  /\ UNCHANGED <<bytes, at>>

\* Mutant of OpenElement: the parent is charged only for what is read of it.
OpenElementUncharged(r, size) ==
  /\ step' = "element"
  /\ readers' = Append([readers EXCEPT ![at] = r],
                       Reader(id, size, off' + size))
  /\ UNCHANGED err

\* readElement once it has the size.
OpenElement(r, size) ==
  IF r.len >= 0 /\ r.len < size
  THEN Fails("unexpected") /\ readers' = [readers EXCEPT ![at] = r]
  ELSE /\ step' = "element"
       /\ readers' = Append([readers EXCEPT ![at] = Used(r, size)],
                            Reader(id, size, off' + size))
       /\ UNCHANGED err

\* An element of unknown size costs its parent nothing, so that what is read of
\* it is not counted in the elements around it.
OpenUnknown(r) ==
  /\ step' = "element"
  /\ readers' = Append(Astray([readers EXCEPT ![at] = r]),
                       Reader(id, Unknown, Unknown))
  /\ UNCHANGED err

\* Sizes whose bits are all ones stand for an unknown size.
readElement ==
  /\ step = "size"
  /\ \E o \in next(readers[at], 1) :
       /\ Takes(o)
       /\ \/ Lost(o, 1)
          \/ /\ o.err = "none"
             /\ first' = o.b[1] /\ UNCHANGED id
             /\ LET r == Used(readers[at], 1) IN
                \/ More(o.b[1]) = 0 /\ o.b[1] = 255 /\ OpenUnknown(r)
                \/ More(o.b[1]) = 0 /\ o.b[1] # 255
                   /\ OpenElement(r, o.b[1] % 128)
                \/ /\ More(o.b[1]) \in 1 .. 7
                   /\ step' = "size rest" /\ UNCHANGED err
                   /\ readers' = [readers EXCEPT ![at] = r]
                \/ /\ More(o.b[1]) = 8
                   /\ Fails("format")
                   /\ readers' = [readers EXCEPT ![at] = r]
  /\ UNCHANGED <<bytes, at>>

readElementRest ==
  /\ step = "size rest"
  /\ LET n    == More(first)
         high == first % 2 ^ (7 - n)
     IN
     \E o \in next(readers[at], n) :
       /\ Takes(o)
       /\ \/ Lost(o, n)
          \/ /\ o.err = "none"
             /\ UNCHANGED <<first, id>>
             /\ IF high = 2 ^ (7 - n) - 1 /\ \A i \in 1 .. n : o.b[i] = 255
                THEN OpenUnknown(Used(readers[at], n))
                ELSE OpenElement(Used(readers[at], n), BigEndian(o.b, high)[n])
  /\ UNCHANGED <<bytes, at>>

ReadElement == skip \/ readID \/ readIDRest \/ readElement \/ readElementRest

-----------------------------------------------------------------------------
(* Properties                                                               *)

DecoderTypeOK ==
  /\ src \in 0 .. Len(bytes)
  /\ off \in 0 .. Len(bytes)
  /\ Len(buffered) <= BufferSize
  /\ at \in 1 .. Len(readers)
  /\ \A i \in DOMAIN readers : readers[i].len >= -1
  /\ step \in {"skip", "id", "id rest", "size", "size rest", "element", "error"}
  /\ first \in 0 .. 255
  /\ err \in {"none", "EOF", "unexpected", "too small", "format"}

\* However much the source gives at a time, and whether it is read or skipped,
\* the buffer holds the bytes that follow those read so far and the source
\* gives those after them, until it ended (decoder.go:309-398).
InStep ==
  /\ buffered = SubSeq(bytes, off + 1, off + Len(buffered))
  /\ Left > 0 => src = off + Len(buffered)
=============================================================================
