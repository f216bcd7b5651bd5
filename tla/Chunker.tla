------------------------------- MODULE Chunker -------------------------------
(***************************************************************************)
(* The chunker (app/models/stt/chunker.py): a recording of so many         *)
(* samples is transcribed in overlapping windows, a window that does not   *)
(* fit into memory in halves, and what the windows yield is stitched into  *)
(* one transcript.  It runs in a thread; others see its progress and set   *)
(* its cancel flag.                                                        *)
(*                                                                         *)
(* Outside src/: the model hears, of each utterance, the part that lies in *)
(* the slice it is given.  A second is one sample.                         *)
(***************************************************************************)
EXTENDS Naturals, Sequences, Functions

CONSTANTS
  Window, Overlap, Floor, Threshold,
  Recordings,  \* bound: pairs of a length and the utterances, in order
  MaxOoms      \* bound: how often memory runs out

ASSUME ChunkerAssumption ==
  /\ Window \in Nat /\ Overlap \in Nat /\ Overlap < Window
  /\ Floor \in Nat \ {0, 1} /\ Threshold \in Nat /\ MaxOoms \in Nat
  /\ \A r \in Recordings :
       /\ r.total \in Nat /\ r.speech \in Seq([from : Nat, to : Nat])
       /\ \A i \in DOMAIN r.speech : r.speech[i].from < r.speech[i].to
       /\ \A i, k \in DOMAIN r.speech : i < k => r.speech[i].to <= r.speech[k].from

VARIABLES
  audio,     \* the recording
  pc,
  start,     \* start_sample
  prevEnd,   \* prev_chunk_end
  count,     \* chunk_count
  work,      \* the slices of the chunk still to be transcribed, in order
  found,     \* what the chunk yielded so far, relative to its start
  merged,    \* the transcript
  reported,  \* the last ChunkProgress
  flag,      \* cancel_flag
  ooms

loop == <<start, prevEnd, count>>
vars == <<audio, pc, loop, work, found, merged, reported, flag, ooms>>

Step        == Window - Overlap
Smaller(a, b) == IF a < b THEN a ELSE b
Larger(a, b)  == IF a > b THEN a ELSE b

ChunkEnd == Smaller(start + Window, audio.total)

\* Those of s that are in T, in their order.
Keep(s, T) ==
  LET keep[i \in 0..Len(s)] == IF i = 0 THEN <<>>
                               ELSE IF s[i] \in T THEN Append(keep[i-1], s[i])
                               ELSE keep[i-1]
  IN  keep[Len(s)]

\* What the model hears in the samples lo..hi-1, relative to lo.
Hear(lo, hi) ==
  LET inside == Keep(audio.speech, {u \in Range(audio.speech) : u.from < hi /\ lo < u.to})
  IN  [i \in DOMAIN inside |-> [from |-> Larger(inside[i].from, lo) - lo,
                                to   |-> Smaller(inside[i].to, hi) - lo]]

Shift(segments, by) ==
  [i \in DOMAIN segments |-> [from |-> segments[i].from + by,
                              to   |-> segments[i].to + by]]

\* A slice is lo..hi-1 of the chunk; at is the offset that is added to what it
\* yields, and its nominal length is whole / parts.
Slice(lo, hi, at, whole, parts) ==
  [lo |-> lo, hi |-> hi, at |-> at, whole |-> whole, parts |-> parts]

\* The slices on the stack are adjacent and reach the end of the chunk, and
\* none that came from a split is shorter than half of the floor.
WorkOK ==
  /\ \A i \in DOMAIN work :
       /\ work[i].lo < work[i].hi /\ work[i].at = work[i].lo
       /\ i < Len(work) => work[i].hi = work[i+1].lo
       /\ work[i].parts > 1 => work[i].hi - work[i].lo >= Floor \div 2
  /\ work # <<>> => work[Len(work)].hi = ChunkEnd - start

TypeOK ==
  /\ pc \in {"begin", "top", "chunk", "done", "failed", "cancelled"}
  /\ start \in Nat /\ count \in Nat /\ prevEnd \in 0..audio.total
  /\ WorkOK
  /\ \A i \in DOMAIN merged : merged[i].from < merged[i].to
  /\ reported \in [done : Nat, total : Nat]
  /\ flag \in BOOLEAN /\ ooms \in 0..MaxOoms

Init ==
  /\ audio \in Recordings
  /\ pc = "begin" /\ start = 0 /\ prevEnd = 0 /\ count = 0
  /\ work = <<>> /\ found = <<>> /\ merged = <<>>
  /\ reported = [done |-> 0, total |-> 0]
  /\ flag = FALSE /\ ooms = 0

-----------------------------------------------------------------------------
SetFlag ==
  /\ ~flag /\ flag' = TRUE
  /\ UNCHANGED <<audio, pc, loop, work, found, merged, reported, ooms>>

\* At most half an hour: one call, in which memory is not looked after.
FastPath ==
  /\ pc = "begin" /\ audio.total <= Threshold
  /\ IF flag
     THEN pc' = "cancelled" /\ UNCHANGED <<merged, reported>>
     ELSE /\ pc' = "done"
          /\ merged' = Hear(0, audio.total)
          /\ reported' = [done |-> 1, total |-> 1]
  /\ UNCHANGED <<audio, loop, work, found, flag, ooms>>

\* The language is detected once.
Chunked ==
  /\ pc = "begin" /\ audio.total > Threshold
  /\ pc' = "top"
  /\ UNCHANGED <<audio, loop, work, found, merged, reported, flag, ooms>>

\* The top of the loop, where the flag is read.
BeginChunk ==
  /\ pc = "top" /\ start < audio.total
  /\ IF flag
     THEN pc' = "cancelled" /\ UNCHANGED <<count, work>>
     ELSE LET length == ChunkEnd - start
          IN  /\ pc' = "chunk"
              /\ count' = count + 1
              /\ work' = <<Slice(0, length, 0, length, 1)>>
  /\ found' = <<>>
  /\ UNCHANGED <<audio, start, prevEnd, merged, reported, flag, ooms>>

InChunk == pc = "chunk" /\ work # <<>>

Transcribe ==
  LET slice == Head(work)
  IN  /\ InChunk
      /\ found' = found \o Shift(Hear(start + slice.lo, start + slice.hi), slice.at)
      /\ work' = Tail(work)
      /\ UNCHANGED <<audio, pc, loop, merged, reported, flag, ooms>>

\* Mutant of BelowFloor: the length is not halved with the slice.
BelowFloorWhole(slice) == slice.whole < Floor

\* chunk_s < FLOOR_SECONDS, where chunk_s is halved as often as the slice.
BelowFloor(slice) == slice.whole < Floor * slice.parts

Halves(slice) ==
  LET mid == (slice.hi - slice.lo) \div 2
  IN  << Slice(slice.lo, slice.lo + mid, slice.at, slice.whole, slice.parts * 2),
         Slice(slice.lo + mid, slice.hi, slice.at + mid, slice.whole, slice.parts * 2) >>

OutOfMemory ==
  LET slice == Head(work)
  IN  /\ InChunk /\ ooms < MaxOoms
      /\ ooms' = ooms + 1
      /\ IF BelowFloor(slice)
         THEN pc' = "failed" /\ UNCHANGED work
         ELSE work' = Halves(slice) \o Tail(work) /\ UNCHANGED pc
      /\ UNCHANGED <<audio, loop, found, merged, reported, flag>>

\* Any other error of a call, of the fast path or of the language detection.
Fail ==
  /\ pc = "begin" \/ InChunk
  /\ pc' = "failed"
  /\ UNCHANGED <<audio, loop, work, found, merged, reported, flag, ooms>>

\* Mutant of Fresh: a segment that starts where the last chunk ended goes too.
FreshAfter(segment) == segment.from > prevEnd

\* Not in the part of the overlap that the chunk before has covered.
Fresh(segment) == segment.from >= prevEnd

\* Mutant of TotalChunks: in windows.
TotalWindows == (audio.total + Window - 1) \div Window

\* math.ceil(total_seconds / step_seconds)
TotalChunks == (audio.total + Step - 1) \div Step

Stitch ==
  /\ pc = "chunk" /\ work = <<>>
  /\ merged' = merged \o Keep(Shift(found, start),
                              {segment \in Range(Shift(found, start)) : Fresh(segment)})
  /\ prevEnd' = ChunkEnd
  /\ start' = start + Step
  /\ reported' = [done |-> count, total |-> TotalChunks]
  /\ pc' = "top"
  /\ UNCHANGED <<audio, count, work, found, flag, ooms>>

Finish ==
  /\ pc = "top" /\ start >= audio.total
  /\ pc' = "done"
  /\ UNCHANGED <<audio, loop, work, found, merged, reported, flag, ooms>>

Next == SetFlag \/ FastPath \/ Chunked \/ BeginChunk \/ Transcribe \/ OutOfMemory
          \/ Fail \/ Stitch \/ Finish

Spec == Init /\ [][Next]_vars

-----------------------------------------------------------------------------
Spoken(t) == \E i \in DOMAIN audio.speech : audio.speech[i].from <= t /\ t < audio.speech[i].to

Written(t) == {i \in DOMAIN merged : merged[i].from <= t /\ t < merged[i].to}

WindowEnds == {k * Step + Window : k \in 0..(audio.total \div Step)}

\* Past a window's end in an utterance that began before it: the next window
\* has the rest of it, which starts in the overlap and is dropped.
CutOff(t) ==
  audio.total > Threshold /\ \E e \in WindowEnds, i \in DOMAIN audio.speech :
    audio.speech[i].from < e /\ e <= t /\ t < audio.speech[i].to

\* The transcript is in order, has every second of speech once and nothing
\* else, however the windows were split; only the rest of an utterance that a
\* window's end cuts may be missing (app/models/stt/chunker.py, "the full chunk
\* duration is covered with no dropped remainder", "overlap dedupe").
TranscriptIsStitched ==
  pc = "done" =>
    /\ \A i, j \in DOMAIN merged : i < j => merged[i].to <= merged[j].from
    /\ \A t \in 0..(audio.total - 1) :
         /\ Spoken(t) /\ ~CutOff(t) => Written(t) # {}
         /\ Written(t) # {} => Spoken(t)

\* The count reported to the clients never passes the total, which is reached
\* at the end and only there (app/models/stt/chunker.py, total_chunks "matches
\* the while-loop condition"), also when the last window lies in the overlap.
ProgressIsFull ==
  /\ reported.done <= reported.total
  /\ reported.total > 0 =>
       (reported.done = reported.total <=> pc = "done" \/ (pc = "top" /\ start >= audio.total))

=============================================================================
