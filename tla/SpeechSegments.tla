--------------------------- MODULE SpeechSegments ---------------------------
(***************************************************************************)
(* How a stream of decoded blocks becomes speech segments that ASR can     *)
(* take (pipeline.py, StreamingSpeechSegmenter): the voice activity        *)
(* detector reports where speech starts and ends, some time after the      *)
(* block in which it happened, StreamingVadSession pairs its markers, and  *)
(* BoundedSpeechPcmBuffer keeps just enough PCM to copy each piece of      *)
(* speech out when its bounds are known, cutting speech that goes on       *)
(* longer than one ASR call may be.                                        *)
(*                                                                         *)
(* The code is sequential; each loop iteration is a step of its own.  PCM  *)
(* is abstracted to positions on the sample axis.  The detector is         *)
(* external: any marker may come, or, when Faithful, only those that keep  *)
(* to the latency the buffer was dimensioned for.                          *)
(***************************************************************************)
EXTENDS SpeechSpans

CONSTANTS
    Block,          \* BLOCK_SAMPLES: samples in every block but the last
    Frontend,       \* VAD_FRONTEND_CONTEXT_SAMPLES
    Backtrack,      \* VAD_BACKTRACK_SAMPLES
    Prepad,         \* VAD_PREPADDING_SAMPLES
    DirectMax,      \* DIRECT_MAX_SAMPLES: the longest segment
    Faithful,       \* whether the detector keeps to its latency
    Horizon,        \* bound: the audio has at most this many samples
    Lengths,        \* bound: lengths the last block may have
    MaxMarkers      \* bound: markers the detector reports for one block

ASSUME SizesAssumption ==
    /\ Block \in Nat /\ Frontend \in Nat /\ Backtrack \in Nat
    /\ Prepad \in Nat /\ DirectMax \in Nat
    /\ Prepad < DirectMax
    /\ Faithful \in BOOLEAN
    /\ Horizon \in Nat /\ MaxMarkers \in Nat
    /\ Lengths \subseteq 1..Block

VARIABLES
    phase,      \* where the segmenter is in its loop over the blocks
    decoded,    \* _processed_end_sample
    block,      \* the block in hand: its length and is_final
    markers,    \* how many markers the detector has reported for it
    vad,        \* the session: pending start and last end, in samples
    spans,      \* spans completed in this block, still to be consumed
    buf,        \* the buffer's cursors
    closing,    \* the span being completed: where it ends, whether it was cut
    segments,   \* everything the segmenter has returned
    islands     \* every span the detector has completed

vars == <<phase, decoded, block, markers, vad, spans, buf, closing, segments, islands>>

None == -1
SamplesPerMs == 16
(* Fault: the ring forgets the padding.                                    *)
IdleRingUnpadded == Block + Frontend + Backtrack

IdleRing == Block + Frontend + Backtrack + Prepad
NotClosing == [stop |-> None, forced |-> FALSE]

Larger(a, b) == IF a >= b THEN a ELSE b

Open == buf.origin # None
Closing == closing.stop # None

-----------------------------------------------------------------------------
Init ==
    /\ phase = "read"
    /\ decoded = 0
    /\ block = [length |-> 0, last |-> FALSE]
    /\ markers = 0
    /\ vad = [start |-> None, end |-> 0]
    /\ spans = <<>>
    /\ buf = [origin |-> None, canonical |-> None, pcm |-> None,
              watermark |-> 0, floor |-> None, kept |-> 0]
    /\ closing = NotClosing
    /\ segments = <<>>
    /\ islands = <<>>

Goes(p) == phase' = p

(* A PipelineError or ValueError: session, buffer and segmenter are        *)
(* terminal, and the attempt fails.                                        *)
Fail ==
    /\ Goes("failed")
    /\ UNCHANGED <<decoded, block, markers, vad, spans, buf, closing, segments, islands>>

(* The decoder hands over the next block and says whether it is the last.  *)
ReadBlock ==
    /\ phase = "read"
    /\ \E n \in Lengths \cup {Block}, last \in BOOLEAN :
          /\ last \/ (n = Block /\ decoded + 2 * Block <= Horizon)
          /\ block' = [length |-> n, last |-> last]
    /\ Goes("hear")
    /\ markers' = 0
    /\ UNCHANGED <<decoded, vad, spans, buf, closing, segments, islands>>

-----------------------------------------------------------------------------
(* The detector's answer to the block, one marker at a time.  What it has  *)
(* heard ends with the block; only a detector that errs speaks of later    *)
(* times.                                                                  *)
Heard == decoded + block.length
Times == 0..((Heard \div SamplesPerMs) + (IF Faithful THEN 0 ELSE 1))

(* A detector the buffer was dimensioned for looks back no further than    *)
(* its frontend context and its backtracking, ...                          *)
StartInReach(ms) ==
    /\ ms * SamplesPerMs >= decoded - Frontend - Backtrack
    /\ (ms + 1) * SamplesPerMs <= Heard
    /\ block.last => markers + 1 < MaxMarkers

(* ... and ends speech that was cut already close to the cut.              *)
EndInReach(ms) ==
    Open /\ buf.floor = buf.canonical => ms * SamplesPerMs >= buf.canonical - Prepad

Hears(marker) ==
    /\ phase = "hear"
    /\ markers < MaxMarkers
    /\ markers' = markers + 1
    /\ marker
    /\ UNCHANGED <<decoded, block, buf, closing, segments>>

Keeps == UNCHANGED <<vad, spans, islands>>

(* Fault: a start is not compared with the last end.                       *)
StartWhenIdle(ms) == vad.start = None

(* Speech may start once the last has ended, and ends after it started.    *)
StartInOrder(ms) == vad.start = None /\ ms * SamplesPerMs >= vad.end
EndInOrder(ms) == vad.start # None /\ ms * SamplesPerMs > vad.start

StartMarker(ms) ==
    /\ Faithful => StartInReach(ms) /\ StartInOrder(ms)
    /\ IF StartInOrder(ms)
         THEN /\ vad' = [vad EXCEPT !.start = ms * SamplesPerMs]
              /\ Goes("hear")
              /\ UNCHANGED <<spans, islands>>
         ELSE Goes("failed") /\ Keeps

Completed(start, stop) ==
    /\ vad' = [start |-> None, end |-> stop]
    /\ spans' = Append(spans, [start |-> start, stop |-> stop])
    /\ islands' = Append(islands, [start |-> start, stop |-> stop])
    /\ Goes("hear")

EndMarker(ms) ==
    /\ Faithful => EndInReach(ms) /\ EndInOrder(ms)
    /\ IF EndInOrder(ms)
         THEN Completed(vad.start, ms * SamplesPerMs)
         ELSE Goes("failed") /\ Keeps

WholeMarker(from, to) ==
    /\ Faithful => StartInReach(from) /\ StartInOrder(from)
    /\ IF StartInOrder(from)
         THEN Completed(from * SamplesPerMs, to * SamplesPerMs)
         ELSE Goes("failed") /\ Keeps

HearStart == \E ms \in Times : Hears(StartMarker(ms))
HearEnd == \E ms \in Times : Hears(EndMarker(ms))
HearWhole == \E from, to \in Times : from < to /\ Hears(WholeMarker(from, to))

(* The answer is complete.  Speech still pending at the end of the audio   *)
(* is an error; a faithful detector has ended it.                          *)
Answered ==
    /\ phase = "hear"
    /\ Faithful /\ block.last => vad.start = None
    /\ IF block.last /\ vad.start # None
         THEN Fail
         ELSE /\ Goes("append")
              /\ UNCHANGED <<decoded, block, markers, vad, spans, buf, closing, segments, islands>>

-----------------------------------------------------------------------------
(* BoundedSpeechPcmBuffer._consume.  Dropping PCM before a position drops  *)
(* whole chunks and splits the one it falls into, so it ends up exact.     *)
TrimmedBefore(b, at) == [b EXCEPT !.kept = Larger(@, at)]

IdleTrimmed(b, end) == TrimmedBefore(b, Larger(0, end - IdleRing))

ValidSpan(s, end) == s.start >= 0 /\ s.stop > s.start /\ s.stop <= end

AppendBlock ==
    /\ phase = "append"
    /\ decoded' = Heard
    /\ buf' = IF Open THEN buf ELSE IdleTrimmed(buf, Heard)
    /\ IF \A i \in DOMAIN spans : ValidSpan(spans[i], Heard)
         THEN Goes("consume") ELSE Goes("failed")
    /\ UNCHANGED <<block, markers, vad, spans, closing, segments, islands>>

(* Where the copy of speech starts: a little before it, never before what  *)
(* was copied already; speech that goes on after a cut starts at the cut.  *)
Continues(origin) == origin <= buf.watermark /\ buf.floor = buf.watermark

StartOf(origin) == IF Continues(origin) THEN buf.watermark ELSE origin

(* Fault: padding reaches into speech that was copied already.             *)
CopyFromPadded(origin) == Larger(buf.kept, origin - Prepad)

CopyFrom(origin) ==
    IF Continues(origin) \/ origin = buf.watermark
      THEN buf.watermark
      ELSE Larger(buf.watermark, origin - Prepad)

MayBegin(origin) ==
    /\ origin <= decoded
    /\ IF Continues(origin) THEN buf.watermark - origin <= Prepad
                            ELSE origin >= buf.watermark
    /\ CopyFrom(origin) >= buf.kept

Begun(origin) ==
    [buf EXCEPT !.origin = origin, !.canonical = StartOf(origin), !.pcm = CopyFrom(origin),
                !.floor = IF Continues(origin) THEN @ ELSE None]

(* _begin_speech, for the first span of the block or for the pending start *)
(* once there is no span left.                                             *)
BeginSpeech ==
    /\ phase = "consume"
    /\ ~Open
    /\ LET origin == IF spans # <<>> THEN spans[1].start ELSE vad.start
       IN /\ origin # None
          /\ IF MayBegin(origin)
               THEN buf' = Begun(origin) /\ Goes("consume")
               ELSE UNCHANGED buf /\ Goes("failed")
    /\ UNCHANGED <<decoded, block, markers, vad, spans, closing, segments, islands>>

(* The first half of _complete_speech: an end behind the last cut is moved *)
(* to the cut, if it is close enough.  The speech completed must be the    *)
(* speech in hand; session and buffer never disagree about it, so that     *)
(* check of the code is an error here and, for pending speech, a guard.    *)
CloseSpeech ==
    /\ phase = "consume"
    /\ Open
    /\ ~Closing
    /\ spans # <<>>
    /\ LET forced == buf.floor = buf.canonical
           behind == buf.canonical - spans[1].stop
       IN IF \/ buf.origin # spans[1].start
             \/ behind > 0 /\ (~forced \/ behind > Prepad)
            THEN Goes("failed") /\ UNCHANGED closing
            ELSE /\ closing' = [stop |-> Larger(spans[1].stop, buf.canonical), forced |-> forced]
                 /\ Goes("consume")
    /\ UNCHANGED <<decoded, block, markers, vad, spans, buf, segments, islands>>

(* How far the speech in hand may be copied: to its end when it is being   *)
(* completed, else to the end of what is decoded.                          *)
Available == IF Closing THEN closing.stop ELSE decoded

Releasing ==
    /\ phase = "consume"
    /\ Open
    /\ \/ Closing
       \/ spans = <<>> /\ buf.origin = vad.start

MayCut == Available - buf.pcm >= DirectMax

(* _copy_range and the checks of BufferedSpeechSegment.                    *)
MayCopy(start, from, to) ==
    /\ from >= buf.kept
    /\ to <= decoded
    /\ 0 < to - from /\ to - from <= DirectMax
    /\ from <= start /\ start < to

Segment(start, from, to) == [start |-> start, pcm |-> from, stop |-> to]

(* One round of _release_full_segments.                                    *)
CutAt(cut) ==
    TrimmedBefore([buf EXCEPT !.canonical = cut, !.pcm = cut,
                              !.watermark = cut, !.floor = cut], cut)

Cut ==
    /\ Releasing
    /\ MayCut
    /\ LET cut == buf.pcm + DirectMax
       IN IF MayCopy(buf.canonical, buf.pcm, cut)
            THEN /\ segments' = Append(segments, Segment(buf.canonical, buf.pcm, cut))
                 /\ buf' = CutAt(cut)
                 /\ Goes("consume")
            ELSE UNCHANGED <<segments, buf>> /\ Goes("failed")
    /\ UNCHANGED <<decoded, block, markers, vad, spans, closing, islands>>

(* Fault: a rest shorter than the padding is not worth a segment.          *)
LittleLeft == closing.stop - buf.pcm <= Prepad

NothingLeft == closing.stop <= buf.pcm

(* The second half of _complete_speech, once what is left fits a segment.  *)
Closed ==
    [buf EXCEPT !.watermark = closing.stop,
                !.floor = IF closing.forced THEN closing.stop ELSE None,
                !.origin = None, !.canonical = None, !.pcm = None]

CompleteSpeech ==
    /\ Releasing
    /\ Closing
    /\ ~MayCut
    /\ IF NothingLeft
         THEN UNCHANGED segments /\ buf' = Closed /\ Goes("consume")
         ELSE IF MayCopy(buf.canonical, buf.pcm, closing.stop)
           THEN /\ segments' = Append(segments,
                                      Segment(buf.canonical, buf.pcm, closing.stop))
                /\ buf' = Closed
                /\ Goes("consume")
           ELSE UNCHANGED <<segments, buf>> /\ Goes("failed")
    /\ spans' = Tail(spans)
    /\ closing' = NotClosing
    /\ UNCHANGED <<decoded, block, markers, vad, islands>>

(* The end of _consume: nothing to release; without speech in hand only    *)
(* the idle ring is kept.                                                  *)
EndBlock ==
    /\ \/ Releasing /\ ~Closing /\ ~MayCut /\ UNCHANGED buf
       \/ /\ phase = "consume" /\ ~Open /\ spans = <<>> /\ vad.start = None
          /\ buf' = IdleTrimmed(buf, decoded)
    /\ Goes(IF block.last THEN "done" ELSE "read")
    /\ UNCHANGED <<decoded, block, markers, vad, spans, closing, segments, islands>>

Ended == phase \in {"done", "failed"} /\ UNCHANGED vars

Next ==
    \/ ReadBlock
    \/ HearStart \/ HearEnd \/ HearWhole \/ Answered
    \/ AppendBlock
    \/ BeginSpeech \/ CloseSpeech
    \/ Cut \/ CompleteSpeech \/ EndBlock
    \/ Ended

Spec == Init /\ [][Next]_vars

-----------------------------------------------------------------------------
(* Types, and the window of PCM: what is kept is a final part of what is   *)
(* decoded, and the cursors of open speech lie within it.                  *)
Span == [start : Nat, stop : Nat]
Position == Nat \cup {None}

TypeOK ==
    /\ phase \in {"read", "hear", "append", "consume", "done", "failed"}
    /\ decoded \in Nat
    /\ block \in [length : 0..Block, last : BOOLEAN]
    /\ markers \in Nat
    /\ vad \in [start : Position, end : Nat]
    /\ spans \in Seq(Span)
    /\ buf \in [origin : Position, canonical : Position, pcm : Position,
                watermark : Nat, floor : Position, kept : 0..decoded]
    /\ closing \in [stop : Position, forced : BOOLEAN]
    /\ segments \in Seq([start : Nat, pcm : Nat, stop : Nat])
    /\ islands \in Seq(Span)
    /\ Open => buf.pcm \in buf.kept..decoded /\ buf.canonical \in buf.pcm..decoded

(* No sample is handed to ASR twice, in whatever way spans are cut, padded *)
(* and continued, and no segment is longer than one ASR call may be.       *)
PcmOnce ==
    /\ \A i \in DOMAIN segments : segments[i].stop - segments[i].pcm \in 1..DirectMax
    /\ \A i, j \in DOMAIN segments : i < j => segments[i].stop <= segments[j].pcm

(* The ring kept while nobody speaks, and the tolerance for an end that    *)
(* comes after the cut, are large enough: with a detector that keeps to    *)
(* its latency no transcription fails as invalid_model_output.             *)
NeverFails == Faithful => phase # "failed"

(* While nobody speaks no more than the ring is kept.                      *)
IdleBounded == phase = "read" /\ ~Open => decoded - buf.kept <= IdleRing

(* Speech that goes on is released as soon as it fills a segment.          *)
OpenBounded == phase = "read" /\ Open => decoded - buf.pcm < DirectMax

Bounds(s) == [i \in DOMAIN s |-> [start |-> s[i].start, stop |-> s[i].stop]]

(* When the audio has ended, every sample of every island of speech lies   *)
(* in a segment, and every segment has a sample of an island: neither a    *)
(* cut, nor an end reported after it, nor padding loses or invents speech. *)
(* It is what diarization requires of its input, or it fails the job.      *)
SpeechCollected ==
    phase = "done" => Collected(islands, Bounds(segments), decoded)
=============================================================================
