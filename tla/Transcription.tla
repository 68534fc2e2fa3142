--------------------------- MODULE Transcription ---------------------------
(***************************************************************************)
(* Processor.process (pipeline.py) as one attempt runs it: decode the      *)
(* audio block by block, hear speech (VAD) or not (direct), embed speaker  *)
(* windows (diarize), transcribe segments in batches, and write the        *)
(* results to a sink that is sealed at the end or aborted.  The loop       *)
(* belongs to one thread; cancellation is set by another at any moment,    *)
(* and every call to decoder, models, progress and sink may raise.         *)
(* Which segments and regions there are is left open: SpeechSegments and   *)
(* OfflineDiarization say that.                                            *)
(***************************************************************************)
EXTENDS Integers, Sequences, SequencesExt

CONSTANTS
    Modes,          \* bound: the modes that are looked at
    Block,          \* BLOCK_SAMPLES
    AudioMax,       \* effective_max_audio_samples
    DirectMax,      \* effective_direct_max_audio_samples
    BatchSegments,  \* ASR_BATCH_MAX_SEGMENTS
    BatchPcm,       \* ASR_BATCH_MAX_PCM_SAMPLES
    BatchWall,      \* ASR_BATCH_MAX_WALL_SAMPLES
    EmbedBatch,     \* SPEAKER_EMBEDDING_BATCH_MAX_WINDOWS
    MaxWindows,     \* bound: speaker windows there may be
    MaxEmitted,     \* bound: segments one block may complete
    MaxRegions      \* bound: regions diarization may find

ASSUME TranscriptionAssumption ==
    /\ Modes \subseteq {"direct", "vad", "diarize"}
    /\ {Block, AudioMax, DirectMax, BatchSegments, BatchPcm, BatchWall, EmbedBatch}
          \subseteq Nat \ {0}
    /\ {MaxWindows, MaxEmitted, MaxRegions} \subseteq Nat
    /\ DirectMax <= AudioMax

VARIABLES
    mode, pc, cancelled,
    decoder,        \* "none" before decode, "open", then "closed"
    closes,         \* history: how often the decoder has been closed
    current,        \* length of the block in hand, 0 if there is none
    following,      \* length of the block after it, 0 if it is the last
    processed,      \* samples that are through
    progress,       \* what the progress sink has been told
    windows,        \* speaker windows still to be embedded
    todo,           \* segments to be enqueued
    pending,        \* the batch
    draining,       \* the batch in hand is the last
    sink, records,  \* the sink and what has been appended to it
    emitted,        \* history: every segment there was to transcribe
    answered,       \* history: every segment whose result has been handled
    late,           \* history: model calls begun after cancellation
    refused         \* history: progress or sink refused what it was told

stream == <<decoder, closes, current, following, processed>>
batch == <<windows, todo, pending, draining>>
output == <<sink, records, emitted, answered>>
vars == <<mode, pc, cancelled, stream, progress, batch, output, late, refused>>

None == -1

Init ==
    /\ mode \in Modes
    /\ pc = "start" /\ cancelled = FALSE
    /\ decoder = "none" /\ closes = 0
    /\ current = 0 /\ following = 0 /\ processed = 0
    /\ progress = [last |-> None, total |-> None]
    /\ windows = 0 /\ todo = <<>> /\ pending = <<>> /\ draining = FALSE
    /\ sink = "open" /\ records = <<>> /\ emitted = <<>> /\ answered = <<>>
    /\ late = 0 /\ refused = FALSE

Goes(p) == pc' = p
Step(from, to) == pc = from /\ Goes(to) /\ UNCHANGED <<mode, cancelled>>

(* Somebody else: a disconnected client, DELETE, or a shutdown.            *)
Cancel ==
    /\ ~cancelled
    /\ pc \notin {"done", "failed"}
    /\ cancelled' = TRUE
    /\ UNCHANGED <<mode, pc, stream, progress, batch, output, late, refused>>

(* Any call may raise, and the code raises where a check fails.            *)
Raise ==
    /\ pc \notin {"close", "abort", "done", "failed"}
    /\ Goes("close")
    /\ UNCHANGED <<mode, cancelled, stream, progress, batch, output, late, refused>>

(* Fault: the flag is only looked at while audio is decoded.               *)
CheckWhileDecoding == ~cancelled \/ decoder = "closed"

(* _check_processing_cancellation: goes on, or else only Raise is left.    *)
Check == ~cancelled

Checks(from, to) ==
    /\ Step(from, to)
    /\ Check
    /\ UNCHANGED <<stream, progress, batch, output, late, refused>>

(* ProgressAccumulator.update: counts never go back, and after the total   *)
(* there is nothing left to say.                                           *)
Accepted(n) == progress.total = None /\ n >= progress.last

Tells(from, to, n, total) ==
    /\ pc = from
    /\ IF Accepted(n)
         THEN Goes(to) /\ progress' = [last |-> n, total |-> total] /\ UNCHANGED refused
         ELSE Goes("close") /\ refused' = TRUE /\ UNCHANGED progress
    /\ UNCHANGED <<mode, cancelled, late>>

(* A model call begins.                                                    *)
Calls == late' = IF cancelled THEN late + 1 ELSE late

-----------------------------------------------------------------------------
(* Options, models and limits are checked; probe and decode.               *)
Start ==
    /\ Step("start", IF mode = "direct" THEN "collect" ELSE "first")
    /\ Check
    /\ decoder' = "open"
    /\ UNCHANGED <<closes, current, following, processed, progress, batch, output, late, refused>>

(* _process_direct: all blocks, only the last one short.                   *)
CollectBlock ==
    /\ Step("collect", "collected block")
    /\ Check
    /\ current \in {0, Block}
    /\ \E n \in 1..Block :
          /\ processed + n <= DirectMax
          /\ current' = n
          /\ processed' = processed + n
    /\ UNCHANGED <<decoder, closes, following, progress, batch, output, late, refused>>

TellBlock ==
    /\ Tells("collected block", "collect", processed, None)
    /\ UNCHANGED <<stream, batch, output>>

(* The whole audio is one batch; the call begins without another check.    *)
CollectEnds ==
    /\ pc = "collect"
    /\ IF processed = 0
         THEN /\ Tells("collect", "finish", 0, None)
              /\ UNCHANGED <<batch, emitted>>
         ELSE LET whole == <<[start |-> 0, stop |-> processed, pcm |-> processed]>>
              IN /\ Step("collect", "call")
                 /\ pending' = whole /\ emitted' = whole /\ draining' = TRUE
                 /\ UNCHANGED <<windows, todo, progress, late, refused>>
    /\ UNCHANGED <<stream, sink, records, answered>>

-----------------------------------------------------------------------------
(* _traverse_vad: a block is heard once it is known whether it is the last *)
Fits(n, at) == at + n <= AudioMax

FirstBlock ==
    /\ Step("first", "ahead")
    /\ \E n \in 1..Block : Fits(n, 0) /\ current' = n
    /\ UNCHANGED <<decoder, closes, following, processed, progress, batch, output, late, refused>>

NoBlock ==
    /\ Tells("first", IF mode = "vad" THEN "drain" ELSE "traversed", 0, None)
    /\ UNCHANGED <<stream, batch, output>>

ReadAhead ==
    /\ Step("ahead", "check hearing")
    /\ \/ following' = 0
       \/ \E n \in 1..Block :
             /\ current = Block /\ Fits(n, processed + current)
             /\ following' = n
    /\ UNCHANGED <<decoder, closes, current, processed, progress, batch, output, late, refused>>

CheckHearing == Checks("check hearing", "hear")

(* What the segmenter may return, in order, behind what it returned before *)
(* and with a little PCM before each segment.                              *)
LastStop(s) == IF s = <<>> THEN 0 ELSE Last(s).stop

Segments(from, to) ==
    {s \in [start : from..to, stop : from..to, pcm : 1..(to - from + 1)] :
        s.start < s.stop /\ s.pcm - (s.stop - s.start) \in {0, 1}}

SegmentsIn(from, to, n) ==
    {s \in BoundedSeq(Segments(from, to), n) :
        \A i \in 2..Len(s) : s[i].start >= s[i - 1].stop}

Hear ==
    /\ Step("hear", "heard")
    /\ Calls
    /\ \E s \in SegmentsIn(LastStop(emitted), processed + current, MaxEmitted) :
          IF mode = "vad"
            THEN todo' = s /\ emitted' = emitted \o s
            ELSE UNCHANGED <<todo, emitted>>
    /\ UNCHANGED <<stream, progress, windows, pending, draining, sink, records, answered, refused>>

(* The fence after each model call: check, tell, check.                    *)
FenceBegins(from, to) ==
    /\ Check
    /\ Tells(from, to, processed, None)
    /\ UNCHANGED <<stream, batch, output>>

FenceHearing == FenceBegins("heard", "heard fence")
HearingFenced == Checks("heard fence", "enqueue")

(* Fault: the position in the block instead of the one in the recording.   *)
AdvancedInBlock == current

Advanced == processed + current

Advance ==
    /\ pc = "enqueue" /\ todo = <<>> /\ decoder = "open"
    /\ processed' = Advanced
    /\ current' = following
    /\ Tells("enqueue",
             IF following # 0 THEN "ahead"
             ELSE IF mode = "vad" THEN "drain" ELSE "traversed", processed', None)
    /\ UNCHANGED <<decoder, closes, following, batch, output>>

-----------------------------------------------------------------------------
(* _AsrBatchWriter.                                                        *)
Pcm(s) == FoldLeft(LAMBDA n, x : n + x.pcm, 0, s)
Wall(s) == Last(s).stop - s[1].start

Exceeds(segment) ==
    pending # <<>> /\ \/ Len(pending) + 1 > BatchSegments
                      \/ Pcm(pending) + segment.pcm > BatchPcm
                      \/ segment.stop - pending[1].start > BatchWall

Enqueue ==
    /\ pc = "enqueue" /\ todo # <<>>
    /\ IF Exceeds(Head(todo))
         THEN Goes("flush") /\ UNCHANGED <<todo, pending>>
         ELSE /\ pending' = Append(pending, Head(todo)) /\ todo' = Tail(todo)
              /\ UNCHANGED pc
    /\ UNCHANGED <<mode, cancelled, stream, progress, windows, draining, output, late, refused>>

(* Fault: the last batch is forgotten.                                     *)
DrainNothing ==
    /\ \/ pc = "drain"
       \/ pc = "enqueue" /\ todo = <<>> /\ decoder = "closed"
    /\ draining' = TRUE
    /\ Goes("finish")
    /\ UNCHANGED <<mode, cancelled, stream, progress, windows, todo, pending, output, late, refused>>

(* The last flush, after the traversal or after the last region.           *)
Drain ==
    /\ \/ pc = "drain"
       \/ pc = "enqueue" /\ todo = <<>> /\ decoder = "closed"
    /\ draining' = TRUE
    /\ Goes(IF pending = <<>> THEN "finish" ELSE "flush")
    /\ UNCHANGED <<mode, cancelled, stream, progress, windows, todo, pending, output, late, refused>>

CheckFlush == Checks("flush", "call")

Transcribe ==
    /\ Step("call", "called")
    /\ Calls
    /\ UNCHANGED <<stream, progress, batch, output, refused>>

FenceCall == FenceBegins("called", "called fence")
CallFenced == Checks("called fence", "append")

(* CanonicalJsonlSegmentSink.append: one result after the other; an empty  *)
(* text is left out.                                                       *)
SinkAccepts(segment) ==
    /\ sink = "open"
    /\ segment.start >= LastStop(records) /\ segment.stop > segment.start

AppendResult ==
    /\ pc = "append" /\ pending # <<>>
    /\ answered' = Append(answered, Head(pending))
    /\ pending' = Tail(pending)
    /\ \/ UNCHANGED <<pc, records, refused>>
       \/ IF SinkAccepts(Head(pending))
            THEN records' = Append(records, Head(pending)) /\ UNCHANGED <<pc, refused>>
            ELSE Goes("close") /\ refused' = TRUE /\ UNCHANGED records
    /\ UNCHANGED <<mode, cancelled, stream, progress, windows, todo, draining, sink, emitted, late>>

BatchDone ==
    /\ Step("append", IF draining THEN "finish" ELSE "enqueue")
    /\ pending = <<>>
    /\ UNCHANGED <<stream, progress, batch, output, late, refused>>

-----------------------------------------------------------------------------
(* close_decoder: attempted once, whether or not it raises.                *)
CloseDecoder ==
    IF closes > 0 THEN UNCHANGED <<decoder, closes>>
    ELSE decoder' = "closed" /\ closes' = closes + 1

CloseAfterTraversal ==
    /\ pc = "traversed"
    /\ CloseDecoder
    /\ Goes("speech") \/ Goes("close")
    /\ UNCHANGED <<mode, cancelled, current, following, processed, progress, batch, output, late, refused>>

(* _process_offline_diarization: windows are embedded in batches.          *)
FindWindows ==
    /\ pc = "speech"
    /\ \E n \in 0..MaxWindows :
          windows' = n /\ Goes(IF n = 0 THEN "finish" ELSE "embed")
    /\ UNCHANGED <<mode, cancelled, stream, progress, todo, pending, draining, output, late, refused>>

Embed ==
    /\ Step("embed", "embedded")
    /\ Calls
    /\ windows' = IF windows > EmbedBatch THEN windows - EmbedBatch ELSE 0
    /\ UNCHANGED <<stream, progress, todo, pending, draining, output, refused>>

FenceEmbedding == FenceBegins("embedded", "embedded fence")
EmbeddingFenced == Checks("embedded fence", IF windows = 0 THEN "cluster" ELSE "embed")

Cluster == Checks("cluster", "clustered")

ProjectRegions ==
    /\ Step("clustered", "enqueue")
    /\ Check
    /\ \E s \in SegmentsIn(0, processed, MaxRegions) :
          /\ s # <<>>
          /\ \A i \in DOMAIN s : s[i].pcm = s[i].stop - s[i].start
          /\ todo' = s /\ emitted' = s
    /\ UNCHANGED <<stream, progress, windows, pending, draining, sink, records, answered, late, refused>>

-----------------------------------------------------------------------------
(* The end of process.                                                     *)
FinishDecoding ==
    /\ pc = "finish"
    /\ CloseDecoder
    /\ Goes("check end") \/ Goes("close")
    /\ UNCHANGED <<mode, cancelled, current, following, processed, progress, batch, output, late, refused>>

CheckEnd == Checks("check end", "tell end")

TellEnd ==
    /\ Tells("tell end", "seal", processed, processed)
    /\ UNCHANGED <<stream, batch, output>>

Seal ==
    /\ Step("seal", "done")
    /\ sink' = "sealed"
    /\ UNCHANGED <<stream, progress, batch, records, emitted, answered, late, refused>>

UnwindDecoder == IF decoder = "none" THEN UNCHANGED <<decoder, closes>> ELSE CloseDecoder

Close ==
    /\ Step("close", "abort")
    /\ UnwindDecoder
    /\ UNCHANGED <<current, following, processed, progress, batch, output, late, refused>>

Abort ==
    /\ Step("abort", "failed")
    /\ sink' = "aborted" \/ UNCHANGED sink
    /\ UNCHANGED <<stream, progress, batch, records, emitted, answered, late, refused>>

Ended == pc \in {"done", "failed"} /\ UNCHANGED vars

Next ==
    \/ Cancel \/ Raise \/ Start
    \/ CollectBlock \/ TellBlock \/ CollectEnds
    \/ FirstBlock \/ NoBlock \/ ReadAhead \/ CheckHearing \/ Hear
    \/ FenceHearing \/ HearingFenced \/ Advance
    \/ Enqueue \/ Drain \/ CheckFlush \/ Transcribe \/ FenceCall \/ CallFenced
    \/ AppendResult \/ BatchDone
    \/ CloseAfterTraversal \/ FindWindows \/ Embed \/ FenceEmbedding \/ EmbeddingFenced
    \/ Cluster \/ ProjectRegions
    \/ FinishDecoding \/ CheckEnd \/ TellEnd \/ Seal \/ Close \/ Abort
    \/ Ended

Spec == Init /\ [][Next]_vars

-----------------------------------------------------------------------------
(* The sink is sealed when everything has been transcribed, the total told *)
(* and the decoder closed, and in no other case; an attempt that fails     *)
(* never leaves a sealed sink (process and its finally blocks).            *)
SealedMeansComplete ==
    /\ pc = "done" <=> sink = "sealed"
    /\ sink = "sealed" => /\ answered = emitted /\ pending = <<>> /\ todo = <<>>
                          /\ progress = [last |-> processed, total |-> processed]
                          /\ decoder = "closed"

(* Whatever raises, and wherever, the decoder is closed once if it was     *)
(* opened, even when closing it is what raises (close_decoder).            *)
DecoderClosedOnce ==
    /\ closes <= 1
    /\ pc \in {"done", "failed"} => decoder # "open"

(* After cancellation at most one more model call begins: the one whose    *)
(* check had been passed (_check_processing_cancellation and the fences).  *)
OneCallAfterCancel == late <= 1

(* Neither the progress sink nor the segment sink ever refuses what the    *)
(* traversal tells it: counts grow, the total comes last, segments are in  *)
(* order (ProgressAccumulator.update, CanonicalJsonlSegmentSink.append).   *)
NothingRefused == ~refused

=============================================================================
