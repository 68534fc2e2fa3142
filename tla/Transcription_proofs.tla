------------------------- MODULE Transcription_proofs -------------------------
(***************************************************************************)
(* What one attempt promises for audio of any length, any limits and any   *)
(* segments: that a sealed result is complete, that the decoder is closed  *)
(* exactly once, that cancellation lets at most one more model call begin, *)
(* and that neither sink refuses anything.                                 *)
(***************************************************************************)
EXTENDS Transcription, SequenceTheorems, TLAPS

Segment == [start : Nat, stop : Nat, pcm : Nat]

TypeInv ==
    /\ mode \in {"direct", "vad", "diarize"} /\ cancelled \in BOOLEAN
    /\ current \in Nat /\ following \in Nat /\ processed \in Nat
    /\ draining \in BOOLEAN
    /\ todo \in Seq(Segment) /\ pending \in Seq(Segment)
    /\ emitted \in Seq(Segment) /\ answered \in Seq(Segment)
    /\ records \in Seq(Segment)
    /\ progress \in [last : Int, total : Int]

(* A late call ends in front of a check that nobody passes any more.       *)
CallInv ==
    /\ late \in {0, 1}
    /\ late = 1 => cancelled /\ pc \in {"heard", "called", "embedded", "close", "abort", "failed"}

DecoderInv ==
    /\ decoder \in {"none", "open", "closed"}
    /\ closes = IF decoder = "closed" THEN 1 ELSE 0
    /\ pc = "start" => decoder = "none"
    /\ decoder = "none" => pc \in {"start", "close", "abort", "failed"}
    /\ pc \in {"speech", "embed", "embedded", "embedded fence", "cluster", "clustered",
               "check end", "tell end", "seal", "done", "abort", "failed"} => decoder # "open"

Quiet == todo = <<>> /\ pending = <<>> /\ answered = <<>> /\ emitted = <<>>

PlaceInv ==
    /\ pc \in {"start", "collect", "collected block", "first"} => Quiet
    /\ pc \in {"collect", "collected block"} => mode = "direct"
    /\ mode = "direct" =>
          /\ pc \in {"start", "collect", "collected block", "call", "called", "called fence",
                     "append", "finish", "check end", "tell end", "seal", "done", "close",
                     "abort", "failed"}
          /\ pc \in {"call", "called", "called fence", "append"} => draining = TRUE
    /\ mode = "diarize" /\ decoder # "closed" => Quiet
    /\ pc \in {"speech", "embed", "embedded", "embedded fence", "cluster", "clustered",
               "traversed"} => Quiet
    /\ pc \in {"ahead", "check hearing", "hear", "drain"} => todo = <<>>
    /\ draining = TRUE =>
          /\ todo = <<>>
          /\ pc \in {"flush", "call", "called", "called fence", "append", "finish",
                     "check end", "tell end", "seal", "done", "close", "abort", "failed"}
    /\ pc \in {"finish", "check end", "tell end", "seal", "done"} => todo = <<>> /\ pending = <<>>

(* Segments come in at todo, pass through the batch and end as answered;   *)
(* none is lost, doubled or overtaken on the way.                          *)
FlowInv == emitted = (answered \o pending) \o todo /\ PlaceInv

EndInv ==
    /\ pc = "done" <=> sink = "sealed"
    /\ sink = "aborted" => pc = "failed"
    /\ sink \in {"open", "sealed", "aborted"}
    /\ pc \in {"seal", "done"} => progress = [last |-> processed, total |-> processed]

(* What progress is told grows, and the total is the last word.            *)
Told == {"seal", "done", "close", "abort", "failed"}

TellInv ==
    /\ progress.last <= processed
    /\ pc \in {"start", "first"} => processed = 0
    /\ pc \notin Told => progress.total = None

Ordered(s) ==
    \A i \in 1..Len(s) :
        /\ s[i].start < s[i].stop
        /\ i > 1 => s[i].start >= s[i - 1].stop

OrderInv == Ordered(emitted) /\ LastStop(records) <= LastStop(answered)

Inv ==
    /\ TypeInv /\ CallInv /\ DecoderInv /\ FlowInv /\ EndInv
    /\ TellInv /\ OrderInv /\ ~refused

-----------------------------------------------------------------------------
LEMMA InitInv == Init => Inv
<1> SUFFICES ASSUME Init PROVE Inv
  OBVIOUS
<1>1. CallInv /\ DecoderInv /\ EndInv
  BY DEF Init, CallInv, DecoderInv, EndInv
<1>2. <<>> \in Seq(Segment) /\ Modes \subseteq {"direct", "vad", "diarize"}
  BY TranscriptionAssumption, EmptySeq
<1>3. TypeInv
  <2>1. mode \in {"direct", "vad", "diarize"}
    BY <1>2 DEF Init
  <2>2. progress \in [last : Int, total : Int]
    BY DEF Init, None
  <2>3. QED
    BY <1>2, <2>1, <2>2 DEF Init, TypeInv
<1>4. FlowInv
  <2>1. Quiet /\ PlaceInv
    BY DEF Init, PlaceInv, Quiet
  <2>2. (<<>> \o <<>>) \o <<>> = <<>>
    BY EmptySeq, ConcatEmptySeq
  <2>3. QED
    BY <2>1, <2>2 DEF FlowInv, Quiet
<1>5. TellInv /\ OrderInv /\ ~refused
  BY DEF Init, TellInv, Told, OrderInv, Ordered, LastStop, None
<1>6. QED
  BY <1>1, <1>3, <1>4, <1>5 DEF Inv

-----------------------------------------------------------------------------
(* Only a call may be late, and it must not have been late before.         *)
LEMMA CallStep == Inv /\ [Next]_vars => CallInv'
<1> SUFFICES ASSUME Inv, [Next]_vars PROVE CallInv'
  OBVIOUS
<1> USE DEF Inv, CallInv
<1>1. CASE Hear \/ Transcribe \/ Embed
  BY <1>1 DEF Hear, Transcribe, Embed, Calls, Step, Goes, TypeInv
<1>2. CASE FenceHearing \/ FenceCall \/ FenceEmbedding
  BY <1>2 DEF FenceHearing, FenceCall, FenceEmbedding, FenceBegins, Tells, Check, Goes
<1>3. CASE Cancel \/ Raise \/ Close \/ Abort \/ Ended \/ UNCHANGED vars
  BY <1>3 DEF Cancel, Raise, Close, Abort, Ended, Step, Goes, vars
<1>4. CASE \/ TellBlock \/ NoBlock \/ CollectEnds \/ Advance \/ TellEnd
  BY <1>4 DEF TellBlock, NoBlock, CollectEnds, Advance, TellEnd, Tells, Step, Goes
<1>5. CASE \/ CheckHearing \/ HearingFenced \/ CheckFlush \/ CallFenced
           \/ EmbeddingFenced \/ Cluster \/ CheckEnd
  BY <1>5 DEF CheckHearing, HearingFenced, CheckFlush, CallFenced,
              EmbeddingFenced, Cluster, CheckEnd, Checks, Step, Goes
<1>6. CASE \/ Start \/ CollectBlock \/ FirstBlock \/ ReadAhead \/ Enqueue \/ Drain
  BY <1>6 DEF Start, CollectBlock, FirstBlock, ReadAhead, Enqueue, Drain, Step, Goes
<1>7. CASE \/ AppendResult \/ BatchDone \/ CloseAfterTraversal \/ FindWindows
           \/ ProjectRegions \/ FinishDecoding \/ Seal
  BY <1>7 DEF AppendResult, BatchDone, CloseAfterTraversal, FindWindows,
              ProjectRegions, FinishDecoding, Seal, Step, Goes
<1>8. QED
  BY <1>1, <1>2, <1>3, <1>4, <1>5, <1>6, <1>7 DEF Next

LEMMA CloseDecoderOnce ==
  ASSUME DecoderInv, CloseDecoder
  PROVE  decoder' = "closed" /\ closes' = 1
<1>1. CASE decoder = "closed"
  <2>1. closes = 1
    BY <1>1 DEF DecoderInv
  <2>2. decoder' = decoder /\ closes' = closes
    BY <2>1, SMT DEF CloseDecoder
  <2>3. QED
    BY <1>1, <2>1, <2>2
<1>2. CASE decoder # "closed"
  <2>1. closes = 0
    BY <1>2 DEF DecoderInv
  <2>2. ~(closes > 0)
    BY <2>1, SMT
  <2>3. decoder' = "closed" /\ closes' = closes + 1
    BY <2>2 DEF CloseDecoder
  <2>4. QED
    BY <2>1, <2>3, SMT
<1>3. QED
  BY <1>1, <1>2

(* close_decoder is reached on every way, and does its work once.          *)
LEMMA DecoderStep == Inv /\ [Next]_vars => DecoderInv'
<1> SUFFICES ASSUME Inv, [Next]_vars PROVE DecoderInv'
  OBVIOUS
<1> USE DEF Inv, DecoderInv
<1>1. CASE CloseAfterTraversal \/ FinishDecoding \/ Close \/ Start
  <2>1. CloseDecoder => decoder' = "closed" /\ closes' = 1
    BY CloseDecoderOnce
  <2>2. CASE Start
    BY <2>2 DEF Start, Step, Goes
  <2>3. CASE CloseAfterTraversal \/ FinishDecoding
    BY <2>1, <2>3 DEF CloseAfterTraversal, FinishDecoding, Goes
  <2>4. CASE Close
    <3>1. decoder # "none" => decoder' = "closed" /\ closes' = 1
      BY <2>1, <2>4 DEF Close, UnwindDecoder
    <3>2. decoder = "none" => decoder' = decoder /\ closes' = closes
      BY <2>4 DEF Close, UnwindDecoder
    <3>3. pc' = "abort"
      BY <2>4 DEF Close, Step, Goes
    <3>4. QED
      BY <3>1, <3>2, <3>3
  <2>5. QED
    BY <1>1, <2>2, <2>3, <2>4
<1>2. CASE FenceHearing \/ FenceCall \/ FenceEmbedding
  BY <1>2 DEF FenceHearing, FenceCall, FenceEmbedding, FenceBegins, Tells, Check, Goes, stream
<1>3. CASE Cancel \/ Raise \/ Abort \/ Ended \/ UNCHANGED vars
  BY <1>3 DEF Cancel, Raise, Abort, Ended, Step, Goes, vars, stream
<1>4. CASE \/ TellBlock \/ NoBlock \/ CollectEnds \/ Advance \/ TellEnd
  BY <1>4 DEF TellBlock, NoBlock, CollectEnds, Advance, TellEnd, Tells, Step, Goes, stream
<1>5. CASE \/ CheckHearing \/ HearingFenced \/ CheckFlush \/ CallFenced
           \/ EmbeddingFenced \/ Cluster \/ CheckEnd
  BY <1>5 DEF CheckHearing, HearingFenced, CheckFlush, CallFenced,
              EmbeddingFenced, Cluster, CheckEnd, Checks, Step, Goes, stream
<1>6. CASE \/ CollectBlock \/ FirstBlock \/ ReadAhead \/ Enqueue \/ Drain
  BY <1>6 DEF CollectBlock, FirstBlock, ReadAhead, Enqueue, Drain, Step, Goes, stream
<1>7. CASE \/ AppendResult \/ BatchDone \/ FindWindows \/ ProjectRegions \/ Seal
  BY <1>7 DEF AppendResult, BatchDone, FindWindows, ProjectRegions, Seal, Step, Goes, stream
<1>8. CASE Hear \/ Transcribe \/ Embed
  BY <1>8 DEF Hear, Transcribe, Embed, Step, Goes, stream
<1>9. QED
  BY <1>1, <1>2, <1>3, <1>4, <1>5, <1>6, <1>7, <1>8 DEF Next

(* The sink is sealed at the end of the one way that tells the total.      *)
LEMMA EndStep == Inv /\ [Next]_vars => EndInv'
<1> SUFFICES ASSUME Inv, [Next]_vars PROVE EndInv'
  OBVIOUS
<1> USE DEF Inv, EndInv
<1>1. CASE TellEnd \/ Seal \/ Close \/ Abort
  BY <1>1 DEF TellEnd, Seal, Close, Abort, Tells, Step, Goes, stream, output
<1>2. CASE FenceHearing \/ FenceCall \/ FenceEmbedding
  BY <1>2 DEF FenceHearing, FenceCall, FenceEmbedding, FenceBegins, Tells, Goes, stream, output
<1>3. CASE Cancel \/ Raise \/ Ended \/ UNCHANGED vars
  BY <1>3 DEF Cancel, Raise, Ended, Goes, vars, stream, output
<1>4. CASE \/ TellBlock \/ NoBlock \/ CollectEnds \/ Advance
  BY <1>4 DEF TellBlock, NoBlock, CollectEnds, Advance, Tells, Step, Goes, stream, output
<1>5. CASE \/ CheckHearing \/ HearingFenced \/ CheckFlush \/ CallFenced
           \/ EmbeddingFenced \/ Cluster \/ CheckEnd
  BY <1>5 DEF CheckHearing, HearingFenced, CheckFlush, CallFenced,
              EmbeddingFenced, Cluster, CheckEnd, Checks, Step, Goes, stream, output
<1>6. CASE \/ Start \/ CollectBlock \/ FirstBlock \/ ReadAhead \/ Enqueue \/ Drain
  BY <1>6 DEF Start, CollectBlock, FirstBlock, ReadAhead, Enqueue, Drain, Step, Goes, stream, output
<1>7. CASE \/ AppendResult \/ BatchDone \/ CloseAfterTraversal \/ FindWindows
           \/ ProjectRegions \/ FinishDecoding
  BY <1>7 DEF AppendResult, BatchDone, CloseAfterTraversal, FindWindows,
              ProjectRegions, FinishDecoding, Step, Goes, stream, output
<1>8. CASE Hear \/ Transcribe \/ Embed
  BY <1>8 DEF Hear, Transcribe, Embed, Step, Goes, stream, output
<1>9. QED
  BY <1>1, <1>2, <1>3, <1>4, <1>5, <1>6, <1>7, <1>8 DEF Next

-----------------------------------------------------------------------------
(* What the segmenter or the projection of regions may return.             *)
LEMMA SegmentsAre ==
  ASSUME NEW from \in Nat, NEW to \in Nat, NEW n \in Nat, NEW s \in SegmentsIn(from, to, n)
  PROVE  s \in Seq(Segment) /\ Ordered(s) /\ \A i \in 1..Len(s) : s[i].start >= from
<1>1. Segments(from, to) \subseteq Segment
  BY DEF Segments, Segment
<1>2. PICK m \in 0..n : s \in [1..m -> Segments(from, to)]
  BY DEF SegmentsIn, BoundedSeq, SeqOf
<1>3. s \in Seq(Segments(from, to)) /\ Len(s) = m
  BY <1>2
<1>4. s \in Seq(Segment)
  BY <1>1, <1>3, SeqMonotonic
<1>5. \A i \in 1..Len(s) : s[i] \in Segments(from, to)
  BY <1>2, <1>3
<1>6. \A i \in 1..Len(s) : s[i].start < s[i].stop /\ s[i].start >= from
  BY <1>5 DEF Segments
<1>7. \A i \in 2..Len(s) : s[i].start >= s[i - 1].stop
  BY DEF SegmentsIn
<1>8. QED
  BY <1>3, <1>4, <1>6, <1>7 DEF Ordered

LEMMA LastStopIs ==
  ASSUME NEW s \in Seq(Segment)
  PROVE  /\ LastStop(s) \in Nat
         /\ s # <<>> => LastStop(s) = s[Len(s)].stop
<1>1. CASE s = <<>>
  BY <1>1 DEF LastStop
<1>2. CASE s # <<>>
  <2>1. Len(s) \in 1..Len(s)
    BY <1>2, EmptySeq, LenProperties
  <2>2. s[Len(s)] \in Segment
    BY <2>1, ElementOfSeq
  <2>3. QED
    BY <1>2, <2>2 DEF LastStop, Last, Segment
<1>3. QED
  BY <1>1, <1>2

(* New segments go behind the old ones.                                    *)
LEMMA OrderedConcat ==
  ASSUME NEW s \in Seq(Segment), NEW t \in Seq(Segment), Ordered(s), Ordered(t),
         \A i \in 1..Len(t) : t[i].start >= LastStop(s)
  PROVE  Ordered(s \o t)
<1> DEFINE u == s \o t
<1>1. /\ Len(u) = Len(s) + Len(t) /\ Len(s) \in Nat /\ Len(t) \in Nat
      /\ \A i \in 1..(Len(s) + Len(t)) : u[i] = IF i <= Len(s) THEN s[i] ELSE t[i - Len(s)]
  BY ConcatProperties, LenProperties
<1> HIDE DEF u
<1>2. SUFFICES ASSUME NEW i \in 1..Len(u)
               PROVE  u[i].start < u[i].stop /\ (i > 1 => u[i].start >= u[i - 1].stop)
  BY DEF Ordered, u
<1>3. CASE i <= Len(s)
  <2>1. u[i] = s[i] /\ (i > 1 => u[i - 1] = s[i - 1]) /\ i \in 1..Len(s)
    BY <1>1, <1>3
  <2>2. QED
    BY <2>1 DEF Ordered
<1>4. CASE i = Len(s) + 1
  <2>1. u[i] = t[1] /\ 1 \in 1..Len(t)
    BY <1>1, <1>4
  <2>2. i > 1 => u[i - 1] = s[Len(s)] /\ s # <<>>
    BY <1>1, <1>4, EmptySeq
  <2>3. i > 1 => LastStop(s) = u[i - 1].stop
    BY <2>2, LastStopIs
  <2>4. QED
    BY <2>1, <2>3 DEF Ordered
<1>5. CASE i > Len(s) + 1
  <2>1. u[i] = t[i - Len(s)] /\ i - Len(s) \in 1..Len(t)
    BY <1>1, <1>5
  <2> DEFINE j == i - 1
  <2>4. j \in 1..(Len(s) + Len(t)) /\ j > Len(s) /\ j - Len(s) = (i - Len(s)) - 1
    BY <1>1, <1>5
  <2>5. u[j] = t[j - Len(s)]
    BY <1>1, <2>4
  <2>2. i - Len(s) > 1
    BY <1>1, <1>5
  <2>3. QED
    BY <2>1, <2>2, <2>4, <2>5 DEF Ordered
<1>6. QED
  BY <1>1, <1>3, <1>4, <1>5

(* The head of one sequence moves to the end of another.                   *)
LEMMA HeadMoves ==
  ASSUME NEW S, NEW a \in Seq(S), NEW p \in Seq(S), p # <<>>
  PROVE  /\ Append(a, Head(p)) \in Seq(S) /\ Tail(p) \in Seq(S) /\ Head(p) \in S
         /\ Append(a, Head(p)) \o Tail(p) = a \o p
<1>1. /\ Head(p) \in S /\ Tail(p) \in Seq(S) /\ <<Head(p)>> \in Seq(S)
      /\ <<Head(p)>> \o Tail(p) = p
  BY HeadTailProperties
<1>2. Append(a, Head(p)) = a \o <<Head(p)>> /\ Append(a, Head(p)) \in Seq(S)
  BY <1>1, AppendIsConcat, AppendProperties
<1>3. (a \o <<Head(p)>>) \o Tail(p) = a \o (<<Head(p)>> \o Tail(p))
  BY <1>1, ConcatAssociative
<1>4. QED
  BY <1>1, <1>2, <1>3

-----------------------------------------------------------------------------
(* What every step keeps of the segments.                                  *)
Carried ==
    /\ todo \in Seq(Segment) /\ pending \in Seq(Segment) /\ emitted \in Seq(Segment)
    /\ answered \in Seq(Segment) /\ records \in Seq(Segment)
    /\ emitted = (answered \o pending) \o todo
    /\ OrderInv

LEMMA InvCarries == Inv => Carried
  BY DEF Inv, TypeInv, FlowInv, Carried

LEMMA NothingMoves ==
  ASSUME Carried, UNCHANGED <<todo, pending, emitted, answered, records>>
  PROVE  Carried'
  BY DEF Carried, OrderInv

LEMMA HearCarries ==
  ASSUME Inv, Hear
  PROVE  Carried'
<1>1. CASE mode # "vad"
  <2>1. UNCHANGED <<todo, pending, emitted, answered, records>>
    BY <1>1 DEF Hear
  <2>2. QED
    BY <2>1, InvCarries, NothingMoves
<1>2. CASE mode = "vad"
  <2> DEFINE from == LastStop(emitted)
             to == processed + current
  <2>1. PICK s \in SegmentsIn(from, to, MaxEmitted) : todo' = s /\ emitted' = emitted \o s
    BY <1>2 DEF Hear
  <2>2. pending' = pending /\ answered' = answered /\ records' = records /\ todo = <<>>
    BY DEF Hear, Step, Inv, FlowInv, PlaceInv
  <2>3. Carried /\ from \in Nat /\ to \in Nat /\ MaxEmitted \in Nat
    <3>1. Carried /\ emitted \in Seq(Segment) /\ processed \in Nat /\ current \in Nat
      BY InvCarries DEF Inv, TypeInv
    <3>2. QED
      BY <3>1, LastStopIs, TranscriptionAssumption
  <2>4. s \in Seq(Segment) /\ Ordered(s) /\ \A i \in 1..Len(s) : s[i].start >= from
    BY <2>3, SegmentsAre
  <2>5. Ordered(emitted \o s) /\ emitted \o s \in Seq(Segment)
    BY <2>3, <2>4, OrderedConcat, ConcatProperties DEF Carried, OrderInv
  <2>6. emitted = answered \o pending
    BY <2>2, <2>3, ConcatEmptySeq, ConcatProperties DEF Carried
  <2>7. QED
    BY <2>1, <2>2, <2>3, <2>4, <2>5, <2>6 DEF Carried, OrderInv
<1>3. QED
  BY <1>1, <1>2

LEMMA ProjectCarries ==
  ASSUME Inv, ProjectRegions
  PROVE  Carried'
<1>1. PICK s \in SegmentsIn(0, processed, MaxRegions) : todo' = s /\ emitted' = s
  BY DEF ProjectRegions
<1>2. pending' = pending /\ answered' = answered /\ records' = records
  BY DEF ProjectRegions, output
<1>3. pending = <<>> /\ answered = <<>>
  BY DEF ProjectRegions, Step, Inv, FlowInv, PlaceInv, Quiet
<1>4. Carried /\ processed \in Nat /\ MaxRegions \in Nat
  BY InvCarries, TranscriptionAssumption DEF Inv, TypeInv
<1>5. s \in Seq(Segment) /\ Ordered(s)
  BY <1>4, SegmentsAre
<1>6. (<<>> \o <<>>) \o s = s
  BY <1>5, ConcatEmptySeq, EmptySeq
<1>7. QED
  BY <1>1, <1>2, <1>3, <1>4, <1>5, <1>6 DEF Carried, OrderInv

LEMMA CollectCarries ==
  ASSUME Inv, CollectEnds
  PROVE  Carried'
<1>1. CASE processed = 0
  <2>1. UNCHANGED <<todo, pending, emitted, answered, records>>
    BY <1>1 DEF CollectEnds, batch
  <2>2. QED
    BY <2>1, InvCarries, NothingMoves
<1>2. CASE processed # 0
  <2> DEFINE x == [start |-> 0, stop |-> processed, pcm |-> processed]
             whole == <<x>>
  <2>1. /\ pending' = whole /\ emitted' = whole /\ todo' = todo
        /\ answered' = answered /\ records' = records
    BY <1>2 DEF CollectEnds
  <2>2. todo = <<>> /\ answered = <<>>
    BY <1>2 DEF CollectEnds, Step, Inv, FlowInv, PlaceInv, Quiet
  <2>3. x \in Segment /\ x.start < x.stop /\ Carried
    BY <1>2, InvCarries DEF Inv, TypeInv, Segment
  <2> HIDE DEF x
  <2>4. whole \in Seq(Segment) /\ Len(whole) = 1 /\ whole[1] = x
    BY <2>3
  <2>5. Ordered(whole)
    BY <2>3, <2>4 DEF Ordered
  <2>6. (<<>> \o whole) \o <<>> = whole
    BY <2>4, ConcatEmptySeq
  <2>7. QED
    BY <2>1, <2>2, <2>3, <2>4, <2>5, <2>6 DEF Carried, OrderInv
<1>3. QED
  BY <1>1, <1>2

LEMMA Regroup ==
  \A a, b, c \in Seq(Segment) : (a \o b) \o c = a \o (b \o c)
  BY ConcatAssociative

LEMMA EnqueueCarries ==
  ASSUME Inv, Enqueue
  PROVE  Carried'
<1>1. /\ emitted' = emitted /\ answered' = answered /\ records' = records
      /\ todo # <<>> /\ Carried
  BY InvCarries DEF Enqueue, output
<1>2. CASE Exceeds(Head(todo))
  <2>1. todo' = todo /\ pending' = pending
    BY <1>2 DEF Enqueue
  <2>2. QED
    BY <1>1, <2>1 DEF Carried, OrderInv
<1>3. CASE ~Exceeds(Head(todo))
  <2>1. pending' = Append(pending, Head(todo)) /\ todo' = Tail(todo)
    BY <1>3 DEF Enqueue
  <2>2. /\ pending' \in Seq(Segment) /\ todo' \in Seq(Segment)
        /\ pending' \o todo' = pending \o todo
    BY <1>1, <2>1, HeadMoves DEF Carried
  <2>3. /\ answered \in Seq(Segment) /\ pending \in Seq(Segment) /\ todo \in Seq(Segment)
        /\ emitted = (answered \o pending) \o todo
    BY <1>1 DEF Carried
  <2>4. (answered \o pending) \o todo = answered \o (pending \o todo)
    BY <2>3, ConcatAssociative
  <2>5. (answered \o pending') \o todo' = answered \o (pending' \o todo')
    BY <2>2, <2>3, Regroup
  <2>6. emitted' = (answered' \o pending') \o todo'
    BY <1>1, <2>2, <2>3, <2>4, <2>5
  <2>7. QED
    BY <1>1, <2>2, <2>6 DEF Carried, OrderInv
<1>4. QED
  BY <1>2, <1>3

(* The next result comes behind everything that is in the sink.            *)
LEMMA AppendCarries ==
  ASSUME Inv, AppendResult
  PROVE  Carried' /\ ~refused'
<1> DEFINE h == Head(pending)
           n == Len(answered)
<1>1. /\ Carried /\ pending # <<>> /\ ~refused /\ sink = "open"
      /\ todo' = todo /\ emitted' = emitted
      /\ answered' = Append(answered, h) /\ pending' = Tail(pending)
  BY InvCarries DEF AppendResult, Inv, EndInv
<1> DEFINE rest == pending' \o todo
<1>0. /\ answered \in Seq(Segment) /\ pending \in Seq(Segment) /\ todo \in Seq(Segment)
      /\ emitted \in Seq(Segment) /\ emitted = (answered \o pending) \o todo
      /\ Ordered(emitted)
  BY <1>1 DEF Carried, OrderInv
<1>2. /\ h \in Segment /\ answered' \in Seq(Segment) /\ pending' \in Seq(Segment)
      /\ answered' \o pending' = answered \o pending
  BY <1>0, <1>1, HeadMoves
<1>3. /\ n \in Nat /\ Len(answered') = n + 1 /\ answered'[n + 1] = h
      /\ \A i \in 1..n : answered'[i] = answered[i]
  BY <1>1, AppendProperties, LenProperties DEF Carried
<1>4. /\ Len(emitted) >= n + 1 /\ emitted[n + 1] = h
      /\ n > 0 => emitted[n] = answered[n]
  <2>1. emitted = (answered' \o pending') \o todo
    BY <1>0, <1>2
  <2>2. emitted = answered' \o rest /\ rest \in Seq(Segment)
    <3>1. (answered' \o pending') \o todo = answered' \o rest
      <4>1. answered' \in Seq(Segment) /\ pending' \in Seq(Segment) /\ todo \in Seq(Segment)
        BY <1>0, <1>2
      <4>2. QED
        BY <4>1, Regroup
    <3>2. rest \in Seq(Segment)
      BY <1>0, <1>2, ConcatProperties
    <3>3. QED
      BY <2>1, <3>1, <3>2
  <2> HIDE DEF rest
  <2>3. /\ Len(emitted) = Len(answered') + Len(rest)
        /\ \A i \in 1..(Len(answered') + Len(rest)) :
               emitted[i] = IF i <= Len(answered') THEN answered'[i] ELSE rest[i - Len(answered')]
        /\ Len(rest) \in Nat
    BY <1>2, <2>2, ConcatProperties, LenProperties
  <2>4. QED
    BY <1>3, <2>3
<1>5. h.start < h.stop /\ h.start >= LastStop(answered) /\ h.start \in Nat /\ h.stop \in Nat
  <2>1. n + 1 \in 1..Len(emitted)
    BY <1>1, <1>3, <1>4, LenProperties DEF Carried
  <2>2. h.start < h.stop /\ h.start \in Nat /\ h.stop \in Nat
    BY <1>1, <1>2, <1>4, <2>1 DEF Carried, OrderInv, Ordered, Segment
  <2>3. CASE n = 0
    <3>1. answered = <<>>
      BY <1>1, <2>3, EmptySeq DEF Carried
    <3>2. QED
      BY <2>2, <3>1 DEF LastStop
  <2>4. CASE n > 0
    <3> DEFINE k == n + 1
    <3>4. k \in 1..Len(emitted) /\ k > 1 /\ k - 1 = n
      BY <1>3, <2>1, <2>4
    <3> HIDE DEF k
    <3>5. emitted[k].start >= emitted[k - 1].stop
      BY <1>0, <3>4 DEF Ordered
    <3>1. h.start >= emitted[n].stop
      BY <1>4, <3>4, <3>5 DEF k
    <3>2. answered # <<>> /\ LastStop(answered) = answered[n].stop
      BY <1>1, <2>4, LastStopIs, EmptySeq DEF Carried
    <3>3. QED
      BY <1>3, <1>4, <2>2, <2>4, <3>1, <3>2
  <2>5. QED
    BY <1>3, <2>2, <2>3, <2>4
<1>6. LastStop(answered') = h.stop
  <2>1. answered' # <<>>
    BY <1>2, <1>3, EmptySeq
  <2>2. QED
    BY <1>2, <1>3, <2>1, LastStopIs
<1>7. LastStop(records) <= h.start /\ LastStop(records) \in Nat /\ LastStop(answered) \in Nat
  BY <1>1, <1>5, LastStopIs DEF Carried, OrderInv
<1>8. SinkAccepts(h)
  BY <1>1, <1>5, <1>7 DEF SinkAccepts
<1>9. refused' = refused /\ (records' = records \/ records' = Append(records, h))
  BY <1>8 DEF AppendResult
<1>10. records' \in Seq(Segment) /\ LastStop(records') <= LastStop(answered')
  <2>1. CASE records' = records
    BY <1>1, <1>5, <1>6, <1>7, <2>1 DEF Carried
  <2>2. CASE records' = Append(records, h)
    <3>1. /\ records' \in Seq(Segment) /\ Len(records') = Len(records) + 1
          /\ Len(records) \in Nat /\ records'[Len(records) + 1] = h
      BY <1>1, <1>2, <2>2, AppendProperties, LenProperties DEF Carried
    <3>2. records' # <<>>
      BY <3>1, EmptySeq
    <3>3. LastStop(records') = h.stop
      BY <3>1, <3>2, LastStopIs
    <3>4. QED
      BY <1>5, <1>6, <3>1, <3>3
  <2>3. QED
    BY <1>9, <2>1, <2>2
<1>11. QED
  BY <1>1, <1>2, <1>9, <1>10 DEF Carried, OrderInv

Elsewhere ==
    \/ Cancel \/ Raise \/ Start \/ CollectBlock \/ TellBlock
    \/ FirstBlock \/ NoBlock \/ ReadAhead \/ CheckHearing
    \/ FenceHearing \/ HearingFenced \/ Advance
    \/ Drain \/ CheckFlush \/ Transcribe \/ FenceCall \/ CallFenced \/ BatchDone
    \/ CloseAfterTraversal \/ FindWindows \/ Embed \/ FenceEmbedding \/ EmbeddingFenced
    \/ Cluster \/ FinishDecoding \/ CheckEnd \/ TellEnd \/ Seal \/ Close \/ Abort \/ Ended
    \/ UNCHANGED vars

LEMMA ElsewhereMovesNothing ==
  ASSUME Elsewhere
  PROVE  UNCHANGED <<todo, pending, emitted, answered, records>>
<1> USE DEF Step, Checks, Tells, batch, output
<1>1. CASE \/ Cancel \/ Raise \/ Start \/ CollectBlock \/ TellBlock \/ FirstBlock \/ NoBlock
           \/ ReadAhead \/ CheckHearing \/ UNCHANGED vars
  BY <1>1 DEF Cancel, Raise, Start, CollectBlock, TellBlock, FirstBlock, NoBlock, ReadAhead,
              CheckHearing, vars
<1>2. CASE \/ FenceHearing \/ HearingFenced \/ Advance \/ Drain \/ CheckFlush \/ Transcribe
           \/ FenceCall \/ CallFenced \/ BatchDone
  BY <1>2 DEF FenceHearing, HearingFenced, Advance, Drain, CheckFlush, Transcribe,
              FenceCall, CallFenced, BatchDone, FenceBegins
<1>3. CASE \/ CloseAfterTraversal \/ FindWindows \/ Embed \/ FenceEmbedding \/ EmbeddingFenced
           \/ Cluster \/ FinishDecoding \/ CheckEnd \/ TellEnd \/ Seal \/ Close \/ Abort \/ Ended
  BY <1>3 DEF CloseAfterTraversal, FindWindows, Embed, FenceEmbedding, EmbeddingFenced,
              Cluster, FinishDecoding, CheckEnd, TellEnd, Seal, Close, Abort, Ended, FenceBegins, vars
<1>4. QED
  BY <1>1, <1>2, <1>3 DEF Elsewhere

LEMMA CarriedStep == Inv /\ [Next]_vars => Carried'
<1> SUFFICES ASSUME Inv, [Next]_vars PROVE Carried'
  OBVIOUS
<1>1. CASE Elsewhere
  BY <1>1, InvCarries, ElsewhereMovesNothing, NothingMoves
<1>2. QED
  BY <1>1, HearCarries, ProjectCarries, CollectCarries, EnqueueCarries, AppendCarries
     DEF Next, Elsewhere

(* Where the segments must be, seen from the place in the code.            *)
LEMMA PlaceStep == Inv /\ [Next]_vars => PlaceInv'
<1> SUFFICES ASSUME Inv, [Next]_vars PROVE PlaceInv'
  OBVIOUS
<1>0. /\ PlaceInv /\ DecoderInv /\ mode \in {"direct", "vad", "diarize"}
      /\ draining \in BOOLEAN
  BY DEF Inv, FlowInv, TypeInv
<1>1. ASSUME Elsewhere PROVE UNCHANGED <<todo, pending, emitted, answered>>
  BY <1>1, ElsewhereMovesNothing
<1> USE <1>0 DEF PlaceInv, DecoderInv, Quiet, Step, Goes
<1>2. CASE \/ Cancel \/ Raise \/ Start \/ CollectBlock \/ TellBlock \/ FirstBlock \/ NoBlock
           \/ ReadAhead \/ CheckHearing \/ UNCHANGED vars
  <2>1. UNCHANGED <<todo, pending, emitted, answered>>
    BY <1>1, <1>2 DEF Elsewhere
  <2>2. QED
    BY <1>2, <2>1 DEF Cancel, Raise, Start, CollectBlock, TellBlock, FirstBlock, NoBlock,
       ReadAhead, CheckHearing, vars, Tells, Checks, stream, batch
<1>3. CASE \/ FenceHearing \/ HearingFenced \/ Advance \/ Drain \/ CheckFlush \/ Transcribe
           \/ FenceCall \/ CallFenced \/ BatchDone
  <2>1. UNCHANGED <<todo, pending, emitted, answered>>
    BY <1>1, <1>3 DEF Elsewhere
  <2>2. CASE \/ FenceHearing \/ HearingFenced \/ CheckFlush \/ Transcribe \/ FenceCall \/ CallFenced
    BY <2>1, <2>2 DEF FenceHearing, HearingFenced, CheckFlush, Transcribe, FenceCall, CallFenced,
       FenceBegins, Tells, Checks, stream, batch
  <2>3. CASE Advance
    BY <2>1, <2>3 DEF Advance, Tells, batch
  <2>4. CASE Drain
    BY <2>1, <2>4 DEF Drain, stream
  <2>5. CASE BatchDone
    BY <2>1, <2>5 DEF BatchDone, stream, batch
  <2>6. QED
    BY <1>3, <2>2, <2>3, <2>4, <2>5
<1>4. CASE \/ CloseAfterTraversal \/ FinishDecoding
  <2>1. decoder' = "closed"
    BY <1>4, CloseDecoderOnce DEF CloseAfterTraversal, FinishDecoding
  <2>2. UNCHANGED <<todo, pending, emitted, answered>>
    BY <1>1, <1>4 DEF Elsewhere
  <2>3. QED
    BY <1>4, <2>1, <2>2 DEF CloseAfterTraversal, FinishDecoding, batch
<1>5. CASE \/ FindWindows \/ Embed \/ FenceEmbedding \/ EmbeddingFenced \/ Cluster
  <2>1. UNCHANGED <<todo, pending, emitted, answered>>
    BY <1>1, <1>5 DEF Elsewhere
  <2>2. QED
    BY <1>5, <2>1 DEF FindWindows, Embed, FenceEmbedding, EmbeddingFenced, Cluster, FenceBegins,
       Tells, Checks, stream, batch
<1>6. CASE \/ CheckEnd \/ TellEnd \/ Seal \/ Abort \/ Ended
  <2>1. UNCHANGED <<todo, pending, emitted, answered>>
    BY <1>1, <1>6 DEF Elsewhere
  <2>2. QED
    BY <1>6, <2>1 DEF CheckEnd, TellEnd, Seal, Abort, Ended, Tells,
       Checks, stream, batch, vars
<1>7. CASE Close
  <2>1. pc' = "abort" /\ mode' = mode /\ draining' = draining
    BY <1>7 DEF Close, batch
  <2>2. decoder # "closed" => decoder' # "closed" \/ decoder = "open"
    BY <1>7 DEF Close, UnwindDecoder
  <2>3. decoder = "closed" => decoder' = "closed"
    BY <1>7, CloseDecoderOnce DEF Close, UnwindDecoder
  <2>4. UNCHANGED <<todo, pending, emitted, answered>>
    BY <1>1, <1>7 DEF Elsewhere
  <2>5. QED
    BY <2>1, <2>2, <2>3, <2>4
<1>8. CASE Hear
  BY <1>8 DEF Hear, stream
<1>9. CASE ProjectRegions
  BY <1>9 DEF ProjectRegions, stream
<1>10. CASE CollectEnds
  BY <1>10 DEF CollectEnds, Tells, stream, batch
<1>11. CASE Enqueue
  BY <1>11 DEF Enqueue, stream, output
<1>12. CASE AppendResult
  BY <1>12 DEF AppendResult, stream
<1>13. QED
  BY <1>2, <1>3, <1>4, <1>5, <1>6, <1>7, <1>8, <1>9, <1>10, <1>11, <1>12 DEF Next

-----------------------------------------------------------------------------
LEMMA Between ==
  ASSUME NEW a \in Int, NEW b \in Nat, NEW c \in Nat, a <= b, b <= c
  PROVE  a <= c
  OBVIOUS

(* Where progress is told, the count has grown since it was told last.     *)
LEMMA TellIsAccepted ==
  ASSUME NEW from, NEW to, NEW n \in Nat, NEW t \in Int, Inv, Tells(from, to, n, t),
         from \in {"first", "collect", "collected block", "heard", "called", "embedded",
                   "enqueue", "tell end"},
         processed <= n
  PROVE  /\ pc = from /\ pc' = to /\ progress' = [last |-> n, total |-> t]
         /\ refused' = refused
<1>0. /\ progress.last \in Int /\ processed \in Nat /\ progress.last <= processed
      /\ pc = from /\ (pc \notin Told => progress.total = None)
  BY DEF Inv, TellInv, TypeInv, Tells
<1>1. progress.total = None /\ progress.last <= n
  <2>1. pc \notin Told
    BY <1>0 DEF Told
  <2>2. progress.total = None
    BY <1>0, <2>1
  <2>3. progress.last <= n
    BY <1>0, Between
  <2>4. QED
    BY <2>2, <2>3
<1>2. QED
  BY <1>1 DEF Tells, Accepted, Goes

(* A step that tells nothing and reads nothing.                            *)
Silent ==
    /\ UNCHANGED <<progress, processed, refused>>
    /\ pc' \in {"start", "first"} => pc \in {"start", "first"}
    /\ pc \in Told => pc' \in Told

LEMMA SilentStep ==
  ASSUME Inv, Silent
  PROVE  /\ TellInv' /\ ~refused' /\ progress' \in [last : Int, total : Int]
         /\ processed' \in Nat
  BY DEF Inv, TypeInv, TellInv, Silent

LEMMA TellStep == Inv /\ [Next]_vars =>
    /\ TellInv' /\ ~refused' /\ progress' \in [last : Int, total : Int]
    /\ processed' \in Nat /\ current' \in Nat /\ following' \in Nat
<1> SUFFICES ASSUME Inv, [Next]_vars
             PROVE  /\ TellInv' /\ ~refused' /\ progress' \in [last : Int, total : Int]
                    /\ processed' \in Nat /\ current' \in Nat /\ following' \in Nat
  OBVIOUS
<1>0. /\ TellInv /\ ~refused /\ progress \in [last : Int, total : Int]
      /\ processed \in Nat /\ current \in Nat /\ following \in Nat
      /\ Block \in Nat /\ None \in Int /\ progress.last \in Int
  BY TranscriptionAssumption DEF Inv, TypeInv, None
<1>1. CASE Cancel \/ Raise \/ Start \/ CheckHearing \/ HearingFenced
  <2>1. Silent /\ current' \in Nat /\ following' \in Nat
    BY <1>0, <1>1 DEF Silent, Told, Cancel, Raise, Start, CheckHearing, HearingFenced, Step, Goes, Checks, stream
  <2>2. QED
    BY <2>1, SilentStep
<1>12. CASE FirstBlock \/ ReadAhead
  <2>1. Silent /\ current' \in Nat /\ following' \in Nat
    <3>1. CASE FirstBlock
      <4>1. PICK n \in 1..Block : current' = n
        BY <3>1 DEF FirstBlock
      <4>2. current' \in Nat
        BY <1>0, <4>1
      <4>3. QED
        BY <1>0, <3>1, <4>2 DEF Silent, Told, FirstBlock, Step, Goes
    <3>2. CASE ReadAhead
      <4>1. following' = 0 \/ \E n \in 1..Block : following' = n
        BY <3>2 DEF ReadAhead
      <4>2. following' \in Nat
        BY <1>0, <4>1
      <4>3. QED
        BY <1>0, <3>2, <4>2 DEF Silent, Told, ReadAhead, Step, Goes
    <3>3. QED
      BY <1>12, <3>1, <3>2
  <2>2. QED
    BY <2>1, SilentStep
<1>13. CASE CheckFlush \/ Transcribe \/ CallFenced \/ Hear
  <2>1. Silent /\ current' \in Nat /\ following' \in Nat
    BY <1>0, <1>13 DEF Silent, Told, CheckFlush, Transcribe, CallFenced, Hear, Step, Goes, Checks, stream
  <2>2. QED
    BY <2>1, SilentStep
<1>2. CASE Enqueue \/ Drain \/ BatchDone \/ CloseAfterTraversal \/ FindWindows
  <2>1. Silent /\ current' \in Nat /\ following' \in Nat
    BY <1>0, <1>2 DEF Silent, Told, Enqueue, Drain, BatchDone, CloseAfterTraversal, FindWindows, Step, Goes, stream, output
  <2>2. QED
    BY <2>1, SilentStep
<1>14. CASE Embed \/ EmbeddingFenced \/ Cluster \/ ProjectRegions \/ FinishDecoding \/ CheckEnd
  <2>1. Silent /\ current' \in Nat /\ following' \in Nat
    BY <1>0, <1>14 DEF Silent, Told, Embed, EmbeddingFenced, Cluster, ProjectRegions, FinishDecoding, CheckEnd, Step, Goes, Checks, stream
  <2>2. QED
    BY <2>1, SilentStep
<1>3. CASE Seal \/ Close \/ Abort \/ Ended
  <2>1. Silent /\ current' \in Nat /\ following' \in Nat
    BY <1>0, <1>3 DEF Silent, Told, Seal, Close, Abort, Ended, Step, Goes, stream, vars
  <2>2. QED
    BY <2>1, SilentStep
<1>15. CASE UNCHANGED vars
  <2>1. Silent /\ current' \in Nat /\ following' \in Nat
    BY <1>0, <1>15 DEF Silent, vars, stream
  <2>2. QED
    BY <2>1, SilentStep
<1>4. CASE AppendResult
  <2>1. ~refused' /\ UNCHANGED <<stream, progress>>
    BY <1>4, AppendCarries DEF AppendResult
  <2>2. pc = "append" /\ (pc' = pc \/ pc' = "close")
    BY <1>4 DEF AppendResult, Goes
  <2>3. QED
    BY <1>0, <2>1, <2>2 DEF TellInv, Told, stream
<1>5. CASE CollectBlock
  <2>1. PICK n \in 1..Block : current' = n /\ processed' = processed + n
    BY <1>5 DEF CollectBlock
  <2>2. QED
    <3>1. /\ pc = "collect" /\ pc' = "collected block" /\ progress' = progress
          /\ refused' = refused /\ following' = following
      BY <1>5 DEF CollectBlock, Step, Goes
    <3>2. n \in Nat /\ processed' \in Nat /\ processed <= processed' /\ current' \in Nat
      BY <1>0, <2>1
    <3>3. progress.last <= processed' /\ progress.total = None
      <4>1. progress.last <= processed /\ progress.total = None
        BY <1>0, <3>1 DEF TellInv, Told
      <4>2. QED
        BY <1>0, <3>2, <4>1
    <3>4. QED
      BY <1>0, <3>1, <3>2, <3>3 DEF TellInv, Told
<1>6. CASE Advance
  <2>1. /\ processed' = processed + current /\ current' = following /\ following' = following
        /\ \E to : Tells("enqueue", to, processed', None) /\ to \in {"ahead", "drain", "traversed"}
    BY <1>6 DEF Advance, Advanced
  <2>2. PICK to : Tells("enqueue", to, processed', None) /\ to \in {"ahead", "drain", "traversed"}
    BY <2>1
  <2>3. processed' \in Nat /\ processed <= processed'
    BY <1>0, <2>1
  <2>4. pc' = to /\ progress' = [last |-> processed', total |-> None] /\ refused' = refused
    BY <1>0, <2>2, <2>3, TellIsAccepted
  <2>5. QED
    BY <1>0, <2>1, <2>2, <2>3, <2>4 DEF TellInv, Told
<1>7. CASE TellEnd
  <2>1. pc' = "seal" /\ progress' = [last |-> processed, total |-> processed] /\ refused' = refused
    <3>1. Tells("tell end", "seal", processed, processed)
      BY <1>7 DEF TellEnd
    <3>2. processed \in Int /\ processed <= processed
      BY <1>0
    <3>3. QED
      BY <1>0, <3>1, <3>2, TellIsAccepted
  <2>2. QED
    <3>1. UNCHANGED stream
      BY <1>7 DEF TellEnd
    <3>2. QED
      BY <1>0, <2>1, <3>1 DEF TellInv, Told, stream
<1>8. CASE TellBlock \/ FenceHearing \/ FenceCall \/ FenceEmbedding
  <2>1. /\ UNCHANGED stream
        /\ \E from, to : /\ Tells(from, to, processed, None)
                         /\ from \in {"collected block", "heard", "called", "embedded"}
                         /\ to \in {"collect", "heard fence", "called fence", "embedded fence"}
    BY <1>8 DEF TellBlock, FenceHearing, FenceCall, FenceEmbedding, FenceBegins
  <2>2. PICK from, to : /\ Tells(from, to, processed, None)
                        /\ from \in {"collected block", "heard", "called", "embedded"}
                        /\ to \in {"collect", "heard fence", "called fence", "embedded fence"}
    BY <2>1
  <2>3. processed <= processed
    BY <1>0
  <2>4. pc' = to /\ progress' = [last |-> processed, total |-> None] /\ refused' = refused
    BY <1>0, <2>2, <2>3, TellIsAccepted
  <2>5. progress'.last = processed /\ progress'.total = None
    BY <2>4
  <2>6. UNCHANGED <<processed, current, following>>
    BY <2>1 DEF stream
  <2>7. progress' \in [last : Int, total : Int]
    BY <1>0, <2>4
  <2>8. pc' \notin {"start", "first"} \cup Told
    BY <2>2, <2>4 DEF Told
  <2>9. QED
    BY <1>0, <2>3, <2>4, <2>5, <2>6, <2>7, <2>8 DEF TellInv, Told
<1>9. CASE NoBlock
  <2>1. UNCHANGED stream /\ processed = 0
    BY <1>0, <1>9 DEF NoBlock, Tells, TellInv
  <2>2. PICK to \in {"drain", "traversed"} : Tells("first", to, 0, None)
    BY <1>9 DEF NoBlock
  <2>3. pc' = to /\ progress' = [last |-> 0, total |-> None] /\ refused' = refused
    <3>1. 0 \in Nat /\ processed <= 0
      BY <2>1
    <3>2. QED
      BY <1>0, <2>2, <3>1, TellIsAccepted
  <2>4. QED
    BY <1>0, <2>1, <2>2, <2>3 DEF TellInv, Told, stream
<1>10. CASE CollectEnds
  <2>1. UNCHANGED stream
    BY <1>10 DEF CollectEnds
  <2>2. CASE processed = 0
    <3>1. Tells("collect", "finish", 0, None)
      BY <1>10, <2>2 DEF CollectEnds
    <3>2. pc' = "finish" /\ progress' = [last |-> 0, total |-> None] /\ refused' = refused
      <4>1. 0 \in Nat /\ processed <= 0
        BY <2>2
      <4>2. QED
        BY <1>0, <3>1, <4>1, TellIsAccepted
    <3>3. QED
      BY <1>0, <2>1, <2>2, <3>2 DEF TellInv, Told, stream
  <2>3. CASE processed # 0
    BY <1>0, <1>10, <2>1, <2>3 DEF CollectEnds, TellInv, Told, Step, Goes, stream
  <2>4. QED
    BY <2>2, <2>3
<1>11. QED
  BY <1>1, <1>2, <1>3, <1>4, <1>5, <1>6, <1>7, <1>8, <1>9, <1>10, <1>12, <1>13, <1>14, <1>15
     DEF Next

-----------------------------------------------------------------------------
LEMMA FlagStep == Inv /\ [Next]_vars =>
    mode' \in {"direct", "vad", "diarize"} /\ cancelled' \in BOOLEAN /\ draining' \in BOOLEAN
<1> SUFFICES ASSUME Inv, [Next]_vars
             PROVE  /\ mode' \in {"direct", "vad", "diarize"}
                    /\ cancelled' \in BOOLEAN /\ draining' \in BOOLEAN
  OBVIOUS
<1>0. mode \in {"direct", "vad", "diarize"} /\ cancelled \in BOOLEAN /\ draining \in BOOLEAN
  BY DEF Inv, TypeInv
<1>1. mode' = mode /\ (cancelled' = cancelled \/ cancelled' = TRUE)
  <2>1. CASE \/ Cancel \/ Raise \/ Start \/ CollectBlock \/ TellBlock \/ CollectEnds
             \/ FirstBlock \/ NoBlock \/ ReadAhead \/ CheckHearing \/ Hear \/ UNCHANGED vars
    BY <2>1 DEF Cancel, Raise, Start, CollectBlock, TellBlock, CollectEnds, FirstBlock, NoBlock,
       ReadAhead, CheckHearing, Hear, vars, Step, Checks, Tells
  <2>2. CASE \/ FenceHearing \/ HearingFenced \/ Advance \/ Enqueue \/ Drain \/ CheckFlush
             \/ Transcribe \/ FenceCall \/ CallFenced \/ AppendResult \/ BatchDone
    BY <2>2 DEF FenceHearing, HearingFenced, Advance, Enqueue, Drain, CheckFlush, Transcribe,
       FenceCall, CallFenced, AppendResult, BatchDone, FenceBegins, Step, Checks, Tells
  <2>3. CASE \/ CloseAfterTraversal \/ FindWindows \/ Embed \/ FenceEmbedding \/ EmbeddingFenced
             \/ Cluster \/ ProjectRegions \/ FinishDecoding \/ CheckEnd \/ TellEnd
             \/ Seal \/ Close \/ Abort \/ Ended
    BY <2>3 DEF CloseAfterTraversal, FindWindows, Embed, FenceEmbedding, EmbeddingFenced,
       Cluster, ProjectRegions, FinishDecoding, CheckEnd, TellEnd, Seal, Close, Abort, Ended,
       FenceBegins, Step, Checks, Tells, vars
  <2>4. QED
    BY <2>1, <2>2, <2>3 DEF Next
<1>2. draining' = draining \/ draining' = TRUE
  <2>1. CASE \/ Cancel \/ Raise \/ Start \/ CollectBlock \/ TellBlock \/ CollectEnds
             \/ FirstBlock \/ NoBlock \/ ReadAhead \/ CheckHearing \/ Hear \/ UNCHANGED vars
    BY <2>1 DEF Cancel, Raise, Start, CollectBlock, TellBlock, CollectEnds, FirstBlock, NoBlock,
       ReadAhead, CheckHearing, Hear, vars, Step, Checks, Tells, batch
  <2>2. CASE \/ FenceHearing \/ HearingFenced \/ Advance \/ Enqueue \/ Drain \/ CheckFlush
             \/ Transcribe \/ FenceCall \/ CallFenced \/ AppendResult \/ BatchDone
    BY <2>2 DEF FenceHearing, HearingFenced, Advance, Enqueue, Drain, CheckFlush, Transcribe,
       FenceCall, CallFenced, AppendResult, BatchDone, FenceBegins, Step, Checks, Tells, batch
  <2>3. CASE \/ CloseAfterTraversal \/ FindWindows \/ Embed \/ FenceEmbedding \/ EmbeddingFenced
             \/ Cluster \/ ProjectRegions \/ FinishDecoding \/ CheckEnd \/ TellEnd
             \/ Seal \/ Close \/ Abort \/ Ended
    BY <2>3 DEF CloseAfterTraversal, FindWindows, Embed, FenceEmbedding, EmbeddingFenced,
       Cluster, ProjectRegions, FinishDecoding, CheckEnd, TellEnd, Seal, Close, Abort, Ended,
       FenceBegins, Step, Checks, Tells, vars, batch
  <2>4. QED
    BY <2>1, <2>2, <2>3 DEF Next
<1>3. QED
  BY <1>0, <1>1, <1>2

LEMMA StepInv == Inv /\ [Next]_vars => Inv'
<1> SUFFICES ASSUME Inv, [Next]_vars PROVE Inv'
  OBVIOUS
<1>1. CallInv' /\ DecoderInv' /\ EndInv' /\ PlaceInv' /\ TellInv' /\ ~refused'
  BY CallStep, DecoderStep, EndStep, PlaceStep, TellStep
<1>2. Carried'
  BY CarriedStep
<1>3. TypeInv'
  BY <1>2, FlagStep, TellStep DEF TypeInv, Carried
<1>4. QED
  BY <1>1, <1>2, <1>3 DEF Inv, FlowInv, Carried

LEMMA SpecInv == Spec => []Inv
  BY InitInv, StepInv, PTL DEF Spec

-----------------------------------------------------------------------------
(* A sealed sink holds the answers to every segment, in order, after the   *)
(* total has been told and the decoder closed; for audio of any length and *)
(* wherever calls raise (pipeline.py, process).                            *)
THEOREM SealedIsComplete == Spec => []SealedMeansComplete
<1>1. Inv => SealedMeansComplete
  <2> SUFFICES ASSUME Inv PROVE SealedMeansComplete
    OBVIOUS
  <2>1. pc = "done" <=> sink = "sealed"
    BY DEF Inv, EndInv
  <2>2. ASSUME pc = "done"
        PROVE  /\ answered = emitted /\ pending = <<>> /\ todo = <<>>
               /\ progress = [last |-> processed, total |-> processed]
               /\ decoder = "closed"
    <3>1. pending = <<>> /\ todo = <<>> /\ answered \in Seq(Segment)
          /\ emitted = (answered \o pending) \o todo
      BY <2>2 DEF Inv, FlowInv, PlaceInv, TypeInv
    <3>2. answered = emitted
      BY <3>1, ConcatEmptySeq
    <3>3. decoder = "closed"
      BY <2>2 DEF Inv, DecoderInv
    <3>4. progress = [last |-> processed, total |-> processed]
      BY <2>2 DEF Inv, EndInv
    <3>5. QED
      BY <3>1, <3>2, <3>3, <3>4
  <2>3. QED
    BY <2>1, <2>2 DEF SealedMeansComplete
<1>2. QED
  BY <1>1, SpecInv, PTL

(* An opened decoder is closed once on every way out of process            *)
(* (pipeline.py, close_decoder).                                           *)
THEOREM DecoderIsClosedOnce == Spec => []DecoderClosedOnce
<1>1. Inv => DecoderClosedOnce
  <2> SUFFICES ASSUME Inv PROVE DecoderClosedOnce
    OBVIOUS
  <2>1. closes = 0 \/ closes = 1
    BY DEF Inv, DecoderInv
  <2>2. closes <= 1
    BY <2>1, SMT
  <2>3. pc \in {"done", "failed"} => decoder # "open"
    BY DEF Inv, DecoderInv
  <2>4. QED
    BY <2>2, <2>3 DEF DecoderClosedOnce
<1>2. QED
  BY <1>1, SpecInv, PTL

(* Cancellation lets at most one more model call begin, however many       *)
(* blocks, windows and batches are left (pipeline.py,                      *)
(* _check_processing_cancellation).                                        *)
THEOREM AtMostOneLateCall == Spec => []OneCallAfterCancel
<1>1. Inv => OneCallAfterCancel
  BY DEF Inv, CallInv, OneCallAfterCancel
<1>2. QED
  BY <1>1, SpecInv, PTL

(* The checks in progress and sink never fail an attempt: counts grow and  *)
(* segments come in order, whatever segments there are (result_artifact.py *)
(* and pipeline.py, ProgressAccumulator.update and the sink's append).     *)
THEOREM SinksNeverRefuse == Spec => []NothingRefused
<1>1. Inv => NothingRefused
  BY DEF Inv, NothingRefused
<1>2. QED
  BY <1>1, SpecInv, PTL
=============================================================================
