------------------------ MODULE OfflineSpeech_proofs ------------------------
(***************************************************************************)
(* Proofs about the two halves of an offline diarization, for blocks,      *)
(* paddings, segments and windows of any size.  First SpeechSegments: what *)
(* the buffer keeps suffices for every detector that keeps to its latency, *)
(* no sample is ever handed to ASR twice, and no sample of speech is left  *)
(* out.  Then OfflineDiarization: whatever was collected, the job does not *)
(* fail, the windows hear the speech and nothing else, and the regions cut *)
(* it up, each sample for the window that is nearest.                      *)
(***************************************************************************)
EXTENDS SpeechSegments, OfflineDiarization, WellFoundedInduction, TLAPS

(* Where the detector has heard to, and where the block in hand starts.    *)
HeardTo == IF phase \in {"hear", "append"} THEN Heard ELSE decoded
BlockStart == IF phase \in {"hear", "append"} THEN decoded ELSE decoded - block.length

(* The cursors of the buffer.                                              *)
CursorInv ==
    /\ Open <=> buf.canonical # None
    /\ Open <=> buf.pcm # None
    /\ buf.watermark <= decoded
    /\ buf.floor \in {None, buf.watermark}
    /\ Open => /\ buf.watermark <= buf.pcm
               /\ buf.canonical - buf.pcm <= Prepad
               /\ buf.floor = buf.watermark => buf.canonical = buf.watermark
               /\ buf.floor = None => buf.canonical = buf.origin
    /\ buf.kept <= buf.watermark \/ buf.kept <= decoded - IdleRing
    /\ Closing => /\ phase = "consume" /\ Open /\ spans # <<>>
                  /\ closing.stop \in buf.canonical..decoded
                  /\ buf.pcm < buf.canonical => buf.canonical < closing.stop
    /\ phase = "consume" => \A i \in DOMAIN spans : ValidSpan(spans[i], decoded)
    /\ IdleBounded
    /\ OpenBounded

(* What has been handed out lies before the watermark.                     *)
SegmentInv ==
    /\ PcmOnce
    /\ \A i \in DOMAIN segments : segments[i].stop <= buf.watermark

(* A position from which speech may go on, given what was copied already.  *)
MayFollow(at) ==
    buf.watermark <= at \/ (buf.floor = buf.watermark /\ buf.watermark - at <= Prepad)

(* The spans still to be consumed, in order and within reach.              *)
SpanInv ==
    /\ phase \in {"read", "done"} => spans = <<>>
    /\ vad.end <= HeardTo
    /\ vad.start # None => vad.end <= vad.start /\ vad.start <= HeardTo
    /\ \A i \in DOMAIN spans : spans[i].start < spans[i].stop /\ spans[i].stop <= vad.end
    /\ \A i \in DOMAIN spans : i + 1 \in DOMAIN spans => spans[i].stop <= spans[i + 1].start

ReachInv ==
    phase \in {"hear", "append", "consume"} =>
       /\ \A i \in DOMAIN spans :
             i > 1 \/ ~Open => spans[i].start >= BlockStart - Frontend - Backtrack
       /\ vad.start # None /\ (spans # <<>> \/ ~Open)
             => vad.start >= BlockStart - Frontend - Backtrack

(* Session and buffer speak of the same speech, and its end will be        *)
(* accepted.                                                               *)
AgreementInv ==
    /\ Open => buf.origin = IF spans # <<>> THEN spans[1].start ELSE vad.start
    /\ ~Open /\ phase \in {"read", "done"} => vad.start = None
    /\ ~Open => MayFollow(IF spans # <<>> THEN spans[1].start ELSE vad.end)
    /\ Open /\ spans # <<>> /\ ~Closing =>
          \/ spans[1].stop >= buf.canonical
          \/ buf.floor = buf.canonical /\ buf.canonical - spans[1].stop <= Prepad
    /\ Closing =>
          \/ closing.stop = spans[1].stop
          \/ closing.forced /\ closing.stop - spans[1].stop <= Prepad

(* The inductive invariant.                                                *)
SpeechInv ==
    /\ TypeOK
    /\ phase # "failed" => CursorInv
    /\ SegmentInv
    /\ Faithful => phase # "failed" /\ SpanInv /\ ReachInv /\ AgreementInv

LEMMA InitSpeechInv == Init => SpeechInv
  BY SizesAssumption DEF SpeechInv, Init, TypeOK, CursorInv, SegmentInv, SpanInv, ReachInv,
     AgreementInv,
     MayFollow, PcmOnce, IdleBounded, OpenBounded, IdleRing, Open, Closing, NotClosing, None,
        Position, Span,
     HeardTo, Heard, BlockStart

LEMMA ReadBlockKeepsInv == SpeechInv /\ ReadBlock => SpeechInv'
  <1> SUFFICES ASSUME SpeechInv, ReadBlock PROVE SpeechInv'
    OBVIOUS
  <1> USE DEF ReadBlock, SpeechInv, Open, Closing, None, Goes
  <1>1. TypeOK'
    BY SizesAssumption DEF TypeOK, Position, Span
  <1>2. CursorInv'
    BY DEF TypeOK, CursorInv, IdleBounded, OpenBounded, Position
  <1>3. SegmentInv'
    BY DEF SegmentInv, PcmOnce
  <1>4. Faithful => SpanInv' /\ ReachInv' /\ AgreementInv'
    <2> SUFFICES ASSUME Faithful PROVE SpanInv' /\ ReachInv' /\ AgreementInv'
      OBVIOUS
    <2>1. SpanInv'
      BY SizesAssumption DEF TypeOK, SpanInv, ReachInv, MayFollow, HeardTo, Heard, BlockStart,
         Position, Span
    <2>2. ReachInv'
      <3>1. spans' = <<>> /\ vad' = vad /\ (~Open' => vad.start = None)
        BY DEF SpanInv, AgreementInv
      <3>2. DOMAIN spans' = {}
        BY <3>1
      <3> QED BY <3>1, <3>2 DEF ReachInv
    <2>3. AgreementInv'
      BY SizesAssumption DEF TypeOK, SpanInv, AgreementInv, MayFollow, HeardTo, Heard, BlockStart,
         Position, Span
    <2> QED BY <2>1, <2>2, <2>3
  <1>5. phase' # "failed"
    OBVIOUS
  <1> HIDE DEF ReadBlock, Open, Closing, None, Goes
  <1> QED BY <1>1, <1>2, <1>3, <1>4, <1>5

(* The detector's markers touch neither the buffer nor the segments.       *)
LEMMA HearKeepsBuffer ==
  ASSUME SpeechInv, UNCHANGED <<decoded, block, buf, closing, segments>>,
         phase = "hear", phase' \in {"hear", "failed", "append"},
         spans' = spans \/ Len(spans') > 0
  PROVE  (phase' # "failed" => CursorInv') /\ SegmentInv'
  BY DEF SpeechInv, TypeOK, CursorInv, SegmentInv, PcmOnce, IdleBounded, OpenBounded, Open,
     Closing, None

(* A span is completed: the last one of the block, and the one in hand if  *)
(* there is none before it.                                                *)
LEMMA CompletedKeepsSpans ==
  ASSUME SpeechInv, Faithful, phase = "hear", UNCHANGED <<decoded, block, buf, closing, segments>>,
         NEW start \in Nat, NEW stop \in Nat, start < stop, stop <= Heard,
         Completed(start, stop),
         start >= vad.end,
         vad.start \in {None, start},
         vad.start = None => start >= decoded - Frontend - Backtrack,
         Open /\ spans = <<>> /\ buf.floor = buf.canonical => stop >= buf.canonical - Prepad,
         markers' \in Nat
  PROVE  TypeOK' /\ SpanInv' /\ ReachInv' /\ AgreementInv'
  <1> DEFINE s == [start |-> start, stop |-> stop]
  <1> USE DEF Goes, Open, Closing, None
  <1>r. TypeOK /\ (phase # "failed" => CursorInv) /\ SpanInv /\ ReachInv /\ AgreementInv
    BY Zenon DEF SpeechInv
  <1>s. TypeOK /\ CursorInv /\ SpanInv /\ ReachInv /\ AgreementInv
    <2>1. phase = "hear" => phase # "failed"
      OBVIOUS
    <2> QED BY <1>r, <2>1, Zenon
  <1>t. /\ TypeOK /\ CursorInv /\ SpanInv /\ ReachInv /\ AgreementInv
        /\ vad.end \in Nat /\ decoded \in Nat
    BY <1>s DEF TypeOK
  <1>0. /\ spans' = Append(spans, s) /\ s \in Span /\ spans \in Seq(Span)
        /\ vad' = [start |-> None, end |-> stop] /\ phase' = "hear"
        /\ islands' = Append(islands, s)
    BY <1>t DEF Completed, Span, TypeOK
  <1>1. TypeOK'
    BY <1>0, <1>t DEF TypeOK, Position, Span
  <1>a. /\ Len(spans') = Len(spans) + 1
        /\ \A i \in 1..Len(spans) : spans'[i] = spans[i]
        /\ spans'[Len(spans) + 1] = s
        /\ DOMAIN spans' = 1..(Len(spans) + 1) /\ DOMAIN spans = 1..Len(spans) /\ Len(spans) \in Nat
        /\ spans # <<>> <=> Len(spans) > 0
        /\ spans' # <<>>
    BY <1>0
  <1>b. \A i \in DOMAIN spans : spans[i] \in Span
    BY <1>0
  <1> HIDE DEF s
  <1>c. s.start = start /\ s.stop = stop
    BY DEF s
  <1>2. SpanInv'
    <2>1. HeardTo' = Heard /\ phase' = "hear" /\ vad'.end = stop /\ vad'.start = None
      BY <1>0 DEF HeardTo, Heard
    <2>2. \A i \in DOMAIN spans : spans[i].start < spans[i].stop /\ spans[i].stop <= vad.end
      BY <1>t DEF SpanInv
    <2>3. \A i \in DOMAIN spans : i + 1 \in DOMAIN spans => spans[i].stop <= spans[i + 1].start
      BY <1>t DEF SpanInv
    <2>4. \A i \in DOMAIN spans' : spans'[i].start < spans'[i].stop /\ spans'[i].stop <= stop
      BY <1>t, <1>a, <1>b, <1>c, <2>2 DEF Span
    <2>5. \A i \in DOMAIN spans' : i + 1 \in DOMAIN spans' => spans'[i].stop <= spans'[i + 1].start
      BY <1>t, <1>a, <1>b, <1>c, <2>2, <2>3 DEF Span
    <2> QED BY <2>1, <2>4, <2>5 DEF SpanInv
  <1>3. ReachInv'
    <2>1. BlockStart = decoded /\ BlockStart' = decoded /\ phase' = "hear" /\ Open' = Open /\ vad'.start = None
      BY <1>0 DEF BlockStart
    <2>2. \A i \in DOMAIN spans : i > 1 \/ ~Open => spans[i].start >= decoded - Frontend - Backtrack
      BY <1>t, <2>1 DEF ReachInv
    <2>3. spans # <<>> \/ ~Open => start >= decoded - Frontend - Backtrack
      BY <1>t, <2>1 DEF ReachInv
    <2>4. \A i \in DOMAIN spans' : i > 1 \/ ~Open => spans'[i].start >= decoded - Frontend - Backtrack
      BY <1>a, <1>c, <2>2, <2>3
    <2> QED BY <2>1, <2>4 DEF ReachInv
  <1>4. AgreementInv'
    <2>1. CASE spans = <<>>
      <3>1. Open => /\ vad.start = start /\ buf.origin = start
                    /\ buf.floor # buf.canonical => buf.canonical = start
        BY <1>t, <2>1 DEF AgreementInv, CursorInv
      <3>2. ~Open => MayFollow(start)
        BY <1>t, <2>1, SizesAssumption DEF AgreementInv, MayFollow, TypeOK
      <3>3. buf' = buf /\ spans'[1] = s /\ closing' = closing
        BY <1>a, <2>1
      <3>4. (~Open => MayFollow(start))'
        BY <3>2, <3>3 DEF MayFollow
      <3>5. Open => \/ stop >= buf.canonical
                    \/ buf.floor = buf.canonical /\ buf.canonical - stop <= Prepad
        BY <1>t, <2>1, <3>1, SizesAssumption DEF TypeOK, Position
      <3>6. ~Closing /\ ~Closing'
        BY <1>t, <3>3 DEF CursorInv
      <3> QED BY <1>0, <1>a, <1>c, <3>1, <3>3, <3>4, <3>5, <3>6 DEF AgreementInv
    <2>2. CASE spans # <<>>
      <3>1. buf' = buf /\ spans'[1] = spans[1] /\ closing' = closing /\ Open' = Open /\ Closing' = Closing
        BY <1>a, <2>2
      <3>2. (~Open => MayFollow(spans[1].start)) /\ (Open => buf.origin = spans[1].start)
        BY <1>t, <2>2 DEF AgreementInv
      <3>3. (~Open => MayFollow(spans[1].start))'
        BY <3>1, <3>2 DEF MayFollow
      <3> QED BY <1>0, <1>a, <1>t, <2>2, <3>1, <3>2, <3>3 DEF AgreementInv
    <2> QED BY <2>1, <2>2
  <1> QED BY <1>1, <1>2, <1>3, <1>4

LEMMA CompletedKeepsType ==
  ASSUME TypeOK, UNCHANGED <<decoded, block, buf, closing, segments>>,
         NEW start \in Nat, NEW stop \in Nat, Completed(start, stop), markers' = markers + 1
  PROVE  TypeOK' /\ Len(spans') > 0
  <1> DEFINE s == [start |-> start, stop |-> stop]
  <1>1. /\ s \in Span /\ spans' = Append(spans, s) /\ islands' = Append(islands, s)
        /\ vad' \in [start : Position, end : Nat] /\ phase' = "hear"
    BY DEF Completed, Span, Position, Goes
  <1> HIDE DEF s
  <1>2. spans' \in Seq(Span) /\ islands' \in Seq(Span) /\ Len(spans') > 0
    BY <1>1 DEF TypeOK
  <1> QED BY <1>1, <1>2 DEF TypeOK, Open

LEMMA HearStartKeepsInv == SpeechInv /\ HearStart => SpeechInv'
  <1> SUFFICES ASSUME SpeechInv, NEW ms \in Times, Hears(StartMarker(ms)) PROVE SpeechInv'
    BY DEF HearStart
  <1> DEFINE at == ms * SamplesPerMs
  <1>0. /\ phase = "hear" /\ phase' \in {"hear", "failed"}
        /\ UNCHANGED <<decoded, block, buf, closing, segments, spans, islands>>
        /\ markers' = markers + 1
    BY DEF Hears, StartMarker, Keeps, Goes
  <1>1. (phase' # "failed" => CursorInv') /\ SegmentInv'
    BY <1>0, HearKeepsBuffer
  <1>2. ms \in Nat /\ at \in Nat
    BY SizesAssumption DEF Times, SamplesPerMs
  <1>3. TypeOK'
    <2>1. TypeOK
      BY DEF SpeechInv
    <2>2. vad' = vad \/ vad' = [vad EXCEPT !.start = at]
      BY DEF Hears, StartMarker, Keeps
    <2>3. vad' \in [start : Position, end : Nat]
      BY <1>2, <2>1, <2>2 DEF TypeOK, Position
    <2> QED BY <1>0, <2>1, <2>3 DEF TypeOK, Open
  <1>4. ASSUME Faithful PROVE phase' # "failed" /\ SpanInv' /\ ReachInv' /\ AgreementInv'
    <2> DEFINE late == at >= decoded - Frontend - Backtrack /\ at + 16 <= Heard
    <2>1. StartInReach(ms) /\ StartInOrder(ms) /\ late
      BY <1>0, <1>2, <1>4 DEF Hears, StartMarker, StartInReach, SamplesPerMs
    <2>2. phase' = "hear" /\ vad' = [vad EXCEPT !.start = at]
      BY <2>1 DEF Hears, StartMarker, Goes
    <2>3. TypeOK /\ SpanInv /\ ReachInv /\ AgreementInv
      BY <1>4, Zenon DEF SpeechInv
    <2>4. vad.start = None /\ at >= vad.end /\ vad'.start = at /\ vad'.end = vad.end
      BY <2>1, <2>2, <2>3 DEF StartInOrder, TypeOK
    <2> HIDE DEF at
    <2>5. SpanInv'
      BY <1>0, <1>2, <2>1, <2>2, <2>3, <2>4 DEF SpanInv, TypeOK, HeardTo, Heard, None
    <2>6. ReachInv'
      BY <1>0, <1>2, <2>1, <2>2, <2>3, <2>4 DEF ReachInv, TypeOK, BlockStart, Open
    <2>7. AgreementInv'
      BY <1>0, <1>2, <2>1, <2>2, <2>3, <2>4 DEF AgreementInv, TypeOK, MayFollow, Open, Closing, None
    <2> QED BY <2>2, <2>5, <2>6, <2>7
  <1> QED BY <1>1, <1>3, <1>4 DEF SpeechInv

LEMMA HearEndKeepsInv == SpeechInv /\ HearEnd => SpeechInv'
  <1> SUFFICES ASSUME SpeechInv, NEW ms \in Times, Hears(EndMarker(ms)) PROVE SpeechInv'
    BY DEF HearEnd
  <1> DEFINE at == ms * SamplesPerMs
  <1>0. /\ phase = "hear" /\ phase' \in {"hear", "failed"}
        /\ UNCHANGED <<decoded, block, buf, closing, segments>>
        /\ markers' = markers + 1
    BY DEF Hears, EndMarker, Keeps, Goes, Completed
  <1>2. ms \in Nat /\ at \in Nat
    BY SizesAssumption DEF Times, SamplesPerMs
  <1>t. TypeOK
    BY DEF SpeechInv
  <1>n. EndInOrder(ms) => vad.start \in Nat
    BY <1>t DEF EndInOrder, TypeOK, Position
  <1>3. TypeOK' /\ (spans' = spans \/ Len(spans') > 0)
    <2>1. UNCHANGED <<vad, spans, islands>> \/ (EndInOrder(ms) /\ Completed(vad.start, at))
      BY DEF Hears, EndMarker, Keeps
    <2>2. CASE UNCHANGED <<vad, spans, islands>>
      BY <1>0, <1>t, <2>2 DEF TypeOK, Open
    <2>3. CASE EndInOrder(ms) /\ Completed(vad.start, at)
      BY <1>0, <1>2, <1>t, <1>n, <2>3, CompletedKeepsType
    <2> QED BY <2>1, <2>2, <2>3
  <1>1. (phase' # "failed" => CursorInv') /\ SegmentInv'
    BY <1>0, <1>3, HearKeepsBuffer
  <1>4. ASSUME Faithful PROVE phase' # "failed" /\ SpanInv' /\ ReachInv' /\ AgreementInv'
    <2>1. EndInReach(ms) /\ EndInOrder(ms) /\ at <= Heard
      BY <1>4, <1>t, <1>2, SizesAssumption DEF Hears, EndMarker, Times, SamplesPerMs, TypeOK, Heard
    <2>2. phase' = "hear" /\ Completed(vad.start, at)
      BY <2>1 DEF Hears, EndMarker, Goes, Completed
    <2>3. SpanInv /\ AgreementInv
      BY <1>4, Zenon DEF SpeechInv
    <2>4. vad.start \in Nat /\ vad.start < at /\ vad.start >= vad.end /\ vad.start # None
      BY <1>n, <2>1, <2>3 DEF EndInOrder, SpanInv
    <2>5. Open /\ buf.floor = buf.canonical => at >= buf.canonical - Prepad
      BY <2>1 DEF EndInReach
    <2>6. vad.start \in {None, vad.start} /\ markers' \in Nat
      BY <1>3 DEF TypeOK
    <2> HIDE DEF at
    <2> QED BY <1>0, <1>2, <1>4, <2>1, <2>2, <2>4, <2>5, <2>6, CompletedKeepsSpans
  <1> QED BY <1>1, <1>3, <1>4 DEF SpeechInv

LEMMA HearWholeKeepsInv == SpeechInv /\ HearWhole => SpeechInv'
  <1> SUFFICES ASSUME SpeechInv, NEW from \in Times, NEW to \in Times, from < to,
                      Hears(WholeMarker(from, to))
               PROVE  SpeechInv'
    BY DEF HearWhole
  <1> DEFINE start == from * SamplesPerMs
             stop == to * SamplesPerMs
  <1>0. /\ phase = "hear" /\ phase' \in {"hear", "failed"}
        /\ UNCHANGED <<decoded, block, buf, closing, segments>>
        /\ markers' = markers + 1
    BY DEF Hears, WholeMarker, Keeps, Goes, Completed
  <1>2. start \in Nat /\ stop \in Nat /\ start < stop
    BY SizesAssumption DEF Times, SamplesPerMs
  <1>t. TypeOK
    BY DEF SpeechInv
  <1>3. TypeOK' /\ (spans' = spans \/ Len(spans') > 0)
    <2>1. UNCHANGED <<vad, spans, islands>> \/ Completed(start, stop)
      BY DEF Hears, WholeMarker, Keeps
    <2>2. CASE UNCHANGED <<vad, spans, islands>>
      BY <1>0, <1>t, <2>2 DEF TypeOK, Open
    <2>3. CASE Completed(start, stop)
      BY <1>0, <1>2, <1>t, <2>3, CompletedKeepsType
    <2> QED BY <2>1, <2>2, <2>3
  <1>1. (phase' # "failed" => CursorInv') /\ SegmentInv'
    BY <1>0, <1>3, HearKeepsBuffer
  <1>4. ASSUME Faithful PROVE phase' # "failed" /\ SpanInv' /\ ReachInv' /\ AgreementInv'
    <2>1. StartInReach(from) /\ StartInOrder(from) /\ stop <= Heard
      BY <1>4, <1>t, <1>2, SizesAssumption DEF Hears, WholeMarker, Times, SamplesPerMs, TypeOK,
         Heard
    <2>2. phase' = "hear" /\ Completed(start, stop)
      BY <2>1 DEF Hears, WholeMarker, Goes, Completed
    <2>3. AgreementInv
      BY <1>4, Zenon DEF SpeechInv
    <2>4. vad.start \in {None, start} /\ start >= vad.end /\ start >= decoded - Frontend - Backtrack
      BY <2>1 DEF StartInOrder, StartInReach
    <2>5. Open => spans # <<>>
      BY <2>1, <2>3 DEF AgreementInv, StartInOrder, Open
    <2>6. markers' \in Nat
      BY <1>3 DEF TypeOK
    <2> HIDE DEF start, stop
    <2> QED BY <1>0, <1>2, <1>4, <2>1, <2>2, <2>4, <2>5, <2>6, CompletedKeepsSpans
  <1> QED BY <1>1, <1>3, <1>4 DEF SpeechInv

LEMMA AnsweredKeepsInv == SpeechInv /\ Answered => SpeechInv'
  <1> SUFFICES ASSUME SpeechInv, Answered PROVE SpeechInv'
    OBVIOUS
  <1>0. /\ phase = "hear" /\ phase' \in {"append", "failed"}
        /\ UNCHANGED <<decoded, block, markers, vad, spans, buf, closing, segments, islands>>
        /\ Faithful => phase' = "append"
    BY DEF Answered, Fail, Goes
  <1>1. (phase' # "failed" => CursorInv') /\ SegmentInv'
    BY <1>0, HearKeepsBuffer
  <1>2. TypeOK'
    BY <1>0 DEF SpeechInv, TypeOK, Open
  <1>3. ASSUME Faithful PROVE phase' # "failed" /\ SpanInv' /\ ReachInv' /\ AgreementInv'
    <2>1. SpanInv /\ ReachInv /\ AgreementInv
      BY <1>3, Zenon DEF SpeechInv
    <2> QED BY <1>0, <1>3, <2>1 DEF SpanInv, ReachInv, AgreementInv, HeardTo, Heard, BlockStart,
       MayFollow, Open, Closing
  <1> QED BY <1>1, <1>2, <1>3 DEF SpeechInv

(* The types of the parts of the state, without the sequences around them. *)
LEMMA Parts ==
  ASSUME TypeOK
  PROVE  /\ decoded \in Nat /\ block.length \in Nat /\ block.length <= Block
         /\ buf.watermark \in Nat /\ buf.kept \in Nat /\ buf.kept <= decoded
         /\ buf.origin \in Nat \cup {-1} /\ buf.canonical \in Nat \cup {-1}
         /\ buf.pcm \in Nat \cup {-1} /\ buf.floor \in Nat \cup {-1}
         /\ vad.start \in Nat \cup {-1} /\ vad.end \in Nat
         /\ closing.stop \in Nat \cup {-1} /\ closing.forced \in BOOLEAN
         /\ Open => /\ buf.kept <= buf.pcm /\ buf.pcm <= buf.canonical
                    /\ buf.canonical <= decoded
  BY SizesAssumption DEF TypeOK, Position, None

LEMMA SpanParts ==
  ASSUME TypeOK
  PROVE  /\ DOMAIN spans = 1..Len(spans) /\ Len(spans) \in Nat
         /\ spans # <<>> => 1 \in DOMAIN spans
         /\ \A i \in DOMAIN spans : spans[i].start \in Nat /\ spans[i].stop \in Nat
  <1>1. spans \in Seq(Span)
    BY DEF TypeOK
  <1>2. \A i \in DOMAIN spans : spans[i] \in Span
    BY <1>1
  <1> QED BY <1>1, <1>2 DEF Span

LEMMA AppendBlockKeepsInv == SpeechInv /\ AppendBlock => SpeechInv'
  <1> SUFFICES ASSUME SpeechInv, AppendBlock PROVE SpeechInv'
    OBVIOUS
  <1> USE DEF Open, Closing, None
  <1>0. /\ phase = "append" /\ phase' \in {"consume", "failed"} /\ decoded' = Heard
        /\ UNCHANGED <<block, markers, vad, spans, closing, segments, islands>>
        /\ buf' = IF Open THEN buf ELSE IdleTrimmed(buf, Heard)
    BY DEF AppendBlock, Goes
  <1>t. TypeOK /\ CursorInv /\ SegmentInv
    <2>1. phase # "failed"
      BY <1>0
    <2> QED BY <2>1, Zenon DEF SpeechInv
  <1>p. Heard \in Nat /\ Heard >= decoded
    BY <1>t, Parts DEF Heard
  <1>k. ~Open => Larger(buf.kept, Larger(0, Heard - IdleRing)) \in 0..Heard
    BY <1>p, <1>t, Parts, SizesAssumption DEF Larger, IdleRing
  <1>1. /\ buf'.origin = buf.origin /\ buf'.canonical = buf.canonical /\ buf'.pcm = buf.pcm
        /\ buf'.watermark = buf.watermark /\ buf'.floor = buf.floor
        /\ buf' \in [origin : Position, canonical : Position, pcm : Position,
                     watermark : Nat, floor : Position, kept : 0..Heard]
        /\ Heard \in Nat /\ Heard >= decoded
        /\ ~Open => buf'.kept = Larger(buf.kept, Larger(0, Heard - IdleRing))
        /\ Open => buf'.kept = buf.kept
    <2>1. buf \in [origin : Position, canonical : Position, pcm : Position,
                  watermark : Nat, floor : Position, kept : 0..decoded]
      BY <1>t DEF TypeOK
    <2>2. CASE Open
      BY <1>0, <1>p, <2>1, <2>2, <1>t, Parts
    <2>3. CASE ~Open
      <3>1. buf' = [buf EXCEPT !.kept = Larger(buf.kept, Larger(0, Heard - IdleRing))]
        BY <1>0, <2>3 DEF IdleTrimmed, TrimmedBefore
      <3>2. buf'.kept = Larger(buf.kept, Larger(0, Heard - IdleRing)) /\ buf'.kept \in 0..Heard
        BY <1>k, <2>1, <2>3, <3>1
      <3>3. /\ buf'.origin = buf.origin /\ buf'.canonical = buf.canonical
            /\ buf'.pcm = buf.pcm /\ buf'.watermark = buf.watermark /\ buf'.floor = buf.floor
        BY <2>1, <3>1
      <3>4. buf' \in [origin : Position, canonical : Position, pcm : Position,
                      watermark : Nat, floor : Position, kept : 0..Heard]
        BY <2>1, <3>1, <3>2
      <3> QED BY <1>p, <2>3, <3>2, <3>3, <3>4
    <2> QED BY <2>2, <2>3
  <1>2. TypeOK'
    BY <1>0, <1>1, <1>t DEF TypeOK
  <1>3. phase' # "failed" => CursorInv'
    <2>1. phase' # "failed" => \A i \in DOMAIN spans' : ValidSpan(spans'[i], decoded')
      BY <1>0 DEF AppendBlock, Goes
    <2>2. /\ IdleRing \in Nat /\ decoded \in Nat
          /\ buf.watermark \in Nat /\ buf.kept \in Nat /\ buf.pcm \in Nat \cup {-1}
      BY <1>t, Parts, SizesAssumption DEF IdleRing
    <2>3. IdleBounded' /\ OpenBounded'
      BY <1>0 DEF IdleBounded, OpenBounded
    <2>4. buf'.watermark <= decoded'
      BY <1>0, <1>1, <1>p, <1>t, <2>2 DEF CursorInv
    <2>5. buf'.kept <= buf'.watermark \/ buf'.kept <= decoded' - IdleRing
      BY <1>0, <1>1, <1>p, <1>t, <2>2 DEF CursorInv, Larger
    <2>6. ~Closing'
      BY <1>0, <1>t DEF CursorInv
    <2>7. /\ phase' \in {"consume", "failed"} /\ spans' = spans /\ (Open' <=> Open)
          /\ buf'.origin = buf.origin /\ buf'.canonical = buf.canonical
          /\ buf'.pcm = buf.pcm /\ buf'.watermark = buf.watermark /\ buf'.floor = buf.floor
      BY <1>0, <1>1
    <2>8. CursorInv
      BY <1>t
    <2> HIDE DEF Open, Closing
    <2> QED BY <2>1, <2>3, <2>4, <2>5, <2>6, <2>7, <2>8 DEF CursorInv
  <1>4. SegmentInv'
    BY <1>0, <1>1, <1>t DEF SegmentInv, PcmOnce
  <1>5. ASSUME Faithful PROVE phase' # "failed" /\ SpanInv' /\ ReachInv' /\ AgreementInv'
    <2>1. SpanInv /\ ReachInv /\ AgreementInv
      BY <1>5, Zenon DEF SpeechInv
    <2>2. \A i \in DOMAIN spans : ValidSpan(spans[i], Heard)
      <3>1. vad.end <= Heard
        BY <1>0, <2>1 DEF SpanInv, HeardTo
      <3> TAKE i \in DOMAIN spans
      <3>2. spans[i].start \in Nat /\ spans[i].stop \in Nat /\ vad.end \in Nat
        BY <1>t, Parts, SpanParts
      <3>3. spans[i].start < spans[i].stop /\ spans[i].stop <= vad.end
        BY <2>1 DEF SpanInv
      <3> QED BY <1>p, <3>1, <3>2, <3>3 DEF ValidSpan
    <2>3. phase' = "consume"
      BY <2>2 DEF AppendBlock, Goes
    <2>4. SpanInv'
      BY <1>0, <2>1, <2>3 DEF SpanInv, HeardTo
    <2>5. ReachInv'
      <3>1. BlockStart = decoded /\ BlockStart' = decoded
        BY <1>0, <1>t, <2>3, Parts DEF BlockStart, Heard
      <3> QED BY <1>0, <1>1, <2>1, <2>3, <3>1 DEF ReachInv
    <2>6. AgreementInv'
      BY <1>0, <1>1, <2>1, <2>3 DEF AgreementInv, MayFollow
    <2> QED BY <2>3, <2>4, <2>5, <2>6
  <1> QED BY <1>2, <1>3, <1>4, <1>5 DEF SpeechInv

LEMMA BeginSpeechKeepsInv == SpeechInv /\ BeginSpeech => SpeechInv'
  <1> SUFFICES ASSUME SpeechInv, BeginSpeech PROVE SpeechInv'
    OBVIOUS
  <1> USE DEF Open, Closing, None
  <1> DEFINE origin == IF spans # <<>> THEN spans[1].start ELSE vad.start
  <1>0. /\ phase = "consume" /\ ~Open /\ origin # None
        /\ UNCHANGED <<decoded, block, markers, vad, spans, closing, segments, islands>>
        /\ \/ MayBegin(origin) /\ buf' = Begun(origin) /\ phase' = "consume"
           \/ ~MayBegin(origin) /\ buf' = buf /\ phase' = "failed"
    BY DEF BeginSpeech, Goes
  <1>t. TypeOK /\ CursorInv /\ SegmentInv
    <2>1. phase # "failed"
      BY <1>0
    <2> QED BY <2>1, Zenon DEF SpeechInv
  <1>o. origin \in Nat
    BY <1>0, <1>t, Parts, SpanParts
  <1> HIDE DEF origin
  <1>1. CASE ~MayBegin(origin) /\ buf' = buf /\ phase' = "failed"
    <2>1. ~Faithful
      <3> SUFFICES ASSUME Faithful PROVE FALSE
        OBVIOUS
      <3>1. SpanInv /\ ReachInv /\ AgreementInv
        BY Zenon DEF SpeechInv
      <3>2. vad.end \in Nat /\ vad.end <= decoded /\ block.length \in 0..Block
        BY <1>0, <1>t, <3>1 DEF SpanInv, HeardTo, TypeOK
      <3>3. origin <= decoded
        <4>1. CASE spans # <<>>
          <5>1. /\ spans[1].start \in Nat /\ spans[1].stop \in Nat
                /\ spans[1].start < spans[1].stop /\ spans[1].stop <= vad.end
            BY <1>t, <3>1, <4>1, SpanParts DEF SpanInv
          <5> QED BY <3>2, <4>1, <5>1, <1>t, Parts DEF origin
        <4>2. CASE spans = <<>>
          <5>1. origin = vad.start /\ HeardTo = decoded
            BY <1>0, <4>2 DEF origin, HeardTo
          <5> QED BY <1>0, <3>1, <5>1 DEF SpanInv
        <4> QED BY <4>1, <4>2
      <3>4. MayFollow(origin)
        <4>1. CASE spans # <<>>
          BY <1>0, <3>1, <4>1 DEF origin, AgreementInv
        <4>2. CASE spans = <<>>
          BY <1>0, <1>o, <1>t, <3>1, <3>2, <4>2, SizesAssumption
             , Parts DEF origin, AgreementInv, SpanInv, MayFollow
        <4> QED BY <4>1, <4>2
      <3>5. origin >= decoded - Block - Frontend - Backtrack
        <4>1. BlockStart >= decoded - Block
          BY <1>0, <1>t, Parts, SizesAssumption DEF BlockStart
        <4>2. origin >= BlockStart - Frontend - Backtrack
          BY <1>0, <1>t, <3>1, SpanParts DEF origin, ReachInv
        <4>3. BlockStart \in Int
          BY <1>0, <1>t, Parts DEF BlockStart
        <4> QED BY <1>o, <1>t, <4>1, <4>2, <4>3, Parts, SizesAssumption
      <3>6. MayBegin(origin)
        <4>1. IF Continues(origin) THEN buf.watermark - origin <= Prepad
                                   ELSE origin >= buf.watermark
          BY <1>o, <1>t, <3>4, Parts, SizesAssumption DEF MayFollow, Continues
        <4>2. CopyFrom(origin) >= buf.kept
          <5>1. buf.kept <= buf.watermark \/ buf.kept <= decoded - IdleRing
            BY <1>t DEF CursorInv
          <5>2. CASE Continues(origin) \/ origin = buf.watermark
            <6>1. CopyFrom(origin) = buf.watermark
              BY <5>2 DEF CopyFrom
            <6>2. origin <= buf.watermark
              BY <1>o, <1>t, <5>2, Parts DEF Continues
            <6>3. CASE buf.kept <= buf.watermark
              BY <6>1, <6>3
            <6>4. CASE buf.kept <= decoded - IdleRing
              BY <1>o, <1>t, <3>5, <6>1, <6>2, <6>4, Parts, SizesAssumption DEF IdleRing
            <6> QED BY <5>1, <6>3, <6>4
          <5>3. CASE ~(Continues(origin) \/ origin = buf.watermark)
            <6>1. CopyFrom(origin) = Larger(buf.watermark, origin - Prepad)
              BY <5>3 DEF CopyFrom
            <6>2. CASE buf.kept <= buf.watermark
              BY <1>o, <1>t, <6>1, <6>2, Parts, SizesAssumption DEF Larger
            <6>3. CASE buf.kept <= decoded - IdleRing
              BY <1>o, <1>t, <3>5, <6>1, <6>3, Parts, SizesAssumption DEF Larger, IdleRing
            <6> QED BY <5>1, <6>2, <6>3
          <5> QED BY <5>2, <5>3
        <4> QED BY <3>3, <4>1, <4>2 DEF MayBegin
      <3> QED BY <1>1, <3>6
    <2>2. TypeOK' /\ SegmentInv'
      BY <1>0, <1>1, <1>t DEF TypeOK, SegmentInv, PcmOnce
    <2> QED BY <1>1, <2>1, <2>2 DEF SpeechInv
  <1>2. CASE MayBegin(origin) /\ buf' = Begun(origin) /\ phase' = "consume"
    <2>1. /\ buf'.origin = origin /\ buf'.kept = buf.kept /\ buf'.watermark = buf.watermark
          /\ buf'.canonical = StartOf(origin) /\ buf'.pcm = CopyFrom(origin)
          /\ buf'.floor = IF Continues(origin) THEN buf.floor ELSE None
          /\ StartOf(origin) \in Nat /\ CopyFrom(origin) \in Nat
          /\ buf' \in [origin : Position, canonical : Position, pcm : Position,
                       watermark : Nat, floor : Position, kept : 0..decoded]
      <3>1. StartOf(origin) \in Nat /\ CopyFrom(origin) \in Nat
        BY <1>o, <1>t, Parts, SizesAssumption DEF StartOf, CopyFrom, Larger
      <3> QED BY <1>2, <1>o, <1>t, <3>1 DEF Begun, TypeOK, Position
    <2>2. /\ buf.kept <= CopyFrom(origin) /\ buf.watermark <= CopyFrom(origin)
          /\ CopyFrom(origin) <= StartOf(origin) /\ StartOf(origin) <= decoded
          /\ StartOf(origin) - CopyFrom(origin) <= Prepad
          /\ Continues(origin) => buf.floor = buf.watermark /\ StartOf(origin) = buf.watermark
          /\ ~Continues(origin) => StartOf(origin) = origin
          /\ Continues(origin) => buf.watermark - origin <= Prepad
      BY <1>2, <1>o, <1>t, Parts, SizesAssumption
         DEF MayBegin, Continues, CopyFrom, StartOf, Larger, CursorInv
    <2>3. TypeOK'
      BY <1>0, <1>2, <1>t, <2>1, <2>2 DEF TypeOK
    <2>4. CursorInv'
      BY <1>0, <1>2, <1>o, <1>t, <2>1, <2>2, Parts DEF CursorInv, IdleBounded, OpenBounded, IdleRing
    <2>5. SegmentInv'
      BY <1>0, <1>t, <2>1 DEF SegmentInv, PcmOnce
    <2>6. ASSUME Faithful PROVE SpanInv' /\ ReachInv' /\ AgreementInv'
      <3>1. SpanInv /\ ReachInv /\ AgreementInv
        BY <2>6, Zenon DEF SpeechInv
      <3>2. SpanInv'
        BY <1>0, <1>2, <3>1 DEF SpanInv, HeardTo
      <3>3. ReachInv'
        BY <1>0, <1>2, <1>o, <2>1, <3>1 DEF ReachInv, BlockStart
      <3>4. spans # <<>> => origin < spans[1].stop /\ spans[1].stop \in Nat
        BY <1>t, <3>1, SpanParts DEF origin, SpanInv
      <3>5. AgreementInv'
        <4>1. Open' /\ phase' = "consume"
          BY <1>2, <1>o, <2>1
        <4>2. buf'.origin = IF spans' # <<>> THEN spans'[1].start ELSE vad'.start
          BY <1>0, <2>1 DEF origin
        <4>3. spans # <<>> => \/ spans[1].stop >= StartOf(origin)
                              \/ Continues(origin) /\ StartOf(origin) - spans[1].stop <= Prepad
          <5>1. CASE Continues(origin)
            <6>1. buf.watermark - origin <= Prepad /\ StartOf(origin) = buf.watermark
              BY <2>2, <5>1
            <6>2. buf.watermark \in Nat /\ Prepad \in Nat
              BY <1>t, Parts, SizesAssumption
            <6>3. ASSUME spans # <<>> PROVE buf.watermark - spans[1].stop <= Prepad
              BY <1>o, <3>4, <6>1, <6>2, <6>3
            <6> QED BY <5>1, <6>1, <6>3
          <5>2. CASE ~Continues(origin)
            <6>1. StartOf(origin) = origin
              BY <2>2, <5>2
            <6> QED BY <1>o, <3>4, <6>1
          <5> QED BY <5>1, <5>2
        <4>4. Continues(origin) => buf'.floor = buf'.canonical
          BY <2>1, <2>2
        <4>5. ~Closing'
          BY <1>0, <1>t DEF CursorInv
        <4> QED BY <1>0, <2>1, <4>1, <4>2, <4>3, <4>4, <4>5 DEF AgreementInv
      <3> QED BY <3>2, <3>3, <3>5
    <2> QED BY <1>2, <2>3, <2>4, <2>5, <2>6 DEF SpeechInv
  <1> QED BY <1>0, <1>1, <1>2

LEMMA CloseSpeechKeepsInv == SpeechInv /\ CloseSpeech => SpeechInv'
  <1> SUFFICES ASSUME SpeechInv, CloseSpeech PROVE SpeechInv'
    OBVIOUS
  <1> USE DEF Open, Closing, None
  <1> DEFINE forced == buf.floor = buf.canonical
             behind == buf.canonical - spans[1].stop
             late == \/ buf.origin # spans[1].start
                     \/ behind > 0 /\ (~forced \/ behind > Prepad)
  <1>0. /\ phase = "consume" /\ Open /\ ~Closing /\ spans # <<>>
        /\ UNCHANGED <<decoded, block, markers, vad, spans, buf, segments, islands>>
        /\ \/ late /\ closing' = closing /\ phase' = "failed"
           \/ /\ ~late /\ phase' = "consume"
              /\ closing' = [stop |-> Larger(spans[1].stop, buf.canonical), forced |-> forced]
    BY DEF CloseSpeech, Goes
  <1>t. TypeOK /\ CursorInv /\ SegmentInv
    <2>1. phase # "failed"
      BY <1>0
    <2> QED BY <2>1, Zenon DEF SpeechInv
  <1>1. SegmentInv'
    BY <1>0, <1>t DEF SegmentInv, PcmOnce
  <1>s. /\ spans[1].start \in Nat /\ spans[1].stop \in Nat
        /\ spans[1].start < spans[1].stop /\ spans[1].stop <= decoded
    BY <1>0, <1>t, SpanParts DEF CursorInv, ValidSpan
  <1>2. CASE late /\ closing' = closing /\ phase' = "failed"
    <2>1. ~Faithful
      <3> SUFFICES ASSUME Faithful PROVE FALSE
        OBVIOUS
      <3>1. AgreementInv
        BY Zenon DEF SpeechInv
      <3> QED BY <1>0, <1>2, <1>s, <1>t, <3>1, Parts, SizesAssumption DEF AgreementInv
    <2>2. TypeOK'
      BY <1>0, <1>2, <1>t DEF TypeOK
    <2> QED BY <1>1, <1>2, <2>1, <2>2 DEF SpeechInv
  <1>3. CASE /\ ~late /\ phase' = "consume"
             /\ closing' = [stop |-> Larger(spans[1].stop, buf.canonical), forced |-> forced]
    <2>1. /\ closing'.stop = Larger(spans[1].stop, buf.canonical) /\ closing'.forced = forced
          /\ closing' \in [stop : Position, forced : BOOLEAN]
          /\ buf.canonical \in Nat
          /\ closing'.stop \in buf.canonical..decoded
      BY <1>0, <1>3, <1>s, <1>t, Parts DEF Position, Larger
    <2> HIDE DEF forced
    <2>2. TypeOK'
      BY <1>0, <1>3, <1>t, <2>1 DEF TypeOK
    <2>3. buf.pcm < buf.canonical => buf.canonical < closing'.stop
      <3> SUFFICES ASSUME buf.pcm < buf.canonical PROVE buf.canonical < closing'.stop
        OBVIOUS
      <3>1. buf.floor # buf.watermark
        BY <1>0, <1>t, <2>1, Parts DEF CursorInv
      <3>2. buf.canonical = spans[1].start
        BY <1>0, <1>3, <1>t, <3>1 DEF CursorInv
      <3> QED BY <1>s, <2>1, <3>2 DEF Larger
    <2>4. CursorInv'
      BY <1>0, <1>3, <1>t, <2>1, <2>3 DEF CursorInv, IdleBounded, OpenBounded
    <2>5. ASSUME Faithful PROVE SpanInv' /\ ReachInv' /\ AgreementInv'
      <3>1. SpanInv /\ ReachInv /\ AgreementInv
        BY <2>5, Zenon DEF SpeechInv
      <3>2. SpanInv' /\ ReachInv'
        BY <1>0, <1>3, <3>1 DEF SpanInv, ReachInv, HeardTo, BlockStart
      <3>3. \/ closing'.stop = spans[1].stop
            \/ closing'.forced /\ closing'.stop - spans[1].stop <= Prepad
        <4>1. CASE spans[1].stop >= buf.canonical
          BY <1>s, <2>1, <4>1 DEF Larger
        <4>2. CASE ~(spans[1].stop >= buf.canonical)
          <5>1. closing'.stop = buf.canonical /\ buf.canonical - spans[1].stop > 0
            BY <1>s, <2>1, <4>2 DEF Larger
          <5>2. forced /\ behind <= Prepad
            BY <1>3, <1>s, <2>1, <5>1, SizesAssumption
          <5> QED BY <2>1, <5>1, <5>2
        <4> QED BY <4>1, <4>2
      <3> QED BY <1>0, <1>3, <2>1, <3>1, <3>2, <3>3 DEF AgreementInv
    <2> QED BY <1>1, <1>3, <2>2, <2>4, <2>5 DEF SpeechInv
  <1> QED BY <1>0, <1>2, <1>3

(* A segment that starts where the last was copied to, or later, is new.   *)
LEMMA AppendedOnce ==
  ASSUME TypeOK, SegmentInv, NEW start \in Nat, NEW from \in Nat, NEW to \in Nat,
         buf.watermark <= from, to - from \in 1..DirectMax,
         segments' = Append(segments, Segment(start, from, to)),
         buf'.watermark \in Nat, to <= buf'.watermark, buf.watermark <= buf'.watermark
  PROVE  SegmentInv' /\ segments' \in Seq([start : Nat, pcm : Nat, stop : Nat])
  <1> DEFINE s == Segment(start, from, to)
             Piece == [start : Nat, pcm : Nat, stop : Nat]
  <1>1. s \in Piece /\ s.pcm = from /\ s.stop = to
    BY DEF Segment
  <1>2. segments \in Seq(Piece) /\ segments' = Append(segments, s) /\ buf.watermark \in Nat
    BY Parts DEF TypeOK
  <1> HIDE DEF s, Piece
  <1>3. /\ DOMAIN segments = 1..Len(segments) /\ Len(segments) \in Nat
        /\ DOMAIN segments' = 1..(Len(segments) + 1)
        /\ \A i \in DOMAIN segments : segments'[i] = segments[i] /\ segments[i] \in Piece
        /\ segments'[Len(segments) + 1] = s
        /\ segments' \in Seq(Piece)
    <2>1. DOMAIN segments = 1..Len(segments) /\ Len(segments) \in Nat
      BY <1>2
    <2>2. Len(segments') = Len(segments) + 1 /\ segments' \in Seq(Piece)
      BY <1>1, <1>2
    <2>3. DOMAIN segments' = 1..(Len(segments) + 1)
      BY <2>2
    <2>4. \A i \in DOMAIN segments : segments'[i] = segments[i] /\ segments[i] \in Piece
      BY <1>1, <1>2, <2>1
    <2>5. segments'[Len(segments) + 1] = s
      BY <1>1, <1>2, <2>1
    <2> QED BY <2>1, <2>2, <2>3, <2>4, <2>5
  <1> USE DEF Piece
  <1>4. \A i \in DOMAIN segments :
           /\ segments[i].stop - segments[i].pcm \in 1..DirectMax
           /\ segments[i].stop <= buf.watermark
           /\ segments[i].stop \in Nat /\ segments[i].pcm \in Nat
    BY <1>3 DEF SegmentInv, PcmOnce
  <1>5. \A i \in DOMAIN segments' : segments'[i].stop - segments'[i].pcm \in 1..DirectMax
    BY <1>1, <1>3, <1>4
  <1> HIDE DEF Piece
  <1>6. \A i, j \in DOMAIN segments' : i < j => segments'[i].stop <= segments'[j].pcm
    <2> TAKE i \in DOMAIN segments', j \in DOMAIN segments'
    <2> HAVE i < j
    <2>1. i \in DOMAIN segments
      BY <1>3
    <2>2. CASE j \in DOMAIN segments
      BY <1>3, <2>1, <2>2 DEF SegmentInv, PcmOnce
    <2>3. CASE j = Len(segments) + 1
      <3>1. segments'[i] = segments[i] /\ segments[i].stop \in Nat /\ segments[i].stop <= buf.watermark
        BY <1>3, <1>4, <2>1
      <3>2. segments'[j].pcm = from
        BY <1>1, <1>3, <2>3
      <3> QED BY <1>2, <3>1, <3>2
    <2>4. j \in DOMAIN segments \/ j = Len(segments) + 1
      BY <1>3
    <2> QED BY <2>2, <2>3, <2>4
  <1>7. \A i \in DOMAIN segments' : segments'[i].stop <= buf'.watermark
    BY <1>1, <1>2, <1>3, <1>4
  <1>8. PcmOnce'
    BY <1>5, <1>6 DEF PcmOnce
  <1> QED BY <1>3, <1>7, <1>8 DEF SegmentInv, Piece

LEMMA CutKeepsInv == SpeechInv /\ Cut => SpeechInv'
  <1> SUFFICES ASSUME SpeechInv, Cut PROVE SpeechInv'
    OBVIOUS
  <1> USE DEF Open, Closing, None
  <1> DEFINE cut == buf.pcm + DirectMax
             copied == Segment(buf.canonical, buf.pcm, cut)
  <1>0. /\ phase = "consume" /\ Open /\ MayCut
        /\ Closing \/ (spans = <<>> /\ buf.origin = vad.start)
        /\ UNCHANGED <<decoded, block, markers, vad, spans, closing, islands>>
        /\ \/ /\ segments' = Append(segments, copied)
              /\ buf' = CutAt(cut) /\ phase' = "consume"
           \/ ~MayCopy(buf.canonical, buf.pcm, cut)
    BY DEF Cut, Releasing, Goes
  <1>t. TypeOK /\ CursorInv /\ SegmentInv
    <2>1. phase # "failed"
      BY <1>0
    <2> QED BY <2>1, Zenon DEF SpeechInv
  <1>b. /\ buf.pcm \in Nat /\ buf.canonical \in Nat
        /\ buf.kept <= buf.pcm /\ buf.pcm <= buf.canonical /\ buf.canonical <= decoded
        /\ buf.canonical - buf.pcm <= Prepad /\ buf.watermark <= buf.pcm
    BY <1>0, <1>t, Parts DEF CursorInv
  <1>c. cut \in Nat /\ buf.canonical < cut /\ cut <= Available /\ Available <= decoded
    <2>1. Available \in Nat /\ Available <= decoded
      BY <1>0, <1>t, Parts DEF Available, CursorInv
    <2>2. Available - buf.pcm >= DirectMax
      BY <1>0 DEF MayCut
    <2> QED BY <1>b, <2>1, <2>2, SizesAssumption
  <1>m. MayCopy(buf.canonical, buf.pcm, cut)
    BY <1>b, <1>c, <1>t, Parts, SizesAssumption DEF MayCopy, Available
  <1>n. segments' = Append(segments, copied) /\ buf' = CutAt(cut) /\ phase' = "consume"
    BY <1>0, <1>m
  <1> HIDE DEF cut
  <1>1. /\ buf'.origin = buf.origin /\ buf'.canonical = cut /\ buf'.pcm = cut
        /\ buf'.watermark = cut /\ buf'.floor = cut /\ buf'.kept = cut
        /\ buf' \in [origin : Position, canonical : Position, pcm : Position,
                     watermark : Nat, floor : Position, kept : 0..decoded]
    <2>1. buf \in [origin : Position, canonical : Position, pcm : Position,
                  watermark : Nat, floor : Position, kept : 0..decoded]
      BY <1>t DEF TypeOK
    <2>2. Larger(buf.kept, cut) = cut /\ cut \in 0..decoded
      BY <1>b, <1>c, <1>t, Parts DEF Larger, Available
    <2>3. buf' = [buf EXCEPT !.canonical = cut, !.pcm = cut, !.watermark = cut, !.floor = cut,
                             !.kept = cut]
      BY <1>n, <2>1, <2>2 DEF CutAt, TrimmedBefore
    <2> QED BY <1>c, <2>1, <2>2, <2>3 DEF Position
  <1>2. SegmentInv' /\ segments' \in Seq([start : Nat, pcm : Nat, stop : Nat])
    <2>1. cut - buf.pcm \in 1..DirectMax
      BY <1>b, SizesAssumption DEF cut
    <2>2. buf.watermark <= cut
      BY <1>b, <1>t, <2>1, Parts, SizesAssumption DEF cut
    <2> QED BY <1>b, <1>c, <1>n, <1>1, <1>t, <2>1, <2>2, AppendedOnce
  <1>3. TypeOK'
    <2>1. Open' => buf'.pcm \in buf'.kept..decoded' /\ buf'.canonical \in buf'.pcm..decoded'
      BY <1>0, <1>1, <1>c, <1>t, Parts DEF Available
    <2> QED BY <1>0, <1>n, <1>1, <1>2, <1>t, <2>1 DEF TypeOK
  <1>4. CursorInv'
    <2>1. Closing => cut <= closing.stop
      BY <1>c DEF Available
    <2>2. \A i \in DOMAIN spans' : ValidSpan(spans'[i], decoded')
      BY <1>0, <1>t DEF CursorInv
    <2> QED BY <1>0, <1>n, <1>1, <1>b, <1>c, <1>t, <2>1, <2>2, Parts, SizesAssumption
            DEF CursorInv, IdleBounded, OpenBounded, Available
  <1>5. ASSUME Faithful PROVE SpanInv' /\ ReachInv' /\ AgreementInv'
    <2>1. SpanInv /\ ReachInv /\ AgreementInv
      BY <1>5, Zenon DEF SpeechInv
    <2>2. SpanInv' /\ ReachInv'
      BY <1>0, <1>n, <1>1, <2>1 DEF SpanInv, ReachInv, HeardTo, BlockStart
    <2> QED BY <1>0, <1>n, <1>1, <2>1, <2>2 DEF AgreementInv
  <1> QED BY <1>n, <1>2, <1>3, <1>4, <1>5 DEF SpeechInv

LEMMA CompleteSpeechKeepsInv == SpeechInv /\ CompleteSpeech => SpeechInv'
  <1> SUFFICES ASSUME SpeechInv, CompleteSpeech PROVE SpeechInv'
    OBVIOUS
  <1> USE DEF Open, Closing, None
  <1> DEFINE stop == closing.stop
             copied == Segment(buf.canonical, buf.pcm, stop)
  <1>0. /\ phase = "consume" /\ Open /\ Closing /\ ~MayCut
        /\ spans' = Tail(spans) /\ closing' = NotClosing
        /\ UNCHANGED <<decoded, block, markers, vad, islands>>
        /\ \/ NothingLeft /\ segments' = segments /\ buf' = Closed /\ phase' = "consume"
           \/ /\ ~NothingLeft /\ segments' = Append(segments, copied)
              /\ buf' = Closed /\ phase' = "consume"
           \/ ~NothingLeft /\ ~MayCopy(buf.canonical, buf.pcm, stop)
    BY DEF CompleteSpeech, Releasing, Goes
  <1>t. TypeOK /\ CursorInv /\ SegmentInv
    <2>1. phase # "failed"
      BY <1>0
    <2> QED BY <2>1, Zenon DEF SpeechInv
  <1>b. /\ buf.pcm \in Nat /\ buf.canonical \in Nat /\ stop \in Nat
        /\ buf.kept <= buf.pcm /\ buf.pcm <= buf.canonical
        /\ buf.canonical <= stop /\ stop <= decoded
        /\ buf.pcm < buf.canonical => buf.canonical < stop
        /\ buf.watermark <= buf.pcm /\ spans # <<>>
    BY <1>0, <1>t, Parts DEF CursorInv
  <1>m. ~NothingLeft => MayCopy(buf.canonical, buf.pcm, stop)
    BY <1>0, <1>b, <1>t, Parts, SizesAssumption DEF NothingLeft, MayCopy, MayCut, Available
  <1>n. /\ buf' = Closed /\ phase' = "consume"
        /\ segments' = segments \/ (~NothingLeft /\ segments' = Append(segments, copied))
    BY <1>0, <1>m
  <1> HIDE DEF stop
  <1>1. /\ buf'.origin = None /\ buf'.canonical = None /\ buf'.pcm = None /\ buf'.kept = buf.kept
        /\ buf'.watermark = stop /\ buf'.floor = IF closing.forced THEN stop ELSE None
        /\ buf' \in [origin : Position, canonical : Position, pcm : Position,
                     watermark : Nat, floor : Position, kept : 0..decoded]
    <2>1. buf \in [origin : Position, canonical : Position, pcm : Position,
                  watermark : Nat, floor : Position, kept : 0..decoded]
      BY <1>t DEF TypeOK
    <2> QED BY <1>n, <1>b, <2>1 DEF Closed, Position, stop
  <1>2. SegmentInv' /\ segments' \in Seq([start : Nat, pcm : Nat, stop : Nat])
    <2>1. buf.watermark <= stop /\ buf.watermark \in Nat
      BY <1>b, <1>t, Parts
    <2>2. CASE segments' = segments
      <3>1. \A i \in DOMAIN segments : segments[i].stop \in Nat
        <4> DEFINE Piece == [start : Nat, pcm : Nat, stop : Nat]
        <4>1. segments \in Seq(Piece)
          BY <1>t DEF TypeOK
        <4> HIDE DEF Piece
        <4>2. \A i \in DOMAIN segments : segments[i] \in Piece
          BY <4>1
        <4> QED BY <4>2 DEF Piece
      <3>2. \A i \in DOMAIN segments : segments[i].stop <= stop
        BY <1>b, <1>t, <2>1, <3>1 DEF SegmentInv
      <3> QED BY <1>1, <1>t, <2>2, <3>2 DEF SegmentInv, PcmOnce, TypeOK
    <2>3. CASE ~NothingLeft /\ segments' = Append(segments, copied)
      <3>1. stop - buf.pcm \in 1..DirectMax
        BY <1>b, <1>m, <2>3, SizesAssumption DEF MayCopy
      <3> QED BY <1>b, <1>1, <1>t, <2>1, <2>3, <3>1, AppendedOnce
    <2> QED BY <1>n, <2>2, <2>3
  <1>s. /\ spans' \in Seq(Span) /\ DOMAIN spans = 1..Len(spans) /\ Len(spans) \in Nat
        /\ DOMAIN spans' = 1..(Len(spans) - 1)
        /\ \A i \in DOMAIN spans' : spans'[i] = spans[i + 1] /\ i + 1 \in DOMAIN spans
        /\ spans' # <<>> => 1 \in DOMAIN spans'
        /\ 1 \in DOMAIN spans
    <2>1. spans \in Seq(Span) /\ spans' = Tail(spans) /\ spans # <<>>
      BY <1>0, <1>b, <1>t DEF TypeOK
    <2> HIDE DEF Span
    <2>2. Len(spans) \in Nat /\ Len(spans) > 0 /\ DOMAIN spans = 1..Len(spans)
      BY <2>1
    <2>3. spans' \in Seq(Span) /\ Len(spans') = Len(spans) - 1
      BY <2>1, <2>2
    <2>4. DOMAIN spans' = 1..(Len(spans) - 1)
      BY <2>3
    <2>5. \A i \in DOMAIN spans' : spans'[i] = spans[i + 1] /\ i + 1 \in DOMAIN spans
      BY <2>1, <2>2, <2>4
    <2>6. spans' # <<>> => 1 \in DOMAIN spans'
      BY <2>2, <2>3, <2>4
    <2> QED BY <2>2, <2>3, <2>4, <2>5, <2>6
  <1>c. closing'.stop = -1 /\ closing' \in [stop : Position, forced : BOOLEAN]
    BY <1>0 DEF NotClosing, Position
  <1>3. TypeOK'
    BY <1>0, <1>n, <1>1, <1>2, <1>s, <1>c, <1>t DEF TypeOK
  <1>4. CursorInv'
    <2>1. \A i \in DOMAIN spans' : ValidSpan(spans'[i], decoded')
      BY <1>0, <1>s, <1>t DEF CursorInv
    <2>2. buf'.kept <= buf'.watermark
      BY <1>1, <1>b, <1>t, Parts
    <2> QED BY <1>0, <1>n, <1>1, <1>b, <1>c, <2>1, <2>2 DEF CursorInv, IdleBounded, OpenBounded
  <1>5. ASSUME Faithful PROVE SpanInv' /\ ReachInv' /\ AgreementInv'
    <2>1. SpanInv /\ ReachInv /\ AgreementInv
      BY <1>5, Zenon DEF SpeechInv
    <2>2. SpanInv'
      <3>1. vad.end <= decoded /\ (vad.start # None => vad.end <= vad.start /\ vad.start <= decoded)
        BY <1>0, <2>1 DEF SpanInv, HeardTo
      <3>2. \A i \in DOMAIN spans' : spans'[i].start < spans'[i].stop /\ spans'[i].stop <= vad.end
        BY <1>s, <2>1 DEF SpanInv
      <3>3. \A i \in DOMAIN spans' : i + 1 \in DOMAIN spans' => spans'[i].stop <= spans'[i + 1].start
        BY <1>s, <2>1 DEF SpanInv
      <3> QED BY <1>0, <1>n, <3>1, <3>2, <3>3 DEF SpanInv, HeardTo
    <2>3. ReachInv'
      <3>1. BlockStart' = BlockStart
        BY <1>0, <1>n DEF BlockStart
      <3>2. \A i \in DOMAIN spans' : spans'[i].start >= BlockStart - Frontend - Backtrack
        <4> TAKE i \in DOMAIN spans'
        <4>1. spans'[i] = spans[i + 1] /\ i + 1 \in DOMAIN spans /\ i + 1 > 1
          BY <1>s
        <4> QED BY <1>0, <2>1, <4>1 DEF ReachInv
      <3>3. vad.start # None => vad.start >= BlockStart - Frontend - Backtrack
        BY <1>0, <1>b, <2>1 DEF ReachInv
      <3> QED BY <1>0, <1>n, <3>1, <3>2, <3>3 DEF ReachInv
    <2>4. AgreementInv'
      <3> DEFINE at == IF spans' # <<>> THEN spans'[1].start ELSE vad.end
      <3>1. at \in Nat /\ spans[1].stop \in Nat /\ spans[1].stop <= at
        <4>1. CASE spans' # <<>>
          <5>1. spans'[1] = spans[2] /\ 2 \in DOMAIN spans
            BY <1>s, <4>1
          <5>2. spans[1].stop <= spans[2].start
            BY <1>s, <2>1, <5>1 DEF SpanInv
          <5> QED BY <1>s, <1>t, <4>1, <5>1, <5>2, SpanParts
        <4>2. CASE spans' = <<>>
          BY <1>s, <1>t, <2>1, <4>2, SpanParts, Parts DEF SpanInv
        <4> QED BY <4>1, <4>2
      <3>2. \/ stop = spans[1].stop
            \/ closing.forced /\ stop - spans[1].stop <= Prepad
        BY <1>0, <2>1 DEF AgreementInv, stop
      <3> HIDE DEF at
      <3>3. buf'.watermark <= at \/ (buf'.floor = buf'.watermark /\ buf'.watermark - at <= Prepad)
        <4>1. CASE stop = spans[1].stop
          BY <1>1, <3>1, <4>1
        <4>2. CASE closing.forced /\ stop - spans[1].stop <= Prepad
          BY <1>1, <1>b, <3>1, <4>2, SizesAssumption
        <4> QED BY <3>2, <4>1, <4>2
      <3>4. at = IF spans' # <<>> THEN spans'[1].start ELSE vad'.end
        BY <1>0 DEF at
      <3>5. MayFollow(IF spans # <<>> THEN spans[1].start ELSE vad.end)'
        BY <3>3, <3>4 DEF MayFollow
      <3> QED BY <1>0, <1>n, <1>1, <1>c, <3>5 DEF AgreementInv
    <2> QED BY <2>2, <2>3, <2>4
  <1> QED BY <1>n, <1>2, <1>3, <1>4, <1>5 DEF SpeechInv

LEMMA EndBlockKeepsInv == SpeechInv /\ EndBlock => SpeechInv'
  <1> SUFFICES ASSUME SpeechInv, EndBlock PROVE SpeechInv'
    OBVIOUS
  <1> USE DEF Open, Closing, None
  <1>t. TypeOK /\ CursorInv /\ SegmentInv
    <2>1. phase = "consume"
      BY DEF EndBlock, Releasing
    <2>2. phase # "failed"
      BY <2>1
    <2> QED BY <2>2, Zenon DEF SpeechInv
  <1>0. /\ phase = "consume" /\ phase' \in {"done", "read"} /\ spans = <<>> /\ ~Closing
        /\ UNCHANGED <<decoded, block, markers, vad, spans, closing, segments, islands>>
        /\ \/ Open /\ buf.origin = vad.start /\ ~MayCut /\ buf' = buf
           \/ ~Open /\ vad.start = None /\ buf' = IdleTrimmed(buf, decoded)
    <2>1. ~Open => ~Closing
      BY <1>t DEF CursorInv
    <2> QED BY <2>1 DEF EndBlock, Releasing, Goes
  <1>r. buf \in [origin : Position, canonical : Position, pcm : Position,
                 watermark : Nat, floor : Position, kept : 0..decoded]
    BY <1>t DEF TypeOK
  <1>1. /\ buf'.origin = buf.origin /\ buf'.canonical = buf.canonical /\ buf'.pcm = buf.pcm
        /\ buf'.watermark = buf.watermark /\ buf'.floor = buf.floor
        /\ buf' \in [origin : Position, canonical : Position, pcm : Position,
                     watermark : Nat, floor : Position, kept : 0..decoded]
        /\ Open => buf'.kept = buf.kept
        /\ ~Open => buf'.kept = Larger(buf.kept, Larger(0, decoded - IdleRing))
    <2>1. CASE buf' = buf /\ Open
      BY <1>r, <2>1
    <2>2. CASE ~Open /\ buf' = IdleTrimmed(buf, decoded)
      <3>1. Larger(buf.kept, Larger(0, decoded - IdleRing)) \in 0..decoded
        BY <1>t, Parts, SizesAssumption DEF Larger, IdleRing
      <3>2. buf' = [buf EXCEPT !.kept = Larger(buf.kept, Larger(0, decoded - IdleRing))]
        BY <2>2 DEF IdleTrimmed, TrimmedBefore
      <3> QED BY <1>r, <2>2, <3>1, <3>2
    <2> QED BY <1>0, <2>1, <2>2
  <1>2. TypeOK'
    BY <1>0, <1>1, <1>t DEF TypeOK
  <1>3. SegmentInv'
    BY <1>0, <1>1, <1>t DEF SegmentInv, PcmOnce
  <1>4. CursorInv'
    <2>1. IdleBounded'
      <3> SUFFICES ASSUME ~Open PROVE decoded - buf'.kept <= IdleRing
        BY <1>0, <1>1 DEF IdleBounded
      <3> QED BY <1>1, <1>t, Parts, SizesAssumption DEF IdleRing, Larger
    <2>2. OpenBounded'
      <3> SUFFICES ASSUME Open PROVE decoded - buf.pcm < DirectMax
        BY <1>0, <1>1 DEF OpenBounded
      <3> QED BY <1>0, <1>t, Parts, SizesAssumption DEF MayCut, Available
    <2>3. buf'.kept <= buf'.watermark \/ buf'.kept <= decoded - IdleRing
      BY <1>1, <1>t, Parts, SizesAssumption DEF CursorInv, IdleRing, Larger
    <2> QED BY <1>0, <1>1, <1>t, <2>1, <2>2, <2>3 DEF CursorInv
  <1>5. ASSUME Faithful PROVE phase' # "failed" /\ SpanInv' /\ ReachInv' /\ AgreementInv'
    <2>1. SpanInv /\ ReachInv /\ AgreementInv
      BY <1>5, Zenon DEF SpeechInv
    <2>2. SpanInv' /\ ReachInv'
      BY <1>0, <2>1 DEF SpanInv, ReachInv, HeardTo
    <2> QED BY <1>0, <1>1, <2>1, <2>2 DEF AgreementInv, MayFollow
  <1> QED BY <1>2, <1>3, <1>4, <1>5 DEF SpeechInv

LEMMA StutterKeepsInv == SpeechInv /\ UNCHANGED vars => SpeechInv'
  BY DEF SpeechInv, vars, TypeOK, CursorInv, SegmentInv, SpanInv, ReachInv, AgreementInv, MayFollow,
     PcmOnce, IdleBounded, OpenBounded, Open, Closing, HeardTo, Heard, BlockStart

(* Every step of the segmenter keeps the invariant.                        *)
THEOREM SpeechInvariance == Spec => []SpeechInv
  <1>1. SpeechInv /\ [Next]_vars => SpeechInv'
    <2> SUFFICES ASSUME SpeechInv, [Next]_vars PROVE SpeechInv'
      OBVIOUS
    <2>1. CASE ReadBlock
      BY <2>1, ReadBlockKeepsInv
    <2>2. CASE HearStart
      BY <2>2, HearStartKeepsInv
    <2>3. CASE HearEnd
      BY <2>3, HearEndKeepsInv
    <2>4. CASE HearWhole
      BY <2>4, HearWholeKeepsInv
    <2>5. CASE Answered
      BY <2>5, AnsweredKeepsInv
    <2>6. CASE AppendBlock
      BY <2>6, AppendBlockKeepsInv
    <2>7. CASE BeginSpeech
      BY <2>7, BeginSpeechKeepsInv
    <2>8. CASE CloseSpeech
      BY <2>8, CloseSpeechKeepsInv
    <2>9. CASE Cut
      BY <2>9, CutKeepsInv
    <2>10. CASE CompleteSpeech
      BY <2>10, CompleteSpeechKeepsInv
    <2>11. CASE EndBlock
      BY <2>11, EndBlockKeepsInv
    <2>12. CASE UNCHANGED vars
      BY <2>12, StutterKeepsInv
    <2> QED
      BY <2>1, <2>2, <2>3, <2>4, <2>5, <2>6, <2>7, <2>8, <2>9, <2>10, <2>11, <2>12 DEF Next, Ended
  <1> QED BY <1>1, InitSpeechInv, PTL DEF Spec

(* The cursors of the buffer stay within the PCM that is kept.             *)
THEOREM TypeCorrect == Spec => []TypeOK
  <1>1. SpeechInv => TypeOK
    BY DEF SpeechInv
  <1> QED BY <1>1, SpeechInvariance, PTL

(* For blocks, paddings and segments of any size and any detector, however *)
(* it errs: no sample is handed to ASR twice and no segment is too long.   *)
THEOREM NoPcmTwice == Spec => []PcmOnce
  <1>1. SpeechInv => PcmOnce
    BY DEF SpeechInv, SegmentInv
  <1> QED BY <1>1, SpeechInvariance, PTL

(* The ring of block, frontend context, backtracking and padding is enough *)
(* for every detector that keeps to that latency: none fails the           *)
(* transcription.                                                          *)
THEOREM FaithfulNeverFails == Spec => []NeverFails
  <1>1. SpeechInv => NeverFails
    BY DEF SpeechInv, NeverFails
  <1> QED BY <1>1, SpeechInvariance, PTL

(* While nobody speaks, the buffer keeps no more than the ring.            *)
THEOREM IdleMemoryBounded == Spec => []IdleBounded
  <1>1. SpeechInv => IdleBounded
    <2>1. phase = "read" => phase # "failed"
      OBVIOUS
    <2> QED BY <2>1 DEF SpeechInv, CursorInv, IdleBounded
  <1> QED BY <1>1, SpeechInvariance, PTL

(* Speech in hand never waits with a whole segment of PCM.                 *)
THEOREM OpenSpeechBounded == Spec => []OpenBounded
  <1>1. SpeechInv => OpenBounded
    <2>1. phase = "read" => phase # "failed"
      OBVIOUS
    <2> QED BY <2>1 DEF SpeechInv, CursorInv, OpenBounded
  <1> QED BY <1>1, SpeechInvariance, PTL

-----------------------------------------------------------------------------
(* Nothing that was heard is lost: what has been copied so far, and which  *)
(* islands it belongs to.                                                  *)
(* Spans of the detector that the buffer is done with come before those    *)
(* still in hand.                                                          *)
Consumed == Len(islands) - Len(spans)
ConsumedEnd == IF Consumed = 0 THEN 0 ELSE islands[Consumed].stop

Within(s, x) == s.start <= x /\ x < s.stop
Covered(x) == \E i \in DOMAIN segments : Within(segments[i], x)

(* Islands are in order, and their last ones are the spans in hand.        *)
IslandInv ==
    /\ Len(spans) <= Len(islands)
    /\ \A i \in DOMAIN spans : spans[i] = islands[Consumed + i]
    /\ \A i \in DOMAIN islands : islands[i].start < islands[i].stop /\ islands[i].stop <= vad.end
    /\ \A i \in DOMAIN islands : i + 1 \in DOMAIN islands => islands[i].stop <= islands[i + 1].start
    /\ vad.start # None => vad.end <= vad.start
    /\ \A i \in 1..Consumed : islands[i].stop <= decoded
    /\ phase \in {"append", "consume"} /\ block.last => vad.start = None
    /\ phase = "done" => ~Open /\ spans = <<>>

(* What has been copied of the speech: all of it that was completed, of    *)
(* the speech in hand all before the canonical cursor, and after a cut all *)
(* before the watermark.                                                   *)
CoverInv ==
    /\ \A i \in 1..Consumed, x \in Nat : Within(islands[i], x) => Covered(x)
    /\ Open => buf.origin <= buf.canonical
    /\ Open => \A x \in Nat : buf.origin <= x /\ x < buf.canonical => Covered(x)
    /\ ~Open /\ buf.floor = buf.watermark =>
          \A x \in Nat : ConsumedEnd <= x /\ x < buf.watermark => Covered(x)

(* A segment carries speech that was completed, or the speech in hand,     *)
(* whose end cannot come before the segment.                               *)
Meets(s) == \E i \in 1..Consumed, x \in Nat : Within(s, x) /\ Within(islands[i], x)

OfOpenSpeech(s) ==
    /\ Open
    /\ buf.origin <= s.start
    /\ IF Closing THEN s.start < spans[1].stop
                  ELSE s.start = buf.origin \/ s.start + DirectMax <= buf.canonical

MeetInv ==
    /\ \A i \in DOMAIN segments : /\ segments[i].pcm <= segments[i].start
                                  /\ segments[i].start < segments[i].stop
                                  /\ Meets(segments[i]) \/ OfOpenSpeech(segments[i])
    /\ Closing => /\ spans[1].start = buf.origin
                  /\ spans[1].stop <= closing.stop
                  /\ spans[1].stop = closing.stop \/ buf.pcm = closing.stop

CollectInv == phase # "failed" => IslandInv /\ CoverInv /\ MeetInv

LEMMA InitCollectInv == Init => CollectInv
  <1> SUFFICES ASSUME Init PROVE IslandInv /\ CoverInv /\ MeetInv
    BY DEF CollectInv
  <1>1. spans = <<>> /\ islands = <<>> /\ segments = <<>> /\ ~Open /\ ~Closing /\ phase = "read"
        /\ vad.start = None /\ buf.floor # buf.watermark
    BY DEF Init, Open, Closing, NotClosing, None
  <1>2. Consumed = 0 /\ DOMAIN spans = {} /\ DOMAIN islands = {} /\ DOMAIN segments = {}
    BY <1>1 DEF Consumed
  <1>3. IslandInv
    BY <1>1, <1>2 DEF IslandInv
  <1> QED BY <1>1, <1>2, <1>3 DEF CoverInv, MeetInv

LEMMA IslandParts ==
  ASSUME TypeOK, IslandInv
  PROVE  /\ DOMAIN islands = 1..Len(islands) /\ Len(islands) \in Nat
         /\ DOMAIN spans = 1..Len(spans) /\ Len(spans) \in Nat
         /\ \A i \in DOMAIN islands : islands[i].start \in Nat /\ islands[i].stop \in Nat
         /\ Consumed \in 0..Len(islands) /\ Consumed + Len(spans) = Len(islands)
         /\ 1..Consumed \subseteq DOMAIN islands
         /\ ConsumedEnd \in Nat
  <1>1. islands \in Seq(Span)
    BY DEF TypeOK
  <1>2. \A i \in DOMAIN islands : islands[i] \in Span
    BY <1>1
  <1>3. DOMAIN islands = 1..Len(islands) /\ Len(islands) \in Nat
    BY <1>1
  <1>4. Consumed \in 0..Len(islands) /\ Consumed + Len(spans) = Len(islands)
    BY <1>3, SpanParts DEF Consumed, IslandInv
  <1> QED BY <1>2, <1>3, <1>4, SpanParts DEF ConsumedEnd, Span

LEMMA SegmentParts ==
  ASSUME TypeOK
  PROVE  /\ DOMAIN segments = 1..Len(segments) /\ Len(segments) \in Nat
         /\ \A i \in DOMAIN segments : /\ segments[i].start \in Nat
                                       /\ segments[i].pcm \in Nat /\ segments[i].stop \in Nat
  <1> DEFINE Piece == [start : Nat, pcm : Nat, stop : Nat]
  <1>1. segments \in Seq(Piece)
    BY DEF TypeOK
  <1> HIDE DEF Piece
  <1>2. \A i \in DOMAIN segments : segments[i] \in Piece
    BY <1>1
  <1>3. DOMAIN segments = 1..Len(segments) /\ Len(segments) \in Nat
    BY <1>1
  <1> QED BY <1>2, <1>3 DEF Piece

(* A step that moves no cursor but that of the kept PCM.                   *)
LEMMA QuietKeepsCollected ==
  ASSUME IslandInv, CoverInv, MeetInv, TypeOK,
         UNCHANGED <<vad, spans, islands, segments, closing>>,
         buf'.origin = buf.origin, buf'.canonical = buf.canonical, buf'.pcm = buf.pcm,
         buf'.watermark = buf.watermark, buf'.floor = buf.floor,
         decoded' \in Nat, decoded <= decoded',
         phase' \in {"append", "consume"} /\ block'.last => vad.start = None,
         phase' = "done" => ~Open /\ spans = <<>>
  PROVE  IslandInv' /\ CoverInv' /\ MeetInv'
  <1>1. Consumed' = Consumed /\ ConsumedEnd' = ConsumedEnd /\ (Open' <=> Open) /\ (Closing' <=> Closing)
    BY DEF Consumed, ConsumedEnd, Open, Closing
  <1>2. \A x : Covered(x)' <=> Covered(x)
    BY DEF Covered
  <1>3. \A s : Meets(s)' <=> Meets(s)
    BY <1>1 DEF Meets
  <1>4. \A s : OfOpenSpeech(s)' <=> OfOpenSpeech(s)
    BY <1>1 DEF OfOpenSpeech
  <1>5. IslandInv'
    <2>1. \A i \in 1..Consumed : islands[i].stop <= decoded'
      BY IslandParts DEF IslandInv, TypeOK
    <2> QED BY <1>1, <2>1 DEF IslandInv
  <1>6. CoverInv'
    BY <1>1, <1>2 DEF CoverInv
  <1>7. MeetInv'
    BY <1>1, <1>3, <1>4 DEF MeetInv
  <1> QED BY <1>5, <1>6, <1>7

(* The detector completes a span: the islands grow at their end.           *)
LEMMA CompletedKeepsCollected ==
  ASSUME IslandInv, CoverInv, MeetInv, TypeOK, CursorInv, phase = "hear",
         UNCHANGED <<decoded, block, buf, closing, segments>>,
         NEW start \in Nat, NEW stop \in Nat, start < stop, vad.end <= start,
         Completed(start, stop)
  PROVE  IslandInv' /\ CoverInv' /\ MeetInv'
  <1> DEFINE s == [start |-> start, stop |-> stop]
  <1>1. /\ s \in Span /\ s.start = start /\ s.stop = stop
        /\ spans' = Append(spans, s) /\ islands' = Append(islands, s)
        /\ spans \in Seq(Span) /\ islands \in Seq(Span)
        /\ vad'.start = None /\ vad'.end = stop /\ vad.end \in Nat /\ phase' = "hear"
    BY DEF Completed, Goes, Span, TypeOK
  <1> HIDE DEF s
  <1>2. /\ Len(islands') = Len(islands) + 1 /\ Len(spans') = Len(spans) + 1
        /\ DOMAIN islands' = 1..(Len(islands) + 1) /\ DOMAIN spans' = 1..(Len(spans) + 1)
        /\ \A i \in DOMAIN islands : islands'[i] = islands[i]
        /\ \A i \in DOMAIN spans : spans'[i] = spans[i]
        /\ islands'[Len(islands) + 1] = s /\ spans'[Len(spans) + 1] = s
    <2>1. Len(islands) \in Nat /\ Len(spans) \in Nat
          /\ DOMAIN islands = 1..Len(islands) /\ DOMAIN spans = 1..Len(spans)
      BY <1>1
    <2>2. Len(islands') = Len(islands) + 1 /\ Len(spans') = Len(spans) + 1
      BY <1>1
    <2>3. DOMAIN islands' = 1..(Len(islands) + 1) /\ DOMAIN spans' = 1..(Len(spans) + 1)
      BY <1>1, <2>2
    <2>4. \A i \in DOMAIN islands : islands'[i] = islands[i]
      BY <1>1, <2>1
    <2>5. \A i \in DOMAIN spans : spans'[i] = spans[i]
      BY <1>1, <2>1
    <2>6. islands'[Len(islands) + 1] = s /\ spans'[Len(spans) + 1] = s
      BY <1>1, <2>1
    <2> QED BY <2>2, <2>3, <2>4, <2>5, <2>6
  <1>3. Consumed' = Consumed /\ ConsumedEnd' = ConsumedEnd /\ (Open' <=> Open) /\ ~Closing /\ ~Closing'
    <2>1. Consumed' = Consumed
      BY <1>2, IslandParts DEF Consumed
    <2>2. Consumed # 0 => islands'[Consumed] = islands[Consumed]
      BY <1>2, IslandParts
    <2>3. ~Closing
      BY DEF CursorInv
    <2> QED BY <2>1, <2>2, <2>3 DEF ConsumedEnd, Open, Closing
  <1>4. \A i \in 1..Consumed : islands'[i] = islands[i]
    BY <1>2, IslandParts
  <1>5. IslandInv'
    <2>1. Len(spans') <= Len(islands')
      BY <1>2, IslandParts
    <2>2. \A i \in DOMAIN spans' : spans'[i] = islands'[Consumed + i]
      <3> TAKE i \in DOMAIN spans'
      <3>1. CASE i \in DOMAIN spans
        BY <1>2, <3>1, IslandParts DEF IslandInv
      <3>2. CASE i = Len(spans) + 1
        BY <1>2, <3>2, IslandParts
      <3> QED BY <1>2, <3>1, <3>2, IslandParts
    <2>3. \A i \in DOMAIN islands' : islands'[i].start < islands'[i].stop /\ islands'[i].stop <= stop
      <3> TAKE i \in DOMAIN islands'
      <3>1. CASE i \in DOMAIN islands
        BY <1>1, <1>2, <3>1, IslandParts DEF IslandInv
      <3>2. CASE i = Len(islands) + 1
        BY <1>1, <1>2, <3>2
      <3> QED BY <1>2, <3>1, <3>2, IslandParts
    <2>4. \A i \in DOMAIN islands' : i + 1 \in DOMAIN islands' =>
             islands'[i].stop <= islands'[i + 1].start
      <3> TAKE i \in DOMAIN islands'
      <3> HAVE i + 1 \in DOMAIN islands'
      <3>1. i \in DOMAIN islands
        BY <1>2, IslandParts
      <3>2. CASE i + 1 \in DOMAIN islands
        BY <1>2, <3>1, <3>2 DEF IslandInv
      <3>3. CASE i = Len(islands)
        BY <1>1, <1>2, <3>1, <3>3, IslandParts DEF IslandInv
      <3> QED BY <1>2, <3>1, <3>2, <3>3, IslandParts
    <2>5. \A i \in 1..Consumed : islands'[i].stop <= decoded
      BY <1>4 DEF IslandInv
    <2> QED BY <1>1, <1>3, <2>1, <2>2, <2>3, <2>4, <2>5 DEF IslandInv
  <1>6. \A x : Covered(x)' <=> Covered(x)
    BY DEF Covered
  <1>7. CoverInv'
    BY <1>3, <1>4, <1>6 DEF CoverInv
  <1>8. \A t : (Meets(t)' <=> Meets(t)) /\ (OfOpenSpeech(t)' <=> OfOpenSpeech(t))
    BY <1>3, <1>4 DEF Meets, OfOpenSpeech
  <1>9. MeetInv'
    BY <1>3, <1>8 DEF MeetInv
  <1> QED BY <1>5, <1>7, <1>9

LEMMA HearStartKeepsCollected ==
  ASSUME TypeOK, IslandInv, CoverInv, MeetInv, CursorInv, HearStart, phase' # "failed"
  PROVE  IslandInv' /\ CoverInv' /\ MeetInv'
  <1>1. PICK ms \in Times : Hears(StartMarker(ms))
    BY DEF HearStart
  <1> DEFINE at == ms * SamplesPerMs
  <1>2. /\ phase = "hear" /\ phase' = "hear" /\ vad' = [vad EXCEPT !.start = at] /\ at >= vad.end
        /\ UNCHANGED <<decoded, block, buf, closing, segments, spans, islands>>
    BY <1>1 DEF Hears, StartMarker, StartInOrder, Goes
  <1>3. vad'.start = at /\ vad'.end = vad.end
    BY <1>2 DEF TypeOK
  <1>4. at \in Nat /\ vad.end \in Nat
    BY <1>1, SizesAssumption DEF Times, SamplesPerMs, TypeOK
  <1> HIDE DEF at
  <1>5. Consumed' = Consumed /\ ConsumedEnd' = ConsumedEnd /\ (Open' <=> Open) /\ (Closing' <=> Closing)
    BY <1>2 DEF Consumed, ConsumedEnd, Open, Closing
  <1>6. IslandInv'
    BY <1>2, <1>3, <1>4, <1>5 DEF IslandInv
  <1>7. \A x : Covered(x)' <=> Covered(x)
    BY <1>2 DEF Covered
  <1>8. CoverInv'
    BY <1>2, <1>5, <1>7 DEF CoverInv
  <1>9. \A s : (Meets(s)' <=> Meets(s)) /\ (OfOpenSpeech(s)' <=> OfOpenSpeech(s))
    BY <1>2, <1>5 DEF Meets, OfOpenSpeech
  <1>10. MeetInv'
    BY <1>2, <1>5, <1>9 DEF MeetInv
  <1> QED BY <1>6, <1>8, <1>10

LEMMA HearEndKeepsCollected ==
  ASSUME TypeOK, IslandInv, CoverInv, MeetInv, CursorInv, HearEnd, phase' # "failed"
  PROVE  IslandInv' /\ CoverInv' /\ MeetInv'
  <1>1. PICK ms \in Times : Hears(EndMarker(ms))
    BY DEF HearEnd
  <1> DEFINE at == ms * SamplesPerMs
  <1>2. /\ phase = "hear" /\ EndInOrder(ms) /\ Completed(vad.start, at)
        /\ UNCHANGED <<decoded, block, buf, closing, segments>>
    BY <1>1 DEF Hears, EndMarker, Goes
  <1>3. at \in Nat /\ vad.start \in Nat /\ vad.start < at /\ vad.end <= vad.start
    BY <1>1, <1>2, SizesAssumption
       DEF Times, SamplesPerMs, TypeOK, Position, EndInOrder, IslandInv, None
  <1> HIDE DEF at
  <1> QED BY <1>2, <1>3, CompletedKeepsCollected

LEMMA HearWholeKeepsCollected ==
  ASSUME TypeOK, IslandInv, CoverInv, MeetInv, CursorInv, HearWhole, phase' # "failed"
  PROVE  IslandInv' /\ CoverInv' /\ MeetInv'
  <1>1. PICK from, to \in Times : from < to /\ Hears(WholeMarker(from, to))
    BY DEF HearWhole
  <1> DEFINE start == from * SamplesPerMs
             stop == to * SamplesPerMs
  <1>2. /\ phase = "hear" /\ StartInOrder(from) /\ Completed(start, stop)
        /\ UNCHANGED <<decoded, block, buf, closing, segments>>
    BY <1>1 DEF Hears, WholeMarker, Goes
  <1>3. start \in Nat /\ stop \in Nat /\ start < stop /\ vad.end <= start
    BY <1>1, <1>2, SizesAssumption DEF Times, SamplesPerMs, TypeOK, StartInOrder
  <1> HIDE DEF start, stop
  <1> QED BY <1>2, <1>3, CompletedKeepsCollected

LEMMA QuietStepsKeepCollected ==
  ASSUME TypeOK, IslandInv, CoverInv, MeetInv, CursorInv, phase' # "failed",
         ReadBlock \/ Answered \/ AppendBlock \/ EndBlock
  PROVE  IslandInv' /\ CoverInv' /\ MeetInv'
  <1>1. UNCHANGED <<vad, spans, islands, segments, closing>>
    BY DEF ReadBlock, Answered, Fail, AppendBlock, EndBlock
  <1>2. decoded' \in Nat /\ decoded <= decoded'
    BY Parts DEF ReadBlock, Answered, Fail, AppendBlock, EndBlock, Heard
  <1>3. \/ buf' = buf
        \/ \E at : buf' = [buf EXCEPT !.kept = at]
    <2>1. CASE ReadBlock \/ Answered
      BY <2>1 DEF ReadBlock, Answered, Fail
    <2>2. CASE AppendBlock
      BY <2>2 DEF AppendBlock, IdleTrimmed, TrimmedBefore
    <2>3. CASE EndBlock
      BY <2>3 DEF EndBlock, IdleTrimmed, TrimmedBefore
    <2> QED BY <2>1, <2>2, <2>3
  <1>4. /\ buf'.origin = buf.origin /\ buf'.canonical = buf.canonical /\ buf'.pcm = buf.pcm
        /\ buf'.watermark = buf.watermark /\ buf'.floor = buf.floor
    BY <1>3 DEF TypeOK
  <1>5. phase' \in {"append", "consume"} /\ block'.last => vad.start = None
    BY DEF ReadBlock, Answered, Fail, AppendBlock, EndBlock, Goes, IslandInv
  <1>6. ASSUME phase' = "done" PROVE ~Open /\ spans = <<>>
    <2>1. EndBlock /\ block.last
      BY <1>6 DEF ReadBlock, Answered, Fail, AppendBlock, EndBlock, Goes
    <2>2. phase = "consume"
      BY <2>1 DEF EndBlock, Releasing
    <2>3. vad.start = None
      BY <2>1, <2>2 DEF IslandInv
    <2>4. ~Open => ~Closing
      BY DEF CursorInv
    <2>5. ~Open /\ ~Closing
      BY <2>1, <2>3, <2>4 DEF EndBlock, Releasing, Open
    <2> QED BY <2>1, <2>5 DEF EndBlock, Releasing
  <1> QED BY <1>1, <1>2, <1>4, <1>5, <1>6, QuietKeepsCollected

LEMMA BeginSpeechKeepsCollected ==
  ASSUME TypeOK, IslandInv, CoverInv, MeetInv, CursorInv, BeginSpeech, phase' # "failed"
  PROVE  IslandInv' /\ CoverInv' /\ MeetInv'
  <1> DEFINE origin == IF spans # <<>> THEN spans[1].start ELSE vad.start
  <1>1. /\ phase = "consume" /\ ~Open /\ origin # None /\ phase' = "consume"
        /\ UNCHANGED <<decoded, block, vad, spans, closing, segments, islands>>
        /\ buf' = Begun(origin)
    BY DEF BeginSpeech, Goes
  <1>2. origin \in Nat
    BY <1>1, Parts, SpanParts DEF None
  <1>3. ConsumedEnd <= origin
    <2>1. CASE spans # <<>>
      <3>1. spans[1] = islands[Consumed + 1] /\ Consumed + 1 \in DOMAIN islands
        BY <2>1, IslandParts DEF IslandInv
      <3>2. CASE Consumed = 0
        BY <1>2, <3>2 DEF ConsumedEnd
      <3>3. CASE Consumed # 0
        <4>1. Consumed \in DOMAIN islands
          BY <3>3, IslandParts
        <4>2. islands[Consumed].stop <= islands[Consumed + 1].start
          BY <3>1, <4>1 DEF IslandInv
        <4> QED BY <2>1, <3>1, <3>3, <4>2 DEF ConsumedEnd
      <3> QED BY <3>2, <3>3
    <2>2. CASE spans = <<>>
      <3>1. origin = vad.start /\ vad.end <= vad.start
        BY <1>1, <2>2 DEF IslandInv
      <3>2. CASE Consumed = 0
        BY <1>2, <3>2 DEF ConsumedEnd
      <3>3. CASE Consumed # 0
        <4>1. Consumed \in DOMAIN islands
          BY <3>3, IslandParts
        <4>2. ConsumedEnd <= vad.end
          BY <3>3, <4>1 DEF ConsumedEnd, IslandInv
        <4> QED BY <1>2, <3>1, <4>2, IslandParts, Parts
      <3> QED BY <3>2, <3>3
    <2> QED BY <2>1, <2>2
  <1> HIDE DEF origin
  <1>4. /\ buf'.origin = origin /\ buf'.canonical = StartOf(origin)
        /\ StartOf(origin) = IF Continues(origin) THEN buf.watermark ELSE origin
        /\ origin <= StartOf(origin)
        /\ Continues(origin) => buf.floor = buf.watermark
    BY <1>1, <1>2, Parts DEF Begun, TypeOK, StartOf, Continues
  <1>5. Consumed' = Consumed /\ ConsumedEnd' = ConsumedEnd /\ Open' /\ ~Closing /\ ~Closing'
    BY <1>1, <1>2, <1>4 DEF Consumed, ConsumedEnd, Open, Closing, None, CursorInv
  <1>6. IslandInv'
    BY <1>1, <1>5 DEF IslandInv
  <1>7. \A x : Covered(x)' <=> Covered(x)
    BY <1>1 DEF Covered
  <1>8. CoverInv'
    <2>1. ASSUME NEW x \in Nat, origin <= x, x < StartOf(origin) PROVE Covered(x)
      <3>1. Continues(origin) /\ StartOf(origin) = buf.watermark
        BY <1>2, <1>4, <2>1
      <3>2. ConsumedEnd <= x
        BY <1>2, <1>3, <2>1, IslandParts
      <3> QED BY <1>1, <1>4, <2>1, <3>1, <3>2 DEF CoverInv
    <2> QED BY <1>1, <1>4, <1>5, <1>7, <2>1 DEF CoverInv
  <1>9. \A s : (Meets(s)' <=> Meets(s)) /\ ~OfOpenSpeech(s)
    BY <1>1, <1>5 DEF Meets, OfOpenSpeech
  <1>10. MeetInv'
    BY <1>1, <1>5, <1>9 DEF MeetInv
  <1> QED BY <1>6, <1>8, <1>10

(* The first span in hand is the island after those consumed.              *)
LEMMA FirstSpan ==
  ASSUME TypeOK, IslandInv, spans # <<>>
  PROVE  /\ Consumed + 1 \in DOMAIN islands /\ spans[1] = islands[Consumed + 1]
         /\ spans[1].start \in Nat /\ spans[1].stop \in Nat /\ spans[1].start < spans[1].stop
  <1>1. Consumed + 1 \in DOMAIN islands /\ spans[1] = islands[Consumed + 1]
    BY IslandParts DEF IslandInv
  <1> QED BY <1>1, IslandParts DEF IslandInv

LEMMA CloseSpeechKeepsCollected ==
  ASSUME TypeOK, IslandInv, CoverInv, MeetInv, CursorInv, CloseSpeech, phase' # "failed"
  PROVE  IslandInv' /\ CoverInv' /\ MeetInv'
  <1>1. /\ phase = "consume" /\ phase' = "consume" /\ Open /\ ~Closing /\ spans # <<>>
        /\ UNCHANGED <<decoded, block, vad, spans, buf, segments, islands>>
        /\ buf.origin = spans[1].start
        /\ buf.canonical - spans[1].stop > 0 =>
              buf.floor = buf.canonical /\ ~(buf.canonical - spans[1].stop > Prepad)
        /\ closing'.stop = Larger(spans[1].stop, buf.canonical)
    BY DEF CloseSpeech, Goes
  <1>2. buf.canonical \in Nat /\ buf.pcm \in Nat /\ buf.pcm <= buf.canonical /\ buf.origin \in Nat
    BY <1>1, Parts DEF Open, None, CursorInv
  <1>3. Consumed' = Consumed /\ ConsumedEnd' = ConsumedEnd /\ (Open' <=> Open) /\ Closing'
    BY <1>1, <1>2, FirstSpan DEF Consumed, ConsumedEnd, Open, Closing, Larger, None
  <1>4. IslandInv'
    BY <1>1, <1>3 DEF IslandInv
  <1>5. \A x : Covered(x)' <=> Covered(x)
    BY <1>1 DEF Covered
  <1>6. CoverInv'
    BY <1>1, <1>3, <1>5 DEF CoverInv
  <1>7. ASSUME NEW i \in DOMAIN segments, OfOpenSpeech(segments[i])
        PROVE  OfOpenSpeech(segments[i])'
    <2>1. segments[i].start = buf.origin \/ segments[i].start + DirectMax <= buf.canonical
      BY <1>1, <1>7 DEF OfOpenSpeech
    <2>2. segments[i].start < spans[1].stop
      <3>1. CASE segments[i].start = buf.origin
        BY <1>1, <3>1, FirstSpan
      <3>2. CASE segments[i].start + DirectMax <= buf.canonical
        BY <1>1, <1>2, <3>2, FirstSpan, SegmentParts, SizesAssumption
      <3> QED BY <2>1, <3>1, <3>2
    <2> QED BY <1>1, <1>3, <1>7, <2>2 DEF OfOpenSpeech
  <1>8. \A s : Meets(s)' <=> Meets(s)
    BY <1>1, <1>3 DEF Meets
  <1>9. spans[1].stop <= closing'.stop /\ (spans[1].stop = closing'.stop \/ buf.pcm = closing'.stop)
    <2>1. CASE spans[1].stop >= buf.canonical
      BY <1>1, <2>1, FirstSpan DEF Larger
    <2>2. CASE ~(spans[1].stop >= buf.canonical)
      <3>1. closing'.stop = buf.canonical /\ buf.canonical - spans[1].stop > 0
        BY <1>1, <1>2, <2>2, FirstSpan DEF Larger
      <3>2. buf.floor = buf.watermark
        BY <1>1, <1>2, <3>1 DEF CursorInv, None
      <3>3. buf.canonical = buf.watermark /\ buf.watermark <= buf.pcm
        BY <1>1, <3>2 DEF CursorInv
      <3> QED BY <1>1, <1>2, <2>2, <3>1, <3>3, FirstSpan
    <2> QED BY <2>1, <2>2
  <1>10. MeetInv'
    BY <1>1, <1>3, <1>7, <1>8, <1>9 DEF MeetInv
  <1> QED BY <1>4, <1>6, <1>10

(* A segment more covers what was covered, and its own samples.            *)
LEMMA SegmentAppended ==
  ASSUME TypeOK, NEW start \in Nat, NEW from \in Nat, NEW to \in Nat,
         segments' = Append(segments, Segment(start, from, to))
  PROVE  /\ DOMAIN segments' = 1..(Len(segments) + 1)
         /\ \A i \in DOMAIN segments : segments'[i] = segments[i]
         /\ segments'[Len(segments) + 1] = Segment(start, from, to)
         /\ \A x : Covered(x) => Covered(x)'
         /\ \A x : start <= x /\ x < to => Covered(x)'
  <1> DEFINE s == Segment(start, from, to)
             Piece == [start : Nat, pcm : Nat, stop : Nat]
  <1>1. segments \in Seq(Piece) /\ s \in Piece /\ segments' = Append(segments, s)
        /\ s.start = start /\ s.stop = to
    BY DEF TypeOK, Segment
  <1> HIDE DEF s, Piece
  <1>2. Len(segments) \in Nat /\ DOMAIN segments = 1..Len(segments) /\ Len(segments') = Len(segments) + 1
    BY <1>1
  <1>3. DOMAIN segments' = 1..(Len(segments) + 1)
    BY <1>1, <1>2
  <1>4. \A i \in DOMAIN segments : segments'[i] = segments[i]
    BY <1>1, <1>2
  <1>5. segments'[Len(segments) + 1] = s
    BY <1>1, <1>2
  <1>6. \A x : Covered(x) => Covered(x)'
    BY <1>2, <1>3, <1>4 DEF Covered
  <1>7. \A x : start <= x /\ x < to => Covered(x)'
    BY <1>1, <1>2, <1>3, <1>5 DEF Covered, Within
  <1> QED BY <1>3, <1>4, <1>5, <1>6, <1>7 DEF s

LEMMA CutKeepsCollected ==
  ASSUME TypeOK, IslandInv, CoverInv, MeetInv, CursorInv, Cut, phase' # "failed"
  PROVE  IslandInv' /\ CoverInv' /\ MeetInv'
  <1> DEFINE cut == buf.pcm + DirectMax
  <1>1. /\ phase = "consume" /\ phase' = "consume" /\ Open /\ MayCut
        /\ UNCHANGED <<decoded, block, vad, spans, closing, islands>>
        /\ segments' = Append(segments, Segment(buf.canonical, buf.pcm, cut))
        /\ buf' = CutAt(cut) /\ MayCopy(buf.canonical, buf.pcm, cut)
    BY DEF Cut, Releasing, Goes
  <1>2. /\ buf.canonical \in Nat /\ buf.pcm \in Nat /\ buf.pcm <= buf.canonical
        /\ buf.origin \in Nat /\ cut \in Nat /\ buf.canonical < cut
        /\ buf.origin <= buf.canonical
    <2>1. buf.canonical \in Nat /\ buf.pcm \in Nat /\ buf.origin \in Nat /\ buf.pcm <= buf.canonical
      BY <1>1, Parts DEF Open, None, CursorInv
    <2>2. cut \in Nat
      BY <2>1, SizesAssumption
    <2> QED BY <1>1, <2>1, <2>2 DEF CoverInv, MayCopy
  <1>3. /\ buf'.origin = buf.origin /\ buf'.canonical = cut /\ buf'.pcm = cut
    BY <1>1 DEF CutAt, TrimmedBefore, TypeOK
  <1>4. buf.canonical = buf.origin \/ buf.canonical = buf.pcm
    <2>1. CASE buf.floor = buf.watermark
      BY <1>1, <1>2, <2>1, Parts DEF CursorInv
    <2>2. CASE buf.floor = None
      BY <1>1, <2>2 DEF CursorInv
    <2> QED BY <2>1, <2>2 DEF CursorInv
  <1>5. Closing => spans[1].stop = closing.stop /\ cut <= spans[1].stop
                   /\ spans # <<>>
    <2> SUFFICES ASSUME Closing
                 PROVE  spans[1].stop = closing.stop /\ cut <= spans[1].stop /\ spans # <<>>
      OBVIOUS
    <2>1. closing.stop - buf.pcm >= DirectMax /\ closing.stop \in Nat
      BY <1>1, Parts DEF MayCut, Available, CursorInv, Closing, None
    <2>2. buf.pcm # closing.stop
      BY <1>2, <2>1, SizesAssumption
    <2>3. spans[1].stop = closing.stop /\ spans # <<>>
      BY <2>2 DEF MeetInv, CursorInv
    <2> QED BY <1>2, <2>1, <2>3, SizesAssumption
  <1>6. /\ DOMAIN segments' = 1..(Len(segments) + 1)
        /\ \A i \in DOMAIN segments : segments'[i] = segments[i]
        /\ segments'[Len(segments) + 1] = Segment(buf.canonical, buf.pcm, cut)
        /\ \A x : Covered(x) => Covered(x)'
        /\ \A x : buf.canonical <= x /\ x < cut => Covered(x)'
    BY <1>1, <1>2, SegmentAppended
  <1> HIDE DEF cut
  <1>7. Consumed' = Consumed /\ ConsumedEnd' = ConsumedEnd /\ Open' /\ (Closing' <=> Closing)
    BY <1>1, <1>3 DEF Consumed, ConsumedEnd, Open, Closing
  <1>8. IslandInv'
    BY <1>1, <1>7 DEF IslandInv
  <1>9. CoverInv'
    <2>1. \A i \in 1..Consumed, x \in Nat : Within(islands[i], x) => Covered(x)'
      BY <1>6 DEF CoverInv
    <2>2. ASSUME NEW x \in Nat, buf.origin <= x, x < cut PROVE Covered(x)'
      <3>1. CASE x < buf.canonical
        BY <1>1, <1>6, <2>2, <3>1 DEF CoverInv
      <3>2. CASE buf.canonical <= x
        BY <1>6, <2>2, <3>2
      <3> QED BY <1>2, <3>1, <3>2
    <2>3. buf.origin <= cut
      BY <1>2
    <2> QED BY <1>1, <1>3, <1>7, <2>1, <2>2, <2>3 DEF CoverInv
  <1>10. \A s : Meets(s)' <=> Meets(s)
    BY <1>1, <1>7 DEF Meets
  <1>11. ASSUME NEW s, s.start \in Nat, OfOpenSpeech(s)
         PROVE  OfOpenSpeech(s)'
    <2>1. CASE Closing
      BY <1>1, <1>3, <1>7, <1>11, <2>1 DEF OfOpenSpeech
    <2>2. CASE ~Closing
      <3>1. s.start = buf.origin \/ s.start + DirectMax <= cut
        BY <1>2, <1>11, <2>2, SizesAssumption DEF OfOpenSpeech
      <3> QED BY <1>3, <1>7, <1>11, <2>2, <3>1 DEF OfOpenSpeech
    <2> QED BY <2>1, <2>2
  <1>12. ASSUME NEW s, s = Segment(buf.canonical, buf.pcm, cut)
         PROVE  OfOpenSpeech(s)'
    <2>1. s.start = buf.canonical
      BY <1>12 DEF Segment
    <2>2. buf'.origin <= s.start /\ Open'
      BY <1>2, <1>3, <1>7, <2>1
    <2>3. CASE Closing
      <3>1. s.start < spans[1].stop
        BY <1>2, <1>5, <2>1, <2>3, FirstSpan
      <3> QED BY <1>1, <1>7, <2>2, <2>3, <3>1 DEF OfOpenSpeech
    <2>4. CASE ~Closing
      <3>1. s.start = buf.origin \/ s.start + DirectMax <= cut
        BY <1>2, <1>4, <2>1, SizesAssumption DEF cut
      <3> QED BY <1>1, <1>3, <1>7, <2>2, <2>4, <3>1 DEF OfOpenSpeech
    <2> QED BY <2>3, <2>4
  <1>13. MeetInv'
    <2>1. ASSUME NEW i \in DOMAIN segments', NEW s, s = segments'[i]
          PROVE  s.pcm <= s.start /\ s.start < s.stop /\ (Meets(s)' \/ OfOpenSpeech(s)')
      <3>1. CASE i \in DOMAIN segments
        <4>1. s = segments[i] /\ s.start \in Nat
          BY <1>6, <2>1, <3>1, SegmentParts
        <4> QED BY <1>10, <1>11, <3>1, <4>1 DEF MeetInv
      <3>2. CASE i = Len(segments) + 1
        <4>1. s = Segment(buf.canonical, buf.pcm, cut)
          BY <1>6, <2>1, <3>2
        <4>2. s.pcm <= s.start /\ s.start < s.stop
          BY <1>2, <4>1 DEF Segment
        <4> QED BY <1>12, <4>1, <4>2
      <3> QED BY <1>6, <2>1, <3>1, <3>2, SegmentParts
    <2>2. Closing => /\ spans[1].start = buf.origin
                     /\ spans[1].stop <= closing.stop
                     /\ spans[1].stop = closing.stop
      BY <1>5 DEF MeetInv
    <2> QED BY <1>1, <1>3, <1>7, <2>1, <2>2 DEF MeetInv
  <1> QED BY <1>8, <1>9, <1>13

LEMMA CompleteSpeechKeepsCollected ==
  ASSUME TypeOK, IslandInv, CoverInv, MeetInv, CursorInv, CompleteSpeech, phase' # "failed"
  PROVE  IslandInv' /\ CoverInv' /\ MeetInv'
  <1> DEFINE stop == closing.stop
             copied == Segment(buf.canonical, buf.pcm, stop)
  <1>1. /\ phase = "consume" /\ phase' = "consume" /\ Open /\ Closing /\ spans # <<>>
        /\ UNCHANGED <<decoded, block, vad, islands>>
        /\ spans' = Tail(spans) /\ closing' = NotClosing /\ buf' = Closed
        /\ \/ NothingLeft /\ segments' = segments
           \/ ~NothingLeft /\ segments' = Append(segments, copied)
    BY DEF CompleteSpeech, Goes, CursorInv
  <1>2. /\ buf.canonical \in Nat /\ buf.pcm \in Nat /\ buf.pcm <= buf.canonical
        /\ buf.origin \in Nat /\ stop \in Nat /\ buf.canonical <= stop
        /\ buf.origin <= buf.canonical
        /\ buf.pcm < buf.canonical => buf.canonical < stop
    BY <1>1, Parts DEF Open, None, CursorInv, CoverInv
  <1>3. /\ spans[1].start = buf.origin /\ spans[1].stop <= stop
        /\ spans[1].stop = stop \/ buf.pcm = stop
        /\ Consumed + 1 \in DOMAIN islands /\ spans[1] = islands[Consumed + 1]
        /\ spans[1].stop \in Nat /\ spans[1].start < spans[1].stop
    BY <1>1, FirstSpan DEF MeetInv
  <1>4. /\ buf'.origin = None /\ buf'.watermark = stop
        /\ DOMAIN spans' = 1..(Len(spans) - 1) /\ Len(spans') = Len(spans) - 1
        /\ \A i \in DOMAIN spans' : spans'[i] = spans[i + 1] /\ i + 1 \in DOMAIN spans
    <2>1. spans \in Seq(Span)
      BY DEF TypeOK
    <2>2. Len(spans) \in Nat /\ Len(spans) > 0 /\ DOMAIN spans = 1..Len(spans)
      BY <1>1, <2>1
    <2>3. spans' \in Seq(Span) /\ Len(spans') = Len(spans) - 1
      BY <1>1, <2>1, <2>2
    <2>4. DOMAIN spans' = 1..(Len(spans) - 1)
      BY <2>3
    <2>5. \A i \in DOMAIN spans' : spans'[i] = spans[i + 1] /\ i + 1 \in DOMAIN spans
      BY <1>1, <2>1, <2>2, <2>4
    <2>6. buf'.origin = None /\ buf'.watermark = stop
      BY <1>1 DEF Closed, TypeOK
    <2> QED BY <2>3, <2>4, <2>5, <2>6
  <1>5. NothingLeft <=> buf.canonical = stop
    BY <1>2 DEF NothingLeft
  <1> HIDE DEF stop
  <1>6. Consumed' = Consumed + 1 /\ ConsumedEnd' = spans[1].stop /\ ~Open' /\ ~Closing'
    <2>1. Consumed' = Consumed + 1
      BY <1>1, <1>4, IslandParts DEF Consumed
    <2>2. ConsumedEnd' = spans[1].stop
      BY <1>1, <1>3, <2>1, IslandParts DEF ConsumedEnd
    <2> QED BY <1>1, <1>4, <2>1, <2>2 DEF Open, Closing, NotClosing
  <1>7. 1..Consumed' = (1..Consumed) \cup {Consumed + 1}
    BY <1>6, IslandParts
  <1>8. IslandInv'
    <2>1. Len(spans') <= Len(islands')
      BY <1>1, <1>4, IslandParts DEF IslandInv
    <2>2. \A i \in DOMAIN spans' : spans'[i] = islands[Consumed' + i]
      <3> TAKE i \in DOMAIN spans'
      <3>1. spans'[i] = spans[i + 1] /\ i + 1 \in DOMAIN spans /\ i \in Nat
        BY <1>4
      <3>2. spans[i + 1] = islands[Consumed + (i + 1)]
        BY <3>1 DEF IslandInv
      <3>3. Consumed + (i + 1) = Consumed' + i
        BY <1>6, <3>1, IslandParts
      <3> QED BY <3>1, <3>2, <3>3
    <2>3. \A i \in 1..Consumed' : islands[i].stop <= decoded
      <3>1. spans[1].stop <= decoded
        <4>1. stop <= decoded
          BY <1>1 DEF CursorInv, stop
        <4> QED BY <1>2, <1>3, <4>1, Parts
      <3> QED BY <1>3, <1>7, <3>1 DEF IslandInv
    <2> QED BY <1>1, <2>1, <2>2, <2>3 DEF IslandInv
  <1>9. /\ \A x : Covered(x) => Covered(x)'
        /\ \A x \in Nat : buf.canonical <= x /\ x < stop => Covered(x)'
    <2>1. CASE NothingLeft /\ segments' = segments
      BY <1>2, <1>5, <2>1 DEF Covered
    <2>2. CASE ~NothingLeft /\ segments' = Append(segments, copied)
      BY <1>2, <2>2, SegmentAppended
    <2> QED BY <1>1, <2>1, <2>2
  <1>10. ASSUME NEW x \in Nat, buf.origin <= x, x < stop PROVE Covered(x)'
    <2>1. CASE x < buf.canonical
      BY <1>1, <1>9, <1>10, <2>1 DEF CoverInv
    <2>2. CASE buf.canonical <= x
      BY <1>9, <1>10, <2>2
    <2> QED BY <1>2, <2>1, <2>2
  <1>11. CoverInv'
    <2>1. ASSUME NEW i \in 1..Consumed', NEW x \in Nat, Within(islands[i], x)
          PROVE  Covered(x)'
      <3>1. CASE i \in 1..Consumed
        BY <1>9, <2>1, <3>1 DEF CoverInv
      <3>2. CASE i = Consumed + 1
        <4>1. buf.origin <= x /\ x < spans[1].stop
          BY <1>3, <2>1, <3>2 DEF Within
        <4> QED BY <1>2, <1>3, <1>10, <4>1
      <3> QED BY <1>7, <2>1, <3>1, <3>2
    <2>2. \A x \in Nat : ConsumedEnd' <= x /\ x < buf'.watermark => Covered(x)'
      BY <1>2, <1>3, <1>4, <1>6, <1>10
    <2> QED BY <1>1, <1>6, <2>1, <2>2 DEF CoverInv
  <1>12. \A s : Meets(s) => Meets(s)'
    BY <1>1, <1>7 DEF Meets
  <1>13. ASSUME NEW s, s.start \in Nat, buf.origin <= s.start, s.start < spans[1].stop,
                s.start < s.stop
         PROVE  Meets(s)'
    <2>1. Within(s, s.start) /\ Within(islands[Consumed + 1], s.start)
      BY <1>3, <1>13 DEF Within
    <2> QED BY <1>1, <1>7, <1>13, <2>1 DEF Meets
  <1>14. ASSUME NEW i \in DOMAIN segments, NEW s, s = segments[i]
         PROVE  s.pcm <= s.start /\ s.start < s.stop /\ Meets(s)'
    <2>1. s.pcm <= s.start /\ s.start < s.stop /\ (Meets(s) \/ OfOpenSpeech(s)) /\ s.start \in Nat
      BY <1>14, SegmentParts DEF MeetInv
    <2>2. CASE Meets(s)
      BY <1>12, <2>1, <2>2
    <2>3. CASE OfOpenSpeech(s)
      BY <1>1, <1>13, <2>1, <2>3 DEF OfOpenSpeech
    <2> QED BY <2>1, <2>2, <2>3
  <1>15. ASSUME ~NothingLeft, NEW s, s = copied
         PROVE  s.pcm <= s.start /\ s.start < s.stop /\ Meets(s)'
    <2>1. s.start = buf.canonical /\ s.stop = stop /\ s.pcm = buf.pcm
      BY <1>15 DEF Segment
    <2>2. buf.canonical < stop /\ buf.pcm < stop
      BY <1>2, <1>5, <1>15
    <2>3. spans[1].stop = stop
      BY <1>2, <1>3, <2>2
    <2> HIDE DEF copied
    <2> QED BY <1>2, <1>13, <2>1, <2>2, <2>3
  <1>16. MeetInv'
    <2>1. ASSUME NEW i \in DOMAIN segments', NEW s, s = segments'[i]
          PROVE  s.pcm <= s.start /\ s.start < s.stop /\ Meets(s)'
      <3>1. CASE NothingLeft /\ segments' = segments
        BY <1>14, <2>1, <3>1
      <3>2. CASE ~NothingLeft /\ segments' = Append(segments, copied)
        <4> HIDE DEF copied
        <4>1. /\ DOMAIN segments' = 1..(Len(segments) + 1)
              /\ \A j \in DOMAIN segments : segments'[j] = segments[j]
              /\ segments'[Len(segments) + 1] = copied
          BY <1>2, <3>2, SegmentAppended DEF copied
        <4>2. CASE i \in DOMAIN segments
          BY <1>14, <2>1, <4>1, <4>2
        <4>3. CASE i = Len(segments) + 1
          BY <1>15, <2>1, <3>2, <4>1, <4>3
        <4> QED BY <2>1, <4>1, <4>2, <4>3, SegmentParts
      <3> QED BY <1>1, <3>1, <3>2
    <2> QED BY <1>6, <2>1 DEF MeetInv
  <1> QED BY <1>8, <1>11, <1>16

LEMMA StepKeepsCollected ==
  ASSUME SpeechInv, CollectInv, [Next]_vars
  PROVE  CollectInv'
  <1> SUFFICES ASSUME phase' # "failed" PROVE IslandInv' /\ CoverInv' /\ MeetInv'
    BY DEF CollectInv
  <1>1. CASE UNCHANGED vars
    <2>1. TypeOK /\ IslandInv /\ CoverInv /\ MeetInv
      BY <1>1 DEF SpeechInv, CollectInv, vars
    <2>2. decoded \in Nat
      BY <2>1, Parts
    <2> QED BY <1>1, <2>1, <2>2, QuietKeepsCollected DEF vars, IslandInv
  <1>2. CASE Next /\ ~UNCHANGED vars
    <2>1. phase # "failed"
      BY <1>2 DEF Next, Ended, ReadBlock, HearStart, HearEnd, HearWhole, Hears, Answered,
         AppendBlock, BeginSpeech, CloseSpeech, Cut, CompleteSpeech, Releasing, EndBlock
    <2>2. TypeOK /\ CursorInv
      BY <2>1, Zenon DEF SpeechInv
    <2>3. IslandInv /\ CoverInv /\ MeetInv
      BY <2>1 DEF CollectInv
    <2>4. CASE HearStart
      BY <2>2, <2>3, <2>4, HearStartKeepsCollected
    <2>5. CASE HearEnd
      BY <2>2, <2>3, <2>5, HearEndKeepsCollected
    <2>6. CASE HearWhole
      BY <2>2, <2>3, <2>6, HearWholeKeepsCollected
    <2>7. CASE ReadBlock \/ Answered \/ AppendBlock \/ EndBlock
      BY <2>2, <2>3, <2>7, QuietStepsKeepCollected
    <2>8. CASE BeginSpeech
      BY <2>2, <2>3, <2>8, BeginSpeechKeepsCollected
    <2>9. CASE CloseSpeech
      BY <2>2, <2>3, <2>9, CloseSpeechKeepsCollected
    <2>10. CASE Cut
      BY <2>2, <2>3, <2>10, CutKeepsCollected
    <2>11. CASE CompleteSpeech
      BY <2>2, <2>3, <2>11, CompleteSpeechKeepsCollected
    <2> QED BY <1>2, <2>4, <2>5, <2>6, <2>7, <2>8, <2>9, <2>10, <2>11 DEF Next, Ended
  <1> QED BY <1>1, <1>2

(* Once the audio has ended nothing is in hand, so all that was heard was  *)
(* copied, and every segment carries some of it.                           *)
LEMMA NothingInHand ==
  ASSUME SpeechInv, CollectInv
  PROVE  SpeechCollected
  <1> SUFFICES ASSUME phase = "done" PROVE Collected(islands, Bounds(segments), decoded)
    BY DEF SpeechCollected
  <1>1. TypeOK /\ CursorInv /\ SegmentInv /\ IslandInv /\ CoverInv /\ MeetInv
    <2>1. phase # "failed"
      OBVIOUS
    <2> QED BY <2>1, Zenon DEF SpeechInv, CollectInv
  <1>2. ~Open /\ spans = <<>>
    BY <1>1 DEF IslandInv
  <1>3. Consumed = Len(islands) /\ 1..Consumed = DOMAIN islands
    BY <1>1, <1>2, IslandParts DEF Consumed
  <1>4. /\ DOMAIN Bounds(segments) = DOMAIN segments
        /\ \A i \in DOMAIN segments : /\ Bounds(segments)[i].start = segments[i].start
                                      /\ Bounds(segments)[i].stop = segments[i].stop
    BY DEF Bounds
  <1>5. Ordered(islands, decoded)
    <2> SUFFICES ASSUME NEW i \in DOMAIN islands
                 PROVE  /\ islands[i].start < islands[i].stop /\ islands[i].stop <= decoded
                        /\ islands[i].start >= (IF i = 1 THEN 0 ELSE islands[i - 1].stop)
      BY DEF Ordered
    <2>1. islands[i].start < islands[i].stop /\ islands[i].stop <= decoded
      BY <1>1, <1>3 DEF IslandInv
    <2>0. islands[i].start \in Nat /\ i \in 1..Len(islands) /\ Len(islands) \in Nat
      BY <1>1, IslandParts
    <2>2. CASE i = 1
      BY <2>0, <2>1, <2>2
    <2>3. CASE i # 1
      <3>1. i - 1 \in DOMAIN islands /\ (i - 1) + 1 = i /\ islands[i - 1].stop \in Nat
        BY <1>1, <2>0, <2>3, IslandParts
      <3>2. islands[i - 1].stop <= islands[i].start
        BY <1>1, <3>1 DEF IslandInv
      <3> QED BY <2>0, <2>1, <2>3, <3>1, <3>2
    <2> QED BY <2>2, <2>3
  <1>6. Ordered(Bounds(segments), decoded)
    <2> SUFFICES ASSUME NEW i \in DOMAIN segments
                 PROVE  /\ segments[i].start < segments[i].stop /\ segments[i].stop <= decoded
                        /\ segments[i].start >= (IF i = 1 THEN 0 ELSE Bounds(segments)[i - 1].stop)
      BY <1>4 DEF Ordered
    <2>1. segments[i].start < segments[i].stop /\ segments[i].pcm <= segments[i].start
      BY <1>1 DEF MeetInv
    <2>2. segments[i].stop <= decoded
      BY <1>1, Parts, SegmentParts DEF SegmentInv, CursorInv
    <2>0. /\ segments[i].start \in Nat /\ segments[i].pcm \in Nat
          /\ i \in 1..Len(segments) /\ Len(segments) \in Nat
      BY <1>1, SegmentParts
    <2>3. CASE i = 1
      BY <2>0, <2>1, <2>2, <2>3
    <2>4. CASE i # 1
      <3>1. i - 1 \in DOMAIN segments /\ i - 1 < i /\ segments[i - 1].stop \in Nat
        BY <1>1, <2>0, <2>4, SegmentParts
      <3>2. segments[i - 1].stop <= segments[i].pcm
        BY <1>1, <3>1 DEF SegmentInv, PcmOnce
      <3>3. Bounds(segments)[i - 1].stop = segments[i - 1].stop
        BY <1>4, <3>1
      <3> QED BY <2>0, <2>1, <2>2, <2>4, <3>1, <3>2, <3>3
    <2> QED BY <2>3, <2>4
  <1>7. Samples(islands) \subseteq Samples(Bounds(segments))
    <2> SUFFICES ASSUME NEW i \in DOMAIN islands, NEW x \in islands[i].start..(islands[i].stop - 1)
                 PROVE  x \in Samples(Bounds(segments))
      BY DEF Samples
    <2>1. x \in Nat /\ Within(islands[i], x)
      BY <1>1, IslandParts DEF Within
    <2>2. PICK j \in DOMAIN segments : Within(segments[j], x)
      BY <1>1, <1>3, <2>1 DEF CoverInv, Covered
    <2>3. x \in Bounds(segments)[j].start..(Bounds(segments)[j].stop - 1)
      BY <1>1, <1>4, <2>1, <2>2, SegmentParts DEF Within
    <2> QED BY <1>4, <2>3 DEF Samples
  <1>8. ASSUME NEW j \in DOMAIN segments
        PROVE  Samples(<<Bounds(segments)[j]>>) \cap Samples(islands) # {}
    <2> DEFINE s == Bounds(segments)[j]
    <2>1. Meets(segments[j])
      BY <1>1, <1>2 DEF MeetInv, OfOpenSpeech
    <2>2. PICK i \in 1..Consumed, x \in Nat : Within(segments[j], x) /\ Within(islands[i], x)
      BY <2>1 DEF Meets
    <2>3. x \in islands[i].start..(islands[i].stop - 1) /\ i \in DOMAIN islands
      BY <1>1, <1>3, <2>2, IslandParts DEF Within
    <2>4. x \in s.start..(s.stop - 1)
      BY <1>1, <1>4, <2>2, SegmentParts DEF Within
    <2> HIDE DEF s
    <2>5. DOMAIN <<s>> = 1..1 /\ <<s>>[1] = s /\ 1 \in 1..1
      OBVIOUS
    <2>6. x \in Samples(<<s>>)
      BY <2>4, <2>5 DEF Samples
    <2>7. x \in Samples(islands)
      BY <2>3 DEF Samples
    <2> QED BY <2>6, <2>7 DEF s
  <1> QED BY <1>4, <1>5, <1>6, <1>7, <1>8 DEF Collected

(* For blocks, paddings and segments of any size and any detector, however *)
(* it errs: when a transcription has heard all of its audio, no sample of  *)
(* speech is missing from the segments, and none of them is silence only.  *)
THEOREM NoSpeechLost == Spec => []SpeechCollected
  <1>1. SpeechInv /\ CollectInv /\ [Next]_vars => CollectInv'
    BY StepKeepsCollected
  <1>2. SpeechInv /\ CollectInv => SpeechCollected
    BY NothingInHand
  <1> QED BY <1>1, <1>2, SpeechInvariance, InitCollectInv, PTL DEF Spec

-----------------------------------------------------------------------------
(* Diarization.                                                            *)
Window == [start : Nat, speech : SUBSET Nat]
Run == [start : Nat, stop : Nat, label : Nat]

DiarizationTypeOK ==
    /\ stage \in {"collected", "merge", "embed", "embedded", "clustered", "divide",
                  "project", "scan", "cut", "projected", "done", "failed"}
    /\ total \in Nat /\ speech \in Seq(Span) /\ sources \in Seq(Span)
    /\ island \in Nat /\ segment \in Nat /\ covered \in Nat /\ met \in BOOLEAN
    /\ pieces \in Seq(Span)
    /\ gridStart \in Nat
    /\ windows \in Seq(Window)
    /\ labels \in Seq(Nat) /\ boundaries \in Seq(Nat) /\ cell \in Nat
    /\ runs \in Seq(Run) /\ regions \in Seq(Run)

InSpans(list, x) == \E i \in DOMAIN list : Within(list[i], x)

(* Spans in order, each with the ones after it.                            *)
Apart(list) ==
    /\ \A i \in DOMAIN list : list[i].start < list[i].stop
    /\ \A i, j \in DOMAIN list : i < j => list[i].stop <= list[j].start

(* What was collected.                                                     *)
InputInv ==
    /\ Apart(speech) /\ Apart(sources)
    /\ Ordered(speech, total) /\ Ordered(sources, total)
    /\ \A i \in DOMAIN speech : speech[i].stop <= total
    /\ \A x \in Nat : InSpans(speech, x) => InSpans(sources, x)
    /\ \A j \in DOMAIN sources :
          \E i \in DOMAIN speech, x \in Nat : Within(speech[i], x) /\ Within(sources[j], x)

(* What is still as it was at the start.                                   *)
StartInv ==
    /\ stage = "collected" => island = 1 /\ segment = 1 /\ met = FALSE /\ pieces = <<>>
    /\ stage \in {"collected", "merge"} => gridStart = 0 /\ windows = <<>>
    /\ stage \in {"collected", "merge", "embed", "embedded", "clustered"} => boundaries = <<0>>
    /\ stage \in {"collected", "merge", "embed", "embedded", "clustered", "divide"} => regions = <<>>
    /\ stage \notin {"collected", "done"} => speech # <<>>

(* The cursors of the merge: what is covered ends where the island starts  *)
(* or with the segment before; no segment passed reaches further, and no   *)
(* island passed reaches beyond the segment in hand.                       *)
CursorsInv ==
    stage = "merge" =>
       /\ island \in 1..(Len(speech) + 1) /\ segment \in 1..(Len(sources) + 1)
       /\ island <= Len(speech) =>
             /\ Within(speech[island], covered)
             /\ \A j \in 1..(segment - 1) : sources[j].stop <= covered
             /\ \/ covered = speech[island].start
                \/ segment > 1 /\ covered = sources[segment - 1].stop
       /\ segment <= Len(sources) =>
             \A i \in 1..(island - 1) :
                speech[i].stop <= IF met THEN sources[segment].stop ELSE sources[segment].start

(* The pieces are the speech in front of the cursors.                      *)
Merged(x) ==
    \E i \in DOMAIN speech : /\ Within(speech[i], x)
                             /\ i < island \/ (i = island /\ x < covered)

PiecesInv ==
    /\ stage \in {"merge", "embed"} => Apart(pieces)
    /\ stage = "merge" =>
          /\ island <= Len(speech) => \A k \in DOMAIN pieces : pieces[k].stop <= covered
          /\ \A x \in Nat : InSpans(pieces, x) <=> Merged(x)
    /\ stage = "embed" => \A x \in Nat : InSpans(pieces, x) <=> InSpans(speech, x)

(* The windows are those of the grid that meet speech.                     *)
Clustering == stage \in {"embedded", "clustered", "divide", "project", "scan", "cut", "projected"}

WindowsInv ==
    /\ \A i \in DOMAIN windows :
          /\ windows[i].start < total /\ windows[i].start % WindowShift = 0
          /\ MeetsSpeech(windows[i].start)
          /\ windows[i].speech = InWindow(windows[i].start) \cap Samples(speech)
    /\ \A i, j \in DOMAIN windows : i < j => windows[i].start < windows[j].start
    /\ stage = "embed" =>
          /\ gridStart % WindowShift = 0
          /\ \A i \in DOMAIN windows : windows[i].start < gridStart
    /\ stage = "embed" \/ Clustering =>
          \A time \in 0..(total - 1) :
             time % WindowShift = 0 /\ (time < gridStart \/ stage # "embed") /\ MeetsSpeech(time) =>
                \E i \in DOMAIN windows : windows[i].start = time

(* The cells: each boundary but the first and the last is the midpoint of  *)
(* two windows, or the end of the audio.                                   *)
Between(k) == Least(Midpoint(windows[k - 1].start, windows[k].start), total)

Dividing == stage \in {"divide", "project", "scan", "cut", "projected"}
Projecting == stage \in {"project", "scan", "cut", "projected"}

CellsInv ==
    /\ stage = "clustered" \/ Dividing =>
          Len(labels) = Len(windows) /\ (Dividing => windows # <<>>)
    /\ Dividing =>
          /\ boundaries # <<>> /\ boundaries[1] = 0
          /\ \A k \in DOMAIN boundaries :
                k > 1 /\ k <= Len(windows) => boundaries[k] = Between(k)
          /\ stage = "divide" => Len(boundaries) <= Len(windows)
    /\ Projecting =>
          /\ Len(boundaries) = Len(windows) + 1
          /\ boundaries[Len(windows) + 1] = total

InCellOf(i, x) == boundaries[i] <= x /\ x < boundaries[i + 1]

Speaks(x, label) == \E i \in DOMAIN windows : InCellOf(i, x) /\ label = labels[i]

(* The runs of the island in hand cut it up, as far as it was scanned and  *)
(* not yet cut into regions.                                               *)
ScannedTo == IF runs = <<>> THEN speech[island].start ELSE runs[Len(runs)].stop

RunsInv ==
    stage \in {"scan", "cut"} =>
       /\ island \in DOMAIN speech
       /\ \A k \in DOMAIN runs :
             /\ speech[island].start <= runs[k].start /\ runs[k].stop <= speech[island].stop
             /\ runs[k].start < runs[k].stop
             /\ \A x \in Nat : Within(runs[k], x) => Speaks(x, runs[k].label)
             /\ k + 1 \in DOMAIN runs => runs[k + 1].start = runs[k].stop
       /\ stage = "scan" =>
             /\ cell \in 1..(Len(labels) + 1)
             /\ runs # <<>> => runs[1].start = speech[island].start
             /\ ScannedTo = Greatest(speech[island].start, Least(speech[island].stop, boundaries[cell]))
       /\ stage = "cut" => runs # <<>> /\ runs[Len(runs)].stop = speech[island].stop

(* The regions are the speech in front of the island, or of the run, that  *)
(* is in hand.                                                             *)
Projected(x) ==
    \E i \in DOMAIN speech :
       /\ Within(speech[i], x)
       /\ i < island \/ (i = island /\ stage = "cut" /\ x < runs[1].start)

Frontier == IF stage = "cut" THEN runs[1].start ELSE speech[island].start

RegionsInv ==
    Projecting =>
       /\ island \in 1..(Len(speech) + 1)
       /\ stage = "projected" => island = Len(speech) + 1
       /\ Apart(regions)
       /\ island <= Len(speech) => \A r \in DOMAIN regions : regions[r].stop <= Frontier
       /\ \A x \in Nat : InSpans(regions, x) <=> Projected(x)
       /\ \A r \in DOMAIN regions :
             /\ regions[r].stop - regions[r].start \in 1..RegionMax
             /\ \E j \in DOMAIN speech : /\ speech[j].start <= regions[r].start
                                         /\ regions[r].stop <= speech[j].stop
             /\ \A x \in Nat : Within(regions[r], x) => Speaks(x, regions[r].label)

DiarizationInv ==
    /\ DiarizationTypeOK
    /\ stage # "failed"
    /\ InputInv /\ StartInv
    /\ CursorsInv /\ PiecesInv
    /\ WindowsInv /\ CellsInv
    /\ RunsInv /\ RegionsInv
    /\ RegionsPartitionSpeech /\ NearestWindowSpeaks

-----------------------------------------------------------------------------
(* What every nonempty set of naturals has, and what it gives: induction   *)
(* from some number on.                                                    *)
LEMMA LeastExists ==
  ASSUME NEW T, T \subseteq Nat, T # {}
  PROVE  \E x \in T : \A y \in T : x <= y
  <1>1. PICK x \in T : \A y \in T : <<y, x>> \notin OpToRel(<, Nat)
    BY NatLessThanWellFounded, WFMin
  <1>2. \A y \in T : ~(y < x)
    BY <1>1 DEF OpToRel
  <1> QED BY <1>2

LEMMA Climb ==
  ASSUME NEW T, NEW m \in Nat, m \in T, \A n \in Nat : n >= m /\ n \in T => n + 1 \in T
  PROVE  \A n \in Nat : n >= m => n \in T
  <1> SUFFICES ASSUME NEW b \in Nat, b >= m, b \notin T PROVE FALSE
    OBVIOUS
  <1> DEFINE U == {n \in Nat : n >= m /\ n \notin T}
  <1>1. PICK u \in U : \A y \in U : u <= y
    <2>1. U \subseteq Nat /\ U # {}
      OBVIOUS
    <2> HIDE DEF U
    <2> QED BY <2>1, LeastExists
  <1>2. u # m /\ u \in Nat /\ u >= m
    OBVIOUS
  <1>3. u - 1 \in Nat /\ u - 1 >= m /\ u - 1 \in T
    BY <1>1, <1>2
  <1> QED BY <1>1, <1>2, <1>3

(* The sizes are positive, and windows leave no gap.                       *)
LEMMA WindowSizes ==
  /\ WindowMax \in Nat \ {0} /\ WindowShift \in Nat \ {0} /\ RegionMax \in Nat \ {0}
  /\ WindowShift <= WindowMax
  /\ Totals \subseteq Nat
  BY WindowAssumption

(* The grid of the windows: every time has a grid point at most one shift  *)
(* before it, and between one grid point and the next there is none.       *)
LEMMA GridQuotient ==
  ASSUME NEW x \in Nat, NEW w \in Nat \ {0}, x % w = 0
  PROVE  \E k \in Nat : x = k * w
  OBVIOUS

LEMMA GridProduct ==
  ASSUME NEW k \in Nat, NEW w \in Nat \ {0}
  PROVE  (k * w) % w = 0 /\ k * w \in Nat
  OBVIOUS

LEMMA Rest ==
  ASSUME NEW x \in Nat, NEW w \in Nat \ {0}
  PROVE  x - (x % w) \in Nat /\ (x - (x % w)) % w = 0 /\ x % w \in 0..(w - 1)
  OBVIOUS

LEMMA GridOrder ==
  ASSUME NEW j \in Nat, NEW k \in Nat, NEW w \in Nat \ {0}, j * w < k * w
  PROVE  j < k
  OBVIOUS

LEMMA GridBefore ==
  ASSUME NEW x \in Nat
  PROVE  \E g \in Nat : g <= x /\ x < g + WindowShift /\ g % WindowShift = 0
  <1> DEFINE g == x - (x % WindowShift)
  <1>1. g \in Nat /\ g % WindowShift = 0 /\ x % WindowShift \in 0..(WindowShift - 1)
    BY WindowSizes, Rest
  <1>2. g <= x /\ x < g + WindowShift
    BY <1>1, WindowSizes
  <1> HIDE DEF g
  <1> QED BY <1>1, <1>2

LEMMA NextOnGrid ==
  ASSUME NEW x \in Nat, x % WindowShift = 0
  PROVE  (x + WindowShift) % WindowShift = 0
  <1>1. PICK k \in Nat : x = k * WindowShift
    BY WindowSizes, GridQuotient
  <1>2. x + WindowShift = (k + 1) * WindowShift /\ k + 1 \in Nat /\ x + WindowShift \in Nat
    BY <1>1, WindowSizes
  <1>3. ((k + 1) * WindowShift) % WindowShift = 0
    BY <1>2, WindowSizes, GridProduct
  <1> QED BY <1>2, <1>3

LEMMA NoneBetween ==
  ASSUME NEW x \in Nat, NEW y \in Nat, x % WindowShift = 0, y % WindowShift = 0, x < y
  PROVE  x + WindowShift <= y
  <1>1. PICK j \in Nat : x = j * WindowShift
    BY WindowSizes, GridQuotient
  <1>2. PICK k \in Nat : y = k * WindowShift
    BY WindowSizes, GridQuotient
  <1>3. j < k
    BY <1>1, <1>2, WindowSizes, GridOrder
  <1>4. k - j - 1 \in Nat /\ k = j + 1 + (k - j - 1)
    BY <1>3
  <1>5. PICK d \in Nat : k = j + 1 + d
    BY <1>4
  <1>6. k * WindowShift = j * WindowShift + WindowShift + d * WindowShift
    BY <1>5, WindowSizes
  <1>7. d * WindowShift \in Nat /\ j * WindowShift \in Nat
    BY WindowSizes, GridProduct
  <1> QED BY <1>1, <1>2, <1>6, <1>7, WindowSizes

(* Spans each of which starts where the one before it ends, or later, lie  *)
(* apart.                                                                  *)
LEMMA OrderedApart ==
  ASSUME NEW list \in Seq(Span), NEW n \in Nat, Ordered(list, n)
  PROVE  Apart(list)
  <1>0. DOMAIN list = 1..Len(list) /\ Len(list) \in Nat
    OBVIOUS
  <1>1. ASSUME NEW i \in DOMAIN list
        PROVE  /\ i \in Nat /\ list[i].start \in Nat /\ list[i].stop \in Nat
               /\ list[i].start < list[i].stop
               /\ i > 1 => i - 1 \in DOMAIN list /\ list[i - 1].stop <= list[i].start
    <2>1. list[i] \in Span /\ i \in 1..Len(list)
      BY <1>0
    <2>2. list[i].start < list[i].stop
      BY DEF Ordered
    <2>3. i > 1 => list[i].start >= list[i - 1].stop
      BY <2>1 DEF Ordered
    <2>4. i > 1 => i - 1 \in DOMAIN list /\ list[i - 1] \in Span
      BY <1>0, <2>1
    <2> QED BY <2>1, <2>2, <2>3, <2>4 DEF Span
  <1>2. ASSUME NEW i \in DOMAIN list, NEW j \in DOMAIN list, i < j
        PROVE  list[i].stop <= list[j].start
    <2> DEFINE T == {k \in Nat : k \in DOMAIN list => list[i].stop <= list[k].start}
    <2>1. i + 1 \in T
      BY <1>1
    <2>2. ASSUME NEW k \in Nat, k >= i + 1, k \in T
          PROVE  k + 1 \in T
      <3> SUFFICES ASSUME k + 1 \in DOMAIN list
                   PROVE  list[i].stop <= list[k + 1].start
        BY <2>2
      <3>1. k \in DOMAIN list
        BY <1>0, <1>1, <2>2
      <3>2. list[i].stop <= list[k].start
        BY <2>2, <3>1
      <3>3. list[k].start < list[k].stop /\ k + 1 > 1 /\ (k + 1) - 1 = k
        BY <1>1, <2>2, <3>1
      <3>4. list[k].stop <= list[k + 1].start
        BY <1>1, <3>3
      <3> QED BY <1>1, <3>1, <3>2, <3>3, <3>4
    <2>3. i \in Nat /\ i + 1 \in Nat /\ j \in Nat /\ j >= i + 1
      BY <1>1, <1>2
    <2> HIDE DEF T
    <2>4. j \in T
      BY <2>1, <2>2, <2>3, Climb
    <2> QED BY <2>3, <2>4 DEF T
  <1> QED BY <1>1, <1>2 DEF Apart

(* A sample is in spans when it is in one of them.                        *)
LEMMA SampleParts ==
  ASSUME NEW list, \A i \in DOMAIN list : list[i].start \in Nat /\ list[i].stop \in Nat
  PROVE  /\ Samples(list) \subseteq Nat
         /\ \A x \in Nat : x \in Samples(list) <=> InSpans(list, x)
  BY DEF Samples, InSpans, Within

LEMMA SpanTypes ==
  ASSUME NEW list \in Seq(Span)
  PROVE  /\ DOMAIN list = 1..Len(list) /\ Len(list) \in Nat
         /\ \A i \in DOMAIN list :
               i \in Nat /\ list[i] \in Span /\ list[i].start \in Nat /\ list[i].stop \in Nat
  <1>1. DOMAIN list = 1..Len(list) /\ Len(list) \in Nat
    OBVIOUS
  <1>2. \A i \in DOMAIN list : i \in Nat /\ list[i] \in Span
    BY <1>1
  <1> QED BY <1>1, <1>2 DEF Span

LEMMA InitSpans ==
  ASSUME NEW n \in Nat, NEW list \in OrderedSpans(n)
  PROVE  list \in Seq(Span) /\ Ordered(list, n)
  <1>1. PICK m \in 0..MaxSpans : list \in [1..m -> SpansIn(n)]
    BY DEF OrderedSpans
  <1>2. SpansIn(n) \subseteq Span
    BY DEF SpansIn, Span
  <1>3. m \in Nat
    BY <1>1
  <1>4. list \in [1..m -> Span]
    BY <1>1, <1>2
  <1>5. list \in Seq(Span)
    BY <1>3, <1>4
  <1> QED BY <1>5 DEF OrderedSpans

LEMMA InitDiarizationInv == DiarizationInit => DiarizationInv
  <1> SUFFICES ASSUME DiarizationInit PROVE DiarizationInv
    OBVIOUS
  <1> USE DEF DiarizationInit, Unstarted
  <1>1. total \in Nat /\ speech \in Seq(Span) /\ sources \in Seq(Span)
    BY WindowSizes, InitSpans
  <1>2. DiarizationTypeOK
    <2>1. <<0>> \in Seq(Nat)
      OBVIOUS
    <2>2. \A S : <<>> \in Seq(S)
      OBVIOUS
    <2> QED BY <1>1, <2>1, <2>2 DEF DiarizationTypeOK
  <1>3. Ordered(speech, total) /\ Ordered(sources, total)
    BY DEF Collected
  <1>4. Apart(speech) /\ Apart(sources)
    BY <1>1, <1>3, OrderedApart
  <1>5. /\ \A i \in DOMAIN speech : speech[i].start \in Nat /\ speech[i].stop \in Nat
        /\ \A i \in DOMAIN sources : sources[i].start \in Nat /\ sources[i].stop \in Nat
    BY <1>1, SpanTypes
  <1>6. InputInv
    <2>1. \A x \in Nat : InSpans(speech, x) => InSpans(sources, x)
      <3>1. \A x \in Nat : x \in Samples(speech) <=> InSpans(speech, x)
        BY <1>5, SampleParts
      <3>2. \A x \in Nat : x \in Samples(sources) <=> InSpans(sources, x)
        BY <1>5, SampleParts
      <3> QED BY <3>1, <3>2 DEF Collected
    <2>2. ASSUME NEW j \in DOMAIN sources
          PROVE  \E i \in DOMAIN speech, x \in Nat : Within(speech[i], x) /\ Within(sources[j], x)
      <3> DEFINE s == sources[j]
      <3>1. PICK x : x \in Samples(<<s>>) /\ x \in Samples(speech)
        BY <2>2 DEF Collected
      <3>2. s.start \in Nat /\ s.stop \in Nat
        BY <1>5
      <3> HIDE DEF s
      <3>3. DOMAIN <<s>> = 1..1 /\ \A i \in 1..1 : <<s>>[i] = s
        OBVIOUS
      <3>4. x \in s.start..(s.stop - 1)
        BY <3>1, <3>3 DEF Samples
      <3>5. x \in Nat /\ Within(s, x)
        BY <3>2, <3>4 DEF Within
      <3>6. InSpans(speech, x)
        BY <1>5, <3>1, <3>5, SampleParts
      <3> QED BY <3>5, <3>6 DEF InSpans, s
    <2>3. \A i \in DOMAIN speech : speech[i].stop <= total
      BY <1>3 DEF Ordered
    <2> QED BY <1>3, <1>4, <2>1, <2>2, <2>3 DEF InputInv
  <1>7. CursorsInv /\ PiecesInv /\ WindowsInv /\ CellsInv /\ RunsInv /\ RegionsInv
    BY DEF CursorsInv, PiecesInv, WindowsInv, CellsInv, RunsInv, RegionsInv, Clustering, Dividing,
       Projecting
  <1>8. StartInv
    BY DEF StartInv
  <1>9. stage # "failed" /\ RegionsPartitionSpeech /\ NearestWindowSpeaks
    BY DEF RegionsPartitionSpeech, NearestWindowSpeaks
  <1> QED BY <1>2, <1>6, <1>7, <1>8, <1>9 DEF DiarizationInv

-----------------------------------------------------------------------------
(* What a step leaves as it was.                                           *)
LEMMA InputKept == InputInv /\ UNCHANGED input => InputInv'
  BY DEF input, InputInv, Apart, Ordered, InSpans, Within

LEMMA MeetsKept == UNCHANGED input => \A time : MeetsSpeech(time)' <=> MeetsSpeech(time)
  BY DEF input, MeetsSpeech, First, WindowStop

LEMMA WindowsKept ==
  ASSUME WindowsInv, UNCHANGED <<input, windows, gridStart>>,
         stage' = "embed" <=> stage = "embed", Clustering' => Clustering
  PROVE  WindowsInv'
  <1>1. \A time : MeetsSpeech(time)' <=> MeetsSpeech(time)
    BY MeetsKept
  <1>2. \A time : InWindow(time)' = InWindow(time)
    BY DEF InWindow, WindowStop, input
  <1>3. Samples(speech)' = Samples(speech) /\ total' = total
    BY DEF input
  <1> QED BY <1>1, <1>2, <1>3 DEF WindowsInv

LEMMA CellsKept ==
  ASSUME CellsInv, UNCHANGED <<input, windows, labels, boundaries>>,
         Dividing' => Dividing, Projecting' => Projecting,
         stage' = "divide" => stage = "divide", stage' = "clustered" => stage = "clustered"
  PROVE  CellsInv'
  <1>1. \A k : Between(k)' = Between(k)
    BY DEF Between, input
  <1>2. labels' = labels /\ windows' = windows /\ boundaries' = boundaries /\ total' = total
    BY DEF input
  <1>3. Dividing' => \A k \in DOMAIN boundaries : k > 1 /\ k <= Len(windows) => boundaries[k] = Between(k)'
    BY <1>1 DEF CellsInv
  <1>4. Dividing' => /\ boundaries # <<>> /\ boundaries[1] = 0
                     /\ stage' = "divide" => Len(boundaries) <= Len(windows)
    BY DEF CellsInv
  <1>5. Projecting' => Len(boundaries) = Len(windows) + 1 /\ boundaries[Len(windows) + 1] = total
    BY DEF CellsInv
  <1>6. stage' = "clustered" \/ Dividing' =>
           Len(labels) = Len(windows) /\ (Dividing' => windows # <<>>)
    BY DEF CellsInv
  <1> QED BY <1>2, <1>3, <1>4, <1>5, <1>6 DEF CellsInv

LEMMA NotYet ==
  ASSUME stage' \notin {"embedded", "clustered", "divide", "project", "scan", "cut",
                        "projected", "done"}
  PROVE  /\ CellsInv' /\ RunsInv' /\ RegionsInv'
         /\ RegionsPartitionSpeech' /\ NearestWindowSpeaks'
  BY DEF CellsInv, RunsInv, RegionsInv, Dividing, Projecting, RegionsPartitionSpeech,
     NearestWindowSpeaks

(* Without windows yet, nothing is to be said of them.                     *)
LEMMA NoWindowsYet ==
  ASSUME windows' = <<>>, stage' \notin {"embed"}, ~Clustering'
  PROVE  WindowsInv'
  BY DEF WindowsInv

-----------------------------------------------------------------------------
(* The merge.                                                              *)
LEMMA BeginMergeKeeps == DiarizationInv /\ BeginMerge => DiarizationInv'
  <1> SUFFICES ASSUME DiarizationInv, BeginMerge PROVE DiarizationInv'
    OBVIOUS
  <1> USE DEF Enters, merging, embedding, projecting
  <1>0. DiarizationTypeOK /\ InputInv /\ StartInv
    BY DEF DiarizationInv
  <1>1. stage = "collected" /\ input' = input /\ InputInv'
    BY <1>0, InputKept DEF BeginMerge
  <1>2. /\ island' = 1 /\ segment' = 1 /\ met' = FALSE /\ pieces' = <<>>
        /\ windows' = <<>> /\ gridStart' = 0 /\ boundaries' = <<0>> /\ regions' = <<>>
        /\ UNCHANGED <<total, speech, sources, labels, cell, runs>>
    BY <1>0, <1>1 DEF BeginMerge, StartInv, input
  <1>3. CASE speech = <<>>
    <2>1. sources = <<>>
      <3>1. DOMAIN speech = {}
        BY <1>3
      <3>2. DOMAIN sources = {}
        BY <1>0, <3>1 DEF InputInv
      <3> QED BY <1>0, <3>2 DEF DiarizationTypeOK
    <2>2. stage' = "done" /\ covered' = covered
      BY <1>3, <2>1 DEF BeginMerge
    <2>3. DiarizationTypeOK'
      BY <1>0, <1>2, <2>2 DEF DiarizationTypeOK, StartInv, BeginMerge
    <2>4. WindowsInv' /\ StartInv' /\ CursorsInv' /\ PiecesInv' /\ CellsInv' /\ RunsInv' /\ RegionsInv'
      BY <1>2, <2>2, NoWindowsYet
         DEF StartInv, CursorsInv, PiecesInv, CellsInv, RunsInv, RegionsInv, Clustering, Dividing,
            Projecting
    <2>5. RegionsPartitionSpeech' /\ NearestWindowSpeaks'
      <3>1. DOMAIN regions' = {} /\ DOMAIN speech' = {}
        BY <1>2, <1>3
      <3>2. Samples(regions)' = {} /\ Samples(speech)' = {}
        BY <3>1 DEF Samples
      <3> QED BY <3>1, <3>2 DEF RegionsPartitionSpeech, NearestWindowSpeaks
    <2> QED BY <1>1, <2>2, <2>3, <2>4, <2>5 DEF DiarizationInv
  <1>4. CASE speech # <<>>
    <2>1. stage' = "merge" /\ covered' = speech[1].start
      BY <1>0, <1>4 DEF BeginMerge, InputInv
    <2>2. 1 \in DOMAIN speech /\ speech[1].start \in Nat /\ speech[1].stop \in Nat
          /\ Len(speech) \in Nat /\ Len(speech) >= 1 /\ Len(sources) \in Nat
          /\ speech[1].start < speech[1].stop
      <3>1. Len(speech) \in Nat /\ Len(speech) # 0 /\ Len(sources) \in Nat
        BY <1>0, <1>4 DEF DiarizationTypeOK
      <3>2. 1 \in DOMAIN speech
        BY <1>0, <3>1, SpanTypes DEF DiarizationTypeOK
      <3> QED BY <1>0, <3>1, <3>2, SpanTypes DEF DiarizationTypeOK, InputInv, Apart
    <2>3. DiarizationTypeOK'
      BY <1>0, <1>2, <2>1, <2>2 DEF DiarizationTypeOK, StartInv, BeginMerge
    <2>4. StartInv'
      BY <1>2, <1>4, <2>1 DEF StartInv
    <2>5. CursorsInv'
      BY <1>2, <2>1, <2>2 DEF CursorsInv, Within
    <2>6. PiecesInv'
      <3>1. DOMAIN pieces' = {}
        BY <1>2
      <3>2. \A x \in Nat : ~Merged(x)'
        BY <1>2, <2>1, <2>2 DEF Merged, Within
      <3> QED BY <2>1, <3>1, <3>2 DEF PiecesInv, Apart, InSpans
    <2>7. WindowsInv'
      BY <1>2, <2>1, NoWindowsYet DEF Clustering
    <2> QED BY <1>1, <2>1, <2>3, <2>4, <2>5, <2>6, <2>7, NotYet DEF DiarizationInv
  <1> QED BY <1>3, <1>4

(* The spans in hand, and what is known of all of them.                   *)
LEMMA SpeechParts ==
  ASSUME DiarizationTypeOK, InputInv
  PROVE  /\ DOMAIN speech = 1..Len(speech) /\ Len(speech) \in Nat
         /\ DOMAIN sources = 1..Len(sources) /\ Len(sources) \in Nat
         /\ \A i \in 1..Len(speech) :
               /\ speech[i].start \in Nat /\ speech[i].stop \in Nat
               /\ speech[i].start < speech[i].stop /\ speech[i].stop <= total
         /\ \A i \in 1..Len(sources) :
               /\ sources[i].start \in Nat /\ sources[i].stop \in Nat
               /\ sources[i].start < sources[i].stop
         /\ \A i, j \in 1..Len(speech) : i < j => speech[i].stop <= speech[j].start
         /\ \A i, j \in 1..Len(sources) : i < j => sources[i].stop <= sources[j].start
  <1>1. speech \in Seq(Span) /\ sources \in Seq(Span)
    BY DEF DiarizationTypeOK
  <1> QED BY <1>1, SpanTypes DEF InputInv, Apart

(* What covered_until points at is in a segment that was not passed.       *)
LEMMA CoveredInSource ==
  ASSUME DiarizationInv, stage = "merge", island <= Len(speech)
  PROVE  \E j \in segment..Len(sources) : Within(sources[j], covered)
  <1>0. DiarizationTypeOK /\ InputInv /\ CursorsInv
    BY DEF DiarizationInv
  <1>1. /\ covered \in Nat /\ segment \in Nat /\ Within(speech[island], covered)
        /\ island \in DOMAIN speech
        /\ \A j \in 1..(segment - 1) : sources[j].stop <= covered
    BY <1>0, SpeechParts DEF CursorsInv, DiarizationTypeOK
  <1>2. InSpans(speech, covered)
    BY <1>1 DEF InSpans
  <1>3. InSpans(sources, covered)
    BY <1>0, <1>1, <1>2 DEF InputInv
  <1>4. PICK j \in DOMAIN sources : Within(sources[j], covered)
    BY <1>3 DEF InSpans
  <1>5. j \in 1..Len(sources) /\ sources[j].stop \in Nat /\ Len(sources) \in Nat
    BY <1>0, <1>4, SpeechParts
  <1>6. ~(j \in 1..(segment - 1))
    BY <1>1, <1>4, <1>5 DEF Within
  <1> QED BY <1>1, <1>4, <1>5, <1>6

(* The checks of the merge pass: no island is left behind uncovered, no    *)
(* segment without speech, and the next piece starts where it must.        *)
LEMMA MergeFits ==
  ASSUME DiarizationInv, Merging
  PROVE  /\ sources[segment].start < speech[island].stop
         /\ sources[segment].stop <= speech[island].start => met /\ covered = speech[island].start
         /\ sources[segment].stop > speech[island].start => Shared.start = covered
  <1>0. DiarizationTypeOK /\ InputInv /\ CursorsInv /\ stage = "merge"
        /\ island <= Len(speech) /\ segment <= Len(sources)
    BY DEF DiarizationInv, Merging
  <1> DEFINE a == speech[island]
             b == sources[segment]
  <1>1. /\ island \in 1..Len(speech) /\ segment \in 1..Len(sources) /\ covered \in Nat
        /\ met \in BOOLEAN
        /\ Within(a, covered)
        /\ \A j \in 1..(segment - 1) : sources[j].stop <= covered
        /\ covered = a.start \/ (segment > 1 /\ covered = sources[segment - 1].stop)
        /\ \A i \in 1..(island - 1) : speech[i].stop <= IF met THEN b.stop ELSE b.start
    BY <1>0, SpeechParts DEF CursorsInv, DiarizationTypeOK
  <1>2. PICK j \in segment..Len(sources) : Within(sources[j], covered)
    BY <1>0, CoveredInSource DEF DiarizationInv
  <1>3. /\ a.start \in Nat /\ a.stop \in Nat /\ a.start < a.stop
        /\ b.start \in Nat /\ b.stop \in Nat /\ b.start < b.stop
        /\ j \in 1..Len(sources) /\ sources[j].start \in Nat /\ sources[j].stop \in Nat
        /\ segment < j => b.stop <= sources[j].start
    <2>1. segment \in Nat /\ Len(sources) \in Nat
      BY <1>0, <1>1, SpeechParts
    <2> QED BY <1>0, <1>1, <1>2, <2>1, SpeechParts
  <1>4. segment > 1 => sources[segment - 1].stop \in Nat /\ sources[segment - 1].stop <= b.start
    <2>1. segment > 1 => segment - 1 \in 1..Len(sources) /\ segment - 1 < segment
      BY <1>0, <1>1, SpeechParts
    <2> QED BY <1>0, <1>1, <2>1, SpeechParts
  <1>5. segment \in Nat /\ j \in Nat /\ (segment = j \/ segment < j)
    BY <1>0, <1>1, <1>2, SpeechParts
  <1>6. b.start < a.stop
    <2>1. covered < a.stop /\ sources[j].start <= covered
      BY <1>1, <1>2 DEF Within
    <2>2. b.start <= sources[j].start
      BY <1>3, <1>5
    <2> QED BY <1>1, <1>3, <2>1, <2>2
  <1>7. b.stop <= a.start => met
    <2> SUFFICES ASSUME b.stop <= a.start, met = FALSE PROVE FALSE
      BY <1>1
    <2>1. PICK i \in DOMAIN speech, x \in Nat : Within(speech[i], x) /\ Within(b, x)
      BY <1>0, <1>1, SpeechParts DEF InputInv
    <2>2. i \in 1..Len(speech) /\ speech[i].start \in Nat /\ speech[i].stop \in Nat
          /\ i \in Nat /\ island \in Nat
      BY <1>0, <1>1, <2>1, SpeechParts
    <2>3. CASE i < island
      <3>1. speech[i].stop <= b.start
        BY <1>1, <2>2, <2>3
      <3> QED BY <1>3, <2>1, <2>2, <3>1 DEF Within
    <2>4. CASE i >= island
      <3>1. a.start <= speech[i].start
        <4>1. CASE i = island
          BY <1>3, <4>1
        <4>2. CASE i > island
          <5>1. a.stop <= speech[i].start
            BY <1>0, <1>1, <2>2, <4>2, SpeechParts
          <5> QED BY <1>3, <2>2, <5>1
        <4> QED BY <2>2, <2>4, <4>1, <4>2
      <3> QED BY <1>3, <2>1, <2>2, <3>1 DEF Within
    <2> QED BY <2>2, <2>3, <2>4
  <1>8. b.stop <= a.start => covered = a.start
    <2> SUFFICES ASSUME b.stop <= a.start, covered # a.start PROVE FALSE
      OBVIOUS
    <2>1. segment > 1 /\ covered = sources[segment - 1].stop
      BY <1>1
    <2>2. covered <= b.start
      BY <1>4, <2>1
    <2>3. a.start <= covered
      BY <1>1 DEF Within
    <2> QED BY <1>1, <1>3, <2>2, <2>3
  <1>9. ASSUME b.stop > a.start
        PROVE  Shared.start = covered
    <2>1. Shared.start = Greatest(a.start, b.start)
      BY DEF Shared
    <2>2. CASE covered = a.start
      <3>1. b.start <= a.start
        <4>1. j = segment
          BY <1>2, <1>3, <1>5, <1>9, <2>2 DEF Within
        <4> QED BY <1>2, <1>3, <2>2, <4>1 DEF Within
      <3> QED BY <1>3, <2>1, <2>2, <3>1 DEF Greatest
    <2>3. CASE covered # a.start
      <3>1. segment > 1 /\ covered = sources[segment - 1].stop /\ covered <= b.start /\ a.start <= covered
        BY <1>1, <1>4, <2>3 DEF Within
      <3>2. j = segment
        BY <1>1, <1>2, <1>3, <1>5, <3>1 DEF Within
      <3>3. b.start <= covered
        BY <1>2, <3>2 DEF Within
      <3>4. b.start = covered
        BY <1>1, <1>3, <3>1, <3>3
      <3> QED BY <1>1, <1>3, <2>1, <3>1, <3>4 DEF Greatest
    <2> QED BY <2>2, <2>3
  <1> QED BY <1>3, <1>6, <1>7, <1>8, <1>9

(* A round of the merge passes a segment that lies before the island in    *)
(* hand, or it adds the samples the two have in common and moves on from   *)
(* the one that ends first.                                                *)
SegmentPassed ==
    /\ sources[segment].stop <= speech[island].start
    /\ segment' = segment + 1 /\ met' = FALSE /\ covered = speech[island].start
    /\ UNCHANGED <<island, covered, pieces>>

PieceAdded ==
    /\ sources[segment].stop > speech[island].start
    /\ Shared.start = covered
    /\ Shared.stop \in Nat /\ covered < Shared.stop
    /\ Shared.stop <= speech[island].stop /\ Shared.stop <= sources[segment].stop
    /\ pieces' = Append(pieces, Shared)

IslandLeft ==
    /\ Shared.stop = speech[island].stop
    /\ island' = island + 1
    /\ covered' \in Nat
    /\ island < Len(speech) => covered' = speech[island + 1].start

SegmentEnds ==
    /\ PieceAdded
    /\ sources[segment].stop < speech[island].stop
    /\ segment' = segment + 1 /\ met' = FALSE
    /\ island' = island /\ covered' = sources[segment].stop
    /\ Shared.stop = sources[segment].stop

BothEnd ==
    /\ PieceAdded
    /\ sources[segment].stop = speech[island].stop
    /\ segment' = segment + 1 /\ met' = FALSE
    /\ IslandLeft

IslandEnds ==
    /\ PieceAdded
    /\ sources[segment].stop > speech[island].stop
    /\ segment' = segment /\ met' = TRUE
    /\ IslandLeft

LEMMA MergeMoves ==
  ASSUME DiarizationInv, Merge
  PROVE  /\ stage' = "merge" /\ input' = input
         /\ UNCHANGED <<embedding, labels, projecting>>
         /\ island \in 1..Len(speech) /\ segment \in 1..Len(sources)
         /\ SegmentPassed \/ SegmentEnds \/ BothEnd \/ IslandEnds
  <1>0. DiarizationTypeOK /\ InputInv /\ CursorsInv /\ Merging
    BY DEF DiarizationInv, Merge
  <1>1. /\ sources[segment].start < speech[island].stop
        /\ sources[segment].stop <= speech[island].start => met /\ covered = speech[island].start
        /\ sources[segment].stop > speech[island].start => Shared.start = covered
    BY <1>0, MergeFits
  <1>2. /\ island \in 1..Len(speech) /\ segment \in 1..Len(sources) /\ covered \in Nat
        /\ stage = "merge" /\ Within(speech[island], covered)
        /\ Len(speech) \in Nat /\ Len(sources) \in Nat
    BY <1>0, SpeechParts DEF CursorsInv, Merging, DiarizationTypeOK
  <1>3. /\ speech[island].start \in Nat /\ speech[island].stop \in Nat
        /\ speech[island].start < speech[island].stop
        /\ sources[segment].start \in Nat /\ sources[segment].stop \in Nat
        /\ sources[segment].start < sources[segment].stop
    BY <1>0, <1>2, SpeechParts
  <1>4. island < Len(speech) => speech[island + 1].start \in Nat
    <2>1. island < Len(speech) => island + 1 \in 1..Len(speech)
      BY <1>2
    <2> QED BY <1>0, <2>1, SpeechParts
  <1>5. UNCHANGED <<input, embedding, labels, projecting>>
    BY DEF Merge
  <1>6. CASE sources[segment].stop <= speech[island].start
    <2>1. PassSegment
      BY <1>6 DEF Merge
    <2>2. /\ segment' = segment + 1 /\ met' = FALSE /\ stage' = stage
          /\ UNCHANGED <<island, covered, pieces>>
      BY <1>1, <1>6, <2>1 DEF PassSegment, NextSegment
    <2> QED BY <1>1, <1>2, <1>5, <1>6, <2>2 DEF SegmentPassed
  <1>7. CASE sources[segment].stop > speech[island].start
    <2>1. Overlap
      BY <1>1, <1>3, <1>7 DEF Merge
    <2>2. Shared.start = covered
      BY <1>1, <1>7
    <2>3. Shared.stop = Least(speech[island].stop, sources[segment].stop)
          /\ Shared.start = Greatest(speech[island].start, sources[segment].start)
      BY DEF Shared
    <2>4. /\ Shared.stop \in Nat
          /\ Shared.stop <= speech[island].stop /\ Shared.stop <= sources[segment].stop
          /\ Shared.stop \in {speech[island].stop, sources[segment].stop}
      BY <1>3, <2>3 DEF Least
    <2>5. covered < Shared.stop
      <3>1. covered < speech[island].stop
        BY <1>2 DEF Within
      <3>2. covered < sources[segment].stop
        BY <1>3, <1>7, <2>2, <2>3 DEF Greatest
      <3> QED BY <2>4, <3>1, <3>2
    <2>6. /\ pieces' = Append(pieces, Shared) /\ stage' = stage
          /\ IF sources[segment].stop <= speech[island].stop
               THEN segment' = segment + 1 /\ met' = FALSE ELSE met' = TRUE /\ segment' = segment
          /\ IF speech[island].stop <= sources[segment].stop
               THEN NextIsland(Shared.stop) ELSE covered' = Shared.stop /\ island' = island
      BY <2>1, <2>2 DEF Overlap, NextSegment
    <2>7. NextIsland(Shared.stop) /\ Shared.stop = speech[island].stop => IslandLeft
      BY <1>4, <2>4 DEF NextIsland, IslandLeft
    <2>12. PieceAdded
      BY <1>7, <2>2, <2>4, <2>5, <2>6 DEF PieceAdded
    <2>8. CASE sources[segment].stop < speech[island].stop
      <3>1. /\ sources[segment].stop <= speech[island].stop
            /\ ~(speech[island].stop <= sources[segment].stop)
            /\ Shared.stop = sources[segment].stop
        BY <1>3, <2>3, <2>8 DEF Least
      <3>2. SegmentEnds
        BY <2>6, <2>8, <2>12, <3>1 DEF SegmentEnds
      <3> QED BY <1>2, <1>5, <2>6, <3>2
    <2>9. CASE sources[segment].stop = speech[island].stop
      <3>1. /\ sources[segment].stop <= speech[island].stop
            /\ speech[island].stop <= sources[segment].stop
            /\ Shared.stop = speech[island].stop
        BY <1>3, <2>3, <2>9 DEF Least
      <3>2. BothEnd
        BY <2>6, <2>7, <2>9, <2>12, <3>1 DEF BothEnd
      <3> QED BY <1>2, <1>5, <2>6, <3>2
    <2>10. CASE sources[segment].stop > speech[island].stop
      <3>1. /\ ~(sources[segment].stop <= speech[island].stop)
            /\ speech[island].stop <= sources[segment].stop
            /\ Shared.stop = speech[island].stop
        BY <1>3, <2>3, <2>10 DEF Least
      <3>2. IslandEnds
        BY <2>6, <2>7, <2>10, <2>12, <3>1 DEF IslandEnds
      <3> QED BY <1>2, <1>5, <2>6, <3>2
    <2>11. \/ sources[segment].stop < speech[island].stop
           \/ sources[segment].stop = speech[island].stop
           \/ sources[segment].stop > speech[island].stop
      BY <1>3
    <2> QED BY <2>8, <2>9, <2>10, <2>11, Zenon
  <1>8. \/ sources[segment].stop <= speech[island].start
        \/ sources[segment].stop > speech[island].start
    BY <1>3
  <1> QED BY <1>6, <1>7, <1>8, Zenon

LEMMA MergeKeepsCursors ==
  ASSUME DiarizationInv, Merge
  PROVE  CursorsInv'
  <1>0. DiarizationTypeOK /\ InputInv /\ CursorsInv /\ stage = "merge"
    BY DEF DiarizationInv, Merge, Merging
  <1>1. /\ stage' = "merge" /\ speech' = speech /\ sources' = sources
        /\ island \in 1..Len(speech) /\ segment \in 1..Len(sources)
    BY MergeMoves DEF input
  <1>2. /\ Len(speech) \in Nat /\ Len(sources) \in Nat /\ island \in Nat /\ segment \in Nat
        /\ covered \in Nat /\ met \in BOOLEAN
    BY <1>0, SpeechParts DEF DiarizationTypeOK
  <1>3. /\ Within(speech[island], covered)
        /\ \A j \in 1..(segment - 1) : sources[j].stop <= covered
        /\ \A i \in 1..(island - 1) :
              speech[i].stop <= IF met THEN sources[segment].stop ELSE sources[segment].start
    BY <1>0, <1>1, <1>2 DEF CursorsInv
  <1>4. /\ \A i \in 1..Len(speech) :
              speech[i].start \in Nat /\ speech[i].stop \in Nat /\ speech[i].start < speech[i].stop
        /\ \A i \in 1..Len(sources) :
              sources[i].start \in Nat /\ sources[i].stop \in Nat /\ sources[i].start < sources[i].stop
        /\ \A i, j \in 1..Len(speech) : i < j => speech[i].stop <= speech[j].start
        /\ \A i, j \in 1..Len(sources) : i < j => sources[i].stop <= sources[j].start
    BY <1>0, SpeechParts
  <1>5. /\ island < Len(speech) =>
              island + 1 \in 1..Len(speech) /\ speech[island].stop <= speech[island + 1].start
        /\ segment < Len(sources) =>
              segment + 1 \in 1..Len(sources) /\ sources[segment].stop <= sources[segment + 1].start
    <2>1. island < Len(speech) => island + 1 \in 1..Len(speech) /\ island < island + 1
      BY <1>2
    <2>2. segment < Len(sources) => segment + 1 \in 1..Len(sources) /\ segment < segment + 1
      BY <1>2
    <2> QED BY <1>1, <1>4, <2>1, <2>2
  <1>6. \A i \in 1..(island - 1) : i \in 1..Len(speech) /\ speech[i].stop <= sources[segment].stop
    <2>1. \A i \in 1..(island - 1) : i \in 1..Len(speech)
      BY <1>1, <1>2
    <2> QED BY <1>1, <1>2, <1>3, <1>4, <2>1
  <1>7. \A j \in 1..(segment - 1) : j \in 1..Len(sources) /\ sources[j].stop <= sources[segment].stop
    <2>1. \A j \in 1..(segment - 1) : j \in 1..Len(sources) /\ j < segment
      BY <1>1, <1>2
    <2>2. ASSUME NEW j \in 1..Len(sources), j < segment
          PROVE  sources[j].stop <= sources[segment].stop
      <3>1. sources[j].stop <= sources[segment].start
        BY <1>1, <1>4, <2>2
      <3> QED BY <1>1, <1>4, <3>1
    <2> QED BY <2>1, <2>2
  (* The island stays in hand.                                             *)
  <1>8. CASE island' = island
    <2>1. /\ segment' = segment + 1 /\ met' = FALSE
          /\ \/ covered' = covered /\ covered = speech[island].start
                                   /\ sources[segment].stop <= covered
             \/ /\ covered' = sources[segment].stop /\ covered < covered'
                /\ covered' < speech[island].stop
      <3>1. CASE SegmentPassed
        BY <3>1 DEF SegmentPassed
      <3>2. CASE SegmentEnds
        BY <3>2 DEF SegmentEnds, PieceAdded
      <3>3. ~IslandLeft
        BY <1>2, <1>8 DEF IslandLeft
      <3> QED BY <3>1, <3>2, <3>3, MergeMoves, Zenon DEF BothEnd, IslandEnds
    <2>2. Within(speech[island], covered')
      BY <1>1, <1>2, <1>3, <1>4, <2>1 DEF Within
    <2>3. sources[segment].stop <= covered' /\ sources[segment].stop \in Nat /\ covered' \in Nat
      BY <1>1, <1>2, <1>4, <2>1
    <2>4. \A j \in 1..segment : sources[j].stop <= covered'
      <3>1. \A j \in 1..(segment - 1) : sources[j].stop <= covered'
        BY <1>4, <1>7, <2>3
      <3>2. \A j \in 1..segment : j = segment \/ j \in 1..(segment - 1)
        BY <1>2
      <3> QED BY <2>3, <3>1, <3>2
    <2>5. \/ covered' = speech[island].start
          \/ covered' = sources[segment].stop
      BY <2>1
    <2>6. segment < Len(sources) =>
            \A i \in 1..(island - 1) : speech[i].stop <= sources[segment + 1].start
      BY <1>1, <1>4, <1>5, <1>6
    <2>7. segment' > 1 /\ segment' - 1 = segment /\ segment' \in 1..(Len(sources) + 1)
          /\ (segment' <= Len(sources) <=> segment < Len(sources))
      BY <1>1, <1>2, <2>1
    <2>8. island' \in 1..(Len(speech) + 1)
      BY <1>1, <1>2, <1>8
    <2> QED BY <1>1, <1>8, <2>1, <2>2, <2>4, <2>5, <2>6, <2>7, <2>8 DEF CursorsInv
  (* The island is passed, and perhaps the segment.                        *)
  <1>9. CASE island' = island + 1
    <2>1. /\ sources[segment].stop >= speech[island].stop
          /\ covered' \in Nat
          /\ island < Len(speech) => covered' = speech[island + 1].start
          /\ \/ segment' = segment + 1 /\ met' = FALSE /\ sources[segment].stop = speech[island].stop
             \/ segment' = segment /\ met' = TRUE
      <3>1. CASE BothEnd
        BY <1>1, <1>4, <3>1 DEF BothEnd, IslandLeft
      <3>2. CASE IslandEnds
        BY <1>1, <1>4, <3>2 DEF IslandEnds, IslandLeft
      <3>3. ~SegmentPassed /\ ~SegmentEnds
        BY <1>2, <1>9 DEF SegmentPassed, SegmentEnds
      <3> QED BY <3>1, <3>2, <3>3, MergeMoves, Zenon
    <2>2. island < Len(speech) => Within(speech[island + 1], covered')
      BY <1>4, <1>5, <2>1 DEF Within
    <2>3. island < Len(speech) => \A j \in 1..(segment' - 1) : sources[j].stop <= covered'
      <3> SUFFICES ASSUME island < Len(speech), NEW j \in 1..(segment' - 1)
                   PROVE  sources[j].stop <= covered'
        OBVIOUS
      <3>1. covered' = speech[island + 1].start /\ speech[island].stop <= covered'
            /\ covered <= speech[island].stop
        BY <1>1, <1>2, <1>3, <1>4, <1>5, <2>1 DEF Within
      <3>2. CASE j \in 1..(segment - 1)
        <4>1. sources[j].stop <= covered /\ sources[j].stop \in Nat
          BY <1>3, <1>4, <1>7, <3>2
        <4>2. speech[island].stop \in Nat
          BY <1>1, <1>4
        <4> QED BY <1>2, <2>1, <3>1, <4>1, <4>2
      <3>3. CASE j = segment
        <4>1. sources[segment].stop = speech[island].stop
          BY <1>2, <2>1, <3>3
        <4> QED BY <3>1, <3>3, <4>1
      <3>4. j \in 1..(segment - 1) \/ j = segment
        BY <1>2, <2>1
      <3> QED BY <3>2, <3>3, <3>4
    <2>4. segment' <= Len(sources) =>
            \A i \in 1..island :
               speech[i].stop <= IF met' THEN sources[segment'].stop ELSE sources[segment'].start
      <3>1. \A i \in 1..island : speech[i].stop \in Nat /\ speech[i].stop <= sources[segment].stop
        <4>1. \A i \in 1..island : i = island \/ i \in 1..(island - 1)
          BY <1>2
        <4> QED BY <1>1, <1>4, <1>6, <2>1, <4>1
      <3>2. CASE segment' = segment + 1 /\ met' = FALSE
        BY <1>1, <1>2, <1>4, <1>5, <3>1, <3>2
      <3>3. CASE segment' = segment /\ met' = TRUE
        BY <3>1, <3>3
      <3> QED BY <2>1, <3>2, <3>3
    <2>5. /\ island' \in 1..(Len(speech) + 1) /\ island' - 1 = island
          /\ segment' \in 1..(Len(sources) + 1)
          /\ (island' <= Len(speech) <=> island < Len(speech))
      BY <1>1, <1>2, <1>9, <2>1
    <2> QED BY <1>1, <1>9, <2>1, <2>2, <2>3, <2>4, <2>5 DEF CursorsInv
  <1>10. island' = island \/ island' = island + 1
    BY MergeMoves DEF SegmentPassed, SegmentEnds, BothEnd, IslandEnds, IslandLeft
  <1> QED BY <1>8, <1>9, <1>10

LEMMA MergeKeepsPieces ==
  ASSUME DiarizationInv, Merge
  PROVE  PiecesInv'
  <1>0. DiarizationTypeOK /\ InputInv /\ CursorsInv /\ PiecesInv /\ stage = "merge"
    BY DEF DiarizationInv, Merge, Merging
  <1>1. /\ stage' = "merge" /\ speech' = speech /\ sources' = sources
        /\ island \in 1..Len(speech) /\ segment \in 1..Len(sources)
    BY MergeMoves DEF input
  <1>2. /\ Len(speech) \in Nat /\ island \in Nat /\ covered \in Nat /\ pieces \in Seq(Span)
        /\ DOMAIN speech = 1..Len(speech)
    BY <1>0, SpeechParts DEF DiarizationTypeOK
  <1>3. /\ Apart(pieces)
        /\ \A k \in DOMAIN pieces : pieces[k].stop <= covered
        /\ \A x \in Nat : InSpans(pieces, x) <=> Merged(x)
        /\ Within(speech[island], covered)
    BY <1>0, <1>1, <1>2 DEF PiecesInv, CursorsInv
  <1>4. /\ speech[island].start \in Nat /\ speech[island].stop \in Nat
        /\ island < Len(speech) => /\ speech[island + 1].start \in Nat
                                   /\ speech[island].stop <= speech[island + 1].start
    <2>1. island < Len(speech) => island + 1 \in 1..Len(speech) /\ island < island + 1
      BY <1>2
    <2> QED BY <1>0, <1>1, <1>2, <2>1, SpeechParts
  <1>5. CASE UNCHANGED <<island, covered, pieces>>
    BY <1>1, <1>3, <1>5 DEF PiecesInv, Apart, InSpans, Merged
  <1>6. CASE pieces' = Append(pieces, Shared)
    <2> DEFINE p == Shared
               n == Len(pieces)
    <2>1. /\ pieces' # pieces
          /\ n \in Nat /\ DOMAIN pieces = 1..n /\ DOMAIN pieces' = 1..(n + 1)
          /\ \A k \in 1..n : pieces'[k] = pieces[k] /\ pieces[k].start \in Nat /\ pieces[k].stop \in Nat
          /\ pieces'[n + 1] = p
      <3>1. n \in Nat /\ DOMAIN pieces = 1..n /\ \A k \in 1..n : pieces[k] \in Span
        BY <1>2
      <3>2. DOMAIN pieces' = 1..(n + 1) /\ pieces'[n + 1] = p /\ \A k \in 1..n : pieces'[k] = pieces[k]
        BY <1>2, <1>6
      <3>3. pieces' # pieces
        <4>1. n + 1 \in DOMAIN pieces' /\ n + 1 \notin DOMAIN pieces
          BY <3>1, <3>2
        <4> QED BY <4>1
      <3> QED BY <3>1, <3>2, <3>3 DEF Span
    <2>2. /\ p.start = covered /\ p.stop \in Nat /\ covered < p.stop /\ p.stop <= speech[island].stop
          /\ \/ island' = island /\ covered' = p.stop
             \/ /\ island' = island + 1 /\ p.stop = speech[island].stop /\ covered' \in Nat
                /\ island < Len(speech) => covered' = speech[island + 1].start
      <3>1. ~SegmentPassed
        BY <2>1 DEF SegmentPassed
      <3>2. CASE SegmentEnds
        BY <3>2 DEF SegmentEnds, PieceAdded
      <3>3. CASE BothEnd
        BY <3>3 DEF BothEnd, PieceAdded, IslandLeft
      <3>4. CASE IslandEnds
        BY <3>4 DEF IslandEnds, PieceAdded, IslandLeft
      <3> QED BY <3>1, <3>2, <3>3, <3>4, MergeMoves
    <2> HIDE DEF p, n
    <2>3. Apart(pieces)'
      <3>1. \A i \in DOMAIN pieces' : pieces'[i].start < pieces'[i].stop
        BY <1>3, <2>1, <2>2 DEF Apart
      <3>2. ASSUME NEW i \in DOMAIN pieces', NEW j \in DOMAIN pieces', i < j
            PROVE  pieces'[i].stop <= pieces'[j].start
        <4>1. i \in 1..n
          BY <2>1, <3>2
        <4>2. CASE j \in 1..n
          BY <1>3, <2>1, <3>2, <4>1, <4>2 DEF Apart
        <4>3. CASE j = n + 1
          BY <1>3, <2>1, <2>2, <4>1, <4>3
        <4>4. j \in 1..n \/ j = n + 1
          BY <2>1
        <4> QED BY <4>2, <4>3, <4>4
      <3> QED BY <3>1, <3>2 DEF Apart
    <2>4. island' <= Len(speech) => \A k \in DOMAIN pieces' : pieces'[k].stop <= covered'
      <3> SUFFICES ASSUME island' <= Len(speech), NEW k \in DOMAIN pieces'
                   PROVE  pieces'[k].stop <= covered'
        OBVIOUS
      <3>1. p.stop <= covered'
        BY <1>2, <1>4, <2>2
      <3>2. covered' \in Nat
        BY <2>2
      <3>3. k \in 1..n \/ k = n + 1
        BY <2>1
      <3> QED BY <1>2, <1>3, <2>1, <2>2, <3>1, <3>2, <3>3
    <2>5. \A x \in Nat : InSpans(pieces, x)' <=> InSpans(pieces, x) \/ Within(p, x)
      BY <2>1 DEF InSpans, Within
    <2>6. \A x \in Nat : Merged(x)' <=> Merged(x) \/ Within(p, x)
      <3> SUFFICES ASSUME NEW x \in Nat PROVE Merged(x)' <=> Merged(x) \/ Within(p, x)
        OBVIOUS
      <3> DEFINE Before(i, a, c) == Within(speech[i], x) /\ (i < a \/ (i = a /\ x < c))
      <3>1. Merged(x) <=> \E i \in 1..Len(speech) : Before(i, island, covered)
        BY <1>2 DEF Merged
      <3>2. Merged(x)' <=> \E i \in 1..Len(speech) : Before(i, island', covered')
        BY <1>1, <1>2 DEF Merged, Within
      <3>3. \A i \in 1..Len(speech) : i # island =>
               (Before(i, island', covered') <=> Before(i, island, covered))
        <4> SUFFICES ASSUME NEW i \in 1..Len(speech), i # island
                     PROVE  Before(i, island', covered') <=> Before(i, island, covered)
          OBVIOUS
        <4>1. i \in Nat
          BY <1>2
        <4>2. CASE island' = island
          BY <1>2, <4>1, <4>2
        <4>3. CASE island' = island + 1
          <5>1. i < island' <=> i < island
            BY <1>2, <4>1, <4>3
          <5>2. i = island' => ~(Within(speech[i], x) /\ x < covered')
            <6> SUFFICES ASSUME i = island + 1 PROVE ~(Within(speech[i], x) /\ x < covered')
              BY <4>3
            <6>1. island < Len(speech)
              BY <1>2
            <6>2. covered' = speech[i].start /\ covered' \in Nat
              BY <1>2, <2>2, <4>3, <6>1
            <6> QED BY <6>2 DEF Within
          <5> QED BY <5>1, <5>2
        <4> QED BY <2>2, <4>2, <4>3
      <3>4. Before(island, island, covered) <=> Within(speech[island], x) /\ x < covered
        BY <1>2
      <3>5. Before(island, island', covered') <=> Within(speech[island], x) /\ x < p.stop
        <4>1. CASE island' = island /\ covered' = p.stop
          BY <1>2, <4>1
        <4>2. CASE island' = island + 1 /\ p.stop = speech[island].stop
          BY <1>2, <4>2 DEF Within
        <4> QED BY <2>2, <4>1, <4>2
      <3>6. Within(speech[island], x) /\ x < p.stop
               <=> (Within(speech[island], x) /\ x < covered) \/ Within(p, x)
        BY <1>2, <1>3, <1>4, <2>2 DEF Within
      <3> HIDE DEF Before
      <3> QED BY <1>1, <3>1, <3>2, <3>3, <3>4, <3>5, <3>6
    <2> QED BY <1>1, <1>3, <2>3, <2>4, <2>5, <2>6 DEF PiecesInv
  <1>7. UNCHANGED <<island, covered, pieces>> \/ pieces' = Append(pieces, Shared)
    BY MergeMoves DEF SegmentPassed, SegmentEnds, BothEnd, IslandEnds, PieceAdded
  <1> QED BY <1>5, <1>6, <1>7

LEMMA MergeKeeps == DiarizationInv /\ Merge => DiarizationInv'
  <1> SUFFICES ASSUME DiarizationInv, Merge PROVE DiarizationInv'
    OBVIOUS
  <1>0. DiarizationTypeOK /\ InputInv /\ StartInv /\ WindowsInv /\ stage = "merge"
    BY DEF DiarizationInv, Merge, Merging
  <1>1. stage' = "merge" /\ input' = input /\ UNCHANGED <<embedding, labels, projecting>>
    BY MergeMoves
  <1>2. UNCHANGED <<total, speech, sources, gridStart, windows, labels, boundaries, cell, runs, regions>>
    BY <1>1 DEF input, embedding, projecting
  <1>3. DiarizationTypeOK'
    <2>1. /\ island \in Nat /\ segment \in Nat /\ covered \in Nat /\ met \in BOOLEAN
          /\ pieces \in Seq(Span)
          /\ \A i \in 1..Len(sources) : sources[i].stop \in Nat
      BY <1>0, SpeechParts DEF DiarizationTypeOK
    <2>2. segment \in 1..Len(sources) /\ sources[segment].stop \in Nat
      BY <2>1, MergeMoves
    <2>4. ASSUME PieceAdded
          PROVE  pieces' \in Seq(Span)
      <3>1. Shared = [start |-> Shared.start, stop |-> Shared.stop]
        BY DEF Shared
      <3>2. Shared \in Span
        BY <2>1, <2>4, <3>1 DEF PieceAdded, Span
      <3> QED BY <2>1, <2>4, <3>2 DEF PieceAdded
    <2>5. /\ island' \in Nat /\ segment' \in Nat /\ covered' \in Nat /\ met' \in BOOLEAN
          /\ pieces' \in Seq(Span)
      <3>0. FALSE \in BOOLEAN /\ segment + 1 \in Nat /\ island + 1 \in Nat
        BY <2>1
      <3>1. CASE SegmentPassed
        BY <2>1, <3>0, <3>1, Zenon DEF SegmentPassed
      <3>2. CASE SegmentEnds
        BY <2>1, <2>2, <2>4, <3>0, <3>2, Zenon DEF SegmentEnds
      <3>3. CASE BothEnd
        BY <2>1, <2>4, <3>0, <3>3, Zenon DEF BothEnd, IslandLeft
      <3>4. CASE IslandEnds
        BY <2>1, <2>4, <3>4 DEF IslandEnds, IslandLeft
      <3> QED BY <3>1, <3>2, <3>3, <3>4, MergeMoves
    <2> QED BY <1>0, <1>1, <1>2, <2>5 DEF DiarizationTypeOK
  <1>4. InputInv'
    BY <1>0, <1>1, InputKept
  <1>5. StartInv'
    BY <1>0, <1>1, <1>2 DEF StartInv
  <1>6. WindowsInv'
    <2>1. stage' = "embed" <=> stage = "embed"
      BY <1>0, <1>1
    <2>2. Clustering' => Clustering
      BY <1>0, <1>1 DEF Clustering
    <2> QED BY <1>0, <1>1, <1>2, <2>1, <2>2, WindowsKept
  <1>7. CursorsInv' /\ PiecesInv'
    BY MergeKeepsCursors, MergeKeepsPieces
  <1>8. CellsInv' /\ RunsInv' /\ RegionsInv' /\ RegionsPartitionSpeech' /\ NearestWindowSpeaks'
    BY <1>1, NotYet
  <1> QED BY <1>1, <1>3, <1>4, <1>5, <1>6, <1>7, <1>8 DEF DiarizationInv

(* The merge ends with every island covered and every segment passed.      *)
LEMMA EndMergeFits ==
  ASSUME DiarizationInv, EndMerge
  PROVE  island = Len(speech) + 1 /\ stage' = "embed" /\ segment' \in Nat
  <1>0. DiarizationTypeOK /\ InputInv /\ CursorsInv /\ stage = "merge" /\ ~Merging
    BY DEF DiarizationInv, EndMerge
  <1>1. /\ Len(speech) \in Nat /\ Len(sources) \in Nat /\ island \in Nat /\ segment \in Nat
        /\ island \in 1..(Len(speech) + 1) /\ segment \in 1..(Len(sources) + 1)
        /\ met \in BOOLEAN
    BY <1>0, SpeechParts DEF DiarizationTypeOK, CursorsInv
  <1>2. island = Len(speech) + 1
    <2> SUFFICES ASSUME island <= Len(speech) PROVE FALSE
      BY <1>1
    <2>1. ~(segment <= Len(sources))
      BY <1>0 DEF Merging
    <2>2. segment..Len(sources) = {}
      BY <1>1, <2>1
    <2> QED BY <1>0, <2>2, CoveredInSource DEF DiarizationInv
  <1>3. ASSUME segment <= Len(sources)
        PROVE  met = TRUE /\ segment = Len(sources)
    <2>1. \A i \in 1..Len(speech) :
             speech[i].stop <= IF met THEN sources[segment].stop ELSE sources[segment].start
      BY <1>0, <1>1, <1>2, <1>3 DEF CursorsInv
    <2>2. ASSUME NEW j \in 1..Len(sources)
          PROVE  \E i \in 1..Len(speech) : sources[j].start < speech[i].stop
      <3>1. PICK i \in DOMAIN speech, x \in Nat : Within(speech[i], x) /\ Within(sources[j], x)
        BY <1>0, SpeechParts DEF InputInv
      <3>2. /\ i \in 1..Len(speech) /\ speech[i].stop \in Nat /\ sources[j].start \in Nat
        BY <1>0, <3>1, SpeechParts
      <3>3. sources[j].start < speech[i].stop
        BY <3>1, <3>2 DEF Within
      <3> QED BY <3>2, <3>3
    <2>3. segment \in 1..Len(sources) /\ sources[segment].start \in Nat /\ sources[segment].stop \in Nat
          /\ \A i \in 1..Len(speech) : speech[i].stop \in Nat
      <3>1. segment \in 1..Len(sources)
        BY <1>1, <1>3
      <3> QED BY <1>0, <3>1, SpeechParts
    <2>4. met = TRUE
      <3> SUFFICES ASSUME met = FALSE PROVE FALSE
        BY <1>1
      <3>1. PICK i \in 1..Len(speech) : sources[segment].start < speech[i].stop
        BY <2>2, <2>3
      <3>2. speech[i].stop <= sources[segment].start
        BY <2>1
      <3> QED BY <2>3, <3>1, <3>2
    <2>5. segment = Len(sources)
      <3> SUFFICES ASSUME segment < Len(sources) PROVE FALSE
        BY <1>1, <1>3
      <3>1. segment + 1 \in 1..Len(sources) /\ segment < segment + 1
        BY <1>1
      <3>2. sources[segment].stop <= sources[segment + 1].start /\ sources[segment + 1].start \in Nat
        BY <1>0, <2>3, <3>1, SpeechParts
      <3>3. PICK i \in 1..Len(speech) : sources[segment + 1].start < speech[i].stop
        BY <2>2, <3>1
      <3>4. speech[i].stop <= sources[segment].stop
        BY <2>1, <2>4
      <3> QED BY <2>3, <3>2, <3>3, <3>4
    <2> QED BY <2>4, <2>5
  <1>4. segment' = IF segment <= Len(sources) /\ met THEN segment + 1 ELSE segment
    BY DEF EndMerge
  <1>5. segment' = Len(sources) + 1
    <2>1. CASE segment <= Len(sources)
      <3>1. segment' = segment + 1
        BY <1>3, <1>4, <2>1
      <3> QED BY <1>3, <2>1, <3>1
    <2>2. CASE ~(segment <= Len(sources))
      <3>1. segment' = segment
        BY <1>4, <2>2
      <3> QED BY <1>1, <2>2, <3>1
    <2> QED BY <2>1, <2>2
  <1>6. stage' = "embed"
    BY <1>2, <1>5 DEF EndMerge, Enters
  <1> QED BY <1>1, <1>2, <1>5, <1>6

LEMMA EndMergeKeeps == DiarizationInv /\ EndMerge => DiarizationInv'
  <1> SUFFICES ASSUME DiarizationInv, EndMerge PROVE DiarizationInv'
    OBVIOUS
  <1>0. DiarizationTypeOK /\ InputInv /\ StartInv /\ PiecesInv /\ stage = "merge"
    BY DEF DiarizationInv, EndMerge
  <1>1. stage' = "embed" /\ island = Len(speech) + 1 /\ segment' \in Nat
    BY EndMergeFits
  <1>2. /\ input' = input
        /\ UNCHANGED <<total, speech, sources, island, covered, met, pieces, gridStart, windows,
                       labels, boundaries, cell, runs, regions>>
    BY DEF EndMerge, input, embedding, projecting
  <1>3. DiarizationTypeOK'
    BY <1>0, <1>1, <1>2 DEF DiarizationTypeOK
  <1>4. InputInv' /\ StartInv'
    BY <1>0, <1>1, <1>2, InputKept DEF StartInv
  <1>5. CursorsInv'
    BY <1>1 DEF CursorsInv
  <1>6. PiecesInv'
    <2>1. \A x \in Nat : Merged(x) <=> InSpans(speech, x)
      <3>1. \A i \in DOMAIN speech : i < island
        BY <1>0, <1>1, SpeechParts
      <3> QED BY <3>1 DEF Merged, InSpans
    <2>2. Apart(pieces) /\ \A x \in Nat : InSpans(pieces, x) <=> InSpans(speech, x)
      BY <1>0, <2>1 DEF PiecesInv
    <2> QED BY <1>1, <1>2, <2>2 DEF PiecesInv, Apart, InSpans
  <1>7. WindowsInv'
    <2>1. windows' = <<>> /\ gridStart' = 0 /\ DOMAIN windows' = {} /\ stage' = "embed" /\ ~Clustering'
      BY <1>0, <1>1, <1>2 DEF StartInv, Clustering
    <2>2. 0 % WindowShift = 0
      BY WindowSizes, GridProduct
    <2>3. \A time \in 0..(total' - 1) : ~(time < gridStart')
      BY <2>1
    <2> QED BY <2>1, <2>2, <2>3 DEF WindowsInv
  <1>8. CellsInv' /\ RunsInv' /\ RegionsInv' /\ RegionsPartitionSpeech' /\ NearestWindowSpeaks'
    BY <1>1, NotYet
  <1> QED BY <1>1, <1>3, <1>4, <1>5, <1>6, <1>7, <1>8 DEF DiarizationInv

-----------------------------------------------------------------------------
(* The windows.                                                            *)
(* Among spans that lie apart, the cursor finds the first that ends after  *)
(* a time, if there is one.                                                *)
LEMMA FirstExists ==
  ASSUME NEW list \in Seq(Span), NEW time \in Nat, NEW k \in DOMAIN list, list[k].stop > time
  PROVE  \E i \in 1..k : First(list, time, i)
  <1>1. DOMAIN list = 1..Len(list) /\ Len(list) \in Nat /\ k \in Nat
        /\ \A i \in DOMAIN list : i \in Nat /\ list[i].stop \in Nat
    BY SpanTypes
  <1> DEFINE T == {i \in DOMAIN list : list[i].stop > time}
  <1>2. PICK i \in T : \A j \in T : i <= j
    <2>1. T \subseteq Nat /\ T # {}
      BY <1>1
    <2> HIDE DEF T
    <2> QED BY <2>1, LeastExists
  <1>3. i \in 1..k
    BY <1>1, <1>2
  <1>4. ASSUME NEW j \in 1..(i - 1)
        PROVE  list[j].stop <= time
    <2>1. j \in DOMAIN list /\ ~(i <= j)
      BY <1>1, <1>3
    <2>2. j \notin T
      BY <1>2, <2>1
    <2> QED BY <1>1, <2>1, <2>2
  <1> QED BY <1>2, <1>3, <1>4 DEF First

(* A window that begins within the audio meets speech if there is a sample *)
(* of speech in it.                                                        *)
LEMMA WindowParts ==
  ASSUME total \in Nat, NEW time \in Nat
  PROVE  /\ WindowStop(time) \in Nat /\ WindowStop(time) <= total
         /\ WindowStop(time) <= time + WindowMax
         /\ \A x \in Nat : x < total /\ x < time + WindowMax => x < WindowStop(time)
         /\ \A x \in Nat : x \in InWindow(time) <=> time <= x /\ x < WindowStop(time)
         /\ InWindow(time) \subseteq Nat
  <1>1. WindowStop(time) \in Nat /\ WindowStop(time) <= total /\ WindowStop(time) <= time + WindowMax
        /\ \A x \in Nat : x < total /\ x < time + WindowMax => x < WindowStop(time)
    BY WindowSizes DEF WindowStop, Least
  <1> QED BY <1>1 DEF InWindow

LEMMA MeetsMeans ==
  ASSUME DiarizationTypeOK, InputInv, NEW time \in Nat, time < total
  PROVE  MeetsSpeech(time) <=> \E x \in Nat : x \in InWindow(time) /\ InSpans(speech, x)
  <1>0. /\ speech \in Seq(Span) /\ total \in Nat
        /\ \A i \in DOMAIN speech :
              /\ i \in Nat /\ speech[i].start \in Nat /\ speech[i].stop \in Nat
              /\ speech[i].start < speech[i].stop
        /\ \A i, j \in DOMAIN speech : i < j => speech[i].stop <= speech[j].start
    BY SpanTypes DEF DiarizationTypeOK, InputInv, Apart
  <1>1. ASSUME MeetsSpeech(time)
        PROVE  \E x \in Nat : x \in InWindow(time) /\ InSpans(speech, x)
    <2>1. PICK i \in DOMAIN speech : speech[i].stop > time /\ speech[i].start < WindowStop(time)
      BY <1>1 DEF MeetsSpeech, First
    <2> DEFINE x == Greatest(time, speech[i].start)
    <2>2. x \in Nat /\ x >= time /\ x >= speech[i].start /\ x \in {time, speech[i].start}
      BY <1>0 DEF Greatest
    <2> HIDE DEF x
    <2>3. time < WindowStop(time)
      BY <1>0, WindowSizes, WindowParts
    <2>4. x < WindowStop(time) /\ x < speech[i].stop
      BY <1>0, <2>1, <2>2, <2>3
    <2>5. x \in InWindow(time)
      BY <1>0, <2>2, <2>4, WindowParts
    <2>6. InSpans(speech, x)
      BY <2>1, <2>2, <2>4 DEF InSpans, Within
    <2> QED BY <2>2, <2>5, <2>6
  <1>2. ASSUME NEW x \in Nat, x \in InWindow(time), InSpans(speech, x)
        PROVE  MeetsSpeech(time)
    <2>1. PICK k \in DOMAIN speech : Within(speech[k], x)
      BY <1>2 DEF InSpans
    <2>2. time <= x /\ x < WindowStop(time) /\ WindowStop(time) \in Nat
      BY <1>0, <1>2, WindowParts
    <2>3. speech[k].stop > time
      BY <1>0, <2>1, <2>2 DEF Within
    <2>4. PICK i \in 1..k : First(speech, time, i)
      BY <1>0, <2>3, FirstExists
    <2>5. i \in DOMAIN speech /\ (i = k \/ i < k)
      BY <1>0, <2>4 DEF First
    <2>6. speech[i].start <= speech[k].start
      BY <1>0, <2>5
    <2>7. speech[i].start < WindowStop(time)
      BY <1>0, <2>1, <2>2, <2>5, <2>6 DEF Within
    <2> QED BY <2>4, <2>5, <2>7 DEF MeetsSpeech
  <1> QED BY <1>1, <1>2

(* When the pieces are the speech, a window is filled with the speech that *)
(* lies in it, and nothing else.                                           *)
LEMMA SpeechInMeans ==
  ASSUME DiarizationTypeOK, Apart(pieces), \A x \in Nat : InSpans(pieces, x) <=> InSpans(speech, x),
         NEW time \in Nat
  PROVE  SpeechIn(time) = InWindow(time) \cap Samples(speech)
  <1>0. /\ pieces \in Seq(Span) /\ total \in Nat
        /\ \A i \in DOMAIN pieces : i \in Nat /\ pieces[i].start \in Nat /\ pieces[i].stop \in Nat
        /\ \A i \in DOMAIN pieces : pieces[i].start < pieces[i].stop
        /\ \A i, j \in DOMAIN pieces : i < j => pieces[i].stop <= pieces[j].start
        /\ DOMAIN pieces = 1..Len(pieces) /\ Len(pieces) \in Nat
    BY SpanTypes DEF DiarizationTypeOK, Apart
  <1>1. \A x \in Nat : x \in Samples(speech) <=> InSpans(speech, x)
    BY SampleParts, SpanTypes DEF DiarizationTypeOK
  <1>2. WindowStop(time) \in Nat /\ \A x \in Nat : x \in InWindow(time) <=> time <= x /\ x < WindowStop(time)
    BY <1>0, WindowParts
  <1>3. InWindow(time) \subseteq Nat
    BY <1>0, WindowParts
  <1>4. ASSUME NEW x \in SpeechIn(time)
        PROVE  x \in InWindow(time) /\ x \in Samples(speech)
    <2>1. PICK k \in DOMAIN pieces :
             x \in Greatest(time, pieces[k].start)..(Least(WindowStop(time), pieces[k].stop) - 1)
      BY <1>4 DEF SpeechIn
    <2>2. x \in Nat /\ time <= x /\ pieces[k].start <= x /\ x < WindowStop(time) /\ x < pieces[k].stop
      <3> DEFINE from == Greatest(time, pieces[k].start)
                 to == Least(WindowStop(time), pieces[k].stop)
      <3>1. from \in Nat /\ time <= from /\ pieces[k].start <= from
        BY <1>0 DEF Greatest
      <3>2. to \in Nat /\ to <= WindowStop(time) /\ to <= pieces[k].stop
        BY <1>0, <1>2 DEF Least
      <3>3. x \in from..(to - 1)
        BY <2>1
      <3> HIDE DEF from, to
      <3> QED BY <1>0, <1>2, <3>1, <3>2, <3>3
    <2>3. InSpans(pieces, x)
      BY <2>2 DEF InSpans, Within
    <2> QED BY <1>1, <1>2, <2>2, <2>3
  <1>5. ASSUME NEW x \in InWindow(time), x \in Samples(speech)
        PROVE  x \in SpeechIn(time)
    <2>1. x \in Nat /\ time <= x /\ x < WindowStop(time)
      BY <1>2, <1>3
    <2>2. PICK k \in DOMAIN pieces : Within(pieces[k], x)
      BY <1>1, <1>5, <2>1 DEF InSpans
    <2>3. pieces[k].start <= x /\ x < pieces[k].stop /\ pieces[k].stop > time
      BY <1>0, <2>1, <2>2 DEF Within
    <2>4. PICK i \in 1..k : First(pieces, time, i)
      BY <1>0, <2>3, FirstExists
    <2>5. \A j \in i..k : pieces[j].start < WindowStop(time)
      <3> SUFFICES ASSUME NEW j \in i..k PROVE pieces[j].start < WindowStop(time)
        OBVIOUS
      <3>1. j \in DOMAIN pieces /\ (j = k \/ j < k)
        BY <1>0, <2>4
      <3>2. pieces[j].start <= pieces[k].start
        BY <1>0, <3>1
      <3> QED BY <1>0, <1>2, <2>1, <2>3, <3>1, <3>2
    <2>6. Scanned(time, k)
      BY <2>4, <2>5 DEF Scanned
    <2>7. x \in Greatest(time, pieces[k].start)..(Least(WindowStop(time), pieces[k].stop) - 1)
      BY <1>0, <1>2, <2>1, <2>3 DEF Greatest, Least
    <2> QED BY <2>6, <2>7 DEF SpeechIn
  <1> QED BY <1>4, <1>5

LEMMA EmbedWindowKeeps == DiarizationInv /\ EmbedWindow => DiarizationInv'
  <1> SUFFICES ASSUME DiarizationInv, EmbedWindow PROVE DiarizationInv'
    OBVIOUS
  <1>0. /\ DiarizationTypeOK /\ InputInv /\ StartInv /\ PiecesInv /\ WindowsInv /\ stage = "embed"
        /\ gridStart < total
    BY DEF DiarizationInv, EmbedWindow
  <1>1. stage' = "embed" /\ gridStart' = gridStart + WindowShift
    BY <1>0 DEF EmbedWindow
  <1>2. /\ input' = input
        /\ UNCHANGED <<total, speech, sources, island, segment, covered, met, pieces,
                       labels, boundaries, cell, runs, regions>>
    BY DEF EmbedWindow, input, merging, projecting
  <1> DEFINE w == [start |-> gridStart, speech |-> SpeechIn(gridStart)]
             n == Len(windows)
  <1>3. /\ total \in Nat /\ gridStart \in Nat /\ gridStart' \in Nat
        /\ windows \in Seq(Window)
        /\ WindowShift \in Nat \ {0}
    BY <1>0, <1>1, WindowSizes DEF DiarizationTypeOK
  <1>4. /\ n \in Nat /\ DOMAIN windows = 1..n
        /\ \A i \in 1..n : windows[i].start \in Nat
    <2>1. n \in Nat /\ DOMAIN windows = 1..n
      BY <1>3
    <2>2. \A i \in 1..n : windows[i] \in Window
      BY <1>3, <2>1
    <2> QED BY <2>1, <2>2 DEF Window
  <1>5. SpeechIn(gridStart) = InWindow(gridStart) \cap Samples(speech)
    BY <1>0, <1>3, SpeechInMeans DEF PiecesInv
  <1>6. w \in Window
    <2>1. InWindow(gridStart) \subseteq Nat
      BY <1>3, WindowParts
    <2> QED BY <1>3, <1>5, <2>1 DEF Window
  <1>7. windows' \in Seq(Window)
    <2>1. windows' = Append(windows, w) \/ windows' = windows
      BY DEF EmbedWindow
    <2> HIDE DEF w
    <2> QED BY <1>3, <1>6, <2>1
  <1>8. DiarizationTypeOK'
    BY <1>0, <1>1, <1>2, <1>3, <1>7 DEF DiarizationTypeOK
  <1>9. InputInv' /\ StartInv'
    BY <1>0, <1>1, <1>2, InputKept DEF StartInv
  <1>10. CursorsInv' /\ PiecesInv'
    BY <1>0, <1>1, <1>2 DEF CursorsInv, PiecesInv, Apart, InSpans
  <1>11. WindowsInv'
    <2>1. /\ w.start = gridStart /\ w.speech = InWindow(w.start) \cap Samples(speech)
      BY <1>5
    <2>2. windows' = IF MeetsSpeech(gridStart) THEN Append(windows, w) ELSE windows
      BY DEF EmbedWindow
    <2> HIDE DEF w
    <2>3. (\A time : MeetsSpeech(time)' <=> MeetsSpeech(time)) /\ (\A time : InWindow(time)' = InWindow(time))
      BY <1>2, MeetsKept DEF InWindow, WindowStop
    <2>4. /\ \A i \in 1..n :
                /\ windows[i].start < total /\ windows[i].start % WindowShift = 0
                /\ MeetsSpeech(windows[i].start)
                /\ windows[i].speech = InWindow(windows[i].start) \cap Samples(speech)
                /\ windows[i].start < gridStart
          /\ \A i, j \in 1..n : i < j => windows[i].start < windows[j].start
          /\ gridStart % WindowShift = 0
      BY <1>0, <1>4 DEF WindowsInv
    <2>5. \A time \in 0..(total - 1) :
             time % WindowShift = 0 /\ time < gridStart /\ MeetsSpeech(time) =>
                \E i \in 1..n : windows[i].start = time
      BY <1>0, <1>4 DEF WindowsInv
    <2>6. (gridStart + WindowShift) % WindowShift = 0
      BY <1>3, <2>4, NextOnGrid
    <2>7. ASSUME NEW time \in 0..(total - 1), time % WindowShift = 0, time < gridStart + WindowShift
          PROVE  time < gridStart \/ time = gridStart
      <3>1. time \in Nat
        OBVIOUS
      <3>2. gridStart < time => gridStart + WindowShift <= time
        BY <1>3, <2>4, <2>7, <3>1, NoneBetween
      <3> QED BY <1>3, <2>7, <3>1, <3>2
    <2>8. /\ total' = total /\ Samples(speech)' = Samples(speech) /\ stage' = "embed" /\ ~Clustering'
      BY <1>1, <1>2 DEF Clustering
    <2>9. CASE MeetsSpeech(gridStart)
      <3>1. windows' = Append(windows, w)
        BY <2>2, <2>9
      <3>2. /\ DOMAIN windows' = 1..(n + 1)
            /\ \A i \in 1..n : windows'[i] = windows[i]
            /\ windows'[n + 1] = w
        BY <1>3, <1>4, <3>1
      <3>3. \A i \in 1..(n + 1) : i \in 1..n \/ i = n + 1
        BY <1>4
      <3> HIDE DEF n
      <3>4. ASSUME NEW i \in 1..(n + 1)
            PROVE  /\ windows'[i].start < total /\ windows'[i].start % WindowShift = 0
                   /\ MeetsSpeech(windows'[i].start)
                   /\ windows'[i].speech = InWindow(windows'[i].start) \cap Samples(speech)
                   /\ windows'[i].start < gridStart'
        <4>1. CASE i \in 1..n
          <5>1. windows'[i] = windows[i] /\ windows[i].start < gridStart'
            <6>1. windows[i].start \in Nat /\ windows[i].start < gridStart
              BY <1>4, <2>4, <4>1
            <6> QED BY <1>1, <1>3, <3>2, <4>1, <6>1
          <5> QED BY <2>4, <4>1, <5>1
        <4>2. CASE i = n + 1
          <5>1. windows'[i] = w /\ gridStart < gridStart'
            BY <1>1, <1>3, <3>2, <4>2
          <5> QED BY <1>0, <2>1, <2>4, <2>9, <5>1
        <4> QED BY <3>3, <4>1, <4>2
      <3>5. ASSUME NEW i \in 1..(n + 1), NEW j \in 1..(n + 1), i < j
            PROVE  windows'[i].start < windows'[j].start
        <4>1. i \in 1..n
          BY <1>4, <3>5
        <4>2. CASE j \in 1..n
          BY <2>4, <3>2, <3>5, <4>1, <4>2
        <4>3. CASE j = n + 1
          BY <2>1, <2>4, <3>2, <4>1, <4>3
        <4> QED BY <3>3, <4>2, <4>3
      <3>6. ASSUME NEW time \in 0..(total - 1), time % WindowShift = 0, time < gridStart', MeetsSpeech(time)
            PROVE  \E i \in 1..(n + 1) : windows'[i].start = time
        <4>1. time < gridStart \/ time = gridStart
          BY <1>1, <2>7, <3>6
        <4>2. CASE time < gridStart
          <5>1. PICK i \in 1..n : windows[i].start = time
            BY <2>5, <3>6, <4>2
          <5>2. i \in 1..(n + 1) /\ windows'[i] = windows[i]
            BY <1>4, <3>2
          <5> QED BY <5>1, <5>2
        <4>3. CASE time = gridStart
          <5>1. n + 1 \in 1..(n + 1) /\ windows'[n + 1].start = time
            BY <1>4, <2>1, <3>2, <4>3
          <5> QED BY <5>1
        <4> QED BY <4>1, <4>2, <4>3
      <3> QED BY <1>1, <2>3, <2>6, <2>8, <3>2, <3>4, <3>5, <3>6 DEF WindowsInv
    <2>10. CASE ~MeetsSpeech(gridStart)
      <3>1. windows' = windows
        BY <2>2, <2>10
      <3>2. \A i \in 1..n : windows[i].start < gridStart'
        BY <1>1, <1>3, <1>4, <2>4
      <3>3. ASSUME NEW time \in 0..(total - 1), time % WindowShift = 0, time < gridStart', MeetsSpeech(time)
            PROVE  \E i \in 1..n : windows[i].start = time
        <4>1. time < gridStart \/ time = gridStart
          BY <1>1, <2>7, <3>3
        <4>2. time < gridStart
          BY <2>10, <3>3, <4>1
        <4> QED BY <2>5, <3>3, <4>2
      <3> QED BY <1>1, <1>4, <2>3, <2>4, <2>6, <2>8, <3>1, <3>2, <3>3 DEF WindowsInv
    <2> QED BY <2>9, <2>10
  <1>12. CellsInv' /\ RunsInv' /\ RegionsInv' /\ RegionsPartitionSpeech' /\ NearestWindowSpeaks'
    BY <1>1, NotYet
  <1> QED BY <1>1, <1>8, <1>9, <1>10, <1>11, <1>12 DEF DiarizationInv

LEMMA EndEmbedKeeps == DiarizationInv /\ EndEmbed => DiarizationInv'
  <1> SUFFICES ASSUME DiarizationInv, EndEmbed PROVE DiarizationInv'
    OBVIOUS
  <1>0. /\ DiarizationTypeOK /\ InputInv /\ StartInv /\ WindowsInv /\ stage = "embed"
        /\ gridStart >= total /\ stage' = "embedded"
    BY DEF DiarizationInv, EndEmbed, Enters
  <1>1. /\ input' = input
        /\ UNCHANGED <<total, speech, sources, island, segment, covered, met, pieces, gridStart, windows,
                       labels, boundaries, cell, runs, regions>>
    BY DEF EndEmbed, input, merging, embedding, projecting
  <1>2. DiarizationTypeOK'
    BY <1>0, <1>1 DEF DiarizationTypeOK
  <1>3. InputInv' /\ StartInv' /\ CursorsInv' /\ PiecesInv'
    BY <1>0, <1>1, InputKept DEF StartInv, CursorsInv, PiecesInv
  <1>4. WindowsInv'
    <2>1. (\A time : MeetsSpeech(time)' <=> MeetsSpeech(time)) /\ (\A time : InWindow(time)' = InWindow(time))
      BY <1>1, MeetsKept DEF InWindow, WindowStop
    <2>2. Samples(speech)' = Samples(speech)
      BY <1>1
    <2>3. \A time \in 0..(total - 1) : time < gridStart
      BY <1>0 DEF DiarizationTypeOK
    <2>4. \A time \in 0..(total - 1) :
             time % WindowShift = 0 /\ MeetsSpeech(time) => \E i \in DOMAIN windows : windows[i].start = time
      BY <1>0, <2>3 DEF WindowsInv
    <2> QED BY <1>0, <1>1, <2>1, <2>2, <2>4 DEF WindowsInv
  <1>5. CellsInv' /\ RunsInv' /\ RegionsInv' /\ RegionsPartitionSpeech' /\ NearestWindowSpeaks'
    BY <1>0 DEF CellsInv, RunsInv, RegionsInv, RegionsPartitionSpeech, NearestWindowSpeaks,
       Dividing, Projecting
  <1> QED BY <1>0, <1>2, <1>3, <1>4, <1>5 DEF DiarizationInv

-----------------------------------------------------------------------------
(* The cells.                                                              *)
LEMMA ClusterKeeps == DiarizationInv /\ Cluster => DiarizationInv'
  <1> SUFFICES ASSUME DiarizationInv, Cluster PROVE DiarizationInv'
    OBVIOUS
  <1>0. /\ DiarizationTypeOK /\ InputInv /\ StartInv /\ WindowsInv /\ stage = "embedded"
        /\ stage' = "clustered"
    BY DEF DiarizationInv, Cluster, Enters
  <1>1. /\ input' = input
        /\ UNCHANGED <<total, speech, sources, island, segment, covered, met, pieces, gridStart, windows,
                       boundaries, cell, runs, regions>>
    BY DEF Cluster, input, merging, embedding, projecting
  <1>2. labels' \in Seq(Nat) /\ Len(labels') = Len(windows)
    <2>1. PICK n \in 1..MaxClusters : labels' \in [DOMAIN windows -> 1..n]
      BY DEF Cluster
    <2>2. DOMAIN windows = 1..Len(windows) /\ Len(windows) \in Nat
      BY <1>0 DEF DiarizationTypeOK
    <2>3. 1..n \subseteq Nat
      OBVIOUS
    <2>4. labels' \in [1..Len(windows) -> Nat]
      BY <2>1, <2>2, <2>3
    <2> QED BY <2>2, <2>4
  <1>3. DiarizationTypeOK'
    BY <1>0, <1>1, <1>2 DEF DiarizationTypeOK
  <1>4. InputInv' /\ StartInv' /\ CursorsInv' /\ PiecesInv'
    BY <1>0, <1>1, InputKept DEF StartInv, CursorsInv, PiecesInv
  <1>5. WindowsInv'
    BY <1>0, <1>1, WindowsKept DEF Clustering
  <1>6. CellsInv'
    BY <1>0, <1>1, <1>2 DEF CellsInv, Dividing, Projecting
  <1>7. RunsInv' /\ RegionsInv' /\ RegionsPartitionSpeech' /\ NearestWindowSpeaks'
    BY <1>0 DEF RunsInv, RegionsInv, RegionsPartitionSpeech, NearestWindowSpeaks, Projecting
  <1> QED BY <1>0, <1>3, <1>4, <1>5, <1>6, <1>7 DEF DiarizationInv

(* The grid point at, or one shift or less before, where an island starts  *)
(* has a window.                                                           *)
LEMMA IslandHasWindow ==
  ASSUME DiarizationTypeOK, InputInv, WindowsInv, Clustering, NEW i \in DOMAIN speech
  PROVE  \E j \in DOMAIN windows : /\ WindowStop(windows[j].start) > speech[i].start
                                   /\ windows[j].start < speech[i].stop
  <1>1. /\ speech[i].start \in Nat /\ speech[i].stop \in Nat /\ total \in Nat
        /\ speech[i].start < speech[i].stop /\ speech[i].stop <= total
    BY SpeechParts DEF DiarizationTypeOK
  <1> DEFINE x == speech[i].start
  <1>2. PICK g \in Nat : g <= x /\ x < g + WindowShift /\ g % WindowShift = 0
    BY <1>1, GridBefore
  <1>3. g < total /\ x < total /\ x < g + WindowMax
    BY <1>1, <1>2, WindowSizes
  <1>4. x < WindowStop(g) /\ x \in InWindow(g)
    BY <1>1, <1>2, <1>3, WindowParts
  <1>5. InSpans(speech, x)
    BY <1>1 DEF InSpans, Within
  <1>6. MeetsSpeech(g)
    BY <1>1, <1>3, <1>4, <1>5, MeetsMeans
  <1>7. g \in 0..(total - 1) /\ stage # "embed"
    BY <1>1, <1>3 DEF Clustering
  <1>8. PICK j \in DOMAIN windows : windows[j].start = g
    BY <1>2, <1>6, <1>7 DEF WindowsInv
  <1>9. WindowStop(g) \in Nat
    BY <1>1, WindowParts
  <1> QED BY <1>1, <1>2, <1>4, <1>8, <1>9

LEMMA WindowTypes ==
  ASSUME DiarizationTypeOK
  PROVE  /\ DOMAIN windows = 1..Len(windows) /\ Len(windows) \in Nat
         /\ \A i \in DOMAIN windows : windows[i].start \in Nat
  <1>1. windows \in Seq(Window)
    BY DEF DiarizationTypeOK
  <1>2. DOMAIN windows = 1..Len(windows) /\ Len(windows) \in Nat
    BY <1>1
  <1>3. \A i \in DOMAIN windows : windows[i] \in Window
    BY <1>1, <1>2
  <1> QED BY <1>2, <1>3 DEF Window

LEMMA BeginProjectKeeps == DiarizationInv /\ BeginProject => DiarizationInv'
  <1> SUFFICES ASSUME DiarizationInv, BeginProject PROVE DiarizationInv'
    OBVIOUS
  <1>0. /\ DiarizationTypeOK /\ InputInv /\ StartInv /\ WindowsInv /\ CellsInv /\ stage = "clustered"
        /\ Clustering
    BY DEF DiarizationInv, BeginProject, Clustering
  <1>1. /\ input' = input
        /\ UNCHANGED <<total, speech, sources, island, segment, covered, met, pieces, gridStart, windows,
                       labels, boundaries, cell, runs, regions>>
    BY DEF BeginProject, input, merging, embedding, projecting
  <1>2. WindowsOnGrid
    <2>1. DOMAIN windows = 1..Len(windows) /\ Len(windows) \in Nat
          /\ \A i \in DOMAIN windows : windows[i].start \in Nat
      BY <1>0, WindowTypes
    <2>2. ASSUME NEW i \in DOMAIN windows
          PROVE  windows[i].start \in 0..(total - 1) /\ windows[i].start % WindowShift = 0
      BY <1>0, <2>1 DEF WindowsInv, DiarizationTypeOK
    <2>3. ASSUME NEW i \in DOMAIN windows, i > 1
          PROVE  windows[i - 1].start < windows[i].start
      <3>1. i - 1 \in DOMAIN windows /\ i - 1 < i
        BY <2>1, <2>3
      <3> QED BY <1>0, <3>1 DEF WindowsInv
    <2> QED BY <2>2, <2>3 DEF WindowsOnGrid
  <1>3. WindowsMeetIslands
    BY <1>0, IslandHasWindow DEF WindowsMeetIslands, WindowsInv
  <1>4. speech # <<>> /\ windows # <<>>
    <2>1. speech # <<>>
      BY <1>0 DEF StartInv
    <2>2. 1 \in DOMAIN speech
      BY <1>0, <2>1 DEF DiarizationTypeOK
    <2>3. DOMAIN windows # {}
      BY <1>0, <2>2, IslandHasWindow
    <2>4. windows # <<>>
      BY <2>3
    <2> QED BY <2>1, <2>4
  <1>5. stage' = "divide"
    BY <1>0, <1>2, <1>3, <1>4 DEF BeginProject, Enters, InputInv
  <1>6. DiarizationTypeOK'
    BY <1>0, <1>1, <1>5 DEF DiarizationTypeOK
  <1>7. InputInv' /\ StartInv' /\ CursorsInv' /\ PiecesInv'
    BY <1>0, <1>1, <1>5, InputKept DEF StartInv, CursorsInv, PiecesInv
  <1>8. WindowsInv'
    BY <1>0, <1>1, <1>5, WindowsKept DEF Clustering
  <1>9. CellsInv'
    <2>1. boundaries' = <<0>> /\ Len(boundaries') = 1 /\ DOMAIN boundaries' = {1} /\ boundaries'[1] = 0
      BY <1>0, <1>1 DEF StartInv
    <2>2. Len(windows) >= 1
      BY <1>0, <1>4 DEF DiarizationTypeOK
    <2>3. boundaries' # <<>>
      BY <2>1
    <2>4. Len(labels') = Len(windows') /\ windows' # <<>>
      BY <1>0, <1>1, <1>4 DEF CellsInv
    <2> QED BY <1>1, <1>5, <2>1, <2>2, <2>3, <2>4 DEF CellsInv, Dividing, Projecting
  <1>10. RunsInv' /\ RegionsInv' /\ RegionsPartitionSpeech' /\ NearestWindowSpeaks'
    BY <1>5 DEF RunsInv, RegionsInv, RegionsPartitionSpeech, NearestWindowSpeaks, Projecting
  <1> QED BY <1>5, <1>6, <1>7, <1>8, <1>9, <1>10 DEF DiarizationInv

(* Midpoints are times, between the centres, and they grow with windows.   *)
LEMMA MidpointParts ==
  ASSUME NEW a \in Nat, NEW b \in Nat
  PROVE  /\ Centre(a) \in Nat /\ Midpoint(a, b) \in Nat
         /\ 2 * Midpoint(a, b) >= Centre(a) + Centre(b)
         /\ 2 * Midpoint(a, b) <= Centre(a) + Centre(b) + 1
         /\ a < b => Centre(a) < Centre(b)
  <1> DEFINE h == WindowMax \div 2
  <1>1. h \in Nat
    BY WindowSizes
  <1>2. Centre(a) = a + h /\ Centre(b) = b + h
    BY DEF Centre
  <1> HIDE DEF h
  <1>3. Centre(a) \in Nat /\ Centre(b) \in Nat /\ (a < b => Centre(a) < Centre(b))
    BY <1>1, <1>2
  <1>4. \A m \in Nat : LET half == m \div 2 IN half \in Nat /\ 2 * half <= m /\ m <= 2 * half + 1
    OBVIOUS
  <1>5. Midpoint(a, b) = (Centre(a) + Centre(b) + 1) \div 2
    BY DEF Midpoint
  <1>6. Centre(a) + Centre(b) + 1 \in Nat
    BY <1>3
  <1> QED BY <1>3, <1>4, <1>5, <1>6

LEMMA MidpointsGrow ==
  ASSUME NEW a \in Nat, NEW b \in Nat, NEW c \in Nat, a < b, b < c
  PROVE  Midpoint(a, b) <= Midpoint(b, c)
  <1>1. /\ Midpoint(a, b) \in Nat /\ 2 * Midpoint(a, b) <= Centre(a) + Centre(b) + 1
        /\ Midpoint(b, c) \in Nat /\ 2 * Midpoint(b, c) >= Centre(b) + Centre(c)
        /\ Centre(a) \in Nat /\ Centre(b) \in Nat /\ Centre(c) \in Nat
        /\ Centre(a) < Centre(b) /\ Centre(b) < Centre(c)
    BY MidpointParts
  <1> QED BY <1>1

LEMMA DivideKeeps == DiarizationInv /\ Divide => DiarizationInv'
  <1> SUFFICES ASSUME DiarizationInv, Divide PROVE DiarizationInv'
    OBVIOUS
  <1>0. /\ DiarizationTypeOK /\ InputInv /\ StartInv /\ WindowsInv /\ CellsInv /\ stage = "divide"
        /\ Clustering /\ Dividing
    BY DEF DiarizationInv, Divide, Clustering, Dividing
  <1> DEFINE k == Len(boundaries)
             next == Least(Midpoint(windows[k].start, windows[k + 1].start), total)
  <1>1. /\ input' = input
        /\ UNCHANGED <<total, speech, sources, segment, covered, met, pieces, gridStart, windows,
                       labels, cell, runs, regions>>
    BY DEF Divide, input, merging, embedding, projecting
  <1>2. /\ boundaries \in Seq(Nat) /\ total \in Nat /\ boundaries # <<>> /\ boundaries[1] = 0
        /\ k \in Nat /\ k >= 1 /\ k <= Len(windows) /\ DOMAIN boundaries = 1..k
        /\ \A i \in 1..k : i > 1 /\ i <= Len(windows) => boundaries[i] = Between(i)
        /\ Len(labels) = Len(windows) /\ windows # <<>>
        /\ DOMAIN windows = 1..Len(windows) /\ Len(windows) \in Nat
        /\ \A i \in DOMAIN windows : windows[i].start \in Nat
    <2>1. boundaries \in Seq(Nat) /\ total \in Nat
      BY <1>0 DEF DiarizationTypeOK
    <2>2. /\ boundaries # <<>> /\ boundaries[1] = 0 /\ k <= Len(windows)
          /\ \A i \in DOMAIN boundaries : i > 1 /\ i <= Len(windows) => boundaries[i] = Between(i)
          /\ Len(labels) = Len(windows) /\ windows # <<>>
      BY <1>0 DEF CellsInv
    <2>3. k \in Nat /\ k >= 1 /\ DOMAIN boundaries = 1..k
      BY <2>1, <2>2
    <2> QED BY <1>0, <2>1, <2>2, <2>3, WindowTypes
  <1>3. \A i : Between(i)' = Between(i)
    BY <1>1 DEF Between
  <1>4. WindowsInv' /\ InputInv' /\ RunsInv' /\ CursorsInv' /\ PiecesInv'
        /\ RegionsPartitionSpeech' /\ NearestWindowSpeaks'
        /\ stage' \in {"divide", "project"}
    <2>1. stage' \in {"divide", "project"}
      BY <1>0 DEF Divide, Enters
    <2>2. WindowsInv' /\ InputInv'
      BY <1>0, <1>1, <2>1, WindowsKept, InputKept DEF Clustering
    <2> QED BY <2>1, <2>2
            DEF RunsInv, CursorsInv, PiecesInv, RegionsPartitionSpeech, NearestWindowSpeaks
  <1>5. regions = <<>> /\ speech # <<>>
    BY <1>0 DEF StartInv
  <1>6. CASE k < Len(windows)
    <2>1. stage' = "divide" /\ island' = island /\ boundaries' = Append(boundaries, Greatest(boundaries[k], next))
      BY <1>0, <1>6 DEF Divide
    <2>2. next \in Nat /\ next = Between(k + 1) /\ Greatest(boundaries[k], next) = next
      <3>1. k \in DOMAIN windows /\ k + 1 \in DOMAIN windows /\ k < k + 1 /\ (k + 1) - 1 = k
        BY <1>2, <1>6
      <3>2. windows[k].start < windows[k + 1].start
        BY <1>0, <3>1 DEF WindowsInv
      <3>3. windows[k].start \in Nat /\ windows[k + 1].start \in Nat
        BY <1>2, <3>1
      <3>4. Midpoint(windows[k].start, windows[k + 1].start) \in Nat
        BY <3>3, MidpointParts
      <3>5. next \in Nat
        BY <1>2, <3>4 DEF Least
      <3>6. next = Between(k + 1)
        BY <3>1 DEF Between
      <3>7. boundaries[k] <= next /\ boundaries[k] \in Nat
        <4>1. CASE k = 1
          BY <1>2, <3>5, <4>1
        <4>2. CASE k > 1
          <5>1. boundaries[k] = Least(Midpoint(windows[k - 1].start, windows[k].start), total)
            BY <1>2, <4>2 DEF Between
          <5>2. k - 1 \in DOMAIN windows /\ k - 1 < k
            BY <1>2, <4>2
          <5>3. windows[k - 1].start \in Nat /\ windows[k - 1].start < windows[k].start
            BY <1>0, <1>2, <3>1, <5>2 DEF WindowsInv
          <5>4. /\ Midpoint(windows[k - 1].start, windows[k].start) \in Nat
                /\ Midpoint(windows[k - 1].start, windows[k].start)
                      <= Midpoint(windows[k].start, windows[k + 1].start)
            BY <3>2, <3>3, <5>3, MidpointParts, MidpointsGrow
          <5> QED BY <1>2, <3>4, <5>1, <5>4 DEF Least
        <4> QED BY <1>2, <4>1, <4>2
      <3> HIDE DEF next
      <3>8. Greatest(boundaries[k], next) = next
        BY <3>5, <3>7 DEF Greatest
      <3> QED BY <3>5, <3>6, <3>8
    <2> HIDE DEF next, k
    <2>3. boundaries' = Append(boundaries, next)
      BY <2>1, <2>2
    <2>4. /\ boundaries' \in Seq(Nat) /\ DOMAIN boundaries' = 1..(k + 1) /\ Len(boundaries') = k + 1
          /\ boundaries'[k + 1] = next /\ \A i \in 1..k : boundaries'[i] = boundaries[i]
      BY <1>2, <2>2, <2>3 DEF k
    <2>5. DiarizationTypeOK'
      BY <1>0, <1>1, <2>1, <2>4 DEF DiarizationTypeOK
    <2>6. StartInv'
      BY <1>1, <1>5, <2>1 DEF StartInv
    <2>7. CellsInv'
      <3>1. \A i \in 1..(k + 1) : i > 1 /\ i <= Len(windows) => boundaries'[i] = Between(i)
        <4>1. \A i \in 1..(k + 1) : i \in 1..k \/ i = k + 1
          BY <1>2
        <4> QED BY <1>2, <2>2, <2>4, <4>1
      <3>2. boundaries' # <<>> /\ boundaries'[1] = 0 /\ Len(boundaries') <= Len(windows)
        BY <1>2, <1>6, <2>4
      <3> QED BY <1>1, <1>2, <1>3, <2>1, <2>4, <3>1, <3>2 DEF CellsInv, Dividing, Projecting
    <2>8. RegionsInv'
      BY <2>1 DEF RegionsInv, Projecting
    <2> QED BY <1>4, <2>1, <2>5, <2>6, <2>7, <2>8 DEF DiarizationInv
  <1>7. CASE k = Len(windows)
    <2>1. stage' = "project" /\ island' = 1 /\ boundaries' = Append(boundaries, total)
      BY <1>0, <1>2, <1>7 DEF Divide, Enters
    <2> HIDE DEF k
    <2>2. /\ boundaries' \in Seq(Nat) /\ DOMAIN boundaries' = 1..(k + 1) /\ Len(boundaries') = k + 1
          /\ boundaries'[k + 1] = total /\ \A i \in 1..k : boundaries'[i] = boundaries[i]
      BY <1>2, <2>1 DEF k
    <2>3. DiarizationTypeOK'
      BY <1>0, <1>1, <2>1, <2>2 DEF DiarizationTypeOK
    <2>4. StartInv'
      BY <1>1, <1>5, <2>1 DEF StartInv
    <2>5. CellsInv'
      <3>1. \A i \in 1..(k + 1) : i > 1 /\ i <= Len(windows) => boundaries'[i] = Between(i)
        <4>1. \A i \in 1..(k + 1) : i <= Len(windows) => i \in 1..k
          BY <1>2, <1>7
        <4> QED BY <1>2, <2>2, <4>1
      <3>2. boundaries' # <<>> /\ boundaries'[1] = 0 /\ Len(boundaries') = Len(windows) + 1
            /\ boundaries'[Len(windows) + 1] = total
        BY <1>2, <1>7, <2>2
      <3> QED BY <1>1, <1>2, <1>3, <2>1, <2>2, <3>1, <3>2 DEF CellsInv, Dividing, Projecting
    <2>6. RegionsInv'
      <3>1. DOMAIN regions' = {}
        BY <1>1, <1>5
      <3>2. \A x \in Nat : ~Projected(x)'
        BY <1>0, <1>1, <2>1, SpeechParts DEF Projected
      <3>3. island' \in 1..(Len(speech') + 1)
        BY <1>0, <1>1, <2>1, SpeechParts
      <3> QED BY <2>1, <3>1, <3>2, <3>3 DEF RegionsInv, Apart, InSpans
    <2> QED BY <1>4, <2>1, <2>3, <2>4, <2>5, <2>6 DEF DiarizationInv
  <1> QED BY <1>2, <1>6, <1>7

(* The cells cut the audio up.                                             *)
LEMMA CellParts ==
  ASSUME DiarizationInv, Projecting
  PROVE  /\ Len(windows) \in Nat /\ Len(windows) >= 1 /\ DOMAIN windows = 1..Len(windows)
         /\ Len(labels) = Len(windows) /\ total \in Nat
         /\ \A i \in 1..Len(windows) : labels[i] \in Nat /\ windows[i].start \in Nat
         /\ \A i, j \in 1..Len(windows) : i < j => windows[i].start < windows[j].start
         /\ boundaries[1] = 0 /\ boundaries[Len(windows) + 1] = total
         /\ \A i \in 1..(Len(windows) + 1) : boundaries[i] \in Nat /\ boundaries[i] <= total
         /\ \A i \in 1..Len(windows) : boundaries[i] <= boundaries[i + 1]
         /\ \A i \in 1..Len(windows) : i > 1 => boundaries[i] = Between(i)
  <1>0. /\ DiarizationTypeOK /\ CellsInv /\ WindowsInv /\ Dividing
        /\ labels \in Seq(Nat) /\ boundaries \in Seq(Nat) /\ total \in Nat
    BY DEF DiarizationInv, DiarizationTypeOK, Projecting, Dividing
  <1> DEFINE n == Len(windows)
  <1>1. /\ n \in Nat /\ DOMAIN windows = 1..n /\ \A i \in 1..n : windows[i].start \in Nat
        /\ n >= 1
    <2>1. windows # <<>> /\ windows \in Seq(Window)
      BY <1>0 DEF CellsInv, DiarizationTypeOK
    <2>2. n >= 1
      BY <2>1
    <2> QED BY <1>0, <2>2, WindowTypes
  <1>2. \A i, j \in 1..n : i < j => windows[i].start < windows[j].start
    BY <1>0, <1>1 DEF WindowsInv
  <1>3. /\ Len(labels) = n /\ boundaries[1] = 0 /\ Len(boundaries) = n + 1 /\ boundaries[n + 1] = total
        /\ \A k \in DOMAIN boundaries : k > 1 /\ k <= n => boundaries[k] = Between(k)
    BY <1>0 DEF CellsInv
  <1> HIDE DEF n
  <1>4. DOMAIN boundaries = 1..(n + 1) /\ \A i \in 1..(n + 1) : boundaries[i] \in Nat
    BY <1>0, <1>1, <1>3
  <1>5. \A i \in 1..n : labels[i] \in Nat
    BY <1>0, <1>3
  <1>6. \A i \in 1..n : i \in DOMAIN boundaries /\ i <= n
    BY <1>1, <1>4
  <1>7. \A i \in 1..n : i > 1 => boundaries[i] = Between(i)
    BY <1>3, <1>6
  <1>8. ASSUME NEW i \in 1..n, i > 1
        PROVE  /\ i - 1 \in 1..n
               /\ Midpoint(windows[i - 1].start, windows[i].start) \in Nat
               /\ boundaries[i] = Least(Midpoint(windows[i - 1].start, windows[i].start), total)
    <2>1. i - 1 \in 1..n
      BY <1>1, <1>8
    <2> QED BY <1>1, <1>7, <1>8, <2>1, MidpointParts DEF Between
  <1>9. \A i \in 1..(n + 1) : i = 1 \/ i = n + 1 \/ (i \in 1..n /\ i > 1)
    BY <1>1
  <1>10. \A i \in 1..(n + 1) : boundaries[i] <= total
    <2> SUFFICES ASSUME NEW i \in 1..(n + 1) PROVE boundaries[i] <= total
      OBVIOUS
    <2>1. CASE i \in 1..n /\ i > 1
      BY <1>0, <1>8, <2>1 DEF Least
    <2>2. CASE i = 1 \/ i = n + 1
      BY <1>0, <1>3, <2>2
    <2> QED BY <1>9, <2>1, <2>2
  <1>11. ASSUME NEW i \in 1..n
         PROVE  boundaries[i] <= boundaries[i + 1]
    <2>1. i + 1 \in 1..(n + 1) /\ i \in 1..(n + 1) /\ (i + 1) - 1 = i /\ i + 1 > 1
      BY <1>1
    <2>2. CASE i = n
      BY <1>3, <1>10, <2>1, <2>2
    <2>3. CASE i = 1
      BY <1>3, <1>4, <2>1, <2>3
    <2>4. CASE i > 1 /\ i < n
      <3>1. i + 1 \in 1..n /\ i - 1 \in 1..n /\ i - 1 < i /\ i < i + 1
        BY <1>1, <2>4
      <3>2. boundaries[i] = Least(Midpoint(windows[i - 1].start, windows[i].start), total)
        BY <1>8, <2>4
      <3>3. boundaries[i + 1] = Least(Midpoint(windows[i].start, windows[i + 1].start), total)
        BY <1>8, <2>1, <3>1
      <3>4. /\ Midpoint(windows[i - 1].start, windows[i].start) \in Nat
            /\ Midpoint(windows[i].start, windows[i + 1].start) \in Nat
            /\ Midpoint(windows[i - 1].start, windows[i].start)
                  <= Midpoint(windows[i].start, windows[i + 1].start)
        BY <1>1, <1>2, <3>1, MidpointParts, MidpointsGrow
      <3> QED BY <1>0, <3>2, <3>3, <3>4 DEF Least
    <2> QED BY <1>1, <2>2, <2>3, <2>4
  <1> QED BY <1>0, <1>1, <1>2, <1>3, <1>4, <1>5, <1>7, <1>10, <1>11 DEF n

(* A sample lies in the cell of the window whose centre is nearest.        *)
Closest(x, i) ==
    \A j \in DOMAIN windows :
       /\ Distance(x, windows[i].start) <= Distance(x, windows[j].start)
       /\ Distance(x, windows[i].start) = Distance(x, windows[j].start) => j <= i

LEMMA NearestCell ==
  ASSUME DiarizationInv, Projecting, NEW x \in Nat, NEW i \in DOMAIN windows, InCellOf(i, x)
  PROVE  Nearest(x) = i
  <1> DEFINE n == Len(windows)
             c(k) == Centre(windows[k].start)
             d(k) == Distance(x, windows[k].start)
  <1>1. /\ n \in Nat /\ DOMAIN windows = 1..n /\ total \in Nat
        /\ \A k \in 1..n : windows[k].start \in Nat
        /\ \A k, l \in 1..n : k < l => windows[k].start < windows[l].start
        /\ boundaries[n + 1] = total
        /\ \A k \in 1..(n + 1) : boundaries[k] \in Nat /\ boundaries[k] <= total
        /\ \A k \in 1..n : k > 1 => boundaries[k] = Between(k)
    BY CellParts
  <1>2. /\ \A k \in 1..n : c(k) \in Nat
        /\ \A k, l \in 1..n : k < l => c(k) < c(l)
    BY <1>1, MidpointParts
  <1>3. \A k \in 1..n : /\ d(k) \in Nat
                        /\ x >= c(k) => d(k) = x - c(k)
                        /\ x < c(k) => d(k) = c(k) - x
    BY <1>2 DEF Distance
  <1>4. \A k \in 1..n : k > 1 =>
           /\ k - 1 \in 1..n
           /\ LET m == Midpoint(windows[k - 1].start, windows[k].start)
              IN /\ m \in Nat /\ boundaries[k] = Least(m, total)
                 /\ 2 * m >= c(k - 1) + c(k) /\ 2 * m <= c(k - 1) + c(k) + 1
    <2> SUFFICES ASSUME NEW k \in 1..n, k > 1
                 PROVE  /\ k - 1 \in 1..n
                        /\ LET m == Midpoint(windows[k - 1].start, windows[k].start)
                           IN /\ m \in Nat /\ boundaries[k] = Least(m, total)
                              /\ 2 * m >= c(k - 1) + c(k) /\ 2 * m <= c(k - 1) + c(k) + 1
      OBVIOUS
    <2>1. k - 1 \in 1..n
      BY <1>1
    <2> QED BY <1>1, <2>1, MidpointParts DEF Between
  <1>5. i \in 1..n /\ i \in Nat /\ i + 1 \in 1..(n + 1) /\ boundaries[i] <= x /\ x < boundaries[i + 1]
    BY <1>1 DEF InCellOf
  <1>6. x < total
    BY <1>1, <1>5
  <1>7. i > 1 => i - 1 \in 1..n /\ 2 * x >= c(i - 1) + c(i)
    <2> SUFFICES ASSUME i > 1 PROVE i - 1 \in 1..n /\ 2 * x >= c(i - 1) + c(i)
      OBVIOUS
    <2> DEFINE m == Midpoint(windows[i - 1].start, windows[i].start)
    <2>1. m \in Nat /\ boundaries[i] = Least(m, total) /\ 2 * m >= c(i - 1) + c(i) /\ i - 1 \in 1..n
      BY <1>4, <1>5
    <2> HIDE DEF m, c
    <2>2. m <= x
      BY <1>1, <1>5, <1>6, <2>1 DEF Least
    <2> QED BY <1>2, <1>5, <2>1, <2>2
  <1>8. i < n => i + 1 \in 1..n /\ 2 * x < c(i) + c(i + 1)
    <2> SUFFICES ASSUME i < n PROVE i + 1 \in 1..n /\ 2 * x < c(i) + c(i + 1)
      OBVIOUS
    <2> DEFINE m == Midpoint(windows[i].start, windows[i + 1].start)
    <2>0. i + 1 \in 1..n /\ i + 1 > 1 /\ (i + 1) - 1 = i
      BY <1>1, <1>5
    <2>1. m \in Nat /\ boundaries[i + 1] = Least(m, total) /\ 2 * m <= c(i) + c(i + 1) + 1
      BY <1>4, <2>0
    <2> HIDE DEF m, c
    <2>2. x < m
      BY <1>1, <1>5, <2>1 DEF Least
    <2> QED BY <1>2, <1>5, <2>0, <2>1, <2>2
  <1> HIDE DEF c, d
  <1>9. ASSUME NEW j \in 1..n
        PROVE  d(i) <= d(j) /\ (d(i) = d(j) => j <= i)
    <2>0. j \in Nat /\ c(i) \in Nat /\ c(j) \in Nat /\ d(i) \in Nat /\ d(j) \in Nat
      BY <1>2, <1>3, <1>5, <1>9
    <2>1. CASE j = i
      BY <2>0, <2>1, <1>5
    <2>2. CASE j < i
      <3>1. i > 1 /\ (j = i - 1 \/ j < i - 1)
        BY <1>1, <1>5, <2>0, <2>2
      <3>2. c(j) <= c(i - 1) /\ c(i - 1) \in Nat /\ c(i - 1) < c(i)
        BY <1>2, <1>5, <1>7, <3>1, <2>0
      <3>3. 2 * x >= c(i - 1) + c(i)
        BY <1>7, <3>1
      <3>4. x >= c(i - 1) /\ x >= c(j)
        BY <2>0, <3>2, <3>3
      <3>5. d(j) = x - c(j)
        BY <1>3, <1>9, <3>4
      <3>6. x - c(i - 1) <= d(j)
        BY <2>0, <3>2, <3>4, <3>5
      <3>7. d(i) <= x - c(i - 1)
        <4>1. CASE x >= c(i)
          <5>1. d(i) = x - c(i)
            BY <1>3, <1>5, <4>1
          <5> QED BY <2>0, <3>2, <4>1, <5>1
        <4>2. CASE x < c(i)
          <5>1. d(i) = c(i) - x
            BY <1>3, <1>5, <4>2
          <5> QED BY <2>0, <3>2, <3>3, <4>2, <5>1
        <4> QED BY <2>0, <4>1, <4>2
      <3> QED BY <1>5, <2>0, <2>2, <3>2, <3>6, <3>7
    <2>3. CASE j > i
      <3>1. i < n /\ (j = i + 1 \/ i + 1 < j)
        BY <1>1, <1>5, <2>0, <2>3
      <3>2. c(i + 1) <= c(j) /\ c(i + 1) \in Nat /\ c(i) < c(i + 1)
        BY <1>2, <1>5, <1>8, <3>1, <2>0
      <3>3. 2 * x < c(i) + c(i + 1)
        BY <1>8, <3>1
      <3>4. x < c(i + 1) /\ x < c(j)
        BY <2>0, <3>2, <3>3
      <3>5. d(j) = c(j) - x
        BY <1>3, <1>9, <3>4
      <3>6. c(i + 1) - x <= d(j)
        BY <2>0, <3>2, <3>4, <3>5
      <3>7. d(i) < c(i + 1) - x
        <4>1. CASE x >= c(i)
          <5>1. d(i) = x - c(i)
            BY <1>3, <1>5, <4>1
          <5> QED BY <2>0, <3>2, <3>3, <4>1, <5>1
        <4>2. CASE x < c(i)
          <5>1. d(i) = c(i) - x
            BY <1>3, <1>5, <4>2
          <5> QED BY <2>0, <3>2, <4>2, <5>1
        <4> QED BY <2>0, <4>1, <4>2
      <3> QED BY <1>5, <2>0, <2>3, <3>2, <3>6, <3>7
    <2> QED BY <1>5, <2>0, <2>1, <2>2, <2>3
  <1>10. Closest(x, i)
    BY <1>1, <1>9 DEF Closest, d
  <1>11. \A k \in DOMAIN windows : Closest(x, k) => k = i
    <2> SUFFICES ASSUME NEW k \in 1..n, Closest(x, k) PROVE k = i
      BY <1>1
    <2>1. d(k) <= d(i) /\ (d(k) = d(i) => i <= k)
      BY <1>1, <1>5 DEF Closest, d
    <2>2. d(i) <= d(k) /\ (d(i) = d(k) => k <= i)
      BY <1>9
    <2>3. d(i) \in Nat /\ d(k) \in Nat /\ k \in Nat
      BY <1>3, <1>5
    <2> QED BY <1>5, <2>1, <2>2, <2>3
  <1>12. Nearest(x) = CHOOSE k \in DOMAIN windows : Closest(x, k)
    BY DEF Nearest, Closest
  <1> QED BY <1>10, <1>11, <1>12

-----------------------------------------------------------------------------
(* The projection.                                                         *)
LEMMA RunParts ==
  ASSUME NEW list \in Seq(Run)
  PROVE  /\ DOMAIN list = 1..Len(list) /\ Len(list) \in Nat
         /\ list # <<>> => Len(list) >= 1 /\ Len(list) \in DOMAIN list /\ 1 \in DOMAIN list
         /\ \A k \in DOMAIN list : /\ k \in Nat /\ list[k] \in Run
                                   /\ list[k].start \in Nat /\ list[k].stop \in Nat /\ list[k].label \in Nat
  <1>1. DOMAIN list = 1..Len(list) /\ Len(list) \in Nat
    OBVIOUS
  <1>2. list # <<>> => Len(list) >= 1
    BY <1>1
  <1>3. \A k \in DOMAIN list : k \in Nat /\ list[k] \in Run
    BY <1>1
  <1> QED BY <1>1, <1>2, <1>3 DEF Run

LEMMA ProjectFrame ==
  ASSUME DiarizationInv, Projecting, stage' \in {"project", "scan", "cut", "projected"},
         UNCHANGED <<input, segment, covered, met, pieces, gridStart, windows, labels, boundaries>>
  PROVE  /\ InputInv' /\ StartInv' /\ CursorsInv' /\ PiecesInv' /\ WindowsInv' /\ CellsInv'
         /\ stage' # "failed"
         /\ UNCHANGED <<total, speech, sources, windows, labels, boundaries>>
         /\ \A x, label \in Nat : Speaks(x, label)' <=> Speaks(x, label)
  <1>0. /\ InputInv /\ StartInv /\ WindowsInv /\ CellsInv
        /\ stage \in {"project", "scan", "cut", "projected"}
    BY DEF DiarizationInv, Projecting
  <1>1. UNCHANGED <<total, speech, sources, windows, labels, boundaries, gridStart>> /\ input' = input
    BY DEF input
  <1>2. InputInv' /\ WindowsInv' /\ CellsInv'
    BY <1>0, <1>1, InputKept, WindowsKept, CellsKept DEF Clustering, Dividing, Projecting
  <1>3. StartInv' /\ CursorsInv' /\ PiecesInv'
    BY <1>0, <1>1 DEF StartInv, CursorsInv, PiecesInv
  <1>4. \A x, label \in Nat : Speaks(x, label)' <=> Speaks(x, label)
    BY <1>1 DEF Speaks, InCellOf
  <1> QED BY <1>1, <1>2, <1>3, <1>4

(* No region is added while an island is taken and scanned.                *)
LEMMA RegionsKept ==
  ASSUME DiarizationInv, stage \in {"project", "scan"},
         stage' \in {"project", "scan", "cut", "projected"},
         stage' = "projected" => island = Len(speech) + 1,
         stage' = "cut" => island <= Len(speech) /\ runs'[1].start = speech[island].start,
         UNCHANGED <<input, island, segment, covered, met, pieces, gridStart, windows, labels,
                     boundaries, regions>>
  PROVE  RegionsInv'
  <1>0. DiarizationTypeOK /\ InputInv /\ RegionsInv /\ Projecting
    BY DEF DiarizationInv, Projecting
  <1>1. /\ UNCHANGED <<speech, island, regions>>
        /\ \A x, label \in Nat : Speaks(x, label)' <=> Speaks(x, label)
    BY <1>0, ProjectFrame
  <1>2. /\ regions \in Seq(Run) /\ Len(speech) \in Nat
        /\ \A r \in DOMAIN regions : regions[r].label \in Nat
        /\ \A i \in 1..Len(speech) : speech[i].start \in Nat
        /\ DOMAIN speech = 1..Len(speech)
    BY <1>0, RunParts, SpeechParts DEF DiarizationTypeOK
  <1>3. /\ island \in 1..(Len(speech) + 1) /\ Apart(regions)
        /\ island <= Len(speech) => \A r \in DOMAIN regions : regions[r].stop <= Frontier
        /\ \A x \in Nat : InSpans(regions, x) <=> Projected(x)
        /\ \A r \in DOMAIN regions :
              /\ regions[r].stop - regions[r].start \in 1..RegionMax
              /\ \E j \in DOMAIN speech : /\ speech[j].start <= regions[r].start
                                          /\ regions[r].stop <= speech[j].stop
              /\ \A x \in Nat : Within(regions[r], x) => Speaks(x, regions[r].label)
    BY <1>0 DEF RegionsInv
  <1>4. \A x \in Nat : Projected(x)' <=> Projected(x)
    <2>1. ASSUME stage' = "cut", NEW x \in Nat, Within(speech[island], x)
          PROVE  ~(x < runs'[1].start)
      <3>1. runs'[1].start = speech[island].start /\ island \in 1..Len(speech)
        BY <1>2, <1>3, <2>1
      <3>2. speech[island].start \in Nat /\ speech[island].start <= x
        BY <1>2, <2>1, <3>1 DEF Within
      <3> QED BY <3>1, <3>2
    <2> QED BY <1>1, <2>1 DEF Projected
  <1>5. island <= Len(speech) => Frontier' = Frontier
    BY <1>1 DEF Frontier
  <1>6. \A r \in DOMAIN regions : \A x \in Nat :
           Within(regions[r], x) => Speaks(x, regions[r].label)'
    BY <1>1, <1>2, <1>3
  <1>7. Apart(regions)' /\ \A x \in Nat : InSpans(regions, x)' <=> InSpans(regions, x)
    BY <1>1, <1>3 DEF Apart, InSpans
  <1> QED BY <1>1, <1>3, <1>4, <1>5, <1>6, <1>7 DEF RegionsInv

(* A region that begins where the run in hand begins.                      *)
LEMMA RegionAdded ==
  ASSUME DiarizationInv, stage = "cut", NEW region \in Run,
         region.start = runs[1].start, region.label = runs[1].label,
         runs[1].start < region.stop, region.stop <= runs[1].stop,
         region.stop - region.start <= RegionMax,
         regions' = Append(regions, region)
  PROVE  /\ regions' \in Seq(Run) /\ Apart(regions)'
         /\ \A r \in DOMAIN regions' : regions'[r].stop <= region.stop
         /\ \A x \in Nat : InSpans(regions, x)' <=> Projected(x) \/ Within(region, x)
         /\ \A r \in DOMAIN regions' :
               /\ regions'[r].stop - regions'[r].start \in 1..RegionMax
               /\ \E j \in DOMAIN speech : /\ speech[j].start <= regions'[r].start
                                           /\ regions'[r].stop <= speech[j].stop
               /\ \A x \in Nat : Within(regions'[r], x) => Speaks(x, regions'[r].label)
               /\ regions'[r].label \in Nat
  <1> DEFINE n == Len(regions)
  <1>0. DiarizationTypeOK /\ InputInv /\ RunsInv /\ RegionsInv /\ Projecting
    BY DEF DiarizationInv, Projecting
  <1>1. /\ regions \in Seq(Run) /\ n \in Nat /\ DOMAIN regions = 1..n
        /\ \A r \in 1..n : /\ r \in Nat /\ regions[r].start \in Nat /\ regions[r].stop \in Nat
                           /\ regions[r].label \in Nat
        /\ runs \in Seq(Run)
    BY <1>0, RunParts DEF DiarizationTypeOK
  <1>2. /\ region.start \in Nat /\ region.stop \in Nat /\ region.label \in Nat
    BY DEF Run
  <1>3. /\ DOMAIN regions' = 1..(n + 1) /\ regions' \in Seq(Run)
        /\ \A r \in 1..n : regions'[r] = regions[r]
        /\ regions'[n + 1] = region
    BY <1>1
  <1>4. /\ island \in DOMAIN speech /\ island <= Len(speech) /\ 1 \in DOMAIN runs
        /\ runs[1].start \in Nat /\ runs[1].stop \in Nat
        /\ speech[island].start <= runs[1].start /\ runs[1].stop <= speech[island].stop
        /\ speech[island].stop \in Nat /\ speech[island].start \in Nat
        /\ \A x \in Nat : Within(runs[1], x) => Speaks(x, runs[1].label)
    <2>1. runs # <<>> /\ island \in DOMAIN speech
      BY <1>0 DEF RunsInv
    <2>2. 1 \in DOMAIN runs /\ runs[1].start \in Nat /\ runs[1].stop \in Nat
      BY <1>1, <2>1, RunParts
    <2>3. island <= Len(speech) /\ speech[island].stop \in Nat /\ speech[island].start \in Nat
      BY <1>0, <2>1, SpeechParts
    <2> QED BY <1>0, <2>1, <2>2, <2>3 DEF RunsInv
  <1>5. /\ Apart(regions)
        /\ \A r \in 1..n : regions[r].stop <= region.start
        /\ \A x \in Nat : InSpans(regions, x) <=> Projected(x)
        /\ \A r \in 1..n :
              /\ regions[r].stop - regions[r].start \in 1..RegionMax
              /\ \E j \in DOMAIN speech : /\ speech[j].start <= regions[r].start
                                          /\ regions[r].stop <= speech[j].stop
              /\ \A x \in Nat : Within(regions[r], x) => Speaks(x, regions[r].label)
    BY <1>0, <1>1, <1>4 DEF RegionsInv, Frontier
  <1> HIDE DEF n
  <1>6. \A r \in 1..(n + 1) : r \in 1..n \/ r = n + 1
    BY <1>1
  <1>7. \A r \in 1..(n + 1) : regions'[r].stop <= region.stop /\ regions'[r].label \in Nat
    <2>1. ASSUME NEW r \in 1..n
          PROVE  regions[r].stop <= region.stop
      <3>1. regions[r].stop <= region.start /\ regions[r].stop \in Nat /\ region.start < region.stop
        BY <1>1, <1>5
      <3> QED BY <1>2, <3>1
    <2> QED BY <1>1, <1>2, <1>3, <1>6, <2>1
  <1>8. Apart(regions)'
    <2>1. \A r \in 1..(n + 1) : regions'[r].start < regions'[r].stop
      BY <1>3, <1>5, <1>6, <1>1 DEF Apart
    <2>2. ASSUME NEW i \in 1..(n + 1), NEW j \in 1..(n + 1), i < j
          PROVE  regions'[i].stop <= regions'[j].start
      <3>1. i \in 1..n
        BY <1>1, <2>2
      <3>2. CASE j \in 1..n
        BY <1>1, <1>3, <1>5, <2>2, <3>1, <3>2 DEF Apart
      <3>3. CASE j = n + 1
        BY <1>3, <1>5, <3>1, <3>3
      <3> QED BY <1>6, <3>2, <3>3
    <2> QED BY <1>3, <2>1, <2>2 DEF Apart
  <1>9. ASSUME NEW x \in Nat
        PROVE  InSpans(regions, x)' <=> Projected(x) \/ Within(region, x)
    <2>1. InSpans(regions, x) => InSpans(regions, x)'
      BY <1>1, <1>3 DEF InSpans
    <2>2. Within(region, x) => InSpans(regions, x)'
      <3>1. n + 1 \in 1..(n + 1)
        BY <1>1
      <3> QED BY <1>3, <3>1 DEF InSpans
    <2>3. InSpans(regions, x)' => InSpans(regions, x) \/ Within(region, x)
      BY <1>1, <1>3, <1>6 DEF InSpans
    <2> QED BY <1>5, <2>1, <2>2, <2>3
  <1>10. /\ region.stop - region.start \in 1..RegionMax
         /\ \E j \in DOMAIN speech : /\ speech[j].start <= region.start
                                     /\ region.stop <= speech[j].stop
         /\ \A x \in Nat : Within(region, x) => Speaks(x, region.label)
    <2>1. region.stop - region.start \in 1..RegionMax
      BY <1>2, WindowSizes
    <2>2. speech[island].start <= region.start /\ region.stop <= speech[island].stop
      BY <1>2, <1>4
    <2>3. \A x \in Nat : Within(region, x) => Within(runs[1], x)
      BY <1>2, <1>4 DEF Within
    <2> QED BY <1>4, <2>1, <2>2, <2>3
  <1>11. \A r \in 1..(n + 1) :
            /\ regions'[r].stop - regions'[r].start \in 1..RegionMax
            /\ \E j \in DOMAIN speech : /\ speech[j].start <= regions'[r].start
                                        /\ regions'[r].stop <= speech[j].stop
            /\ \A x \in Nat : Within(regions'[r], x) => Speaks(x, regions'[r].label)
    <2> SUFFICES ASSUME NEW r \in 1..(n + 1)
                 PROVE  /\ regions'[r].stop - regions'[r].start \in 1..RegionMax
                        /\ \E j \in DOMAIN speech : /\ speech[j].start <= regions'[r].start
                                                    /\ regions'[r].stop <= speech[j].stop
                        /\ \A x \in Nat : Within(regions'[r], x) => Speaks(x, regions'[r].label)
      OBVIOUS
    <2>1. CASE r \in 1..n
      BY <1>3, <1>5, <2>1
    <2>2. CASE r = n + 1
      <3>1. regions'[r] = region
        BY <1>3, <2>2
      <3> QED BY <1>10, <3>1
    <2> QED BY <1>6, <2>1, <2>2
  <1> QED BY <1>3, <1>7, <1>8, <1>9, <1>11

LEMMA TakeIslandKeeps == DiarizationInv /\ TakeIsland => DiarizationInv'
  <1> SUFFICES ASSUME DiarizationInv, TakeIsland PROVE DiarizationInv'
    OBVIOUS
  <1>0. /\ DiarizationTypeOK /\ InputInv /\ RegionsInv /\ Projecting /\ stage = "project"
        /\ island <= Len(speech) /\ stage' = "scan" /\ runs' = <<>>
    BY DEF DiarizationInv, TakeIsland, Projecting, Enters
  <1>1. /\ input' = input
        /\ UNCHANGED <<island, segment, covered, met, pieces, gridStart, windows, labels, boundaries, regions>>
    BY DEF TakeIsland, merging, embedding
  <1>2. /\ InputInv' /\ StartInv' /\ CursorsInv' /\ PiecesInv' /\ WindowsInv' /\ CellsInv'
        /\ UNCHANGED <<total, speech, sources>>
    BY <1>0, <1>1, ProjectFrame
  <1>3. PICK c \in 1..(Len(labels) + 1) :
           /\ \A i \in 1..(c - 1) : boundaries[i + 1] <= speech[island].start
           /\ cell' = c
    BY DEF TakeIsland
  <1>4. /\ island \in DOMAIN speech /\ speech[island].start \in Nat /\ speech[island].stop \in Nat
        /\ speech[island].start < speech[island].stop
    <2>1. island \in 1..(Len(speech) + 1)
      BY <1>0 DEF RegionsInv
    <2> QED BY <1>0, <2>1, SpeechParts
  <1>5. /\ Len(labels) \in Nat /\ boundaries[1] = 0
        /\ \A i \in 1..(Len(labels) + 1) : boundaries[i] \in Nat
    BY <1>0, CellParts
  <1>6. boundaries[c] \in Nat /\ boundaries[c] <= speech[island].start
    <2>1. CASE c = 1
      BY <1>4, <1>5, <2>1
    <2>2. CASE c > 1
      <3>1. c - 1 \in 1..(c - 1) /\ (c - 1) + 1 = c
        BY <1>5, <2>2
      <3>2. boundaries[(c - 1) + 1] <= speech[island].start
        BY <1>3, <3>1
      <3> QED BY <1>5, <3>1, <3>2
    <2> QED BY <1>5, <2>1, <2>2
  <1>7. speech[island].start = Greatest(speech[island].start, Least(speech[island].stop, boundaries[c]))
    BY <1>4, <1>6 DEF Greatest, Least
  <1>8. ScannedTo' = speech[island].start
    BY <1>0, <1>1, <1>2 DEF ScannedTo
  <1>9. RunsInv'
    <2>1. DOMAIN runs' = {}
      BY <1>0
    <2> QED BY <1>0, <1>1, <1>2, <1>3, <1>4, <1>7, <1>8, <2>1 DEF RunsInv
  <1>10. DiarizationTypeOK'
    BY <1>0, <1>1, <1>2, <1>3, <1>5 DEF DiarizationTypeOK
  <1>11. RegionsInv'
    BY <1>0, <1>1, RegionsKept
  <1>12. RegionsPartitionSpeech' /\ NearestWindowSpeaks'
    BY <1>0 DEF RegionsPartitionSpeech, NearestWindowSpeaks
  <1> QED BY <1>0, <1>2, <1>9, <1>10, <1>11, <1>12 DEF DiarizationInv

(* What one cell has of the island: it begins where the cells before ended *)
(* and ends where the next cell begins.                                    *)
LEMMA CellOfIsland ==
  ASSUME DiarizationInv, Scanning
  PROVE  LET from == InCell.start
             to == InCell.stop
             next == Greatest(speech[island].start, Least(speech[island].stop, boundaries[cell + 1]))
         IN /\ from \in Nat /\ to \in Nat /\ InCell \in Run /\ InCell.label = labels[cell]
            /\ speech[island].start <= from /\ to <= speech[island].stop
            /\ from = ScannedTo
            /\ from >= to => next = from
            /\ from < to => next = to
            /\ \A x \in Nat : from <= x /\ x < to => Speaks(x, labels[cell])
  <1> DEFINE from == InCell.start
             to == InCell.stop
             low == speech[island].start
             high == speech[island].stop
             left == boundaries[cell]
             right == boundaries[cell + 1]
  <1>0. /\ DiarizationTypeOK /\ InputInv /\ RunsInv /\ Projecting /\ stage = "scan"
        /\ cell <= Len(labels) /\ left < high
    BY DEF DiarizationInv, Projecting, Scanning
  <1>1. /\ island \in DOMAIN speech /\ cell \in 1..(Len(labels) + 1)
        /\ ScannedTo = Greatest(low, Least(high, left))
    BY <1>0 DEF RunsInv
  <1>2. low \in Nat /\ high \in Nat /\ low < high
    BY <1>0, <1>1, SpeechParts
  <1>3. /\ cell \in DOMAIN windows /\ labels[cell] \in Nat
        /\ left \in Nat /\ right \in Nat /\ left <= right
    <2>1. /\ Len(labels) \in Nat /\ DOMAIN windows = 1..Len(labels)
          /\ \A i \in 1..Len(labels) : labels[i] \in Nat /\ boundaries[i] <= boundaries[i + 1]
          /\ \A i \in 1..(Len(labels) + 1) : boundaries[i] \in Nat
      BY <1>0, CellParts
    <2>2. cell \in 1..Len(labels) /\ cell + 1 \in 1..(Len(labels) + 1)
      BY <1>0, <1>1, <2>1
    <2> QED BY <1>1, <2>1, <2>2
  <1>4. from = Greatest(low, left) /\ to = Least(high, right) /\ InCell.label = labels[cell]
    BY DEF InCell
  <1>5. InCell \in Run
    <2>1. Greatest(low, left) \in Nat /\ Least(high, right) \in Nat
      BY <1>2, <1>3 DEF Greatest, Least
    <2> QED BY <1>3, <2>1 DEF InCell, Run
  <1> HIDE DEF from, to, low, high, left, right
  <1>6. /\ from \in Nat /\ to \in Nat /\ low <= from /\ left <= from /\ to <= high /\ to <= right
        /\ from = Greatest(low, Least(high, left))
        /\ from >= to => Greatest(low, Least(high, right)) = from
        /\ from < to => Greatest(low, Least(high, right)) = to
    BY <1>0, <1>2, <1>3, <1>4 DEF Greatest, Least
  <1>7. ASSUME NEW x \in Nat, from <= x, x < to
        PROVE  Speaks(x, labels[cell])
    <2>1. left <= x /\ x < right
      BY <1>3, <1>6, <1>7
    <2>2. InCellOf(cell, x)
      BY <2>1 DEF InCellOf, left, right
    <2> QED BY <1>3, <2>2 DEF Speaks
  <1> QED BY <1>1, <1>4, <1>5, <1>6, <1>7 DEF from, to, low, high, right

LEMMA ScanCellKeeps == DiarizationInv /\ ScanCell => DiarizationInv'
  <1> SUFFICES ASSUME DiarizationInv, ScanCell PROVE DiarizationInv'
    OBVIOUS
  <1> DEFINE from == InCell.start
             to == InCell.stop
             low == speech[island].start
             high == speech[island].stop
             next == Greatest(low, Least(high, boundaries[cell + 1]))
             m == Len(runs)
  <1>0. /\ DiarizationTypeOK /\ InputInv /\ RunsInv /\ RegionsInv /\ Projecting
        /\ Scanning /\ stage = "scan" /\ cell <= Len(labels) /\ stage' = "scan" /\ cell' = cell + 1
    BY DEF DiarizationInv, ScanCell, Scanning, Projecting
  <1>1. /\ input' = input
        /\ UNCHANGED <<island, segment, covered, met, pieces, gridStart, windows, labels, boundaries, regions>>
    BY DEF ScanCell, merging, embedding
  <1>2. /\ InputInv' /\ StartInv' /\ CursorsInv' /\ PiecesInv' /\ WindowsInv' /\ CellsInv'
        /\ UNCHANGED <<total, speech, sources>>
        /\ \A x, label \in Nat : Speaks(x, label)' <=> Speaks(x, label)
    BY <1>0, <1>1, ProjectFrame
  <1>3. /\ from \in Nat /\ to \in Nat /\ InCell \in Run /\ InCell.label = labels[cell]
        /\ low <= from /\ to <= high
        /\ from = ScannedTo
        /\ from >= to => next = from
        /\ from < to => next = to
        /\ \A x \in Nat : from <= x /\ x < to => Speaks(x, labels[cell])
    BY <1>0, CellOfIsland
  <1>4. /\ runs \in Seq(Run) /\ m \in Nat /\ DOMAIN runs = 1..m
        /\ runs # <<>> => m \in 1..m /\ 1 \in 1..m
        /\ \A k \in 1..m : /\ runs[k] \in Run /\ k \in Nat
                           /\ runs[k].start \in Nat /\ runs[k].stop \in Nat /\ runs[k].label \in Nat
    BY <1>0, RunParts DEF DiarizationTypeOK
  <1>5. /\ island \in DOMAIN speech
        /\ \A k \in 1..m :
              /\ low <= runs[k].start /\ runs[k].stop <= high /\ runs[k].start < runs[k].stop
              /\ \A x \in Nat : Within(runs[k], x) => Speaks(x, runs[k].label)
              /\ k + 1 \in 1..m => runs[k + 1].start = runs[k].stop
        /\ cell \in 1..(Len(labels) + 1)
        /\ runs # <<>> => runs[1].start = low
    BY <1>0, <1>4 DEF RunsInv
  <1>6. /\ runs = <<>> => from = low
        /\ runs # <<>> => from = runs[m].stop
    BY <1>3 DEF ScannedTo
  <1>7. cell' \in 1..(Len(labels) + 1) /\ cell' \in Nat
    <2>1. Len(labels) \in Nat
      BY <1>0 DEF DiarizationTypeOK
    <2> QED BY <1>0, <1>5, <2>1
  <1>8. next = Greatest(low, Least(high, boundaries'[cell']))
    BY <1>0, <1>1
  <1> DEFINE
       Good(list) ==
          /\ list \in Seq(Run)
          /\ \A k \in DOMAIN list :
                /\ low <= list[k].start /\ list[k].stop <= high /\ list[k].start < list[k].stop
                /\ \A x \in Nat : Within(list[k], x) => Speaks(x, list[k].label)
                /\ k + 1 \in DOMAIN list => list[k + 1].start = list[k].stop
          /\ list # <<>> => list[1].start = low
          /\ next = IF list = <<>> THEN low ELSE list[Len(list)].stop
  <1>9. Good(runs')
    <2>1. runs' = IF from >= to THEN runs
                  ELSE IF Joins(from) THEN [runs EXCEPT ![m].stop = to]
                  ELSE Append(runs, InCell)
      BY DEF ScanCell
    <2> HIDE DEF from, to, low, high, next
    <2>2. CASE from >= to
      <3>1. runs' = runs
        BY <2>1, <2>2
      <3>2. next = IF runs = <<>> THEN low ELSE runs[m].stop
        BY <1>3, <1>6, <2>2
      <3> QED BY <1>4, <1>5, <3>1, <3>2
    <2>3. CASE from < to /\ Joins(from)
      <3>1. /\ runs # <<>> /\ runs[m].stop = from /\ runs[m].label = labels[cell]
            /\ next = to /\ m \in 1..m
        BY <1>3, <1>4, <2>3 DEF Joins
      <3>2. runs' = [runs EXCEPT ![m].stop = to]
        BY <1>3, <2>1, <2>3
      <3> DEFINE last == [runs[m] EXCEPT !.stop = to]
      <3>3. last \in Run /\ last.start = runs[m].start /\ last.stop = to /\ last.label = runs[m].label
        BY <1>3, <1>4, <3>1 DEF Run
      <3>4. runs' = [runs EXCEPT ![m] = last]
        BY <3>2
      <3> HIDE DEF last
      <3>4a. Len(runs) = m
        OBVIOUS
      <3> HIDE DEF m
      <3>5. /\ runs' \in Seq(Run) /\ DOMAIN runs' = 1..m /\ Len(runs') = m
            /\ runs'[m] = last /\ \A k \in 1..m : k # m => runs'[k] = runs[k]
        <4>1. DOMAIN runs' = 1..m /\ runs'[m] = last /\ \A k \in 1..m : k # m => runs'[k] = runs[k]
          BY <1>4, <3>1, <3>4
        <4>2. \A k \in 1..m : runs'[k] \in Run
          BY <1>4, <3>3, <4>1
        <4>3. runs' \in Seq(Run) /\ Len(runs') = m
          BY <1>4, <3>1, <3>3, <3>4, <3>4a
        <4> QED BY <4>1, <4>3
      <3>6. runs' # <<>> /\ next = runs'[Len(runs')].stop /\ runs'[1].start = low
        <4>1. DOMAIN runs' # {}
          BY <3>1, <3>5
        <4>2. runs'[1].start = runs[1].start
          BY <1>4, <3>1, <3>3, <3>5
        <4> QED BY <1>5, <3>1, <3>3, <3>5, <4>1, <4>2
      <3>7. ASSUME NEW k \in 1..m
            PROVE  /\ low <= runs'[k].start /\ runs'[k].stop <= high /\ runs'[k].start < runs'[k].stop
                   /\ \A x \in Nat : Within(runs'[k], x) => Speaks(x, runs'[k].label)
        <4>1. CASE k # m
          BY <1>5, <3>5, <4>1
        <4>2. CASE k = m
          <5>1. runs'[k] = last
            BY <3>5, <4>2
          <5>2. low <= last.start /\ last.stop <= high /\ last.start < last.stop
            BY <1>3, <1>4, <1>5, <2>3, <3>1, <3>3
          <5>3. ASSUME NEW x \in Nat, Within(last, x)
                PROVE  Speaks(x, last.label)
            <6>1. CASE x < from
              <7>1. Within(runs[m], x)
                BY <3>1, <3>3, <5>3, <6>1 DEF Within
              <7> QED BY <1>5, <3>1, <3>3, <7>1
            <6>2. CASE from <= x
              <7>1. x < to
                BY <3>3, <5>3 DEF Within
              <7> QED BY <1>3, <3>1, <3>3, <6>2, <7>1
            <6> QED BY <1>3, <6>1, <6>2
          <5> QED BY <5>1, <5>2, <5>3
        <4> QED BY <4>1, <4>2
      <3>8. ASSUME NEW k \in 1..m, k + 1 \in 1..m
            PROVE  runs'[k + 1].start = runs'[k].stop
        <4>1. k # m /\ runs'[k] = runs[k]
          BY <1>4, <3>5, <3>8
        <4>2. runs'[k + 1].start = runs[k + 1].start
          BY <3>3, <3>5, <3>8
        <4> QED BY <1>5, <3>8, <4>1, <4>2
      <3> QED BY <3>5, <3>6, <3>7, <3>8
    <2>4. CASE from < to /\ ~Joins(from)
      <3>1. runs' = Append(runs, InCell) /\ next = to
        BY <1>3, <2>1, <2>4
      <3>2. /\ runs' \in Seq(Run) /\ DOMAIN runs' = 1..(m + 1) /\ Len(runs') = m + 1
            /\ runs'[m + 1] = InCell /\ \A k \in 1..m : runs'[k] = runs[k]
        BY <1>3, <1>4, <3>1
      <3>3. InCell.start = from /\ InCell.stop = to
        BY DEF from, to
      <3>3a. runs = <<>> => m = 0
        BY <1>4
      <3> HIDE DEF m
      <3>4. \A k \in 1..(m + 1) : k \in 1..m \/ k = m + 1
        BY <1>4
      <3>5. runs' # <<>> /\ next = runs'[Len(runs')].stop /\ runs'[1].start = low
        <4>1. m + 1 \in DOMAIN runs'
          BY <1>4, <3>2
        <4>2. CASE runs = <<>>
          BY <1>6, <3>1, <3>2, <3>3, <3>3a, <4>1, <4>2
        <4>3. CASE runs # <<>>
          BY <1>4, <1>5, <3>1, <3>2, <3>3, <4>1, <4>3
        <4> QED BY <4>2, <4>3
      <3>6. ASSUME NEW k \in 1..(m + 1)
            PROVE  /\ low <= runs'[k].start /\ runs'[k].stop <= high /\ runs'[k].start < runs'[k].stop
                   /\ \A x \in Nat : Within(runs'[k], x) => Speaks(x, runs'[k].label)
        <4>1. CASE k \in 1..m
          BY <1>5, <3>2, <4>1
        <4>2. CASE k = m + 1
          <5>1. runs'[k] = InCell
            BY <3>2, <4>2
          <5>2. \A x \in Nat : Within(InCell, x) => Speaks(x, InCell.label)
            BY <1>3, <3>3 DEF Within
          <5> QED BY <1>3, <2>4, <3>3, <5>1, <5>2
        <4> QED BY <3>4, <4>1, <4>2
      <3>7. ASSUME NEW k \in 1..(m + 1), k + 1 \in 1..(m + 1)
            PROVE  runs'[k + 1].start = runs'[k].stop
        <4>1. k \in 1..m /\ (k + 1 \in 1..m \/ k + 1 = m + 1)
          BY <1>4, <3>7
        <4>2. CASE k + 1 \in 1..m
          BY <1>5, <3>2, <4>1, <4>2
        <4>3. CASE k + 1 = m + 1
          <5>1. k = m /\ runs # <<>>
            BY <1>4, <3>3a, <4>1, <4>3
          <5> QED BY <1>6, <3>2, <3>3, <4>1, <4>3, <5>1
        <4> QED BY <4>1, <4>2, <4>3
      <3> QED BY <3>2, <3>5, <3>6, <3>7
    <2> QED BY <1>3, <2>2, <2>3, <2>4
  <1>10. RunsInv'
    <2>1. ScannedTo' = IF runs' = <<>> THEN low ELSE runs'[Len(runs')].stop
      BY <1>1, <1>2 DEF ScannedTo
    <2> HIDE DEF next, low, high
    <2>2. /\ \A k \in DOMAIN runs' :
                /\ low <= runs'[k].start /\ runs'[k].stop <= high /\ runs'[k].start < runs'[k].stop
                /\ \A x \in Nat : Within(runs'[k], x) => Speaks(x, runs'[k].label)
                /\ k + 1 \in DOMAIN runs' => runs'[k + 1].start = runs'[k].stop
          /\ runs' # <<>> => runs'[1].start = low
          /\ ScannedTo' = next
      BY <1>9, <2>1
    <2>3. \A k \in DOMAIN runs' : runs'[k].label \in Nat
      BY <1>9, RunParts
    <2>4. \A k \in DOMAIN runs' : \A x \in Nat : (Within(runs[k], x) => Speaks(x, runs[k].label))'
      BY <1>2, <2>2, <2>3
    <2>5. /\ low = speech'[island'].start /\ high = speech'[island'].stop
          /\ island' \in DOMAIN speech' /\ cell' \in 1..(Len(labels') + 1)
      <3>1. speech' = speech /\ island' = island /\ labels' = labels
        BY <1>1, <1>2
      <3> QED BY <1>5, <1>7, <3>1 DEF low, high
    <2>6. /\ \A k \in DOMAIN runs' :
                /\ speech'[island'].start <= runs'[k].start /\ runs'[k].stop <= speech'[island'].stop
                /\ runs'[k].start < runs'[k].stop
                /\ k + 1 \in DOMAIN runs' => runs'[k + 1].start = runs'[k].stop
          /\ runs' # <<>> => runs'[1].start = speech'[island'].start
          /\ ScannedTo' = Greatest(speech'[island'].start, Least(speech'[island'].stop, boundaries'[cell']))
      BY <1>8, <2>2, <2>5
    <2> HIDE DEF Good, m, from, to
    <2> QED BY <1>0, <2>4, <2>5, <2>6 DEF RunsInv
  <1>11. DiarizationTypeOK'
    BY <1>0, <1>1, <1>2, <1>7, <1>9 DEF DiarizationTypeOK
  <1>12. RegionsInv'
    BY <1>0, <1>1, RegionsKept
  <1>13. RegionsPartitionSpeech' /\ NearestWindowSpeaks'
    BY <1>0 DEF RegionsPartitionSpeech, NearestWindowSpeaks
  <1> QED BY <1>0, <1>2, <1>10, <1>11, <1>12, <1>13 DEF DiarizationInv

LEMMA EndScanKeeps == DiarizationInv /\ EndScan => DiarizationInv'
  <1> SUFFICES ASSUME DiarizationInv, EndScan PROVE DiarizationInv'
    OBVIOUS
  <1> DEFINE low == speech[island].start
             high == speech[island].stop
  <1>0. /\ DiarizationTypeOK /\ InputInv /\ RunsInv /\ RegionsInv /\ Projecting
        /\ stage = "scan" /\ ~Scanning
    BY DEF DiarizationInv, EndScan, Projecting
  <1>1. /\ input' = input
        /\ UNCHANGED <<island, segment, covered, met, pieces, gridStart, windows, labels, boundaries,
                       cell, runs, regions>>
    BY DEF EndScan, merging, embedding, projecting
  <1>2. /\ island \in DOMAIN speech /\ cell \in 1..(Len(labels) + 1) /\ Len(labels) \in Nat
        /\ ScannedTo = Greatest(low, Least(high, boundaries[cell]))
        /\ runs # <<>> => runs[1].start = low
    BY <1>0 DEF RunsInv, DiarizationTypeOK
  <1>3. low \in Nat /\ high \in Nat /\ low < high /\ high <= total /\ island <= Len(speech)
    BY <1>0, <1>2, SpeechParts
  <1>4. boundaries[cell] \in Nat /\ high <= boundaries[cell] /\ total \in Nat
    <2>1. /\ boundaries[Len(labels) + 1] = total
          /\ \A i \in 1..(Len(labels) + 1) : boundaries[i] \in Nat
          /\ total \in Nat
      BY <1>0, CellParts
    <2>2. cell > Len(labels) \/ boundaries[cell] >= high
      BY <1>0, <1>2, <1>3, <2>1 DEF Scanning
    <2>3. cell > Len(labels) => cell = Len(labels) + 1
      BY <1>2
    <2> QED BY <1>2, <1>3, <2>1, <2>2, <2>3
  <1>5. ScannedTo = high
    <2> HIDE DEF low, high
    <2> QED BY <1>2, <1>3, <1>4 DEF Greatest, Least
  <1>6. runs # <<>> /\ runs[Len(runs)].stop = high
    BY <1>3, <1>5 DEF ScannedTo
  <1>7. stage' = "cut"
    BY <1>6 DEF EndScan, Enters
  <1>8. /\ InputInv' /\ StartInv' /\ CursorsInv' /\ PiecesInv' /\ WindowsInv' /\ CellsInv'
        /\ UNCHANGED <<total, speech, sources>>
        /\ \A x, label \in Nat : Speaks(x, label)' <=> Speaks(x, label)
    BY <1>0, <1>1, <1>7, ProjectFrame
  <1>9. RunsInv'
    <2>1. \A k \in DOMAIN runs : runs[k].label \in Nat
      BY <1>0, RunParts DEF DiarizationTypeOK
    <2>2. \A k \in DOMAIN runs : \A x \in Nat : (Within(runs[k], x) => Speaks(x, runs[k].label))'
      BY <1>0, <1>1, <1>8, <2>1 DEF RunsInv
    <2>3. /\ UNCHANGED <<runs, island, speech>> /\ low = speech'[island'].start /\ high = speech'[island'].stop
      BY <1>1, <1>8
    <2>4. /\ island \in DOMAIN speech
          /\ \A k \in DOMAIN runs :
                /\ low <= runs[k].start /\ runs[k].stop <= high /\ runs[k].start < runs[k].stop
                /\ k + 1 \in DOMAIN runs => runs[k + 1].start = runs[k].stop
      BY <1>0 DEF RunsInv
    <2> HIDE DEF low, high
    <2> QED BY <1>6, <1>7, <2>2, <2>3, <2>4 DEF RunsInv
  <1>10. DiarizationTypeOK'
    BY <1>0, <1>1, <1>7, <1>8 DEF DiarizationTypeOK
  <1>11. RegionsInv'
    BY <1>0, <1>1, <1>2, <1>3, <1>6, <1>7, RegionsKept
  <1>12. RegionsPartitionSpeech' /\ NearestWindowSpeaks'
    BY <1>7 DEF RegionsPartitionSpeech, NearestWindowSpeaks
  <1> QED BY <1>7, <1>8, <1>9, <1>10, <1>11, <1>12 DEF DiarizationInv

(* What is known of the runs while they are cut.                           *)
LEMMA CuttingParts ==
  ASSUME DiarizationInv, stage = "cut"
  PROVE  /\ runs \in Seq(Run) /\ Len(runs) \in Nat /\ Len(runs) >= 1 /\ DOMAIN runs = 1..Len(runs)
         /\ island \in DOMAIN speech /\ island \in 1..Len(speech)
         /\ speech[island].start \in Nat /\ speech[island].stop \in Nat
         /\ \A k \in 1..Len(runs) :
               /\ runs[k] \in Run /\ runs[k].start \in Nat /\ runs[k].stop \in Nat /\ runs[k].label \in Nat
               /\ speech[island].start <= runs[k].start /\ runs[k].stop <= speech[island].stop
               /\ runs[k].start < runs[k].stop
               /\ \A x \in Nat : Within(runs[k], x) => Speaks(x, runs[k].label)
               /\ k + 1 \in 1..Len(runs) => runs[k + 1].start = runs[k].stop
         /\ runs[Len(runs)].stop = speech[island].stop
  <1>0. DiarizationTypeOK /\ InputInv /\ RunsInv
    BY DEF DiarizationInv
  <1>1. runs \in Seq(Run) /\ runs # <<>> /\ island \in DOMAIN speech
    BY <1>0 DEF DiarizationTypeOK, RunsInv
  <1>2. /\ Len(runs) \in Nat /\ Len(runs) >= 1 /\ DOMAIN runs = 1..Len(runs)
        /\ \A k \in 1..Len(runs) :
              runs[k] \in Run /\ runs[k].start \in Nat /\ runs[k].stop \in Nat /\ runs[k].label \in Nat
    BY <1>1, RunParts
  <1>3. island \in 1..Len(speech) /\ speech[island].start \in Nat /\ speech[island].stop \in Nat
    BY <1>0, <1>1, SpeechParts
  <1> QED BY <1>0, <1>1, <1>2, <1>3 DEF RunsInv

LEMMA CutRunKeeps == DiarizationInv /\ CutRun => DiarizationInv'
  <1> SUFFICES ASSUME DiarizationInv, CutRun PROVE DiarizationInv'
    OBVIOUS
  <1> DEFINE first == runs[1]
             split == first.start + RegionMax
             region == [first EXCEPT !.stop = split]
             rest == [first EXCEPT !.start = split]
             n == Len(runs)
             low == speech[island].start
             high == speech[island].stop
  <1>0. /\ DiarizationTypeOK /\ InputInv /\ RegionsInv /\ Projecting
        /\ stage = "cut" /\ stage' = "cut" /\ ~Fits(runs[1])
    BY DEF DiarizationInv, CutRun, Projecting
  <1>1. /\ input' = input
        /\ UNCHANGED <<island, segment, covered, met, pieces, gridStart, windows, labels, boundaries, cell>>
    BY DEF CutRun, merging, embedding
  <1>2. /\ InputInv' /\ StartInv' /\ CursorsInv' /\ PiecesInv' /\ WindowsInv' /\ CellsInv'
        /\ UNCHANGED <<total, speech, sources>>
        /\ \A x, label \in Nat : Speaks(x, label)' <=> Speaks(x, label)
    BY <1>0, <1>1, ProjectFrame
  <1>3. /\ runs \in Seq(Run) /\ n \in Nat /\ n >= 1 /\ DOMAIN runs = 1..n
        /\ island \in DOMAIN speech /\ island \in 1..Len(speech)
        /\ low \in Nat /\ high \in Nat
        /\ \A k \in 1..n :
              /\ runs[k] \in Run /\ runs[k].start \in Nat /\ runs[k].stop \in Nat /\ runs[k].label \in Nat
              /\ low <= runs[k].start /\ runs[k].stop <= high
              /\ runs[k].start < runs[k].stop
              /\ \A x \in Nat : Within(runs[k], x) => Speaks(x, runs[k].label)
              /\ k + 1 \in 1..n => runs[k + 1].start = runs[k].stop
        /\ runs[n].stop = high
    BY <1>0, CuttingParts
  <1>4. 1 \in 1..n
    BY <1>3
  <1>5. split \in Nat /\ first.start < split /\ split < first.stop
    <2>1. first.start \in Nat /\ first.stop \in Nat /\ ~(first.stop - first.start <= RegionMax)
      BY <1>0, <1>3, <1>4 DEF Fits
    <2> HIDE DEF first
    <2> QED BY <2>1, WindowSizes
  <1>6. /\ region \in Run /\ region.start = first.start /\ region.label = first.label /\ region.stop = split
        /\ rest \in Run /\ rest.start = split /\ rest.label = first.label /\ rest.stop = first.stop
    <2>1. first \in Run
      BY <1>3, <1>4
    <2> HIDE DEF first
    <2> QED BY <1>5, <2>1 DEF Run
  <1>7. regions' = Append(regions, region) /\ runs' = [runs EXCEPT ![1] = rest]
    BY DEF CutRun
  <1>7a. Len(runs) = n
    OBVIOUS
  <1> HIDE DEF region, rest, split, n, low, high
  <1>8. /\ runs' \in Seq(Run) /\ DOMAIN runs' = 1..n /\ Len(runs') = n
        /\ runs'[1] = rest /\ \A k \in 1..n : k # 1 => runs'[k] = runs[k]
    <2>1. DOMAIN runs' = 1..n /\ runs'[1] = rest /\ \A k \in 1..n : k # 1 => runs'[k] = runs[k]
      BY <1>3, <1>4, <1>7
    <2>2. runs' \in Seq(Run) /\ Len(runs') = n
      BY <1>3, <1>4, <1>6, <1>7, <1>7a
    <2> QED BY <2>1, <2>2
  <1>9. region.stop - region.start <= RegionMax
    <2>1. first.start \in Nat
      BY <1>3, <1>4
    <2> HIDE DEF first
    <2> QED BY <1>6, <2>1, WindowSizes DEF split
  <1>10. /\ regions' \in Seq(Run) /\ Apart(regions)'
         /\ \A r \in DOMAIN regions' : regions'[r].stop <= region.stop
         /\ \A x \in Nat : InSpans(regions, x)' <=> Projected(x) \/ Within(region, x)
         /\ \A r \in DOMAIN regions' :
               /\ regions'[r].stop - regions'[r].start \in 1..RegionMax
               /\ \E j \in DOMAIN speech : /\ speech[j].start <= regions'[r].start
                                           /\ regions'[r].stop <= speech[j].stop
               /\ \A x \in Nat : Within(regions'[r], x) => Speaks(x, regions'[r].label)
               /\ regions'[r].label \in Nat
    <2>1. region.stop <= runs[1].stop
      BY <1>3, <1>4, <1>5, <1>6
    <2> QED BY <1>0, <1>5, <1>6, <1>7, <1>9, <2>1, RegionAdded
  <1>11. DiarizationTypeOK'
    BY <1>0, <1>1, <1>2, <1>8, <1>10 DEF DiarizationTypeOK
  <1>12. RunsInv'
    <2>1. /\ low <= rest.start /\ rest.stop <= high /\ rest.start < rest.stop
          /\ \A x \in Nat : Within(rest, x) => Speaks(x, rest.label)
      <3>1. low <= first.start /\ first.stop <= high /\ first.start \in Nat /\ first.stop \in Nat
        BY <1>3, <1>4
      <3>2. \A x \in Nat : Within(rest, x) => Within(first, x)
        BY <1>5, <1>6, <3>1 DEF Within
      <3>3. \A x \in Nat : Within(first, x) => Speaks(x, first.label)
        BY <1>3, <1>4
      <3> HIDE DEF first
      <3> QED BY <1>3, <1>5, <1>6, <3>1, <3>2, <3>3
    <2>2. ASSUME NEW k \in 1..n
          PROVE  /\ low <= runs'[k].start /\ runs'[k].stop <= high /\ runs'[k].start < runs'[k].stop
                 /\ \A x \in Nat : Within(runs'[k], x) => Speaks(x, runs'[k].label)
                 /\ runs'[k].label \in Nat /\ runs'[k].stop = runs[k].stop
      <3>1. CASE k = 1
        <4>1. runs'[k] = rest /\ runs[k] = first
          BY <1>8, <3>1
        <4>2. first.label \in Nat
          BY <1>3, <1>4
        <4> HIDE DEF first
        <4> QED BY <1>6, <2>1, <4>1, <4>2
      <3>2. CASE k # 1
        BY <1>3, <1>8, <3>2
      <3> QED BY <3>1, <3>2
    <2>3. ASSUME NEW k \in 1..n, k + 1 \in 1..n
          PROVE  runs'[k + 1].start = runs'[k].stop
      <3>1. k + 1 # 1
        OBVIOUS
      <3>2. runs'[k + 1] = runs[k + 1]
        BY <1>8, <2>3, <3>1
      <3> QED BY <1>3, <2>2, <2>3, <3>2
    <2>4. /\ speech' = speech /\ island' = island /\ low = speech'[island'].start /\ high = speech'[island'].stop
      BY <1>1, <1>2 DEF low, high
    <2>5. \A k \in DOMAIN runs' : \A x \in Nat : (Within(runs[k], x) => Speaks(x, runs[k].label))'
      BY <1>2, <1>8, <2>2
    <2>6. runs' # <<>> /\ runs'[Len(runs')].stop = high
      <3>1. DOMAIN runs' # {} /\ n \in 1..n
        BY <1>3, <1>8
      <3> QED BY <1>3, <1>8, <2>2, <3>1
    <2> QED BY <1>0, <1>3, <1>8, <2>2, <2>3, <2>4, <2>5, <2>6 DEF RunsInv
  <1>13. RegionsInv'
    <2>1. Frontier' = split
      BY <1>0, <1>6, <1>8 DEF Frontier
    <2>2. ASSUME NEW x \in Nat
          PROVE  Projected(x)' <=> Projected(x) \/ Within(region, x)
      <3>1. first.start \in Nat /\ first.stop \in Nat /\ low <= first.start /\ first.stop <= high
        BY <1>3, <1>4
      <3>2. Within(region, x) => Within(speech[island], x)
        BY <1>3, <1>5, <1>6, <3>1 DEF Within, low, high
      <3>3. x < split <=> x < first.start \/ Within(region, x)
        BY <1>5, <1>6, <3>1 DEF Within
      <3>4. runs'[1].start = split
        BY <1>6, <1>8
      <3> QED BY <1>0, <1>1, <1>2, <1>3, <3>2, <3>3, <3>4 DEF Projected
    <2>3. /\ speech' = speech /\ island' = island
          /\ island \in 1..(Len(speech) + 1)
      BY <1>0, <1>1, <1>2 DEF RegionsInv
    <2>4. \A r \in DOMAIN regions' : \A x \in Nat : (Within(regions[r], x) => Speaks(x, regions[r].label))'
      BY <1>2, <1>10
    <2> QED BY <1>0, <1>6, <1>10, <2>1, <2>2, <2>3, <2>4 DEF RegionsInv
  <1>14. RegionsPartitionSpeech' /\ NearestWindowSpeaks'
    BY <1>0 DEF RegionsPartitionSpeech, NearestWindowSpeaks
  <1> QED BY <1>0, <1>2, <1>11, <1>12, <1>13, <1>14 DEF DiarizationInv

LEMMA LastOfRunKeeps == DiarizationInv /\ LastOfRun => DiarizationInv'
  <1> SUFFICES ASSUME DiarizationInv, LastOfRun PROVE DiarizationInv'
    OBVIOUS
  <1> DEFINE region == runs[1]
             n == Len(runs)
             low == speech[island].start
             high == speech[island].stop
  <1>0. /\ DiarizationTypeOK /\ InputInv /\ RegionsInv /\ Projecting
        /\ stage = "cut" /\ Fits(runs[1])
        /\ regions' = Append(regions, region) /\ runs' = Tail(runs)
    BY DEF DiarizationInv, LastOfRun, Projecting
  <1>1. /\ input' = input
        /\ UNCHANGED <<segment, covered, met, pieces, gridStart, windows, labels, boundaries, cell>>
        /\ IF runs' = <<>> THEN island' = island + 1 /\ stage' = "project"
           ELSE island' = island /\ stage' = "cut"
    BY <1>0 DEF LastOfRun, embedding, Enters
  <1>2. /\ InputInv' /\ StartInv' /\ CursorsInv' /\ PiecesInv' /\ WindowsInv' /\ CellsInv'
        /\ UNCHANGED <<total, speech, sources>>
        /\ \A x, label \in Nat : Speaks(x, label)' <=> Speaks(x, label)
    <2>1. stage' \in {"project", "cut"}
      BY <1>1
    <2> QED BY <1>0, <1>1, <2>1, ProjectFrame
  <1>3. /\ runs \in Seq(Run) /\ n \in Nat /\ n >= 1 /\ DOMAIN runs = 1..n
        /\ island \in DOMAIN speech /\ island \in 1..Len(speech)
        /\ low \in Nat /\ high \in Nat
        /\ \A k \in 1..n :
              /\ runs[k] \in Run /\ runs[k].start \in Nat /\ runs[k].stop \in Nat /\ runs[k].label \in Nat
              /\ low <= runs[k].start /\ runs[k].stop <= high
              /\ runs[k].start < runs[k].stop
              /\ \A x \in Nat : Within(runs[k], x) => Speaks(x, runs[k].label)
              /\ k + 1 \in 1..n => runs[k + 1].start = runs[k].stop
        /\ runs[n].stop = high
    BY <1>0, CuttingParts
  <1>4. /\ 1 \in 1..n /\ region \in Run /\ region.start \in Nat /\ region.stop \in Nat
        /\ low <= region.start /\ region.start < region.stop /\ region.stop <= high
    BY <1>3
  <1>5. /\ regions' \in Seq(Run) /\ Apart(regions)'
        /\ \A r \in DOMAIN regions' : regions'[r].stop <= region.stop
        /\ \A x \in Nat : InSpans(regions, x)' <=> Projected(x) \/ Within(region, x)
        /\ \A r \in DOMAIN regions' :
              /\ regions'[r].stop - regions'[r].start \in 1..RegionMax
              /\ \E j \in DOMAIN speech : /\ speech[j].start <= regions'[r].start
                                          /\ regions'[r].stop <= speech[j].stop
              /\ \A x \in Nat : Within(regions'[r], x) => Speaks(x, regions'[r].label)
              /\ regions'[r].label \in Nat
    <2>1. region.stop - region.start <= RegionMax
      BY <1>0 DEF Fits
    <2>2. region.stop <= runs[1].stop /\ runs[1].start < region.stop
      BY <1>4
    <2>3. region = runs[1]
      OBVIOUS
    <2> HIDE DEF region
    <2>4. region.start = runs[1].start /\ region.label = runs[1].label
      BY <2>3
    <2> QED BY <1>0, <1>4, <2>1, <2>2, <2>4, RegionAdded
  <1>6. /\ runs' \in Seq(Run) /\ Len(runs') = n - 1 /\ DOMAIN runs' = 1..(n - 1)
        /\ \A k \in 1..(n - 1) : runs'[k] = runs[k + 1] /\ k + 1 \in 1..n
    <2>1. runs # <<>>
      BY <1>3
    <2> QED BY <1>0, <1>3, <2>1
  <1>7. \A r \in DOMAIN regions' : \A x \in Nat : (Within(regions[r], x) => Speaks(x, regions[r].label))'
    BY <1>2, <1>5
  <1>8. RegionsPartitionSpeech' /\ NearestWindowSpeaks'
    <2>1. stage' \in {"project", "cut"}
      BY <1>1
    <2> QED BY <2>1 DEF RegionsPartitionSpeech, NearestWindowSpeaks
  <1>9. island \in Nat /\ Len(speech) \in Nat
    BY <1>0, SpeechParts DEF DiarizationTypeOK
  <1>9a. runs' = <<>> <=> n = 1
    BY <1>3, <1>6
  <1> HIDE DEF n, low, high, region
  <1>10. ASSUME NEW x \in Nat
         PROVE  Within(region, x) => Within(speech[island], x)
    BY <1>3, <1>4 DEF Within, low, high
  <1>11. ASSUME NEW x \in Nat
         PROVE  x < region.stop <=> x < region.start \/ Within(region, x)
    BY <1>4 DEF Within
  <1>12. CASE runs' = <<>>
    <2>1. island' = island + 1 /\ stage' = "project" /\ region.stop = high
      <3>1. runs[1].stop = high
        BY <1>3, <1>9a, <1>12
      <3> QED BY <1>1, <1>12, <3>1 DEF region
    <2>2. DiarizationTypeOK'
      BY <1>0, <1>1, <1>2, <1>5, <1>6, <1>9, <2>1 DEF DiarizationTypeOK
    <2>3. RunsInv'
      BY <2>1 DEF RunsInv
    <2>4. island' \in 1..(Len(speech) + 1)
      BY <1>3, <1>9, <2>1
    <2>5. island' <= Len(speech) => \A r \in DOMAIN regions' : regions'[r].stop <= Frontier'
      <3> SUFFICES ASSUME island + 1 <= Len(speech), NEW r \in DOMAIN regions'
                   PROVE  regions'[r].stop <= speech[island + 1].start
        BY <1>2, <2>1 DEF Frontier
      <3>1. high <= speech[island + 1].start /\ speech[island + 1].start \in Nat
        BY <1>0, <1>3, <1>9, SpeechParts DEF high
      <3>2. regions'[r].stop <= high /\ regions'[r].stop \in Nat
        BY <1>5, <2>1, RunParts
      <3> QED BY <1>3, <3>1, <3>2
    <2>6. ASSUME NEW x \in Nat
          PROVE  Projected(x)' <=> Projected(x) \/ Within(region, x)
      <3>1. \A i \in DOMAIN speech : i < island + 1 <=> i < island \/ i = island
        BY <1>0, <1>9, SpeechParts
      <3>2. Within(speech[island], x) => x < high
        BY DEF Within, high
      <3>3. Projected(x)' <=> \E i \in DOMAIN speech : Within(speech[i], x) /\ i < island + 1
        BY <1>2, <2>1 DEF Projected
      <3>4. Projected(x) <=> \E i \in DOMAIN speech :
                                Within(speech[i], x) /\ (i < island \/ (i = island /\ x < region.start))
        BY <1>0 DEF Projected, region
      <3>5. Within(speech[island], x) => x < region.start \/ Within(region, x)
        BY <1>11, <2>1, <3>2
      <3> QED BY <1>3, <1>10, <3>1, <3>3, <3>4, <3>5
    <2>7. RegionsInv'
      BY <1>2, <1>5, <1>7, <2>1, <2>4, <2>5, <2>6 DEF RegionsInv
    <2> QED BY <1>2, <1>8, <2>1, <2>2, <2>3, <2>7 DEF DiarizationInv
  <1>13. CASE runs' # <<>>
    <2>1. island' = island /\ stage' = "cut"
      BY <1>1, <1>13
    <2>2. n - 1 \in 1..(n - 1) /\ 1 \in 1..(n - 1) /\ (n - 1) + 1 = n
      BY <1>3, <1>9a, <1>13
    <2>3. runs'[1].start = region.stop /\ runs'[n - 1].stop = high
      <3>1. runs'[1] = runs[1 + 1] /\ 1 + 1 \in 1..n /\ runs'[n - 1] = runs[(n - 1) + 1]
        BY <1>6, <2>2
      <3> QED BY <1>3, <1>4, <2>2, <3>1 DEF region
    <2>4. DiarizationTypeOK'
      BY <1>0, <1>1, <1>2, <1>5, <1>6, <2>1 DEF DiarizationTypeOK
    <2>5. RunsInv'
      <3>1. ASSUME NEW k \in 1..(n - 1)
            PROVE  /\ low <= runs'[k].start /\ runs'[k].stop <= high /\ runs'[k].start < runs'[k].stop
                   /\ \A x \in Nat : Within(runs'[k], x) => Speaks(x, runs'[k].label)
                   /\ runs'[k].label \in Nat
                   /\ k + 1 \in 1..(n - 1) => runs'[k + 1].start = runs'[k].stop
        <4>1. runs'[k] = runs[k + 1] /\ k + 1 \in 1..n
          BY <1>6
        <4>2. k + 1 \in 1..(n - 1) => runs'[k + 1] = runs[(k + 1) + 1] /\ (k + 1) + 1 \in 1..n
          BY <1>6
        <4> QED BY <1>3, <4>1, <4>2
      <3>2. \A k \in DOMAIN runs' : \A x \in Nat : (Within(runs[k], x) => Speaks(x, runs[k].label))'
        BY <1>2, <1>6, <3>1
      <3>3. /\ speech' = speech /\ low = speech'[island'].start /\ high = speech'[island'].stop
        BY <1>2, <2>1 DEF low, high
      <3> QED BY <1>3, <1>6, <1>13, <2>1, <2>3, <3>1, <3>2, <3>3 DEF RunsInv
    <2>6. ASSUME NEW x \in Nat
          PROVE  Projected(x)' <=> Projected(x) \/ Within(region, x)
      <3>1. Projected(x)' <=> \E i \in DOMAIN speech :
                                 Within(speech[i], x) /\ (i < island \/ (i = island /\ x < region.stop))
        BY <1>2, <2>1, <2>3 DEF Projected
      <3>2. Projected(x) <=> \E i \in DOMAIN speech :
                                Within(speech[i], x) /\ (i < island \/ (i = island /\ x < region.start))
        BY <1>0 DEF Projected, region
      <3> QED BY <1>3, <1>10, <1>11, <3>1, <3>2
    <2>7. RegionsInv'
      <3>1. Frontier' = region.stop
        BY <2>1, <2>3 DEF Frontier
      <3>2. island \in 1..(Len(speech) + 1)
        BY <1>0 DEF RegionsInv
      <3> QED BY <1>2, <1>5, <1>7, <2>1, <2>6, <3>1, <3>2 DEF RegionsInv
    <2> QED BY <1>2, <1>8, <2>1, <2>4, <2>5, <2>7 DEF DiarizationInv
  <1> QED BY <1>12, <1>13

(* What is said of the regions depends on nothing but these.               *)
LEMMA SaidOfRegions ==
  ASSUME UNCHANGED <<speech, windows, labels, regions>>,
         stage' \in {"projected", "done"} => stage \in {"projected", "done"},
         RegionsPartitionSpeech, NearestWindowSpeaks
  PROVE  RegionsPartitionSpeech' /\ NearestWindowSpeaks'
  <1>1. Samples(speech)' = Samples(speech) /\ Samples(regions)' = Samples(regions)
    OBVIOUS
  <1>2. RegionsPartitionSpeech'
    BY <1>1 DEF RegionsPartitionSpeech
  <1>3. \A x : Nearest(x)' = Nearest(x)
    BY DEF Nearest, Distance
  <1> QED BY <1>2, <1>3 DEF NearestWindowSpeaks

LEMMA EndProjectKeeps == DiarizationInv /\ EndProject => DiarizationInv'
  <1> SUFFICES ASSUME DiarizationInv, EndProject PROVE DiarizationInv'
    OBVIOUS
  <1>0. /\ DiarizationTypeOK /\ InputInv /\ RegionsInv /\ Projecting
        /\ stage = "project" /\ island > Len(speech) /\ stage' = "projected"
    BY DEF DiarizationInv, EndProject, Projecting, Enters
  <1>1. /\ input' = input
        /\ UNCHANGED <<island, segment, covered, met, pieces, gridStart, windows, labels, boundaries,
                       cell, runs, regions>>
    BY DEF EndProject, merging, embedding, projecting
  <1>2. /\ InputInv' /\ StartInv' /\ CursorsInv' /\ PiecesInv' /\ WindowsInv' /\ CellsInv'
        /\ UNCHANGED <<total, speech, sources>>
    BY <1>0, <1>1, ProjectFrame
  <1>3. island = Len(speech) + 1 /\ Len(speech) \in Nat /\ DOMAIN speech = 1..Len(speech)
    <2>1. island \in 1..(Len(speech) + 1) /\ Len(speech) \in Nat /\ DOMAIN speech = 1..Len(speech)
      BY <1>0, SpeechParts DEF RegionsInv
    <2> QED BY <1>0, <2>1
  <1>4. DiarizationTypeOK' /\ RunsInv' /\ RegionsInv'
    BY <1>0, <1>1, <1>2, <1>3, RegionsKept DEF DiarizationTypeOK, RunsInv
  <1>5. /\ DOMAIN regions = 1..Len(regions) /\ Len(regions) \in Nat
        /\ \A r \in DOMAIN regions : regions[r].start \in Nat /\ regions[r].stop \in Nat
    BY <1>0, RunParts DEF DiarizationTypeOK
  <1>6. \A r \in DOMAIN regions : r > 1 => regions[r - 1].stop <= regions[r].start
    <2>1. Apart(regions)
      BY <1>0 DEF RegionsInv
    <2>2. \A r \in DOMAIN regions : r > 1 => r - 1 \in DOMAIN regions /\ r - 1 < r
      BY <1>5
    <2> QED BY <2>1, <2>2 DEF Apart
  <1>7. Samples(regions) = Samples(speech)
    <2>1. \A x \in Nat : Projected(x) <=> InSpans(speech, x)
      BY <1>0, <1>3 DEF Projected, InSpans
    <2>2. \A x \in Nat : InSpans(regions, x) <=> InSpans(speech, x)
      BY <1>0, <2>1 DEF RegionsInv
    <2>3. \A i \in DOMAIN speech : speech[i].start \in Nat /\ speech[i].stop \in Nat
      BY <1>0, SpeechParts
    <2>4. /\ Samples(regions) \subseteq Nat /\ Samples(speech) \subseteq Nat
          /\ \A x \in Nat : x \in Samples(regions) <=> InSpans(regions, x)
          /\ \A x \in Nat : x \in Samples(speech) <=> InSpans(speech, x)
      BY <1>5, <2>3, SampleParts
    <2> QED BY <2>2, <2>4
  <1>8. \A r \in DOMAIN regions :
           /\ regions[r].stop - regions[r].start \in 1..RegionMax
           /\ \E j \in DOMAIN speech : /\ speech[j].start <= regions[r].start
                                       /\ regions[r].stop <= speech[j].stop
    BY <1>0 DEF RegionsInv
  <1>9. RegionsPartitionSpeech'
    <2>1. Samples(regions)' = Samples(regions) /\ Samples(speech)' = Samples(speech)
      BY <1>1, <1>2
    <2> QED BY <1>1, <1>2, <1>6, <1>7, <1>8, <2>1 DEF RegionsPartitionSpeech
  <1>10. ASSUME NEW r \in DOMAIN regions, NEW x \in regions[r].start..(regions[r].stop - 1)
         PROVE  regions[r].label = labels[Nearest(x)]
    <2>1. x \in Nat /\ Within(regions[r], x)
      BY <1>5 DEF Within
    <2>2. Speaks(x, regions[r].label)
      BY <1>0, <2>1 DEF RegionsInv
    <2>3. PICK i \in DOMAIN windows : InCellOf(i, x) /\ regions[r].label = labels[i]
      BY <2>2 DEF Speaks
    <2>4. Nearest(x) = i
      BY <1>0, <2>1, <2>3, NearestCell
    <2> QED BY <2>3, <2>4
  <1>11. NearestWindowSpeaks'
    <2>1. \A x : Nearest(x)' = Nearest(x)
      BY <1>1 DEF Nearest, Distance
    <2> QED BY <1>1, <1>10, <2>1 DEF NearestWindowSpeaks
  <1> QED BY <1>0, <1>2, <1>4, <1>9, <1>11 DEF DiarizationInv

-----------------------------------------------------------------------------
(* The audio of a region: samples of speech are in segments, without gaps. *)
LEMMA RegionsGathered ==
  ASSUME DiarizationInv, stage = "projected", NEW r \in DOMAIN regions
  PROVE  Gathered(regions[r])
  <1> DEFINE a == regions[r].start
             b == regions[r].stop
  <1>0. DiarizationTypeOK /\ InputInv /\ RegionsInv /\ Projecting
    BY DEF DiarizationInv, Projecting
  <1>1. a \in Nat /\ b \in Nat /\ a < b
    <2>1. a \in Nat /\ b \in Nat
      BY <1>0, RunParts DEF DiarizationTypeOK
    <2>2. b - a \in 1..RegionMax
      BY <1>0 DEF RegionsInv
    <2> HIDE DEF a, b
    <2> QED BY <2>1, <2>2, WindowSizes
  <1>2. /\ DOMAIN sources = 1..Len(sources) /\ Len(sources) \in Nat
        /\ \A i \in 1..Len(sources) :
              /\ sources[i].start \in Nat /\ sources[i].stop \in Nat
              /\ sources[i].start < sources[i].stop
        /\ \A i, j \in 1..Len(sources) : i < j => sources[i].stop <= sources[j].start
    BY <1>0, SpeechParts
  <1>3. ASSUME NEW x \in Nat, a <= x, x < b
        PROVE  \E i \in 1..Len(sources) : sources[i].start <= x /\ x < sources[i].stop
    <2>1. PICK j \in DOMAIN speech : speech[j].start <= a /\ b <= speech[j].stop
      BY <1>0 DEF RegionsInv
    <2>2. speech[j].start \in Nat /\ speech[j].stop \in Nat
      BY <1>0, SpeechParts
    <2>3. Within(speech[j], x)
      BY <1>1, <1>3, <2>1, <2>2 DEF Within
    <2>4. InSpans(sources, x)
      BY <1>0, <2>3 DEF InSpans, InputInv
    <2> QED BY <1>2, <2>4 DEF InSpans, Within
  <1> DEFINE n == Len(sources)
  <1>4. n \in Nat /\ DOMAIN sources = 1..n
    BY <1>2
  <1> HIDE DEF a, b, n
  <1>5. PICK first \in 1..n : sources[first].start <= a /\ a < sources[first].stop
    BY <1>1, <1>3 DEF n
  <1>6. PICK last \in 1..n : sources[last].start <= b - 1 /\ b - 1 < sources[last].stop
    <2>1. b - 1 \in Nat /\ a <= b - 1 /\ b - 1 < b
      BY <1>1
    <2> QED BY <1>3, <2>1 DEF n
  <1>7. \A i \in 1..n : sources[i].start \in Nat /\ sources[i].stop \in Nat /\ sources[i].start < sources[i].stop
    BY <1>2 DEF n
  <1>8. \A i, j \in 1..n : i < j => sources[i].stop <= sources[j].start
    BY <1>2 DEF n
  <1>9. First(sources, a, first)
    <2>1. ASSUME NEW j \in 1..(first - 1)
          PROVE  sources[j].stop <= a
      <3>1. j \in 1..n /\ j < first
        BY <1>4
      <3>2. sources[j].stop <= sources[first].start
        BY <1>8, <3>1
      <3> QED BY <1>1, <1>5, <1>7, <3>1, <3>2
    <2> QED BY <1>1, <1>4, <1>5, <1>7, <2>1 DEF First
  <1>10. first <= last
    <2> SUFFICES ASSUME last < first PROVE FALSE
      BY <1>4
    <2>1. sources[last].stop <= sources[first].start
      BY <1>8
    <2> QED BY <1>1, <1>5, <1>6, <1>7, <2>1
  <1>11. sources[last].stop >= b
    BY <1>1, <1>6, <1>7
  <1>12. ASSUME NEW i \in first..last
         PROVE  i \in 1..n /\ sources[i].start < b
    <2>1. i \in 1..n /\ (i = last \/ i < last)
      BY <1>4
    <2>2. CASE i = last
      BY <1>1, <1>6, <1>7, <2>1, <2>2
    <2>3. CASE i < last
      <3>1. sources[i].stop <= sources[last].start
        BY <1>8, <2>1, <2>3
      <3> QED BY <1>1, <1>6, <1>7, <2>1, <3>1
    <2> QED BY <2>1, <2>2, <2>3
  <1>13. ASSUME NEW i \in first..(last - 1)
         PROVE  sources[i].stop < b /\ sources[i + 1].start = sources[i].stop
    <2> DEFINE x == sources[i].stop
    <2>1. /\ i \in 1..n /\ i + 1 \in 1..n /\ i < i + 1 /\ i < last /\ (i = first \/ first < i)
      BY <1>4
    <2>2. x \in Nat /\ x < b
      <3>1. x <= sources[last].start
        BY <1>8, <2>1
      <3> QED BY <1>1, <1>6, <1>7, <2>1, <3>1
    <2>3. a <= x
      <3>1. CASE i = first
        BY <1>1, <1>5, <1>7, <3>1
      <3>2. CASE first < i
        <4>1. sources[first].stop <= sources[i].start
          BY <1>8, <2>1, <3>2
        <4> QED BY <1>1, <1>5, <1>7, <2>1, <4>1
      <3> QED BY <2>1, <3>1, <3>2
    <2>4. PICK k \in 1..n : sources[k].start <= x /\ x < sources[k].stop
      BY <1>3, <2>2, <2>3 DEF n
    <2>5. x <= sources[i + 1].start
      BY <1>8, <2>1
    <2>6. i < k
      <3>1. k < i => sources[k].stop <= sources[i].start
        BY <1>8, <2>1
      <3>2. k # i /\ ~(k < i)
        BY <1>7, <2>1, <2>4, <3>1
      <3> QED BY <2>1, <3>2
    <2>7. k = i + 1
      <3>1. i + 1 < k => sources[i + 1].stop <= sources[k].start
        BY <1>8, <2>1
      <3>2. ~(i + 1 < k)
        BY <1>7, <2>1, <2>2, <2>4, <2>5, <3>1
      <3> QED BY <2>1, <2>6, <3>2
    <2> QED BY <1>7, <2>1, <2>2, <2>4, <2>5, <2>7
  <1> QED BY <1>4, <1>5, <1>9, <1>10, <1>11, <1>12, <1>13 DEF Gathered, a, b

LEMMA CollectKeeps == DiarizationInv /\ Collect => DiarizationInv'
  <1> SUFFICES ASSUME DiarizationInv, Collect PROVE DiarizationInv'
    OBVIOUS
  <1>0. /\ DiarizationTypeOK /\ InputInv /\ StartInv /\ WindowsInv
        /\ RegionsPartitionSpeech /\ NearestWindowSpeaks /\ stage = "projected"
    BY DEF DiarizationInv, Collect
  <1>1. /\ input' = input
        /\ UNCHANGED <<total, speech, sources, island, segment, covered, met, pieces, gridStart, windows,
                       labels, boundaries, cell, runs, regions>>
    BY DEF Collect, input, merging, embedding, projecting
  <1>2. stage' = "done"
    BY <1>0, RegionsGathered DEF Collect, Enters
  <1>3. DiarizationTypeOK'
    BY <1>0, <1>1, <1>2 DEF DiarizationTypeOK
  <1>4. InputInv' /\ StartInv' /\ CursorsInv' /\ PiecesInv'
    BY <1>0, <1>1, <1>2, InputKept DEF StartInv, CursorsInv, PiecesInv
  <1>5. WindowsInv'
    BY <1>0, <1>1, <1>2, WindowsKept DEF Clustering
  <1>6. CellsInv' /\ RunsInv' /\ RegionsInv'
    BY <1>2 DEF CellsInv, RunsInv, RegionsInv, Dividing, Projecting
  <1>7. RegionsPartitionSpeech' /\ NearestWindowSpeaks'
    BY <1>0, <1>1, SaidOfRegions
  <1> QED BY <1>2, <1>3, <1>4, <1>5, <1>6, <1>7 DEF DiarizationInv

LEMMA IdleKeeps == DiarizationInv /\ UNCHANGED diarizationVars => DiarizationInv'
  <1> SUFFICES ASSUME DiarizationInv, UNCHANGED diarizationVars PROVE DiarizationInv'
    OBVIOUS
  <1>0. /\ DiarizationTypeOK /\ InputInv /\ StartInv /\ CursorsInv /\ PiecesInv /\ WindowsInv
        /\ CellsInv /\ RunsInv /\ RegionsInv /\ RegionsPartitionSpeech /\ NearestWindowSpeaks
        /\ stage # "failed"
    BY DEF DiarizationInv
  <1>1. /\ input' = input
        /\ UNCHANGED <<stage, total, speech, sources, island, segment, covered, met, pieces, gridStart,
                       windows, labels, boundaries, cell, runs, regions>>
    BY DEF diarizationVars, input, merging, embedding, projecting
  <1>2. DiarizationTypeOK' /\ InputInv' /\ StartInv' /\ stage' # "failed"
    BY <1>0, <1>1, InputKept DEF DiarizationTypeOK, StartInv
  <1>3. CursorsInv'
    BY <1>0, <1>1 DEF CursorsInv, Within
  <1>4. PiecesInv'
    BY <1>0, <1>1 DEF PiecesInv, Apart, InSpans, Merged, Within
  <1>5. WindowsInv' /\ CellsInv'
    BY <1>0, <1>1, WindowsKept, CellsKept DEF Clustering, Dividing, Projecting
  <1>6. RunsInv'
    BY <1>0, <1>1 DEF RunsInv, ScannedTo, Speaks, InCellOf
  <1>7. RegionsInv'
    BY <1>0, <1>1 DEF RegionsInv, Apart, Frontier, InSpans, Projected, Speaks, InCellOf, Projecting
  <1>8. RegionsPartitionSpeech' /\ NearestWindowSpeaks'
    BY <1>0, <1>1, SaidOfRegions
  <1> QED BY <1>2, <1>3, <1>4, <1>5, <1>6, <1>7, <1>8 DEF DiarizationInv

LEMMA DiarizationStep == DiarizationInv /\ [DiarizationNext]_diarizationVars => DiarizationInv'
  <1> SUFFICES ASSUME DiarizationInv, [DiarizationNext]_diarizationVars PROVE DiarizationInv'
    OBVIOUS
  <1>1. CASE BeginMerge BY <1>1, BeginMergeKeeps
  <1>2. CASE Merge BY <1>2, MergeKeeps
  <1>3. CASE EndMerge BY <1>3, EndMergeKeeps
  <1>4. CASE EmbedWindow BY <1>4, EmbedWindowKeeps
  <1>5. CASE EndEmbed BY <1>5, EndEmbedKeeps
  <1>6. CASE Cluster BY <1>6, ClusterKeeps
  <1>7. CASE BeginProject BY <1>7, BeginProjectKeeps
  <1>8. CASE Divide BY <1>8, DivideKeeps
  <1>9. CASE TakeIsland BY <1>9, TakeIslandKeeps
  <1>10. CASE ScanCell BY <1>10, ScanCellKeeps
  <1>11. CASE EndScan BY <1>11, EndScanKeeps
  <1>12. CASE CutRun BY <1>12, CutRunKeeps
  <1>13. CASE LastOfRun BY <1>13, LastOfRunKeeps
  <1>14. CASE EndProject BY <1>14, EndProjectKeeps
  <1>15. CASE Collect BY <1>15, CollectKeeps
  <1>16. CASE Finished BY <1>16, IdleKeeps DEF Finished
  <1>17. CASE UNCHANGED diarizationVars BY <1>17, IdleKeeps
  <1> QED BY <1>1, <1>2, <1>3, <1>4, <1>5, <1>6, <1>7, <1>8, <1>9, <1>10, <1>11, <1>12, <1>13,
             <1>14, <1>15, <1>16, <1>17 DEF DiarizationNext

(* Whatever lengths, windows and clusters there are: every loop of         *)
(* _process_offline_diarization keeps the invariant, and none of its       *)
(* checks fails on what the segmenter may have collected.                  *)
THEOREM DiarizationInvariant == DiarizationSpec => []DiarizationInv
  <1> QED BY InitDiarizationInv, DiarizationStep, PTL DEF DiarizationSpec

(* The windows embedded are the ones of the grid that touch speech, and    *)
(* each is the speech of the islands, silenced elsewhere                   *)
(* (_embed_global_speaker_windows); the job does not fail.                 *)
THEOREM WindowsHear == DiarizationSpec => []WindowsHearSpeech
  <1>1. DiarizationInv => WindowsHearSpeech
    <2> SUFFICES ASSUME DiarizationInv, stage = "embedded"
                 PROVE  /\ {windows[i].start : i \in DOMAIN windows} =
                             {time \in 0..(total - 1) : /\ time % WindowShift = 0
                                                        /\ InWindow(time) \cap Samples(speech) # {}}
                        /\ \A i \in DOMAIN windows :
                              windows[i].speech = InWindow(windows[i].start) \cap Samples(speech)
      BY DEF WindowsHearSpeech, DiarizationInv
    <2>1. DiarizationTypeOK /\ InputInv /\ WindowsInv
      BY DEF DiarizationInv
    <2>2. total \in Nat /\ \A i \in DOMAIN windows : windows[i].start \in Nat
      BY <2>1, WindowTypes DEF DiarizationTypeOK
    <2>3. ASSUME NEW time \in 0..(total - 1)
          PROVE  MeetsSpeech(time) <=> InWindow(time) \cap Samples(speech) # {}
      <3>1. \A i \in DOMAIN speech : speech[i].start \in Nat /\ speech[i].stop \in Nat
        BY <2>1, SpeechParts
      <3>2. /\ Samples(speech) \subseteq Nat
            /\ \A x \in Nat : x \in Samples(speech) <=> InSpans(speech, x)
        BY <3>1, SampleParts
      <3>3. time \in Nat /\ time < total
        BY <2>2
      <3> QED BY <2>1, <3>2, <3>3, MeetsMeans
    <2>4. \A i \in DOMAIN windows : /\ windows[i].start \in 0..(total - 1)
                                    /\ windows[i].start % WindowShift = 0
                                    /\ MeetsSpeech(windows[i].start)
      BY <2>1, <2>2 DEF WindowsInv
    <2>5. \A time \in 0..(total - 1) :
             time % WindowShift = 0 /\ MeetsSpeech(time) => \E i \in DOMAIN windows : windows[i].start = time
      BY <2>1 DEF WindowsInv, Clustering
    <2> DEFINE heard == {time \in 0..(total - 1) : /\ time % WindowShift = 0
                                                   /\ InWindow(time) \cap Samples(speech) # {}}
    <2>6. \A i \in DOMAIN windows : windows[i].start \in heard
      BY <2>3, <2>4
    <2>7. \A time \in heard : \E i \in DOMAIN windows : windows[i].start = time
      BY <2>3, <2>5
    <2>8. {windows[i].start : i \in DOMAIN windows} = heard
      BY <2>6, <2>7
    <2> QED BY <2>1, <2>8 DEF WindowsInv
  <1> QED BY <1>1, DiarizationInvariant, PTL

(* _project_speaker_regions cuts the islands up, no more and no less, into *)
(* regions of at most DIRECT_MAX_SAMPLES.                                  *)
THEOREM RegionsPartition == DiarizationSpec => []RegionsPartitionSpeech
  <1>1. DiarizationInv => RegionsPartitionSpeech
    BY DEF DiarizationInv
  <1> QED BY <1>1, DiarizationInvariant, PTL

(* Boundaries at the midpoints, scanned cell by cell, give every sample to *)
(* the window whose centre is nearest.                                     *)
THEOREM NearestSpeaks == DiarizationSpec => []NearestWindowSpeaks
  <1>1. DiarizationInv => NearestWindowSpeaks
    BY DEF DiarizationInv
  <1> QED BY <1>1, DiarizationInvariant, PTL
=============================================================================
