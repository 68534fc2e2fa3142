----------------------------- MODULE SpeechSpans -----------------------------
(***************************************************************************)
(* Where the two halves of an offline diarization meet: the islands and    *)
(* segments of speech that _collect_diarization_speech returns, as spans   *)
(* of samples, and what diarization may take for granted of them.          *)
(***************************************************************************)
EXTENDS Integers, Sequences

(* Spans in order of time, none empty, none overlapping, all in the audio. *)
Ordered(spans, total) ==
    \A i \in DOMAIN spans :
       /\ spans[i].start < spans[i].stop /\ spans[i].stop <= total
       /\ spans[i].start >= (IF i = 1 THEN 0 ELSE spans[i - 1].stop)

(* What SpeechSegments establishes and OfflineDiarization relies on:       *)
(* islands and segments in order, every sample of an island in a segment,  *)
(* and no segment without a sample of an island.                           *)
Samples(spans) == UNION {spans[i].start..(spans[i].stop - 1) : i \in DOMAIN spans}

Collected(islands, segments, total) ==
    /\ Ordered(islands, total) /\ Ordered(segments, total)
    /\ Samples(islands) \subseteq Samples(segments)
    /\ \A i \in DOMAIN segments : Samples(<<segments[i]>>) \cap Samples(islands) # {}
=============================================================================
