--------------------------- MODULE MCOfflineSpeech ---------------------------
(***************************************************************************)
(* The two halves of an offline diarization for TLC: the segmenter, which  *)
(* collects islands and segments, and OfflineDiarization, which labels     *)
(* them.  They meet in one place, Collected: the first half must leave it, *)
(* the second starts from anything that satisfies it.  So a behaviour of   *)
(* this module is one of either half, each with sizes that suit it: the    *)
(* detector names milliseconds of 16 samples, diarization single samples.  *)
(***************************************************************************)
EXTENDS SpeechSegments, OfflineDiarization

NotStarted ==
    /\ stage = "none"
    /\ total = 0 /\ speech = <<>> /\ sources = <<>>
    /\ Unstarted

HalvesInit == Init /\ (NotStarted \/ DiarizationInit)

HalvesNext ==
    \/ stage = "none" /\ Next /\ UNCHANGED diarizationVars
    \/ stage # "none" /\ DiarizationNext /\ UNCHANGED vars

HalvesSpec == HalvesInit /\ [][HalvesNext]_<<vars, diarizationVars>>
=============================================================================
