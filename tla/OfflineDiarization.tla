------------------------- MODULE OfflineDiarization -------------------------
(***************************************************************************)
(* Processor._process_offline_diarization (pipeline.py) after the audio    *)
(* has been traversed: islands of speech and the segments that carry their *)
(* PCM are merged into pieces and embedded window by window                *)
(* (_embed_global_speaker_windows), the windows' clusters are projected    *)
(* back on the islands (_project_speaker_regions), and the PCM of each     *)
(* region is put together for ASR.  Each round of a loop is a step of its  *)
(* own; a check of the code that fails ends the job.                       *)
(*                                                                         *)
(* PCM is abstracted to the samples it comes from.  The input is anything  *)
(* that SpeechSegments may have collected; embedding and clustering are    *)
(* external and may give every window any cluster, as long as no cluster   *)
(* is left without a window.                                               *)
(***************************************************************************)
EXTENDS SpeechSpans

CONSTANTS
    WindowMax,      \* SPEAKER_WINDOW_MAX_SAMPLES
    WindowShift,    \* SPEAKER_WINDOW_SHIFT_SAMPLES
    RegionMax,      \* DIRECT_MAX_SAMPLES
    Totals,         \* bound: lengths the audio may have
    MaxSpans,       \* bound: islands, and segments, there may be
    MaxClusters     \* bound: clusters there may be

ASSUME WindowAssumption ==
    /\ {WindowMax, WindowShift, RegionMax} \subseteq Nat \ {0}
    /\ WindowShift <= WindowMax
    /\ Totals \subseteq Nat
    /\ {MaxSpans, MaxClusters} \subseteq Nat

VARIABLES
    stage,      \* the loop the job is in, or "failed"
    total,      \* total_samples
    speech,     \* speech_islands
    sources,    \* source_segments
    island,     \* the island in hand
    segment,    \* the segment in hand
    covered,    \* covered_until: where the next piece must start
    met,        \* segment_had_overlap
    pieces,     \* masked_pieces: speech whose PCM is known
    gridStart,  \* the start_sample of the next window
    windows,    \* the windows embedded: start, and the samples not silenced
    labels,     \* window_cluster_ordinals
    boundaries, \* where the cells of the windows begin and end
    cell,       \* scan_index
    runs,       \* merged: cells of one island and one label
    regions     \* projected: what is enqueued for ASR

input == <<total, speech, sources>>
merging == <<island, segment, covered, met, pieces>>
embedding == <<gridStart, windows>>
projecting == <<boundaries, cell, runs, regions>>

diarizationVars == <<stage, input, merging, embedding, labels, projecting>>

Least(a, b) == IF a <= b THEN a ELSE b
Greatest(a, b) == IF a >= b THEN a ELSE b

SpansIn(n) == {s \in [start : 0..(n - 1), stop : 1..n] : s.start < s.stop}

OrderedSpans(n) ==
    {s \in UNION {[1..m -> SpansIn(n)] : m \in 0..MaxSpans} : Ordered(s, n)}

Unstarted ==
    /\ island = 1 /\ segment = 1 /\ covered = 0 /\ met = FALSE /\ pieces = <<>>
    /\ gridStart = 0 /\ windows = <<>>
    /\ labels = <<>>
    /\ boundaries = <<0>> /\ cell = 1 /\ runs = <<>> /\ regions = <<>>

DiarizationInit ==
    /\ stage = "collected"
    /\ total \in Totals
    /\ speech \in OrderedSpans(total)
    /\ sources \in OrderedSpans(total)
    /\ Collected(speech, sources, total)
    /\ Unstarted

Enters(s) == stage' = s

-----------------------------------------------------------------------------
(* Without speech there is nothing to do; else the spans are checked.      *)
BeginMerge ==
    /\ stage = "collected"
    /\ IF speech = <<>>
         THEN Enters(IF sources = <<>> THEN "done" ELSE "failed") /\ UNCHANGED covered
         ELSE IF Ordered(speech, total) /\ Ordered(sources, total)
           THEN Enters("merge") /\ covered' = speech[1].start
           ELSE Enters("failed") /\ UNCHANGED covered
    /\ UNCHANGED <<input, island, segment, met, pieces, embedding, labels, projecting>>

(* The merge of islands and segments into masked pieces.                   *)
NextSegment == segment' = segment + 1 /\ met' = FALSE

NextIsland(otherwise) ==
    /\ island' = island + 1
    /\ covered' = IF island < Len(speech) THEN speech[island + 1].start ELSE otherwise

PassSegment ==
    /\ IF met THEN NextSegment /\ UNCHANGED stage
              ELSE Enters("failed") /\ UNCHANGED <<segment, met>>
    /\ UNCHANGED <<island, covered, pieces>>

PassIsland ==
    /\ IF covered = speech[island].stop
         THEN NextIsland(covered) /\ UNCHANGED stage
         ELSE Enters("failed") /\ UNCHANGED <<island, covered>>
    /\ UNCHANGED <<segment, met, pieces>>

(* Both have these samples in common.                                      *)
Shared ==
    [start |-> Greatest(speech[island].start, sources[segment].start),
     stop |-> Least(speech[island].stop, sources[segment].stop)]

Overlap ==
    IF Shared.start # covered
      THEN Enters("failed") /\ UNCHANGED merging
      ELSE /\ pieces' = Append(pieces, Shared)
           /\ IF sources[segment].stop <= speech[island].stop
                THEN NextSegment ELSE met' = TRUE /\ UNCHANGED segment
           /\ IF speech[island].stop <= sources[segment].stop
                THEN NextIsland(Shared.stop) ELSE covered' = Shared.stop /\ UNCHANGED island
           /\ UNCHANGED stage

Merging == stage = "merge" /\ island <= Len(speech) /\ segment <= Len(sources)

Merge ==
    /\ Merging
    /\ IF sources[segment].stop <= speech[island].start THEN PassSegment
       ELSE IF speech[island].stop <= sources[segment].start THEN PassIsland
       ELSE Overlap
    /\ UNCHANGED <<input, embedding, labels, projecting>>

(* Every island must be covered, every segment have met one.               *)
EndMerge ==
    /\ stage = "merge"
    /\ ~Merging
    /\ LET passed == segment <= Len(sources) /\ met
       IN /\ segment' = IF passed THEN segment + 1 ELSE segment
          /\ Enters(IF island = Len(speech) + 1 /\ segment' = Len(sources) + 1
                      THEN "embed" ELSE "failed")
    /\ UNCHANGED <<input, island, covered, met, pieces, embedding, labels, projecting>>

-----------------------------------------------------------------------------
(* A cursor into spans for times that only grow: the first span that ends  *)
(* after the time.                                                         *)
First(spans, time, i) ==
    /\ i \in DOMAIN spans
    /\ spans[i].stop > time
    /\ \A j \in 1..(i - 1) : spans[j].stop <= time

(* The windows lie on an absolute grid; the last ends with the audio.      *)
WindowStop(time) == Least(time + WindowMax, total)

MeetsSpeech(time) ==
    \E i \in DOMAIN speech : First(speech, time, i) /\ speech[i].start < WindowStop(time)

(* Fault: a piece that ends with the window is left out.                   *)
ScannedBefore(time, k) ==
    \E i \in 1..k : /\ First(pieces, time, i)
                    /\ \A j \in i..k : pieces[j].stop < WindowStop(time)

(* The pieces a window is filled from, and what is not silence then.       *)
Scanned(time, k) ==
    \E i \in 1..k : /\ First(pieces, time, i)
                    /\ \A j \in i..k : pieces[j].start < WindowStop(time)

SpeechIn(time) ==
    UNION {Greatest(time, pieces[k].start)..(Least(WindowStop(time), pieces[k].stop) - 1) :
              k \in {k \in DOMAIN pieces : Scanned(time, k)}}

EmbedWindow ==
    /\ stage = "embed"
    /\ gridStart < total
    /\ windows' = IF MeetsSpeech(gridStart)
                    THEN Append(windows, [start |-> gridStart, speech |-> SpeechIn(gridStart)])
                    ELSE windows
    /\ gridStart' = gridStart + WindowShift
    /\ UNCHANGED <<stage, input, merging, labels, projecting>>

EndEmbed ==
    /\ stage = "embed"
    /\ gridStart >= total
    /\ Enters("embedded")
    /\ UNCHANGED <<input, merging, embedding, labels, projecting>>

(* cluster_anonymous_speakers: ordinals without gaps.                      *)
Cluster ==
    /\ stage = "embedded"
    /\ \E n \in 1..MaxClusters :
          \E ordinals \in [DOMAIN windows -> 1..n] :
             /\ 1..n = {ordinals[i] : i \in DOMAIN ordinals}
             /\ labels' = ordinals
    /\ Enters("clustered")
    /\ UNCHANGED <<input, merging, embedding, projecting>>

-----------------------------------------------------------------------------
(* What _project_speaker_regions requires of its input: windows in order   *)
(* and on the grid, none without an island, no island without a window.    *)
WindowsOnGrid ==
    \A i \in DOMAIN windows :
       /\ windows[i].start \in 0..(total - 1)
       /\ windows[i].start % WindowShift = 0
       /\ i > 1 => windows[i - 1].start < windows[i].start

WindowsMeetIslands ==
    /\ \A i \in DOMAIN windows : MeetsSpeech(windows[i].start)
    /\ \A i \in DOMAIN speech :
          \E j \in DOMAIN windows :
             /\ WindowStop(windows[j].start) > speech[i].start
             /\ windows[j].start < speech[i].stop

BeginProject ==
    /\ stage = "clustered"
    /\ Enters(IF /\ Ordered(speech, total) /\ WindowsOnGrid
                 /\ speech # <<>> /\ windows # <<>>
                 /\ WindowsMeetIslands
                THEN "divide" ELSE "failed")
    /\ UNCHANGED <<input, merging, embedding, labels, projecting>>

(* Where one window's cell ends and the next begins: the midpoint of their *)
(* centres, rounded up.                                                    *)
Centre(time) == time + WindowMax \div 2

(* Fault: the midpoint is rounded down.                                    *)
MidpointDown(left, right) == (Centre(left) + Centre(right)) \div 2

Midpoint(left, right) == (Centre(left) + Centre(right) + 1) \div 2

Divide ==
    /\ stage = "divide"
    /\ LET k == Len(boundaries)
       IN IF k < Len(windows)
            THEN /\ boundaries' = Append(boundaries,
                        Greatest(boundaries[k],
                                 Least(Midpoint(windows[k].start, windows[k + 1].start), total)))
                 /\ UNCHANGED <<stage, island>>
            ELSE /\ boundaries' = Append(boundaries, total)
                 /\ Enters("project")
                 /\ island' = 1
    /\ UNCHANGED <<input, segment, covered, met, pieces, embedding, labels, cell, runs, regions>>

(* The next island starts at the first cell that ends after its start.     *)
TakeIsland ==
    /\ stage = "project"
    /\ island <= Len(speech)
    /\ \E c \in 1..(Len(labels) + 1) :
          /\ \A i \in 1..(c - 1) : boundaries[i + 1] <= speech[island].start
          /\ c <= Len(labels) => boundaries[c + 1] > speech[island].start
          /\ cell' = c
    /\ runs' = <<>>
    /\ Enters("scan")
    /\ UNCHANGED <<input, merging, embedding, labels, boundaries, regions>>

(* Its cells in order; neighbours of one label are one run.                *)
Joins(from) ==
    /\ runs # <<>>
    /\ runs[Len(runs)].stop = from
    /\ runs[Len(runs)].label = labels[cell]

InCell == [start |-> Greatest(speech[island].start, boundaries[cell]),
           stop |-> Least(speech[island].stop, boundaries[cell + 1]),
           label |-> labels[cell]]

Scanning == stage = "scan" /\ cell <= Len(labels) /\ boundaries[cell] < speech[island].stop

ScanCell ==
    /\ Scanning
    /\ runs' = IF InCell.start >= InCell.stop THEN runs
               ELSE IF Joins(InCell.start) THEN [runs EXCEPT ![Len(runs)].stop = InCell.stop]
               ELSE Append(runs, InCell)
    /\ cell' = cell + 1
    /\ UNCHANGED <<stage, input, merging, embedding, labels, boundaries, regions>>

EndScan ==
    /\ stage = "scan"
    /\ ~Scanning
    /\ Enters(IF runs = <<>> THEN "failed" ELSE "cut")
    /\ UNCHANGED <<input, merging, embedding, labels, projecting>>

(* Fault: one sample too many.                                             *)
FitsOneMore(run) == run.stop - run.start <= RegionMax + 1

Fits(run) == run.stop - run.start <= RegionMax

(* A run longer than an ASR call may be is cut from its start.             *)
CutRun ==
    /\ stage = "cut"
    /\ ~Fits(runs[1])
    /\ LET split == runs[1].start + RegionMax
       IN /\ regions' = Append(regions, [runs[1] EXCEPT !.stop = split])
          /\ runs' = [runs EXCEPT ![1].start = split]
    /\ UNCHANGED <<stage, input, merging, embedding, labels, boundaries, cell>>

LastOfRun ==
    /\ stage = "cut"
    /\ Fits(runs[1])
    /\ regions' = Append(regions, runs[1])
    /\ runs' = Tail(runs)
    /\ IF runs' = <<>>
         THEN island' = island + 1 /\ Enters("project")
         ELSE UNCHANGED <<island, stage>>
    /\ UNCHANGED <<input, segment, covered, met, pieces, embedding, labels, boundaries, cell>>

EndProject ==
    /\ stage = "project"
    /\ island > Len(speech)
    /\ Enters("projected")
    /\ UNCHANGED <<input, merging, embedding, labels, projecting>>

-----------------------------------------------------------------------------
(* The PCM of a region is put together from the segments it lies in, from  *)
(* the first that ends after its start to the first that ends no earlier   *)
(* than it does; each must begin where the one before it ended.  Segments  *)
(* are in order.                                                           *)
Gathered(region) ==
    \E first, last \in DOMAIN sources :
       /\ First(sources, region.start, first)
       /\ sources[first].start <= region.start
       /\ first <= last
       /\ sources[last].stop >= region.stop
       /\ \A i \in first..last : sources[i].start < region.stop
       /\ \A i \in first..(last - 1) : /\ sources[i].stop < region.stop
                                       /\ sources[i + 1].start = sources[i].stop

Collect ==
    /\ stage = "projected"
    /\ Enters(IF \A i \in DOMAIN regions : Gathered(regions[i]) THEN "done" ELSE "failed")
    /\ UNCHANGED <<input, merging, embedding, labels, projecting>>

Finished == stage \in {"done", "failed"} /\ UNCHANGED diarizationVars

DiarizationNext ==
    \/ BeginMerge \/ Merge \/ EndMerge
    \/ EmbedWindow \/ EndEmbed \/ Cluster
    \/ BeginProject \/ Divide
    \/ TakeIsland \/ ScanCell \/ EndScan \/ CutRun \/ LastOfRun \/ EndProject
    \/ Collect
    \/ Finished

DiarizationSpec == DiarizationInit /\ [][DiarizationNext]_diarizationVars

-----------------------------------------------------------------------------
InWindow(time) == time..(WindowStop(time) - 1)

(* Nothing the segmenter collects makes the job fail, wherever speech      *)
(* lies; every window on the grid that touches speech is embedded, and     *)
(* what the speaker model hears in it is the speech of the islands,        *)
(* exactly, the rest silence.                                              *)
WindowsHearSpeech ==
    /\ stage # "failed"
    /\ stage = "embedded" =>
          /\ {windows[i].start : i \in DOMAIN windows} =
                {time \in 0..(total - 1) : /\ time % WindowShift = 0
                                           /\ InWindow(time) \cap Samples(speech) # {}}
          /\ \A i \in DOMAIN windows :
                windows[i].speech = InWindow(windows[i].start) \cap Samples(speech)

(* The regions cut the islands up: every sample of speech is in exactly    *)
(* one region, none crosses from one island to the next, and each fits     *)
(* into one ASR call.                                                      *)
RegionsPartitionSpeech ==
    stage \in {"projected", "done"} =>
       /\ \A i \in DOMAIN regions : i > 1 => regions[i - 1].stop <= regions[i].start
       /\ Samples(regions) = Samples(speech)
       /\ \A i \in DOMAIN regions :
             /\ regions[i].stop - regions[i].start \in 1..RegionMax
             /\ \E j \in DOMAIN speech : /\ speech[j].start <= regions[i].start
                                         /\ regions[i].stop <= speech[j].stop

Distance(x, time) == IF x >= Centre(time) THEN x - Centre(time) ELSE Centre(time) - x

Nearest(x) ==
    CHOOSE i \in DOMAIN windows :
       \A j \in DOMAIN windows :
          /\ Distance(x, windows[i].start) <= Distance(x, windows[j].start)
          /\ Distance(x, windows[i].start) = Distance(x, windows[j].start) => j <= i

(* Every sample of speech is attributed to the window whose centre is      *)
(* nearest, the later one if two are equally near.                         *)
NearestWindowSpeaks ==
    stage \in {"projected", "done"} =>
       \A i \in DOMAIN regions : \A x \in regions[i].start..(regions[i].stop - 1) :
          regions[i].label = labels[Nearest(x)]
=============================================================================
