-------------------------- MODULE JobService_proofs --------------------------
(***************************************************************************)
(* Proofs about JobService, for any jobs, callers and bounds.              *)
(*                                                                         *)
(* RowStep lists what a step of the service may do to one row, under which *)
(* condition on that row alone.  One lemma goes through all actions and    *)
(* shows that each of them is a RowStep of every row; what a row can       *)
(* become is then argued about RowStep, without threads, files, crashes.   *)
(*                                                                         *)
(* The second part needs an invariant of the rows, leases, files and of    *)
(* where every thread is, StoreInv: startup accepts what any crash leaves, *)
(* inputs and results are kept, files are accounted for, crashes are       *)
(* counted right.  JobStep lists what a step of the running service may do *)
(* to one job; each thread's part of the invariant is then shown to        *)
(* survive every JobStep of the others, and its own steps.                 *)
(*                                                                         *)
(* The third part maps every RowStep to a step of JobLifecycle.            *)
(***************************************************************************)
EXTENDS JobService, TLAPS

Shown(r) == r.phase \in {"visible", "deleting"} /\ r.status \in Terminal

\* What a running job that is not being cancelled may become.
RunningStep(r, s) ==
    \/ \E n \in 0..Samples, eof \in BOOLEAN :
          n >= r.processed /\ (eof => n = Samples) /\ s = Progressed(r, n, eof)
    \/ r.total /\ r.processed = Samples /\ s = Succeeded(r)
    \/ \E code \in {"runtime", "worker_crashed"} : s = Failed(r, code)
    \/ s = Requeued(r)
    \/ r.crashes = 0 /\ s = [Requeued(r) EXCEPT !.crashes = 1]

RowStep(r, s) ==
    \/ s = r
    \/ r.phase = "none" /\ s = ReceivingRow
    \/ r.phase = "receiving" /\ (s = Published(r) \/ s = Deleting(r))
    \/ r.phase = "deleting" /\ s = NoRow
    \/ Is(r, "queued") /\ \E g \in Nat \ {0} : s = Claimed(r, g)
    \/ Is(r, "queued") /\ (r.attempt > 0 => DeletesRequeued) /\ s = CancelledWhileQueued(r)
    \/ Is(r, "running") /\ ~r.cancel /\ RunningStep(r, s)
    \/ Is(r, "running") /\ s = CancelRequested(r)
    \/ Is(r, "running") /\ r.cancel /\ s = Cancelled(r)
    \/ Shown(r) /\ s = Deleting(r)
    \/ r.phase = "visible" /\ r.status \in Terminal /\ s = InputCleaned(r)

RowsStep ==
    /\ job' = [j \in Jobs |-> job'[j]]
    /\ \A j \in Jobs : RowStep(job[j], job'[j])

-----------------------------------------------------------------------------

\* An update of one row leaves the others alone.
LEMMA SetRowFacts ==
    ASSUME job \in [Jobs -> Rows], NEW i, NEW row, SetRow(i, row),
           i \in Jobs => RowStep(job[i], row)
    PROVE  RowsStep
<1>1. job' = [job EXCEPT ![i] = row]
  BY DEF SetRow
<1> SUFFICES ASSUME NEW j \in Jobs PROVE RowStep(job[j], job'[j])
  BY <1>1 DEF RowsStep
<1>2. CASE i = j
  <2>1. job'[j] = row
    BY <1>1, <1>2
  <2> QED
    BY <1>2, <2>1
<1>3. CASE i # j
  <2>1. job'[j] = job[j]
    BY <1>1, <1>3
  <2> QED
    BY <2>1 DEF RowStep
<1> QED
  BY <1>2, <1>3

\* A step that leaves the table alone is a step of every row.
LEMMA SameRows == TypeOK /\ job' = job => RowsStep
<1> SUFFICES ASSUME TypeOK, job' = job PROVE RowsStep
  OBVIOUS
<1>1. job = [j \in Jobs |-> job[j]]
  BY DEF TypeOK, StoreTypeOK
<1>2. \A j \in Jobs : RowStep(job[j], job[j])
  BY DEF RowStep
<1> QED
  BY <1>1, <1>2 DEF RowsStep

\* An upload request inserts, publishes, or drops its own receiving row.
LEMMA UploadRows ==
    ASSUME TypeOK, NEW j \in Jobs, BeginUpload(j) \/ UploadStep(j)
    PROVE  RowsStep
<1>0. job \in [Jobs -> Rows]
  BY DEF TypeOK, StoreTypeOK
<1>1. CASE BeginUpload(j)
  BY <1>0, <1>1, SetRowFacts DEF BeginUpload, InsertReceiving, RowStep
<1>2. CASE PublishJob(j)
  BY <1>0, <1>2, SetRowFacts DEF PublishJob, PublishRow, OnlyRow, RowStep
<1>3. CASE AbortUpload(j)
  BY <1>0, <1>3, SetRowFacts DEF AbortUpload, DoomUpload, OnlyRow, RowStep
<1>4. CASE FinishAbort(j)
  BY <1>0, <1>4, SetRowFacts DEF FinishAbort, DropUpload, RowStep
<1>5. CASE OpenUpload(j) \/ RenameUpload(j) \/ SealUpload(j) \/ UnlinkUpload(j)
  BY <1>5, SameRows
     DEF OpenUpload, RenameUpload, SealUpload, UnlinkUpload, OnlyFile, SealInput, OnlyLease
<1> QED
  BY <1>1, <1>2, <1>3, <1>4, <1>5 DEF UploadStep

\* What the executor does to the row of its attempt, every write fenced by the
\* attempt's token or by the status it commits.
LEMMA AttemptRows ==
    ASSUME TypeOK, AttemptStep
    PROVE  RowsStep
<1>0. job \in [Jobs -> Rows]
  BY DEF TypeOK, StoreTypeOK
<1>1. CASE \E n \in 0..Samples, eof \in BOOLEAN : Progress(n, eof)
  <2>1. PICK n \in 0..Samples, eof \in BOOLEAN : Progress(n, eof)
    BY <1>1
  <2>2. CASE job' = job
    BY <2>2, SameRows
  <2>3. CASE job' # job
    <3>1. /\ Holds(ex.job, ex.token) /\ ~job[ex.job].cancel
          /\ n >= job[ex.job].processed /\ (eof => n = Samples)
          /\ SetRow(ex.job, Progressed(job[ex.job], n, eof))
      BY <2>1, <2>3 DEF Progress, Fenced, OnlyRow, SegmentAborted
    <3> QED
      BY <1>0, <3>1, SetRowFacts DEF Holds, RowStep, RunningStep
  <2> QED
    BY <2>2, <2>3
<1>2. CASE CommitSuccess
  <2>1. CASE MaySucceed(ex.job, ex.token)
    BY <1>0, <1>2, <2>1, SetRowFacts
       DEF CommitSuccess, OnlyRow, MaySucceed, Holds, RowStep, RunningStep
  <2>2. CASE ~MaySucceed(ex.job, ex.token)
    BY <1>2, <2>2, SameRows DEF CommitSuccess, store
  <2> QED
    BY <2>1, <2>2
<1>3. CASE CommitFailure
  <2>1. CASE Fenced("fail") = "fail"
    <3>1. Holds(ex.job, ex.token) /\ ~job[ex.job].cancel
      BY <2>1 DEF Fenced
    <3> QED
      BY <1>0, <1>3, <2>1, <3>1, SetRowFacts
         DEF CommitFailure, OnlyRow, Holds, RowStep, RunningStep
  <2>2. CASE Fenced("fail") # "fail"
    BY <1>3, <2>2, SameRows DEF CommitFailure, store
  <2> QED
    BY <2>1, <2>2
<1>4. CASE CommitCancelled \/ CancelAtShutdown
  <2>1. CASE Holds(ex.job, ex.token) /\ job[ex.job].cancel
    BY <1>0, <1>4, <2>1, SetRowFacts
       DEF CommitCancelled, CancelAtShutdown, CommitCancellation, OnlyRow, Holds, RowStep
  <2>2. CASE ~(Holds(ex.job, ex.token) /\ job[ex.job].cancel)
    BY <1>4, <2>2, SameRows
       DEF CommitCancelled, CancelAtShutdown, CommitCancellation, store
  <2> QED
    BY <2>1, <2>2
<1>5. CASE CleanupInput
  <2>1. CASE job' = job
    BY <2>1, SameRows
  <2>2. CASE job' # job
    <3>1. CleanupCommits(ex.job, ex.status) /\ CleanInput(ex.job)
      BY <1>5, <2>2 DEF CleanupInput, store
    <3>2. ex.status \in Terminal \cup {"null"}
      BY DEF TypeOK, Executors
    <3>3. Is(job[ex.job], ex.status) /\ Decodes(InputCleaned(job[ex.job]))
      BY <3>1 DEF CleanupCommits, CleanupDue
    <3>4. ex.job \in Jobs => job[ex.job].status \in Terminal
      BY <1>0, <3>2, <3>3
         DEF Is, Decodes, InputCleaned, Rows, ReceivingShape, QueuedShape, RunningShape,
             TerminalShape, Terminal
    <3> QED
      BY <1>0, <3>1, <3>3, <3>4, SetRowFacts DEF CleanInput, Is, RowStep
  <2> QED
    BY <2>1, <2>2
<1>6. CASE RequeueAtShutdown
  <2>1. CASE MayRequeue(ex.job, ex.token, proc.generation)
    BY <1>0, <1>6, <2>1, SetRowFacts
       DEF RequeueAtShutdown, OnlyRow, MayRequeue, Holds, RowStep, RunningStep
  <2>2. CASE ~MayRequeue(ex.job, ex.token, proc.generation)
    BY <1>6, <2>2, SameRows DEF RequeueAtShutdown, store
  <2> QED
    BY <2>1, <2>2
<1>7. CASE Register \/ ResolveInput \/ OpenSegment \/ OpenResult \/ RenameResult
             \/ SealResult \/ UnlinkSegment \/ DropSegment \/ LookBeforeSuccess
             \/ UnlinkResult \/ DropResult
  BY <1>7, SameRows
     DEF Register, ResolveInput, OpenSegment, OpenResult, RenameResult, SealResult,
         UnlinkSegment, DropSegment, LookBeforeSuccess, UnlinkResult, DropResult, OnlyFile,
         OnlyLease, store
<1>8. CASE BeginSegment \/ BeginResult \/ ProcessFails \/ ProcessCancelled \/ SealSegment
             \/ ResultNotAdmitted
  BY <1>8, SameRows
     DEF BeginSegment, BeginResult, BeginArtifact, OnlyLease, ProcessFails,
         ProcessCancelled, SegmentAborted, SealSegment, ResultNotAdmitted, store
<1>9. CASE CheckInput \/ UnlinkInput \/ NothingToDiscard \/ WrapUp \/ SeeMarker
  BY <1>9, SameRows
     DEF CheckInput, UnlinkInput, NothingToDiscard, WrapUp, SeeMarker, OnlyFile, store
<1> QED
  BY <1>1, <1>2, <1>3, <1>4, <1>5, <1>6, <1>7, <1>8, <1>9 DEF AttemptStep

\* A claim, and the end of the executor.
LEMMA ExecutorRows ==
    ASSUME TypeOK, ExecutorStep
    PROVE  RowsStep
<1>0. job \in [Jobs -> Rows] /\ proc.generation \in Nat \ {0}
  BY DEF TypeOK, StoreTypeOK, Processes
<1>1. CASE Quit
  BY <1>1, SameRows DEF Quit, store
<1>2. CASE \E j \in Jobs : Claim(j)
  BY <1>0, <1>2, SetRowFacts DEF Claim, ClaimRow, OnlyRow, RowStep
<1> QED
  BY <1>1, <1>2, AttemptRows DEF ExecutorStep

\* DELETE looks at a row and cancels, asks for a cancellation, or makes it
\* deleting; the sweep makes it deleting.
LEMMA DeleteRows ==
    ASSUME TypeOK, NEW c, NEW j \in Jobs, DeleteJob(c, j) \/ SweepJob(j)
    PROVE  RowsStep
<1>0. job \in [Jobs -> Rows]
  BY DEF TypeOK, StoreTypeOK
<1>1. CASE DeleteJob(c, j)
  <2>1. CASE job' = job
    BY <2>1, SameRows
  <2>2. CASE Is(job[j], "queued") /\ OnlyRow(j, CancelledWhileQueued(job[j]))
    <3>1. job[j].attempt > 0 => DeletesRequeued
      BY <1>1, <2>2 DEF DeleteJob
    <3> QED
      BY <1>0, <2>2, <3>1, SetRowFacts DEF OnlyRow, RowStep
  <2>3. CASE Is(job[j], "running") /\ OnlyRow(j, CancelRequested(job[j]))
    BY <1>0, <2>3, SetRowFacts DEF OnlyRow, RowStep
  <2>4. CASE /\ job[j].phase \in {"visible", "deleting"} /\ job[j].status \in Terminal
             /\ OnlyRow(j, Deleting(job[j]))
    BY <1>0, <2>4, SetRowFacts DEF OnlyRow, RowStep, Shown
  <2> QED
    BY <1>1, <2>1, <2>2, <2>3, <2>4 DEF DeleteJob, store
<1>2. CASE SweepJob(j)
  BY <1>0, <1>2, SetRowFacts DEF SweepJob, OnlyRow, RowStep, Shown
<1> QED
  BY <1>1, <1>2

\* What the thread of a client goes on to do.
LEMMA ClientRows ==
    ASSUME TypeOK, NEW c \in Clients, ClientStep(c)
    PROVE  RowsStep
<1>0. job \in [Jobs -> Rows]
  BY DEF TypeOK, StoreTypeOK
<1>1. CASE CleanupCommit(c)
  <2> DEFINE j == client[c].job
  <2>1. CASE job' = job
    BY <2>1, SameRows
  <2>2. CASE job' # job
    <3>1. CleanupCommits(j, "cancelled") /\ CleanInput(j)
      BY <1>1, <2>2 DEF CleanupCommit, store
    <3> QED
      BY <1>0, <3>1, SetRowFacts
         DEF CleanupCommits, CleanupDue, CleanInput, Is, Terminal, RowStep
  <2> QED
    BY <2>1, <2>2
<1>2. CASE DeleteRemove(c)
  <2> DEFINE j == client[c].job
  <2>1. CASE job' = job
    BY <2>1, SameRows
  <2>2. CASE job' # job
    <3>1. DeletionUnchanged(j, client[c].seen) /\ RemoveJob(j)
      BY <1>2, <2>2 DEF DeleteRemove, store
    <3> QED
      BY <1>0, <3>1, SetRowFacts
         DEF DeletionUnchanged, DeletionConsistent, RemoveJob, RowStep
  <2> QED
    BY <2>1, <2>2
<1>3. CASE Notify(c) \/ CleanupCheck(c) \/ CleanupUnlink(c) \/ DeleteRead(c)
             \/ DeleteUnlinkInput(c) \/ DeleteUnlinkArtifacts(c) \/ GiveUp(c)
  BY <1>3, SameRows
     DEF Notify, CleanupCheck, CleanupUnlink, DeleteRead, DeleteUnlinkInput,
         DeleteUnlinkArtifacts, GiveUp, OnlyFile, store
<1> QED
  BY <1>1, <1>2, <1>3 DEF ClientStep

\* The end of a process leaves the table alone; startup classifies the running
\* rows and sweeps the others.
LEMMA ProcessRows ==
    ASSUME TypeOK, BeginShutdown \/ ShutdownStep \/ Crash \/ BootStep
    PROVE  RowsStep
<1>1. CASE Classify
  <2>1. CASE job' = job
    BY <2>1, SameRows
  <2>2. CASE ClassifyRows
    <3> SUFFICES ASSUME NEW j \in Jobs PROVE RowStep(job[j], Classified(j))
      BY <2>2 DEF ClassifyRows, RowsStep
    <3>1. CASE Is(job[j], "running")
      <4>1. Classified(j) = ClassifiedRunning(j)
        BY <3>1 DEF Classified
      <4>2. CASE job[j].cancel
        BY <3>1, <4>1, <4>2 DEF ClassifiedRunning, RowStep
      <4>3. CASE ~job[j].cancel
        <5>1. RunningStep(job[j], ClassifiedRunning(j))
          BY <4>3 DEF ClassifiedRunning, RunningStep, Recoverable
        <5> QED
          BY <3>1, <4>1, <4>3, <5>1 DEF RowStep
      <4> QED
        BY <4>2, <4>3
    <3>2. CASE ~Is(job[j], "running")
      BY <3>2 DEF Classified, RowStep
    <3> QED
      BY <3>1, <3>2
  <2> QED
    BY <1>1, <2>1, <2>2 DEF Classify, store
<1>2. CASE SweepLedger
  <2> SUFFICES ASSUME NEW j \in Jobs PROVE RowStep(job[j], SweptRow(job[j]))
    BY <1>2 DEF SweepLedger, SweepRows, RowsStep
  <2> QED
    BY DEF SweptRow, RowStep
<1>3. CASE BeginShutdown \/ WriteMarker \/ Exit \/ Crash \/ Start \/ UnlinkedAll
             \/ \E j \in Jobs, r \in Resources : UnlinkStray(j, r)
  BY <1>3, SameRows
     DEF BeginShutdown, WriteMarker, Exit, Crash, Start, UnlinkedAll, UnlinkStray, OnlyFile,
         ProcessEnds, store
<1> QED
  BY <1>1, <1>2, <1>3 DEF BootStep, ShutdownStep

\* Every step of the service is a RowStep of every row.
LEMMA NextRows ==
    ASSUME TypeOK, [Next]_vars
    PROVE  RowsStep
<1>1. CASE UNCHANGED vars
  BY <1>1, SameRows DEF vars, store
<1> QED
  BY <1>1, UploadRows, ExecutorRows, DeleteRows, ClientRows, ProcessRows DEF Next

-----------------------------------------------------------------------------
(***************************************************************************)
(* What a row can become.                                                  *)
(***************************************************************************)

\* One field at a time, a row stays a row.
LEMMA RowUpdates ==
    ASSUME NEW r \in Rows
    PROVE  /\ \A v \in Phases : [r EXCEPT !.phase = v] \in Rows
           /\ \A v \in Statuses : [r EXCEPT !.status = v] \in Rows
           /\ \A v \in BOOLEAN : [r EXCEPT !.input = v] \in Rows
           /\ \A v \in BOOLEAN : [r EXCEPT !.total = v] \in Rows
           /\ \A v \in 0..Samples : [r EXCEPT !.processed = v] \in Rows
           /\ \A v \in Nat : [r EXCEPT !.attempt = v] \in Rows
           /\ \A v \in Nat : [r EXCEPT !.owner = v] \in Rows
           /\ \A v \in 0..1 : [r EXCEPT !.crashes = v] \in Rows
           /\ \A v \in BOOLEAN : [r EXCEPT !.cancel = v] \in Rows
           /\ \A v \in BOOLEAN : [r EXCEPT !.result = v] \in Rows
           /\ \A v \in Errors : [r EXCEPT !.error = v] \in Rows
           /\ \A v \in BOOLEAN : [r EXCEPT !.cleanup = v] \in Rows
           /\ \A v \in BOOLEAN : [r EXCEPT !.started = v] \in Rows
BY DEF Rows

\* No row, and the row an upload inserts.
LEMMA NewRows == NoRow \in Rows /\ ReceivingRow \in Rows
<1>1. NoRow \in Rows
  BY SamplesAssumption DEF Rows, NoRow, Phases, Statuses, Errors
<1> DEFINE a == [NoRow EXCEPT !.phase = "receiving"]
<1>2. a \in Rows
  BY <1>1, RowUpdates DEF Phases
<1>3. [a EXCEPT !.input = TRUE] \in Rows
  <2> HIDE DEF a
  <2> QED
    BY <1>2, RowUpdates
<1> QED
  BY <1>1, <1>3 DEF ReceivingRow

\* The claim sets four fields.
LEMMA ClaimedType ==
    ASSUME NEW r \in Rows, NEW g \in Nat
    PROVE  Claimed(r, g) \in Rows
<1> DEFINE a == [r EXCEPT !.status = "running"]
           b == [a EXCEPT !.attempt = r.attempt + 1]
           c == [b EXCEPT !.owner = g]
           d == [c EXCEPT !.started = TRUE]
<1>0. r.attempt + 1 \in Nat
  BY DEF Rows
<1>1. Claimed(r, g) = d
  BY DEF Claimed
<1>2. a \in Rows
  BY RowUpdates DEF Statuses
<1> HIDE DEF a
<1>3. b \in Rows
  BY <1>0, <1>2, RowUpdates
<1> HIDE DEF b
<1>4. c \in Rows
  BY <1>3, RowUpdates
<1> HIDE DEF c
<1>5. d \in Rows
  BY <1>4, RowUpdates
<1> QED
  BY <1>1, <1>5

\* A requeue sets five fields, the one after a crash a sixth.
LEMMA RequeuedType ==
    ASSUME NEW r \in Rows
    PROVE  Requeued(r) \in Rows /\ [Requeued(r) EXCEPT !.crashes = 1] \in Rows
<1> DEFINE a == [r EXCEPT !.status = "queued"]
           b == [a EXCEPT !.processed = 0]
           c == [b EXCEPT !.owner = 0]
           d == [c EXCEPT !.cancel = FALSE]
           e == [d EXCEPT !.started = FALSE]
<1>1. Requeued(r) = e
  BY DEF Requeued
<1>2. a \in Rows
  BY RowUpdates DEF Statuses
<1> HIDE DEF a
<1>3. b \in Rows
  <2>1. 0 \in 0..Samples
    BY SamplesAssumption
  <2> QED
    BY <1>2, <2>1, RowUpdates
<1> HIDE DEF b
<1>4. c \in Rows
  BY <1>3, RowUpdates
<1> HIDE DEF c
<1>5. d \in Rows
  BY <1>4, RowUpdates
<1> HIDE DEF d
<1>6. e \in Rows
  BY <1>5, RowUpdates
<1> HIDE DEF e
<1>7. [e EXCEPT !.crashes = 1] \in Rows
  <2>1. 1 \in 0..1
    OBVIOUS
  <2> QED
    BY <1>6, <2>1, RowUpdates
<1> QED
  BY <1>1, <1>6, <1>7

\* The updates that end a job, and the one that forgets its input.
LEMMA TerminalType ==
    ASSUME NEW r \in Rows
    PROVE  /\ Succeeded(r) \in Rows /\ Cancelled(r) \in Rows
           /\ CancelledWhileQueued(r) \in Rows /\ InputCleaned(r) \in Rows
           /\ \A code \in Errors : Failed(r, code) \in Rows
<1>1. CancelledWhileQueued(r) \in Rows /\ InputCleaned(r) \in Rows
  BY DEF Rows, CancelledWhileQueued, InputCleaned, Statuses
<1>2. Cancelled(r) \in Rows
  BY DEF Rows, Cancelled, Statuses
<1>3. \A status \in Statuses : [r EXCEPT !.status = status, !.owner = 0] \in Rows
  BY DEF Rows
<1>4. Succeeded(r) \in Rows
  <2> DEFINE a == [r EXCEPT !.status = "succeeded", !.owner = 0]
  <2>1. a \in Rows
    BY <1>3 DEF Statuses
  <2>2. Succeeded(r) = [[a EXCEPT !.result = TRUE] EXCEPT !.cleanup = TRUE]
    BY DEF Succeeded
  <2> HIDE DEF a
  <2> QED
    BY <2>1, <2>2 DEF Rows
<1>5. ASSUME NEW code \in Errors PROVE Failed(r, code) \in Rows
  <2> DEFINE a == [r EXCEPT !.status = "failed", !.owner = 0]
  <2>1. a \in Rows
    BY <1>3 DEF Statuses
  <2>2. Failed(r, code) = [[a EXCEPT !.error = code] EXCEPT !.cleanup = TRUE]
    BY DEF Failed
  <2> HIDE DEF a
  <2> QED
    BY <2>1, <2>2 DEF Rows
<1> QED
  BY <1>1, <1>2, <1>4, <1>5

\* What a row becomes is a row.
LEMMA RowType ==
    ASSUME NEW r \in Rows, NEW s, RowStep(r, s)
    PROVE  s \in Rows
<1>1. Published(r) \in Rows /\ Deleting(r) \in Rows /\ CancelRequested(r) \in Rows
  BY DEF Rows, Published, Deleting, CancelRequested, Phases, Statuses
<1>2. \A n \in 0..Samples, eof \in BOOLEAN : Progressed(r, n, eof) \in Rows
  BY DEF Rows, Progressed
<1>3. RunningStep(r, s) => s \in Rows
  BY <1>2, RequeuedType, TerminalType DEF RunningStep, Errors
<1> QED
  BY <1>1, <1>3, NewRows, ClaimedType, TerminalType DEF RowStep

\* A decodable row becomes one, provided that no DELETE cancels a job that has
\* been claimed and queued again: that row has neither shape of "cancelled".
LEMMA RowDecodes ==
    ASSUME NEW r \in Rows, NEW s, RowStep(r, s), r.phase # "none" => Decodes(r),
           ~DeletesRequeued, s.phase # "none"
    PROVE  Decodes(s)
<1> USE SamplesAssumption DEF Rows, Is, Decodes, LocalValuesHold
<1>1. CASE s = r \/ s = NoRow
  BY <1>1 DEF NoRow
<1>2. CASE s = ReceivingRow
  BY <1>2 DEF ReceivingRow, NoRow, ReceivingShape
<1>3. CASE r.phase = "receiving" /\ (s = Published(r) \/ s = Deleting(r))
  BY <1>3 DEF Published, Deleting, ReceivingShape, QueuedShape, TerminalShape
<1>4. CASE Is(r, "queued") /\ \E g \in Nat \ {0} : s = Claimed(r, g)
  BY <1>4 DEF Claimed, QueuedShape, RunningShape, TerminalShape
<1>5. CASE Is(r, "queued") /\ ~(r.attempt > 0) /\ s = CancelledWhileQueued(r)
  BY <1>5 DEF CancelledWhileQueued, QueuedShape, TerminalShape, CancelledShape
<1>6. CASE Is(r, "running") /\ RunningStep(r, s) /\ ~r.cancel
  <2>1. RunningShape(r) /\ r.crashes <= r.attempt
    BY <1>6 DEF TerminalShape
  <2>2. CASE \E n \in 0..Samples, eof \in BOOLEAN :
                n >= r.processed /\ (eof => n = Samples) /\ s = Progressed(r, n, eof)
    BY <1>6, <2>1, <2>2 DEF Progressed, RunningShape
  <2>3. CASE r.total /\ r.processed = Samples /\ s = Succeeded(r)
    BY <1>6, <2>1, <2>3 DEF Succeeded, RunningShape, TerminalShape, SucceededShape
  <2>4. CASE \E code \in {"runtime", "worker_crashed"} : s = Failed(r, code)
    BY <1>6, <2>1, <2>4 DEF Failed, RunningShape, TerminalShape, FailedShape
  <2>5. CASE s = Requeued(r) \/ s = [Requeued(r) EXCEPT !.crashes = 1]
    <3> DEFINE q == Requeued(r)
    <3>1. /\ q.phase = r.phase /\ q.status = "queued" /\ q.input = r.input
          /\ q.total = r.total /\ q.processed = 0 /\ q.attempt = r.attempt
      BY DEF Requeued
    <3>2. /\ q.owner = 0 /\ q.crashes = r.crashes /\ q.cancel = FALSE
          /\ q.result = r.result /\ q.error = r.error /\ q.cleanup = r.cleanup
          /\ q.started = FALSE
      BY DEF Requeued
    <3>3. q \in Rows
      BY RequeuedType
    <3> HIDE DEF q
    <3>4. Decodes(q)
      BY <1>6, <2>1, <3>1, <3>2, <3>3 DEF RunningShape, QueuedShape
    <3> DEFINE t == [q EXCEPT !.crashes = 1]
    <3>5. /\ t.phase = q.phase /\ t.status = q.status /\ t.input = q.input
          /\ t.total = q.total /\ t.processed = q.processed /\ t.attempt = q.attempt
      BY <3>3
    <3>6. /\ t.owner = q.owner /\ t.crashes = 1 /\ t.cancel = q.cancel
          /\ t.result = q.result /\ t.error = q.error /\ t.cleanup = q.cleanup
          /\ t.started = q.started
      BY <3>3
    <3> HIDE DEF t
    <3>7. Decodes(t)
      BY <1>6, <2>1, <3>1, <3>2, <3>3, <3>5, <3>6 DEF RunningShape, QueuedShape
    <3> QED
      BY <2>5, <3>4, <3>7 DEF q, t
  <2> QED
    BY <1>6, <2>2, <2>3, <2>4, <2>5 DEF RunningStep
<1>7. CASE Is(r, "running") /\ s = CancelRequested(r)
  BY <1>7 DEF CancelRequested, RunningShape, TerminalShape
<1>8. CASE Is(r, "running") /\ r.cancel /\ s = Cancelled(r)
  BY <1>8 DEF Cancelled, RunningShape, TerminalShape, CancelledShape
<1>9. CASE Shown(r) /\ s = Deleting(r)
  BY <1>9
     DEF Shown, Deleting, Terminal, ReceivingShape, TerminalShape, SucceededShape,
         FailedShape, CancelledShape
<1>10. CASE r.phase = "visible" /\ r.status \in Terminal /\ s = InputCleaned(r)
  BY <1>10
     DEF InputCleaned, Terminal, TerminalShape, SucceededShape, FailedShape, CancelledShape
<1> HIDE DEF Rows, Is, Decodes, LocalValuesHold
<1> QED
  BY <1>1, <1>2, <1>3, <1>4, <1>5, <1>6, <1>7, <1>8, <1>9, <1>10 DEF RowStep

\* A cancellation asked of a running job stays until the job is cancelled.
LEMMA RowCancels ==
    ASSUME NEW r \in Rows, NEW s, RowStep(r, s), Is(r, "running"), r.cancel
    PROVE  (Is(s, "running") /\ s.cancel) \/ Is(s, "cancelled")
BY DEF RowStep, Rows, Is, CancelRequested, Cancelled, Shown, Terminal

-----------------------------------------------------------------------------
(***************************************************************************)
(* Type correctness.                                                       *)
(***************************************************************************)

\* A client that does something does it to a job; ex may hold no job, because
\* its place in the program is not related to it here.
TypeInv ==
    /\ TypeOK
    /\ \A c \in Clients : client[c].pc # "idle" => client[c].job \in Jobs

\* A lease set to a phase; j may be no job at all.
LEMMA LeaseType ==
    ASSUME TypeOK, NEW j, NEW r, NEW phase \in LeasePhases, SetLease(j, r, phase)
    PROVE  lease' \in [Jobs -> Leases]
BY DEF TypeOK, StoreTypeOK, SetLease, Leases

\* The same for a file.
LEMMA FileType ==
    ASSUME TypeOK, NEW j, NEW r, NEW phase \in FilePhases, SetFile(j, r, phase)
    PROVE  file' \in [Jobs -> Files]
BY DEF TypeOK, StoreTypeOK, SetFile, Files

LedgerTypeOK == lease \in [Jobs -> Leases] /\ file \in [Jobs -> Files] /\ marker \in Nat

\* The shapes that the actions give to leases, files and the marker.
LEMMA LedgerSteps ==
    ASSUME TypeOK
    PROVE  /\ UNCHANGED <<lease, file, marker>> => LedgerTypeOK'
           /\ UNCHANGED store => LedgerTypeOK'
           /\ \A j, row : OnlyRow(j, row) => LedgerTypeOK'
           /\ \A j, r : \A phase \in LeasePhases : OnlyLease(j, r, phase) => LedgerTypeOK'
           /\ \A j, r : \A phase \in FilePhases : OnlyFile(j, r, phase) => LedgerTypeOK'
<1>0. LedgerTypeOK
  BY DEF TypeOK, StoreTypeOK, LedgerTypeOK
<1>1. UNCHANGED <<lease, file, marker>> => LedgerTypeOK'
  BY <1>0 DEF LedgerTypeOK
<1>2. UNCHANGED store => LedgerTypeOK'
  BY <1>1 DEF store
<1>3. \A j, row : OnlyRow(j, row) => LedgerTypeOK'
  BY <1>1 DEF OnlyRow
<1>4. ASSUME NEW j, NEW r, NEW phase \in LeasePhases, OnlyLease(j, r, phase)
      PROVE  LedgerTypeOK'
  BY <1>0, <1>4, LeaseType DEF OnlyLease, LedgerTypeOK
<1>5. ASSUME NEW j, NEW r, NEW phase \in FilePhases, OnlyFile(j, r, phase)
      PROVE  LedgerTypeOK'
  BY <1>0, <1>5, FileType DEF OnlyFile, LedgerTypeOK
<1> QED
  BY <1>1, <1>2, <1>3, <1>4, <1>5

\* Leases, files and marker under the steps of an upload.
LEMMA UploadLedger ==
    ASSUME TypeOK, NEW j \in Jobs, BeginUpload(j) \/ UploadStep(j)
    PROVE  LedgerTypeOK'
<1>0. LedgerTypeOK
  BY DEF TypeOK, StoreTypeOK, LedgerTypeOK
<1>1. CASE BeginUpload(j) \/ FinishAbort(j)
  BY <1>0, <1>1, LeaseType
     DEF BeginUpload, InsertReceiving, FinishAbort, DropUpload, LeasePhases, LedgerTypeOK
<1>2. CASE OpenUpload(j) \/ RenameUpload(j) \/ UnlinkUpload(j) \/ SealUpload(j)
  BY <1>2, LedgerSteps
     DEF OpenUpload, RenameUpload, UnlinkUpload, SealUpload, SealInput, LeasePhases, FilePhases
<1>3. CASE PublishJob(j) \/ AbortUpload(j)
  BY <1>3, LedgerSteps DEF PublishJob, PublishRow, AbortUpload, DoomUpload
<1> QED
  BY <1>1, <1>2, <1>3 DEF UploadStep

\* The same under the steps of the executor.
LEMMA ExecutorLedger ==
    ASSUME TypeOK, ExecutorStep
    PROVE  LedgerTypeOK'
<1>0. LedgerTypeOK
  BY DEF TypeOK, StoreTypeOK, LedgerTypeOK
<1>1. SegmentAborted => LedgerTypeOK'
  BY <1>0, LeaseType, FileType DEF SegmentAborted, LeasePhases, FilePhases, LedgerTypeOK
<1>2. CASE \E n \in 0..Samples, eof \in BOOLEAN : Progress(n, eof)
  BY <1>1, <1>2, LedgerSteps DEF Progress
<1>3. CASE ProcessFails \/ ProcessCancelled
  BY <1>1, <1>3 DEF ProcessFails, ProcessCancelled
<1>4. CASE SealSegment \/ ResultNotAdmitted
  BY <1>0, <1>4, LeaseType, FileType
     DEF SealSegment, ResultNotAdmitted, LedgerTypeOK, LeasePhases, FilePhases
<1>5. CASE BeginSegment \/ BeginResult \/ SealResult \/ DropSegment \/ DropResult
  BY <1>5, LedgerSteps
     DEF BeginSegment, BeginResult, BeginArtifact, SealResult, DropSegment, DropResult, LeasePhases
<1>6. CASE OpenSegment \/ OpenResult \/ RenameResult \/ UnlinkSegment \/ UnlinkResult
           \/ UnlinkInput
  BY <1>6, LedgerSteps
     DEF OpenSegment, OpenResult, RenameResult, UnlinkSegment, UnlinkResult, UnlinkInput, FilePhases
<1>7. CASE CommitSuccess \/ CommitFailure \/ CommitCancelled \/ CancelAtShutdown
           \/ RequeueAtShutdown \/ \E j \in Jobs : Claim(j)
  BY <1>7, LedgerSteps
     DEF CommitSuccess, CommitFailure, CommitCancelled, CancelAtShutdown, CommitCancellation,
         RequeueAtShutdown, Claim, ClaimRow
<1>8. CASE CleanupInput
  <2>1. CASE CleanInput(ex.job)
    BY <1>0, <2>1, LeaseType DEF CleanInput, LeasePhases, LedgerTypeOK
  <2> QED
    BY <1>8, <2>1, LedgerSteps DEF CleanupInput
<1>9. CASE Quit \/ Register \/ ResolveInput \/ LookBeforeSuccess \/ CheckInput
           \/ NothingToDiscard \/ WrapUp \/ SeeMarker
  BY <1>9, LedgerSteps
     DEF Quit, Register, ResolveInput, LookBeforeSuccess, CheckInput, NothingToDiscard, WrapUp,
         SeeMarker
<1> QED
  BY <1>2, <1>3, <1>4, <1>5, <1>6, <1>7, <1>8, <1>9 DEF ExecutorStep, AttemptStep

\* The same under DELETE, the sweep, and the cleanups they start.
LEMMA ClientLedger ==
    ASSUME TypeOK, NEW c, ClientStep(c) \/ (\E j \in Jobs : DeleteJob(c, j) \/ SweepJob(j))
    PROVE  LedgerTypeOK'
<1>0. LedgerTypeOK
  BY DEF TypeOK, StoreTypeOK, LedgerTypeOK
<1>1. CASE \E j \in Jobs : DeleteJob(c, j) \/ SweepJob(j)
  BY <1>1, LedgerSteps DEF DeleteJob, SweepJob
<1>2. CASE CleanupCommit(c)
  <2>1. CASE CleanInput(client[c].job)
    BY <1>0, <2>1, LeaseType DEF CleanInput, LeasePhases, LedgerTypeOK
  <2> QED
    BY <1>2, <2>1, LedgerSteps DEF CleanupCommit
<1>3. CASE DeleteRemove(c)
  <2>1. CASE RemoveJob(client[c].job)
    BY <1>0, <2>1 DEF RemoveJob, NoLeases, Leases, LeasePhases, LedgerTypeOK
  <2> QED
    BY <1>3, <2>1, LedgerSteps DEF DeleteRemove
<1>4. CASE DeleteUnlinkArtifacts(c)
  BY <1>0, <1>4 DEF DeleteUnlinkArtifacts, Files, FilePhases, LedgerTypeOK
<1>5. CASE CleanupUnlink(c) \/ DeleteUnlinkInput(c)
  BY <1>5, LedgerSteps DEF CleanupUnlink, DeleteUnlinkInput, FilePhases
<1>6. CASE Notify(c) \/ CleanupCheck(c) \/ DeleteRead(c) \/ GiveUp(c)
  BY <1>6, LedgerSteps DEF Notify, CleanupCheck, DeleteRead, GiveUp
<1> QED
  BY <1>1, <1>2, <1>3, <1>4, <1>5, <1>6 DEF ClientStep

\* The same under shutdown, crash and startup.
LEMMA ProcessLedger ==
    ASSUME TypeOK, BeginShutdown \/ ShutdownStep \/ Crash \/ BootStep
    PROVE  LedgerTypeOK'
<1>0. LedgerTypeOK /\ proc.generation \in Nat
  BY DEF TypeOK, StoreTypeOK, LedgerTypeOK, Processes
<1>1. CASE WriteMarker
  BY <1>0, <1>1 DEF WriteMarker, LedgerTypeOK
<1>2. CASE Classify
  <2>1. CASE ClassifyRows
    BY <1>0, <2>1 DEF ClassifyRows, LedgerTypeOK
  <2> QED
    BY <1>2, <2>1, LedgerSteps DEF Classify
<1>3. CASE \E j \in Jobs, r \in Resources : UnlinkStray(j, r)
  BY <1>3, LedgerSteps DEF UnlinkStray, FilePhases
<1>4. CASE SweepLedger
  BY <1>0, <1>4 DEF SweepLedger, SweepRows, Leases, LeasePhases, LedgerTypeOK
<1>5. CASE BeginShutdown \/ Exit \/ Crash \/ Start \/ UnlinkedAll
  BY <1>5, LedgerSteps DEF BeginShutdown, Exit, Crash, ProcessEnds, Start, UnlinkedAll, store
<1> QED
  BY <1>1, <1>2, <1>3, <1>4, <1>5 DEF ShutdownStep, BootStep

\* Every step leaves the store in its type.
LEMMA NextStore ==
    ASSUME TypeOK, [Next]_vars
    PROVE  StoreTypeOK'
<1>1. job' \in [Jobs -> Rows]
  <2>1. RowsStep /\ job \in [Jobs -> Rows]
    BY NextRows DEF TypeOK, StoreTypeOK
  <2>2. \A j \in Jobs : job'[j] \in Rows
    BY <2>1, RowType DEF RowsStep
  <2> QED
    BY <2>1, <2>2 DEF RowsStep
<1>2. LedgerTypeOK'
  <2>1. CASE UNCHANGED vars
    BY <2>1, LedgerSteps DEF vars
  <2>2. CASE Next
    BY <2>2, UploadLedger, ExecutorLedger, ClientLedger, ProcessLedger DEF Next
  <2> QED
    BY <2>1, <2>2
<1> QED
  BY <1>1, <1>2 DEF StoreTypeOK, LedgerTypeOK

\* The updates of the executor's record, of one field and of several.
LEMMA ExecutorMoves ==
    ASSUME NEW x \in Executors, NEW pc \in ExecutorPlaces
    PROVE  /\ [x EXCEPT !.pc = pc] \in Executors
           /\ \A v \in {"none", "open", "sealed"} :
                  [x EXCEPT !.pc = pc, !.segment = v] \in Executors
           /\ \A v \in {"none", "open", "sealed"} :
                  [x EXCEPT !.segment = v, !.pc = pc] \in Executors
           /\ [x EXCEPT !.pc = pc, !.segment = "none", !.cancelled = TRUE] \in Executors
           /\ \A v \in {"none", "cancelled", "fatal"} :
                  [x EXCEPT !.pc = pc, !.segment = "none", !.error = v] \in Executors
           /\ \A v \in {"none", "cancelled", "fatal"} :
                  [x EXCEPT !.error = v, !.pc = pc] \in Executors
           /\ \A v \in Terminal : [x EXCEPT !.pc = pc, !.status = v] \in Executors
           /\ \A v \in Terminal, then \in {"finally", "gone"} :
                  [x EXCEPT !.pc = pc, !.status = v, !.then = then] \in Executors
           /\ \A j \in Jobs, n \in Nat :
                  [x EXCEPT !.pc = pc, !.job = j, !.token = n] \in Executors
           /\ \A v \in BOOLEAN : [x EXCEPT !.cancelled = v, !.pc = pc] \in Executors
           /\ \A v \in BOOLEAN : [x EXCEPT !.cancelled = v] \in Executors
BY DEF Executors

\* The update of four fields at a committed cancellation.
LEMMA ExecutorEnding ==
    ASSUME NEW x \in Executors, NEW pc \in ExecutorPlaces, NEW v \in Terminal,
           NEW then \in {"finally", "gone"}
    PROVE  [x EXCEPT !.pc = pc, !.status = v, !.error = "none", !.then = then] \in Executors
<1> DEFINE y == [x EXCEPT !.pc = pc, !.status = v]
<1>1. y \in Executors
  BY ExecutorMoves
<1>2. [y EXCEPT !.error = "none", !.then = then] \in Executors
  <2> HIDE DEF y
  <2> QED
    BY <1>1 DEF Executors
<1> QED
  BY <1>2

\* The executor without an attempt.
LEMMA NewExecutor ==
    ASSUME NEW pc \in ExecutorPlaces
    PROVE  ExecutorAt(pc) \in Executors
BY DEF ExecutorAt, Executors

\* A fenced call goes on, to the cancellation, or to the end.
LEMMA FencedPlaces ==
    ASSUME NEW next \in ExecutorPlaces
    PROVE  Fenced(next) \in ExecutorPlaces
BY DEF Fenced, ExecutorPlaces

\* A fatal error is a state of the executor.
LEMMA BrokenType ==
    ASSUME NEW x \in Executors
    PROVE  Broken(x) \in Executors
BY ExecutorMoves DEF Broken, ExecutorPlaces

\* Every step of the executor leaves its record in its type.
LEMMA ExecutorType ==
    ASSUME TypeOK, ExecutorStep
    PROVE  ex' \in Executors
<1>0. ex \in Executors /\ proc.stopping \in BOOLEAN /\ proc.generation \in Nat
  BY DEF TypeOK, Processes
<1>1. ASSUME NEW pc \in ExecutorPlaces, ExMoves(pc)
      PROVE  ex' \in Executors
  BY <1>0, <1>1, ExecutorMoves DEF ExMoves, ExGoes
<1>2. CASE Quit \/ OpenResult \/ RenameResult \/ SealResult \/ UnlinkSegment
           \/ LookBeforeSuccess \/ UnlinkResult \/ UnlinkInput
           \/ NothingToDiscard \/ SeeMarker \/ RequeueAtShutdown
  BY <1>1, <1>2
     DEF Quit, OpenResult, RenameResult, SealResult, UnlinkSegment, LookBeforeSuccess,
         UnlinkResult, UnlinkInput, NothingToDiscard, SeeMarker, RequeueAtShutdown,
         ExecutorPlaces
<1>3. CASE DropResult \/ ResultNotAdmitted
  BY <1>1, <1>3, FencedPlaces DEF DropResult, ResultNotAdmitted, ExecutorPlaces
<1>4. CASE \E j \in Jobs : Claim(j)
  <2>1. PICK j \in Jobs : Claim(j)
    BY <1>4
  <2>2. job[j].attempt + 1 \in Nat
    BY DEF TypeOK, StoreTypeOK, Rows
  <2> QED
    BY <1>0, <2>1, <2>2, ExecutorMoves DEF Claim, ExGoes, ExecutorPlaces
<1>5. CASE Register
  BY <1>0, <1>5, ExecutorMoves DEF Register, ExGoes, ExecutorPlaces
<1>6. CASE ResolveInput
  <2>1. "segment" \in ExecutorPlaces /\ Fenced("segment") \in ExecutorPlaces
    BY FencedPlaces DEF ExecutorPlaces
  <2>2. [ex EXCEPT !.pc = Fenced("segment")] \in Executors
    BY <1>0, <2>1, ExecutorMoves
  <2>3. Broken(ex) \in Executors
    BY <1>0, BrokenType
  <2> QED
    BY <1>6, <2>2, <2>3 DEF ResolveInput, ExGoes
<1>7. ASSUME NEW r, NEW at, NEW next \in ExecutorPlaces, BeginArtifact(r, at, next)
      PROVE  ex' \in Executors
  <2>1. \A pc \in ExecutorPlaces : [ex EXCEPT !.pc = pc] \in Executors
    BY <1>0, ExecutorMoves
  <2>2. Broken(ex) \in Executors
    BY <1>0, BrokenType
  <2>3. Fenced(next) \in ExecutorPlaces
    BY FencedPlaces
  <2> QED
    BY <1>7, <2>1, <2>2, <2>3 DEF BeginArtifact, ExGoes
<1>8. CASE BeginSegment \/ BeginResult
  BY <1>7, <1>8 DEF BeginSegment, BeginResult, ExecutorPlaces
<1>9. CASE OpenSegment \/ ProcessFails \/ SealSegment
  <2>1. {"process", "fail", "result"} \subseteq ExecutorPlaces
    BY DEF ExecutorPlaces
  <2>2. /\ [ex EXCEPT !.pc = "process", !.segment = "open"] \in Executors
        /\ [ex EXCEPT !.pc = "fail", !.segment = "none"] \in Executors
        /\ [ex EXCEPT !.pc = "result", !.segment = "sealed"] \in Executors
    BY <1>0, <2>1, ExecutorMoves
  <2> QED
    BY <1>9, <2>2 DEF OpenSegment, ProcessFails, SealSegment, ExGoes
<1>10. CASE ProcessCancelled \/ DropSegment
  <2>1. {"cancel", "commit", "wrapup"} \subseteq ExecutorPlaces
    BY DEF ExecutorPlaces
  <2>2. /\ [ex EXCEPT !.pc = "cancel", !.segment = "none", !.error = "cancelled"] \in Executors
        /\ [ex EXCEPT !.segment = "none",
                      !.pc = IF ex.pc = "discardRow" THEN "commit" ELSE "wrapup"] \in Executors
    BY <1>0, <2>1, ExecutorMoves
  <2> QED
    BY <1>10, <2>2 DEF ProcessCancelled, DropSegment, ExGoes
<1>11. CASE \E n \in 0..Samples, eof \in BOOLEAN : Progress(n, eof)
  <2>1. PICK n \in 0..Samples, eof \in BOOLEAN : Progress(n, eof)
    BY <1>11
  <2> DEFINE pc == Fenced(IF eof THEN "seal" ELSE "process")
  <2>2. pc \in ExecutorPlaces
    BY FencedPlaces DEF ExecutorPlaces
  <2>3. [ex EXCEPT !.pc = pc, !.segment = "none", !.cancelled = TRUE] \in Executors
    BY <1>0, <2>2, ExecutorMoves
  <2>4. \/ ExMoves(pc)
        \/ ex' = [ex EXCEPT !.pc = pc, !.segment = "none", !.cancelled = TRUE]
    BY <2>1 DEF Progress, ExGoes
  <2> QED
    BY <1>1, <2>2, <2>3, <2>4
<1>12. ASSUME NEW v \in Terminal PROVE [ex EXCEPT !.pc = "check", !.status = v] \in Executors
  <2>1. "check" \in ExecutorPlaces
    BY DEF ExecutorPlaces
  <2> QED
    BY <1>0, <2>1, ExecutorMoves
<1>13. CASE CommitSuccess
  <2>1. \/ ExMoves("dropResult")
        \/ ex' = [ex EXCEPT !.pc = "check", !.status = "succeeded"]
    BY <1>13 DEF CommitSuccess, ExGoes
  <2> QED
    BY <1>1, <1>12, <2>1 DEF ExecutorPlaces, Terminal
<1>14. CASE CommitFailure
  <2>1. \/ ExMoves(Fenced("fail"))
        \/ ex' = [ex EXCEPT !.pc = "check", !.status = "failed"]
    BY <1>14 DEF CommitFailure, ExGoes
  <2>2. Fenced("fail") \in ExecutorPlaces
    BY FencedPlaces DEF ExecutorPlaces
  <2> QED
    BY <1>1, <1>12, <2>1, <2>2 DEF Terminal
<1>15. ASSUME NEW at, NEW stale \in ExecutorPlaces, NEW then \in {"finally", "gone"},
              CommitCancellation(at, stale, then)
       PROVE  ex' \in Executors
  <2>1. "check" \in ExecutorPlaces /\ "cancelled" \in Terminal
    BY DEF ExecutorPlaces, Terminal
  <2>2. [ex EXCEPT !.pc = "check", !.status = "cancelled", !.error = "none", !.then = then]
            \in Executors
    BY <1>0, <2>1, ExecutorEnding
  <2>3. \A pc \in ExecutorPlaces :
           [ex EXCEPT !.pc = pc, !.status = "cancelled", !.then = then] \in Executors
    BY <1>0, <2>1, ExecutorMoves
  <2> DEFINE pc == IF job[ex.job].status \in {"null", "cancelled"} THEN "check" ELSE stale
  <2>4. \/ ex' = [ex EXCEPT !.pc = "check", !.status = "cancelled", !.error = "none",
                            !.then = then]
        \/ ex' = [ex EXCEPT !.pc = pc, !.status = "cancelled", !.then = then]
    BY <1>15 DEF CommitCancellation, ExGoes
  <2>5. pc \in ExecutorPlaces
    BY <2>1
  <2> HIDE DEF pc
  <2> QED
    BY <2>2, <2>3, <2>4, <2>5
<1>16. CASE CommitCancelled \/ CancelAtShutdown
  BY <1>15, <1>16 DEF CommitCancelled, CancelAtShutdown, ExecutorPlaces
<1>17. CASE CheckInput \/ CleanupInput
  <2>1. ex.then \in ExecutorPlaces /\ "unlink" \in ExecutorPlaces
    BY <1>0 DEF Executors, ExecutorPlaces
  <2>2. [ex EXCEPT !.pc = ex.then] \in Executors /\ [ex EXCEPT !.pc = "unlink"] \in Executors
    BY <1>0, <2>1, ExecutorMoves
  <2>3. Broken(ex) \in Executors
    BY <1>0, BrokenType
  <2> QED
    BY <1>1, <1>17, <2>1, <2>2, <2>3 DEF CheckInput, CleanupInput, ExGoes
<1>18. CASE WrapUp
  <2>1. {"waitMarker", "dead", "idle"} \subseteq ExecutorPlaces
    BY DEF ExecutorPlaces
  <2>2. /\ [ex EXCEPT !.pc = "waitMarker"] \in Executors
        /\ [ex EXCEPT !.pc = "dead"] \in Executors
        /\ ExecutorAt("idle") \in Executors
    BY <1>0, <2>1, ExecutorMoves, NewExecutor
  <2> QED
    BY <1>18, <2>2 DEF WrapUp, ExGoes
<1> QED
  BY <1>2, <1>3, <1>4, <1>5, <1>6, <1>8, <1>9, <1>10, <1>11, <1>13, <1>14, <1>16, <1>17, <1>18
     DEF ExecutorStep, AttemptStep

\* Everything but the store.
ThreadsTypeOK ==
    /\ proc \in Processes
    /\ ex \in Executors
    /\ upload \in [Jobs -> Uploads]
    /\ client \in [Clients -> ClientStates]
    /\ died \in [Jobs -> Nat]
    /\ \A c \in Clients : client[c].pc # "idle" => client[c].job \in Jobs

\* The type invariant, split at the store.
LEMMA ThreadsType == TypeInv <=> StoreTypeOK /\ ThreadsTypeOK
BY DEF TypeInv, TypeOK, ThreadsTypeOK

\* The executor touches no other thread.
LEMMA ExecutorThreads ==
    ASSUME TypeInv, ExecutorStep
    PROVE  ThreadsTypeOK'
<1>1. UNCHANGED <<proc, upload, client, died>>
  <2>1. CASE Quit \/ (\E j \in Jobs : Claim(j)) \/ Register \/ ResolveInput
             \/ BeginSegment \/ OpenSegment \/ ProcessFails \/ ProcessCancelled \/ SealSegment
             \/ BeginResult \/ OpenResult \/ ResultNotAdmitted \/ RenameResult \/ SealResult
    BY <2>1
       DEF Quit, Claim, Register, ResolveInput, BeginSegment, BeginArtifact, OpenSegment,
           ProcessFails, ProcessCancelled, SealSegment, BeginResult, OpenResult,
           ResultNotAdmitted, RenameResult, SealResult, ExMoves, ExGoes
  <2>2. CASE UnlinkSegment \/ DropSegment \/ LookBeforeSuccess \/ CommitSuccess
             \/ UnlinkResult \/ DropResult \/ CommitFailure \/ CommitCancelled
             \/ \E n \in 0..Samples, eof \in BOOLEAN : Progress(n, eof)
    BY <2>2
       DEF UnlinkSegment, DropSegment, LookBeforeSuccess, CommitSuccess, UnlinkResult,
           DropResult, CommitFailure, CommitCancelled, CommitCancellation, Progress,
           ExMoves, ExGoes
  <2>3. CASE CheckInput \/ UnlinkInput \/ CleanupInput \/ NothingToDiscard \/ WrapUp
             \/ SeeMarker \/ RequeueAtShutdown \/ CancelAtShutdown
    BY <2>3
       DEF CheckInput, UnlinkInput, CleanupInput, NothingToDiscard, WrapUp, SeeMarker,
           RequeueAtShutdown, CancelAtShutdown, CommitCancellation, ExMoves, ExGoes
  <2> QED
    BY <2>1, <2>2, <2>3 DEF ExecutorStep, AttemptStep
<1>2. ThreadsTypeOK
  BY ThreadsType
<1>3. ex' \in Executors
  BY ExecutorType DEF TypeInv
<1> QED
  BY <1>1, <1>2, <1>3 DEF ThreadsTypeOK

\* An upload request touches no other thread.
LEMMA UploadThreads ==
    ASSUME TypeInv, NEW j \in Jobs, BeginUpload(j) \/ UploadStep(j)
    PROVE  ThreadsTypeOK'
<1>1. PICK to \in Uploads : UploadGoes(j, to)
  BY DEF BeginUpload, UploadStep, OpenUpload, RenameUpload, SealUpload, PublishJob,
         AbortUpload, UnlinkUpload, FinishAbort, Uploads
<1>2. ThreadsTypeOK
  BY ThreadsType
<1> QED
  BY <1>1, <1>2 DEF UploadGoes, ThreadsTypeOK

\* The states clients are put in.
LEMMA BusyTypes ==
    /\ IdleClient \in ClientStates /\ IdleClient.pc = "idle"
    /\ \A pc \in ClientPlaces, j \in Jobs :
          Busy(pc, j) \in ClientStates /\ Busy(pc, j).job \in Jobs
BY DEF IdleClient, Busy, ClientStates, ClientPlaces, NoLeases, Leases, LeasePhases

\* What a client becomes: idle, or busy with a job.
Working == {x \in ClientStates : x.pc # "idle" => x.job \in Jobs}

\* A client that goes to a working state leaves the threads typed.
LEMMA ClientType ==
    ASSUME TypeInv, NEW c \in Clients, NEW x \in Working, ClientGoes(c, x), ex' \in Executors
    PROVE  ThreadsTypeOK'
<1>1. ThreadsTypeOK
  BY ThreadsType
<1>2. /\ client' \in [Clients -> ClientStates]
      /\ \A d \in Clients : client'[d] = IF d = c THEN x ELSE client[d]
  BY <1>1 DEF ClientGoes, ThreadsTypeOK, Working
<1>3. \A d \in Clients : client'[d].pc # "idle" => client'[d].job \in Jobs
  BY <1>1, <1>2 DEF ThreadsTypeOK, Working
<1> QED
  BY <1>1, <1>2, <1>3 DEF ClientGoes, ThreadsTypeOK

\* Idle, and busy with a job.
LEMMA WorkingClients ==
    /\ IdleClient \in Working
    /\ \A pc \in ClientPlaces, j \in Jobs : Busy(pc, j) \in Working
BY BusyTypes DEF Working

\* The first transaction of DELETE and of the sweep.
LEMMA DeleteThreads ==
    ASSUME TypeInv, NEW j \in Jobs, (\E c \in Callers : DeleteJob(c, j)) \/ SweepJob(j)
    PROVE  ThreadsTypeOK'
<1>1. ex' \in Executors
  BY DEF TypeInv, TypeOK, DeleteJob, SweepJob
<1>2. PICK c \in Clients : \E pc \in ClientPlaces : ClientGoes(c, Busy(pc, j))
  BY DEF DeleteJob, SweepJob, Clients, ClientPlaces
<1> QED
  BY <1>1, <1>2, WorkingClients, ClientType

\* What follows it.
LEMMA ClientThreads ==
    ASSUME TypeInv, NEW c \in Clients, ClientStep(c)
    PROVE  ThreadsTypeOK'
<1>0. ThreadsTypeOK /\ StoreTypeOK
  BY ThreadsType
<1>1. ex' = ex => ex' \in Executors
  BY <1>0 DEF ThreadsTypeOK
<1> DEFINE j == client[c].job
<1>2. client[c] \in ClientStates /\ (client[c].pc # "idle" => j \in Jobs)
  BY <1>0 DEF ThreadsTypeOK
<1>3. CASE Notify(c)
  <2>1. ex' \in Executors
    BY <1>0, <1>3 DEF Notify, Executors, ThreadsTypeOK
  <2> QED
    BY WorkingClients, <1>3, <2>1, ClientType DEF Notify
<1>4. CASE CleanupCheck(c) \/ CleanupUnlink(c) \/ CleanupCommit(c) \/ DeleteRemove(c)
           \/ GiveUp(c)
  <2>1. ex' = ex /\ client[c].pc # "idle"
    BY <1>4 DEF CleanupCheck, CleanupUnlink, CleanupCommit, DeleteRemove, GiveUp, Doing
  <2>2. \/ ClientGoes(c, IdleClient)
        \/ \E pc \in ClientPlaces : ClientGoes(c, Busy(pc, j))
    BY <1>4
       DEF CleanupCheck, CleanupUnlink, CleanupCommit, DeleteRemove, GiveUp, ClientPlaces
  <2> QED
    BY <1>1, <1>2, <2>1, <2>2, WorkingClients, ClientType
<1>5. CASE DeleteRead(c)
  <2>1. ex' = ex /\ j \in Jobs
    BY <1>2, <1>5 DEF DeleteRead, Doing
  <2>2. [pc |-> "unlinkInput", job |-> j, seen |-> lease[j]] \in Working
    BY <1>0, <2>1 DEF StoreTypeOK, Working, ClientStates, ClientPlaces
  <2>3. \/ ClientGoes(c, IdleClient)
        \/ ClientGoes(c, [pc |-> "unlinkInput", job |-> j, seen |-> lease[j]])
        \/ ClientGoes(c, Busy("deleteFailed", j))
    BY <1>5 DEF DeleteRead
  <2> QED
    BY <1>1, <2>1, <2>2, <2>3, WorkingClients, ClientType DEF ClientPlaces
<1>6. CASE DeleteUnlinkInput(c) \/ DeleteUnlinkArtifacts(c)
  <2>1. ex' = ex /\ j \in Jobs
    BY <1>2, <1>6 DEF DeleteUnlinkInput, DeleteUnlinkArtifacts, Doing
  <2>2. \A pc \in ClientPlaces : [client[c] EXCEPT !.pc = pc] \in Working
    BY <1>2, <2>1 DEF Working, ClientStates
  <2>3. \E pc \in ClientPlaces : ClientGoes(c, [client[c] EXCEPT !.pc = pc])
    BY <1>6 DEF DeleteUnlinkInput, DeleteUnlinkArtifacts, ClientPlaces
  <2> QED
    BY <1>1, <2>1, <2>2, <2>3, ClientType
<1> QED
  BY <1>3, <1>4, <1>5, <1>6 DEF ClientStep

\* Shutdown, crash and startup.
LEMMA ProcessThreads ==
    ASSUME TypeInv, BeginShutdown \/ ShutdownStep \/ Crash \/ BootStep
    PROVE  ThreadsTypeOK'
<1>0. ThreadsTypeOK
  BY ThreadsType
<1>1. CASE BeginShutdown
  <2>1. proc' \in Processes
    BY <1>0, <1>1 DEF BeginShutdown, Processes, MarkerThreads, ThreadsTypeOK
  <2>2. ex' \in Executors
    BY <1>0, <1>1 DEF BeginShutdown, Executors, ThreadsTypeOK
  <2> QED
    BY <1>0, <1>1, <2>1, <2>2 DEF BeginShutdown, ThreadsTypeOK
<1>2. CASE WriteMarker
  BY <1>0, <1>2 DEF WriteMarker, Processes, MarkerThreads, ThreadsTypeOK
<1>3. CASE Exit \/ Crash
  <2>1. ProcessEnds
    BY <1>3 DEF Exit, Crash
  <2>2. proc' \in Processes
    BY <1>0, <2>1 DEF ProcessEnds, Processes, Lives, MarkerThreads, ThreadsTypeOK
  <2>3. ex' \in Executors
    BY <2>1, NewExecutor DEF ProcessEnds, ExecutorPlaces
  <2>4. upload' \in [Jobs -> Uploads] /\ died' \in [Jobs -> Nat]
    BY <1>0, <2>1 DEF ProcessEnds, Uploads, ThreadsTypeOK
  <2>5. /\ client' \in [Clients -> ClientStates]
        /\ \A c \in Clients : client'[c].pc = "idle"
    BY <2>1, BusyTypes DEF ProcessEnds
  <2> QED
    BY <2>2, <2>3, <2>4, <2>5 DEF ThreadsTypeOK
<1>4. CASE Start
  <2>1. proc \in Processes /\ proc.generation + 1 \in Nat \ {0}
    BY <1>0 DEF Processes, ThreadsTypeOK
  <2>2. proc' \in Processes
    BY <1>4, <2>1 DEF Start, Processes, Lives
  <2> QED
    BY <1>0, <1>4, <2>2 DEF Start, ThreadsTypeOK
<1>5. ASSUME NEW life \in Lives, Boots(life), ex' \in Executors
      PROVE  ThreadsTypeOK'
  BY <1>0, <1>5 DEF Boots, Processes, ThreadsTypeOK
<1>6. CASE Classify \/ UnlinkedAll \/ \E j \in Jobs, r \in Resources : UnlinkStray(j, r)
  BY <1>0, <1>5, <1>6 DEF Classify, UnlinkedAll, UnlinkStray, Lives, ThreadsTypeOK
<1>7. CASE SweepLedger
  BY <1>5, <1>7, NewExecutor DEF SweepLedger, Lives, ExecutorPlaces
<1> QED
  BY <1>1, <1>2, <1>3, <1>4, <1>6, <1>7 DEF ShutdownStep, BootStep

\* Every step leaves the threads in their types.
LEMMA NextThreads ==
    ASSUME TypeInv, [Next]_vars
    PROVE  ThreadsTypeOK'
<1>0. ThreadsTypeOK
  BY ThreadsType
<1>1. CASE UNCHANGED vars
  BY <1>0, <1>1 DEF vars, ThreadsTypeOK
<1>2. CASE \E j \in Jobs : BeginUpload(j) \/ UploadStep(j)
  BY <1>2, UploadThreads
<1>3. CASE \E c \in Callers, j \in Jobs : DeleteJob(c, j)
  BY <1>3, DeleteThreads
<1>4. CASE \E j \in Jobs : SweepJob(j)
  BY <1>4, DeleteThreads
<1> QED
  BY <1>1, <1>2, <1>3, <1>4, ExecutorThreads, ClientThreads, ProcessThreads DEF Next

-----------------------------------------------------------------------------
(***************************************************************************)
(* Theorems                                                                *)
(***************************************************************************)

\* Every variable stays in its type, and no client works on "no job": whatever
\* the handlers, the executor, a crash or startup write.
THEOREM TypeInvariance == Spec => []TypeInv
<1>1. Init => TypeInv
  <2> SUFFICES ASSUME Init PROVE TypeInv
    OBVIOUS
  <2>1. StoreTypeOK
    BY NewRows
       DEF Init, StoreInit, StoreTypeOK, NoLeases, NoFiles, Leases, Files, LeasePhases, FilePhases
  <2>2. proc \in Processes /\ ex \in Executors
    BY NewExecutor DEF Init, Processes, Lives, MarkerThreads, ExecutorPlaces
  <2>3. upload \in [Jobs -> Uploads] /\ died \in [Jobs -> Nat]
    BY DEF Init, Uploads
  <2>4. client \in [Clients -> ClientStates] /\ \A c \in Clients : client[c].pc = "idle"
    BY BusyTypes DEF Init
  <2> QED
    BY <2>1, <2>2, <2>3, <2>4, ThreadsType DEF ThreadsTypeOK
<1>2. TypeInv /\ [Next]_vars => TypeInv'
  <2> SUFFICES ASSUME TypeInv, [Next]_vars PROVE TypeInv'
    OBVIOUS
  <2>1. StoreTypeOK' /\ ThreadsTypeOK'
    BY NextStore, NextThreads DEF TypeInv
  <2> QED
    BY <2>1 DEF StoreTypeOK, ThreadsTypeOK, TypeInv, TypeOK
<1> QED
  BY <1>1, <1>2, PTL DEF Spec

\* TypeOK, which the runs check, is what TypeInv was for.
THEOREM TypeCorrect == Spec => []TypeOK
<1>1. TypeInv => TypeOK
  BY DEF TypeInv
<1> QED
  BY <1>1, TypeInvariance, PTL

\* No race, restart or retry takes back a cancellation that was accepted while
\* the job ran.
THEOREM CancellationWins == Spec => CancelWins
<1>1. ASSUME TypeInv, [Next]_vars, NEW j \in Jobs, Is(job[j], "running"), job[j].cancel
      PROVE  (Is(job'[j], "running") /\ job'[j].cancel) \/ Is(job'[j], "cancelled")
  <2>1. job[j] \in Rows
    BY <1>1 DEF TypeInv, TypeOK, StoreTypeOK
  <2>2. RowStep(job[j], job'[j])
    BY <1>1, NextRows DEF RowsStep, TypeInv
  <2> QED
    BY <1>1, <2>1, <2>2, RowCancels
<1>2. TypeInv /\ [Next]_vars
         => [\A j \in Jobs : Is(job[j], "running") /\ job[j].cancel =>
                \/ Is(job'[j], "running") /\ job'[j].cancel
                \/ Is(job'[j], "cancelled")]_vars
  BY <1>1
<1> QED
  BY <1>2, TypeInvariance, PTL DEF Spec, CancelWins

\* If no DELETE finds a job that is queued again after an attempt, every row the
\* service ever leaves in the table decodes.  Without the condition it does not
\* hold: the run job_requeued_delete.
THEOREM RowsAlwaysDecode ==
    ASSUME ~DeletesRequeued
    PROVE  Spec => []RowsDecode
<1>1. Init => RowsDecode
  BY DEF Init, StoreInit, NoRow, RowsDecode
<1>2. TypeInv /\ RowsDecode /\ [Next]_vars => RowsDecode'
  <2> SUFFICES ASSUME TypeInv, RowsDecode, [Next]_vars, NEW j \in Jobs, job'[j].phase # "none"
               PROVE  Decodes(job'[j])
    BY DEF RowsDecode
  <2>1. job[j] \in Rows
    BY DEF TypeInv, TypeOK, StoreTypeOK
  <2>2. RowStep(job[j], job'[j])
    BY NextRows DEF RowsStep, TypeInv
  <2>3. job[j].phase # "none" => Decodes(job[j])
    BY DEF RowsDecode
  <2> QED
    BY <2>1, <2>2, <2>3, RowDecodes
<1> QED
  BY <1>1, <1>2, TypeInvariance, PTL DEF Spec

-----------------------------------------------------------------------------
(***************************************************************************)
(* The invariant.                                                          *)
(***************************************************************************)

\* The upload request is over and nothing is going to run: what is left of the
\* job only goes away.
Ended(j) ==
    upload[j] = "over" /\ (job[j].phase = "none" \/ job[j].status \in Terminal)

\* Moreover GET no longer shows it: its files may go.
Deletable(j) ==
    /\ upload[j] = "over"
    /\ job[j].phase = "none" \/ (job[j].phase = "deleting" /\ job[j].status \in Terminal)

\* The request has not published the job; it may be taking it back.
Unpublished(j) ==
    job[j].phase = "receiving" \/ (job[j].phase = "deleting" /\ job[j].status = "null")

\* Where the upload request is tells what it has left of its job so far; a
\* request that is over has either published the job or taken all back, unless
\* the process ended under it.
UploadFits(j) ==
    LET receiving == job[j].phase = "receiving"
        input(l, f) == lease[j]["input"] = l /\ file[j]["input"] = f
    IN  /\ upload[j] = "fresh" => job[j].phase = "none"
        /\ upload[j] = "open" => receiving /\ input("writing", "none")
        /\ upload[j] = "writing" => receiving /\ input("writing", "partial")
        /\ upload[j] = "renamed" => receiving /\ input("writing", "complete")
        /\ upload[j] = "sealed" => receiving /\ input("sealed", "complete")
        /\ upload[j] \in {"aborting", "unlinked"} => Unpublished(j) /\ ~receiving
        /\ upload[j] = "unlinked" => file[j]["input"] = "none"
        /\ ~Up => upload[j] \in {"fresh", "over"}
        /\ Up /\ upload[j] = "over" => ~Unpublished(j)

\* What the row says of the leases and files.
RowFits(j) ==
    /\ job[j].phase = "none" => job[j] = NoRow
    /\ Unpublished(j) => /\ lease[j]["input"] # "none"
                         /\ lease[j]["segment"] = "none" /\ lease[j]["result"] = "none"
    /\ job[j].status # "null" => upload[j] = "over"
    /\ Active(job[j]) => lease[j]["input"] = "sealed" /\ file[j]["input"] = "complete"
    /\ job[j].status \in Terminal =>
           lease[j]["input"] = IF job[j].input THEN "sealed" ELSE "none"
    /\ job[j].status = "succeeded" => lease[j]["result"] = "sealed"
    /\ Is(job[j], "succeeded") => file[j]["result"] = "complete"

\* Startup knows every file by its lease, and every lease by its row.
Accounted(j) ==
    /\ \A r \in Resources : file[j][r] # "none" => lease[j][r] # "none"
    /\ job[j].phase = "none" => lease[j] = NoLeases

JobFits(j) == UploadFits(j) /\ RowFits(j) /\ Accounted(j)

\* The process is gone, and the loss of its attempt is not yet in the row.
LossPending(j) ==
    proc.life \in {"down", "booting"} /\ ~(marker # 0 /\ job[j].owner = marker)

\* died counts the attempts that a crash took, the row those that startup has
\* seen; the second one fails the job.
DiedFits(j) ==
    /\ upload[j] = "fresh" \/ Unpublished(j) => died[j] = 0
    /\ Is(job[j], "queued") => died[j] = job[j].crashes
    /\ Is(job[j], "running") =>
           died[j] = IF LossPending(j) THEN job[j].crashes + 1 ELSE job[j].crashes
    /\ job[j].error = "worker_crashed" => died[j] = 2

\* The stages of startup; every running job is run by the one process that
\* claimed it, and there is one at a time.
ProcessFits ==
    /\ proc.life # "refused"
    /\ proc.life \in {"unlinking", "sweeping"} =>
           marker = 0 /\ Running = {} /\ \A j \in Jobs : job[j].phase # "receiving"
    /\ proc.life = "sweeping" => \A j \in Jobs, r \in Resources : ~Stray(j, r)
    /\ ~Up => \A c \in Clients : client[c].pc = "idle"
    /\ Up => marker \in {0, proc.generation}
    /\ \A i, j \in Running : i = j
    /\ \A j \in Running :
           /\ Up => job[j].owner = proc.generation
           /\ proc.life = "down" => job[j].owner <= proc.generation
           /\ proc.life = "booting" => job[j].owner < proc.generation

\* Places of an attempt that has not committed its end: its job is running with
\* its token.
Holding ==
    {"claimed", "resolve", "segment", "segmentOpen", "process", "seal", "result",
     "resultOpen", "envelope", "resultSeal", "discard", "discardRow", "commit", "succeed",
     "dropResult", "dropResultRow", "fail", "cancel"}
ResultOpened == {"resultOpen", "envelope"}
ResultWritten == {"resultSeal", "discard", "discardRow", "commit", "succeed"}
ResultSealed == ResultWritten \ {"resultSeal"}
Decoded == {"seal", "result"} \cup ResultOpened \cup ResultWritten
Idling == {"off", "idle", "gone", "dead"}

\* The executor's attempt still owns its job.
Held == Holds(ex.job, ex.token)

\* An attempt that ended without an end of its job: the executor stops.
Interrupted == Held /\ (ex.error # "none" \/ proc.stopping)

\* What the attempt has done of its artifacts when it reaches a place.
AttemptFits ==
    /\ ex.pc = "segmentOpen" => lease[ex.job]["segment"] # "none"
    /\ ex.pc \in Decoded => job[ex.job].total /\ job[ex.job].processed = Samples
    /\ ex.pc \in ResultOpened => lease[ex.job]["result"] # "none"
    /\ ex.pc \in ResultWritten =>
           lease[ex.job]["result"] # "none" /\ file[ex.job]["result"] = "complete"
    /\ ex.pc \in ResultSealed => lease[ex.job]["result"] = "sealed"
    /\ ex.pc \in {"discardRow", "finallyRow"} => file[ex.job]["segment"] = "none"
    /\ ex.pc \in {"dropResult", "dropResultRow"} => job[ex.job].cancel
    /\ ex.pc = "dropResultRow" => file[ex.job]["result"] = "none"
    /\ ex.pc = "cancel" => job[ex.job].cancel \/ Interrupted
    /\ ex.pc = "clean" => file[ex.job]["input"] = "none"

\* Only the job of the executor runs, and its places match the row.
ExecutorFits ==
    Up => /\ Running \subseteq {ex.job}
          /\ ex.pc = "idle" => Running = {}
          /\ ex.pc \notin Idling => ex.job \in Jobs /\ upload[ex.job] = "over"
          /\ ex.pc \in Holding => Held
          /\ ex.pc \in {"check", "unlink", "clean"} => Ended(ex.job)
          /\ ex.pc \in {"finally", "finallyRow", "wrapup"} => Ended(ex.job) \/ Interrupted
          /\ AttemptFits

\* What a DELETE or the sweep has found and done before its last transaction.
ClientFits(c) ==
    LET j == client[c].job
        seen(r) == client[c].seen[r] # "none"
    IN  /\ client[c].pc \in {"unlink", "clean"} => Ended(j)
        /\ client[c].pc = "clean" => file[j]["input"] = "none"
        /\ client[c].pc \in {"unlinkInput", "unlinkArtifacts", "remove"} => Deletable(j)
        /\ client[c].pc \in {"unlinkArtifacts", "remove"} /\ seen("input") =>
               file[j]["input"] = "none"
        /\ client[c].pc = "remove" => \A r \in Resources : seen(r) => file[j][r] = "none"

\* The inductive invariant.
StoreInv ==
    /\ \A j \in Jobs : JobFits(j)
    /\ \A j \in Jobs : DiedFits(j)
    /\ ProcessFits
    /\ ExecutorFits
    /\ \A c \in Clients : ClientFits(c)

-----------------------------------------------------------------------------
(***************************************************************************)
(* What the assignments of the store do, job by job and field by field.    *)
(***************************************************************************)

\* UPDATE of one row: the others stay.
LEMMA RowEffect ==
    ASSUME TypeOK, NEW i \in Jobs, NEW row, SetRow(i, row)
    PROVE  job'[i] = row /\ \A j \in Jobs : j # i => job'[j] = job[j]
BY DEF TypeOK, StoreTypeOK, SetRow

\* One lease changes, of one job.
LEMMA LeaseEffect ==
    ASSUME TypeOK, NEW i \in Jobs, NEW r \in Resources, NEW phase, SetLease(i, r, phase)
    PROVE  /\ lease'[i][r] = phase
           /\ \A q \in Resources : q # r => lease'[i][q] = lease[i][q]
           /\ \A j \in Jobs : j # i => lease'[j] = lease[j]
BY DEF TypeOK, StoreTypeOK, SetLease, Leases

\* One file changes, of one job.
LEMMA FileEffect ==
    ASSUME TypeOK, NEW i \in Jobs, NEW r \in Resources, NEW phase, SetFile(i, r, phase)
    PROVE  /\ file'[i][r] = phase
           /\ \A q \in Resources : q # r => file'[i][q] = file[i][q]
           /\ \A j \in Jobs : j # i => file'[j] = file[j]
BY DEF TypeOK, StoreTypeOK, SetFile, Files

\* A job has three artifacts.
LEMMA ResourceNames == Resources = {"input", "segment", "result"}
BY DEF Resources

\* The columns the invariant looks at, after each update.
LEMMA NewRowFields ==
    /\ NoRow.phase = "none" /\ NoRow.status = "null" /\ NoRow.error = "null"
    /\ ReceivingRow.phase = "receiving" /\ ReceivingRow.status = "null"
    /\ ReceivingRow.error = "null" /\ ReceivingRow.crashes = 0 /\ ReceivingRow.input
BY DEF NoRow, ReceivingRow

\* Publication, the two transactions of DELETE, and the cleanup of the input.
LEMMA RowFields ==
    ASSUME NEW r \in Rows
    PROVE  /\ Published(r).phase = "visible" /\ Published(r).status = "queued"
           /\ Published(r).crashes = r.crashes /\ Published(r).error = r.error
           /\ Deleting(r).phase = "deleting" /\ Deleting(r).status = r.status
           /\ Deleting(r).input = r.input /\ Deleting(r).error = r.error
           /\ CancelRequested(r).phase = r.phase /\ CancelRequested(r).status = r.status
           /\ CancelRequested(r).crashes = r.crashes /\ CancelRequested(r).error = r.error
           /\ CancelRequested(r).owner = r.owner /\ CancelRequested(r).attempt = r.attempt
           /\ CancelRequested(r).total = r.total /\ CancelRequested(r).cancel
           /\ CancelRequested(r).processed = r.processed
           /\ InputCleaned(r).phase = r.phase /\ InputCleaned(r).status = r.status
           /\ InputCleaned(r).error = r.error /\ ~InputCleaned(r).input
BY DEF Rows, Published, Deleting, CancelRequested, InputCleaned

\* The claim, the progress and the requeue of an attempt.
LEMMA AttemptFields ==
    ASSUME NEW r \in Rows
    PROVE  /\ \A g \in Nat : /\ Claimed(r, g).phase = r.phase
                             /\ Claimed(r, g).status = "running"
                             /\ Claimed(r, g).attempt = r.attempt + 1
                             /\ Claimed(r, g).owner = g /\ Claimed(r, g).error = r.error
                             /\ Claimed(r, g).crashes = r.crashes
           /\ \A n \in 0..Samples, eof \in BOOLEAN :
                 /\ Progressed(r, n, eof).phase = r.phase
                 /\ Progressed(r, n, eof).status = r.status
                 /\ Progressed(r, n, eof).attempt = r.attempt
                 /\ Progressed(r, n, eof).owner = r.owner
                 /\ Progressed(r, n, eof).error = r.error
                 /\ Progressed(r, n, eof).crashes = r.crashes
                 /\ Progressed(r, n, eof).cancel = r.cancel
                 /\ Progressed(r, n, eof).processed = n
                 /\ eof => Progressed(r, n, eof).total
           /\ Requeued(r).phase = r.phase /\ Requeued(r).status = "queued"
           /\ Requeued(r).crashes = r.crashes /\ Requeued(r).error = r.error
BY DEF Rows, Claimed, Progressed, Requeued

\* The terminal commits; only a failure has a code.
LEMMA EndFields ==
    ASSUME NEW r \in Rows
    PROVE  /\ Succeeded(r).phase = r.phase /\ Succeeded(r).status = "succeeded"
           /\ Succeeded(r).input = r.input /\ Succeeded(r).error = r.error
           /\ Cancelled(r).phase = r.phase /\ Cancelled(r).status = "cancelled"
           /\ Cancelled(r).input = r.input /\ Cancelled(r).error = r.error
           /\ CancelledWhileQueued(r).phase = r.phase
           /\ CancelledWhileQueued(r).status = "cancelled"
           /\ CancelledWhileQueued(r).input = r.input
           /\ CancelledWhileQueued(r).error = r.error
           /\ \A code : /\ Failed(r, code).phase = r.phase
                        /\ Failed(r, code).status = "failed"
                        /\ Failed(r, code).input = r.input
                        /\ Failed(r, code).error = code
BY DEF Rows, Succeeded, Cancelled, CancelledWhileQueued, Failed

-----------------------------------------------------------------------------
(***************************************************************************)
(* What a step of the running service may do to one job.                   *)
(***************************************************************************)

\* At most the row changes.
KeepsFiles(j) == lease'[j] = lease[j] /\ file'[j] = file[j] /\ upload'[j] = upload[j]

\* Nothing of the job changes.
Same(j) == job'[j] = job[j] /\ KeepsFiles(j)

\* The first transaction of DELETE or of the sweep.
IsDeleted(j) ==
    /\ KeepsFiles(j)
    /\ \/ Is(job[j], "queued") /\ job'[j] = CancelledWhileQueued(job[j])
       \/ Is(job[j], "running") /\ job'[j] = CancelRequested(job[j])
       \/ Shown(job[j]) /\ job'[j] = Deleting(job[j])

\* Files of an ended job go away, of a result only when GET no longer shows it;
\* the lease of a segment with or after its file.
Fades(j) ==
    /\ Ended(j) /\ job'[j] = job[j] /\ upload'[j] = upload[j]
    /\ \A r \in Resources : file'[j][r] \in {file[j][r], "none"}
    /\ Deletable(j) \/ file'[j]["result"] = file[j]["result"]
    /\ lease'[j]["input"] = lease[j]["input"] /\ lease'[j]["result"] = lease[j]["result"]
    /\ \/ lease'[j]["segment"] = lease[j]["segment"]
       \/ lease'[j]["segment"] = "none" /\ file'[j]["segment"] = "none"
    /\ job[j].phase = "none" => lease'[j]["segment"] = "none"

\* The row and the lease of an input whose file is gone.
InputGoes(j) ==
    /\ Ended(j) /\ job[j].phase = "visible" /\ job[j].status \in Terminal
    /\ job'[j] = InputCleaned(job[j])
    /\ file[j]["input"] = "none" /\ file'[j] = file[j] /\ upload'[j] = upload[j]
    /\ lease'[j]["input"] = "none"
    /\ \A r \in Resources : r # "input" => lease'[j][r] = lease[j][r]

\* The last transaction of a deletion.
JobGoes(j) ==
    /\ Deletable(j) /\ (\A r \in Resources : file[j][r] = "none")
    /\ job'[j] = NoRow /\ lease'[j] = NoLeases
    /\ file'[j] = file[j] /\ upload'[j] = upload[j]

\* Steps of uploads and clients.
OthersStep(j) ==
    \/ Same(j) \/ BeginUpload(j) \/ UploadStep(j)
    \/ IsDeleted(j) \/ Fades(j) \/ InputGoes(j) \/ JobGoes(j)

\* The executor begins and ends an attempt, and meanwhile writes artifacts.
IsClaimed(j) ==
    /\ KeepsFiles(j) /\ Is(job[j], "queued")
    /\ job'[j] = Claimed(job[j], proc.generation)

\* Between claim and end: progress, and artifacts under their leases.
AttemptWrites(j) ==
    /\ Is(job[j], "running") /\ upload'[j] = upload[j]
    /\ \/ job'[j] = job[j]
       \/ \E n \in 0..Samples, eof \in BOOLEAN : job'[j] = Progressed(job[j], n, eof)
    /\ lease'[j]["input"] = lease[j]["input"] /\ file'[j]["input"] = file[j]["input"]
    /\ \A r \in Resources : file'[j][r] # "none" => lease'[j][r] # "none"

\* The commit of an end, or the requeue at shutdown.
AttemptEnds(j) ==
    /\ KeepsFiles(j) /\ Is(job[j], "running")
    /\ \/ job'[j] \in {Failed(job[j], "runtime"), Cancelled(job[j]), Requeued(job[j])}
       \/ /\ job'[j] = Succeeded(job[j])
          /\ lease[j]["result"] = "sealed" /\ file[j]["result"] = "complete"

\* Steps of the executor.
AttemptMoves(j) ==
    Same(j) \/ IsClaimed(j) \/ AttemptWrites(j) \/ AttemptEnds(j) \/ Fades(j) \/ InputGoes(j)

\* Any step of the running service, for one job.
JobStep(j) == OthersStep(j) \/ AttemptMoves(j)

-----------------------------------------------------------------------------
(***************************************************************************)
(* A job keeps fitting.                                                    *)
(***************************************************************************)

\* A decoded row has a status that goes with its phase.
LEMMA DecodedRow ==
    ASSUME RowsDecode, NEW j \in Jobs, job[j] \in Rows, RowFits(j)
    PROVE  /\ job[j].phase = "none" \/ Unpublished(j) \/ Active(job[j]) \/ Shown(job[j])
           /\ job[j].phase \in {"none", "receiving"} => job[j].status = "null"
           /\ job[j].status \in {"queued", "running"} => job[j].phase = "visible"
           /\ job[j].status \in Terminal => job[j].phase \in {"visible", "deleting"}
           /\ Active(job[j]) \/ Unpublished(j) => job[j].input /\ job[j].error = "null"
           /\ Unpublished(j) => job[j].crashes = 0
<1>1. CASE job[j].phase = "none"
  BY <1>1, NewRowFields DEF RowFits, Unpublished, Active, Is, Terminal
<1>2. CASE job[j].phase # "none"
  BY <1>2
     DEF RowsDecode, Decodes, Unpublished, Active, Shown, Is, Terminal, ReceivingShape,
         QueuedShape, RunningShape, TerminalShape, Rows, Phases, Statuses
<1> QED
  BY <1>1, <1>2

\* The upload request works on its own job.
LEMMA UploadKept ==
    ASSUME TypeOK, NEW j \in Jobs, Up, Up', RowsDecode, JobFits(j),
           BeginUpload(j) \/ UploadStep(j)
    PROVE  JobFits(j)'
<1>0. job[j] \in Rows /\ upload \in [Jobs -> Uploads] /\ lease[j] \in Leases /\ file[j] \in Files
  BY DEF TypeOK, StoreTypeOK
<1> USE ResourceNames
<1>1. CASE BeginUpload(j)
  <2>1. /\ job[j].phase = "none" /\ upload'[j] = "open" /\ job'[j] = ReceivingRow
        /\ lease'[j]["input"] = "writing"
        /\ \A q \in Resources : q # "input" => lease'[j][q] = lease[j][q]
        /\ file' = file
    BY <1>0, <1>1, RowEffect, LeaseEffect DEF BeginUpload, InsertReceiving, UploadGoes
  <2>2. \A r \in Resources : lease[j][r] = "none" /\ file[j][r] = "none"
    BY <2>1 DEF JobFits, Accounted, NoLeases
  <2> QED
    BY <2>1, <2>2, NewRowFields
       DEF JobFits, UploadFits, RowFits, Accounted, Unpublished, Active, Is, Terminal
<1>2. CASE PublishJob(j)
  <2>1. /\ upload[j] = "sealed" /\ upload'[j] = "over" /\ job'[j] = Published(job[j])
        /\ lease' = lease /\ file' = file
    BY <1>0, <1>2, RowEffect DEF PublishJob, PublishRow, OnlyRow, UploadGoes
  <2> QED
    BY <1>0, <2>1, RowFields
       DEF JobFits, UploadFits, RowFits, Accounted, Unpublished, Active, Is, Terminal
<1>3. CASE AbortUpload(j)
  <2>1. /\ upload[j] \in {"writing", "sealed"} /\ upload'[j] = "aborting"
        /\ job'[j] = Deleting(job[j]) /\ lease' = lease /\ file' = file
    BY <1>0, <1>3, RowEffect DEF AbortUpload, DoomUpload, OnlyRow, UploadGoes
  <2>2. job[j].phase = "receiving" /\ job[j].status = "null"
    BY <1>0, <2>1, DecodedRow DEF JobFits, UploadFits
  <2> QED
    BY <1>0, <2>1, <2>2, RowFields
       DEF JobFits, UploadFits, RowFits, Accounted, Unpublished, Active, Is, Terminal
<1>4. CASE FinishAbort(j)
  <2>1. /\ upload[j] = "unlinked" /\ upload'[j] = "over" /\ job'[j] = NoRow
        /\ lease'[j]["input"] = "none" /\ file' = file
        /\ \A q \in Resources : q # "input" => lease'[j][q] = lease[j][q]
    BY <1>0, <1>4, RowEffect, LeaseEffect DEF FinishAbort, DropUpload, UploadGoes
  <2>2. /\ \A r \in Resources : lease'[j][r] = "none" /\ file'[j][r] = "none"
    BY <2>1 DEF JobFits, UploadFits, RowFits, Accounted
  <2>3. lease'[j] = NoLeases
    BY <2>2, UploadLedger DEF LedgerTypeOK, Leases, NoLeases
  <2> QED
    BY <2>1, <2>2, <2>3, NewRowFields
       DEF JobFits, UploadFits, RowFits, Accounted, Unpublished, Active, Is, Terminal
<1>5. CASE OpenUpload(j) \/ RenameUpload(j) \/ UnlinkUpload(j)
  <2>1. /\ job' = job /\ lease' = lease
        /\ \A q \in Resources : q # "input" => file'[j][q] = file[j][q]
        /\ \/ upload[j] = "open" /\ upload'[j] = "writing" /\ file'[j]["input"] = "partial"
           \/ upload[j] = "writing" /\ upload'[j] = "renamed" /\ file'[j]["input"] = "complete"
           \/ upload[j] = "aborting" /\ upload'[j] = "unlinked" /\ file'[j]["input"] = "none"
    BY <1>0, <1>5, FileEffect DEF OpenUpload, RenameUpload, UnlinkUpload, OnlyFile, UploadGoes
  <2>2. Unpublished(j) /\ job[j].status = "null"
    BY <1>0, <2>1, DecodedRow DEF JobFits, UploadFits, Unpublished
  <2> QED
    BY <1>0, <2>1, <2>2
       DEF JobFits, UploadFits, RowFits, Accounted, Unpublished, Active, Is, Terminal
<1>6. CASE SealUpload(j)
  <2>1. /\ job' = job /\ file' = file /\ upload[j] = "renamed" /\ upload'[j] = "sealed"
        /\ lease'[j]["input"] = "sealed"
        /\ \A q \in Resources : q # "input" => lease'[j][q] = lease[j][q]
    BY <1>0, <1>6, LeaseEffect DEF SealUpload, SealInput, OnlyLease, UploadGoes
  <2>2. job[j].phase = "receiving" /\ job[j].status = "null"
    BY <1>0, <2>1, DecodedRow DEF JobFits, UploadFits
  <2> QED
    BY <1>0, <2>1, <2>2
       DEF JobFits, UploadFits, RowFits, Accounted, Unpublished, Active, Is, Terminal
<1> QED
  BY <1>1, <1>2, <1>3, <1>4, <1>5, <1>6 DEF UploadStep

\* No step of the running service makes a job stop fitting.
LEMMA JobKept ==
    ASSUME TypeOK, TypeOK', NEW j \in Jobs, Up, Up', RowsDecode, JobFits(j), JobStep(j)
    PROVE  JobFits(j)'
<1>0. /\ job[j] \in Rows /\ upload \in [Jobs -> Uploads]
      /\ lease[j] \in Leases /\ file[j] \in Files
      /\ lease'[j] \in Leases /\ file'[j] \in Files /\ proc.generation \in Nat
  BY DEF TypeOK, StoreTypeOK, Processes
<1> USE ResourceNames
<1>1. CASE BeginUpload(j) \/ UploadStep(j)
  BY <1>1, UploadKept
<1>2. CASE Same(j)
  BY <1>2
     DEF Same, KeepsFiles, JobFits, UploadFits, RowFits, Accounted, Unpublished, Active, Is
<1>3. CASE IsDeleted(j)
  <2>1. /\ job[j].phase \in {"visible", "deleting"} /\ job'[j].phase \in {"visible", "deleting"}
        /\ job[j].status \in Terminal \cup {"queued", "running"}
        /\ job'[j].status \in Terminal \cup {"running"}
        /\ KeepsFiles(j)
    BY <1>0, <1>3, RowFields, EndFields DEF IsDeleted, Is, Shown, Terminal
  <2>2. upload[j] = "over" /\ ~Unpublished(j)
    BY <1>0, <2>1 DEF JobFits, UploadFits, RowFits, Unpublished, Terminal
  <2>3. RowFits(j)'
    BY <1>0, <1>3, <2>1, <2>2, RowFields, EndFields, DecodedRow
       DEF IsDeleted, KeepsFiles, JobFits, RowFits, Unpublished, Active, Is, Shown, Terminal
  <2> QED
    BY <2>1, <2>2, <2>3
       DEF KeepsFiles, JobFits, UploadFits, Accounted, Unpublished, Terminal
<1>4. CASE Fades(j)
  BY <1>0, <1>4, DecodedRow
     DEF Fades, Ended, Deletable, NoLeases, JobFits, UploadFits, RowFits, Accounted,
         Unpublished, Active, Is, Shown, Terminal, Leases
<1>5. CASE InputGoes(j)
  BY <1>0, <1>5, RowFields
     DEF InputGoes, Ended, JobFits, UploadFits, RowFits, Accounted, Unpublished, Active, Is,
         Shown, Terminal
<1>6. CASE JobGoes(j)
  BY <1>0, <1>6, NewRowFields
     DEF JobGoes, Deletable, NoLeases, JobFits, UploadFits, RowFits, Accounted, Unpublished,
         Active, Is, Terminal
<1>7. CASE IsClaimed(j)
  BY <1>0, <1>7, AttemptFields
     DEF IsClaimed, KeepsFiles, JobFits, UploadFits, RowFits, Accounted, Unpublished, Active,
         Is, Terminal
<1>8. CASE AttemptWrites(j)
  <2>1. job'[j].phase = "visible" /\ job'[j].status = "running"
    BY <1>0, <1>8, AttemptFields DEF AttemptWrites, Is
  <2> QED
    BY <1>0, <1>8, <2>1
       DEF AttemptWrites, JobFits, UploadFits, RowFits, Accounted, Unpublished, Active, Is,
           Terminal
<1>9. CASE AttemptEnds(j)
  BY <1>0, <1>9, AttemptFields, EndFields, DecodedRow
     DEF AttemptEnds, KeepsFiles, JobFits, UploadFits, RowFits, Accounted, Unpublished,
         Active, Is, Terminal
<1> QED
  BY <1>1, <1>2, <1>3, <1>4, <1>5, <1>6, <1>7, <1>8, <1>9
     DEF JobStep, OthersStep, AttemptMoves

\* What an upload request does to its row.
LEMMA UploadRow ==
    ASSUME TypeOK, NEW j \in Jobs, BeginUpload(j) \/ UploadStep(j)
    PROVE  /\ upload[j] # "over" /\ upload'[j] # "fresh"
           /\ \/ upload[j] # "fresh" /\ job'[j] = job[j]
              \/ upload[j] = "fresh" /\ job'[j] = ReceivingRow
              \/ job[j].phase = "receiving" /\ job'[j] \in {Published(job[j]), Deleting(job[j])}
              \/ job'[j] = NoRow
BY RowEffect
   DEF BeginUpload, UploadStep, OpenUpload, RenameUpload, SealUpload, PublishJob, AbortUpload,
       UnlinkUpload, FinishAbort, OnlyRow, OnlyFile, OnlyLease, InsertReceiving, SealInput,
       PublishRow, DoomUpload, DropUpload, UploadGoes, TypeOK

\* What is over for a job stays so, and its files only go.
LEMMA EndedKept ==
    ASSUME TypeOK, NEW j \in Jobs, RowsDecode, JobFits(j), JobStep(j)
    PROVE  /\ upload[j] = "over" => upload'[j] = "over"
           /\ Ended(j) => Ended(j)'
           /\ Deletable(j) => Deletable(j)'
           /\ Ended(j) => \A r \in Resources : file[j][r] = "none" => file'[j][r] = "none"
<1>0. job[j] \in Rows /\ upload \in [Jobs -> Uploads]
  BY DEF TypeOK, StoreTypeOK
<1>1. CASE BeginUpload(j) \/ UploadStep(j)
  <2>1. upload[j] # "over"
    BY <1>1, UploadRow
  <2> QED
    BY <2>1 DEF Ended, Deletable
<1>2. CASE Same(j) \/ Fades(j) \/ InputGoes(j) \/ JobGoes(j)
  BY <1>0, <1>2, RowFields, NewRowFields
     DEF Same, KeepsFiles, Fades, InputGoes, JobGoes, Ended, Deletable
<1>3. CASE IsDeleted(j)
  BY <1>0, <1>3, RowFields, EndFields
     DEF IsDeleted, KeepsFiles, Ended, Deletable, Is, Shown, Terminal
<1>4. CASE IsClaimed(j) \/ AttemptWrites(j) \/ AttemptEnds(j)
  <2>1. ~Ended(j) /\ ~Deletable(j) /\ upload'[j] = upload[j]
    BY <1>4
       DEF IsClaimed, AttemptWrites, AttemptEnds, KeepsFiles, Ended, Deletable, Is, Terminal
  <2> QED
    BY <2>1
<1> QED
  BY <1>1, <1>2, <1>3, <1>4 DEF JobStep, OthersStep, AttemptMoves

\* Uploads and clients leave the job that runs alone, but for asking it to stop,
\* and start none.
LEMMA RunningKept ==
    ASSUME TypeOK, NEW j \in Jobs, RowsDecode, JobFits(j), OthersStep(j)
    PROVE  /\ Is(job'[j], "running") => Is(job[j], "running")
           /\ Is(job[j], "running") =>
                 /\ job'[j] = job[j] \/ job'[j] = CancelRequested(job[j])
                 /\ Is(job'[j], "running") /\ KeepsFiles(j)
<1>0. job[j] \in Rows /\ upload \in [Jobs -> Uploads]
  BY DEF TypeOK, StoreTypeOK
<1>1. CASE BeginUpload(j) \/ UploadStep(j)
  <2>1. job[j].status = "null"
    BY <1>1, UploadRow DEF JobFits, RowFits
  <2>2. job'[j] \in {job[j], ReceivingRow, Published(job[j]), Deleting(job[j]), NoRow}
    BY <1>1, UploadRow
  <2> QED
    BY <1>0, <2>1, <2>2, RowFields, NewRowFields DEF Is
<1>2. CASE Same(j) \/ Fades(j) \/ InputGoes(j) \/ JobGoes(j)
  BY <1>0, <1>2, RowFields, NewRowFields
     DEF Same, KeepsFiles, Fades, InputGoes, JobGoes, Ended, Deletable, Is, Terminal
<1>3. CASE IsDeleted(j)
  BY <1>0, <1>3, RowFields, EndFields DEF IsDeleted, Is, Shown, Terminal
<1> QED
  BY <1>1, <1>2, <1>3 DEF OthersStep

\* The running service loses no attempt and reports none lost.
LEMMA DiedKept ==
    ASSUME TypeOK, NEW j \in Jobs, Up, Up', RowsDecode, JobFits(j), DiedFits(j), JobStep(j),
           died' = died
    PROVE  DiedFits(j)'
<1>0. /\ job[j] \in Rows /\ upload \in [Jobs -> Uploads] /\ proc.generation \in Nat
      /\ died \in [Jobs -> Nat]
  BY DEF TypeOK, StoreTypeOK, Processes
<1>1. ~LossPending(j) /\ ~LossPending(j)'
  BY DEF LossPending, Up
<1>2. CASE BeginUpload(j) \/ UploadStep(j)
  BY <1>0, <1>1, <1>2, UploadRow, RowFields, NewRowFields, DecodedRow
     DEF DiedFits, JobFits, Unpublished, Is
<1>3. CASE Same(j) \/ Fades(j)
  BY <1>1, <1>3 DEF Same, KeepsFiles, Fades, DiedFits, Unpublished, Is
<1>4. CASE IsDeleted(j)
  BY <1>0, <1>1, <1>4, RowFields, EndFields
     DEF IsDeleted, KeepsFiles, DiedFits, Unpublished, Is, Shown, Terminal
<1>5. CASE InputGoes(j) \/ JobGoes(j)
  BY <1>0, <1>1, <1>5, RowFields, NewRowFields
     DEF InputGoes, JobGoes, Ended, Deletable, DiedFits, Unpublished, Is, Terminal
<1>6. CASE IsClaimed(j) \/ AttemptWrites(j)
  BY <1>0, <1>1, <1>6, AttemptFields
     DEF IsClaimed, AttemptWrites, KeepsFiles, DiedFits, Unpublished, Is
<1>7. CASE AttemptEnds(j)
  BY <1>0, <1>1, <1>7, AttemptFields, EndFields
     DEF AttemptEnds, KeepsFiles, DiedFits, Unpublished, Is
<1> QED
  BY <1>2, <1>3, <1>4, <1>5, <1>6, <1>7 DEF JobStep, OthersStep, AttemptMoves

\* A running job is run by this process.
LEMMA OwnerKept ==
    ASSUME TypeOK, NEW j \in Jobs, RowsDecode, JobFits(j), JobStep(j),
           Is(job[j], "running") => job[j].owner = proc.generation,
           Is(job'[j], "running")
    PROVE  job'[j].owner = proc.generation
<1>0. job[j] \in Rows /\ proc.generation \in Nat
  BY DEF TypeOK, StoreTypeOK, Processes
<1>1. CASE OthersStep(j)
  BY <1>0, <1>1, RunningKept, RowFields
<1>2. CASE AttemptMoves(j)
  BY <1>0, <1>2, AttemptFields, EndFields, RowFields
     DEF AttemptMoves, Same, IsClaimed, AttemptWrites, AttemptEnds, Fades, InputGoes, Ended,
         Is, Terminal
<1> QED
  BY <1>1, <1>2 DEF JobStep

\* What all steps of the running service but those of the process share.
Serves ==
    /\ Up /\ Up' /\ proc'.generation = proc.generation /\ died' = died
    /\ marker' \in {marker, proc.generation}
    /\ proc.stopping => proc'.stopping

\* The part of the process, once the executor's part is known.
LEMMA ProcessKept ==
    ASSUME TypeOK, Serves, RowsDecode, StoreInv, \A j \in Jobs : JobStep(j), ExecutorFits'
    PROVE  ProcessFits'
<1>1. proc'.life = "up"
  BY DEF Serves, Up
<1>2. marker' \in {0, proc'.generation}
  BY DEF Serves, StoreInv, ProcessFits
<1>3. \A j \in Jobs : Is(job'[j], "running") => job'[j].owner = proc'.generation
  BY OwnerKept DEF Serves, StoreInv, ProcessFits, Running
<1>4. \A i, j \in Running' : i = j
  BY DEF Serves, ExecutorFits
<1> QED
  BY <1>1, <1>2, <1>3, <1>4 DEF ProcessFits, Running, Up

\* The executor's part survives what others do: its job is still running with
\* its token, or is ended.
LEMMA ExecutorKept ==
    ASSUME TypeOK, Serves, RowsDecode, StoreInv, \A j \in Jobs : OthersStep(j),
           ex' = ex \/ ex' = [ex EXCEPT !.cancelled = TRUE]
    PROVE  ExecutorFits'
<1>0. /\ job \in [Jobs -> Rows] /\ ex \in Executors
  BY DEF TypeOK, StoreTypeOK
<1>1. UNCHANGED <<ex.pc, ex.job, ex.token, ex.error>>
  BY <1>0 DEF Executors
<1>2. ExecutorFits /\ Up /\ \A j \in Jobs : JobFits(j)
  BY DEF StoreInv, Serves
<1>3. \A j \in Jobs : JobStep(j)
  BY DEF JobStep
<1>4. Running' = Running
  BY <1>2, RunningKept DEF Running
<1>5. ex.pc \notin Idling => ex.job \in Jobs
  BY <1>2 DEF ExecutorFits
<1>6. ASSUME Held, ex.job \in Jobs
      PROVE  /\ Held' /\ KeepsFiles(ex.job)
             /\ job'[ex.job].total = job[ex.job].total
             /\ job'[ex.job].processed = job[ex.job].processed
             /\ job[ex.job].cancel => job'[ex.job].cancel
  BY <1>0, <1>1, <1>2, <1>6, RunningKept, RowFields DEF Held, Holds
<1>7. Interrupted /\ ex.job \in Jobs => Interrupted'
  BY <1>1, <1>6 DEF Interrupted, Serves
<1>8. ASSUME ex.job \in Jobs, Ended(ex.job)
      PROVE  /\ Ended(ex.job)'
             /\ \A r \in Resources : file[ex.job][r] = "none" => file'[ex.job][r] = "none"
  BY <1>1, <1>2, <1>3, <1>8, EndedKept DEF Ended
<1>9. AttemptFits'
  <2>1. CASE Held /\ ex.job \in Jobs
    <3>1. AttemptFits
      BY <1>2 DEF ExecutorFits
    <3> QED
      BY <1>1, <1>6, <1>7, <2>1, <3>1 DEF AttemptFits, KeepsFiles
  <2>2. CASE ~(Held /\ ex.job \in Jobs)
    <3>1. ex.pc \notin Holding
      BY <1>2, <2>2 DEF ExecutorFits, Holding, Idling
    <3>2. ex.pc \in {"finallyRow", "clean"} => Ended(ex.job) /\ ex.job \in Jobs
      BY <1>2, <2>2 DEF ExecutorFits, Idling, Interrupted
    <3> QED
      BY <1>1, <1>2, <1>8, <3>1, <3>2, ResourceNames
         DEF ExecutorFits, AttemptFits, Holding, ResultOpened, ResultWritten, ResultSealed,
             Decoded
  <2> QED
    BY <2>1, <2>2
<1>10. ex.job \in Jobs /\ upload[ex.job] = "over" => upload'[ex.job] = "over"
  BY <1>2, <1>3, EndedKept
<1> QED
  BY <1>1, <1>2, <1>4, <1>5, <1>6, <1>7, <1>8, <1>9, <1>10
     DEF ExecutorFits, Holding, Idling

\* So does the part of a client that does not move.
LEMMA ClientKept ==
    ASSUME TypeInv, Serves, RowsDecode, StoreInv, \A j \in Jobs : JobStep(j),
           NEW c \in Clients, client'[c] = client[c]
    PROVE  ClientFits(c)'
<1> DEFINE j == client[c].job
<1>1. CASE client[c].pc = "idle"
  BY <1>1 DEF ClientFits
<1>2. CASE client[c].pc # "idle"
  <2>1. j \in Jobs /\ TypeOK
    BY <1>2 DEF TypeInv
  <2>2. ClientFits(c) /\ JobFits(j) /\ JobStep(j)
    BY <2>1 DEF StoreInv
  <2>3. /\ Ended(j) => Ended(j)'
        /\ Deletable(j) => Deletable(j)'
        /\ Ended(j) => \A r \in Resources : file[j][r] = "none" => file'[j][r] = "none"
    BY <2>1, <2>2, EndedKept DEF Ended, Deletable
  <2>4. Deletable(j) => Ended(j)
    BY DEF Deletable, Ended
  <2> QED
    BY <2>2, <2>3, <2>4, ResourceNames DEF ClientFits
<1> QED
  BY <1>1, <1>2

-----------------------------------------------------------------------------
(***************************************************************************)
(* Uploads and clients.                                                    *)
(***************************************************************************)

\* All parts together, for a step that leaves the executor where it is.
LEMMA OthersKeepInv ==
    ASSUME TypeInv, TypeOK', Serves, RowsDecode, StoreInv, \A j \in Jobs : OthersStep(j),
           ex' = ex \/ ex' = [ex EXCEPT !.cancelled = TRUE],
           \A c \in Clients : client'[c] = client[c] \/ ClientFits(c)'
    PROVE  StoreInv'
<1>0. TypeOK /\ Up /\ Up'
  BY DEF TypeInv, Serves
<1>1. \A j \in Jobs : JobStep(j)
  BY DEF JobStep
<1>2. \A j \in Jobs : JobFits(j)'
  BY <1>0, <1>1, JobKept DEF StoreInv
<1>3. \A j \in Jobs : DiedFits(j)'
  BY <1>0, <1>1, DiedKept DEF StoreInv, Serves
<1>4. ExecutorFits'
  BY <1>0, ExecutorKept
<1>5. ProcessFits'
  BY <1>0, <1>1, <1>4, ProcessKept
<1>6. \A c \in Clients : ClientFits(c)'
  BY <1>1, ClientKept
<1> QED
  BY <1>2, <1>3, <1>4, <1>5, <1>6 DEF StoreInv

\* An upload request.
LEMMA UploadInv ==
    ASSUME TypeInv, TypeOK', RowsDecode, StoreInv, NEW i \in Jobs,
           BeginUpload(i) \/ UploadStep(i)
    PROVE  StoreInv'
<1>0. TypeOK /\ upload \in [Jobs -> Uploads]
  BY DEF TypeInv, TypeOK
<1>1. Serves /\ ex' = ex /\ client' = client
  BY DEF Serves, BeginUpload, UploadStep, OpenUpload, RenameUpload, SealUpload, PublishJob,
         AbortUpload, UnlinkUpload, FinishAbort, OnlyRow, OnlyFile, OnlyLease, InsertReceiving,
         SealInput, PublishRow, DoomUpload, DropUpload, UploadGoes, Up
<1>2. ASSUME NEW j \in Jobs, j # i PROVE Same(j)
  <2>1. upload'[j] = upload[j]
    BY <1>0, <1>2
       DEF BeginUpload, UploadStep, OpenUpload, RenameUpload, SealUpload, PublishJob,
           AbortUpload, UnlinkUpload, FinishAbort, UploadGoes
  <2>2. job'[j] = job[j] /\ lease'[j] = lease[j] /\ file'[j] = file[j]
    BY <1>0, <1>2, RowEffect, LeaseEffect, FileEffect, ResourceNames
       DEF BeginUpload, UploadStep, OpenUpload, RenameUpload, SealUpload, PublishJob,
           AbortUpload, UnlinkUpload, FinishAbort, OnlyRow, OnlyFile, OnlyLease,
           InsertReceiving, SealInput, PublishRow, DoomUpload, DropUpload
  <2> QED
    BY <2>1, <2>2 DEF Same, KeepsFiles
<1>3. \A j \in Jobs : OthersStep(j)
  BY <1>2 DEF OthersStep
<1> QED
  BY <1>1, <1>3, OthersKeepInv

\* The moves of a client between its places.
LEMMA ClientEffect ==
    ASSUME TypeOK, NEW c \in Clients, NEW next, ClientGoes(c, next)
    PROVE  client'[c] = next /\ \A d \in Clients : d # c => client'[d] = client[d]
BY DEF TypeOK, ClientGoes

\* DELETE's and the sweep's first transaction.
LEMMA DeleteInv ==
    ASSUME TypeInv, TypeOK', RowsDecode, StoreInv, NEW i \in Jobs, NEW c \in Clients,
           DeleteJob(c, i) \/ (c = Sweeper /\ SweepJob(i))
    PROVE  StoreInv'
<1>0. TypeOK
  BY DEF TypeInv
<1>1. Serves /\ ex' = ex
  BY DEF Serves, DeleteJob, SweepJob, OnlyRow, ClientGoes, Doing, Up, store
<1>2. PICK pc \in {"deleteFailed", "check", "notify", "read"} : ClientGoes(c, Busy(pc, i))
  BY DEF DeleteJob, SweepJob
<1>3. ClientFits(c)'
  BY <1>0, <1>2, ClientEffect DEF ClientFits, Busy
<1>4. \A d \in Clients : client'[d] = client[d] \/ ClientFits(d)'
  BY <1>0, <1>2, <1>3, ClientEffect
<1>5. \/ UNCHANGED store
      \/ /\ \/ Is(job[i], "queued") /\ OnlyRow(i, CancelledWhileQueued(job[i]))
            \/ Is(job[i], "running") /\ OnlyRow(i, CancelRequested(job[i]))
            \/ Shown(job[i]) /\ OnlyRow(i, Deleting(job[i]))
  BY DEF DeleteJob, SweepJob, Shown
<1>6. upload' = upload
  BY <1>2 DEF ClientGoes
<1>7. \A j \in Jobs : Same(j) \/ IsDeleted(j)
  BY <1>0, <1>5, <1>6, RowEffect DEF OnlyRow, Same, IsDeleted, KeepsFiles, store
<1> QED
  BY <1>1, <1>4, <1>7, OthersKeepInv DEF OthersStep

\* The steps that follow.
LEMMA ClientInv ==
    ASSUME TypeInv, TypeOK', RowsDecode, StoreInv, NEW c \in Clients, ClientStep(c)
    PROVE  StoreInv'
<1> DEFINE j == client[c].job
<1>0. /\ TypeOK /\ client[c] \in ClientStates /\ client[c].pc # "idle" /\ j \in Jobs
      /\ lease \in [Jobs -> Leases] /\ file \in [Jobs -> Files] /\ job \in [Jobs -> Rows]
      /\ ClientFits(c) /\ JobFits(j)
  BY DEF TypeInv, TypeOK, StoreTypeOK, StoreInv, ClientStep, Notify, CleanupCheck,
         CleanupUnlink, CleanupCommit, DeleteRead, DeleteUnlinkInput, DeleteUnlinkArtifacts,
         DeleteRemove, GiveUp, Doing
<1>1. Serves /\ upload' = upload
  BY DEF ClientStep, Notify, CleanupCheck, CleanupUnlink, CleanupCommit, DeleteRead,
         DeleteUnlinkInput, DeleteUnlinkArtifacts, DeleteRemove, GiveUp, Doing, Serves, Up,
         ClientGoes, OnlyFile, CleanInput, RemoveJob, store
<1>2. ex' = ex \/ ex' = [ex EXCEPT !.cancelled = TRUE]
  BY DEF ClientStep, Notify, CleanupCheck, CleanupUnlink, CleanupCommit, DeleteRead,
         DeleteUnlinkInput, DeleteUnlinkArtifacts, DeleteRemove, GiveUp
<1>3. SUFFICES /\ ClientFits(c)'
               /\ \A d \in Clients : d # c => client'[d] = client[d]
               /\ \A i \in Jobs : Same(i) \/ Fades(i) \/ InputGoes(i) \/ JobGoes(i)
  BY <1>1, <1>2, OthersKeepInv DEF OthersStep
<1> USE ResourceNames
<1>4. ASSUME UNCHANGED store
      PROVE  \A i \in Jobs : Same(i)
  BY <1>1, <1>4 DEF Same, KeepsFiles, store
<1>5. CASE Notify(c) \/ GiveUp(c)
  BY <1>0, <1>4, <1>5, ClientEffect DEF Notify, GiveUp, ClientFits, IdleClient
<1>6. CASE CleanupCheck(c)
  <2>1. CleanupDue(j, "cancelled") => Ended(j)
    BY <1>0 DEF CleanupDue, Ended, JobFits, RowFits, Is, Terminal
  <2>2. ClientFits(c)'
    <3>1. UNCHANGED store
      BY <1>6 DEF CleanupCheck
    <3>2. client'[c] \in {IdleClient, Busy("unlink", j), Busy("cleanupFailed", j)}
      BY <1>0, <1>6, ClientEffect DEF CleanupCheck
    <3>3. client'[c] = Busy("unlink", j) => Ended(j)
      BY <1>0, <1>6, <2>1, ClientEffect DEF CleanupCheck, IdleClient, Busy
    <3> QED
      BY <1>1, <3>1, <3>2, <3>3 DEF ClientFits, IdleClient, Busy, Ended, store
  <2> QED
    BY <1>0, <1>4, <1>6, <2>2, ClientEffect DEF CleanupCheck
<1>7. CASE CleanupUnlink(c)
  <2>1. Ended(j) /\ SetFile(j, "input", "none") /\ job' = job /\ lease' = lease
    BY <1>0, <1>7 DEF CleanupUnlink, Doing, ClientFits, OnlyFile
  <2>2. \A i \in Jobs : i # j => Same(i)
    BY <1>0, <1>1, <2>1, FileEffect DEF Same, KeepsFiles
  <2>3. Fades(j)
    BY <1>0, <1>1, <2>1, FileEffect DEF Fades, JobFits, Accounted, NoLeases
  <2>4. ClientFits(c)'
    BY <1>0, <1>1, <1>7, <2>1, ClientEffect, FileEffect
       DEF CleanupUnlink, ClientFits, Busy, Ended
  <2> QED
    BY <1>0, <1>7, <2>2, <2>3, <2>4, ClientEffect DEF CleanupUnlink
<1>8. CASE CleanupCommit(c)
  <2>1. ClientFits(c)' /\ \A d \in Clients : d # c => client'[d] = client[d]
    BY <1>0, <1>8, ClientEffect DEF CleanupCommit, ClientFits, IdleClient, Busy
  <2>2. CASE UNCHANGED store
    BY <1>4, <2>1, <2>2
  <2>3. CASE CleanupCommits(j, "cancelled") /\ CleanInput(j)
    <3>1. /\ Is(job[j], "cancelled") /\ file[j]["input"] = "none" /\ Ended(j)
      BY <1>0, <1>8, <2>3 DEF CleanupCommit, Doing, ClientFits, CleanupCommits, CleanupDue
    <3>2. InputGoes(j)
      BY <1>0, <1>1, <2>3, <3>1, RowEffect, LeaseEffect
         DEF CleanInput, InputGoes, Is, Terminal
    <3>3. \A i \in Jobs : i # j => Same(i)
      BY <1>0, <1>1, <2>3, RowEffect, LeaseEffect DEF CleanInput, Same, KeepsFiles
    <3> QED
      BY <2>1, <3>2, <3>3
  <2> QED
    BY <1>8, <2>2, <2>3 DEF CleanupCommit
<1>9. CASE DeleteRead(c)
  <2>1. DeletionConsistent(j) => Deletable(j)
    BY <1>0 DEF DeletionConsistent, Deletable, JobFits, RowFits, Terminal
  <2>2. ClientFits(c)'
    <3>1. /\ UNCHANGED store
          /\ \/ client'[c].pc \in {"idle", "deleteFailed"}
             \/ client'[c].pc = "unlinkInput" /\ client'[c].job = j /\ Deletable(j)
      BY <1>0, <1>9, <2>1, ClientEffect DEF DeleteRead, IdleClient, Busy
    <3> QED
      BY <1>1, <3>1 DEF ClientFits, Deletable, store
  <2> QED
    BY <1>0, <1>4, <1>9, <2>2, ClientEffect DEF DeleteRead
<1>10. CASE DeleteUnlinkInput(c)
  <2>1. /\ Deletable(j) /\ Ended(j)
        /\ ClientGoes(c, [client[c] EXCEPT !.pc = "unlinkArtifacts"])
    BY <1>0, <1>10 DEF DeleteUnlinkInput, Doing, ClientFits, Deletable, Ended
  <2>2. /\ client'[c].pc = "unlinkArtifacts" /\ client'[c].job = j
        /\ client'[c].seen = client[c].seen
    BY <1>0, <2>1, ClientEffect DEF ClientStates
  <2>3. CASE client[c].seen["input"] = "none"
    <3>1. ClientFits(c)'
      BY <1>0, <1>1, <1>10, <2>1, <2>2, <2>3
         DEF DeleteUnlinkInput, ClientFits, Deletable, store
    <3> QED
      BY <1>0, <1>4, <1>10, <2>1, <2>3, <3>1, ClientEffect DEF DeleteUnlinkInput
  <2>4. CASE client[c].seen["input"] # "none"
    <3>1. SetFile(j, "input", "none") /\ job' = job /\ lease' = lease
      BY <1>10, <2>4 DEF DeleteUnlinkInput, OnlyFile
    <3>2. \A i \in Jobs : i # j => Same(i)
      BY <1>0, <1>1, <3>1, FileEffect DEF Same, KeepsFiles
    <3>3. Fades(j)
      BY <1>0, <1>1, <2>1, <3>1, FileEffect DEF Fades, JobFits, Accounted, NoLeases
    <3>4. ClientFits(c)'
      BY <1>0, <1>1, <2>1, <2>2, <3>1, FileEffect DEF ClientFits, Deletable
    <3> QED
      BY <1>0, <2>1, <3>2, <3>3, <3>4, ClientEffect
  <2> QED
    BY <2>3, <2>4
<1>11. CASE DeleteUnlinkArtifacts(c)
  <2>1. /\ Deletable(j) /\ Ended(j) /\ job' = job /\ lease' = lease
        /\ ClientGoes(c, [client[c] EXCEPT !.pc = "remove"])
    BY <1>0, <1>11 DEF DeleteUnlinkArtifacts, Doing, ClientFits, Deletable, Ended
  <2>2. /\ client'[c].pc = "remove" /\ client'[c].job = j
        /\ client'[c].seen = client[c].seen
    BY <1>0, <2>1, ClientEffect DEF ClientStates
  <2>3. /\ \A i \in Jobs : i # j => file'[i] = file[i]
        /\ \A r \in Resources : file'[j][r] = IF r # "input" /\ client[c].seen[r] # "none"
                                              THEN "none" ELSE file[j][r]
    BY <1>0, <1>11 DEF DeleteUnlinkArtifacts
  <2>4. \A i \in Jobs : i # j => Same(i)
    BY <1>1, <2>1, <2>3 DEF Same, KeepsFiles
  <2>5. Fades(j)
    BY <1>0, <1>1, <2>1, <2>3 DEF Fades, JobFits, Accounted, NoLeases
  <2>6. ClientFits(c)'
    BY <1>0, <1>1, <1>11, <2>1, <2>2, <2>3
       DEF DeleteUnlinkArtifacts, Doing, ClientFits, Deletable
  <2> QED
    BY <1>0, <2>1, <2>4, <2>5, <2>6, ClientEffect
<1>12. CASE DeleteRemove(c)
  <2>1. ClientFits(c)' /\ \A d \in Clients : d # c => client'[d] = client[d]
    BY <1>0, <1>12, ClientEffect DEF DeleteRemove, ClientFits, IdleClient, Busy
  <2>2. CASE UNCHANGED store
    BY <1>4, <2>1, <2>2
  <2>3. CASE DeletionUnchanged(j, client[c].seen) /\ RemoveJob(j)
    <3>1. Deletable(j) /\ \A r \in Resources : lease[j][r] # "none" => file[j][r] = "none"
      BY <1>0, <1>12, <2>3 DEF DeleteRemove, Doing, ClientFits, DeletionUnchanged
    <3>2. \A r \in Resources : file[j][r] = "none"
      BY <1>0, <3>1 DEF JobFits, Accounted
    <3>3. /\ job'[j] = NoRow /\ lease'[j] = NoLeases /\ file' = file
          /\ \A i \in Jobs : i # j => job'[i] = job[i] /\ lease'[i] = lease[i]
      BY <1>0, <2>3, RowEffect DEF RemoveJob
    <3>4. JobGoes(j) /\ \A i \in Jobs : i # j => Same(i)
      BY <1>1, <3>1, <3>2, <3>3 DEF JobGoes, Same, KeepsFiles
    <3> QED
      BY <2>1, <3>4
  <2> QED
    BY <1>12, <2>2, <2>3 DEF DeleteRemove
<1> QED
  BY <1>5, <1>6, <1>7, <1>8, <1>9, <1>10, <1>11, <1>12 DEF ClientStep

-----------------------------------------------------------------------------
(***************************************************************************)
(* The executor.                                                           *)
(***************************************************************************)

\* ExecutorFits, but for which jobs are running.
PlaceFits ==
    /\ ex.pc \in Holding => Held
    /\ ex.pc \in {"check", "unlink", "clean"} => Ended(ex.job)
    /\ ex.pc \in {"finally", "finallyRow", "wrapup"} => Ended(ex.job) \/ Interrupted
    /\ AttemptFits

\* All parts together, for a step of the executor.
LEMMA ExecutorKeepsInv ==
    ASSUME TypeInv, TypeOK', RowsDecode, StoreInv, Up, UNCHANGED <<proc, client, died, marker>>,
           \A j \in Jobs : AttemptMoves(j), ExecutorFits'
    PROVE  StoreInv'
<1>0. TypeOK /\ Serves
  BY DEF TypeInv, Serves, Up
<1>1. \A j \in Jobs : JobStep(j)
  BY DEF JobStep
<1>2. \A j \in Jobs : JobFits(j)'
  BY <1>0, <1>1, JobKept DEF StoreInv, Serves
<1>3. \A j \in Jobs : DiedFits(j)'
  BY <1>0, <1>1, DiedKept DEF StoreInv, Serves
<1>4. ProcessFits'
  BY <1>0, <1>1, ProcessKept
<1>5. \A c \in Clients : ClientFits(c)'
  BY <1>0, <1>1, ClientKept
<1> QED
  BY <1>2, <1>3, <1>4, <1>5 DEF StoreInv

\* A step that leaves the store alone.
LEMMA StoreSame ==
    ASSUME UNCHANGED store, upload' = upload
    PROVE  \A j \in Jobs : Same(j)
BY DEF Same, KeepsFiles, store

\* A step that writes an artifact of the running job.
LEMMA ArtifactWrite ==
    ASSUME TypeOK, NEW i \in Jobs, NEW r \in {"segment", "result"}, NEW l, NEW f,
           JobFits(i), Is(job[i], "running"), UNCHANGED <<job, upload>>,
           lease' = lease \/ SetLease(i, r, l), file' = file \/ SetFile(i, r, f),
           file'[i][r] # "none" => lease'[i][r] # "none"
    PROVE  /\ AttemptWrites(i)
           /\ \A j \in Jobs : j # i => Same(j)
           /\ \A q \in Resources : q # r => lease'[i][q] = lease[i][q] /\ file'[i][q] = file[i][q]
<1>1. r \in Resources /\ "input" \in Resources /\ r # "input"
  BY ResourceNames
<1>2. \A q \in Resources : q # r => lease'[i][q] = lease[i][q] /\ file'[i][q] = file[i][q]
  BY <1>1, LeaseEffect, FileEffect
<1>3. \A j \in Jobs : j # i => Same(j)
  BY <1>1, LeaseEffect, FileEffect DEF Same, KeepsFiles
<1>4. AttemptWrites(i)
  BY <1>1, <1>2 DEF AttemptWrites, JobFits, Accounted
<1> QED
  BY <1>2, <1>3, <1>4

\* A step that commits the row of the running job.
LEMMA RowWrite ==
    ASSUME TypeOK, NEW i \in Jobs, NEW row, OnlyRow(i, row), upload' = upload
    PROVE  job'[i] = row /\ KeepsFiles(i) /\ marker' = marker /\ \A j \in Jobs : j # i => Same(j)
BY RowEffect DEF OnlyRow, KeepsFiles, Same

\* An attempt stays with its job; what is left to show of each of its steps is
\* what it does to that job, and that the new place fits.
LEMMA AttemptKeepsInv ==
    ASSUME TypeInv, TypeOK', RowsDecode, StoreInv, Up,
           UNCHANGED <<proc, upload, client, died, marker>>,
           ex.pc \notin Idling, ex'.job = ex.job, ex'.pc # "idle",
           Same(ex.job) \/ AttemptWrites(ex.job) \/ AttemptEnds(ex.job)
               \/ Fades(ex.job) \/ InputGoes(ex.job),
           \A j \in Jobs : j # ex.job => Same(j), PlaceFits'
    PROVE  StoreInv'
<1>0. /\ ex.job \in Jobs /\ upload[ex.job] = "over" /\ Running \subseteq {ex.job}
  BY DEF StoreInv, ExecutorFits
<1>1. \A j \in Jobs : AttemptMoves(j)
  BY <1>0 DEF AttemptMoves
<1>2. Running' \subseteq {ex'.job}
  BY <1>0 DEF Running, Same
<1>3. ExecutorFits'
  BY <1>0, <1>2 DEF ExecutorFits, PlaceFits
<1> QED
  BY <1>1, <1>3, ExecutorKeepsInv

\* What is known of an attempt at a place where it holds its job.
LEMMA HeldFacts ==
    ASSUME TypeOK, RowsDecode, StoreInv, Up, ex.pc \in Holding
    PROVE  /\ ex.job \in Jobs /\ Held /\ Is(job[ex.job], "running") /\ ~job[ex.job].result
           /\ JobFits(ex.job) /\ AttemptFits /\ ex.pc \notin Idling
           /\ \A next : Fenced(next) = IF job[ex.job].cancel THEN "cancel" ELSE next
<1>1. ex.job \in Jobs /\ Held /\ JobFits(ex.job) /\ AttemptFits /\ ex.pc \notin Idling
  BY DEF StoreInv, ExecutorFits, Holding, Idling
<1>2. ~job[ex.job].result
  BY <1>1
     DEF TypeOK, StoreTypeOK, RowsDecode, Held, Holds, Is, Decodes, RunningShape,
         ReceivingShape, QueuedShape, TerminalShape, Terminal
<1> QED
  BY <1>1, <1>2 DEF Held, Holds, Fenced

\* What is known before a step.
Sound == TypeInv /\ TypeOK' /\ RowsDecode /\ StoreInv

\* From the claim to the open segment writer.
LEMMA BeginInv ==
    ASSUME Sound, Register \/ ResolveInput \/ BeginSegment \/ OpenSegment
    PROVE  StoreInv'
<1> DEFINE i == ex.job
<1>1. /\ Up /\ ex.pc \in {"claimed", "resolve", "segment", "segmentOpen"}
      /\ UNCHANGED <<proc, upload, client, died, marker>>
  BY DEF Register, ResolveInput, BeginSegment, BeginArtifact, OpenSegment, At, ExGoes,
         OnlyLease, OnlyFile, store
<1>2. ex.pc \in Holding /\ ex.pc \notin {"check", "unlink", "clean"}
  BY <1>1 DEF Holding
<1>3. TypeOK /\ ex \in Executors
  BY DEF Sound, TypeInv, TypeOK
<1>4. /\ i \in Jobs /\ Held /\ Is(job[i], "running") /\ JobFits(i) /\ ex.pc \notin Idling
      /\ \A next : Fenced(next) = IF job[i].cancel THEN "cancel" ELSE next
  BY <1>1, <1>2, <1>3, HeldFacts DEF Sound
<1>5. SUFFICES /\ ex'.job = i /\ ex'.pc # "idle" /\ PlaceFits'
               /\ Same(i) \/ AttemptWrites(i)
               /\ \A j \in Jobs : j # i => Same(j)
  BY <1>1, <1>4, AttemptKeepsInv DEF Sound
<1> USE DEF PlaceFits, Holding, AttemptFits, ResultOpened, ResultWritten, ResultSealed, Decoded
<1>6. CASE Register
  <2>1. /\ UNCHANGED store /\ ex'.job = i /\ ex'.token = ex.token
        /\ IF proc.stopping THEN ex'.pc = "wrapup" ELSE ex'.pc = "resolve"
    BY <1>3, <1>6 DEF Register, ExGoes, Executors
  <2> QED
    BY <1>1, <1>4, <2>1, StoreSame DEF Held, Holds, Interrupted, store
<1>7. CASE ResolveInput
  <2>1. /\ UNCHANGED store /\ ex'.job = i /\ ex'.token = ex.token
        /\ \/ ex'.pc = "cancel" /\ job[i].cancel
           \/ ex'.pc = "finally" /\ ex'.error = "fatal"
           \/ ex'.pc = "segment"
    BY <1>3, <1>4, <1>7 DEF ResolveInput, ExGoes, Executors, Broken
  <2> QED
    BY <1>1, <1>4, <2>1, StoreSame DEF Held, Holds, Interrupted, store
<1>8. CASE BeginSegment
  <2>1. /\ ex'.job = i /\ ex'.token = ex.token
        /\ \/ UNCHANGED store /\ ex'.pc = "cancel" /\ job[i].cancel
           \/ UNCHANGED store /\ ex'.pc = "finally" /\ ex'.error = "fatal"
           \/ ex'.pc = "segmentOpen" /\ OnlyLease(i, "segment", "writing")
    BY <1>3, <1>4, <1>8 DEF BeginSegment, BeginArtifact, ExGoes, Executors, Broken
  <2>2. CASE UNCHANGED store /\ ex'.pc # "segmentOpen"
    BY <1>1, <1>4, <2>1, <2>2, StoreSame DEF Held, Holds, Interrupted, store
  <2>3. CASE ex'.pc = "segmentOpen" /\ OnlyLease(i, "segment", "writing")
    <3>1. /\ lease'[i]["segment"] = "writing" /\ job' = job /\ file' = file
          /\ SetLease(i, "segment", "writing")
      BY <1>3, <1>4, <2>3, LeaseEffect, ResourceNames DEF OnlyLease
    <3>2. AttemptWrites(i) /\ \A j \in Jobs : j # i => Same(j)
      BY <1>1, <1>3, <1>4, <3>1, ArtifactWrite
    <3> QED
      BY <1>4, <2>1, <2>3, <3>1, <3>2 DEF Held, Holds
  <2> QED
    BY <2>1, <2>2, <2>3
<1>9. CASE OpenSegment
  <2>1. /\ ex'.job = i /\ ex'.token = ex.token /\ ex'.pc = "process"
        /\ lease[i]["segment"] # "none" /\ lease' = lease /\ job' = job
        /\ SetFile(i, "segment", "partial")
    BY <1>1, <1>2, <1>3, <1>9, HeldFacts
       DEF Sound, OpenSegment, At, ExGoes, Executors, OnlyFile
  <2>2. AttemptWrites(i) /\ \A j \in Jobs : j # i => Same(j)
    BY <1>1, <1>3, <1>4, <2>1, ArtifactWrite
  <2> QED
    BY <1>4, <2>1, <2>2 DEF Held, Holds
<1> QED
  BY <1>6, <1>7, <1>8, <1>9

\* What a place where the attempt holds its job gives each of its steps.
LEMMA HeldStep ==
    ASSUME Sound, Up, ex.pc \in Holding
    PROVE  /\ TypeOK /\ ex \in Executors /\ job[ex.job] \in Rows
           /\ ex.job \in Jobs /\ Held /\ Is(job[ex.job], "running") /\ ~job[ex.job].result
           /\ JobFits(ex.job) /\ AttemptFits
           /\ \A next : Fenced(next) = IF job[ex.job].cancel THEN "cancel" ELSE next
           /\ /\ UNCHANGED <<proc, upload, client, died, marker>>
              /\ ex'.job = ex.job /\ ex'.pc # "idle" /\ PlaceFits'
              /\ Same(ex.job) \/ AttemptWrites(ex.job) \/ AttemptEnds(ex.job)
              /\ \A j \in Jobs : j # ex.job => Same(j)
              => StoreInv'
<1>1. TypeOK /\ ex \in Executors
  BY DEF Sound, TypeInv, TypeOK
<1>2. /\ ex.job \in Jobs /\ Held /\ Is(job[ex.job], "running") /\ ~job[ex.job].result
      /\ JobFits(ex.job) /\ AttemptFits /\ ex.pc \notin Idling
      /\ \A next : Fenced(next) = IF job[ex.job].cancel THEN "cancel" ELSE next
  BY <1>1, HeldFacts DEF Sound
<1>3. job[ex.job] \in Rows
  BY <1>1, <1>2 DEF TypeOK, StoreTypeOK
<1> QED
  BY <1>1, <1>2, <1>3, AttemptKeepsInv DEF Sound

\* The segment is written, aborted, or sealed.
LEMMA ProcessInv ==
    ASSUME Sound, \/ \E n \in 0..Samples, eof \in BOOLEAN : Progress(n, eof)
                  \/ ProcessFails \/ ProcessCancelled \/ SealSegment
    PROVE  StoreInv'
<1> DEFINE i == ex.job
<1>1. /\ Up /\ ex.pc \in {"process", "seal"} /\ UNCHANGED <<proc, upload, client, died, marker>>
  BY DEF Progress, ProcessFails, ProcessCancelled, SealSegment, SegmentAborted, At, ExGoes,
         ExMoves, OnlyRow
<1>2. ex.pc \in Holding
  BY <1>1 DEF Holding
<1>3. /\ TypeOK /\ ex \in Executors /\ job[i] \in Rows /\ i \in Jobs /\ Held
      /\ Is(job[i], "running") /\ JobFits(i) /\ AttemptFits
      /\ \A next : Fenced(next) = IF job[i].cancel THEN "cancel" ELSE next
  BY <1>1, <1>2, HeldStep
<1>4. SUFFICES /\ ex'.job = i /\ ex'.pc # "idle" /\ PlaceFits'
               /\ AttemptWrites(i)
               /\ \A j \in Jobs : j # i => Same(j)
  BY <1>1, <1>2, HeldStep
<1> USE DEF PlaceFits, Holding, AttemptFits, ResultOpened, ResultWritten, ResultSealed, Decoded
<1>5. ASSUME SegmentAborted
      PROVE  AttemptWrites(i) /\ job' = job /\ \A j \in Jobs : j # i => Same(j)
  <2>1. /\ SetLease(i, "segment", "none") /\ SetFile(i, "segment", "none") /\ job' = job
        /\ file'[i]["segment"] = "none"
    BY <1>3, <1>5, FileEffect, ResourceNames DEF SegmentAborted
  <2> QED
    BY <1>1, <1>3, <2>1, ArtifactWrite
<1>6. CASE \E n \in 0..Samples, eof \in BOOLEAN : Progress(n, eof)
  <2>1. PICK n \in 0..Samples, eof \in BOOLEAN : Progress(n, eof)
    BY <1>6
  <2>2. /\ ex'.job = i /\ ex'.token = ex.token /\ (eof => n = Samples)
        /\ \/ job[i].cancel /\ SegmentAborted /\ ex'.pc = "cancel"
           \/ /\ OnlyRow(i, Progressed(job[i], n, eof))
              /\ ex'.pc = IF eof THEN "seal" ELSE "process"
    BY <1>3, <2>1 DEF Progress, ExGoes, ExMoves, Executors
  <2>3. CASE job[i].cancel /\ SegmentAborted /\ ex'.pc = "cancel"
    BY <1>3, <1>5, <2>2, <2>3 DEF Held, Holds
  <2>4. CASE OnlyRow(i, Progressed(job[i], n, eof)) /\ ex'.pc = IF eof THEN "seal" ELSE "process"
    <3>1. /\ job'[i] = Progressed(job[i], n, eof) /\ KeepsFiles(i)
          /\ \A j \in Jobs : j # i => Same(j)
      BY <1>1, <1>3, <2>4, RowWrite
    <3>2. AttemptWrites(i)
      BY <1>3, <3>1, ResourceNames DEF AttemptWrites, KeepsFiles, JobFits, Accounted
    <3>3. /\ job'[i].phase = job[i].phase /\ job'[i].status = job[i].status
          /\ job'[i].attempt = job[i].attempt
          /\ eof => job'[i].total /\ job'[i].processed = n
      BY <1>3, <3>1, AttemptFields
    <3> QED
      BY <1>3, <2>2, <2>4, <3>1, <3>2, <3>3 DEF Held, Holds, Is
  <2> QED
    BY <2>2, <2>3, <2>4
<1>7. CASE ProcessFails \/ ProcessCancelled
  <2>1. /\ SegmentAborted /\ ex'.job = i /\ ex'.token = ex.token
        /\ ex'.pc = "fail" \/ (ex'.pc = "cancel" /\ ex'.error = "cancelled")
    BY <1>3, <1>7 DEF ProcessFails, ProcessCancelled, ExGoes, Executors
  <2> QED
    BY <1>3, <1>5, <2>1 DEF Held, Holds, Interrupted
<1>8. CASE SealSegment
  <2>1. /\ SetLease(i, "segment", "sealed") /\ SetFile(i, "segment", "complete") /\ job' = job
        /\ lease'[i]["segment"] = "sealed" /\ ex.pc = "seal"
        /\ ex'.job = i /\ ex'.token = ex.token /\ ex'.pc = "result"
    BY <1>3, <1>8, LeaseEffect, ResourceNames DEF SealSegment, At, ExGoes, Executors
  <2>2. AttemptWrites(i) /\ \A j \in Jobs : j # i => Same(j)
    BY <1>1, <1>3, <2>1, ArtifactWrite
  <2> QED
    BY <1>3, <2>1, <2>2 DEF Held, Holds
<1> QED
  BY <1>6, <1>7, <1>8

\* The result is begun, refused, written, and sealed.
LEMMA ResultInv ==
    ASSUME Sound, BeginResult \/ OpenResult \/ ResultNotAdmitted \/ RenameResult \/ SealResult
    PROVE  StoreInv'
<1> DEFINE i == ex.job
<1>1. /\ Up /\ ex.pc \in {"result", "resultOpen", "envelope", "resultSeal"}
      /\ UNCHANGED <<proc, upload, client, died, marker>>
  BY DEF BeginResult, BeginArtifact, OpenResult, ResultNotAdmitted, RenameResult, SealResult,
         At, ExGoes, ExMoves, OnlyFile, OnlyLease, store
<1>2. ex.pc \in Holding /\ ex.pc \in Decoded
  BY <1>1 DEF Holding, Decoded, ResultOpened, ResultWritten
<1>3. /\ TypeOK /\ ex \in Executors /\ job[i] \in Rows /\ i \in Jobs /\ Held
      /\ Is(job[i], "running") /\ JobFits(i) /\ AttemptFits
      /\ \A next : Fenced(next) = IF job[i].cancel THEN "cancel" ELSE next
  BY <1>1, <1>2, HeldStep
<1>4. SUFFICES /\ ex'.job = i /\ ex'.pc # "idle" /\ PlaceFits'
               /\ Same(i) \/ AttemptWrites(i)
               /\ \A j \in Jobs : j # i => Same(j)
  BY <1>1, <1>2, HeldStep
<1> USE ResourceNames
        DEF PlaceFits, Holding, AttemptFits, ResultOpened, ResultWritten, ResultSealed, Decoded
<1>5. CASE BeginResult
  <2>1. /\ ex'.job = i /\ ex'.token = ex.token
        /\ \/ UNCHANGED store /\ ex'.pc = "cancel" /\ job[i].cancel
           \/ UNCHANGED store /\ ex'.pc = "finally" /\ ex'.error = "fatal"
           \/ ex'.pc = "resultOpen" /\ OnlyLease(i, "result", "writing")
    BY <1>3, <1>5 DEF BeginResult, BeginArtifact, ExGoes, Executors, Broken
  <2>2. CASE UNCHANGED store /\ ex'.pc # "resultOpen"
    BY <1>1, <1>3, <2>1, <2>2, StoreSame DEF Held, Holds, Interrupted, store
  <2>3. CASE ex'.pc = "resultOpen" /\ OnlyLease(i, "result", "writing")
    <3>1. /\ lease'[i]["result"] = "writing" /\ job' = job /\ file' = file
          /\ SetLease(i, "result", "writing")
      BY <1>3, <2>3, LeaseEffect DEF OnlyLease
    <3>2. AttemptWrites(i) /\ \A j \in Jobs : j # i => Same(j)
      BY <1>1, <1>3, <3>1, ArtifactWrite
    <3> QED
      BY <1>2, <1>3, <2>1, <2>3, <3>1, <3>2 DEF Held, Holds
  <2> QED
    BY <2>1, <2>2, <2>3
<1>6. CASE OpenResult \/ RenameResult
  <2>1. PICK f \in {"partial", "complete"} :
           /\ SetFile(i, "result", f) /\ lease' = lease /\ job' = job
           /\ ex'.job = i /\ ex'.token = ex.token
           /\ \/ f = "partial" /\ ex'.pc = "envelope"
              \/ f = "complete" /\ ex'.pc = "resultSeal"
    BY <1>3, <1>6 DEF OpenResult, RenameResult, OnlyFile, ExMoves, ExGoes, Executors
  <2>2. lease[i]["result"] # "none" /\ file'[i]["result"] = f
    BY <1>3, <1>6, <2>1, FileEffect DEF OpenResult, RenameResult, At
  <2>3. AttemptWrites(i) /\ \A j \in Jobs : j # i => Same(j)
    BY <1>1, <1>3, <2>1, <2>2, ArtifactWrite
  <2> QED
    BY <1>2, <1>3, <2>1, <2>2, <2>3 DEF Held, Holds
<1>7. CASE ResultNotAdmitted
  <2>1. /\ SetLease(i, "result", "none") /\ SetFile(i, "result", "none") /\ job' = job
        /\ file'[i]["result"] = "none"
        /\ ex'.job = i /\ ex'.token = ex.token /\ ex'.pc = "fail"
    BY <1>3, <1>7, FileEffect DEF ResultNotAdmitted, ExMoves, ExGoes, Executors
  <2>2. AttemptWrites(i) /\ \A j \in Jobs : j # i => Same(j)
    BY <1>1, <1>3, <2>1, ArtifactWrite
  <2> QED
    BY <1>3, <2>1, <2>2 DEF Held, Holds
<1>8. CASE SealResult
  <2>1. /\ SetLease(i, "result", "sealed") /\ file' = file /\ job' = job
        /\ lease'[i]["result"] = "sealed" /\ file[i]["result"] = "complete"
        /\ ex'.job = i /\ ex'.token = ex.token /\ ex'.pc = "discard"
    BY <1>3, <1>8, LeaseEffect DEF SealResult, At, OnlyLease, ExMoves, ExGoes, Executors
  <2>2. AttemptWrites(i) /\ \A j \in Jobs : j # i => Same(j)
    BY <1>1, <1>3, <2>1, ArtifactWrite
  <2> QED
    BY <1>2, <1>3, <2>1, <2>2 DEF Held, Holds
<1> QED
  BY <1>5, <1>6, <1>7, <1>8

\* The sealed segment is discarded, before the success commit or at the end.
LEMMA DiscardInv ==
    ASSUME Sound, UnlinkSegment \/ DropSegment
    PROVE  StoreInv'
<1> DEFINE i == ex.job
<1>1. /\ Up /\ ex.pc \in {"discard", "finally", "discardRow", "finallyRow"}
      /\ UNCHANGED <<proc, upload, client, died, marker>>
  BY DEF UnlinkSegment, DropSegment, OnlyFile, OnlyLease, ExMoves, ExGoes
<1>2. ex.pc \notin Idling /\ TypeOK /\ ex \in Executors
  BY <1>1 DEF Idling, Sound, TypeInv, TypeOK
<1>3. /\ i \in Jobs /\ upload[i] = "over" /\ JobFits(i) /\ AttemptFits
      /\ ex.pc \in {"discard", "discardRow"} => Held
      /\ ex.pc \in {"finally", "finallyRow"} => Ended(i) \/ Interrupted
  BY <1>1, <1>2 DEF Sound, StoreInv, ExecutorFits, Holding
<1>4. SUFFICES /\ ex'.job = i /\ ex'.pc # "idle" /\ PlaceFits'
               /\ AttemptWrites(i) \/ Fades(i)
               /\ \A j \in Jobs : j # i => Same(j)
  BY <1>1, <1>2, AttemptKeepsInv DEF Sound
<1> USE ResourceNames
<1>5. /\ ex'.job = i /\ ex'.token = ex.token /\ ex'.error = ex.error /\ job' = job
      /\ lease' = lease \/ SetLease(i, "segment", "none")
      /\ file' = file \/ SetFile(i, "segment", "none")
      /\ file'[i]["segment"] = "none"
      /\ \/ ex.pc = "discard" /\ ex'.pc = "discardRow"
         \/ ex.pc = "finally" /\ ex'.pc = "finallyRow"
         \/ ex.pc = "discardRow" /\ ex'.pc = "commit"
         \/ ex.pc = "finallyRow" /\ ex'.pc = "wrapup"
  <2>1. CASE UnlinkSegment
    <3>1. SetFile(i, "segment", "none") /\ job' = job /\ lease' = lease
      BY <2>1 DEF UnlinkSegment, OnlyFile
    <3> QED
      BY <1>2, <1>3, <2>1, <3>1, FileEffect DEF UnlinkSegment, ExMoves, ExGoes, Executors
  <2>2. CASE DropSegment
    <3>1. /\ SetLease(i, "segment", "none") /\ job' = job /\ file' = file
          /\ ex.pc \in {"discardRow", "finallyRow"}
      BY <2>2 DEF DropSegment, OnlyLease
    <3> QED
      BY <1>2, <1>3, <2>2, <3>1 DEF DropSegment, ExGoes, Executors, AttemptFits
  <2> QED
    BY <2>1, <2>2
<1>6. \A q \in Resources : /\ q # "segment" => lease'[i][q] = lease[i][q]
                           /\ q # "segment" => file'[i][q] = file[i][q]
  BY <1>2, <1>3, <1>5, LeaseEffect, FileEffect
<1>7. \A j \in Jobs : j # i => Same(j)
  BY <1>1, <1>2, <1>3, <1>5, LeaseEffect, FileEffect DEF Same, KeepsFiles
<1>8. AttemptWrites(i) \/ Fades(i)
  <2>1. CASE Held
    BY <1>1, <1>2, <1>3, <1>5, <2>1, ArtifactWrite DEF Held, Holds
  <2>2. CASE ~Held
    <3>1. Ended(i)
      BY <1>1, <1>3, <2>2 DEF Interrupted
    <3>2. lease'[i]["segment"] \in {lease[i]["segment"], "none"}
      BY <1>2, <1>3, <1>5, LeaseEffect
    <3> QED
      BY <1>1, <1>3, <1>5, <1>6, <3>1, <3>2 DEF Fades, JobFits, Accounted, NoLeases
  <2> QED
    BY <2>1, <2>2
<1>9. PlaceFits'
  BY <1>1, <1>3, <1>5, <1>6
     DEF PlaceFits, Holding, AttemptFits, ResultOpened, ResultWritten, ResultSealed, Decoded,
         Held, Holds, Interrupted, Ended
<1> QED
  BY <1>5, <1>7, <1>8, <1>9

\* The commits, and the discarding of a result that comes too late.
LEMMA CommitInv ==
    ASSUME Sound, LookBeforeSuccess \/ CommitSuccess \/ UnlinkResult \/ DropResult \/ CommitFailure
    PROVE  StoreInv'
<1> DEFINE i == ex.job
<1>1. /\ Up /\ ex.pc \in {"commit", "succeed", "dropResult", "dropResultRow", "fail"}
      /\ UNCHANGED <<proc, upload, client, died, marker>>
  BY DEF LookBeforeSuccess, CommitSuccess, UnlinkResult, DropResult, CommitFailure,
         At, ExGoes, ExMoves, OnlyFile, OnlyLease, OnlyRow, store
<1>2. ex.pc \in Holding
  BY <1>1 DEF Holding
<1>3. /\ TypeOK /\ ex \in Executors /\ job[i] \in Rows /\ i \in Jobs /\ Held
      /\ Is(job[i], "running") /\ JobFits(i) /\ AttemptFits /\ ~job[i].result
      /\ \A next : Fenced(next) = IF job[i].cancel THEN "cancel" ELSE next
  BY <1>1, <1>2, HeldStep
<1>4. SUFFICES /\ ex'.job = i /\ ex'.pc # "idle" /\ PlaceFits'
               /\ Same(i) \/ AttemptWrites(i) \/ AttemptEnds(i)
               /\ \A j \in Jobs : j # i => Same(j)
  BY <1>1, <1>2, HeldStep
<1> USE ResourceNames
        DEF PlaceFits, Holding, AttemptFits, ResultOpened, ResultWritten, ResultSealed, Decoded
<1>5. ex.pc \in {"commit", "succeed"} => (MaySucceed(i, ex.token) <=> ~job[i].cancel)
  BY <1>3 DEF MaySucceed, Held
<1>6. upload[i] = "over"
  BY <1>3 DEF JobFits, RowFits, Is
<1>7. CASE LookBeforeSuccess
  <2>1. /\ UNCHANGED store /\ ex'.job = i /\ ex'.token = ex.token /\ ex.pc = "commit"
        /\ ex'.pc = "succeed" \/ (ex'.pc = "dropResult" /\ job[i].cancel)
    BY <1>3, <1>5, <1>7 DEF LookBeforeSuccess, At, ExMoves, ExGoes, Executors
  <2> QED
    BY <1>1, <1>3, <2>1, StoreSame DEF Held, Holds, store
<1>8. CASE CommitSuccess
  <2>1. /\ ex'.job = i /\ ex'.token = ex.token /\ ex.pc = "succeed"
        /\ \/ UNCHANGED store /\ ex'.pc = "dropResult" /\ job[i].cancel
           \/ ex'.pc = "check" /\ OnlyRow(i, Succeeded(job[i]))
    BY <1>3, <1>5, <1>8 DEF CommitSuccess, At, ExMoves, ExGoes, Executors
  <2>2. CASE UNCHANGED store /\ ex'.pc = "dropResult" /\ job[i].cancel
    BY <1>1, <1>3, <2>1, <2>2, StoreSame DEF Held, Holds, store
  <2>3. CASE ex'.pc = "check" /\ OnlyRow(i, Succeeded(job[i]))
    <3>1. /\ job'[i] = Succeeded(job[i]) /\ KeepsFiles(i)
          /\ \A j \in Jobs : j # i => Same(j)
      BY <1>1, <1>3, <2>3, RowWrite
    <3>2. AttemptEnds(i)
      BY <1>3, <2>1, <3>1 DEF AttemptEnds
    <3>3. Ended(i)'
      BY <1>1, <1>3, <1>6, <2>1, <3>1, EndFields DEF Ended, Terminal
    <3> QED
      BY <2>1, <2>3, <3>1, <3>2, <3>3
  <2> QED
    BY <2>1, <2>2, <2>3
<1>9. CASE UnlinkResult
  <2>1. /\ SetFile(i, "result", "none") /\ lease' = lease /\ job' = job
        /\ file'[i]["result"] = "none" /\ job[i].cancel
        /\ ex'.job = i /\ ex'.token = ex.token /\ ex'.pc = "dropResultRow"
    BY <1>3, <1>9, FileEffect DEF UnlinkResult, At, OnlyFile, ExMoves, ExGoes, Executors
  <2>2. AttemptWrites(i) /\ \A j \in Jobs : j # i => Same(j)
    BY <1>1, <1>3, <2>1, ArtifactWrite
  <2> QED
    BY <1>3, <2>1, <2>2 DEF Held, Holds
<1>10. CASE DropResult
  <2>1. /\ SetLease(i, "result", "none") /\ file' = file /\ job' = job
        /\ file'[i]["result"] = "none" /\ job[i].cancel
        /\ ex'.job = i /\ ex'.token = ex.token /\ ex'.pc = "cancel"
    BY <1>3, <1>10 DEF DropResult, At, OnlyLease, ExMoves, ExGoes, Executors
  <2>2. AttemptWrites(i) /\ \A j \in Jobs : j # i => Same(j)
    BY <1>1, <1>3, <2>1, ArtifactWrite
  <2> QED
    BY <1>3, <2>1, <2>2 DEF Held, Holds
<1>11. CASE CommitFailure
  <2>1. /\ ex'.job = i /\ ex'.token = ex.token
        /\ \/ UNCHANGED store /\ ex'.pc = "cancel" /\ job[i].cancel
           \/ ex'.pc = "check" /\ OnlyRow(i, Failed(job[i], "runtime"))
    BY <1>3, <1>11 DEF CommitFailure, ExMoves, ExGoes, Executors
  <2>2. CASE UNCHANGED store /\ ex'.pc = "cancel" /\ job[i].cancel
    BY <1>1, <1>3, <2>1, <2>2, StoreSame DEF Held, Holds, store
  <2>3. CASE ex'.pc = "check" /\ OnlyRow(i, Failed(job[i], "runtime"))
    <3>1. /\ job'[i] = Failed(job[i], "runtime") /\ KeepsFiles(i)
          /\ \A j \in Jobs : j # i => Same(j)
      BY <1>1, <1>3, <2>3, RowWrite
    <3>2. AttemptEnds(i) /\ Ended(i)'
      BY <1>1, <1>3, <1>6, <2>1, <3>1, EndFields DEF AttemptEnds, Ended, Terminal
    <3> QED
      BY <2>1, <2>3, <3>1, <3>2
  <2> QED
    BY <2>1, <2>2, <2>3
<1> QED
  BY <1>7, <1>8, <1>9, <1>10, <1>11

\* The cancellation, of the attempt or at shutdown.
LEMMA CancelInv ==
    ASSUME Sound, CommitCancelled \/ CancelAtShutdown
    PROVE  StoreInv'
<1> DEFINE i == ex.job
<1>1. /\ Up /\ ex.pc \in {"cancel", "stopCancel"}
      /\ UNCHANGED <<proc, upload, client, died, marker>>
  BY DEF CommitCancelled, CancelAtShutdown, CommitCancellation, At, ExGoes, OnlyRow, store
<1>2. ex.pc \notin Idling /\ TypeOK /\ ex \in Executors /\ RowsDecode
  BY <1>1 DEF Idling, Sound, TypeInv, TypeOK
<1>3. /\ i \in Jobs /\ upload[i] = "over" /\ JobFits(i) /\ job[i] \in Rows
      /\ ex.pc = "cancel" => Held /\ (job[i].cancel \/ Interrupted)
  BY <1>1, <1>2 DEF Sound, StoreInv, ExecutorFits, AttemptFits, Holding, TypeOK, StoreTypeOK
<1>4. SUFFICES /\ ex'.job = i /\ ex'.pc # "idle" /\ PlaceFits'
               /\ Same(i) \/ AttemptEnds(i)
               /\ \A j \in Jobs : j # i => Same(j)
  BY <1>1, <1>2, AttemptKeepsInv DEF Sound
<1> USE DEF PlaceFits, Holding, AttemptFits, ResultOpened, ResultWritten, ResultSealed, Decoded
<1>5. CASE Held /\ job[i].cancel
  <2>1. /\ ex'.job = i /\ ex'.pc = "check" /\ OnlyRow(i, Cancelled(job[i]))
    BY <1>2, <1>5
       DEF CommitCancelled, CancelAtShutdown, CommitCancellation, ExGoes, Executors, Held
  <2>2. /\ job'[i] = Cancelled(job[i]) /\ KeepsFiles(i)
        /\ \A j \in Jobs : j # i => Same(j)
    BY <1>1, <1>2, <1>3, <2>1, RowWrite
  <2>3. AttemptEnds(i) /\ Ended(i)'
    BY <1>1, <1>3, <1>5, <2>1, <2>2, EndFields DEF AttemptEnds, Ended, Terminal, Held, Holds
  <2> QED
    BY <2>1, <2>2, <2>3
<1>6. CASE ~(Held /\ job[i].cancel)
  <2>1. /\ UNCHANGED store /\ ex'.job = i /\ ex'.token = ex.token /\ ex'.error = ex.error
        /\ \/ ex'.pc = "check" /\ job[i].status \in {"null", "cancelled"}
           \/ ex.pc = "cancel" /\ ex'.pc = "finally"
           \/ ex.pc = "stopCancel" /\ ex'.pc = "gone"
    BY <1>2, <1>6
       DEF CommitCancelled, CancelAtShutdown, CommitCancellation, At, ExGoes, Executors, Held
  <2>2. ASSUME job[i].status \in {"null", "cancelled"}
        PROVE  Ended(i)
    BY <1>1, <1>2, <1>3, <2>2, DecodedRow
       DEF Ended, JobFits, UploadFits, Active, Shown, Is, Terminal
  <2>3. ex.pc = "cancel" => Interrupted
    BY <1>3, <1>6
  <2> QED
    BY <1>1, <2>1, <2>2, <2>3, StoreSame, <1>3 DEF Ended, Interrupted, Held, Holds, store
<1> QED
  BY <1>5, <1>6

\* The input of the ended job is unlinked and forgotten.
LEMMA CleanupInv ==
    ASSUME Sound, CheckInput \/ UnlinkInput \/ CleanupInput
    PROVE  StoreInv'
<1> DEFINE i == ex.job
<1>1. /\ Up /\ ex.pc \in {"check", "unlink", "clean"}
      /\ UNCHANGED <<proc, upload, client, died, marker>>
  BY DEF CheckInput, UnlinkInput, CleanupInput, CleanInput, At, ExGoes, ExMoves, OnlyFile, store
<1>2. ex.pc \notin Idling /\ TypeOK /\ ex \in Executors
  BY <1>1 DEF Idling, Sound, TypeInv, TypeOK
<1>3. /\ i \in Jobs /\ JobFits(i) /\ job[i] \in Rows /\ Ended(i) /\ ex.then \in {"finally", "gone"}
      /\ ex.pc = "clean" => file[i]["input"] = "none"
  BY <1>1, <1>2 DEF Sound, StoreInv, ExecutorFits, AttemptFits, TypeOK, StoreTypeOK, Executors
<1>4. SUFFICES /\ ex'.job = i /\ ex'.pc # "idle" /\ PlaceFits'
               /\ Same(i) \/ Fades(i) \/ InputGoes(i)
               /\ \A j \in Jobs : j # i => Same(j)
  BY <1>1, <1>2, AttemptKeepsInv DEF Sound
<1> USE ResourceNames
        DEF PlaceFits, Holding, AttemptFits, ResultOpened, ResultWritten, ResultSealed, Decoded
<1>5. CASE UNCHANGED store /\ ~UnlinkInput
  <2>1. ex'.job = i /\ ex'.pc \in {"finally", "gone", "unlink"}
    BY <1>2, <1>3, <1>5 DEF CheckInput, CleanupInput, ExMoves, ExGoes, Broken, Executors
  <2> QED
    BY <1>1, <1>3, <1>5, <2>1, StoreSame DEF Ended, store
<1>6. CASE UnlinkInput
  <2>1. /\ SetFile(i, "input", "none") /\ job' = job /\ lease' = lease
        /\ ex'.job = i /\ ex'.pc = "clean"
    BY <1>2, <1>6 DEF UnlinkInput, OnlyFile, ExMoves, ExGoes, Executors
  <2>2. /\ file'[i]["input"] = "none" /\ file'[i]["segment"] = file[i]["segment"]
        /\ file'[i]["result"] = file[i]["result"] /\ \A j \in Jobs : j # i => Same(j)
    BY <1>1, <1>2, <1>3, <2>1, FileEffect DEF Same, KeepsFiles
  <2>3. Fades(i) /\ Ended(i)'
    BY <1>1, <1>3, <2>1, <2>2 DEF Fades, Ended, JobFits, Accounted, NoLeases
  <2> QED
    BY <2>1, <2>2, <2>3
<1>7. CASE CleanupInput /\ CleanupCommits(i, ex.status) /\ CleanInput(i)
  <2>1. /\ ex'.job = i /\ ex'.pc \in {"finally", "gone"} /\ ex.pc = "clean"
    BY <1>2, <1>3, <1>7 DEF CleanupInput, At, ExMoves, ExGoes, Broken, Executors
  <2>2. job[i].phase = "visible" /\ job[i].status \in Terminal
    BY <1>3, <1>7 DEF CleanupCommits, CleanupDue, Is, Ended
  <2>3. /\ job'[i] = InputCleaned(job[i]) /\ file' = file /\ lease'[i]["input"] = "none"
        /\ \A q \in Resources : q # "input" => lease'[i][q] = lease[i][q]
        /\ \A j \in Jobs : j # i => Same(j)
    BY <1>1, <1>2, <1>3, <1>7, RowEffect, LeaseEffect DEF CleanInput, Same, KeepsFiles
  <2>4. InputGoes(i) /\ Ended(i)'
    BY <1>1, <1>3, <2>1, <2>2, <2>3, RowFields DEF InputGoes, Ended
  <2> QED
    BY <2>1, <2>3, <2>4
<1> QED
  BY <1>5, <1>6, <1>7 DEF CheckInput, CleanupInput, ExMoves, ExGoes

\* The end of an attempt, and what shutdown adds to it.
LEMMA EndInv ==
    ASSUME Sound, NothingToDiscard \/ WrapUp \/ SeeMarker \/ RequeueAtShutdown
    PROVE  StoreInv'
<1> DEFINE i == ex.job
<1>1. /\ Up /\ ex.pc \in {"finally", "wrapup", "waitMarker", "requeue"}
      /\ UNCHANGED <<proc, upload, client, died, marker>>
  BY DEF NothingToDiscard, WrapUp, SeeMarker, RequeueAtShutdown, At, ExMoves, ExGoes, OnlyRow,
         store
<1>2. ex.pc \notin Idling /\ TypeOK /\ ex \in Executors
  BY <1>1 DEF Idling, Sound, TypeInv, TypeOK
<1>3. /\ i \in Jobs /\ upload[i] = "over" /\ JobFits(i) /\ job[i] \in Rows
      /\ Running \subseteq {i}
      /\ ex.pc \in {"finally", "wrapup"} => Ended(i) \/ Interrupted
  BY <1>1, <1>2 DEF Sound, StoreInv, ExecutorFits, TypeOK, StoreTypeOK
<1>4. ASSUME /\ ex'.job = i /\ ex'.pc # "idle" /\ PlaceFits'
             /\ Same(i) \/ AttemptEnds(i)
             /\ \A j \in Jobs : j # i => Same(j)
      PROVE  StoreInv'
  BY <1>1, <1>2, <1>4, AttemptKeepsInv DEF Sound
<1> USE DEF PlaceFits, Holding, AttemptFits, ResultOpened, ResultWritten, ResultSealed, Decoded
<1>5. CASE NothingToDiscard \/ SeeMarker
  <2>1. /\ UNCHANGED store /\ ex'.job = i /\ ex'.token = ex.token /\ ex'.error = ex.error
        /\ \/ ex.pc = "finally" /\ ex'.pc = "wrapup"
           \/ ex'.pc \in {"requeue", "gone"}
    BY <1>2, <1>5 DEF NothingToDiscard, SeeMarker, At, ExMoves, ExGoes, Executors
  <2> QED
    BY <1>1, <1>3, <1>4, <2>1, StoreSame DEF Ended, Interrupted, Held, Holds, store
<1>6. CASE WrapUp /\ ex' # ExecutorAt("idle")
  <2>1. UNCHANGED store /\ ex'.job = i /\ ex'.pc \in {"waitMarker", "dead"}
    BY <1>2, <1>6 DEF WrapUp, ExGoes, Executors
  <2>2. \A j \in Jobs : Same(j)
    BY <1>1, <2>1, StoreSame
  <2> QED
    BY <1>3, <1>4, <2>1, <2>2
<1>7. CASE WrapUp /\ ex' = ExecutorAt("idle")
  <2>1. ex'.pc = "idle" /\ UNCHANGED store
    BY <1>7 DEF WrapUp, ExecutorAt
  <2>2. \A j \in Jobs : Same(j)
    BY <1>1, <2>1, StoreSame
  <2>3. CASE Running = {}
    <3>1. ExecutorFits'
      BY <2>1, <2>2, <2>3 DEF ExecutorFits, Running, Same, Idling
    <3> QED
      BY <1>1, <1>2, <2>1, <2>2, <3>1, ExecutorKeepsInv DEF Sound, AttemptMoves, store
  <2>4. CASE Running # {}
    <3>1. Is(job[i], "running")
      BY <1>3, <2>4 DEF Running
    <3>2. ~Ended(i)
      BY <3>1 DEF Ended, Is, Terminal
    <3>3. proc.stopping \/ ex.error # "none"
      BY <1>3, <1>7, <3>2 DEF WrapUp, At, Interrupted
    <3>4. ex'.pc # "idle"
      BY <1>2, <1>7, <3>3 DEF WrapUp, ExGoes, Executors
    <3> QED
      BY <2>1, <3>4
  <2> QED
    BY <2>3, <2>4
<1>8. CASE RequeueAtShutdown
  <2>1. CASE MayRequeue(i, ex.token, proc.generation)
    <3>1. ex'.job = i /\ ex'.pc = "gone" /\ OnlyRow(i, Requeued(job[i])) /\ Is(job[i], "running")
      BY <1>2, <1>8, <2>1
         DEF RequeueAtShutdown, MayRequeue, Holds, ExMoves, ExGoes, Executors
    <3>2. /\ job'[i] = Requeued(job[i]) /\ KeepsFiles(i)
          /\ \A j \in Jobs : j # i => Same(j)
      BY <1>1, <1>2, <1>3, <3>1, RowWrite
    <3> QED
      BY <1>4, <3>1, <3>2 DEF AttemptEnds
  <2>2. CASE ~MayRequeue(i, ex.token, proc.generation)
    <3>1. UNCHANGED store /\ ex'.job = i /\ ex'.pc = "stopCancel"
      BY <1>2, <1>8, <2>2 DEF RequeueAtShutdown, ExMoves, ExGoes, Executors
    <3>2. \A j \in Jobs : Same(j)
      BY <1>1, <3>1, StoreSame
    <3> QED
      BY <1>3, <1>4, <3>1, <3>2
  <2> QED
    BY <2>1, <2>2
<1> QED
  BY <1>5, <1>6, <1>7, <1>8

\* A claim begins the only attempt.
LEMMA ClaimInv ==
    ASSUME Sound, NEW i \in Jobs, Claim(i)
    PROVE  StoreInv'
<1>1. /\ Up /\ ex.pc = "idle" /\ UNCHANGED <<proc, upload, client, died, marker>>
      /\ OnlyRow(i, Claimed(job[i], proc.generation)) /\ Is(job[i], "queued")
  BY DEF Claim, ClaimRow, At, ExGoes, OnlyRow
<1>2. TypeOK /\ ex \in Executors /\ proc.generation \in Nat /\ job[i] \in Rows
  BY DEF Sound, TypeInv, TypeOK, StoreTypeOK, Processes
<1>3. ex'.pc = "claimed" /\ ex'.job = i /\ ex'.token = job[i].attempt + 1
  BY <1>2 DEF Claim, ExGoes, Executors
<1>4. Running = {} /\ upload[i] = "over"
  BY <1>1 DEF Sound, StoreInv, ExecutorFits, JobFits, RowFits, Is
<1>5. /\ job'[i] = Claimed(job[i], proc.generation) /\ KeepsFiles(i)
      /\ \A j \in Jobs : j # i => Same(j)
  BY <1>1, <1>2, RowWrite
<1>6. \A j \in Jobs : AttemptMoves(j)
  BY <1>1, <1>5 DEF AttemptMoves, IsClaimed
<1>7. Running' \subseteq {i}
  BY <1>4, <1>5 DEF Running, Same
<1>8. Held'
  BY <1>1, <1>2, <1>3, <1>5, AttemptFields DEF Held, Holds, Is
<1>9. ExecutorFits'
  BY <1>1, <1>3, <1>4, <1>7, <1>8
     DEF ExecutorFits, AttemptFits, ResultOpened, ResultWritten, ResultSealed, Decoded, Idling
<1> QED
  BY <1>1, <1>6, <1>9, ExecutorKeepsInv DEF Sound

\* Every step of the executor.
LEMMA ExecutorInv ==
    ASSUME Sound, ExecutorStep
    PROVE  StoreInv'
<1>1. CASE Quit
  <2>1. /\ Up /\ UNCHANGED <<proc, upload, client, died, marker>> /\ UNCHANGED store
        /\ ex.pc = "idle" /\ ex' = [ex EXCEPT !.pc = "gone"]
    BY <1>1 DEF Quit, At, ExMoves, ExGoes, store
  <2>2. ex'.pc = "gone" /\ ex'.job = ex.job
    BY <2>1 DEF Sound, TypeInv, TypeOK, Executors
  <2>3. \A j \in Jobs : Same(j)
    BY <2>1, StoreSame
  <2>4. ExecutorFits'
    BY <2>1, <2>2
       DEF Sound, StoreInv, ExecutorFits, AttemptFits, Idling, Running, store, Holding,
           ResultOpened, ResultWritten, ResultSealed, Decoded
  <2> QED
    BY <2>1, <2>3, <2>4, ExecutorKeepsInv DEF Sound, AttemptMoves
<1>2. CASE \E j \in Jobs : Claim(j)
  BY <1>2, ClaimInv
<1>3. CASE AttemptStep
  BY <1>3, BeginInv, ProcessInv, ResultInv, DiscardInv, CommitInv, CancelInv, CleanupInv, EndInv
     DEF AttemptStep
<1> QED
  BY <1>1, <1>2, <1>3 DEF ExecutorStep

-----------------------------------------------------------------------------
(***************************************************************************)
(* The process.                                                            *)
(***************************************************************************)

\* The store and the threads while the process runs: a shutdown begins, and its
\* marker is committed.
LEMMA ShutdownInv ==
    ASSUME Sound, BeginShutdown \/ WriteMarker
    PROVE  StoreInv'
<1>1. /\ Serves /\ UNCHANGED <<job, lease, file, upload, client>>
      /\ ex' = ex \/ ex' = [ex EXCEPT !.cancelled = TRUE]
  BY DEF Sound, TypeInv, TypeOK, Processes, BeginShutdown, WriteMarker, Serves, Up, store
<1>2. \A j \in Jobs : OthersStep(j)
  BY <1>1 DEF OthersStep, Same, KeepsFiles
<1> QED
  BY <1>1, <1>2, OthersKeepInv DEF Sound

\* With no service there are no threads to fit.
LEMMA NotServing ==
    ASSUME ~Up', \A c \in Clients : client'[c].pc = "idle",
           \A j \in Jobs : JobFits(j)' /\ DiedFits(j)', ProcessFits'
    PROVE  StoreInv'
BY DEF StoreInv, ExecutorFits, ClientFits

\* Wherever the process ends, what it leaves fits, and the attempt it takes along
\* is counted, unless the marker says that the shutdown was graceful.
LEMMA EndingInv ==
    ASSUME Sound, Exit \/ Crash
    PROVE  StoreInv'
<1>1. ProcessEnds /\ proc.life \in {"booting", "unlinking", "sweeping", "up"}
  BY DEF Exit, Crash, Up
<1>2. /\ proc'.life = "down" /\ proc'.generation = proc.generation
      /\ proc.generation \in Nat \ {0} /\ ~Up'
      /\ UNCHANGED <<job, lease, file, marker>>
      /\ \A j \in Jobs : upload'[j] = IF upload[j] = "fresh" THEN "fresh" ELSE "over"
      /\ \A c \in Clients : client'[c].pc = "idle"
      /\ \A j \in Jobs : died'[j] = IF j \in Lost THEN died[j] + 1 ELSE died[j]
  BY <1>1 DEF Sound, TypeInv, TypeOK, Processes, ProcessEnds, IdleClient, Up, store
<1>3. ASSUME NEW j \in Jobs PROVE JobFits(j)'
  <2>1. JobFits(j)
    BY DEF Sound, StoreInv
  <2> QED
    BY <1>2, <2>1
       DEF JobFits, UploadFits, RowFits, Accounted, Unpublished, Active, Is, Terminal
<1>4. ASSUME NEW j \in Jobs PROVE DiedFits(j)'
  <2>1. DiedFits(j) /\ ProcessFits /\ job[j] \in Rows /\ JobFits(j)
    BY DEF Sound, StoreInv, TypeInv, TypeOK, StoreTypeOK
  <2>2. CASE ~Is(job[j], "running")
    <3>1. died'[j] = died[j] /\ job'[j] = job[j]
      BY <1>2, <2>2 DEF Lost
    <3>2. upload'[j] = "fresh" <=> upload[j] = "fresh"
      BY <1>2
    <3> QED
      BY <2>1, <2>2, <3>1, <3>2 DEF DiedFits, Unpublished, Is
  <2>3. CASE Is(job[j], "running")
    <3>1. /\ ~Unpublished(j) /\ upload[j] # "fresh" /\ job[j].error = "null"
          /\ ~Is(job[j], "queued")
      BY <2>1, <2>3, DecodedRow
         DEF Sound, TypeInv, TypeOK, JobFits, RowFits, Unpublished, Active, Is
    <3>2. /\ job'[j] = job[j] /\ ~Unpublished(j)' /\ upload'[j] # "fresh"
          /\ LossPending(j)' <=> ~(marker # 0 /\ job[j].owner = marker)
      BY <1>2, <3>1 DEF Unpublished, LossPending
    <3>3. CASE proc.life = "up"
      <4>1. /\ ~LossPending(j) /\ died[j] = job[j].crashes
            /\ job[j].owner = proc.generation /\ marker \in {0, proc.generation}
        BY <2>1, <2>3, <3>3 DEF DiedFits, ProcessFits, Up, Running, LossPending
      <4>2. j \in Lost <=> LossPending(j)'
        BY <1>2, <2>3, <3>2, <4>1 DEF Lost
      <4> QED
        BY <1>2, <2>3, <3>1, <3>2, <4>1, <4>2 DEF DiedFits
    <3>4. CASE proc.life = "booting"
      <4>1. job[j].owner < proc.generation
        BY <2>1, <2>3, <3>4 DEF ProcessFits, Running
      <4>2. j \notin Lost
        BY <1>2, <2>1, <4>1 DEF Lost, Rows
      <4>3. LossPending(j) <=> LossPending(j)'
        BY <3>2, <3>4 DEF LossPending
      <4> QED
        BY <1>2, <2>1, <2>3, <3>1, <3>2, <4>2, <4>3 DEF DiedFits
    <3>5. CASE proc.life \in {"unlinking", "sweeping"}
      BY <2>1, <2>3, <3>5 DEF ProcessFits, Running
    <3> QED
      BY <1>1, <3>3, <3>4, <3>5
  <2> QED
    BY <2>2, <2>3
<1>5. ProcessFits'
  <2>1. ProcessFits /\ \A j \in Jobs : job[j] \in Rows
    BY DEF Sound, StoreInv, TypeInv, TypeOK, StoreTypeOK
  <2>2. \A j \in Running : job[j].owner <= proc.generation
    BY <1>1, <1>2, <2>1 DEF ProcessFits, Up, Running, Rows
  <2> QED
    BY <1>2, <2>1, <2>2 DEF ProcessFits, Running, Up
<1> QED
  BY <1>2, <1>3, <1>4, <1>5, NotServing

\* The next process; the attempts it finds are of earlier ones.
LEMMA StartInv ==
    ASSUME Sound, Start
    PROVE  StoreInv'
<1>1. /\ proc.life = "down" /\ proc'.life = "booting"
      /\ proc'.generation = proc.generation + 1 /\ proc.generation \in Nat
      /\ UNCHANGED <<job, lease, file, marker, upload, client, died>> /\ ~Up /\ ~Up'
  BY DEF Sound, TypeInv, TypeOK, Processes, Start, Up, store
<1>2. ProcessFits /\ \A j \in Jobs : JobFits(j) /\ DiedFits(j) /\ job[j] \in Rows
  BY DEF Sound, StoreInv, TypeInv, TypeOK, StoreTypeOK
<1>3. \A j \in Jobs : JobFits(j)'
  BY <1>1, <1>2 DEF JobFits, UploadFits, RowFits, Accounted, Unpublished
<1>4. \A j \in Jobs : DiedFits(j)'
  BY <1>1, <1>2 DEF DiedFits, LossPending, Unpublished
<1>5. ProcessFits'
  BY <1>1, <1>2 DEF ProcessFits, Running, Up, Rows
<1>6. \A c \in Clients : client'[c].pc = "idle"
  BY <1>1, <1>2 DEF ProcessFits
<1> QED
  BY <1>1, <1>3, <1>4, <1>5, <1>6, NotServing

\* None of the checks that refuse the ledger fails.
LEMMA LedgerFits ==
    ASSUME Sound
    PROVE  LedgerAccepted
<1> SUFFICES ASSUME NEW j \in Jobs
             PROVE  IF job[j].phase = "none" THEN lease[j] = NoLeases
                    ELSE Decodes(job[j]) /\ InputReferenceValid(j) /\ ResultReferenceValid(j)
  BY DEF LedgerAccepted
<1>1. JobFits(j) /\ job[j] \in Rows /\ RowsDecode
  BY DEF Sound, StoreInv, TypeInv, TypeOK, StoreTypeOK
<1>2. CASE job[j].phase = "none"
  BY <1>1, <1>2 DEF JobFits, Accounted
<1>3. CASE job[j].phase # "none"
  <2>1. Decodes(job[j])
    BY <1>1, <1>3 DEF RowsDecode
  <2>2. Unpublished(j) \/ Active(job[j]) \/ Shown(job[j])
    BY <1>1, <1>3, DecodedRow DEF Sound, TypeInv, TypeOK, JobFits
  <2>3. InputReferenceValid(j)
    <3>1. CASE Unpublished(j)
      BY <1>1, <2>1, <3>1, DecodedRow
         DEF JobFits, RowFits, InputReferenceValid, RequiresInput, Unpublished, Active, Is,
             Decodes, ReceivingShape, QueuedShape, RunningShape, TerminalShape
    <3>2. CASE Active(job[j])
      BY <1>1, <3>2, DecodedRow
         DEF JobFits, RowFits, InputReferenceValid, RequiresInput, Active, Is
    <3>3. CASE Shown(job[j])
      <4>1. job[j].cleanup <=> job[j].input
        BY <2>1, <3>3 DEF Shown, Terminal, Decodes, TerminalShape, ReceivingShape
      <4> QED
        BY <1>1, <3>3, <4>1
           DEF JobFits, RowFits, InputReferenceValid, RequiresInput, Shown, Terminal, Active, Is
    <3> QED
      BY <2>2, <3>1, <3>2, <3>3
  <2>4. ResultReferenceValid(j)
    <3>1. job[j].status = "succeeded" => job[j].result
      BY <2>1
         DEF Decodes, ReceivingShape, QueuedShape, RunningShape, TerminalShape, SucceededShape
    <3> QED
      BY <1>1, <3>1 DEF JobFits, RowFits, ResultReferenceValid
  <2> QED
    BY <1>3, <2>1, <2>3, <2>4
<1> QED
  BY <1>2, <1>3

\* What the classification makes of a running row.
LEMMA ClassifiedFields ==
    ASSUME NEW j \in Jobs, job[j] \in Rows, Is(job[j], "running"), Decodes(job[j])
    PROVE  LET r == job[j]
               s == ClassifiedRunning(j)
           IN  /\ s.phase = "visible" /\ s.input /\ r.error = "null" /\ r.crashes \in 0..1
               /\ \/ s.status = "cancelled" /\ s.error = "null"
                  \/ s.status = "succeeded" /\ s.error = "null" /\ Recoverable(j)
                  \/ /\ s.status = "queued" /\ s.error = "null" /\ s.crashes = r.crashes
                     /\ marker # 0 /\ r.owner = marker
                  \/ /\ s.status = "queued" /\ s.error = "null" /\ s.crashes = 1
                     /\ r.crashes = 0 /\ ~(marker # 0 /\ r.owner = marker)
                  \/ /\ s.status = "failed" /\ s.error = "worker_crashed"
                     /\ r.crashes = 1 /\ ~(marker # 0 /\ r.owner = marker)
<1>1. job[j].phase = "visible" /\ job[j].input /\ job[j].error = "null" /\ job[j].crashes \in 0..1
  BY DEF Is, Decodes, RunningShape, ReceivingShape, QueuedShape, TerminalShape, Terminal, Rows
<1>2. CASE job[j].cancel
  BY <1>1, <1>2 DEF ClassifiedRunning, Cancelled, Rows
<1>3. CASE ~job[j].cancel /\ Recoverable(j)
  BY <1>1, <1>3 DEF ClassifiedRunning, Succeeded, Rows
<1>4. CASE ~job[j].cancel /\ ~Recoverable(j) /\ marker # 0 /\ job[j].owner = marker
  <2>1. ClassifiedRunning(j) = Requeued(job[j])
    BY <1>4 DEF ClassifiedRunning
  <2> QED
    BY <1>1, <1>4, <2>1 DEF Requeued, Rows
<1>5. CASE /\ ~job[j].cancel /\ ~Recoverable(j) /\ ~(marker # 0 /\ job[j].owner = marker)
           /\ job[j].crashes = 0
  <2>1. ClassifiedRunning(j) = [Requeued(job[j]) EXCEPT !.crashes = 1]
    BY <1>5 DEF ClassifiedRunning
  <2> QED
    BY <1>1, <1>5, <2>1 DEF Requeued, Rows
<1>6. CASE /\ ~job[j].cancel /\ ~Recoverable(j) /\ ~(marker # 0 /\ job[j].owner = marker)
           /\ job[j].crashes = 1
  <2>1. ClassifiedRunning(j) = Failed(job[j], "worker_crashed")
    BY <1>6 DEF ClassifiedRunning
  <2> QED
    BY <1>1, <1>6, <2>1 DEF Failed, Rows
<1> QED
  BY <1>1, <1>2, <1>3, <1>4, <1>5, <1>6

\* The ledger is accepted; running jobs end or wait, uploads left over are
\* doomed, and each loss is in the row of its job.
LEMMA ClassifyInv ==
    ASSUME Sound, Classify
    PROVE  StoreInv'
<1>1. /\ proc.life = "booting" /\ proc'.life = "unlinking" /\ ~Up /\ ~Up'
      /\ \A j \in Jobs : job'[j] = Classified(j)
      /\ marker' = 0 /\ UNCHANGED <<lease, file, upload, client, died>>
  BY LedgerFits DEF Sound, TypeInv, TypeOK, Processes, Classify, ClassifyRows, Boots, Up
<1>2. ProcessFits
  BY DEF Sound, StoreInv
<1>3. ASSUME NEW j \in Jobs
      PROVE  JobFits(j)' /\ DiedFits(j)' /\ ~Is(job'[j], "running") /\ job'[j].phase # "receiving"
  <2>1. JobFits(j) /\ DiedFits(j) /\ job[j] \in Rows /\ RowsDecode /\ TypeOK
    BY DEF Sound, StoreInv, TypeInv, TypeOK, StoreTypeOK
  <2>2. CASE Is(job[j], "running")
    <3>1. Decodes(job[j]) /\ job'[j] = ClassifiedRunning(j)
      BY <1>1, <2>1, <2>2 DEF Is, RowsDecode, Classified
    <3>2. upload[j] = "over" /\ ~Unpublished(j)
      BY <2>1, <2>2 DEF JobFits, RowFits, Is, Unpublished
    <3>3. /\ job'[j].phase = "visible" /\ job'[j].input
          /\ \/ job'[j].status \in {"queued", "failed", "cancelled"}
             \/ job'[j].status = "succeeded" /\ Recoverable(j)
      BY <2>1, <2>2, <3>1, ClassifiedFields
    <3>4. JobFits(j)'
      BY <1>1, <2>1, <2>2, <3>2, <3>3
         DEF JobFits, UploadFits, RowFits, Accounted, Unpublished, Active, Is, Terminal,
             Recoverable
    <3>5. DiedFits(j)'
      <4>1. died[j] = IF marker # 0 /\ job[j].owner = marker
                      THEN job[j].crashes ELSE job[j].crashes + 1
        BY <1>1, <2>1, <2>2 DEF DiedFits, LossPending
      <4>2. /\ job'[j].status # "running" /\ job'[j].phase = "visible" /\ upload'[j] = "over"
            /\ job'[j].status = "queued" => died[j] = job'[j].crashes
            /\ job'[j].error = "worker_crashed" => died[j] = 2
        BY <1>1, <2>1, <2>2, <3>1, <3>2, <4>1, ClassifiedFields
      <4> QED
        BY <1>1, <4>2 DEF DiedFits, Unpublished, Is
    <3> QED
      BY <3>3, <3>4, <3>5 DEF Is
  <2>3. CASE job[j].phase = "receiving"
    <3>1. job'[j] = Deleting(job[j]) /\ job[j].status = "null"
      BY <1>1, <2>1, <2>3, DecodedRow DEF Classified, Is, JobFits
    <3>2. /\ job'[j].phase = "deleting" /\ job'[j].status = "null"
          /\ job'[j].error = job[j].error
      BY <2>1, <3>1, RowFields
    <3> QED
      BY <1>1, <2>1, <2>3, <3>1, <3>2
         DEF JobFits, UploadFits, RowFits, Accounted, DiedFits, Unpublished, Active, Is, Terminal
  <2>4. CASE ~Is(job[j], "running") /\ job[j].phase # "receiving"
    <3>1. job'[j] = job[j]
      BY <1>1, <2>4 DEF Classified
    <3> QED
      BY <1>1, <2>1, <2>4, <3>1
         DEF JobFits, UploadFits, RowFits, Accounted, DiedFits, Unpublished
  <2> QED
    BY <2>2, <2>3, <2>4
<1>4. ProcessFits' /\ \A c \in Clients : client'[c].pc = "idle"
  BY <1>1, <1>2, <1>3 DEF ProcessFits, Running
<1> QED
  BY <1>1, <1>3, <1>4, NotServing

\* Startup unlinks only files no running or ended job still needs.
LEMMA UnlinkInv ==
    ASSUME Sound, UnlinkedAll \/ \E j \in Jobs, r \in Resources : UnlinkStray(j, r)
    PROVE  StoreInv'
<1>1. /\ proc.life = "unlinking" /\ proc'.life \in {"unlinking", "sweeping"} /\ ~Up /\ ~Up'
      /\ UNCHANGED <<job, lease, marker, upload, client, died>>
  BY DEF Sound, TypeInv, TypeOK, Processes, UnlinkedAll, UnlinkStray, OnlyFile, Boots, Up, store
<1>2. ProcessFits /\ TypeOK
  BY DEF Sound, StoreInv, TypeInv
<1>3. ASSUME NEW j \in Jobs, NEW r \in Resources
      PROVE  file'[j][r] = file[j][r] \/ (file'[j][r] = "none" /\ ~Protected(j, r))
  <2>1. CASE UnlinkedAll
    BY <2>1 DEF UnlinkedAll, store
  <2>2. ASSUME NEW i \in Jobs, NEW q \in Resources, UnlinkStray(i, q)
        PROVE  file'[j][r] = file[j][r] \/ (file'[j][r] = "none" /\ ~Protected(j, r))
    <3>1. SetFile(i, q, "none") /\ Stray(i, q)
      BY <2>2 DEF UnlinkStray, OnlyFile
    <3> QED
      BY <1>2, <3>1, FileEffect DEF Stray
  <2> QED
    BY <2>1, <2>2
<1>4. ASSUME NEW j \in Jobs PROVE JobFits(j)' /\ DiedFits(j)'
  <2>1. JobFits(j) /\ DiedFits(j)
    BY DEF Sound, StoreInv
  <2>2. Active(job[j]) => file'[j]["input"] = file[j]["input"]
    BY <1>3, ResourceNames DEF Protected
  <2>3. Is(job[j], "succeeded") => file'[j]["result"] = file[j]["result"]
    BY <1>3, ResourceNames DEF Protected
  <2>4. upload[j] \in {"fresh", "over"}
    BY <1>1, <2>1 DEF JobFits, UploadFits
  <2>5. Accounted(j)'
    BY <1>1, <1>3, <2>1 DEF JobFits, Accounted
  <2> QED
    BY <1>1, <2>1, <2>2, <2>3, <2>4, <2>5, ResourceNames
       DEF JobFits, UploadFits, RowFits, DiedFits, LossPending, Unpublished
<1>5. proc'.life = "sweeping" => \A j \in Jobs, r \in Resources : ~Stray(j, r)'
  BY <1>1 DEF Sound, TypeInv, TypeOK, Processes, UnlinkedAll, UnlinkStray, Boots, store, Stray,
              Protected
<1>6. ProcessFits'
  BY <1>1, <1>2, <1>5 DEF ProcessFits, Running, Up, Stray, Protected
<1>7. \A c \in Clients : client'[c].pc = "idle"
  BY <1>1, <1>2 DEF ProcessFits
<1> QED
  BY <1>1, <1>4, <1>6, <1>7, NotServing

\* Startup ends: what is not protected has no file, and loses its lease and row.
LEMMA SweepInv ==
    ASSUME Sound, SweepLedger
    PROVE  StoreInv'
<1>1. /\ proc.life = "sweeping" /\ Up' /\ proc'.generation = proc.generation
      /\ \A j \in Jobs : job'[j] = SweptRow(job[j])
      /\ \A j \in Jobs, r \in Resources :
            lease'[j][r] = IF Protected(j, r) THEN lease[j][r] ELSE "none"
      /\ \A j \in Jobs : lease'[j] = [r \in Resources |->
                                         IF Protected(j, r) THEN lease[j][r] ELSE "none"]
      /\ UNCHANGED <<file, marker, upload, client, died>>
      /\ ex'.pc = "idle" /\ ex' = ExecutorAt("idle")
  BY DEF Sound, TypeInv, TypeOK, Processes, SweepLedger, SweepRows, Boots, Up, ExecutorAt
<1>2. ProcessFits /\ TypeOK /\ ~Up
  BY <1>1 DEF Sound, StoreInv, TypeInv, Up
<1>3. ASSUME NEW j \in Jobs
      PROVE  JobFits(j)' /\ DiedFits(j)' /\ ~Is(job'[j], "running")
  <2>1. /\ JobFits(j) /\ DiedFits(j) /\ job[j] \in Rows /\ RowsDecode
        /\ upload[j] \in {"fresh", "over"}
    BY <1>2 DEF Sound, StoreInv, TypeInv, TypeOK, StoreTypeOK, JobFits, UploadFits
  <2>2. ~Is(job[j], "running") /\ job[j].phase # "receiving"
    BY <1>1, <1>2 DEF ProcessFits, Running
  <2>3. \A r \in Resources : file[j][r] # "none" => Protected(j, r)
    BY <1>1, <1>2 DEF ProcessFits, Stray
  <2>4. \A r \in Resources : file'[j][r] # "none" => lease'[j][r] # "none"
    BY <1>1, <2>1, <2>3 DEF JobFits, Accounted
  <2>5. CASE job[j].phase \in {"none", "deleting"}
    <3>1. job'[j] = NoRow
      BY <1>1, <2>1, <2>5 DEF SweptRow, JobFits, RowFits
    <3>2. lease'[j] = NoLeases
      BY <1>1, <2>5 DEF Protected, Active, Is, NoLeases
    <3> QED
      BY <1>1, <2>1, <2>4, <2>5, <3>1, <3>2, NewRowFields
         DEF JobFits, UploadFits, RowFits, Accounted, DiedFits, Unpublished, Active, Is, Terminal
  <2>6. CASE Is(job[j], "queued")
    <3>1. job'[j] = job[j] /\ upload[j] = "over"
      BY <1>1, <2>1, <2>6 DEF SweptRow, Is, Terminal, JobFits, RowFits
    <3>2. lease'[j]["input"] = lease[j]["input"] /\ ~Unpublished(j)'
      BY <1>1, <2>6, <3>1, ResourceNames DEF Protected, Active, Is, Unpublished
    <3> QED
      BY <1>1, <2>1, <2>4, <2>6, <3>1, <3>2
         DEF JobFits, UploadFits, RowFits, Accounted, DiedFits, Unpublished, Active, Is, Terminal
  <2>7. CASE job[j].phase = "visible" /\ job[j].status \in Terminal
    <3>1. job[j].cleanup <=> job[j].input
      BY <2>1, <2>7 DEF RowsDecode, Decodes, TerminalShape, Terminal
    <3>2. /\ job'[j].phase = "visible" /\ job'[j].status = job[j].status
          /\ job'[j].error = job[j].error /\ ~job'[j].input /\ upload[j] = "over"
      BY <1>1, <2>1, <2>7, <3>1, RowFields DEF SweptRow, JobFits, RowFits, Terminal
    <3>3. /\ lease'[j]["input"] = "none"
          /\ job[j].status = "succeeded" => lease'[j]["result"] = lease[j]["result"]
      BY <1>1, <2>7, ResourceNames DEF Protected, Active, Is, Terminal
    <3> QED
      BY <1>1, <2>1, <2>4, <2>7, <3>2, <3>3
         DEF JobFits, UploadFits, RowFits, Accounted, DiedFits, Unpublished, Active, Is, Terminal
  <2>8. Is(job[j], "queued") \/ job[j].phase \in {"none", "deleting"}
           \/ (job[j].phase = "visible" /\ job[j].status \in Terminal)
    BY <1>2, <2>1, <2>2, DecodedRow DEF JobFits, Unpublished, Active, Shown
  <2> QED
    BY <2>5, <2>6, <2>7, <2>8
<1>4. ProcessFits' /\ ExecutorFits'
  BY <1>1, <1>2, <1>3
     DEF ProcessFits, Running, Up, ExecutorFits, AttemptFits, Holding, ResultOpened,
         ResultWritten, ResultSealed, Decoded, Idling
<1>5. \A c \in Clients : ClientFits(c)'
  BY <1>1, <1>2 DEF ProcessFits, ClientFits
<1> QED
  BY <1>3, <1>4, <1>5 DEF StoreInv

\* No jobs, no files, and the executor looks for work.
LEMMA InitInv == Init => StoreInv
<1> SUFFICES ASSUME Init PROVE StoreInv
  OBVIOUS
<1>1. /\ Up /\ marker = 0 /\ ex.pc = "idle"
      /\ \A j \in Jobs : /\ job[j] = NoRow /\ lease[j] = NoLeases /\ upload[j] = "fresh"
                         /\ died[j] = 0 /\ \A r \in Resources : file[j][r] = "none"
      /\ \A c \in Clients : client[c].pc = "idle"
  BY DEF Init, StoreInit, Up, ExecutorAt, IdleClient, NoFiles
<1>2. \A j \in Jobs : JobFits(j) /\ DiedFits(j)
  BY <1>1, NewRowFields
     DEF JobFits, UploadFits, RowFits, Accounted, DiedFits, Unpublished, Active, Is, Terminal
<1>3. Running = {}
  BY <1>1, NewRowFields DEF Running, Is
<1> QED
  BY <1>1, <1>2, <1>3
     DEF StoreInv, ProcessFits, Up, ExecutorFits, AttemptFits, Holding, ResultOpened,
         ResultWritten, ResultSealed, Decoded, Idling, ClientFits

\* No step breaks it.
LEMMA NextInv == TypeInv /\ TypeInv' /\ RowsDecode /\ StoreInv /\ [Next]_vars => StoreInv'
<1> SUFFICES ASSUME TypeInv, TypeInv', RowsDecode, StoreInv, [Next]_vars PROVE StoreInv'
  OBVIOUS
<1>1. Sound
  BY DEF Sound, TypeInv
<1>2. CASE UNCHANGED vars
  BY <1>2
     DEF vars, store, StoreInv, JobFits, UploadFits, RowFits, Accounted, DiedFits, LossPending,
         Unpublished, ProcessFits, Up, Stray, Protected, Running, ExecutorFits, AttemptFits,
         Held, Holds, Interrupted, Ended, Deletable, ClientFits
<1>3. CASE \E j \in Jobs : BeginUpload(j) \/ UploadStep(j)
  BY <1>3, UploadInv DEF TypeInv
<1>4. CASE ExecutorStep
  BY <1>1, <1>4, ExecutorInv
<1>5. CASE \E c \in Callers, j \in Jobs : DeleteJob(c, j)
  BY <1>5, DeleteInv DEF TypeInv, Clients
<1>6. CASE \E j \in Jobs : SweepJob(j)
  BY <1>6, DeleteInv DEF TypeInv, Clients
<1>7. CASE \E c \in Clients : ClientStep(c)
  BY <1>7, ClientInv DEF TypeInv
<1>8. CASE BeginShutdown \/ ShutdownStep \/ Crash \/ BootStep
  BY <1>1, <1>8, ShutdownInv, EndingInv, StartInv, ClassifyInv, UnlinkInv, SweepInv
     DEF ShutdownStep, BootStep
<1> QED
  BY <1>2, <1>3, <1>4, <1>5, <1>6, <1>7, <1>8 DEF Next

-----------------------------------------------------------------------------
(***************************************************************************)
(* The theorems.  A DELETE of a job that is queued once more writes a row  *)
(* that cannot be decoded (RowsDecode's counterexample); they are about a  *)
(* service that meets none.                                                *)
(***************************************************************************)

\* The rows, leases and files, the upload requests, the executor, the clients
\* and the stage the process has reached always fit together.
THEOREM StoreInvariance ==
    ASSUME ~DeletesRequeued
    PROVE  Spec => []StoreInv
<1>1. Spec => [](TypeInv /\ RowsDecode)
  BY TypeInvariance, RowsAlwaysDecode, PTL
<1>2. Init => StoreInv
  BY InitInv
<1>3. TypeInv /\ TypeInv' /\ RowsDecode /\ StoreInv /\ [Next]_vars => StoreInv'
  BY NextInv
<1> QED
  BY <1>1, <1>2, <1>3, PTL DEF Spec

\* However a process ended, the startup of the next accepts what it left.
THEOREM StartupAlwaysAccepts ==
    ASSUME ~DeletesRequeued
    PROVE  Spec => []StartupAccepts
<1>1. StoreInv => StartupAccepts
  BY DEF StoreInv, ProcessFits, StartupAccepts
<1> QED
  BY <1>1, StoreInvariance, PTL

\* The input of a job that still has to run is there.
THEOREM InputAlwaysKept ==
    ASSUME ~DeletesRequeued
    PROVE  Spec => []InputKept
<1>1. StoreInv => InputKept
  BY DEF StoreInv, JobFits, RowFits, InputKept
<1> QED
  BY <1>1, StoreInvariance, PTL

\* The result of a job shown as succeeded is there.
THEOREM ResultAlwaysKept ==
    ASSUME ~DeletesRequeued
    PROVE  Spec => []ResultKept
<1>1. StoreInv => ResultKept
  BY DEF StoreInv, JobFits, RowFits, ResultKept, Is
<1> QED
  BY <1>1, StoreInvariance, PTL

\* No file is without a lease, no lease without a row.
THEOREM FilesAlwaysAccounted ==
    ASSUME ~DeletesRequeued
    PROVE  Spec => []FilesAccounted
<1>1. StoreInv => FilesAccounted
  BY DEF StoreInv, JobFits, Accounted, FilesAccounted, NoLeases
<1> QED
  BY <1>1, StoreInvariance, PTL

\* The row of a job counts exactly the attempts that were lost with no marker.
THEOREM CrashesCounted ==
    ASSUME ~DeletesRequeued
    PROVE  Spec => []CrashBudget
<1>1. StoreInv => CrashBudget
  BY DEF StoreInv, DiedFits, LossPending, CrashBudget, Up, Active
<1> QED
  BY <1>1, StoreInvariance, PTL

-----------------------------------------------------------------------------
(***************************************************************************)
(* The service implements JobLifecycle: what a step does to the view of    *)
(* one row (RowView), that it changes only one, and that the guards the    *)
(* life cycle puts on the whole table hold where it does.                  *)
(***************************************************************************)

\* What GET shows of a row.
RowView(r) ==
    [state |-> PublicState(r),
     done |-> IF r.phase = "visible" THEN r.processed ELSE 0,
     total |-> r.phase = "visible" /\ r.total]

\* A job enters the queue when there is room, and starts when no other runs.
TableGuards(r, s) ==
    /\ Is(s, "queued") /\ r.phase # "visible" => QueueHasRoom
    /\ Is(s, "running") /\ ~Is(r, "running") => Running = {}

\* The step sets one row, or none.
OneRow ==
    \/ job' = job
    \/ \E i \in Jobs : /\ \A j \in Jobs : j # i => job'[j] = job[j]
                       /\ TableGuards(job[i], job'[i])

\* A step that sets a row of which the guards hold.
LEMMA OneRowSet ==
    ASSUME TypeOK, NEW i, NEW row, SetRow(i, row), i \in Jobs => TableGuards(job[i], row)
    PROVE  OneRow
<1>1. CASE i \in Jobs
  BY <1>1, RowEffect DEF OneRow
<1>2. CASE i \notin Jobs
  BY <1>2 DEF OneRow, SetRow, TypeOK, StoreTypeOK
<1> QED
  BY <1>1, <1>2

\* Uploads publish when there is room.
LEMMA UploadOneRow ==
    ASSUME TypeOK, NEW j \in Jobs, BeginUpload(j) \/ UploadStep(j)
    PROVE  OneRow
<1>0. job[j] \in Rows
  BY DEF TypeOK, StoreTypeOK
<1>1. CASE BeginUpload(j) \/ FinishAbort(j)
  BY <1>1, OneRowSet, NewRowFields
     DEF BeginUpload, FinishAbort, InsertReceiving, DropUpload, TableGuards, Is
<1>2. CASE PublishJob(j)
  BY <1>0, <1>2, OneRowSet, RowFields DEF PublishJob, PublishRow, OnlyRow, TableGuards, Is
<1>3. CASE AbortUpload(j)
  BY <1>0, <1>3, OneRowSet, RowFields DEF AbortUpload, DoomUpload, OnlyRow, TableGuards, Is
<1>4. CASE OpenUpload(j) \/ RenameUpload(j) \/ SealUpload(j) \/ UnlinkUpload(j)
  BY <1>4
     DEF OpenUpload, RenameUpload, SealUpload, UnlinkUpload, OnlyFile, SealInput, OnlyLease,
         OneRow
<1> QED
  BY <1>1, <1>2, <1>3, <1>4 DEF UploadStep

\* The attempt starts no other.
LEMMA AttemptOneRow ==
    ASSUME TypeOK, AttemptStep
    PROVE  OneRow
<1> DEFINE i == ex.job
<1>1. ASSUME NEW row, SetRow(i, row),
             i \in Jobs => /\ row.phase = job[i].phase
                           /\ row.status = "running" => job[i].status = "running"
      PROVE  OneRow
  BY <1>1, OneRowSet DEF TableGuards, Is
<1>2. i \in Jobs => job[i] \in Rows
  BY DEF TypeOK, StoreTypeOK
<1>3. CASE \E n \in 0..Samples, eof \in BOOLEAN : Progress(n, eof)
  <2>1. PICK n \in 0..Samples, eof \in BOOLEAN : Progress(n, eof)
    BY <1>3
  <2>2. job' = job \/ SetRow(i, Progressed(job[i], n, eof))
    BY <2>1 DEF Progress, OnlyRow, SegmentAborted
  <2> QED
    BY <1>1, <1>2, <2>2, AttemptFields DEF OneRow
<1>4. CASE CommitSuccess \/ CommitFailure \/ CommitCancelled \/ CancelAtShutdown
             \/ CleanupInput \/ RequeueAtShutdown
  <2>1. \/ job' = job
        \/ \E row \in {Succeeded(job[i]), Failed(job[i], "runtime"), Cancelled(job[i]),
                       InputCleaned(job[i]), Requeued(job[i])} : SetRow(i, row)
    BY <1>4
       DEF CommitSuccess, CommitFailure, CommitCancelled, CancelAtShutdown, CommitCancellation,
           CleanupInput, CleanInput, RequeueAtShutdown, OnlyRow, store
  <2> QED
    BY <1>1, <1>2, <2>1, AttemptFields, EndFields, RowFields DEF OneRow
<1>5. CASE Register \/ ResolveInput \/ OpenSegment \/ OpenResult \/ RenameResult
             \/ SealResult \/ UnlinkSegment \/ DropSegment \/ LookBeforeSuccess
             \/ UnlinkResult \/ DropResult \/ CheckInput \/ UnlinkInput \/ NothingToDiscard
             \/ WrapUp \/ SeeMarker
  BY <1>5
     DEF Register, ResolveInput, OpenSegment, OpenResult, RenameResult, SealResult,
         UnlinkSegment, DropSegment, LookBeforeSuccess, UnlinkResult, DropResult, CheckInput,
         UnlinkInput, NothingToDiscard, WrapUp, SeeMarker, OnlyFile, OnlyLease, store, OneRow
<1>6. CASE BeginSegment \/ BeginResult \/ ProcessFails \/ ProcessCancelled \/ SealSegment
             \/ ResultNotAdmitted
  BY <1>6
     DEF BeginSegment, BeginResult, BeginArtifact, OnlyLease, ProcessFails,
         ProcessCancelled, SegmentAborted, SealSegment, ResultNotAdmitted, store, OneRow
<1> QED
  BY <1>3, <1>4, <1>5, <1>6 DEF AttemptStep

\* The executor starts a job when it runs none.
LEMMA ExecutorOneRow ==
    ASSUME TypeOK, StoreInv, ExecutorStep
    PROVE  OneRow
<1>1. CASE Quit
  BY <1>1 DEF Quit, store, OneRow
<1>2. CASE \E j \in Jobs : Claim(j)
  <2>1. PICK j \in Jobs : Claim(j)
    BY <1>2
  <2>2. Running = {}
    BY <2>1 DEF Claim, At, StoreInv, ExecutorFits
  <2>3. SetRow(j, Claimed(job[j], proc.generation)) /\ proc.generation \in Nat /\ job[j] \in Rows
    BY <2>1 DEF Claim, ClaimRow, OnlyRow, TypeOK, StoreTypeOK, Processes
  <2>4. Claimed(job[j], proc.generation).status = "running"
    BY <2>3, AttemptFields
  <2> QED
    BY <2>2, <2>3, <2>4, OneRowSet DEF TableGuards, Is
<1>3. CASE AttemptStep
  BY <1>3, AttemptOneRow
<1> QED
  BY <1>1, <1>2, <1>3 DEF ExecutorStep

\* Clients queue and start nothing.
LEMMA ClientOneRow ==
    ASSUME TypeOK, \/ \E c \in Callers, j \in Jobs : DeleteJob(c, j)
                   \/ \E j \in Jobs : SweepJob(j)
                   \/ \E c \in Clients : ClientStep(c)
    PROVE  OneRow
<1>1. ASSUME NEW j \in Jobs, (\E c \in Callers : DeleteJob(c, j)) \/ SweepJob(j)
      PROVE  OneRow
  <2>1. \/ job' = job
        \/ Is(job[j], "queued") /\ SetRow(j, CancelledWhileQueued(job[j]))
        \/ Is(job[j], "running") /\ SetRow(j, CancelRequested(job[j]))
        \/ SetRow(j, Deleting(job[j]))
    BY <1>1 DEF DeleteJob, SweepJob, OnlyRow, store
  <2>2. job[j] \in Rows
    BY DEF TypeOK, StoreTypeOK
  <2> QED
    BY <2>1, <2>2, OneRowSet, RowFields, EndFields DEF OneRow, TableGuards, Is
<1>2. ASSUME NEW c \in Clients, ClientStep(c)
      PROVE  OneRow
  <2> DEFINE j == client[c].job
  <2>1. job' = job \/ SetRow(j, InputCleaned(job[j])) \/ SetRow(j, NoRow)
    BY <1>2
       DEF ClientStep, Notify, CleanupCheck, CleanupUnlink, CleanupCommit, DeleteRead,
           DeleteUnlinkInput, DeleteUnlinkArtifacts, DeleteRemove, GiveUp, OnlyFile, CleanInput,
           RemoveJob, store
  <2>2. j \in Jobs => job[j] \in Rows
    BY DEF TypeOK, StoreTypeOK
  <2> QED
    BY <2>1, <2>2, OneRowSet, RowFields, NewRowFields DEF OneRow, TableGuards, Is
<1> QED
  BY <1>1, <1>2

\* What GET shows changes for one job, or none.
OneView ==
    \/ \A j \in Jobs : RowView(job'[j]) = RowView(job[j])
    \/ \E i \in Jobs : /\ \A j \in Jobs : j # i => RowView(job'[j]) = RowView(job[j])
                       /\ TableGuards(job[i], job'[i])

\* Startup ends or queues again the one job that was running; what else it does
\* is not seen.
LEMMA BootOneView ==
    ASSUME Sound, BootStep
    PROVE  OneView
<1>0. /\ \A j \in Jobs : job[j] \in Rows /\ JobFits(j) /\ (job[j].phase # "none" => Decodes(job[j]))
      /\ ProcessFits
  BY DEF Sound, TypeInv, TypeOK, StoreTypeOK, StoreInv, RowsDecode
<1>1. CASE Classify
  <2>1. \A j \in Jobs : job'[j] = Classified(j)
    BY <1>1, LedgerFits DEF Classify, ClassifyRows
  <2>2. ASSUME NEW j \in Jobs, ~Is(job[j], "running")
        PROVE  RowView(job'[j]) = RowView(job[j])
    <3>1. CASE job[j].phase = "receiving"
      <4>1. job'[j] = Deleting(job[j])
        BY <2>1, <2>2, <3>1 DEF Classified
      <4>2. job'[j].phase = "deleting"
        BY <1>0, <4>1, RowFields
      <4> QED
        BY <3>1, <4>2 DEF RowView, PublicState
    <3>2. CASE job[j].phase # "receiving"
      BY <2>1, <2>2, <3>2 DEF Classified
    <3> QED
      BY <3>1, <3>2
  <2>3. ASSUME NEW i \in Jobs, Is(job[i], "running")
        PROVE  TableGuards(job[i], job'[i])
    <3>1. Decodes(job[i]) /\ job'[i] = ClassifiedRunning(i)
      BY <1>0, <2>1, <2>3 DEF Is, Classified
    <3> QED
      BY <1>0, <2>3, <3>1, ClassifiedFields DEF TableGuards, Is
  <2>4. \A i, j \in Jobs : Is(job[i], "running") /\ Is(job[j], "running") => i = j
    BY <1>0 DEF ProcessFits, Running
  <2> QED
    BY <2>2, <2>3, <2>4 DEF OneView
<1>2. CASE SweepLedger
  <2> SUFFICES ASSUME NEW j \in Jobs PROVE RowView(SweptRow(job[j])) = RowView(job[j])
    BY <1>2 DEF SweepLedger, SweepRows, OneView
  <2>1. CASE job[j].phase = "deleting"
    BY <2>1 DEF SweptRow, RowView, PublicState, NoRow
  <2>2. CASE job[j].phase = "visible"
    <3>1. SweptRow(job[j]) = job[j] \/ (SweptRow(job[j]) = InputCleaned(job[j])
                                        /\ job[j].status \in Terminal)
      BY <2>2 DEF SweptRow
    <3> QED
      BY <1>0, <3>1 DEF InputCleaned, Rows, RowView, PublicState, Terminal
  <2>3. CASE job[j].phase \notin {"visible", "deleting"}
    BY <2>3 DEF SweptRow
  <2> QED
    BY <2>1, <2>2, <2>3
<1>3. CASE Start \/ UnlinkedAll \/ \E j \in Jobs, r \in Resources : UnlinkStray(j, r)
  BY <1>3 DEF Start, UnlinkedAll, UnlinkStray, OnlyFile, store, OneView
<1> QED
  BY <1>1, <1>2, <1>3 DEF BootStep

\* So does every other step.
LEMMA NextOneView ==
    ASSUME Sound, [Next]_vars
    PROVE  OneView
<1>0. TypeOK /\ StoreInv
  BY DEF Sound, TypeInv
<1>1. CASE BootStep
  BY <1>1, BootOneView
<1>2. CASE ~BootStep
  <2>1. ASSUME BeginShutdown \/ ShutdownStep \/ Crash \/ UNCHANGED vars
        PROVE  OneRow
    BY <2>1
       DEF BeginShutdown, ShutdownStep, WriteMarker, Exit, Crash, ProcessEnds, vars, store, OneRow
  <2>2. ASSUME NEW j \in Jobs, BeginUpload(j) \/ UploadStep(j)
        PROVE  OneRow
    BY <1>0, <2>2, UploadOneRow
  <2>3. ASSUME \/ \E c \in Callers, j \in Jobs : DeleteJob(c, j)
               \/ \E j \in Jobs : SweepJob(j)
               \/ \E c \in Clients : ClientStep(c)
        PROVE  OneRow
    BY <1>0, <2>3, ClientOneRow
  <2>4. OneRow
    BY <1>0, <1>2, <2>1, <2>2, <2>3, ExecutorOneRow DEF Next
  <2> QED
    BY <2>4 DEF OneRow, OneView
<1> QED
  BY <1>1, <1>2

\* What a step may make of the view of one job; it is the abstract step of that
\* job, without the guards about other jobs.
Keeps(v, w) == w.done = v.done /\ w.total = v.total

ViewStep(v, w) ==
    \/ w = v
    \/ v = Lifecycle!Absent /\ w.state = "queued" /\ Keeps(v, w)
    \/ v.state = "queued" /\ w.state \in {"running", "cancelled"} /\ Keeps(v, w)
    \/ /\ v.state = "running" /\ w.state = "running"
       /\ w.done \in v.done..Samples /\ (v.total => w.total)
    \/ v.state = "running" /\ w.state = "queued" /\ w.done = 0 /\ w.total = v.total
    \/ /\ v.state = "running" /\ v.done = Samples /\ v.total
       /\ w.state = "succeeded" /\ Keeps(v, w)
    \/ v.state = "running" /\ w.state \in {"failed", "cancelling"} /\ Keeps(v, w)
    \/ v.state = "cancelling" /\ w.state = "cancelled" /\ Keeps(v, w)
    \/ v.state \in Lifecycle!Ended /\ w = Lifecycle!Absent

\* All a view can be.
Views == [state : Statuses \cup {"absent", "cancelling"}, done : 0..Samples, total : BOOLEAN]

\* A row that is not visible shows nothing; a visible one its status.
LEMMA ViewFields ==
    ASSUME NEW r \in Rows
    PROVE  /\ RowView(r) \in Views
           /\ r.phase # "visible" => RowView(r) = Lifecycle!Absent
           /\ r.phase = "visible" =>
                 /\ RowView(r).done = r.processed /\ RowView(r).total = r.total
                 /\ RowView(r).state = IF r.status = "running" /\ r.cancel THEN "cancelling"
                                       ELSE r.status
<1>1. CASE r.phase # "visible"
  <2>1. RowView(r) = [state |-> "absent", done |-> 0, total |-> FALSE]
    BY <1>1 DEF RowView, PublicState
  <2>2. 0 \in 0..Samples
    BY SamplesAssumption
  <2>3. RowView(r) \in Views
    BY <2>1, <2>2 DEF Views
  <2> QED
    BY <1>1, <2>1, <2>3 DEF Lifecycle!Absent
<1>2. CASE r.phase = "visible"
  <2>1. /\ RowView(r) = [state |-> PublicState(r), done |-> r.processed, total |-> r.total]
        /\ r.processed \in 0..Samples /\ r.total \in BOOLEAN /\ r.status \in Statuses
    BY <1>2 DEF RowView, Rows
  <2>2. PublicState(r) = IF r.status = "running" /\ r.cancel THEN "cancelling" ELSE r.status
    BY <1>2 DEF PublicState
  <2> QED
    BY <1>2, <2>1, <2>2 DEF Views
<1> QED
  BY <1>1, <1>2

\* The updates of a running row, as far as they are seen.
LEMMA RunningFields ==
    ASSUME NEW r \in Rows, NEW s \in Rows, Is(r, "running"), RunningStep(r, s)
    PROVE  /\ s.phase = "visible"
           /\ \/ /\ s.status = "running" /\ s.cancel = r.cancel /\ (r.total => s.total)
                 /\ s.processed >= r.processed
              \/ /\ s.status = "succeeded" /\ r.total /\ r.processed = Samples
                 /\ s.total = r.total /\ s.processed = r.processed
              \/ s.status = "failed" /\ s.total = r.total /\ s.processed = r.processed
              \/ s.status = "queued" /\ s.total = r.total /\ s.processed = 0
<1>1. CASE \E n \in 0..Samples, eof \in BOOLEAN : n >= r.processed /\ s = Progressed(r, n, eof)
  <2>1. PICK n \in 0..Samples, eof \in BOOLEAN : n >= r.processed /\ s = Progressed(r, n, eof)
    BY <1>1
  <2>2. r.total => s.total
    BY <2>1 DEF Progressed, Rows
  <2> QED
    BY <2>1, <2>2, AttemptFields DEF Is
<1>2. CASE r.total /\ r.processed = Samples /\ s = Succeeded(r)
  BY <1>2 DEF Is, Succeeded, Rows
<1>3. CASE \E code \in {"runtime", "worker_crashed"} : s = Failed(r, code)
  BY <1>3 DEF Is, Failed, Rows
<1>4. CASE s = Requeued(r) \/ s = [Requeued(r) EXCEPT !.crashes = 1]
  BY <1>4 DEF Is, Requeued, Rows
<1> QED
  BY <1>1, <1>2, <1>3, <1>4 DEF RunningStep

\* A step of a row is such a step of its view.
LEMMA RowViewStep ==
    ASSUME NEW r \in Rows, NEW s \in Rows, RowStep(r, s), r.phase # "none" => Decodes(r)
    PROVE  ViewStep(RowView(r), RowView(s))
<1>0. /\ r.processed \in 0..Samples /\ r.total \in BOOLEAN /\ r.cancel \in BOOLEAN
      /\ s.processed \in 0..Samples /\ s.total \in BOOLEAN /\ s.cancel \in BOOLEAN
      /\ r.status \in Statuses /\ Samples \in Nat
  BY SamplesAssumption DEF Rows
<1>1. CASE r.phase # "visible"
  <2>1. \/ s = r \/ s = ReceivingRow \/ s = NoRow \/ s = Deleting(r)
        \/ r.phase = "receiving" /\ s = Published(r)
    BY <1>1 DEF RowStep, Is, Shown
  <2>2. s.phase # "visible" \/ (r.phase = "receiving" /\ s = Published(r))
    BY <1>1, <2>1, RowFields, NewRowFields
  <2>3. CASE s.phase # "visible"
    BY <1>1, <2>3, ViewFields DEF ViewStep
  <2>4. CASE r.phase = "receiving" /\ s = Published(r)
    <3>1. r.total = FALSE /\ r.processed = 0
      BY <1>0, <2>4 DEF Decodes, ReceivingShape, TerminalShape
    <3>2. s.phase = "visible" /\ s.status = "queued" /\ s.total = FALSE /\ s.processed = 0
      BY <2>4, <3>1 DEF Published, Rows
    <3>3. RowView(r) = Lifecycle!Absent
      BY <1>1, ViewFields
    <3>4. /\ RowView(s).state = "queued" /\ RowView(s).done = 0 /\ RowView(s).total = FALSE
      BY <3>2, ViewFields
    <3>5. RowView(r).done = 0 /\ RowView(r).total = FALSE
      BY <3>3 DEF Lifecycle!Absent
    <3>6. Keeps(RowView(r), RowView(s))
      BY <3>4, <3>5 DEF Keeps
    <3> QED
      BY <3>3, <3>4, <3>6 DEF ViewStep
  <2> QED
    BY <2>2, <2>3, <2>4
<1>2. CASE Is(r, "queued")
  <2>1. ~r.cancel
    BY <1>2 DEF Is, Decodes, QueuedShape, TerminalShape, Terminal
  <2>2. \/ s = r
        \/ \E g \in Nat \ {0} : s = Claimed(r, g)
        \/ s = CancelledWhileQueued(r)
    BY <1>2 DEF RowStep, Is, Shown, Terminal
  <2>3. CASE s # r
    <3>1. /\ s.phase = "visible" /\ s.status \in {"running", "cancelled"}
          /\ s.cancel = r.cancel /\ s.total = r.total /\ s.processed = r.processed
      BY <1>2, <2>2, <2>3 DEF Claimed, CancelledWhileQueued, Rows, Is
    <3> QED
      BY <1>2, <2>1, <3>1, ViewFields DEF ViewStep, Keeps, Is
  <2> QED
    BY <2>3 DEF ViewStep
<1>3. CASE Is(r, "running") /\ r.cancel
  <2>1. s = r \/ s = CancelRequested(r) \/ s = Cancelled(r)
    BY <1>3 DEF RowStep, Is, Shown, Terminal
  <2>2. CASE s = CancelRequested(r)
    <3>1. RowView(s) = RowView(r)
      BY <1>0, <1>3, <2>2 DEF CancelRequested, Rows, RowView, PublicState, Is
    <3> QED
      BY <3>1 DEF ViewStep
  <2>3. CASE s = Cancelled(r)
    <3>1. /\ s.phase = "visible" /\ s.status = "cancelled"
          /\ s.total = r.total /\ s.processed = r.processed
      BY <1>3, <2>3 DEF Cancelled, Rows, Is
    <3> QED
      BY <1>3, <3>1, ViewFields DEF ViewStep, Keeps, Is
  <2>4. CASE s = r
    BY <2>4 DEF ViewStep
  <2> QED
    BY <2>1, <2>2, <2>3, <2>4
<1>4. CASE Is(r, "running") /\ ~r.cancel
  <2>1. s = r \/ s = CancelRequested(r) \/ RunningStep(r, s)
    BY <1>4 DEF RowStep, Is, Shown, Terminal
  <2>2. CASE s = CancelRequested(r)
    <3>1. /\ s.phase = "visible" /\ s.status = "running" /\ s.cancel
          /\ s.total = r.total /\ s.processed = r.processed
      BY <1>4, <2>2 DEF CancelRequested, Rows, Is
    <3> QED
      BY <1>4, <3>1, ViewFields DEF ViewStep, Keeps, Is
  <2>3. CASE RunningStep(r, s)
    <3>1. s.processed >= r.processed => s.processed \in r.processed..Samples
      BY <1>0
    <3> QED
      BY <1>0, <1>4, <2>3, <3>1, RunningFields, ViewFields DEF ViewStep, Keeps, Is
  <2>4. CASE s = r
    BY <2>4 DEF ViewStep
  <2> QED
    BY <2>1, <2>2, <2>3, <2>4
<1>5. CASE r.phase = "visible" /\ r.status \in Terminal
  <2>1. s = r \/ s = Deleting(r) \/ s = InputCleaned(r)
    BY <1>5 DEF RowStep, Is, Terminal
  <2>2. CASE s = Deleting(r)
    <3>1. RowView(s) = Lifecycle!Absent /\ RowView(r).state \in Lifecycle!Ended
      BY <1>5, <2>2, ViewFields, RowFields DEF Lifecycle!Ended, Terminal
    <3> QED
      BY <3>1 DEF ViewStep
  <2>3. CASE s = InputCleaned(r) \/ s = r
    <3>1. RowView(s) = RowView(r)
      BY <2>3 DEF InputCleaned, Rows, RowView, PublicState
    <3> QED
      BY <3>1 DEF ViewStep
  <2> QED
    BY <2>1, <2>2, <2>3
<1>6. r.phase = "visible" => r.status # "null"
  BY DEF Decodes, TerminalShape
<1> QED
  BY <1>0, <1>1, <1>2, <1>3, <1>4, <1>5, <1>6 DEF Is, Terminal, Statuses

-----------------------------------------------------------------------------

\* The view of the table, job by job.
LEMMA TableView ==
    ASSUME TypeOK, TypeOK'
    PROVE  /\ PublicView \in [Jobs -> Views] /\ PublicView' \in [Jobs -> Views]
           /\ \A j \in Jobs : /\ PublicView[j] = RowView(job[j])
                              /\ PublicView'[j] = RowView(job'[j])
<1>1. \A j \in Jobs : job[j] \in Rows /\ job'[j] \in Rows
  BY DEF TypeOK, StoreTypeOK
<1>2. \A j \in Jobs : RowView(job[j]) \in Views /\ RowView(job'[j]) \in Views
  BY <1>1, ViewFields
<1>3. /\ PublicView = [j \in Jobs |-> RowView(job[j])]
      /\ PublicView' = [j \in Jobs |-> RowView(job'[j])]
  BY DEF PublicView, RowView
<1> QED
  BY <1>2, <1>3

\* A view that keeps the other fields is an update of the state.
LEMMA ViewUpdate ==
    ASSUME NEW v \in Views, NEW w \in Views
    PROVE  /\ Keeps(v, w) => \A x : w.state = x => w = [v EXCEPT !.state = x]
           /\ w.state = v.state => w = [v EXCEPT !.done = w.done, !.total = w.total]
           /\ \A x : w.state = x /\ w.done = 0 /\ w.total = v.total =>
                        w = [v EXCEPT !.state = x, !.done = 0]
BY DEF Views, Keeps

\* What the view tells about the row.
LEMMA ViewStates ==
    ASSUME NEW r \in Rows
    PROVE  /\ RowView(r).state = "queued" <=> Is(r, "queued")
           /\ RowView(r).state \in {"running", "cancelling"} <=> Is(r, "running")
           /\ RowView(r) = Lifecycle!Absent => r.phase # "visible"
<1>1. r.status \in Statuses
  BY DEF Rows
<1>2. Lifecycle!Absent.state = "absent"
  BY DEF Lifecycle!Absent
<1> QED
  BY <1>1, <1>2, ViewFields DEF Is, Statuses

\* The queue and the running job, seen from both sides.
LEMMA TableStates ==
    ASSUME TypeOK, TypeOK'
    PROVE  /\ Lifecycle!In("queued") = Queued
           /\ Lifecycle!In("running") \cup Lifecycle!In("cancelling") = Running
<1>1. \A j \in Jobs : PublicView[j] = RowView(job[j]) /\ job[j] \in Rows
  BY TableView DEF TypeOK, StoreTypeOK
<1> QED
  BY <1>1, ViewStates DEF Lifecycle!In, Queued, Running

\* Every step of the service is a step of the life cycle, or not seen.
LEMMA NextImplements ==
    ASSUME Sound, [Next]_vars
    PROVE  [Lifecycle!Next]_PublicView
<1> DEFINE V == PublicView
           W == PublicView'
<1>0. /\ TypeOK /\ TypeOK' /\ \A j \in Jobs : job[j] \in Rows /\ job'[j] \in Rows
  BY DEF Sound, TypeInv, TypeOK, StoreTypeOK
<1>1. /\ V \in [Jobs -> Views] /\ W \in [Jobs -> Views]
      /\ \A j \in Jobs : V[j] = RowView(job[j]) /\ W[j] = RowView(job'[j])
  BY <1>0, TableView
<1>2. \A j \in Jobs : ViewStep(V[j], W[j])
  <2> TAKE j \in Jobs
  <2>1. RowStep(job[j], job'[j]) /\ (job[j].phase # "none" => Decodes(job[j]))
    BY <1>0, NextRows DEF RowsStep, Sound, RowsDecode
  <2> QED
    BY <1>0, <1>1, <2>1, RowViewStep
<1> SUFFICES ASSUME W # V PROVE Lifecycle!Next
  OBVIOUS
<1>3. PICK i \in Jobs : (\A j \in Jobs : j # i => W[j] = V[j]) /\ TableGuards(job[i], job'[i])
  <2>1. OneView
    BY NextOneView
  <2>2. CASE \A j \in Jobs : RowView(job'[j]) = RowView(job[j])
    BY <1>1, <2>2
  <2> QED
    BY <1>1, <2>1, <2>2 DEF OneView
<1> DEFINE v == V[i]
           w == W[i]
<1>4. ViewStep(v, w) /\ v \in Views /\ w \in Views /\ w # v
  BY <1>1, <1>2, <1>3
<1>5. /\ w.state = "queued" /\ v = Lifecycle!Absent => QueueHasRoom
      /\ w.state = "running" /\ v.state = "queued" => Running = {}
  <2>1. v.state = "queued" => ~Is(job[i], "running")
    BY <1>0, <1>1, ViewStates DEF Is
  <2> QED
    BY <1>0, <1>1, <1>3, <2>1, ViewStates DEF TableGuards
<1>6. /\ Lifecycle!In("queued") = Queued
      /\ Lifecycle!In("running") \cup Lifecycle!In("cancelling") = Running
  BY <1>0, TableStates
<1>7. SUFFICES \/ Lifecycle!Publish(i) \/ Lifecycle!Begin(i) \/ Lifecycle!Report(i)
               \/ Lifecycle!Interrupt(i) \/ Lifecycle!Succeed(i) \/ Lifecycle!Fail(i)
               \/ Lifecycle!CancelQueued(i) \/ Lifecycle!RequestCancel(i)
               \/ Lifecycle!Cancel(i) \/ Lifecycle!Remove(i)
  BY DEF Lifecycle!Next
<1>8. ASSUME NEW x, Keeps(v, w), w.state = x
      PROVE  Lifecycle!Becomes(i, x)
  <2>1. w = [v EXCEPT !.state = x]
    BY <1>4, <1>8, ViewUpdate
  <2>2. W = [V EXCEPT ![i].state = x]
    BY <1>1, <1>3, <2>1
  <2> QED
    BY <2>2 DEF Lifecycle!Becomes
<1>9. CASE v = Lifecycle!Absent /\ w.state = "queued" /\ Keeps(v, w)
  <2>1. Cardinality(Lifecycle!In("queued")) < MaxQueued
    BY <1>5, <1>6, <1>9, Zenon DEF QueueHasRoom
  <2>2. Lifecycle!Becomes(i, "queued") /\ V[i] = Lifecycle!Absent
    BY <1>8, <1>9
  <2>3. Lifecycle!Cardinality(Lifecycle!In("queued")) = Cardinality(Lifecycle!In("queued"))
    BY DEF Lifecycle!Cardinality, Cardinality
  <2> QED
    BY <2>1, <2>2, <2>3 DEF Lifecycle!Publish
<1>10. CASE v.state = "queued" /\ w.state \in {"running", "cancelled"} /\ Keeps(v, w)
  BY <1>5, <1>6, <1>8, <1>10 DEF Lifecycle!Begin, Lifecycle!CancelQueued
<1>11. CASE /\ v.state = "running" /\ w.state = "running"
            /\ w.done \in v.done..Samples /\ (v.total => w.total)
  <2>0. w.total \in BOOLEAN
    BY <1>4 DEF Views
  <2>a. w.state = v.state
    BY <1>11
  <2>1. w = [v EXCEPT !.done = w.done, !.total = w.total]
    BY <1>4, <2>a, ViewUpdate
  <2>2. W = [V EXCEPT ![i].done = w.done, ![i].total = w.total]
    BY <1>1, <1>3, <2>1
  <2> QED
    BY <1>11, <2>0, <2>2 DEF Lifecycle!Report
<1>12. CASE v.state = "running" /\ w.state = "queued" /\ w.done = 0 /\ w.total = v.total
  <2>1. w = [v EXCEPT !.state = "queued", !.done = 0]
    BY <1>4, <1>12, ViewUpdate
  <2>2. W = [V EXCEPT ![i].state = "queued", ![i].done = 0]
    BY <1>1, <1>3, <2>1
  <2> QED
    BY <1>12, <2>2 DEF Lifecycle!Interrupt
<1>13. CASE /\ v.state = "running" /\ v.done = Samples /\ v.total
            /\ w.state = "succeeded" /\ Keeps(v, w)
  <2>1. v = [state |-> "running", done |-> Samples, total |-> TRUE]
    BY <1>4, <1>13 DEF Views
  <2> QED
    BY <1>8, <1>13, <2>1 DEF Lifecycle!Succeed
<1>14. CASE v.state = "running" /\ w.state \in {"failed", "cancelling"} /\ Keeps(v, w)
  BY <1>8, <1>14 DEF Lifecycle!Fail, Lifecycle!RequestCancel
<1>15. CASE v.state = "cancelling" /\ w.state = "cancelled" /\ Keeps(v, w)
  BY <1>8, <1>15 DEF Lifecycle!Cancel
<1>16. CASE v.state \in Lifecycle!Ended /\ w = Lifecycle!Absent
  <2>1. W = [V EXCEPT ![i] = Lifecycle!Absent]
    BY <1>1, <1>3, <1>16
  <2> QED
    BY <1>16, <2>1 DEF Lifecycle!Remove
<1> QED
  BY <1>4, <1>9, <1>10, <1>11, <1>12, <1>13, <1>14, <1>15, <1>16 DEF ViewStep

\* Through every crash, restart, race and retry a client sees the documented
\* life cycle.
THEOREM ServiceImplementsLifecycle ==
    ASSUME ~DeletesRequeued
    PROVE  Spec => LifecycleSpec
<1>1. Spec => [](TypeInv /\ RowsDecode /\ StoreInv)
  BY TypeInvariance, RowsAlwaysDecode, StoreInvariance, PTL
<1>2. Init => Lifecycle!Init
  <2> SUFFICES ASSUME Init PROVE Lifecycle!Init
    OBVIOUS
  <2>1. \A j \in Jobs : job[j] = NoRow
    BY DEF Init, StoreInit
  <2>2. /\ PublicView = [j \in Jobs |-> RowView(job[j])]
        /\ RowView(NoRow) = Lifecycle!Absent
    BY NewRowFields DEF PublicView, RowView, PublicState, Lifecycle!Absent
  <2> QED
    BY <2>1, <2>2 DEF Lifecycle!Init
<1>3. /\ TypeInv /\ RowsDecode /\ StoreInv /\ (TypeInv /\ RowsDecode /\ StoreInv)'
      /\ [Next]_vars
      => [Lifecycle!Next]_PublicView
  <2> SUFFICES ASSUME TypeInv, RowsDecode, StoreInv, TypeInv', [Next]_vars
               PROVE  [Lifecycle!Next]_PublicView
    OBVIOUS
  <2>1. Sound
    BY DEF Sound, TypeInv
  <2> QED
    BY <2>1, NextImplements
<1> QED
  BY <1>1, <1>2, <1>3, PTL DEF Spec, LifecycleSpec, Lifecycle!Spec
=============================================================================
