----------------------------- MODULE JobService -----------------------------
(***************************************************************************)
(* The asynchronous job service: uploads that publish jobs, the single job *)
(* executor that runs attempts, the threads that serve DELETE and the      *)
(* retention sweep, graceful shutdown with its marker, crashes, and the    *)
(* staged startup that reconciles the ledger with the files.               *)
(*                                                                         *)
(* A step is one transaction, one file operation, or one critical section  *)
(* of JobExecutor._lock; whatever is not in one step can interleave.       *)
(***************************************************************************)
EXTENDS JobStore

CONSTANTS
    Callers,          \* threads serving DELETE and its background task
    Sweeper,          \* the retention sweep
    NoJob,
    MaxGenerations,   \* bound: processes started; the last one keeps running
    DeletesRequeued   \* may a DELETE meet a job that is queued once more?

ASSUME ServiceAssumption ==
    /\ NoJob \notin Jobs
    /\ Sweeper \notin Callers
    /\ MaxGenerations \in Nat \ {0}
    /\ DeletesRequeued \in BOOLEAN

VARIABLES
    proc,      \* the process: its life phase, generation, shutdown flags
    ex,        \* the executor thread
    upload,    \* per job: its upload request
    client,    \* per client: what it is doing
    died       \* history: attempts of the job lost with no shutdown marker

Clients == Callers \cup {Sweeper}

vars == <<store, proc, ex, upload, client, died>>

Lives == {"down", "booting", "unlinking", "sweeping", "up", "refused"}
MarkerThreads == {"none", "writing", "written", "skipped"}
Processes == [life : Lives, generation : Nat \ {0}, stopping : BOOLEAN, markerThread : MarkerThreads]

ExecutorPlaces ==
    {"off", "idle", "claimed", "resolve", "segment", "segmentOpen", "process", "seal",
     "result", "resultOpen", "envelope", "resultSeal", "discard", "discardRow",
     "commit", "succeed", "dropResult", "dropResultRow", "fail", "cancel",
     "check", "unlink", "clean", "finally", "finallyRow", "wrapup",
     "waitMarker", "requeue", "stopCancel", "gone", "dead"}

\* segment: the segment writer is open or sealed and not yet discarded.
\* cancelled: the attempt's Cancellation is set.  status: the terminal status
\* whose input cleanup runs, then: where the executor goes after it.
Executors == [pc : ExecutorPlaces, job : Jobs \cup {NoJob}, token : Nat,
              segment : {"none", "open", "sealed"}, cancelled : BOOLEAN,
              error : {"none", "cancelled", "fatal"},
              status : Terminal \cup {"null"}, then : {"finally", "gone"}]

ExecutorAt(pc) ==
    [pc |-> pc, job |-> NoJob, token |-> 0, segment |-> "none", cancelled |-> FALSE,
     error |-> "none", status |-> "null", then |-> "finally"]

Uploads == {"fresh", "open", "writing", "renamed", "sealed", "aborting", "unlinked", "over"}

ClientPlaces ==
    {"idle", "notify", "check", "unlink", "clean", "cleanupFailed",
     "read", "unlinkInput", "unlinkArtifacts", "remove", "deleteFailed"}
ClientStates == [pc : ClientPlaces, job : Jobs \cup {NoJob}, seen : Leases]
IdleClient == [pc |-> "idle", job |-> NoJob, seen |-> NoLeases]

TypeOK ==
    /\ StoreTypeOK
    /\ proc \in Processes
    /\ ex \in Executors
    /\ upload \in [Jobs -> Uploads]
    /\ client \in [Clients -> ClientStates]
    /\ died \in [Jobs -> Nat]

Init ==
    /\ StoreInit
    /\ proc = [life |-> "up", generation |-> 1, stopping |-> FALSE, markerThread |-> "none"]
    /\ ex = ExecutorAt("idle")
    /\ upload = [j \in Jobs |-> "fresh"]
    /\ client = [c \in Clients |-> IdleClient]
    /\ died = [j \in Jobs |-> 0]

Up == proc.life = "up"

-----------------------------------------------------------------------------
(***************************************************************************)
(* An upload request: receive, seal, publish; or abort.                    *)
(***************************************************************************)

UploadGoes(j, to) ==
    upload' = [upload EXCEPT ![j] = to] /\ UNCHANGED <<proc, ex, client, died>>

BeginUpload(j) ==
    /\ Up /\ upload[j] = "fresh"
    /\ InsertReceiving(j) /\ UploadGoes(j, "open")

OpenUpload(j) ==
    /\ Up /\ upload[j] = "open"
    /\ OnlyFile(j, "input", "partial") /\ UploadGoes(j, "writing")

RenameUpload(j) ==
    /\ Up /\ upload[j] = "writing"
    /\ OnlyFile(j, "input", "complete") /\ UploadGoes(j, "renamed")

SealUpload(j) ==
    /\ Up /\ upload[j] = "renamed"
    /\ SealInput(j) /\ UploadGoes(j, "sealed")

PublishJob(j) ==
    /\ Up /\ upload[j] = "sealed"
    /\ PublishRow(j) /\ UploadGoes(j, "over")

\* Disconnect, oversized body, failed preflight, or a full queue.
AbortUpload(j) ==
    /\ Up /\ upload[j] \in {"writing", "sealed"}
    /\ DoomUpload(j) /\ UploadGoes(j, "aborting")

UnlinkUpload(j) ==
    /\ Up /\ upload[j] = "aborting"
    /\ OnlyFile(j, "input", "none") /\ UploadGoes(j, "unlinked")

FinishAbort(j) ==
    /\ Up /\ upload[j] = "unlinked"
    /\ DropUpload(j) /\ UploadGoes(j, "over")

UploadStep(j) ==
    \/ OpenUpload(j) \/ RenameUpload(j) \/ SealUpload(j) \/ PublishJob(j)
    \/ AbortUpload(j) \/ UnlinkUpload(j) \/ FinishAbort(j)

-----------------------------------------------------------------------------
(***************************************************************************)
(* The executor: JobExecutor._run around execute_claimed_job_attempt.      *)
(***************************************************************************)

ExGoes(next) == ex' = next /\ UNCHANGED <<proc, upload, client, died>>
ExMoves(pc) == ExGoes([ex EXCEPT !.pc = pc])
At(pc) == Up /\ ex.pc = pc

Quit ==
    /\ At("idle") /\ proc.stopping
    /\ ExMoves("gone") /\ UNCHANGED store

\* The look at _stopping and the claim are two steps in the code: a claim may
\* still follow begin_shutdown until the marker is committed.
Claim(j) ==
    /\ At("idle")
    /\ ClaimRow(j, proc.generation)
    /\ ExGoes([ex EXCEPT !.pc = "claimed", !.job = j, !.token = job[j].attempt + 1])

\* The attempt becomes the active one, or is not run when shutdown has begun.
Register ==
    /\ At("claimed")
    /\ ExGoes([ex EXCEPT !.cancelled = proc.stopping,
                         !.pc = IF proc.stopping THEN "wrapup" ELSE "resolve"])
    /\ UNCHANGED store

\* What a fenced storage call answers an attempt that may not go on.
Fenced(next) ==
    IF ~Holds(ex.job, ex.token) THEN "finally"
    ELSE IF job[ex.job].cancel THEN "cancel"
    ELSE next

Broken(e) == [e EXCEPT !.error = "fatal", !.pc = "finally"]

ResolveInput ==
    /\ At("resolve")
    /\ ExGoes(IF Fenced("segment") = "segment" /\ ~InputResolves(ex.job)
              THEN Broken(ex) ELSE [ex EXCEPT !.pc = Fenced("segment")])
    /\ UNCHANGED store

\* _begin_job_artifact: at most one artifact of a kind per job.
BeginArtifact(r, at, next) ==
    LET pc == Fenced(next)
        begins == pc = next /\ lease[ex.job][r] = "none"
    IN  /\ At(at)
        /\ ExGoes(IF begins THEN [ex EXCEPT !.pc = next]
                  ELSE IF pc = next THEN Broken(ex) ELSE [ex EXCEPT !.pc = pc])
        /\ IF begins THEN OnlyLease(ex.job, r, "writing") ELSE UNCHANGED store

BeginSegment == BeginArtifact("segment", "segment", "segmentOpen")

OpenSegment ==
    /\ At("segmentOpen")
    /\ OnlyFile(ex.job, "segment", "partial")
    /\ ExGoes([ex EXCEPT !.pc = "process", !.segment = "open"])

\* Fault: the reservation is given back, the file is not.
SegmentForgotten == OnlyLease(ex.job, "segment", "none")

\* A progress report, the one at the decoder's end last (eof); the processor's
\* finally aborts the open segment before a refused report propagates.
SegmentAborted ==
    /\ SetLease(ex.job, "segment", "none") /\ SetFile(ex.job, "segment", "none")
    /\ UNCHANGED <<job, marker>>

Progress(samples, eof) ==
    LET next == IF eof THEN "seal" ELSE "process"
        pc == Fenced(next)
    IN  /\ At("process")
        /\ samples >= job[ex.job].processed /\ (eof => samples = Samples)
        /\ IF pc = next
           THEN /\ OnlyRow(ex.job, Progressed(job[ex.job], samples, eof))
                /\ ExMoves(pc)
           ELSE /\ SegmentAborted
                /\ ExGoes([ex EXCEPT !.pc = pc, !.segment = "none", !.cancelled = TRUE])

\* A PipelineError or AudioError other than "cancelled", or an unexpected one.
ProcessFails ==
    /\ At("process") /\ SegmentAborted
    /\ ExGoes([ex EXCEPT !.pc = "fail", !.segment = "none"])

\* The pipeline notices the Cancellation: PipelineError("cancelled").
ProcessCancelled ==
    /\ At("process") /\ ex.cancelled /\ SegmentAborted
    /\ ExGoes([ex EXCEPT !.pc = "cancel", !.segment = "none", !.error = "cancelled"])

SealSegment ==
    /\ At("seal")
    /\ SetLease(ex.job, "segment", "sealed") /\ SetFile(ex.job, "segment", "complete")
    /\ ExGoes([ex EXCEPT !.pc = "result", !.segment = "sealed"])
    /\ UNCHANGED <<job, marker>>

BeginResult == BeginArtifact("result", "result", "resultOpen")

OpenResult ==
    /\ At("resultOpen")
    /\ OnlyFile(ex.job, "result", "partial") /\ ExMoves("envelope")

\* StorageAdmissionError: no room to begin or to grow the result, which is
\* aborted.
ResultNotAdmitted ==
    /\ Up /\ ex.pc \in {"result", "envelope"}
    /\ Fenced("result") = "result" \/ ex.pc = "envelope"
    /\ SetLease(ex.job, "result", "none") /\ SetFile(ex.job, "result", "none")
    /\ ExMoves("fail") /\ UNCHANGED <<job, marker>>

RenameResult ==
    /\ At("envelope")
    /\ OnlyFile(ex.job, "result", "complete") /\ ExMoves("resultSeal")

SealResult ==
    /\ At("resultSeal")
    /\ OnlyLease(ex.job, "result", "sealed") /\ ExMoves("discard")

\* release_artifact of the sealed segment: unlink, then forget the lease; once
\* before the success commit, otherwise in the attempt's finally.
UnlinkSegment ==
    /\ Up /\ ex.pc \in {"discard", "finally"} /\ ex.segment = "sealed"
    /\ OnlyFile(ex.job, "segment", "none")
    /\ ExMoves(IF ex.pc = "discard" THEN "discardRow" ELSE "finallyRow")

DropSegment ==
    /\ Up /\ ex.pc \in {"discardRow", "finallyRow"}
    /\ OnlyLease(ex.job, "segment", "none")
    /\ ExGoes([ex EXCEPT !.segment = "none",
                         !.pc = IF ex.pc = "discardRow" THEN "commit" ELSE "wrapup"])

\* commit_job_success looks first, and decides in a later transaction.
LookBeforeSuccess ==
    /\ At("commit")
    /\ ExMoves(IF MaySucceed(ex.job, ex.token) THEN "succeed" ELSE "dropResult")
    /\ UNCHANGED store

CommitSuccess ==
    /\ At("succeed")
    /\ IF MaySucceed(ex.job, ex.token)
       THEN /\ OnlyRow(ex.job, Succeeded(job[ex.job]))
            /\ ExGoes([ex EXCEPT !.pc = "check", !.status = "succeeded"])
       ELSE ExMoves("dropResult") /\ UNCHANGED store

UnlinkResult ==
    /\ At("dropResult")
    /\ OnlyFile(ex.job, "result", "none") /\ ExMoves("dropResultRow")

DropResult ==
    /\ At("dropResultRow")
    /\ OnlyLease(ex.job, "result", "none")
    /\ ExMoves(Fenced("finally"))

\* commit_job_failure, which yields to a cancellation.
CommitFailure ==
    /\ At("fail")
    /\ IF Fenced("fail") = "fail"
       THEN /\ OnlyRow(ex.job, Failed(job[ex.job], "runtime"))
            /\ ExGoes([ex EXCEPT !.pc = "check", !.status = "failed"])
       ELSE ExMoves(Fenced("fail")) /\ UNCHANGED store

\* commit_job_cancellation.  STALE (nobody asked for it: the shutdown's
\* cancellation) leaves the PipelineError to propagate.
CommitCancellation(at, stale, then) ==
    /\ At(at)
    /\ IF Holds(ex.job, ex.token) /\ job[ex.job].cancel
       THEN /\ OnlyRow(ex.job, Cancelled(job[ex.job]))
            /\ ExGoes([ex EXCEPT !.pc = "check", !.status = "cancelled",
                                 !.error = "none", !.then = then])
       ELSE /\ ExGoes([ex EXCEPT
                !.pc = IF job[ex.job].status \in {"null", "cancelled"} THEN "check" ELSE stale,
                !.status = "cancelled", !.then = then])
            /\ UNCHANGED store

CommitCancelled == CommitCancellation("cancel", "finally", "finally")

CheckInput ==
    /\ At("check")
    /\ ExGoes(IF CleanupMoot(ex.job, ex.status) THEN [ex EXCEPT !.pc = ex.then]
              ELSE IF CleanupDue(ex.job, ex.status) THEN [ex EXCEPT !.pc = "unlink"]
              ELSE Broken(ex))
    /\ UNCHANGED store

UnlinkInput ==
    /\ At("unlink")
    /\ OnlyFile(ex.job, "input", "none") /\ ExMoves("clean")

CleanupInput ==
    /\ At("clean")
    /\ IF CleanupMoot(ex.job, ex.status) THEN ExMoves(ex.then) /\ UNCHANGED store
       ELSE IF CleanupCommits(ex.job, ex.status) THEN ExMoves(ex.then) /\ CleanInput(ex.job)
       ELSE ExGoes(Broken(ex)) /\ UNCHANGED store

NothingToDiscard ==
    /\ At("finally") /\ ex.segment = "none"
    /\ ExMoves("wrapup") /\ UNCHANGED store

\* The attempt is over; a failure that shutdown did not cause stops the executor.
WrapUp ==
    /\ At("wrapup")
    /\ ExGoes(IF proc.stopping THEN [ex EXCEPT !.pc = "waitMarker"]
              ELSE IF ex.error # "none" THEN [ex EXCEPT !.pc = "dead"]
              ELSE ExecutorAt("idle"))
    /\ UNCHANGED store

SeeMarker ==
    /\ At("waitMarker") /\ proc.markerThread \in {"written", "skipped"}
    /\ ExMoves(IF proc.markerThread = "written" THEN "requeue" ELSE "gone")
    /\ UNCHANGED store

RequeueAtShutdown ==
    /\ At("requeue")
    /\ IF MayRequeue(ex.job, ex.token, proc.generation)
       THEN OnlyRow(ex.job, Requeued(job[ex.job])) /\ ExMoves("gone")
       ELSE ExMoves("stopCancel") /\ UNCHANGED store

CancelAtShutdown == CommitCancellation("stopCancel", "gone", "gone")

AttemptStep ==
    \/ Register \/ ResolveInput \/ BeginSegment \/ OpenSegment
    \/ \E n \in 0..Samples, eof \in BOOLEAN : Progress(n, eof)
    \/ ProcessFails \/ ProcessCancelled \/ SealSegment
    \/ BeginResult \/ OpenResult \/ ResultNotAdmitted \/ RenameResult \/ SealResult
    \/ UnlinkSegment \/ DropSegment \/ LookBeforeSuccess \/ CommitSuccess
    \/ UnlinkResult \/ DropResult \/ CommitFailure \/ CommitCancelled
    \/ CheckInput \/ UnlinkInput \/ CleanupInput \/ NothingToDiscard
    \/ WrapUp \/ SeeMarker \/ RequeueAtShutdown \/ CancelAtShutdown

ExecutorStep == Quit \/ (\E j \in Jobs : Claim(j)) \/ AttemptStep

-----------------------------------------------------------------------------
(***************************************************************************)
(* DELETE, its background cleanup, and the retention sweep.                *)
(***************************************************************************)

ClientGoes(c, next) ==
    client' = [client EXCEPT ![c] = next] /\ UNCHANGED <<proc, upload, died>>

Doing(c, pc) == Up /\ client[c].pc = pc

Busy(pc, j) == [pc |-> pc, job |-> j, seen |-> NoLeases]

\* The transaction of delete_or_cancel_job, by the status it finds.
DeleteJob(c, j) ==
    /\ Doing(c, "idle") /\ UNCHANGED ex
    /\ job[j].phase # "none"
    /\ Is(job[j], "queued") /\ job[j].attempt > 0 => DeletesRequeued
    /\ IF ~Decodes(job[j])
       THEN ClientGoes(c, Busy("deleteFailed", j)) /\ UNCHANGED store
       ELSE \/ /\ Is(job[j], "queued")
               /\ OnlyRow(j, CancelledWhileQueued(job[j]))
               /\ ClientGoes(c, Busy("check", j))
            \/ /\ Is(job[j], "running")
               /\ OnlyRow(j, CancelRequested(job[j]))
               /\ ClientGoes(c, Busy("notify", j))
            \/ /\ job[j].phase \in {"visible", "deleting"} /\ job[j].status \in Terminal
               /\ OnlyRow(j, Deleting(job[j]))
               /\ ClientGoes(c, Busy("read", j))

\* Fault: only visible jobs are looked for.
SweepVisibleJob(j) ==
    /\ Doing(Sweeper, "idle") /\ UNCHANGED ex
    /\ job[j].phase = "visible" /\ job[j].status \in Terminal
    /\ Decodes(job[j])
    /\ OnlyRow(j, Deleting(job[j]))
    /\ ClientGoes(Sweeper, Busy("read", j))

\* delete_next_expired_terminal_job: a job already deleting, or an expired one.
SweepJob(j) ==
    /\ Doing(Sweeper, "idle") /\ UNCHANGED ex
    /\ job[j].phase \in {"visible", "deleting"} /\ job[j].status \in Terminal
    /\ Decodes(job[j])
    /\ (\E i \in Jobs : job[i].phase = "deleting" /\ job[i].status \in Terminal)
           => job[j].phase = "deleting"
    /\ OnlyRow(j, Deleting(job[j]))
    /\ ClientGoes(Sweeper, Busy("read", j))

\* notify_cancellation reaches the attempt only while it is the active one.
Notify(c) ==
    /\ Doing(c, "notify") /\ UNCHANGED store
    /\ ex' = IF ex.job = client[c].job /\ ex.pc # "claimed"
             THEN [ex EXCEPT !.cancelled = TRUE] ELSE ex
    /\ ClientGoes(c, IdleClient)

CleanupCheck(c) ==
    LET j == client[c].job
    IN  /\ Doing(c, "check") /\ UNCHANGED <<store, ex>>
        /\ ClientGoes(c, IF CleanupMoot(j, "cancelled") THEN IdleClient
                         ELSE IF CleanupDue(j, "cancelled") THEN Busy("unlink", j)
                         ELSE Busy("cleanupFailed", j))

CleanupUnlink(c) ==
    /\ Doing(c, "unlink") /\ UNCHANGED ex
    /\ OnlyFile(client[c].job, "input", "none")
    /\ ClientGoes(c, Busy("clean", client[c].job))

CleanupCommit(c) ==
    LET j == client[c].job
    IN  /\ Doing(c, "clean") /\ UNCHANGED ex
        /\ IF CleanupMoot(j, "cancelled") THEN ClientGoes(c, IdleClient) /\ UNCHANGED store
           ELSE IF CleanupCommits(j, "cancelled") THEN ClientGoes(c, IdleClient) /\ CleanInput(j)
           ELSE ClientGoes(c, Busy("cleanupFailed", j)) /\ UNCHANGED store

DeleteRead(c) ==
    LET j == client[c].job
    IN  /\ Doing(c, "read") /\ UNCHANGED <<store, ex>>
        /\ ClientGoes(c, IF DeletionMoot(j) THEN IdleClient
                         ELSE IF DeletionConsistent(j)
                         THEN [pc |-> "unlinkInput", job |-> j, seen |-> lease[j]]
                         ELSE Busy("deleteFailed", j))

\* The files of the leases it has read, staging directory first.
DeleteUnlinkInput(c) ==
    LET j == client[c].job
    IN  /\ Doing(c, "unlinkInput") /\ UNCHANGED ex
        /\ IF client[c].seen["input"] = "none" THEN UNCHANGED store
           ELSE OnlyFile(j, "input", "none")
        /\ ClientGoes(c, [client[c] EXCEPT !.pc = "unlinkArtifacts"])

DeleteUnlinkArtifacts(c) ==
    LET j == client[c].job
    IN  /\ Doing(c, "unlinkArtifacts") /\ UNCHANGED <<ex, job, lease, marker>>
        /\ file' = [file EXCEPT ![j] =
                       [r \in Resources |->
                           IF r # "input" /\ client[c].seen[r] # "none" THEN "none" ELSE @[r]]]
        /\ ClientGoes(c, [client[c] EXCEPT !.pc = "remove"])

DeleteRemove(c) ==
    LET j == client[c].job
    IN  /\ Doing(c, "remove") /\ UNCHANGED ex
        /\ IF DeletionMoot(j) THEN ClientGoes(c, IdleClient) /\ UNCHANGED store
           ELSE IF DeletionUnchanged(j, client[c].seen) THEN ClientGoes(c, IdleClient) /\ RemoveJob(j)
           ELSE ClientGoes(c, Busy("deleteFailed", j)) /\ UNCHANGED store

\* The HTTP 500, or the failed background task, is over.
GiveUp(c) ==
    /\ Up /\ client[c].pc \in {"cleanupFailed", "deleteFailed"}
    /\ ClientGoes(c, IdleClient) /\ UNCHANGED <<store, ex>>

ClientStep(c) ==
    \/ Notify(c) \/ CleanupCheck(c) \/ CleanupUnlink(c) \/ CleanupCommit(c)
    \/ DeleteRead(c) \/ DeleteUnlinkInput(c) \/ DeleteUnlinkArtifacts(c)
    \/ DeleteRemove(c) \/ GiveUp(c)

-----------------------------------------------------------------------------
(***************************************************************************)
(* The life of the process.                                                *)
(***************************************************************************)

\* The active attempt is cancelled in begin_shutdown, before the marker thread
\* starts; a dead executor gets no marker.
BeginShutdown ==
    /\ Up /\ ~proc.stopping /\ proc.generation < MaxGenerations
    /\ proc' = [proc EXCEPT !.stopping = TRUE,
                            !.markerThread = IF ex.pc = "dead" THEN "skipped" ELSE "writing"]
    /\ ex' = IF ex.job # NoJob /\ ex.pc # "claimed" THEN [ex EXCEPT !.cancelled = TRUE] ELSE ex
    /\ UNCHANGED <<store, upload, client, died>>

WriteMarker ==
    /\ Up /\ proc.markerThread = "writing"
    /\ marker \in {0, proc.generation}
    /\ marker' = proc.generation
    /\ proc' = [proc EXCEPT !.markerThread = "written"]
    /\ UNCHANGED <<job, lease, file, ex, upload, client, died>>

\* Running attempts of this process that end with it and have no marker.
Lost == {j \in Jobs : Is(job[j], "running") /\ job[j].owner = proc.generation
                          /\ marker # proc.generation}

ProcessEnds ==
    /\ proc' = [proc EXCEPT !.life = "down", !.stopping = FALSE, !.markerThread = "none"]
    /\ ex' = ExecutorAt("off")
    /\ upload' = [j \in Jobs |-> IF upload[j] = "fresh" THEN "fresh" ELSE "over"]
    /\ client' = [c \in Clients |-> IdleClient]
    /\ died' = [j \in Jobs |-> IF j \in Lost THEN died[j] + 1 ELSE died[j]]
    /\ UNCHANGED store

\* stop() has joined the marker thread and the executor.
Exit ==
    /\ Up /\ proc.stopping /\ proc.markerThread \in {"written", "skipped"}
    /\ ex.pc \in {"gone", "dead"}
    /\ ProcessEnds

Crash ==
    /\ proc.life \in {"booting", "unlinking", "sweeping", "up"}
    /\ proc.generation < MaxGenerations
    /\ ProcessEnds

Start ==
    /\ proc.life = "down"
    /\ proc' = [proc EXCEPT !.life = "booting", !.generation = @ + 1]
    /\ UNCHANGED <<store, ex, upload, client, died>>

Boots(life) == proc' = [proc EXCEPT !.life = life] /\ UNCHANGED <<upload, client, died>>

Classify ==
    /\ proc.life = "booting" /\ UNCHANGED ex
    /\ IF LedgerAccepted THEN ClassifyRows /\ Boots("unlinking")
       ELSE UNCHANGED store /\ Boots("refused")

UnlinkStray(j, r) ==
    /\ proc.life = "unlinking" /\ Stray(j, r)
    /\ OnlyFile(j, r, "none")
    /\ Boots("unlinking") /\ UNCHANGED ex

UnlinkedAll ==
    /\ proc.life = "unlinking" /\ (\A j \in Jobs, r \in Resources : ~Stray(j, r))
    /\ Boots("sweeping") /\ UNCHANGED <<store, ex>>

\* The ledger is clean and the executor starts.
SweepLedger ==
    /\ proc.life = "sweeping"
    /\ SweepRows /\ Boots("up")
    /\ ex' = ExecutorAt("idle")

BootStep ==
    \/ Start \/ Classify \/ UnlinkedAll \/ SweepLedger
    \/ \E j \in Jobs, r \in Resources : UnlinkStray(j, r)

ShutdownStep == WriteMarker \/ Exit

Next ==
    \/ \E j \in Jobs : BeginUpload(j) \/ UploadStep(j)
    \/ ExecutorStep
    \/ \E c \in Callers, j \in Jobs : DeleteJob(c, j)
    \/ \E j \in Jobs : SweepJob(j)
    \/ \E c \in Clients : ClientStep(c)
    \/ BeginShutdown \/ ShutdownStep \/ Crash \/ BootStep

Spec == Init /\ [][Next]_vars

\* Threads run, the supervisor starts the process again, and the retention sweep
\* comes round; nothing makes a client send, go on with, or delete an upload.
Fairness ==
    /\ WF_vars(ExecutorStep)
    /\ \A c \in Clients : WF_vars(ClientStep(c))
    /\ WF_vars(\E j \in Jobs : SweepJob(j))
    /\ WF_vars(ShutdownStep)
    /\ WF_vars(BootStep)

FairSpec == Spec /\ Fairness

-----------------------------------------------------------------------------
(***************************************************************************)
(* Safety                                                                  *)
(***************************************************************************)

\* Every row the storage layer ever leaves in the ledger can be read back: each
\* column update, alone or after any history of earlier ones, keeps the shape
\* DurableJob asserts.  A row that breaks it makes GET fail and the next
\* startup refuse the whole ledger.
RowsDecode == \A j \in Jobs : job[j].phase # "none" => Decodes(job[j])

\* Whatever a crash interrupts, the staged startup accepts the rows, leases and
\* files it finds (_reconcile_startup never raises StorageSchemaError).
StartupAccepts == proc.life # "refused"

\* No cleanup, abort, or startup sweep takes the input of a job that still has
\* to run: GET promises the job will run, and the upload cannot be repeated.
InputKept ==
    \A j \in Jobs : Active(job[j]) => lease[j]["input"] = "sealed" /\ file[j]["input"] = "complete"

\* A job shown as succeeded has its result, sealed and on disk, until DELETE or
\* retention makes it deleting.
ResultKept ==
    \A j \in Jobs : Is(job[j], "succeeded") =>
        lease[j]["result"] = "sealed" /\ file[j]["result"] = "complete"

\* Every file is accounted for by a lease, and every lease by a row, at every
\* point a crash can happen: no file is orphaned and no quota is lost.
FilesAccounted ==
    \A j \in Jobs, r \in Resources :
        /\ file[j][r] # "none" => lease[j][r] # "none"
        /\ lease[j][r] # "none" => job[j].phase # "none"

\* An attempt counts as lost exactly when its process ended with neither a
\* terminal commit nor a shutdown marker; the first loss requeues the job, the
\* second fails it, and a graceful restart never counts.
CrashBudget ==
    Up => \A j \in Jobs :
        /\ Active(job[j]) => job[j].crashes = died[j]
        /\ job[j].error = "worker_crashed" => died[j] = 2

(***************************************************************************)
(* Action properties                                                       *)
(***************************************************************************)

\* What GET shows of a job, for JobLifecycle.
PublicState(r) ==
    IF r.phase # "visible" THEN "absent"
    ELSE IF r.status = "running" /\ r.cancel THEN "cancelling"
    ELSE r.status

PublicView ==
    [j \in Jobs |->
        [state |-> PublicState(job[j]),
         done |-> IF job[j].phase = "visible" THEN job[j].processed ELSE 0,
         total |-> job[j].phase = "visible" /\ job[j].total]]

Lifecycle == INSTANCE JobLifecycle WITH view <- PublicView

\* Through every crash, restart, race and retry a client sees only the states
\* and steps of the documented life cycle.
LifecycleSpec == Lifecycle!Spec

\* Once a DELETE has returned 202 for a running job, the job can only become
\* cancelled: not succeeded, failed, or queued again, also across a restart.
CancelWins ==
    [][\A j \in Jobs : Is(job[j], "running") /\ job[j].cancel =>
           \/ Is(job'[j], "running") /\ job'[j].cancel
           \/ Is(job'[j], "cancelled")]_vars

(***************************************************************************)
(* Liveness                                                                *)
(***************************************************************************)

\* Every queued or running job ends, whatever is restarted or cancelled
\* meanwhile: no claim is blocked by an old marker, no cancellation is missed,
\* no terminated attempt leaves its job running.
EveryJobEnds == \A j \in Jobs : Active(job[j]) ~> ~Active(job[j])

\* The record of a job that ended, and all its files and leases, go away in the
\* end, also when a DELETE of it failed half way.
RecordsExpire ==
    \A j \in Jobs :
        job[j].status \in Terminal ~>
            job[j].phase = "none" /\ lease[j] = NoLeases /\ file[j] = NoFiles
=============================================================================
