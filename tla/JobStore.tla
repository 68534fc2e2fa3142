------------------------------ MODULE JobStore ------------------------------
(***************************************************************************)
(* What survives the process: the job rows, the storage leases a job owns  *)
(* (its upload, its segment artifact, its result artifact), the controlled *)
(* files the leases stand for, and the shutdown marker; and the steps      *)
(* Storage takes on them.                                                  *)
(*                                                                         *)
(* Every SQLite transaction holds Storage._lock and BEGIN IMMEDIATE, so it *)
(* is one step.  A method that commits, touches files and commits again is *)
(* several steps, between which other threads run and the process may die. *)
(* JobService says who takes which step when.                              *)
(*                                                                         *)
(* Left out: byte accounting and admission, I/O errors, and bytes of files *)
(* (a sealed file that exists is the file that was sealed).                *)
(***************************************************************************)
EXTENDS JobRows, FiniteSets

CONSTANTS Jobs,        \* job ids; an id is drawn once
          MaxQueued    \* limits.max_queued_jobs

ASSUME StoreAssumption == MaxQueued \in Nat \ {0} /\ IsFiniteSet(Jobs)

VARIABLES
    job,      \* transcription_jobs
    lease,    \* storage_leases owned by the job, by resource
    file,     \* files in the staging and artifact directories
    marker    \* shutdown_marker's generation, 0 when there is none

store == <<job, lease, file, marker>>

Resources == {"input", "segment", "result"}
LeasePhases == {"none", "writing", "sealed"}
FilePhases == {"none", "partial", "complete"}    \* an upload's .ready: complete

Leases == [Resources -> LeasePhases]
Files == [Resources -> FilePhases]
NoLeases == [r \in Resources |-> "none"]
NoFiles == [r \in Resources |-> "none"]

StoreTypeOK ==
    /\ job \in [Jobs -> Rows]
    /\ lease \in [Jobs -> Leases]
    /\ file \in [Jobs -> Files]
    /\ marker \in Nat

StoreInit ==
    /\ job = [j \in Jobs |-> NoRow]
    /\ lease = [j \in Jobs |-> NoLeases]
    /\ file = [j \in Jobs |-> NoFiles]
    /\ marker = 0

SetRow(j, row) == job' = [job EXCEPT ![j] = row]
SetLease(j, r, phase) == lease' = [lease EXCEPT ![j] = [@ EXCEPT ![r] = phase]]
SetFile(j, r, phase) == file' = [file EXCEPT ![j] = [@ EXCEPT ![r] = phase]]

OnlyRow(j, row) == SetRow(j, row) /\ UNCHANGED <<lease, file, marker>>
OnlyLease(j, r, phase) == SetLease(j, r, phase) /\ UNCHANGED <<job, file, marker>>
OnlyFile(j, r, phase) == SetFile(j, r, phase) /\ UNCHANGED <<job, lease, marker>>

Queued == {j \in Jobs : Is(job[j], "queued")}
Running == {j \in Jobs : Is(job[j], "running")}

-----------------------------------------------------------------------------
(***************************************************************************)
(* Upload                                                                  *)
(***************************************************************************)

InsertReceiving(j) ==
    /\ job[j].phase = "none"
    /\ SetRow(j, ReceivingRow) /\ SetLease(j, "input", "writing")
    /\ UNCHANGED <<file, marker>>

SealInput(j) ==
    /\ job[j].phase = "receiving" /\ lease[j]["input"] = "writing"
    /\ OnlyLease(j, "input", "sealed")

\* Fault: off by one.
QueueHasRoomForOneMore == Cardinality(Queued) <= MaxQueued

QueueHasRoom == Cardinality(Queued) < MaxQueued

PublishRow(j) ==
    /\ job[j].phase = "receiving" /\ lease[j]["input"] = "sealed"
    /\ file[j]["input"] = "complete"
    /\ QueueHasRoom
    /\ OnlyRow(j, Published(job[j]))

DoomUpload(j) ==
    /\ job[j].phase = "receiving" /\ OnlyRow(j, Deleting(job[j]))

DropUpload(j) ==
    /\ job[j].phase = "deleting" /\ job[j].status = "null"
    /\ SetRow(j, NoRow) /\ SetLease(j, "input", "none")
    /\ UNCHANGED <<file, marker>>

-----------------------------------------------------------------------------
(***************************************************************************)
(* An attempt                                                              *)
(***************************************************************************)

\* claim_next_job; which queued job comes first is not modelled here.
ClaimRow(j, generation) ==
    /\ marker = 0
    /\ Is(job[j], "queued") /\ Decodes(job[j])
    /\ OnlyRow(j, Claimed(job[j], generation))

\* The fence of every write of an attempt: visible, running, its own token.
Holds(j, token) == Is(job[j], "running") /\ job[j].attempt = token

\* resolve_job_attempt_input accepts the input.
InputResolves(j) ==
    /\ Decodes(job[j])
    /\ lease[j]["input"] = "sealed" /\ file[j]["input"] = "complete"

\* commit_job_success's compare-and-swap.
MaySucceed(j, token) ==
    /\ Holds(j, token) /\ ~job[j].cancel
    /\ job[j].total /\ job[j].processed = Samples
    /\ ~job[j].result /\ lease[j]["result"] = "sealed"

MayRequeue(j, token, generation) ==
    /\ marker = generation
    /\ Holds(j, token) /\ job[j].owner = generation /\ ~job[j].cancel

-----------------------------------------------------------------------------
(***************************************************************************)
(* _cleanup_terminal_job_input: both transactions first see whether there  *)
(* is anything left to do.                                                 *)
(***************************************************************************)

CleanupMoot(j, status) ==
    \/ job[j].phase = "none" /\ lease[j]["input"] = "none"
    \/ job[j].phase = "deleting" /\ job[j].status = status
    \/ Is(job[j], status) /\ ~job[j].input /\ ~job[j].cleanup

CleanupDue(j, status) ==
    /\ Is(job[j], status) /\ job[j].input /\ job[j].cleanup
    /\ lease[j]["input"] = "sealed"

\* The second transaction decodes the row it has written, and rolls back.
CleanupCommits(j, status) ==
    CleanupDue(j, status) /\ Decodes(InputCleaned(job[j]))

CleanInput(j) ==
    /\ SetRow(j, InputCleaned(job[j])) /\ SetLease(j, "input", "none")
    /\ UNCHANGED <<file, marker>>

-----------------------------------------------------------------------------
(***************************************************************************)
(* _delete_terminal_job                                                    *)
(***************************************************************************)

DeletionMoot(j) == job[j].phase = "none" /\ lease[j] = NoLeases

DeletionConsistent(j) ==
    /\ job[j].phase = "deleting" /\ job[j].status \in Terminal
    /\ Decodes(job[j])
    /\ IF job[j].cleanup
       THEN job[j].input /\ lease[j]["input"] = "sealed"
       ELSE ~job[j].input /\ lease[j]["input"] = "none"
    /\ IF job[j].status = "succeeded"
       THEN lease[j]["result"] = "sealed"
       ELSE lease[j]["result"] = "none"

\* The final transaction compares row and leases with those read first; a
\* deleting row changes only by being removed, so only leases are recorded.
DeletionUnchanged(j, seen) == DeletionConsistent(j) /\ lease[j] = seen

RemoveJob(j) ==
    /\ SetRow(j, NoRow)
    /\ lease' = [lease EXCEPT ![j] = NoLeases]
    /\ UNCHANGED <<file, marker>>

-----------------------------------------------------------------------------
(***************************************************************************)
(* _reconcile_startup: the checks that refuse the ledger, the transaction  *)
(* that classifies, the unlinks, and the transaction that drops leases and *)
(* rows.                                                                   *)
(***************************************************************************)

RequiresInput(r) ==
    \/ r.phase = "receiving"
    \/ r.phase = "deleting" /\ r.status = "null"
    \/ r.status \in {"queued", "running"}
    \/ r.cleanup

\* Fault: an input being cleaned up must still be on disk.
InputReferencePresent(j) ==
    IF RequiresInput(job[j])
    THEN /\ job[j].input /\ lease[j]["input"] # "none"
         /\ job[j].status # "null" =>
                lease[j]["input"] = "sealed" /\ file[j]["input"] = "complete"
    ELSE ~job[j].input /\ lease[j]["input"] = "none"

InputReferenceValid(j) ==
    IF RequiresInput(job[j])
    THEN /\ job[j].input /\ lease[j]["input"] # "none"
         /\ job[j].status # "null" => lease[j]["input"] = "sealed"
         /\ Active(job[j]) => file[j]["input"] = "complete"
    ELSE ~job[j].input /\ lease[j]["input"] = "none"

ResultReferenceValid(j) ==
    /\ job[j].status = "succeeded" => job[j].result /\ lease[j]["result"] = "sealed"
    /\ Is(job[j], "succeeded") => file[j]["result"] = "complete"

\* Otherwise StorageSchemaError, and the service does not start.
LedgerAccepted ==
    \A j \in Jobs :
        IF job[j].phase = "none"
        THEN lease[j] = NoLeases
        ELSE /\ Decodes(job[j])
             /\ InputReferenceValid(j)
             /\ ResultReferenceValid(j)

\* Fault: a result whose file is complete is taken for sealed.
RecoverableUnsealed(j) ==
    /\ Is(job[j], "running") /\ ~job[j].cancel
    /\ job[j].total /\ job[j].processed = Samples
    /\ file[j]["result"] = "complete"

\* A result sealed before the commit that would have succeeded the job.
Recoverable(j) ==
    /\ Is(job[j], "running") /\ ~job[j].cancel
    /\ job[j].total /\ job[j].processed = Samples
    /\ lease[j]["result"] = "sealed" /\ file[j]["result"] = "complete"

\* Fault: the shutdown marker is not looked at.
ClassifiedRunningAsCrashed(j) ==
    LET r == job[j]
    IN  IF r.cancel THEN Cancelled(r)
        ELSE IF Recoverable(j) THEN Succeeded(r)
        ELSE IF r.crashes = 0 THEN [Requeued(r) EXCEPT !.crashes = 1]
        ELSE Failed(r, "worker_crashed")

ClassifiedRunning(j) ==
    LET r == job[j]
    IN  IF r.cancel THEN Cancelled(r)
        ELSE IF Recoverable(j) THEN Succeeded(r)
        ELSE IF marker # 0 /\ r.owner = marker THEN Requeued(r)
        ELSE IF r.crashes = 0 THEN [Requeued(r) EXCEPT !.crashes = 1]
        ELSE Failed(r, "worker_crashed")

Classified(j) ==
    IF Is(job[j], "running") THEN ClassifiedRunning(j)
    ELSE IF job[j].phase = "receiving" THEN Deleting(job[j])
    ELSE job[j]

\* Fault: the marker stays.
ClassifyRowsKeepingMarker ==
    /\ job' = [j \in Jobs |-> Classified(j)]
    /\ UNCHANGED <<marker, lease, file>>

ClassifyRows ==
    /\ job' = [j \in Jobs |-> Classified(j)]
    /\ marker' = 0
    /\ UNCHANGED <<lease, file>>

\* Fault: inputs are kept for running jobs, of which startup leaves none.
ProtectedWhileRunning(j, r) ==
    \/ r = "input" /\ Is(job[j], "running")
    \/ r = "result" /\ Is(job[j], "succeeded")

\* Files that startup keeps: inputs of active jobs, results of succeeded ones.
Protected(j, r) ==
    \/ r = "input" /\ Active(job[j])
    \/ r = "result" /\ Is(job[j], "succeeded")

Stray(j, r) == file[j][r] # "none" /\ ~Protected(j, r)

SweptRow(r) ==
    IF r.phase = "deleting" THEN NoRow
    ELSE IF r.phase = "visible" /\ r.status \in Terminal /\ r.cleanup THEN InputCleaned(r)
    ELSE r

SweepRows ==
    /\ job' = [j \in Jobs |-> SweptRow(job[j])]
    /\ lease' = [j \in Jobs |->
                    [r \in Resources |-> IF Protected(j, r) THEN lease[j][r] ELSE "none"]]
    /\ UNCHANGED <<file, marker>>

=============================================================================
