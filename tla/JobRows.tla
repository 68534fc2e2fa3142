------------------------------ MODULE JobRows ------------------------------
(***************************************************************************)
(* One row of the table transcription_jobs, the shape every row must have  *)
(* to be decoded (DurableJob in jobs.py), and the column updates the       *)
(* storage layer makes.  No state: JobStore uses it.                       *)
(*                                                                         *)
(* Kept columns: phase, status, input_lease_id (null or not), total_samples*)
(* (null or fixed at Samples, what the decoder finds), processed_samples,  *)
(* attempt_no (which also identifies attempt_token: every claim draws a    *)
(* fresh one), owner_generation, crash_recoveries, cancel_requested,       *)
(* result_lease_id, error_code, input_cleanup_pending, started_at.         *)
(***************************************************************************)
EXTENDS Naturals

CONSTANT Samples   \* decoded length of an input

ASSUME SamplesAssumption == Samples \in Nat

Phases == {"none", "receiving", "visible", "deleting"}    \* "none": no row
Statuses == {"null", "queued", "running", "succeeded", "failed", "cancelled"}
Terminal == {"succeeded", "failed", "cancelled"}
Errors == {"null", "runtime", "worker_crashed"}

Rows == [phase : Phases, status : Statuses, input : BOOLEAN,
         total : BOOLEAN, processed : 0..Samples, attempt : Nat, owner : Nat,
         crashes : 0..1, cancel : BOOLEAN, result : BOOLEAN, error : Errors,
         cleanup : BOOLEAN, started : BOOLEAN]

NoRow == [phase |-> "none", status |-> "null", input |-> FALSE,
          total |-> FALSE, processed |-> 0, attempt |-> 0, owner |-> 0,
          crashes |-> 0, cancel |-> FALSE, result |-> FALSE, error |-> "null",
          cleanup |-> FALSE, started |-> FALSE]

\* begin_job_upload's INSERT
ReceivingRow == [NoRow EXCEPT !.phase = "receiving", !.input = TRUE]

Is(r, status) == r.phase = "visible" /\ r.status = status
Active(r) == Is(r, "queued") \/ Is(r, "running")

-----------------------------------------------------------------------------
(***************************************************************************)
(* DurableJob.__post_init__: what decoding a row asserts.                  *)
(***************************************************************************)

LocalValuesHold(r) ==
    /\ r.crashes <= r.attempt
    /\ r.total => r.processed <= Samples

ReceivingShape(r) ==
    /\ r.status = "null" /\ r.input
    /\ ~r.total /\ r.processed = 0 /\ r.attempt = 0 /\ r.owner = 0
    /\ r.crashes = 0 /\ ~r.cancel /\ ~r.result /\ r.error = "null"
    /\ ~r.cleanup /\ ~r.started

QueuedShape(r) ==
    /\ r.input /\ (r.attempt = 0 => ~r.total)
    /\ r.processed = 0 /\ r.owner = 0 /\ ~r.cancel /\ ~r.result
    /\ r.error = "null" /\ ~r.cleanup /\ ~r.started

RunningShape(r) ==
    /\ r.input /\ r.attempt >= 1 /\ r.owner # 0 /\ ~r.result
    /\ r.error = "null" /\ ~r.cleanup /\ r.started

SucceededShape(r) ==
    /\ r.attempt >= 1 /\ r.started /\ r.total /\ r.processed = Samples
    /\ r.result /\ r.error = "null" /\ ~r.cancel

FailedShape(r) ==
    r.attempt >= 1 /\ r.started /\ ~r.result /\ r.error # "null" /\ ~r.cancel

CancelledShape(r) ==
    /\ ~r.result /\ r.error = "null"
    /\ IF r.attempt = 0 THEN ~r.started /\ ~r.cancel ELSE r.started /\ r.cancel

TerminalShape(r) ==
    /\ r.owner = 0 /\ (r.cleanup <=> r.input)
    /\ \/ r.status = "succeeded" /\ SucceededShape(r)
       \/ r.status = "failed" /\ FailedShape(r)
       \/ r.status = "cancelled" /\ CancelledShape(r)

\* _decode_transcription_job raises StorageSchemaError unless this holds.
Decodes(r) ==
    /\ LocalValuesHold(r)
    /\ \/ r.phase = "receiving" /\ ReceivingShape(r)
       \/ r.phase = "deleting" /\ r.status = "null" /\ ReceivingShape(r)
       \/ r.phase = "visible" /\ r.status = "queued" /\ QueuedShape(r)
       \/ r.phase = "visible" /\ r.status = "running" /\ RunningShape(r)
       \/ r.phase \in {"visible", "deleting"} /\ TerminalShape(r)

-----------------------------------------------------------------------------
(***************************************************************************)
(* Column updates.                                                         *)
(***************************************************************************)

Published(r) == [r EXCEPT !.phase = "visible", !.status = "queued"]

Claimed(r, generation) ==
    [r EXCEPT !.status = "running", !.attempt = @ + 1,
              !.owner = generation, !.started = TRUE]

\* update_job_progress; eof is the report that fixes total_samples.
Progressed(r, samples, eof) ==
    [r EXCEPT !.processed = samples, !.total = @ \/ eof]

\* Fault: the start time of the interrupted attempt is kept.
RequeuedStarted(r) ==
    [r EXCEPT !.status = "queued", !.processed = 0, !.owner = 0, !.cancel = FALSE]

\* Fault: the total the decoder has found is forgotten.
RequeuedWithoutTotal(r) ==
    [r EXCEPT !.status = "queued", !.processed = 0, !.owner = 0, !.cancel = FALSE,
              !.started = FALSE, !.total = FALSE]

\* requeue_job_at_shutdown and the startup requeues: from the start, with the
\* fixed total kept.
Requeued(r) ==
    [r EXCEPT !.status = "queued", !.processed = 0, !.owner = 0, !.cancel = FALSE,
              !.started = FALSE]

CancelRequested(r) == [r EXCEPT !.cancel = TRUE]

\* DELETE of a queued job.
CancelledWhileQueued(r) == [r EXCEPT !.status = "cancelled", !.cleanup = TRUE]

Succeeded(r) ==
    [r EXCEPT !.status = "succeeded", !.owner = 0, !.result = TRUE, !.cleanup = TRUE]

Failed(r, code) ==
    [r EXCEPT !.status = "failed", !.owner = 0, !.error = code, !.cleanup = TRUE]

Cancelled(r) ==
    [r EXCEPT !.status = "cancelled", !.owner = 0, !.cleanup = TRUE]

Deleting(r) == [r EXCEPT !.phase = "deleting"]

InputCleaned(r) == [r EXCEPT !.input = FALSE, !.cleanup = FALSE]

=============================================================================
