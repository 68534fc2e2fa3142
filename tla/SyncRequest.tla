---------------------------- MODULE SyncRequest ----------------------------
(***************************************************************************)
(* One synchronous transcription request (api.py, composition.py): upload, *)
(* processing on a worker thread while the client is watched, a response   *)
(* that streams from the artifact.  The client may go away and the task    *)
(* may be cancelled at any moment; every storage call may fail.  What the  *)
(* storage calls do in detail is in StorageAdmission, what the processor   *)
(* does in Transcription, multipart framing is left out.                   *)
(***************************************************************************)
EXTENDS Integers

CONSTANTS
    MaxFaults,      \* bound: storage calls that fail
    MaxCancels      \* bound: how often the server cancels the task

ASSUME SyncAssumption == MaxFaults \in Nat /\ MaxCancels \in Nat

VARIABLES
    pc,             \* what the coroutine awaits
    poolCall,       \* the storage call a pool thread makes for it
    cancelDue,      \* a cancellation is to be delivered
    cancelsLeft,
    noted,          \* one was delivered during the call that is awaited
    gone,           \* the client has disconnected
    disconnected, cancellation, \* what _run_blocking_while_watching_disconnect knows
    worker,         \* where the processing thread is, or the one that reads the body
    input,          \* the upload lease: none, open, sealed, gone
    inputRef,       \* seal_upload has set input_ref
    artifact,       \* the segment artifact: none, open, sealed, gone
    prepared,       \* who has the prepared response
    faultsLeft, inputFails, artifactFails   \* history: releases that failed

task == <<pc, poolCall, cancelDue, cancelsLeft, noted>>
client == <<gone, disconnected, cancellation>>
files == <<input, inputRef, artifact, prepared>>
faults == <<faultsLeft, inputFails, artifactFails>>
requestVars == <<task, client, worker, files, faults>>

RequestInit ==
    /\ pc = "begin" /\ poolCall = "running"
    /\ cancelDue = FALSE /\ cancelsLeft = MaxCancels /\ noted = FALSE
    /\ gone = FALSE /\ disconnected = FALSE /\ cancellation = FALSE
    /\ worker = "idle"
    /\ input = "none" /\ inputRef = FALSE /\ artifact = "none" /\ prepared = "none"
    /\ faultsLeft = MaxFaults /\ inputFails = 0 /\ artifactFails = 0

-----------------------------------------------------------------------------
(* The world.                                                              *)
CancelTask ==
    /\ cancelsLeft > 0 /\ ~cancelDue /\ pc # "over"
    /\ cancelDue' = TRUE /\ cancelsLeft' = cancelsLeft - 1
    /\ UNCHANGED <<pc, poolCall, noted, client, worker, files, faults>>

Disconnect ==
    /\ ~gone /\ pc # "over"
    /\ gone' = TRUE
    /\ UNCHANGED <<task, disconnected, cancellation, worker, files, faults>>

-----------------------------------------------------------------------------
(* _run_in_threadpool_to_completion: the call goes on when the task is     *)
(* cancelled, and the coroutine waits for it.                              *)
StorageCalls == {"begin", "discard", "append", "seal", "resolve", "release", "abort", "finally"}

GoesTo(p) ==
    /\ pc' = p
    /\ poolCall' = IF p \in StorageCalls THEN "running" ELSE "none"
    /\ noted' = FALSE

Noticed ==
    /\ cancelDue /\ pc \in StorageCalls \cup {"process"}
    /\ cancelDue' = FALSE /\ noted' = TRUE
    /\ cancellation' = (cancellation \/ pc = "process")
    /\ UNCHANGED <<pc, poolCall, cancelsLeft, gone, disconnected, worker, files, faults>>

(* The lease is released by its reference, or aborted as long as it is     *)
(* written; abort_upload refuses a sealed lease.                           *)
Releases == pc \in {"discard", "abort", "release", "finally"}
Refused == pc \in {"discard", "abort"} /\ input = "sealed"

(* Fault: the reference is only known once the call has returned.          *)
KnowsRefOnReturn == inputRef \/ (pc = "seal" /\ ~noted /\ ~cancelDue)

(* The thread itself sets input_ref (seal_upload in transcriptions).       *)
KnowsRef == inputRef \/ pc = "seal"

CallReturns ==
    /\ poolCall = "running" /\ ~Refused
    /\ poolCall' = "returned"
    /\ input' = CASE pc = "begin" -> "open" [] pc = "seal" -> "sealed"
                  [] Releases -> "gone" [] OTHER -> input
    /\ inputRef' = KnowsRef
    /\ UNCHANGED <<pc, cancelDue, cancelsLeft, noted, client, worker, artifact, prepared, faults>>

CallRaises ==
    /\ poolCall = "running"
    /\ IF Refused THEN UNCHANGED faultsLeft
       ELSE faultsLeft > 0 /\ faultsLeft' = faultsLeft - 1
    /\ poolCall' = "raised"
    /\ inputFails' = IF Releases /\ ~Refused THEN inputFails + 1 ELSE inputFails
    /\ UNCHANGED <<pc, cancelDue, cancelsLeft, noted, client, worker, files, artifactFails>>

CallSucceeded == poolCall = "returned" /\ ~noted
CallFailed == poolCall = "raised" \/ (poolCall = "returned" /\ noted)

(* The inner finally of transcriptions.                                    *)
Unwinds == GoesTo(IF inputRef THEN "finally" ELSE "abort")

Begun ==
    /\ pc = "begin"
    /\ \/ CallSucceeded /\ GoesTo("ingest")
       \/ poolCall = "returned" /\ noted /\ GoesTo("discard")
       \/ poolCall = "raised" /\ GoesTo("over")
    /\ UNCHANGED <<cancelDue, cancelsLeft, client, worker, files, faults>>

Discarded ==
    /\ pc = "discard" /\ poolCall # "running"
    /\ GoesTo("over")
    /\ UNCHANGED <<cancelDue, cancelsLeft, client, worker, files, faults>>

(* _ingest_multipart: chunks until the end, an error, or nobody to send.   *)
Ingest ==
    /\ pc = "ingest" /\ ~cancelDue
    /\ \/ ~gone /\ GoesTo("append")
       \/ ~gone /\ GoesTo("seal")
       \/ Unwinds
    /\ UNCHANGED <<cancelDue, cancelsLeft, client, worker, files, faults>>

IngestCancelled ==
    /\ pc = "ingest" /\ cancelDue
    /\ cancelDue' = FALSE
    /\ Unwinds
    /\ UNCHANGED <<cancelsLeft, client, worker, files, faults>>

After(from, to) == pc = from /\ CallSucceeded /\ GoesTo(to)

Uploaded ==
    /\ \/ After("append", "ingest")
       \/ After("seal", "resolve")
       \/ pc \in {"append", "seal", "resolve"} /\ CallFailed /\ Unwinds
    /\ UNCHANGED <<cancelDue, cancelsLeft, client, worker, files, faults>>

Resolved ==
    /\ After("resolve", "process")
    /\ worker' = "preflight"
    /\ UNCHANGED <<cancelDue, cancelsLeft, client, files, faults>>

-----------------------------------------------------------------------------
(* prepare_sync_transcription on the worker thread.                        *)
Works(from, to) == worker = from /\ worker' = to /\ UNCHANGED <<task, client, input, inputRef>>

Preflight ==
    /\ \/ Works("preflight", "writing") /\ artifact' = "open"
       \/ Works("preflight", "raised") /\ UNCHANGED artifact
    /\ UNCHANGED <<prepared, faults>>

(* The processor seals the artifact, or fails and aborts it.               *)
Process ==
    /\ \/ Works("writing", "sealed") /\ artifact' = "sealed"
       \/ Works("writing", "abort") /\ UNCHANGED artifact
    /\ UNCHANGED <<prepared, faults>>

(* k of the attempts to get rid of the artifact fail.                      *)
Closing(attempts) ==
    \E k \in 0..attempts :
        /\ k <= faultsLeft /\ faultsLeft' = faultsLeft - k
        /\ artifactFails' = artifactFails + k
        /\ artifact' = IF k < attempts THEN "gone" ELSE artifact
        /\ UNCHANGED inputFails

AbortSink ==
    /\ Works("abort", "discard")
    /\ Closing(1)
    /\ UNCHANGED prepared

Project ==
    /\ \/ Works("sealed", "returned") /\ prepared' = "returned"
       \/ Works("sealed", "discard") /\ UNCHANGED prepared
    /\ UNCHANGED <<artifact, faults>>

DiscardWriter ==
    /\ Works("discard", "raised")
    /\ IF artifact = "gone" THEN UNCHANGED <<artifact, faults>> ELSE Closing(1)
    /\ UNCHANGED prepared

(* Fault: the watcher only remembers.                                      *)
WatchSeesSilently ==
    /\ pc = "process" /\ gone /\ ~disconnected
    /\ disconnected' = TRUE
    /\ UNCHANGED <<task, gone, cancellation, worker, files, faults>>

(* watch_disconnect, while the worker works.                               *)
WatchSees ==
    /\ pc = "process" /\ gone /\ ~disconnected
    /\ disconnected' = TRUE /\ cancellation' = TRUE
    /\ UNCHANGED <<task, gone, worker, files, faults>>

(* Fault: a cancelled request does not wait for the thread.                *)
WorkerFinishedOrLeft == worker \in {"returned", "raised"} \/ noted

WorkerFinished == worker \in {"returned", "raised"}

(* _run_blocking_while_watching_disconnect returns the result, or throws   *)
(* it away: a disconnect may be seen as late as here.                      *)
Processed ==
    /\ pc = "process" /\ WorkerFinished
    /\ worker = "returned" /\ ~noted /\ ~disconnected
    /\ prepared' = "held"
    /\ worker' = "idle"
    /\ GoesTo("release")
    /\ UNCHANGED <<cancelDue, cancelsLeft, client, input, inputRef, artifact, faults>>

DiscardResult ==
    IF prepared = "returned" THEN Closing(2) /\ prepared' = "closed"
    ELSE UNCHANGED <<prepared, artifact, faults>>

ProcessFailed ==
    /\ pc = "process" /\ WorkerFinished
    /\ worker = "raised" \/ noted \/ disconnected \/ gone
    /\ disconnected' = (disconnected \/ gone)
    /\ worker' = IF worker \in {"returned", "raised"} THEN "idle" ELSE worker
    /\ DiscardResult
    /\ Unwinds
    /\ UNCHANGED <<cancelDue, cancelsLeft, gone, cancellation, input, inputRef>>

-----------------------------------------------------------------------------
(* The input goes, the response takes the artifact.                        *)
Released ==
    /\ \/ After("release", "respond")
       \/ pc = "release" /\ CallFailed /\ GoesTo("finally")
    /\ UNCHANGED <<cancelDue, cancelsLeft, client, worker, files, faults>>

(* _PreparedStreamingResponse claims the body; if that fails, it is closed *)
(* there and once more below.                                              *)
Respond ==
    /\ pc = "respond"
    /\ \/ prepared' = "response" /\ GoesTo("stream") /\ UNCHANGED <<artifact, faults>>
       \/ Closing(1) /\ GoesTo("unprepare") /\ UNCHANGED prepared
    /\ UNCHANGED <<cancelDue, cancelsLeft, client, worker, input, inputRef>>

InputFinally ==
    /\ pc \in {"abort", "finally"} /\ poolCall # "running"
    /\ GoesTo("unprepare")
    /\ UNCHANGED <<cancelDue, cancelsLeft, client, worker, files, faults>>

(* The outer finally: what the response does not own is closed, in two     *)
(* attempts (_close_prepared).                                             *)
Unprepare ==
    /\ pc = "unprepare"
    /\ IF prepared = "held" /\ artifact # "gone" THEN Closing(2)
       ELSE UNCHANGED <<artifact, faults>>
    /\ GoesTo("over")
    /\ UNCHANGED <<cancelDue, cancelsLeft, client, worker, input, inputRef, prepared>>

-----------------------------------------------------------------------------
(* StreamingResponse reads the body on a pool thread, chunk by chunk, and  *)
(* does not return before that thread has.                                 *)
Read ==
    /\ pc = "stream" /\ worker = "idle" /\ ~gone /\ ~cancelDue
    /\ worker' = "reading"
    /\ UNCHANGED <<task, client, files, faults>>

(* A chunk, or the end: the body closes the response behind itself.        *)
ReadReturns ==
    /\ worker = "reading"
    /\ \/ worker' = "idle" /\ UNCHANGED <<artifact, faults>>
       \/ worker' = "read all" /\ Closing(1)
    /\ UNCHANGED <<task, client, input, inputRef, prepared>>

(* All read or the read failed, or the client or the server gave up; the   *)
(* background task, where it is reached, is one attempt more.              *)
StreamEnds ==
    /\ pc = "stream" /\ worker # "reading"
    /\ worker = "read all" \/ gone \/ cancelDue
    /\ worker' = "idle" /\ cancelDue' = FALSE
    /\ IF artifact = "gone" THEN UNCHANGED <<artifact, faults>>
       ELSE Closing(2) \/ (worker = "read all" /\ Closing(3))
    /\ prepared' = "closed"
    /\ GoesTo("over")
    /\ UNCHANGED <<cancelsLeft, client, input, inputRef>>

RequestOver == pc = "over" /\ UNCHANGED requestVars

Work == Preflight \/ AbortSink \/ Project \/ DiscardWriter
Continue ==
    \/ Begun \/ Discarded \/ Uploaded \/ Resolved \/ Processed \/ ProcessFailed
    \/ Released \/ Respond \/ InputFinally \/ Unprepare

RequestNext ==
    \/ CancelTask \/ Disconnect \/ Noticed \/ CallReturns \/ CallRaises
    \/ Ingest \/ IngestCancelled \/ Continue
    \/ Work \/ Process \/ WatchSees
    \/ Read \/ ReadReturns \/ StreamEnds
    \/ RequestOver

RequestSpec == RequestInit /\ [][RequestNext]_requestVars

(* Threads and the event loop get on; a processor ends once it has been    *)
(* told to, and an upload or a stream when its client has gone.  Nothing   *)
(* makes a client send or read, or a processor end that was not told to.   *)
RequestFairness ==
    /\ WF_requestVars(Noticed) /\ WF_requestVars(CallReturns \/ CallRaises)
    /\ WF_requestVars(Continue) /\ WF_requestVars(Work)
    /\ WF_requestVars(Process /\ cancellation) /\ WF_requestVars(WatchSees)
    /\ WF_requestVars(Ingest /\ gone) /\ WF_requestVars(IngestCancelled)
    /\ WF_requestVars(ReadReturns) /\ WF_requestVars(StreamEnds)

FairSpec == RequestSpec /\ RequestFairness

-----------------------------------------------------------------------------
(* A thread never works on a file that has been given back: the worker has *)
(* the sealed input, the reader the sealed artifact, and none of them is   *)
(* left when the request is over.                                          *)
ThreadsHaveFiles ==
    /\ worker \notin {"idle", "returned", "raised", "reading", "read all"} => input = "sealed"
    /\ worker = "reading" => artifact = "sealed"
    /\ pc = "over" => worker = "idle" /\ poolCall = "none"

(* However the request ends, its input and its artifact are gone, unless   *)
(* releasing them failed: for a prepared response, twice.                  *)
EndsClean ==
    pc = "over" =>
        /\ input \in {"none", "gone"} \/ inputFails > 0
        /\ artifact \in {"none", "gone"} \/ artifactFails > 0
        /\ prepared = "none" \/ artifact = "gone" \/ artifactFails > 1

(* A request whose client has gone, or which the server has cancelled,     *)
(* comes to its end.                                                       *)
RequestEnds == (gone \/ cancelsLeft < MaxCancels) ~> pc = "over"
=============================================================================
