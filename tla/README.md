# Verification of botified-asr

TLA+ models of the parts of botified-asr in which threads, requests, processes,
crashes and restarts meet, and of the arithmetic on the sample axis that decides
which sound reaches which model. TLC checks small instances; TLAPS proves what
matters most for every value of the constants.

    tlc -workers 2 -config InferenceLane.cfg InferenceLane
    tlc -workers 2 -config JobService.cfg MCJobService
    tlc -workers 2 -config JobService_queue.cfg MCJobService
    tlc -workers 2 -config StorageAdmission.cfg MCStorageAdmission
    tlc -workers 2 -config OfflineSpeech.cfg MCOfflineSpeech
    tlc -workers 2 -config M.cfg M       for ExecutorShutdown, Transcription, SyncRequest,
                                         StoredResult, SpeakerProfiles, AudioPump
    tlapm M_proofs.tla                   for InferenceLane, JobService, StorageAdmission,
                                         OfflineSpeech, Transcription, SpeakerProfiles,
                                         ExecutorShutdown, Requests

`PROJECT.json` lists components, runs, mutants (one plausible bug per property,
written as an operator "Fault" next to the definition it replaces), the source
lines behind every definition, hazards and theorems. Line numbers below are of
`src/src/botified_asr/`; "the plan" is
`docs/engineering/botified-asr-product-development-plan.md`.

## The system

One process serves an HTTP API. Synchronous requests are transcribed while the
client waits; a request with `Prefer: respond-async` becomes a *job*, a row in
SQLite, which a single executor thread runs later. Both decode audio with ffmpeg,
find speech, cut it into segments and transcribe them in batches. Model calls of
both go through *lanes*, one per loaded model.

| Component | State | Operations | Talks to |
| --- | --- | --- | --- |
| Inference lane (`inference.py`) | two queues of tickets, who operates, whose turn | `invoke`, `inference_session` | called by the pipeline from request threads and the executor; woken through one condition |
| Processor selection (`composition.py` 84-107) | a count per lane | acquire, release | before each lane session |
| Job rows (`jobs.py`) | one record per job | decode and check | `storage.py` after each change |
| Storage (`storage.py`) | SQLite: rows, leases, shutdown marker, profiles; files in two directories | upload, publish, claim, progress, terminal commits, cleanup, deletion, admission, startup | every thread, under one lock; files outside it |
| Startup (`_reconcile_startup`) | the ledger and the files | check, classify, unlink, sweep | before anything else runs |
| Job executor (`runtime.py`, `main.py`) | thread, wake event, active attempt, stopping and failure flags, marker thread | start, run, notify, begin_shutdown, stop | claims from storage, cancelled by DELETE and by signals |
| Job attempt (`composition.py` 523-773) | attempt token, segment writer, result writer | resolve, process, seal, commit, discard | storage, the pipeline, the lane |
| API (`api.py`) | readiness, requests, retention task | submit, GET, DELETE, speaker CRUD, sweep | storage in worker threads, the executor |
| Synchronous request (`api.py` 448-567, 1178-1513) | upload, artifact, prepared response | receive, process, watch for disconnect, stream | storage, lanes |
| Pipeline (`pipeline.py`) | block in hand, VAD session, speech buffer, batch, windows, sink | decode, segment, embed, transcribe, seal | audio pump, lane, artifact writer, progress |
| Audio pump (`audio.py`) | a process group, two pipes, two reader threads, a queue | probe, decode, stop | called by the pipeline |
| Speaker profiles (`api.py`, `storage.py`, `speaker_snapshot.py`) | profiles in SQLite | create, update, delete, snapshot | storage, publish, a processor for the embedding |
| Model artifacts, adapters, options, configuration, CLI | files, none | load, convert, parse | once, at start, or without state |

### What is hard here

* Three threads (executor, DELETE's worker with its background task, sweeper)
  change one job's row, leases and files. A method that commits, touches files
  and commits again is not atomic, and each of its two transactions has to
  tolerate whatever the others did in between.
* DELETE competes with success, failure, progress and the requeue at shutdown, and
  with a GET that is streaming the file.
* Shutdown is a conversation between signals, a marker thread, two threads that
  stop the executor at once, and the executor; the marker decides after the
  restart who crashed and who was stopped.
* The process may die between any two steps, also during startup, and startup
  deletes whatever it does not recognise and refuses what it cannot explain.
* A lease has a row and a file under one of two names; any of its file operations
  and commits may fail, and what remains must be undone and still be charged.
* A lane must alternate two kinds of callers, of which any may give up at any
  time, and wake the ones that wait without a timeout.
* A request's coroutine is cancelled, or its client leaves, while a thread it started
  still works on its files.
* Two bounded pipes and a bounded queue stand between ffmpeg and the pipeline, and
  the process may hang, ignore SIGTERM, or leave a child behind.
* The detector reports speech late and out of step with the blocks; PCM must be kept
  long enough to copy it out, no longer, and no sample may go to ASR twice.

### What makes each part correct

* Lane: exclusion; no turn reserved for nobody; no sleeper in front of a free
  lane; at most one operation overtakes the first waiter; every call ends; sync
  and cancelled calls escape a lane that hangs.
* Rows: whatever sequence of updates a row has seen, it decodes.
* Store and startup: inputs of jobs still to run and results of succeeded ones
  are kept; no file without a lease and no lease without a row, at every point
  where the process can die; startup accepts what any crash leaves; losses are
  counted exactly.
* Executor: it never sleeps over a queued job; an attempt that a shutdown interrupts
  is given back behind a durable marker or somebody is told; every stop returns and
  misses no error.
* Admission: the program's own writes leave the promised space; no byte is on the
  disk unreserved; a lease that has ended, however it failed, leaves nothing.
* API: a client sees only the documented life cycle; an accepted DELETE wins;
  every job ends and every record expires; a synchronous request ends when its
  client is gone and leaves no file and no thread; a GET finds the result or nothing.
* Pipeline: no sample is transcribed twice or lost; the job never fails for the way
  speech lies; a sealed result is a complete one; one model call at most begins
  after cancellation.
* Audio pump: it ends by itself or when told, leaves no process that has not been
  killed, and a normal end means that everything was read.
* Profiles: names are unique in whatever case; what a job keeps of its speakers was
  there at one moment; every sample is given back.

## The modules

| Module | Models |
| --- | --- |
| `InferenceLane` | `SerialInferenceLane` and sessions |
| `JobRows` | a row: shapes `DurableJob` asserts, the updates storage makes; no variables |
| `JobStore` (extends `JobRows`) | what survives the process (rows, leases, files, marker) and the steps storage takes on it |
| `JobService` (extends `JobStore`) | who takes which step when: uploads, executor, DELETE, sweep, shutdown, crash, startup |
| `JobLifecycle` | abstract: the states a client sees and the steps between them; `JobService` implements it |
| `MCJobService` | small instances of `JobService` |
| `ExecutorShutdown` | the executor's lock, events, threads and errors; signals on the main thread |
| `StorageAdmission`, `MCStorageAdmission` | byte reservations of every lease, upload slots, free space; write, seal, abort and release with failing file operations |
| `SpeechSpans` | what islands and segments of speech are, and the contract `Collected` between the segmenter and offline diarization |
| `SpeechSegments` (extends `SpeechSpans`) | `StreamingVadSession`, `BoundedSpeechPcmBuffer` and `StreamingSpeechSegmenter` |
| `OfflineDiarization` (extends `SpeechSpans`) | from collected speech to labelled regions: merging, windows, projection |
| `MCOfflineSpeech` | composes the segmenter and offline diarization |
| `Transcription` | `Processor.process` in its three modes |
| `SyncRequest` | one synchronous request from upload to the end of the response |
| `StoredResult` | GET of a result against deletions |
| `SpeakerProfiles` | CRUD of profiles, uploaded samples, snapshots |
| `AudioPump` | ffprobe and ffmpeg, their pipes, readers and termination |
| `Requests_proofs` | theorems about `AudioPump`, `SyncRequest` and `StoredResult` |
| `OfflineSpeech_proofs` | theorems about `SpeechSegments` and `OfflineDiarization` |
| `*_proofs` | theorems about the module of that name |

### InferenceLane

`waiters`, `activeCategory`, `activeThread` and `nextCategory` are the lane's
fields. `session` is the thread's context variable, `cancelled` and `expired`
its Cancellation and deadline, `pc` its place in `invoke`. `overtakes` is a
history variable: how often the ticket has been passed while first in its queue.
`invoke` gives up the lock only in `Condition.wait`, so each stretch between two
waits is one step, `Attempt`, whose three outcomes (`Leave`, `Enter`, `Sleep`)
are the code's three ways through the loop. `Poll` is the 50 ms timeout, which
only callers with a session have; `Notified` is `notify_all`.
A reentrant call raises before it touches the lane and is a stutter.

`LaneInv` adds to the properties what the code relies on: tickets and waiting
threads correspond, no ticket occurs twice, the two fields that record the
operation agree, and whoever has been overtaken is first and next.

### JobRows, JobStore, JobService

A row keeps the columns that decide something. `attempt_no` also stands for
`attempt_token` (each claim draws a new token and counts), generations are
numbers, the input has one fixed length `Samples`, and options, snapshots,
fingerprints and timestamps except `started_at IS NULL` are left out. `Decodes`
is `DurableJob.__post_init__`, which every read applies.

A step is one transaction (`BEGIN IMMEDIATE` under `Storage._lock`), one file
operation, or one critical section of `JobExecutor._lock`. So:

* `seal_job_upload` is `RenameUpload`, `SealUpload`; `abort_job_upload` is
  `AbortUpload`, `UnlinkUpload`, `FinishAbort`.
* an attempt is `Claim`, `Register`, `ResolveInput`, `BeginSegment`,
  `OpenSegment`, `Progress` (any number, the last one with the decoder's total),
  `SealSegment`, `BeginResult`, `OpenResult`, `RenameResult`, `SealResult`,
  `UnlinkSegment`, `DropSegment`, `LookBeforeSuccess`, `CommitSuccess`, and
  input cleanup; with `Fenced` deciding at each storage call between going on,
  being stale, and being cancelled.
* `_cleanup_terminal_job_input` is check, unlink, commit, for the executor
  (`CheckInput` ...) and for DELETE's background task (`CleanupCheck` ...).
* `_delete_terminal_job` is `DeleteRead`, `DeleteUnlinkInput`,
  `DeleteUnlinkArtifacts`, `DeleteRemove`; `seen` is what the first read found.
* startup is `Classify`, any number of `UnlinkStray`, `UnlinkedAll`,
  `SweepLedger`, with `Crash` possible in between, and `refused` when
  the ledger is not accepted.
* shutdown is `BeginShutdown` (the active attempt is cancelled), `WriteMarker`
  by its thread, then the executor's `SeeMarker`, `RequeueAtShutdown` or
  `CancelAtShutdown`, and `Exit`.

`died` is a history variable: processes that ended with the job running and no
marker.

Where the model allows more than the code, and so checks more:

* DELETE and the sweep may come while the process is stopping or the executor has
  died; in the code `require_ready` stands before the call, which may still be in
  a worker thread.
* `seal_job_upload` holds the storage lock throughout; its two steps matter for
  crashes only.
* `ClaimRow` takes any queued job, the code the first by `created_at`, `id`.
* the sweep takes any ended job, however recent.
* `AbortUpload` leaves open whether a disconnect, a failed check or a full queue
  was the reason; `ProcessFails` likewise.

`DeletesRequeued` is an assumption about clients, not about the program: with
FALSE no DELETE meets a job that is queued after an interrupted attempt. The code
mishandles that DELETE (below), and every other property is checked and proved
without it, because a ledger with such a row makes all reads fail.

### JobLifecycle

Section 7.4 to 7.6 of the development plan as a state machine over what GET
shows: state, processed samples, whether the total is known. It has a bounded
queue at publication, one job running at a time, progress that does not go back,
a total that is fixed once, interruption that starts over, and cancellation that
cannot be undone. `LifecycleSpec` is the refinement: every step of `JobService`
is, seen through `PublicView`, one of its steps or none. TLC checks it with three jobs;
the proof is for any number.

### ExecutorShutdown

`JobService` treats the executor's critical sections as steps and leaves out its
lock, events and joins; here they are the subject, and jobs are numbers. `pc` has a
frame for each piece of code: `main` (the event loop, and after it `main()`'s own
`stop`), `pool` (the lifespan's `stop`), one for each signal handler, `worker`
(`_run`), `marker` (`_record_shutdown`) and `request` (publish and `notify_wake`).
Handlers run on the main thread: a frame moves only while no handler runs on top of
it. `Outside` and `Section` are statements without and with `_lock`, which is not
reentrant. Storage calls may raise where the code expects it (`ClaimRaises`, the marker's
write, the requeue), and starting either thread may fail.

Signals come at most once for each member of `Handlers`; two are SIGTERM and a
second one, or SIGINT. After its shutdown uvicorn raises the signal again, so that
`main()`'s own `stop` may not be reached: the model lets it be reached, which is the
harder case.

### StorageAdmission

`row` is the lease's row in `storage_leases` (phase, `reserved_bytes`,
`actual_bytes`), `file` what the disk has of it, `handle` the lease object and where
its one user is. `Begin`, `Append` and `CommitSeal` are the three transactions that
change a reservation; `Admits` is `_admit_delta`, which sums the ledger and asks the
file system each time. Between a transaction and the file operation it allows,
and between a file operation and the commit that records it, other leases take
steps.

Every file operation and every commit may fail (`...Fails`), at most `MaxFaults`
times. A commit that raises is taken to have happened or not, which is what
`_abort_writing` expects when it finds a sealed row under a lease it still calls
writing. After a failure the user aborts, as often as it takes. `Crash` leaves
row and file as they are; the start removes both, which is what
`_reconcile_startup` does with leases no job protects. The leases of jobs have the
same admission; their sealing, aborting and deleting is in `JobStore`.

`BytesReserved` is why the sum of reservations may stand for the bytes on the disk.
`FloorKept` is not what one would first write: a checkpoint records as written
what the file object may still hold back, so that a test made at that moment finds
these bytes both free and not outstanding. The slack is at most one file
object's buffer for each file.

A lease that `begin_upload` could not hand out (the commit raised after taking
effect, or the open failed and the deletion of the row too) keeps its reservation
until the next start; the model has it as a `gone` lease, and no property denies it.

### SpeechSpans, SpeechSegments, OfflineDiarization, MCOfflineSpeech

PCM is the interval of samples it comes from; the detector speaks in whole
milliseconds. `SpeechSegments` has one action for each loop iteration of the
code: `ReadBlock`; `HearStart`, `HearEnd`, `HearWhole` for one marker; `AppendBlock`;
`BeginSpeech`, `CloseSpeech`; `Cut` for a round of `_release_full_segments`;
`CompleteSpeech`; `EndBlock`. `buf` holds the buffer's cursors: where speech began
(`origin`), from where PCM and canonical time are still to be released (`pcm`,
`canonical`), what may not be copied again (`watermark`), the last cut (`floor`) and
the first sample kept. Every check of the code that raises leads to `failed`.

The detector is external. With `Faithful` its markers keep to the contract for which
the code dimensions its ring (58-64): a start lies at most `Frontend + Backtrack`
before the block in which it is reported, and an end or a new start at most
`Prepad` behind a cut. The second half is an assumption: speech is cut only
beyond `DirectMax`, and `model_loader.py` 187 makes the detector end speech itself
shortly before that; a silence noticed 700 ms later, just after a cut, would make the
code fail the job rather than transcribe a sample twice. Without `Faithful` any
marker may come, and the proofs cover that: the job may fail, but no sample goes to
ASR twice, and if it does not fail none is missing.

`OfflineDiarization` is what `_process_offline_diarization` does with the islands and
segments collected, one action for each round of a loop. `BeginMerge`, `Merge`, `EndMerge` walk
along islands (`island`) and segments (`segment`) and put together the `pieces` of speech whose
PCM is known, checking with `covered` that none is missing and with `met` that no segment is
superfluous. `EmbedWindow` takes the next window of the grid; `Cluster` gives any window any
cluster. `BeginProject` is the checks of `_project_speaker_regions`; `Divide` sets the next boundary
between windows; `TakeIsland`, `ScanCell`, `EndScan` make the `runs` of one label on an island;
`CutRun` and `LastOfRun` make regions of them; `Collect` finds the PCM of the regions. A
cursor of the code that skips what lies behind it is the first span that ends later (`First`).
Every check of the code that raises leads to `failed`.

The two halves are composed in `MCOfflineSpeech` by the contract `Collected` of `SpeechSpans`:
`SpeechCollected` says that the segmenter leaves it, and diarization starts from anything that
satisfies it. A behaviour is one of either half, since one instance cannot suit both.

### Transcription

One attempt of `Processor.process`: `pc` follows the code through `direct` (up to
`DirectMax`, read ahead by one block, no VAD), `vad` and `diarize`. What a block
completes (`todo`), batching with its three limits (`pending`, `Drain`), checks for
cancellation and fences of the job (`Check`, `FenceBegins`), appends to the sink,
progress, and the closing of decoder and sink in the `finally` blocks are steps, and
any call may raise (`Raise`). Segments are any that the parts above can produce: in
order, bounded, ending with the block or before. `emitted`, `answered`, `late` and
`refused` are history variables: what there was to transcribe, what has
been, model calls begun after cancellation, and whether a sink refused what it was told.

### SyncRequest

`pc` is what the coroutine awaits, `poolCall` the storage call a pool thread makes for it,
`worker` the processing or reading thread. `CancelTask` is a cancellation of the task by the
server (`timeout_graceful_shutdown`, `main.py` 308); several stand for anyio's
level-triggered ones. `Disconnect` may come at any time; the watcher sees it
(`WatchSees`) or `Processed` finds it. `Noticed` is the `except CancelledError` of
`_run_in_threadpool_to_completion`, which goes on waiting. `input`, `artifact` and
`prepared` say which lease is open, sealed or gone and who owns the response.
`StreamingResponse` and anyio's thread pool are external, modelled from how they are used.

### StoredResult

A GET is `Ask` (`get_visible_job`), `Open` (row, lease, file under the lock), `ReadChunk`,
`StreamDone`; a deletion is `Mark`, `LookUp`, `Unlink` or `UnlinkFails`, `Commit`, and may be
tried again. A file that has lost its name lives as long as a handle is open (POSIX).
Crashes between these steps are in `JobService`.

### SpeakerProfiles

A request uploads samples (each a lease), enrolls, cleans up, and stores; a job takes its
snapshot in the transaction that publishes it. Handlers store on the event loop,
one transaction each, so `Create`, `Update`, `Delete` and `Resolve` are atomic; between them
anything may happen. A name is a key (the casefolded name) and a form, an
embedding the request that made it, `policy` the fingerprint it was made
under. The wall clock may be set back. An id that is taken is drawn again.

### AudioPump

`leader` and `child` are the process group; what they write, when they exit, hang or
ignore SIGTERM is left open. The readers are `reader["out"]` and `reader["err"]`: stderr
into a bounded buffer, ffmpeg's stdout into a queue of two events (`Look`, `Fetch`,
`Emit`), ffprobe's into a bounded buffer that fails beyond `OutputLimit`. `consumer` is the
caller: it takes events, then waits for the process and the readers; on a failure it
calls `stop`, whose `Terminate`, `Poll`, `Kill`, `Reap` and `Join` are its loop. `stops` is
2 where `start()` stops and its caller once more. The generator's caller
goes on pulling or closes it. `BothUnread` is the one end that sends no signal: see the
known behaviour below.

## The runs

| Run | Instance | States | Shows |
| --- | --- | --- | --- |
| `lane` | 3 threads, calls may hang | 44,640 | alternation; a call ends if those before it return; nobody with a way out is caught behind a hung call |
| `job_service` | 1 job, 1 deleting client, sweeper, 3 processes | 95,437 | the store's safety properties at every point of a crash, refinement of the life cycle, `EveryJobEnds`, `RecordsExpire` |
| `job_queue` | 3 jobs, queue of 1, sweeper, 2 processes | 753,394 | refinement with several jobs: the queue's bound, one running job |
| `admission` | 2 uploads, 1 artifact, 2 failures, crashes | 383,456 | `FloorKept`, reservation before bytes, clean ends |
| `executor_shutdown` | 2 signals, 1 published job | 59,185 | no sleep over work, no attempt or error lost, every stop returns, no deadlock |
| `offline_speech` | audio of five blocks; layouts of 3 islands and 3 segments | 1,517,651 | the segmenter neither fails, loses nor repeats speech; windows and regions of diarization |
| `transcription` | 3 blocks, 3 modes, batches of 2 | 2,682,115 | sealed means complete, calls after cancellation, order of progress and results |
| `sync_request` | 3 cancellations, 3 failures | 3,386 | no thread without its file, nothing left, every abandoned request ends |
| `stored_result` | 2 readers, 3 deletions, 2 failing unlinks | 37,648 | result or "not found" |
| `speaker_profiles` | 2 requests, 1 job, 3 ids, 3 names in 2 cases | 2,972,703 | unique names, consistent snapshots, samples given back |
| `audio_pump` | pipes of 1 byte, 2 and 1 bytes written, 2 failing reads | 573,332 | ends by itself or when told, a normal end is whole, nothing runs on unkilled |
| `job_requeued_delete` | 1 job, 1 client, 2 processes | violation | finding 1 |

Bounds, and why they are enough:

* Three threads give two waiters in one queue or one in each while somebody
  operates; the turn depends on the other queue being empty or not, and the
  proofs cover any number. `OvertakesCounted = 2`: one more than allowed.
* `MaxGenerations = 3`: the first process loses the job, the second loses it
  again, the third finds the job failed by `worker_crashed` and runs on (the last
  process neither crashes nor is stopped). With two, a requeued job is reached.
* `MaxQueued = 1` with three jobs: a full queue, one running and one that is
  refused; a requeue then overfills it.
* One client and the sweeper: two deletions of one job can overlap with each other,
  with a cleanup, and with the executor's.
* `Samples = 1`: progress 0 and 1, which is the end.
* Three leases of up to three bytes in quanta of two: a lease below a quantum, at
  one, and grown past one; together they exceed the room above the floor.
  `MaxStorage = 12` puts the quota out of reach, which would keep the bytes above the
  floor anyway. Two failures are one and one in its compensation.
* `Handlers`: one handler interrupts `begin_shutdown` of another. One job is enough
  for an attempt in hand at the stop, and for a wake between any two steps of the
  loop.
* `Block = 32`, `DirectMax = 112`: two milliseconds in a block, seven in a segment; the audio
  has room for speech that is cut once and goes on, and for three islands. The last block
  may be shorter than the others. Two markers in a block: an end and a new start.
* `Totals`, `MaxSpans`: seven samples, windows of four every three: two overlapping
  windows and one that is clipped at the end, islands that share a window or
  lie in none of a cluster. No audio at all is the other length.
* `AudioMax = 6` with blocks of two: the fourth block is one too many; batches are full
  by each of their three limits.
* `MaxFaults = 3` in `SyncRequest`: the three attempts to release a response; three
  cancellations fall on the call, its waiting and the cleanup.
* `Chunks = 2`: a deletion between two reads. Three deletions with two failures: each
  can find what another has left.
* `Keys`, `Ids`: two known profiles and a third id, with a limit of three; names for a
  conflict and for a rename. Two times: the clock goes forward or back.
* Pipes of one byte fill with every byte; two bytes are a block of PCM. Two failing reads
  are one for each pipe: with a single one `BothUnread` is never reached.

An id is drawn once, so a run of `JobService` ends when all ids are used; hence
`CHECK_DEADLOCK FALSE` for the job runs (a refused startup is an end as well). That the
service does not get stuck is what `EveryJobEnds` checks. In all other runs deadlock is
checked: their modules go on for ever or say where they end.
Symmetry is used in runs without liveness only.

## Fairness

* Lane, `WaitFairness`: a woken thread gets the lock, a poll and a deadline come; threads
  of CPython are scheduled and `Condition.wait` returns after its timeout. That a model
  call returns (`CallsReturn`) is not assumed but the premise of `EveryCallEnds`, together
  with waiting calls that stop giving up: otherwise a category whose callers expire one
  after the other just before entering could keep the turn.
* `JobService`: executor, client threads, marker thread, supervisor
  (restart after exit or crash), and the retention sweep (every interval, also
  after an error) go on. Nothing obliges a client to send an upload, to go on with
  it, or to delete; nothing makes the process crash or shut down.
  `WF_vars(ExecutorStep)` covers that a transcription ends: `Progress` and the ends
  of `process` are steps of the executor, and endless reports at the same sample
  are ruled out because they change nothing.
* `ExecutorShutdown`: weak for the main thread and the request's wake; strong for the
  stops, handlers, marker and worker, which compete for a lock that is free again and again,
  and for closing the lifespan of a server that was told to exit.
* `SyncRequest`: threads and the event loop get on; a processor ends once cancellation
  is set, an upload once the client is gone or the task cancelled, a stream likewise. Nothing
  makes a client send or read.
* `AudioPump`: the reader threads and the caller run; a process that does not hang goes
  on; a group that was sent SIGKILL dies; the grace of `stop` comes to an end. Nothing makes the
  process hang, the deadline pass or the caller cancel.

## Findings

1. `job_requeued_delete`: DELETE of a queued job that has been claimed before
   (requeued by shutdown or crash recovery) writes `status = 'cancelled'` with
   `cancel_requested = 0` and no `started_at` (`storage.py` 1765). A cancelled row
   with `attempt_no >= 1` must have both (`jobs.py` 391-398). The row cannot be
   decoded any more: cleanup, GET, a second DELETE, the sweep and the next
   startup all fail. The plan promises such a DELETE a job that GET shows as
   cancelled (629). `RowsAlwaysDecode` proves that this is the only way to an
   undecodable row. Reproduced with the repository's own `Storage`.

Other behaviour that disagrees with the plan or a comment, known from modelling and
recorded here without a run:

* DELETE of an ended job raises "terminal job deletion state changed" (`storage.py`
  3473), hence HTTP 500, when the executor releases the attempt's sealed segment between
  the two transactions of the deletion; the plan promises an idempotent 204 (632). A retry
  or the sweep completes the deletion, which `RecordsExpire` checks.
* `created_at` is ordered as text, and `isoformat()` leaves out a zero fraction
  (`storage.py` 1925, 5281): a job created on a whole second is claimed after those of the
  same second; the plan promises a stable FIFO (676).
* A signal that arrives while the main thread holds the executor's lock (`main.py` 202,
  `runtime.py` 142) makes the handler wait for its own thread. `SafeSignals` assumes that
  none does; without it `ExecutorShutdown` deadlocks. The plan has SIGTERM stop new work
  first of all (1106).
* PCM kept for open speech grows when speech ends and begins again inside each block, since
  it is trimmed only at blocks that end in silence and at cuts (`pipeline.py` 694); the
  plan and a test speak of a bounded buffer (723, `tests/test_speech_buffer.py` 335).
  `IdleBounded` and `OpenBounded` are what is proved.
* When neither pipe of ffprobe can be read, both readers end with an error, `probe_media` waits
  for the process alone and raises without `stop()` (`audio.py` 158-175): a process of ffprobe's
  group that still holds the pipes runs on without a signal. The plan has ffmpeg ended by TERM and
  KILL when a request goes away (1108). `NothingIsLeft` says that this is the only such end.
  The bound of one failing read used to hide it; the attempt to prove the property for every
  number showed it.

## What is proved

TLAPS, for every value of the constants that satisfies the named assumptions
(`NoThreadAssumption`; `SamplesAssumption`, `StoreAssumption`, `ServiceAssumption`;
`ShutdownAssumption`; `AdmissionAssumption`; `SizesAssumption`; `TranscriptionAssumption`;
`PumpAssumption`; `ProfilesAssumption`).

**InferenceLane_proofs.** `LaneInvariance`: `Spec => []LaneInv`. None of the four
properties is inductive alone: that the lane is nobody's must imply that
somebody will be told, which needs that tickets and sleepers correspond; that a
ticket's removal leaves a queue without it needs that it occurs once; and that
somebody overtaken once is next needs the turn. `WithoutFacts` says what removing
a ticket does to a queue; `InvokeReady` and `RetryReady` say what holds when a thread is at
the loop with the lock held; `EnterInv`, `SleepInv`, `LeaveInv`, `CompleteInv`,
`SessionInv` and `SignalInv` are one action each; `NextLaneInv` puts them together.
`LaneMutualExclusion`, `LaneTurnHasATaker`, `LaneNoLostWakeup` and
`LaneOvertakenAtMostOnce` follow.

**JobService_proofs.** `RowStep(r, s)` lists what any step of the service can do to a
row. `NextRows` shows that every action is a `RowStep` of every row; three lemmas
about a single row then say that `RowStep` keeps the type (`RowType`), keeps rows
decodable unless a requeued job is deleted (`RowDecodes`), and never takes a
cancellation back (`RowCancels`). From these, `TypeCorrect`,
`RowsAlwaysDecode` (under `~DeletesRequeued`) and `CancellationWins`. The
invariant of the type proof adds that a client at work has a job.

`StoreInvariance` is what the rest needs. `InputKept`, `ResultKept`, `FilesAccounted`,
`CrashBudget` and `StartupAccepts` each speak of a moment between transactions, and none is
inductive: that a file with a name has a lease depends on whoever is between its commit and its
`unlink`. `StoreInv` therefore says, for each job, what its row allows of its three leases and
files (`JobFits`), for each thread what its place implies of the job it works on (the executor's
attempt, a client's upload or deletion, the sweep), how often the process died with a job
running (`DiedFits`), and what startup has already put right at each of its stages. A step of
one thread is summed up for the others by what it may do to a job: the lemmas say that every
such step keeps `JobFits`, and that each other thread's part survives it. So the proof has one
case per action and one per pair of a thread and a kind of step, not one per pair of actions.

`ServiceImplementsLifecycle` proves the refinement: `RowStep` of a row is a step of its public
view or none, `StoreInv` gives the guards of `JobLifecycle` that speak of other jobs (room in the
queue, at most one job running), and no step changes more than one view (`OneView`): even
startup, which handles all rows at once, finds at most one running. These theorems assume
`~DeletesRequeued`: with the DELETE of finding 1 the row no longer decodes and none of them
holds.

**ExecutorShutdown_proofs.** `ShutdownInv`: nothing of a stop has happened before it is announced, one
frame (main thread, handler or pool thread) announces it, the event `markerDone` means that the
marker's thread has ended and the marker is on disk or its absence explained, `stopComplete` that
both threads are idle, and an attempt in hand is settled, given back or its loss an error. From these,
for any number of published jobs and wherever signals come (with or without `SafeSignals`, which
only liveness needs), `ExecutorNeverSleepsOverWork`, `AttemptsAreNeverLost` and
`StopNeverHidesErrors`.

**StorageAdmission_proofs.** The invariant is the type and, for each lease alone,
`Good(row, file, handle)`: what the disk and the ledger may have while its user is at a given
place, with reservations and bytes related as that place needs; and that after a crash
no handle is in use. Each action is local to one lease (`LocalStep`) and keeps it good, one
lemma per action. `EveryByteReserved`, `SealIsExact` and `CleanupLeavesNothing` are read
off `Good`. `UploadsStayBounded` counts: only a begin adds an upload (`NoneAdded`), and it
tests the count in its own transaction.

`FloorStays` and `QuotaStays` are about sums over all leases. `SumOver` is what the fold of the
community modules computes; that it exists, is an integer and does not grow where no summand does
is proved by induction over the subsets in the order in which the fold picks their elements
(`PickInduction`, from the well-foundedness of the subset order in the library). `FloorKept` itself
is not inductive: space is tested when it is reserved and used later, and by then other leases may
have been admitted. `FloorInv` sums what each lease may yet come to take, its `Claim`: the
reservation, less a buffer, of a lease with a file or about to open one. Only an admission lets
the sum grow, and an admission counts all of it, since the bytes on the disk and what the ledger
still expects are together at least the claim (`ClaimCounted`, from `LagInv`: the ledger counts as
written at most a buffer more than there is). `FloorKept` follows, as a file holds at most its
claim and a buffer. Each step is `Calm` (claims and reserves no more) or `Admitted`.

**OfflineSpeech_proofs.** Of `SpeechSegments`: `SpeechInv` is `TypeOK`, `CursorInv` (unless failed; the buffer's
cursors in order, the watermark behind everything released), `SegmentInv` (segments in order and
before the watermark) and, for a faithful detector, that nothing has failed, which needs
`SpanInv` (the spans still to be consumed are in order), `ReachInv` (whatever the detector may
still name is kept) and `AgreementInv` (buffer and session agree which speech is open).
`NoPcmTwice` and the bounds on retained PCM hold for any detector, `FaithfulNeverFails`
is that the ring and the tolerance at a cut are just large enough.

`NoSpeechLost` (`SpeechCollected`) needs a second invariant, `CollectInv`, on top of that one and
again for any detector, as long as nothing has failed. `IslandInv`: the islands are in order,
the last of them are the spans still in hand, those before them are consumed. `CoverInv`:
every sample of a consumed island is in a segment; of the speech in hand every sample before
`canonical`; and after a forced end every sample from the last island to the watermark,
which is why speech that goes on just behind the cut may be moved to it. `MeetInv`:
every segment has a sample of a consumed island or belongs to the speech in hand, whose end
cannot be accepted before the segment starts, since `DirectMax` exceeds the tolerance `Prepad`.
At the end nothing is in hand, and `Collected` is what is left of the three.

Of `OfflineDiarization`: `DiarizationInv` holds for any lengths, windows, shifts and clusters and
says that nothing has failed. `InputInv` is `Collected`, each span related to all others. During
the merge, `CursorsInv`: what is covered ends at the start of the island in hand or with the
segment just passed, no passed segment reaches beyond it, and no passed island beyond the segment
in hand; so a gap in the PCM would be speech in no segment, a segment that met nothing would
have none. `PiecesInv`: the pieces are in order and are the speech in front of the cursors.
`WindowsInv`: the windows are, in order, the points of the grid so far that meet speech, and what
they hear is the speech in them. A grid with a shift of at most a window leaves no island out
(`IslandHasWindow`), which is what the checks of `BeginProject` need. `CellsInv`: the boundaries are
the midpoints, clipped. `RunsInv`: the runs of the island in hand follow each other, from
where the island starts or the last region ended to where the scan is, and every sample of a run
lies in a cell with its label. `RegionsInv`: the regions are in order, no longer than `RegionMax`,
each in an island, and are the speech in front of the island, or run, in hand. `WindowsHear` and
`RegionsPartition` are what is left at the end.

`NearestSpeaks` needs that the midpoints grow with the windows, so that a sample in
the cell of a window is nearer to its centre than to those before and no farther than
from those after (`NearestCell`); then `Nearest`, a CHOOSE, is that very window. Where a
cursor stops, and that a sample lies in some cell, is a least element of a set of numbers
(`LeastExists`, from the well-foundedness of < on Nat in the library).

**Transcription_proofs.** The invariant joins what the batch owes: `emitted` is always
`answered`, then `pending`, then `todo`, with each segment in its place on the axis
(`FlowInv`); who may call a model, and whether its check was before or after the
cancellation (`CallInv`); the decoder's state (`DecoderInv`); what has been told (`TellInv`,
`OrderInv`); and what holds at the end (`EndInv`). `SealedIsComplete`,
`DecoderIsClosedOnce`, `AtMostOneLateCall` and `SinksNeverRefuse` follow.

**Requests_proofs.** Of `AudioPump`: `PumpInv` says where readers and process group are when the
caller is at a given place (`CallerInv`: `stop()` reaches its joins only with the leader reaped
and the group dead or sent SIGKILL), that a reader ends with an error or at the end of a pipe
nobody will write to again (`BoundedInv`), and that what ffmpeg has written is at any time the
bytes in the pipe, in the reader's hand, in the queue of two, pending and yielded (`FlowInv`),
with the event of the end behind all of them. At the normal end the first four are empty:
`NormalEndsAreWhole`. `NothingLeftBehind` follows from the places.

Of `SyncRequest`: `RequestInv` says for each `await` of the coroutine whether a thread can be at
work (`ThreadInv`), what is left of the input (`InputInv`) and who has the artifact
(`ArtifactInv`, which counts the attempts to close it). `ThreadsAlwaysHaveFiles` and
`RequestsEndClean` hold for any number of cancellations and failing calls.

Of `StoredResult`: the deletion works in order. The phase leaves "visible" before the
file loses its name, and the name goes before the rows; so a reader that sees a visible
row under the lock finds its file. `NeverABrokenResult`, `NoNameWithoutLease`.

**SpeakerProfiles_proofs.** `UploadsInv` counts a request's samples (in the ledger, still to give
back, stuck), `ProfilesInv` says that keys are unique and each profile whole, `SnapshotInv`
that a snapshot was taken from such profiles. `NamesStayUnique`, `ProfilesStayWhole`,
`SnapshotsAreConsistent`, `AllSamplesReleased`, and `UpdatesGoForward` although the clock
may go back.

Only model-checked: the liveness properties, since fairness and ENABLED are out of the
prover's reach. Every invariant and action property of the runs is a theorem.

## Not modelled

* Processor selection (`composition.py` 84-107): a counter and a cursor under one lock that
  touch no other state; each module has one lane.
* The times of jobs, and with them the order of claims and of expiry; `ClaimRow` and the
  sweep take any job instead.
* Schema migrations (one transaction each, about DDL); the result envelope and its
  projections (text formats); embeddings, matching and clustering (floating point); model
  adapters, options and configuration (parsing); model artifacts (single-threaded,
  before serving); the client script and build scripts.
* HTTP framing and the parsing of ffprobe's answer.
* I/O errors on jobs' leases: they are in `StorageAdmission`; in `JobService`, where the
  code stops the executor, they are not. `ExecutorShutdown` has that stop.

Each part is listed with its reason in `PROJECT.json`. What would come next: deadlines of
requests together with `AudioPump`'s.
