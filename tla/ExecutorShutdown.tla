-------------------------- MODULE ExecutorShutdown --------------------------
(***************************************************************************)
(* The threads around JobExecutor (runtime.py): the executor thread with   *)
(* its loop, the main thread, which runs the event loop and on which       *)
(* Python also runs the signal handlers, the thread that writes the        *)
(* shutdown marker, and pool threads: one publishes jobs, in another the   *)
(* lifespan stops the executor.  JobService leaves the executor's lock,    *)
(* events and joins out; they are what this module is about, and jobs are  *)
(* numbers here.                                                           *)
(*                                                                         *)
(* threading.Lock is not reentrant, and a handler that runs on the main    *)
(* thread between two of its bytecodes cannot make the interrupted code go *)
(* on: a frame runs only if no handler runs on top of it.                  *)
(***************************************************************************)
EXTENDS Naturals

CONSTANTS
    Handlers,       \* bound: the signals that may come, one handler each
    SafeSignals,    \* assumption: signals come only while main holds no lock
    MaxAttempts     \* bound: jobs that may be published

ASSUME ShutdownAssumption ==
    /\ Handlers \subseteq {"handler1", "handler2"}
    /\ SafeSignals \in BOOLEAN
    /\ MaxAttempts \in Nat \ {0}

VARIABLES
    pc,             \* where each frame is
    lock,           \* who holds _lock
    exiting,        \* uvicorn's should_exit
    queued,         \* jobs published and not claimed
    started, ready, stopping, failure,          \* the executor's flags
    stopStarted, stopComplete, stopError,
    wake, markerDone, markerWritten,            \* two events, and the marker
    attempts,       \* jobs claimed so far; the last may be in hand
    active,         \* the attempt registered for cancellation, 0 if none
    settled,        \* the attempts whose job has ended
    givenBack,      \* the attempts given back at shutdown
    cancelled,      \* the attempts whose Cancellation is set
    seen            \* the attempt a frame has read as active

server == <<exiting, queued>>
flags == <<started, ready, stopping, failure>>
stops == <<stopStarted, stopComplete, stopError>>
marks == <<markerDone, markerWritten>>
work == <<attempts, active, settled, givenBack>>
cancels == <<cancelled, seen>>
vars == <<pc, lock, server, flags, stops, wake, marks, work, cancels>>

Nobody == "nobody"
Stoppers == {"main", "pool"}
Callers == Stoppers \cup {"handler1", "handler2"}
Frames == Callers \cup {"worker", "marker", "request"}

Idle(f) == pc[f] \in {"none", "gone"}

(* A handler suspends what is below it on the main thread.                 *)
Runs(f) ==
    CASE f = "main" -> Idle("handler1") /\ Idle("handler2")
      [] f = "handler1" -> Idle("handler2")
      [] OTHER -> TRUE

At(f, place) == Runs(f) /\ pc[f] = place
Goes(f, place) == pc' = [pc EXCEPT ![f] = place]

Init ==
    /\ pc = [f \in Frames |-> IF f = "main" THEN "boot" ELSE "none"]
    /\ lock = Nobody
    /\ exiting = FALSE /\ queued = 0
    /\ started = FALSE /\ ready = FALSE /\ stopping = FALSE /\ failure = FALSE
    /\ stopStarted = FALSE /\ stopComplete = FALSE /\ stopError = FALSE
    /\ wake = FALSE /\ markerDone = FALSE /\ markerWritten = FALSE
    /\ attempts = 0 /\ active = 0 /\ settled = {} /\ givenBack = {}
    /\ cancelled = {} /\ seen = [f \in Callers |-> 0]

(* Entering and leaving "with self._lock".  Where no handler can come in   *)
(* between, a section is one step.                                         *)
Enters(f, from, to) ==
    /\ At(f, from)
    /\ lock = Nobody
    /\ lock' = f
    /\ Goes(f, to)
    /\ UNCHANGED <<server, flags, stops, wake, marks, work, cancels>>

Leaves(f, from) == At(f, from) /\ lock' = Nobody
Section(f, from) == At(f, from) /\ lock = Nobody /\ UNCHANGED lock
Outside(f, from) == At(f, from) /\ UNCHANGED lock

-----------------------------------------------------------------------------
(* start(), in the lifespan: the lock is held while the thread starts.     *)
(* After a signal the executor is stopped already.                         *)
BeginStart == Enters("main", "boot", "starting")

StartThread ==
    /\ Leaves("main", "starting")
    /\ ~stopping
    /\ started' = TRUE /\ ready' = TRUE
    /\ pc' = [pc EXCEPT !["main"] = "loop", !["worker"] = "clear"]
    /\ UNCHANGED <<server, stopping, failure, stops, wake, marks, work, cancels>>

StartFails ==
    /\ Leaves("main", "starting")
    /\ Goes("main", "exit")
    /\ UNCHANGED <<server, flags, stops, wake, marks, work, cancels>>

(* What requests do on the event loop: look at ready, and cancel the       *)
(* active attempt.                                                         *)
LookReady == Enters("main", "loop", "ready")

LookedReady ==
    /\ Leaves("main", "ready")
    /\ Goes("main", "loop")
    /\ UNCHANGED <<server, flags, stops, wake, marks, work, cancels>>

LookActive == Enters("main", "loop", "notify")

LookedActive ==
    /\ Leaves("main", "notify")
    /\ seen' = [seen EXCEPT !["main"] = active]
    /\ Goes("main", IF active = 0 THEN "loop" ELSE "cancel")
    /\ UNCHANGED <<server, flags, stops, wake, marks, work, cancelled>>

CancelActive ==
    /\ Outside("main", "cancel")
    /\ cancelled' = cancelled \cup {seen["main"]}
    /\ Goes("main", "loop")
    /\ UNCHANGED <<server, flags, stops, wake, marks, work, seen>>

(* A job is published, and the executor woken, in a pool thread.           *)
Publish ==
    /\ Outside("request", "none")
    /\ pc["main"] \in {"loop", "ready", "notify", "cancel", "closing"}
    /\ attempts + queued < MaxAttempts
    /\ queued' = queued + 1
    /\ Goes("request", "wake")
    /\ UNCHANGED <<exiting, flags, stops, wake, marks, work, cancels>>

Wake ==
    /\ Outside("request", "wake")
    /\ wake' = TRUE
    /\ Goes("request", "none")
    /\ UNCHANGED <<server, flags, stops, marks, work, cancels>>

(* The server has been told to exit: the lifespan stops the executor in a  *)
(* pool thread, and main() stops it again when the server has returned.    *)
CloseLifespan ==
    /\ Outside("main", "loop")
    /\ exiting
    /\ pc' = [pc EXCEPT !["main"] = "closing", !["pool"] = "begin"]
    /\ UNCHANGED <<server, flags, stops, wake, marks, work, cancels>>

LifespanClosed ==
    /\ Outside("main", "closing")
    /\ pc["pool"] \in {"stopped", "raised"}
    /\ Goes("main", "exit")
    /\ UNCHANGED <<server, flags, stops, wake, marks, work, cancels>>

StopInMain ==
    /\ Outside("main", "exit")
    /\ Goes("main", "begin")
    /\ UNCHANGED <<server, flags, stops, wake, marks, work, cancels>>

(* While the server runs, a signal sets should_exit and calls              *)
(* begin_shutdown on the main thread, wherever that is.                    *)
Serving ==
    pc["main"] \in {"boot", "starting", "loop", "ready", "notify", "cancel", "closing"}

MainHoldsNothing == lock \notin {"main", "handler1", "handler2"}

Signal(h) ==
    /\ Serving
    /\ pc[h] = "none"
    /\ h = "handler2" => pc["handler1"] # "none"
    /\ SafeSignals => MainHoldsNothing
    /\ exiting' = TRUE
    /\ Goes(h, "begin")
    /\ UNCHANGED <<lock, queued, flags, stops, wake, marks, work, cancels>>

-----------------------------------------------------------------------------
(* begin_shutdown, in whatever frame calls it.                             *)
EnterStopping(f) == Enters(f, "begin", "stopping")

SetStopping(f) ==
    /\ Leaves(f, "stopping")
    /\ IF stopping
         THEN Goes(f, "returned") /\ UNCHANGED <<stopping, ready, seen>>
         ELSE /\ stopping' = TRUE /\ ready' = FALSE
              /\ seen' = [seen EXCEPT ![f] = active]
              /\ Goes(f, IF started /\ ~failure THEN "tell and mark" ELSE "tell")
    /\ UNCHANGED <<server, started, failure, stops, wake, marks, work, cancelled>>

(* The active attempt is cancelled and the executor woken; there is        *)
(* nothing to mark if it does not run.                                     *)
Tell(f) ==
    /\ cancelled' = IF seen[f] = 0 THEN cancelled ELSE cancelled \cup {seen[f]}
    /\ wake' = TRUE
    /\ \/ Outside(f, "tell and mark") /\ Goes(f, "mark") /\ UNCHANGED markerDone
       \/ Outside(f, "tell") /\ Goes(f, "returned") /\ markerDone' = TRUE
    /\ UNCHANGED <<server, flags, stops, markerWritten, work, seen>>

EnterMarking(f) == Enters(f, "mark", "marking")

StartMarker(f) ==
    /\ Leaves(f, "marking")
    /\ \/ pc' = [pc EXCEPT ![f] = "returned", !["marker"] = "write"]
       \/ Goes(f, "unmark")
    /\ UNCHANGED <<server, flags, stops, wake, marks, work, cancels>>

(* Fault: nobody is told that there will be no marker.                     *)
MarkerNotStartedSilently(f) ==
    /\ Section(f, "unmark")
    /\ stopError' = TRUE
    /\ Goes(f, "returned")
    /\ UNCHANGED <<server, flags, stopStarted, stopComplete, wake, marks, work, cancels>>

MarkerNotStarted(f) ==
    /\ Section(f, "unmark")
    /\ stopError' = TRUE
    /\ markerDone' = TRUE
    /\ Goes(f, "returned")
    /\ UNCHANGED <<server, flags, stopStarted, stopComplete, wake, markerWritten, work, cancels>>

HandlerReturns(h) ==
    /\ Outside(h, "returned")
    /\ Goes(h, "gone")
    /\ UNCHANGED <<server, flags, stops, wake, marks, work, cancels>>

(* stop(): the first caller waits for the marker and joins both threads,   *)
(* later ones wait for the first; all of them raise the first error.       *)
ClaimStop(f) ==
    /\ Section(f, "returned")
    /\ stopStarted' = TRUE
    /\ Goes(f, IF stopStarted THEN "follow" ELSE "await")
    /\ UNCHANGED <<server, flags, stopComplete, stopError, wake, marks, work, cancels>>

AwaitMarker(f) ==
    /\ Outside(f, "await")
    /\ markerDone
    /\ Goes(f, "join")
    /\ UNCHANGED <<server, flags, stops, wake, marks, work, cancels>>

(* Fault: only the marker's thread is joined.                              *)
JoinMarker(f) ==
    /\ Outside(f, "join")
    /\ Idle("marker")
    /\ stopComplete' = TRUE
    /\ Goes(f, "raise")
    /\ UNCHANGED <<server, flags, stopStarted, stopError, wake, marks, work, cancels>>

Join(f) ==
    /\ Outside(f, "join")
    /\ Idle("marker") /\ Idle("worker")
    /\ stopComplete' = TRUE
    /\ Goes(f, "raise")
    /\ UNCHANGED <<server, flags, stopStarted, stopError, wake, marks, work, cancels>>

Follow(f) ==
    /\ Outside(f, "follow")
    /\ stopComplete
    /\ Goes(f, "raise")
    /\ UNCHANGED <<server, flags, stops, wake, marks, work, cancels>>

RaiseStopError(f) ==
    /\ Section(f, "raise")
    /\ Goes(f, IF stopError THEN "raised" ELSE "stopped")
    /\ UNCHANGED <<server, flags, stops, wake, marks, work, cancels>>

-----------------------------------------------------------------------------
(* _write_shutdown_marker.                                                 *)
WriteMarker ==
    /\ Outside("marker", "write")
    /\ Goes("marker", "written") \/ Goes("marker", "failed")
    /\ UNCHANGED <<server, flags, stops, wake, marks, work, cancels>>

RecordMarker ==
    /\ \/ /\ Section("marker", "written")
          /\ markerWritten' = TRUE /\ UNCHANGED stopError
       \/ /\ Section("marker", "failed")
          /\ stopError' = TRUE /\ UNCHANGED markerWritten
    /\ Goes("marker", "set")
    /\ UNCHANGED <<server, flags, stopStarted, stopComplete, wake, markerDone, work, cancels>>

SetMarkerDone ==
    /\ Outside("marker", "set")
    /\ markerDone' = TRUE
    /\ Goes("marker", "gone")
    /\ UNCHANGED <<server, flags, stops, wake, markerWritten, work, cancels>>

MarkerOnDisk == markerWritten \/ pc["marker"] = "written"

-----------------------------------------------------------------------------
(* _run.  The event is cleared before the queue is looked at.              *)
ClearWake ==
    /\ Outside("worker", "clear")
    /\ wake' = FALSE
    /\ Goes("worker", "check")
    /\ UNCHANGED <<server, flags, stops, marks, work, cancels>>

CheckStopping ==
    /\ Section("worker", "check")
    /\ Goes("worker", IF stopping \/ failure THEN "gone" ELSE "claim")
    /\ UNCHANGED <<server, flags, stops, wake, marks, work, cancels>>

Claim ==
    /\ Outside("worker", "claim")
    /\ queued > 0 /\ ~MarkerOnDisk
    /\ queued' = queued - 1
    /\ attempts' = attempts + 1
    /\ Goes("worker", "register")
    /\ UNCHANGED <<exiting, flags, stops, wake, marks, active, settled, givenBack, cancels>>

ClaimNothing ==
    /\ Outside("worker", "claim")
    /\ queued = 0 \/ MarkerOnDisk
    /\ Goes("worker", "idle")
    /\ UNCHANGED <<server, flags, stops, wake, marks, work, cancels>>

ClaimRaises ==
    /\ Outside("worker", "claim")
    /\ Goes("worker", "claim raised")
    /\ UNCHANGED <<server, flags, stops, wake, marks, work, cancels>>

(* An error of the executor is a stop error during the stop, a failure     *)
(* before.                                                                 *)
Records ==
    IF stopping THEN stopError' = TRUE /\ UNCHANGED <<failure, ready>>
                ELSE failure' = TRUE /\ ready' = FALSE /\ UNCHANGED stopError

DieOfClaim ==
    /\ Section("worker", "claim raised")
    /\ Records
    /\ Goes("worker", "gone")
    /\ UNCHANGED <<server, started, stopping, stopStarted, stopComplete, wake, marks, work, cancels>>

(* Fault: the event is cleared when the executor goes to sleep.            *)
CheckIdleClearing ==
    /\ Section("worker", "idle")
    /\ wake' = FALSE
    /\ Goes("worker", IF stopping \/ failure THEN "gone" ELSE "sleep")
    /\ UNCHANGED <<server, flags, stops, marks, work, cancels>>

CheckIdle ==
    /\ Section("worker", "idle")
    /\ Goes("worker", IF stopping \/ failure THEN "gone" ELSE "sleep")
    /\ UNCHANGED <<server, flags, stops, wake, marks, work, cancels>>

(* The wait ends when the event is set, or after a second.                 *)
Awake ==
    /\ Outside("worker", "sleep")
    /\ Goes("worker", "clear")
    /\ UNCHANGED <<server, flags, stops, wake, marks, work, cancels>>

(* An attempt claimed during the stop is cancelled and never runs.         *)
Register ==
    /\ Section("worker", "register")
    /\ active' = attempts
    /\ IF stopping
         THEN cancelled' = cancelled \cup {attempts} /\ Goes("worker", "give back")
         ELSE UNCHANGED cancelled /\ Goes("worker", "run")
    /\ UNCHANGED <<server, flags, stops, wake, marks, attempts, settled, givenBack, seen>>

(* The attempt ends its job, raises, or gives up because it is cancelled   *)
(* by the stop.                                                            *)
Run ==
    /\ Outside("worker", "run")
    /\ \/ Goes("worker", "ended") /\ settled' = settled \cup {attempts}
       \/ Goes("worker", "run raised") /\ UNCHANGED settled
       \/ /\ stopping /\ attempts \in cancelled
          /\ Goes("worker", "ended") /\ UNCHANGED settled
    /\ UNCHANGED <<server, flags, stops, wake, marks, attempts, active, givenBack, cancels>>

(* During a stop the attempt stays on record until it is given back.       *)
EndRun ==
    /\ \/ Section("worker", "ended") /\ UNCHANGED <<failure, ready, stopError>>
       \/ Section("worker", "run raised") /\ Records
    /\ active' = IF stopping THEN active ELSE 0
    /\ Goes("worker", IF stopping THEN "give back"
                      ELSE IF pc["worker"] = "ended" THEN "clear" ELSE "gone")
    /\ UNCHANGED <<server, started, stopping, stopStarted, stopComplete, wake, marks,
                   attempts, settled, givenBack, cancels>>

(* Fault: the executor does not wait for the marker.                       *)
MayGiveBackEarly == TRUE

(* Once the marker is there, or cannot be, the attempt is given back.      *)
MayGiveBack == markerDone

SeeMarker ==
    /\ Section("worker", "give back")
    /\ MayGiveBack
    /\ Goes("worker", IF markerWritten THEN "requeue" ELSE "leave")
    /\ UNCHANGED <<server, flags, stops, wake, marks, work, cancels>>

Requeue ==
    /\ \/ Outside("worker", "requeue") /\ givenBack' = givenBack \cup {attempts}
          /\ Goes("worker", "leave") /\ UNCHANGED stopError
       \/ Section("worker", "requeue") /\ stopError' = TRUE
          /\ Goes("worker", "leave") /\ UNCHANGED givenBack
    /\ UNCHANGED <<server, flags, stopStarted, stopComplete, wake, marks,
                   attempts, active, settled, cancels>>

Leave ==
    /\ Section("worker", "leave")
    /\ active' = 0
    /\ Goes("worker", "gone")
    /\ UNCHANGED <<server, flags, stops, wake, marks, attempts, settled, givenBack, cancels>>

-----------------------------------------------------------------------------
MainStep ==
    \/ BeginStart \/ StartThread \/ StartFails
    \/ LookReady \/ LookedReady \/ LookActive \/ LookedActive \/ CancelActive
    \/ CloseLifespan \/ LifespanClosed \/ StopInMain

ShutdownStep(f) ==
    \/ EnterStopping(f) \/ SetStopping(f) \/ Tell(f)
    \/ EnterMarking(f) \/ StartMarker(f) \/ MarkerNotStarted(f)

StopStep(f) ==
    ShutdownStep(f) \/ ClaimStop(f) \/ AwaitMarker(f) \/ Join(f) \/ Follow(f) \/ RaiseStopError(f)

HandlerStep(h) == ShutdownStep(h) \/ HandlerReturns(h)

RequestStep == Publish \/ Wake

MarkerStep == WriteMarker \/ RecordMarker \/ SetMarkerDone

WorkerStep ==
    \/ ClearWake \/ CheckStopping \/ Claim \/ ClaimNothing \/ ClaimRaises \/ DieOfClaim
    \/ CheckIdle \/ Awake \/ Register \/ Run \/ EndRun \/ SeeMarker \/ Requeue \/ Leave

Ended == pc["main"] \in {"stopped", "raised"} /\ UNCHANGED vars

Next ==
    \/ MainStep
    \/ \E f \in Stoppers : StopStep(f)
    \/ \E h \in Handlers : Signal(h) \/ HandlerStep(h)
    \/ RequestStep \/ MarkerStep \/ WorkerStep
    \/ Ended

Spec == Init /\ [][Next]_vars

(* Threads are scheduled, and one that waits for a lock which is free      *)
(* again and again gets it.  A server told to exit closes its lifespan.    *)
Fairness ==
    /\ WF_vars(MainStep) /\ SF_vars(CloseLifespan)
    /\ \A f \in Stoppers : SF_vars(StopStep(f))
    /\ \A h \in Handlers : SF_vars(HandlerStep(h))
    /\ WF_vars(Wake) /\ SF_vars(MarkerStep) /\ SF_vars(WorkerStep)

FairSpec == Spec /\ Fairness

-----------------------------------------------------------------------------
(* The executor does not sleep while a job is queued and nobody is about   *)
(* to wake it: it never has to wait for the idle timeout.                  *)
NoSleepOverWork ==
    pc["worker"] = "sleep" /\ queued > 0 /\ ~stopping
       => wake \/ pc["request"] = "wake"

(* An attempt that is in hand when the executor stops is given back, or    *)
(* its job has ended, or somebody is told; it is given back only once the  *)
(* marker is on disk, so that no other process takes it for crashed.       *)
NoAttemptLost ==
    /\ pc["worker"] = "gone" /\ attempts > 0 =>
          attempts \in settled \cup givenBack \/ stopError \/ failure
    /\ givenBack # {} => MarkerOnDisk

(* Whoever returns from stop() without an exception has missed none: both  *)
(* threads are gone and nothing has gone wrong or will.                    *)
StopReportsErrors ==
    \A f \in Stoppers : pc[f] = "stopped" => ~stopError /\ Idle("worker") /\ Idle("marker")

(* Every stop() returns or raises: the waits for the marker, for the       *)
(* threads and for the other stop() never form a circle.                   *)
StopReturns ==
    \A f \in Stoppers : pc[f] = "begin" ~> pc[f] \in {"stopped", "raised"}

=============================================================================
