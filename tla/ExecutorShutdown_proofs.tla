---------------------- MODULE ExecutorShutdown_proofs ----------------------
(***************************************************************************)
(* The safety properties of ExecutorShutdown, for any number of jobs and   *)
(* signals at any moment, also where they may come while the main thread   *)
(* holds the lock.  One frame alone gets to announce the stop (Announcing) *)
(* and starts the marker's thread or says why there is none; everything    *)
(* after that follows from when markerDone is set.                         *)
(***************************************************************************)
EXTENDS ExecutorShutdown, TLAPS

\* The frame that has set stopping, until the marker is somebody else's.
Announcing == {"tell and mark", "tell", "mark", "marking", "unmark"}
AfterStop == {"returned", "await", "join", "follow", "raise", "stopped", "raised"}

\* pc has a place for every frame.
FramesOK == pc = [f \in Frames |-> pc[f]]

\* Before the stop nothing of it has happened.
Quiet ==
    /\ ~markerDone /\ ~markerWritten /\ ~stopComplete /\ pc["marker"] = "none"
    /\ \A f \in Callers : pc[f] \notin Announcing \cup AfterStop

\* One frame announces the stop; it has not yet told that the marker is done.
OneAnnounces ==
    \A f \in Callers : pc[f] \in Announcing =>
        /\ ~markerDone /\ ~markerWritten /\ pc["marker"] = "none"
        /\ \A g \in Callers : pc[g] \in Announcing => g = f
        /\ pc[f] = "tell" => ~started \/ failure

\* Where an error is known that explains a missing marker.
Excused == stopError \/ failure

MarkerInv ==
    /\ markerDone => Idle("marker") /\ (markerWritten \/ Excused \/ ~started)
    /\ pc["marker"] = "set" => markerWritten \/ Excused

\* What a stop() that has come so far relies on.
StopperInv ==
    /\ stopComplete => markerDone /\ Idle("worker")
    /\ \A f \in Callers :
          /\ pc[f] = "join" => markerDone
          /\ pc[f] = "raise" => stopComplete
          /\ pc[f] = "stopped" => stopComplete /\ ~stopError

\* The executor has nothing in hand, or whoever has claimed it is told.
Done == attempts = 0 \/ attempts \in settled
Explained == Done \/ attempts \in givenBack \/ Excused

WorkerInv ==
    /\ pc["main"] \in {"boot", "starting"} => pc["worker"] = "none" /\ ~started
    /\ pc["worker"] = "none" => attempts = 0
    /\ pc["worker"] # "none" => started
    /\ pc["worker"] \in {"clear", "check", "claim", "claim raised", "idle", "sleep"} => Done
    /\ pc["worker"] \in {"ended"} => Done \/ stopping
    /\ pc["worker"] \in {"leave", "gone"} => Explained
    /\ pc["worker"] = "requeue" \/ givenBack # {} => markerWritten

\* From the look at the queue to the end of the sleep.
WakeInv ==
    pc["worker"] \in {"idle", "sleep"} /\ queued > 0 /\ ~stopping =>
        wake \/ pc["request"] = "wake"

ShutdownInv ==
    /\ FramesOK
    /\ ~stopping => Quiet
    /\ OneAnnounces /\ MarkerInv /\ StopperInv /\ WorkerInv /\ WakeInv

-----------------------------------------------------------------------------
\* The frames that may announce the stop are none of the other threads.
LEMMA FrameNames ==
    /\ Callers \subseteq Frames /\ {"worker", "marker", "request"} \subseteq Frames
    /\ \A f \in Callers : f \notin {"worker", "marker", "request"}
    /\ "main" \in Callers /\ "pool" \in Callers
    /\ Handlers \subseteq Callers /\ Stoppers \subseteq Callers
BY ShutdownAssumption DEF Frames, Callers, Stoppers

\* One frame moves.
LEMMA Moved ==
    ASSUME FramesOK, NEW f \in Frames, NEW p, Goes(f, p)
    PROVE  /\ FramesOK' /\ pc'[f] = p
           /\ \A g \in Frames : g # f => pc'[g] = pc[g]
BY DEF FramesOK, Goes

\* The process begins with nothing announced.
LEMMA InitInv == Init => ShutdownInv
<1> SUFFICES ASSUME Init PROVE ShutdownInv
  OBVIOUS
<1>1. /\ pc["worker"] = "none" /\ pc["marker"] = "none"
      /\ \A f \in Callers : pc[f] \in {"boot", "none"}
  BY FrameNames DEF Init
<1> QED
  BY <1>1
     DEF Init, FramesOK, ShutdownInv, Quiet, OneAnnounces, MarkerInv, StopperInv, WorkerInv,
         WakeInv, Announcing, AfterStop, Idle, Done, Explained

-----------------------------------------------------------------------------
\* The main thread goes on outside of begin_shutdown and stop.
LEMMA MainMoves ==
    ASSUME ShutdownInv, NEW p, Goes("main", p),
           pc["main"] \notin Announcing \cup AfterStop, p \notin Announcing \cup AfterStop,
           p \in {"boot", "starting"} => pc["main"] \in {"boot", "starting"},
           UNCHANGED <<flags, stops, wake, marks, queued, attempts, settled, givenBack>>
    PROVE  ShutdownInv'
<1>1. FramesOK' /\ pc'["main"] = p /\ \A f \in Frames : f # "main" => pc'[f] = pc[f]
  BY FrameNames, Moved DEF ShutdownInv
<1>2. /\ \A f \in Callers : pc'[f] \in Announcing \cup AfterStop => pc'[f] = pc[f]
      /\ \A f \in {"worker", "marker", "request"} : pc'[f] = pc[f]
  BY <1>1, FrameNames
<1>3. (~stopping => Quiet)' /\ OneAnnounces'
  BY <1>2 DEF ShutdownInv, Quiet, OneAnnounces, flags, stops, marks
<1>4. MarkerInv' /\ StopperInv'
  BY <1>2 DEF ShutdownInv, MarkerInv, StopperInv, Excused, Idle, AfterStop, flags, stops, marks
<1>5. WorkerInv' /\ WakeInv'
  BY <1>1, <1>2 DEF ShutdownInv, WorkerInv, WakeInv, Done, Explained, Excused, flags, stops, marks
<1> QED
  BY <1>1, <1>3, <1>4, <1>5 DEF ShutdownInv

\* start, the serving and the closing of the server.
LEMMA MainKeepsInv ==
    ASSUME ShutdownInv, MainStep
    PROVE  ShutdownInv'
<1> USE DEF Announcing, AfterStop, server, stops, marks, work
<1>1. CASE BeginStart
  BY <1>1, MainMoves DEF BeginStart, Enters, At
<1>2. CASE StartThread
  <2>1. /\ FramesOK' /\ pc'["main"] = "loop" /\ pc'["worker"] = "clear"
        /\ \A f \in Frames : f \notin {"main", "worker"} => pc'[f] = pc[f]
    BY <1>2, FrameNames DEF StartThread, ShutdownInv, FramesOK
  <2>2. /\ \A f \in Callers : pc'[f] \in Announcing \cup AfterStop => pc'[f] = pc[f]
        /\ \A f \in {"marker", "request"} : pc'[f] = pc[f]
    BY <2>1, FrameNames
  <2>3. Quiet /\ ~stopping' /\ UNCHANGED <<stops, marks, wake, work, queued, failure>>
    BY <1>2 DEF StartThread, ShutdownInv
  <2>4. Quiet' /\ OneAnnounces'
    BY <2>2, <2>3 DEF Quiet, OneAnnounces
  <2>5. MarkerInv' /\ StopperInv'
    BY <2>2, <2>3 DEF Quiet, MarkerInv, StopperInv, Idle
  <2>6. attempts = 0 /\ givenBack = {} /\ started'
    BY <1>2, <2>3 DEF StartThread, Leaves, At, ShutdownInv, WorkerInv, Quiet
  <2>7. WorkerInv' /\ WakeInv'
    BY <2>1, <2>3, <2>6 DEF WorkerInv, WakeInv, Done
  <2> QED
    BY <2>1, <2>3, <2>4, <2>5, <2>7 DEF ShutdownInv
<1>3. CASE StartFails
  BY <1>3, MainMoves DEF StartFails, Leaves, At
<1>4. CASE LookReady \/ LookActive
  BY <1>4, MainMoves DEF LookReady, LookActive, Enters, At
<1>5. CASE LookedReady \/ LookedActive
  BY <1>5, MainMoves DEF LookedReady, LookedActive, Leaves, At
<1>6. CASE CancelActive \/ LifespanClosed \/ StopInMain
  BY <1>6, MainMoves DEF CancelActive, LifespanClosed, StopInMain, Outside, At
<1>7. CASE CloseLifespan
  <2>1. /\ FramesOK' /\ pc'["main"] = "closing" /\ pc'["pool"] = "begin"
        /\ \A f \in Frames : f \notin {"main", "pool"} => pc'[f] = pc[f]
    BY <1>7, FrameNames DEF CloseLifespan, ShutdownInv, FramesOK
  <2>2. /\ \A f \in Callers : pc'[f] \in Announcing \cup AfterStop => pc'[f] = pc[f]
        /\ \A f \in {"worker", "marker", "request"} : pc'[f] = pc[f]
    BY <2>1, FrameNames
  <2>3. UNCHANGED <<flags, stops, wake, marks, queued, work>>
    BY <1>7 DEF CloseLifespan
  <2>4. (~stopping => Quiet)' /\ OneAnnounces'
    BY <2>2, <2>3 DEF ShutdownInv, Quiet, OneAnnounces, flags
  <2>5. MarkerInv' /\ StopperInv'
    BY <2>2, <2>3 DEF ShutdownInv, MarkerInv, StopperInv, Excused, Idle, flags
  <2>6. WorkerInv' /\ WakeInv'
    BY <2>1, <2>2, <2>3 DEF ShutdownInv, WorkerInv, WakeInv, Done, Explained, Excused, flags
  <2> QED
    BY <2>1, <2>4, <2>5, <2>6 DEF ShutdownInv
<1> QED
  BY <1>1, <1>2, <1>3, <1>4, <1>5, <1>6, <1>7 DEF MainStep

-----------------------------------------------------------------------------
\* A job is published, or the executor woken.
LEMMA RequestKeepsInv ==
    ASSUME ShutdownInv, RequestStep
    PROVE  ShutdownInv'
<1>1. /\ UNCHANGED <<flags, stops, marks, work>>
      /\ \/ Goes("request", "wake") /\ wake' = wake
         \/ Goes("request", "none") /\ wake' /\ queued' = queued
  BY DEF RequestStep, Publish, Wake, server
<1>2. /\ FramesOK' /\ (pc'["request"] = "wake" \/ wake')
      /\ \A f \in Frames : f # "request" => pc'[f] = pc[f]
  BY <1>1, FrameNames, Moved DEF ShutdownInv
<1>3. (\A f \in Callers : pc'[f] = pc[f]) /\ \A f \in {"worker", "marker"} : pc'[f] = pc[f]
  BY <1>2, FrameNames
<1> USE DEF flags, stops, marks, work
<1>4. (~stopping => Quiet)' /\ OneAnnounces'
  BY <1>1, <1>3 DEF ShutdownInv, Quiet, OneAnnounces
<1>5. MarkerInv' /\ StopperInv'
  BY <1>1, <1>3 DEF ShutdownInv, MarkerInv, StopperInv, Excused, Idle
<1>6. WorkerInv' /\ WakeInv'
  BY <1>1, <1>2, <1>3, FrameNames
  DEF ShutdownInv, WorkerInv, WakeInv, Done, Explained, Excused
<1> QED
  BY <1>2, <1>4, <1>5, <1>6 DEF ShutdownInv

-----------------------------------------------------------------------------
\* A caller of begin_shutdown or stop moves, and the executor does not.
LEMMA CallerMoves ==
    ASSUME ShutdownInv, NEW f \in Callers, pc'[f] \notin {"boot", "starting"},
           \A g \in Frames : g \notin {f, "marker"} => pc'[g] = pc[g],
           UNCHANGED <<started, failure, markerWritten, queued, work>>,
           wake => wake', stopping => stopping', stopError => stopError'
    PROVE  WorkerInv' /\ WakeInv'
<1>1. /\ pc'["worker"] = pc["worker"] /\ pc'["request"] = pc["request"]
      /\ pc'["main"] \in {"boot", "starting"} => pc'["main"] = pc["main"]
  BY FrameNames
<1> QED
  BY <1>1 DEF ShutdownInv, WorkerInv, WakeInv, Done, Explained, Excused, work

\* begin_shutdown: whoever comes first announces the stop.
LEMMA ShutdownKeepsInv ==
    ASSUME ShutdownInv, NEW f \in Callers, ShutdownStep(f)
    PROVE  ShutdownInv'
<1> USE DEF Announcing, AfterStop, server, flags, stops, marks, work
<1>0. FramesOK /\ f \in Frames /\ \A g \in Callers : g # "marker"
  BY FrameNames DEF ShutdownInv
<1>1. CASE EnterStopping(f) \/ EnterMarking(f)
  <2>1. PICK p : /\ Goes(f, p) /\ UNCHANGED <<flags, stops, wake, marks, queued, work>>
                 /\ \/ pc[f] = "begin" /\ p = "stopping"
                    \/ pc[f] = "mark" /\ p = "marking"
    BY <1>1 DEF EnterStopping, EnterMarking, Enters, At
  <2>2. FramesOK' /\ pc'[f] = p /\ \A g \in Frames : g # f => pc'[g] = pc[g]
    BY <1>0, <2>1, Moved
  <2>3. /\ \A g \in Callers : pc'[g] \in Announcing =>
              (pc[g] \in Announcing /\ pc'[g] # "tell") \/ pc'[g] = pc[g]
        /\ \A g \in Callers : pc'[g] \in AfterStop => pc'[g] = pc[g]
        /\ pc'["marker"] = pc["marker"] /\ pc'["worker"] = pc["worker"]
    BY <1>0, <2>1, <2>2, FrameNames
  <2>4. (~stopping => Quiet)' /\ OneAnnounces'
    BY <2>1, <2>3 DEF ShutdownInv, Quiet, OneAnnounces
  <2>5. MarkerInv' /\ StopperInv'
    BY <2>1, <2>3 DEF ShutdownInv, MarkerInv, StopperInv, Excused, Idle
  <2>6. WorkerInv' /\ WakeInv'
    BY <2>1, <2>2, CallerMoves
  <2> QED
    BY <2>2, <2>4, <2>5, <2>6 DEF ShutdownInv
<1>2. CASE SetStopping(f)
  <2>1. /\ UNCHANGED <<started, failure, stops, wake, marks, queued, work>> /\ stopping'
        /\ \E p : Goes(f, p) /\ \/ stopping /\ p = "returned"
                                \/ ~stopping /\ p = "tell and mark"
                                \/ ~stopping /\ p = "tell" /\ (~started \/ failure)
    BY <1>2 DEF SetStopping
  <2>2. /\ FramesOK' /\ (\A g \in Frames : g # f => pc'[g] = pc[g])
        /\ \/ stopping /\ pc'[f] = "returned"
           \/ ~stopping /\ pc'[f] = "tell and mark"
           \/ ~stopping /\ pc'[f] = "tell" /\ (~started \/ failure)
    BY <1>0, <2>1, Moved
  <2>3. /\ pc'["marker"] = pc["marker"] /\ pc'["worker"] = pc["worker"]
        /\ \A g \in Callers : g # f => pc'[g] = pc[g]
    BY <1>0, <2>2, FrameNames
  <2>4. OneAnnounces'
    BY <2>1, <2>2, <2>3 DEF ShutdownInv, Quiet, OneAnnounces
  <2>5. MarkerInv' /\ StopperInv'
    BY <2>1, <2>2, <2>3 DEF ShutdownInv, MarkerInv, StopperInv, Excused, Idle
  <2>6. WorkerInv' /\ WakeInv'
    BY <2>1, <2>2, CallerMoves
  <2> QED
    BY <2>1, <2>2, <2>4, <2>5, <2>6 DEF ShutdownInv
<1>3. CASE Tell(f)
  <2>1. /\ UNCHANGED <<flags, stops, markerWritten, queued, work>> /\ wake'
        /\ \/ pc[f] = "tell and mark" /\ Goes(f, "mark") /\ markerDone' = markerDone
           \/ pc[f] = "tell" /\ Goes(f, "returned") /\ markerDone'
    BY <1>3 DEF Tell, Outside, At
  <2>2. /\ FramesOK' /\ (\A g \in Frames : g # f => pc'[g] = pc[g])
        /\ \/ pc[f] = "tell and mark" /\ pc'[f] = "mark" /\ markerDone' = markerDone
           \/ pc[f] = "tell" /\ pc'[f] = "returned" /\ markerDone'
    BY <1>0, <2>1, Moved
  <2>3. /\ pc'["marker"] = pc["marker"] /\ pc'["worker"] = pc["worker"]
        /\ \A g \in Callers : g # f => pc'[g] = pc[g]
    BY <1>0, <2>2, FrameNames
  <2>4. stopping /\ ~markerDone /\ pc["marker"] = "none"
        /\ (\A g \in Callers : pc[g] \in Announcing => g = f)
        /\ (pc[f] = "tell" => ~started \/ failure)
    BY <2>2 DEF ShutdownInv, Quiet, OneAnnounces
  <2>5. OneAnnounces'
    BY <2>1, <2>2, <2>3, <2>4 DEF ShutdownInv, OneAnnounces
  <2>6. MarkerInv'
    <3>1. Idle("marker")' /\ pc'["marker"] # "set"
      BY <2>3, <2>4 DEF Idle
    <3>2. markerDone' => ~started' \/ failure'
      BY <2>1, <2>2, <2>4
    <3> QED
      BY <3>1, <3>2 DEF MarkerInv, Excused
  <2>7. StopperInv'
    BY <2>1, <2>2, <2>3, <2>4 DEF ShutdownInv, StopperInv, Idle
  <2>8. WorkerInv' /\ WakeInv'
    BY <2>1, <2>2, CallerMoves
  <2> QED
    BY <2>1, <2>2, <2>4, <2>5, <2>6, <2>7, <2>8 DEF ShutdownInv
<1>4. CASE StartMarker(f)
  <2>1. /\ UNCHANGED <<flags, stops, wake, marks, queued, work>> /\ pc[f] = "marking"
        /\ \/ pc' = [pc EXCEPT ![f] = "returned", !["marker"] = "write"]
           \/ Goes(f, "unmark")
    BY <1>4 DEF StartMarker, Leaves, At
  <2>2. /\ FramesOK' /\ (\A g \in Frames : g \notin {f, "marker"} => pc'[g] = pc[g])
        /\ \/ pc'[f] = "returned" /\ pc'["marker"] = "write"
           \/ pc'[f] = "unmark" /\ pc'["marker"] = pc["marker"]
    BY <1>0, <2>1, FrameNames DEF FramesOK, Goes
  <2>3. pc'["worker"] = pc["worker"] /\ \A g \in Callers : g # f => pc'[g] = pc[g]
    BY <1>0, <2>2, FrameNames
  <2>4. stopping /\ ~markerDone /\ pc["marker"] = "none"
        /\ \A g \in Callers : pc[g] \in Announcing => g = f
    BY <2>1 DEF ShutdownInv, Quiet, OneAnnounces
  <2>5. OneAnnounces'
    BY <2>1, <2>2, <2>3, <2>4 DEF ShutdownInv, OneAnnounces
  <2>6. MarkerInv'
    BY <2>1, <2>2, <2>4 DEF MarkerInv
  <2>7. StopperInv'
    BY <2>1, <2>2, <2>3, <2>4 DEF ShutdownInv, StopperInv
  <2>8. WorkerInv' /\ WakeInv'
    BY <2>1, <2>2, CallerMoves
  <2> QED
    BY <2>1, <2>2, <2>4, <2>5, <2>6, <2>7, <2>8 DEF ShutdownInv
<1>5. CASE MarkerNotStarted(f)
  <2>1. /\ UNCHANGED <<flags, stopComplete, wake, markerWritten, queued, work>>
        /\ stopError' /\ markerDone' /\ pc[f] = "unmark" /\ Goes(f, "returned")
    BY <1>5 DEF MarkerNotStarted, Section, At
  <2>2. FramesOK' /\ pc'[f] = "returned" /\ \A g \in Frames : g # f => pc'[g] = pc[g]
    BY <1>0, <2>1, Moved
  <2>3. /\ pc'["marker"] = pc["marker"] /\ pc'["worker"] = pc["worker"]
        /\ \A g \in Callers : g # f => pc'[g] = pc[g]
    BY <1>0, <2>2, FrameNames
  <2>4. stopping /\ ~markerDone /\ pc["marker"] = "none"
        /\ \A g \in Callers : pc[g] \in Announcing => g = f
    BY <2>1 DEF ShutdownInv, Quiet, OneAnnounces
  <2>5. OneAnnounces'
    BY <2>1, <2>2, <2>3, <2>4 DEF ShutdownInv, OneAnnounces
  <2>6. MarkerInv' /\ StopperInv'
    BY <2>1, <2>2, <2>3, <2>4 DEF ShutdownInv, MarkerInv, StopperInv, Excused, Idle
  <2>7. WorkerInv' /\ WakeInv'
    BY <2>1, <2>2, CallerMoves
  <2> QED
    BY <2>1, <2>2, <2>4, <2>5, <2>6, <2>7 DEF ShutdownInv
<1> QED
  BY <1>1, <1>2, <1>3, <1>4, <1>5 DEF ShutdownStep

-----------------------------------------------------------------------------
\* stop() moves its frame on when what it waits for has come.
LEMMA StopKeepsInv ==
    ASSUME ShutdownInv, NEW f \in Callers,
           \/ ClaimStop(f) \/ AwaitMarker(f) \/ Join(f) \/ Follow(f) \/ RaiseStopError(f)
           \/ HandlerReturns(f)
    PROVE  ShutdownInv'
<1> USE DEF Announcing, AfterStop, server, flags, stops, marks, work
<1>0. FramesOK /\ f \in Frames
  BY FrameNames DEF ShutdownInv
<1>1. /\ UNCHANGED <<flags, stopError, wake, marks, queued, work>>
      /\ stopComplete => stopComplete'
      /\ stopComplete' => stopComplete \/ (pc[f] = "join" /\ Idle("worker"))
      /\ pc[f] \in AfterStop
      /\ \E p : /\ Goes(f, p)
                /\ \/ p \in {"gone", "follow", "await", "raised"}
                   \/ p = "join" /\ markerDone
                   \/ p = "raise" /\ stopComplete'
                   \/ p = "stopped" /\ pc[f] = "raise" /\ ~stopError
  BY DEF ClaimStop, AwaitMarker, Join, Follow, RaiseStopError, HandlerReturns, Section, Outside, At
<1>2. /\ FramesOK' /\ (\A g \in Frames : g # f => pc'[g] = pc[g])
      /\ \/ pc'[f] \in {"gone", "follow", "await", "raised"}
         \/ pc'[f] = "join" /\ markerDone
         \/ pc'[f] = "raise" /\ stopComplete'
         \/ pc'[f] = "stopped" /\ pc[f] = "raise" /\ ~stopError
  BY <1>0, <1>1, Moved
<1>3. /\ pc'["marker"] = pc["marker"] /\ pc'["worker"] = pc["worker"]
      /\ \A g \in Callers : g # f => pc'[g] = pc[g]
  BY <1>2, FrameNames
<1>4. stopping
  BY <1>1 DEF ShutdownInv, Quiet
<1>5. OneAnnounces'
  BY <1>1, <1>2, <1>3 DEF ShutdownInv, OneAnnounces
<1>6. MarkerInv'
  BY <1>1, <1>3 DEF ShutdownInv, MarkerInv, Excused, Idle
<1>7. StopperInv'
  BY <1>1, <1>2, <1>3 DEF ShutdownInv, StopperInv, Idle
<1>8. WorkerInv' /\ WakeInv'
  BY <1>1, <1>2, CallerMoves
<1> QED
  BY <1>1, <1>2, <1>4, <1>5, <1>6, <1>7, <1>8 DEF ShutdownInv

\* A signal only starts its handler.
LEMMA SignalKeepsInv ==
    ASSUME ShutdownInv, NEW h \in Handlers, Signal(h)
    PROVE  ShutdownInv'
<1> USE DEF Announcing, AfterStop, flags, stops, marks, work
<1>1. h \in Callers /\ h \in Frames /\ FramesOK
  BY FrameNames DEF ShutdownInv
<1>2. UNCHANGED <<flags, stops, wake, marks, queued, work>> /\ Goes(h, "begin")
  BY DEF Signal
<1>3. FramesOK' /\ pc'[h] = "begin" /\ \A g \in Frames : g # h => pc'[g] = pc[g]
  BY <1>1, <1>2, Moved
<1>4. /\ pc'["marker"] = pc["marker"] /\ pc'["worker"] = pc["worker"]
      /\ \A g \in Callers : g # h => pc'[g] = pc[g]
  BY <1>1, <1>3, FrameNames
<1>5. (~stopping => Quiet)' /\ OneAnnounces'
  BY <1>2, <1>3, <1>4 DEF ShutdownInv, Quiet, OneAnnounces
<1>6. MarkerInv' /\ StopperInv'
  BY <1>2, <1>3, <1>4 DEF ShutdownInv, MarkerInv, StopperInv, Excused, Idle
<1>7. WorkerInv' /\ WakeInv'
  BY <1>1, <1>2, <1>3, CallerMoves
<1> QED
  BY <1>3, <1>5, <1>6, <1>7 DEF ShutdownInv

-----------------------------------------------------------------------------
\* The marker's thread says how it went before it says that it is done.
LEMMA MarkerKeepsInv ==
    ASSUME ShutdownInv, MarkerStep
    PROVE  ShutdownInv'
<1> USE DEF Announcing, AfterStop, server, flags, stops, marks, work
<1>1. /\ UNCHANGED <<flags, stopComplete, wake, queued, work>>
      /\ (stopError => stopError') /\ (markerWritten => markerWritten')
      /\ markerDone => markerDone'
      /\ pc["marker"] \in {"write", "written", "failed", "set"}
      /\ \E p : /\ Goes("marker", p)
                /\ \/ /\ p \in {"written", "failed"}
                      /\ UNCHANGED <<stops, marks>>
                   \/ /\ p = "set" /\ (markerWritten' \/ stopError')
                      /\ markerDone' = markerDone
                   \/ p = "gone" /\ pc["marker"] = "set" /\ UNCHANGED <<stops, markerWritten>>
  BY DEF MarkerStep, WriteMarker, RecordMarker, SetMarkerDone, Section, Outside, At
<1>2. /\ FramesOK' /\ (\A g \in Frames : g # "marker" => pc'[g] = pc[g])
      /\ \/ pc'["marker"] \in {"written", "failed"} /\ UNCHANGED <<stops, marks>>
         \/ pc'["marker"] = "set" /\ (markerWritten' \/ stopError') /\ markerDone' = markerDone
         \/ pc'["marker"] = "gone" /\ pc["marker"] = "set" /\ UNCHANGED <<stops, markerWritten>>
  BY <1>1, FrameNames, Moved DEF ShutdownInv
<1>3. /\ pc'["worker"] = pc["worker"] /\ pc'["request"] = pc["request"]
      /\ \A g \in Callers : pc'[g] = pc[g]
  BY <1>2, FrameNames
<1>4. stopping /\ ~markerDone /\ ~stopComplete /\ \A g \in Callers : pc[g] \notin Announcing
  BY <1>1 DEF ShutdownInv, Quiet, OneAnnounces, MarkerInv, StopperInv, Idle
<1>5. OneAnnounces'
  BY <1>3, <1>4 DEF OneAnnounces
<1>6. MarkerInv'
  <2>1. pc'["marker"] = "set" => markerWritten' \/ stopError'
    BY <1>2
  <2>2. markerDone' => pc["marker"] = "set" /\ pc'["marker"] = "gone"
    BY <1>1, <1>2, <1>4
  <2>3. pc["marker"] = "set" => markerWritten' \/ Excused'
    BY <1>1, <1>2 DEF ShutdownInv, MarkerInv, Excused
  <2> QED
    BY <2>1, <2>2, <2>3 DEF MarkerInv, Excused, Idle
<1>7. StopperInv'
  BY <1>1, <1>3, <1>4 DEF ShutdownInv, StopperInv
<1>8. WorkerInv' /\ WakeInv'
  BY <1>1, <1>3, <1>4, FrameNames DEF ShutdownInv, WorkerInv, WakeInv, Done, Explained, Excused
<1> QED
  BY <1>1, <1>2, <1>4, <1>5, <1>6, <1>7, <1>8 DEF ShutdownInv

-----------------------------------------------------------------------------
\* The executor moves: it has not ended, so no stop() has.
LEMMA WorkerMoves ==
    ASSUME ShutdownInv, pc["worker"] \notin {"none", "gone"},
           NEW p, Goes("worker", p), p # "none",
           UNCHANGED <<started, stopping, stopComplete, marks>>,
           failure => failure', stopError => stopError',
           p \in {"clear", "check", "claim", "claim raised", "idle", "sleep"} => Done',
           p = "ended" => Done' \/ stopping,
           p \in {"leave", "gone"} => Explained',
           p = "requeue" \/ givenBack' # {} => markerWritten,
           p \in {"idle", "sleep"} /\ queued' > 0 /\ ~stopping => wake' \/ pc["request"] = "wake"
    PROVE  ShutdownInv'
<1> USE DEF marks
<1>1. FramesOK' /\ pc'["worker"] = p /\ \A g \in Frames : g # "worker" => pc'[g] = pc[g]
  BY FrameNames, Moved DEF ShutdownInv
<1>2. /\ pc'["marker"] = pc["marker"] /\ pc'["request"] = pc["request"]
      /\ \A g \in Callers : pc'[g] = pc[g]
  BY <1>1, FrameNames
<1>3. ~stopComplete /\ started
  BY DEF ShutdownInv, StopperInv, WorkerInv, Idle
<1>4. (~stopping => Quiet)' /\ OneAnnounces'
  BY <1>2 DEF ShutdownInv, Quiet, OneAnnounces
<1>5. MarkerInv'
  BY <1>2 DEF ShutdownInv, MarkerInv, Excused, Idle
<1>6. StopperInv'
  BY <1>2, <1>3 DEF ShutdownInv, StopperInv
<1>7. pc'["main"] \notin {"boot", "starting"}
  BY <1>2, FrameNames DEF ShutdownInv, WorkerInv
<1>8. WorkerInv'
  BY <1>1, <1>3, <1>7 DEF WorkerInv
<1>9. WakeInv'
  BY <1>1, <1>2 DEF WakeInv
<1> QED
  BY <1>1, <1>4, <1>5, <1>6, <1>8, <1>9 DEF ShutdownInv

\* _run: claims, attempts, sleeps and the end of the loop.
LEMMA WorkerKeepsInv ==
    ASSUME ShutdownInv, WorkerStep
    PROVE  ShutdownInv'
<1> USE DEF Section, Outside, At, flags, stops, marks, work
<1>0. /\ givenBack # {} => markerWritten
      /\ pc["worker"] \in {"clear", "check", "claim", "claim raised", "idle", "sleep"} => Done
      /\ markerWritten \/ pc["marker"] = "written" => stopping
      /\ pc["worker"] \in {"leave", "gone"} => Explained
      /\ pc["worker"] = "requeue" => markerWritten
  BY DEF ShutdownInv, WorkerInv, Quiet
<1>1. CASE ClearWake
  BY <1>0, <1>1, WorkerMoves DEF ClearWake, Done
<1>2. CASE CheckStopping
  BY <1>0, <1>2, WorkerMoves DEF CheckStopping, Done, Explained
<1>3. CASE Claim
  BY <1>0, <1>3, WorkerMoves DEF Claim
<1>4. CASE ClaimNothing
  <2>1. /\ pc["worker"] = "claim" /\ Goes("worker", "idle")
        /\ UNCHANGED <<flags, stops, wake, marks, queued, work>>
        /\ queued = 0 \/ stopping
    BY <1>0, <1>4 DEF ClaimNothing, MarkerOnDisk, server
  <2>2. Done' /\ ~(queued' > 0 /\ ~stopping)
    BY <1>0, <2>1 DEF Done
  <2> QED
    BY <1>0, <2>1, <2>2, WorkerMoves
<1>5. CASE ClaimRaises
  BY <1>0, <1>5, WorkerMoves DEF ClaimRaises, Done
<1>6. CASE DieOfClaim
  <2>1. /\ pc["worker"] = "claim raised" /\ Goes("worker", "gone")
        /\ UNCHANGED <<started, stopping, stopComplete, marks, work>> /\ Excused'
        /\ (failure => failure') /\ (stopError => stopError')
    BY <1>6 DEF DieOfClaim, Records, Excused
  <2> QED
    BY <1>0, <2>1, WorkerMoves DEF Explained
<1>7. CASE CheckIdle
  <2>1. queued > 0 /\ ~stopping => wake \/ pc["request"] = "wake"
    BY <1>7 DEF CheckIdle, ShutdownInv, WakeInv
  <2> QED
    BY <1>0, <1>7, <2>1, WorkerMoves DEF CheckIdle, Done, Explained, server
<1>8. CASE Awake
  BY <1>0, <1>8, WorkerMoves DEF Awake, Done
<1>9. CASE Register
  BY <1>0, <1>9, WorkerMoves DEF Register
<1>10. CASE Run
  BY <1>0, <1>10, WorkerMoves DEF Run, Done
<1>11. CASE EndRun
  <2>1. /\ UNCHANGED <<started, stopping, stopComplete, marks, attempts, settled, givenBack>>
        /\ (failure => failure') /\ (stopError => stopError')
        /\ \/ pc["worker"] \in {"ended", "run raised"} /\ Goes("worker", "give back")
           \/ pc["worker"] = "ended" /\ ~stopping /\ Goes("worker", "clear")
           \/ pc["worker"] = "run raised" /\ failure' /\ Goes("worker", "gone")
    BY <1>11 DEF EndRun, Records
  <2>2. /\ pc["worker"] = "ended" /\ ~stopping => Done'
        /\ failure' => Explained'
    BY <2>1 DEF ShutdownInv, WorkerInv, Done, Explained, Excused
  <2> QED
    BY <1>0, <2>1, <2>2, WorkerMoves
<1>12. CASE SeeMarker
  <2>1. markerDone => markerWritten \/ Excused
    BY <1>12 DEF SeeMarker, ShutdownInv, MarkerInv, WorkerInv
  <2> QED
    BY <1>0, <1>12, <2>1, WorkerMoves DEF SeeMarker, MayGiveBack, Explained, Excused
<1>13. CASE Requeue
  <2>1. /\ pc["worker"] = "requeue" /\ Goes("worker", "leave")
        /\ UNCHANGED <<started, stopping, failure, stopComplete, marks, attempts, settled>>
        /\ stopError => stopError'
        /\ attempts \in givenBack' \/ stopError'
    BY <1>13 DEF Requeue
  <2>2. Explained'
    BY <2>1 DEF Explained, Excused
  <2> QED
    BY <1>0, <2>1, <2>2, WorkerMoves
<1>14. CASE Leave
  BY <1>0, <1>14, WorkerMoves DEF Leave, Explained, Excused, Done
<1> QED
  BY <1>1, <1>2, <1>3, <1>4, <1>5, <1>6, <1>7, <1>8, <1>9, <1>10, <1>11, <1>12, <1>13, <1>14
     DEF WorkerStep

-----------------------------------------------------------------------------
\* Every step keeps the invariant.
LEMMA NextInv ==
    ASSUME ShutdownInv, [Next]_vars
    PROVE  ShutdownInv'
<1>1. ASSUME NEW f \in Callers, StopStep(f) \/ HandlerStep(f)
      PROVE  ShutdownInv'
  BY <1>1, ShutdownKeepsInv, StopKeepsInv DEF StopStep, HandlerStep
<1>2. CASE UNCHANGED vars
  BY <1>2 DEF vars, server, flags, stops, marks, work, cancels, ShutdownInv, FramesOK, Quiet,
     OneAnnounces, MarkerInv, StopperInv, WorkerInv, WakeInv, Done, Explained, Excused, Idle
<1> QED
  BY <1>1, <1>2, FrameNames, MainKeepsInv, SignalKeepsInv, RequestKeepsInv, MarkerKeepsInv,
     WorkerKeepsInv DEF Next, Ended

\* The inductive invariant.
THEOREM ShutdownInvariance == Spec => []ShutdownInv
BY InitInv, NextInv, PTL DEF Spec

\* The executor never sleeps through a job that was published before it fell
\* asleep (runtime.py, _run and notify_wake): it clears the event before it looks.
THEOREM ExecutorNeverSleepsOverWork == Spec => []NoSleepOverWork
<1>1. ShutdownInv => NoSleepOverWork
  BY DEF ShutdownInv, WakeInv, NoSleepOverWork
<1> QED
  BY <1>1, ShutdownInvariance, PTL

\* An executor that has stopped leaves no attempt behind that nobody knows of
\* (runtime.py, _run), and gives none back before the marker is on disk.
THEOREM AttemptsAreNeverLost == Spec => []NoAttemptLost
<1>1. ShutdownInv => NoAttemptLost
  <2> SUFFICES ASSUME ShutdownInv PROVE NoAttemptLost
    OBVIOUS
  <2>1. givenBack # {} => MarkerOnDisk
    BY DEF ShutdownInv, WorkerInv, MarkerOnDisk
  <2>2. pc["worker"] = "gone" /\ attempts > 0 =>
            attempts \in settled \cup givenBack \/ stopError \/ failure
    BY DEF ShutdownInv, WorkerInv, Explained, Done, Excused
  <2> QED
    BY <2>1, <2>2 DEF NoAttemptLost
<1> QED
  BY <1>1, ShutdownInvariance, PTL

\* A stop() that returns has joined both threads and missed no error
\* (runtime.py, stop), whoever else stops and whenever signals come.
THEOREM StopNeverHidesErrors == Spec => []StopReportsErrors
<1>1. ShutdownInv => StopReportsErrors
  BY FrameNames DEF ShutdownInv, StopperInv, MarkerInv, StopReportsErrors
<1> QED
  BY <1>1, ShutdownInvariance, PTL
=============================================================================
