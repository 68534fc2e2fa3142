------------------------------- MODULE AudioPump -------------------------------
(***************************************************************************)
(* ffprobe and ffmpeg behind two pipes (audio.py).  A thread reads each    *)
(* pipe: stderr into a bounded buffer, ffmpeg's stdout into a queue of two *)
(* events that the generator decode_audio takes from.  A caller may cancel *)
(* or stop pulling, the clock may run out, and the process may hang or     *)
(* have a child that keeps its pipes open.                                 *)
(***************************************************************************)
EXTENDS Integers, Sequences, FiniteSets

CONSTANTS
    Block,          \* bytes in a block: BLOCK_BYTES
    Capacity,       \* bytes a pipe holds
    MaxOut, MaxErr, \* bounds: bytes the process writes to each pipe
    OutputLimit,    \* MAX_PROBE_OUTPUT_BYTES
    MaxFailures     \* bound: reads that fail

ASSUME PumpAssumption ==
    /\ Block \in Nat \ {0} /\ Block % 2 = 0 /\ Capacity \in Nat \ {0}
    /\ MaxOut \in Nat /\ MaxErr \in Nat /\ OutputLimit \in Nat /\ MaxFailures \in Nat

VARIABLES
    call,           \* probe or decode
    leader,         \* runs, out or err (writes there), zombie, reaped
    child,          \* a child that holds the pipes runs
    stubborn,       \* the group ignores SIGTERM
    hung,           \* the group does nothing any more
    sent,           \* the signal the group was sent
    code,           \* the leader's exit code
    written,        \* bytes written to each pipe
    pipe,           \* bytes in each pipe
    reader,         \* where each reader thread is
    error,          \* each reader's error
    hand,           \* the event the stdout reader has to emit
    events,         \* its queue
    stopping,       \* the readers were told to stop
    closed,         \* the pipes are closed on this side
    consumer,       \* where the caller's thread is
    stops,          \* calls of stop() there are to make
    pending,        \* bytes taken and not yet yielded
    yielded,        \* bytes yielded
    cancelled, expired,
    failures

process == <<leader, child, hung, sent, code, written>>
output == <<reader, error, hand, events, failures>>
decoded == <<pending, yielded>>
told == <<cancelled, expired>>
vars == <<call, stubborn, process, pipe, output, stopping, closed, consumer, stops, decoded, told>>

Pipes == {"out", "err"}
MaxWritten == [out |-> MaxOut, err |-> MaxErr]
Eof == 0
ReadError == -1
QueueSize == 2
Least(a, b) == IF a < b THEN a ELSE b

Init ==
    /\ call \in {"probe", "decode"} /\ child \in BOOLEAN /\ stubborn \in BOOLEAN
    /\ leader = "runs" /\ hung = FALSE /\ sent = "none" /\ code = 0
    /\ written = [p \in Pipes |-> 0] /\ pipe = [p \in Pipes |-> 0]
    /\ reader = [p \in Pipes |-> "new"] /\ error = [p \in Pipes |-> FALSE]
    /\ hand = Eof /\ events = <<>> /\ stopping = FALSE /\ closed = FALSE
    /\ consumer = "starts" /\ stops = 1 /\ pending = 0 /\ yielded = 0
    /\ cancelled = FALSE /\ expired = FALSE /\ failures = 0

-----------------------------------------------------------------------------
(* The process.  Its exit closes its ends of the pipes; a child's stay.    *)
Running == leader \in {"runs", "out", "err"}
HoldsPipes == Running \/ child
GroupAlive == HoldsPipes \/ leader = "zombie"
Others == <<call, stubborn, output, stopping, closed, consumer, stops, decoded, told>>

BeginWrite(p) ==
    /\ leader = "runs" /\ ~hung /\ written[p] < MaxWritten[p]
    /\ leader' = p
    /\ UNCHANGED <<child, hung, sent, code, written, pipe, Others>>

(* A write to a full pipe waits for its reader.                            *)
Write(p) ==
    /\ leader = p /\ ~hung /\ pipe[p] < Capacity
    /\ \E n \in 1..Least(Capacity - pipe[p], MaxWritten[p] - written[p]) :
          /\ pipe' = [pipe EXCEPT ![p] = @ + n]
          /\ written' = [written EXCEPT ![p] = @ + n]
    /\ leader' = "runs"
    /\ UNCHANGED <<child, hung, sent, code, Others>>

Exit ==
    /\ leader = "runs" /\ ~hung
    /\ leader' = "zombie" /\ code' \in {0, 1}
    /\ UNCHANGED <<child, hung, sent, written, pipe, Others>>

ChildEnds ==
    /\ child /\ ~hung /\ child' = FALSE
    /\ UNCHANGED <<leader, hung, sent, code, written, pipe, Others>>

Hang ==
    /\ HoldsPipes /\ ~hung /\ hung' = TRUE
    /\ UNCHANGED <<leader, child, sent, code, written, pipe, Others>>

Dies ==
    /\ sent = "kill" \/ (sent = "term" /\ ~stubborn)
    /\ \/ Running /\ leader' = "zombie" /\ code' = 1 /\ UNCHANGED child
       \/ child /\ child' = FALSE /\ UNCHANGED <<leader, code>>
    /\ UNCHANGED <<hung, sent, written, pipe, Others>>

-----------------------------------------------------------------------------
(* The reader threads.                                                     *)
ReaderFrame == <<call, stubborn, process, stopping, closed, consumer, stops, decoded, told>>
Becomes(p, state) == reader' = [reader EXCEPT ![p] = state]
Empties(p, n) == pipe' = [pipe EXCEPT ![p] = @ - n]
AtEof(p) == ~closed /\ pipe[p] = 0 /\ ~HoldsPipes

(* An OSError, or a ValueError once the pipe is closed.                    *)
ReadFails(p) ==
    /\ \/ closed /\ UNCHANGED failures
       \/ failures < MaxFailures /\ failures' = failures + 1
    /\ error' = [error EXCEPT ![p] = TRUE]
    /\ UNCHANGED pipe

(* _BoundedPipeReader._run: what goes beyond the limit is read and dropped. *)
Drain(p) ==
    /\ reader[p] = "reads"
    /\ \/ /\ ~closed /\ pipe[p] > 0 /\ Empties(p, pipe[p])
          /\ UNCHANGED <<reader, error, failures>>
       \/ AtEof(p) /\ Becomes(p, "done") /\ UNCHANGED <<pipe, error, failures>>
       \/ ReadFails(p) /\ Becomes(p, "done")
    /\ UNCHANGED <<hand, events, ReaderFrame>>

(* _QueuedPipeReader._run.                                                 *)
Look ==
    /\ reader["out"] = "looks"
    /\ Becomes("out", IF stopping THEN "done" ELSE "fetches")
    /\ UNCHANGED <<pipe, error, hand, events, failures, ReaderFrame>>

Fetch ==
    /\ reader["out"] = "fetches" /\ Becomes("out", "emits")
    /\ \/ \E n \in 1..Least(Block, pipe["out"]) :
             ~closed /\ hand' = n /\ Empties("out", n) /\ UNCHANGED <<error, failures>>
       \/ AtEof("out") /\ hand' = Eof /\ UNCHANGED <<pipe, error, failures>>
       \/ ReadFails("out") /\ hand' = ReadError
    /\ UNCHANGED <<events, ReaderFrame>>

(* Fault: an event that finds the queue full is dropped.                   *)
EmitOrDrop ==
    /\ reader["out"] = "emits"
    /\ events' = IF Len(events) < QueueSize THEN Append(events, hand) ELSE events
    /\ Becomes("out", IF hand > 0 THEN "looks" ELSE "done")
    /\ UNCHANGED <<pipe, error, hand, failures, ReaderFrame>>

(* _emit: waits for room in the queue until it is told to stop.            *)
Emit ==
    /\ reader["out"] = "emits"
    /\ \/ /\ Len(events) < QueueSize /\ events' = Append(events, hand)
          /\ Becomes("out", IF hand > 0 THEN "looks" ELSE "done")
       \/ stopping /\ Becomes("out", "done") /\ UNCHANGED events
    /\ hand' = Eof
    /\ UNCHANGED <<pipe, error, failures, ReaderFrame>>

-----------------------------------------------------------------------------
(* The caller's thread: probe_media, or decode_audio and its consumer.     *)
CallerFrame == <<call, stubborn, told>>
Goes(from, to) == consumer = from /\ consumer' = to
Started == {p \in Pipes : reader[p] # "new"}
Alive == {p \in Started : reader[p] # "done"}

(* _ProcessPump.start: when a thread does not start, start() stops, and so *)
(* does the caller's finally.                                              *)
Start(p) ==
    /\ consumer = "starts" /\ reader[p] = "new" /\ (p = "err" => reader["out"] # "new")
    /\ \/ /\ Becomes(p, IF p = "out" /\ call = "decode" THEN "looks" ELSE "reads")
          /\ consumer' = IF p = "out" THEN "starts"
                         ELSE IF call = "decode" THEN "checks" ELSE "waits process"
          /\ UNCHANGED stops
       \/ consumer' = "stops" /\ stops' = 2 /\ UNCHANGED reader
    /\ UNCHANGED <<process, pipe, error, hand, events, failures, stopping, closed, decoded, CallerFrame>>

(* The loop's top: cancellation, then the deadline.                        *)
Check ==
    /\ Goes("checks", IF cancelled \/ expired THEN "stops" ELSE "takes")
    /\ UNCHANGED <<process, pipe, output, stopping, closed, stops, decoded, CallerFrame>>

Yields(held, left) ==
    /\ yielded' = yielded + held - left /\ pending' = left

(* events.get: Empty after 50 ms, or the next event.                       *)
Take ==
    /\ consumer = "takes"
    /\ IF events = <<>>
       THEN consumer' = "checks" /\ UNCHANGED <<events, decoded>>
       ELSE LET held == pending + Head(events) IN
            /\ events' = Tail(events)
            /\ consumer' = CASE Head(events) = Eof                   -> "waits process"
                             [] Head(events) = ReadError             -> "stops"
                             [] Head(events) > 0 /\ held >= Block    -> "holds"
                             [] Head(events) > 0 /\ ~(held >= Block) -> "checks"
            /\ IF Head(events) > 0 /\ held >= Block THEN Yields(held, held - Block)
               ELSE /\ pending' = IF Head(events) > 0 THEN held ELSE pending
                    /\ UNCHANGED yielded
    /\ UNCHANGED <<process, pipe, reader, error, hand, failures, stopping, closed, stops, CallerFrame>>

(* The pipeline pulls again, or closes the generator.                      *)
Resume ==
    /\ consumer = "holds"
    /\ IF pending >= Block THEN consumer' = "holds" /\ Yields(pending, pending - Block)
       ELSE consumer' = "checks" /\ UNCHANGED decoded
    /\ UNCHANGED <<process, pipe, output, stopping, closed, stops, CallerFrame>>

CloseGenerator ==
    /\ Goes("holds", "stops")
    /\ UNCHANGED <<process, pipe, output, stopping, closed, stops, decoded, CallerFrame>>

(* Fault: the waits look at the clock only.                                *)
GiveUpInTime ==
    /\ consumer \in {"waits process", "waits readers"} /\ expired
    /\ consumer' = "stops"
    /\ UNCHANGED <<process, pipe, output, stopping, closed, stops, decoded, CallerFrame>>

(* wait_process and wait_readers see a cancellation and the deadline.      *)
GiveUp ==
    /\ consumer \in {"waits process", "waits readers"} /\ (cancelled \/ expired)
    /\ consumer' = "stops"
    /\ UNCHANGED <<process, pipe, output, stopping, closed, stops, decoded, CallerFrame>>

WaitProcess ==
    /\ leader = "zombie" /\ leader' = "reaped"
    /\ Goes("waits process", "waits readers")
    /\ UNCHANGED <<child, hung, sent, code, written, pipe, output, stopping, closed, stops, decoded, CallerFrame>>

(* Fault: nobody looks at the error of the reader of stderr.               *)
FailedUnseen ==
    \/ code # 0 \/ error["out"]
    \/ call = "decode" /\ pending % 2 # 0
    \/ call = "probe" /\ written["out"] > OutputLimit

Failed ==
    \/ code # 0 \/ error["out"] \/ error["err"]
    \/ call = "decode" /\ pending % 2 # 0
    \/ call = "probe" /\ written["out"] > OutputLimit

(* wait_readers, close_streams and the checks; the last block is shorter.  *)
WaitReaders ==
    /\ Goes("waits readers", IF Failed THEN "failed" ELSE "done")
    /\ Alive = {} /\ closed' = TRUE
    /\ IF ~Failed /\ pending > 0 THEN Yields(pending, 0) ELSE UNCHANGED decoded
    /\ UNCHANGED <<process, pipe, output, stopping, stops, CallerFrame>>

-----------------------------------------------------------------------------
(* _ProcessPump.stop: the readers are told, the group is terminated, then  *)
(* killed, its leader reaped, the pipes closed, the readers waited for.    *)
StopFrame == <<child, hung, code, written, pipe, output, decoded, CallerFrame>>

(* Fault: the leader alone is asked whether it lives.                      *)
TerminateLeader ==
    /\ Goes("stops", IF Running THEN "grace" ELSE "reaps")
    /\ stopping' = TRUE
    /\ sent' = IF Running THEN "term" ELSE sent
    /\ UNCHANGED <<leader, closed, stops, StopFrame>>

Terminate ==
    /\ Goes("stops", IF GroupAlive THEN "grace" ELSE "reaps")
    /\ stopping' = TRUE
    /\ sent' = IF GroupAlive THEN "term" ELSE sent
    /\ UNCHANGED <<leader, closed, stops, StopFrame>>

(* While the group lives: poll, sleep, and SIGKILL after the grace.        *)
Poll ==
    /\ consumer = "grace" /\ leader = "zombie" /\ leader' = "reaped"
    /\ UNCHANGED <<consumer, sent, stopping, closed, stops, StopFrame>>

GroupEnded ==
    /\ Goes("grace", "reaps") /\ ~GroupAlive
    /\ UNCHANGED <<leader, sent, stopping, closed, stops, StopFrame>>

Kill ==
    /\ Goes("grace", "reaps") /\ GroupAlive /\ sent' = "kill"
    /\ UNCHANGED <<leader, stopping, closed, stops, StopFrame>>

Reap ==
    /\ Goes("reaps", "joins") /\ leader \in {"zombie", "reaped"}
    /\ leader' = "reaped" /\ closed' = TRUE
    /\ UNCHANGED <<sent, stopping, stops, StopFrame>>

(* Until the readers have ended, or their grace is over.                   *)
Join ==
    /\ consumer = "joins"
    /\ consumer' \in (IF stops = 2 THEN {"stops"} ELSE {IF Alive = {} THEN "failed" ELSE "cleanup failed"})
    /\ stops' = 1
    /\ UNCHANGED <<leader, sent, stopping, closed, StopFrame>>

-----------------------------------------------------------------------------
Over == consumer \in {"done", "failed", "cleanup failed"}

Cancel ==
    /\ ~cancelled /\ ~Over /\ cancelled' = TRUE
    /\ UNCHANGED <<call, stubborn, process, pipe, output, stopping, closed, consumer, stops, decoded, expired>>

Expire ==
    /\ ~expired /\ ~Over /\ expired' = TRUE
    /\ UNCHANGED <<call, stubborn, process, pipe, output, stopping, closed, consumer, stops, decoded, cancelled>>

Leader == \/ \E p \in Pipes : BeginWrite(p) \/ Write(p)
          \/ Exit
Reading(p) == IF p = "out" /\ call = "decode" THEN Look \/ Fetch \/ Emit ELSE Drain(p)
Stopping == Terminate \/ Poll \/ GroupEnded \/ Kill \/ Reap \/ Join
Caller == \/ \E p \in Pipes : Start(p)
          \/ Check \/ Take \/ Resume \/ CloseGenerator
          \/ WaitProcess \/ WaitReaders \/ GiveUp

Ended == Over /\ UNCHANGED vars

Next == \/ Leader \/ ChildEnds \/ Hang \/ Dies
        \/ \E p \in Pipes : Reading(p)
        \/ Caller \/ Stopping \/ Cancel \/ Expire \/ Ended

(* Threads run; a process that does not hang goes on, and dies once killed. *)
Fairness ==
    /\ WF_vars(Leader) /\ WF_vars(ChildEnds) /\ WF_vars(Dies)
    /\ \A p \in Pipes : WF_vars(Reading(p))
    /\ WF_vars(Caller) /\ WF_vars(GroupEnded \/ Kill) /\ WF_vars(Terminate \/ Reap \/ Join)

Spec == Init /\ [][Next]_vars /\ Fairness

-----------------------------------------------------------------------------
(* When the call is over, its process has been reaped, the pipes are       *)
(* closed, and whatever of its group still runs has been sent SIGKILL      *)
(* (_terminate_and_reap), except after a probe neither of whose pipes      *)
(* could be read to its end: it raises without stop (probe_media).         *)
BothUnread == call = "probe" /\ consumer = "failed" /\ error["out"] /\ error["err"]

NothingIsLeft ==
    Over => leader = "reaped" /\ closed /\ (child => sent = "kill" \/ BothUnread)

(* An end without an error means that all was written was yielded, and     *)
(* that both pipes were read to their end (decode_audio, probe_media).     *)
NormalEndIsWhole ==
    consumer = "done" =>
        /\ code = 0 /\ pipe = [p \in Pipes |-> 0] /\ ~HoldsPipes
        /\ call = "decode" => yielded = written["out"]

(* A process that goes on is read to its end with no help of the deadline: *)
(* neither pipe fills up for good (_BoundedPipeReader, _QueuedPipeReader). *)
EndsByItself == <>(hung \/ failures > 0 \/ Over)

(* A cancellation or the deadline ends the call, though the group ignores  *)
(* SIGTERM, hangs or has lost its leader (stop).                           *)
StopsWhenTold == cancelled \/ expired ~> Over

=============================================================================
