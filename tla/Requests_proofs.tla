--------------------------- MODULE Requests_proofs ---------------------------
(***************************************************************************)
(* Proofs about what serves a single request: AudioPump, SyncRequest and   *)
(* StoredResult, for every size of output, pipe and block, and any number  *)
(* of failures, cancellations, GETs and deletions.  The three share        *)
(* neither a variable nor a name: each has its own part of this module.    *)
(***************************************************************************)
EXTENDS AudioPump, SyncRequest, StoredResult, TLAPS

-----------------------------------------------------------------------------
(***************************************************************************)
(* AudioPump: where the caller is tells what the readers and the process   *)
(* group have come to, and every byte is in a pipe, on its way or yielded. *)
(***************************************************************************)
\* The bytes an event carries, what an event is, and the bytes in the queue of two.
Bytes(e) == IF e > 0 THEN e ELSE 0
PumpEvents == {ReadError} \cup 0..Block
Queued ==
    CASE Len(events) = 0 -> 0
      [] Len(events) = 1 -> Bytes(events[1])
      [] OTHER -> Bytes(events[1]) + Bytes(events[2])

\* decode_audio and not probe_media, and the caller's places: in the loop over the
\* events, in the waits after it, in stop(), at an end.
Decodes == call = "decode"
Loop == {"checks", "takes", "holds"}
Waits == {"waits process", "waits readers"}
Stops == {"stops", "grace", "reaps", "joins"}
Ends == {"done", "failed", "cleanup failed"}

\* At most two events are queued, and only the last may carry no bytes.
PumpType ==
    /\ call \in {"probe", "decode"}
    /\ leader \in {"runs", "out", "err", "zombie", "reaped"}
    /\ child \in BOOLEAN
    /\ written \in [Pipes -> Nat] /\ pipe \in [Pipes -> Nat]
    /\ reader \in [Pipes -> {"new", "reads", "looks", "fetches", "emits", "done"}]
    /\ error \in [Pipes -> BOOLEAN]
    /\ hand \in PumpEvents
    /\ \/ events = <<>>
       \/ \E e \in PumpEvents : events = <<e>>
       \/ \E d \in 1..Block, e \in PumpEvents : events = <<d, e>>
    /\ consumer \in {"starts"} \cup Loop \cup Waits \cup Stops \cup Ends
    /\ stopping \in BOOLEAN /\ closed \in BOOLEAN
    /\ pending \in Nat /\ yielded \in Nat

\* Nobody will ever write to pipe p again, and it is empty.
Dry(p) == pipe[p] = 0 /\ ~HoldsPipes

\* Where the caller is, the readers and the process group are.
CallerInv ==
    /\ consumer \in {"starts"} \cup Loop \cup Waits => ~stopping /\ ~closed
    /\ consumer \in Loop => Decodes
    /\ consumer \in Loop \cup Waits => reader["out"] # "new" /\ reader["err"] # "new"
    /\ consumer = "waits readers" => leader = "reaped"
    /\ consumer \in {"reaps", "joins"} => (child => sent = "kill")
    /\ consumer = "joins" => leader = "reaped" /\ closed

\* A bounded reader ends at the end of its pipe or with an error.
BoundedInv ==
    \A p \in Pipes : ~(p = "out" /\ Decodes) /\ reader[p] = "done" => error[p] \/ Dry(p)

\* What ffmpeg has written is in the pipe, on its way or yielded; an event of
\* the end is the last.
FlowInv ==
    Decodes =>
        /\ ~stopping =>
              written["out"] = pipe["out"] + Bytes(hand) + Queued + pending + yielded
        /\ reader["out"] # "emits" => hand = Eof
        /\ reader["out"] = "emits" /\ hand = Eof => Dry("out")
        /\ Len(events) > 0 /\ events[Len(events)] = Eof => Dry("out")
        /\ Len(events) > 0 /\ events[Len(events)] <= 0 => reader["out"] = "done"
        /\ consumer \in Waits \cup {"done"} =>
              reader["out"] = "done" /\ events = <<>> /\ Dry("out")

\* The inductive invariant.
PumpInv ==
    PumpType /\ CallerInv /\ BoundedInv /\ FlowInv /\ NothingIsLeft /\ NormalEndIsWhole

-----------------------------------------------------------------------------
\* What PumpAssumption says of the sizes.
LEMMA Sizes ==
    /\ {Block, Capacity, MaxOut, MaxErr} \subseteq Nat
    /\ Block > 0
BY PumpAssumption

\* The bytes in the queue and in the reader's hand are numbers.
LEMMA QueuedType ==
    ASSUME PumpInv
    PROVE  Queued \in Nat /\ Bytes(hand) \in Nat
<1>1. \A e \in PumpEvents : Bytes(e) \in Nat
  BY Sizes DEF PumpEvents, Bytes, ReadError
<1>2. 1..Block \subseteq PumpEvents
  BY Sizes DEF PumpEvents
<1>3. CASE events = <<>>
  BY <1>1, <1>3 DEF Queued, PumpInv, PumpType
<1>4. CASE \E e \in PumpEvents : events = <<e>>
  BY <1>1, <1>4 DEF Queued, PumpInv, PumpType
<1>5. CASE \E d \in 1..Block, e \in PumpEvents : events = <<d, e>>
  BY <1>1, <1>2, <1>5 DEF Queued, PumpInv, PumpType
<1> QED
  BY <1>3, <1>4, <1>5, <1>1 DEF PumpInv, PumpType

\* The second event of the queue.
LEMMA AppendOne ==
    ASSUME NEW S, NEW d \in S, NEW e \in S
    PROVE  Append(<<d>>, e) = <<d, e>>
<1>1. <<d>> \in Seq(S) /\ <<d, e>> \in Seq(S)
  OBVIOUS
<1>2. Append(<<d>>, e) \in Seq(S) /\ Len(Append(<<d>>, e)) = 2 /\ Len(<<d, e>>) = 2
  BY <1>1
<1>3. Append(<<d>>, e)[1] = <<d, e>>[1] /\ Append(<<d>>, e)[2] = <<d, e>>[2]
  BY <1>1
<1>4. \A s \in Seq(S), t \in Seq(S) :
         Len(s) = Len(t) /\ (\A i \in 1..Len(s) : s[i] = t[i]) => s = t
  OBVIOUS
<1>5. \A i \in 1..2 : Append(<<d>>, e)[i] = <<d, e>>[i]
  <2> SUFFICES ASSUME NEW i \in 1..2 PROVE Append(<<d>>, e)[i] = <<d, e>>[i]
    OBVIOUS
  <2>1. i = 1 \/ i = 2
    OBVIOUS
  <2> QED
    BY <1>3, <2>1
<1> QED
  BY <1>1, <1>2, <1>4, <1>5

\* The queue without the first of two events.
LEMMA TailOne ==
    ASSUME NEW S, NEW d \in S, NEW e \in S
    PROVE  Tail(<<d, e>>) = <<e>>
<1>1. <<d, e>> \in Seq(S) /\ <<e>> \in Seq(S)
  OBVIOUS
<1>2. Tail(<<d, e>>) \in Seq(S) /\ Len(Tail(<<d, e>>)) = 1 /\ Len(<<e>>) = 1
  BY <1>1
<1>3. Tail(<<d, e>>)[1] = e /\ <<e>>[1] = e
  BY <1>1
<1>4. \A s \in Seq(S), t \in Seq(S) :
         Len(s) = Len(t) /\ (\A i \in 1..Len(s) : s[i] = t[i]) => s = t
  OBVIOUS
<1>5. \A i \in 1..1 : Tail(<<d, e>>)[i] = <<e>>[i]
  BY <1>3
<1> QED
  BY <1>1, <1>2, <1>4, <1>5

\* A call begins with empty pipes and readers not started.
LEMMA InitPump == Init => PumpInv
<1> SUFFICES ASSUME Init PROVE PumpInv
  OBVIOUS
<1>1. PumpType
  <2>1. 0 \in PumpEvents
    BY Sizes DEF PumpEvents
  <2>2. hand \in PumpEvents /\ events = <<>>
    BY <2>1 DEF Init, Eof
  <2> QED
    BY <2>2 DEF Init, PumpType, Pipes
<1>2. CallerInv /\ NothingIsLeft /\ NormalEndIsWhole
  BY DEF Init, CallerInv, NothingIsLeft, NormalEndIsWhole, Over, Loop, Waits, Decodes
<1>3. BoundedInv
  BY DEF Init, BoundedInv
<1>4. FlowInv
  BY DEF Init, FlowInv, Pipes, Decodes, Queued, Bytes, Eof, Waits
<1> QED
  BY <1>1, <1>2, <1>3, <1>4 DEF PumpInv

\* The process group writes, exits, hangs or dies.
Group == Leader \/ ChildEnds \/ Hang \/ Dies

\* Whatever the group does, a pipe that is dry stays dry.
LEMMA GroupPump ==
    ASSUME PumpInv, Group PROVE PumpInv'
<1>1. /\ UNCHANGED <<call, stubborn, reader, error, hand, events, failures, stopping, closed>>
      /\ UNCHANGED <<consumer, stops, pending, yielded, cancelled, expired, sent>>
  BY DEF Group, Leader, BeginWrite, Write, Exit, ChildEnds, Hang, Dies, Others, output, decoded,
         told
<1>2. /\ leader' \in {"runs", "out", "err", "zombie", "reaped"} /\ child' \in BOOLEAN
      /\ HoldsPipes' => HoldsPipes
      /\ child' => child
      /\ leader = "reaped" => leader' = "reaped" /\ code' = code
  <2>1. CASE Leader
    BY <2>1 DEF PumpInv, PumpType, Leader, BeginWrite, Write, Exit, HoldsPipes, Running, Pipes
  <2>2. CASE ChildEnds
    BY <2>2 DEF PumpInv, PumpType, ChildEnds, HoldsPipes, Running
  <2>3. CASE Hang
    BY <2>3 DEF PumpInv, PumpType, Hang, HoldsPipes, Running
  <2>4. CASE Dies
    <3>1. CASE Running /\ leader' = "zombie" /\ child' = child
      BY <3>1 DEF PumpInv, PumpType, HoldsPipes, Running
    <3>2. CASE child' = FALSE /\ UNCHANGED <<leader, code>>
      BY <3>2 DEF PumpInv, PumpType, HoldsPipes, Running
    <3> QED
      BY <2>4, <3>1, <3>2 DEF Dies
  <2> QED
    BY <2>1, <2>2, <2>3, <2>4 DEF Group
<1>3. /\ written' \in [Pipes -> Nat] /\ pipe' \in [Pipes -> Nat]
      /\ \A p \in Pipes : written'[p] - pipe'[p] = written[p] - pipe[p]
      /\ \A p \in Pipes : pipe'[p] = pipe[p] \/ HoldsPipes
  <2>1. CASE \E p \in Pipes : Write(p)
    <3>1. PICK p \in Pipes : Write(p)
      BY <2>1
    <3>2. PICK n \in 1..Least(Capacity - pipe[p], MaxWritten[p] - written[p]) :
             /\ pipe' = [pipe EXCEPT ![p] = @ + n]
             /\ written' = [written EXCEPT ![p] = @ + n]
      BY <3>1 DEF Write
    <3>3. n \in Nat
      <4>1. pipe[p] \in Nat /\ written[p] \in Nat
        BY DEF PumpInv, PumpType
      <4>2. MaxWritten[p] \in Nat
        BY Sizes DEF MaxWritten, Pipes
      <4>3. Capacity - pipe[p] \in Int /\ MaxWritten[p] - written[p] \in Int
        BY Sizes, <4>1, <4>2
      <4> QED
        BY <3>2, <4>3 DEF Least
    <3>4. HoldsPipes
      BY <3>1 DEF Write, HoldsPipes, Running, Pipes
    <3> QED
      BY <3>2, <3>3, <3>4 DEF PumpInv, PumpType
  <2>2. CASE UNCHANGED <<written, pipe>>
    BY <2>2 DEF PumpInv, PumpType
  <2> QED
    BY <2>1, <2>2 DEF Group, Leader, BeginWrite, Exit, ChildEnds, Hang, Dies
<1>4. ~HoldsPipes => code' = code
  BY DEF Group, Leader, BeginWrite, Write, Exit, ChildEnds, Hang, Dies, HoldsPipes, Running
<1>5. \A p \in Pipes : Dry(p) => Dry(p)'
  BY <1>2, <1>3 DEF Dry
<1>6. PumpType'
  BY <1>1, <1>2, <1>3 DEF PumpInv, PumpType
<1>7. CallerInv'
  BY <1>1, <1>2 DEF PumpInv, CallerInv, Decodes
<1>8. BoundedInv'
  BY <1>1, <1>5 DEF PumpInv, BoundedInv, Decodes
<1>9. FlowInv'
  <2>1. "out" \in Pipes
    BY DEF Pipes
  <2>2. written'["out"] - pipe'["out"] = written["out"] - pipe["out"]
        /\ {written["out"], written'["out"], pipe["out"], pipe'["out"]} \subseteq Nat
    BY <1>3, <2>1 DEF PumpInv, PumpType
  <2>3. /\ Queued' = Queued
        /\ Queued \in Int /\ Bytes(hand) \in Int /\ pending \in Int /\ yielded \in Int
    BY <1>1, QueuedType DEF Queued, PumpInv, PumpType
  <2>4. Dry("out") => Dry("out")'
    BY <1>5, <2>1
  <2>5. ASSUME written["out"] = pipe["out"] + Bytes(hand) + Queued + pending + yielded
        PROVE  written'["out"] = pipe'["out"] + Bytes(hand) + Queued + pending + yielded
    BY <2>2, <2>3, <2>5
  <2>6. Bytes(hand)' = Bytes(hand)
    BY <1>1 DEF Bytes
  <2> QED
    BY <1>1, <2>3, <2>4, <2>5, <2>6 DEF PumpInv, FlowInv, Decodes
<1>10. NothingIsLeft'
  BY <1>1, <1>2 DEF PumpInv, NothingIsLeft, Over, BothUnread
<1>11. NormalEndIsWhole'
  <2>1. ASSUME consumer = "done" PROVE UNCHANGED <<written, pipe, code>> /\ ~HoldsPipes'
    <3>1. ~HoldsPipes
      BY <2>1 DEF PumpInv, NormalEndIsWhole
    <3>2. UNCHANGED <<written, pipe>>
      BY <3>1 DEF Group, Leader, BeginWrite, Write, Exit, ChildEnds, Hang, Dies, HoldsPipes,
                  Running, Pipes
    <3> QED
      BY <1>2, <1>4, <3>1, <3>2
  <2> QED
    BY <1>1, <2>1 DEF PumpInv, NormalEndIsWhole
<1> QED
  BY <1>6, <1>7, <1>8, <1>9, <1>10, <1>11 DEF PumpInv

\* What a step of a reader thread leaves alone.
LEMMA ReaderKeeps ==
    ASSUME PumpInv, UNCHANGED ReaderFrame
    PROVE  /\ UNCHANGED <<call, leader, child, sent, code, written, stopping, closed, consumer>>
           /\ UNCHANGED <<pending, yielded>>
           /\ (HoldsPipes' <=> HoldsPipes) /\ (Decodes' <=> Decodes)
BY DEF ReaderFrame, process, decoded, HoldsPipes, Running, Decodes

\* After the end of a call the pipes are closed.
LEMMA OverIsClosed ==
    ASSUME PumpInv, UNCHANGED ReaderFrame,
           \A p \in Pipes : error[p] => error'[p],
           consumer = "done" => UNCHANGED pipe
    PROVE  NothingIsLeft' /\ NormalEndIsWhole'
<1>1. "out" \in Pipes /\ "err" \in Pipes
  BY DEF Pipes
<1>2. NothingIsLeft'
  BY <1>1, ReaderKeeps DEF PumpInv, NothingIsLeft, Over, BothUnread
<1>3. NormalEndIsWhole'
  BY ReaderKeeps DEF PumpInv, NormalEndIsWhole
<1> QED
  BY <1>2, <1>3

\* A reader that has started stays started.
LEMMA ReaderCaller ==
    ASSUME PumpInv, UNCHANGED ReaderFrame,
           reader["out"] # "new" => reader'["out"] # "new",
           reader["err"] # "new" => reader'["err"] # "new"
    PROVE  CallerInv'
<1>1. /\ UNCHANGED <<call, leader, child, sent, stopping, closed, consumer>>
      /\ Decodes' <=> Decodes
  BY ReaderKeeps
<1> QED
  BY <1>1 DEF PumpInv, CallerInv

\* A bounded reader takes from its pipe, or reads it to its end, or fails.
LEMMA DrainPump ==
    ASSUME PumpInv, NEW p \in Pipes, Drain(p), ~(p = "out" /\ Decodes) PROVE PumpInv'
<1>1. UNCHANGED <<hand, events>> /\ UNCHANGED ReaderFrame /\ reader[p] = "reads"
  BY DEF Drain
<1>2. /\ \/ Empties(p, pipe[p]) \/ UNCHANGED pipe
      /\ \/ UNCHANGED <<reader, error>>
         \/ Becomes(p, "done") /\ (Dry(p) \/ error' = [error EXCEPT ![p] = TRUE])
                               /\ (error' = error \/ error' = [error EXCEPT ![p] = TRUE])
                               /\ pipe' = pipe
  BY DEF Drain, ReadFails, AtEof, Dry
<1>3. /\ pipe' \in [Pipes -> Nat] /\ error' \in [Pipes -> BOOLEAN]
      /\ reader' \in [Pipes -> {"new", "reads", "looks", "fetches", "emits", "done"}]
      /\ \A q \in Pipes : /\ error[q] => error'[q]
                          /\ q # p => pipe'[q] = pipe[q] /\ reader'[q] = reader[q]
                          /\ pipe[q] = 0 => pipe'[q] = 0
      /\ reader'[p] # "new"
  <2>1. /\ pipe' \in [Pipes -> Nat]
        /\ \A q \in Pipes : /\ q # p => pipe'[q] = pipe[q]
                            /\ pipe[q] = 0 => pipe'[q] = 0
    BY <1>2 DEF PumpInv, PumpType, Empties
  <2>2. error' \in [Pipes -> BOOLEAN] /\ \A q \in Pipes : error[q] => error'[q]
    BY <1>2 DEF PumpInv, PumpType
  <2>3. /\ reader' \in [Pipes -> {"new", "reads", "looks", "fetches", "emits", "done"}]
        /\ \A q \in Pipes : q # p => reader'[q] = reader[q]
        /\ reader'[p] # "new"
    BY <1>1, <1>2 DEF PumpInv, PumpType, Becomes
  <2> QED
    BY <2>1, <2>2, <2>3
<1>4. PumpType'
  BY <1>1, <1>3, ReaderKeeps DEF PumpInv, PumpType
<1>5. CallerInv'
  <2>1. /\ reader["out"] # "new" => reader'["out"] # "new"
        /\ reader["err"] # "new" => reader'["err"] # "new"
    BY <1>3 DEF Pipes
  <2> QED
    BY <1>1, <2>1, ReaderCaller
<1>6. BoundedInv'
  <2> SUFFICES ASSUME NEW q \in Pipes, ~(q = "out" /\ Decodes), reader'[q] = "done"
               PROVE  error'[q] \/ Dry(q)'
    BY <1>1, ReaderKeeps DEF BoundedInv
  <2>1. Dry(q) => Dry(q)'
    BY <1>1, <1>3, ReaderKeeps DEF Dry
  <2>2. CASE q # p
    BY <1>3, <2>1, <2>2 DEF PumpInv, BoundedInv
  <2>3. CASE q = p
    BY <1>1, <1>2, <2>1, <2>3 DEF PumpInv, PumpType
  <2> QED
    BY <2>2, <2>3
<1>7. FlowInv'
  <2>1. Decodes => pipe'["out"] = pipe["out"] /\ reader'["out"] = reader["out"]
    BY <1>3 DEF Pipes
  <2>2. UNCHANGED <<Bytes(hand), Queued>>
    BY <1>1 DEF Bytes, Queued
  <2> QED
    BY <1>1, <2>1, <2>2, ReaderKeeps DEF PumpInv, FlowInv, Dry
<1>8. NothingIsLeft' /\ NormalEndIsWhole'
  <2>1. consumer = "done" => UNCHANGED pipe
    <3> SUFFICES ASSUME consumer = "done", pipe' # pipe PROVE FALSE
      OBVIOUS
    <3>1. pipe = [q \in Pipes |-> 0]
      BY DEF PumpInv, NormalEndIsWhole
    <3> QED
      BY <1>2, <3>1 DEF Empties
  <2> QED
    BY <1>1, <1>3, <2>1, OverIsClosed
<1> QED
  BY <1>4, <1>5, <1>6, <1>7, <1>8 DEF PumpInv

\* The stdout reader of ffmpeg: an event goes from the pipe to its hand, and
\* from there to the queue.
LEMMA QueuePump ==
    ASSUME PumpInv, Decodes, Look \/ Fetch \/ Emit PROVE PumpInv'
<1>0. "out" \in Pipes /\ "err" \in Pipes
  BY DEF Pipes
<1>1. /\ UNCHANGED ReaderFrame
      /\ reader["out"] \in {"looks", "fetches", "emits"}
      /\ \E s \in {"looks", "fetches", "emits", "done"} : Becomes("out", s)
      /\ error' = error \/ error' = [error EXCEPT !["out"] = TRUE]
      /\ pipe' = pipe \/ \E n \in 1..Least(Block, pipe["out"]) : Empties("out", n)
  BY DEF Look, Fetch, Emit, ReadFails
<1>2. ASSUME NEW n \in 1..Least(Block, pipe["out"])
      PROVE  n \in 1..Block /\ n <= pipe["out"]
  <2>1. pipe["out"] \in Nat
    BY <1>0 DEF PumpInv, PumpType
  <2> QED
    BY <2>1, Sizes DEF Least
<1>3. /\ pipe' \in [Pipes -> Nat] /\ error' \in [Pipes -> BOOLEAN]
      /\ reader' \in [Pipes -> {"new", "reads", "looks", "fetches", "emits", "done"}]
      /\ \A q \in Pipes : error[q] => error'[q]
      /\ pipe'["err"] = pipe["err"] /\ reader'["err"] = reader["err"]
      /\ error'["err"] = error["err"]
      /\ pipe["out"] = 0 => pipe' = pipe
      /\ reader'["out"] # "new"
  <2>1. ASSUME NEW n \in 1..Least(Block, pipe["out"]), Empties("out", n)
        PROVE  /\ pipe' \in [Pipes -> Nat] /\ pipe["out"] # 0 /\ pipe'["err"] = pipe["err"]
    BY <1>0, <1>2, <2>1 DEF Empties, PumpInv, PumpType
  <2>2. /\ pipe' \in [Pipes -> Nat] /\ pipe'["err"] = pipe["err"]
        /\ pipe["out"] = 0 => pipe' = pipe
    BY <1>1, <2>1 DEF PumpInv, PumpType
  <2> QED
    BY <1>0, <1>1, <2>2 DEF PumpInv, PumpType, Becomes
<1>4. consumer \notin Waits \cup {"done"}
  BY <1>1 DEF PumpInv, FlowInv
<1>5. CallerInv'
  BY <1>1, <1>3, ReaderCaller
<1>6. BoundedInv'
  <2> SUFFICES ASSUME NEW q \in Pipes, ~(q = "out" /\ Decodes), reader'[q] = "done"
               PROVE  error'[q] \/ Dry(q)'
    BY <1>1, ReaderKeeps DEF BoundedInv
  <2>1. q = "err"
    BY DEF Pipes
  <2>2. error["err"] \/ Dry("err")
    BY <1>0, <1>3, <2>1 DEF PumpInv, BoundedInv
  <2> QED
    BY <1>1, <1>3, <2>1, <2>2, ReaderKeeps DEF Dry
<1>7. NothingIsLeft' /\ NormalEndIsWhole'
  BY <1>1, <1>3, <1>4, OverIsClosed
<1>8. Dry("out") => Dry("out")'
  BY <1>1, <1>3, ReaderKeeps DEF Dry
<1>9. /\ hand' \in PumpEvents
      /\ \/ events' = <<>>
         \/ \E e \in PumpEvents : events' = <<e>>
         \/ \E d \in 1..Block, e \in PumpEvents : events' = <<d, e>>
      /\ FlowInv'
  <2>1. CASE Look
    <3>1. UNCHANGED <<pipe, hand, events>> /\ reader["out"] = "looks"
          /\ reader'["out"] \in {"done", "fetches"}
      BY <1>0, <2>1 DEF Look, Becomes, PumpInv, PumpType
    <3>2. UNCHANGED <<Bytes(hand), Queued>>
      BY <3>1 DEF Bytes, Queued
    <3> QED
      BY <1>1, <1>4, <1>8, <3>1, <3>2, ReaderKeeps DEF PumpInv, PumpType, FlowInv
  <2>2. CASE Fetch
    <3>1. /\ UNCHANGED events /\ reader["out"] = "fetches" /\ reader'["out"] = "emits"
          /\ hand = Eof
      BY <1>0, <2>2 DEF Fetch, Becomes, PumpInv, PumpType, FlowInv
    <3>2. Queued' = Queued
      BY <3>1 DEF Queued
    <3>3. Len(events) > 0 => ~(events[Len(events)] <= 0)
      BY <3>1 DEF PumpInv, FlowInv
    <3>4. Queued \in Nat /\ pipe["out"] \in Nat /\ pending \in Nat /\ yielded \in Nat
      BY <1>0, QueuedType DEF PumpInv, PumpType
    <3>5. \/ \E n \in 1..Least(Block, pipe["out"]) : hand' = n /\ pipe'["out"] = pipe["out"] - n
          \/ pipe'["out"] = pipe["out"] /\ hand' = Eof /\ Dry("out")
          \/ pipe'["out"] = pipe["out"] /\ hand' = ReadError
      BY <1>0, <2>2 DEF Fetch, Empties, ReadFails, AtEof, Dry, PumpInv, PumpType
    <3>6. /\ hand' \in PumpEvents
          /\ pipe'["out"] + Bytes(hand)' = pipe["out"]
          /\ hand' = Eof => Dry("out")
      BY <1>2, <3>4, <3>5, Sizes DEF PumpEvents, Bytes, Eof, ReadError
    <3>7. Bytes(hand) = 0 /\ Bytes(hand)' \in Int /\ pipe'["out"] \in Int
      BY <1>0, <1>3, <3>1, <3>6, Sizes DEF Bytes, Eof, PumpEvents, ReadError
    <3>8. ~stopping =>
             written'["out"] = pipe'["out"] + Bytes(hand)' + Queued' + pending' + yielded'
      <4>1. ~stopping => written["out"] = pipe["out"] + Queued + pending + yielded
        BY <3>4, <3>7 DEF PumpInv, FlowInv
      <4>2. written'["out"] = written["out"] /\ pending' = pending /\ yielded' = yielded
        BY <1>1, ReaderKeeps
      <4> QED
        BY <3>2, <3>4, <3>6, <3>7, <4>1, <4>2
    <3>9. FlowInv'
      BY <1>1, <1>4, <1>8, <3>1, <3>3, <3>6, <3>8, ReaderKeeps DEF PumpInv, FlowInv
    <3> QED
      BY <3>1, <3>6, <3>9 DEF PumpInv, PumpType
  <2>3. CASE Emit
    <3>1. /\ reader["out"] = "emits" /\ hand' = Eof /\ pipe' = pipe
          /\ reader'["out"] \in {"looks", "done"}
      BY <1>0, <2>3 DEF Emit, Becomes, PumpInv, PumpType
    <3>2. CASE stopping /\ Becomes("out", "done") /\ UNCHANGED events
      <4>1. reader'["out"] = "done" /\ 0 \in PumpEvents
        BY <1>0, <3>2, Sizes DEF Becomes, PumpInv, PumpType, PumpEvents
      <4> QED
        BY <1>1, <1>4, <1>8, <3>1, <3>2, <4>1, ReaderKeeps DEF PumpInv, PumpType, FlowInv, Eof
    <3>3. CASE /\ Len(events) < QueueSize /\ events' = Append(events, hand)
               /\ Becomes("out", IF hand > 0 THEN "looks" ELSE "done")
      <4>1. reader'["out"] = IF hand > 0 THEN "looks" ELSE "done"
        BY <1>0, <3>3 DEF Becomes, PumpInv, PumpType
      <4>2. hand \in PumpEvents
        BY DEF PumpInv, PumpType
      <4>3. \/ events = <<>> /\ events' = <<hand>>
            \/ \E d \in 1..Block : events = <<d>> /\ events' = <<d, hand>>
        <5>1. Len(events) > 0 => ~(events[Len(events)] <= 0)
          BY <3>1 DEF PumpInv, FlowInv
        <5>2. CASE events = <<>>
          BY <3>3, <5>2
        <5>3. CASE \E e \in PumpEvents : events = <<e>>
          <6>1. PICK e \in PumpEvents : events = <<e>>
            BY <5>3
          <6>2. ~(e <= 0)
            BY <5>1, <6>1
          <6>3. e \in 1..Block
            BY <6>2, Sizes DEF PumpEvents, ReadError
          <6>4. Append(<<e>>, hand) = <<e, hand>>
            BY <4>2, <6>1, AppendOne
          <6> QED
            BY <3>3, <6>1, <6>3, <6>4
        <5>4. CASE \E d \in 1..Block, e \in PumpEvents : events = <<d, e>>
          BY <3>3, <5>4 DEF QueueSize
        <5> QED
          BY <5>2, <5>3, <5>4 DEF PumpInv, PumpType
      <4>4. /\ Len(events') > 0 /\ events'[Len(events')] = hand
            /\ Queued' = Queued + Bytes(hand)
        <5>1. CASE events = <<>> /\ events' = <<hand>>
          BY <5>1, QueuedType DEF Queued
        <5>2. CASE \E d \in 1..Block : events = <<d>> /\ events' = <<d, hand>>
          BY <5>2, QueuedType DEF Queued
        <5> QED
          BY <4>3, <5>1, <5>2
      <4>5. Bytes(hand)' = 0 /\ hand' \in PumpEvents
        BY <3>1, Sizes DEF Bytes, Eof, PumpEvents
      <4>6. ~stopping =>
               written'["out"] = pipe'["out"] + Bytes(hand)' + Queued' + pending' + yielded'
        <5>1. pipe["out"] \in Nat /\ pending \in Nat /\ yielded \in Nat
          BY <1>0 DEF PumpInv, PumpType
        <5>2. ~stopping => written["out"] = pipe["out"] + Bytes(hand) + Queued + pending + yielded
          BY DEF PumpInv, FlowInv
        <5>3. written' = written /\ pending' = pending /\ yielded' = yielded
          BY <1>1, ReaderKeeps
        <5> QED
          BY <3>1, <4>4, <4>5, <5>1, <5>2, <5>3, QueuedType
      <4>7. hand = Eof => Dry("out")'
        BY <1>8, <3>1 DEF PumpInv, FlowInv
      <4>8. hand <= 0 => reader'["out"] = "done"
        BY <4>1, <4>2, Sizes DEF PumpEvents, ReadError
      <4>9. FlowInv'
        BY <1>1, <1>4, <3>1, <4>4, <4>6, <4>7, <4>8, ReaderKeeps DEF FlowInv
      <4> QED
        BY <4>2, <4>3, <4>5, <4>9
    <3> QED
      BY <2>3, <3>2, <3>3 DEF Emit
  <2> QED
    BY <2>1, <2>2, <2>3
<1>10. PumpType'
  BY <1>1, <1>3, <1>9, ReaderKeeps DEF PumpInv, PumpType
<1> QED
  BY <1>5, <1>6, <1>7, <1>9, <1>10 DEF PumpInv

-----------------------------------------------------------------------------
\* The caller moves and leaves processes, pipes and readers alone; it does not
\* come to an end yet.
LEMMA CallerMoves ==
    ASSUME PumpInv,
           UNCHANGED <<call, leader, child, sent, code, written, pipe, reader, error, hand>>,
           UNCHANGED <<stopping, closed, events, pending, yielded>>,
           consumer' \in {"starts"} \cup Loop \cup Waits \cup Stops,
           consumer' \in Waits => consumer \in Waits,
           CallerInv'
    PROVE  PumpInv'
<1>1. PumpType'
  BY DEF PumpInv, PumpType
<1>2. /\ HoldsPipes' <=> HoldsPipes
      /\ Decodes' <=> Decodes
      /\ Queued' = Queued
      /\ Bytes(hand)' = Bytes(hand)
  BY DEF HoldsPipes, Running, Decodes, Queued, Bytes
<1>3. BoundedInv'
  BY <1>2 DEF PumpInv, BoundedInv, Dry
<1>4. FlowInv'
  <2>1. consumer' # "done"
    BY DEF Loop, Waits, Stops
  <2> QED
    BY <1>2, <2>1 DEF PumpInv, FlowInv, Dry
<1>5. ~Over' /\ consumer' # "done"
  BY DEF Over, Loop, Waits, Stops
<1> QED
  BY <1>1, <1>3, <1>4, <1>5, CallerInv' DEF PumpInv, NothingIsLeft, NormalEndIsWhole

\* The caller goes round its loop, or leaves it for stop().
LEMMA CheckPump ==
    ASSUME PumpInv, Check \/ CloseGenerator \/ GiveUp PROVE PumpInv'
<1>1. /\ UNCHANGED <<call, leader, child, sent, code, written, pipe, reader, error, hand>>
      /\ UNCHANGED <<stopping, closed, events, pending, yielded>>
  BY DEF Check, CloseGenerator, GiveUp, CallerFrame, process, output, decoded
<1>2. /\ consumer \in Loop \cup Waits
      /\ \/ consumer \in Loop /\ consumer' = "takes"
         \/ consumer' = "stops"
  BY DEF Check, CloseGenerator, GiveUp, Goes, Loop, Waits
<1>3. CallerInv'
  BY <1>1, <1>2 DEF PumpInv, CallerInv, Loop, Waits, Decodes
<1> QED
  BY <1>1, <1>2, <1>3, CallerMoves DEF Loop, Waits, Stops

\* The event in front of the queue.
LEMMA HeadOfEvents ==
    ASSUME PumpInv, events # <<>>
    PROVE  \/ \E e \in PumpEvents :
                 /\ events = <<e>> /\ Head(events) = e /\ Tail(events) = <<>>
                 /\ Queued = Bytes(e)
           \/ \E d \in 1..Block, e \in PumpEvents :
                 /\ events = <<d, e>> /\ Head(events) = d /\ Tail(events) = <<e>>
                 /\ Queued = d + Bytes(e)
<1>1. CASE \E e \in PumpEvents : events = <<e>>
  BY <1>1 DEF Queued
<1>2. CASE \E d \in 1..Block, e \in PumpEvents : events = <<d, e>>
  <2>1. PICK d \in 1..Block, e \in PumpEvents : events = <<d, e>>
    BY <1>2
  <2>2. Bytes(d) = d
    BY Sizes DEF Bytes
  <2>3. Tail(<<d, e>>) = <<e>>
    <3>1. d \in PumpEvents
      BY Sizes DEF PumpEvents
    <3> QED
      BY <3>1, TailOne
  <2> QED
    BY <2>1, <2>2, <2>3 DEF Queued
<1> QED
  BY <1>1, <1>2 DEF PumpInv, PumpType

\* The caller takes an event: its bytes move from the queue to what is pending
\* or is yielded.
LEMMA TakePump ==
    ASSUME PumpInv, Take PROVE PumpInv'
<1>1. /\ UNCHANGED <<call, leader, child, sent, code, written, pipe, reader, error, hand>>
      /\ UNCHANGED <<stopping, closed>>
      /\ consumer = "takes" /\ Decodes /\ ~stopping /\ ~closed
      /\ reader["out"] # "new" /\ reader["err"] # "new"
  BY DEF Take, CallerFrame, process, PumpInv, CallerInv, Loop
<1>2. /\ HoldsPipes' <=> HoldsPipes
      /\ Decodes'
      /\ Bytes(hand)' = Bytes(hand)
  BY <1>1 DEF HoldsPipes, Running, Decodes, Bytes
<1>3. BoundedInv'
  BY <1>1, <1>2 DEF PumpInv, BoundedInv, Dry
<1>4. CASE events = <<>>
  <2>1. consumer' = "checks" /\ UNCHANGED <<events, pending, yielded>>
    BY <1>4 DEF Take, decoded
  <2>2. CallerInv'
    BY <1>1, <1>2, <2>1 DEF CallerInv, Loop, Waits
  <2> QED
    BY <1>1, <2>1, <2>2, CallerMoves DEF Loop, Waits, Stops
<1>5. CASE events # <<>>
  <2>1. PICK e : /\ e = Head(events) /\ events' = Tail(events)
                 /\ consumer' = CASE e = Eof                           -> "waits process"
                                  [] e = ReadError                     -> "stops"
                                  [] e > 0 /\ pending + e >= Block     -> "holds"
                                  [] e > 0 /\ ~(pending + e >= Block)  -> "checks"
                 /\ IF e > 0 /\ pending + e >= Block
                    THEN Yields(pending + e, (pending + e) - Block)
                    ELSE /\ pending' = IF e > 0 THEN pending + e ELSE pending
                         /\ UNCHANGED yielded
    BY <1>5 DEF Take
  <2>2. /\ pending \in Nat /\ yielded \in Nat /\ Block \in Nat /\ Queued \in Nat
        /\ written["out"] \in Nat /\ pipe["out"] \in Nat /\ Bytes(hand) \in Nat
        /\ \A x \in PumpEvents : x \in Int /\ Bytes(x) \in Nat
        /\ \A x \in 1..Block : x \in Nat /\ x > 0
    BY Sizes, QueuedType DEF PumpInv, PumpType, Pipes, PumpEvents, Bytes, ReadError
  <2>3. written["out"] = pipe["out"] + Bytes(hand) + Queued + pending + yielded
    BY <1>1 DEF PumpInv, FlowInv
  <2> DEFINE Leaves ==
        /\ e \in PumpEvents /\ (events' = <<>> \/ \E x \in PumpEvents : events' = <<x>>)
        /\ Queued = Bytes(e) + Queued' /\ Queued' \in Nat
        /\ e <= 0 => events = <<e>> /\ events' = <<>>
        /\ Len(events') > 0 => Len(events) > 0 /\ events'[Len(events')] = events[Len(events)]
  <2>4. Leaves
    <3>1. ASSUME NEW x \in PumpEvents, events = <<x>>, e = x, events' = <<>>, Queued = Bytes(x)
          PROVE  Leaves
      BY <2>2, <3>1 DEF Queued
    <3>2. ASSUME NEW d \in 1..Block, NEW x \in PumpEvents, events = <<d, x>>, e = d,
                 events' = <<x>>, Queued = d + Bytes(x)
          PROVE  Leaves
      <4>1. d \in PumpEvents /\ Bytes(d) = d
        BY <2>2 DEF PumpEvents, Bytes
      <4>2. Queued' = Bytes(x)
        BY <3>2 DEF Queued, Bytes
      <4> QED
        BY <2>2, <3>2, <4>1, <4>2
    <3> QED
      BY <1>5, <2>1, <3>1, <3>2, HeadOfEvents
  <2>5. /\ pending' \in Nat /\ yielded' \in Nat
        /\ pending' + yielded' = (pending + yielded) + Bytes(e)
    <3>1. CASE e > 0 /\ pending + e >= Block
      <4>1. /\ yielded' = yielded + ((pending + e) - ((pending + e) - Block))
            /\ pending' = (pending + e) - Block /\ e \in Int
        BY <2>1, <2>2, <2>4, <3>1 DEF Yields
      <4>2. Bytes(e) = e
        BY <3>1 DEF Bytes
      <4> QED
        BY <2>2, <2>4, <3>1, <4>1, <4>2
    <3>2. CASE e > 0 /\ ~(pending + e >= Block)
      <4>1. yielded' = yielded /\ pending' = pending + e /\ Bytes(e) = e
        BY <2>1, <3>2 DEF Bytes
      <4> QED
        BY <2>2, <2>4, <4>1
    <3>3. CASE ~(e > 0)
      <4>1. yielded' = yielded /\ pending' = pending /\ Bytes(e) = 0
        BY <2>1, <3>3 DEF Bytes
      <4> QED
        BY <2>2, <2>4, <4>1
    <3> QED
      BY <3>1, <3>2, <3>3
  <2>6. written'["out"] = pipe'["out"] + Bytes(hand)' + Queued' + pending' + yielded'
    <3>1. /\ Bytes(hand)' = Bytes(hand) /\ written' = written /\ pipe' = pipe
          /\ Bytes(e) \in Nat
      BY <1>1, <1>2, <2>2, <2>4
    <3>2. Queued + (pending + yielded) = Queued' + (pending' + yielded')
      BY <2>2, <2>4, <2>5, <3>1
    <3>3. pipe["out"] + Bytes(hand) + Queued + pending + yielded
            = (pipe["out"] + Bytes(hand)) + (Queued + (pending + yielded))
      BY <2>2
    <3>4. pipe["out"] + Bytes(hand) + Queued' + pending' + yielded'
            = (pipe["out"] + Bytes(hand)) + (Queued' + (pending' + yielded'))
      <4>1. Queued' \in Nat /\ pending' \in Nat /\ yielded' \in Nat
        BY <2>4, <2>5
      <4>2. pipe["out"] \in Nat /\ Bytes(hand) \in Nat
        BY <2>2
      <4> QED
        BY <4>1, <4>2
    <3> QED
      BY <2>3, <3>1, <3>2, <3>3, <3>4
  <2>7. /\ consumer' \in {"waits process", "stops", "holds", "checks"}
        /\ consumer' = "waits process" => e = Eof
    <3>1. e = Eof \/ e = ReadError \/ e > 0
      BY <2>2, <2>4 DEF PumpEvents, Eof
    <3> QED
      BY <2>1, <3>1 DEF Eof, ReadError
  <2>8. PumpType'
    BY <1>1, <2>4, <2>5, <2>7 DEF PumpInv, PumpType, Loop, Waits, Stops
  <2>9. CallerInv'
    BY <1>1, <1>2, <2>7 DEF CallerInv, Loop, Waits
  <2>10. FlowInv'
    <3>1. consumer' \in Waits \cup {"done"} =>
             reader["out"] = "done" /\ events' = <<>> /\ Dry("out")
      <4> SUFFICES ASSUME e = Eof
                   PROVE  reader["out"] = "done" /\ events' = <<>> /\ Dry("out")
        BY <2>7 DEF Waits
      <4>1. events = <<Eof>> /\ events' = <<>>
        BY <2>4 DEF Eof
      <4> QED
        BY <1>1, <4>1 DEF PumpInv, FlowInv, Eof
    <3> QED
      BY <1>1, <1>2, <2>4, <2>6, <3>1 DEF PumpInv, FlowInv, Dry
  <2>11. NothingIsLeft' /\ NormalEndIsWhole'
    BY <2>7 DEF NothingIsLeft, NormalEndIsWhole, Over
  <2> QED
    BY <1>3, <2>8, <2>9, <2>10, <2>11 DEF PumpInv
<1> QED
  BY <1>4, <1>5

\* The generator is resumed, and yields the next full block or goes on.
LEMMA ResumePump ==
    ASSUME PumpInv, Resume PROVE PumpInv'
<1>1. /\ UNCHANGED <<call, leader, child, sent, code, written, pipe, reader, error, hand>>
      /\ UNCHANGED <<stopping, closed, events>>
      /\ consumer = "holds" /\ consumer' \in {"holds", "checks"}
  BY DEF Resume, CallerFrame, process, output
<1>2. /\ HoldsPipes' <=> HoldsPipes
      /\ Decodes' <=> Decodes
      /\ Bytes(hand)' = Bytes(hand) /\ Queued' = Queued
  BY <1>1 DEF HoldsPipes, Running, Decodes, Bytes, Queued
<1>3. /\ pending \in Nat /\ yielded \in Nat /\ Queued \in Nat /\ Bytes(hand) \in Nat
      /\ pipe["out"] \in Nat
  BY QueuedType DEF PumpInv, PumpType, Pipes
<1>4. pending' \in Nat /\ yielded' \in Nat /\ pending' + yielded' = pending + yielded
  <2>1. CASE pending >= Block
    <3>1. pending' = pending - Block /\ yielded' = yielded + (pending - (pending - Block))
      BY <2>1 DEF Resume, Yields
    <3> QED
      BY <1>3, <2>1, <3>1, Sizes
  <2>2. CASE ~(pending >= Block)
    BY <1>3, <2>2 DEF Resume, decoded
  <2> QED
    BY <2>1, <2>2
<1>5. PumpType'
  BY <1>1, <1>4 DEF PumpInv, PumpType, Loop
<1>6. CallerInv'
  BY <1>1, <1>2 DEF PumpInv, CallerInv, Loop, Waits
<1>7. BoundedInv'
  BY <1>1, <1>2 DEF PumpInv, BoundedInv, Dry
<1>8. FlowInv'
  <2>1. pipe["out"] + Bytes(hand) + Queued + pending' + yielded'
          = pipe["out"] + Bytes(hand) + Queued + pending + yielded
    <3>1. pipe["out"] + Bytes(hand) + Queued + pending' + yielded'
            = (pipe["out"] + Bytes(hand) + Queued) + (pending' + yielded')
      BY <1>3, <1>4
    <3>2. pipe["out"] + Bytes(hand) + Queued + pending + yielded
            = (pipe["out"] + Bytes(hand) + Queued) + (pending + yielded)
      BY <1>3
    <3> QED
      BY <1>4, <3>1, <3>2
  <2>2. Decodes /\ ~stopping' =>
           written'["out"] = pipe'["out"] + Bytes(hand)' + Queued' + pending' + yielded'
    BY <1>1, <1>2, <2>1 DEF PumpInv, FlowInv
  <2>3. consumer' \notin Waits \cup {"done"}
    BY <1>1 DEF Waits
  <2> QED
    BY <1>1, <1>2, <2>2, <2>3 DEF PumpInv, FlowInv, Dry
<1>9. NothingIsLeft' /\ NormalEndIsWhole'
  BY <1>1 DEF NothingIsLeft, NormalEndIsWhole, Over
<1> QED
  BY <1>5, <1>6, <1>7, <1>8, <1>9 DEF PumpInv

\* A reader thread starts, or none does and the caller stops.
LEMMA StartPump ==
    ASSUME PumpInv, NEW p \in Pipes, Start(p) PROVE PumpInv'
<1>1. /\ UNCHANGED <<call, leader, child, sent, code, written, pipe, error, hand, events>>
      /\ UNCHANGED <<stopping, closed, pending, yielded>>
      /\ consumer = "starts" /\ reader[p] = "new"
  BY DEF Start, CallerFrame, process, decoded
<1>2. CASE consumer' = "stops" /\ UNCHANGED reader
  <2>1. CallerInv'
    BY <1>1, <1>2 DEF PumpInv, CallerInv, Loop, Waits, Decodes
  <2> QED
    BY <1>1, <1>2, <2>1, CallerMoves DEF Waits, Stops
<1>3. CASE /\ Becomes(p, IF p = "out" /\ call = "decode" THEN "looks" ELSE "reads")
           /\ consumer' = IF p = "out" THEN "starts"
                          ELSE IF call = "decode" THEN "checks" ELSE "waits process"
  <2>1. /\ reader' \in [Pipes -> {"new", "reads", "looks", "fetches", "emits", "done"}]
        /\ reader'[p] \in {"looks", "reads"}
        /\ \A q \in Pipes : q # p => reader'[q] = reader[q]
    BY <1>3 DEF Becomes, PumpInv, PumpType
  <2>2. /\ consumer' \in {"starts", "checks", "waits process"}
        /\ consumer' # "starts" => p = "err" /\ reader["out"] # "new"
        /\ consumer' = "checks" => Decodes
        /\ consumer' = "waits process" => ~Decodes
    <3>1. p = "err" => reader["out"] # "new"
      BY DEF Start
    <3>2. CASE p = "out"
      BY <1>3, <3>2
    <3>3. CASE p # "out" /\ Decodes
      BY <1>3, <3>1, <3>3 DEF Decodes, Pipes
    <3>4. CASE p # "out" /\ ~Decodes
      BY <1>3, <3>1, <3>4 DEF Decodes, Pipes
    <3> QED
      BY <3>2, <3>3, <3>4
  <2>3. /\ HoldsPipes' <=> HoldsPipes
        /\ Decodes' <=> Decodes
        /\ Bytes(hand)' = Bytes(hand) /\ Queued' = Queued
    BY <1>1 DEF HoldsPipes, Running, Decodes, Bytes, Queued
  <2>4. PumpType'
    BY <1>1, <2>1, <2>2 DEF PumpInv, PumpType, Loop, Waits
  <2>5. CallerInv'
    <3>1. consumer' # "starts" => reader'["out"] # "new" /\ reader'["err"] # "new"
      BY <2>1, <2>2 DEF Pipes
    <3> QED
      BY <1>1, <2>2, <2>3, <3>1 DEF PumpInv, CallerInv, Loop, Waits
  <2>6. BoundedInv'
    BY <1>1, <2>1, <2>3 DEF PumpInv, BoundedInv, Dry
  <2>7. FlowInv'
    <3>1. reader'["out"] # reader["out"] =>
             reader["out"] = "new" /\ reader'["out"] \in {"looks", "reads"}
      BY <1>1, <2>1 DEF Pipes
    <3>2. Decodes => consumer' \notin Waits \cup {"done"}
      BY <2>2 DEF Waits
    <3> QED
      BY <1>1, <2>3, <3>1, <3>2 DEF PumpInv, FlowInv, Dry
  <2>8. NothingIsLeft' /\ NormalEndIsWhole'
    BY <2>2 DEF NothingIsLeft, NormalEndIsWhole, Over
  <2> QED
    BY <2>4, <2>5, <2>6, <2>7, <2>8 DEF PumpInv
<1> QED
  BY <1>2, <1>3 DEF Start

\* The leader has exited and is reaped.
LEMMA WaitProcessPump ==
    ASSUME PumpInv, WaitProcess PROVE PumpInv'
<1>1. /\ UNCHANGED <<call, child, sent, code, written, pipe, reader, error, hand, events>>
      /\ UNCHANGED <<stopping, closed, pending, yielded>>
      /\ leader = "zombie" /\ leader' = "reaped"
      /\ consumer = "waits process" /\ consumer' = "waits readers"
  BY DEF WaitProcess, Goes, CallerFrame, output, decoded
<1>2. /\ HoldsPipes' <=> HoldsPipes
      /\ Decodes' <=> Decodes
      /\ Bytes(hand)' = Bytes(hand) /\ Queued' = Queued
  BY <1>1 DEF HoldsPipes, Running, Decodes, Bytes, Queued
<1>3. PumpType'
  BY <1>1 DEF PumpInv, PumpType, Waits
<1>4. CallerInv' /\ BoundedInv'
  BY <1>1, <1>2 DEF PumpInv, CallerInv, BoundedInv, Dry, Loop, Waits
<1>5. FlowInv'
  BY <1>1, <1>2 DEF PumpInv, FlowInv, Dry, Waits
<1>6. NothingIsLeft' /\ NormalEndIsWhole'
  BY <1>1 DEF NothingIsLeft, NormalEndIsWhole, Over
<1> QED
  BY <1>3, <1>4, <1>5, <1>6 DEF PumpInv

\* Both readers have ended: with an error, or because both pipes are at their end.
LEMMA WaitReadersPump ==
    ASSUME PumpInv, WaitReaders PROVE PumpInv'
<1>1. /\ UNCHANGED <<call, leader, child, sent, code, written, pipe, reader, error, hand, events>>
      /\ UNCHANGED stopping
      /\ consumer = "waits readers" /\ consumer' = IF Failed THEN "failed" ELSE "done"
      /\ closed' = TRUE /\ leader = "reaped" /\ ~stopping
  BY DEF WaitReaders, Goes, CallerFrame, process, output, PumpInv, CallerInv, Waits
<1>2. /\ HoldsPipes' <=> HoldsPipes
      /\ Decodes' <=> Decodes
      /\ Bytes(hand)' = Bytes(hand) /\ Queued' = Queued
  BY <1>1 DEF HoldsPipes, Running, Decodes, Bytes, Queued
<1>3. reader["out"] = "done" /\ reader["err"] = "done"
  BY <1>1 DEF WaitReaders, Alive, Started, Pipes, PumpInv, CallerInv, Waits
<1>4. /\ error["err"] \/ Dry("err")
      /\ ~Decodes => error["out"] \/ Dry("out")
      /\ Decodes => Dry("out") /\ events = <<>> /\ hand = Eof
  BY <1>1, <1>3 DEF PumpInv, BoundedInv, FlowInv, Pipes, Waits
<1>5. /\ pending \in Nat /\ yielded \in Nat /\ pending' \in Nat /\ yielded' \in Nat
      /\ pending' + yielded' = pending + yielded
      /\ ~Failed => pending' = 0
  <2>1. pending \in Nat /\ yielded \in Nat
    BY DEF PumpInv, PumpType
  <2>2. CASE ~Failed /\ pending > 0
    <3>1. pending' = 0 /\ yielded' = yielded + (pending - 0)
      BY <2>2 DEF WaitReaders, Yields
    <3> QED
      BY <2>1, <3>1
  <2>3. CASE ~(~Failed /\ pending > 0)
    <3>1. pending' = pending /\ yielded' = yielded
      BY <2>3 DEF WaitReaders, decoded
    <3> QED
      BY <2>1, <2>3, <3>1
  <2> QED
    BY <2>2, <2>3
<1>6. PumpType'
  BY <1>1, <1>5 DEF PumpInv, PumpType, Ends
<1>7. CallerInv' /\ BoundedInv'
  BY <1>1, <1>2 DEF PumpInv, CallerInv, BoundedInv, Dry, Loop, Waits
<1>8. Decodes => /\ written["out"] = pipe["out"] + Bytes(hand) + Queued + pending + yielded
                 /\ pipe["out"] = 0 /\ Bytes(hand) = 0 /\ Queued = 0
  <2>1. events = <<>> => Queued = 0
    BY DEF Queued
  <2>2. hand = Eof => Bytes(hand) = 0
    BY DEF Bytes, Eof
  <2> QED
    BY <1>1, <1>4, <2>1, <2>2 DEF PumpInv, FlowInv, Dry
<1>9. Decodes => /\ written'["out"] = pipe'["out"] + Bytes(hand)' + Queued' + pending' + yielded'
                 /\ written["out"] = pending' + yielded'
  <2> SUFFICES ASSUME Decodes
               PROVE  /\ written["out"] = pipe["out"] + Bytes(hand) + Queued + pending' + yielded'
                      /\ written["out"] = pending' + yielded'
    BY <1>1, <1>2
  <2>1. written["out"] = pending + yielded
    BY <1>5, <1>8
  <2>2. 0 + 0 + 0 + pending' + yielded' = pending' + yielded'
    BY <1>5
  <2> QED
    BY <1>5, <1>8, <2>1, <2>2
<1>10. FlowInv'
  BY <1>1, <1>2, <1>3, <1>4, <1>9 DEF PumpInv, FlowInv, Dry
<1>11. NothingIsLeft'
  <2>1. child => ~Decodes /\ error["out"] /\ error["err"]
    BY <1>4 DEF Dry, HoldsPipes
  <2>2. child => Failed
    BY <2>1 DEF Failed
  <2> QED
    BY <1>1, <2>1, <2>2 DEF NothingIsLeft, BothUnread, Over, Decodes, PumpInv, PumpType
<1>12. NormalEndIsWhole'
  <2> SUFFICES ASSUME ~Failed
               PROVE  /\ code' = 0 /\ pipe' = [p \in Pipes |-> 0] /\ ~HoldsPipes'
                      /\ Decodes => yielded' = written'["out"]
    BY <1>1, <1>2 DEF NormalEndIsWhole, Decodes
  <2>1. Dry("out") /\ Dry("err") /\ code = 0
    BY <1>4 DEF Failed
  <2>2. pipe = [p \in Pipes |-> 0]
    BY <2>1 DEF Dry, Pipes, PumpInv, PumpType
  <2>3. Decodes => yielded' = written["out"]
    BY <1>5, <1>9
  <2> QED
    BY <1>1, <1>2, <2>1, <2>2, <2>3 DEF Dry
<1> QED
  BY <1>6, <1>7, <1>10, <1>11, <1>12 DEF PumpInv

-----------------------------------------------------------------------------
\* stop(): every way to the joins has seen the group dead or sent SIGKILL.
LEMMA StoppingPump ==
    ASSUME PumpInv, Stopping PROVE PumpInv'
<1>1. /\ UNCHANGED <<call, child, code, written, pipe, reader, error, hand, events>>
      /\ UNCHANGED <<pending, yielded>>
  BY DEF Stopping, Terminate, Poll, GroupEnded, Kill, Reap, Join, StopFrame, CallerFrame,
         output, decoded
<1>2. /\ leader' = leader \/ (leader = "zombie" /\ leader' = "reaped")
      /\ consumer \in Stops
      /\ consumer' \in Stops \cup {"failed", "cleanup failed"}
      /\ stopping' \in BOOLEAN /\ (stopping => stopping')
      /\ closed' \in BOOLEAN /\ (closed => closed')
      /\ consumer' \in {"failed", "cleanup failed"} =>
            consumer = "joins" /\ UNCHANGED <<leader, closed, sent>>
      /\ consumer' \in {"reaps", "joins"} => (child => sent' = "kill")
      /\ consumer' = "joins" => leader' = "reaped" /\ closed'
  <2>1. CASE Terminate
    BY <2>1 DEF Terminate, Goes, GroupAlive, HoldsPipes, Stops, PumpInv, PumpType
  <2>2. CASE Poll
    BY <2>2 DEF Poll, Stops, PumpInv, PumpType
  <2>3. CASE GroupEnded
    BY <2>3 DEF GroupEnded, Goes, GroupAlive, HoldsPipes, Stops, PumpInv, PumpType
  <2>4. CASE Kill
    BY <2>4 DEF Kill, Goes, Stops, PumpInv, PumpType
  <2>5. CASE Reap
    BY <2>5 DEF Reap, Goes, Stops, PumpInv, PumpType, CallerInv
  <2>6. CASE Join
    BY <2>6 DEF Join, Stops, PumpInv, PumpType
  <2> QED
    BY <2>1, <2>2, <2>3, <2>4, <2>5, <2>6 DEF Stopping
<1>3. /\ HoldsPipes' <=> HoldsPipes
      /\ Decodes' <=> Decodes
      /\ Bytes(hand)' = Bytes(hand) /\ Queued' = Queued
  BY <1>1, <1>2 DEF HoldsPipes, Running, Decodes, Bytes, Queued
<1>4. PumpType'
  BY <1>1, <1>2 DEF PumpInv, PumpType, Stops, Ends
<1>5. CallerInv'
  BY <1>1, <1>2 DEF CallerInv, Stops, Loop, Waits
<1>6. BoundedInv'
  BY <1>1, <1>3 DEF PumpInv, BoundedInv, Dry
<1>7. FlowInv'
  <2>1. consumer' \notin Waits \cup {"done"}
    BY <1>2 DEF Stops, Waits
  <2> QED
    BY <1>1, <1>2, <1>3, <2>1 DEF PumpInv, FlowInv, Dry
<1>8. NothingIsLeft' /\ NormalEndIsWhole'
  BY <1>1, <1>2 DEF PumpInv, CallerInv, NothingIsLeft, NormalEndIsWhole, Over, Stops
<1> QED
  BY <1>4, <1>5, <1>6, <1>7, <1>8 DEF PumpInv

\* A cancellation, or the deadline, only leaves a note.
LEMMA ToldPump ==
    ASSUME PumpInv,
           UNCHANGED <<call, process, pipe, output, stopping, closed, consumer, decoded>>
    PROVE  PumpInv'
<1>1. /\ UNCHANGED <<call, leader, child, sent, code, written, pipe, reader, error, hand, events>>
      /\ UNCHANGED <<stopping, closed, consumer, pending, yielded>>
  BY DEF process, output, decoded
<1>2. /\ HoldsPipes' <=> HoldsPipes
      /\ Decodes' <=> Decodes
      /\ Bytes(hand)' = Bytes(hand) /\ Queued' = Queued
  BY <1>1 DEF HoldsPipes, Running, Decodes, Bytes, Queued
<1>0. (child' <=> child) /\ (closed' <=> closed) /\ (stopping' <=> stopping)
  BY <1>1
<1>3. PumpType'
  BY <1>1 DEF PumpInv, PumpType
<1>4. CallerInv'
  BY <1>0, <1>1, <1>2 DEF PumpInv, CallerInv
<1>5. BoundedInv'
  BY <1>1, <1>2 DEF PumpInv, BoundedInv, Dry
<1>6. FlowInv'
  BY <1>1, <1>2 DEF PumpInv, FlowInv, Dry
<1>7. NothingIsLeft'
  BY <1>0, <1>1 DEF PumpInv, NothingIsLeft, Over, BothUnread
<1>8. NormalEndIsWhole'
  BY <1>1, <1>2 DEF PumpInv, NormalEndIsWhole
<1> QED
  BY <1>3, <1>4, <1>5, <1>6, <1>7, <1>8 DEF PumpInv

-----------------------------------------------------------------------------
\* Every step keeps the invariant.
LEMMA NextPump == PumpInv /\ [Next]_vars => PumpInv'
<1> SUFFICES ASSUME PumpInv, [Next]_vars PROVE PumpInv'
  OBVIOUS
<1>1. CASE Leader \/ ChildEnds \/ Hang \/ Dies
  BY <1>1, GroupPump DEF Group
<1>2. CASE \E p \in Pipes : Reading(p)
  BY <1>2, QueuePump, DrainPump DEF Reading, Decodes
<1>3. CASE Caller
  BY <1>3, StartPump, CheckPump, TakePump, ResumePump, WaitProcessPump, WaitReadersPump
     DEF Caller
<1>4. CASE Stopping
  BY <1>4, StoppingPump
<1>5. CASE Cancel \/ Expire \/ Ended \/ UNCHANGED vars
  BY <1>5, ToldPump DEF Cancel, Expire, Ended, vars
<1> QED
  BY <1>1, <1>2, <1>3, <1>4, <1>5 DEF Next

\* Where the caller of probe_media or decode_audio is, its readers and process
\* group are where it takes them to be, and no byte of stdout is lost between
\* the pipe and the caller (audio.py, _ProcessPump).
THEOREM PumpInvariance == Spec => []PumpInv
  BY InitPump, NextPump, PTL DEF Spec

\* However a call of probe_media or decode_audio ends, its process has been
\* reaped, its pipes are closed and its group is dead or was sent SIGKILL, but
\* for the one probe that raises without stop() (audio.py, _terminate_and_reap).
THEOREM NothingLeftBehind == Spec => []NothingIsLeft
  BY PumpInvariance, PTL DEF PumpInv

\* A decode that ends without an error has yielded every byte that was written,
\* whatever the sizes of blocks and pipes (audio.py, decode_audio).
THEOREM NormalEndsAreWhole == Spec => []NormalEndIsWhole
  BY PumpInvariance, PTL DEF PumpInv

-----------------------------------------------------------------------------
(***************************************************************************)
(* SyncRequest: where the coroutine is tells who works for it, and what    *)
(* there is of its input and its artifact.                                 *)
(***************************************************************************)

\* The body is coming in; the processing thread has not ended; a storage call
\* takes the input away.
Receiving == {"ingest", "append"}
Working == {"preflight", "writing", "sealed", "abort", "discard"}
GivesBack == {"discard", "abort", "release", "finally"}

\* A thread works for the coroutine only where the coroutine waits for it.
ThreadInv ==
    /\ pc \in StorageCalls \cup {"ingest", "process", "respond", "unprepare", "stream", "over"}
    /\ pc \in StorageCalls => poolCall \in {"running", "returned", "raised"}
    /\ pc \notin StorageCalls => poolCall = "none"
    /\ pc = "process" => worker \in Working \cup {"returned", "raised"}
    /\ pc = "stream" => worker \in {"idle", "reading", "read all"}
    /\ pc \notin {"process", "stream"} => worker = "idle"
    /\ inputFails \in Nat /\ artifactFails \in Nat

\* The input has been taken away, or a call to do so has failed.
InputGone == input = "gone" \/ inputFails > 0

\* The input is there until a call takes it away, or fails to.
InputInv ==
    /\ pc = "begin" => input = IF poolCall = "returned" THEN "open" ELSE "none"
    /\ pc \in Receiving => input = "open"
    /\ pc = "seal" => input = IF poolCall = "returned" THEN "sealed" ELSE "open"
    /\ pc \in {"resolve", "process"} => input = "sealed"
    /\ pc \in {"discard", "abort"} => input = IF poolCall = "returned" THEN "gone" ELSE "open"
    /\ pc \in {"release", "finally"} => input \in {"sealed", "gone"}
    /\ pc \in GivesBack /\ poolCall = "returned" => input = "gone"
    /\ pc \in GivesBack /\ poolCall = "raised" => InputGone
    /\ pc \in {"respond", "stream"} => input = "gone"
    /\ pc \in {"unprepare", "over"} => input = "none" \/ InputGone
    /\ pc \in {"begin"} \cup Receiving => ~inputRef
    /\ pc = "seal" => (inputRef <=> poolCall = "returned")
    /\ pc \in {"resolve", "process"} => inputRef

\* The artifact has been closed, or more than that many attempts have failed.
ArtifactGone(fails) == artifact = "gone" \/ artifactFails > fails

\* Whoever has the artifact closes it, and tries twice when a response was prepared.
ArtifactInv ==
    /\ prepared = "none" =>
          CASE worker \in {"writing", "abort"} -> artifact = "open"
            [] worker = "sealed"               -> artifact = "sealed"
            [] worker = "discard"              -> artifact = "sealed" \/ ArtifactGone(0)
            [] OTHER                           -> artifact = "none" \/ ArtifactGone(0)
    /\ prepared = "returned" => pc = "process" /\ worker = "returned" /\ artifact = "sealed"
    /\ prepared = "held" => pc \in {"release", "respond", "finally", "unprepare", "over"}
    /\ prepared = "held" /\ pc # "over" =>
          artifact = "sealed" \/ (pc = "unprepare" /\ artifact = "gone")
    /\ prepared = "held" /\ pc = "over" => ArtifactGone(1)
    /\ prepared = "response" <=> pc = "stream"
    /\ prepared = "response" /\ worker # "read all" => artifact = "sealed"
    /\ prepared = "response" /\ worker = "read all" => artifact \in {"sealed", "gone"}
    /\ prepared = "closed" => ArtifactGone(1) /\ pc \in {"finally", "unprepare", "over"}
    /\ pc = "process" /\ worker = "returned" => prepared = "returned"
    /\ pc \in {"release", "respond"} => prepared = "held"
    /\ prepared \in {"none", "returned", "held", "response", "closed"}

\* The inductive invariant.
RequestInv == ThreadInv /\ InputInv /\ ArtifactInv

-----------------------------------------------------------------------------
\* A request begins with nothing.
LEMMA InitRequest == RequestInit => RequestInv
BY DEF RequestInit, RequestInv, ThreadInv, InputInv, ArtifactInv, ArtifactGone, StorageCalls,
       Receiving, GivesBack, Working

\* Both properties are consequences of the invariant.
LEMMA RequestIsClean == RequestInv => ThreadsHaveFiles /\ EndsClean
<1>1. RequestInv => ThreadsHaveFiles
  BY DEF RequestInv, ThreadInv, InputInv, ArtifactInv, ThreadsHaveFiles, StorageCalls,
         Working
<1>2. RequestInv => EndsClean
  BY DEF RequestInv, ThreadInv, InputInv, ArtifactInv, EndsClean, InputGone, ArtifactGone,
         StorageCalls
<1> QED
  BY <1>1, <1>2

\* A step that only tells somebody something.
LEMMA ToldRequest ==
    ASSUME RequestInv, UNCHANGED <<pc, poolCall, worker, files, faults>> PROVE RequestInv'
<1>1. UNCHANGED <<pc, poolCall, worker, input, inputRef, artifact, prepared, inputFails,
                  artifactFails>>
  BY DEF files, faults
<1>2. inputRef' <=> inputRef
  BY <1>1
<1>3. ThreadInv'
  BY <1>1 DEF RequestInv, ThreadInv
<1>4. InputInv'
  BY <1>1, <1>2 DEF RequestInv, InputInv, InputGone
<1>5. ArtifactInv'
  BY <1>1 DEF RequestInv, ArtifactInv, ArtifactGone
<1> QED
  BY <1>3, <1>4, <1>5 DEF RequestInv

\* A storage call returns or raises on its thread, and has or has not moved the input.
LEMMA CallRequest ==
    ASSUME RequestInv, CallReturns \/ CallRaises PROVE RequestInv'
<1>1. /\ UNCHANGED <<pc, worker, artifact, prepared, artifactFails>>
      /\ poolCall = "running" /\ poolCall' \in {"returned", "raised"} /\ pc \in StorageCalls
  BY DEF CallReturns, CallRaises, files, faults, RequestInv, ThreadInv
<1>2. CASE CallReturns
  <2>1. /\ poolCall' = "returned" /\ inputFails' = inputFails
        /\ input' = CASE pc = "begin" -> "open" [] pc = "seal" -> "sealed"
                      [] Releases -> "gone" [] OTHER -> input
        /\ inputRef' = (inputRef \/ pc = "seal")
    BY <1>2 DEF CallReturns, KnowsRef, faults
  <2>2. ThreadInv'
    BY <1>1, <2>1 DEF RequestInv, ThreadInv
  <2>3. InputInv'
    BY <1>1, <2>1 DEF RequestInv, InputInv, InputGone, Releases, StorageCalls,
                      Receiving, GivesBack
  <2>4. ArtifactInv'
    BY <1>1, <2>1 DEF RequestInv, ArtifactInv, ArtifactGone
  <2> QED
    BY <2>2, <2>3, <2>4 DEF RequestInv
<1>3. CASE CallRaises
  <2>1. /\ poolCall' = "raised" /\ UNCHANGED <<input, inputRef>>
        /\ inputFails' = IF Releases /\ ~Refused THEN inputFails + 1 ELSE inputFails
    BY <1>3 DEF CallRaises, files
  <2>2. inputFails \in Nat /\ inputFails' \in Nat
    <3>1. inputFails \in Nat
      BY DEF RequestInv, ThreadInv
    <3> QED
      BY <2>1, <3>1
  <2>3. ThreadInv'
    BY <1>1, <2>1, <2>2 DEF RequestInv, ThreadInv
  <2>4. ~Refused
    BY <1>1 DEF Refused, RequestInv, InputInv, GivesBack
  <2>5. InputInv'
    BY <1>1, <2>1, <2>2, <2>4 DEF RequestInv, InputInv, InputGone, Releases,
                                  StorageCalls, Receiving, GivesBack
  <2>6. ArtifactInv'
    BY <1>1, <2>1 DEF RequestInv, ArtifactInv, ArtifactGone
  <2> QED
    BY <2>3, <2>5, <2>6 DEF RequestInv
<1> QED
  BY <1>2, <1>3

-----------------------------------------------------------------------------
\* The coroutine goes on while no thread works for it, and touches no file.
Onward ==
    \/ Begun \/ Discarded \/ Ingest \/ IngestCancelled
    \/ Uploaded \/ Released \/ InputFinally

\* It goes where the input and the artifact are as they should be there.
LEMMA OnwardRequest ==
    ASSUME RequestInv, Onward PROVE RequestInv'
<1>1. /\ UNCHANGED <<worker, input, inputRef, artifact, prepared, inputFails, artifactFails>>
      /\ pc \in StorageCalls \cup {"ingest"}
      /\ \E p \in StorageCalls \cup {"ingest", "respond", "unprepare", "over"} : GoesTo(p)
  BY DEF Onward, Begun, Discarded, Ingest, IngestCancelled, Uploaded,
         Released, InputFinally, After,
         Unwinds, files, faults, StorageCalls
<1>2. worker = "idle"
  BY <1>1 DEF RequestInv, ThreadInv, StorageCalls
<1>3. ThreadInv'
  BY <1>1, <1>2 DEF GoesTo, RequestInv, ThreadInv, StorageCalls
<1>4. InputInv'
  <2>1. CASE Begun
    BY <1>1, <2>1 DEF Begun, GoesTo, CallSucceeded, RequestInv, InputInv, InputGone,
                      StorageCalls, Receiving, GivesBack
  <2>2. CASE Discarded
    BY <1>1, <2>2 DEF Discarded, GoesTo, RequestInv, ThreadInv, InputInv, InputGone,
                      StorageCalls, Receiving, GivesBack
  <2>3. CASE Ingest \/ IngestCancelled
    BY <1>1, <2>3 DEF Ingest, IngestCancelled, Unwinds, GoesTo, RequestInv,
                      InputInv, InputGone, StorageCalls, Receiving, GivesBack
  <2>4. CASE Uploaded
    BY <1>1, <2>4 DEF Uploaded, After, CallSucceeded, CallFailed, Unwinds,
                      GoesTo, RequestInv, InputInv, InputGone, StorageCalls, Receiving,
                      GivesBack
  <2>5. CASE Released
    BY <1>1, <2>5 DEF Released, After, CallSucceeded, CallFailed, GoesTo,
                      RequestInv, InputInv, InputGone, StorageCalls, Receiving, GivesBack
  <2>6. CASE InputFinally
    BY <1>1, <2>6 DEF InputFinally, GoesTo, RequestInv, ThreadInv, InputInv, InputGone,
                      StorageCalls, Receiving, GivesBack
  <2> QED
    BY <2>1, <2>2, <2>3, <2>4, <2>5, <2>6 DEF Onward
<1>5. ArtifactInv'
  <2>1. /\ prepared = "held" <=> pc = "release" \/ (pc = "finally" /\ prepared = "held")
        /\ prepared = "closed" => pc = "finally"
        /\ prepared \in {"none", "held", "closed"}
    BY <1>1, <1>2 DEF RequestInv, ArtifactInv, StorageCalls
  <2>2. /\ pc = "release" => pc' \in {"respond", "finally"}
        /\ pc = "finally" => pc' = "unprepare"
        /\ pc # "release" => pc' # "respond" /\ pc' # "release"
        /\ pc' # "stream" /\ pc' # "process"
    BY DEF Onward, Begun, Discarded, Ingest, IngestCancelled, Uploaded,
           Released, InputFinally, After,
           Unwinds, GoesTo, StorageCalls
  <2> QED
    BY <1>1, <1>2, <2>1, <2>2 DEF RequestInv, ArtifactInv, ArtifactGone
<1> QED
  BY <1>3, <1>4, <1>5 DEF RequestInv

-----------------------------------------------------------------------------
\* Closing makes up to that many attempts; the artifact is gone, or all failed.
LEMMA ClosingFacts ==
    ASSUME artifactFails \in Nat, NEW n \in Nat \ {0}, Closing(n)
    PROVE  /\ artifactFails' \in Nat /\ artifactFails' >= artifactFails
           /\ inputFails' = inputFails
           /\ \/ artifact' = "gone"
              \/ artifact' = artifact /\ artifactFails' = artifactFails + n
<1>1. PICK k \in 0..n : /\ artifactFails' = artifactFails + k
                        /\ artifact' = IF k < n THEN "gone" ELSE artifact
                        /\ UNCHANGED inputFails
  BY DEF Closing
<1>2. k \in Nat /\ (~(k < n) => k = n)
  BY <1>1
<1> QED
  BY <1>1, <1>2

\* The processing thread takes a step of its own.
LEMMA WorkRequest ==
    ASSUME RequestInv, Work \/ Process PROVE RequestInv'
<1>1. /\ UNCHANGED <<pc, poolCall, input, inputRef>>
      /\ worker \in Working /\ worker' \in Working \cup {"returned", "raised"}
  BY DEF Work, Preflight, Process, AbortSink, Project,
         DiscardWriter, Works, task, Working
<1>2. pc = "process" /\ prepared = "none" /\ artifactFails \in Nat /\ inputFails \in Nat
  BY <1>1 DEF RequestInv, ThreadInv, ArtifactInv, Working
<1>3. artifactFails' \in Nat /\ inputFails' = inputFails
  BY <1>2, ClosingFacts DEF Work, Preflight, Process, AbortSink,
                            Project, DiscardWriter, faults
<1>4. ThreadInv'
  BY <1>1, <1>2, <1>3 DEF RequestInv, ThreadInv
<1>5. InputInv'
  BY <1>1, <1>2, <1>3 DEF RequestInv, InputInv, InputGone, GivesBack, Receiving
<1>6. ArtifactInv'
  <2>1. CASE Preflight
    BY <1>2, <1>1, <2>1 DEF Preflight, Works, faults, RequestInv, ArtifactInv,
                            ArtifactGone
  <2>2. CASE Process
    BY <1>2, <1>1, <2>2 DEF Process, Works, faults, RequestInv, ArtifactInv,
                            ArtifactGone
  <2>3. CASE AbortSink
    <3>1. artifact' = "gone" \/ artifactFails' > 0
      BY <1>2, <2>3, ClosingFacts DEF AbortSink
    <3> QED
      BY <1>2, <1>1, <2>3, <3>1 DEF AbortSink, Works, ArtifactInv, ArtifactGone
  <2>4. CASE Project
    BY <1>2, <1>1, <2>4 DEF Project, Works, faults, RequestInv, ArtifactInv,
                            ArtifactGone
  <2>5. CASE DiscardWriter
    <3>1. artifact' = "gone" \/ artifactFails' > 0
      BY <1>2, <2>5, ClosingFacts DEF DiscardWriter
    <3> QED
      BY <1>2, <1>1, <2>5, <3>1 DEF DiscardWriter, Works, ArtifactInv, ArtifactGone
  <2> QED
    BY <2>1, <2>2, <2>3, <2>4, <2>5 DEF Work
<1> QED
  BY <1>4, <1>5, <1>6 DEF RequestInv

\* The input is sealed and resolved, and the processing thread starts.
LEMMA ResolvedRequest ==
    ASSUME RequestInv, Resolved PROVE RequestInv'
<1>1. /\ pc = "resolve" /\ pc' = "process" /\ poolCall' = "none" /\ worker' = "preflight"
      /\ UNCHANGED <<input, inputRef, artifact, prepared, inputFails, artifactFails>>
  BY DEF Resolved, After, GoesTo, StorageCalls, files, faults
<1>2. worker = "idle" /\ prepared = "none"
  BY <1>1 DEF RequestInv, ThreadInv, ArtifactInv
<1>3. ThreadInv'
  BY <1>1 DEF RequestInv, ThreadInv, StorageCalls, Working
<1>4. InputInv'
  BY <1>1 DEF RequestInv, InputInv, GivesBack, Receiving
<1>5. ArtifactInv'
  BY <1>1, <1>2 DEF RequestInv, ArtifactInv, ArtifactGone
<1> QED
  BY <1>3, <1>4, <1>5 DEF RequestInv

\* The coroutine takes the result, or throws it away in two attempts.
LEMMA ProcessedRequest ==
    ASSUME RequestInv, Processed \/ ProcessFailed PROVE RequestInv'
<1>1. /\ pc = "process" /\ worker \in {"returned", "raised"} /\ worker' = "idle"
      /\ UNCHANGED <<input, inputRef>>
      /\ pc' \in {"release", "finally"} /\ poolCall' = "running"
      /\ input = "sealed" /\ artifactFails \in Nat /\ inputFails \in Nat
      /\ Processed => pc' = "release"
      /\ ProcessFailed => pc' = "finally"
  BY DEF Processed, ProcessFailed, WorkerFinished, Unwinds, GoesTo,
         StorageCalls, RequestInv, ThreadInv, InputInv
<1>2. artifactFails' \in Nat /\ inputFails' = inputFails
  BY <1>1, ClosingFacts DEF Processed, ProcessFailed, DiscardResult, faults
<1>3. ThreadInv'
  BY <1>1, <1>2 DEF ThreadInv, StorageCalls
<1>4. InputInv'
  BY <1>1 DEF InputInv, GivesBack, Receiving
<1>5. ArtifactInv'
  <2>1. CASE Processed
    BY <1>1, <2>1 DEF Processed, RequestInv, ArtifactInv
  <2>2. CASE ProcessFailed /\ prepared = "returned"
    <3>1. Closing(2) /\ prepared' = "closed"
      BY <2>2 DEF ProcessFailed, DiscardResult
    <3>2. ArtifactGone(1)'
      BY <1>1, <3>1, ClosingFacts DEF ArtifactGone
    <3> QED
      BY <1>1, <2>2, <3>1, <3>2 DEF ArtifactInv
  <2>3. CASE ProcessFailed /\ prepared # "returned"
    <3>1. UNCHANGED <<prepared, artifact, artifactFails>>
      BY <2>3 DEF ProcessFailed, DiscardResult, faults
    <3> QED
      BY <1>1, <2>3, <3>1 DEF RequestInv, ArtifactInv, ArtifactGone
  <2> QED
    BY <2>1, <2>2, <2>3
<1> QED
  BY <1>3, <1>4, <1>5 DEF RequestInv

-----------------------------------------------------------------------------
\* The response takes the artifact, or it is closed here and once more below.
LEMMA RespondRequest ==
    ASSUME RequestInv, Respond PROVE RequestInv'
<1>1. /\ pc = "respond" /\ pc' \in {"stream", "unprepare"} /\ poolCall' = "none"
      /\ UNCHANGED <<worker, input, inputRef>>
      /\ worker = "idle" /\ input = "gone" /\ prepared = "held" /\ artifact = "sealed"
      /\ artifactFails \in Nat /\ inputFails \in Nat
  BY DEF Respond, GoesTo, StorageCalls, RequestInv, ThreadInv, InputInv,
         ArtifactInv
<1>2. CASE prepared' = "response" /\ GoesTo("stream") /\ UNCHANGED <<artifact, faults>>
  <2>1. pc' = "stream" /\ UNCHANGED <<inputFails, artifactFails>>
    BY <1>2 DEF GoesTo, faults
  <2> QED
    BY <1>1, <1>2, <2>1 DEF RequestInv, ThreadInv, InputInv, ArtifactInv, StorageCalls,
                            GivesBack, Receiving
<1>3. CASE Closing(1) /\ GoesTo("unprepare") /\ UNCHANGED prepared
  <2>1. /\ pc' = "unprepare" /\ inputFails' = inputFails /\ artifactFails' \in Nat
        /\ artifact' \in {"sealed", "gone"}
    BY <1>1, <1>3, ClosingFacts DEF GoesTo
  <2> QED
    BY <1>1, <1>3, <2>1 DEF RequestInv, ThreadInv, InputInv, ArtifactInv, InputGone,
                            StorageCalls, GivesBack, Receiving
<1> QED
  BY <1>2, <1>3 DEF Respond

\* The last handler closes an artifact that no response has taken.
LEMMA UnprepareRequest ==
    ASSUME RequestInv, Unprepare PROVE RequestInv'
<1>1. /\ pc = "unprepare" /\ pc' = "over" /\ poolCall' = "none"
      /\ UNCHANGED <<worker, input, inputRef, prepared>>
      /\ worker = "idle" /\ (input = "none" \/ InputGone)
      /\ prepared \in {"none", "held", "closed"}
      /\ artifactFails \in Nat /\ inputFails \in Nat
  BY DEF Unprepare, GoesTo, StorageCalls, RequestInv, ThreadInv, InputInv,
         ArtifactInv
<1>2. inputFails' = inputFails /\ artifactFails' \in Nat
  BY <1>1, ClosingFacts DEF Unprepare, faults
<1>3. CASE prepared = "held"
  <2>1. ArtifactGone(1)'
    BY <1>1, <1>3, ClosingFacts DEF Unprepare, ArtifactGone
  <2>2. ArtifactInv'
    BY <1>1, <1>3, <2>1 DEF ArtifactInv
  <2> QED
    BY <1>1, <1>2, <2>2 DEF RequestInv, ThreadInv, InputInv, InputGone, StorageCalls,
                            GivesBack, Receiving
<1>4. CASE prepared # "held"
  <2>1. UNCHANGED <<artifact, artifactFails>>
    BY <1>4 DEF Unprepare, faults
  <2>2. ArtifactInv'
    BY <1>1, <1>4, <2>1 DEF RequestInv, ArtifactInv, ArtifactGone
  <2> QED
    BY <1>1, <1>2, <2>2 DEF RequestInv, ThreadInv, InputInv, InputGone, StorageCalls,
                            GivesBack, Receiving
<1> QED
  BY <1>3, <1>4

\* The body is read on a thread; its end waits for that thread.
LEMMA StreamRequest ==
    ASSUME RequestInv, Read \/ ReadReturns \/ StreamEnds PROVE RequestInv'
<1>1. /\ pc = "stream" /\ prepared = "response" /\ input = "gone"
      /\ artifactFails \in Nat /\ inputFails \in Nat
      /\ UNCHANGED <<input, inputRef>>
      /\ worker # "read all" => artifact = "sealed"
  <2>1. pc = "stream" /\ UNCHANGED <<input, inputRef>>
    <3>1. worker = "reading" => pc = "stream"
      BY DEF RequestInv, ThreadInv, Working
    <3> QED
      BY <3>1 DEF Read, ReadReturns, StreamEnds, files
  <2> QED
    BY <2>1 DEF RequestInv, ThreadInv, InputInv, ArtifactInv
<1>2. CASE Read
  <2>1. /\ UNCHANGED <<pc, poolCall, artifact, prepared, inputFails, artifactFails>>
        /\ worker = "idle" /\ worker' = "reading"
    BY <1>2 DEF Read, task, files, faults
  <2> QED
    BY <1>1, <2>1 DEF RequestInv, ThreadInv, InputInv, ArtifactInv, StorageCalls,
                      GivesBack, Receiving
<1>3. CASE ReadReturns
  <2>1. /\ UNCHANGED <<pc, poolCall, prepared, inputFails>> /\ artifactFails' \in Nat
        /\ \/ worker' = "idle" /\ artifact' = "sealed"
           \/ worker' = "read all" /\ artifact' \in {"sealed", "gone"}
    <3>1. UNCHANGED <<pc, poolCall, prepared>> /\ worker = "reading"
      BY <1>3 DEF ReadReturns, task
    <3>2. CASE worker' = "idle" /\ UNCHANGED <<artifact, faults>>
      BY <1>1, <3>1, <3>2 DEF faults
    <3>3. CASE worker' = "read all" /\ Closing(1)
      <4>1. /\ inputFails' = inputFails /\ artifactFails' \in Nat
            /\ artifact' = "gone" \/ artifact' = artifact
        <5>1. 1 \in Nat \ {0} /\ artifactFails \in Nat /\ Closing(1)
          <6>1. artifactFails \in Nat /\ Closing(1)
            BY <1>1, <3>3
          <6>2. 1 \in Nat \ {0}
            OBVIOUS
          <6> QED
            BY <6>1, <6>2
        <5> QED
          BY <5>1, ClosingFacts
      <4> QED
        BY <1>1, <3>1, <3>3, <4>1
    <3> QED
      BY <1>3, <3>2, <3>3, <3>1 DEF ReadReturns
  <2> QED
    BY <1>1, <2>1 DEF RequestInv, ThreadInv, InputInv, ArtifactInv, StorageCalls,
                      GivesBack, Receiving
<1>4. CASE StreamEnds
  <2>1. /\ pc' = "over" /\ poolCall' = "none" /\ worker' = "idle" /\ prepared' = "closed"
    BY <1>4 DEF StreamEnds, GoesTo, StorageCalls
  <2>2. inputFails' = inputFails /\ artifactFails' \in Nat /\ ArtifactGone(1)'
    <3>1. CASE artifact = "gone"
      BY <1>1, <1>4, <3>1 DEF StreamEnds, faults, ArtifactGone
    <3>2. CASE \E n \in {2, 3} : Closing(n)
      <4>1. PICK n \in {2, 3} : Closing(n)
        BY <3>2
      <4>2. /\ inputFails' = inputFails /\ artifactFails' \in Nat
            /\ artifact' = "gone" \/ artifactFails' = artifactFails + n
        <5>1. n \in Nat \ {0}
          BY <4>1
        <5>2. artifactFails \in Nat
          BY <1>1
        <5> QED
          BY <4>1, <5>1, <5>2, ClosingFacts
      <4>3. artifactFails + n > 1
        <5>1. n = 2 \/ n = 3
          BY <4>1
        <5>2. artifactFails \in Nat
          BY <1>1
        <5> QED
          BY <5>1, <5>2
      <4> QED
        BY <1>1, <4>2, <4>3 DEF ArtifactGone
    <3> QED
      BY <1>4, <3>1, <3>2 DEF StreamEnds
  <2> QED
    BY <1>1, <2>1, <2>2 DEF RequestInv, ThreadInv, InputInv, ArtifactInv, InputGone,
                            StorageCalls, GivesBack, Receiving
<1> QED
  BY <1>2, <1>3, <1>4

-----------------------------------------------------------------------------
\* Every step keeps the invariant.
LEMMA NextRequest == RequestInv /\ [RequestNext]_requestVars => RequestInv'
<1> SUFFICES ASSUME RequestInv, [RequestNext]_requestVars PROVE RequestInv'
  OBVIOUS
<1>1. CASE \/ CancelTask \/ Disconnect \/ Noticed \/ WatchSees
           \/ RequestOver \/ UNCHANGED requestVars
  BY <1>1, ToldRequest DEF CancelTask, Disconnect, Noticed, WatchSees,
                           RequestOver, requestVars, task
<1>2. CASE CallReturns \/ CallRaises
  BY <1>2, CallRequest
<1>3. CASE Ingest \/ IngestCancelled \/ Continue
  BY <1>3, OnwardRequest, ResolvedRequest, ProcessedRequest, RespondRequest, UnprepareRequest
     DEF Continue, Onward
<1>4. CASE Work \/ Process
  BY <1>4, WorkRequest
<1>5. CASE Read \/ ReadReturns \/ StreamEnds
  BY <1>5, StreamRequest
<1> QED
  BY <1>1, <1>2, <1>3, <1>4, <1>5 DEF RequestNext

\* At every point of a synchronous request the thread that works for it, its
\* input and its artifact are where the coroutine takes them to be, however
\* often it is cancelled (api.py, transcriptions).
THEOREM RequestInvariance == RequestSpec => []RequestInv
  BY InitRequest, NextRequest, PTL DEF RequestSpec

\* A thread that still runs after its coroutine was cancelled has the input and
\* the artifact it works on (api.py, _run_in_threadpool_to_completion and
\* _run_blocking_while_watching_disconnect wait for it to end).
THEOREM ThreadsAlwaysHaveFiles == RequestSpec => []ThreadsHaveFiles
  BY RequestInvariance, RequestIsClean, PTL

\* However a synchronous request ends, no thread works for it, and its input and
\* its artifact are gone unless giving them back has failed (api.py,
\* transcriptions, _close_prepared and _PreparedStreamingResponse.__call__).
THEOREM RequestsEndClean == RequestSpec => []EndsClean
  BY RequestInvariance, RequestIsClean, PTL

-----------------------------------------------------------------------------
(***************************************************************************)
(* StoredResult: both properties hang on the order in which a job goes:    *)
(* the phase, then the name of the file, then the rows.                    *)
(***************************************************************************)

\* The inductive invariant.
StoredInv ==
    /\ phase \in {"visible", "deleting", "gone"}
    /\ deleter \in [Deleters -> {"idle", "looks", "unlinks", "commits", "done", "nothing left"}]
    /\ phase = "visible" => leases /\ linked
    /\ \A d \in Deleters : deleter[d] \in {"looks", "unlinks", "commits"} => phase # "visible"
    /\ \A d \in Deleters : deleter[d] = "commits" => ~linked
    /\ NamesAreLeased
    /\ getter \in [Readers -> {"asks", "opens", "streams", "not found", "done", "abandoned"}]

\* A succeeded job is visible, with its rows and its file.
LEMMA InitStored == StoredInit => StoredInv
  BY DEF StoredInit, StoredInv, NamesAreLeased

(* A GET changes nothing of the job, and never comes to an error.          *)
LEMMA GetStored ==
  ASSUME StoredInv, NEW r \in Readers,
         Ask(r) \/ Open(r) \/ ReadChunk(r) \/ StreamDone(r)
  PROVE  StoredInv'
<1>1. UNCHANGED <<phase, leases, linked, deleter>>
  BY DEF Ask, Open, ReadChunk, StreamDone, job,
         deletions
<1>2. getter' \in [Readers -> {"asks", "opens", "streams", "not found", "done", "abandoned"}]
  <2>1. CASE Ask(r)
    BY <2>1 DEF StoredInv, Ask, Moves
  <2>2. CASE Open(r)
    <3>1. getter' \in {[getter EXCEPT ![r] = "not found"], [getter EXCEPT ![r] = "streams"]}
      BY <2>2 DEF StoredInv, Open
    <3>2. QED
      BY <3>1 DEF StoredInv
  <2>3. CASE ReadChunk(r)
    BY <2>3 DEF StoredInv, ReadChunk
  <2>4. CASE StreamDone(r)
    BY <2>4 DEF StoredInv, StreamDone, Moves
  <2>5. QED
    BY <2>1, <2>2, <2>3, <2>4
<1>3. QED
  BY <1>1, <1>2 DEF StoredInv, NamesAreLeased

(* Phase, name, rows: each step of a deletion finds the one before done,   *)
(* whoever has done it.                                                    *)
LEMMA DeletionStored ==
  ASSUME StoredInv, NEW d \in Deleters,
         \/ Mark(d) \/ NotFound(d) \/ LookUp(d)
         \/ Unlink(d) \/ UnlinkFails(d) \/ Commit(d)
  PROVE  StoredInv'
<1>1. getter' = getter
  BY DEF Mark, NotFound, LookUp, Unlink, UnlinkFails,
         Commit, gets
<1>2. CASE Mark(d)
  <2>1. deleter' = [deleter EXCEPT ![d] = "looks"] /\ phase' = "deleting"
        /\ leases' = leases /\ linked' = linked
    BY <1>2 DEF Mark, Moves
  <2>2. QED
    BY <1>1, <2>1 DEF StoredInv, NamesAreLeased
<1>3. CASE NotFound(d) \/ UnlinkFails(d)
  <2>1. \E p \in {"idle", "nothing left"} : deleter' = [deleter EXCEPT ![d] = p]
    BY <1>3 DEF NotFound, UnlinkFails, Moves
  <2>2. phase' = phase /\ leases' = leases /\ linked' = linked
    BY <1>3 DEF NotFound, UnlinkFails, job
  <2>3. QED
    BY <1>1, <2>1, <2>2 DEF StoredInv, NamesAreLeased
<1>4. CASE LookUp(d)
  <2>1. /\ deleter[d] = "looks"
        /\ \E p \in {"done", "unlinks"} : deleter' = [deleter EXCEPT ![d] = p]
        /\ phase' = phase /\ leases' = leases /\ linked' = linked
    BY <1>4 DEF LookUp, Moves, job
  <2>2. QED
    BY <1>1, <2>1 DEF StoredInv, NamesAreLeased
<1>5. CASE Unlink(d)
  <2>1. /\ deleter[d] = "unlinks" /\ deleter' = [deleter EXCEPT ![d] = "commits"]
        /\ linked' = FALSE /\ phase' = phase /\ leases' = leases
    BY <1>5 DEF Unlink, Moves
  <2>2. phase # "visible"
    BY <2>1 DEF StoredInv
  <2>3. QED
    BY <1>1, <2>1, <2>2 DEF StoredInv, NamesAreLeased
<1>6. CASE Commit(d)
  <2>1. /\ deleter[d] = "commits" /\ deleter' = [deleter EXCEPT ![d] = "done"]
        /\ phase' = "gone" /\ leases' = FALSE /\ linked' = linked
    BY <1>6 DEF Commit, Moves
  <2>2. ~linked
    BY <2>1 DEF StoredInv
  <2>3. QED
    BY <1>1, <2>1, <2>2 DEF StoredInv, NamesAreLeased
<1>7. QED
  BY <1>2, <1>3, <1>4, <1>5, <1>6

\* Every step keeps the invariant.
LEMMA NextStored == StoredInv /\ [StoredNext]_storedVars => StoredInv'
<1> SUFFICES ASSUME StoredInv, [StoredNext]_storedVars PROVE StoredInv'
  OBVIOUS
<1>1. CASE UNCHANGED storedVars
  BY <1>1 DEF StoredInv, NamesAreLeased, storedVars
<1>2. CASE StoredOver
  BY <1>2, <1>1 DEF StoredOver
<1>3. QED
  BY <1>1, <1>2, GetStored, DeletionStored DEF StoredNext

\* The order holds in every run of GETs, DELETEs and sweeps.
LEMMA StoredInvariance == StoredSpec => []StoredInv
  BY InitStored, NextStored, PTL DEF StoredSpec

(* A GET racing with any number of DELETEs and sweeps never finds a broken *)
(* artifact (storage.py, open_succeeded_job_result).                       *)
THEOREM NeverABrokenResult == StoredSpec => []ResultOrNotFound
<1>1. StoredInv => ResultOrNotFound
  BY DEF StoredInv, ResultOrNotFound
<1>2. QED
  BY <1>1, StoredInvariance, PTL

(* No deletion leaves a file without the rows that would find it again     *)
(* (storage.py, _delete_terminal_job).                                     *)
THEOREM NoNameWithoutLease == StoredSpec => []NamesAreLeased
<1>1. StoredInv => NamesAreLeased
  BY DEF StoredInv
<1>2. QED
  BY <1>1, StoredInvariance, PTL
=============================================================================
