--------------------------- MODULE InferenceLane ---------------------------
(***************************************************************************)
(* One SerialInferenceLane: the lock through which every model call of a   *)
(* lane passes.  Callers are "sync" (an HTTP request inside                *)
(* inference_session("sync")), "async" (the job executor) or outside any   *)
(* session.  Two FIFO queues of tickets and a hand-over turn decide who    *)
(* enters.                                                                 *)
(*                                                                         *)
(* invoke() releases the condition's lock only inside Condition.wait, so   *)
(* the stretch from taking the lock to sleeping, entering or leaving is    *)
(* one step here (Attempt).  A ticket is identified with the thread that   *)
(* holds it: a thread is in at most one invoke() (a reentrant call raises  *)
(* before it touches the lane, which is a stuttering step).                *)
(***************************************************************************)
EXTENDS Naturals, Sequences

CONSTANTS Threads,   \* the threads that call the lane
          NoThread   \* stands for _active_thread_id = None

ASSUME NoThreadAssumption == NoThread \notin Threads

Categories == {"sync", "async"}

VARIABLES
    waiters,         \* _sync_waiters and _async_waiters
    activeCategory,  \* _active_category, "none" for None
    activeThread,    \* _active_thread_id
    nextCategory,    \* _next_category, "none" for None
    session,         \* the category of the thread's inference_session
    cancelled,       \* the session's Cancellation has been set
    expired,         \* a sync call's five seconds have passed
    pc,              \* where the thread is in invoke()
    overtakes        \* history: entries of the other category while at the head

laneVars == <<waiters, activeCategory, activeThread, nextCategory>>
callerVars == <<session, cancelled, expired>>
vars == <<laneVars, callerVars, pc, overtakes>>

\* Bound: the history counts no further than one overtaking too many.
OvertakesCounted == 2
Saturated(n) == IF n < OvertakesCounted THEN n ELSE OvertakesCounted

Places == {"idle", "asleep", "awake", "operating"}
Waiting(t) == pc[t] \in {"asleep", "awake"}

TypeOK ==
    /\ waiters \in [Categories -> Seq(Threads)]
    /\ activeCategory \in Categories \cup {"none"}
    /\ activeThread \in Threads \cup {NoThread}
    /\ nextCategory \in Categories \cup {"none"}
    /\ session \in [Threads -> Categories \cup {"none"}]
    /\ cancelled \in [Threads -> BOOLEAN]
    /\ expired \in [Threads -> BOOLEAN]
    /\ pc \in [Threads -> Places]
    /\ overtakes \in [Threads -> 0..OvertakesCounted]

\* A call outside a session queues as "async".
Category(t) == IF session[t] = "sync" THEN "sync" ELSE "async"

Opposite(c) == IF c = "async" THEN "sync" ELSE "async"

\* deque.remove(ticket)
Without(q, t) ==
    LET at == CHOOSE i \in 1..Len(q) : q[i] = t
    IN  [i \in 1..(Len(q) - 1) |-> IF i < at THEN q[i] ELSE q[i + 1]]

MayEnter(t, q) ==
    /\ activeCategory = "none"
    /\ q[Category(t)] # <<>>
    /\ Head(q[Category(t)]) = t
    /\ nextCategory \in {"none", Category(t)}

\* _repair_next_category(removed) once q are the tickets left.
Repaired(removed, q) ==
    IF nextCategory = removed /\ q[removed] = <<>>
    THEN IF q[Opposite(removed)] # <<>> THEN Opposite(removed) ELSE "none"
    ELSE nextCategory

\* Fault: the same category goes on while it has waiters.
HandOverToSame(c) ==
    IF waiters[c] # <<>> THEN c
    ELSE IF waiters[Opposite(c)] # <<>> THEN Opposite(c)
    ELSE nextCategory

\* The turn after an operation of category c: the other category first.
HandOver(c) ==
    IF waiters[Opposite(c)] # <<>> THEN Opposite(c)
    ELSE IF waiters[c] # <<>> THEN c
    ELSE nextCategory

\* notify_all: every sleeper will take the lock again.
Notified(p) == [t \in Threads |-> IF p[t] = "asleep" THEN "awake" ELSE p[t]]

-----------------------------------------------------------------------------

Init ==
    /\ waiters = [c \in Categories |-> <<>>]
    /\ activeCategory = "none"
    /\ activeThread = NoThread
    /\ nextCategory = "none"
    /\ session = [t \in Threads |-> "none"]
    /\ cancelled = [t \in Threads |-> FALSE]
    /\ expired = [t \in Threads |-> FALSE]
    /\ pc = [t \in Threads |-> "idle"]
    /\ overtakes = [t \in Threads |-> 0]

OpenSession(t, c) ==
    /\ pc[t] = "idle" /\ session[t] = "none"
    /\ session' = [session EXCEPT ![t] = c]
    /\ cancelled' = [cancelled EXCEPT ![t] = FALSE]
    /\ UNCHANGED <<laneVars, expired, pc, overtakes>>

CloseSession(t) ==
    /\ pc[t] = "idle" /\ session[t] # "none"
    /\ session' = [session EXCEPT ![t] = "none"]
    /\ UNCHANGED <<laneVars, cancelled, expired, pc, overtakes>>

\* Another thread cancels the session's Cancellation, at any time.
Cancel(t) ==
    /\ session[t] # "none" /\ ~cancelled[t]
    /\ cancelled' = [cancelled EXCEPT ![t] = TRUE]
    /\ UNCHANGED <<laneVars, session, expired, pc, overtakes>>

\* SYNC_INFERENCE_WAIT_SECONDS pass for a waiting sync call.
Expire(t) ==
    /\ Waiting(t) /\ session[t] = "sync" /\ ~expired[t]
    /\ expired' = [expired EXCEPT ![t] = TRUE]
    /\ UNCHANGED <<laneVars, session, cancelled, pc, overtakes>>

\* Fault: the deadline of a sync call is not looked at.
GivesUpOnCancel(t) == session[t] # "none" /\ cancelled[t]

GivesUp(t) == (session[t] # "none" /\ cancelled[t]) \/ expired[t]

\* PipelineError("cancelled") or InferenceSaturated leaves the queue.
Leave(t, q) ==
    LET left == [q EXCEPT ![Category(t)] = Without(@, t)]
    IN  /\ GivesUp(t)
        /\ waiters' = left
        /\ nextCategory' = Repaired(Category(t), left)
        /\ expired' = [expired EXCEPT ![t] = FALSE]
        /\ pc' = Notified([pc EXCEPT ![t] = "idle"])
        /\ overtakes' = [overtakes EXCEPT ![t] = 0]
        /\ UNCHANGED <<activeCategory, activeThread, session, cancelled>>

\* The head of the queue starts its operation.
Enter(t, q) ==
    LET other == q[Opposite(Category(t))]
    IN  /\ ~GivesUp(t) /\ MayEnter(t, q)
        /\ waiters' = [q EXCEPT ![Category(t)] = Tail(@)]
        /\ activeCategory' = Category(t)
        /\ activeThread' = t
        /\ nextCategory' = "none"
        /\ pc' = [pc EXCEPT ![t] = "operating"]
        /\ overtakes' = [u \in Threads |->
                            IF u = t THEN 0
                            ELSE IF other # <<>> /\ u = Head(other)
                            THEN Saturated(overtakes[u] + 1) ELSE overtakes[u]]
        /\ UNCHANGED callerVars

\* Condition.wait
Sleep(t, q) ==
    /\ ~GivesUp(t) /\ ~MayEnter(t, q)
    /\ waiters' = q
    /\ pc' = [pc EXCEPT ![t] = "asleep"]
    /\ UNCHANGED <<activeCategory, activeThread, nextCategory, callerVars, overtakes>>

\* One turn of invoke()'s loop, with the lock held and the tickets q.
Attempt(t, q) == Leave(t, q) \/ Enter(t, q) \/ Sleep(t, q)

Queued(t) == [waiters EXCEPT ![Category(t)] = Append(@, t)]

Invoke(t) == pc[t] = "idle" /\ Attempt(t, Queued(t))

Retry(t) == pc[t] = "awake" /\ Attempt(t, waiters)

\* The 50 ms poll ends the wait of a caller that has a session; a caller
\* without one sleeps until it is notified.
Poll(t) ==
    /\ pc[t] = "asleep" /\ session[t] # "none"
    /\ pc' = [pc EXCEPT ![t] = "awake"]
    /\ UNCHANGED <<laneVars, callerVars, overtakes>>

\* The operation returns or raises.
Complete(t) ==
    /\ pc[t] = "operating"
    /\ activeCategory' = "none"
    /\ activeThread' = NoThread
    /\ nextCategory' = HandOver(activeCategory)
    /\ pc' = Notified([pc EXCEPT ![t] = "idle"])
    /\ UNCHANGED <<waiters, callerVars, overtakes>>

Next ==
    \E t \in Threads :
        \/ \E c \in Categories : OpenSession(t, c)
        \/ CloseSession(t)
        \/ Cancel(t)
        \/ Expire(t)
        \/ Invoke(t)
        \/ Retry(t)
        \/ Poll(t)
        \/ Complete(t)

Spec == Init /\ [][Next]_vars

\* A woken thread gets the lock, polls and deadlines come.
WaitFairness ==
    \A t \in Threads : WF_vars(Retry(t)) /\ WF_vars(Poll(t)) /\ WF_vars(Expire(t))

\* A model call may hang: that it returns is a premise where it is needed.
FairSpec == Spec /\ WaitFairness

CallsReturn == \A t \in Threads : WF_vars(Complete(t))

-----------------------------------------------------------------------------
(***************************************************************************)
(* Safety                                                                  *)
(***************************************************************************)

\* Two threads never run model operations of one lane at the same time, and
\* the lane's own record of who is inside is right (_active_thread_id is what
\* detects a reentrant call).
MutualExclusion ==
    \A t \in Threads : pc[t] = "operating" <=> activeThread = t

\* A turn is only ever held for a category somebody waits in, and a free lane
\* nobody holds a turn for has no waiters: a cancelled or timed-out ticket
\* never leaves the lane reserved for nobody (invoke's except branch).
TurnHasATaker ==
    /\ nextCategory # "none" =>
          activeCategory = "none" /\ waiters[nextCategory] # <<>>
    /\ activeCategory = "none" /\ nextCategory = "none" =>
          \A c \in Categories : waiters[c] = <<>>

\* Nobody sleeps while the lane is theirs to take: whoever frees the lane,
\* leaves it or moves the turn has notified (matters most for a caller outside
\* a session, whose wait has no timeout).
NoLostWakeup ==
    \A t \in Threads : pc[t] = "asleep" => ~MayEnter(t, waiters)

\* The first waiter of a category sees at most one operation of the other
\* category start before its own: an async job and the sync requests alternate,
\* whatever cancellations and timeouts happen in between.
OvertakenAtMostOnce == \A t \in Threads : overtakes[t] <= 1

(***************************************************************************)
(* The inductive invariant behind the safety properties: what the code     *)
(* relies on besides them.                                                 *)
(***************************************************************************)

\* _active_category and _active_thread_id are set and cleared together.
ActiveRecord == activeCategory = "none" <=> activeThread = NoThread

\* A thread that waits has its ticket in the queue of its category.
WaitersHaveTickets ==
    \A t \in Threads : Waiting(t) =>
        \E i \in 1..Len(waiters[Category(t)]) : waiters[Category(t)][i] = t

\* Nobody else's ticket is in a queue, and nobody's twice.
TicketsHaveOwners ==
    \A c \in Categories : \A i \in 1..Len(waiters[c]) :
        Waiting(waiters[c][i]) /\ Category(waiters[c][i]) = c

Distinct(q) == \A i, k \in 1..Len(q) : q[i] = q[k] => i = k

TicketsAreDistinct == \A c \in Categories : Distinct(waiters[c])

\* Who has been overtaken is at the head, and the operation that overtook it is
\* still running or has handed it the turn.
OvertakenIsNext ==
    \A t \in Threads : overtakes[t] > 0 =>
        /\ Waiting(t) /\ overtakes[t] = 1
        /\ waiters[Category(t)] # <<>> /\ waiters[Category(t)][1] = t
        /\ \/ activeCategory = Opposite(Category(t))
           \/ activeCategory = "none" /\ nextCategory = Category(t)

\* Everything the lane's safety rests on, and inductive: the four properties
\* above and the facts they need.
LaneInv ==
    /\ TypeOK
    /\ MutualExclusion /\ TurnHasATaker /\ NoLostWakeup
    /\ ActiveRecord /\ WaitersHaveTickets /\ TicketsHaveOwners /\ TicketsAreDistinct
    /\ OvertakenIsNext

(***************************************************************************)
(* Liveness                                                                *)
(***************************************************************************)

\* If model calls return, every call enters or leaves, also one that has no
\* timeout of its own, once waiting calls no longer give up.  Without the last
\* premise it does not hold: a category whose callers all give up just before
\* they would enter, one after the other without end, keeps the turn.
EveryCallEnds ==
    CallsReturn /\ <>[](\A t \in Threads : Waiting(t) => ~GivesUp(t))
        => \A t \in Threads : Waiting(t) ~> ~Waiting(t)

\* A sync call, or a cancelled one, gets out of the queue even while the lane
\* is held by an operation that never returns.
EscapesAHungLane ==
    \A t \in Threads :
        (Waiting(t) /\ (session[t] = "sync" \/ (session[t] = "async" /\ cancelled[t])))
            ~> ~Waiting(t)

=============================================================================
