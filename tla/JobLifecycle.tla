---------------------------- MODULE JobLifecycle ----------------------------
(***************************************************************************)
(* What the asynchronous API promises about its jobs, as GET shows them:   *)
(* the states of section 7.4 of the development plan and the progress of   *)
(* section 7.5.  No files, leases, threads, crashes or restarts: those are *)
(* in JobService, which implements this specification (JobService's        *)
(* Lifecycle instance).                                                    *)
(***************************************************************************)
EXTENDS Naturals, FiniteSets

CONSTANTS Jobs, Samples, MaxQueued

VARIABLE view    \* what GET shows of each job; "cancelling" also for DELETE

States == {"absent", "queued", "running", "cancelling", "succeeded", "failed", "cancelled"}
Ended == {"succeeded", "failed", "cancelled"}

Absent == [state |-> "absent", done |-> 0, total |-> FALSE]

Init == view = [j \in Jobs |-> Absent]

Becomes(j, state) == view' = [view EXCEPT ![j].state = state]
In(state) == {j \in Jobs : view[j].state = state}

\* 202: the queue has room; the id was not in use.
Publish(j) ==
    /\ view[j] = Absent
    /\ Cardinality(In("queued")) < MaxQueued
    /\ Becomes(j, "queued")

\* One job at a time.
Begin(j) ==
    /\ view[j].state = "queued"
    /\ In("running") \cup In("cancelling") = {}
    /\ Becomes(j, "running")

\* Progress never goes back while the job runs; the total is fixed once.
Report(j) ==
    /\ view[j].state = "running"
    /\ \E n \in view[j].done..Samples, total \in BOOLEAN :
          /\ view[j].total => total
          /\ view' = [view EXCEPT ![j].done = n, ![j].total = total]

\* An interrupted job starts over, and keeps a total it already has.
Interrupt(j) ==
    /\ view[j].state = "running"
    /\ view' = [view EXCEPT ![j].state = "queued", ![j].done = 0]

Succeed(j) ==
    /\ view[j] = [state |-> "running", done |-> Samples, total |-> TRUE]
    /\ Becomes(j, "succeeded")

Fail(j) == view[j].state = "running" /\ Becomes(j, "failed")

\* DELETE: of a queued job, and of a running one, which then can only end as
\* cancelled.
CancelQueued(j) == view[j].state = "queued" /\ Becomes(j, "cancelled")
RequestCancel(j) == view[j].state = "running" /\ Becomes(j, "cancelling")
Cancel(j) == view[j].state = "cancelling" /\ Becomes(j, "cancelled")

\* DELETE of an ended job, or retention.
Remove(j) ==
    /\ view[j].state \in Ended
    /\ view' = [view EXCEPT ![j] = Absent]

Next ==
    \E j \in Jobs :
        \/ Publish(j) \/ Begin(j) \/ Report(j) \/ Interrupt(j) \/ Succeed(j) \/ Fail(j)
        \/ CancelQueued(j) \/ RequestCancel(j) \/ Cancel(j) \/ Remove(j)

Spec == Init /\ [][Next]_view

=============================================================================
