---------------------------- MODULE StoredResult ----------------------------
(***************************************************************************)
(* GET of a succeeded job streams its result file while DELETE and the     *)
(* retention sweep remove the job (storage.py, api.py).  Rows change in    *)
(* transactions under one lock; the file is unlinked outside of them.  A   *)
(* file lives on as long as a handle is open.                              *)
(***************************************************************************)
EXTENDS Integers, FiniteSets

CONSTANTS
    Readers,        \* GET requests
    Deleters,       \* DELETE requests and sweeps
    Chunks,         \* what there is to read
    MaxUnlinkFailures   \* bound: unlinks that fail

ASSUME StoredAssumption == Chunks \in Nat \ {0} /\ MaxUnlinkFailures \in Nat

VARIABLES
    phase,          \* of the job: visible, deleting, then gone
    leases,         \* the job's leases are in the ledger
    linked,         \* the result file has its name
    getter,         \* where each GET is
    handle,         \* each GET's handle: none, open, closed
    read,           \* chunks each GET has sent
    deleter,        \* where each deletion is
    unlinkFailures

storedVars == <<phase, leases, linked, getter, handle, read, deleter, unlinkFailures>>

StoredInit ==
    /\ phase = "visible" /\ leases = TRUE /\ linked = TRUE
    /\ getter = [r \in Readers |-> "asks"]
    /\ handle = [r \in Readers |-> "none"]
    /\ read = [r \in Readers |-> 0]
    /\ deleter = [d \in Deleters |-> "idle"]
    /\ unlinkFailures = 0

Moves(actor, who, from, to) == actor[who] = from /\ actor' = [actor EXCEPT ![who] = to]
job == <<phase, leases, linked>>
gets == <<getter, handle, read>>
deletions == <<deleter, unlinkFailures>>

-----------------------------------------------------------------------------
(* get_visible_job.                                                        *)
Ask(r) ==
    /\ Moves(getter, r, "asks", IF phase = "visible" THEN "opens" ELSE "not found")
    /\ UNCHANGED <<job, handle, read, deletions>>

(* open_succeeded_job_result: row, lease and file under the lock.          *)
Open(r) ==
    /\ getter[r] = "opens"
    /\ \/ /\ phase # "visible"
          /\ getter' = [getter EXCEPT ![r] = "not found"]
          /\ UNCHANGED handle
       \/ /\ phase = "visible" /\ leases /\ linked
          /\ getter' = [getter EXCEPT ![r] = "streams"]
          /\ handle' = [handle EXCEPT ![r] = "open"]
       \/ /\ phase = "visible" /\ ~(leases /\ linked)
          /\ getter' = [getter EXCEPT ![r] = "error"]
          /\ UNCHANGED handle
    /\ UNCHANGED <<job, read, deletions>>

(* The body reads on; what it has opened stays there.                      *)
ReadChunk(r) ==
    /\ getter[r] = "streams" /\ read[r] < Chunks
    /\ read' = [read EXCEPT ![r] = @ + 1]
    /\ UNCHANGED <<job, getter, handle, deletions>>

(* The end, or an abandoned response; either way __call__ closes.          *)
StreamDone(r) ==
    /\ Moves(getter, r, "streams", IF read[r] = Chunks THEN "done" ELSE "abandoned")
    /\ handle' = [handle EXCEPT ![r] = "closed"]
    /\ UNCHANGED <<job, read, deletions>>

-----------------------------------------------------------------------------
(* Fault: the name goes first, the phase follows.                          *)
MarkWithoutPhase(d) ==
    /\ phase # "gone"
    /\ Moves(deleter, d, "idle", "looks")
    /\ UNCHANGED <<job, gets, unlinkFailures>>

(* DELETE or the sweep: whoever comes later joins.                         *)
Mark(d) ==
    /\ phase # "gone"
    /\ Moves(deleter, d, "idle", "looks")
    /\ phase' = "deleting"
    /\ UNCHANGED <<leases, linked, gets, unlinkFailures>>

NotFound(d) ==
    /\ phase = "gone"
    /\ Moves(deleter, d, "idle", "nothing left")
    /\ UNCHANGED <<job, gets, unlinkFailures>>

(* _delete_terminal_job: read the rows, unlink, remove the rows.           *)
LookUp(d) ==
    /\ Moves(deleter, d, "looks", IF phase = "gone" THEN "done" ELSE "unlinks")
    /\ UNCHANGED <<job, gets, unlinkFailures>>

Unlink(d) ==
    /\ Moves(deleter, d, "unlinks", "commits")
    /\ linked' = FALSE
    /\ UNCHANGED <<phase, leases, gets, unlinkFailures>>

(* An OSError: the job stays deleting, for the next sweep.                 *)
UnlinkFails(d) ==
    /\ unlinkFailures < MaxUnlinkFailures /\ unlinkFailures' = unlinkFailures + 1
    /\ Moves(deleter, d, "unlinks", "idle")
    /\ UNCHANGED <<job, gets>>

(* The rows have not changed since LookUp, or the job is gone already.       *)
Commit(d) ==
    /\ Moves(deleter, d, "commits", "done")
    /\ phase' = "gone" /\ leases' = FALSE
    /\ UNCHANGED <<linked, gets, unlinkFailures>>

StoredOver ==
    /\ \A r \in Readers : getter[r] \in {"not found", "done", "abandoned", "error"}
    /\ \A d \in Deleters : deleter[d] \in {"done", "nothing left"}
    /\ UNCHANGED storedVars

StoredNext ==
    \/ \E r \in Readers : Ask(r) \/ Open(r) \/ ReadChunk(r) \/ StreamDone(r)
    \/ \E d \in Deleters :
          Mark(d) \/ NotFound(d) \/ LookUp(d) \/ Unlink(d) \/ UnlinkFails(d) \/ Commit(d)
    \/ StoredOver

StoredSpec == StoredInit /\ [][StoredNext]_storedVars

-----------------------------------------------------------------------------
(* A GET that races with deletions is answered with the result or with     *)
(* "not found", never with a broken artifact (open_succeeded_job_result).  *)
ResultOrNotFound == \A r \in Readers : getter[r] # "error"

(* No name is left without a lease: nobody would look for that file before *)
(* the next start (_delete_terminal_job).                                  *)
NamesAreLeased == linked => leases
=============================================================================
