-------------------------- MODULE StorageAdmission --------------------------
(***************************************************************************)
(* Byte admission: the reservations of every upload and artifact that is   *)
(* being written or kept, the quota and the free space they are admitted   *)
(* against, and the ways a lease ends, also when a file operation or a     *)
(* commit fails.                                                           *)
(*                                                                         *)
(* Each lease has one user, so its steps come in order; leases interleave. *)
(* A transaction is one step, a file operation is one step.  The row is in *)
(* the ledger, the handle in memory.  Nobody else writes to the disk.      *)
(*                                                                         *)
(* Here are the leases of synchronous requests and all artifacts; an       *)
(* upload that becomes a job is counted the same way, and how it is        *)
(* aborted and deleted is in JobStore.                                     *)
(***************************************************************************)
EXTENDS Integers, FiniteSets, FiniteSetsExt

CONSTANTS
    Uploads, Artifacts,     \* lease ids; an id is drawn once
    Quantum,                \* RESERVATION_QUANTUM
    MaxStorage,             \* limits.max_job_storage_bytes
    MaxActiveUploads,       \* limits.max_active_uploads
    MinFree,                \* limits.min_filesystem_free_bytes
    Disk,                   \* free bytes when nothing is stored
    Buffer,                 \* what a file object holds back from the disk
    MaxSize,                \* bound: bytes a lease is asked to hold
    MaxFaults               \* bound: failing file operations and commits

Leases == Uploads \cup Artifacts

ASSUME AdmissionAssumption ==
    /\ IsFiniteSet(Leases) /\ Uploads \cap Artifacts = {}
    /\ Quantum \in Nat \ {0} /\ MaxActiveUploads \in Nat \ {0}
    /\ {MaxStorage, MinFree, Disk, Buffer, MaxSize, MaxFaults} \subseteq Nat
    /\ MinFree <= Disk

VARIABLES
    row,       \* storage_leases: phase, reserved_bytes, actual_bytes
    file,      \* its file: name and bytes that have reached the disk
    handle,    \* the lease object; what it copies of its row is left out
    up,        \* the process runs
    faults     \* history: failures so far

vars == <<row, file, handle, up, faults>>

Larger(a, b) == IF a > b THEN a ELSE b

\* Fault: rounded down.
RoundedDown(bytes) == Larger(Quantum, (bytes \div Quantum) * Quantum)

\* _round_reservation
Rounded(bytes) == Larger(Quantum, ((bytes + Quantum - 1) \div Quantum) * Quantum)

Sizes == 0..MaxSize

RowStates ==
    [phase : {"none", "writing", "sealed"}, reserved : 0..Rounded(MaxSize), actual : Sizes]
NoRow == [phase |-> "none", reserved |-> 0, actual |-> 0]

FileStates == [name : {"none", "partial", "complete"}, bytes : Sizes]
NoFile == [name |-> "none", bytes |-> 0]

\* granted: the next chunk is reserved; failing: its user has got an exception
\* and will abort; gone: no object for it, or lost with the process.
Places == {"unused", "opening", "writing", "granted", "checkpoint", "renamed", "sealed",
           "undoSeal", "undoRow", "failing", "releasing", "releaseAgain", "aborted",
           "released", "gone"}

\* size: bytes appended; next: with the chunk being written.
HandleStates == [at : Places, size : Sizes, next : Sizes]
NoHandle == [at |-> "unused", size |-> 0, next |-> 0]

TypeOK ==
    /\ row \in [Leases -> RowStates]
    /\ file \in [Leases -> FileStates]
    /\ handle \in [Leases -> HandleStates]
    /\ up \in BOOLEAN
    /\ faults \in 0..MaxFaults

Init ==
    /\ row = [l \in Leases |-> NoRow]
    /\ file = [l \in Leases |-> NoFile]
    /\ handle = [l \in Leases |-> NoHandle]
    /\ up = TRUE
    /\ faults = 0

-----------------------------------------------------------------------------
(***************************************************************************)
(* Admission                                                               *)
(***************************************************************************)

TotalReserved == MapThenSumSet(LAMBDA l : row[l].reserved, Leases)

\* What the ledger still expects to be written.
Outstanding == MapThenSumSet(LAMBDA l : row[l].reserved - row[l].actual, Leases)

FreeBytes == Disk - MapThenSumSet(LAMBDA l : file[l].bytes, Leases)

\* Fault: what is reserved and not yet written is taken for free.
AdmitsWhatIsFree(delta) ==
    /\ TotalReserved + delta <= MaxStorage
    /\ FreeBytes - delta >= MinFree

\* _admit_delta
Admits(delta) ==
    /\ TotalReserved + delta <= MaxStorage
    /\ FreeBytes - Outstanding - delta >= MinFree

ActiveUploads == {l \in Uploads : row[l].phase = "writing"}

UploadSlot == Cardinality(ActiveUploads) < MaxActiveUploads

-----------------------------------------------------------------------------
(***************************************************************************)
(* Begin, append                                                           *)
(***************************************************************************)

Is(l, place) == up /\ handle[l].at = place
Goes(l, place) == handle' = [handle EXCEPT ![l].at = place]
Ends(l, place) == handle' = [handle EXCEPT ![l] = [NoHandle EXCEPT !.at = place]]
SetRow(l, r) == row' = [row EXCEPT ![l] = r]
SetFile(l, f) == file' = [file EXCEPT ![l] = f]

Works == UNCHANGED <<up, faults>>
Fails == faults < MaxFaults /\ faults' = faults + 1 /\ UNCHANGED up

\* A refused begin leaves nothing and is not a step.
Begin(l) ==
    /\ Is(l, "unused") /\ Works
    /\ l \in Uploads => UploadSlot
    /\ Admits(Quantum)
    /\ SetRow(l, [phase |-> "writing", reserved |-> Quantum, actual |-> 0])
    /\ Goes(l, "opening") /\ UNCHANGED file

\* A commit that raises may or may not have taken effect.  Without a lease
\* nobody can abort what it has left: a row until the next start.
BeginFails(l) ==
    /\ Is(l, "unused") /\ Fails
    /\ l \in Uploads => UploadSlot
    /\ Admits(Quantum)
    /\ UNCHANGED row \/ SetRow(l, [phase |-> "writing", reserved |-> Quantum, actual |-> 0])
    /\ Ends(l, "gone") /\ UNCHANGED file

Open(l) ==
    /\ Is(l, "opening") /\ Works
    /\ SetFile(l, [name |-> "partial", bytes |-> 0]) /\ Goes(l, "writing")
    /\ UNCHANGED row

OpenFails(l) ==
    /\ Is(l, "opening") /\ Fails
    /\ \/ SetRow(l, NoRow) /\ Ends(l, "aborted")
       \/ UNCHANGED row /\ Ends(l, "gone")           \* nor can the row be deleted
    /\ UNCHANGED file

Grown(r, required) == [r EXCEPT !.reserved = required]

\* The reservation covers the chunk before it is written; a refusal is the
\* user's StorageAdmissionError.
Append(l, size) ==
    LET required == Rounded(size)
        delta == required - row[l].reserved
        granted == [handle EXCEPT ![l].at = "granted", ![l].next = size]
    IN  /\ Is(l, "writing") /\ Works /\ size > handle[l].size /\ UNCHANGED file
        /\ \/ delta <= 0 /\ handle' = granted /\ UNCHANGED row
           \/ delta > 0 /\ Admits(delta) /\ handle' = granted /\ SetRow(l, Grown(row[l], required))
           \/ delta > 0 /\ ~Admits(delta) /\ Goes(l, "failing") /\ UNCHANGED row

AppendFails(l, size) ==
    LET required == Rounded(size)
        delta == required - row[l].reserved
    IN  /\ Is(l, "writing") /\ Fails /\ size > handle[l].size
        /\ delta > 0 /\ Admits(delta)
        /\ UNCHANGED row \/ SetRow(l, Grown(row[l], required))
        /\ Goes(l, "failing") /\ UNCHANGED file

CheckpointAt(size) == (size \div Quantum) * Quantum

\* The file object may hold back the last bytes.
Write(l, bytes) ==
    LET size == handle[l].next
    IN  /\ Is(l, "granted") /\ Works
        /\ bytes >= file[l].bytes /\ bytes >= size - Buffer /\ bytes <= size
        /\ SetFile(l, [file[l] EXCEPT !.bytes = bytes])
        /\ handle' = [handle EXCEPT ![l] =
               [at |-> IF CheckpointAt(size) > row[l].actual THEN "checkpoint" ELSE "writing",
                size |-> size, next |-> 0]]
        /\ UNCHANGED row

\* Part of the chunk may be in the file.
WriteFails(l, bytes) ==
    /\ Is(l, "granted") /\ Fails /\ bytes >= file[l].bytes /\ bytes <= handle[l].next
    /\ SetFile(l, [file[l] EXCEPT !.bytes = bytes]) /\ Goes(l, "failing")
    /\ UNCHANGED row

Checkpoint(l) ==
    /\ Is(l, "checkpoint") /\ Works
    /\ SetRow(l, [row[l] EXCEPT !.actual = CheckpointAt(handle[l].size)])
    /\ Goes(l, "writing") /\ UNCHANGED file

CheckpointFails(l) ==
    /\ Is(l, "checkpoint") /\ Fails
    /\ UNCHANGED row \/ SetRow(l, [row[l] EXCEPT !.actual = CheckpointAt(handle[l].size)])
    /\ Goes(l, "failing") /\ UNCHANGED file

-----------------------------------------------------------------------------
(***************************************************************************)
(* Seal, and its undoing                                                   *)
(***************************************************************************)

\* flush, fsync, rename
Rename(l) ==
    /\ Is(l, "writing") /\ Works
    /\ SetFile(l, [name |-> "complete", bytes |-> handle[l].size]) /\ Goes(l, "renamed")
    /\ UNCHANGED row

\* The flush, the fsync or the rename fails, or the fsync of the directory.
RenameFails(l) ==
    /\ Is(l, "writing") /\ Fails
    /\ \/ UNCHANGED file
       \/ \E name \in {"partial", "complete"} :
              SetFile(l, [name |-> name, bytes |-> handle[l].size])
    /\ Goes(l, "undoSeal") /\ UNCHANGED row

Sealed(r, size) == [phase |-> "sealed", reserved |-> size, actual |-> size]

CommitSeal(l) ==
    /\ Is(l, "renamed") /\ Works
    /\ SetRow(l, Sealed(row[l], handle[l].size)) /\ Goes(l, "sealed")
    /\ UNCHANGED file

CommitSealFails(l) ==
    /\ Is(l, "renamed") /\ Fails
    /\ UNCHANGED row \/ SetRow(l, Sealed(row[l], handle[l].size))
    /\ Goes(l, "undoSeal") /\ UNCHANGED file

\* _compensate_failed_seal: both names are unlinked, then the row goes.
UndoSeal(l) ==
    /\ Is(l, "undoSeal") /\ Works
    /\ SetFile(l, NoFile) /\ Goes(l, "undoRow") /\ UNCHANGED row

UndoSealFails(l) ==
    /\ Is(l, "undoSeal") /\ Fails
    /\ UNCHANGED file \/ SetFile(l, NoFile)
    /\ Goes(l, "failing") /\ UNCHANGED row

UndoRow(l) ==
    /\ Is(l, "undoRow") /\ Works
    /\ SetRow(l, NoRow) /\ Ends(l, "aborted") /\ UNCHANGED file

UndoRowFails(l) ==
    /\ Is(l, "undoRow") /\ Fails
    /\ UNCHANGED row \/ SetRow(l, NoRow)
    /\ Goes(l, "failing") /\ UNCHANGED file

-----------------------------------------------------------------------------
(***************************************************************************)
(* Abort, release, restart                                                 *)
(***************************************************************************)

Aborting(l) == up /\ handle[l].at \in {"writing", "failing"}

\* Fault: files that are gone are taken for a cleanup that is complete.
FilesGone(l) == file[l] = NoFile

CleanupComplete(l) == row[l] = NoRow /\ file[l] = NoFile

\* _abort_writing: nothing left to do, a seal to undo, or files and row in one
\* transaction.
Abort(l) ==
    /\ Aborting(l) /\ Works
    /\ \/ CleanupComplete(l) /\ Ends(l, "aborted") /\ UNCHANGED <<row, file>>
       \/ row[l].phase = "sealed" /\ Goes(l, "undoSeal") /\ UNCHANGED <<row, file>>
       \/ row[l].phase = "writing" /\ SetRow(l, NoRow) /\ SetFile(l, NoFile) /\ Ends(l, "aborted")

AbortFails(l) ==
    /\ Aborting(l) /\ Fails /\ row[l].phase = "writing"
    /\ \/ UNCHANGED <<row, file>>
       \/ SetFile(l, NoFile) /\ (UNCHANGED row \/ SetRow(l, NoRow))
    /\ Goes(l, "failing")

Releasing(l) == up /\ handle[l].at \in {"sealed", "releaseAgain"}

\* _release_ref
ReleaseUnlink(l) ==
    /\ Releasing(l) /\ Works
    /\ SetFile(l, NoFile) /\ Goes(l, "releasing") /\ UNCHANGED row

ReleaseUnlinkFails(l) ==
    /\ Releasing(l) /\ Fails
    /\ UNCHANGED file \/ SetFile(l, NoFile)
    /\ Goes(l, "releaseAgain") /\ UNCHANGED row

ReleaseRow(l) ==
    /\ Is(l, "releasing") /\ Works
    /\ SetRow(l, NoRow) /\ Ends(l, "released") /\ UNCHANGED file

ReleaseRowFails(l) ==
    /\ Is(l, "releasing") /\ Fails
    /\ UNCHANGED row \/ SetRow(l, NoRow)
    /\ Goes(l, "releaseAgain") /\ UNCHANGED file

Crash ==
    /\ up' = FALSE
    /\ handle' = [l \in Leases |-> IF handle[l].at = "unused" THEN NoHandle
                                   ELSE [NoHandle EXCEPT !.at = "gone"]]
    /\ UNCHANGED <<row, file, faults>>

\* _reconcile_startup, which drops what no job still needs: here everything.
UnlinkLeft(l) ==
    /\ ~up /\ file[l] # NoFile
    /\ SetFile(l, NoFile) /\ UNCHANGED <<row, handle, up, faults>>

Restart ==
    /\ ~up /\ (\A l \in Leases : file[l] = NoFile)
    /\ row' = [l \in Leases |-> NoRow] /\ up' = TRUE
    /\ UNCHANGED <<file, handle, faults>>

Next ==
    \/ \E l \in Leases :
          \/ Begin(l) \/ BeginFails(l) \/ Open(l) \/ OpenFails(l)
          \/ \E n \in Sizes : Append(l, n) \/ AppendFails(l, n) \/ Write(l, n) \/ WriteFails(l, n)
          \/ Checkpoint(l) \/ CheckpointFails(l)
          \/ Rename(l) \/ RenameFails(l) \/ CommitSeal(l) \/ CommitSealFails(l)
          \/ UndoSeal(l) \/ UndoSealFails(l) \/ UndoRow(l) \/ UndoRowFails(l)
          \/ Abort(l) \/ AbortFails(l)
          \/ ReleaseUnlink(l) \/ ReleaseUnlinkFails(l) \/ ReleaseRow(l) \/ ReleaseRowFails(l)
          \/ UnlinkLeft(l)
    \/ Crash \/ Restart

Spec == Init /\ [][Next]_vars

-----------------------------------------------------------------------------
(***************************************************************************)
(* Safety                                                                  *)
(***************************************************************************)

Files == {l \in Leases : file[l].name # "none"}

\* The program's own writes leave min_filesystem_free_bytes free, although the
\* space is tested when it is reserved and used later, by several leases.  The
\* slack is real: a checkpoint counts as written what a file object may still
\* hold back, and a test made then sees that much too much free space.
FloorKept == FreeBytes >= MinFree - Buffer * Cardinality(Files)

\* At most max_active_uploads uploads are being received.
UploadsBounded == Cardinality(ActiveUploads) <= MaxActiveUploads

\* Every byte on the disk is reserved, from before it is written until after
\* it is unlinked, whatever fails in between.
BytesReserved ==
    \A l \in Leases :
        /\ file[l].name # "none" => row[l].phase # "none"
        /\ file[l].bytes <= row[l].reserved

\* A sealed reference that has been handed out stands for a file that is
\* complete, on the disk, and charged with exactly its size.
SealedExact ==
    \A l \in Leases : handle[l].at = "sealed" =>
        /\ row[l] = [phase |-> "sealed", reserved |-> handle[l].size, actual |-> handle[l].size]
        /\ file[l] = [name |-> "complete", bytes |-> handle[l].size]

\* A lease whose abort or release has returned, or whose failed seal has been
\* undone, has left neither file nor reservation, also when a try before failed.
EndsClean ==
    \A l \in Leases : handle[l].at \in {"aborted", "released"} =>
        row[l] = NoRow /\ file[l] = NoFile

=============================================================================
