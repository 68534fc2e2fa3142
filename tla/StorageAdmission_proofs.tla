------------------------ MODULE StorageAdmission_proofs ------------------------
(***************************************************************************)
(* What holds of every lease, and of the sums over all leases, for any     *)
(* number of leases, any quantum and any limits.                           *)
(***************************************************************************)
EXTENDS StorageAdmission, FiniteSetTheorems, TLAPS

LEMMA DivBounds ==
  ASSUME NEW a \in Nat, NEW q \in Nat \ {0}
  PROVE  a \div q \in Nat /\ (a \div q) * q <= a /\ a < (a \div q) * q + q
  OBVIOUS

(* Whole quanta grow with what they hold.                                  *)
LEMMA DivMonotone ==
  ASSUME NEW a \in Nat, NEW c \in Nat, a <= c, NEW q \in Nat \ {0}
  PROVE  (a \div q) * q <= (c \div q) * q
<1> DEFINE x == a \div q
           y == c \div q
<1>1. x \in Nat /\ y \in Nat /\ x * q <= a /\ c < y * q + q
  BY DivBounds
<1> HIDE DEF x, y
<1>2. CASE x <= y
  <2>1. PICK d \in Nat : y = x + d
    BY <1>1, <1>2
  <2>2. y * q = x * q + d * q /\ d * q \in Nat /\ x * q \in Nat
    BY <1>1, <2>1
  <2>3. QED
    BY <1>1, <2>2 DEF x, y
<1>3. CASE x > y
  <2>1. PICK d \in Nat : x = y + 1 + d
    BY <1>1, <1>3
  <2>2. x * q = y * q + q + d * q /\ d * q \in Nat
    BY <1>1, <2>1
  <2>3. QED
    BY <1>1, <2>2
<1>4. QED
  BY <1>1, <1>2, <1>3

LEMMA RoundedBounds ==
  ASSUME NEW n \in Sizes
  PROVE  /\ Rounded(n) \in 0..Rounded(MaxSize) /\ n <= Rounded(n)
         /\ Quantum \in 0..Rounded(MaxSize) /\ Rounded(MaxSize) \in Nat
         /\ CheckpointAt(n) \in Sizes /\ CheckpointAt(n) <= n
<1> DEFINE up1 == n + Quantum - 1
           up2 == MaxSize + Quantum - 1
<1>1. Quantum \in Nat \ {0} /\ MaxSize \in Nat /\ n \in Nat /\ n <= MaxSize
  BY AdmissionAssumption DEF Sizes
<1>2. up1 \in Nat /\ up2 \in Nat /\ up1 <= up2
  BY <1>1
<1>3. (up1 \div Quantum) * Quantum <= (up2 \div Quantum) * Quantum
  BY <1>1, <1>2, DivMonotone
<1>4. up1 < (up1 \div Quantum) * Quantum + Quantum
  BY <1>1, <1>2, DivBounds
<1>5. (up1 \div Quantum) * Quantum \in Int /\ (up2 \div Quantum) * Quantum \in Int
  <2>1. up1 \div Quantum \in Nat /\ up2 \div Quantum \in Nat
    BY <1>1, <1>2, DivBounds
  <2>2. QED
    BY <1>1, <2>1
<1>6. CheckpointAt(n) \in Nat /\ CheckpointAt(n) <= n
  <2>1. n \div Quantum \in Nat /\ (n \div Quantum) * Quantum <= n
    BY <1>1, DivBounds
  <2>2. QED
    BY <1>1, <2>1 DEF CheckpointAt
<1>7. n <= (up1 \div Quantum) * Quantum
  BY <1>1, <1>4, <1>5
<1>8. /\ Rounded(n) = Larger(Quantum, (up1 \div Quantum) * Quantum)
      /\ Rounded(MaxSize) = Larger(Quantum, (up2 \div Quantum) * Quantum)
  BY DEF Rounded
<1> HIDE DEF up1, up2
<1>9. QED
  BY <1>1, <1>3, <1>5, <1>6, <1>7, <1>8 DEF Larger, Sizes

-----------------------------------------------------------------------------
(* What the place of a lease's user says about its row and its file.       *)
Covers(r, f) ==
    /\ f.name # "none" => r.phase # "none"
    /\ f.bytes <= r.reserved

BeingWritten(r, f, h) ==
    /\ r.phase = "writing" /\ Covers(r, f)
    /\ f.bytes <= h.size /\ h.size <= r.reserved

IsSealed(r, f, h) ==
    /\ r = [phase |-> "sealed", reserved |-> h.size, actual |-> h.size]
    /\ f = [name |-> "complete", bytes |-> h.size]

Good(r, f, h) ==
    /\ h.at \in {"unused", "aborted", "released"} => r = NoRow /\ f = NoFile
    /\ h.at = "unused" => h.size = 0
    /\ h.at = "opening" => r.phase = "writing" /\ f = NoFile /\ h.size = 0
    /\ h.at \in {"writing", "granted", "checkpoint", "renamed"} => BeingWritten(r, f, h)
    /\ h.at = "granted" => h.next <= r.reserved /\ h.size <= h.next
    /\ h.at = "renamed" => f = [name |-> "complete", bytes |-> h.size]
    /\ h.at = "sealed" => IsSealed(r, f, h)
    /\ h.at \in {"undoRow", "releasing"} => f = NoFile
    /\ h.at \in {"undoSeal", "failing", "releaseAgain", "gone"} => Covers(r, f)

Inv ==
    /\ TypeOK
    /\ \A l \in Leases : Good(row[l], file[l], handle[l])
    /\ ~up => \A l \in Leases : handle[l].at \in {"unused", "gone"}

LEMMA GoodCovers ==
  ASSUME NEW r \in RowStates, NEW f \in FileStates, NEW h \in HandleStates, Good(r, f, h)
  PROVE  Covers(r, f)
<1>1. h.at \in Places /\ r.reserved \in Nat /\ h.size \in Nat
  BY DEF RowStates, HandleStates, Sizes
<1>2. CASE h.at = "sealed"
  BY <1>1, <1>2 DEF Good, IsSealed, Covers
<1>3. CASE h.at # "sealed"
  BY <1>1, <1>3 DEF Good, Covers, BeingWritten, Places, NoRow, NoFile
<1>4. QED
  BY <1>2, <1>3

LEMMA InvGivesProperties == Inv => TypeOK /\ BytesReserved /\ SealedExact /\ EndsClean
<1> SUFFICES ASSUME Inv PROVE BytesReserved /\ SealedExact /\ EndsClean
  BY DEF Inv
<1>1. BytesReserved
  <2>1. \A l \in Leases : Covers(row[l], file[l])
    BY GoodCovers DEF Inv, TypeOK
  <2>2. QED
    BY <2>1 DEF BytesReserved, Covers
<1>2. SealedExact /\ EndsClean
  BY DEF Inv, Good, IsSealed, SealedExact, EndsClean
<1>3. QED
  BY <1>1, <1>2

LEMMA InitInv == Init => Inv
<1> SUFFICES ASSUME Init PROVE Inv
  OBVIOUS
<1>1. 0 \in Sizes /\ 0 \in 0..Rounded(MaxSize) /\ 0 \in 0..MaxFaults
  <2>1. 0 \in Sizes
    BY AdmissionAssumption DEF Sizes
  <2>2. Rounded(MaxSize) \in Nat /\ MaxFaults \in Nat
    BY <2>1, RoundedBounds, AdmissionAssumption
  <2>3. QED
    BY <2>1, <2>2
<1>2. TypeOK
  BY <1>1 DEF Init, TypeOK, RowStates, NoRow, FileStates, NoFile, HandleStates, NoHandle, Places
<1>3. QED
  BY <1>2 DEF Init, Inv, Good, NoHandle

-----------------------------------------------------------------------------
(* A step of one lease's user changes that lease alone.                    *)
Local(l) ==
    /\ row' = [row EXCEPT ![l] = row'[l]]
    /\ file' = [file EXCEPT ![l] = file'[l]]
    /\ handle' = [handle EXCEPT ![l] = handle'[l]]
    /\ up' = up /\ faults' \in 0..MaxFaults

StaysGood(l) ==
    /\ row'[l] \in RowStates /\ file'[l] \in FileStates /\ handle'[l] \in HandleStates
    /\ Good(row'[l], file'[l], handle'[l])

LEMMA LocalStep ==
  ASSUME Inv, up, NEW l \in Leases, Local(l), StaysGood(l)
  PROVE  Inv'
<1>1. TypeOK'
  BY DEF Inv, TypeOK, Local, StaysGood
<1>2. \A k \in Leases : k # l => row'[k] = row[k] /\ file'[k] = file[k] /\ handle'[k] = handle[k]
  BY DEF Inv, TypeOK, Local
<1>3. \A k \in Leases : Good(row'[k], file'[k], handle'[k])
  BY <1>2 DEF Inv, StaysGood
<1>4. QED
  BY <1>1, <1>3 DEF Inv, Local

(* What the step of a user sees of its own lease.                          *)
LEMMA Own ==
  ASSUME Inv, NEW l \in Leases
  PROVE  /\ row[l] \in RowStates /\ file[l] \in FileStates /\ handle[l] \in HandleStates
         /\ Good(row[l], file[l], handle[l])
         /\ faults \in 0..MaxFaults
         /\ row = [row EXCEPT ![l] = row[l]] /\ file = [file EXCEPT ![l] = file[l]]
         /\ handle = [handle EXCEPT ![l] = handle[l]]
  BY DEF Inv, TypeOK

LEMMA FaultsBounded ==
  ASSUME Inv, Works \/ Fails
  PROVE  up' = up /\ faults' \in 0..MaxFaults
  BY AdmissionAssumption DEF Inv, TypeOK, Works, Fails

(* The forms in which an action changes a lease.                           *)
LEMMA Changes ==
  ASSUME Inv, NEW l \in Leases
  PROVE  /\ \A r : SetRow(l, r) => row' = [row EXCEPT ![l] = row'[l]] /\ row'[l] = r
         /\ \A f : SetFile(l, f) => file' = [file EXCEPT ![l] = file'[l]] /\ file'[l] = f
  BY DEF Inv, TypeOK, SetRow, SetFile

LEMMA Moves ==
  ASSUME Inv, NEW l \in Leases, NEW p \in Places, Goes(l, p)
  PROVE  /\ handle' = [handle EXCEPT ![l] = handle'[l]] /\ handle'[l] \in HandleStates
         /\ handle'[l].at = p /\ handle'[l].size = handle[l].size /\ handle'[l].next = handle[l].next
<1>1. handle[l] \in HandleStates /\ handle'[l] = [handle[l] EXCEPT !.at = p]
  BY DEF Inv, TypeOK, Goes
<1>2. handle' = [handle EXCEPT ![l] = handle'[l]]
  BY DEF Inv, TypeOK, Goes
<1>3. QED
  BY <1>1, <1>2 DEF HandleStates

LEMMA Finishes ==
  ASSUME Inv, NEW l \in Leases, NEW p \in Places, Ends(l, p)
  PROVE  /\ handle' = [handle EXCEPT ![l] = handle'[l]] /\ handle'[l] \in HandleStates
         /\ handle'[l].at = p /\ handle'[l].size = 0 /\ handle'[l].next = 0
<1>1. handle'[l] = [at |-> p, size |-> 0, next |-> 0]
  BY DEF Inv, TypeOK, Ends, NoHandle
<1>2. handle' = [handle EXCEPT ![l] = handle'[l]]
  BY DEF Inv, TypeOK, Ends
<1>3. QED
  BY <1>1, <1>2, AdmissionAssumption DEF HandleStates, Sizes

(* Where a lease's user has failed, only the reservation is known.         *)
LEMMA LooseGood ==
  ASSUME NEW r, NEW f, NEW h, Covers(r, f),
         h.at \in {"undoSeal", "failing", "releaseAgain", "gone"}
  PROVE  Good(r, f, h)
  BY DEF Good

LEMMA EndedGood ==
  ASSUME NEW h, h.at \in {"aborted", "released"}
  PROVE  Good(NoRow, NoFile, h)
  BY DEF Good

LEMMA Constants ==
  /\ NoRow \in RowStates /\ NoFile \in FileStates /\ Covers(NoRow, NoFile)
  /\ [phase |-> "writing", reserved |-> Quantum, actual |-> 0] \in RowStates
<1>1. 0 \in Sizes
  BY AdmissionAssumption DEF Sizes
<1>2. Rounded(MaxSize) \in Nat /\ Quantum \in 0..Rounded(MaxSize)
  BY <1>1, RoundedBounds
<1>3. QED
  BY <1>1, <1>2 DEF RowStates, FileStates, NoRow, NoFile, Covers

LEMMA BeginGood ==
  ASSUME Inv, NEW l \in Leases, Begin(l) \/ BeginFails(l)
  PROVE  Local(l) /\ StaysGood(l)
<1> DEFINE new == [phase |-> "writing", reserved |-> Quantum, actual |-> 0]
<1>1. up' = up /\ faults' \in 0..MaxFaults /\ file' = file
  BY FaultsBounded DEF Begin, BeginFails
<1>2. row'[l] \in {row[l], new} /\ row' = [row EXCEPT ![l] = row'[l]]
  BY Own, Changes DEF Begin, BeginFails
<1>3. row[l] = NoRow /\ file[l] = NoFile /\ handle[l].size = 0
  BY Own DEF Begin, BeginFails, Is, Good
<1>4. Covers(row'[l], file'[l])
  BY <1>1, <1>2, <1>3, AdmissionAssumption DEF Covers, NoRow, NoFile
<1>5. CASE Begin(l)
  <2>1. row'[l] = new
    BY <1>5, Changes DEF Begin
  <2>2. Goes(l, "opening")
    BY <1>5 DEF Begin
  <2>3. handle'[l].at = "opening" /\ handle'[l].size = 0
    BY <2>2, <1>3, Moves DEF Places
  <2>4. Good(row'[l], file'[l], handle'[l])
    BY <1>1, <1>3, <2>1, <2>3 DEF Good
  <2>5. QED
    BY <1>1, <1>2, <2>1, <2>2, <2>4, Own, Moves, Constants DEF Local, StaysGood, Places
<1>6. CASE BeginFails(l)
  <2>1. Ends(l, "gone")
    BY <1>6 DEF BeginFails
  <2>2. handle'[l].at = "gone"
    BY <2>1, Finishes DEF Places
  <2>3. Good(row'[l], file'[l], handle'[l])
    BY <1>4, <2>2, LooseGood
  <2>4. QED
    BY <1>1, <1>2, <2>1, <2>3, Own, Finishes, Constants DEF Local, StaysGood, Places
<1>7. QED
  BY <1>5, <1>6

LEMMA OpenGood ==
  ASSUME Inv, NEW l \in Leases, Open(l) \/ OpenFails(l)
  PROVE  Local(l) /\ StaysGood(l)
<1> DEFINE new == [name |-> "partial", bytes |-> 0]
<1>1. up' = up /\ faults' \in 0..MaxFaults
  BY FaultsBounded DEF Open, OpenFails
<1>2. row[l].phase = "writing" /\ file[l] = NoFile /\ handle[l].size = 0
  BY Own DEF Open, OpenFails, Is, Good
<1>3. row[l].reserved \in Nat /\ 0 \in Sizes
  BY Own, AdmissionAssumption DEF RowStates, Sizes
<1>4. CASE Open(l)
  <2>1. row' = row /\ file'[l] = new /\ file' = [file EXCEPT ![l] = file'[l]]
    BY <1>4, Changes DEF Open
  <2>2. Goes(l, "writing")
    BY <1>4 DEF Open
  <2>3. handle'[l].at = "writing" /\ handle'[l].size = 0
    BY <2>2, <1>2, Moves DEF Places
  <2>4. Good(row'[l], file'[l], handle'[l])
    BY <1>2, <1>3, <2>1, <2>3 DEF Good, BeingWritten, Covers
  <2>5. file'[l] \in FileStates
    BY <1>3, <2>1 DEF FileStates
  <2>6. QED
    BY <1>1, <2>1, <2>2, <2>4, <2>5, Own, Moves DEF Local, StaysGood, Places
<1>5. CASE OpenFails(l)
  <2>1. file' = file
    BY <1>5 DEF OpenFails
  <2>2. CASE SetRow(l, NoRow) /\ Ends(l, "aborted")
    <3>1. Good(row'[l], file'[l], handle'[l])
      BY <1>2, <2>1, <2>2, Changes, Finishes, EndedGood DEF Places
    <3>2. QED
      BY <1>1, <2>1, <2>2, <3>1, Own, Changes, Finishes, Constants DEF Local, StaysGood, Places
  <2>3. CASE UNCHANGED row /\ Ends(l, "gone")
    <3>1. handle'[l].at = "gone" /\ Covers(row'[l], file'[l])
      BY <1>2, <1>3, <2>1, <2>3, Finishes DEF Covers, NoFile, Places
    <3>2. QED
      BY <1>1, <2>1, <2>3, <3>1, Own, Finishes, LooseGood DEF Local, StaysGood, Places
  <2>4. QED
    BY <1>5, <2>2, <2>3 DEF OpenFails
<1>6. QED
  BY <1>4, <1>5

(* What a user that is writing knows.                                      *)
LEMMA Written ==
  ASSUME Inv, NEW l \in Leases,
         handle[l].at \in {"writing", "granted", "checkpoint", "renamed"}
  PROVE  /\ BeingWritten(row[l], file[l], handle[l]) /\ Covers(row[l], file[l])
         /\ row[l].reserved \in 0..Rounded(MaxSize) /\ row[l].actual \in Sizes
         /\ handle[l].size \in Sizes /\ handle[l].next \in Sizes
         /\ file[l].bytes \in Sizes /\ Rounded(MaxSize) \in Nat
         /\ Sizes \subseteq Nat /\ handle[l].size \in Nat
<1>1. /\ row[l] \in RowStates /\ file[l] \in FileStates /\ handle[l] \in HandleStates
      /\ BeingWritten(row[l], file[l], handle[l])
  BY Own DEF Good
<1>2. Rounded(MaxSize) \in Nat /\ Sizes \subseteq Nat
  <2>1. MaxSize \in Sizes
    BY AdmissionAssumption DEF Sizes
  <2>2. QED
    BY <2>1, RoundedBounds DEF Sizes
<1>3. QED
  BY <1>1, <1>2 DEF RowStates, FileStates, HandleStates, BeingWritten

LEMMA AppendGood ==
  ASSUME Inv, NEW l \in Leases, NEW n \in Sizes, Append(l, n) \/ AppendFails(l, n)
  PROVE  Local(l) /\ StaysGood(l)
<1> DEFINE required == Rounded(n)
           grown == Grown(row[l], required)
           granted == [handle EXCEPT ![l].at = "granted", ![l].next = n]
<1>1. up' = up /\ faults' \in 0..MaxFaults /\ file' = file
  BY FaultsBounded DEF Append, AppendFails
<1>2. handle[l].at = "writing" /\ n > handle[l].size
  BY DEF Append, AppendFails, Is
<1>3. /\ BeingWritten(row[l], file[l], handle[l]) /\ Covers(row[l], file[l])
      /\ row[l].reserved \in Nat /\ handle[l].size \in Nat /\ file[l].bytes \in Nat
  BY <1>2, Written
<1>4. required \in 0..Rounded(MaxSize) /\ n <= required /\ Rounded(MaxSize) \in Nat
  BY RoundedBounds
<1>5. /\ row'[l] \in {row[l], grown} /\ row' = [row EXCEPT ![l] = row'[l]]
      /\ row'[l] = grown => required > row[l].reserved \/ grown = row[l]
  <2>1. CASE row' = row
    BY <2>1, Own
  <2>2. CASE SetRow(l, grown) /\ required - row[l].reserved > 0
    BY <2>2, <1>3, <1>4, Changes
  <2>3. QED
    BY <2>1, <2>2 DEF Append, AppendFails
<1>6. grown \in RowStates /\ grown.reserved = required /\ grown.phase = row[l].phase
  BY <1>4, Own DEF RowStates, Grown
<1>7. Covers(row'[l], file'[l])
  BY <1>1, <1>3, <1>4, <1>5, <1>6 DEF Covers
<1>8. CASE Goes(l, "failing")
  <2>1. handle'[l].at = "failing" /\ handle'[l] \in HandleStates
        /\ handle' = [handle EXCEPT ![l] = handle'[l]]
    BY <1>8, Moves DEF Places
  <2>2. QED
    BY <1>1, <1>5, <1>6, <1>7, <2>1, Own, LooseGood DEF Local, StaysGood
<1>9. CASE /\ handle' = granted
           /\ \/ required - row[l].reserved <= 0 /\ UNCHANGED row
              \/ required - row[l].reserved > 0 /\ SetRow(l, grown)
  <2>1. handle'[l] = [handle[l] EXCEPT !.at = "granted", !.next = n]
        /\ handle' = [handle EXCEPT ![l] = handle'[l]]
    BY <1>9 DEF Inv, TypeOK
  <2>2. /\ handle'[l].at = "granted" /\ handle'[l].next = n /\ handle'[l].size = handle[l].size
        /\ handle'[l] \in HandleStates
    BY <2>1, Own DEF HandleStates, Places
  <2>3. row'[l].phase = "writing" /\ required <= row'[l].reserved /\ row'[l].reserved \in Nat
    BY <1>3, <1>4, <1>6, <1>9, Changes DEF BeingWritten
  <2>4. Good(row'[l], file'[l], handle'[l])
    BY <1>1, <1>2, <1>3, <1>4, <1>7, <2>2, <2>3 DEF Good, BeingWritten, Sizes
  <2>5. QED
    BY <1>1, <1>5, <1>6, <2>1, <2>2, <2>4, Own DEF Local, StaysGood
<1>10. QED
  BY <1>8, <1>9 DEF Append, AppendFails

LEMMA WriteGood ==
  ASSUME Inv, NEW l \in Leases, NEW n \in Sizes, Write(l, n) \/ WriteFails(l, n)
  PROVE  Local(l) /\ StaysGood(l)
<1>1. up' = up /\ faults' \in 0..MaxFaults /\ row' = row
  BY FaultsBounded DEF Write, WriteFails
<1>2. handle[l].at = "granted" /\ n <= handle[l].next
  BY DEF Write, WriteFails, Is
<1>3. /\ BeingWritten(row[l], file[l], handle[l]) /\ Covers(row[l], file[l])
      /\ row[l].reserved \in Nat /\ handle[l].next \in Nat /\ n \in Nat
      /\ handle[l].next <= row[l].reserved
  <2>1. handle[l].next <= row[l].reserved
    BY <1>2, Own DEF Good
  <2>2. QED
    BY <1>2, <2>1, Written
<1>4. /\ file'[l] = [file[l] EXCEPT !.bytes = n]
      /\ file' = [file EXCEPT ![l] = file'[l]]
  BY Changes DEF Write, WriteFails
<1>5. file'[l] \in FileStates /\ file'[l].bytes = n /\ file'[l].name = file[l].name
  BY <1>4, Own DEF FileStates
<1>6. Covers(row'[l], file'[l])
  BY <1>1, <1>2, <1>3, <1>5 DEF Covers
<1>7. CASE Write(l, n)
  <2> DEFINE place == IF CheckpointAt(handle[l].next) > row[l].actual THEN "checkpoint" ELSE "writing"
             new == [at |-> place, size |-> handle[l].next, next |-> 0]
  <2>1. handle'[l] = new /\ handle' = [handle EXCEPT ![l] = handle'[l]]
    BY <1>7 DEF Write, Inv, TypeOK
  <2>2. place \in {"checkpoint", "writing"}
    OBVIOUS
  <2> HIDE DEF place
  <2>3. handle'[l] \in HandleStates /\ handle'[l].at = place /\ handle'[l].size = handle[l].next
    BY <2>1, <2>2, <1>2, Written, AdmissionAssumption DEF HandleStates, Places, Sizes
  <2>4. Good(row'[l], file'[l], handle'[l])
    BY <1>1, <1>2, <1>3, <1>5, <1>6, <2>2, <2>3 DEF Good, BeingWritten
  <2>5. QED
    BY <1>1, <1>4, <1>5, <2>1, <2>3, <2>4, Own DEF Local, StaysGood
<1>8. CASE WriteFails(l, n)
  <2>1. Goes(l, "failing")
    BY <1>8 DEF WriteFails
  <2>2. handle'[l].at = "failing" /\ handle'[l] \in HandleStates
        /\ handle' = [handle EXCEPT ![l] = handle'[l]]
    BY <2>1, Moves DEF Places
  <2>3. QED
    BY <1>1, <1>4, <1>5, <1>6, <2>2, Own, LooseGood DEF Local, StaysGood
<1>9. QED
  BY <1>7, <1>8

LEMMA CheckpointGood ==
  ASSUME Inv, NEW l \in Leases, Checkpoint(l) \/ CheckpointFails(l)
  PROVE  Local(l) /\ StaysGood(l)
<1> DEFINE counted == [row[l] EXCEPT !.actual = CheckpointAt(handle[l].size)]
<1>1. up' = up /\ faults' \in 0..MaxFaults /\ file' = file
  BY FaultsBounded DEF Checkpoint, CheckpointFails
<1>2. handle[l].at = "checkpoint"
  BY DEF Checkpoint, CheckpointFails, Is
<1>3. BeingWritten(row[l], file[l], handle[l]) /\ Covers(row[l], file[l]) /\ handle[l].size \in Sizes
  BY <1>2, Written
<1>4. row'[l] \in {row[l], counted} /\ row' = [row EXCEPT ![l] = row'[l]]
  BY Own, Changes DEF Checkpoint, CheckpointFails
<1>5. CheckpointAt(handle[l].size) \in Sizes
  BY <1>3, RoundedBounds
<1>6. /\ row'[l] \in RowStates /\ row'[l].phase = row[l].phase
      /\ row'[l].reserved = row[l].reserved
  BY <1>4, <1>5, Own DEF RowStates
<1>7. BeingWritten(row'[l], file'[l], handle[l]) /\ Covers(row'[l], file'[l])
  BY <1>1, <1>3, <1>6 DEF BeingWritten, Covers
<1>8. PICK p \in {"writing", "failing"} : Goes(l, p)
  <2>1. Goes(l, "writing") \/ Goes(l, "failing")
    BY DEF Checkpoint, CheckpointFails
  <2>2. QED
    BY <2>1
<1>9. /\ handle'[l].at = p /\ handle'[l].size = handle[l].size /\ handle'[l] \in HandleStates
      /\ handle' = [handle EXCEPT ![l] = handle'[l]]
  <2>1. p \in Places
    BY DEF Places
  <2>2. QED
    BY <1>8, <2>1, Moves
<1>10. Good(row'[l], file'[l], handle'[l])
  BY <1>7, <1>9 DEF Good, BeingWritten
<1>11. QED
  BY <1>1, <1>4, <1>6, <1>9, <1>10, Own DEF Local, StaysGood

LEMMA RenameGood ==
  ASSUME Inv, NEW l \in Leases, Rename(l) \/ RenameFails(l)
  PROVE  Local(l) /\ StaysGood(l)
<1>1. up' = up /\ faults' \in 0..MaxFaults /\ row' = row
  BY FaultsBounded DEF Rename, RenameFails
<1>2. /\ BeingWritten(row[l], file[l], handle[l]) /\ Covers(row[l], file[l])
      /\ row[l].reserved \in Nat /\ handle[l].size \in Nat /\ handle[l].size \in Sizes
  BY Written DEF Rename, RenameFails, Is
<1>3. CASE Rename(l)
  <2>1. /\ file'[l] = [name |-> "complete", bytes |-> handle[l].size]
        /\ file' = [file EXCEPT ![l] = file'[l]]
    BY <1>3, Changes DEF Rename
  <2>2. Goes(l, "renamed")
    BY <1>3 DEF Rename
  <2>3. /\ handle'[l].at = "renamed" /\ handle'[l].size = handle[l].size
        /\ handle'[l] \in HandleStates /\ handle' = [handle EXCEPT ![l] = handle'[l]]
    BY <2>2, Moves DEF Places
  <2>4. file'[l] \in FileStates
    BY <1>2, <2>1 DEF FileStates
  <2>5. /\ file'[l].bytes = handle[l].size
        /\ file'[l] = [name |-> "complete", bytes |-> handle'[l].size]
    BY <2>1, <2>3
  <2>6. BeingWritten(row'[l], file'[l], handle'[l])
    BY <1>1, <1>2, <2>3, <2>5 DEF BeingWritten, Covers
  <2>7. Good(row'[l], file'[l], handle'[l])
    BY <2>3, <2>5, <2>6 DEF Good
  <2>8. QED
    BY <1>1, <2>1, <2>3, <2>4, <2>7, Own DEF Local, StaysGood
<1>4. CASE RenameFails(l)
  <2>1. Goes(l, "undoSeal")
    BY <1>4 DEF RenameFails
  <2>2. /\ handle'[l].at = "undoSeal"
        /\ handle'[l] \in HandleStates /\ handle' = [handle EXCEPT ![l] = handle'[l]]
    BY <2>1, Moves DEF Places
  <2>3. /\ file'[l] \in FileStates /\ file' = [file EXCEPT ![l] = file'[l]]
        /\ Covers(row'[l], file'[l])
    <3>1. CASE file' = file
      BY <1>1, <1>2, <3>1, Own
    <3>2. CASE \E name \in {"partial", "complete"} :
                   SetFile(l, [name |-> name, bytes |-> handle[l].size])
      <4>1. PICK name \in {"partial", "complete"} :
                     SetFile(l, [name |-> name, bytes |-> handle[l].size])
        BY <3>2
      <4>2. /\ file'[l] = [name |-> name, bytes |-> handle[l].size]
            /\ file' = [file EXCEPT ![l] = file'[l]]
        BY <4>1, Changes
      <4>3. QED
        BY <1>1, <1>2, <4>2 DEF FileStates, Covers, BeingWritten
    <3>3. QED
      BY <1>4, <3>1, <3>2 DEF RenameFails
  <2>4. QED
    BY <1>1, <2>2, <2>3, Own, LooseGood DEF Local, StaysGood
<1>5. QED
  BY <1>3, <1>4

LEMMA CommitSealGood ==
  ASSUME Inv, NEW l \in Leases, CommitSeal(l) \/ CommitSealFails(l)
  PROVE  Local(l) /\ StaysGood(l)
<1> DEFINE sealed == [phase |-> "sealed", reserved |-> handle[l].size, actual |-> handle[l].size]
<1>1. up' = up /\ faults' \in 0..MaxFaults /\ file' = file
  BY FaultsBounded DEF CommitSeal, CommitSealFails
<1>2. handle[l].at = "renamed"
  BY DEF CommitSeal, CommitSealFails, Is
<1>3. /\ BeingWritten(row[l], file[l], handle[l]) /\ Covers(row[l], file[l])
      /\ handle[l].size \in Sizes /\ handle[l].size \in Nat
      /\ row[l].reserved \in 0..Rounded(MaxSize) /\ Rounded(MaxSize) \in Nat
  BY <1>2, Written
<1>4. file[l] = [name |-> "complete", bytes |-> handle[l].size]
  BY <1>2, Own DEF Good
<1>5. row'[l] \in {row[l], sealed} /\ row' = [row EXCEPT ![l] = row'[l]]
  BY Own, Changes DEF CommitSeal, CommitSealFails, Sealed
<1>6. sealed \in RowStates
  <2>1. handle[l].size \in 0..Rounded(MaxSize)
    BY <1>3 DEF BeingWritten
  <2>2. QED
    BY <1>3, <2>1 DEF RowStates
<1>7. Covers(row'[l], file'[l])
  <2>1. Covers(sealed, file[l])
    <3>1. file[l].bytes = handle[l].size
      BY <1>4
    <3>2. QED
      BY <1>3, <3>1 DEF Covers
  <2>2. QED
    BY <1>1, <1>3, <1>5, <2>1
<1>8. CASE CommitSeal(l)
  <2>1. row'[l] = sealed
    BY <1>8, Changes DEF CommitSeal, Sealed
  <2>2. Goes(l, "sealed")
    BY <1>8 DEF CommitSeal
  <2>3. /\ handle'[l].at = "sealed" /\ handle'[l].size = handle[l].size
        /\ handle'[l] \in HandleStates /\ handle' = [handle EXCEPT ![l] = handle'[l]]
    BY <2>2, Moves DEF Places
  <2>4. Good(row'[l], file'[l], handle'[l])
    BY <1>1, <1>4, <2>1, <2>3 DEF Good, IsSealed
  <2>5. QED
    BY <1>1, <1>5, <1>6, <2>1, <2>3, <2>4, Own DEF Local, StaysGood
<1>9. CASE CommitSealFails(l)
  <2>1. Goes(l, "undoSeal")
    BY <1>9 DEF CommitSealFails
  <2>2. /\ handle'[l].at = "undoSeal"
        /\ handle'[l] \in HandleStates /\ handle' = [handle EXCEPT ![l] = handle'[l]]
    BY <2>1, Moves DEF Places
  <2>3. QED
    BY <1>1, <1>5, <1>6, <1>7, <2>2, Own, LooseGood DEF Local, StaysGood
<1>10. QED
  BY <1>8, <1>9

-----------------------------------------------------------------------------
(* Every way to undo removes the file before the row.                      *)
Undoes(l) ==
    /\ Works \/ Fails
    /\ file' = file \/ SetFile(l, NoFile)
    /\ row' = row \/ (SetRow(l, NoRow) /\ file'[l] = NoFile)
    /\ \/ Goes(l, "undoSeal") \/ Goes(l, "failing") \/ Goes(l, "releaseAgain")
       \/ (Goes(l, "undoRow") \/ Goes(l, "releasing")) /\ file'[l] = NoFile
       \/ (Ends(l, "aborted") \/ Ends(l, "released")) /\ row'[l] = NoRow /\ file'[l] = NoFile

LEMMA UndoneGood ==
  ASSUME Inv, NEW l \in Leases, Undoes(l)
  PROVE  Local(l) /\ StaysGood(l)
<1> USE DEF Undoes
<1>1. up' = up /\ faults' \in 0..MaxFaults
  BY FaultsBounded
<1>2. /\ row'[l] \in {row[l], NoRow} /\ row' = [row EXCEPT ![l] = row'[l]]
      /\ row'[l] = row[l] \/ file'[l] = NoFile
  BY Own, Changes
<1>3. file'[l] \in {file[l], NoFile} /\ file' = [file EXCEPT ![l] = file'[l]]
  BY Own, Changes
<1>4. row'[l] \in RowStates /\ file'[l] \in FileStates
  BY <1>2, <1>3, Own, Constants
<1>5. Covers(row'[l], file'[l])
  <2>1. CASE file'[l] = NoFile
    <3>1. row'[l].reserved \in Nat
      BY <1>4 DEF RowStates
    <3>2. QED
      BY <2>1, <3>1 DEF Covers, NoFile
  <2>2. CASE file'[l] = file[l] /\ row'[l] = row[l]
    BY <2>2, Own, GoodCovers
  <2>3. QED
    BY <1>2, <1>3, <2>1, <2>2
<1>6. CASE Goes(l, "undoSeal") \/ Goes(l, "failing") \/ Goes(l, "releaseAgain")
  <2>1. PICK p \in {"undoSeal", "failing", "releaseAgain"} : Goes(l, p)
    BY <1>6
  <2>2. p \in Places
    BY DEF Places
  <2>3. /\ handle'[l].at = p /\ handle'[l] \in HandleStates
        /\ handle' = [handle EXCEPT ![l] = handle'[l]]
    BY <2>1, <2>2, Moves
  <2>4. QED
    BY <1>1, <1>2, <1>3, <1>4, <1>5, <2>3, LooseGood DEF Local, StaysGood
<1>7. CASE (Goes(l, "undoRow") \/ Goes(l, "releasing")) /\ file'[l] = NoFile
  <2>1. PICK p \in {"undoRow", "releasing"} : Goes(l, p) /\ file'[l] = NoFile
    BY <1>7
  <2>2. p \in Places
    BY DEF Places
  <2>3. /\ handle'[l].at = p /\ handle'[l] \in HandleStates
        /\ handle' = [handle EXCEPT ![l] = handle'[l]]
    BY <2>1, <2>2, Moves
  <2>4. Good(row'[l], file'[l], handle'[l])
    BY <2>1, <2>3 DEF Good
  <2>5. QED
    BY <1>1, <1>2, <1>3, <1>4, <2>3, <2>4 DEF Local, StaysGood
<1>8. CASE (Ends(l, "aborted") \/ Ends(l, "released")) /\ row'[l] = NoRow /\ file'[l] = NoFile
  <2>1. PICK p \in {"aborted", "released"} :
                 Ends(l, p) /\ row'[l] = NoRow /\ file'[l] = NoFile
    BY <1>8
  <2>2. p \in Places
    BY DEF Places
  <2>3. /\ handle'[l].at = p /\ handle'[l] \in HandleStates
        /\ handle' = [handle EXCEPT ![l] = handle'[l]]
    BY <2>1, <2>2, Finishes
  <2>4. QED
    BY <1>1, <1>2, <1>3, <1>4, <2>1, <2>3, EndedGood DEF Local, StaysGood
<1>9. QED
  BY <1>6, <1>7, <1>8

LEMMA UndoSealUndoes ==
  ASSUME Inv, NEW l \in Leases, UndoSeal(l) \/ UndoSealFails(l)
  PROVE  Undoes(l)
<1>1. CASE UndoSeal(l)
  <2>1. file'[l] = NoFile
    BY <1>1, Changes DEF UndoSeal
  <2>2. QED
    BY <1>1, <2>1 DEF Undoes, UndoSeal
<1>2. CASE UndoSealFails(l)
  <2>1. /\ Fails /\ row' = row /\ Goes(l, "failing")
        /\ file' = file \/ SetFile(l, NoFile)
    BY <1>2 DEF UndoSealFails
  <2>2. QED
    BY <2>1 DEF Undoes
<1>3. QED
  BY <1>1, <1>2

LEMMA UndoRowUndoes ==
  ASSUME Inv, NEW l \in Leases, UndoRow(l) \/ UndoRowFails(l)
  PROVE  Undoes(l)
<1>1. file'[l] = NoFile
  BY Own DEF UndoRow, UndoRowFails, Is, Good
<1>2. CASE UndoRow(l)
  <2>1. row'[l] = NoRow
    BY <1>2, Changes DEF UndoRow
  <2>2. QED
    BY <1>1, <1>2, <2>1 DEF Undoes, UndoRow
<1>3. CASE UndoRowFails(l)
  BY <1>1, <1>3 DEF Undoes, UndoRowFails
<1>4. QED
  BY <1>2, <1>3

LEMMA AbortUndoes ==
  ASSUME Inv, NEW l \in Leases, Abort(l) \/ AbortFails(l)
  PROVE  Undoes(l)
<1>1. CASE Abort(l) /\ row[l].phase = "sealed" /\ Goes(l, "undoSeal") /\ UNCHANGED <<row, file>>
  <2>1. row' = row /\ file' = file /\ Works
    BY <1>1 DEF Abort
  <2>2. Goes(l, "undoSeal")
    BY <1>1
  <2>3. QED
    BY <2>1, <2>2 DEF Undoes
<1>2. CASE Abort(l) /\ CleanupComplete(l) /\ Ends(l, "aborted") /\ UNCHANGED <<row, file>>
  BY <1>2 DEF Undoes, Abort, CleanupComplete
<1>3. CASE Abort(l) /\ SetRow(l, NoRow) /\ SetFile(l, NoFile) /\ Ends(l, "aborted")
  <2>1. row'[l] = NoRow /\ file'[l] = NoFile
    BY <1>3, Changes
  <2>2. QED
    BY <1>3, <2>1 DEF Undoes, Abort
<1>4. CASE AbortFails(l)
  <2>1. /\ Fails /\ Goes(l, "failing")
        /\ \/ row' = row /\ file' = file
           \/ SetFile(l, NoFile) /\ (row' = row \/ SetRow(l, NoRow))
    BY <1>4 DEF AbortFails
  <2>2. SetFile(l, NoFile) => file'[l] = NoFile
    BY Changes
  <2>3. file' = file \/ SetFile(l, NoFile)
    BY <2>1
  <2>4. row' = row \/ (SetRow(l, NoRow) /\ file'[l] = NoFile)
    BY <2>1, <2>2
  <2>5. QED
    BY <2>1, <2>3, <2>4 DEF Undoes
<1>5. QED
  BY <1>1, <1>2, <1>3, <1>4 DEF Abort

LEMMA ReleaseUndoes ==
  ASSUME Inv, NEW l \in Leases,
         \/ ReleaseUnlink(l) \/ ReleaseUnlinkFails(l)
         \/ ReleaseRow(l) \/ ReleaseRowFails(l)
  PROVE  Undoes(l)
<1>1. CASE ReleaseUnlink(l)
  <2>1. file'[l] = NoFile
    BY <1>1, Changes DEF ReleaseUnlink
  <2>2. QED
    BY <1>1, <2>1 DEF Undoes, ReleaseUnlink
<1>2. CASE ReleaseUnlinkFails(l)
  <2>1. /\ Fails /\ row' = row /\ Goes(l, "releaseAgain")
        /\ file' = file \/ SetFile(l, NoFile)
    BY <1>2 DEF ReleaseUnlinkFails
  <2>2. QED
    BY <2>1 DEF Undoes
<1>3. CASE ReleaseRow(l) \/ ReleaseRowFails(l)
  <2>1. file'[l] = NoFile
    BY <1>3, Own DEF ReleaseRow, ReleaseRowFails, Is, Good
  <2>2. CASE ReleaseRow(l)
    <3>1. row'[l] = NoRow
      BY <2>2, Changes DEF ReleaseRow
    <3>2. QED
      BY <2>1, <2>2, <3>1 DEF Undoes, ReleaseRow
  <2>3. CASE ReleaseRowFails(l)
    BY <2>1, <2>3 DEF Undoes, ReleaseRowFails
  <2>4. QED
    BY <1>3, <2>2, <2>3
<1>4. QED
  BY <1>1, <1>2, <1>3

-----------------------------------------------------------------------------
LEMMA CrashInv ==
  ASSUME Inv, Crash
  PROVE  Inv'
<1>1. row' = row /\ file' = file /\ faults' = faults /\ up' = FALSE
  BY DEF Crash
<1>2. ASSUME NEW l \in Leases
      PROVE  /\ handle'[l] \in HandleStates /\ handle'[l].at \in {"unused", "gone"}
             /\ Good(row[l], file[l], handle'[l])
  <2>1. 0 \in Sizes /\ "unused" \in Places /\ "gone" \in Places
    BY AdmissionAssumption DEF Sizes, Places
  <2>2. CASE handle[l].at = "unused"
    <3>1. handle'[l] = NoHandle
      BY <2>2 DEF Crash
    <3>2. row[l] = NoRow /\ file[l] = NoFile
      BY <2>2, Own DEF Good
    <3>3. QED
      BY <2>1, <3>1, <3>2 DEF Good, NoHandle, HandleStates
  <2>3. CASE handle[l].at # "unused"
    <3>1. handle'[l] = [at |-> "gone", size |-> 0, next |-> 0]
      BY <2>3 DEF Crash, NoHandle
    <3>2. Covers(row[l], file[l])
      BY Own, GoodCovers
    <3>3. Good(row[l], file[l], handle'[l])
      BY <3>1, <3>2, LooseGood
    <3>4. QED
      BY <2>1, <3>1, <3>3 DEF HandleStates
  <2>4. QED
    BY <2>2, <2>3
<1>3. handle' = [l \in Leases |-> handle'[l]]
  BY DEF Crash
<1>4. TypeOK'
  BY <1>1, <1>2, <1>3 DEF Inv, TypeOK
<1>5. QED
  BY <1>1, <1>2, <1>4 DEF Inv

(* At the start only leases nobody holds are left.                         *)
LEMMA ReconcileInv ==
  ASSUME Inv, (\E l \in Leases : UnlinkLeft(l)) \/ Restart
  PROVE  Inv'
<1>1. \A l \in Leases : handle[l].at \in {"unused", "gone"}
  BY DEF Inv, UnlinkLeft, Restart
<1>2. CASE \E l \in Leases : UnlinkLeft(l)
  <2>1. PICK l \in Leases : UnlinkLeft(l)
    BY <1>2
  <2>2. /\ row' = row /\ handle' = handle /\ up' = up /\ faults' = faults
        /\ file' = [file EXCEPT ![l] = file'[l]] /\ file'[l] = NoFile
    BY <2>1, Changes DEF UnlinkLeft
  <2>3. TypeOK'
    BY <2>2, Constants DEF Inv, TypeOK
  <2>4. ASSUME NEW k \in Leases
        PROVE  Good(row'[k], file'[k], handle'[k])
    <3>1. CASE k = l
      <4>1. row[k].reserved \in Nat
        BY Own DEF RowStates
      <4>2. Covers(row[k], NoFile)
        BY <4>1 DEF Covers, NoFile
      <4>3. CASE handle[k].at = "unused"
        BY <2>2, <3>1, <4>3, Own DEF Good
      <4>4. CASE handle[k].at = "gone"
        BY <2>2, <3>1, <4>2, <4>4, LooseGood
      <4>5. QED
        BY <1>1, <4>3, <4>4
    <3>2. CASE k # l
      <4>1. file'[k] = file[k]
        BY <2>2, <3>2 DEF Inv, TypeOK
      <4>2. QED
        BY <2>2, <4>1, Own
    <3>3. QED
      BY <3>1, <3>2
  <2>5. QED
    BY <1>1, <2>2, <2>3, <2>4 DEF Inv
<1>3. CASE Restart
  <2>1. /\ row' = [l \in Leases |-> NoRow] /\ up' = TRUE
        /\ file' = file /\ handle' = handle /\ faults' = faults
        /\ \A l \in Leases : file[l] = NoFile
    BY <1>3 DEF Restart
  <2>2. TypeOK'
    BY <2>1, Constants DEF Inv, TypeOK
  <2>3. ASSUME NEW k \in Leases
        PROVE  Good(row'[k], file'[k], handle'[k])
    <3>1. row'[k] = NoRow /\ file'[k] = NoFile /\ handle'[k] = handle[k]
      BY <2>1
    <3>2. CASE handle[k].at = "unused"
      BY <3>1, <3>2, Own DEF Good
    <3>3. CASE handle[k].at = "gone"
      BY <3>1, <3>3, Constants, LooseGood
    <3>4. QED
      BY <1>1, <3>2, <3>3
  <2>4. QED
    BY <2>1, <2>2, <2>3 DEF Inv
<1>4. QED
  BY <1>2, <1>3

LEMMA StepInv == Inv /\ [Next]_vars => Inv'
<1> SUFFICES ASSUME Inv, [Next]_vars PROVE Inv'
  OBVIOUS
<1>1. ASSUME NEW l \in Leases,
             \/ Begin(l) \/ BeginFails(l) \/ Open(l) \/ OpenFails(l)
             \/ \E n \in Sizes : Append(l, n) \/ AppendFails(l, n) \/ Write(l, n) \/ WriteFails(l, n)
             \/ Checkpoint(l) \/ CheckpointFails(l)
             \/ Rename(l) \/ RenameFails(l) \/ CommitSeal(l) \/ CommitSealFails(l)
             \/ UndoSeal(l) \/ UndoSealFails(l) \/ UndoRow(l) \/ UndoRowFails(l)
             \/ Abort(l) \/ AbortFails(l)
             \/ ReleaseUnlink(l) \/ ReleaseUnlinkFails(l) \/ ReleaseRow(l) \/ ReleaseRowFails(l)
      PROVE  Inv'
  <2>1. Local(l) /\ StaysGood(l)
    BY <1>1, BeginGood, OpenGood, AppendGood, WriteGood, CheckpointGood, RenameGood,
       CommitSealGood, UndoSealUndoes, UndoRowUndoes, AbortUndoes, ReleaseUndoes, UndoneGood
  <2>2. up
    BY <1>1 DEF Begin, BeginFails, Open, OpenFails, Append, AppendFails, Write, WriteFails,
       Checkpoint, CheckpointFails, Rename, RenameFails, CommitSeal, CommitSealFails,
       UndoSeal, UndoSealFails, UndoRow, UndoRowFails, Abort, AbortFails, Aborting,
       ReleaseUnlink, ReleaseUnlinkFails, ReleaseRow, ReleaseRowFails, Releasing, Is
  <2>3. QED
    BY <2>1, <2>2, LocalStep
<1>2. CASE (\E l \in Leases : UnlinkLeft(l)) \/ Restart
  BY <1>2, ReconcileInv
<1>3. CASE Crash
  BY <1>3, CrashInv
<1>4. CASE UNCHANGED vars
  BY <1>4 DEF Inv, TypeOK, vars
<1>5. QED
  BY <1>1, <1>2, <1>3, <1>4 DEF Next

LEMMA SpecInv == Spec => []Inv
  BY InitInv, StepInv, PTL DEF Spec

-----------------------------------------------------------------------------
(* Only a begin adds an upload that is being received.                     *)
LEMMA NoneAdded ==
  ASSUME Inv, [Next]_vars, ~ \E l \in Leases : Begin(l) \/ BeginFails(l), NEW k \in Leases,
         row'[k].phase = "writing"
  PROVE  row[k].phase = "writing"
<1>1. CASE row' = row
  BY <1>1
<1>2. CASE \E l \in Leases : SetRow(l, NoRow)
  BY <1>2 DEF Inv, TypeOK, SetRow, NoRow
<1>3. CASE \E l \in Leases, n \in Sizes : SetRow(l, Grown(row[l], Rounded(n)))
  <2>1. PICK l \in Leases, n \in Sizes : SetRow(l, Grown(row[l], Rounded(n)))
    BY <1>3
  <2>2. row'[l].phase = row[l].phase /\ (k # l => row'[k] = row[k])
    BY <2>1 DEF Inv, TypeOK, SetRow, Grown, RowStates
  <2>3. QED
    BY <2>2
<1>4. CASE \E l \in Leases : SetRow(l, [row[l] EXCEPT !.actual = CheckpointAt(handle[l].size)])
  <2>1. PICK l \in Leases : SetRow(l, [row[l] EXCEPT !.actual = CheckpointAt(handle[l].size)])
    BY <1>4
  <2>2. row'[l].phase = row[l].phase /\ (k # l => row'[k] = row[k])
    BY <2>1 DEF Inv, TypeOK, SetRow, RowStates
  <2>3. QED
    BY <2>2
<1>5. CASE \E l \in Leases : SetRow(l, Sealed(row[l], handle[l].size))
  BY <1>5 DEF Inv, TypeOK, SetRow, Sealed
<1>6. CASE Restart
  BY <1>6 DEF Restart, NoRow
<1>7. ASSUME NEW l \in Leases,
             \/ Open(l) \/ OpenFails(l) \/ Checkpoint(l) \/ CheckpointFails(l)
             \/ \E n \in Sizes : Append(l, n) \/ AppendFails(l, n) \/ Write(l, n) \/ WriteFails(l, n)
      PROVE  \/ row' = row \/ SetRow(l, NoRow)
             \/ \E n \in Sizes : SetRow(l, Grown(row[l], Rounded(n)))
             \/ SetRow(l, [row[l] EXCEPT !.actual = CheckpointAt(handle[l].size)])
  BY <1>7 DEF Open, OpenFails, Checkpoint, CheckpointFails, Append, AppendFails, Write, WriteFails
<1>8. ASSUME NEW l \in Leases,
             \/ Rename(l) \/ RenameFails(l) \/ CommitSeal(l) \/ CommitSealFails(l)
             \/ UndoSeal(l) \/ UndoSealFails(l) \/ UndoRow(l) \/ UndoRowFails(l)
      PROVE  row' = row \/ SetRow(l, NoRow) \/ SetRow(l, Sealed(row[l], handle[l].size))
  BY <1>8 DEF Rename, RenameFails, CommitSeal, CommitSealFails, UndoSeal, UndoSealFails,
     UndoRow, UndoRowFails
<1>9. ASSUME NEW l \in Leases,
             \/ Abort(l) \/ AbortFails(l) \/ UnlinkLeft(l)
             \/ ReleaseUnlink(l) \/ ReleaseUnlinkFails(l) \/ ReleaseRow(l) \/ ReleaseRowFails(l)
      PROVE  row' = row \/ SetRow(l, NoRow)
  BY <1>9 DEF Abort, AbortFails, ReleaseUnlink, ReleaseUnlinkFails, ReleaseRow, ReleaseRowFails,
     UnlinkLeft
<1>10. CASE Crash \/ UNCHANGED vars
  BY <1>1, <1>10 DEF Crash, vars
<1>11. QED
  BY <1>1, <1>2, <1>3, <1>4, <1>5, <1>6, <1>7, <1>8, <1>9, <1>10 DEF Next

LEMMA ActiveFinite == IsFiniteSet(ActiveUploads) /\ Cardinality(ActiveUploads) \in Nat
<1>1. ActiveUploads \subseteq Leases
  BY DEF ActiveUploads, Leases
<1>2. QED
  BY <1>1, FS_Subset, FS_CardinalityType, AdmissionAssumption

LEMMA StepBounded == Inv /\ UploadsBounded /\ [Next]_vars => UploadsBounded'
<1> SUFFICES ASSUME Inv, UploadsBounded, [Next]_vars PROVE UploadsBounded'
  OBVIOUS
<1>1. Cardinality(ActiveUploads) <= MaxActiveUploads /\ MaxActiveUploads \in Nat
  BY AdmissionAssumption DEF UploadsBounded
<1>2. CASE ActiveUploads' \subseteq ActiveUploads
  <2>1. Cardinality(ActiveUploads') <= Cardinality(ActiveUploads)
        /\ Cardinality(ActiveUploads') \in Nat
    BY <1>2, ActiveFinite, FS_Subset, FS_CardinalityType
  <2>2. QED
    BY <1>1, <2>1, ActiveFinite DEF UploadsBounded
<1>3. CASE \E l \in Leases : Begin(l) \/ BeginFails(l)
  <2>1. PICK l \in Leases : Begin(l) \/ BeginFails(l)
    BY <1>3
  <2>2. \A k \in Leases : k # l => row'[k] = row[k]
    BY <2>1 DEF Begin, BeginFails, SetRow, Inv, TypeOK
  <2>3. CASE l \in Uploads
    <3>1. Cardinality(ActiveUploads) < MaxActiveUploads
      BY <2>1, <2>3 DEF Begin, BeginFails, UploadSlot
    <3>2. ActiveUploads' \subseteq ActiveUploads \cup {l}
      BY <2>2 DEF ActiveUploads, Leases
    <3>3. /\ IsFiniteSet(ActiveUploads \cup {l})
          /\ Cardinality(ActiveUploads \cup {l}) <= Cardinality(ActiveUploads) + 1
          /\ Cardinality(ActiveUploads \cup {l}) \in Nat
      <4>1. /\ IsFiniteSet(ActiveUploads \cup {l})
            /\ Cardinality(ActiveUploads \cup {l}) =
                 IF l \in ActiveUploads THEN Cardinality(ActiveUploads)
                 ELSE Cardinality(ActiveUploads) + 1
        BY ActiveFinite, FS_AddElement
      <4>2. QED
        BY <4>1, ActiveFinite, SMT
    <3>4. Cardinality(ActiveUploads') <= Cardinality(ActiveUploads \cup {l})
          /\ Cardinality(ActiveUploads') \in Nat
      BY <3>2, <3>3, FS_Subset, FS_CardinalityType
    <3>5. QED
      BY <1>1, <3>1, <3>3, <3>4, ActiveFinite DEF UploadsBounded
  <2>4. CASE l \notin Uploads
    BY <1>2, <2>2, <2>4 DEF ActiveUploads, Leases
  <2>5. QED
    BY <2>3, <2>4
<1>4. CASE ~ \E l \in Leases : Begin(l) \/ BeginFails(l)
  <2>1. \A k \in Uploads : row'[k].phase = "writing" => row[k].phase = "writing"
    BY <1>4, NoneAdded DEF Leases
  <2>2. QED
    BY <1>2, <2>1 DEF ActiveUploads
<1>5. QED
  BY <1>3, <1>4

LEMMA InitBounded == Init => UploadsBounded
<1> SUFFICES ASSUME Init PROVE UploadsBounded
  OBVIOUS
<1>1. ActiveUploads = {}
  BY DEF Init, NoRow, ActiveUploads, Leases
<1>2. QED
  BY <1>1, FS_EmptySet, AdmissionAssumption DEF UploadsBounded

-----------------------------------------------------------------------------
(***************************************************************************)
(* Sums over leases.  The fold of the community modules takes the elements *)
(* of a set in the order in which CHOOSE picks them; what it computes is   *)
(* proved by induction in that order.                                      *)
(***************************************************************************)

Pick(s) == CHOOSE x \in s : TRUE

(* F maps every subset of S to the sum of f over it.                       *)
Sums(F, f, S) ==
    F = [s \in SUBSET S |-> IF s = {} THEN 0 ELSE f[Pick(s)] + F[s \ {Pick(s)}]]

(* What holds of the empty set, and of a set when it holds of that set     *)
(* without the element picked, holds of every subset of a finite set.      *)
LEMMA PickInduction ==
  ASSUME NEW S, IsFiniteSet(S), NEW T, {} \in T,
         \A s \in SUBSET S : s # {} /\ s \ {Pick(s)} \in T => s \in T
  PROVE  SUBSET S \subseteq T
<1> DEFINE R == StrictSubsetOrdering(S)
           U == {s \in SUBSET S : s \notin T}
<1>1. IsWellFoundedOn(R, SUBSET S)
  BY FS_StrictSubsetOrderingWellFounded, FS_FiniteSubsetsOfFinite
<1>2. SUFFICES ASSUME U # {} PROVE FALSE
  OBVIOUS
<1>3. PICK s \in U : \A t \in U : <<t, s>> \notin R
  <2>1. U \subseteq SUBSET S
    OBVIOUS
  <2> HIDE DEF U, R
  <2>2. QED
    BY <1>1, <1>2, <2>1, WFMin
<1>4. s # {} /\ Pick(s) \in s
  <2>1. s \in SUBSET S /\ s \notin T
    BY <1>3
  <2>2. s # {}
    BY <2>1
  <2>3. PICK x : x \in s
    BY <2>2
  <2>4. QED
    BY <2>2, <2>3 DEF Pick
<1>5. s \ {Pick(s)} \in SUBSET S /\ <<s \ {Pick(s)}, s>> \in R
  BY <1>3, <1>4 DEF StrictSubsetOrdering
<1>6. QED
  BY <1>3, <1>4, <1>5

(* The values of an integer function have a sum.                           *)
LEMMA SumsExist ==
  ASSUME NEW S, IsFiniteSet(S), NEW f \in [S -> Int]
  PROVE  \E F : Sums(F, f, S)
<1> DEFINE At(F, s) == IF s = {} THEN 0 ELSE f[Pick(s)] + F[s \ {Pick(s)}]
           Upto(F, t) == \A s \in SUBSET S : Cardinality(s) <= Cardinality(t) => F[s] = At(F, s)
           T == {t \in SUBSET S : \E F \in [SUBSET S -> Int] : Upto(F, t)}
<1>1. \A s \in SUBSET S : IsFiniteSet(s) /\ Cardinality(s) \in Nat
                          /\ (s # {} => Pick(s) \in s)
                          /\ (s = {} <=> Cardinality(s) = 0)
                          /\ Cardinality(s) <= Cardinality(S)
  BY FS_Subset, FS_CardinalityType, FS_EmptySet DEF Pick
<1>2. \A s \in SUBSET S : s # {} => /\ s \ {Pick(s)} \in SUBSET S
                                    /\ Cardinality(s \ {Pick(s)}) = Cardinality(s) - 1
  BY <1>1, FS_RemoveElement
<1>3. \A F \in [SUBSET S -> Int], s \in SUBSET S : At(F, s) \in Int
  BY <1>1, <1>2
<1>4. {} \in T
  <2> DEFINE F == [s \in SUBSET S |-> 0]
  <2>1. F \in [SUBSET S -> Int] /\ Upto(F, {})
    BY <1>1
  <2>2. QED
    BY <2>1
<1>5. ASSUME NEW t \in SUBSET S, t # {}, t \ {Pick(t)} \in T
      PROVE  t \in T
  <2> DEFINE r == t \ {Pick(t)}
  <2>1. PICK F \in [SUBSET S -> Int] : Upto(F, r)
    BY <1>5
  <2>2. Cardinality(r) = Cardinality(t) - 1 /\ Cardinality(t) \in Nat /\ Cardinality(r) \in Nat
    BY <1>1, <1>2, <1>5
  <2> DEFINE G == [s \in SUBSET S |-> IF Cardinality(s) <= Cardinality(r) THEN F[s] ELSE At(F, s)]
  <2>3. G \in [SUBSET S -> Int]
    BY <1>3
  <2>4. ASSUME NEW s \in SUBSET S, Cardinality(s) <= Cardinality(t)
        PROVE  G[s] = At(G, s)
    <3>1. G[s] = At(F, s)
      BY <2>1
    <3>2. CASE s = {}
      BY <3>1, <3>2
    <3>3. CASE s # {}
      <4>1. /\ s \ {Pick(s)} \in SUBSET S
            /\ Cardinality(s \ {Pick(s)}) <= Cardinality(r)
        BY <1>1, <1>2, <2>2, <2>4, <3>3
      <4>2. G[s \ {Pick(s)}] = F[s \ {Pick(s)}]
        BY <4>1
      <4>3. QED
        BY <3>1, <3>3, <4>2
    <3>4. QED
      BY <3>2, <3>3
  <2>5. QED
    BY <2>3, <2>4
<1>6. S \in T
  <2> HIDE DEF T
  <2>1. SUBSET S \subseteq T
    BY <1>4, <1>5, PickInduction
  <2>2. QED
    BY <2>1
<1>7. PICK F \in [SUBSET S -> Int] : Upto(F, S)
  BY <1>6
<1>8. \A s \in SUBSET S : F[s] = At(F, s)
  BY <1>1, <1>7
<1>9. F = [s \in SUBSET S |-> At(F, s)]
  BY <1>8
<1>10. QED
  BY <1>9 DEF Sums

(* It is an integer.                                                       *)
LEMMA SumsAreIntegers ==
  ASSUME NEW S, IsFiniteSet(S), NEW f \in [S -> Int], NEW F, Sums(F, f, S)
  PROVE  F \in [SUBSET S -> Int]
<1> DEFINE T == {s \in SUBSET S : F[s] \in Int}
<1>1. F = [s \in SUBSET S |-> F[s]]
  BY DEF Sums
<1>2. {} \in T
  BY DEF Sums
<1>3. ASSUME NEW s \in SUBSET S, s # {}, s \ {Pick(s)} \in T
      PROVE  s \in T
  <2>1. Pick(s) \in S
    BY <1>3 DEF Pick
  <2>2. F[s] = f[Pick(s)] + F[s \ {Pick(s)}]
    BY <1>3 DEF Sums
  <2>3. QED
    BY <1>3, <2>1, <2>2
<1>4. SUBSET S \subseteq T
  <2> HIDE DEF T
  <2>1. QED
    BY <1>2, <1>3, PickInduction
<1>5. QED
  BY <1>1, <1>4

(* f is nowhere larger than g and h together, but for d at one element.    *)
Within(f, g, h, k, d, S) ==
    \A x \in S : f[x] <= (g[x] + h[x]) + (IF x = k THEN d ELSE 0)

(* Then its sum is not larger than theirs and d.                           *)
LEMMA SumsBound ==
  ASSUME NEW S, IsFiniteSet(S), NEW f \in [S -> Int], NEW g \in [S -> Int], NEW h \in [S -> Int],
         NEW F, NEW G, NEW H, Sums(F, f, S), Sums(G, g, S), Sums(H, h, S),
         NEW k, NEW d \in Nat, Within(f, g, h, k, d, S)
  PROVE  F[S] <= (G[S] + H[S]) + d
<1>0. F \in [SUBSET S -> Int] /\ G \in [SUBSET S -> Int] /\ H \in [SUBSET S -> Int]
  BY SumsAreIntegers
<1> DEFINE Extra(s) == IF k \in s THEN d ELSE 0
           T == {s \in SUBSET S : F[s] <= (G[s] + H[s]) + Extra(s)}
<1>1. F[{}] = 0 /\ G[{}] = 0 /\ H[{}] = 0
  BY DEF Sums
<1>2. {} \in T
  BY <1>1
<1>3. ASSUME NEW s \in SUBSET S, s # {}, s \ {Pick(s)} \in T
      PROVE  s \in T
  <2> DEFINE p == Pick(s)
             r == s \ {p}
  <2>1. p \in s /\ p \in S /\ r \in SUBSET S
    BY <1>3 DEF Pick
  <2>2. F[s] = f[p] + F[r] /\ G[s] = g[p] + G[r] /\ H[s] = h[p] + H[r]
    BY <1>3 DEF Sums
  <2>3. /\ F[r] <= (G[r] + H[r]) + Extra(r)
        /\ f[p] <= (g[p] + h[p]) + (IF p = k THEN d ELSE 0)
    BY <1>3, <2>1 DEF Within
  <2>4. /\ {F[r], G[r], H[r], f[p], g[p], h[p]} \subseteq Int
        /\ Extra(r) \in Nat
    BY <1>0, <2>1
  <2>5. Extra(s) = (IF p = k THEN d ELSE 0) + Extra(r)
    BY <2>1
  <2> HIDE DEF p, r, Extra
  <2>6. (IF p = k THEN d ELSE 0) \in Nat
    OBVIOUS
  <2>7. F[s] <= (G[s] + H[s]) + Extra(s)
    BY <2>2, <2>3, <2>4, <2>5, <2>6
  <2>8. QED
    BY <2>7
<1>4. S \in T
  <2> HIDE DEF T
  <2>1. SUBSET S \subseteq T
    BY <1>2, <1>3, PickInduction
  <2>2. QED
    BY <2>1
<1>5. F[S] \in Int /\ G[S] \in Int /\ H[S] \in Int /\ Extra(S) \in {0, d}
  BY <1>0
<1>6. F[S] <= (G[S] + H[S]) + Extra(S)
  BY <1>4
<1> HIDE DEF Extra
<1>7. QED
  BY <1>5, <1>6

-----------------------------------------------------------------------------
(* The sum of f over all leases, as TotalReserved, Outstanding and         *)
(* FreeBytes compute it.                                                   *)
SumOver(f) == MapThenSumSet(LAMBDA l : f[l], Leases)

LEMMA SumOverSums ==
  ASSUME NEW f \in [Leases -> Int]
  PROVE  \E F : Sums(F, f, Leases) /\ SumOver(f) = F[Leases] /\ SumOver(f) \in Int
<1> DEFINE C == CHOOSE F : Sums(F, f, Leases)
<1>1. SumOver(f) = C[Leases]
  BY DEF SumOver, MapThenSumSet, MapThenFoldSet, Sums, Pick
<1>2. Sums(C, f, Leases)
  BY SumsExist, AdmissionAssumption
<1> HIDE DEF C
<1>3. C \in [SUBSET Leases -> Int]
  BY <1>2, SumsAreIntegers, AdmissionAssumption
<1>4. QED
  BY <1>1, <1>2, <1>3

LEMMA SumOverBound ==
  ASSUME NEW f \in [Leases -> Int], NEW g \in [Leases -> Int], NEW h \in [Leases -> Int],
         NEW k, NEW d \in Nat, Within(f, g, h, k, d, Leases)
  PROVE  SumOver(f) <= (SumOver(g) + SumOver(h)) + d
<1>1. PICK F : Sums(F, f, Leases) /\ SumOver(f) = F[Leases]
  BY SumOverSums
<1>2. PICK G : Sums(G, g, Leases) /\ SumOver(g) = G[Leases]
  BY SumOverSums
<1>3. PICK H : Sums(H, h, Leases) /\ SumOver(h) = H[Leases]
  BY SumOverSums
<1>4. IsFiniteSet(Leases)
  BY AdmissionAssumption
<1>5. F[Leases] <= (G[Leases] + H[Leases]) + d
  BY <1>1, <1>2, <1>3, <1>4, SumsBound
<1>6. QED
  BY <1>1, <1>2, <1>3, <1>5

(* A value for each lease of a set, zero for the others.                   *)
LEMMA SumOfAll ==
  ASSUME NEW A \in SUBSET Leases, NEW v \in Nat
  PROVE  SumOver([l \in Leases |-> IF l \in A THEN v ELSE 0]) = v * Cardinality(A)
<1> DEFINE f == [l \in Leases |-> IF l \in A THEN v ELSE 0]
           H == [s \in SUBSET Leases |-> v * Cardinality(s \cap A)]
<1>1. PICK F : Sums(F, f, Leases) /\ SumOver(f) = F[Leases]
  BY SumOverSums
<1> DEFINE T == {s \in SUBSET Leases : F[s] = v * Cardinality(s \cap A)}
<1>2. {} \in T
  BY <1>1, FS_EmptySet DEF Sums
<1>3. ASSUME NEW s \in SUBSET Leases, s # {}, s \ {Pick(s)} \in T
      PROVE  s \in T
  <2> DEFINE p == Pick(s)
             r == s \ {p}
  <2>1. p \in s /\ p \in Leases /\ r \in SUBSET Leases
    BY <1>3 DEF Pick
  <2>2. F[s] = f[p] + F[r]
    BY <1>1, <1>3 DEF Sums
  <2>3. F[r] = v * Cardinality(r \cap A)
    BY <1>3
  <2>4. IsFiniteSet(r \cap A) /\ Cardinality(r \cap A) \in Nat
    BY <2>1, FS_Subset, FS_CardinalityType, AdmissionAssumption
  <2>5. CASE p \in A
    <3>1. s \cap A = (r \cap A) \cup {p} /\ p \notin r \cap A
      BY <2>1, <2>5
    <3> HIDE DEF r, p
    <3>2. Cardinality(s \cap A) = Cardinality(r \cap A) + 1
      BY <2>4, <3>1, FS_AddElement
    <3>3. f[p] = v
      BY <2>1, <2>5
    <3>4. v * (Cardinality(r \cap A) + 1) = v * Cardinality(r \cap A) + v
      BY <2>4
    <3>5. v * Cardinality(r \cap A) \in Nat
      BY <2>4
    <3>6. QED
      BY <2>2, <2>3, <3>2, <3>3, <3>4, <3>5
  <2>6. CASE p \notin A
    <3>1. s \cap A = r \cap A
      BY <2>1, <2>6
    <3>2. f[p] = 0 /\ v * Cardinality(r \cap A) \in Nat
      BY <2>1, <2>4, <2>6
    <3> HIDE DEF r, p
    <3>3. QED
      BY <2>2, <2>3, <3>1, <3>2
  <2>7. QED
    BY <2>5, <2>6
<1>4. Leases \in T
  <2> HIDE DEF T
  <2>1. SUBSET Leases \subseteq T
    BY <1>2, <1>3, PickInduction, AdmissionAssumption
  <2>2. QED
    BY <2>1
<1>5. Leases \cap A = A
  OBVIOUS
<1>6. QED
  BY <1>1, <1>4, <1>5

(* The sum of nothing.                                                     *)
Zero == [l \in Leases |-> 0]

LEMMA SumOfZero == Zero \in [Leases -> Int] /\ SumOver(Zero) = 0
<1>1. Zero = [l \in Leases |-> IF l \in {} THEN 0 ELSE 0]
  BY DEF Zero
<1>2. 0 \in Nat /\ {} \in SUBSET Leases /\ Cardinality({}) = 0
  BY FS_EmptySet
<1>3. SumOver([l \in Leases |-> IF l \in {} THEN 0 ELSE 0]) = 0 * Cardinality({})
  BY <1>2, SumOfAll
<1>4. QED
  BY <1>1, <1>2, <1>3 DEF Zero

(* A function that is nowhere larger has no larger sum.                    *)
LEMMA SumOverMonotone ==
  ASSUME NEW f \in [Leases -> Int], NEW g \in [Leases -> Int], \A l \in Leases : f[l] <= g[l]
  PROVE  SumOver(f) <= SumOver(g)
<1>1. 0 \in Nat /\ Within(f, g, Zero, {}, 0, Leases)
  BY DEF Within, Zero
<1>2. SumOver(f) <= (SumOver(g) + SumOver(Zero)) + 0
  BY <1>1, SumOfZero, SumOverBound
<1>3. SumOver(f) \in Int /\ SumOver(g) \in Int
  BY SumOverSums
<1>4. QED
  BY <1>2, <1>3, SumOfZero

-----------------------------------------------------------------------------
(***************************************************************************)
(* The floor.  A lease may still need space: what its reservation allows,  *)
(* but for what its file object holds back.  No step but an admission      *)
(* lets that grow, and an admission counts all of it: the bytes on the     *)
(* disk and what the ledger still expects are at least as much.            *)
(***************************************************************************)

(* The ledger counts no more as written than a file object holds back.     *)
Lags(r, f, h) ==
    /\ r.actual <= r.reserved
    /\ f.name # "none" => r.actual <= f.bytes + Buffer
    /\ f.name = "none" => f.bytes = 0
    /\ h.at = "opening" => r.actual = 0
    /\ h.at \in {"writing", "granted", "checkpoint", "renamed"} =>
          f.name # "none" /\ r.actual <= h.size /\ h.size <= f.bytes + Buffer

(* What a lease may come to take of the space above the floor.             *)
Claim(r, f, h) ==
    IF f.name # "none" THEN Larger(r.reserved - Buffer, 0)
    ELSE IF h.at = "opening" THEN r.reserved ELSE 0

Claims == [l \in Leases |-> Claim(row[l], file[l], handle[l])]
Reserved == [l \in Leases |-> row[l].reserved]
OnDisk == [l \in Leases |-> file[l].bytes]
Expected == [l \in Leases |-> row[l].reserved - row[l].actual]

LagInv == \A l \in Leases : Lags(row[l], file[l], handle[l])
ClaimsKept == SumOver(Claims) <= Disk - MinFree
QuotaKept == SumOver(Reserved) <= MaxStorage

(* A step that is no admission claims no more.                             *)
Calm(l) ==
    /\ Lags(row'[l], file'[l], handle'[l])
    /\ row'[l].reserved <= row[l].reserved
    /\ Claim(row'[l], file'[l], handle'[l]) <= Claim(row[l], file[l], handle[l])

(* An admission claims what it has asked for.                              *)
Admitted(l) ==
    /\ Lags(row'[l], file'[l], handle'[l])
    /\ \E d \in Nat :
          /\ Admits(d)
          /\ row'[l].reserved <= row[l].reserved + d
          /\ Claim(row'[l], file'[l], handle'[l])
                <= (file[l].bytes + (row[l].reserved - row[l].actual)) + d

(* The numbers of a lease.                                                 *)
LEMMA Numbers ==
  ASSUME Inv, NEW l \in Leases
  PROVE  /\ row[l].reserved \in Nat /\ row[l].actual \in Nat /\ file[l].bytes \in Nat
         /\ handle[l].size \in Nat /\ handle[l].next \in Nat /\ Buffer \in Nat
         /\ Claim(row[l], file[l], handle[l]) \in Nat
         /\ Covers(row[l], file[l])
<1>1. /\ row[l].reserved \in Nat /\ row[l].actual \in Nat /\ file[l].bytes \in Nat
      /\ handle[l].size \in Nat /\ handle[l].next \in Nat /\ Buffer \in Nat
  BY Own, AdmissionAssumption DEF RowStates, FileStates, HandleStates, Sizes
<1>2. QED
  BY <1>1, Own, GoodCovers DEF Claim, Larger

(* Where nothing has changed.                                              *)
LEMMA SameCalm ==
  ASSUME Inv, LagInv, NEW l \in Leases,
         row'[l] = row[l] /\ file'[l] = file[l] /\ handle'[l] = handle[l]
  PROVE  Calm(l)
  BY Numbers DEF LagInv, Calm

(* Where a lease has no user that writes, and row and file are kept or go. *)
LEMMA LeftCalm ==
  ASSUME Inv, LagInv, NEW l \in Leases,
         row'[l] \in {row[l], NoRow}, file'[l] \in {file[l], NoFile},
         row'[l] = row[l] \/ file'[l] = NoFile,
         handle'[l].at \notin {"opening", "writing", "granted", "checkpoint", "renamed"}
  PROVE  Calm(l)
<1>1. Lags(row[l], file[l], handle[l])
  BY DEF LagInv
<1>2. row'[l].reserved <= row[l].reserved
  BY Numbers DEF NoRow
<1>3. Lags(row'[l], file'[l], handle'[l])
  BY <1>1, Numbers DEF Lags, NoRow, NoFile
<1>4. Claim(row'[l], file'[l], handle'[l]) <= Claim(row[l], file[l], handle[l])
  <2>1. CASE file'[l] = NoFile
    <3>1. Claim(row'[l], file'[l], handle'[l]) = 0
      BY <2>1 DEF Claim, NoFile
    <3>2. QED
      BY <3>1, Numbers
  <2>2. CASE file'[l] = file[l] /\ row'[l] = row[l]
    BY <2>2, Numbers DEF Claim
  <2>3. QED
    BY <2>1, <2>2
<1>5. QED
  BY <1>2, <1>3, <1>4 DEF Calm

LEMMA UndoneCalm ==
  ASSUME Inv, LagInv, NEW l \in Leases, Undoes(l)
  PROVE  Calm(l)
<1>1. row'[l] \in {row[l], NoRow} /\ (row'[l] = row[l] \/ file'[l] = NoFile)
  BY Changes DEF Undoes
<1>2. file'[l] \in {file[l], NoFile}
  BY Changes DEF Undoes
<1>3. handle'[l].at \in {"undoSeal", "failing", "releaseAgain", "undoRow", "releasing",
                         "aborted", "released"}
  <2>1. \A p \in {"undoSeal", "failing", "releaseAgain", "undoRow", "releasing"} :
           Goes(l, p) => handle'[l].at = p
    BY Moves DEF Places
  <2>2. \A p \in {"aborted", "released"} : Ends(l, p) => handle'[l].at = p
    BY Finishes DEF Places
  <2>3. QED
    BY <2>1, <2>2 DEF Undoes
<1>4. QED
  BY <1>1, <1>2, <1>3, LeftCalm

(* A begin claims its first quantum.                                       *)
LEMMA BeginAdmitted ==
  ASSUME Inv, LagInv, NEW l \in Leases, Begin(l) \/ BeginFails(l)
  PROVE  Calm(l) \/ Admitted(l)
<1> DEFINE new == [phase |-> "writing", reserved |-> Quantum, actual |-> 0]
<1>1. row[l] = NoRow /\ file[l] = NoFile /\ file' = file
  BY Own DEF Begin, BeginFails, Is, Good
<1>2. handle'[l].at \in {"opening", "gone"}
  <2>1. Begin(l) => handle'[l].at = "opening"
    BY Moves DEF Begin, Places
  <2>2. BeginFails(l) => handle'[l].at = "gone"
    BY Finishes DEF BeginFails, Places
  <2>3. QED
    BY <2>1, <2>2
<1>3. row'[l] = new \/ (BeginFails(l) /\ row' = row)
  BY Changes DEF Begin, BeginFails
<1>4. CASE row'[l] = new
  <2>1. Quantum \in Nat /\ Buffer \in Nat
    BY AdmissionAssumption
  <2>2. Admits(Quantum)
    BY DEF Begin, BeginFails
  <2>3. Lags(row'[l], file'[l], handle'[l])
    BY <1>1, <1>2, <1>4, <2>1 DEF Lags, NoFile
  <2>4. Claim(row'[l], file'[l], handle'[l])
           <= (file[l].bytes + (row[l].reserved - row[l].actual)) + Quantum
    BY <1>1, <1>2, <1>4, <2>1 DEF Claim, NoFile, NoRow
  <2>5. row'[l].reserved <= row[l].reserved + Quantum
    BY <1>1, <1>4, <2>1 DEF NoRow
  <2>6. QED
    BY <2>1, <2>2, <2>3, <2>4, <2>5 DEF Admitted
<1>5. CASE BeginFails(l) /\ row' = row
  <2>1. handle'[l].at = "gone"
    BY <1>5, Finishes DEF BeginFails, Places
  <2>2. QED
    BY <1>1, <1>5, <2>1, LeftCalm
<1>6. QED
  BY <1>3, <1>4, <1>5

(* The file comes to a lease that has claimed its quantum.                 *)
LEMMA OpenCalm ==
  ASSUME Inv, LagInv, NEW l \in Leases, Open(l) \/ OpenFails(l)
  PROVE  Calm(l)
<1>1. /\ handle[l].at = "opening" /\ file[l] = NoFile /\ handle[l].size = 0
      /\ row[l].actual = 0
  BY Own DEF Open, OpenFails, Is, Good, LagInv, Lags
<1>2. CASE Open(l)
  <2>1. /\ row' = row /\ file'[l] = [name |-> "partial", bytes |-> 0]
        /\ handle'[l].at = "writing" /\ handle'[l].size = 0
    BY <1>1, <1>2, Changes, Moves DEF Open, Places
  <2>2. Lags(row'[l], file'[l], handle'[l])
    BY <1>1, <2>1, Numbers DEF Lags
  <2>3. Claim(row'[l], file'[l], handle'[l]) <= Claim(row[l], file[l], handle[l])
    BY <1>1, <2>1, Numbers DEF Claim, Larger, NoFile
  <2>4. QED
    BY <2>1, <2>2, <2>3, Numbers DEF Calm
<1>3. CASE OpenFails(l)
  <2>1. file'[l] = NoFile /\ row'[l] \in {row[l], NoRow}
    BY <1>1, <1>3, Changes DEF OpenFails
  <2>2. handle'[l].at \in {"aborted", "gone"}
    BY <1>3, Finishes DEF OpenFails, Places
  <2>3. QED
    BY <2>1, <2>2, LeftCalm
<1>4. QED
  BY <1>2, <1>3

(* An append claims what it adds to the reservation.                       *)
LEMMA AppendAdmitted ==
  ASSUME Inv, LagInv, NEW l \in Leases, NEW n \in Sizes, Append(l, n) \/ AppendFails(l, n)
  PROVE  Calm(l) \/ Admitted(l)
<1> DEFINE required == Rounded(n)
           delta == required - row[l].reserved
           grown == Grown(row[l], required)
           granted == [handle EXCEPT ![l].at = "granted", ![l].next = n]
<1>1. handle[l].at = "writing" /\ file' = file
  BY DEF Append, AppendFails, Is
<1>2. /\ handle'[l].at \in {"granted", "failing"} /\ handle'[l].size = handle[l].size
  <2>1. handle' = granted \/ Goes(l, "failing")
    BY DEF Append, AppendFails
  <2>2. CASE handle' = granted
    <3>1. handle'[l] = [handle[l] EXCEPT !.at = "granted", !.next = n]
      BY <2>2 DEF Inv, TypeOK
    <3>2. QED
      BY <3>1, Own DEF HandleStates
  <2>3. CASE Goes(l, "failing")
    BY <2>3, Moves DEF Places
  <2>4. QED
    BY <2>1, <2>2, <2>3
<1>3. Lags(row[l], file[l], handle[l]) /\ file[l].name # "none"
  BY <1>1 DEF LagInv, Lags
<1>4. required \in Nat
  BY RoundedBounds
<1>5. CASE row' = row
  <2>1. Lags(row'[l], file'[l], handle'[l])
    BY <1>1, <1>2, <1>3, <1>5 DEF Lags
  <2>2. Claim(row'[l], file'[l], handle'[l]) <= Claim(row[l], file[l], handle[l])
    BY <1>1, <1>3, <1>5, Numbers DEF Claim
  <2>3. QED
    BY <1>5, <2>1, <2>2, Numbers DEF Calm
<1>6. CASE delta > 0 /\ Admits(delta) /\ SetRow(l, grown)
  <2>1. row'[l] = grown
    BY <1>6, Changes
  <2>2. row'[l].reserved = required /\ row'[l].actual = row[l].actual
    BY <2>1, Own DEF Grown, RowStates
  <2>3. delta \in Nat /\ required = row[l].reserved + delta
    BY <1>4, <1>6, Numbers
  <2> HIDE DEF required, delta, grown, granted
  <2>4. Lags(row'[l], file'[l], handle'[l])
    BY <1>1, <1>2, <1>3, <2>2, <2>3, Numbers DEF Lags
  <2>5. Claim(row'[l], file'[l], handle'[l])
           <= (file[l].bytes + (row[l].reserved - row[l].actual)) + delta
    BY <1>1, <1>3, <2>2, <2>3, Numbers DEF Claim, Larger, Lags
  <2>6. row'[l].reserved <= row[l].reserved + delta
    BY <2>2, <2>3, Numbers
  <2>7. Admits(delta)
    BY <1>6
  <2>8. QED
    BY <2>3, <2>4, <2>5, <2>6, <2>7 DEF Admitted
<1>7. QED
  BY <1>5, <1>6 DEF Append, AppendFails

(* What is written was claimed, and what a file object holds back is at    *)
(* most a buffer.                                                          *)
LEMMA WriteCalm ==
  ASSUME Inv, LagInv, NEW l \in Leases, NEW n \in Sizes, Write(l, n) \/ WriteFails(l, n)
  PROVE  Calm(l)
<1>1. /\ handle[l].at = "granted" /\ row' = row /\ n >= file[l].bytes
      /\ file'[l] = [file[l] EXCEPT !.bytes = n]
  BY Changes DEF Write, WriteFails, Is
<1>2. file'[l].bytes = n /\ file'[l].name = file[l].name /\ n \in Nat
  BY <1>1, Own, AdmissionAssumption DEF FileStates, Sizes
<1>3. /\ Lags(row[l], file[l], handle[l]) /\ file[l].name # "none"
      /\ row[l].actual <= handle[l].size /\ handle[l].size <= handle[l].next
      /\ handle[l].size <= file[l].bytes + Buffer
  BY <1>1, Own DEF LagInv, Lags, Good
<1>4. Claim(row'[l], file'[l], handle'[l]) <= Claim(row[l], file[l], handle[l])
  BY <1>1, <1>2, <1>3, Numbers DEF Claim
<1>5. Lags(row'[l], file'[l], handle'[l])
  <2>1. CASE Write(l, n)
    <3> DEFINE place == IF CheckpointAt(handle[l].next) > row[l].actual THEN "checkpoint" ELSE "writing"
    <3>1. handle'[l] = [at |-> place, size |-> handle[l].next, next |-> 0]
      BY <2>1 DEF Write, Inv, TypeOK
    <3>2. place # "opening"
      OBVIOUS
    <3> HIDE DEF place
    <3>3. n >= handle[l].next - Buffer
      BY <2>1 DEF Write
    <3>4. QED
      BY <1>1, <1>2, <1>3, <3>1, <3>2, <3>3, Numbers DEF Lags
  <2>2. CASE WriteFails(l, n)
    <3>1. handle'[l].at = "failing"
      BY <2>2, Moves DEF WriteFails, Places
    <3>2. QED
      BY <1>1, <1>2, <1>3, <3>1, Numbers DEF Lags
  <2>3. QED
    BY <2>1, <2>2
<1>6. QED
  BY <1>1, <1>4, <1>5, Numbers DEF Calm

(* A checkpoint counts as written what is within a buffer of the disk.     *)
LEMMA CheckpointCalm ==
  ASSUME Inv, LagInv, NEW l \in Leases, Checkpoint(l) \/ CheckpointFails(l)
  PROVE  Calm(l)
<1> DEFINE counted == [row[l] EXCEPT !.actual = CheckpointAt(handle[l].size)]
<1>1. /\ handle[l].at = "checkpoint" /\ file' = file
      /\ row'[l] \in {row[l], counted}
  BY Changes DEF Checkpoint, CheckpointFails, Is
<1>2. CheckpointAt(handle[l].size) \in Nat /\ CheckpointAt(handle[l].size) <= handle[l].size
  BY Own, RoundedBounds, AdmissionAssumption DEF HandleStates, Sizes
<1>3. /\ row'[l].reserved = row[l].reserved
      /\ row'[l].actual \in {row[l].actual, CheckpointAt(handle[l].size)}
  BY <1>1, Own DEF RowStates
<1>4. /\ Lags(row[l], file[l], handle[l]) /\ BeingWritten(row[l], file[l], handle[l])
      /\ file[l].name # "none"
  BY <1>1, Own DEF LagInv, Lags, Good
<1>5. handle'[l].at \in {"writing", "failing"} /\ handle'[l].size = handle[l].size
  <2>1. Goes(l, "writing") \/ Goes(l, "failing")
    BY DEF Checkpoint, CheckpointFails
  <2>2. QED
    BY <2>1, Moves DEF Places
<1>6. Lags(row'[l], file'[l], handle'[l])
  BY <1>1, <1>2, <1>3, <1>4, <1>5, Numbers DEF Lags, BeingWritten
<1>7. Claim(row'[l], file'[l], handle'[l]) <= Claim(row[l], file[l], handle[l])
  BY <1>1, <1>3, <1>4, Numbers DEF Claim
<1>8. QED
  BY <1>3, <1>6, <1>7, Numbers DEF Calm

(* A flush puts on the disk what was held back; it was claimed as well.    *)
LEMMA RenameCalm ==
  ASSUME Inv, LagInv, NEW l \in Leases, Rename(l) \/ RenameFails(l)
  PROVE  Calm(l)
<1>1. handle[l].at = "writing" /\ row' = row
  BY DEF Rename, RenameFails, Is
<1>2. /\ Lags(row[l], file[l], handle[l]) /\ file[l].name # "none"
      /\ row[l].actual <= handle[l].size
  BY <1>1 DEF LagInv, Lags
<1>3. /\ file'[l].name # "none"
      /\ file'[l].bytes \in {file[l].bytes, handle[l].size}
      /\ Rename(l) => file'[l].bytes = handle[l].size
  <2>1. CASE file' = file /\ RenameFails(l)
    <3>1. Rename(l) => file'[l].bytes = handle[l].size
      BY Changes DEF Rename
    <3>2. QED
      BY <1>2, <2>1, <3>1
  <2>2. CASE \E name \in {"partial", "complete"} :
                 SetFile(l, [name |-> name, bytes |-> handle[l].size])
    <3>1. PICK name \in {"partial", "complete"} :
                 SetFile(l, [name |-> name, bytes |-> handle[l].size])
      BY <2>2
    <3>2. file'[l] = [name |-> name, bytes |-> handle[l].size]
      BY <3>1, Changes
    <3>3. QED
      BY <3>1, <3>2
  <2>3. QED
    BY <2>1, <2>2 DEF Rename, RenameFails
<1>4. /\ handle'[l].at \in {"renamed", "undoSeal"} /\ handle'[l].size = handle[l].size
      /\ handle'[l].at = "renamed" => file'[l].bytes = handle[l].size
  <2>1. CASE Rename(l)
    BY <1>3, <2>1, Moves DEF Rename, Places
  <2>2. CASE RenameFails(l)
    BY <2>2, Moves DEF RenameFails, Places
  <2>3. QED
    BY <2>1, <2>2
<1>5. Lags(row'[l], file'[l], handle'[l])
  BY <1>1, <1>2, <1>3, <1>4, Numbers DEF Lags
<1>6. Claim(row'[l], file'[l], handle'[l]) <= Claim(row[l], file[l], handle[l])
  BY <1>1, <1>2, <1>3, Numbers DEF Claim
<1>7. QED
  BY <1>1, <1>5, <1>6, Numbers DEF Calm

(* A seal gives back what was reserved and not needed.                     *)
LEMMA CommitSealCalm ==
  ASSUME Inv, LagInv, NEW l \in Leases, CommitSeal(l) \/ CommitSealFails(l)
  PROVE  Calm(l)
<1>1. handle[l].at = "renamed" /\ file' = file
  BY DEF CommitSeal, CommitSealFails, Is
<1>2. /\ row'[l] \in {row[l], Sealed(row[l], handle[l].size)}
  BY Changes DEF CommitSeal, CommitSealFails
<1>3. handle'[l].at \in {"sealed", "undoSeal"}
  <2>1. Goes(l, "sealed") \/ Goes(l, "undoSeal")
    BY DEF CommitSeal, CommitSealFails
  <2>2. QED
    BY <2>1, Moves DEF Places
<1>4. /\ Lags(row[l], file[l], handle[l]) /\ handle[l].size <= row[l].reserved
      /\ file[l].name # "none" /\ file[l].bytes = handle[l].size
  <2>1. Lags(row[l], file[l], handle[l]) /\ file[l].name # "none"
    BY <1>1 DEF LagInv, Lags
  <2>2. /\ BeingWritten(row[l], file[l], handle[l])
        /\ file[l] = [name |-> "complete", bytes |-> handle[l].size]
    BY <1>1, Own DEF Good
  <2>3. QED
    BY <2>1, <2>2 DEF BeingWritten
<1>5. /\ row'[l].reserved \in {row[l].reserved, handle[l].size}
      /\ row'[l].actual <= row'[l].reserved /\ row'[l].actual <= file[l].bytes + Buffer
  BY <1>2, <1>4, Numbers DEF Sealed, Lags
<1>6. Lags(row'[l], file'[l], handle'[l])
  BY <1>1, <1>3, <1>4, <1>5 DEF Lags
<1>7. Claim(row'[l], file'[l], handle'[l]) <= Claim(row[l], file[l], handle[l])
  BY <1>1, <1>4, <1>5, Numbers DEF Claim, Larger
<1>8. QED
  BY <1>4, <1>5, <1>6, <1>7, Numbers DEF Calm

-----------------------------------------------------------------------------
(* The sums of the model, as sums of functions.                            *)
LEMMA SumsOfTheModel ==
  /\ TotalReserved = SumOver(Reserved)
  /\ Outstanding = SumOver(Expected)
  /\ FreeBytes = Disk - SumOver(OnDisk)
<1>1. \A s \in SUBSET Leases : s # {} => Pick(s) \in Leases
  BY DEF Pick
<1>2. TotalReserved = SumOver(Reserved)
  <2> DEFINE Adds(F) == [s \in SUBSET Leases |->
                IF s = {} THEN 0 ELSE row[Pick(s)].reserved + F[s \ {Pick(s)}]]
  <2>1. \A s \in SUBSET Leases : s # {} => Reserved[Pick(s)] = row[Pick(s)].reserved
    BY <1>1 DEF Reserved
  <2>2. \A F : F = Adds(F) <=> Sums(F, Reserved, Leases)
    BY <2>1 DEF Sums
  <2>3. TotalReserved = (CHOOSE F : F = Adds(F))[Leases]
    BY DEF TotalReserved, MapThenSumSet, MapThenFoldSet, Pick
  <2>4. SumOver(Reserved) = (CHOOSE F : Sums(F, Reserved, Leases))[Leases]
    BY DEF SumOver, MapThenSumSet, MapThenFoldSet, Sums, Pick
  <2> HIDE DEF Adds
  <2>5. (CHOOSE F : F = Adds(F)) = (CHOOSE F : Sums(F, Reserved, Leases))
    BY <2>2
  <2>6. QED
    BY <2>3, <2>4, <2>5
<1>3. Outstanding = SumOver(Expected)
  <2> DEFINE Adds(F) == [s \in SUBSET Leases |->
                IF s = {} THEN 0
                ELSE (row[Pick(s)].reserved - row[Pick(s)].actual) + F[s \ {Pick(s)}]]
  <2>1. \A s \in SUBSET Leases : s # {} =>
           Expected[Pick(s)] = row[Pick(s)].reserved - row[Pick(s)].actual
    BY <1>1 DEF Expected
  <2>2. \A F : F = Adds(F) <=> Sums(F, Expected, Leases)
    BY <2>1 DEF Sums
  <2>3. Outstanding = (CHOOSE F : F = Adds(F))[Leases]
    BY DEF Outstanding, MapThenSumSet, MapThenFoldSet, Pick
  <2>4. SumOver(Expected) = (CHOOSE F : Sums(F, Expected, Leases))[Leases]
    BY DEF SumOver, MapThenSumSet, MapThenFoldSet, Sums, Pick
  <2> HIDE DEF Adds
  <2>5. (CHOOSE F : F = Adds(F)) = (CHOOSE F : Sums(F, Expected, Leases))
    BY <2>2
  <2>6. QED
    BY <2>3, <2>4, <2>5
<1>4. FreeBytes = Disk - SumOver(OnDisk)
  <2> DEFINE Adds(F) == [s \in SUBSET Leases |->
                IF s = {} THEN 0 ELSE file[Pick(s)].bytes + F[s \ {Pick(s)}]]
  <2>1. \A s \in SUBSET Leases : s # {} => OnDisk[Pick(s)] = file[Pick(s)].bytes
    BY <1>1 DEF OnDisk
  <2>2. \A F : F = Adds(F) <=> Sums(F, OnDisk, Leases)
    BY <2>1 DEF Sums
  <2>3. FreeBytes = Disk - (CHOOSE F : F = Adds(F))[Leases]
    BY DEF FreeBytes, MapThenSumSet, MapThenFoldSet, Pick
  <2>4. SumOver(OnDisk) = (CHOOSE F : Sums(F, OnDisk, Leases))[Leases]
    BY DEF SumOver, MapThenSumSet, MapThenFoldSet, Sums, Pick
  <2> HIDE DEF Adds
  <2>5. (CHOOSE F : F = Adds(F)) = (CHOOSE F : Sums(F, OnDisk, Leases))
    BY <2>2
  <2>6. QED
    BY <2>3, <2>4, <2>5
<1>5. QED
  BY <1>2, <1>3, <1>4

(* They are numbers.                                                       *)
SumsTyped ==
    /\ Claims \in [Leases -> Int] /\ SumOver(Claims) \in Int
    /\ Reserved \in [Leases -> Int] /\ SumOver(Reserved) \in Int
    /\ OnDisk \in [Leases -> Int] /\ SumOver(OnDisk) \in Int
    /\ Expected \in [Leases -> Int] /\ SumOver(Expected) \in Int

LEMMA SumTypes == Inv => SumsTyped
<1> SUFFICES ASSUME Inv PROVE SumsTyped
  OBVIOUS
<1>1. /\ Claims \in [Leases -> Int] /\ Reserved \in [Leases -> Int]
      /\ OnDisk \in [Leases -> Int] /\ Expected \in [Leases -> Int]
  BY Numbers DEF Claims, Reserved, OnDisk, Expected
<1>2. QED
  BY <1>1, SumOverSums DEF SumsTyped

(* Nothing but a buffer for each file is on the disk that is not claimed.  *)
LEMMA ClaimsGiveFloor ==
  ASSUME Inv, LagInv, ClaimsKept
  PROVE  FloorKept
<1> DEFINE held == [l \in Leases |-> IF l \in Files THEN Buffer ELSE 0]
<1>1. Buffer \in Nat /\ Files \in SUBSET Leases
  BY AdmissionAssumption DEF Files
<1>2. SumOver(held) = Buffer * Cardinality(Files)
  BY <1>1, SumOfAll
<1>3. held \in [Leases -> Int]
  BY <1>1
<1>4. ASSUME NEW l \in Leases
      PROVE  OnDisk[l] <= Claims[l] + held[l]
  <2>1. l \in Files <=> file[l].name # "none"
    BY DEF Files
  <2>2. OnDisk[l] = file[l].bytes /\ Claims[l] = Claim(row[l], file[l], handle[l])
    BY DEF OnDisk, Claims
  <2>3. file[l].bytes <= row[l].reserved /\ (file[l].name = "none" => file[l].bytes = 0)
    BY Numbers DEF Covers, LagInv, Lags
  <2>4. CASE l \in Files
    BY <2>1, <2>2, <2>3, <2>4, Numbers DEF Claim, Larger
  <2>5. CASE l \notin Files
    BY <2>1, <2>2, <2>3, <2>5, Numbers
  <2>6. QED
    BY <2>4, <2>5
<1>5. Within(OnDisk, Claims, held, {}, 0, Leases) /\ 0 \in Nat
  <2>1. \A l \in Leases : OnDisk[l] \in Int /\ Claims[l] \in Int /\ held[l] \in Int
    BY <1>3, SumTypes DEF SumsTyped
  <2> HIDE DEF held
  <2>2. QED
    BY <1>4, <2>1 DEF Within
<1> HIDE DEF held
<1>6. SumOver(OnDisk) <= (SumOver(Claims) + SumOver(held)) + 0
  BY <1>3, <1>5, SumTypes, SumOverBound DEF SumsTyped
<1>7. SumOver(held) \in Int
  BY <1>3, SumOverSums
<1>8. MinFree \in Nat /\ Disk \in Nat
  BY AdmissionAssumption
<1>9. FreeBytes >= MinFree - SumOver(held)
  BY <1>6, <1>7, <1>8, SumTypes, SumsOfTheModel DEF ClaimsKept, SumsTyped
<1>10. QED
  BY <1>2, <1>9 DEF FloorKept

-----------------------------------------------------------------------------
LEMMA SumTypesNext == Inv' => SumsTyped'
  BY SumTypes, PTL

(* Where every lease is calm, neither sum grows.                           *)
LEMMA CalmKept ==
  ASSUME Inv, Inv', ClaimsKept, QuotaKept, \A l \in Leases : Calm(l)
  PROVE  LagInv' /\ ClaimsKept' /\ QuotaKept'
<1>1. LagInv'
  BY DEF LagInv, Calm
<1>2. /\ \A l \in Leases : Claims'[l] <= Claims[l]
      /\ \A l \in Leases : Reserved'[l] <= Reserved[l]
  BY DEF Claims, Reserved, Calm
<1>3. /\ Claims' \in [Leases -> Int] /\ Reserved' \in [Leases -> Int]
      /\ SumOver(Claims') \in Int /\ SumOver(Reserved') \in Int
  BY SumTypesNext DEF SumsTyped
<1>4. /\ Claims \in [Leases -> Int] /\ Reserved \in [Leases -> Int]
      /\ SumOver(Claims) \in Int /\ SumOver(Reserved) \in Int
  BY SumTypes DEF SumsTyped
<1>5. SumOver(Claims') <= SumOver(Claims) /\ SumOver(Reserved') <= SumOver(Reserved)
  BY <1>2, <1>3, <1>4, SumOverMonotone
<1>6. Disk \in Nat /\ MinFree \in Nat /\ MaxStorage \in Nat
  BY AdmissionAssumption
<1>7. QED
  BY <1>1, <1>3, <1>4, <1>5, <1>6 DEF ClaimsKept, QuotaKept

(* What the ledger and the disk show of a lease is at least what it claims.*)
LEMMA ClaimCounted ==
  ASSUME Inv, LagInv, NEW l \in Leases
  PROVE  Claims[l] <= OnDisk[l] + Expected[l]
<1>1. Lags(row[l], file[l], handle[l])
  BY DEF LagInv
<1>2. /\ Claims[l] = Claim(row[l], file[l], handle[l])
      /\ OnDisk[l] = file[l].bytes /\ Expected[l] = row[l].reserved - row[l].actual
  BY DEF Claims, OnDisk, Expected
<1>3. QED
  BY <1>1, <1>2, Numbers DEF Claim, Larger, Lags

(* Where one lease is admitted, both sums stay within what was tested.     *)
LEMMA AdmittedKept ==
  ASSUME Inv, Inv', LagInv, NEW k \in Leases, Admitted(k),
         \A l \in Leases : l # k => row'[l] = row[l] /\ file'[l] = file[l] /\ handle'[l] = handle[l]
  PROVE  LagInv' /\ ClaimsKept' /\ QuotaKept'
<1>1. LagInv'
  BY DEF LagInv, Admitted
<1>2. PICK d \in Nat :
         /\ Admits(d)
         /\ row'[k].reserved <= row[k].reserved + d
         /\ Claim(row'[k], file'[k], handle'[k])
               <= (file[k].bytes + (row[k].reserved - row[k].actual)) + d
  BY DEF Admitted
<1>3. /\ Claims' \in [Leases -> Int] /\ Reserved' \in [Leases -> Int]
      /\ SumOver(Claims') \in Int /\ SumOver(Reserved') \in Int
  BY SumTypesNext DEF SumsTyped
<1>4. SumsTyped
  BY SumTypes
<1>5. Within(Claims', OnDisk, Expected, k, d, Leases)
  <2>1. \A l \in Leases : Claims'[l] = Claim(row'[l], file'[l], handle'[l])
    BY DEF Claims
  <2>2. Claims'[k] <= (OnDisk[k] + Expected[k]) + d
    BY <1>2, <2>1 DEF OnDisk, Expected
  <2>3. ASSUME NEW l \in Leases, l # k
        PROVE  Claims'[l] <= (OnDisk[l] + Expected[l]) + 0
    <3>1. Claims'[l] = Claims[l]
      BY <2>1, <2>3 DEF Claims
    <3>2. OnDisk[l] \in Int /\ Expected[l] \in Int /\ Claims[l] \in Int
      BY <1>4 DEF SumsTyped
    <3>3. QED
      BY <3>1, <3>2, ClaimCounted
  <2>4. QED
    BY <2>2, <2>3 DEF Within
<1>6. SumOver(Claims') <= (SumOver(OnDisk) + SumOver(Expected)) + d
  BY <1>3, <1>4, <1>5, SumOverBound DEF SumsTyped
<1>7. Within(Reserved', Reserved, Zero, k, d, Leases)
  <2>1. \A l \in Leases : /\ Reserved'[l] = row'[l].reserved /\ Reserved[l] = row[l].reserved
                          /\ Zero[l] = 0 /\ row[l].reserved \in Int
    BY Numbers DEF Reserved, Zero
  <2>2. Reserved'[k] <= (Reserved[k] + Zero[k]) + d
    BY <1>2, <2>1
  <2>3. \A l \in Leases : l # k => Reserved'[l] <= (Reserved[l] + Zero[l]) + 0
    BY <2>1
  <2>4. QED
    BY <2>2, <2>3 DEF Within
<1>8. SumOver(Reserved') <= (SumOver(Reserved) + SumOver(Zero)) + d
  BY <1>3, <1>4, <1>7, SumOfZero, SumOverBound DEF SumsTyped
<1>9. /\ SumOver(Reserved) + d <= MaxStorage
      /\ ((Disk - SumOver(OnDisk)) - SumOver(Expected)) - d >= MinFree
  BY <1>2, SumsOfTheModel DEF Admits
<1>10. Disk \in Nat /\ MinFree \in Nat /\ MaxStorage \in Nat
  BY AdmissionAssumption
<1>11. ClaimsKept'
  BY <1>3, <1>4, <1>6, <1>9, <1>10 DEF ClaimsKept, SumsTyped
<1>12. QuotaKept'
  BY <1>3, <1>4, <1>8, <1>9, <1>10, SumOfZero DEF QuotaKept, SumsTyped
<1>13. QED
  BY <1>1, <1>11, <1>12

-----------------------------------------------------------------------------
(* The inductive invariant of the floor.                                   *)
FloorInv == Inv /\ LagInv /\ ClaimsKept /\ QuotaKept

LEMMA InitFloor == Init => FloorInv
<1> SUFFICES ASSUME Init PROVE FloorInv
  OBVIOUS
<1>1. Inv
  BY InitInv
<1>2. LagInv
  BY AdmissionAssumption DEF Init, LagInv, Lags, NoRow, NoFile, NoHandle
<1>3. Claims = Zero /\ Reserved = Zero
  BY DEF Init, Claims, Claim, Reserved, Zero, NoRow, NoFile, NoHandle
<1>4. MinFree <= Disk /\ MinFree \in Nat /\ Disk \in Nat /\ MaxStorage \in Nat
  BY AdmissionAssumption
<1>5. QED
  BY <1>1, <1>2, <1>3, <1>4, SumOfZero DEF FloorInv, ClaimsKept, QuotaKept

(* A step of one lease's user leaves the others as they are.               *)
LEMMA UserFloor ==
  ASSUME FloorInv, Inv', NEW l \in Leases, Local(l), Calm(l) \/ Admitted(l)
  PROVE  FloorInv'
<1>1. \A k \in Leases : k # l => row'[k] = row[k] /\ file'[k] = file[k] /\ handle'[k] = handle[k]
  BY DEF FloorInv, Inv, TypeOK, Local
<1>2. CASE Calm(l)
  <2>1. \A k \in Leases : Calm(k)
    BY <1>1, <1>2, SameCalm DEF FloorInv
  <2>2. QED
    BY <2>1, CalmKept DEF FloorInv
<1>3. CASE Admitted(l)
  BY <1>1, <1>3, AdmittedKept DEF FloorInv
<1>4. QED
  BY <1>2, <1>3

LEMMA StepFloor == FloorInv /\ [Next]_vars => FloorInv'
<1> SUFFICES ASSUME FloorInv, [Next]_vars PROVE FloorInv'
  OBVIOUS
<1>1. Inv /\ LagInv /\ Inv'
  BY StepInv DEF FloorInv
<1>2. ASSUME NEW l \in Leases,
             \/ Begin(l) \/ BeginFails(l) \/ Open(l) \/ OpenFails(l)
             \/ \E n \in Sizes : Append(l, n) \/ AppendFails(l, n) \/ Write(l, n) \/ WriteFails(l, n)
             \/ Checkpoint(l) \/ CheckpointFails(l)
             \/ Rename(l) \/ RenameFails(l) \/ CommitSeal(l) \/ CommitSealFails(l)
      PROVE  FloorInv'
  <2>1. Local(l)
    BY <1>1, <1>2, BeginGood, OpenGood, AppendGood, WriteGood, CheckpointGood, RenameGood,
       CommitSealGood
  <2>2. Calm(l) \/ Admitted(l)
    BY <1>1, <1>2, BeginAdmitted, OpenCalm, AppendAdmitted, WriteCalm, CheckpointCalm,
       RenameCalm, CommitSealCalm
  <2>3. QED
    BY <1>1, <2>1, <2>2, UserFloor
<1>3. ASSUME NEW l \in Leases,
             \/ UndoSeal(l) \/ UndoSealFails(l) \/ UndoRow(l) \/ UndoRowFails(l)
             \/ Abort(l) \/ AbortFails(l)
             \/ ReleaseUnlink(l) \/ ReleaseUnlinkFails(l) \/ ReleaseRow(l) \/ ReleaseRowFails(l)
      PROVE  FloorInv'
  <2>1. Undoes(l)
    BY <1>1, <1>3, UndoSealUndoes, UndoRowUndoes, AbortUndoes, ReleaseUndoes
  <2>2. QED
    BY <1>1, <2>1, UndoneGood, UndoneCalm, UserFloor
<1>4. CASE (\E l \in Leases : UnlinkLeft(l)) \/ Restart \/ Crash \/ UNCHANGED vars
  <2>1. ASSUME NEW l \in Leases
        PROVE  Calm(l)
    <3>1. CASE \E k \in Leases : UnlinkLeft(k)
      <4>1. /\ row' = row /\ handle' = handle /\ file'[l] \in {file[l], NoFile}
            /\ handle[l].at \in {"unused", "gone"}
        BY <1>1, <3>1 DEF UnlinkLeft, SetFile, Inv, TypeOK
      <4>2. QED
        BY <1>1, <4>1, LeftCalm
    <3>2. CASE Restart
      <4>1. /\ row'[l] = NoRow /\ handle' = handle /\ file' = file /\ file[l] = NoFile
            /\ handle[l].at \in {"unused", "gone"}
        BY <1>1, <3>2 DEF Restart, Inv
      <4>2. QED
        BY <1>1, <4>1, LeftCalm
    <3>3. CASE Crash
      <4>1. row' = row /\ file' = file /\ handle'[l].at \in {"unused", "gone"}
        BY <3>3 DEF Crash, NoHandle
      <4>2. QED
        BY <1>1, <4>1, LeftCalm
    <3>4. CASE UNCHANGED vars
      BY <1>1, <3>4, SameCalm DEF vars
    <3>5. QED
      BY <1>4, <3>1, <3>2, <3>3, <3>4
  <2>2. QED
    BY <1>1, <2>1, CalmKept DEF FloorInv
<1>5. QED
  BY <1>2, <1>3, <1>4 DEF Next

LEMMA SpecFloor == Spec => []FloorInv
  BY InitFloor, StepFloor, PTL DEF Spec

-----------------------------------------------------------------------------
(* The ledger, the files and the lease objects keep their types: no        *)
(* reservation is negative or larger than what the largest upload rounds   *)
(* up to (storage.py, _round_reservation).                                 *)
THEOREM AdmissionTypeCorrect == Spec => []TypeOK
  BY SpecInv, InvGivesProperties, PTL

(* No file exists or grows without a reservation that covers it, whatever  *)
(* fails, for any number of leases (storage.py, append and abort).         *)
THEOREM EveryByteReserved == Spec => []BytesReserved
  BY SpecInv, InvGivesProperties, PTL

(* A reference that seal returned stands for a complete file and its exact *)
(* charge (storage.py, seal).                                              *)
THEOREM SealIsExact == Spec => []SealedExact
  BY SpecInv, InvGivesProperties, PTL

(* A lease whose abort or release returned has left nothing (storage.py,   *)
(* _abort_writing, _release_ref, _compensate_failed_seal).                 *)
THEOREM CleanupLeavesNothing == Spec => []EndsClean
  BY SpecInv, InvGivesProperties, PTL

(* However begins, failures and restarts interleave, max_active_uploads    *)
(* holds (storage.py, begin_upload).                                       *)
THEOREM UploadsStayBounded == Spec => []UploadsBounded
<1>1. Inv /\ UploadsBounded /\ [Next]_vars => (Inv /\ UploadsBounded)'
  BY StepInv, StepBounded
<1>2. Init => Inv /\ UploadsBounded
  BY InitInv, InitBounded
<1>3. QED
  BY <1>1, <1>2, PTL DEF Spec

(* The free space never falls below min_filesystem_free_bytes by more than *)
(* what file objects hold back, for any number of leases, although it is   *)
(* tested when space is reserved and used later (storage.py, _admit_delta).*)
THEOREM FloorStays == Spec => []FloorKept
<1>1. FloorInv => FloorKept
  BY ClaimsGiveFloor DEF FloorInv
<1>2. QED
  BY <1>1, SpecFloor, PTL

(* However leases interleave, fail and restart, what they reserve together *)
(* stays within max_job_storage_bytes (storage.py, _admit_delta).          *)
THEOREM QuotaStays == Spec => [](TotalReserved <= MaxStorage)
<1>1. FloorInv => TotalReserved <= MaxStorage
  BY SumsOfTheModel DEF FloorInv, QuotaKept
<1>2. QED
  BY <1>1, SpecFloor, PTL
=============================================================================
