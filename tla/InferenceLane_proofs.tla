------------------------ MODULE InferenceLane_proofs ------------------------
(***************************************************************************)
(* Proofs about InferenceLane, for any set of threads: LaneInv is          *)
(* inductive, and with it mutual exclusion, the turn, the wake-ups and the *)
(* bound on overtaking hold in every behaviour.                            *)
(*                                                                         *)
(* Attempt(t, q) runs with two kinds of tickets q: those of the lane for a *)
(* retry, and those with the new ticket appended for a new call.  Ready    *)
(* says what both have in common; the three outcomes of an attempt are     *)
(* proved from it.                                                         *)
(***************************************************************************)
EXTENDS InferenceLane, SequenceTheorems, TLAPS

\* Everybody but t, at head or not, is served by the tickets q as by waiters.
Ready(t, q) ==
    /\ q \in [Categories -> Seq(Threads)]
    /\ pc[t] \in {"idle", "awake"}
    /\ \E i \in 1..Len(q[Category(t)]) : q[Category(t)][i] = t
    /\ \A u \in Threads \ {t} : Waiting(u) =>
          \E i \in 1..Len(q[Category(u)]) : q[Category(u)][i] = u
    /\ \A c \in Categories :
          /\ Distinct(q[c])
          /\ \A i \in 1..Len(q[c]) :
                /\ Category(q[c][i]) = c
                /\ q[c][i] # t => Waiting(q[c][i])
    /\ nextCategory # "none" => q[nextCategory] # <<>>
    /\ activeCategory = "none" /\ nextCategory = "none" =>
          /\ MayEnter(t, q)
          /\ Len(q[Category(t)]) = 1
          /\ q[Opposite(Category(t))] = <<>>
    /\ \A u \in Threads \ {t} : pc[u] = "asleep" => ~MayEnter(u, q)
    /\ \A u \in Threads : overtakes[u] > 0 =>
          q[Category(u)] # <<>> /\ q[Category(u)][1] = u

-----------------------------------------------------------------------------
(***************************************************************************)
(* Lemmas about categories and queues                                      *)
(***************************************************************************)

\* There are two categories, and Opposite exchanges them.
LEMMA CategoryFacts ==
    /\ \A t \in Threads : Category(t) \in Categories
    /\ \A c \in Categories :
          /\ Opposite(c) \in Categories /\ Opposite(c) # c
          /\ Opposite(Opposite(c)) = c
          /\ c # "none"
          /\ \A d \in Categories : d = c \/ d = Opposite(c)
  BY DEF Category, Opposite, Categories

\* A sequence is empty exactly when its length is zero.
LEMMA EmptyIffLengthZero ==
    ASSUME NEW S, NEW s \in Seq(S)
    PROVE  /\ Len(s) \in Nat
           /\ s = <<>> <=> Len(s) = 0
           /\ s # <<>> => Head(s) = s[1] /\ Head(s) \in S
  BY EmptySeq, LenProperties, HeadTailProperties

\* w is the queue q less the ticket t: one shorter, without t, with everybody
\* else, and with the same head unless t is the head.
IsWithout(w, q, t) ==
    /\ w \in Seq(Threads) /\ Len(w) = Len(q) - 1
    /\ \A u \in Threads \ {t} : (\E i \in 1..Len(q) : q[i] = u) =>
          \E i \in 1..Len(w) : w[i] = u
    /\ q[1] # t => Len(w) > 0 /\ w[1] = q[1]
    /\ Distinct(w)
    /\ \A i \in 1..Len(w) : w[i] # t /\ \E k \in 1..Len(q) : w[i] = q[k]

\* Without removes a ticket and disturbs nobody else.
LEMMA WithoutFacts ==
    ASSUME NEW q \in Seq(Threads), NEW t \in Threads,
           \E i \in 1..Len(q) : q[i] = t,
           Distinct(q)
    PROVE  IsWithout(Without(q, t), q, t)
<1> DEFINE at == CHOOSE i \in 1..Len(q) : q[i] = t
           w == [i \in 1..(Len(q) - 1) |-> IF i < at THEN q[i] ELSE q[i + 1]]
<1>1. at \in 1..Len(q) /\ q[at] = t
  OBVIOUS
<1>2. Len(q) \in Nat /\ \A i \in 1..Len(q) : q[i] \in Threads
  BY LenProperties, ElementOfSeq
<1>3. Without(q, t) = w
  BY DEF Without
<1> HIDE DEF at
<1>4. /\ w \in Seq(Threads) /\ Len(w) = Len(q) - 1
      /\ \A i \in 1..(Len(q) - 1) : w[i] = IF i < at THEN q[i] ELSE q[i + 1]
  <2>1. Len(q) - 1 \in Nat
    BY <1>1, <1>2
  <2>2. w \in [1..(Len(q) - 1) -> Threads]
    BY <1>1, <1>2
  <2>3. \A i \in 1..(Len(q) - 1) : w[i] = IF i < at THEN q[i] ELSE q[i + 1]
    OBVIOUS
  <2> HIDE DEF w
  <2> QED
    BY <2>1, <2>2, <2>3
<1> HIDE DEF w
<1>5. ASSUME NEW u \in Threads \ {t}, NEW k \in 1..Len(q), q[k] = u
      PROVE  \E i \in 1..Len(w) : w[i] = u
  <2>1. CASE k < at
    <3>1. k \in 1..(Len(q) - 1) /\ w[k] = u
      BY <1>1, <1>2, <1>4, <1>5, <2>1
    <3> QED
      BY <1>4, <3>1
  <2>2. CASE k > at
    <3>1. k - 1 \in 1..(Len(q) - 1) /\ w[k - 1] = u
      BY <1>1, <1>2, <1>4, <1>5, <2>2
    <3> QED
      BY <1>4, <3>1
  <2>3. k # at
    BY <1>1, <1>5
  <2>4. k < at \/ k > at
    BY <1>1, <1>2, <2>3
  <2> QED
    BY <2>1, <2>2, <2>4
<1>6. ASSUME q[1] # t
      PROVE  Len(w) > 0 /\ w[1] = q[1]
  BY <1>1, <1>2, <1>4, <1>6
<1>7. Distinct(w)
  <2> SUFFICES ASSUME NEW i \in 1..Len(w), NEW k \in 1..Len(w), w[i] = w[k]
               PROVE  i = k
    BY DEF Distinct
  <2> DEFINE place(n) == IF n < at THEN n ELSE n + 1
  <2>1. \A n \in 1..Len(w) : place(n) \in 1..Len(q) /\ w[n] = q[place(n)]
    BY <1>1, <1>2, <1>4
  <2>2. place(i) = place(k)
    BY <2>1 DEF Distinct
  <2> QED
    BY <1>1, <1>2, <1>4, <2>2
<1>8. ASSUME NEW i \in 1..Len(w)
      PROVE  w[i] # t /\ \E k \in 1..Len(q) : w[i] = q[k]
  <2>1. CASE i < at
    BY <1>1, <1>2, <1>4, <2>1 DEF Distinct
  <2>2. CASE i >= at
    <3>1. i + 1 \in 1..Len(q) /\ w[i] = q[i + 1] /\ i + 1 # at
      BY <1>1, <1>2, <1>4, <2>2
    <3> QED
      BY <1>1, <3>1 DEF Distinct
  <2> QED
    BY <1>1, <1>2, <1>4, <2>1, <2>2
<1> QED
  BY <1>3, <1>4, <1>5, <1>6, <1>7, <1>8 DEF IsWithout

-----------------------------------------------------------------------------
(***************************************************************************)
(* An attempt starts Ready                                                 *)
(***************************************************************************)

\* A new call: the ticket is the last of its queue.
LEMMA InvokeReady ==
    ASSUME LaneInv, NEW t \in Threads, pc[t] = "idle"
    PROVE  Ready(t, Queued(t))
<1> DEFINE C == Category(t)
           q == Queued(t)
<1>1. /\ C \in Categories /\ Opposite(C) \in Categories /\ Opposite(C) # C
      /\ waiters \in [Categories -> Seq(Threads)]
  BY CategoryFacts DEF LaneInv, TypeOK
<1>2. q = [waiters EXCEPT ![C] = Append(@, t)]
  BY DEF Queued
<1>3. /\ q \in [Categories -> Seq(Threads)]
      /\ q[C] = Append(waiters[C], t)
      /\ \A c \in Categories : c # C => q[c] = waiters[c]
  BY <1>1, <1>2
<1>4. /\ Len(waiters[C]) \in Nat /\ Len(q[C]) = Len(waiters[C]) + 1
      /\ q[C][Len(q[C])] = t
      /\ \A i \in 1..Len(waiters[C]) : q[C][i] = waiters[C][i]
  BY <1>1, <1>3
<1>5. \A c \in Categories : q[c] \in Seq(Threads) /\ waiters[c] \in Seq(Threads)
  BY <1>1, <1>3
<1>6. \A c \in Categories : waiters[c] # <<>> => q[c] # <<>> /\ q[c][1] = waiters[c][1]
  <2>1. \A c \in Categories : c # C => q[c] = waiters[c]
    BY <1>3
  <2>2. waiters[C] # <<>> => Len(waiters[C]) > 0
    BY <1>1, <1>5, EmptyIffLengthZero
  <2>3. waiters[C] # <<>> => Len(q[C]) > 0 /\ q[C][1] = waiters[C][1]
    BY <1>4, <2>2
  <2>4. Len(q[C]) > 0 => q[C] # <<>>
    BY <1>1, <1>5, EmptyIffLengthZero
  <2> QED
    BY <2>1, <2>3, <2>4
<1> HIDE DEF q, C
<1>7. \E i \in 1..Len(q[C]) : q[C][i] = t
  BY <1>4
<1>8. \A u \in Threads \ {t} : Waiting(u) =>
          \E i \in 1..Len(q[Category(u)]) : q[Category(u)][i] = u
  <2> TAKE u \in Threads \ {t}
  <2> HAVE Waiting(u)
  <2>1. PICK i \in 1..Len(waiters[Category(u)]) : waiters[Category(u)][i] = u
    BY DEF LaneInv, WaitersHaveTickets
  <2>2. CASE Category(u) = C
    BY <1>4, <2>1, <2>2
  <2>3. CASE Category(u) # C
    BY <1>3, <2>1, <2>3, CategoryFacts
  <2> QED
    BY <2>2, <2>3
<1>13. ASSUME NEW c \in Categories
       PROVE  /\ Distinct(q[c])
              /\ \A i \in 1..Len(q[c]) :
                    /\ Category(q[c][i]) = c
                    /\ q[c][i] # t => Waiting(q[c][i])
  <2>1. /\ Distinct(waiters[c])
        /\ \A i \in 1..Len(waiters[c]) :
              Category(waiters[c][i]) = c /\ Waiting(waiters[c][i])
        /\ \A i \in 1..Len(waiters[c]) : waiters[c][i] # t
    BY DEF LaneInv, TicketsHaveOwners, TicketsAreDistinct, Waiting
  <2>2. CASE c = C
    <3>1. \A i \in 1..Len(q[C]) : i \in 1..Len(waiters[C]) \/ i = Len(q[C])
      BY <1>4
    <3>2. Distinct(q[C])
      BY <1>4, <2>1, <2>2, <3>1 DEF Distinct
    <3> QED
      BY <1>4, <2>1, <2>2, <3>1, <3>2 DEF C
  <2>3. CASE c # C
    BY <1>3, <2>1, <2>3
  <2> QED
    BY <2>2, <2>3
<1>9. nextCategory # "none" => q[nextCategory] # <<>>
  BY <1>6 DEF LaneInv, TypeOK, TurnHasATaker
<1>10. activeCategory = "none" /\ nextCategory = "none" =>
          MayEnter(t, q) /\ Len(q[C]) = 1 /\ q[Opposite(C)] = <<>>
  <2> HAVE activeCategory = "none" /\ nextCategory = "none"
  <2>1. waiters[C] = <<>> /\ waiters[Opposite(C)] = <<>>
    BY <1>1 DEF LaneInv, TurnHasATaker
  <2>2. Len(q[C]) = 1 /\ q[C][1] = t /\ q[Opposite(C)] = <<>>
    BY <1>1, <1>3, <1>4, <1>5, <2>1, EmptyIffLengthZero
  <2>3. q[C] # <<>> /\ Head(q[C]) = t
    BY <1>1, <1>5, <2>2, EmptyIffLengthZero
  <2> QED
    BY <2>2, <2>3 DEF MayEnter, C
<1>11. \A u \in Threads \ {t} : pc[u] = "asleep" => ~MayEnter(u, q)
  <2> TAKE u \in Threads \ {t}
  <2> HAVE pc[u] = "asleep"
  <2>1. ~MayEnter(u, waiters) /\ Category(u) \in Categories
    BY CategoryFacts DEF LaneInv, NoLostWakeup
  <2>2. waiters[Category(u)] # <<>>
    BY <1>5, <2>1, EmptyIffLengthZero DEF LaneInv, WaitersHaveTickets, Waiting
  <2>3. Head(q[Category(u)]) = Head(waiters[Category(u)])
    BY <1>5, <1>6, <2>1, <2>2, EmptyIffLengthZero
  <2> QED
    BY <2>1, <2>2, <2>3 DEF MayEnter
<1>12. \A u \in Threads : overtakes[u] > 0 =>
          q[Category(u)] # <<>> /\ q[Category(u)][1] = u
  BY <1>6, CategoryFacts DEF LaneInv, OvertakenIsNext
<1> QED
  BY <1>3, <1>7, <1>8, <1>9, <1>10, <1>11, <1>12, <1>13 DEF Ready, q, C

\* A retry: the ticket has been in its queue since the call.
LEMMA RetryReady ==
    ASSUME LaneInv, NEW t \in Threads, pc[t] = "awake"
    PROVE  Ready(t, waiters)
<1>1. \A u \in Threads : Waiting(u) =>
          \E i \in 1..Len(waiters[Category(u)]) : waiters[Category(u)][i] = u
  BY DEF LaneInv, WaitersHaveTickets
<1>2. \E i \in 1..Len(waiters[Category(t)]) : waiters[Category(t)][i] = t
  BY <1>1 DEF Waiting
<1>3. waiters[Category(t)] # <<>>
  BY <1>2, CategoryFacts, EmptyIffLengthZero DEF LaneInv, TypeOK
<1>4. ~(activeCategory = "none" /\ nextCategory = "none")
  BY <1>3, CategoryFacts DEF LaneInv, TurnHasATaker
<1> QED
  BY <1>1, <1>2, <1>4
     DEF Ready, LaneInv, TypeOK, TurnHasATaker, NoLostWakeup, OvertakenIsNext,
         TicketsHaveOwners, TicketsAreDistinct

-----------------------------------------------------------------------------
(***************************************************************************)
(* The outcomes of an attempt                                              *)
(***************************************************************************)

\* Entering: only the head of the queue enters, and only a free lane.
LEMMA EnterInv ==
    ASSUME LaneInv, NEW t \in Threads, NEW q, Ready(t, q), Enter(t, q)
    PROVE  LaneInv'
<1> DEFINE C == Category(t)
           rest == Tail(q[C])
<1> USE DEF LaneInv
<1>1. /\ C \in Categories /\ Opposite(C) \in Categories /\ Opposite(C) # C
      /\ C # "none"
      /\ \A u \in Threads : Category(u)' = Category(u) /\ Category(u) \in Categories
  BY CategoryFacts DEF Enter, callerVars, Category
<1>2. /\ q \in [Categories -> Seq(Threads)]
      /\ q[C] # <<>> /\ Head(q[C]) = t /\ activeCategory = "none"
      /\ nextCategory \in {"none", C}
  BY DEF Ready, Enter, MayEnter
<1>3. /\ rest \in Seq(Threads) /\ Len(q[C]) \in Nat /\ Len(rest) = Len(q[C]) - 1
      /\ \A i \in 1..Len(rest) : rest[i] = q[C][i + 1]
      /\ q[C][1] = t
  BY <1>1, <1>2, HeadTailProperties, EmptyIffLengthZero
<1>4. /\ waiters' = [q EXCEPT ![C] = rest]
      /\ activeCategory' = C /\ activeThread' = t /\ nextCategory' = "none"
      /\ pc' = [pc EXCEPT ![t] = "operating"]
      /\ session' = session /\ cancelled' = cancelled /\ expired' = expired
  BY DEF Enter, callerVars
<1>5. /\ waiters' \in [Categories -> Seq(Threads)]
      /\ waiters'[C] = rest /\ waiters'[Opposite(C)] = q[Opposite(C)]
  BY <1>1, <1>2, <1>3, <1>4
<1>6. \A u \in Threads \ {t} : pc'[u] = pc[u]
  BY <1>4 DEF TypeOK
<1>7. pc'[t] = "operating"
  BY <1>4 DEF TypeOK
<1>8. \A u \in Threads : overtakes'[u] =
          IF u = t THEN 0
          ELSE IF q[Opposite(C)] # <<>> /\ u = Head(q[Opposite(C)])
          THEN Saturated(overtakes[u] + 1) ELSE overtakes[u]
  BY DEF Enter
<1> HIDE DEF C, rest
<1>9. TypeOK'
  <2>1. overtakes' \in [Threads -> 0..OvertakesCounted]
    BY DEF Enter, TypeOK, Saturated, OvertakesCounted
  <2> QED
    BY <1>1, <1>4, <1>5, <2>1 DEF TypeOK, Places
<1>10. MutualExclusion'
  <2>1. \A u \in Threads : pc[u] # "operating"
    BY <1>2, NoThreadAssumption DEF MutualExclusion, ActiveRecord
  <2> QED
    BY <1>4, <1>6, <1>7, <2>1 DEF MutualExclusion
<1>11. TurnHasATaker'
  BY <1>1, <1>4 DEF TurnHasATaker
<1>12. NoLostWakeup'
  BY <1>1, <1>4 DEF NoLostWakeup, MayEnter
<1>13. ActiveRecord'
  BY <1>1, <1>4, NoThreadAssumption DEF ActiveRecord
<1>14. WaitersHaveTickets'
  <2> SUFFICES ASSUME NEW u \in Threads, Waiting(u)'
               PROVE  \E i \in 1..Len(waiters'[Category(u)]) :
                          waiters'[Category(u)][i] = u
    BY <1>1 DEF WaitersHaveTickets
  <2>1. u # t /\ Waiting(u)
    BY <1>6, <1>7 DEF Waiting
  <2>2. PICK k \in 1..Len(q[Category(u)]) : q[Category(u)][k] = u
    BY <2>1 DEF Ready
  <2>3. CASE Category(u) = C
    <3>1. k # 1
      BY <1>3, <2>1, <2>2, <2>3
    <3>2. k - 1 \in 1..Len(rest) /\ rest[k - 1] = u
      BY <1>3, <2>2, <2>3, <3>1
    <3> QED
      BY <1>5, <2>3, <3>2
  <2>4. CASE Category(u) = Opposite(C)
    BY <1>5, <2>2, <2>4
  <2> QED
    BY <1>1, <2>3, <2>4, CategoryFacts
<1>15. OvertakenIsNext'
  <2> SUFFICES ASSUME NEW u \in Threads, overtakes'[u] > 0
               PROVE  /\ Waiting(u)' /\ overtakes'[u] = 1
                      /\ waiters'[Category(u)] # <<>> /\ waiters'[Category(u)][1] = u
                      /\ activeCategory' = Opposite(Category(u))
    BY <1>1 DEF OvertakenIsNext, Opposite
  <2>1. u # t
    BY <1>8
  <2>2. CASE overtakes[u] > 0
    <3>1. /\ Waiting(u) /\ overtakes[u] = 1
          /\ nextCategory = Category(u)
          /\ q[Category(u)] # <<>> /\ q[Category(u)][1] = u
      BY <1>1, <1>2, <2>2, CategoryFacts DEF OvertakenIsNext, Ready
    <3>2. Category(u) = C
      BY <1>1, <1>2, <3>1, CategoryFacts
    <3> QED
      BY <1>3, <2>1, <3>1, <3>2
  <2>3. CASE ~(overtakes[u] > 0)
    <3>1. /\ overtakes[u] = 0
          /\ q[Opposite(C)] # <<>> /\ u = Head(q[Opposite(C)])
          /\ overtakes'[u] = 1
      BY <1>8, <2>1, <2>3 DEF TypeOK, Saturated, OvertakesCounted
    <3>2. q[Opposite(C)] \in Seq(Threads)
      BY <1>1, <1>2
    <3>3. q[Opposite(C)][1] = u
      BY <3>1, <3>2, EmptyIffLengthZero
    <3>4. Waiting(u) /\ Category(u) = Opposite(C)
      BY <1>1, <2>1, <3>1, <3>2, <3>3, EmptyIffLengthZero DEF Ready
    <3> QED
      BY <1>1, <1>4, <1>5, <1>6, <2>1, <3>1, <3>3, <3>4, CategoryFacts DEF Waiting
  <2> QED
    BY <2>2, <2>3
<1>16. ASSUME NEW c \in Categories
       PROVE  /\ Distinct(waiters'[c])
              /\ \A i \in 1..Len(waiters'[c]) :
                    /\ waiters'[c][i] \in Threads /\ Category(waiters'[c][i]) = c
                    /\ pc'[waiters'[c][i]] \in {"asleep", "awake"}
  <2>1. /\ Distinct(q[c])
        /\ \A i \in 1..Len(q[c]) :
              /\ Category(q[c][i]) = c /\ q[c][i] \in Threads
              /\ q[c][i] # t => Waiting(q[c][i])
    BY <1>2, ElementOfSeq DEF Ready
  <2>2. CASE c = C
    <3>1. ASSUME NEW i \in 1..Len(rest)
          PROVE  i + 1 \in 1..Len(q[C]) /\ rest[i] = q[C][i + 1] /\ q[C][i + 1] # t
      BY <1>3, <2>1, <2>2 DEF Distinct
    <3>2. Distinct(rest)
      BY <1>3, <2>1, <2>2, <3>1 DEF Distinct
    <3>3. ASSUME NEW i \in 1..Len(rest)
          PROVE  /\ rest[i] \in Threads /\ Category(rest[i]) = c
                 /\ pc'[rest[i]] \in {"asleep", "awake"}
      <4>1. /\ rest[i] \in Threads \ {t} /\ Category(rest[i]) = c
            /\ Waiting(rest[i])
        BY <2>1, <2>2, <3>1
      <4> QED
        BY <1>6, <4>1 DEF Waiting
    <3>4. waiters'[c] = rest
      BY <1>5, <2>2
    <3> QED
      BY <3>2, <3>3, <3>4
  <2>3. CASE c = Opposite(C)
    <3>1. \A i \in 1..Len(q[c]) : q[c][i] # t
      BY <1>1, <2>1, <2>3 DEF C
    <3> QED
      BY <1>5, <1>6, <2>1, <2>3, <3>1 DEF Waiting
  <2> QED
    BY <1>1, <2>2, <2>3, CategoryFacts
<1>17. TicketsHaveOwners' /\ TicketsAreDistinct'
  BY <1>1, <1>16 DEF TicketsHaveOwners, TicketsAreDistinct, Distinct, Waiting
<1> QED
  BY <1>9, <1>10, <1>11, <1>12, <1>13, <1>14, <1>15, <1>17

\* Going to sleep: not while the lane is the caller's to take.
LEMMA SleepInv ==
    ASSUME LaneInv, NEW t \in Threads, NEW q, Ready(t, q), Sleep(t, q)
    PROVE  LaneInv'
<1> USE DEF LaneInv
<1>1. /\ \A u \in Threads : Category(u)' = Category(u) /\ Category(u) \in Categories
      /\ \A u \in Threads : MayEnter(u, waiters)' <=> MayEnter(u, q)
  BY CategoryFacts DEF Sleep, callerVars, Category, MayEnter
<1>2. /\ waiters' = q /\ q \in [Categories -> Seq(Threads)]
      /\ activeCategory' = activeCategory /\ activeThread' = activeThread
      /\ nextCategory' = nextCategory /\ overtakes' = overtakes
      /\ session' = session /\ cancelled' = cancelled /\ expired' = expired
      /\ pc' = [pc EXCEPT ![t] = "asleep"]
      /\ ~MayEnter(t, q)
  BY DEF Sleep, callerVars, Ready
<1>3. /\ \A u \in Threads \ {t} : pc'[u] = pc[u]
      /\ pc'[t] = "asleep" /\ pc[t] # "operating" /\ pc[t] # "asleep"
  BY <1>2 DEF TypeOK, Ready
<1>4. TypeOK'
  BY <1>2 DEF TypeOK, Places
<1>5. MutualExclusion' /\ ActiveRecord'
  BY <1>2, <1>3 DEF MutualExclusion, ActiveRecord
<1>6. TurnHasATaker'
  BY <1>2 DEF TurnHasATaker, Ready
<1>7. NoLostWakeup'
  BY <1>1, <1>2, <1>3 DEF NoLostWakeup, Ready
<1>8. WaitersHaveTickets'
  <2> SUFFICES ASSUME NEW u \in Threads, Waiting(u)'
               PROVE  \E i \in 1..Len(q[Category(u)]) : q[Category(u)][i] = u
    BY <1>1, <1>2 DEF WaitersHaveTickets
  <2>1. CASE u = t
    BY <2>1 DEF Ready
  <2>2. CASE u # t
    BY <1>3, <2>2 DEF Waiting, Ready
  <2> QED
    BY <2>1, <2>2
<1>9. TicketsHaveOwners' /\ TicketsAreDistinct'
  <2>1. \A c \in Categories : \A i \in 1..Len(q[c]) : q[c][i] \in Threads
    BY <1>2, ElementOfSeq
  <2> QED
    BY <1>1, <1>2, <1>3, <2>1
       DEF TicketsHaveOwners, TicketsAreDistinct, Distinct, Waiting, Ready
<1>10. OvertakenIsNext'
  BY <1>1, <1>2, <1>3 DEF OvertakenIsNext, Waiting, Ready
<1> QED
  BY <1>4, <1>5, <1>6, <1>7, <1>8, <1>9, <1>10

\* Giving up: the ticket is removed, the turn repaired, everybody notified.
LEMMA LeaveInv ==
    ASSUME LaneInv, NEW t \in Threads, NEW q, Ready(t, q), Leave(t, q)
    PROVE  LaneInv'
<1> DEFINE C == Category(t)
           rest == Without(q[C], t)
<1> USE DEF LaneInv
<1>1. /\ C \in Categories /\ Opposite(C) \in Categories /\ Opposite(C) # C
      /\ C # "none" /\ Opposite(C) # "none"
      /\ \A u \in Threads : Category(u)' = Category(u) /\ Category(u) \in Categories
  BY CategoryFacts DEF Leave, Category
<1>2. /\ q \in [Categories -> Seq(Threads)]
      /\ \E i \in 1..Len(q[C]) : q[C][i] = t
      /\ Distinct(q[C])
  BY <1>1 DEF Ready
<1> HIDE DEF C
<1>3. /\ rest \in Seq(Threads) /\ Len(rest) = Len(q[C]) - 1
      /\ \A u \in Threads \ {t} : (\E i \in 1..Len(q[C]) : q[C][i] = u) =>
            \E i \in 1..Len(rest) : rest[i] = u
      /\ q[C][1] # t => Len(rest) > 0 /\ rest[1] = q[C][1]
      /\ Distinct(rest)
      /\ \A i \in 1..Len(rest) : rest[i] # t /\ \E k \in 1..Len(q[C]) : rest[i] = q[C][k]
  <2>1. q[C] \in Seq(Threads)
    BY <1>1, <1>2
  <2>2. IsWithout(rest, q[C], t)
    BY <1>2, <2>1, WithoutFacts
  <2> QED
    BY <2>2 DEF IsWithout
<1>0. activeCategory' = activeCategory
  BY DEF Leave
<1>4. /\ waiters' = [q EXCEPT ![C] = rest]
      /\ nextCategory' = Repaired(C, waiters')
      /\ activeCategory' = activeCategory /\ activeThread' = activeThread
      /\ pc' = Notified([pc EXCEPT ![t] = "idle"])
      /\ overtakes' = [overtakes EXCEPT ![t] = 0]
      /\ expired' = [expired EXCEPT ![t] = FALSE]
      /\ session' = session /\ cancelled' = cancelled
  BY DEF Leave, C
<1>5. /\ waiters' \in [Categories -> Seq(Threads)]
      /\ waiters'[C] = rest /\ waiters'[Opposite(C)] = q[Opposite(C)]
  BY <1>1, <1>2, <1>3, <1>4
<1>6. /\ pc' \in [Threads -> Places \ {"asleep"}]
      /\ pc'[t] = "idle"
      /\ \A u \in Threads \ {t} :
            /\ pc'[u] = IF pc[u] = "asleep" THEN "awake" ELSE pc[u]
            /\ overtakes'[u] = overtakes[u]
      /\ overtakes'[t] = 0
  BY <1>4 DEF TypeOK, Notified, Places
<1>7. /\ Repaired(C, waiters') \in Categories \cup {"none"}
      /\ rest # <<>> => nextCategory' = nextCategory
      /\ nextCategory # C => nextCategory' = nextCategory
      /\ nextCategory = C /\ rest = <<>> =>
            nextCategory' = IF q[Opposite(C)] # <<>> THEN Opposite(C) ELSE "none"
  BY <1>1, <1>4, <1>5 DEF Repaired, TypeOK
<1> HIDE DEF rest
<1>8. TypeOK'
  <2>1. overtakes' \in [Threads -> 0..OvertakesCounted]
    BY <1>4 DEF TypeOK, OvertakesCounted
  <2> QED
    BY <1>4, <1>5, <1>6, <1>7, <2>1 DEF TypeOK
<1>9. MutualExclusion' /\ ActiveRecord'
  <2>1. \A u \in Threads : pc'[u] = "operating" <=> pc[u] = "operating"
    BY <1>6 DEF Ready
  <2> QED
    BY <1>4, <2>1 DEF MutualExclusion, ActiveRecord
<1>10. TurnHasATaker'
  <2>1. /\ nextCategory # "none" => activeCategory = "none" /\ q[nextCategory] # <<>>
        /\ activeCategory = "none" /\ nextCategory = "none" =>
              Len(q[C]) = 1 /\ q[Opposite(C)] = <<>>
    BY DEF Ready, TurnHasATaker, C
  <2>2. /\ Len(rest) = 0 <=> rest = <<>>
        /\ nextCategory \in {"none", C, Opposite(C)}
        /\ \A c \in Categories : c = C \/ c = Opposite(C)
    BY <1>1, <1>3, EmptyIffLengthZero, CategoryFacts DEF TypeOK
  <2>3. CASE nextCategory = "none"
    BY <1>1, <1>3, <1>4, <1>5, <1>7, <2>1, <2>2, <2>3 DEF TurnHasATaker
  <2>4. CASE nextCategory = C
    BY <1>1, <1>4, <1>5, <1>7, <2>1, <2>2, <2>4 DEF TurnHasATaker
  <2>5. CASE nextCategory = Opposite(C)
    BY <1>1, <1>4, <1>5, <1>7, <2>1, <2>5 DEF TurnHasATaker
  <2> QED
    BY <2>2, <2>3, <2>4, <2>5
<1>11. NoLostWakeup'
  BY <1>6 DEF NoLostWakeup
<1>12. WaitersHaveTickets'
  <2> SUFFICES ASSUME NEW u \in Threads, Waiting(u)'
               PROVE  \E i \in 1..Len(waiters'[Category(u)]) :
                          waiters'[Category(u)][i] = u
    BY <1>1 DEF WaitersHaveTickets
  <2>1. u # t /\ Waiting(u)
    BY <1>6 DEF Waiting
  <2>2. \E k \in 1..Len(q[Category(u)]) : q[Category(u)][k] = u
    BY <2>1 DEF Ready
  <2>3. CASE Category(u) = C
    <3>1. \E i \in 1..Len(rest) : rest[i] = u
      BY <1>3, <2>1, <2>2, <2>3
    <3> QED
      BY <1>5, <2>3, <3>1
  <2>4. CASE Category(u) = Opposite(C)
    BY <1>5, <2>2, <2>4
  <2> QED
    BY <1>1, <2>3, <2>4, CategoryFacts
<1>13. ASSUME NEW c \in Categories
       PROVE  /\ Distinct(waiters'[c])
              /\ \A i \in 1..Len(waiters'[c]) :
                    /\ waiters'[c][i] \in Threads /\ Category(waiters'[c][i]) = c
                    /\ pc'[waiters'[c][i]] \in {"asleep", "awake"}
  <2>1. /\ Distinct(q[c])
        /\ \A i \in 1..Len(q[c]) :
              /\ Category(q[c][i]) = c /\ q[c][i] \in Threads
              /\ q[c][i] # t => pc'[q[c][i]] = "awake"
    BY <1>2, <1>6, ElementOfSeq DEF Ready, Waiting
  <2>2. CASE c = C
    <3>1. ASSUME NEW i \in 1..Len(rest)
          PROVE  /\ rest[i] \in Threads /\ Category(rest[i]) = c
                 /\ pc'[rest[i]] \in {"asleep", "awake"}
      <4>1. PICK k \in 1..Len(q[C]) : rest[i] = q[C][k]
        BY <1>3
      <4> QED
        BY <1>3, <2>1, <2>2, <4>1
    <3>2. waiters'[c] = rest
      BY <1>5, <2>2
    <3> QED
      BY <1>3, <3>1, <3>2
  <2>3. CASE c = Opposite(C)
    <3>1. \A i \in 1..Len(q[c]) : q[c][i] # t
      BY <1>1, <2>1, <2>3 DEF C
    <3> QED
      BY <1>5, <2>1, <2>3, <3>1
  <2> QED
    BY <1>1, <2>2, <2>3, CategoryFacts
<1>14. TicketsHaveOwners' /\ TicketsAreDistinct'
  BY <1>1, <1>13 DEF TicketsHaveOwners, TicketsAreDistinct, Distinct, Waiting
<1>15. OvertakenIsNext'
  <2> SUFFICES ASSUME NEW u \in Threads, overtakes'[u] > 0
               PROVE  /\ Waiting(u)' /\ overtakes'[u] = 1
                      /\ waiters'[Category(u)] # <<>> /\ waiters'[Category(u)][1] = u
                      /\ \/ activeCategory = Opposite(Category(u))
                         \/ activeCategory = "none" /\ nextCategory' = Category(u)
    BY <1>0, <1>1 DEF OvertakenIsNext, Opposite
  <2>1. /\ u # t /\ overtakes[u] > 0 /\ Waiting(u) /\ overtakes[u] = 1
        /\ q[Category(u)] # <<>> /\ q[Category(u)][1] = u
        /\ \/ activeCategory = Opposite(Category(u))
           \/ activeCategory = "none" /\ nextCategory = Category(u)
    BY <1>6 DEF OvertakenIsNext, Ready
  <2>2. Waiting(u)' /\ overtakes'[u] = 1
    BY <1>6, <2>1 DEF Waiting
  <2>3. CASE Category(u) = C
    <3>1. rest # <<>> /\ rest[1] = u
      BY <1>3, <2>1, <2>3, EmptyIffLengthZero
    <3> QED
      BY <1>5, <1>7, <2>1, <2>2, <2>3, <3>1
  <2>4. CASE Category(u) # C
    <3>1. Category(u) = Opposite(C)
      BY <1>1, <2>4, CategoryFacts
    <3> QED
      BY <1>5, <1>7, <2>1, <2>2, <2>4, <3>1
  <2> QED
    BY <2>3, <2>4
<1> QED
  BY <1>8, <1>9, <1>10, <1>11, <1>12, <1>14, <1>15

-----------------------------------------------------------------------------
(***************************************************************************)
(* The other actions                                                       *)
(***************************************************************************)

\* The lane is freed: the turn goes to a category with waiters, if there is one.
LEMMA CompleteInv ==
    ASSUME LaneInv, NEW t \in Threads, Complete(t)
    PROVE  LaneInv'
<1> USE DEF LaneInv
<1>1. /\ \A u \in Threads : Category(u)' = Category(u) /\ Category(u) \in Categories
      /\ activeCategory' = "none" /\ activeThread' = NoThread
      /\ nextCategory' = HandOver(activeCategory)
      /\ waiters' = waiters /\ overtakes' = overtakes
      /\ session' = session /\ cancelled' = cancelled /\ expired' = expired
  BY CategoryFacts DEF Complete, callerVars, Category
<1>2. /\ activeThread = t /\ activeCategory # "none" /\ activeCategory \in Categories
      /\ nextCategory = "none"
      /\ \A u \in Threads \ {t} : pc[u] # "operating"
  BY NoThreadAssumption
     DEF Complete, MutualExclusion, ActiveRecord, TurnHasATaker, TypeOK
<1>3. /\ pc' \in [Threads -> Places \ {"asleep", "operating"}]
      /\ \A u \in Threads : Waiting(u)' <=> Waiting(u)
  BY <1>2 DEF Complete, TypeOK, Notified, Places, Waiting
<1>4. /\ nextCategory' \in Categories \cup {"none"}
      /\ nextCategory' # "none" => waiters[nextCategory'] # <<>>
      /\ nextCategory' = "none" => \A c \in Categories : waiters[c] = <<>>
      /\ waiters[Opposite(activeCategory)] # <<>> =>
            nextCategory' = Opposite(activeCategory)
  BY <1>1, <1>2, CategoryFacts DEF HandOver
<1>5. TypeOK'
  BY <1>1, <1>3, <1>4 DEF TypeOK
<1>6. MutualExclusion' /\ ActiveRecord'
  BY <1>1, <1>3, NoThreadAssumption DEF MutualExclusion, ActiveRecord
<1>7. TurnHasATaker'
  BY <1>1, <1>4 DEF TurnHasATaker
<1>8. NoLostWakeup'
  BY <1>3 DEF NoLostWakeup
<1>9. WaitersHaveTickets'
  BY <1>1, <1>3 DEF WaitersHaveTickets
<1>10. TicketsHaveOwners' /\ TicketsAreDistinct'
  <2>1. \A c \in Categories : \A i \in 1..Len(waiters[c]) : waiters[c][i] \in Threads
    BY ElementOfSeq DEF TypeOK
  <2> QED
    BY <1>1, <1>3, <2>1 DEF TicketsHaveOwners, TicketsAreDistinct, Distinct
<1>11. OvertakenIsNext'
  <2> SUFFICES ASSUME NEW u \in Threads, overtakes[u] > 0
               PROVE  /\ Waiting(u)' /\ overtakes[u] = 1
                      /\ waiters[Category(u)] # <<>> /\ waiters[Category(u)][1] = u
                      /\ nextCategory' = Category(u)
    BY <1>1 DEF OvertakenIsNext, Opposite
  <2>1. /\ Waiting(u) /\ overtakes[u] = 1
        /\ waiters[Category(u)] # <<>> /\ waiters[Category(u)][1] = u
        /\ activeCategory = Opposite(Category(u))
    BY <1>2 DEF OvertakenIsNext
  <2> QED
    BY <1>1, <1>3, <1>4, <2>1, CategoryFacts
<1> QED
  BY <1>5, <1>6, <1>7, <1>8, <1>9, <1>10, <1>11

\* Sessions open and close only around calls.
LEMMA SessionInv ==
    ASSUME LaneInv, NEW t \in Threads,
           (\E c \in Categories : OpenSession(t, c)) \/ CloseSession(t)
    PROVE  LaneInv'
<1> USE DEF LaneInv
<1>1. /\ waiters' = waiters /\ activeCategory' = activeCategory
      /\ activeThread' = activeThread /\ nextCategory' = nextCategory
      /\ pc' = pc /\ overtakes' = overtakes
      /\ pc[t] = "idle"
      /\ session' \in [Threads -> Categories \cup {"none"}]
      /\ \A u \in Threads \ {t} : session'[u] = session[u]
  BY DEF OpenSession, CloseSession, laneVars, TypeOK
<1>2. \A u \in Threads \ {t} : Category(u)' = Category(u) /\ Category(u) \in Categories
  BY <1>1, CategoryFacts DEF Category
<1>3. \A u \in Threads : Waiting(u) => u # t /\ Category(u)' = Category(u)
  BY <1>1, <1>2 DEF Waiting
<1>4. TypeOK'
  BY <1>1 DEF OpenSession, CloseSession, TypeOK
<1>5. MutualExclusion' /\ ActiveRecord' /\ TurnHasATaker' /\ TicketsAreDistinct'
  BY <1>1 DEF MutualExclusion, ActiveRecord, TurnHasATaker, TicketsAreDistinct
<1>6. NoLostWakeup'
  BY <1>1, <1>3 DEF NoLostWakeup, MayEnter, Waiting
<1>7. WaitersHaveTickets'
  <2> SUFFICES ASSUME NEW u \in Threads, Waiting(u)
               PROVE  \E i \in 1..Len(waiters[Category(u)]) : waiters[Category(u)][i] = u
    BY <1>1, <1>3 DEF WaitersHaveTickets, Waiting
  <2> QED
    BY DEF WaitersHaveTickets
<1>8. TicketsHaveOwners'
  <2> SUFFICES ASSUME NEW c \in Categories, NEW i \in 1..Len(waiters[c])
               PROVE  Waiting(waiters[c][i])' /\ Category(waiters[c][i])' = c
    BY <1>1 DEF TicketsHaveOwners, Waiting, Category
  <2>1. waiters[c][i] \in Threads
    BY ElementOfSeq DEF TypeOK
  <2> QED
    BY <1>1, <1>3, <2>1 DEF TicketsHaveOwners, Waiting
<1>9. OvertakenIsNext'
  <2> SUFFICES ASSUME NEW u \in Threads, overtakes[u] > 0
               PROVE  /\ Waiting(u) /\ overtakes[u] = 1
                      /\ waiters[Category(u)] # <<>> /\ waiters[Category(u)][1] = u
                      /\ \/ activeCategory = Opposite(Category(u))
                         \/ activeCategory = "none" /\ nextCategory = Category(u)
    BY <1>1, <1>3 DEF OvertakenIsNext, Waiting, Opposite
  <2> QED
    BY DEF OvertakenIsNext
<1> QED
  BY <1>4, <1>5, <1>6, <1>7, <1>8, <1>9

\* What happens around a waiting call leaves the lane alone.
LEMMA SignalInv ==
    ASSUME LaneInv, NEW t \in Threads, Cancel(t) \/ Expire(t) \/ Poll(t)
    PROVE  LaneInv'
<1> USE DEF LaneInv
<1>1. /\ waiters' = waiters /\ activeCategory' = activeCategory
      /\ activeThread' = activeThread /\ nextCategory' = nextCategory
      /\ overtakes' = overtakes /\ session' = session
      /\ \A u \in Threads : Category(u)' = Category(u)
  BY DEF Cancel, Expire, Poll, laneVars, callerVars, Category
<1>2. /\ pc' \in [Threads -> Places]
      /\ \A u \in Threads :
            /\ pc'[u] = pc[u] \/ (pc[u] = "asleep" /\ pc'[u] = "awake")
            /\ Waiting(u)' <=> Waiting(u)
  BY DEF Cancel, Expire, Poll, TypeOK, Waiting, Places
<1>3. TypeOK'
  BY <1>1, <1>2 DEF Cancel, Expire, Poll, callerVars, TypeOK
<1>4. MutualExclusion' /\ ActiveRecord' /\ TurnHasATaker' /\ TicketsAreDistinct'
  BY <1>1, <1>2 DEF MutualExclusion, ActiveRecord, TurnHasATaker, TicketsAreDistinct
<1>5. NoLostWakeup'
  BY <1>1, <1>2 DEF NoLostWakeup, MayEnter
<1>6. WaitersHaveTickets'
  BY <1>1, <1>2 DEF WaitersHaveTickets
<1>7. TicketsHaveOwners'
  <2>1. \A c \in Categories : \A i \in 1..Len(waiters[c]) : waiters[c][i] \in Threads
    BY ElementOfSeq DEF TypeOK
  <2> QED
    BY <1>1, <1>2, <2>1 DEF TicketsHaveOwners
<1>8. OvertakenIsNext'
  BY <1>1, <1>2 DEF OvertakenIsNext, Opposite
<1> QED
  BY <1>3, <1>4, <1>5, <1>6, <1>7, <1>8

-----------------------------------------------------------------------------
(***************************************************************************)
(* The theorems                                                            *)
(***************************************************************************)

\* The lane starts free, with no tickets.
LEMMA InitLaneInv == Init => LaneInv
<1> SUFFICES ASSUME Init PROVE LaneInv
  OBVIOUS
<1>1. waiters \in [Categories -> Seq(Threads)]
  BY EmptySeq DEF Init
<1>2. \A c \in Categories : waiters[c] = <<>> /\ Len(waiters[c]) = 0
  BY EmptySeq DEF Init
<1>3. TypeOK
  BY <1>1 DEF Init, TypeOK, Places, OvertakesCounted
<1>4. \A t \in Threads : pc[t] = "idle" /\ overtakes[t] = 0 /\ activeThread # t
  BY NoThreadAssumption DEF Init
<1>5. MutualExclusion /\ TurnHasATaker /\ NoLostWakeup /\ ActiveRecord
  BY <1>2, <1>4 DEF Init, MutualExclusion, TurnHasATaker, NoLostWakeup, ActiveRecord
<1>6. WaitersHaveTickets /\ OvertakenIsNext
  BY <1>4 DEF WaitersHaveTickets, OvertakenIsNext, Waiting
<1>7. TicketsHaveOwners /\ TicketsAreDistinct
  BY <1>2 DEF TicketsHaveOwners, TicketsAreDistinct, Distinct
<1> QED
  BY <1>3, <1>5, <1>6, <1>7 DEF LaneInv

\* Every step keeps the invariant, whatever the set of threads.
LEMMA NextLaneInv == LaneInv /\ [Next]_vars => LaneInv'
<1> SUFFICES ASSUME LaneInv, [Next]_vars PROVE LaneInv'
  OBVIOUS
<1>1. ASSUME NEW t \in Threads, Invoke(t) PROVE LaneInv'
  <2>1. pc[t] = "idle" /\ Attempt(t, Queued(t))
    BY <1>1 DEF Invoke
  <2>2. Ready(t, Queued(t))
    BY <2>1, InvokeReady
  <2> QED
    BY <2>1, <2>2, LeaveInv, EnterInv, SleepInv DEF Attempt
<1>2. ASSUME NEW t \in Threads, Retry(t) PROVE LaneInv'
  <2>1. pc[t] = "awake" /\ Attempt(t, waiters)
    BY <1>2 DEF Retry
  <2>2. Ready(t, waiters)
    BY <2>1, RetryReady
  <2> QED
    BY <2>1, <2>2, LeaveInv, EnterInv, SleepInv DEF Attempt
<1>3. CASE UNCHANGED vars
  BY <1>3 DEF vars, laneVars, callerVars, LaneInv, TypeOK, MutualExclusion,
              TurnHasATaker, NoLostWakeup, ActiveRecord, WaitersHaveTickets,
              TicketsHaveOwners, TicketsAreDistinct, OvertakenIsNext, Waiting,
              Category, MayEnter, Opposite
<1> QED
  BY <1>1, <1>2, <1>3, CompleteInv, SessionInv, SignalInv DEF Next

\* LaneInv holds in every reachable state of a lane, for any set of threads.
THEOREM LaneInvariance == Spec => []LaneInv
  BY InitLaneInv, NextLaneInv, PTL DEF Spec

\* At most one model operation of a lane runs at a time, and _active_thread_id
\* names it (SerialInferenceLane.invoke).
THEOREM LaneMutualExclusion == Spec => []MutualExclusion
<1>1. LaneInv => MutualExclusion
  BY DEF LaneInv
<1> QED
  BY <1>1, LaneInvariance, PTL

\* No caller that leaves, by cancellation or timeout, keeps the lane reserved.
THEOREM LaneTurnHasATaker == Spec => []TurnHasATaker
<1>1. LaneInv => TurnHasATaker
  BY DEF LaneInv
<1> QED
  BY <1>1, LaneInvariance, PTL

\* No caller sleeps while the lane is its to take.
THEOREM LaneNoLostWakeup == Spec => []NoLostWakeup
<1>1. LaneInv => NoLostWakeup
  BY DEF LaneInv
<1> QED
  BY <1>1, LaneInvariance, PTL

\* Synchronous and asynchronous callers alternate, however many there are.
THEOREM LaneOvertakenAtMostOnce == Spec => []OvertakenAtMostOnce
<1>1. LaneInv => OvertakenAtMostOnce
  <2> SUFFICES ASSUME LaneInv, NEW t \in Threads PROVE overtakes[t] <= 1
    BY DEF OvertakenAtMostOnce
  <2>1. overtakes[t] \in 0..OvertakesCounted
    BY DEF LaneInv, TypeOK
  <2>2. overtakes[t] > 0 => overtakes[t] = 1
    BY DEF LaneInv, OvertakenIsNext
  <2> QED
    BY <2>1, <2>2 DEF OvertakesCounted
<1> QED
  BY <1>1, LaneInvariance, PTL

=============================================================================
