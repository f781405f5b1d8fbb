---------------------------- MODULE SharingProofs ---------------------------
(***************************************************************************)
(* What requests share.  The limiter of a Go process: for any number of    *)
(* calls, slots and waiting places its counts are exact, and it implements *)
(* Semaphore.  The warm identities of the browser service: for any number  *)
(* of keys, renders and identities, a profile directory never has two      *)
(* Chromes and none of an identity that was wiped, a browser is closed     *)
(* exactly when it is retired and nobody uses it, and no Chrome is left    *)
(* when the service exits.                                                 *)
(***************************************************************************)
EXTENDS Limiter, IdentityPool, FiniteSetTheorems, SequenceTheorems, TLAPS

------------------------------------------------------------------------------
(* The limiter. *)

\* The sets of calls that the counters count are finite, and grow and shrink by one.
LEMMA CountChange ==
  ASSUME NEW S \in SUBSET Calls, NEW c \in Calls
  PROVE  /\ IsFiniteSet(S) /\ Cardinality(S) \in Nat
         /\ Cardinality(S \union {c}) =
              IF c \in S THEN Cardinality(S) ELSE Cardinality(S) + 1
         /\ Cardinality(S \ {c}) =
              IF c \in S THEN Cardinality(S) - 1 ELSE Cardinality(S)
<1>1. IsFiniteSet(S)
  BY LimiterAssumption, FS_Subset
<1> QED BY <1>1, FS_CardinalityType, FS_AddElement, FS_RemoveElement

LEMMA CountIsMonotone ==
  ASSUME NEW S \in SUBSET Calls, NEW T \in SUBSET S
  PROVE  Cardinality(T) <= Cardinality(S)
BY LimiterAssumption, FS_Subset

\* The number of calls at a label, n before, after a call went from one to another.
Recount(n, label, from, to) ==
  IF (from = label) <=> (to = label) THEN n ELSE IF to = label THEN n + 1 ELSE n - 1

LEMMA CallMoves ==
  ASSUME LimiterTypeOK, NEW c \in Calls, NEW to \in PcStates, Goto(c, to)
  PROVE  /\ Cardinality(Working') = Recount(Cardinality(Working), "working", pc[c], to)
         /\ Cardinality(Rejecting') = Recount(Cardinality(Rejecting), "rejecting", pc[c], to)
         /\ Cardinality(Queued') = Recount(Cardinality(Queued), "queued", pc[c], to)
         /\ pc' \in [Calls -> PcStates] /\ pc'[c] = to
         /\ \A x \in Calls \ {c} : pc'[x] = pc[x]
<1> DEFINE Moved(S, label) == IF to = label THEN S \union {c} ELSE S \ {c}
<1>1. /\ pc' \in [Calls -> PcStates] /\ pc'[c] = to
      /\ \A x \in Calls \ {c} : pc'[x] = pc[x]
  BY DEF LimiterTypeOK, Goto
<1>2. /\ Working' = Moved(Working, "working")
      /\ Rejecting' = Moved(Rejecting, "rejecting")
      /\ Queued' = Moved(Queued, "queued")
  BY <1>1 DEF Working, Rejecting, Queued
<1>3. /\ c \in Working <=> pc[c] = "working"
      /\ c \in Rejecting <=> pc[c] = "rejecting"
      /\ c \in Queued <=> pc[c] = "queued"
      /\ Working \subseteq Calls /\ Rejecting \subseteq Calls /\ Queued \subseteq Calls
  BY DEF Working, Rejecting, Queued
<1> QED BY <1>1, <1>2, <1>3, CountChange DEF Recount

LEMMA CountsAreNumbers ==
  ASSUME LimiterTypeOK
  PROVE  /\ Cardinality(Working) \in Nat /\ Cardinality(Rejecting) \in Nat
         /\ Cardinality(Queued) \in Nat /\ Cardinality(tickets) \in Nat
<1>1. \A S \in SUBSET Calls : Cardinality(S) \in Nat
  BY LimiterAssumption, FS_Subset, FS_CardinalityType
<1> QED BY <1>1 DEF Working, Rejecting, Queued, LimiterTypeOK

\* Taking the element at a position out of a sequence keeps all others, in order.
LEMMA Removal ==
  ASSUME NEW q \in Seq(Calls), NEW i \in DOMAIN q
  PROVE  LET r == SubSeq(q, 1, i - 1) \o SubSeq(q, i + 1, Len(q))
         IN  /\ r \in Seq(Calls)
             /\ Len(r) = Len(q) - 1
             /\ \A k \in 1..Len(r) : r[k] = IF k < i THEN q[k] ELSE q[k + 1]
<1> DEFINE a == SubSeq(q, 1, i - 1)  b == SubSeq(q, i + 1, Len(q))
<1>1. Len(q) \in Nat /\ DOMAIN q = 1..Len(q) /\ q \in [1..Len(q) -> Calls]
  BY LenProperties
<1>2. /\ a \in Seq(Calls)
      /\ Len(a) = i - 1
      /\ \A k \in 1..(i - 1) : a[k] = q[k]
  <2>1. \A k \in 1..(i - 1) : q[k] \in Calls
    BY <1>1
  <2>2. i - 1 \in Int /\ 1 \in Int /\ i >= 1
    BY <1>1
  <2> QED BY <2>1, <2>2, SubSeqProperties
<1>3. /\ b \in Seq(Calls)
      /\ Len(b) = Len(q) - i
      /\ \A k \in 1..(Len(q) - i) : b[k] = q[i + k]
  <2>1. \A k \in (i + 1)..Len(q) : q[k] \in Calls
    BY <1>1
  <2>2. i \in Int /\ i + 1 \in Int /\ Len(q) \in Int /\ i <= Len(q)
    BY <1>1
  <2>3. /\ b \in Seq(Calls)
        /\ Len(b) = IF i + 1 <= Len(q) THEN Len(q) - (i + 1) + 1 ELSE 0
        /\ \A k \in 1..(Len(q) - (i + 1) + 1) : b[k] = q[(i + 1) + k - 1]
    BY <2>1, <2>2, SubSeqProperties, SMTT(30)
  <2> HIDE DEF b
  <2>4. Len(b) = Len(q) - i
    BY <2>2, <2>3, SMTT(30)
  <2>5. ASSUME NEW k \in 1..(Len(q) - i)
        PROVE  b[k] = q[i + k]
    <3>1. Len(q) - (i + 1) + 1 = Len(q) - i /\ (i + 1) + k - 1 = i + k
      <4>1. \A n, j \in Int : n - (j + 1) + 1 = n - j
        OBVIOUS
      <4>2. \A m, j \in Int : (j + 1) + m - 1 = j + m
        OBVIOUS
      <4>3. k \in Int
        OBVIOUS
      <4> QED BY <2>2, <4>1, <4>2, <4>3, Zenon
    <3>2. k \in 1..(Len(q) - (i + 1) + 1)
      BY <3>1
    <3>3. b[k] = q[(i + 1) + k - 1]
      BY <2>3, <3>2
    <3> QED BY <3>1, <3>3
  <2> QED BY <2>3, <2>4, <2>5
<1>4. /\ a \o b \in Seq(Calls)
      /\ Len(a \o b) = Len(a) + Len(b)
      /\ \A k \in 1..(Len(a) + Len(b)) :
           (a \o b)[k] = IF k <= Len(a) THEN a[k] ELSE b[k - Len(a)]
  BY <1>2, <1>3, ConcatProperties
<1> HIDE DEF a, b
<1>5. Len(a \o b) = Len(q) - 1
  BY <1>1, <1>2, <1>3, <1>4
<1>6. ASSUME NEW k \in 1..Len(a \o b)
      PROVE  (a \o b)[k] = IF k < i THEN q[k] ELSE q[k + 1]
  <2>0. /\ i \in 1..Len(q) /\ Len(q) \in Nat /\ Len(a) = i - 1
        /\ Len(a) + Len(b) = Len(q) - 1 /\ k \in 1..(Len(q) - 1)
    BY <1>1, <1>2, <1>3, <1>5
  <2>3. (a \o b)[k] = IF k <= Len(a) THEN a[k] ELSE b[k - Len(a)]
    BY <1>4, <2>0
  <2>1. CASE k < i
    <3>1. k \in 1..(i - 1) /\ k <= Len(a)
      BY <2>0, <2>1
    <3>2. a[k] = q[k]
      BY <1>2, <3>1
    <3> QED BY <2>1, <2>3, <3>1, <3>2
  <2>2. CASE ~ k < i
    <3>1. k - Len(a) \in 1..(Len(q) - i) /\ ~ k <= Len(a)
      BY <2>0, <2>2
    <3>2. b[k - Len(a)] = q[i + (k - Len(a))]
      BY <1>3, <3>1
    <3>3. i + (k - Len(a)) = k + 1
      BY <2>0
    <3> QED BY <2>2, <2>3, <3>1, <3>2, <3>3
  <2> QED BY <2>1, <2>2
<1> QED BY <1>4, <1>5, <1>6 DEF a, b

-----------------------------------------------------------------------------
LimiterIsSound == LimiterTypeOK /\ LimiterInv

LEMMA LimiterStartsSound == LimiterInit => LimiterIsSound
<1> SUFFICES ASSUME LimiterInit PROVE LimiterIsSound
  OBVIOUS
<1>1. Working = {} /\ Rejecting = {} /\ Queued = {}
  BY DEF LimiterInit, Working, Rejecting, Queued
<1>2. Cardinality({}) = 0
  BY FS_EmptySet
<1>3. LimiterTypeOK
  BY LimiterAssumption DEF LimiterInit, LimiterTypeOK, PcStates
<1>4. CountsAreExact
  BY <1>1, <1>2 DEF LimiterInit, CountsAreExact
<1>5. QueueIsExact
  BY <1>1, <1>2, LimiterAssumption DEF LimiterInit, QueueIsExact
<1> QED BY <1>3, <1>4, <1>5 DEF LimiterIsSound, LimiterInv

LEMMA RunKeepsInv == ASSUME LimiterIsSound, NEW c \in Calls, Run(c) PROVE LimiterIsSound'
<1> USE DEF LimiterIsSound, LimiterInv
<1>1. PICK to \in {"working", "counting"} :
        /\ Goto(c, to)
        /\ slots' = IF to = "working" THEN slots + 1 ELSE slots
        /\ slots' <= Concurrency
        /\ to = "working" => slots < Concurrency
  BY LimiterAssumption DEF Run, LimiterTypeOK
<1>2. pc[c] = "out" /\ to \in PcStates /\ UNCHANGED <<queue, waiting, tickets>>
  BY DEF Run, PcStates
<1>3. LimiterTypeOK'
  BY <1>1, <1>2, CallMoves, LimiterAssumption DEF LimiterTypeOK
<1>4. /\ Cardinality(Working') = slots'
      /\ Cardinality(Rejecting') = Cardinality(Rejecting)
      /\ Cardinality(Queued') = Cardinality(Queued)
      /\ \A x \in Calls \ {c} : pc'[x] = pc[x]
      /\ pc'[c] \in {"working", "counting"}
  BY <1>1, <1>2, CallMoves DEF CountsAreExact, Recount
<1>5. CountsAreExact'
  BY <1>1, <1>2, <1>4 DEF CountsAreExact, LimiterTypeOK
<1>6. QueueIsExact'
  BY <1>1, <1>2, <1>4 DEF QueueIsExact, LimiterTypeOK
<1> QED BY <1>3, <1>5, <1>6

LEMMA CountKeepsInv == ASSUME LimiterIsSound, NEW c \in Calls, Count(c) PROVE LimiterIsSound'
<1> USE DEF LimiterIsSound, LimiterInv
<1>1. pc[c] = "counting" /\ waiting' = waiting + 1 /\ UNCHANGED <<slots, queue>>
  BY DEF Count
<1>2. c \notin tickets /\ tickets \in SUBSET Calls
  BY <1>1 DEF CountsAreExact, LimiterTypeOK
<1>3. CASE waiting + 1 > MaxWaiting
  <2>1. Goto(c, "rejecting") /\ tickets' = tickets /\ "rejecting" \in PcStates
    BY <1>1, <1>3, LimiterAssumption DEF Count, LimiterTypeOK, PcStates
  <2>2. LimiterTypeOK'
    BY <1>1, <2>1, CallMoves DEF LimiterTypeOK
  <2>3. /\ Cardinality(Working') = Cardinality(Working)
        /\ Cardinality(Rejecting') = Cardinality(Rejecting) + 1
        /\ Cardinality(Queued') = Cardinality(Queued)
        /\ \A x \in Calls \ {c} : pc'[x] = pc[x]
        /\ pc'[c] = "rejecting"
    BY <1>1, <2>1, CallMoves DEF Recount
  <2>4. CountsAreExact'
    BY <1>1, <1>2, <2>1, <2>3, CountsAreNumbers DEF CountsAreExact
  <2>5. QueueIsExact'
    BY <1>1, <2>1, <2>3 DEF QueueIsExact, LimiterTypeOK
  <2> QED BY <2>2, <2>4, <2>5
<1>4. CASE waiting + 1 <= MaxWaiting
  <2>1. Goto(c, "blocking") /\ tickets' = tickets \union {c} /\ "blocking" \in PcStates
    BY <1>1, <1>4, LimiterAssumption DEF Count, LimiterTypeOK, PcStates
  <2>2. LimiterTypeOK'
    BY <1>1, <2>1, CallMoves DEF LimiterTypeOK
  <2>3. /\ Cardinality(Working') = Cardinality(Working)
        /\ Cardinality(Rejecting') = Cardinality(Rejecting)
        /\ Cardinality(Queued') = Cardinality(Queued)
        /\ \A x \in Calls \ {c} : pc'[x] = pc[x]
        /\ pc'[c] = "blocking"
    BY <1>1, <2>1, CallMoves DEF Recount
  <2>4. Cardinality(tickets') = Cardinality(tickets) + 1
    BY <1>2, <2>1, CountChange
  <2>5. CountsAreExact'
    <3>1. waiting' = Cardinality(tickets') + Cardinality(Rejecting')
      BY <1>1, <2>3, <2>4, CountsAreNumbers DEF CountsAreExact
    <3>2. \A x \in tickets' : pc'[x] \in {"blocking", "queued", "working", "leaving"}
      BY <1>2, <2>1, <2>3 DEF CountsAreExact
    <3> QED BY <1>1, <2>3, <3>1, <3>2 DEF CountsAreExact
  <2>6. Cardinality(tickets') <= MaxWaiting
    BY <1>4, <2>4, CountsAreNumbers, LimiterAssumption DEF CountsAreExact
  <2>7. QueueIsExact'
    BY <1>1, <2>1, <2>3, <2>6 DEF QueueIsExact, LimiterTypeOK
  <2> QED BY <2>2, <2>5, <2>7
<1> QED BY <1>3, <1>4, LimiterAssumption DEF LimiterTypeOK

LEMMA RejectKeepsInv == ASSUME LimiterIsSound, NEW c \in Calls, Reject(c) PROVE LimiterIsSound'
<1> USE DEF LimiterIsSound, LimiterInv
<1>1. /\ pc[c] = "rejecting" /\ Goto(c, "out") /\ "out" \in PcStates
      /\ waiting' = waiting - 1 /\ UNCHANGED <<slots, queue, tickets>>
  BY DEF Reject, PcStates
<1>2. /\ Cardinality(Working') = Cardinality(Working)
      /\ Cardinality(Rejecting') = Cardinality(Rejecting) - 1
      /\ Cardinality(Queued') = Cardinality(Queued)
      /\ pc' \in [Calls -> PcStates] /\ pc'[c] = "out"
      /\ \A x \in Calls \ {c} : pc'[x] = pc[x]
  BY <1>1, CallMoves DEF Recount
<1>3. c \notin tickets
  BY <1>1 DEF CountsAreExact
<1>4. waiting' = Cardinality(tickets') + Cardinality(Rejecting') /\ waiting' \in Nat
  <2>1. Rejecting \in SUBSET Calls /\ {c} \in SUBSET Rejecting
    BY <1>1 DEF Rejecting
  <2>2. Cardinality(Rejecting) >= 1
    BY <2>1, CountIsMonotone, FS_Singleton, CountsAreNumbers
  <2> QED BY <1>1, <1>2, <2>2, CountsAreNumbers DEF CountsAreExact
<1>5. LimiterTypeOK'
  BY <1>1, <1>2, <1>4 DEF LimiterTypeOK
<1>6. CountsAreExact'
  BY <1>1, <1>2, <1>3, <1>4 DEF CountsAreExact, LimiterTypeOK
<1>7. QueueIsExact'
  BY <1>1, <1>2 DEF QueueIsExact, LimiterTypeOK
<1> QED BY <1>5, <1>6, <1>7

LEMMA LeaveKeepsInv == ASSUME LimiterIsSound, NEW c \in Calls, Leave(c) PROVE LimiterIsSound'
<1> USE DEF LimiterIsSound, LimiterInv
<1>1. /\ pc[c] = "leaving" /\ Goto(c, "out") /\ "out" \in PcStates
      /\ waiting' = waiting - 1 /\ tickets' = tickets \ {c} /\ UNCHANGED <<slots, queue>>
  BY DEF Leave, PcStates
<1>2. /\ Cardinality(Working') = Cardinality(Working)
      /\ Cardinality(Rejecting') = Cardinality(Rejecting)
      /\ Cardinality(Queued') = Cardinality(Queued)
      /\ pc' \in [Calls -> PcStates] /\ pc'[c] = "out"
      /\ \A x \in Calls \ {c} : pc'[x] = pc[x]
  BY <1>1, CallMoves DEF Recount
<1>3. c \in tickets /\ tickets \in SUBSET Calls
  BY <1>1 DEF QueueIsExact, LimiterTypeOK
<1>4. Cardinality(tickets') = Cardinality(tickets) - 1 /\ Cardinality(tickets') \in Nat
  BY <1>1, <1>3, CountChange, LimiterAssumption, FS_Subset, FS_CardinalityType
<1>5. waiting' = Cardinality(tickets') + Cardinality(Rejecting') /\ waiting' \in Nat
  BY <1>1, <1>2, <1>4, CountsAreNumbers DEF CountsAreExact
<1>6. LimiterTypeOK'
  BY <1>1, <1>2, <1>5 DEF LimiterTypeOK
<1>7. CountsAreExact'
  BY <1>1, <1>2, <1>3, <1>5 DEF CountsAreExact, LimiterTypeOK
<1>8. QueueIsExact'
  BY <1>1, <1>2, <1>4, CountsAreNumbers, LimiterAssumption DEF QueueIsExact, LimiterTypeOK
<1> QED BY <1>6, <1>7, <1>8

LEMMA BlockKeepsInv == ASSUME LimiterIsSound, NEW c \in Calls, Block(c) PROVE LimiterIsSound'
<1> USE DEF LimiterIsSound, LimiterInv
<1>1. /\ pc[c] = "blocking" /\ c \in tickets /\ UNCHANGED <<waiting, tickets>>
      /\ {"working", "leaving", "queued"} \subseteq PcStates
  BY DEF Block, PcStates, QueueIsExact
<1>2. CASE slots < Concurrency /\ slots' = slots + 1 /\ Goto(c, "working") /\ queue' = queue
  <2>1. /\ Cardinality(Working') = Cardinality(Working) + 1
        /\ Cardinality(Rejecting') = Cardinality(Rejecting)
        /\ Cardinality(Queued') = Cardinality(Queued)
        /\ pc' \in [Calls -> PcStates] /\ pc'[c] = "working"
        /\ \A x \in Calls \ {c} : pc'[x] = pc[x]
    BY <1>1, <1>2, CallMoves DEF Recount
  <2>2. LimiterTypeOK'
    BY <1>1, <1>2, <2>1, LimiterAssumption DEF LimiterTypeOK
  <2>3. CountsAreExact'
    BY <1>1, <1>2, <2>1 DEF CountsAreExact, LimiterTypeOK
  <2>4. QueueIsExact'
    BY <1>1, <1>2, <2>1 DEF QueueIsExact, LimiterTypeOK
  <2> QED BY <2>2, <2>3, <2>4
<1>3. CASE Goto(c, "leaving") /\ UNCHANGED <<slots, queue>>
  <2>1. /\ Cardinality(Working') = Cardinality(Working)
        /\ Cardinality(Rejecting') = Cardinality(Rejecting)
        /\ Cardinality(Queued') = Cardinality(Queued)
        /\ pc' \in [Calls -> PcStates] /\ pc'[c] = "leaving"
        /\ \A x \in Calls \ {c} : pc'[x] = pc[x]
    BY <1>1, <1>3, CallMoves DEF Recount
  <2>2. LimiterTypeOK'
    BY <1>1, <1>3, <2>1 DEF LimiterTypeOK
  <2>3. CountsAreExact'
    BY <1>1, <1>3, <2>1 DEF CountsAreExact, LimiterTypeOK
  <2>4. QueueIsExact'
    BY <1>1, <1>3, <2>1 DEF QueueIsExact, LimiterTypeOK
  <2> QED BY <2>2, <2>3, <2>4
<1>4. CASE slots = Concurrency /\ queue' = Append(queue, c) /\ Goto(c, "queued") /\ slots' = slots
  <2>1. /\ Cardinality(Working') = Cardinality(Working)
        /\ Cardinality(Rejecting') = Cardinality(Rejecting)
        /\ Cardinality(Queued') = Cardinality(Queued) + 1
        /\ pc' \in [Calls -> PcStates] /\ pc'[c] = "queued"
        /\ \A x \in Calls \ {c} : pc'[x] = pc[x]
    BY <1>1, <1>4, CallMoves DEF Recount
  <2>2. /\ queue' \in Seq(Calls) /\ Len(queue') = Len(queue) + 1
        /\ \A i \in DOMAIN queue' : queue'[i] = IF i = Len(queue) + 1 THEN c ELSE queue[i]
    BY <1>4 DEF LimiterTypeOK
  <2>3. DOMAIN queue' = 1..(Len(queue) + 1) /\ DOMAIN queue = 1..Len(queue) /\ Len(queue) \in Nat
    BY <2>2 DEF LimiterTypeOK
  <2>4. \A i \in DOMAIN queue : queue[i] \in Calls \ {c}
    BY <1>1, <2>3 DEF QueueIsExact, LimiterTypeOK
  <2>5. LimiterTypeOK'
    BY <1>1, <1>4, <2>1, <2>2 DEF LimiterTypeOK
  <2>6. CountsAreExact'
    BY <1>1, <1>4, <2>1 DEF CountsAreExact, LimiterTypeOK
  <2>7. \A i \in DOMAIN queue' : pc'[queue'[i]] = "queued"
    BY <2>1, <2>2, <2>3, <2>4 DEF QueueIsExact
  <2>8. \A i, j \in DOMAIN queue' : queue'[i] = queue'[j] => i = j
    BY <2>2, <2>3, <2>4 DEF QueueIsExact
  <2>9. QueueIsExact'
    BY <1>1, <2>1, <2>2, <2>7, <2>8 DEF QueueIsExact, LimiterTypeOK
  <2> QED BY <2>5, <2>6, <2>9
<1> QED BY <1>2, <1>3, <1>4 DEF Block

LEMMA AbandonKeepsInv == ASSUME LimiterIsSound, NEW c \in Calls, Abandon(c) PROVE LimiterIsSound'
<1> USE DEF LimiterIsSound, LimiterInv
<1>1. PICK i \in DOMAIN queue :
        /\ queue[i] = c
        /\ queue' = SubSeq(queue, 1, i - 1) \o SubSeq(queue, i + 1, Len(queue))
        /\ Goto(c, "leaving")
        /\ UNCHANGED <<slots, waiting, tickets>>
  BY DEF Abandon
<1>2. pc[c] = "queued" /\ c \in tickets /\ "leaving" \in PcStates
  BY <1>1 DEF QueueIsExact, PcStates
<1>3. /\ Cardinality(Working') = Cardinality(Working)
      /\ Cardinality(Rejecting') = Cardinality(Rejecting)
      /\ Cardinality(Queued') = Cardinality(Queued) - 1
      /\ pc' \in [Calls -> PcStates] /\ pc'[c] = "leaving"
      /\ \A x \in Calls \ {c} : pc'[x] = pc[x]
  BY <1>1, <1>2, CallMoves DEF Recount
<1>4. /\ queue' \in Seq(Calls) /\ Len(queue') = Len(queue) - 1
      /\ \A k \in 1..Len(queue') : queue'[k] = IF k < i THEN queue[k] ELSE queue[k + 1]
  BY <1>1, Removal DEF LimiterTypeOK
<1>5. /\ DOMAIN queue' = 1..Len(queue') /\ DOMAIN queue = 1..Len(queue) /\ Len(queue) \in Nat
      /\ \A k \in DOMAIN queue : queue[k] \in Calls
  BY <1>4 DEF LimiterTypeOK
<1>6. \A k \in DOMAIN queue : k # i => queue[k] \in Calls \ {c}
  BY <1>1, <1>5 DEF QueueIsExact
<1>7. LimiterTypeOK'
  BY <1>1, <1>3, <1>4 DEF LimiterTypeOK
<1>8. CountsAreExact'
  <2>1. queue' # <<>> => queue # <<>>
    BY <1>1, <1>5
  <2> QED BY <1>1, <1>2, <1>3, <2>1 DEF CountsAreExact, LimiterTypeOK
<1>9. \A k \in DOMAIN queue' : pc'[queue'[k]] = "queued"
  <2> SUFFICES ASSUME NEW k \in DOMAIN queue' PROVE pc'[queue'[k]] = "queued"
    OBVIOUS
  <2>1. \E m \in DOMAIN queue : m # i /\ queue'[k] = queue[m]
    <3>1. CASE k < i
      BY <1>4, <1>5, <3>1
    <3>2. CASE ~ (k < i)
      <4>1. k + 1 \in DOMAIN queue /\ k + 1 # i
        BY <1>4, <1>5, <3>2
      <4> QED BY <1>4, <1>5, <3>2, <4>1
    <3> QED BY <3>1, <3>2
  <2>2. PICK m \in DOMAIN queue : m # i /\ queue'[k] = queue[m]
    BY <2>1
  <2>3. queue[m] \in Calls \ {c} /\ pc[queue[m]] = "queued"
    BY <1>6, <2>2 DEF QueueIsExact
  <2> QED BY <1>3, <2>2, <2>3
<1>10. \A k, l \in DOMAIN queue' : queue'[k] = queue'[l] => k = l
  <2> SUFFICES ASSUME NEW k \in DOMAIN queue', NEW l \in DOMAIN queue', queue'[k] = queue'[l]
               PROVE  k = l
    OBVIOUS
  <2> DEFINE at(n) == IF n < i THEN n ELSE n + 1
  <2>1. k \in Nat /\ l \in Nat /\ i \in Nat /\ at(k) \in DOMAIN queue /\ at(l) \in DOMAIN queue
    BY <1>4, <1>5
  <2>2. queue[at(k)] = queue[at(l)]
    BY <1>4, <1>5
  <2>3. at(k) = at(l)
    BY <2>1, <2>2 DEF QueueIsExact
  <2> QED BY <2>1, <2>3
<1>11. Len(queue') = Cardinality(Queued')
  BY <1>3, <1>4 DEF QueueIsExact
<1>12. /\ \A x \in Calls : pc'[x] \in {"blocking", "queued", "leaving"} => x \in tickets'
       /\ Cardinality(tickets') <= MaxWaiting
  BY <1>1, <1>2, <1>3 DEF QueueIsExact
<1> QED BY <1>7, <1>8, <1>9, <1>10, <1>11, <1>12 DEF QueueIsExact

LEMMA ReleaseKeepsInv == ASSUME LimiterIsSound, NEW c \in Calls, Release(c) PROVE LimiterIsSound'
<1> USE DEF LimiterIsSound, LimiterInv
<1>1. /\ pc[c] = "working" /\ UNCHANGED <<waiting, tickets>>
      /\ After(c) \in {"leaving", "out"} /\ {"leaving", "out"} \subseteq PcStates
      /\ After(c) = "leaving" <=> c \in tickets
  BY DEF Release, PcStates, After
<1>2. CASE queue = <<>> /\ slots' = slots - 1 /\ Goto(c, After(c)) /\ queue' = queue
  <2>1. /\ Cardinality(Working') = Cardinality(Working) - 1
        /\ Cardinality(Rejecting') = Cardinality(Rejecting)
        /\ Cardinality(Queued') = Cardinality(Queued)
        /\ pc' \in [Calls -> PcStates] /\ pc'[c] = After(c)
        /\ \A x \in Calls \ {c} : pc'[x] = pc[x]
    BY <1>1, <1>2, CallMoves DEF Recount
  <2>2. slots' \in 0..Concurrency
    <3>1. Working \in SUBSET Calls /\ {c} \in SUBSET Working
      BY <1>1 DEF Working
    <3>2. Cardinality(Working) >= 1
      BY <3>1, CountIsMonotone, FS_Singleton, CountsAreNumbers
    <3> QED BY <1>2, <3>2, LimiterAssumption DEF CountsAreExact, LimiterTypeOK
  <2>3. LimiterTypeOK'
    BY <1>1, <1>2, <2>1, <2>2 DEF LimiterTypeOK
  <2>4. CountsAreExact'
    BY <1>1, <1>2, <2>1 DEF CountsAreExact, LimiterTypeOK
  <2>5. QueueIsExact'
    BY <1>1, <1>2, <2>1 DEF QueueIsExact, LimiterTypeOK
  <2> QED BY <2>3, <2>4, <2>5
<1>3. CASE /\ queue # <<>>
           /\ queue' = Tail(queue)
           /\ pc' = [pc EXCEPT ![c] = After(c), ![Head(queue)] = "working"]
           /\ slots' = slots
  <2> DEFINE h == Head(queue)
  <2>1. /\ Len(queue) \in Nat \ {0} /\ DOMAIN queue = 1..Len(queue)
        /\ \A k \in DOMAIN queue : queue[k] \in Calls
        /\ h = queue[1]
    BY <1>3 DEF LimiterTypeOK
  <2>2. /\ queue' \in Seq(Calls) /\ Len(queue') = Len(queue) - 1
        /\ DOMAIN queue' = 1..Len(queue')
        /\ \A k \in 1..Len(queue') : queue'[k] = queue[k + 1]
    BY <1>3, HeadTailProperties DEF LimiterTypeOK
  <2>3. h \in Calls /\ pc[h] = "queued" /\ h # c /\ h \in tickets
    BY <1>1, <2>1 DEF QueueIsExact
  <2>4. \A k \in DOMAIN queue : k # 1 => queue[k] \in Calls \ {c, h}
    BY <1>1, <2>1 DEF QueueIsExact
  <2> HIDE DEF h
  <2>5. /\ pc' \in [Calls -> PcStates] /\ pc'[c] = After(c) /\ pc'[h] = "working"
        /\ \A x \in Calls \ {c, h} : pc'[x] = pc[x]
    BY <1>1, <1>3, <2>3 DEF LimiterTypeOK, PcStates, h
  <2>6. /\ Working' = (Working \ {c}) \union {h}
        /\ Rejecting' = Rejecting
        /\ Queued' = Queued \ {h}
    BY <1>1, <2>3, <2>5 DEF Working, Rejecting, Queued
  <2>7. /\ c \in Working /\ h \notin Working /\ h \in Queued
        /\ Working \in SUBSET Calls /\ Working \ {c} \in SUBSET Calls
        /\ Queued \in SUBSET Calls
    BY <1>1, <2>3 DEF Working, Queued
  <2>8. /\ Cardinality(Working') = Cardinality(Working)
        /\ Cardinality(Rejecting') = Cardinality(Rejecting)
        /\ Cardinality(Queued') = Cardinality(Queued) - 1
    <3>1. Cardinality(Working \ {c}) = Cardinality(Working) - 1
      BY <2>7, CountChange
    <3>2. Cardinality(Working') = Cardinality(Working \ {c}) + 1
      BY <2>3, <2>6, <2>7, CountChange
    <3>3. Cardinality(Queued') = Cardinality(Queued) - 1
      BY <2>3, <2>6, <2>7, CountChange
    <3> QED BY <2>6, <3>1, <3>2, <3>3, CountsAreNumbers
  <2>9. LimiterTypeOK'
    BY <1>1, <1>3, <2>2, <2>5 DEF LimiterTypeOK
  <2>10. CountsAreExact'
    <3>1. \A x \in tickets' : pc'[x] \in {"blocking", "queued", "working", "leaving"}
      BY <1>1, <2>5 DEF CountsAreExact, LimiterTypeOK
    <3> QED BY <1>1, <1>3, <2>8, <3>1 DEF CountsAreExact
  <2>11. \A k \in DOMAIN queue' : pc'[queue'[k]] = "queued"
    BY <2>1, <2>2, <2>4, <2>5 DEF QueueIsExact
  <2>12. \A k, l \in DOMAIN queue' : queue'[k] = queue'[l] => k = l
    BY <2>1, <2>2 DEF QueueIsExact
  <2>13. \A x \in Calls : pc'[x] \in {"blocking", "queued", "leaving"} => x \in tickets'
    BY <1>1, <2>3, <2>5 DEF QueueIsExact
  <2>14. QueueIsExact'
    BY <1>1, <2>1, <2>2, <2>8, <2>11, <2>12, <2>13 DEF QueueIsExact
  <2> QED BY <2>9, <2>10, <2>14
<1> QED BY <1>2, <1>3 DEF Release

-----------------------------------------------------------------------------
LEMMA LimiterStaysSound == LimiterIsSound /\ [LimiterNext]_limiterVars => LimiterIsSound'
<1> SUFFICES ASSUME LimiterIsSound, [LimiterNext]_limiterVars PROVE LimiterIsSound'
  OBVIOUS
<1>1. ASSUME NEW c \in Calls, Run(c) \/ Abandon(c) \/ Step(c)
      PROVE  LimiterIsSound'
  BY <1>1, RunKeepsInv, AbandonKeepsInv, CountKeepsInv, RejectKeepsInv, BlockKeepsInv,
     ReleaseKeepsInv, LeaveKeepsInv DEF Step
<1>2. CASE UNCHANGED limiterVars
  BY <1>2 DEF limiterVars, LimiterIsSound, LimiterTypeOK, LimiterInv, CountsAreExact, QueueIsExact,
              Working, Rejecting, Queued
<1> QED BY <1>1, <1>2 DEF LimiterNext

\* In any Limiter, shared by any number of goroutines, slots and tickets are counted
\* exactly and nobody is blocked while a slot is free.
THEOREM CountsStayExact == LimiterSpec => [](LimiterTypeOK /\ CountsAreExact)
<1>1. LimiterIsSound => LimiterTypeOK /\ CountsAreExact
  BY DEF LimiterIsSound, LimiterInv
<1> QED BY <1>1, LimiterStartsSound, LimiterStaysSound, PTL DEF LimiterSpec

-----------------------------------------------------------------------------
LEMMA SameCardinality == \A S : Promise!Cardinality(S) = Cardinality(S)
BY DEF Promise!Cardinality, Cardinality

\* What a call does is what a caller of the semaphore may do, or not visible to it.
LEMMA StepMaps ==
  ASSUME LimiterIsSound, NEW c \in Calls, Run(c) \/ Abandon(c) \/ Step(c)
  PROVE  Promise!Next \/ UNCHANGED Promise!vars
<1> USE DEF LimiterIsSound, LimiterInv
<1>1. ASSUME NEW to \in PcStates, Goto(c, to), UNCHANGED queue,
             pc[c] # "working", to # "working"
      PROVE  UNCHANGED Promise!vars
  <2>1. Working' = Working
    BY <1>1 DEF Working, Goto, LimiterTypeOK
  <2> QED BY <1>1, <2>1 DEF Promise!vars
<1>2. ASSUME Goto(c, "working"), slots < Concurrency, UNCHANGED queue, pc[c] # "working"
      PROVE  Promise!Enter(c)
  <2>1. Working' = Working \union {c} /\ c \notin Working
    BY <1>2 DEF Working, Goto, LimiterTypeOK
  <2> QED BY <1>2, <2>1, SameCardinality DEF Promise!Enter, CountsAreExact, LimiterTypeOK
<1>3. CASE Run(c)
  BY <1>1, <1>2, <1>3 DEF Run, PcStates, Promise!Next
<1>4. CASE Abandon(c)
  <2>1. PICK i \in DOMAIN queue :
          /\ queue[i] = c
          /\ queue' = SubSeq(queue, 1, i - 1) \o SubSeq(queue, i + 1, Len(queue))
          /\ Goto(c, "leaving")
    BY <1>4 DEF Abandon
  <2>2. Working' = Working
    BY <2>1 DEF Working, Goto, LimiterTypeOK, QueueIsExact
  <2>3. Promise!Abandon(i)
    BY <2>1, <2>2 DEF Promise!Abandon
  <2> QED BY <2>3 DEF Promise!Next
<1>5. CASE Count(c) \/ Reject(c) \/ Leave(c)
  BY <1>1, <1>5 DEF Count, Reject, Leave, PcStates
<1>6. CASE Block(c)
  <2>1. CASE slots < Concurrency /\ Goto(c, "working") /\ queue' = queue
    BY <1>2, <1>6, <2>1 DEF Block, Promise!Next
  <2>2. CASE Goto(c, "leaving") /\ queue' = queue
    BY <1>1, <1>6, <2>2 DEF Block, PcStates
  <2>3. CASE slots = Concurrency /\ queue' = Append(queue, c) /\ Goto(c, "queued")
    <3>1. pc[c] = "blocking"
      BY <1>6 DEF Block
    <3>2. Working' = Working /\ c \notin Working /\ \A i \in DOMAIN queue : queue[i] # c
      BY <2>3, <3>1 DEF Working, Goto, LimiterTypeOK, QueueIsExact
    <3>3. Len(queue) < MaxWaiting
      <4>1. /\ Queued \union {c} \in SUBSET tickets /\ tickets \in SUBSET Calls
            /\ Queued \in SUBSET Calls /\ c \notin Queued
        BY <3>1 DEF Queued, QueueIsExact, LimiterTypeOK
      <4>2. Cardinality(Queued \union {c}) = Cardinality(Queued) + 1
        BY <4>1, CountChange
      <4>3. Cardinality(Queued \union {c}) <= Cardinality(tickets)
        BY <4>1, CountIsMonotone
      <4> QED BY <4>2, <4>3, CountsAreNumbers, LimiterAssumption DEF QueueIsExact
    <3>4. Promise!Wait(c)
      BY <2>3, <3>2, <3>3, SameCardinality DEF Promise!Wait, CountsAreExact
    <3> QED BY <3>4 DEF Promise!Next
  <2> QED BY <1>6, <2>1, <2>2, <2>3 DEF Block
<1>7. CASE Release(c)
  <2>1. pc[c] = "working" /\ c \in Working /\ After(c) # "working"
    BY <1>7 DEF Release, After, Working
  <2>2. CASE queue = <<>> /\ Goto(c, After(c)) /\ queue' = queue
    <3>1. Working' = Working \ {c}
      BY <2>1, <2>2 DEF Working, Goto, LimiterTypeOK
    <3> QED BY <2>1, <2>2, <3>1 DEF Promise!Leave, Promise!Next
  <2>3. CASE /\ queue # <<>> /\ queue' = Tail(queue)
             /\ pc' = [pc EXCEPT ![c] = After(c), ![Head(queue)] = "working"]
    <3>1. Head(queue) \in Calls /\ pc[Head(queue)] = "queued"
      <4>1. Head(queue) = queue[1] /\ 1 \in DOMAIN queue
        BY <2>3 DEF LimiterTypeOK
      <4> QED BY <4>1 DEF QueueIsExact, LimiterTypeOK
    <3>2. Working' = (Working \ {c}) \union {Head(queue)}
      BY <2>1, <2>3, <3>1 DEF Working, LimiterTypeOK
    <3> QED BY <2>1, <2>3, <3>2 DEF Promise!Leave, Promise!Next
  <2> QED BY <1>7, <2>2, <2>3 DEF Release
<1> QED BY <1>3, <1>4, <1>5, <1>6, <1>7 DEF Step

\* For its callers a Limiter is a first-come first-served semaphore: never more than
\* cap(slots) calls run, never more than maxWaiting wait, and a slot that becomes free
\* goes to the one that has waited longest.
THEOREM LimiterImplementsSemaphore == LimiterSpec => ImplementsSemaphore
<1>1. LimiterInit => Promise!Init
  BY DEF LimiterInit, Promise!Init, Working
<1>2. LimiterIsSound /\ [LimiterNext]_limiterVars => [Promise!Next]_(Promise!vars)
  <2> SUFFICES ASSUME LimiterIsSound, [LimiterNext]_limiterVars PROVE Promise!Next \/ UNCHANGED Promise!vars
    OBVIOUS
  <2>1. CASE LimiterNext
    BY <2>1, StepMaps DEF LimiterNext
  <2>2. CASE UNCHANGED limiterVars
    BY <2>2 DEF limiterVars, Promise!vars, Working
  <2> QED BY <2>1, <2>2
<1> QED
  BY <1>1, <1>2, LimiterStartsSound, LimiterStaysSound, PTL
  DEF LimiterSpec, ImplementsSemaphore, Promise!Spec

\* A call that comes while others are blocked, and one that is blocked behind another,
\* gets no slot before the one that has waited longest, however it is released
\* (limit.go Run, release).
THEOREM LimiterIsFair == LimiterSpec => Promise!NobodyOvertakes
<1>1. [Promise!Next]_Promise!vars
      => [queue # <<>> => Working' \subseteq Working \union {Head(queue)}]_Promise!vars
  BY DEF Promise!Next, Promise!Enter, Promise!Wait, Promise!Leave, Promise!Abandon
<1> QED
  BY <1>1, LimiterImplementsSemaphore, PTL
  DEF ImplementsSemaphore, Promise!Spec, Promise!NobodyOvertakes

------------------------------------------------------------------------------
(* The warm identities. *)

Entry == {"launch", "rotate"} \X (1..MaxMade)

\* A directory's chain s, with the key's identity p, the m identities it has
\* had and the latest one, w, that was wiped: numbers only grow, and grow after a
\* rotation.
ChainInv(s, p, m, w) ==
  /\ s \in Seq(Entry) /\ p \in Nat /\ m \in Nat /\ w \in Nat
  /\ p <= m /\ w <= m /\ m <= MaxMade
  /\ \A i \in DOMAIN s : s[i][2] <= m /\ s[i][2] > w
  /\ \A i, j \in DOMAIN s : i < j => /\ s[i][2] <= s[j][2]
                                     /\ s[i][1] = "rotate" => s[i][2] < s[j][2]
  /\ p # 0 => /\ p > w
              /\ \A i \in DOMAIN s : s[i][2] <= p /\ (s[i][1] = "rotate" => s[i][2] < p)

\* What the first of the chain s does, b, with c Chromes and the identity p.
FirstInv(s, b, c, p) ==
  /\ b \in [phase : Phases, retired : BOOLEAN, users : Nat] /\ c \in {0, 1}
  /\ b.phase = "none" => c = 0
  /\ b.phase # "none" => s # <<>>
  /\ b.phase \in {"starting", "open", "closing"} => Head(s)[1] = "launch"
  /\ b.phase = "removing" => Head(s)[1] = "rotate" /\ c = 0
  /\ b.phase = "starting" => c = 1
  /\ b.phase = "open" /\ ~ b.retired => p # 0 /\ Head(s) = <<"launch", p>>
  /\ b.phase = "open" /\ b.retired => b.users > 0
  /\ b.phase # "open" => b.users = 0

\* Renders hold the identity of their key, and one that has a browser has the
\* one that is open.
Held == {l \in Leases : lease[l].at # "out"}
UsersOf(i) == {l \in Held : lease[l].id = i}
InUse(k) == {l \in Leases : lease[l].at = "attached" /\ lease[l].id[1] = k}
LeaseIsCurrent(l) ==
  /\ lease[l] \in [at : {"waiting", "attached"}, id : Ids]
  /\ pool[lease[l].id[1]] = lease[l].id[2]
  /\ lease[l].at = "attached" => browser[lease[l].id[1]].phase = "open"

Maps ==
  /\ pool = [k \in Keys |-> pool[k]] /\ made = [k \in Keys |-> made[k]]
  /\ chain = [k \in Keys |-> chain[k]] /\ browser = [k \in Keys |-> browser[k]]
  /\ chrome = [k \in Keys |-> chrome[k]] /\ wiped = [k \in Keys |-> wiped[k]]
  /\ users = [i \in Ids |-> users[i]] /\ lease = [l \in Leases |-> lease[l]]
ChainsAreOrdered == \A k \in Keys : ChainInv(chain[k], pool[k], made[k], wiped[k])
FirstsAreSound == \A k \in Keys : FirstInv(chain[k], browser[k], chrome[k], pool[k])
LeasesAreCurrent == \A l \in Held : LeaseIsCurrent(l)
UsersAreCounted ==
  /\ \A i \in Ids : users[i] = Cardinality(UsersOf(i))
  /\ \A k \in Keys : browser[k].users = Cardinality(InUse(k))
ExitedIsEmpty == service = "exited" => \A k \in Keys : chain[k] = <<>>

PoolInv ==
  /\ Maps /\ ChainsAreOrdered /\ FirstsAreSound /\ LeasesAreCurrent
  /\ UsersAreCounted /\ ExitedIsEmpty
-----------------------------------------------------------------------------
\* Chains.

LEMMA Entries ==
  ASSUME NEW s, NEW p, NEW m, NEW w, ChainInv(s, p, m, w)
  PROVE  \A i \in DOMAIN s : s[i] \in Entry /\ s[i][1] \in {"launch", "rotate"} /\ s[i][2] \in Nat \ {0}
<1>1. s \in Seq(Entry)
  BY DEF ChainInv
<1>2. \A i \in DOMAIN s : s[i] \in Entry
  BY <1>1
<1> QED BY <1>2 DEF Entry

LEMMA ChainGrows ==
  ASSUME NEW s, NEW p, NEW m, NEW w, ChainInv(s, p, m, w), p # 0, NEW what \in {"launch", "rotate"}
  PROVE  ChainInv(Append(s, <<what, p>>), IF what = "launch" THEN p ELSE 0, m, w)
<1> DEFINE e == <<what, p>>  t == Append(s, e)  n == Len(s)
<1>1. s \in Seq(Entry) /\ p \in Nat /\ m \in Nat /\ w \in Nat /\ p <= m /\ w <= m /\ m <= MaxMade
  BY DEF ChainInv
<1>2. e \in Entry /\ e[1] = what /\ e[2] = p
  BY <1>1, PoolAssumption DEF Entry
<1> HIDE DEF e
<1>3. /\ t \in Seq(Entry) /\ n \in Nat /\ DOMAIN s = 1..n /\ DOMAIN t = 1..(n + 1)
      /\ \A i \in 1..n : t[i] = s[i]
      /\ t[n + 1] = e
  BY <1>1, <1>2
<1> HIDE DEF t, n
<1>4. \A i \in DOMAIN t : (i \in DOMAIN s /\ t[i] = s[i]) \/ (i = n + 1 /\ t[i] = e)
  BY <1>3
<1>5. \A i \in DOMAIN s : i < n + 1 /\ i \in DOMAIN t
  BY <1>3
<1>6. \A i \in DOMAIN t : t[i][2] <= m /\ t[i][2] > w
  BY <1>1, <1>2, <1>4 DEF ChainInv
<1>7. ASSUME NEW i \in DOMAIN t, NEW j \in DOMAIN t, i < j
      PROVE  t[i][2] <= t[j][2] /\ (t[i][1] = "rotate" => t[i][2] < t[j][2])
  <2>1. i \in DOMAIN s /\ t[i] = s[i]
    BY <1>3, <1>4, <1>7
  <2>2. CASE j \in DOMAIN s
    BY <1>4, <1>7, <2>1, <2>2, <1>3 DEF ChainInv
  <2>3. CASE j \notin DOMAIN s
    BY <1>2, <1>4, <2>1, <2>3 DEF ChainInv
  <2> QED BY <2>2, <2>3
<1>8. what = "launch" =>
        p > w /\ \A i \in DOMAIN t : t[i][2] <= p /\ (t[i][1] = "rotate" => t[i][2] < p)
  BY <1>1, <1>2, <1>4 DEF ChainInv
<1> QED BY <1>1, <1>3, <1>6, <1>7, <1>8 DEF ChainInv, t, e

LEMMA ChainShrinks ==
  ASSUME NEW s, NEW p, NEW m, NEW w, ChainInv(s, p, m, w), s # <<>>
  PROVE  /\ ChainInv(Tail(s), p, m, w)
         /\ Head(s)[1] = "rotate" => ChainInv(Tail(s), p, m, Head(s)[2])
<1> DEFINE t == Tail(s)  n == Len(s)
<1>1. s \in Seq(Entry) /\ p \in Nat /\ m \in Nat /\ w \in Nat /\ p <= m /\ w <= m /\ m <= MaxMade
  BY DEF ChainInv
<1>2. /\ t \in Seq(Entry) /\ n \in Nat \ {0} /\ DOMAIN s = 1..n /\ DOMAIN t = 1..(n - 1)
      /\ \A i \in DOMAIN t : i + 1 \in DOMAIN s /\ t[i] = s[i + 1]
      /\ Head(s) = s[1]
  BY <1>1, HeadTailProperties, EmptySeq
<1>3. \A i \in DOMAIN s : s[i][2] \in Nat
  BY Entries
<1> HIDE DEF t, n
<1>4. \A i \in DOMAIN t : t[i][2] <= m /\ t[i][2] > w
  BY <1>2 DEF ChainInv
<1>5. \A i, j \in DOMAIN t : i < j => t[i][2] <= t[j][2] /\ (t[i][1] = "rotate" => t[i][2] < t[j][2])
  <2> SUFFICES ASSUME NEW i \in DOMAIN t, NEW j \in DOMAIN t, i < j
               PROVE  t[i][2] <= t[j][2] /\ (t[i][1] = "rotate" => t[i][2] < t[j][2])
    OBVIOUS
  <2>1. i + 1 < j + 1 /\ i + 1 \in DOMAIN s /\ j + 1 \in DOMAIN s
    BY <1>2
  <2> QED BY <1>2, <2>1 DEF ChainInv
<1>6. p # 0 => p > w /\ \A i \in DOMAIN t : t[i][2] <= p /\ (t[i][1] = "rotate" => t[i][2] < p)
  BY <1>2 DEF ChainInv
<1>7. ChainInv(t, p, m, w)
  BY <1>1, <1>2, <1>4, <1>5, <1>6 DEF ChainInv
<1>8. ASSUME Head(s)[1] = "rotate" PROVE ChainInv(t, p, m, Head(s)[2])
  <2>1. 1 \in DOMAIN s /\ Head(s) = s[1]
    BY <1>2
  <2>2. \A i \in DOMAIN t : t[i][2] > s[1][2]
    <3> SUFFICES ASSUME NEW i \in DOMAIN t PROVE t[i][2] > s[1][2]
      OBVIOUS
    <3>1. 1 < i + 1 /\ i + 1 \in DOMAIN s
      BY <1>2
    <3>2. s[1][2] < s[i + 1][2]
      BY <1>8, <2>1, <3>1 DEF ChainInv
    <3> QED BY <1>2, <1>3, <2>1, <3>1, <3>2
  <2>3. s[1][2] \in Nat /\ s[1][2] <= m /\ (p # 0 => p > s[1][2])
    BY <1>1, <1>3, <1>8, <2>1 DEF ChainInv
  <2> QED BY <1>1, <1>2, <1>4, <1>5, <1>6, <2>1, <2>2, <2>3 DEF ChainInv
<1> QED BY <1>7, <1>8 DEF t

LEMMA ChainForgets ==
  ASSUME NEW s, NEW p, NEW m, NEW w, ChainInv(s, p, m, w)
  PROVE  /\ ChainInv(s, 0, m, w)
         /\ m < MaxMade => ChainInv(s, m + 1, m + 1, w)
<1>1. s \in Seq(Entry) /\ p \in Nat /\ m \in Nat /\ w \in Nat /\ p <= m /\ w <= m /\ m <= MaxMade
  BY DEF ChainInv
<1>2. \A i \in DOMAIN s : s[i][2] \in Nat /\ s[i][2] <= m
  BY Entries DEF ChainInv
<1>3. ChainInv(s, 0, m, w)
  BY <1>1 DEF ChainInv
<1>4. ASSUME m < MaxMade PROVE ChainInv(s, m + 1, m + 1, w)
  <2>1. \A i \in DOMAIN s : s[i][2] <= m + 1 /\ s[i][2] < m + 1 /\ s[i][2] > w
    BY <1>1, <1>2 DEF ChainInv
  <2>2. m + 1 \in Nat /\ m + 1 <= MaxMade /\ w <= m + 1 /\ m + 1 > w /\ m + 1 <= m + 1
    BY <1>1, <1>4, PoolAssumption
  <2> QED BY <1>1, <2>1, <2>2 DEF ChainInv
<1> QED BY <1>3, <1>4
-----------------------------------------------------------------------------
\* Renders and their identities.

LEMMA Counting ==
  ASSUME NEW S \in SUBSET Leases, NEW l
  PROVE  /\ Cardinality(S) \in Nat
         /\ Cardinality(S \cup {l}) = IF l \in S THEN Cardinality(S) ELSE Cardinality(S) + 1
         /\ Cardinality(S \ {l}) = IF l \in S THEN Cardinality(S) - 1 ELSE Cardinality(S)
         /\ Cardinality(S) = 0 <=> S = {}
<1>1. IsFiniteSet(S)
  BY PoolAssumption, FS_Subset
<1> QED BY <1>1, FS_CardinalityType, FS_AddElement, FS_RemoveElement, FS_EmptySet

LEMMA KeysAreTyped ==
  ASSUME PoolInv, NEW k \in Keys
  PROVE  /\ pool[k] \in 0..MaxMade /\ (pool[k] # 0 => Identity(k) \in Ids)
         /\ browser[k] \in [phase : Phases, retired : BOOLEAN, users : Nat]
         /\ UsersOf(Identity(k)) \subseteq Leases /\ InUse(k) \subseteq Leases
<1>1. ChainInv(chain[k], pool[k], made[k], wiped[k]) /\ FirstInv(chain[k], browser[k], chrome[k], pool[k])
  BY DEF PoolInv, ChainsAreOrdered, FirstsAreSound
<1>2. pool[k] \in 0..MaxMade
  BY <1>1, PoolAssumption DEF ChainInv
<1> QED BY <1>1, <1>2 DEF FirstInv, Identity, Ids, UsersOf, InUse, Held

LEMMA HoldersAreCurrent ==
  ASSUME PoolInv, NEW k \in Keys, NEW l \in Held, lease[l].id[1] = k
  PROVE  pool[k] # 0 /\ lease[l].id = Identity(k) /\ lease[l].id \in Ids
<1>1. lease[l].id \in Ids /\ pool[lease[l].id[1]] = lease[l].id[2]
  BY DEF PoolInv, LeasesAreCurrent, LeaseIsCurrent
<1> QED BY <1>1 DEF Ids, Identity

\* An identity nobody uses has no render, and an open browser without one.
LEMMA IdleIsFree ==
  ASSUME PoolInv, NEW k \in Keys, pool[k] # 0, users[Identity(k)] = 0
  PROVE  /\ \A l \in Held : lease[l].id[1] # k
         /\ browser[k].users = 0
<1>1. UsersOf(Identity(k)) = {}
  BY KeysAreTyped, Counting DEF PoolInv, UsersAreCounted
<1>2. \A l \in Held : lease[l].id[1] # k
  BY <1>1, HoldersAreCurrent DEF UsersOf
<1>3. InUse(k) = {}
  BY <1>2 DEF InUse, Held
<1>4. browser[k].users = Cardinality({})
  BY <1>3 DEF PoolInv, UsersAreCounted
<1> QED BY <1>2, <1>4, FS_EmptySet

LEMMA ClosedHasNobody ==
  ASSUME PoolInv, NEW k \in Keys, browser[k].phase # "open"
  PROVE  InUse(k) = {} /\ browser[k].users = 0
<1>1. InUse(k) = {}
  BY DEF PoolInv, LeasesAreCurrent, LeaseIsCurrent, InUse, Held
<1>2. browser[k].users = Cardinality({})
  BY <1>1 DEF PoolInv, UsersAreCounted
<1> QED BY <1>1, <1>2, FS_EmptySet

\* A render takes an identity of its key, to wait for its browser or with it.
LEMMA Takes ==
  ASSUME PoolInv, NEW l \in Leases, lease[l] = Out, NEW k \in Keys, NEW i \in Ids,
         NEW at \in {"waiting", "attached"}, i = <<k, pool'[k]>>,
         lease' = [lease EXCEPT ![l] = [at |-> at, id |-> i]],
         users' = [users EXCEPT ![i] = @ + 1],
         \A o \in Held : pool'[lease[o].id[1]] = pool[lease[o].id[1]],
         \A j \in Keys : browser'[j].users = IF at = "attached" /\ j = k THEN browser[j].users + 1
                                             ELSE browser[j].users,
         \A j \in Keys : InUse(j) # {} => browser'[j].phase = browser[j].phase,
         at = "attached" => browser'[k].phase = "open"
  PROVE  /\ LeasesAreCurrent' /\ UsersAreCounted'
         /\ users' = [o \in Ids |-> users'[o]] /\ lease' = [o \in Leases |-> lease'[o]]
<1>1. /\ lease'[l] = [at |-> at, id |-> i] /\ \A o \in Leases \ {l} : lease'[o] = lease[o]
      /\ lease' = [o \in Leases |-> lease'[o]] /\ users' = [o \in Ids |-> users'[o]]
      /\ users'[i] = users[i] + 1 /\ \A o \in Ids \ {i} : users'[o] = users[o]
  BY DEF PoolInv, Maps
<1>2. /\ Held' = Held \cup {l} /\ l \notin Held /\ Held \subseteq Leases
      /\ i[1] = k /\ i[2] = pool'[k]
  BY <1>1 DEF Held, Out
<1>3. ASSUME NEW o \in Held' PROVE LeaseIsCurrent(o)'
  <2>1. CASE o = l
    BY <1>1, <1>2, <2>1 DEF LeaseIsCurrent
  <2>2. CASE o # l
    <3>1. o \in Held /\ lease'[o] = lease[o] /\ LeaseIsCurrent(o) /\ o \in Leases
      BY <1>1, <1>2, <2>2 DEF PoolInv, LeasesAreCurrent
    <3>2. lease[o].id[1] \in Keys
      BY <3>1 DEF LeaseIsCurrent, Ids
    <3>3. lease[o].at = "attached" => InUse(lease[o].id[1]) # {}
      BY <3>1 DEF InUse
    <3> QED BY <3>1, <3>2, <3>3 DEF LeaseIsCurrent
  <2> QED BY <2>1, <2>2
<1>4. ASSUME NEW o \in Ids PROVE users'[o] = Cardinality(UsersOf(o)')
  <2>1. UsersOf(o)' = (IF o = i THEN UsersOf(o) \cup {l} ELSE UsersOf(o)) /\ l \notin UsersOf(o)
    BY <1>1, <1>2 DEF UsersOf
  <2>2. UsersOf(o) \subseteq Leases
    BY DEF UsersOf, Held
  <2>3. users[o] = Cardinality(UsersOf(o))
    BY DEF PoolInv, UsersAreCounted
  <2> QED BY <1>1, <2>1, <2>2, <2>3, Counting
<1>5. ASSUME NEW j \in Keys PROVE browser'[j].users = Cardinality(InUse(j)')
  <2>1. InUse(j)' = IF at = "attached" /\ j = k THEN InUse(j) \cup {l} ELSE InUse(j)
    BY <1>1, <1>2 DEF InUse, Held
  <2>2. l \notin InUse(j) /\ InUse(j) \subseteq Leases
    BY <1>2 DEF InUse, Held
  <2>3. browser[j].users = Cardinality(InUse(j))
    BY DEF PoolInv, UsersAreCounted
  <2> QED BY <2>1, <2>2, <2>3, Counting
<1> QED BY <1>1, <1>3, <1>4, <1>5 DEF LeasesAreCurrent, UsersAreCounted

\* A render gives its identity back.
LEMMA GivesBack ==
  ASSUME PoolInv, NEW l \in Held, lease' = [lease EXCEPT ![l] = Out],
         users' = [users EXCEPT ![lease[l].id] = @ - 1], pool' = pool,
         \A j \in Keys : browser'[j].users =
           IF lease[l].at = "attached" /\ j = lease[l].id[1] THEN browser[j].users - 1
           ELSE browser[j].users,
         \A j \in Keys : (\E o \in InUse(j) : o # l) => browser'[j].phase = browser[j].phase
  PROVE  /\ LeasesAreCurrent' /\ UsersAreCounted'
         /\ users' = [o \in Ids |-> users'[o]] /\ lease' = [o \in Leases |-> lease'[o]]
<1> DEFINE i == lease[l].id
<1>1. l \in Leases /\ i \in Ids /\ LeaseIsCurrent(l)
  BY DEF PoolInv, LeasesAreCurrent, LeaseIsCurrent, Held
<1>2. /\ lease'[l] = Out /\ \A o \in Leases \ {l} : lease'[o] = lease[o]
      /\ lease' = [o \in Leases |-> lease'[o]] /\ users' = [o \in Ids |-> users'[o]]
      /\ users'[i] = users[i] - 1 /\ \A o \in Ids \ {i} : users'[o] = users[o]
  BY <1>1 DEF PoolInv, Maps
<1>3. Held' = Held \ {l} /\ Held \subseteq Leases
  BY <1>1, <1>2 DEF Held, Out
<1>4. ASSUME NEW o \in Held' PROVE LeaseIsCurrent(o)'
  <2>1. o \in Held /\ o # l /\ lease'[o] = lease[o] /\ LeaseIsCurrent(o) /\ o \in Leases
    BY <1>2, <1>3 DEF PoolInv, LeasesAreCurrent
  <2>2. lease[o].id[1] \in Keys
    BY <2>1 DEF LeaseIsCurrent, Ids
  <2>3. lease[o].at = "attached" => o \in InUse(lease[o].id[1])
    BY <2>1 DEF InUse
  <2> QED BY <2>1, <2>2, <2>3 DEF LeaseIsCurrent
<1>5. ASSUME NEW o \in Ids PROVE users'[o] = Cardinality(UsersOf(o)')
  <2>1. /\ UsersOf(o)' = UsersOf(o) \ {l} /\ (l \in UsersOf(o) <=> o = i)
    BY <1>2, <1>3 DEF UsersOf
  <2>2. UsersOf(o) \subseteq Leases
    BY DEF UsersOf, Held
  <2>3. users[o] = Cardinality(UsersOf(o))
    BY DEF PoolInv, UsersAreCounted
  <2>4. Cardinality(UsersOf(o) \ {l}) =
          IF l \in UsersOf(o) THEN Cardinality(UsersOf(o)) - 1 ELSE Cardinality(UsersOf(o))
    BY <2>2, Counting
  <2> QED BY <1>1, <1>2, <2>1, <2>3, <2>4
<1>6. ASSUME NEW j \in Keys PROVE browser'[j].users = Cardinality(InUse(j)')
  <2>1. /\ InUse(j)' = InUse(j) \ {l}
        /\ l \in InUse(j) <=> lease[l].at = "attached" /\ j = lease[l].id[1]
    BY <1>1, <1>2, <1>3 DEF InUse, Held, Out
  <2>2. InUse(j) \subseteq Leases
    BY DEF InUse
  <2>3. browser[j].users = Cardinality(InUse(j))
    BY DEF PoolInv, UsersAreCounted
  <2>4. Cardinality(InUse(j) \ {l}) =
          IF l \in InUse(j) THEN Cardinality(InUse(j)) - 1 ELSE Cardinality(InUse(j))
    BY <2>2, Counting
  <2> QED BY <2>1, <2>3, <2>4
<1> QED BY <1>2, <1>4, <1>5, <1>6 DEF LeasesAreCurrent, UsersAreCounted

\* No render takes or gives anything.
LEMMA RendersRest ==
  ASSUME PoolInv, lease' = lease, users' = users,
         \A o \in Held : pool'[lease[o].id[1]] = pool[lease[o].id[1]],
         \A j \in Keys : browser'[j].users = browser[j].users,
         \A j \in Keys : InUse(j) # {} => browser'[j].phase = browser[j].phase
  PROVE  /\ LeasesAreCurrent' /\ UsersAreCounted'
         /\ users' = [o \in Ids |-> users'[o]] /\ lease' = [o \in Leases |-> lease'[o]]
<1>1. Held' = Held /\ (\A i : UsersOf(i)' = UsersOf(i)) /\ \A k : InUse(k)' = InUse(k)
  BY DEF Held, UsersOf, InUse
<1>2. ASSUME NEW o \in Held PROVE LeaseIsCurrent(o)'
  <2>1. LeaseIsCurrent(o) /\ o \in Leases
    BY DEF PoolInv, LeasesAreCurrent, Held
  <2>2. lease[o].id[1] \in Keys
    BY <2>1 DEF LeaseIsCurrent, Ids
  <2>3. lease[o].at = "attached" => InUse(lease[o].id[1]) # {}
    BY <2>1 DEF InUse
  <2> QED BY <2>1, <2>2, <2>3 DEF LeaseIsCurrent
<1> QED BY <1>1, <1>2 DEF PoolInv, Maps, LeasesAreCurrent, UsersAreCounted
-----------------------------------------------------------------------------
\* The first of a chain.

LEMMA WarmIs ==
  ASSUME PoolInv, NEW k \in Keys
  PROVE  warm(k) <=> browser[k].phase = "open" /\ ~ browser[k].retired
  BY DEF PoolInv, FirstsAreSound, FirstInv, warm

LEMMA FirstStays ==
  ASSUME NEW s \in Seq(Entry), NEW e \in Entry, NEW b, NEW c, NEW p, FirstInv(s, b, c, p)
  PROVE  FirstInv(Append(s, e), b, c, p)
<1> DEFINE t == Append(s, e)
<1>1. t \in Seq(Entry) /\ Len(t) = Len(s) + 1 /\ Len(s) \in Nat /\ \A i \in 1..Len(s) : t[i] = s[i]
  OBVIOUS
<1> HIDE DEF t
<1>2. t # <<>> /\ Head(t) = t[1]
  BY <1>1, EmptySeq, HeadTailProperties
<1>3. s # <<>> => Len(s) # 0 /\ Head(s) = s[1]
  BY EmptySeq, HeadTailProperties
<1>4. s # <<>> => Head(t) = Head(s)
  BY <1>1, <1>2, <1>3
<1>5. t # <<>> /\ (s # <<>> => Head(t) = Head(s))
  BY <1>2, <1>4
<1> QED BY <1>5 DEF FirstInv, t

LEMMA FirstForgets ==
  ASSUME NEW s, NEW b, NEW c, NEW p, NEW q, FirstInv(s, b, c, p), b.phase # "open" \/ b.retired
  PROVE  FirstInv(s, b, c, q)
  BY DEF FirstInv

LEMMA FirstRetires ==
  ASSUME NEW s, NEW b, NEW c \in {0, 1}, NEW d, NEW p, NEW q, FirstInv(s, b, d, p),
         b.phase = "open"
  PROVE  /\ FirstInv(s, Retired(b), c, q)
         /\ Retired(b).users = b.users
         /\ b.users > 0 => Retired(b).phase = "open"
<1>1. b \in [phase : Phases, retired : BOOLEAN, users : Nat]
  BY DEF FirstInv
<1>2. /\ Retired(b) \in [phase : Phases, retired : BOOLEAN, users : Nat]
      /\ Retired(b).users = b.users /\ Retired(b).retired
      /\ Retired(b).phase = IF b.users = 0 /\ ~ b.retired THEN "closing" ELSE "open"
  BY <1>1 DEF Retired, Phases
<1> QED BY <1>1, <1>2 DEF FirstInv

LEMMA FirstLeft ==
  ASSUME NEW s, NEW b, NEW c, NEW p, FirstInv(s, b, c, p), b.phase = "open", b.users > 0
  PROVE  /\ FirstInv(s, Left(b), c, p)
         /\ Left(b).users = b.users - 1
         /\ b.users > 1 => Left(b).phase = "open"
<1>1. b \in [phase : Phases, retired : BOOLEAN, users : Nat]
  BY DEF FirstInv
<1>2. Left(b) = [phase |-> IF b.retired /\ b.users = 1 THEN "closing" ELSE "open",
                 retired |-> b.retired, users |-> b.users - 1]
  <2> DEFINE next == IF b.retired /\ b.users = 1 THEN "closing" ELSE "open"
  <2>1. Left(b) = [b EXCEPT !.users = b.users - 1, !.phase = next]
    BY DEF Left
  <2> HIDE DEF next
  <2>2. Left(b) = [phase |-> next, retired |-> b.retired, users |-> b.users - 1]
    BY <1>1, <2>1
  <2> QED BY <2>2 DEF next
<1>3. b.users - 1 \in Nat
  BY <1>1
<1>4. /\ Left(b) \in [phase : Phases, retired : BOOLEAN, users : Nat]
      /\ Left(b).users = b.users - 1 /\ Left(b).retired = b.retired
      /\ Left(b).phase = IF b.retired /\ b.users = 1 THEN "closing" ELSE "open"
  BY <1>1, <1>2, <1>3 DEF Phases
<1> QED BY <1>1, <1>4 DEF FirstInv

LEMMA FirstVacates ==
  ASSUME NEW s, NEW p
  PROVE  FirstInv(s, NoBrowser, 0, p)
  BY DEF FirstInv, NoBrowser, Phases
-----------------------------------------------------------------------------
\* The steps.

LEMMA AcquireWarmKeeps ==
  ASSUME PoolInv, NEW l \in Leases, NEW k \in Keys, AcquireWarm(l, k)
  PROVE  PoolInv'
<1>1. /\ browser[k].phase = "open" /\ ~ browser[k].retired /\ pool[k] # 0
      /\ lease[l] = Out /\ Identity(k) \in Ids
      /\ browser[k] \in [phase : Phases, retired : BOOLEAN, users : Nat]
  BY KeysAreTyped DEF AcquireWarm, warm
<1>2. /\ browser' = [j \in Keys |-> browser'[j]]
      /\ \A j \in Keys \ {k} : browser'[j] = browser[j]
      /\ browser'[k] = [browser[k] EXCEPT !.users = @ + 1]
  BY DEF AcquireWarm, PoolInv, Maps
<1>3. /\ browser'[k].users = browser[k].users + 1 /\ browser'[k].phase = "open"
      /\ ~ browser'[k].retired
      /\ browser'[k] \in [phase : Phases, retired : BOOLEAN, users : Nat]
  BY <1>1, <1>2
<1>4. UNCHANGED <<pool, made, chain, chrome, wiped, service>>
  BY DEF AcquireWarm
<1>5. /\ LeasesAreCurrent' /\ UsersAreCounted'
      /\ users' = [o \in Ids |-> users'[o]] /\ lease' = [o \in Leases |-> lease'[o]]
  <2> DEFINE i == Identity(k)
  <2>1. /\ lease' = [lease EXCEPT ![l] = [at |-> "attached", id |-> i]]
        /\ users' = [users EXCEPT ![i] = @ + 1] /\ i = <<k, pool'[k]>>
    BY <1>4 DEF AcquireWarm, Identity
  <2> HIDE DEF i
  <2>2. i \in Ids
    BY <1>1 DEF i
  <2>3. /\ \A o \in Held : pool'[lease[o].id[1]] = pool[lease[o].id[1]]
        /\ \A j \in Keys : browser'[j].users = IF j = k THEN browser[j].users + 1 ELSE browser[j].users
        /\ \A j \in Keys : browser'[j].phase = browser[j].phase
    BY <1>1, <1>2, <1>3, <1>4
  <2> DEFINE at == "attached"
  <2>4. /\ at \in {"waiting", "attached"} /\ lease' = [lease EXCEPT ![l] = [at |-> at, id |-> i]]
        /\ at = "attached" /\ browser'[k].phase = "open"
    BY <1>3, <2>1
  <2> HIDE DEF at
  <2>5. /\ \A j \in Keys : browser'[j].users = IF at = "attached" /\ j = k THEN browser[j].users + 1
                                                ELSE browser[j].users
        /\ \A j \in Keys : InUse(j) # {} => browser'[j].phase = browser[j].phase
        /\ at = "attached" => browser'[k].phase = "open"
    BY <2>3, <2>4
  <2>6. /\ lease[l] = Out /\ users' = [users EXCEPT ![i] = @ + 1] /\ i = <<k, pool'[k]>>
        /\ \A o \in Held : pool'[lease[o].id[1]] = pool[lease[o].id[1]]
    BY <1>1, <2>1, <2>3
  <2> QED BY <2>2, <2>4, <2>5, <2>6, Takes
<1>6. \A j \in Keys : FirstInv(chain[j], browser'[j], chrome[j], pool[j])
  BY <1>1, <1>2, <1>3 DEF PoolInv, FirstsAreSound, FirstInv
<1> QED BY <1>2, <1>4, <1>5, <1>6 DEF PoolInv, Maps, ChainsAreOrdered, FirstsAreSound, ExitedIsEmpty

LEMMA AcquireColdKeeps ==
  ASSUME PoolInv, NEW l \in Leases, NEW k \in Keys, AcquireCold(l, k)
  PROVE  PoolInv'
<1> DEFINE i == Identity(k)
<1>1. pool[k] # 0 /\ i \in Ids /\ lease[l] = Out /\ service = "up"
  BY KeysAreTyped DEF AcquireCold
<1>2. i[1] = k /\ i[2] = pool[k] /\ i = <<k, pool[k]>>
  BY DEF Identity
<1>3. /\ lease' = [lease EXCEPT ![l] = [at |-> "waiting", id |-> i]]
      /\ users' = [users EXCEPT ![i] = @ + 1]
      /\ chain' = chain \/ chain' = [chain EXCEPT ![k] = Append(@, <<"launch", pool[k]>>)]
      /\ UNCHANGED <<pool, made, browser, chrome, wiped, service>>
  BY <1>2 DEF AcquireCold, Join
<1> HIDE DEF i
<1>4. /\ LeasesAreCurrent' /\ UsersAreCounted'
      /\ users' = [o \in Ids |-> users'[o]] /\ lease' = [o \in Leases |-> lease'[o]]
  BY <1>1, <1>2, <1>3, Takes
<1>5. /\ chain' = [j \in Keys |-> chain'[j]]
      /\ \A j \in Keys : chain'[j] = chain[j] \/ (j = k /\ chain'[j] = Append(chain[j], <<"launch", pool[j]>>))
  BY <1>3 DEF PoolInv, Maps
<1>6. ASSUME NEW j \in Keys
      PROVE  ChainInv(chain'[j], pool[j], made[j], wiped[j]) /\ FirstInv(chain'[j], browser[j], chrome[j], pool[j])
  <2>1. ChainInv(chain[j], pool[j], made[j], wiped[j]) /\ FirstInv(chain[j], browser[j], chrome[j], pool[j])
    BY DEF PoolInv, ChainsAreOrdered, FirstsAreSound
  <2>2. CASE j = k /\ chain'[j] = Append(chain[j], <<"launch", pool[j]>>)
    <3>1. ChainInv(chain'[j], pool[j], made[j], wiped[j])
      BY <1>1, <2>1, <2>2, ChainGrows
    <3>2. chain[j] \in Seq(Entry) /\ <<"launch", pool[j]>> \in Entry
      BY <1>1, <2>1, <2>2, PoolAssumption DEF ChainInv, Entry
    <3> QED BY <2>1, <2>2, <3>1, <3>2, FirstStays
  <2> QED BY <1>5, <2>1, <2>2
<1> QED BY <1>1, <1>3, <1>4, <1>5, <1>6 DEF PoolInv, Maps, ChainsAreOrdered, FirstsAreSound, ExitedIsEmpty

LEMMA AcquireNewKeeps ==
  ASSUME PoolInv, NEW l \in Leases, NEW k \in Keys, AcquireNew(l, k)
  PROVE  PoolInv'
<1> DEFINE i == <<k, made[k] + 1>>
<1>1. PICK E \in Evictions :
        /\ pool' = [j \in Keys |-> IF j = k THEN made[k] + 1 ELSE IF j \in E THEN 0 ELSE pool[j]]
        /\ browser' = [j \in Keys |-> IF j \in E /\ warm(j) THEN Retired(browser[j]) ELSE browser[j]]
  BY DEF AcquireNew
<1>2. \A j \in E : j \in Keys /\ pool[j] # 0 /\ users[Identity(j)] = 0
  BY DEF Evictions, Pooled
<1>3. /\ pool[k] = 0 /\ made[k] < MaxMade /\ lease[l] = Out /\ service = "up"
      /\ made' = [made EXCEPT ![k] = @ + 1] /\ UNCHANGED <<chrome, wiped, service>>
  BY DEF AcquireNew
<1>4. /\ ChainInv(chain[k], pool[k], made[k], wiped[k]) /\ made[k] \in Nat
      /\ i \in Ids /\ i[1] = k /\ i[2] = made[k] + 1
  BY <1>3, PoolAssumption DEF PoolInv, ChainsAreOrdered, ChainInv, Ids
<1>5. /\ lease' = [lease EXCEPT ![l] = [at |-> "waiting", id |-> i]]
      /\ users' = [users EXCEPT ![i] = @ + 1]
      /\ chain' = chain \/ chain' = [chain EXCEPT ![k] = Append(@, <<"launch", made[k] + 1>>)]
  BY <1>4 DEF AcquireNew, Join
<1>6. /\ pool'[k] = made[k] + 1 /\ \A j \in Keys \ {k} : pool'[j] = IF j \in E THEN 0 ELSE pool[j]
      /\ made'[k] = made[k] + 1 /\ \A j \in Keys \ {k} : made'[j] = made[j]
      /\ pool' = [j \in Keys |-> pool'[j]] /\ made' = [j \in Keys |-> made'[j]]
      /\ browser' = [j \in Keys |-> browser'[j]]
  BY <1>1, <1>3 DEF PoolInv, Maps
<1>7. /\ chain' = [j \in Keys |-> chain'[j]]
      /\ \A j \in Keys : chain'[j] = chain[j] \/ (j = k /\ chain'[j] = Append(chain[j], <<"launch", made[k] + 1>>))
  BY <1>5 DEF PoolInv, Maps
<1>8. k \notin E /\ \A j \in E : InUse(j) = {} /\ \A o \in Held : lease[o].id[1] # j
  BY <1>2, <1>3, IdleIsFree DEF InUse, Held
<1>9. \A j \in Keys : browser'[j].users = browser[j].users /\ (InUse(j) # {} => browser'[j] = browser[j])
  <2> SUFFICES ASSUME NEW j \in Keys
               PROVE  browser'[j].users = browser[j].users /\ (InUse(j) # {} => browser'[j] = browser[j])
    OBVIOUS
  <2>1. CASE j \in E /\ warm(j)
    <3>1. Retired(browser[j]).users = browser[j].users
      BY <2>1, KeysAreTyped DEF Retired
    <3> QED BY <1>1, <1>8, <2>1, <3>1
  <2>2. CASE ~ (j \in E /\ warm(j))
    BY <1>1, <2>2
  <2> QED BY <2>1, <2>2
<1>10. \A o \in Held : pool'[lease[o].id[1]] = pool[lease[o].id[1]]
  <2> SUFFICES ASSUME NEW o \in Held PROVE pool'[lease[o].id[1]] = pool[lease[o].id[1]]
    OBVIOUS
  <2>1. lease[o].id[1] \in Keys
    BY DEF PoolInv, LeasesAreCurrent, LeaseIsCurrent, Ids
  <2>2. lease[o].id[1] # k
    BY <1>3, HoldersAreCurrent
  <2> QED BY <1>6, <1>8, <2>1, <2>2
<1> HIDE DEF i
<1>11. /\ LeasesAreCurrent' /\ UsersAreCounted'
       /\ users' = [o \in Ids |-> users'[o]] /\ lease' = [o \in Leases |-> lease'[o]]
  <2>1. i = <<k, pool'[k]>>
    BY <1>6 DEF i
  <2> QED BY <1>3, <1>4, <1>5, <1>9, <1>10, <2>1, Takes
<1>12. ASSUME NEW j \in Keys
       PROVE  /\ ChainInv(chain'[j], pool'[j], made'[j], wiped[j])
              /\ FirstInv(chain'[j], browser'[j], chrome[j], pool'[j])
  <2>1. ChainInv(chain[j], pool[j], made[j], wiped[j]) /\ FirstInv(chain[j], browser[j], chrome[j], pool[j])
    BY DEF PoolInv, ChainsAreOrdered, FirstsAreSound
  <2>2. CASE j = k
    <3>1. ChainInv(chain[j], made[k] + 1, made[k] + 1, wiped[j])
      BY <1>3, <2>1, <2>2, ChainForgets
    <3>2. ChainInv(Append(chain[j], <<"launch", made[k] + 1>>), made[k] + 1, made[k] + 1, wiped[j])
      <4> DEFINE q == made[k] + 1  what == "launch"
      <4>1. q # 0 /\ what \in {"launch", "rotate"} /\ ChainInv(chain[j], q, q, wiped[j])
        BY <1>4, <3>1
      <4>2. what = "launch"
        OBVIOUS
      <4> HIDE DEF q, what
      <4>3. ChainInv(Append(chain[j], <<what, q>>), q, q, wiped[j])
        BY <4>1, <4>2, ChainGrows
      <4> QED BY <4>3 DEF q, what
    <3>3. browser'[j] = browser[j] /\ (browser[j].phase # "open" \/ browser[j].retired)
      BY <1>1, <1>3, <1>8, <2>1, <2>2 DEF FirstInv
    <3>4. FirstInv(chain[j], browser'[j], chrome[j], pool'[j])
      BY <2>1, <3>3, FirstForgets
    <3>5. chain[j] \in Seq(Entry) /\ <<"launch", made[k] + 1>> \in Entry
      BY <1>3, <1>4, <2>1, PoolAssumption DEF ChainInv, Entry
    <3>6. FirstInv(Append(chain[j], <<"launch", made[k] + 1>>), browser'[j], chrome[j], pool'[j])
      BY <3>4, <3>5, FirstStays
    <3> QED BY <1>6, <1>7, <2>2, <3>1, <3>2, <3>4, <3>6
  <2>3. CASE j # k /\ j \in E
    <3>1. pool'[j] = 0 /\ made'[j] = made[j] /\ chain'[j] = chain[j] /\ chrome[j] \in {0, 1}
      BY <1>6, <1>7, <2>1, <2>3 DEF FirstInv
    <3>2. ChainInv(chain'[j], pool'[j], made'[j], wiped[j])
      BY <2>1, <3>1, ChainForgets
    <3>3. FirstInv(chain'[j], browser'[j], chrome[j], pool'[j])
      <4>1. CASE warm(j)
        <5>1. browser'[j] = Retired(browser[j]) /\ browser[j].phase = "open"
          BY <1>1, <2>3, <4>1 DEF warm
        <5> QED BY <2>1, <3>1, <5>1, FirstRetires
      <4>2. CASE ~ warm(j)
        <5>1. browser'[j] = browser[j]
          BY <1>1, <4>2
        <5> QED BY <2>1, <3>1, <4>2, <5>1, WarmIs, FirstForgets
      <4> QED BY <4>1, <4>2
    <3> QED BY <3>2, <3>3
  <2>4. CASE j # k /\ j \notin E
    <3>1. /\ pool'[j] = pool[j] /\ made'[j] = made[j] /\ chain'[j] = chain[j]
          /\ browser'[j] = browser[j]
      BY <1>1, <1>6, <1>7, <2>4
    <3> QED BY <2>1, <3>1
  <2> QED BY <2>2, <2>3, <2>4
<1> QED BY <1>3, <1>6, <1>7, <1>11, <1>12 DEF PoolInv, Maps, ChainsAreOrdered, FirstsAreSound, ExitedIsEmpty

\* What a step must show that changes one key only.
LEMMA OnlyKey ==
  ASSUME PoolInv, NEW k \in Keys, made' = made,
         pool' = pool \/ pool' = [pool EXCEPT ![k] = 0],
         chain' = chain \/ (\E x : chain' = [chain EXCEPT ![k] = x]),
         browser' = browser \/ (\E x : browser' = [browser EXCEPT ![k] = x]),
         chrome' = chrome \/ (\E x : chrome' = [chrome EXCEPT ![k] = x]),
         wiped' = wiped \/ (\E x : wiped' = [wiped EXCEPT ![k] = x]),
         ChainInv(chain'[k], pool'[k], made[k], wiped'[k]),
         FirstInv(chain'[k], browser'[k], chrome'[k], pool'[k]),
         LeasesAreCurrent', UsersAreCounted',
         users' = [o \in Ids |-> users'[o]], lease' = [o \in Leases |-> lease'[o]],
         ExitedIsEmpty'
  PROVE  PoolInv'
<1>1. /\ pool' = [j \in Keys |-> pool'[j]] /\ \A j \in Keys \ {k} : pool'[j] = pool[j]
      /\ made' = [j \in Keys |-> made'[j]]
  BY DEF PoolInv, Maps
<1>2. chain' = [j \in Keys |-> chain'[j]] /\ \A j \in Keys \ {k} : chain'[j] = chain[j]
  BY DEF PoolInv, Maps
<1>3. browser' = [j \in Keys |-> browser'[j]] /\ \A j \in Keys \ {k} : browser'[j] = browser[j]
  BY DEF PoolInv, Maps
<1>4. chrome' = [j \in Keys |-> chrome'[j]] /\ \A j \in Keys \ {k} : chrome'[j] = chrome[j]
  BY DEF PoolInv, Maps
<1>5. wiped' = [j \in Keys |-> wiped'[j]] /\ \A j \in Keys \ {k} : wiped'[j] = wiped[j]
  BY DEF PoolInv, Maps
<1>6. ASSUME NEW j \in Keys
      PROVE  /\ ChainInv(chain'[j], pool'[j], made'[j], wiped'[j])
             /\ FirstInv(chain'[j], browser'[j], chrome'[j], pool'[j])
  <2>1. ChainInv(chain[j], pool[j], made[j], wiped[j]) /\ FirstInv(chain[j], browser[j], chrome[j], pool[j])
    BY DEF PoolInv, ChainsAreOrdered, FirstsAreSound
  <2>2. CASE j = k
    BY <2>2
  <2>3. CASE j # k
    BY <1>1, <1>2, <1>3, <1>4, <1>5, <2>1, <2>3
  <2> QED BY <2>2, <2>3
<1>7. Maps'
  BY <1>1, <1>2, <1>3, <1>4, <1>5 DEF Maps
<1>8. ChainsAreOrdered' /\ FirstsAreSound'
  BY <1>6 DEF ChainsAreOrdered, FirstsAreSound
<1> QED BY <1>7, <1>8 DEF PoolInv

LEMMA AtKey ==
  ASSUME PoolInv, NEW k \in Keys
  PROVE  /\ ChainInv(chain[k], pool[k], made[k], wiped[k])
         /\ FirstInv(chain[k], browser[k], chrome[k], pool[k])
         /\ browser[k] \in [phase : Phases, retired : BOOLEAN, users : Nat]
         /\ pool[k] \in Nat
         /\ chain[k] \in Seq(Entry)
         /\ chain[k] # <<>> => Launched(k)[2] \in Nat /\ Launched(k)[1] = k /\ Launched(k) \in Ids
<1>1. ChainInv(chain[k], pool[k], made[k], wiped[k]) /\ FirstInv(chain[k], browser[k], chrome[k], pool[k])
  BY DEF PoolInv, ChainsAreOrdered, FirstsAreSound
<1>2. chain[k] \in Seq(Entry) /\ pool[k] \in Nat
  BY <1>1 DEF ChainInv
<1>3. chain[k] # <<>> => Head(chain[k]) \in Entry
  BY <1>2, HeadTailProperties
<1> QED BY <1>1, <1>2, <1>3 DEF FirstInv, Launched, Entry, Ids

LEMMA AbortKeeps ==
  ASSUME PoolInv, NEW l \in Leases, Abort(l)
  PROVE  PoolInv'
<1>1. /\ l \in Held /\ lease[l].at = "waiting"
      /\ lease' = [lease EXCEPT ![l] = Out]
      /\ users' = [users EXCEPT ![lease[l].id] = @ - 1]
      /\ UNCHANGED <<pool, made, chain, browser, chrome, wiped, service>>
  BY DEF Abort, Held
<1>2. /\ LeasesAreCurrent' /\ UsersAreCounted'
      /\ users' = [o \in Ids |-> users'[o]] /\ lease' = [o \in Leases |-> lease'[o]]
  BY <1>1, GivesBack
<1> QED BY <1>1, <1>2 DEF PoolInv, Maps, ChainsAreOrdered, FirstsAreSound, ExitedIsEmpty

LEMMA FinishKeeps ==
  ASSUME PoolInv, NEW l \in Leases, NEW wedged \in BOOLEAN, Finish(l, wedged)
  PROVE  PoolInv'
<1> DEFINE k == lease[l].id[1]
           b == IF wedged THEN Retired(browser[k]) ELSE browser[k]
<1>1. /\ l \in Held /\ lease[l].at = "attached"
      /\ lease' = [lease EXCEPT ![l] = Out]
      /\ users' = [users EXCEPT ![lease[l].id] = @ - 1]
      /\ browser' = [browser EXCEPT ![k] = Left(b)]
      /\ UNCHANGED <<pool, made, chain, chrome, wiped, service>>
  BY DEF Finish, Held
<1>2. k \in Keys /\ browser[k].phase = "open" /\ l \in InUse(k)
  BY <1>1 DEF PoolInv, LeasesAreCurrent, LeaseIsCurrent, Ids, InUse
<1>3. browser[k].users = Cardinality(InUse(k)) /\ InUse(k) \subseteq Leases
  BY <1>2 DEF PoolInv, UsersAreCounted, InUse
<1>4. /\ browser[k].users \in Nat /\ browser[k].users > 0
      /\ (\E o \in InUse(k) : o # l) => browser[k].users > 1
  <2> HIDE DEF k
  <2>1. browser[k].users \in Nat /\ browser[k].users # 0
    <3>1. /\ Cardinality(InUse(k)) \in Nat
          /\ Cardinality(InUse(k)) = 0 <=> InUse(k) = {}
      BY <1>3, Counting
    <3> QED BY <1>2, <1>3, <3>1
  <2>2. Cardinality(InUse(k) \ {l}) = browser[k].users - 1
    BY <1>2, <1>3, Counting
  <2>3. Cardinality(InUse(k) \ {l}) = 0 <=> InUse(k) \ {l} = {}
    BY <1>3, Counting
  <2>4. (\E o \in InUse(k) : o # l) => browser[k].users # 1
    BY <2>2, <2>3
  <2> QED BY <2>1, <2>4
<1>5. /\ FirstInv(chain[k], browser[k], chrome[k], pool[k]) /\ chrome[k] \in {0, 1}
  BY <1>2, AtKey DEF FirstInv
<1> HIDE DEF k
<1>6. FirstInv(chain[k], b, chrome[k], pool[k]) /\ b.phase = "open" /\ b.users = browser[k].users
  <2>1. CASE wedged
    BY <1>2, <1>4, <1>5, <2>1, FirstRetires
  <2>2. CASE ~ wedged
    BY <1>2, <1>5, <2>2
  <2> QED BY <2>1, <2>2
<1> HIDE DEF b
<1>7. /\ FirstInv(chain[k], Left(b), chrome[k], pool[k])
      /\ Left(b).users = browser[k].users - 1
      /\ browser[k].users > 1 => Left(b).phase = "open"
  BY <1>4, <1>6, FirstLeft
<1>8. browser'[k] = Left(b) /\ \A j \in Keys \ {k} : browser'[j] = browser[j]
  BY <1>1, <1>2 DEF PoolInv, Maps
<1>9. /\ \A j \in Keys : browser'[j].users = IF j = k THEN browser[j].users - 1 ELSE browser[j].users
      /\ \A j \in Keys : (\E o \in InUse(j) : o # l) => browser'[j].phase = browser[j].phase
  BY <1>2, <1>4, <1>7, <1>8
<1>10. /\ LeasesAreCurrent' /\ UsersAreCounted'
       /\ users' = [o \in Ids |-> users'[o]] /\ lease' = [o \in Leases |-> lease'[o]]
  BY <1>1, <1>9, GivesBack DEF k
<1>11. ExitedIsEmpty'
  BY <1>1 DEF PoolInv, ExitedIsEmpty
<1>12. ChainInv(chain'[k], pool'[k], made[k], wiped'[k]) /\ FirstInv(chain'[k], browser'[k], chrome'[k], pool'[k])
  BY <1>1, <1>2, <1>7, <1>8, AtKey
<1> QED BY <1>1, <1>2, <1>10, <1>11, <1>12, OnlyKey

LEMMA BeginKeeps ==
  ASSUME PoolInv, NEW k \in Keys, Begin(k)
  PROVE  PoolInv'
<1>1. /\ chain[k] # <<>> /\ browser[k].phase = "none"
      /\ UNCHANGED <<pool, made, users, lease, chain, wiped, service>>
  BY DEF Begin
<1>2. PICK launch \in BOOLEAN :
        /\ launch <=> Head(chain[k])[1] = "launch"
        /\ browser' = [browser EXCEPT ![k].phase = IF launch THEN "starting" ELSE "removing"]
        /\ chrome' = IF launch THEN [chrome EXCEPT ![k] = @ + 1] ELSE chrome
  BY DEF Begin
<1>3. /\ ChainInv(chain[k], pool[k], made[k], wiped[k])
      /\ FirstInv(chain[k], browser[k], chrome[k], pool[k])
      /\ browser[k] \in [phase : Phases, retired : BOOLEAN, users : Nat]
      /\ Head(chain[k]) \in Entry
  BY <1>1, AtKey, HeadTailProperties
<1>4. chrome[k] = 0 /\ browser[k].users = 0 /\ InUse(k) = {} /\ Head(chain[k])[1] \in {"launch", "rotate"}
  BY <1>1, <1>3, ClosedHasNobody DEF FirstInv, Entry
<1>5. /\ browser' = [browser EXCEPT ![k] = browser'[k]]
      /\ browser'[k] = [browser[k] EXCEPT !.phase = IF launch THEN "starting" ELSE "removing"]
      /\ \A j \in Keys \ {k} : browser'[j] = browser[j]
  BY <1>2 DEF PoolInv, Maps
<1>6. /\ browser'[k].phase = (IF launch THEN "starting" ELSE "removing")
      /\ browser'[k].users = 0
      /\ browser'[k] \in [phase : Phases, retired : BOOLEAN, users : Nat]
  BY <1>3, <1>4, <1>5 DEF Phases
<1>7. chrome'[k] = IF launch THEN 1 ELSE 0
  BY <1>2, <1>4 DEF PoolInv, Maps
<1>8. FirstInv(chain[k], browser'[k], chrome'[k], pool[k])
  BY <1>1, <1>2, <1>4, <1>6, <1>7 DEF FirstInv
<1>9. /\ LeasesAreCurrent' /\ UsersAreCounted'
      /\ users' = [o \in Ids |-> users'[o]] /\ lease' = [o \in Leases |-> lease'[o]]
  <2>1. \A j \in Keys : browser'[j].users = browser[j].users
    BY <1>4, <1>5, <1>6
  <2>2. \A j \in Keys : InUse(j) # {} => browser'[j].phase = browser[j].phase
    BY <1>4, <1>5
  <2> QED BY <1>1, <2>1, <2>2, RendersRest
<1>10. ExitedIsEmpty'
  BY <1>1 DEF PoolInv, ExitedIsEmpty
<1>11. chrome' = chrome \/ (\E x : chrome' = [chrome EXCEPT ![k] = x])
  BY <1>2
<1> QED BY <1>1, <1>3, <1>5, <1>8, <1>9, <1>10, <1>11, OnlyKey

LEMMA LaunchDoneKeeps ==
  ASSUME PoolInv, NEW k \in Keys, LaunchDone(k)
  PROVE  PoolInv'
<1> DEFINE i == Launched(k)
           W == Holders(i, "waiting")
           up == [phase |-> "open", retired |-> FALSE, users |-> 0]
<1>1. /\ browser[k].phase = "starting"
      /\ UNCHANGED <<pool, made, users, chrome, wiped, service>>
  BY DEF LaunchDone
<1>2. /\ ChainInv(chain[k], pool[k], made[k], wiped[k])
      /\ FirstInv(chain[k], browser[k], chrome[k], pool[k])
      /\ chain[k] # <<>> /\ Head(chain[k])[1] = "launch" /\ chrome[k] = 1
      /\ i[1] = k /\ i[2] = Head(chain[k])[2] /\ i[2] \in Nat \ {0} /\ i \in Ids
      /\ Head(chain[k]) = <<"launch", i[2]>>
  <2>1. /\ ChainInv(chain[k], pool[k], made[k], wiped[k])
        /\ FirstInv(chain[k], browser[k], chrome[k], pool[k])
        /\ chain[k] # <<>> /\ Head(chain[k])[1] = "launch" /\ chrome[k] = 1
    BY <1>1, AtKey DEF FirstInv
  <2>2. Head(chain[k]) \in Entry
    BY <2>1, AtKey, HeadTailProperties
  <2> QED BY <2>1, <2>2 DEF Launched, Entry, Ids
<1>3. InUse(k) = {} /\ browser[k].users = 0
  BY <1>1, ClosedHasNobody
<1>4. /\ W \subseteq Held /\ W \subseteq Leases
      /\ \A l \in Held : lease[l].id[1] = k => pool[k] = lease[l].id[2] /\ lease[l].at = "waiting"
  BY <1>3 DEF Holders, Held, PoolInv, LeasesAreCurrent, LeaseIsCurrent, InUse
<1>5. ExitedIsEmpty' \/ chain' # chain
  BY <1>1 DEF PoolInv, ExitedIsEmpty
<1>6. CASE /\ pool[k] = i[2] /\ chain' = chain
           /\ browser' = [browser EXCEPT ![k] = [up EXCEPT !.users = Cardinality(W)]]
           /\ lease' = [l \in Leases |-> IF l \in W THEN [at |-> "attached", id |-> i] ELSE lease[l]]
  <2>1. /\ browser'[k] = [phase |-> "open", retired |-> FALSE, users |-> Cardinality(W)]
        /\ \A j \in Keys \ {k} : browser'[j] = browser[j]
    BY <1>6 DEF PoolInv, Maps
  <2>2. Cardinality(W) \in Nat
    BY <1>4, Counting
  <2>3. FirstInv(chain[k], browser'[k], chrome[k], pool[k])
    <3>1. [phase |-> "open", retired |-> FALSE, users |-> Cardinality(W)]
            \in [phase : Phases, retired : BOOLEAN, users : Nat]
      BY <2>2 DEF Phases
    <3>2. /\ browser'[k].phase = "open" /\ ~ browser'[k].retired
          /\ browser'[k] \in [phase : Phases, retired : BOOLEAN, users : Nat]
      BY <2>1, <3>1
    <3>3. pool[k] # 0 /\ Head(chain[k]) = <<"launch", pool[k]>>
      BY <1>2, <1>6
    <3> HIDE DEF W, i
    <3> QED BY <1>2, <3>2, <3>3 DEF FirstInv
  <2>4. /\ Held' = Held /\ \A l \in Leases : lease'[l].id = lease[l].id
        /\ \A l \in Leases : lease'[l].at = IF l \in W THEN "attached" ELSE lease[l].at
        /\ \A l \in W : lease'[l] = [at |-> "attached", id |-> i]
        /\ \A l \in Leases \ W : lease'[l] = lease[l]
    BY <1>4, <1>6 DEF Holders, Held
  <2>5. LeasesAreCurrent'
    <3> SUFFICES ASSUME NEW l \in Held PROVE LeaseIsCurrent(l)'
      BY <2>4 DEF LeasesAreCurrent
    <3>1. LeaseIsCurrent(l) /\ l \in Leases
      BY DEF PoolInv, LeasesAreCurrent, Held
    <3>2. lease[l].id[1] \in Keys
      BY <3>1 DEF LeaseIsCurrent, Ids
    <3>3. CASE l \in W
      <4>1. lease[l].id = i
        BY <3>3 DEF Holders
      <4> HIDE DEF i, W
      <4> QED BY <1>1, <1>2, <2>1, <2>4, <3>1, <3>3, <4>1 DEF LeaseIsCurrent
    <3>4. CASE l \notin W
      <4>1. lease'[l].at = "attached" => lease[l].id[1] # k
        BY <1>4, <2>4, <3>1, <3>4
      <4> HIDE DEF i, W
      <4> QED BY <1>1, <2>1, <2>4, <3>1, <3>2, <3>4, <4>1 DEF LeaseIsCurrent
    <3> QED BY <3>3, <3>4
  <2>6. InUse(k)' = W /\ \A j \in Keys \ {k} : InUse(j)' = InUse(j)
    <3>1. \A l \in W : lease[l].id[1] = k /\ lease[l].at = "waiting"
      BY <1>2 DEF Holders
    <3>2. \A l \in Leases : lease'[l].at = "attached" /\ lease'[l].id[1] = k => l \in W
      BY <1>3, <2>4 DEF InUse
    <3> HIDE DEF W
    <3>3. InUse(k)' = W
      BY <1>4, <2>4, <3>1, <3>2 DEF InUse
    <3> QED BY <2>4, <3>1, <3>3 DEF InUse
  <2>7. UsersAreCounted'
    <3>1. \A o : UsersOf(o)' = UsersOf(o)
      BY <2>4 DEF UsersOf, Held
    <3> HIDE DEF W
    <3>2. \A j \in Keys : browser'[j].users = Cardinality(InUse(j)')
      BY <2>1, <2>6 DEF PoolInv, UsersAreCounted
    <3>3. users' = users
      BY <1>1
    <3> QED BY <3>1, <3>2, <3>3 DEF PoolInv, UsersAreCounted
  <2>8. /\ users' = [o \in Ids |-> users'[o]] /\ lease' = [o \in Leases |-> lease'[o]]
    BY <1>1, <1>6 DEF PoolInv, Maps
  <2>9. \E x : browser' = [browser EXCEPT ![k] = x]
    BY <1>6
  <2> HIDE DEF W, i, up
  <2> QED BY <1>1, <1>2, <1>5, <1>6, <2>3, <2>5, <2>7, <2>8, <2>9, OnlyKey
<1>7. CASE /\ pool[k] # i[2] /\ lease' = lease
           /\ browser' = [browser EXCEPT ![k] = Retired(up)]
           /\ chain' = IF W = {} THEN chain ELSE [chain EXCEPT ![k] = Append(@, Head(@))]
  <2>1. W = {}
    BY <1>2, <1>4, <1>7 DEF Holders
  <2>2. Retired(up) = [phase |-> "closing", retired |-> TRUE, users |-> 0]
    <3>1. Retired(up) = [up EXCEPT !.retired = TRUE, !.phase = "closing"]
      BY DEF Retired
    <3> QED BY <3>1
  <2>3. /\ browser'[k] = [phase |-> "closing", retired |-> TRUE, users |-> 0]
        /\ \A j \in Keys \ {k} : browser'[j] = browser[j]
    BY <1>7, <2>2 DEF PoolInv, Maps
  <2>4. FirstInv(chain[k], browser'[k], chrome[k], pool[k])
    <3> HIDE DEF i
    <3> QED BY <1>2, <2>3 DEF FirstInv, Phases
  <2>5. chain' = chain /\ \E x : browser' = [browser EXCEPT ![k] = x]
    BY <1>7, <2>1
  <2>6. /\ \A j \in Keys : browser'[j].users = browser[j].users
        /\ \A j \in Keys : InUse(j) # {} => browser'[j].phase = browser[j].phase
    BY <1>3, <2>3
  <2>7. /\ LeasesAreCurrent' /\ UsersAreCounted'
        /\ users' = [o \in Ids |-> users'[o]] /\ lease' = [o \in Leases |-> lease'[o]]
    BY <1>1, <1>7, <2>6, RendersRest
  <2> HIDE DEF W, i, up
  <2> QED BY <1>1, <1>2, <1>5, <2>4, <2>5, <2>7, OnlyKey
<1> QED BY <1>6, <1>7 DEF LaunchDone

LEMMA LaunchFailsKeeps ==
  ASSUME PoolInv, NEW k \in Keys, LaunchFails(k)
  PROVE  PoolInv'
<1>0. PICK i : i = Launched(k)
  OBVIOUS
<1> DEFINE W == Holders(i, "waiting")
<1>1. /\ browser[k].phase = "starting"
      /\ chrome' = [chrome EXCEPT ![k] = @ - 1]
      /\ lease' = [l \in Leases |-> IF l \in W THEN Out ELSE lease[l]]
      /\ users' = [users EXCEPT ![i] = @ - Cardinality(W)]
      /\ chain' = [chain EXCEPT ![k] = Tail(@)]
      /\ browser' = [browser EXCEPT ![k] = NoBrowser]
      /\ UNCHANGED <<pool, made, wiped, service>>
  BY <1>0 DEF LaunchFails, Vacate
<1>2. /\ ChainInv(chain[k], pool[k], made[k], wiped[k])
      /\ chain[k] # <<>> /\ chrome[k] = 1 /\ i \in Ids /\ i[1] = k
  BY <1>0, <1>1, AtKey DEF FirstInv
<1>3. InUse(k) = {} /\ browser[k].users = 0
  BY <1>1, ClosedHasNobody
<1>4. /\ W \subseteq Held /\ W \subseteq Leases
      /\ \A l \in Held : lease[l].id[1] = k => lease[l].at = "waiting"
      /\ \A l \in Held : /\ lease[l].id \in Ids /\ lease[l].id[1] \in Keys
                        /\ lease[l] = [at |-> lease[l].at, id |-> lease[l].id]
  BY <1>3 DEF Holders, Held, PoolInv, LeasesAreCurrent, LeaseIsCurrent, InUse, Ids
<1>5. W = UsersOf(i)
  <2>1. \A l \in Held : lease[l].id = i => lease[l] = [at |-> "waiting", id |-> i]
    BY <1>2, <1>4
  <2>2. \A l \in W : l \in Held /\ lease[l].id = i
    BY <1>4 DEF Holders
  <2> QED BY <2>1, <2>2 DEF Holders, UsersOf, Held
<1>6. /\ browser'[k] = NoBrowser /\ \A j \in Keys \ {k} : browser'[j] = browser[j]
      /\ chain'[k] = Tail(chain[k]) /\ chrome'[k] = 0
      /\ users'[i] = users[i] - Cardinality(W) /\ \A o \in Ids \ {i} : users'[o] = users[o]
      /\ users' = [o \in Ids |-> users'[o]] /\ lease' = [o \in Leases |-> lease'[o]]
  <2> HIDE DEF W
  <2>1. /\ browser'[k] = NoBrowser /\ \A j \in Keys \ {k} : browser'[j] = browser[j]
        /\ chain'[k] = Tail(chain[k]) /\ chrome'[k] = 0
    BY <1>1, <1>2 DEF PoolInv, Maps
  <2>2. /\ users'[i] = users[i] - Cardinality(W) /\ \A o \in Ids \ {i} : users'[o] = users[o]
        /\ users' = [o \in Ids |-> users'[o]] /\ lease' = [o \in Leases |-> lease'[o]]
    BY <1>1, <1>2 DEF PoolInv, Maps
  <2> QED BY <2>1, <2>2
<1>7. Held' = Held \ W /\ \A l \in Held \ W : lease'[l] = lease[l] /\ l \in Leases
  BY <1>1, <1>4 DEF Held, Out
<1>8. LeasesAreCurrent'
  <2> SUFFICES ASSUME NEW l \in Held \ W PROVE LeaseIsCurrent(l)'
    BY <1>7 DEF LeasesAreCurrent
  <2>1. LeaseIsCurrent(l) /\ lease'[l] = lease[l] /\ l \in Leases
    BY <1>7 DEF PoolInv, LeasesAreCurrent
  <2>2. lease[l].at = "attached" => lease[l].id[1] # k
    BY <1>4
  <2>3. lease[l].id[1] \in Keys
    BY <1>4
  <2> HIDE DEF W
  <2> QED BY <1>1, <1>6, <2>1, <2>2, <2>3 DEF LeaseIsCurrent
<1>9. UsersAreCounted'
  <2>1. UsersOf(i)' = {} /\ \A o \in Ids \ {i} : UsersOf(o)' = UsersOf(o)
    <3> HIDE DEF W
    <3>1. UsersOf(i)' = {}
      BY <1>5, <1>7 DEF UsersOf
    <3>2. ASSUME NEW o \in Ids, o # i PROVE UsersOf(o)' = UsersOf(o)
      <4>1. \A l \in UsersOf(o) : l \in Held \ W
        BY <1>5, <3>2 DEF UsersOf
      <4> QED BY <1>7, <4>1 DEF UsersOf
    <3> QED BY <3>1, <3>2
  <2>2. users'[i] = 0
    <3> HIDE DEF W
    <3>1. users[i] = Cardinality(UsersOf(i))
      BY <1>2 DEF PoolInv, UsersAreCounted
    <3>2. W \in SUBSET Leases /\ Cardinality(W) = Cardinality(UsersOf(i))
      BY <1>4, <1>5
    <3>3. Cardinality(W) \in Nat
      BY <3>2, Counting
    <3> QED BY <1>6, <3>1, <3>2, <3>3
  <2>3. \A o \in Ids : users'[o] = Cardinality(UsersOf(o)')
    <3>1. ASSUME NEW o \in Ids, o # i PROVE users'[o] = Cardinality(UsersOf(o)')
      BY <1>6, <2>1, <3>1 DEF PoolInv, UsersAreCounted
    <3>2. users'[i] = Cardinality(UsersOf(i)')
      BY <2>1, <2>2, FS_EmptySet
    <3> QED BY <3>1, <3>2
  <2>4. InUse(k)' = {} /\ \A j \in Keys \ {k} : InUse(j)' = InUse(j)
    <3>1. \A l \in W : lease[l].id[1] = k /\ lease[l].at = "waiting" /\ lease'[l].at = "out"
      BY <1>1, <1>2, <1>4 DEF Holders, Out
    <3>2. \A l \in Leases \ W : lease'[l] = lease[l]
      BY <1>1
    <3> HIDE DEF W
    <3> QED BY <1>3, <3>1, <3>2 DEF InUse
  <2>5. \A j \in Keys : browser'[j].users = Cardinality(InUse(j)')
    BY <1>6, <2>4, FS_EmptySet DEF PoolInv, UsersAreCounted, NoBrowser
  <2> QED BY <2>3, <2>5 DEF UsersAreCounted
<1>10. ChainInv(chain'[k], pool'[k], made[k], wiped'[k])
  BY <1>1, <1>2, <1>6, ChainShrinks
<1>11. FirstInv(chain'[k], browser'[k], chrome'[k], pool'[k])
  BY <1>6, FirstVacates
<1>12. ExitedIsEmpty'
  BY <1>1, <1>2 DEF PoolInv, ExitedIsEmpty
<1> HIDE DEF W
<1>13. /\ \E x : chain' = [chain EXCEPT ![k] = x]
       /\ \E x : browser' = [browser EXCEPT ![k] = x]
       /\ \E x : chrome' = [chrome EXCEPT ![k] = x]
  BY <1>1
<1> QED BY <1>1, <1>6, <1>8, <1>9, <1>10, <1>11, <1>12, <1>13, OnlyKey

LEMMA InUseIsOpen ==
  ASSUME PoolInv, NEW k \in Keys
  PROVE  /\ browser[k].users \in Nat /\ (browser[k].users = 0 <=> InUse(k) = {})
         /\ InUse(k) # {} => browser[k].phase = "open" /\ browser[k].users > 0
<1>1. InUse(k) \subseteq Leases /\ browser[k].users = Cardinality(InUse(k))
  BY DEF InUse, PoolInv, UsersAreCounted
<1>2. Cardinality(InUse(k)) \in Nat /\ (Cardinality(InUse(k)) = 0 <=> InUse(k) = {})
  BY <1>1, Counting
<1> QED BY <1>1, <1>2, ClosedHasNobody

LEMMA ChromeExitsKeeps ==
  ASSUME PoolInv, NEW k \in Keys, ChromeExits(k)
  PROVE  PoolInv'
<1>1. /\ browser[k].phase = "open" /\ chrome[k] > 0
      /\ chrome' = [chrome EXCEPT ![k] = @ - 1]
      /\ browser' = [browser EXCEPT ![k] = Retired(browser[k])]
      /\ UNCHANGED <<pool, made, users, lease, chain, wiped, service>>
  BY DEF ChromeExits
<1>2. /\ ChainInv(chain[k], pool[k], made[k], wiped[k])
      /\ FirstInv(chain[k], browser[k], chrome[k], pool[k])
  BY AtKey
<1>3. /\ browser'[k] = Retired(browser[k]) /\ \A j \in Keys \ {k} : browser'[j] = browser[j]
      /\ chrome'[k] = 0
  BY <1>1, <1>2 DEF PoolInv, Maps, FirstInv
<1>4. /\ FirstInv(chain[k], browser'[k], chrome'[k], pool[k])
      /\ browser'[k].users = browser[k].users
      /\ browser[k].users > 0 => browser'[k].phase = "open"
  BY <1>1, <1>2, <1>3, FirstRetires
<1>5. /\ LeasesAreCurrent' /\ UsersAreCounted'
      /\ users' = [o \in Ids |-> users'[o]] /\ lease' = [o \in Leases |-> lease'[o]]
  <2>1. \A j \in Keys : browser'[j].users = browser[j].users
    BY <1>3, <1>4
  <2>2. \A j \in Keys : InUse(j) # {} => browser'[j].phase = browser[j].phase
    BY <1>1, <1>3, <1>4, InUseIsOpen
  <2> QED BY <1>1, <2>1, <2>2, RendersRest
<1>6. ExitedIsEmpty'
  BY <1>1 DEF PoolInv, ExitedIsEmpty
<1>7. /\ \E x : browser' = [browser EXCEPT ![k] = x]
      /\ \E x : chrome' = [chrome EXCEPT ![k] = x]
  BY <1>1
<1> QED BY <1>1, <1>2, <1>4, <1>5, <1>6, <1>7, OnlyKey

\* The directory is given up: nobody used it any more.
LEMMA VacateKeeps ==
  ASSUME PoolInv, NEW k \in Keys, Vacate(k), browser[k].phase \in {"closing", "removing"},
         \/ wiped' = wiped
         \/ Head(chain[k])[1] = "rotate" /\ wiped' = [wiped EXCEPT ![k] = Head(chain[k])[2]],
         chrome' = [chrome EXCEPT ![k] = 0],
         UNCHANGED <<pool, made, users, lease, service>>
  PROVE  PoolInv'
<1>1. /\ chain' = [chain EXCEPT ![k] = Tail(@)] /\ browser' = [browser EXCEPT ![k] = NoBrowser]
  BY DEF Vacate
<1>2. /\ ChainInv(chain[k], pool[k], made[k], wiped[k]) /\ chain[k] # <<>>
  BY AtKey DEF FirstInv
<1>3. InUse(k) = {} /\ browser[k].users = 0
  BY ClosedHasNobody
<1>4. /\ browser'[k] = NoBrowser /\ \A j \in Keys \ {k} : browser'[j] = browser[j]
      /\ chain'[k] = Tail(chain[k]) /\ chrome'[k] = 0
  BY <1>1 DEF PoolInv, Maps
<1>5. wiped'[k] = wiped[k] \/ (Head(chain[k])[1] = "rotate" /\ wiped'[k] = Head(chain[k])[2])
  BY DEF PoolInv, Maps
<1>6. ChainInv(chain'[k], pool'[k], made[k], wiped'[k])
  BY <1>2, <1>4, <1>5, ChainShrinks
<1>7. FirstInv(chain'[k], browser'[k], chrome'[k], pool'[k])
  BY <1>4, FirstVacates
<1>8. /\ LeasesAreCurrent' /\ UsersAreCounted'
      /\ users' = [o \in Ids |-> users'[o]] /\ lease' = [o \in Leases |-> lease'[o]]
  <2>1. \A j \in Keys : browser'[j].users = browser[j].users
    BY <1>3, <1>4 DEF NoBrowser
  <2>2. \A j \in Keys : InUse(j) # {} => browser'[j].phase = browser[j].phase
    BY <1>3, <1>4
  <2> QED BY <2>1, <2>2, RendersRest
<1>9. ExitedIsEmpty'
  BY <1>2 DEF PoolInv, ExitedIsEmpty
<1>10. /\ \E x : chain' = [chain EXCEPT ![k] = x]
       /\ \E x : browser' = [browser EXCEPT ![k] = x]
       /\ \E x : chrome' = [chrome EXCEPT ![k] = x]
       /\ wiped' = wiped \/ (\E x : wiped' = [wiped EXCEPT ![k] = x])
  BY <1>1
<1> QED BY <1>6, <1>7, <1>8, <1>9, <1>10, OnlyKey

LEMMA DirectoryIsVacated ==
  ASSUME PoolInv, NEW k \in Keys, CloseDone(k) \/ RotateDone(k)
  PROVE  PoolInv'
<1>1. CASE CloseDone(k)
  BY <1>1, VacateKeeps DEF CloseDone
<1>2. CASE RotateDone(k)
  <2>1. Head(chain[k])[1] = "rotate" /\ chrome[k] = 0
    BY <1>2, AtKey DEF RotateDone, FirstInv
  <2>2. chrome' = [chrome EXCEPT ![k] = 0]
    BY <1>2, <2>1 DEF RotateDone, PoolInv, Maps
  <2> QED BY <1>2, <2>1, <2>2, VacateKeeps DEF RotateDone
<1> QED BY <1>1, <1>2

LEMMA RotateKeeps ==
  ASSUME PoolInv, NEW k \in Keys, Rotate(k)
  PROVE  PoolInv'
<1>1. /\ service = "up" /\ pool[k] # 0 /\ users[Identity(k)] = 0
      /\ pool' = [pool EXCEPT ![k] = 0]
      /\ browser' = IF warm(k) THEN [browser EXCEPT ![k] = Retired(browser[k])] ELSE browser
      /\ chain' = [chain EXCEPT ![k] = Append(@, <<"rotate", pool[k]>>)]
      /\ UNCHANGED <<made, users, lease, chrome, wiped, service>>
  BY DEF Rotate
<1>2. /\ ChainInv(chain[k], pool[k], made[k], wiped[k])
      /\ FirstInv(chain[k], browser[k], chrome[k], pool[k])
      /\ chain[k] \in Seq(Entry) /\ <<"rotate", pool[k]>> \in Entry
  BY <1>1, AtKey, KeysAreTyped DEF Entry
<1>3. /\ \A l \in Held : lease[l].id[1] # k
      /\ browser[k].users = 0 /\ InUse(k) = {}
  BY <1>1, IdleIsFree, InUseIsOpen
<1>4. /\ pool'[k] = 0 /\ \A j \in Keys \ {k} : pool'[j] = pool[j]
      /\ chain'[k] = Append(chain[k], <<"rotate", pool[k]>>)
      /\ browser'[k] = (IF warm(k) THEN Retired(browser[k]) ELSE browser[k])
      /\ \A j \in Keys \ {k} : browser'[j] = browser[j]
  BY <1>1 DEF PoolInv, Maps
<1>5. ChainInv(chain'[k], pool'[k], made[k], wiped[k])
  <2>1. ChainInv(Append(chain[k], <<"rotate", pool[k]>>), 0, made[k], wiped[k])
    <3> DEFINE what == "rotate"
    <3>1. what \in {"launch", "rotate"} /\ what # "launch"
      OBVIOUS
    <3> HIDE DEF what
    <3>2. ChainInv(Append(chain[k], <<what, pool[k]>>), 0, made[k], wiped[k])
      BY <1>1, <1>2, <3>1, ChainGrows
    <3> QED BY <3>2 DEF what
  <2> QED BY <1>4, <2>1
<1>6. FirstInv(chain'[k], browser'[k], chrome[k], pool'[k]) /\ browser'[k].users = browser[k].users
  <2>1. FirstInv(chain[k], browser'[k], chrome[k], 0) /\ browser'[k].users = browser[k].users
    <3>1. CASE warm(k)
      <4>1. browser[k].phase = "open" /\ chrome[k] \in {0, 1}
        BY <1>2, <3>1 DEF warm, FirstInv
      <4> QED BY <1>2, <1>4, <3>1, <4>1, FirstRetires
    <3>2. CASE ~ warm(k)
      BY <1>2, <1>4, <3>2, WarmIs, FirstForgets
    <3> QED BY <3>1, <3>2
  <2> QED BY <1>2, <1>4, <2>1, FirstStays
<1>7. /\ LeasesAreCurrent' /\ UsersAreCounted'
      /\ users' = [o \in Ids |-> users'[o]] /\ lease' = [o \in Leases |-> lease'[o]]
  <2>1. \A j \in Keys : browser'[j].users = browser[j].users
    BY <1>4, <1>6
  <2>2. \A j \in Keys : InUse(j) # {} => browser'[j].phase = browser[j].phase
    BY <1>3, <1>4
  <2>3. \A o \in Held : lease[o].id[1] \in Keys
    BY DEF PoolInv, LeasesAreCurrent, LeaseIsCurrent, Ids
  <2>4. \A o \in Held : pool'[lease[o].id[1]] = pool[lease[o].id[1]]
    BY <1>3, <1>4, <2>3
  <2> QED BY <1>1, <2>1, <2>2, <2>4, RendersRest
<1>8. ExitedIsEmpty'
  BY <1>1 DEF ExitedIsEmpty
<1>9. /\ \E x : chain' = [chain EXCEPT ![k] = x]
      /\ browser' = browser \/ (\E x : browser' = [browser EXCEPT ![k] = x])
  BY <1>1
<1> QED BY <1>1, <1>2, <1>5, <1>6, <1>7, <1>8, <1>9, OnlyKey

LEMMA CloseKeeps ==
  ASSUME PoolInv, Close
  PROVE  PoolInv'
<1>1. /\ service' = "closing" /\ pool' = [k \in Keys |-> 0]
      /\ browser' = [k \in Keys |-> IF warm(k) THEN Retired(browser[k]) ELSE browser[k]]
      /\ UNCHANGED <<made, users, lease, chain, chrome, wiped>>
      /\ \A l \in Leases : lease[l] = Out
  BY DEF Close
<1>2. Held = {} /\ \A k : InUse(k) = {}
  BY <1>1 DEF Held, InUse, Out
<1>3. ASSUME NEW k \in Keys
      PROVE  /\ ChainInv(chain[k], 0, made[k], wiped[k])
             /\ FirstInv(chain[k], browser'[k], chrome[k], 0)
             /\ browser'[k].users = browser[k].users
  <2>1. /\ ChainInv(chain[k], pool[k], made[k], wiped[k])
        /\ FirstInv(chain[k], browser[k], chrome[k], pool[k])
    BY AtKey
  <2>2. ChainInv(chain[k], 0, made[k], wiped[k])
    BY <2>1, ChainForgets
  <2>3. CASE warm(k)
    <3>1. browser[k].phase = "open" /\ chrome[k] \in {0, 1} /\ browser'[k] = Retired(browser[k])
      BY <1>1, <2>1, <2>3 DEF warm, FirstInv
    <3> QED BY <2>1, <2>2, <3>1, FirstRetires
  <2>4. CASE ~ warm(k)
    <3>1. browser'[k] = browser[k]
      BY <1>1, <2>4
    <3> QED BY <2>1, <2>2, <2>4, <3>1, WarmIs, FirstForgets
  <2> QED BY <2>3, <2>4
<1>4. /\ LeasesAreCurrent' /\ UsersAreCounted'
      /\ users' = [o \in Ids |-> users'[o]] /\ lease' = [o \in Leases |-> lease'[o]]
  BY <1>1, <1>2, <1>3, RendersRest
<1>5. ChainsAreOrdered' /\ FirstsAreSound'
  BY <1>1, <1>3 DEF ChainsAreOrdered, FirstsAreSound
<1>6. Maps'
  BY <1>1, <1>4 DEF PoolInv, Maps
<1>7. ExitedIsEmpty'
  BY <1>1 DEF ExitedIsEmpty
<1> QED BY <1>4, <1>5, <1>6, <1>7 DEF PoolInv

LEMMA ServiceKeeps ==
  ASSUME PoolInv, Stop \/ Exit
  PROVE  PoolInv'
<1>1. /\ UNCHANGED <<pool, made, users, lease, chain, browser, chrome, wiped>>
      /\ service' = "exited" => \A k \in Keys : chain[k] = <<>>
  BY DEF Stop, Exit
<1>2. ExitedIsEmpty'
  BY <1>1 DEF ExitedIsEmpty
<1>3. LeasesAreCurrent' /\ UsersAreCounted'
  BY <1>1, RendersRest
<1>4. Maps' /\ ChainsAreOrdered' /\ FirstsAreSound'
  BY <1>1 DEF PoolInv, Maps, ChainsAreOrdered, FirstsAreSound
<1> QED BY <1>2, <1>3, <1>4 DEF PoolInv

LEMMA PoolInvHolds == Spec => []PoolInv
<1>1. ASSUME Init PROVE PoolInv
  <2>1. Held = {} /\ (\A i : UsersOf(i) = {}) /\ \A k : InUse(k) = {}
    BY <1>1 DEF Init, Held, UsersOf, InUse, Out
  <2>2. Maps /\ ExitedIsEmpty
    BY <1>1 DEF Init, Maps, ExitedIsEmpty
  <2>3. \A k \in Keys : ChainInv(<<>>, 0, 0, 0) /\ FirstInv(<<>>, NoBrowser, 0, 0)
    BY PoolAssumption, FirstVacates DEF ChainInv
  <2>4. ChainsAreOrdered /\ FirstsAreSound
    BY <1>1, <2>3 DEF Init, ChainsAreOrdered, FirstsAreSound
  <2>5. UsersAreCounted
    BY <1>1, <2>1, FS_EmptySet DEF Init, UsersAreCounted, NoBrowser
  <2> QED BY <2>1, <2>2, <2>4, <2>5 DEF PoolInv, LeasesAreCurrent
<1>2. ASSUME PoolInv, [Next]_vars PROVE PoolInv'
  <2>1. CASE UNCHANGED vars
    <3>1. UNCHANGED <<pool, made, users, lease, chain, browser, chrome, wiped, service>>
      BY <2>1 DEF vars
    <3>2. LeasesAreCurrent' /\ UsersAreCounted'
      BY <1>2, <3>1, RendersRest
    <3>3. Maps' /\ ChainsAreOrdered' /\ FirstsAreSound' /\ ExitedIsEmpty'
      BY <1>2, <3>1 DEF PoolInv, Maps, ChainsAreOrdered, FirstsAreSound, ExitedIsEmpty
    <3> QED BY <3>2, <3>3 DEF PoolInv
  <2>2. ASSUME NEW l \in Leases, NEW k \in Keys,
               AcquireWarm(l, k) \/ AcquireCold(l, k) \/ AcquireNew(l, k)
        PROVE  PoolInv'
    BY <1>2, <2>2, AcquireWarmKeeps, AcquireColdKeeps, AcquireNewKeeps
  <2>3. ASSUME NEW l \in Leases, Abort(l) \/ Ends(l) PROVE PoolInv'
    BY <1>2, <2>3, AbortKeeps, FinishKeeps DEF Ends
  <2>4. ASSUME NEW k \in Keys, DirectoryStep(k) \/ ChromeExits(k) \/ Rotate(k) PROVE PoolInv'
    BY <1>2, <2>4, BeginKeeps, LaunchDoneKeeps, LaunchFailsKeeps, DirectoryIsVacated,
       ChromeExitsKeeps, RotateKeeps DEF DirectoryStep
  <2>5. CASE Stop \/ Close \/ Exit
    BY <1>2, <2>5, CloseKeeps, ServiceKeeps
  <2> QED BY <1>2, <2>1, <2>2, <2>3, <2>4, <2>5 DEF Next
<1> QED BY <1>1, <1>2, PTL DEF Spec

\* A profile directory never has two Chromes, is removed only when it has none,
\* and a wiped identity never starts on it again (Identities.#occupy, rotate).
THEOREM DirectoriesAreSafe == Spec => []OneChromePerProfile
<1>1. ASSUME PoolInv PROVE OneChromePerProfile
  <2> SUFFICES ASSUME NEW k \in Keys
               PROVE  /\ chrome[k] <= 1
                      /\ browser[k].phase = "removing" => chrome[k] = 0
                      /\ browser[k].phase \in {"starting", "open", "closing"} => Launched(k)[2] > wiped[k]
    BY DEF OneChromePerProfile
  <2>1. /\ ChainInv(chain[k], pool[k], made[k], wiped[k])
        /\ FirstInv(chain[k], browser[k], chrome[k], pool[k])
    BY <1>1, AtKey
  <2>2. ASSUME chain[k] # <<>> PROVE Launched(k)[2] > wiped[k]
    <3>1. 1 \in DOMAIN chain[k] /\ Head(chain[k]) = chain[k][1]
      BY <2>1, <2>2, EmptySeq, HeadTailProperties DEF ChainInv
    <3> QED BY <2>1, <3>1 DEF ChainInv, Launched
  <2> QED BY <2>1, <2>2 DEF FirstInv
<1> QED BY <1>1, PoolInvHolds, PTL

\* A browser is closed when and only when it is retired and nobody uses it
\* (Identities.#retire, release).
THEOREM ClosedOnlyUnused == Spec => []ClosedWhenUnused
<1>1. ASSUME PoolInv PROVE ClosedWhenUnused
  <2>1. \A k \in Keys : /\ browser[k].phase = "closing" => InUse(k) = {}
                        /\ browser[k].phase = "open" /\ browser[k].retired => InUse(k) # {}
    BY <1>1, AtKey, ClosedHasNobody, InUseIsOpen DEF FirstInv
  <2> QED BY <2>1 DEF ClosedWhenUnused, InUse
<1> QED BY <1>1, PoolInvHolds, PTL

\* The pool finds every browser that is to stay open, and the service leaves no
\* Chrome behind (Identities.#evictIdle, close).
THEOREM NoBrowserIsLost == Spec => []NoStrayBrowser
<1>1. ASSUME PoolInv PROVE NoStrayBrowser
  <2>1. \A k \in Keys : chain[k] = <<>> => chrome[k] = 0
    BY <1>1, AtKey DEF FirstInv
  <2> QED BY <1>1, <2>1, WarmIs DEF NoStrayBrowser, PoolInv, ExitedIsEmpty
<1> QED BY <1>1, PoolInvHolds, PTL

-----------------------------------------------------------------------------
\* The rest of a lease's shape, the launches and the service's state.
PoolRest ==
  /\ launching \subseteq Ids /\ service \in {"up", "stopping", "closing", "exited"}
  /\ lease \in [Leases -> {Out} \cup [at : {"waiting", "attached"}, id : Ids]]

LEMMA PoolRestKept ==
  ASSUME PoolInv, PoolRest, [Next]_vars
  PROVE  PoolRest'
<1> USE DEF PoolRest
<1>1. ASSUME NEW l \in Leases, NEW k \in Keys,
             AcquireWarm(l, k) \/ AcquireCold(l, k) \/ AcquireNew(l, k)
      PROVE  PoolRest'
  <2>1. pool[k] # 0 => Identity(k) \in Ids
    BY KeysAreTyped
  <2>2. CASE AcquireWarm(l, k)
    BY <2>1, <2>2 DEF AcquireWarm, warm
  <2>3. CASE AcquireCold(l, k)
    BY <2>1, <2>3 DEF AcquireCold, Join
  <2>4. CASE AcquireNew(l, k)
    <3>1. ChainInv(chain[k], pool[k], made[k], wiped[k])
      BY AtKey
    <3>2. made[k] + 1 \in 1..MaxMade
      BY <2>4, <3>1, PoolAssumption DEF AcquireNew, ChainInv
    <3>3. <<k, made[k] + 1>> \in Ids
      BY <3>2 DEF Ids
    <3> QED BY <2>4, <3>3 DEF AcquireNew, Join
  <2> QED BY <1>1, <2>2, <2>3, <2>4
<1>2. ASSUME NEW l \in Leases, Abort(l) \/ Ends(l) PROVE PoolRest'
  BY <1>2 DEF Abort, Ends, Finish
<1>3. ASSUME NEW k \in Keys, LaunchDone(k) \/ LaunchFails(k) PROVE PoolRest'
  <2>1. \A l \in Holders(Launched(k), "waiting") : Launched(k) \in Ids
    <3> SUFFICES ASSUME NEW l \in Holders(Launched(k), "waiting") PROVE Launched(k) \in Ids
      OBVIOUS
    <3>1. lease[l] = [at |-> "waiting", id |-> Launched(k)] /\ lease[l] # Out
      BY DEF Holders, Out
    <3> QED BY <3>1 DEF Holders
  <2>2. CASE LaunchDone(k)
    BY <2>1, <2>2 DEF LaunchDone
  <2>3. CASE LaunchFails(k)
    BY <2>3 DEF LaunchFails
  <2> QED BY <1>3, <2>2, <2>3
<1>4. ASSUME NEW k \in Keys, \/ Begin(k) \/ CloseDone(k) \/ RotateDone(k)
                             \/ ChromeExits(k) \/ Rotate(k)
      PROVE  PoolRest'
  BY <1>4 DEF Begin, CloseDone, RotateDone, ChromeExits, Rotate
<1>5. CASE Stop \/ Close \/ Exit \/ UNCHANGED vars
  BY <1>5 DEF Stop, Close, Exit, vars
<1> QED BY <1>1, <1>2, <1>3, <1>4, <1>5 DEF Next, DirectoryStep

\* Every lease and every launch is of an identity that was made, and no key is
\* given more of them than the model's bound.
THEOREM PoolIsTyped == Spec => []TypeOK
<1>1. Init => PoolRest
  BY DEF Init, PoolRest
<1>2. ASSUME PoolInv, PoolRest PROVE TypeOK
  <2> USE <1>2 DEF PoolInv
  <2>1. \A k \in Keys : ChainInv(chain[k], pool[k], made[k], wiped[k])
    BY DEF ChainsAreOrdered
  <2>2. \A k \in Keys : FirstInv(chain[k], browser[k], chrome[k], pool[k])
    BY DEF FirstsAreSound
  <2>3. \A k \in Keys : /\ pool[k] \in 0..MaxMade /\ made[k] \in 0..MaxMade
                       /\ wiped[k] \in 0..MaxMade /\ chain[k] \in Seq(Entry)
    BY <2>1, PoolAssumption DEF ChainInv
  <2>4. \A k \in Keys : /\ browser[k] \in [phase : Phases, retired : BOOLEAN, users : Nat]
                       /\ chrome[k] \in Nat
    BY <2>2 DEF FirstInv
  <2>5. \A i \in Ids : users[i] \in Nat
    <3> SUFFICES ASSUME NEW i \in Ids PROVE users[i] \in Nat
      OBVIOUS
    <3>1. UsersOf(i) \subseteq Leases
      BY DEF UsersOf, Held
    <3>2. Cardinality(UsersOf(i)) \in Nat
      BY <3>1, Counting
    <3> QED BY <3>2 DEF UsersAreCounted
  <2>6. /\ pool \in [Keys -> 0..MaxMade] /\ made \in [Keys -> 0..MaxMade]
        /\ wiped \in [Keys -> 0..MaxMade] /\ chain \in [Keys -> Seq(Entry)]
    BY <2>3 DEF Maps
  <2>7. /\ browser \in [Keys -> [phase : Phases, retired : BOOLEAN, users : Nat]]
        /\ chrome \in [Keys -> Nat] /\ users \in [Ids -> Nat]
    BY <2>4, <2>5 DEF Maps
  <2> QED BY <2>6, <2>7 DEF TypeOK, PoolRest, Entry
<1> QED BY <1>1, <1>2, PoolInvHolds, PoolRestKept, PTL DEF Spec

\* An identity that renders use keeps its key until the last of them is gone,
\* whether a new key needs its place, its rotation is asked for or the service
\* stops (Identities.#evictIdle, rotate, close).
UsedIdentitiesStay ==
  [][\A k \in Keys : pool[k] # 0 /\ pool'[k] # pool[k] => users[Identity(k)] = 0]_vars

\* No step of the service takes an identity from its key under a render
\* (Identities.#evictIdle, rotate, close).
THEOREM IdentitiesInUseStay == Spec => UsedIdentitiesStay
<1>1. ASSUME PoolInv, [Next]_vars, NEW k \in Keys, pool[k] # 0, pool'[k] # pool[k]
      PROVE  users[Identity(k)] = 0
  <2>1. ASSUME NEW l \in Leases, NEW j \in Keys, AcquireNew(l, j) PROVE users[Identity(k)] = 0
    <3>1. PICK E \in Evictions :
            pool' = [i \in Keys |-> IF i = j THEN made[j] + 1 ELSE IF i \in E THEN 0 ELSE pool[i]]
      BY <2>1 DEF AcquireNew
    <3>2. k \in E
      BY <1>1, <2>1, <3>1 DEF AcquireNew
    <3> QED BY <3>1, <3>2 DEF Evictions
  <2>2. ASSUME NEW j \in Keys, Rotate(j) PROVE users[Identity(k)] = 0
    BY <1>1, <2>2 DEF Rotate, PoolInv, Maps
  <2>3. CASE Close
    <3>1. UsersOf(Identity(k)) = {}
      BY <2>3 DEF Close, UsersOf, Held, Out
    <3>2. Identity(k) \in Ids
      BY <1>1, KeysAreTyped
    <3>3. users[Identity(k)] = Cardinality({})
      BY <1>1, <3>1, <3>2 DEF PoolInv, UsersAreCounted
    <3> QED BY <3>3, FS_EmptySet
  <2>4. CASE pool' = pool
    BY <1>1, <2>4
  <2>5. ASSUME NEW l \in Leases, \/ \E j \in Keys : AcquireWarm(l, j) \/ AcquireCold(l, j)
                                 \/ Abort(l) \/ Ends(l)
        PROVE  pool' = pool
    BY <2>5 DEF AcquireWarm, AcquireCold, Abort, Ends, Finish
  <2>6. ASSUME NEW j \in Keys, DirectoryStep(j) \/ ChromeExits(j) PROVE pool' = pool
    BY <2>6 DEF DirectoryStep, ChromeExits, Begin, LaunchDone, LaunchFails, CloseDone,
                RotateDone
  <2>7. CASE Stop \/ Exit \/ UNCHANGED vars
    BY <2>4, <2>7 DEF Stop, Exit, vars
  <2> QED BY <1>1, <2>1, <2>2, <2>3, <2>4, <2>5, <2>6, <2>7 DEF Next
<1>2. ASSUME PoolInv, [Next]_vars
      PROVE  [\A k \in Keys : pool[k] # 0 /\ pool'[k] # pool[k] => users[Identity(k)] = 0]_vars
  BY <1>1, <1>2
<1> QED BY <1>2, PoolInvHolds, PTL DEF Spec, UsedIdentitiesStay
=============================================================================
