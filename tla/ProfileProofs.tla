---------------------------- MODULE ProfileProofs ----------------------------
(***************************************************************************)
(* For any number of renders, sessions, profiles and slots: the locks of   *)
(* the browser service's profiles are exact, a Chrome has an owner, and    *)
(* the limiter, with the lines of profiles in front of it, implements      *)
(* Semaphore.                                                              *)
(***************************************************************************)
EXTENDS Profiles, FiniteSetTheorems, SequenceTheorems, TLAPS

\* q is a line of exactly the renders of S, each once.
LineIs(q, S) ==
  /\ q \in Seq(Renders) /\ S \subseteq Renders
  /\ \A i \in DOMAIN q : q[i] \in S
  /\ \A r \in S : \E i \in DOMAIN q : q[i] = r
  /\ \A i, j \in DOMAIN q : q[i] = q[j] => i = j
  /\ Len(q) = Cardinality(S)

Queued == {r \in Renders : render[r].at = "queued"}
FirstIs(q, S) == \A r \in S : render[r].at # "turn" => q[1] = r

RenderShape ==
  /\ render \in [Renders -> [at : RenderPlaces, profile : AnyProfile]]
  /\ \A r \in Renders : render[r].at = "out" => render[r].profile = NoProfile
  /\ \A r \in Renders : render[r].at \in {"turn", "launching", "closing"} => render[r].profile # NoProfile

\* The limiter's queue holds the queued renders, its count is that of the running
\* ones, and nobody waits while there is a slot.
LimiterInv ==
  /\ LineIs(queue, Queued)
  /\ active = Cardinality(Running) /\ active <= Concurrency
  /\ queue # <<>> => active = Concurrency

\* The line of a profile holds its renders; those behind the first have not begun.
LinesInv ==
  /\ turns = [p \in Profiles |-> turns[p]]
  /\ \A p \in Profiles : LineIs(turns[p], LineOf(p)) /\ FirstIs(turns[p], LineOf(p))

HoldsProfile(record) == record.at \in Opening \cup {"open", "releasing"}
OwnsChrome(record) == HoldsProfile(record) /\ (record.at = "releasing" => ~ record.saving)

SessionShape ==
  /\ session \in [Sessions -> [at : SessionPlaces, profile : AnyProfile, saving : BOOLEAN]]
  /\ \A s \in Sessions : session[s].saving =>
       session[s].profile # NoProfile /\ session[s].at \in {"open", "releasing", "out"}

\* A profile is held while a session has it, one at most, and then no render is in line.
HeldInv ==
  /\ held = {p \in Profiles : HoldersOf(p) # {}}
  /\ \A p \in Profiles : \A s, t \in HoldersOf(p) : s = t
  /\ \A p \in held : turns[p] = <<>>

ProfilesInv ==
  RenderShape /\ LimiterInv /\ LinesInv /\ SessionShape /\ HeldInv /\ ChromeIsOwned
-----------------------------------------------------------------------------
\* Lines.

LEMMA Counting ==
  ASSUME NEW S \in SUBSET Renders, NEW r
  PROVE  /\ IsFiniteSet(S) /\ Cardinality(S) \in Nat
         /\ Cardinality(S \cup {r}) = IF r \in S THEN Cardinality(S) ELSE Cardinality(S) + 1
         /\ Cardinality(S \ {r}) = IF r \in S THEN Cardinality(S) - 1 ELSE Cardinality(S)
         /\ Cardinality(S) = 0 <=> S = {}
<1>1. IsFiniteSet(S)
  BY ProfilesAssumption, FS_Subset
<1> QED BY <1>1, FS_CardinalityType, FS_AddElement, FS_RemoveElement, FS_EmptySet

LEMMA LineJoins ==
  ASSUME NEW q, NEW S, LineIs(q, S), NEW r \in Renders, r \notin S
  PROVE  /\ LineIs(Append(q, r), S \cup {r})
         /\ Append(q, r)[1] = IF S = {} THEN r ELSE q[1]
<1> DEFINE t == Append(q, r)  n == Len(q)
<1>1. /\ q \in Seq(Renders) /\ n \in Nat /\ DOMAIN q = 1..n
      /\ t \in Seq(Renders) /\ DOMAIN t = 1..(n + 1) /\ Len(t) = n + 1
      /\ \A i \in 1..n : t[i] = q[i]
      /\ t[n + 1] = r
  BY DEF LineIs
<1> HIDE DEF t, n
<1>2. /\ \A i \in DOMAIN q : q[i] \in S /\ q[i] # r
      /\ \A i \in DOMAIN t : (i \in DOMAIN q /\ t[i] = q[i]) \/ (i = n + 1 /\ t[i] = r)
      /\ n + 1 \in DOMAIN t /\ \A i \in DOMAIN q : i \in DOMAIN t
  BY <1>1 DEF LineIs
<1>3. \A i \in DOMAIN t : t[i] \in S \cup {r}
  BY <1>2
<1>4. \A x \in S \cup {r} : \E i \in DOMAIN t : t[i] = x
  <2>1. \A x \in S : \E i \in DOMAIN t : t[i] = x
    BY <1>1, <1>2 DEF LineIs
  <2> QED BY <1>1, <1>2, <2>1
<1>5. \A i, j \in DOMAIN t : t[i] = t[j] => i = j
  BY <1>2 DEF LineIs
<1>6. Len(t) = Cardinality(S \cup {r}) /\ S \cup {r} \subseteq Renders
  <2>1. Len(q) = Cardinality(S) /\ S \subseteq Renders
    BY DEF LineIs
  <2>2. Cardinality(S \cup {r}) = Cardinality(S) + 1
    BY <2>1, Counting
  <2> QED BY <1>1, <2>1, <2>2 DEF n
<1>7. t[1] = IF S = {} THEN r ELSE q[1]
  <2>1. Len(q) = Cardinality(S) /\ (Cardinality(S) = 0 <=> S = {})
    BY Counting DEF LineIs
  <2>2. CASE n = 0
    BY <1>1, <2>1, <2>2 DEF n
  <2>3. CASE n # 0
    <3>1. 1 \in 1..n
      BY <1>1, <2>3
    <3> QED BY <1>1, <2>1, <2>3, <3>1 DEF n
  <2> QED BY <2>2, <2>3
<1> QED BY <1>1, <1>3, <1>4, <1>5, <1>6, <1>7 DEF LineIs, t

LEMMA LineMoves ==
  ASSUME NEW q, NEW S, LineIs(q, S), q # <<>>
  PROVE  /\ q[1] \in S /\ Head(q) = q[1]
         /\ LineIs(Tail(q), S \ {q[1]})
<1> DEFINE t == Tail(q)  n == Len(q)
<1>1. /\ q \in Seq(Renders) /\ n \in Nat \ {0} /\ DOMAIN q = 1..n /\ Head(q) = q[1]
      /\ t \in Seq(Renders) /\ DOMAIN t = 1..(n - 1) /\ Len(t) = n - 1
      /\ \A i \in 1..(n - 1) : t[i] = q[i + 1]
  BY HeadTailProperties, EmptySeq DEF LineIs
<1> HIDE DEF t, n
<1>2. 1 \in DOMAIN q /\ q[1] \in S
  BY <1>1 DEF LineIs
<1>3. \A i \in DOMAIN t : t[i] = q[i + 1] /\ i + 1 \in DOMAIN q /\ i + 1 # 1
  BY <1>1
<1>4. \A i \in DOMAIN t : t[i] \in S \ {q[1]}
  BY <1>2, <1>3 DEF LineIs
<1>5. \A x \in S \ {q[1]} : \E i \in DOMAIN t : t[i] = x
  <2> SUFFICES ASSUME NEW x \in S \ {q[1]} PROVE \E i \in DOMAIN t : t[i] = x
    OBVIOUS
  <2>1. PICK j \in DOMAIN q : q[j] = x
    BY DEF LineIs
  <2>2. j - 1 \in DOMAIN t /\ (j - 1) + 1 = j
    BY <1>1, <2>1
  <2> QED BY <1>3, <2>1, <2>2
<1>6. \A i, j \in DOMAIN t : t[i] = t[j] => i = j
  <2> SUFFICES ASSUME NEW i \in DOMAIN t, NEW j \in DOMAIN t, t[i] = t[j] PROVE i = j
    OBVIOUS
  <2>1. i + 1 = j + 1
    BY <1>3 DEF LineIs
  <2> QED BY <1>1, <2>1
<1>7. Len(t) = Cardinality(S \ {q[1]})
  <2>1. Cardinality(S) = n /\ S \subseteq Renders
    BY DEF LineIs, n
  <2>2. Cardinality(S \ {q[1]}) = Cardinality(S) - 1
    BY <1>2, <2>1, Counting
  <2> QED BY <1>1, <2>1, <2>2
<1> QED BY <1>1, <1>2, <1>4, <1>5, <1>6, <1>7 DEF LineIs, t

\* Taking the element at a position out of a sequence keeps all others, in order.
LEMMA Removal ==
  ASSUME NEW q \in Seq(Renders), NEW i \in DOMAIN q
  PROVE  LET r == SubSeq(q, 1, i - 1) \o SubSeq(q, i + 1, Len(q))
         IN  /\ r \in Seq(Renders)
             /\ Len(r) = Len(q) - 1
             /\ \A k \in 1..Len(r) : r[k] = IF k < i THEN q[k] ELSE q[k + 1]
<1> DEFINE a == SubSeq(q, 1, i - 1)  b == SubSeq(q, i + 1, Len(q))
<1>1. Len(q) \in Nat /\ DOMAIN q = 1..Len(q) /\ q \in [1..Len(q) -> Renders]
  BY LenProperties
<1>2. /\ a \in Seq(Renders)
      /\ Len(a) = i - 1
      /\ \A k \in 1..(i - 1) : a[k] = q[k]
  <2>1. \A k \in 1..(i - 1) : q[k] \in Renders
    BY <1>1
  <2>2. i - 1 \in Int /\ 1 \in Int /\ i >= 1
    BY <1>1
  <2> QED BY <2>1, <2>2, SubSeqProperties
<1>3. /\ b \in Seq(Renders)
      /\ Len(b) = Len(q) - i
      /\ \A k \in 1..(Len(q) - i) : b[k] = q[i + k]
  <2>1. \A k \in (i + 1)..Len(q) : q[k] \in Renders
    BY <1>1
  <2>2. i \in Int /\ i + 1 \in Int /\ Len(q) \in Int /\ i <= Len(q)
    BY <1>1
  <2>3. /\ b \in Seq(Renders)
        /\ Len(b) = IF i + 1 <= Len(q) THEN Len(q) - (i + 1) + 1 ELSE 0
        /\ \A k \in 1..(Len(q) - (i + 1) + 1) : b[k] = q[(i + 1) + k - 1]
    BY <2>1, <2>2, SubSeqProperties, SMTT(30)
  <2> HIDE DEF b
  <2>4. Len(b) = Len(q) - i
    BY <2>2, <2>3, SMTT(30)
  <2>5. ASSUME NEW k \in 1..(Len(q) - i)
        PROVE  b[k] = q[i + k]
    <3>1. Len(q) - (i + 1) + 1 = Len(q) - i /\ (i + 1) + k - 1 = i + k
      <4>1. \A n, j \in Int : n - (j + 1) + 1 = n - j
        OBVIOUS
      <4>2. \A m, j \in Int : (j + 1) + m - 1 = j + m
        OBVIOUS
      <4>3. k \in Int
        OBVIOUS
      <4> QED BY <2>2, <4>1, <4>2, <4>3, Zenon
    <3>2. k \in 1..(Len(q) - (i + 1) + 1)
      BY <3>1
    <3>3. b[k] = q[(i + 1) + k - 1]
      BY <2>3, <3>2
    <3> QED BY <3>1, <3>3
  <2> QED BY <2>3, <2>4, <2>5
<1>4. /\ a \o b \in Seq(Renders)
      /\ Len(a \o b) = Len(a) + Len(b)
      /\ \A k \in 1..(Len(a) + Len(b)) :
           (a \o b)[k] = IF k <= Len(a) THEN a[k] ELSE b[k - Len(a)]
  BY <1>2, <1>3, ConcatProperties
<1> HIDE DEF a, b
<1>5. Len(a \o b) = Len(q) - 1
  BY <1>1, <1>2, <1>3, <1>4
<1>6. ASSUME NEW k \in 1..Len(a \o b)
      PROVE  (a \o b)[k] = IF k < i THEN q[k] ELSE q[k + 1]
  <2>0. /\ i \in 1..Len(q) /\ Len(q) \in Nat /\ Len(a) = i - 1
        /\ Len(a) + Len(b) = Len(q) - 1 /\ k \in 1..(Len(q) - 1)
    BY <1>1, <1>2, <1>3, <1>5
  <2>3. (a \o b)[k] = IF k <= Len(a) THEN a[k] ELSE b[k - Len(a)]
    BY <1>4, <2>0
  <2>1. CASE k < i
    <3>1. k \in 1..(i - 1) /\ k <= Len(a)
      BY <2>0, <2>1
    <3>2. a[k] = q[k]
      BY <1>2, <3>1
    <3>3. (a \o b)[k] = a[k]
      BY <2>3, <3>1
    <3> QED BY <2>1, <3>2, <3>3
  <2>2. CASE ~ k < i
    <3>0. /\ k \in Int /\ i \in Int /\ Len(q) \in Int /\ Len(a) = i - 1
          /\ k >= i /\ k <= Len(q) - 1
      BY <2>0, <2>2
    <3>1. k - Len(a) \in 1..(Len(q) - i) /\ ~ k <= Len(a)
      BY <3>0
    <3>2. b[k - Len(a)] = q[i + (k - Len(a))]
      BY <1>3, <3>1
    <3>3. i + (k - Len(a)) = k + 1
      BY <2>0
    <3>4. (a \o b)[k] = b[k - Len(a)]
      BY <2>3, <3>1
    <3> QED BY <2>2, <3>2, <3>3, <3>4, Zenon
  <2> QED BY <2>1, <2>2
<1> QED BY <1>4, <1>5, <1>6 DEF a, b

LEMMA LineLeaves ==
  ASSUME NEW q, NEW S, LineIs(q, S), NEW i \in DOMAIN q
  PROVE  LineIs(SubSeq(q, 1, i - 1) \o SubSeq(q, i + 1, Len(q)), S \ {q[i]})
<1>0. PICK t : t = SubSeq(q, 1, i - 1) \o SubSeq(q, i + 1, Len(q))
  OBVIOUS
<1>1. q \in Seq(Renders) /\ q[i] \in S /\ S \subseteq Renders /\ Len(q) = Cardinality(S)
  BY DEF LineIs
<1>2. /\ t \in Seq(Renders) /\ Len(t) = Len(q) - 1
      /\ \A k \in 1..Len(t) : t[k] = IF k < i THEN q[k] ELSE q[k + 1]
  BY <1>0, <1>1, Removal
<1>3. /\ DOMAIN t = 1..Len(t) /\ DOMAIN q = 1..Len(q) /\ Len(q) \in Nat /\ i \in Nat /\ i <= Len(q)
  BY <1>1, <1>2
<1> DEFINE at(k) == IF k < i THEN k ELSE k + 1
<1>4. \A k \in DOMAIN t : t[k] = q[at(k)] /\ at(k) \in DOMAIN q /\ at(k) # i
  BY <1>2, <1>3
<1>5. \A k, l \in DOMAIN t : at(k) = at(l) => k = l
  BY <1>3
<1>6. \A k \in DOMAIN q : k # i => \E l \in DOMAIN t : at(l) = k
  <2> SUFFICES ASSUME NEW k \in DOMAIN q, k # i PROVE \E l \in DOMAIN t : at(l) = k
    OBVIOUS
  <2>1. CASE k < i
    <3>1. k \in DOMAIN t /\ at(k) = k
      BY <1>2, <1>3, <2>1
    <3> QED BY <3>1
  <2>2. CASE k > i
    <3>1. k - 1 \in DOMAIN t /\ at(k - 1) = k
      BY <1>2, <1>3, <2>2
    <3> QED BY <3>1
  <2> QED BY <1>3, <2>1, <2>2
<1> HIDE DEF at
<1>7. \A k \in DOMAIN t : t[k] \in S \ {q[i]}
  BY <1>4 DEF LineIs
<1>8. \A x \in S \ {q[i]} : \E k \in DOMAIN t : t[k] = x
  BY <1>4, <1>6 DEF LineIs
<1>9. \A k, l \in DOMAIN t : t[k] = t[l] => k = l
  BY <1>4, <1>5 DEF LineIs
<1>10. Len(t) = Cardinality(S \ {q[i]})
  BY <1>1, <1>2, Counting
<1> QED BY <1>0, <1>1, <1>2, <1>7, <1>8, <1>9, <1>10 DEF LineIs
-----------------------------------------------------------------------------
\* The limiter, and what its callers see of it.

LEMMA SameCardinality == \A S : Promise!Cardinality(S) = Cardinality(S)
BY DEF Promise!Cardinality, Cardinality

Visible == Promise!Next \/ UNCHANGED Promise!vars

LEMMA PlacesAreSets ==
  ASSUME RenderShape
  PROVE  /\ Running \in SUBSET Renders /\ Queued \in SUBSET Renders
         /\ Running \cap Queued = {}
         /\ Cardinality(Running) \in Nat /\ Cardinality(Queued) \in Nat
<1>1. /\ Running \in SUBSET Renders /\ Queued \in SUBSET Renders
      /\ Running \cap Queued = {}
  BY DEF Running, Queued
<1> QED BY <1>1, Counting

LEMMA NothingTaken ==
  ASSUME LimiterInv, UNCHANGED limiterVars, Running' = Running, Queued' = Queued
  PROVE  LimiterInv' /\ Visible
<1>1. UNCHANGED <<queue, active>>
  BY DEF limiterVars
<1> QED BY <1>1 DEF LimiterInv, Visible, Promise!vars, LineIs

LEMMA SlotTaken ==
  ASSUME RenderShape, LimiterInv, NEW r \in Renders, r \notin Running, Acquire,
         Running' = Running \cup {r}, Queued' = Queued
  PROVE  LimiterInv' /\ Visible
<1>1. active < Concurrency /\ active' = active + 1 /\ queue' = queue
  BY DEF Acquire
<1>2. queue = <<>> /\ active = Cardinality(Running) /\ active \in Nat
  BY <1>1, PlacesAreSets, ServiceLimiterAssumption DEF LimiterInv
<1>3. Cardinality(Running') = Cardinality(Running) + 1
  BY PlacesAreSets, Counting
<1>4. active' = Cardinality(Running')
  BY <1>1, <1>2, <1>3
<1>5. active' <= Concurrency
  BY <1>1, <1>2, ServiceLimiterAssumption
<1>6. LimiterInv'
  BY <1>1, <1>2, <1>4, <1>5 DEF LimiterInv, LineIs
<1>7. Promise!Enter(r)
  BY <1>1, <1>2, SameCardinality DEF Promise!Enter
<1> QED BY <1>6, <1>7 DEF Visible, Promise!Next

LEMMA PlaceTaken ==
  ASSUME RenderShape, LimiterInv, NEW r \in Renders, r \notin Running, r \notin Queued, Enqueue(r),
         Running' = Running, Queued' = Queued \cup {r}
  PROVE  LimiterInv' /\ Visible
<1>1. active >= Concurrency /\ Len(queue) < MaxWaiting /\ queue' = Append(queue, r) /\ active' = active
  BY DEF Enqueue
<1>2. active = Concurrency /\ active = Cardinality(Running)
  BY <1>1, PlacesAreSets, ServiceLimiterAssumption DEF LimiterInv
<1>3. LineIs(queue, Queued)
  BY DEF LimiterInv
<1>4. LineIs(queue', Queued')
  BY <1>1, <1>3, LineJoins
<1>5. LimiterInv'
  BY <1>1, <1>2, <1>4, ServiceLimiterAssumption DEF LimiterInv
<1>6. \A i \in DOMAIN queue : queue[i] # r
  BY <1>3 DEF LineIs
<1>7. Promise!Wait(r)
  BY <1>1, <1>2, <1>6, SameCardinality DEF Promise!Wait
<1> QED BY <1>5, <1>7 DEF Visible, Promise!Next

LEMMA PlaceGivenUp ==
  ASSUME LimiterInv, NEW r \in Renders, Abandon(r), Running' = Running, Queued' = Queued \ {r}
  PROVE  LimiterInv' /\ Visible
<1>1. PICK i \in DOMAIN queue :
        queue[i] = r /\ queue' = SubSeq(queue, 1, i - 1) \o SubSeq(queue, i + 1, Len(queue))
  BY DEF Abandon
<1>2. active' = active /\ LineIs(queue, Queued)
  BY DEF Abandon, LimiterInv
<1>3. LineIs(queue', Queued')
  BY <1>1, <1>2, LineLeaves
<1>4. queue # <<>>
  BY <1>1, <1>2, EmptySeq DEF LineIs
<1>5. LimiterInv'
  BY <1>2, <1>3, <1>4 DEF LimiterInv
<1>6. Promise!Abandon(i)
  BY <1>1 DEF Promise!Abandon
<1> QED BY <1>1, <1>5, <1>6 DEF Visible, Promise!Next

LEMMA SlotGivenUp ==
  ASSUME RenderShape, LimiterInv, NEW r \in Running, Release,
         Running' = (Running \ {r}) \cup Granted, Queued' = Queued \ Granted
  PROVE  LimiterInv' /\ Visible
<1>1. /\ LineIs(queue, Queued) /\ active = Cardinality(Running) /\ active \in Nat
      /\ Cardinality(Running \ {r}) = Cardinality(Running) - 1
      /\ Running \ {r} \in SUBSET Renders /\ Cardinality(Running \ {r}) \in Nat /\ r \in Renders
  BY PlacesAreSets, Counting DEF LimiterInv
<1>2. CASE queue = <<>>
  <2>1. /\ active' = active - 1 /\ queue' = queue
        /\ Running' = Running \ {r} /\ Queued' = Queued
    BY <1>2 DEF Release, Granted
  <2>2. active' = Cardinality(Running') /\ active' <= Concurrency
    <3>1. active <= Concurrency /\ active - 1 <= active
      BY <1>1 DEF LimiterInv
    <3>2. active - 1 <= Concurrency
      BY <1>1, <3>1, ServiceLimiterAssumption
    <3> QED BY <1>1, <2>1, <3>2
  <2>3. LimiterInv'
    BY <1>1, <1>2, <2>1, <2>2 DEF LimiterInv, LineIs
  <2>4. Promise!Leave(r)
    BY <1>2, <2>1 DEF Promise!Leave
  <2> QED BY <1>1, <2>3, <2>4 DEF Visible, Promise!Next
<1>3. CASE queue # <<>>
  <2>1. /\ active' = active /\ queue' = Tail(queue) /\ Granted = {Head(queue)}
        /\ Running' = (Running \ {r}) \cup {Head(queue)} /\ Queued' = Queued \ {Head(queue)}
    BY <1>3 DEF Release, Granted
  <2>2. Head(queue) = queue[1] /\ Head(queue) \in Queued /\ LineIs(queue', Queued')
    BY <1>1, <1>3, <2>1, LineMoves
  <2>3. Cardinality(Running') = Cardinality(Running)
    <3>1. Head(queue) \notin Running \ {r}
      BY <2>2, PlacesAreSets
    <3>2. Cardinality(Running') = Cardinality(Running \ {r}) + 1
      <4>1. PICK S \in SUBSET Renders : S = Running \ {r}
        BY <1>1
      <4>2. PICK h : h = Head(queue)
        OBVIOUS
      <4>3. Cardinality(S \cup {h}) = IF h \in S THEN Cardinality(S) ELSE Cardinality(S) + 1
        BY Counting
      <4>4. Cardinality(S \cup {h}) = Cardinality(S) + 1
        BY <3>1, <4>1, <4>2, <4>3
      <4>5. Running' = S \cup {h}
        BY <2>1, <4>1, <4>2
      <4> QED BY <4>1, <4>4, <4>5
    <3>3. Cardinality(Running \ {r}) = Cardinality(Running) - 1 /\ Cardinality(Running) \in Nat
      BY <1>1
    <3> QED BY <3>2, <3>3
  <2>4. LimiterInv'
    BY <1>1, <1>3, <2>1, <2>2, <2>3 DEF LimiterInv
  <2>5. Promise!Leave(r)
    BY <1>3, <2>1 DEF Promise!Leave
  <2> QED BY <1>1, <2>4, <2>5 DEF Visible, Promise!Next
<1> QED BY <1>2, <1>3
-----------------------------------------------------------------------------
\* The lines of the profiles.

LEMMA LinesStay ==
  ASSUME LinesInv, turns' = turns, \A p \in Profiles : LineOf(p)' = LineOf(p),
         \A p \in Profiles : \A x \in LineOf(p) : render'[x].at # "turn" => turns[p][1] = x
  PROVE  LinesInv'
<1> SUFFICES ASSUME NEW p \in Profiles
             PROVE  LineIs(turns'[p], LineOf(p)') /\ FirstIs(turns[p], LineOf(p))'
  BY DEF LinesInv
<1>1. LineIs(turns[p], LineOf(p))
  BY DEF LinesInv
<1> QED BY <1>1 DEF FirstIs, LineIs

LEMMA LineGrows ==
  ASSUME LinesInv, NEW r \in Renders, NEW p \in Profiles, r \notin LineOf(p),
         turns' = [turns EXCEPT ![p] = Append(@, r)],
         render'[r].at = "turn", \A x \in Renders \ {r} : render'[x] = render[x],
         LineOf(p)' = LineOf(p) \cup {r}, \A o \in Profiles \ {p} : LineOf(o)' = LineOf(o)
  PROVE  LinesInv' /\ \A o \in Profiles \ {p} : turns'[o] = turns[o]
<1>1. /\ LineIs(turns[p], LineOf(p)) /\ FirstIs(turns[p], LineOf(p))
      /\ turns'[p] = Append(turns[p], r) /\ \A o \in Profiles \ {p} : turns'[o] = turns[o]
      /\ turns' = [o \in Profiles |-> turns'[o]]
  BY DEF LinesInv
<1>2. /\ LineIs(turns'[p], LineOf(p)')
      /\ turns'[p][1] = IF LineOf(p) = {} THEN r ELSE turns[p][1]
  BY <1>1, LineJoins
<1>3. FirstIs(turns[p], LineOf(p))'
  <2> SUFFICES ASSUME NEW x \in LineOf(p)', render'[x].at # "turn" PROVE turns'[p][1] = x
    BY DEF FirstIs
  <2>1. x \in LineOf(p) /\ x # r /\ render'[x] = render[x]
    BY DEF LineOf
  <2> QED BY <1>1, <1>2, <2>1 DEF FirstIs
<1>4. ASSUME NEW o \in Profiles \ {p} PROVE LineIs(turns'[o], LineOf(o)') /\ FirstIs(turns[o], LineOf(o))'
  <2>1. LineIs(turns[o], LineOf(o)) /\ FirstIs(turns[o], LineOf(o)) /\ turns'[o] = turns[o] /\ LineOf(o)' = LineOf(o)
    BY <1>1, <1>4 DEF LinesInv
  <2>2. ASSUME NEW x \in LineOf(o), render'[x].at # "turn" PROVE turns'[o][1] = x
    <3>1. CASE x = r
      BY <2>2, <3>1
    <3>2. CASE x # r
      <4>1. x \in Renders
        BY DEF LineOf
      <4> QED BY <2>1, <2>2, <3>2, <4>1 DEF FirstIs
    <3> QED BY <3>1, <3>2
  <2> QED BY <2>1, <2>2 DEF FirstIs, LineIs
<1> QED BY <1>1, <1>2, <1>3, <1>4 DEF LinesInv

\* The first of p leaves; the places of the others may change, but nobody's turn
\* begins behind it.
LEMMA LineShrinks ==
  ASSUME LinesInv, NEW p \in Profiles, NEW r \in LineOf(p), turns[p][1] = r, NextTurn(p),
         LineOf(p)' = LineOf(p) \ {r}, \A o \in Profiles \ {p} : LineOf(o)' = LineOf(o),
         \A o \in Profiles : \A x \in LineOf(o) \ {r} : render'[x].at # "turn" => render[x].at # "turn",
         NoProfile \notin Profiles
  PROVE  /\ LinesInv' /\ turns[p] # <<>>
         /\ \A o \in Profiles \ {p} : turns'[o] = turns[o]
<1>1. /\ LineIs(turns[p], LineOf(p)) /\ FirstIs(turns[p], LineOf(p))
      /\ turns'[p] = Tail(turns[p]) /\ \A o \in Profiles \ {p} : turns'[o] = turns[o]
      /\ turns' = [o \in Profiles |-> turns'[o]]
  BY DEF LinesInv, NextTurn
<1>2. turns[p] # <<>>
  <2>1. \E i \in DOMAIN turns[p] : turns[p][i] = r
    BY <1>1 DEF LineIs
  <2> QED BY <1>1, <2>1, EmptySeq DEF LineIs
<1>3. LineIs(turns'[p], LineOf(p)')
  BY <1>1, <1>2, LineMoves
<1>4. FirstIs(turns[p], LineOf(p))'
  BY <1>1 DEF FirstIs
<1>5. ASSUME NEW o \in Profiles \ {p} PROVE LineIs(turns'[o], LineOf(o)') /\ FirstIs(turns[o], LineOf(o))'
  <2>1. LineIs(turns[o], LineOf(o)) /\ FirstIs(turns[o], LineOf(o)) /\ turns'[o] = turns[o] /\ LineOf(o)' = LineOf(o)
    BY <1>1, <1>5 DEF LinesInv
  <2>2. r \notin LineOf(o)
    BY <1>5 DEF LineOf
  <2> QED BY <2>1, <2>2 DEF FirstIs, LineIs
<1> QED BY <1>1, <1>2, <1>3, <1>4, <1>5 DEF LinesInv
-----------------------------------------------------------------------------
\* The steps of the renders.

RenderSide ==
  /\ RenderShape /\ LimiterInv /\ LinesInv /\ ChromeIsOwned
  /\ held \subseteq Profiles /\ \A p \in held : turns[p] = <<>>

\* What moving one render changes.
LEMMA RenderMoves ==
  ASSUME RenderShape, NEW r \in Renders, NEW place \in RenderPlaces, NEW p \in AnyProfile,
         place = "out" => p = NoProfile, place \in {"turn", "launching", "closing"} => p # NoProfile,
         render' = [render EXCEPT ![r] = [at |-> place, profile |-> p]]
  PROVE  /\ RenderShape'
         /\ render'[r] = [at |-> place, profile |-> p]
         /\ \A x \in Renders \ {r} : render'[x] = render[x]
         /\ Running' = IF place \in {"launching", "using", "closing"} THEN Running \cup {r} ELSE Running \ {r}
         /\ Queued' = IF place = "queued" THEN Queued \cup {r} ELSE Queued \ {r}
         /\ \A o : LineOf(o)' = IF o = p THEN LineOf(o) \cup {r} ELSE LineOf(o) \ {r}
<1>1. /\ render'[r] = [at |-> place, profile |-> p]
      /\ \A x \in Renders \ {r} : render'[x] = render[x]
      /\ render' \in [Renders -> [at : RenderPlaces, profile : AnyProfile]]
  BY DEF RenderShape
<1>2. RenderShape'
  BY <1>1 DEF RenderShape
<1>3. Running' = IF place \in {"launching", "using", "closing"} THEN Running \cup {r} ELSE Running \ {r}
  BY <1>1 DEF Running
<1>4. Queued' = IF place = "queued" THEN Queued \cup {r} ELSE Queued \ {r}
  BY <1>1 DEF Queued
<1>5. \A o : LineOf(o)' = IF o = p THEN LineOf(o) \cup {r} ELSE LineOf(o) \ {r}
  BY <1>1 DEF LineOf
<1> QED BY <1>1, <1>2, <1>3, <1>4, <1>5

Owning(t, x) == t[x].at \in {"using", "closing"}

LEMMA OwnersStay ==
  ASSUME ChromeIsOwned, session' = session, NEW r \in Renders, chrome' \subseteq chrome,
         \A x \in Renders \ {r} : Owning(render, x) =>
           Owning(render', x) /\ render'[x].profile = render[x].profile,
         \/ ~ Owning(render, r)
         \/ Owning(render', r) /\ render'[r].profile = render[r].profile
         \/ <<r, render[r].profile>> \notin chrome'
  PROVE  ChromeIsOwned'
<1> SUFFICES ASSUME NEW c \in chrome'
             PROVE  \/ \E x \in Renders : c = <<x, render'[x].profile>> /\ Owning(render', x)
                    \/ \E s \in Sessions :
                         /\ c = <<s, session'[s].profile>>
                         /\ session'[s].at \in Opening \union {"open", "releasing"}
                         /\ session'[s].at = "releasing" => ~ session'[s].saving
  BY DEF ChromeIsOwned, ChromeOf, Owning
<1>1. CASE \E x \in Renders : c = <<x, render[x].profile>> /\ Owning(render, x)
  <2>1. PICK x \in Renders : c = <<x, render[x].profile>> /\ Owning(render, x)
    BY <1>1
  <2>2. Owning(render', x) /\ render'[x].profile = render[x].profile
    BY <2>1
  <2> QED BY <2>1, <2>2
<1>2. CASE ~ \E x \in Renders : c = <<x, render[x].profile>> /\ Owning(render, x)
  BY <1>2 DEF ChromeIsOwned, ChromeOf, Owning
<1> QED BY <1>1, <1>2

\* A render takes a slot or a place in the queue, from nowhere or when it is first.
LEMMA AdmitKeeps ==
  ASSUME RenderSide, NEW r \in Renders, NEW p \in AnyProfile, Admit(r, p),
         UNCHANGED <<turns, held, session, chrome>>,
         \/ render[r].at = "out" /\ p = NoProfile
         \/ render[r].at = "turn" /\ p = render[r].profile /\ turns[p][1] = r
  PROVE  RenderSide' /\ Visible
<1>1. r \notin Running /\ r \notin Queued /\ (p # NoProfile => r \in LineOf(p)) /\ render[r].profile = p
  BY DEF Running, Queued, LineOf, RenderSide, RenderShape
<1>2. PICK place \in {"launching", "using", "queued"} :
        /\ render' = [render EXCEPT ![r] = [at |-> place, profile |-> p]]
        /\ place = "queued" => Enqueue(r)
        /\ place # "queued" => Acquire /\ place = FirstOf(p)
  BY DEF Admit, FirstOf
<1>3. place \in RenderPlaces /\ (place = "launching" => p # NoProfile)
  BY <1>2 DEF RenderPlaces, FirstOf
<1>4. /\ RenderShape'
      /\ render'[r] = [at |-> place, profile |-> p]
      /\ \A x \in Renders \ {r} : render'[x] = render[x]
      /\ Running' = IF place \in {"launching", "using", "closing"} THEN Running \cup {r} ELSE Running \ {r}
      /\ Queued' = IF place = "queued" THEN Queued \cup {r} ELSE Queued \ {r}
      /\ \A o : LineOf(o)' = IF o = p THEN LineOf(o) \cup {r} ELSE LineOf(o) \ {r}
  BY <1>2, <1>3, RenderMoves DEF RenderSide
<1>5. LimiterInv' /\ Visible
  <2>1. CASE place = "queued"
    BY <1>1, <1>2, <1>4, <2>1, PlaceTaken DEF RenderSide
  <2>2. CASE place # "queued"
    BY <1>1, <1>2, <1>4, <2>2, SlotTaken DEF RenderSide
  <2> QED BY <2>1, <2>2
<1>6. LinesInv'
  <2>1. \A o \in Profiles : LineOf(o)' = LineOf(o)
    BY <1>1, <1>4, ProfilesAssumption DEF LineOf
  <2>2. ASSUME NEW o \in Profiles, NEW x \in LineOf(o), render'[x].at # "turn" PROVE turns[o][1] = x
    <3>1. CASE x = r
      BY <1>1, <2>2, <3>1, ProfilesAssumption DEF LineOf
    <3>2. CASE x # r
      BY <1>4, <2>2, <3>2 DEF LineOf, RenderSide, LinesInv, FirstIs
    <3> QED BY <3>1, <3>2
  <2> QED BY <2>1, <2>2, LinesStay DEF RenderSide
<1>7. ChromeIsOwned'
  <2>1. ~ Owning(render, r) /\ \A x \in Renders \ {r} : Owning(render, x) =>
           Owning(render', x) /\ render'[x].profile = render[x].profile
    BY <1>4 DEF Owning
  <2> QED BY <2>1, OwnersStay DEF RenderSide
<1> QED BY <1>4, <1>5, <1>6, <1>7 DEF RenderSide

LEMMA RequestKeeps ==
  ASSUME RenderSide, NEW r \in Renders, Request(r)
  PROVE  RenderSide' /\ Visible
<1>1. /\ render[r].at = "out" /\ Admit(r, NoProfile) /\ NoProfile \in AnyProfile
      /\ UNCHANGED <<turns, held, session, chrome>>
  BY DEF Request, NoRender, AnyProfile, sessionVars
<1> QED BY <1>1, AdmitKeeps

LEMMA RequestProfileKeeps ==
  ASSUME RenderSide, NEW r \in Renders, NEW p \in Profiles, RequestProfile(r, p)
  PROVE  RenderSide' /\ Visible
<1>1. /\ render[r] = NoRender /\ p \notin held /\ p \in AnyProfile /\ p # NoProfile
      /\ render' = [render EXCEPT ![r] = [at |-> "turn", profile |-> p]]
      /\ turns' = [turns EXCEPT ![p] = Append(@, r)]
      /\ UNCHANGED <<active, queue, held, session, chrome>>
  BY ProfilesAssumption DEF RequestProfile, AnyProfile, limiterVars, sessionVars
<1>2. /\ r \notin Running /\ r \notin Queued /\ \A o \in Profiles : r \notin LineOf(o)
  BY <1>1, ProfilesAssumption DEF Running, Queued, LineOf, NoRender
<1>3. /\ RenderShape'
      /\ render'[r] = [at |-> "turn", profile |-> p]
      /\ \A x \in Renders \ {r} : render'[x] = render[x]
      /\ Running' = Running \ {r} /\ Queued' = Queued \ {r}
      /\ \A o : LineOf(o)' = IF o = p THEN LineOf(o) \cup {r} ELSE LineOf(o) \ {r}
  <2>1. PICK place \in RenderPlaces : place = "turn"
    BY DEF RenderPlaces
  <2>2. render' = [render EXCEPT ![r] = [at |-> place, profile |-> p]]
    BY <1>1, <2>1
  <2>3. place \notin {"launching", "using", "closing"} /\ place # "queued" /\ place # "out"
    BY <2>1
  <2>4. /\ RenderShape'
        /\ render'[r] = [at |-> place, profile |-> p]
        /\ \A x \in Renders \ {r} : render'[x] = render[x]
        /\ Running' = IF place \in {"launching", "using", "closing"} THEN Running \cup {r} ELSE Running \ {r}
        /\ Queued' = IF place = "queued" THEN Queued \cup {r} ELSE Queued \ {r}
        /\ \A o : LineOf(o)' = IF o = p THEN LineOf(o) \cup {r} ELSE LineOf(o) \ {r}
    <3>1. RenderShape /\ p \in AnyProfile /\ p # NoProfile
      BY <1>1 DEF RenderSide
    <3> QED BY <2>2, <2>3, <3>1, RenderMoves
  <2>5. Running' = Running \ {r} /\ Queued' = Queued \ {r}
    BY <2>3, <2>4
  <2> QED BY <2>1, <2>4, <2>5
<1>4. LimiterInv' /\ Visible
  BY <1>1, <1>2, <1>3, NothingTaken DEF RenderSide, limiterVars
<1>5. LinesInv' /\ \A o \in Profiles \ {p} : turns'[o] = turns[o]
  <2>1. LineOf(p)' = LineOf(p) \cup {r} /\ \A o \in Profiles \ {p} : LineOf(o)' = LineOf(o)
    BY <1>2, <1>3
  <2>2. render'[r].at = "turn" /\ r \notin LineOf(p)
    BY <1>2, <1>3
  <2> QED BY <1>1, <1>3, <2>1, <2>2, LineGrows DEF RenderSide
<1>6. \A o \in held' : turns'[o] = <<>>
  BY <1>1, <1>5 DEF RenderSide
<1>7. ChromeIsOwned'
  <2>1. ~ Owning(render, r) /\ \A x \in Renders \ {r} : Owning(render, x) =>
           Owning(render', x) /\ render'[x].profile = render[x].profile
    BY <1>1, <1>3 DEF Owning, NoRender
  <2> QED BY <1>1, <2>1, OwnersStay DEF RenderSide
<1> QED BY <1>1, <1>3, <1>4, <1>5, <1>6, <1>7 DEF RenderSide

LEMMA RendersStay ==
  ASSUME RenderShape, LimiterInv, LinesInv, UNCHANGED <<limiterVars, turns, render>>
  PROVE  RenderShape' /\ LimiterInv' /\ LinesInv' /\ Visible
<1>1. UNCHANGED <<active, queue, limiterVars>> /\ Running' = Running /\ Queued' = Queued /\ \A p : LineOf(p)' = LineOf(p)
  BY DEF Running, Queued, LineOf, limiterVars
<1>2. LimiterInv' /\ Visible
  BY <1>1, NothingTaken
<1>3. RenderShape'
  BY DEF RenderShape
<1>4. LinesInv'
  BY <1>1, LinesStay DEF LinesInv, FirstIs, LineOf
<1> QED BY <1>2, <1>3, <1>4

LEMMA NothingChangesForRenders ==
  ASSUME RenderSide, UNCHANGED <<limiterVars, turns, render, held, session, chrome>>
  PROVE  RenderSide' /\ Visible
<1>1. ChromeIsOwned'
  BY DEF RenderSide, ChromeIsOwned, ChromeOf
<1> QED BY <1>1, RendersStay DEF RenderSide

LEMMA LineOfRender ==
  ASSUME RenderSide, NEW r \in Renders, render[r].at # "out"
  PROVE  /\ render[r].profile \in AnyProfile
         /\ render[r].profile # NoProfile => render[r].profile \in Profiles
         /\ \A p \in Profiles : render[r].profile = p => r \in LineOf(p) /\ turns[p] # <<>>
                                  /\ Head(turns[p]) = turns[p][1]
                                  /\ (render[r].at # "turn" => turns[p][1] = r)
<1>1. render[r].profile \in AnyProfile
  BY DEF RenderSide, RenderShape
<1>2. ASSUME NEW p \in Profiles, render[r].profile = p
      PROVE  /\ r \in LineOf(p) /\ turns[p] # <<>> /\ Head(turns[p]) = turns[p][1]
             /\ render[r].at # "turn" => turns[p][1] = r
  <2>1. r \in LineOf(p) /\ LineIs(turns[p], LineOf(p)) /\ FirstIs(turns[p], LineOf(p))
    BY <1>2 DEF LineOf, RenderSide, LinesInv
  <2>2. turns[p] # <<>>
    <3>1. \E i \in DOMAIN turns[p] : turns[p][i] = r
      BY <2>1 DEF LineIs
    <3> QED BY <3>1, <2>1, EmptySeq DEF LineIs
  <2> QED BY <2>1, <2>2, LineMoves DEF FirstIs
<1> QED BY <1>1, <1>2 DEF AnyProfile

\* A render is over: the lock's finally, whatever the limiter does.
LEMMA LeavingKeepsLines ==
  ASSUME RenderSide, NEW r \in Renders, NEW p, p = render[r].profile, render[r].at # "out",
         p # NoProfile => turns[p][1] = r, NextTurn(p), RenderShape',
         render'[r] = NoRender,
         \A x \in Renders \ {r} :
           /\ render'[x].profile = render[x].profile
           /\ render'[x].at # "turn" => render[x].at # "turn"
           /\ Owning(render, x) => Owning(render', x),
         session' = session, held' = held, chrome' \subseteq chrome,
         ~ Owning(render, r) \/ <<r, p>> \notin chrome'
  PROVE  /\ LinesInv' /\ ChromeIsOwned'
         /\ held' \subseteq Profiles /\ \A o \in held' : turns'[o] = <<>>
<1>1. \A o \in Profiles : LineOf(o)' = IF o = p THEN LineOf(o) \ {r} ELSE LineOf(o)
  <2>1. \A x \in Renders \ {r} : render'[x].profile = render[x].profile
    OBVIOUS
  <2>2. render'[r].profile = NoProfile
    BY DEF NoRender
  <2> QED BY <2>1, <2>2, ProfilesAssumption DEF LineOf
<1>2. ChromeIsOwned'
  BY OwnersStay DEF RenderSide
<1>3. CASE p = NoProfile
  <2>1. turns' = turns
    BY <1>3 DEF NextTurn
  <2>2. \A o \in Profiles : LineOf(o)' = LineOf(o)
    BY <1>1, <1>3, ProfilesAssumption
  <2>3. ASSUME NEW o \in Profiles, NEW x \in LineOf(o), render'[x].at # "turn" PROVE turns[o][1] = x
    <3>1. x # r
      BY <1>3, ProfilesAssumption DEF LineOf
    <3> QED BY <2>3, <3>1 DEF LineOf, RenderSide, LinesInv, FirstIs
  <2>4. LinesInv'
    BY <2>1, <2>2, <2>3, LinesStay DEF RenderSide
  <2> QED BY <1>2, <2>1, <2>4 DEF RenderSide
<1>4. CASE p # NoProfile
  <2>1. p \in Profiles /\ r \in LineOf(p) /\ turns[p][1] = r
    BY <1>4, LineOfRender
  <2>2. LineOf(p)' = LineOf(p) \ {r} /\ \A o \in Profiles \ {p} : LineOf(o)' = LineOf(o)
    BY <1>1, <2>1
  <2>3. \A o \in Profiles : \A x \in LineOf(o) \ {r} : render'[x].at # "turn" => render[x].at # "turn"
    BY DEF LineOf
  <2>4. LinesInv' /\ turns[p] # <<>> /\ \A o \in Profiles \ {p} : turns'[o] = turns[o]
    BY <2>1, <2>2, <2>3, LineShrinks, ProfilesAssumption DEF RenderSide
  <2> QED BY <1>2, <2>4 DEF RenderSide
<1> QED BY <1>3, <1>4

LEMMA RefusedKeeps ==
  ASSUME RenderSide, NEW r \in Renders, Refused(r), render[r].at \in {"turn", "queued"},
         render[r].profile # NoProfile => turns[render[r].profile][1] = r,
         UNCHANGED <<held, session, chrome>>,
         LimiterInv' /\ Visible
  PROVE  RenderSide' /\ Visible
<1>1. /\ NextTurn(render[r].profile)
      /\ render' = [render EXCEPT ![r] = NoRender]
  BY DEF Refused
<1>2. /\ render'[r] = NoRender /\ RenderShape'
      /\ \A x \in Renders \ {r} : render'[x] = render[x]
  BY <1>1 DEF RenderSide, RenderShape, NoRender, AnyProfile, RenderPlaces
<1>3. ~ Owning(render, r) /\ \A x \in Renders \ {r} : Owning(render, x) => Owning(render', x)
  BY <1>2 DEF Owning
<1>4. /\ LinesInv' /\ ChromeIsOwned'
      /\ held' \subseteq Profiles /\ \A o \in held' : turns'[o] = <<>>
  BY <1>1, <1>2, <1>3, LeavingKeepsLines
<1> QED BY <1>2, <1>4 DEF RenderSide

LEMMA RefusedPlaces ==
  ASSUME RenderShape, NEW r \in Renders, Refused(r), render[r].at \in {"turn", "queued"}
  PROVE  Running' = Running /\ Queued' = Queued \ {r}
<1>1. /\ render'[r] = NoRender /\ \A x \in Renders \ {r} : render'[x] = render[x]
  BY DEF Refused, RenderShape
<1> QED BY <1>1 DEF Running, Queued, NoRender

LEMMA TurnKeeps ==
  ASSUME RenderSide, NEW r \in Renders, Turn(r)
  PROVE  RenderSide' /\ Visible
<1>1. PICK p \in Profiles : p = render[r].profile
  BY LineOfRender DEF Turn, RenderSide, RenderShape
<1>2. /\ render[r].at = "turn" /\ turns[p][1] = r /\ UNCHANGED <<held, session, chrome>>
      /\ p \in AnyProfile /\ r \notin Queued
  BY <1>1, LineOfRender DEF Turn, sessionVars, AnyProfile, Queued
<1>3. CASE Admit(r, p) /\ UNCHANGED turns
  BY <1>1, <1>2, <1>3, AdmitKeeps
<1>4. CASE UNCHANGED limiterVars /\ Refused(r)
  <2>1. Running' = Running /\ Queued' = Queued
    <3>1. Running' = Running /\ Queued' = Queued \ {r}
      BY <1>2, <1>4, RefusedPlaces DEF RenderSide
    <3> QED BY <1>2, <3>1
  <2>2. LimiterInv' /\ Visible
    BY <1>4, <2>1, NothingTaken DEF RenderSide
  <2> QED BY <1>1, <1>2, <1>4, <2>2, RefusedKeeps
<1> QED BY <1>1, <1>3, <1>4 DEF Turn, Saturated

LEMMA AbortKeeps ==
  ASSUME RenderSide, NEW r \in Renders, Abort(r)
  PROVE  RenderSide' /\ Visible
<1>1. UNCHANGED <<held, session, chrome>>
  BY DEF Abort, sessionVars
<1>2. CASE render[r].at = "queued" /\ Abandon(r) /\ Refused(r)
  <2>1. Running' = Running /\ Queued' = Queued \ {r}
    BY <1>2, RefusedPlaces DEF RenderSide
  <2>2. LimiterInv' /\ Visible
    BY <1>2, <2>1, PlaceGivenUp DEF RenderSide
  <2>3. render[r].profile # NoProfile => turns[render[r].profile][1] = r
    BY <1>2, LineOfRender
  <2> QED BY <1>1, <1>2, <2>2, <2>3, RefusedKeeps
<1>3. CASE UNCHANGED <<limiterVars, turns, render>>
  BY <1>1, <1>3, NothingChangesForRenders
<1> QED BY <1>2, <1>3 DEF Abort

\* The end of a task.
LEMMA EndedKeeps ==
  ASSUME RenderSide, NEW r \in Running, Ended(r), chrome' \subseteq chrome,
         ~ Owning(render, r) \/ <<r, render[r].profile>> \notin chrome'
  PROVE  RenderSide' /\ Visible
<1> DEFINE p == render[r].profile
<1>1. /\ Release /\ NextTurn(p) /\ UNCHANGED <<held, session>>
      /\ render' = [q \in Renders |-> IF q = r THEN NoRender
                                      ELSE IF q \in Granted THEN [render[q] EXCEPT !.at = FirstOf(render[q].profile)]
                                      ELSE render[q]]
  BY DEF Ended, sessionVars
<1>2. r \in Renders /\ render[r].at \in {"launching", "using", "closing"}
  BY DEF Running
<1>3. Granted \subseteq Queued
  <2>1. CASE queue = <<>>
    BY <2>1 DEF Granted
  <2>2. CASE queue # <<>>
    BY <2>2, LineMoves DEF Granted, RenderSide, LimiterInv
  <2> QED BY <2>1, <2>2
<1>4. \A q \in Granted : q \in Renders /\ render[q].at = "queued" /\ q # r
  BY <1>2, <1>3 DEF Queued
<1>5. /\ render'[r] = NoRender
      /\ \A x \in Renders \ {r} : x \notin Granted => render'[x] = render[x]
      /\ \A x \in Granted : render'[x] = [render[x] EXCEPT !.at = FirstOf(render[x].profile)]
  BY <1>1, <1>2, <1>4
<1>6. \A x \in Granted : /\ render'[x].profile = render[x].profile
                         /\ render'[x].at = IF render[x].profile = NoProfile THEN "using" ELSE "launching"
                         /\ render'[x] \in [at : RenderPlaces, profile : AnyProfile]
  <2> SUFFICES ASSUME NEW x \in Granted
               PROVE  /\ render'[x].profile = render[x].profile
                      /\ render'[x].at = IF render[x].profile = NoProfile THEN "using" ELSE "launching"
                      /\ render'[x] \in [at : RenderPlaces, profile : AnyProfile]
    OBVIOUS
  <2>1. render[x] \in [at : RenderPlaces, profile : AnyProfile]
    BY <1>4 DEF RenderSide, RenderShape
  <2>2. PICK f \in RenderPlaces :
          f = FirstOf(render[x].profile) /\ f = IF render[x].profile = NoProfile THEN "using" ELSE "launching"
    BY DEF FirstOf, RenderPlaces
  <2>3. render'[x] = [render[x] EXCEPT !.at = f]
    BY <1>5, <2>2
  <2> QED BY <2>1, <2>2, <2>3
<1>7. RenderShape'
  <2>1. NoRender \in [at : RenderPlaces, profile : AnyProfile]
    BY DEF NoRender, RenderPlaces, AnyProfile
  <2>2. \A x \in Renders : render'[x] \in [at : RenderPlaces, profile : AnyProfile]
    BY <1>5, <1>6, <2>1 DEF RenderSide, RenderShape
  <2>3. \A x \in Renders : render'[x].at = "out" => render'[x].profile = NoProfile
    BY <1>5, <1>6 DEF RenderSide, RenderShape, NoRender
  <2>4. \A x \in Renders : render'[x].at \in {"turn", "launching", "closing"} => render'[x].profile # NoProfile
    BY <1>5, <1>6 DEF RenderSide, RenderShape, NoRender
  <2>5. render' = [q \in Renders |-> render'[q]]
    BY <1>1, Zenon
  <2>6. render' \in [Renders -> [at : RenderPlaces, profile : AnyProfile]]
    BY <2>2, <2>5
  <2> QED BY <2>3, <2>4, <2>6 DEF RenderShape
<1>8. Running' = (Running \ {r}) \cup Granted
  <2>1. \A x \in Renders : render'[x].at \in {"launching", "using", "closing"} <=>
          x \in (Running \ {r}) \cup Granted
    BY <1>2, <1>4, <1>5, <1>6 DEF Running, NoRender
  <2> QED BY <1>4, <2>1 DEF Running
<1>9. Queued' = Queued \ Granted
  <2>1. \A x \in Renders : render'[x].at = "queued" <=> x \in Queued \ Granted
    BY <1>2, <1>4, <1>5, <1>6 DEF Queued, NoRender
  <2> QED BY <2>1 DEF Queued
<1>10. LimiterInv' /\ Visible
  BY <1>1, <1>8, <1>9, SlotGivenUp DEF RenderSide
<1>11. p # NoProfile => turns[p][1] = r
  BY <1>2, LineOfRender
<1>12. \A x \in Renders \ {r} :
           /\ render'[x].profile = render[x].profile
           /\ render'[x].at # "turn" => render[x].at # "turn"
           /\ Owning(render, x) => Owning(render', x)
  <2>1. \A x \in Renders \ {r} : x \notin Granted => render'[x] = render[x]
    BY <1>5
  <2>2. \A x \in Granted : render'[x].profile = render[x].profile /\ render[x].at = "queued"
    BY <1>4, <1>6
  <2> QED BY <2>1, <2>2 DEF Owning
<1>13. /\ LinesInv' /\ ChromeIsOwned'
       /\ held' \subseteq Profiles /\ \A o \in held' : turns'[o] = <<>>
  BY <1>1, <1>2, <1>5, <1>7, <1>11, <1>12, LeavingKeepsLines
<1> QED BY <1>7, <1>10, <1>13 DEF RenderSide

\* A render goes on without giving up its slot, and keeps its Chrome.
LEMMA GoesOnKeeps ==
  ASSUME RenderSide, NEW r \in Renders, NEW place \in {"using", "closing"},
         render[r].at \in {"launching", "using"}, render[r].profile # NoProfile,
         render' = At(r, place),
         UNCHANGED <<limiterVars, turns, held, session>>,
         chrome' \subseteq chrome \cup {<<r, render[r].profile>>}
  PROVE  RenderSide' /\ Visible
<1>1. PICK p \in Profiles : p = render[r].profile
  BY LineOfRender
<1>2. p \in AnyProfile /\ p # NoProfile /\ place \in RenderPlaces
  BY <1>1, ProfilesAssumption DEF AnyProfile, RenderPlaces
<1>3. render' = [render EXCEPT ![r] = [at |-> place, profile |-> p]]
  <2>1. render[r] \in [at : RenderPlaces, profile : AnyProfile]
    BY DEF RenderSide, RenderShape
  <2>2. [render[r] EXCEPT !.at = place] = [at |-> place, profile |-> p]
    BY <1>1, <2>1
  <2>3. render' = [render EXCEPT ![r] = [@ EXCEPT !.at = place]]
    BY DEF At
  <2> QED BY <2>2, <2>3
<1>4. /\ RenderShape'
      /\ render'[r] = [at |-> place, profile |-> p]
      /\ \A x \in Renders \ {r} : render'[x] = render[x]
      /\ Running' = IF place \in {"launching", "using", "closing"} THEN Running \cup {r} ELSE Running \ {r}
      /\ Queued' = IF place = "queued" THEN Queued \cup {r} ELSE Queued \ {r}
      /\ \A o : LineOf(o)' = IF o = p THEN LineOf(o) \cup {r} ELSE LineOf(o) \ {r}
  BY <1>2, <1>3, RenderMoves DEF RenderSide
<1>5. Running' = Running /\ Queued' = Queued /\ \A o \in Profiles : LineOf(o)' = LineOf(o)
  BY <1>1, <1>4 DEF Running, Queued, LineOf
<1>6. LimiterInv' /\ Visible
  BY <1>5, NothingTaken DEF RenderSide
<1>7. LinesInv'
  <2>1. ASSUME NEW o \in Profiles, NEW x \in LineOf(o), render'[x].at # "turn" PROVE turns[o][1] = x
    BY <1>4, <2>1 DEF LineOf, RenderSide, LinesInv, FirstIs
  <2> QED BY <1>5, <2>1, LinesStay DEF RenderSide
<1>8. ChromeIsOwned'
  <2> SUFFICES ASSUME NEW c \in chrome'
               PROVE  \/ \E x \in Renders : c = <<x, render'[x].profile>> /\ Owning(render', x)
                      \/ \E s \in Sessions :
                           /\ c = <<s, session[s].profile>>
                           /\ session[s].at \in Opening \union {"open", "releasing"}
                           /\ session[s].at = "releasing" => ~ session[s].saving
    BY DEF ChromeIsOwned, ChromeOf, Owning
  <2>1. Owning(render', r) /\ render'[r].profile = p
    BY <1>4 DEF Owning
  <2>2. CASE c = <<r, p>>
    BY <2>1, <2>2
  <2>3. CASE c # <<r, p>>
    <3>1. c \in chrome
      BY <1>1, <2>3
    <3>2. CASE \E x \in Renders : c = <<x, render[x].profile>> /\ Owning(render, x)
      <4>1. PICK x \in Renders : c = <<x, render[x].profile>> /\ Owning(render, x)
        BY <3>2
      <4>2. x # r
        BY <1>1, <2>3, <4>1
      <4> QED BY <1>4, <4>1, <4>2 DEF Owning
    <3>3. CASE ~ \E x \in Renders : c = <<x, render[x].profile>> /\ Owning(render, x)
      BY <3>1, <3>3 DEF ChromeIsOwned, ChromeOf, Owning, RenderSide
    <3> QED BY <3>2, <3>3
  <2> QED BY <2>2, <2>3
<1> QED BY <1>4, <1>6, <1>7, <1>8 DEF RenderSide

LEMMA LaunchRenderKeeps ==
  ASSUME RenderSide, NEW r \in Renders, LaunchRender(r)
  PROVE  RenderSide' /\ Visible
<1>1. render[r].at = "launching" /\ render[r].profile # NoProfile /\ r \in Running
  BY DEF LaunchRender, RenderSide, RenderShape, Running
<1>2. CASE Ended(r) /\ UNCHANGED chrome
  BY <1>1, <1>2, EndedKeeps DEF Owning
<1>3. CASE /\ render' = At(r, "using")
           /\ chrome' = chrome \union {ChromeOf(r, render)}
           /\ UNCHANGED <<limiterVars, held, turns, session>>
  BY <1>1, <1>3, GoesOnKeeps DEF ChromeOf
<1> QED BY <1>2, <1>3 DEF LaunchRender, sessionVars

LEMMA UseProfileKeeps ==
  ASSUME RenderSide, NEW r \in Renders, UseProfile(r)
  PROVE  RenderSide' /\ Visible
BY GoesOnKeeps DEF UseProfile, sessionVars

LEMMA CloseRenderKeeps ==
  ASSUME RenderSide, NEW r \in Renders, CloseRender(r)
  PROVE  RenderSide' /\ Visible
<1>1. r \in Running /\ Ended(r) /\ chrome' = chrome \ {<<r, render[r].profile>>}
  BY DEF CloseRender, Running, ChromeOf
<1> QED BY <1>1, EndedKeeps
-----------------------------------------------------------------------------
\* The steps of the sessions.

SessionRecords == [at : SessionPlaces, profile : AnyProfile, saving : BOOLEAN]
SessionSide == SessionShape /\ HeldInv /\ ChromeIsOwned

LEMMA SessionOwnersStay ==
  ASSUME ChromeIsOwned, render' = render,
         \A c \in chrome' :
           c \in chrome \/ \E x \in Sessions : c = <<x, session'[x].profile>> /\ OwnsChrome(session'[x]),
         \A x \in Sessions : OwnsChrome(session[x]) =>
           \/ OwnsChrome(session'[x]) /\ session'[x].profile = session[x].profile
           \/ <<x, session[x].profile>> \notin chrome'
  PROVE  ChromeIsOwned'
<1> SUFFICES ASSUME NEW c \in chrome'
             PROVE  \/ \E r \in Renders : c = <<r, render[r].profile>> /\ render[r].at \in {"using", "closing"}
                    \/ \E s \in Sessions : c = <<s, session'[s].profile>> /\ OwnsChrome(session'[s])
  BY DEF ChromeIsOwned, ChromeOf, OwnsChrome, HoldsProfile
<1>1. CASE \E x \in Sessions : c = <<x, session'[x].profile>> /\ OwnsChrome(session'[x])
  BY <1>1
<1>2. CASE c \in chrome
  <2>1. \/ \E r \in Renders : c = <<r, render[r].profile>> /\ render[r].at \in {"using", "closing"}
        \/ \E s \in Sessions : c = <<s, session[s].profile>> /\ OwnsChrome(session[s])
    BY <1>2 DEF ChromeIsOwned, ChromeOf, OwnsChrome, HoldsProfile
  <2>2. ASSUME NEW s \in Sessions, c = <<s, session[s].profile>>, OwnsChrome(session[s])
        PROVE  c = <<s, session'[s].profile>> /\ OwnsChrome(session'[s])
    BY <2>2
  <2> QED BY <2>1, <2>2
<1> QED BY <1>1, <1>2

LEMMA HeldStays ==
  ASSUME HeldInv, held' = held, turns' = turns,
         \A x \in Sessions : /\ HoldsProfile(session'[x]) <=> HoldsProfile(session[x])
                             /\ HoldsProfile(session[x]) => session'[x].profile = session[x].profile
  PROVE  HeldInv'
<1>1. \A o : HoldersOf(o)' = HoldersOf(o)
  BY DEF HoldersOf, HoldsProfile
<1> QED BY <1>1 DEF HeldInv

LEMMA HeldEnds ==
  ASSUME HeldInv, NEW s \in Sessions, turns' = turns,
         HoldsProfile(session[s]), ~ HoldsProfile(session'[s]),
         \A x \in Sessions \ {s} : session'[x] = session[x],
         held' = held \ {session[s].profile}
  PROVE  HeldInv'
<1>0. PICK p : p = session[s].profile
  OBVIOUS
<1>1. \A o : HoldersOf(o)' = HoldersOf(o) \ {s}
  BY DEF HoldersOf, HoldsProfile
<1>2. \A o : o # p => s \notin HoldersOf(o)
  BY <1>0 DEF HoldersOf
<1>3. s \in HoldersOf(p)
  BY <1>0 DEF HoldersOf, HoldsProfile
<1>4. p \in Profiles => HoldersOf(p)' = {}
  BY <1>1, <1>3 DEF HeldInv
<1>5. \A o \in Profiles : o # p => HoldersOf(o)' = HoldersOf(o)
  BY <1>1, <1>2
<1>6. held' = {o \in Profiles : HoldersOf(o)' # {}}
  BY <1>0, <1>4, <1>5 DEF HeldInv
<1>7. \A o \in Profiles : \A x, y \in HoldersOf(o)' : x = y
  BY <1>1 DEF HeldInv
<1> QED BY <1>6, <1>7 DEF HeldInv

LEMMA HeldBegins ==
  ASSUME HeldInv, NEW s \in Sessions, NEW p \in AnyProfile, turns' = turns,
         ~ HoldsProfile(session[s]), HoldsProfile(session'[s]), session'[s].profile = p,
         \A x \in Sessions \ {s} : session'[x] = session[x],
         held' = held \cup ({p} \ {NoProfile}),
         p # NoProfile => p \notin held /\ turns[p] = <<>>
  PROVE  HeldInv'
<1>1. \A o \in Profiles : HoldersOf(o)' = IF o = p THEN HoldersOf(o) \cup {s} ELSE HoldersOf(o)
  BY DEF HoldersOf, HoldsProfile
<1>2. p \in Profiles => HoldersOf(p) = {} /\ p \in held' /\ p # NoProfile
  BY ProfilesAssumption DEF HeldInv
<1>3. held' = {o \in Profiles : HoldersOf(o)' # {}}
  BY <1>1, <1>2, ProfilesAssumption DEF HeldInv, AnyProfile
<1>4. \A o \in Profiles : \A x, y \in HoldersOf(o)' : x = y
  BY <1>1, <1>2 DEF HeldInv
<1>5. \A o \in held' : turns'[o] = <<>>
  BY DEF HeldInv
<1> QED BY <1>3, <1>4, <1>5 DEF HeldInv

\* One session moves: it keeps what it holds, or gives it up, and its Chrome with it.
LEMMA SessionMoves ==
  ASSUME SessionSide, NEW s \in Sessions, NEW new \in SessionRecords,
         new.saving => new.profile # NoProfile /\ new.at \in {"open", "releasing", "out"},
         session' = [session EXCEPT ![s] = new], UNCHANGED <<render, turns>>,
         \/ /\ held' = held
            /\ HoldsProfile(new) <=> HoldsProfile(session[s])
            /\ HoldsProfile(new) => new.profile = session[s].profile
         \/ /\ HoldsProfile(session[s]) /\ ~ HoldsProfile(new)
            /\ held' = held \ {session[s].profile},
         OwnsChrome(session[s]) =>
           \/ OwnsChrome(new) /\ new.profile = session[s].profile
           \/ <<s, session[s].profile>> \notin chrome',
         chrome' \subseteq chrome \/ (OwnsChrome(new) /\ chrome' \subseteq chrome \cup {<<s, new.profile>>})
  PROVE  SessionSide'
<1>1. session'[s] = new /\ \A x \in Sessions \ {s} : session'[x] = session[x]
  BY DEF SessionSide, SessionShape
<1>2. SessionShape'
  <2>1. session' \in [Sessions -> SessionRecords]
    BY DEF SessionSide, SessionShape, SessionRecords
  <2>2. \A x \in Sessions : session'[x].saving =>
          session'[x].profile # NoProfile /\ session'[x].at \in {"open", "releasing", "out"}
    BY <1>1 DEF SessionSide, SessionShape
  <2> QED BY <2>1, <2>2 DEF SessionShape, SessionRecords
<1>3. HeldInv'
  <2>1. CASE /\ held' = held
             /\ HoldsProfile(new) <=> HoldsProfile(session[s])
             /\ HoldsProfile(new) => new.profile = session[s].profile
    <3>1. \A x \in Sessions : /\ HoldsProfile(session'[x]) <=> HoldsProfile(session[x])
                              /\ HoldsProfile(session[x]) => session'[x].profile = session[x].profile
      BY <1>1, <2>1
    <3> QED BY <2>1, <3>1, HeldStays DEF SessionSide
  <2>2. CASE /\ HoldsProfile(session[s]) /\ ~ HoldsProfile(new)
             /\ held' = held \ {session[s].profile}
    BY <1>1, <2>2, HeldEnds DEF SessionSide
  <2> QED BY <2>1, <2>2
<1>4. ChromeIsOwned'
  <2>1. \A c \in chrome' :
          c \in chrome \/ \E x \in Sessions : c = <<x, session'[x].profile>> /\ OwnsChrome(session'[x])
    BY <1>1
  <2>2. \A x \in Sessions : OwnsChrome(session[x]) =>
           \/ OwnsChrome(session'[x]) /\ session'[x].profile = session[x].profile
           \/ <<x, session[x].profile>> \notin chrome'
    BY <1>1
  <2> QED BY <2>1, <2>2, SessionOwnersStay DEF SessionSide
<1> QED BY <1>2, <1>3, <1>4 DEF SessionSide

LEMMA CreateKeeps ==
  ASSUME SessionSide, NEW s \in Sessions, NEW p \in AnyProfile, Create(s, p)
  PROVE  SessionSide'
<1> DEFINE new == [at |-> "launching", profile |-> p, saving |-> FALSE]
<1>1. /\ session[s] = NoSession /\ session' = [session EXCEPT ![s] = new]
      /\ p # NoProfile => p \notin held /\ turns[p] = <<>>
      /\ held' = held \cup ({p} \ {NoProfile})
      /\ UNCHANGED <<turns, render, chrome>>
  BY DEF Create, renderVars
<1>2. /\ session'[s] = new /\ \A x \in Sessions \ {s} : session'[x] = session[x]
      /\ new \in SessionRecords /\ session' \in [Sessions -> SessionRecords]
  BY <1>1 DEF SessionSide, SessionShape, SessionRecords, SessionPlaces, Opening
<1>3. HoldsProfile(new) /\ OwnsChrome(new) /\ ~ HoldsProfile(session[s]) /\ ~ OwnsChrome(session[s])
      /\ new.profile = p /\ ~ new.saving
  BY <1>1 DEF HoldsProfile, OwnsChrome, NoSession, Opening
<1> HIDE DEF new
<1>4. SessionShape'
  BY <1>2, <1>3 DEF SessionSide, SessionShape, SessionRecords
<1>5. HeldInv'
  BY <1>1, <1>2, <1>3, HeldBegins DEF SessionSide
<1>6. \A x \in Sessions : OwnsChrome(session[x]) =>
           OwnsChrome(session'[x]) /\ session'[x].profile = session[x].profile
  BY <1>2, <1>3
<1>7. ChromeIsOwned'
  BY <1>1, <1>6, SessionOwnersStay DEF SessionSide
<1> QED BY <1>4, <1>5, <1>7 DEF SessionSide

LEMMA SessionPlacesKnown ==
  ASSUME SessionSide, NEW s \in Sessions
  PROVE  session[s] \in SessionRecords /\ session[s].profile \in AnyProfile
BY DEF SessionSide, SessionShape, SessionRecords

LEMMA NewPlace ==
  ASSUME NEW old \in SessionRecords, NEW place \in SessionPlaces
  PROVE  \E new \in SessionRecords :
           /\ new = [old EXCEPT !.at = place]
           /\ new.at = place /\ new.profile = old.profile /\ new.saving = old.saving
<1>1. old = [at |-> old.at, profile |-> old.profile, saving |-> old.saving]
  BY DEF SessionRecords
<1>2. old.profile \in AnyProfile /\ old.saving \in BOOLEAN
  BY DEF SessionRecords
<1>3. PICK new : new = [at |-> place, profile |-> old.profile, saving |-> old.saving]
  OBVIOUS
<1>4. new = [old EXCEPT !.at = place]
  BY <1>1, <1>3
<1> QED BY <1>2, <1>3, <1>4 DEF SessionRecords

LEMMA NewSaving ==
  ASSUME NEW old \in SessionRecords, NEW saving \in BOOLEAN
  PROVE  \E new \in SessionRecords :
           /\ new = [old EXCEPT !.saving = saving]
           /\ new.at = old.at /\ new.profile = old.profile /\ new.saving = saving
<1>1. old = [at |-> old.at, profile |-> old.profile, saving |-> old.saving]
  BY DEF SessionRecords
<1>2. old.profile \in AnyProfile /\ old.at \in SessionPlaces
  BY DEF SessionRecords
<1>3. PICK new : new = [at |-> old.at, profile |-> old.profile, saving |-> saving]
  OBVIOUS
<1>4. new = [old EXCEPT !.saving = saving]
  BY <1>1, <1>3
<1> QED BY <1>2, <1>3, <1>4 DEF SessionRecords

\* A session that holds its profile goes on, to a place at which it still does.
LEMMA SessionGoesOn ==
  ASSUME SessionSide, NEW s \in Sessions, NEW place \in Opening \cup {"open"},
         HoldsProfile(session[s]), ~ session[s].saving, session' = SessionAt(s, place),
         UNCHANGED <<render, turns, held>>,
         chrome' \subseteq chrome \cup {<<s, session[s].profile>>}
  PROVE  SessionSide'
<1>1. PICK new \in SessionRecords :
        /\ new = [session[s] EXCEPT !.at = place]
        /\ new.at = place /\ new.profile = session[s].profile /\ ~ new.saving
  BY SessionPlacesKnown, NewPlace DEF SessionPlaces
<1>2. session' = [session EXCEPT ![s] = new]
  BY <1>1 DEF SessionAt
<1>3. HoldsProfile(new) /\ OwnsChrome(new)
  BY <1>1 DEF HoldsProfile, OwnsChrome, Opening
<1> QED BY <1>1, <1>2, <1>3, SessionMoves

LEMMA OpeningKeeps ==
  ASSUME SessionSide, NEW s \in Sessions, LaunchSession(s) \/ Register(s) \/ OpenFails(s)
  PROVE  SessionSide'
<1>1. session[s].at \in Opening /\ HoldsProfile(session[s]) /\ ~ session[s].saving
  BY DEF LaunchSession, Register, OpenFails, Opening, HoldsProfile, SessionSide, SessionShape
<1>2. \/ session' = SessionAt(s, "preparing")
      \/ session' = SessionAt(s, "open")
      \/ session' = SessionAt(s, "failing")
  BY DEF LaunchSession, Register, OpenFails
<1>3. UNCHANGED <<render, turns, held>> /\ chrome' \subseteq chrome \cup {<<s, session[s].profile>>}
  BY DEF LaunchSession, Register, OpenFails, renderVars, ChromeOf
<1> QED BY <1>1, <1>2, <1>3, SessionGoesOn DEF Opening

\* Chrome is closed, then the profile given up.
LEMMA SessionGivesUp ==
  ASSUME SessionSide, NEW s \in Sessions, NEW new \in SessionRecords,
         HoldsProfile(session[s]), ~ HoldsProfile(new),
         new.saving => new.profile # NoProfile /\ new.at \in {"open", "releasing", "out"},
         session' = [session EXCEPT ![s] = new],
         UNCHANGED <<render, turns>>, held' = held \ {session[s].profile},
         chrome' = chrome \ {ChromeOf(s, session)}
  PROVE  SessionSide'
<1>1. chrome' \subseteq chrome /\ <<s, session[s].profile>> \notin chrome'
  BY DEF ChromeOf
<1> QED BY <1>1, SessionMoves

LEMMA NoSessionIsNothing ==
  NoSession \in SessionRecords /\ ~ HoldsProfile(NoSession) /\ ~ NoSession.saving
BY DEF NoSession, SessionRecords, SessionPlaces, Opening, AnyProfile, HoldsProfile

LEMMA CleanUpKeeps ==
  ASSUME SessionSide, NEW s \in Sessions, CleanUp(s)
  PROVE  SessionSide'
<1>1. /\ HoldsProfile(session[s]) /\ session' = [session EXCEPT ![s] = NoSession]
      /\ UNCHANGED <<render, turns>> /\ held' = held \ {session[s].profile}
      /\ chrome' = chrome \ {ChromeOf(s, session)}
  BY DEF CleanUp, HoldsProfile, Opening, renderVars
<1> QED BY <1>1, NoSessionIsNothing, SessionGivesUp

LEMMA ReleaseSessionKeeps ==
  ASSUME SessionSide, NEW s \in Sessions, ReleaseSession(s)
  PROVE  SessionSide'
<1>1. /\ HoldsProfile(session[s])
      /\ UNCHANGED <<render, turns>> /\ held' = held \ {session[s].profile}
      /\ chrome' = chrome \ {ChromeOf(s, session)}
  BY DEF ReleaseSession, HoldsProfile, renderVars
<1>2. CASE session[s].profile = NoProfile /\ session' = SessionAt(s, "removing")
  <2>1. ~ session[s].saving
    BY <1>2 DEF SessionSide, SessionShape
  <2>2. PICK new \in SessionRecords : new = [session[s] EXCEPT !.at = "removing"] /\ new.at = "removing" /\ ~ new.saving
    <3>1. "removing" \in SessionPlaces
      BY DEF SessionPlaces
    <3> QED BY <2>1, <3>1, SessionPlacesKnown, NewPlace
  <2>3. session' = [session EXCEPT ![s] = new] /\ ~ HoldsProfile(new)
    BY <1>2, <2>2 DEF SessionAt, HoldsProfile, Opening
  <2> QED BY <1>1, <2>2, <2>3, SessionGivesUp
<1>3. CASE session' = [session EXCEPT ![s] = NoSession]
  BY <1>1, <1>3, NoSessionIsNothing, SessionGivesUp
<1>4. CASE session[s].saving /\ session' = SessionAt(s, "out")
  <2>1. session[s].profile # NoProfile
    BY <1>4 DEF SessionSide, SessionShape
  <2>2. PICK new \in SessionRecords :
          new = [session[s] EXCEPT !.at = "out"] /\ new.at = "out" /\ new.profile # NoProfile
    <3>1. "out" \in SessionPlaces
      BY DEF SessionPlaces
    <3> QED BY <2>1, <3>1, SessionPlacesKnown, NewPlace
  <2>3. session' = [session EXCEPT ![s] = new] /\ ~ HoldsProfile(new)
    BY <1>4, <2>2 DEF SessionAt, HoldsProfile, Opening
  <2> QED BY <1>1, <2>2, <2>3, SessionGivesUp
<1> QED BY <1>2, <1>3, <1>4 DEF ReleaseSession

LEMMA RemoveDirectoryKeeps ==
  ASSUME SessionSide, NEW s \in Sessions, RemoveDirectory(s)
  PROVE  SessionSide'
<1>1. /\ ~ HoldsProfile(session[s]) /\ session' = [session EXCEPT ![s] = NoSession]
      /\ UNCHANGED <<render, turns, held, chrome>>
  BY DEF RemoveDirectory, HoldsProfile, Opening, renderVars
<1> QED BY <1>1, NoSessionIsNothing, SessionMoves DEF OwnsChrome

\* What #shutdown makes of a session.
LEMMA ShutdownKeeps ==
  ASSUME SessionSide, NEW s \in Sessions
  PROVE  /\ Shutdown(session[s]) \in SessionRecords
         /\ Shutdown(session[s]).profile = session[s].profile
         /\ HoldsProfile(Shutdown(session[s])) <=> HoldsProfile(session[s])
         /\ OwnsChrome(session[s]) => OwnsChrome(Shutdown(session[s]))
         /\ Shutdown(session[s]).saving =>
              session[s].profile # NoProfile /\ Shutdown(session[s]).at \in {"open", "releasing", "out"}
<1>1. session[s] \in SessionRecords /\ (session[s].saving =>
        session[s].profile # NoProfile /\ session[s].at \in {"open", "releasing", "out"})
  BY SessionPlacesKnown DEF SessionSide, SessionShape
<1>2. CASE session[s].saving \/ session[s].at # "open"
  BY <1>1, <1>2 DEF Shutdown
<1>3. CASE ~ session[s].saving /\ session[s].at = "open" /\ session[s].profile # NoProfile
  <2>1. Shutdown(session[s]) = [session[s] EXCEPT !.saving = TRUE]
    BY <1>3 DEF Shutdown
  <2>2. PICK new \in SessionRecords : /\ new = [session[s] EXCEPT !.saving = TRUE] /\ new.at = "open"
                                      /\ new.profile = session[s].profile /\ new.saving
    BY <1>1, <1>3, NewSaving
  <2> QED BY <1>3, <2>1, <2>2 DEF HoldsProfile, OwnsChrome
<1>4. CASE ~ session[s].saving /\ session[s].at = "open" /\ session[s].profile = NoProfile
  <2>1. Shutdown(session[s]) = [session[s] EXCEPT !.at = "releasing"]
    BY <1>4 DEF Shutdown
  <2>2. PICK new \in SessionRecords : /\ new = [session[s] EXCEPT !.at = "releasing"] /\ new.at = "releasing"
                                      /\ new.profile = session[s].profile /\ ~ new.saving
    <3>1. "releasing" \in SessionPlaces
      BY DEF SessionPlaces
    <3> QED BY <1>1, <1>4, <3>1, NewPlace
  <2> QED BY <1>4, <2>1, <2>2 DEF HoldsProfile, OwnsChrome
<1> QED BY <1>2, <1>3, <1>4

LEMMA ShutdownStepKeeps ==
  ASSUME SessionSide, NEW s \in Sessions, Delete(s) \/ Expire(s)
  PROVE  SessionSide'
<1>1. session' = [session EXCEPT ![s] = Shutdown(session[s])] /\ UNCHANGED <<render, turns, held, chrome>>
  BY DEF Delete, Expire, renderVars
<1> DEFINE new == Shutdown(session[s])
<1>2. /\ new \in SessionRecords /\ new.profile = session[s].profile
      /\ HoldsProfile(new) <=> HoldsProfile(session[s])
      /\ OwnsChrome(session[s]) => OwnsChrome(new)
      /\ new.saving => new.profile # NoProfile /\ new.at \in {"open", "releasing", "out"}
  BY ShutdownKeeps
<1>3. session' = [session EXCEPT ![s] = new]
  BY <1>1
<1> HIDE DEF new
<1> QED BY <1>1, <1>2, <1>3, SessionMoves

LEMMA CloseAllKeeps ==
  ASSUME SessionSide, CloseAll
  PROVE  SessionSide'
<1>1. /\ session' = [s \in Sessions |-> Shutdown(session[s])]
      /\ UNCHANGED <<render, turns, held, chrome>>
  BY DEF CloseAll, renderVars
<1>2. \A s \in Sessions : session'[s] = Shutdown(session[s])
  BY <1>1
<1>3. SessionShape'
  <2>1. session' \in [Sessions -> SessionRecords]
    BY <1>1, ShutdownKeeps
  <2>2. \A x \in Sessions : session'[x].saving =>
          session'[x].profile # NoProfile /\ session'[x].at \in {"open", "releasing", "out"}
    BY <1>2, ShutdownKeeps
  <2> QED BY <2>1, <2>2 DEF SessionShape, SessionRecords
<1>4. HeldInv'
  <2>1. \A x \in Sessions : /\ HoldsProfile(session'[x]) <=> HoldsProfile(session[x])
                            /\ HoldsProfile(session[x]) => session'[x].profile = session[x].profile
    BY <1>2, ShutdownKeeps
  <2> QED BY <1>1, <2>1, HeldStays DEF SessionSide
<1>5. ChromeIsOwned'
  <2>1. \A x \in Sessions : OwnsChrome(session[x]) =>
           OwnsChrome(session'[x]) /\ session'[x].profile = session[x].profile
    BY <1>2, ShutdownKeeps
  <2> QED BY <1>1, <2>1, SessionOwnersStay DEF SessionSide
<1> QED BY <1>3, <1>4, <1>5 DEF SessionSide

LEMMA SaveKeeps ==
  ASSUME SessionSide, NEW s \in Sessions, Save(s)
  PROVE  SessionSide'
<1>1. /\ session[s].saving /\ UNCHANGED <<render, turns, held, chrome>>
      /\ session' = [session EXCEPT ![s] =
           IF session[s].at = "open" THEN [session[s] EXCEPT !.saving = FALSE, !.at = "releasing"]
           ELSE IF session[s].at = "releasing" THEN [session[s] EXCEPT !.saving = FALSE]
           ELSE NoSession]
  BY DEF Save, renderVars
<1>2. session[s].at \in {"open", "releasing", "out"} /\ session[s] \in SessionRecords
  BY <1>1, SessionPlacesKnown DEF SessionSide, SessionShape
<1>3. CASE session[s].at \in {"open", "releasing"}
  <2>1. PICK over \in SessionRecords :
          /\ over = [session[s] EXCEPT !.saving = FALSE]
          /\ over.at = session[s].at /\ over.profile = session[s].profile /\ over.saving = FALSE
    BY <1>2, NewSaving
  <2>2. PICK new \in SessionRecords :
          /\ new = [over EXCEPT !.at = "releasing"]
          /\ new.at = "releasing" /\ new.profile = over.profile /\ new.saving = over.saving
    <3>1. "releasing" \in SessionPlaces
      BY DEF SessionPlaces
    <3> QED BY <2>1, <3>1, NewPlace
  <2>3. session' = [session EXCEPT ![s] = new]
    <3>1. [session[s] EXCEPT !.saving = FALSE, !.at = "releasing"] = new
      BY <2>1, <2>2
    <3>2. session[s].at = "releasing" => over = new
      BY <2>1, <2>2 DEF SessionRecords
    <3> QED BY <1>1, <1>3, <2>1, <3>1, <3>2
  <2>4. HoldsProfile(session[s]) /\ HoldsProfile(new) /\ OwnsChrome(new) /\ ~ new.saving /\ new.profile = session[s].profile
    BY <1>3, <2>1, <2>2 DEF HoldsProfile, OwnsChrome
  <2> QED BY <1>1, <2>3, <2>4, SessionMoves
<1>4. CASE session[s].at = "out"
  <2>1. session' = [session EXCEPT ![s] = NoSession] /\ ~ HoldsProfile(session[s])
    BY <1>1, <1>4 DEF HoldsProfile, Opening
  <2> QED BY <1>1, <2>1, NoSessionIsNothing, SessionMoves DEF OwnsChrome
<1> QED BY <1>2, <1>3, <1>4

LEMMA SessionChromeExitsKeeps ==
  ASSUME SessionSide, NEW s \in Sessions, SessionChromeExits(s)
  PROVE  SessionSide'
<1>1. /\ session[s].at \in {"preparing", "open"} /\ UNCHANGED <<render, turns, held>>
      /\ chrome' = chrome \ {<<s, session[s].profile>>}
      /\ session' = [session EXCEPT ![s] = [session[s] EXCEPT !.at = IF session[s].at = "open" THEN "releasing" ELSE session[s].at]]
  BY DEF SessionChromeExits, ChromeOf, renderVars
<1>2. PICK place \in {"preparing", "releasing"} :
        /\ place = IF session[s].at = "open" THEN "releasing" ELSE session[s].at
        /\ place = "preparing" => session[s].at = "preparing"
  BY <1>1
<1>3. PICK new \in SessionRecords : /\ new = [session[s] EXCEPT !.at = place] /\ new.at = place
                                    /\ new.profile = session[s].profile /\ new.saving = session[s].saving
  <2>1. place \in SessionPlaces
    BY DEF SessionPlaces, Opening
  <2> QED BY <2>1, SessionPlacesKnown, NewPlace
<1>4. session' = [session EXCEPT ![s] = new]
  BY <1>1, <1>2, <1>3
<1>5. HoldsProfile(session[s]) /\ HoldsProfile(new)
  BY <1>1, <1>3 DEF HoldsProfile, Opening
<1>6. new.saving => new.profile # NoProfile /\ new.at \in {"open", "releasing", "out"}
  BY <1>1, <1>2, <1>3 DEF SessionSide, SessionShape
<1>7. <<s, session[s].profile>> \notin chrome' /\ chrome' \subseteq chrome
  BY <1>1
<1> QED BY <1>1, <1>3, <1>4, <1>5, <1>6, <1>7, SessionMoves
-----------------------------------------------------------------------------
\* The service.

RendersAct ==
  \E r \in Renders :
    \/ \E p \in Profiles : RequestProfile(r, p)
    \/ Request(r) \/ Abort(r) \/ RenderStep(r)

SessionsAct ==
  \/ \E s \in Sessions :
       \/ \E p \in Profiles \union {NoProfile} : Create(s, p)
       \/ Delete(s) \/ SessionChromeExits(s) \/ SessionStep(s)
  \/ CloseAll

LEMMA InitEstablishesProfilesInv == Init => ProfilesInv
<1> SUFFICES ASSUME Init PROVE ProfilesInv
  OBVIOUS
<1>1. /\ \A r \in Renders : render[r] = NoRender
      /\ \A s \in Sessions : session[s] = NoSession
      /\ active = 0 /\ queue = <<>> /\ held = {} /\ chrome = {}
      /\ turns = [p \in Profiles |-> <<>>]
  BY DEF Init, LimiterInit
<1>2. RenderShape
  BY DEF Init, RenderShape, NoRender, RenderPlaces, AnyProfile
<1>3. /\ Running = {} /\ Queued = {} /\ \A p \in Profiles : LineOf(p) = {}
      /\ \A p : HoldersOf(p) = {}
  BY <1>1, ProfilesAssumption DEF Running, Queued, LineOf, HoldersOf, NoRender, NoSession, Opening
<1>4. LineIs(<<>>, {})
  BY FS_EmptySet DEF LineIs
<1>5. LimiterInv
  BY <1>1, <1>3, <1>4, FS_EmptySet, ServiceLimiterAssumption DEF LimiterInv
<1>6. LinesInv
  BY <1>1, <1>3, <1>4 DEF LinesInv, FirstIs
<1>7. SessionShape
  BY NoSessionIsNothing DEF Init, SessionShape, SessionRecords
<1>8. HeldInv /\ ChromeIsOwned
  BY <1>1, <1>3 DEF HeldInv, ChromeIsOwned
<1> QED BY <1>2, <1>5, <1>6, <1>7, <1>8 DEF ProfilesInv

LEMMA RendersKeep ==
  ASSUME ProfilesInv, RendersAct
  PROVE  ProfilesInv' /\ Visible
<1>1. RenderSide
  BY DEF ProfilesInv, RenderSide, HeldInv
<1>2. RenderSide' /\ Visible
  <2>1. PICK r \in Renders :
          \/ \E p \in Profiles : RequestProfile(r, p)
          \/ Request(r) \/ Abort(r) \/ RenderStep(r)
    BY DEF RendersAct
  <2>2. CASE \E p \in Profiles : RequestProfile(r, p)
    BY <1>1, <2>2, RequestProfileKeeps
  <2>3. CASE Request(r)
    BY <1>1, <2>3, RequestKeeps
  <2>4. CASE Abort(r)
    BY <1>1, <2>4, AbortKeeps
  <2>5. CASE RenderStep(r)
    <3>1. CASE Turn(r)
      BY <1>1, <3>1, TurnKeeps
    <3>2. CASE LaunchRender(r)
      BY <1>1, <3>2, LaunchRenderKeeps
    <3>3. CASE UseProfile(r)
      BY <1>1, <3>3, UseProfileKeeps
    <3>4. CASE CloseRender(r)
      BY <1>1, <3>4, CloseRenderKeeps
    <3> QED BY <2>5, <3>1, <3>2, <3>3, <3>4 DEF RenderStep
  <2> QED BY <2>1, <2>2, <2>3, <2>4, <2>5
<1>3. session' = session /\ held' = held
  BY DEF RendersAct, RequestProfile, Request, Abort, RenderStep, Turn, LaunchRender, UseProfile, CloseRender,
         Ended, sessionVars
<1>4. SessionShape'
  BY <1>3 DEF ProfilesInv, SessionShape
<1>5. HeldInv'
  <2>1. \A o : HoldersOf(o)' = HoldersOf(o)
    BY <1>3 DEF HoldersOf
  <2> QED BY <1>2, <1>3, <2>1 DEF ProfilesInv, HeldInv, RenderSide
<1> QED BY <1>2, <1>4, <1>5 DEF ProfilesInv, RenderSide

LEMMA SessionsKeep ==
  ASSUME ProfilesInv, SessionsAct
  PROVE  ProfilesInv' /\ Visible
<1>1. SessionSide
  BY DEF ProfilesInv, SessionSide
<1>2. UNCHANGED <<limiterVars, turns, render>>
  BY DEF SessionsAct, Create, Delete, SessionChromeExits, SessionStep, LaunchSession, Register, OpenFails,
         CleanUp, Expire, Save, ReleaseSession, RemoveDirectory, CloseAll, renderVars
<1>3. SessionSide'
  <2>1. CASE CloseAll
    BY <1>1, <2>1, CloseAllKeeps
  <2>2. ASSUME NEW s \in Sessions, \E p \in Profiles \union {NoProfile} : Create(s, p)
        PROVE  SessionSide'
    BY <1>1, <2>2, CreateKeeps DEF AnyProfile
  <2>3. ASSUME NEW s \in Sessions, Delete(s) \/ SessionChromeExits(s) \/ SessionStep(s)
        PROVE  SessionSide'
    <3>1. CASE Delete(s) \/ Expire(s)
      BY <1>1, <3>1, ShutdownStepKeeps
    <3>2. CASE SessionChromeExits(s)
      BY <1>1, <3>2, SessionChromeExitsKeeps
    <3>3. CASE LaunchSession(s) \/ Register(s) \/ OpenFails(s)
      BY <1>1, <3>3, OpeningKeeps
    <3>4. CASE CleanUp(s)
      BY <1>1, <3>4, CleanUpKeeps
    <3>5. CASE Save(s)
      BY <1>1, <3>5, SaveKeeps
    <3>6. CASE ReleaseSession(s)
      BY <1>1, <3>6, ReleaseSessionKeeps
    <3>7. CASE RemoveDirectory(s)
      BY <1>1, <3>7, RemoveDirectoryKeeps
    <3> QED BY <2>3, <3>1, <3>2, <3>3, <3>4, <3>5, <3>6, <3>7 DEF SessionStep
  <2> QED BY <2>1, <2>2, <2>3 DEF SessionsAct
<1> QED BY <1>2, <1>3, RendersStay DEF ProfilesInv, SessionSide

LEMMA ServiceKeeps ==
  ASSUME ProfilesInv, UNCHANGED <<limiterVars, turns, render, session, held, chrome>>
  PROVE  ProfilesInv' /\ Visible
<1>1. SessionShape'
  BY DEF ProfilesInv, SessionShape
<1>2. HeldInv'
  BY HeldStays DEF ProfilesInv
<1>3. ChromeIsOwned'
  BY DEF ProfilesInv, ChromeIsOwned, ChromeOf
<1> QED BY <1>1, <1>2, <1>3, RendersStay DEF ProfilesInv

LEMMA NextKeepsProfilesInv ==
  ASSUME ProfilesInv, [Next]_vars
  PROVE  ProfilesInv' /\ Visible
<1>1. CASE RendersAct
  BY <1>1, RendersKeep
<1>2. CASE SessionsAct
  BY <1>2, SessionsKeep
<1>3. CASE Stop \/ Exit \/ UNCHANGED vars
  <2>1. UNCHANGED <<limiterVars, turns, render, session, held, chrome>>
    BY <1>3 DEF Stop, Exit, vars, renderVars, sessionVars
  <2> QED BY <2>1, ServiceKeeps
<1> QED BY <1>1, <1>2, <1>3 DEF Next, RendersAct, SessionsAct

LEMMA ProfilesInvImpliesLocksAreExact == ProfilesInv => LocksAreExact
<1> SUFFICES ASSUME ProfilesInv, NEW p \in Profiles
             PROVE  /\ Cardinality(HoldersOf(p)) <= 1
                    /\ {turns[p][i] : i \in DOMAIN turns[p]} = LineOf(p)
                    /\ Len(turns[p]) = Cardinality(LineOf(p))
                    /\ \A i \in DOMAIN turns[p] : i > 1 => render[turns[p][i]].at = "turn"
  BY DEF ProfilesInv, HeldInv, LocksAreExact
<1>1. LineIs(turns[p], LineOf(p)) /\ FirstIs(turns[p], LineOf(p))
  BY DEF ProfilesInv, LinesInv
<1>2. Cardinality(HoldersOf(p)) <= 1
  <2>1. CASE HoldersOf(p) = {}
    BY <2>1, FS_EmptySet
  <2>2. CASE HoldersOf(p) # {}
    <3>1. PICK s \in HoldersOf(p) : TRUE
      BY <2>2
    <3>2. \A t \in HoldersOf(p) : t = s
      BY <3>1 DEF ProfilesInv, HeldInv
    <3>3. HoldersOf(p) = {s}
      BY <3>1, <3>2
    <3>4. Cardinality({s}) = 1
      BY FS_Singleton
    <3> QED BY <3>3, <3>4
  <2> QED BY <2>1, <2>2
<1>3. {turns[p][i] : i \in DOMAIN turns[p]} = LineOf(p)
  BY <1>1 DEF LineIs
<1>4. ASSUME NEW i \in DOMAIN turns[p], i > 1
      PROVE  render[turns[p][i]].at = "turn"
  <2>1. DOMAIN turns[p] = 1..Len(turns[p]) /\ Len(turns[p]) \in Nat
    BY <1>1 DEF LineIs
  <2>2. 1 \in DOMAIN turns[p] /\ i # 1
    BY <1>4, <2>1
  <2>3. turns[p][1] # turns[p][i] /\ turns[p][i] \in LineOf(p)
    BY <1>1, <2>2 DEF LineIs
  <2> QED BY <1>1, <2>3 DEF FirstIs
<1> QED BY <1>1, <1>2, <1>3, <1>4 DEF LineIs

\* The locks of the profiles are exact on every path: created, aborted, failed, deleted,
\* expired, crashed and shut down.
THEOREM LocksStayExact == Spec => []LocksAreExact
<1>1. ProfilesInv /\ [Next]_vars => ProfilesInv'
  BY NextKeepsProfilesInv
<1> QED BY <1>1, InitEstablishesProfilesInv, ProfilesInvImpliesLocksAreExact, PTL DEF Spec

\* A Chrome on a profile always has an owner that has not given the profile up, and whose
\* cookies are not being saved while it closes.
THEOREM ChromeStaysOwned == Spec => []ChromeIsOwned
<1>1. ProfilesInv /\ [Next]_vars => ProfilesInv'
  BY NextKeepsProfilesInv
<1>2. ProfilesInv => ChromeIsOwned
  BY DEF ProfilesInv
<1> QED BY <1>1, <1>2, InitEstablishesProfilesInv, PTL DEF Spec

\* The service's limiter is a bounded first-come first-served semaphore, with the lines of
\* the profiles in front of it.
THEOREM ServiceImplementsSemaphore == Spec => ImplementsSemaphore
<1>1. Init => Promise!Init
  BY ProfilesAssumption DEF Init, LimiterInit, Promise!Init, Running, NoRender
<1>2. ProfilesInv /\ [Next]_vars => ProfilesInv' /\ [Promise!Next]_(Promise!vars)
  BY NextKeepsProfilesInv DEF Visible
<1> QED
  BY <1>1, <1>2, InitEstablishesProfilesInv, PTL DEF Spec, ImplementsSemaphore, Promise!Spec

\* A render that waits for a slot is passed by none that came later, even by one whose
\* profile was just given up (limiter.ts Limiter.run).
THEOREM ServiceIsFair == Spec => Promise!NobodyOvertakes
<1>1. [Promise!Next]_Promise!vars
      => [queue # <<>> => Running' \subseteq Running \union {Head(queue)}]_Promise!vars
  BY DEF Promise!Next, Promise!Enter, Promise!Wait, Promise!Leave, Promise!Abandon
<1> QED
  BY <1>1, ServiceImplementsSemaphore, PTL
  DEF ImplementsSemaphore, Promise!Spec, Promise!NobodyOvertakes

-----------------------------------------------------------------------------
\* The sessions that count, and the variables the invariant above leaves out.
Counted == {s \in Sessions : session[s].at \in {"launching", "preparing", "failing", "open"}}
SessionsAreFew == IsFiniteSet(Counted) /\ count <= MaxSessions

ServiceRest ==
  /\ aborted \subseteq Renders /\ closing \subseteq Sessions /\ directories \subseteq Sessions
  /\ service \in {"up", "stopping", "closing", "exited"}

LEMMA FewerSessions ==
  ASSUME SessionsAreFew, Counted' \subseteq Counted
  PROVE  SessionsAreFew'
<1>1. /\ IsFiniteSet(Counted') /\ Cardinality(Counted') <= Cardinality(Counted)
  BY FS_Subset DEF SessionsAreFew
<1>2. Cardinality(Counted) \in Nat /\ Cardinality(Counted') \in Nat
  BY <1>1, FS_CardinalityType DEF SessionsAreFew
<1>3. count = Cardinality(Counted) /\ count' = Cardinality(Counted')
  BY DEF count, Counted
<1> QED BY <1>1, <1>2, <1>3, ProfilesAssumption DEF SessionsAreFew

\* Only Create makes one more session count, and it looks at the count first.
LEMMA SessionsStayFew ==
  ASSUME SessionShape, SessionsAreFew, [Next]_vars
  PROVE  SessionsAreFew'
<1>1. ASSUME NEW s \in Sessions, NEW p \in Profiles \union {NoProfile}, Create(s, p)
      PROVE  SessionsAreFew'
  <2>1. Counted' \subseteq Counted \cup {s} /\ count < MaxSessions
    BY <1>1 DEF Create, Counted, SessionShape
  <2>2. IsFiniteSet(Counted) /\ count = Cardinality(Counted)
    BY DEF SessionsAreFew, count, Counted
  <2>3. /\ IsFiniteSet(Counted \cup {s}) /\ Cardinality(Counted) \in Nat
        /\ Cardinality(Counted \cup {s}) \in {Cardinality(Counted), Cardinality(Counted) + 1}
    BY <2>2, FS_AddElement, FS_CardinalityType
  <2>4. IsFiniteSet(Counted') /\ Cardinality(Counted') <= Cardinality(Counted \cup {s})
    BY <2>1, <2>3, FS_Subset
  <2>5. Cardinality(Counted') \in Nat /\ count' = Cardinality(Counted')
    BY <2>4, FS_CardinalityType DEF count, Counted
  <2> QED BY <2>1, <2>2, <2>3, <2>4, <2>5, ProfilesAssumption DEF SessionsAreFew
<1>2. ASSUME NEW s \in Sessions,
             \/ LaunchSession(s) \/ Register(s) \/ OpenFails(s) \/ CleanUp(s)
             \/ ReleaseSession(s) \/ RemoveDirectory(s) \/ SessionChromeExits(s)
      PROVE  Counted' \subseteq Counted
  BY <1>2 DEF LaunchSession, Register, OpenFails, CleanUp, ReleaseSession, RemoveDirectory,
              SessionChromeExits, SessionAt, NoSession, Counted, SessionShape
<1>3. ASSUME NEW s \in Sessions, Delete(s) \/ Expire(s) \/ Save(s)
      PROVE  Counted' \subseteq Counted
  BY <1>3 DEF Delete, Expire, Save, Shutdown, NoSession, Counted, SessionShape
<1>4. CASE CloseAll
  <2>1. Counted' \subseteq Counted
    BY <1>4 DEF CloseAll, Shutdown, Counted, SessionShape
  <2> QED BY <2>1, FewerSessions
<1>5. ASSUME session' = session PROVE SessionsAreFew'
  BY <1>5 DEF SessionsAreFew, count, Counted
<1>6. CASE RendersAct \/ Stop \/ Exit \/ UNCHANGED vars
  <2>1. session' = session
    BY <1>6 DEF RendersAct, RequestProfile, Request, Abort, RenderStep, Turn, LaunchRender,
                UseProfile, CloseRender, Ended, Stop, Exit, sessionVars, vars
  <2> QED BY <1>5, <2>1
<1> QED BY <1>1, <1>2, <1>3, <1>4, <1>6, FewerSessions DEF Next, SessionStep, RendersAct

LEMMA RestStays ==
  ASSUME ServiceRest, [Next]_vars
  PROVE  ServiceRest'
<1> USE DEF ServiceRest, renderVars, sessionVars
<1>1. CASE RendersAct
  <2>1. PICK r \in Renders :
          \/ \E p \in Profiles : RequestProfile(r, p)
          \/ Request(r) \/ Abort(r) \/ RenderStep(r)
    BY <1>1 DEF RendersAct
  <2>2. UNCHANGED <<closing, directories, service>> /\ aborted' \subseteq aborted \cup {r}
    BY <2>1 DEF RequestProfile, Request, Abort, RenderStep, Turn, Refused, LaunchRender,
                UseProfile, CloseRender, Ended
  <2> QED BY <2>2
<1>2. CASE SessionsAct
  <2>1. /\ aborted' = aborted /\ closing' \subseteq Sessions /\ directories' \subseteq Sessions
        /\ service' = service \/ service' = "closing"
    BY <1>2
    DEF SessionsAct, Create, Delete, SessionChromeExits, SessionStep, LaunchSession, Register,
        OpenFails, CleanUp, Expire, Save, ReleaseSession, RemoveDirectory, CloseAll
  <2> QED BY <2>1
<1>3. CASE Stop \/ Exit \/ UNCHANGED vars
  BY <1>3 DEF Stop, Exit, vars
<1> QED BY <1>1, <1>2, <1>3 DEF Next, RendersAct, SessionsAct

\* Slots, queue, lines and sessions have their types, and no more renders run than
\* BROWSER_SERVICE_MAX_CONCURRENCY, and no more sessions are opening or open than
\* BROWSER_SERVICE_MAX_SESSIONS (Limiter, Sessions.count).
THEOREM ServiceStaysWithinLimits == Spec => [](TypeOK /\ SessionsAreFew)
<1>1. ASSUME Init PROVE ServiceRest /\ SessionsAreFew
  <2>1. Counted = {}
    BY <1>1 DEF Init, Counted, NoSession
  <2>2. IsFiniteSet({}) /\ Cardinality({}) = 0
    BY FS_EmptySet
  <2>3. count = 0
    BY <2>1, <2>2 DEF count, Counted
  <2> QED BY <1>1, <2>1, <2>2, <2>3, ProfilesAssumption DEF Init, ServiceRest, SessionsAreFew
<1>2. ASSUME ProfilesInv, [Next]_vars PROVE ProfilesInv'
  BY <1>2, NextKeepsProfilesInv
<1>3. ProfilesInv => SessionShape
  BY DEF ProfilesInv
<1>4. ASSUME ProfilesInv, ServiceRest PROVE TypeOK
  <2>1. active \in 0..Concurrency /\ queue \in Seq(Renders)
    <3>1. Running \subseteq Renders
      BY DEF Running
    <3>2. active = Cardinality(Running) /\ active <= Concurrency /\ LineIs(queue, Queued)
      BY <1>4 DEF ProfilesInv, LimiterInv
    <3>3. Cardinality(Running) \in Nat
      BY <3>1, Counting
    <3>4. queue \in Seq(Renders)
      BY <3>2 DEF LineIs
    <3> QED BY <3>2, <3>3, <3>4, ServiceLimiterAssumption
  <2>2. turns \in [Profiles -> Seq(Renders)]
    BY <1>4 DEF ProfilesInv, LinesInv, LineIs
  <2>3. held \subseteq Profiles
    BY <1>4 DEF ProfilesInv, HeldInv
  <2>4. /\ render \in [Renders -> [at : RenderPlaces, profile : AnyProfile]]
        /\ session \in [Sessions -> [at : SessionPlaces, profile : AnyProfile, saving : BOOLEAN]]
    BY <1>4 DEF ProfilesInv, RenderShape, SessionShape
  <2>5. chrome \subseteq (Renders \union Sessions) \X AnyProfile
    BY <1>4, <2>4 DEF ProfilesInv, ChromeIsOwned, ChromeOf
  <2> QED BY <1>4, <2>1, <2>2, <2>3, <2>4, <2>5 DEF TypeOK, ServiceRest
<1> QED BY <1>1, <1>2, <1>3, <1>4, InitEstablishesProfilesInv, SessionsStayFew, RestStays, PTL
    DEF Spec
=============================================================================
