----------------------------- MODULE ClientProofs -----------------------------
(***************************************************************************)
(* For any number of callers, nodes, hosts and identity slots: what the    *)
(* browser client retires was earned, saved first and never lost, one good *)
(* node is enough, and a login session stays reachable.                    *)
(***************************************************************************)
EXTENDS ChallengeSolver, SequenceTheorems, FiniteSetTheorems,
        WellFoundedInduction, TLAPS

Outcomes == PageKinds \cup {"none", "unavailable", "failed"}
Batches  == [todo : Seq(Retirements), failed : Seq(Retirements)]

\* Where a caller is, and the generations and counts.
CallShape ==
  /\ pc \in [Callers -> Pcs] /\ kind \in [Callers -> CallKinds \cup {"none"}]
  /\ host \in [Callers -> Hosts \cup {"none"}] /\ key \in [Callers -> Nat]
  /\ at \in [Callers -> Nodes \cup {0}] /\ tries \in [Callers -> 0..2]
  /\ page \in [Callers -> Outcomes]
  /\ \A r \in Callers : pc[r] # "idle" => host[r] \in Hosts
  /\ workload \in Workload
SlotShape ==
  /\ generation \in [IdentitySlots -> Nat] /\ row \in [IdentitySlots -> Nat]
  /\ blocks \in [Hosts -> Nat] /\ failedSaves \in Nat
RetireShape ==
  /\ pending \in Seq(Retirements) /\ retired \subseteq Retirements
  /\ batches \subseteq Batches /\ \A b \in batches : b.todo # <<>>
NodeShape == reachable \subseteq Nodes /\ down \subseteq Nodes \ reachable
SessionShape == known \in Nodes \cup {NoNode} /\ open \in Nodes \cup {NoNode}

\* A step of the solver only moves its caller, or ends the call.
OnlyMoves(r) ==
  /\ pc[r] \in {"page", "bootstrap", "create", "poll", "submit", "handoff"}
  /\ \/ Return(r)
     \/ /\ \E l \in {"create", "poll", "submit", "start", "handoff"} : Goto(r, l)
        /\ UNCHANGED <<host, kind, key, at, tries, page>>
  /\ UNCHANGED <<reachable, down, identityVars, retireVars, sessionVars, boundVars>>

LEMMA SolverStepsOnlyMove ==
  ASSUME NEW r \in Callers,
         \/ Settle(r) \/ Bootstrap(r) \/ CreateTask(r) \/ Ready(r) \/ Submit(r)
         \/ Handoff(r)
  PROVE  OnlyMoves(r)
<1>1. /\ pc[r] \in {"page", "bootstrap", "create", "poll", "submit", "handoff"}
      /\ Elsewhere
  BY DEF Settle, Bootstrap, CreateTask, Ready, Submit, Handoff
<1>2. \/ Return(r)
      \/ /\ \E l \in {"create", "poll", "submit", "start", "handoff"} : Goto(r, l)
         /\ UNCHANGED <<host, kind, key, at, tries, page>>
  BY DEF Settle, Bootstrap, CreateTask, Ready, Submit, Handoff, Finish, Move, Reload
<1> QED BY <1>1, <1>2 DEF OnlyMoves, Elsewhere

\* The cases of a step, for the proofs of one invariant after the other.
Calling(r) ==
  \/ Call(r) \/ OnlyMoves(r) \/ Start(r) \/ Enter(r) \/ Unreached(r)
  \/ DeadlinePasses(r) \/ ServiceError(r) \/ Answer(r) \/ SaveGeneration(r)

LEMMA StepCases ==
  ASSUME [Next]_vars
  PROVE  \/ \E r \in Callers : Calling(r)
         \/ Retire \/ CreateSession \/ CloseSession \/ ExpireSession \/ Restart
         \/ \E n \in Nodes : Recover(n)
         \/ UNCHANGED vars
<1>1. CASE Outside \/ RetireStep \/ UNCHANGED vars
  BY <1>1 DEF Outside, RetireStep
<1>2. ASSUME NEW r \in Callers, Call(r) \/ Step(r) PROVE Calling(r)
  BY <1>2, SolverStepsOnlyMove DEF Step, Render, Calling
<1> QED BY <1>1, <1>2 DEF Next

\* The first node of a set from one on, cyclically, is a node of that set.
LEMMA FirstNode ==
  ASSUME NEW S \in SUBSET Nodes, S # {}, NEW start \in Int
  PROVE  \E n \in S : \A m \in S : Distance(start, n) <= Distance(start, m)
<1> DEFINE D == {Distance(start, n) : n \in S}
<1>0. \A n \in S : Distance(start, n) \in Nat
  <2>1. \A a \in Int, b \in Nat \ {0} : a % b \in Nat
    OBVIOUS
  <2>2. NodeCount \in Nat \ {0} /\ \A n \in S : n - start \in Int
    BY BrowserClientAssumption DEF Nodes
  <2> QED BY <2>1, <2>2, Zenon DEF Distance
<1>1. D \subseteq Nat /\ D # {}
  BY <1>0
<1>2. PICK d \in D : \A e \in D : ~ (<<e, d>> \in OpToRel(<, Nat))
  BY <1>1, NatLessThanWellFounded, WFMin
<1>3. \A e \in D : d <= e
  <2> HIDE DEF D
  <2>1. \A e \in D : <<e, d>> \in OpToRel(<, Nat) <=> e < d
    BY <1>1 DEF OpToRel
  <2>2. \A e \in D : ~ (e < d) /\ e \in Nat /\ d \in Nat
    BY <1>1, <1>2, <2>1, Zenon
  <2> QED BY <2>2
<1> QED BY <1>0, <1>3

LEMMA NodesAreThere ==
  ASSUME NodeShape
  PROVE  /\ Up # {} => \A start \in Int : HealthyFrom(start) \in Up
         /\ \A n \in Nodes : Up \ {n} # {} => NextNode(n) \in Up \ {n}
<1>1. Up \in SUBSET Nodes /\ \A n \in Nodes : n + 1 \in Int
  BY BrowserClientAssumption DEF Up, Nodes
<1>2. ASSUME Up # {}, NEW start \in Int PROVE HealthyFrom(start) \in Up
  <2>1. \E n \in Up : \A m \in Up : Distance(start, n) <= Distance(start, m)
    BY <1>1, <1>2, FirstNode
  <2> QED BY <2>1 DEF HealthyFrom
<1>3. ASSUME NEW n \in Nodes, Up \ {n} # {} PROVE NextNode(n) \in Up \ {n}
  <2>1. \E m \in Up \ {n} : \A o \in Up \ {n} : Distance(n + 1, m) <= Distance(n + 1, o)
    BY <1>1, <1>3, FirstNode
  <2> QED BY <2>1 DEF NextNode
<1> QED BY <1>2, <1>3

-----------------------------------------------------------------------------
\* The shape of what callers do.
LEMMA CallShapeKept ==
  ASSUME CallShape, SlotShape, NodeShape, [Next]_vars
  PROVE  CallShape'
<1> USE DEF CallShape, Pcs, Outcomes, boundVars
<1>1. ASSUME NEW r \in Callers, Call(r) PROVE CallShape'
  BY <1>1 DEF Call, Workload, Goto
<1>2. ASSUME NEW r \in Callers, OnlyMoves(r) PROVE CallShape'
  BY <1>2 DEF OnlyMoves, Return, Goto
<1>3. ASSUME NEW r \in Callers, Start(r) PROVE CallShape'
  <2>1. /\ HasKey(r) => generation[Slot(r)] \in Nat
        /\ Up # {} => HealthyFrom(Preferred(r)) \in Nodes
    <3>1. host[r] \in Hosts /\ Slot(r) \in IdentitySlots /\ Slot(r) \in Nat
      BY <1>3, BrowserClientAssumption DEF Start, Slot
    <3>2. Preferred(r) \in Int
      BY <3>1, BrowserClientAssumption DEF Preferred, Nodes
    <3> QED BY <3>1, <3>2, NodesAreThere DEF SlotShape, NodeShape, Up
  <2> QED BY <1>3, <2>1 DEF Start, End, Goto
<1>4. ASSUME NEW r \in Callers, Enter(r) PROVE CallShape'
  BY <1>4 DEF Enter, Goto
<1>5. ASSUME NEW r \in Callers, Unreached(r) PROVE CallShape'
  <2>1. at[r] \in Nodes
    BY BrowserClientAssumption DEF Nodes
  <2>2. Up \ {at[r]} # {} => NextNode(at[r]) \in Nodes
    BY <2>1, NodesAreThere DEF NodeShape, Up
  <2> QED BY <1>5, <2>2 DEF Unreached, End, Goto
<1>6. ASSUME NEW r \in Callers, DeadlinePasses(r) \/ ServiceError(r) PROVE CallShape'
  BY <1>6 DEF DeadlinePasses, ServiceError, End, Goto
<1>7. ASSUME NEW r \in Callers, Answer(r) PROVE CallShape'
  <2>1. workload.pages \subseteq PageKinds
    BY DEF Workload
  <2> QED BY <1>7, <2>1 DEF Answer, Goto
<1>8. ASSUME NEW r \in Callers, SaveGeneration(r) PROVE CallShape'
  BY <1>8 DEF SaveGeneration, Goto
<1>9. CASE Restart
  BY <1>9, BrowserClientAssumption DEF Restart
<1>10. CASE \/ Retire \/ CreateSession \/ CloseSession \/ ExpireSession
            \/ (\E n \in Nodes : Recover(n)) \/ UNCHANGED vars
  <2>1. UNCHANGED callVars /\ UNCHANGED workload
    BY <1>10 DEF Retire, CreateSession, CloseSession, ExpireSession, Recover, vars
  <2> QED BY <2>1 DEF callVars
<1> QED BY <1>1, <1>2, <1>3, <1>4, <1>5, <1>6, <1>7, <1>8, <1>9, <1>10, StepCases
    DEF Calling

-----------------------------------------------------------------------------
\* Sequences of retirements, by what is in them.
Elems(s) == {s[i] : i \in DOMAIN s}

LEMMA AppendElems ==
  ASSUME NEW s \in Seq(Retirements), NEW x \in Retirements
  PROVE  /\ Append(s, x) \in Seq(Retirements) /\ Append(s, x) # <<>>
         /\ Elems(Append(s, x)) = Elems(s) \cup {x}
<1> DEFINE t == Append(s, x)
<1>1. /\ t \in Seq(Retirements) /\ t # <<>> /\ Len(t) = Len(s) + 1
      /\ \A i \in 1..Len(s) : t[i] = s[i]
      /\ t[Len(s) + 1] = x
  BY AppendProperties
<1>2. /\ Len(s) \in Nat /\ DOMAIN s = 1..Len(s) /\ DOMAIN t = 1..Len(t)
  BY <1>1, LenProperties
<1> HIDE DEF t
<1>3. DOMAIN t = DOMAIN s \cup {Len(s) + 1}
  BY <1>1, <1>2
<1>4. Elems(t) = Elems(s) \cup {x}
  BY <1>1, <1>2, <1>3 DEF Elems
<1> QED BY <1>1, <1>4 DEF t

LEMMA HeadTailElems ==
  ASSUME NEW s \in Seq(Retirements), s # <<>>
  PROVE  /\ Head(s) \in Retirements /\ Tail(s) \in Seq(Retirements)
         /\ Elems(s) = {Head(s)} \cup Elems(Tail(s))
         /\ Len(s) > 1 => Tail(s) # <<>>
         /\ ~ Len(s) > 1 => Elems(s) = {Head(s)}
<1> DEFINE t == Tail(s)
<1>1. /\ t \in Seq(Retirements) /\ Head(s) \in Retirements
      /\ Len(t) = Len(s) - 1 /\ \A i \in 1..Len(t) : t[i] = s[i + 1]
  BY HeadTailProperties
<1>2. /\ Len(s) \in Nat \ {0} /\ DOMAIN s = 1..Len(s) /\ DOMAIN t = 1..Len(t)
      /\ Head(s) = s[1]
  BY <1>1, LenProperties, EmptySeq
<1>3. Len(s) > 1 => t # <<>>
  BY <1>1, <1>2, EmptySeq
<1> HIDE DEF t
<1>4. Elems(s) = {Head(s)} \cup Elems(t)
  <2>1. ASSUME NEW i \in DOMAIN s PROVE s[i] \in {Head(s)} \cup Elems(t)
    <3>1. CASE i = 1
      BY <3>1, <1>2
    <3>2. CASE i # 1
      <4>1. i - 1 \in 1..Len(t) /\ (i - 1) + 1 = i
        BY <3>2, <1>1, <1>2
      <4> QED BY <4>1, <1>1, <1>2 DEF Elems
    <3> QED BY <3>1, <3>2
  <2>2. ASSUME NEW i \in DOMAIN t PROVE t[i] \in Elems(s)
    <3>1. i + 1 \in DOMAIN s
      BY <1>1, <1>2
    <3> QED BY <3>1, <1>1, <1>2 DEF Elems
  <2>3. 1 \in DOMAIN s
    BY <1>2
  <2> QED BY <2>1, <2>2, <2>3, <1>2 DEF Elems
<1>5. ~ Len(s) > 1 => Elems(s) = {Head(s)}
  <2>1. ~ Len(s) > 1 => DOMAIN s = {1}
    BY <1>2
  <2> QED BY <2>1, <1>2 DEF Elems
<1> QED BY <1>1, <1>3, <1>4, <1>5 DEF t

LEMMA ConcatElems ==
  ASSUME NEW s \in Seq(Retirements), NEW t \in Seq(Retirements)
  PROVE  s \o t \in Seq(Retirements) /\ Elems(s \o t) = Elems(s) \cup Elems(t)
<1> DEFINE u == s \o t
<1>1. /\ u \in Seq(Retirements) /\ Len(u) = Len(s) + Len(t)
      /\ \A i \in 1..Len(s) + Len(t) :
           u[i] = IF i <= Len(s) THEN s[i] ELSE t[i - Len(s)]
  BY ConcatProperties
<1>2. /\ Len(s) \in Nat /\ Len(t) \in Nat
      /\ DOMAIN s = 1..Len(s) /\ DOMAIN t = 1..Len(t) /\ DOMAIN u = 1..Len(u)
  BY <1>1, LenProperties
<1> HIDE DEF u
<1>3. ASSUME NEW i \in DOMAIN u PROVE u[i] \in Elems(s) \cup Elems(t)
  <2>1. CASE i <= Len(s)
    BY <2>1, <1>1, <1>2 DEF Elems
  <2>2. CASE ~ i <= Len(s)
    <3>1. i - Len(s) \in DOMAIN t /\ u[i] = t[i - Len(s)]
      BY <2>2, <1>1, <1>2
    <3> QED BY <3>1 DEF Elems
  <2> QED BY <2>1, <2>2
<1>4. ASSUME NEW i \in DOMAIN s PROVE s[i] \in Elems(u)
  BY <1>1, <1>2 DEF Elems
<1>5. ASSUME NEW i \in DOMAIN t PROVE t[i] \in Elems(u)
  <2>1. /\ Len(s) + i \in DOMAIN u /\ ~ Len(s) + i <= Len(s)
        /\ (Len(s) + i) - Len(s) = i
    BY <1>1, <1>2
  <2>2. u[Len(s) + i] = t[i]
    BY <1>1, <1>2, <2>1
  <2> QED BY <2>1, <2>2 DEF Elems
<1> QED BY <1>1, <1>3, <1>4, <1>5 DEF Elems, u

LEMMA NewestElems ==
  ASSUME NEW s \in Seq(Retirements)
  PROVE  /\ Newest(s) \in Seq(Retirements)
         /\ Elems(s) \subseteq Elems(Newest(s)) \cup GivenUp(s)
         /\ Len(Newest(s)) <= MaxPending /\ GivenUp(s) \subseteq Retirements
<1> DEFINE k == Min({Len(s), MaxPending})  n == Newest(s)
<1>1. Len(s) \in Nat /\ DOMAIN s = 1..Len(s) /\ s \in [1..Len(s) -> Retirements]
  BY LenProperties
<1>2. k \in Nat /\ k <= Len(s) /\ k <= MaxPending
  <2>1. \E m \in {Len(s), MaxPending} : \A o \in {Len(s), MaxPending} : m <= o
    BY <1>1, BrowserClientAssumption
  <2>2. k \in {Len(s), MaxPending} /\ \A o \in {Len(s), MaxPending} : k <= o
    BY <2>1 DEF Min
  <2> QED BY <2>2, <1>1, BrowserClientAssumption
<1> DEFINE m == Len(s) - k + 1
<1>3. n = SubSeq(s, m, Len(s)) /\ GivenUp(s) = {s[i] : i \in 1..(Len(s) - k)}
  BY DEF Newest, GivenUp
<1> HIDE DEF k, n
<1>4. /\ m \in Int /\ 1 <= m /\ Len(s) \in Int
      /\ \A i \in m..Len(s) : s[i] \in Retirements
  BY <1>1, <1>2
<1>5. /\ n \in Seq(Retirements)
      /\ Len(n) = IF m <= Len(s) THEN Len(s) - m + 1 ELSE 0
      /\ \A i \in 1..(Len(s) - m + 1) : n[i] = s[m + i - 1]
  BY <1>3, <1>4, SubSeqProperties
<1>6. DOMAIN n = 1..Len(n)
  BY <1>5, LenProperties
<1>7. ASSUME NEW i \in DOMAIN s PROVE s[i] \in Elems(n) \cup GivenUp(s)
  <2>1. CASE i <= Len(s) - k
    BY <2>1, <1>1, <1>3
  <2>2. CASE ~ i <= Len(s) - k
    <3>1. /\ i - m + 1 \in 1..(Len(s) - m + 1) /\ m + (i - m + 1) - 1 = i
          /\ m <= Len(s)
      BY <2>2, <1>1, <1>2
    <3>2. n[i - m + 1] = s[i] /\ i - m + 1 \in DOMAIN n
      BY <3>1, <1>5, <1>6
    <3> QED BY <3>2 DEF Elems
  <2> QED BY <2>1, <2>2
<1>8. GivenUp(s) \subseteq Retirements
  BY <1>1, <1>2, <1>3
<1>9. Len(n) <= MaxPending
  BY <1>1, <1>2, <1>5, BrowserClientAssumption
<1> QED BY <1>5, <1>7, <1>8, <1>9 DEF Elems, n

-----------------------------------------------------------------------------
\* A retirement is pending or with a goroutine.
Waits(x) ==
  \/ x \in Elems(pending)
  \/ \E b \in batches : x \in Elems(b.todo) \cup Elems(b.failed)

LEMMA DeletesKeeps ==
  ASSUME RetireShape, NEW b \in batches, NEW ok \in BOOLEAN,
         Deletes(b, Head(b.todo), ok)
  PROVE  /\ pending' \in Seq(Retirements) /\ batches' \subseteq Batches
         /\ \A c \in batches' : c.todo # <<>>
         /\ settled \subseteq settled'
         /\ \A x : Waits(x) => Waits(x)' \/ x \in settled'
         /\ down' \subseteq down \cup ({Head(b.todo).node} \ reachable)
<1> DEFINE x == Head(b.todo)
           failed == IF ok THEN b.failed ELSE Append(b.failed, x)
           others == batches \ {b}
           next   == [todo |-> Tail(b.todo), failed |-> failed]
<1>1. /\ b \in Batches /\ b.todo # <<>> /\ b.todo \in Seq(Retirements)
      /\ b.failed \in Seq(Retirements) /\ pending \in Seq(Retirements)
      /\ others \subseteq Batches
  BY DEF RetireShape, Batches
<1>2. /\ x \in Retirements /\ Tail(b.todo) \in Seq(Retirements)
      /\ Elems(b.todo) = {x} \cup Elems(Tail(b.todo))
      /\ Len(b.todo) > 1 => Tail(b.todo) # <<>>
      /\ ~ Len(b.todo) > 1 => Elems(b.todo) = {x}
  BY <1>1, HeadTailElems
<1>3. /\ failed \in Seq(Retirements)
      /\ Elems(failed) = IF ok THEN Elems(b.failed) ELSE Elems(b.failed) \cup {x}
  BY <1>1, <1>2, AppendElems
<1>4. /\ down' \in {down, IF ok THEN down ELSE down \cup ({x.node} \ reachable)}
      /\ IF Len(b.todo) > 1
         THEN /\ batches' = others \cup {next}
              /\ settled' = settled \cup (IF ok THEN {x} ELSE {})
              /\ UNCHANGED pending
         ELSE /\ batches' = others
              /\ pending' = IF failed = <<>> THEN pending ELSE Newest(Kept(failed))
              /\ settled' = settled \cup (IF ok THEN {x} ELSE {}) \cup
                              (IF failed = <<>> THEN {} ELSE GivenUp(Kept(failed)))
  BY DEF Deletes
<1>5. Elems(<<>>) = {}
  BY DEF Elems
<1> HIDE DEF x, failed, others
<1>6. ok \/ x \in Elems(failed)
  BY <1>3
<1>7. CASE Len(b.todo) > 1
  <2>1. next \in Batches /\ next.todo # <<>>
    BY <1>2, <1>3, <1>7 DEF Batches
  <2>2. ASSUME NEW y, Waits(y) PROVE Waits(y)' \/ y \in settled'
    <3>1. y \in Elems(b.todo) \cup Elems(b.failed) =>
            y \in Elems(next.todo) \cup Elems(next.failed) \/ y \in settled'
      BY <1>2, <1>3, <1>4, <1>7
    <3> QED BY <2>2, <3>1, <1>4, <1>7 DEF Waits, others
  <2> QED BY <1>1, <1>4, <1>7, <2>1, <2>2 DEF RetireShape, others, x
<1>8. CASE ~ Len(b.todo) > 1
  <2>1. /\ Kept(failed) \in Seq(Retirements)
        /\ Elems(Kept(failed)) = Elems(failed) \cup Elems(pending)
    BY <1>1, <1>3, ConcatElems DEF Kept
  <2>2. /\ Newest(Kept(failed)) \in Seq(Retirements)
        /\ Elems(Kept(failed)) \subseteq Elems(Newest(Kept(failed))) \cup GivenUp(Kept(failed))
    BY <2>1, NewestElems
  <2>3. Elems(failed) \cup Elems(pending) \subseteq Elems(pending') \cup settled'
    BY <2>1, <2>2, <1>4, <1>5, <1>8
  <2>4. ASSUME NEW y, Waits(y) PROVE Waits(y)' \/ y \in settled'
    <3>1. y \in Elems(b.todo) \cup Elems(b.failed) => y \in Elems(pending') \cup settled'
      BY <1>2, <1>3, <1>4, <1>6, <1>8, <2>3
    <3> QED BY <2>3, <2>4, <3>1, <1>4, <1>8 DEF Waits, others
  <2> QED BY <1>1, <1>4, <1>8, <2>2, <2>4 DEF RetireShape, others, x
<1> QED BY <1>7, <1>8

LEMMA NodeShapeKept ==
  ASSUME CallShape, RetireShape, NodeShape, SessionShape, [Next]_vars
  PROVE  NodeShape'
<1> USE DEF NodeShape
<1>1. ASSUME NEW r \in Callers, Calling(r), ~ Unreached(r) PROVE NodeShape'
  BY <1>1 DEF Calling, Call, OnlyMoves, Start, Enter, DeadlinePasses, ServiceError,
              Answer, SaveGeneration
<1>2. ASSUME NEW r \in Callers, Unreached(r) PROVE NodeShape'
  <2>1. at[r] \in Nodes
    BY BrowserClientAssumption DEF Nodes, CallShape
  <2> QED BY <1>2, <2>1 DEF Unreached
<1>3. CASE Retire
  <2>1. PICK b \in batches, ok \in BOOLEAN : Deletes(b, Head(b.todo), ok)
    BY <1>3 DEF Retire
  <2>2. Head(b.todo).node \in Nodes
    BY HeadTailElems DEF RetireShape, Batches, Retirements
  <2>3. down' \subseteq down \cup ({Head(b.todo).node} \ reachable)
    BY <2>1, DeletesKeeps
  <2> QED BY <1>3, <2>2, <2>3 DEF Retire
<1>4. CASE CreateSession
  <2>1. Up # {} => HealthyFrom(ProfileNode) \in Nodes
    BY NodesAreThere, BrowserClientAssumption DEF Nodes, Up
  <2> QED BY <1>4, <2>1 DEF CreateSession
<1>5. CASE CloseSession
  <2>1. CloseTarget \in Nodes
    BY BrowserClientAssumption DEF CloseTarget, Nodes, SessionShape
  <2> QED BY <1>5, <2>1 DEF CloseSession
<1>6. CASE ExpireSession \/ Restart \/ (\E n \in Nodes : Recover(n)) \/ UNCHANGED vars
  BY <1>6 DEF ExpireSession, Restart, Recover, vars
<1> QED BY <1>1, <1>2, <1>3, <1>4, <1>5, <1>6, StepCases

\* Steps of a caller but for an answer and the save after it touch neither
\* identities nor retirements, nor what another caller does.
LEMMA QuietCalls ==
  ASSUME CallShape, NEW r \in Callers, Calling(r), ~ Answer(r), ~ SaveGeneration(r)
  PROVE  /\ UNCHANGED <<identityVars, retireVars, failedSaves>>
         /\ pc[r] # "saving" /\ pc'[r] # "saving"
         /\ \A o \in Callers \ {r} :
              /\ pc'[o] = pc[o] /\ host'[o] = host[o] /\ kind'[o] = kind[o]
              /\ key'[o] = key[o] /\ at'[o] = at[o] /\ tries'[o] = tries[o]
              /\ page'[o] = page[o]
<1> USE DEF CallShape, boundVars
<1>1. CASE Call(r)
  BY <1>1 DEF Call, Goto
<1>2. CASE OnlyMoves(r)
  BY <1>2 DEF OnlyMoves, Return, Goto
<1>3. CASE Start(r) \/ Enter(r)
  BY <1>3 DEF Start, Enter, End, Goto
<1>4. CASE Unreached(r) \/ DeadlinePasses(r) \/ ServiceError(r)
  BY <1>4 DEF Unreached, DeadlinePasses, ServiceError, End, Goto
<1> QED BY <1>1, <1>2, <1>3, <1>4 DEF Calling

\* Steps outside a call change none of its variables, except a restart.
LEMMA OtherSteps ==
  ASSUME \/ Retire \/ CreateSession \/ CloseSession \/ ExpireSession
         \/ (\E n \in Nodes : Recover(n)) \/ UNCHANGED vars
  PROVE  UNCHANGED <<identityVars, callVars, boundVars, reachable>>
BY DEF Retire, CreateSession, CloseSession, ExpireSession, Recover, vars

LEMMA SlotShapeKept ==
  ASSUME CallShape, SlotShape, [Next]_vars
  PROVE  SlotShape'
<1> USE DEF SlotShape
<1>1. ASSUME NEW r \in Callers, Calling(r), ~ Answer(r), ~ SaveGeneration(r)
      PROVE  SlotShape'
  BY <1>1, QuietCalls DEF identityVars
<1>2. ASSUME NEW r \in Callers, Answer(r) PROVE SlotShape'
  <2>1. host[r] \in Hosts /\ Slot(r) \in IdentitySlots
    BY <1>2, BrowserClientAssumption DEF Answer, CallShape, Slot
  <2>2. \A b \in BOOLEAN : BlocksAfter(host[r], key[r], b) \in [Hosts -> Nat]
    BY <2>1 DEF BlocksAfter
  <2>3. row' = row /\ failedSaves' = failedSaves
    BY <1>2 DEF Answer, boundVars
  <2>4. generation' \in [IdentitySlots -> Nat]
    BY <1>2, <2>1 DEF Answer
  <2>5. blocks' \in [Hosts -> Nat]
    BY <1>2, <2>2 DEF Answer
  <2> QED BY <2>3, <2>4, <2>5
<1>3. ASSUME NEW r \in Callers, SaveGeneration(r) PROVE SlotShape'
  <2>1. Slot(r) \in IdentitySlots
    BY <1>3, BrowserClientAssumption DEF SaveGeneration, CallShape, Slot
  <2> QED BY <1>3, <2>1 DEF SaveGeneration, Saved
<1>4. CASE Restart
  BY <1>4 DEF Restart
<1>5. CASE UNCHANGED <<identityVars, callVars, boundVars, reachable>>
  BY <1>5 DEF identityVars, boundVars
<1> QED BY <1>1, <1>2, <1>3, <1>4, <1>5, StepCases, OtherSteps

LEMMA RetireShapeKept ==
  ASSUME CallShape, RetireShape, [Next]_vars
  PROVE  RetireShape'
<1> USE DEF RetireShape
<1>1. ASSUME NEW r \in Callers, Calling(r), ~ SaveGeneration(r) PROVE RetireShape'
  <2>1. UNCHANGED <<pending, batches, retired>>
    BY <1>1, QuietCalls DEF identityVars, retireVars, Answer
  <2> QED BY <2>1
<1>2. ASSUME NEW r \in Callers, SaveGeneration(r) PROVE RetireShape'
  <2>1. Retirement(r) \in Retirements
    <3>1. /\ Slot(r) \in IdentitySlots /\ key[r] \in Nat /\ at[r] \in Nodes
      BY <1>2, BrowserClientAssumption DEF SaveGeneration, CallShape, Slot, Nodes
    <3> QED BY <3>1 DEF Retirement, Retirements
  <2> DEFINE new == [todo |-> Append(pending, Retirement(r)), failed |-> <<>>]
  <2>2. new \in Batches /\ new.todo # <<>>
    BY <2>1, AppendElems DEF Batches
  <2> HIDE DEF new
  <2>3. batches' = batches \cup {new} /\ pending' = <<>>
        /\ retired' = retired \cup {Retirement(r)}
    BY <1>2 DEF SaveGeneration, new
  <2> QED BY <2>1, <2>2, <2>3
<1>3. CASE Retire
  <2>1. PICK b \in batches, ok \in BOOLEAN : Deletes(b, Head(b.todo), ok)
    BY <1>3 DEF Retire
  <2>2. retired' = retired
    BY <1>3 DEF Retire, identityVars
  <2> QED BY <2>1, <2>2, DeletesKeeps
<1>4. CASE Restart
  BY <1>4 DEF Restart
<1>5. CASE \/ CreateSession \/ CloseSession \/ ExpireSession
           \/ (\E n \in Nodes : Recover(n)) \/ UNCHANGED vars
  <2>1. UNCHANGED <<retireVars, retired>>
    BY <1>5 DEF CreateSession, CloseSession, ExpireSession, Recover, identityVars, vars
  <2> QED BY <2>1 DEF retireVars
<1> QED BY <1>1, <1>2, <1>3, <1>4, <1>5, StepCases

\* A session that is open is where the client looks for it.
LEMMA SessionKept ==
  ASSUME SessionShape, NodeShape, SessionStaysReachable, [Next]_vars
  PROVE  SessionShape' /\ SessionStaysReachable'
<1> USE DEF SessionShape, SessionStaysReachable
<1>1. ASSUME NEW r \in Callers, Calling(r) PROVE SessionShape' /\ SessionStaysReachable'
  <2>1. UNCHANGED sessionVars
    BY <1>1 DEF Calling, Call, OnlyMoves, Start, Enter, Unreached, DeadlinePasses,
                ServiceError, Answer, SaveGeneration
  <2> QED BY <2>1 DEF sessionVars
<1>2. CASE CreateSession
  <2>1. Up # {} => HealthyFrom(ProfileNode) \in Nodes
    BY NodesAreThere, BrowserClientAssumption DEF Nodes, Up
  <2> QED BY <1>2, <2>1 DEF CreateSession
<1>3. CASE CloseSession
  BY <1>3 DEF CloseSession, CloseTarget
<1>4. CASE ExpireSession \/ Restart
  BY <1>4 DEF ExpireSession, Restart
<1>5. CASE Retire \/ (\E n \in Nodes : Recover(n)) \/ UNCHANGED vars
  BY <1>5 DEF Retire, Recover, vars, sessionVars
<1> QED BY <1>1, <1>2, <1>3, <1>4, <1>5, StepCases

-----------------------------------------------------------------------------
\* The identity mutex: one caller at a time saves a slot's generation, which it
\* has raised by one; without a failed save the row lags only behind it.
Saving == {r \in Callers : pc[r] = "saving"}
SavingsAlone ==
  \A r \in Saving :
    /\ HasKey(r) /\ generation[Slot(r)] = key[r] + 1 /\ page[r] \in PageKinds
    /\ \A o \in Saving : Slot(o) = Slot(r) => o = r
RowsFollow ==
  failedSaves = 0 =>
    \A s \in IdentitySlots :
      /\ row[s] <= generation[s]
      /\ Unlocked(s) => row[s] = generation[s]
SaveInv == SavingsAlone /\ RowsFollow /\ RetiredIsPersisted

LEMMA QuietSlots ==
  ASSUME SaveInv, NEW r \in Callers, pc[r] # "saving", pc'[r] # "saving",
         UNCHANGED <<identityVars, failedSaves>>,
         \A o \in Callers \ {r} : /\ pc'[o] = pc[o] /\ host'[o] = host[o]
                                 /\ kind'[o] = kind[o] /\ key'[o] = key[o]
                                 /\ page'[o] = page[o]
  PROVE  SaveInv'
<1> USE DEF SaveInv, identityVars
<1>1. Saving' = Saving /\ r \notin Saving
  BY DEF Saving
<1>2. \A o \in Saving : /\ (HasKey(o) <=> HasKey(o)') /\ Slot(o)' = Slot(o)
                       /\ key'[o] = key[o] /\ page'[o] = page[o]
  BY <1>1 DEF HasKey, Slot, Saving
<1>3. SavingsAlone'
  BY <1>1, <1>2 DEF SavingsAlone
<1>4. \A s \in IdentitySlots : Unlocked(s)' => Unlocked(s)
  BY <1>1, <1>2 DEF Unlocked, Saving
<1>5. RowsFollow'
  BY <1>4 DEF RowsFollow
<1> QED BY <1>3, <1>5 DEF RetiredIsPersisted

LEMMA SaveInvKept ==
  ASSUME CallShape, SlotShape, RetireShape, SaveInv, [Next]_vars
  PROVE  SaveInv'
<1>1. ASSUME NEW r \in Callers, Calling(r), ~ Answer(r), ~ SaveGeneration(r)
      PROVE  SaveInv'
  BY <1>1, QuietCalls, QuietSlots
<1>2. ASSUME NEW r \in Callers, Answer(r) PROVE SaveInv'
  <2>0. /\ pc[r] = "on" /\ host[r] \in Hosts /\ Slot(r) \in IdentitySlots
        /\ UNCHANGED <<host, kind, key, row, retired, failedSaves>>
        /\ pc' \in [Callers -> Pcs] /\ page' \in [Callers -> Outcomes]
        /\ \A o \in Callers \ {r} : pc'[o] = pc[o] /\ page'[o] = page[o]
        /\ page'[r] \in PageKinds
    BY <1>2, BrowserClientAssumption
    DEF Answer, CallShape, Slot, boundVars, Goto, Pcs, Outcomes, Workload
  <2>1. CASE pc'[r] # "saving"
    <3>1. generation' = generation
      BY <1>2, <2>0, <2>1 DEF Answer, Goto, CallShape
    <3>2. Saving' = Saving /\ r \notin Saving
      BY <2>0, <2>1 DEF Saving
    <3>3. SavingsAlone'
      BY <2>0, <3>1, <3>2 DEF SaveInv, SavingsAlone, HasKey, Slot, Saving
    <3>4. \A s \in IdentitySlots : Unlocked(s)' => Unlocked(s)
      BY <2>0, <3>2 DEF Unlocked, Saving, Slot
    <3> QED BY <2>0, <3>1, <3>3, <3>4 DEF SaveInv, RowsFollow, RetiredIsPersisted
  <2>2. CASE pc'[r] = "saving"
    <3>1. /\ HasKey(r) /\ Unlocked(Slot(r)) /\ generation[Slot(r)] = key[r]
          /\ generation' = [generation EXCEPT ![Slot(r)] = @ + 1]
      BY <1>2, <2>0, <2>2 DEF Answer, Goto, CallShape, Rotates, Slot
    <3>2. Saving' = Saving \cup {r} /\ \A o \in Saving : Slot(o) # Slot(r)
      BY <2>0, <2>2, <3>1 DEF Saving, Unlocked
    <3>3. \A o \in Callers : Slot(o)' = Slot(o) /\ (HasKey(o)' <=> HasKey(o))
      BY <2>0 DEF Slot, HasKey
    <3>4. generation'[Slot(r)] = key[r] + 1
      BY <2>0, <3>1 DEF SlotShape
    <3>5. SavingsAlone'
      <4>1. ASSUME NEW o \in Saving
            PROVE  /\ HasKey(o) /\ generation'[Slot(o)] = key[o] + 1 /\ page'[o] \in PageKinds
                   /\ o # r
        BY <2>0, <3>1, <3>2 DEF SaveInv, SavingsAlone, Saving, SlotShape
      <4> QED BY <2>0, <3>1, <3>2, <3>3, <3>4, <4>1 DEF SaveInv, SavingsAlone, Saving
    <3>6. RowsFollow'
      <4>1. ASSUME NEW s \in IdentitySlots, failedSaves = 0
            PROVE  row[s] <= generation'[s] /\ (Unlocked(s)' => row[s] = generation'[s])
        <5>1. row[s] <= generation[s] /\ (Unlocked(s) => row[s] = generation[s])
          BY <4>1 DEF SaveInv, RowsFollow
        <5>2. Unlocked(s)' => Unlocked(s) /\ s # Slot(r)
          BY <2>0, <2>2, <3>2, <3>3 DEF Unlocked, Saving
        <5> QED BY <5>1, <5>2, <3>1 DEF SlotShape
      <4> QED BY <2>0, <4>1 DEF RowsFollow
    <3> QED BY <2>0, <3>5, <3>6 DEF SaveInv, RetiredIsPersisted
  <2> QED BY <2>1, <2>2
<1>3. ASSUME NEW r \in Callers, SaveGeneration(r) PROVE SaveInv'
  <2>0. /\ pc[r] = "saving" /\ r \in Saving /\ Slot(r) \in IdentitySlots
        /\ UNCHANGED <<host, kind, key, page, generation>>
        /\ pc' = [pc EXCEPT ![r] = "page"]
        /\ retired' = retired \cup {Retirement(r)}
    BY <1>3, BrowserClientAssumption DEF SaveGeneration, CallShape, Slot, Goto, Saving
  <2>1. Saving' = Saving \ {r}
    BY <2>0 DEF Saving, CallShape
  <2>2. \A o \in Callers : Slot(o)' = Slot(o) /\ (HasKey(o)' <=> HasKey(o))
    BY <2>0 DEF Slot, HasKey
  <2>3. SavingsAlone'
    BY <2>0, <2>1, <2>2 DEF SaveInv, SavingsAlone, Saving
  <2>4. ASSUME failedSaves' = 0
        PROVE  failedSaves = 0 /\ row' = [row EXCEPT ![Slot(r)] = generation[Slot(r)]]
    BY <1>3, <2>4 DEF SaveGeneration, SlotShape, Saved
  <2>5. ASSUME NEW s \in IdentitySlots, s # Slot(r), Unlocked(s)' PROVE Unlocked(s)
    BY <2>0, <2>1, <2>2, <2>5 DEF Unlocked, Saving
  <2>6. RowsFollow'
    BY <2>0, <2>4, <2>5 DEF SaveInv, RowsFollow, SlotShape
  <2>7. RetiredIsPersisted'
    <3>1. ASSUME failedSaves' = 0, NEW x \in retired'
          PROVE  row'[x.slot] > x.generation
      <4>1. CASE x = Retirement(r)
        <5>1. generation[Slot(r)] = key[r] + 1 /\ key[r] \in Nat
          BY <2>0 DEF SaveInv, SavingsAlone, CallShape
        <5>2. x.slot = Slot(r) /\ x.generation = key[r]
          BY <4>1 DEF Retirement
        <5>3. row'[Slot(r)] = generation[Slot(r)]
          BY <2>0, <2>4, <3>1 DEF SlotShape
        <5> QED BY <5>1, <5>2, <5>3
      <4>2. CASE x \in retired
        <5>1. /\ row[x.slot] > x.generation /\ x.slot \in IdentitySlots
              /\ row[x.slot] <= generation[x.slot] /\ x.generation \in Nat
          BY <2>4, <3>1, <4>2
          DEF SaveInv, RetiredIsPersisted, RowsFollow, RetireShape, Retirements
        <5>2. row'[x.slot] >= row[x.slot]
          BY <2>0, <2>4, <3>1, <5>1 DEF SlotShape
        <5>3. row'[x.slot] \in Nat /\ row[x.slot] \in Nat
          BY <2>0, <2>4, <3>1, <5>1 DEF SlotShape
        <5> QED BY <5>1, <5>2, <5>3
      <4> QED BY <2>0, <3>1, <4>1, <4>2
    <3> QED BY <3>1 DEF RetiredIsPersisted
  <2> QED BY <2>3, <2>6, <2>7 DEF SaveInv
<1>4. CASE Restart
  <2>1. Saving' = {} /\ retired' = {} /\ generation' = row /\ row' = row
    BY <1>4 DEF Restart, Saving
  <2> QED BY <2>1 DEF SaveInv, SavingsAlone, RowsFollow, RetiredIsPersisted, SlotShape
<1>5. CASE UNCHANGED <<identityVars, callVars, boundVars, reachable>>
  BY <1>5 DEF SaveInv, SavingsAlone, RowsFollow, RetiredIsPersisted, Saving, HasKey,
              Slot, Unlocked, identityVars, callVars, boundVars
<1> QED BY <1>1, <1>2, <1>3, <1>4, <1>5, StepCases, OtherSteps

-----------------------------------------------------------------------------
\* A count above zero stands for a page that was refused under the current
\* generation, and a generation that is being saved for two.
CountsAreRefusals ==
  \A h \in Hosts : blocks[h] # 0 => <<h, generation[SlotOf[h]], 1>> \in refused
SavingsAreEarned ==
  \A r \in Callers : pc[r] = "saving" => <<host[r], key[r], 2>> \in refused
EarnInv == CountsAreRefusals /\ SavingsAreEarned /\ RotationsAreEarned

LEMMA EarnInvKept ==
  ASSUME CallShape, SlotShape, RetireShape, EarnInv, [Next]_vars
  PROVE  EarnInv'
<1> USE DEF EarnInv
<1>1. ASSUME NEW r \in Callers, Calling(r), ~ Answer(r), ~ SaveGeneration(r)
      PROVE  EarnInv'
  <2>1. UNCHANGED identityVars /\ SavingsAreEarned'
    BY <1>1, QuietCalls DEF SavingsAreEarned, identityVars
  <2> QED BY <2>1 DEF CountsAreRefusals, RotationsAreEarned, identityVars
<1>2. ASSUME NEW r \in Callers, Answer(r) PROVE EarnInv'
  <2>0. /\ host[r] \in Hosts /\ Slot(r) = SlotOf[host[r]] /\ Slot(r) \in IdentitySlots
        /\ UNCHANGED <<host, key, retired>> /\ pc[r] = "on"
        /\ \A o \in Callers \ {r} : pc'[o] = pc[o]
    BY <1>2, BrowserClientAssumption DEF Answer, CallShape, Slot, Goto
  <2>1. refused \subseteq refused'
    BY <1>2 DEF Answer, CountRefusal
  <2>2. RotationsAreEarned'
    BY <2>0, <2>1 DEF RotationsAreEarned
  <2>3. PICK p \in workload.pages :
          LET blocked == p # "fine"
              rotates == HasKey(r) /\ blocked /\ Rotates(host[r], key[r])
          IN  /\ Goto(r, IF rotates THEN "saving" ELSE "page")
              /\ IF HasKey(r)
                 THEN /\ blocks' = BlocksAfter(host[r], key[r], blocked)
                      /\ refused' = IF blocked THEN CountRefusal(host[r], key[r]) ELSE refused
                      /\ generation' = IF rotates THEN [generation EXCEPT ![Slot(r)] = @ + 1]
                                       ELSE generation
                 ELSE UNCHANGED <<blocks, refused, generation>>
    BY <1>2 DEF Answer
  <2>4. ASSUME pc'[r] = "saving" PROVE <<host[r], key[r], 2>> \in refused'
    <3>1. /\ HasKey(r) /\ p # "fine" /\ Rotates(host[r], key[r])
      BY <2>0, <2>3, <2>4 DEF Goto, CallShape
    <3>2. generation[Slot(r)] = key[r] /\ blocks[host[r]] # 0
      BY <3>1, <2>0 DEF Rotates, RotateAfterBlocks, SlotShape
    <3>3. <<host[r], key[r], 1>> \in refused
      BY <2>0, <3>2 DEF CountsAreRefusals
    <3> QED BY <2>3, <3>1, <3>3 DEF CountRefusal
  <2>5. SavingsAreEarned'
    BY <2>0, <2>1, <2>4 DEF SavingsAreEarned
  <2>6. CountsAreRefusals'
    <3>1. CASE ~ HasKey(r) \/ generation[Slot(r)] # key[r]
      <4>1. blocks' = blocks /\ generation' = generation
        BY <2>0, <2>3, <3>1 DEF BlocksAfter, Rotates
      <4> QED BY <2>1, <4>1 DEF CountsAreRefusals
    <3>2. CASE HasKey(r) /\ p # "fine" /\ Rotates(host[r], key[r])
      <4>1. /\ blocks' = [g \in Hosts |-> IF SlotOf[g] = SlotOf[host[r]] THEN 0 ELSE blocks[g]]
            /\ generation' = [generation EXCEPT ![Slot(r)] = @ + 1]
        BY <2>3, <3>2 DEF BlocksAfter, Rotates
      <4> QED BY <2>0, <2>1, <4>1 DEF CountsAreRefusals, SlotShape
    <3>3. CASE /\ HasKey(r) /\ generation[Slot(r)] = key[r]
               /\ p = "fine" \/ ~ Rotates(host[r], key[r])
      <4>1. generation' = generation
        BY <2>3, <3>3
      <4>2. \A g \in Hosts \ {host[r]} : blocks'[g] = blocks[g]
        BY <2>0, <2>3, <3>3 DEF BlocksAfter, SlotShape
      <4>3. p = "fine" => blocks'[host[r]] = 0
        BY <2>0, <2>3, <3>3 DEF BlocksAfter, SlotShape
      <4>4. p # "fine" => <<host[r], key[r], 1>> \in refused'
        BY <2>3, <3>3 DEF CountRefusal
      <4> QED BY <2>0, <2>1, <3>3, <4>1, <4>2, <4>3, <4>4 DEF CountsAreRefusals
    <3> QED BY <2>0, <3>1, <3>2, <3>3
  <2> QED BY <2>2, <2>5, <2>6
<1>3. ASSUME NEW r \in Callers, SaveGeneration(r) PROVE EarnInv'
  <2>0. /\ pc[r] = "saving" /\ host[r] \in Hosts /\ Slot(r) = SlotOf[host[r]]
        /\ UNCHANGED <<host, key, blocks, generation, refused>>
        /\ pc' = [pc EXCEPT ![r] = "page"]
        /\ retired' = retired \cup {Retirement(r)}
    BY <1>3 DEF SaveGeneration, CallShape, Slot, Goto
  <2>1. SavingsAreEarned'
    BY <2>0 DEF SavingsAreEarned, CallShape
  <2>2. RotationsAreEarned'
    <3>1. Retirement(r).slot = Slot(r) /\ Retirement(r).generation = key[r]
      BY DEF Retirement
    <3>2. <<host[r], key[r], 2>> \in refused
      BY <2>0 DEF SavingsAreEarned
    <3>3. ASSUME NEW x \in retired'
          PROVE  \E h \in Hosts : SlotOf[h] = x.slot /\ <<h, x.generation, 2>> \in refused
      BY <2>0, <3>1, <3>2 DEF RotationsAreEarned
    <3> QED BY <2>0, <3>3 DEF RotationsAreEarned
  <2> QED BY <2>0, <2>1, <2>2 DEF CountsAreRefusals
<1>4. CASE Restart
  BY <1>4 DEF Restart, CountsAreRefusals, SavingsAreEarned, RotationsAreEarned
<1>5. CASE UNCHANGED <<identityVars, callVars, boundVars, reachable>>
  BY <1>5 DEF CountsAreRefusals, SavingsAreEarned, RotationsAreEarned, identityVars,
              callVars
<1> QED BY <1>1, <1>2, <1>3, <1>4, <1>5, StepCases, OtherSteps

-----------------------------------------------------------------------------
LEMMA KeptByWaiting ==
  RetirementsAreKept <=> \A x \in retired \ settled : Waits(x)
BY DEF RetirementsAreKept, Waits, Elems

LEMMA RetirementsKept ==
  ASSUME CallShape, RetireShape, RetirementsAreKept, [Next]_vars
  PROVE  RetirementsAreKept'
<1>0. \A x \in retired \ settled : Waits(x)
  BY KeptByWaiting
<1> SUFFICES ASSUME NEW x \in retired' \ settled' PROVE Waits(x)'
  BY DEF RetirementsAreKept, Waits, Elems
<1>1. ASSUME UNCHANGED <<retireVars, retired>> PROVE Waits(x)'
  BY <1>0, <1>1 DEF retireVars, Waits
<1>2. ASSUME NEW r \in Callers, Calling(r), ~ SaveGeneration(r)
      PROVE  UNCHANGED <<retireVars, retired>>
  BY <1>2, QuietCalls DEF identityVars, Answer
<1>3. ASSUME NEW r \in Callers, SaveGeneration(r) PROVE Waits(x)'
  <2> DEFINE new == [todo |-> Append(pending, Retirement(r)), failed |-> <<>>]
  <2>1. /\ batches' = batches \cup {new} /\ settled' = settled
        /\ retired' = retired \cup {Retirement(r)}
    BY <1>3 DEF SaveGeneration
  <2>2. Elems(new.todo) = Elems(pending) \cup {Retirement(r)}
    <3>1. /\ Slot(r) \in IdentitySlots /\ key[r] \in Nat /\ at[r] \in Nodes
      BY <1>3, BrowserClientAssumption DEF SaveGeneration, CallShape, Slot, Nodes
    <3>2. Retirement(r) \in Retirements
      BY <3>1 DEF Retirement, Retirements
    <3> QED BY <3>2, AppendElems DEF RetireShape
  <2> HIDE DEF new
  <2>3. x = Retirement(r) \/ Waits(x)
    BY <1>0, <2>1
  <2> QED BY <2>1, <2>2, <2>3 DEF Waits
<1>4. CASE Retire
  <2>1. PICK b \in batches, ok \in BOOLEAN : Deletes(b, Head(b.todo), ok)
    BY <1>4 DEF Retire
  <2>2. retired' = retired
    BY <1>4 DEF Retire, identityVars
  <2>3. settled \subseteq settled' /\ (Waits(x) => Waits(x)' \/ x \in settled')
    BY <2>1, DeletesKeeps
  <2> QED BY <1>0, <2>2, <2>3
<1>5. CASE Restart
  BY <1>5 DEF Restart
<1>6. CASE \/ CreateSession \/ CloseSession \/ ExpireSession
           \/ (\E n \in Nodes : Recover(n)) \/ UNCHANGED vars
  <2>1. UNCHANGED <<retireVars, retired>>
    BY <1>6 DEF CreateSession, CloseSession, ExpireSession, Recover, identityVars, vars
  <2> QED BY <1>1, <2>1
<1> QED BY <1>1, <1>2, <1>3, <1>4, <1>5, <1>6, StepCases

-----------------------------------------------------------------------------
\* A render on its second node has left another one that cannot be reached.
TriesOther(r) ==
  pc[r] \in {"wait", "on"} =>
    /\ tries[r] \in {1, 2}
    /\ tries[r] = 2 => \E m \in Nodes \ reachable : m # at[r]
Served(r) ==
  pc[r] = "page" /\ page[r] = "unavailable" =>
    reachable = {} \/ Cardinality(Nodes \ reachable) >= 2
SecondTries == \A r \in Callers : TriesOther(r)
TryInv == SecondTries /\ OneGoodNodeServes

LEMMA TwoNodes ==
  ASSUME NEW m \in Nodes \ reachable, NEW n \in Nodes \ reachable, m # n
  PROVE  Cardinality(Nodes \ reachable) >= 2
<1>1. IsFiniteSet(Nodes \ reachable)
  <2>1. 0 \in Int /\ NodeCount - 1 \in Int
    BY BrowserClientAssumption
  <2>2. IsFiniteSet(Nodes)
    BY <2>1, FS_Interval DEF Nodes
  <2> QED BY <2>2, FS_Subset
<1>2. Cardinality({m, n}) = 2
  <2>1. Cardinality({m}) = 1 /\ IsFiniteSet({m})
    BY FS_Singleton
  <2>2. {m, n} = {m} \cup {n} /\ n \notin {m}
    OBVIOUS
  <2> QED BY <2>1, <2>2, FS_AddElement
<1>3. Cardinality({m, n}) <= Cardinality(Nodes \ reachable)
  BY <1>1, FS_Subset
<1> QED BY <1>1, <1>2, <1>3, FS_CardinalityType

LEMMA TryInvKept ==
  ASSUME CallShape, NodeShape, SavingsAlone, TryInv, [Next]_vars
  PROVE  TryInv'
<1> USE DEF TryInv, CallShape
<1> DEFINE Fine(r) == TriesOther(r)' /\ Served(r)'
<1>0. \A r \in Callers : at[r] \in Nodes /\ TriesOther(r) /\ Served(r)
  <2>1. 0 \in Nodes
    BY BrowserClientAssumption DEF Nodes
  <2>2. \A r \in Callers : Served(r)
    BY DEF OneGoodNodeServes, Served
  <2> QED BY <2>1, <2>2 DEF SecondTries
<1>2. ASSUME NEW r \in Callers, Fine(r), reachable' = reachable,
             \A o \in Callers \ {r} : /\ pc'[o] = pc[o] /\ at'[o] = at[o]
                                     /\ tries'[o] = tries[o] /\ page'[o] = page[o]
      PROVE  TryInv'
  <2>1. ASSUME NEW o \in Callers PROVE Fine(o)
    BY <1>0, <1>2 DEF TriesOther, Served
  <2> QED BY <2>1 DEF SecondTries, OneGoodNodeServes, Served
<1> USE DEF TriesOther, Served
<1>3. ASSUME NEW r \in Callers, Calling(r), ~ Unreached(r), ~ Start(r), ~ SaveGeneration(r)
      PROVE  Fine(r)
  <2>1. CASE Call(r) \/ OnlyMoves(r)
    BY <2>1 DEF Call, OnlyMoves, Return, Goto
  <2>2. CASE Enter(r)
    BY <1>0, <2>2 DEF Enter, Goto
  <2>3. CASE DeadlinePasses(r) \/ ServiceError(r)
    BY <2>3 DEF DeadlinePasses, ServiceError, End, Goto
  <2>4. CASE Answer(r)
    <3>1. /\ pc'[r] \in {"saving", "page"} /\ page'[r] \in PageKinds
      BY <2>4 DEF Answer, Goto, Workload
    <3> QED BY <3>1 DEF PageKinds
  <2> QED BY <1>3, <2>1, <2>2, <2>3, <2>4 DEF Calling
<1>4. ASSUME NEW r \in Callers, Start(r) PROVE Fine(r)
  <2>1. Up = {} => reachable = {}
    BY DEF Up, NodeShape
  <2> QED BY <1>4, <2>1 DEF Start, End, Goto
<1>5. ASSUME NEW r \in Callers, Unreached(r) PROVE Fine(r)
  <2>1. /\ pc[r] = "on" /\ at[r] \in Nodes \ reachable /\ tries[r] \in {1, 2}
        /\ reachable' = reachable
    BY <1>0, <1>5 DEF Unreached
  <2>2. CASE tries[r] = 1 /\ Up \ {at[r]} # {}
    <3>1. NextNode(at[r]) # at[r]
      BY <2>1, <2>2, NodesAreThere
    <3>2. pc'[r] = "wait" /\ tries'[r] = 2 /\ at'[r] = NextNode(at[r])
      BY <1>5, <2>2 DEF Unreached, Goto
    <3> QED BY <2>1, <3>1, <3>2
  <2>3. CASE tries[r] = 1 /\ Up \ {at[r]} = {}
    <3>1. reachable = {}
      BY <2>1, <2>3 DEF Up, NodeShape
    <3>2. pc'[r] = "page"
      BY <1>5, <2>3 DEF Unreached, End, Goto
    <3> QED BY <2>1, <3>1, <3>2
  <2>4. CASE tries[r] = 2
    <3>1. PICK m \in Nodes \ reachable : m # at[r]
      BY <1>0, <2>1, <2>4
    <3>2. Cardinality(Nodes \ reachable) >= 2
      BY <2>1, <3>1, TwoNodes
    <3>3. pc'[r] = "page"
      BY <1>5, <2>4 DEF Unreached, End, Goto
    <3> QED BY <2>1, <3>2, <3>3
  <2> QED BY <2>1, <2>2, <2>3, <2>4
<1>6. ASSUME NEW r \in Callers, SaveGeneration(r) PROVE Fine(r)
  <2>1. pc[r] = "saving" /\ page[r] \in PageKinds
    BY <1>6 DEF SaveGeneration, SavingsAlone, Saving
  <2>2. pc'[r] = "page" /\ page' = page
    BY <1>6 DEF SaveGeneration, Goto
  <2> QED BY <2>1, <2>2 DEF PageKinds
<1> HIDE DEF Fine
<1>7. ASSUME NEW r \in Callers, Calling(r) PROVE TryInv'
  <2>1. reachable' = reachable
    BY <1>7 DEF Calling, Call, OnlyMoves, Start, Enter, Unreached, DeadlinePasses,
                ServiceError, Answer, SaveGeneration
  <2>2. \A o \in Callers \ {r} : /\ pc'[o] = pc[o] /\ at'[o] = at[o]
                                /\ tries'[o] = tries[o] /\ page'[o] = page[o]
    BY <1>7, QuietCalls DEF Answer, SaveGeneration, Goto
  <2>3. Fine(r)
    BY <1>3, <1>4, <1>5, <1>6, <1>7
  <2> QED BY <1>2, <2>1, <2>2, <2>3
<1>8. CASE Restart
  BY <1>8 DEF Restart, SecondTries, OneGoodNodeServes
<1>9. CASE UNCHANGED <<identityVars, callVars, boundVars, reachable>>
  BY <1>9 DEF SecondTries, OneGoodNodeServes, callVars
<1> QED BY <1>7, <1>8, <1>9, StepCases, OtherSteps

-----------------------------------------------------------------------------
\* A node's slots: only Enter takes one, and only while one is free.
SlotsHold == \A n \in Nodes : Cardinality(Holders(n)) <= NodeSlots

LEMMA HoldersAreFinite ==
  ASSUME NEW n
  PROVE  IsFiniteSet(Holders(n)) /\ Cardinality(Holders(n)) \in Nat
<1>1. Holders(n) \subseteq Callers /\ IsFiniteSet(Callers)
  BY BrowserClientAssumption DEF Holders
<1> QED BY <1>1, FS_Subset, FS_CardinalityType

\* A caller that neither waits for a slot nor has one after its step.
LEMMA OnlyEnterTakesASlot ==
  ASSUME CallShape, NEW r \in Callers, Calling(r), ~ Enter(r)
  PROVE  pc'[r] # "on" /\ \A o \in Callers \ {r} : pc'[o] = pc[o] /\ at'[o] = at[o]
<1>1. \A o \in Callers \ {r} : pc'[o] = pc[o] /\ at'[o] = at[o]
  BY QuietCalls DEF Answer, SaveGeneration, Goto, CallShape
<1>2. pc'[r] # "on"
  <2> USE DEF CallShape, Goto, End
  <2>1. CASE Call(r) \/ OnlyMoves(r)
    BY <2>1 DEF Call, OnlyMoves, Return
  <2>2. CASE Start(r) \/ Unreached(r) \/ DeadlinePasses(r) \/ ServiceError(r)
    BY <2>2 DEF Start, Unreached, DeadlinePasses, ServiceError
  <2>3. CASE Answer(r) \/ SaveGeneration(r)
    BY <2>3 DEF Answer, SaveGeneration
  <2> QED BY <2>1, <2>2, <2>3 DEF Calling
<1> QED BY <1>1, <1>2

LEMMA SlotsHoldKept ==
  ASSUME CallShape, SlotsHold, [Next]_vars
  PROVE  SlotsHold'
<1>1. ASSUME \A n \in Nodes : Holders(n)' \subseteq Holders(n) PROVE SlotsHold'
  <2> SUFFICES ASSUME NEW n \in Nodes PROVE Cardinality(Holders(n)') <= NodeSlots
    BY DEF SlotsHold
  <2>1. /\ IsFiniteSet(Holders(n)) /\ Holders(n)' \in SUBSET Holders(n)
        /\ Cardinality(Holders(n)) \in Nat /\ Cardinality(Holders(n)) <= NodeSlots
    BY <1>1, HoldersAreFinite DEF SlotsHold
  <2>2. Cardinality(Holders(n)') <= Cardinality(Holders(n)) /\ IsFiniteSet(Holders(n)')
    BY <2>1, FS_Subset
  <2>3. Cardinality(Holders(n)') \in Nat
    BY <2>2, FS_CardinalityType
  <2> QED BY <2>1, <2>2, <2>3, BrowserClientAssumption
<1>2. ASSUME NEW r \in Callers, Calling(r), ~ Enter(r) PROVE SlotsHold'
  BY <1>1, <1>2, OnlyEnterTakesASlot DEF Holders
<1>3. ASSUME NEW r \in Callers, Enter(r) PROVE SlotsHold'
  <2> SUFFICES ASSUME NEW n \in Nodes PROVE Cardinality(Holders(n)') <= NodeSlots
    BY DEF SlotsHold
  <2>1. /\ Cardinality(Holders(at[r])) < NodeSlots
        /\ Holders(n)' = IF n = at[r] THEN Holders(n) \cup {r} ELSE Holders(n)
    BY <1>3 DEF Enter, Goto, Holders, CallShape
  <2>2. /\ IsFiniteSet(Holders(n)) /\ Cardinality(Holders(n)) \in Nat
        /\ Cardinality(Holders(n)) <= NodeSlots
    BY HoldersAreFinite DEF SlotsHold
  <2>3. Cardinality(Holders(n) \cup {r}) \in {Cardinality(Holders(n)), Cardinality(Holders(n)) + 1}
    BY <2>2, FS_AddElement
  <2> QED BY <2>1, <2>2, <2>3, BrowserClientAssumption
<1>4. CASE Restart
  <2>1. \A n \in Nodes : Holders(n)' = {}
    BY <1>4 DEF Restart, Holders
  <2> QED BY <1>1, <2>1
<1>5. CASE UNCHANGED <<identityVars, callVars, boundVars, reachable>>
  BY <1>1, <1>5 DEF Holders, callVars
<1> QED BY <1>2, <1>3, <1>4, <1>5, StepCases, OtherSteps

-----------------------------------------------------------------------------
\* The backlog: what failed is pending again, cut to the newest MaxPending.
Backlog == Len(pending) <= MaxPending /\ settled \subseteq Retirements

LEMMA DeletesFits ==
  ASSUME RetireShape, Backlog, NEW b \in batches, NEW ok \in BOOLEAN,
         Deletes(b, Head(b.todo), ok)
  PROVE  Backlog'
<1> DEFINE x == Head(b.todo)
           failed == IF ok THEN b.failed ELSE Append(b.failed, x)
<1>1. x \in Retirements /\ failed \in Seq(Retirements)
  BY HeadTailElems, AppendElems DEF RetireShape, Batches
<1>2. Kept(failed) \in Seq(Retirements)
  BY <1>1, ConcatElems DEF Kept, RetireShape
<1>3. /\ Len(Newest(Kept(failed))) <= MaxPending
      /\ GivenUp(Kept(failed)) \subseteq Retirements
  BY <1>2, NewestElems
<1>4. /\ pending' \in {pending, Newest(Kept(failed))}
      /\ settled' \subseteq settled \cup {x} \cup GivenUp(Kept(failed))
  BY DEF Deletes
<1> QED BY <1>1, <1>3, <1>4 DEF Backlog

LEMMA BacklogKept ==
  ASSUME CallShape, RetireShape, Backlog, [Next]_vars
  PROVE  Backlog'
<1>1. ASSUME UNCHANGED <<pending, settled>> PROVE Backlog'
  BY <1>1 DEF Backlog
<1>2. ASSUME NEW r \in Callers, Calling(r), ~ SaveGeneration(r)
      PROVE  UNCHANGED <<pending, settled>>
  BY <1>2, QuietCalls DEF retireVars, Answer
<1>3. CASE (\E r \in Callers : SaveGeneration(r)) \/ Restart
  <2>1. pending' = <<>> /\ (settled' = settled \/ settled' = {})
    BY <1>3 DEF SaveGeneration, Restart
  <2> QED BY <2>1, EmptySeq, BrowserClientAssumption DEF Backlog
<1>4. CASE Retire
  BY <1>4, DeletesFits DEF Retire
<1>5. CASE \/ CreateSession \/ CloseSession \/ ExpireSession
           \/ (\E n \in Nodes : Recover(n)) \/ UNCHANGED vars
  BY <1>1, <1>5 DEF CreateSession, CloseSession, ExpireSession, Recover, retireVars, vars
<1> QED BY <1>1, <1>2, <1>3, <1>4, <1>5, StepCases

-----------------------------------------------------------------------------
Shape == CallShape /\ SlotShape /\ RetireShape /\ NodeShape /\ SessionShape
ClientInv ==
  /\ Shape /\ SaveInv /\ EarnInv /\ TryInv /\ RetirementsAreKept
  /\ SessionStaysReachable /\ SlotsHold /\ Backlog

LEMMA InitEstablishesInv == SolverInit => ClientInv
<1> SUFFICES ASSUME SolverInit PROVE ClientInv
  OBVIOUS
<1> USE DEF SolverInit, Init
<1>1. CallShape
  BY BrowserClientAssumption DEF CallShape, Pcs, Outcomes
<1>2. SlotShape /\ NodeShape /\ SessionShape
  BY DEF SlotShape, NodeShape, SessionShape
<1>3. RetireShape
  BY EmptySeq DEF RetireShape
<1>4. SaveInv
  BY DEF SaveInv, SavingsAlone, RowsFollow, RetiredIsPersisted, Saving
<1>5. EarnInv
  BY DEF EarnInv, CountsAreRefusals, SavingsAreEarned, RotationsAreEarned
<1>6. TryInv
  BY DEF TryInv, SecondTries, TriesOther, OneGoodNodeServes
<1>7. RetirementsAreKept /\ SessionStaysReachable
  BY DEF RetirementsAreKept, SessionStaysReachable
<1>8. SlotsHold /\ Backlog
  <2>1. \A n \in Nodes : Holders(n) = {}
    BY DEF Holders
  <2>2. 0 <= NodeSlots /\ 0 <= MaxPending
    BY BrowserClientAssumption
  <2>3. \A n \in Nodes : Cardinality(Holders(n)) = 0
    BY <2>1, FS_EmptySet, Zenon
  <2>4. Len(pending) = 0 /\ settled = {}
    OBVIOUS
  <2> QED BY <2>2, <2>3, <2>4 DEF SlotsHold, Backlog
<1> QED BY <1>1, <1>2, <1>3, <1>4, <1>5, <1>6, <1>7, <1>8 DEF ClientInv, Shape

LEMMA NextKeepsInv == ClientInv /\ [Next]_vars => ClientInv'
<1> SUFFICES ASSUME ClientInv, [Next]_vars PROVE ClientInv'
  OBVIOUS
<1> USE DEF ClientInv, Shape
<1>1. Shape'
  BY CallShapeKept, SlotShapeKept, RetireShapeKept, NodeShapeKept, SessionKept
<1>2. SaveInv' /\ EarnInv' /\ RetirementsAreKept' /\ SessionStaysReachable'
  BY SaveInvKept, EarnInvKept, RetirementsKept, SessionKept
<1>3. TryInv'
  BY TryInvKept DEF SaveInv
<1>4. SlotsHold' /\ Backlog'
  BY SlotsHoldKept, BacklogKept
<1> QED BY <1>1, <1>2, <1>3, <1>4

LEMMA InvHolds == Spec => []ClientInv
BY InitEstablishesInv, NextKeepsInv, PTL DEF Spec

\* No node is given more renders than it has slots, and no more retirements wait
\* than the client keeps (Client.renderOn, Client.retire).
THEOREM NodesAreNotOverrun == Spec => []TypeOK
<1>1. ClientInv => TypeOK
  <2> SUFFICES ASSUME ClientInv PROVE TypeOK
    OBVIOUS
  <2>1. 0 \in Nodes
    BY BrowserClientAssumption DEF Nodes
  <2>2. CallShape /\ SlotShape /\ RetireShape /\ NodeShape /\ SessionShape
    BY DEF ClientInv, Shape
  <2>3. SlotsHold /\ Backlog
    BY DEF ClientInv
  <2> QED BY <2>1, <2>2, <2>3
      DEF TypeOK, CallShape, SlotShape, RetireShape, NodeShape, SessionShape, SlotsHold,
          Backlog
<1> QED BY <1>1, InvHolds, PTL

\* An identity is retired only after a host blocked two renders made under it,
\* whatever answers come late (Identities.observe).
THEOREM EveryRotationIsEarned == Spec => []RotationsAreEarned
<1>1. ClientInv => RotationsAreEarned
  BY DEF ClientInv, EarnInv
<1> QED BY <1>1, InvHolds, PTL

\* A retired identity's next generation is in the table before the deletion is
\* sent, unless a save failed (Client.observe).
THEOREM EveryRetiredIsPersisted == Spec => []RetiredIsPersisted
<1>1. ClientInv => RetiredIsPersisted
  BY DEF ClientInv, SaveInv
<1> QED BY <1>1, InvHolds, PTL

\* No deletion is forgotten while the process runs (Client.retire).
THEOREM NoRetirementIsLost == Spec => []RetirementsAreKept
<1>1. ClientInv => RetirementsAreKept
  BY DEF ClientInv
<1> QED BY <1>1, InvHolds, PTL

\* One node that answers is enough, unless two others fail (Client.renderAnywhere).
THEOREM OneNodeIsEnough == Spec => []OneGoodNodeServes
<1>1. ClientInv => OneGoodNodeServes
  BY DEF ClientInv, TryInv
<1> QED BY <1>1, InvHolds, PTL

\* An open login session is where CloseSession looks for it (Client.CloseSession).
THEOREM SessionsStayReachable == Spec => []SessionStaysReachable
<1>1. ClientInv => SessionStaysReachable
  BY DEF ClientInv
<1> QED BY <1>1, InvHolds, PTL
-----------------------------------------------------------------------------
\* A call at p, of kind k, that has started n loads and tries the current one for
\* the t-th time.  A challenge is solved after the first load only.
Rendering == {"start", "wait", "on", "saving", "page"}
CallIsSound(p, k, t, n) ==
  /\ n \in 0..2 /\ t \in 0..2
  /\ p \in Rendering => n # 0
  /\ p \in {"wait", "on"} => t # 0
  /\ p = "bootstrap" => k = "cloudflare"
  /\ p \in {"create", "poll"} => k = "cloudflare" \/ n = 1
  /\ p = "submit" => n = 1

\* How many steps are still before that call, at most.
Left(p, t, n) ==
  IF p \in Rendering
  THEN (IF n = 1 THEN 11 ELSE 0)
       + (IF p = "start" THEN 7 ELSE IF p = "wait" THEN (IF t = 1 THEN 6 ELSE 4)
          ELSE IF p = "on" THEN (IF t = 1 THEN 5 ELSE 3) ELSE IF p = "saving" THEN 2 ELSE 1)
  ELSE IF p = "bootstrap" THEN 12 ELSE IF p = "create" THEN 11 ELSE IF p = "poll" THEN 10
  ELSE IF p \in {"submit", "handoff"} THEN 9 ELSE 0

CallsAreSound ==
  /\ loads \in [Callers -> 0..2]
  /\ \A r \in Callers : CallIsSound(pc[r], kind[r], tries[r], loads[r])

\* A step of a call brings it nearer to its end, and nothing else takes it back.
StepsLeft(r) == Left(pc[r], tries[r], loads[r])
CallGoesForward(r) ==
  /\ Step(r) => StepsLeft(r)' < StepsLeft(r)
  /\ pc[r] # "idle" => StepsLeft(r)' <= StepsLeft(r)
CallsGoForward == [][\A r \in Callers : CallGoesForward(r)]_vars

\* Only the call of r changes, to one that is sound and has fewer steps left.
Advances(r) ==
  /\ \A o \in Callers \ {r} : /\ pc'[o] = pc[o] /\ kind'[o] = kind[o]
                              /\ tries'[o] = tries[o] /\ loads'[o] = loads[o]
  /\ loads' \in [Callers -> 0..2]
  /\ CallIsSound(pc'[r], kind'[r], tries'[r], loads'[r])
  /\ StepsLeft(r)' < StepsLeft(r)

LEMMA MovedCall ==
  ASSUME CallShape, CallsAreSound, NEW r \in Callers, NEW l \in Pcs, NEW t \in 0..2, NEW n \in 0..2,
         Goto(r, l), kind' = kind, tries' = [tries EXCEPT ![r] = t], loads' = [loads EXCEPT ![r] = n],
         CallIsSound(l, kind[r], t, n), Left(l, t, n) < Left(pc[r], tries[r], loads[r])
  PROVE  Advances(r)
<1>1. /\ pc \in [Callers -> Pcs] /\ tries \in [Callers -> 0..2] /\ loads \in [Callers -> 0..2]
  BY DEF CallShape, CallsAreSound
<1>2. /\ pc'[r] = l /\ tries'[r] = t /\ loads'[r] = n /\ loads' \in [Callers -> 0..2]
      /\ \A o \in Callers \ {r} : pc'[o] = pc[o] /\ tries'[o] = tries[o] /\ loads'[o] = loads[o]
  BY <1>1 DEF Goto
<1>3. StepsLeft(r)' = Left(l, t, n) /\ StepsLeft(r) = Left(pc[r], tries[r], loads[r])
  BY <1>2 DEF StepsLeft, Left
<1> QED BY <1>2, <1>3 DEF Advances

\* A step that keeps its call's tries and loads, or ends it.
LEMMA MovedOnly ==
  ASSUME CallShape, CallsAreSound, NEW r \in Callers, NEW l \in Pcs, Goto(r, l),
         UNCHANGED <<kind, tries, loads>>, CallIsSound(l, kind[r], tries[r], loads[r]),
         Left(l, tries[r], loads[r]) < Left(pc[r], tries[r], loads[r])
  PROVE  Advances(r)
<1>1. /\ tries' = [tries EXCEPT ![r] = tries[r]] /\ loads' = [loads EXCEPT ![r] = loads[r]]
      /\ tries[r] \in 0..2 /\ loads[r] \in 0..2
  BY DEF CallShape, CallsAreSound
<1> QED BY <1>1, MovedCall

LEMMA FinishedCall ==
  ASSUME CallShape, CallsAreSound, NEW r \in Callers, Finish(r), pc[r] # "idle"
  PROVE  Advances(r)
<1>1. /\ pc \in [Callers -> Pcs] /\ kind \in [Callers -> CallKinds \cup {"none"}]
      /\ tries \in [Callers -> 0..2] /\ loads \in [Callers -> 0..2]
  BY DEF CallShape, CallsAreSound
<1>2. /\ pc'[r] = "idle" /\ tries'[r] = 0 /\ loads'[r] = 0 /\ loads' \in [Callers -> 0..2]
      /\ \A o \in Callers \ {r} : /\ pc'[o] = pc[o] /\ kind'[o] = kind[o]
                                  /\ tries'[o] = tries[o] /\ loads'[o] = loads[o]
  BY <1>1 DEF Finish, Return, Goto
<1>3. CallIsSound(pc'[r], kind'[r], tries'[r], loads'[r])
  BY <1>2 DEF CallIsSound, Rendering
<1>4. StepsLeft(r)' = 0
  BY <1>2 DEF StepsLeft, Left, Rendering
<1>5. StepsLeft(r) > 0
  <2>1. pc[r] \in Pcs \ {"idle"}
    BY <1>1
  <2> QED BY <2>1 DEF StepsLeft, Left, Rendering, Pcs
<1> QED BY <1>2, <1>3, <1>4, <1>5 DEF Advances

LEMMA RenderAdvances ==
  ASSUME CallShape, CallsAreSound, NEW r \in Callers, Render(r)
  PROVE  Advances(r)
<1>1. /\ pc[r] \in Pcs /\ kind[r] \in CallKinds \cup {"none"} /\ tries[r] \in 0..2 /\ loads[r] \in 0..2
      /\ CallIsSound(pc[r], kind[r], tries[r], loads[r])
      /\ tries = [tries EXCEPT ![r] = tries[r]] /\ loads = [loads EXCEPT ![r] = loads[r]]
  BY DEF CallShape, CallsAreSound
<1>2. loads' = loads
  BY DEF Render
<1>3. CASE Start(r)
  <2>1. PICK l \in {"page", "wait"} :
          Goto(r, l) /\ kind' = kind /\ tries' = [tries EXCEPT ![r] = 1] /\ pc[r] = "start"
    BY <1>3 DEF Start, End
  <2>2. CallIsSound(l, kind[r], 1, loads[r]) /\ Left(l, 1, loads[r]) < Left(pc[r], tries[r], loads[r]) /\ l \in Pcs
    BY <1>1, <2>1 DEF CallIsSound, Left, Rendering, Pcs
  <2>3. loads' = [loads EXCEPT ![r] = loads[r]] /\ loads[r] \in 0..2 /\ 1 \in 0..2
    BY <1>1, <1>2
  <2> QED BY <2>1, <2>2, <2>3, MovedCall
<1>4. CASE Enter(r)
  <2>1. Goto(r, "on") /\ UNCHANGED <<kind, tries, loads>> /\ pc[r] = "wait" /\ "on" \in Pcs
    BY <1>2, <1>4 DEF Enter, Pcs
  <2>2. /\ CallIsSound("on", kind[r], tries[r], loads[r])
        /\ Left("on", tries[r], loads[r]) < Left(pc[r], tries[r], loads[r])
    BY <1>1, <2>1 DEF CallIsSound, Left, Rendering
  <2> QED BY <2>1, <2>2, MovedOnly
<1>5. CASE Unreached(r)
  <2>1. PICK l \in {"page", "wait"}, t \in {tries[r], 2} :
          /\ Goto(r, l) /\ kind' = kind /\ tries' = [tries EXCEPT ![r] = t] /\ pc[r] = "on"
          /\ l = "wait" => tries[r] = 1 /\ t = 2
    <3>1. CASE tries[r] = 1 /\ Up \ {at[r]} # {}
      BY <1>5, <3>1 DEF Unreached
    <3>2. CASE ~ (tries[r] = 1 /\ Up \ {at[r]} # {})
      BY <1>1, <1>5, <3>2 DEF Unreached, End
    <3> QED BY <3>1, <3>2
  <2>2. CallIsSound(l, kind[r], t, loads[r]) /\ Left(l, t, loads[r]) < Left(pc[r], tries[r], loads[r])
        /\ l \in Pcs /\ t \in 0..2
    BY <1>1, <2>1 DEF CallIsSound, Left, Rendering, Pcs
  <2> QED BY <1>1, <1>2, <2>1, <2>2, MovedCall
<1>6. ASSUME NEW l \in {"page", "saving"}, Goto(r, l), UNCHANGED <<kind, tries>>,
             pc[r] \in {"start", "wait", "on"} \/ (pc[r] = "saving" /\ l = "page")
      PROVE  Advances(r)
  <2>1. /\ CallIsSound(l, kind[r], tries[r], loads[r]) /\ l \in Pcs
        /\ Left(l, tries[r], loads[r]) < Left(pc[r], tries[r], loads[r])
    BY <1>1, <1>6 DEF CallIsSound, Left, Rendering, Pcs
  <2> QED BY <1>2, <1>6, <2>1, MovedOnly
<1>7. CASE DeadlinePasses(r) \/ ServiceError(r)
  BY <1>6, <1>7 DEF DeadlinePasses, ServiceError, End
<1>8. CASE Answer(r)
  <2>1. \E l \in {"page", "saving"} : Goto(r, l)
    BY <1>8 DEF Answer
  <2> QED BY <1>6, <1>8, <2>1 DEF Answer
<1>9. CASE SaveGeneration(r)
  BY <1>6, <1>9 DEF SaveGeneration
<1> QED BY <1>3, <1>4, <1>5, <1>7, <1>8, <1>9 DEF Render

LEMMA CallAdvances ==
  ASSUME CallShape, CallsAreSound, NEW r \in Callers, Step(r)
  PROVE  Advances(r)
<1>1. /\ pc[r] \in Pcs /\ kind[r] \in CallKinds \cup {"none"} /\ tries[r] \in 0..2 /\ loads[r] \in 0..2
      /\ CallIsSound(pc[r], kind[r], tries[r], loads[r])
      /\ tries = [tries EXCEPT ![r] = tries[r]]
  BY DEF CallShape, CallsAreSound
<1>2. CASE Render(r)
  BY <1>2, RenderAdvances
<1>3. ASSUME NEW l \in {"create", "poll", "submit", "handoff"}, Move(r, l),
             \/ l = "create" /\ ((pc[r] = "page" /\ loads[r] = 1) \/ pc[r] = "bootstrap")
             \/ l = "poll" /\ pc[r] = "create"
             \/ l = "submit" /\ pc[r] = "poll" /\ kind[r] # "cloudflare"
             \/ l = "handoff" /\ pc[r] = "poll"
      PROVE  Advances(r)
  <2>1. /\ CallIsSound(l, kind[r], tries[r], loads[r]) /\ l \in Pcs
        /\ Left(l, tries[r], loads[r]) < Left(pc[r], tries[r], loads[r])
    BY <1>1, <1>3 DEF CallIsSound, Left, Rendering, Pcs
  <2> QED BY <1>3, <2>1, MovedOnly DEF Move
<1>4. ASSUME Reload(r), pc[r] = "submit" \/ (pc[r] = "poll" /\ kind[r] # "cloudflare")
      PROVE  Advances(r)
  <2>1. loads[r] = 1
    BY <1>1, <1>4 DEF CallIsSound
  <2>2. /\ CallIsSound("start", kind[r], tries[r], 2) /\ "start" \in Pcs
        /\ Left("start", tries[r], 2) < Left(pc[r], tries[r], loads[r])
    BY <1>1, <1>4, <2>1 DEF CallIsSound, Left, Rendering, Pcs
  <2>3. /\ Goto(r, "start") /\ kind' = kind /\ tries' = [tries EXCEPT ![r] = tries[r]]
        /\ loads' = [loads EXCEPT ![r] = 2]
        /\ 2 \in 0..2 /\ tries[r] \in 0..2
    BY <1>1, <1>4, <2>1 DEF Reload
  <2> QED BY <2>2, <2>3, MovedCall
<1>5. CASE Settle(r)
  BY <1>3, <1>5, FinishedCall DEF Settle, Solvable
<1>6. CASE Bootstrap(r)
  BY <1>3, <1>6, FinishedCall DEF Bootstrap
<1>7. CASE CreateTask(r)
  BY <1>3, <1>7, FinishedCall DEF CreateTask
<1>8. CASE Ready(r)
  BY <1>3, <1>4, <1>8, FinishedCall DEF Ready
<1>9. CASE Submit(r)
  BY <1>4, <1>9, FinishedCall DEF Submit
<1>10. CASE Handoff(r)
  BY <1>10, FinishedCall DEF Handoff
<1> QED BY <1>2, <1>5, <1>6, <1>7, <1>8, <1>9, <1>10 DEF Step

LEMMA CallsKept ==
  ASSUME CallShape, CallsAreSound, [Next]_vars
  PROVE  CallsAreSound' /\ \A r \in Callers : CallGoesForward(r)
<1>1. /\ pc \in [Callers -> Pcs] /\ kind \in [Callers -> CallKinds \cup {"none"}]
      /\ tries \in [Callers -> 0..2] /\ loads \in [Callers -> 0..2]
      /\ \A r \in Callers : CallIsSound(pc[r], kind[r], tries[r], loads[r])
  BY DEF CallShape, CallsAreSound
<1>2. \A r \in Callers : Step(r) => StepsLeft(r)' < StepsLeft(r)
  BY CallAdvances DEF Advances
<1>3. \A r \in Callers : StepsLeft(r) \in Nat
  <2> SUFFICES ASSUME NEW r \in Callers PROVE StepsLeft(r) \in Nat
    OBVIOUS
  <2>1. Left(pc[r], tries[r], loads[r]) \in Nat
    BY <1>1 DEF Left
  <2> QED BY <2>1 DEF StepsLeft
<1>4. CASE UNCHANGED <<pc, kind, tries, loads>>
  <2>1. CallsAreSound'
    BY <1>4 DEF CallsAreSound
  <2>2. \A r \in Callers : StepsLeft(r)' = StepsLeft(r)
    BY <1>4 DEF StepsLeft, Left
  <2> QED BY <1>2, <1>3, <2>1, <2>2 DEF CallGoesForward
<1>5. ASSUME Restart, loads' = loads
      PROVE  CallsAreSound' /\ \A r \in Callers : CallGoesForward(r)
  <2>1. \A r \in Callers : pc'[r] = "idle" /\ tries'[r] = 0
    BY <1>5 DEF Restart
  <2>2. \A r \in Callers : CallIsSound(pc'[r], kind'[r], tries'[r], loads'[r])
    BY <1>1, <1>5, <2>1 DEF CallIsSound, Rendering
  <2>3. \A r \in Callers : StepsLeft(r)' = 0
    BY <2>1 DEF StepsLeft, Left, Rendering
  <2> QED BY <1>1, <1>2, <1>3, <1>5, <2>2, <2>3 DEF CallsAreSound, CallGoesForward
<1>6. ASSUME NEW q \in Callers, Call(q)
      PROVE  CallsAreSound' /\ \A r \in Callers : CallGoesForward(r)
  <2>1. /\ pc[q] = "idle" /\ tries' = tries
        /\ \A o \in Callers \ {q} : pc'[o] = pc[o] /\ kind'[o] = kind[o] /\ loads'[o] = loads[o]
        /\ loads' \in [Callers -> 0..2]
        /\ \/ kind'[q] = "cloudflare" /\ pc'[q] = "bootstrap" /\ loads'[q] = 0
           \/ pc'[q] = "start" /\ loads'[q] = 1
    BY <1>1, <1>6 DEF Call, Goto
  <2>2. \A r \in Callers : CallIsSound(pc'[r], kind'[r], tries'[r], loads'[r])
    <3>1. CallIsSound(pc'[q], kind'[q], tries'[q], loads'[q])
      BY <1>1, <2>1 DEF CallIsSound, Rendering
    <3>2. \A o \in Callers \ {q} : CallIsSound(pc'[o], kind'[o], tries'[o], loads'[o])
      BY <1>1, <2>1
    <3> QED BY <3>1, <3>2
  <2>3. \A o \in Callers \ {q} : StepsLeft(o)' = StepsLeft(o)
    BY <2>1 DEF StepsLeft, Left
  <2> QED BY <1>2, <1>3, <2>1, <2>2, <2>3 DEF CallsAreSound, CallGoesForward
<1>7. ASSUME NEW q \in Callers, Step(q)
      PROVE  CallsAreSound' /\ \A r \in Callers : CallGoesForward(r)
  <2>1. Advances(q)
    BY <1>7, CallAdvances
  <2>2. /\ loads' \in [Callers -> 0..2]
        /\ \A r \in Callers : CallIsSound(pc'[r], kind'[r], tries'[r], loads'[r])
    BY <1>1, <2>1 DEF Advances
  <2>3. \A o \in Callers \ {q} : StepsLeft(o)' = StepsLeft(o)
    BY <2>1 DEF Advances, StepsLeft, Left
  <2>4. StepsLeft(q)' <= StepsLeft(q)
    <3>1. StepsLeft(q)' \in Nat
      <4>1. Left(pc'[q], tries'[q], loads'[q]) \in Nat
        BY DEF Left
      <4> QED BY <4>1 DEF StepsLeft, Left
    <3> QED BY <1>3, <2>1, <3>1 DEF Advances
  <2> QED BY <1>2, <1>3, <2>2, <2>3, <2>4 DEF CallsAreSound, CallGoesForward
<1>8. \/ UNCHANGED <<pc, kind, tries, loads>> \/ (Restart /\ loads' = loads)
      \/ \E q \in Callers : Call(q) \/ Step(q)
  BY DEF Next, Outside, RetireStep, Retire, CreateSession, CloseSession, ExpireSession, Recover,
         vars, callVars
<1> QED BY <1>4, <1>5, <1>6, <1>7, <1>8

LEMMA CallsHold == Spec => [](CallShape /\ CallsAreSound)
<1>1. SolverInit => CallsAreSound
  BY DEF SolverInit, Init, CallsAreSound, CallIsSound, Rendering
<1>2. ClientInv => CallShape
  BY DEF ClientInv, Shape
<1>3. CallShape /\ CallsAreSound /\ [Next]_vars => CallsAreSound'
  BY CallsKept
<1> QED BY <1>1, <1>2, <1>3, InvHolds, PTL DEF Spec

\* A call tries at most two nodes for a page and has at most one challenge solved,
\* after which it loads the page once more; so it takes at most eighteen steps, and
\* no other call, rotation, retirement or session makes it start over. What
\* EveryCallReturns needs besides is the fairness of those steps
\* (client.go renderAnywhere, solver.go render, capsolver.go Fetch).
THEOREM EveryCallGoesForward == Spec => []CallsAreSound /\ CallsGoForward
<1>1. ASSUME CallShape /\ CallsAreSound, [Next]_vars PROVE [\A r \in Callers : CallGoesForward(r)]_vars
  BY <1>1, CallsKept
<1> QED BY <1>1, CallsHold, PTL DEF Spec, CallsGoForward
=============================================================================
