---------------------------- MODULE WaterfallProofs ----------------------------
(***************************************************************************)
(* For any number of requests, hosts, restarts and failed writes: a        *)
(* clearance that was refused stays forgotten, its two copies agree, the   *)
(* loaders are tried in order, and a full browser defers its job.          *)
(***************************************************************************)
EXTENDS Waterfall, SequenceTheorems, TLAPS

\* A request of which something may be recorded, and one whose writes may meet.
Recorded == {r \in Requests : pc[r] \in {"save", "done", "lost"}}
Writing(r) == pc[r] \in {"forget", "save"}

MemoryShape ==
  /\ plan \in [Requests -> [kind : Kinds, host : Hosts]]
  /\ pc \in [Requests -> Pcs] /\ held \in [Requests -> SUBSET Requests]
  /\ clearances \subseteq Recorded /\ clearanceRows \subseteq Recorded
  /\ refuted \subseteq Recorded
  /\ \A r \in Requests : held[r] \subseteq Recorded \cap OfHost(HostOf(r))

\* A host none of whose writes failed or met another: at most one is under way,
\* memory is what it will leave in the table, and else they agree.
HostIsSound(h) ==
  h \notin spoiled =>
    /\ \A r, o \in OfHost(h) : Writing(r) /\ Writing(o) => r = o
    /\ \A r \in OfHost(h) : pc[r] = "forget" => Live(clearances, h) = {}
    /\ \A r \in OfHost(h) : pc[r] = "save" => Live(clearances, h) = {r} \ expired
    /\ (\A r \in OfHost(h) : ~ Writing(r)) => Live(clearances, h) = Live(clearanceRows, h)
HostsAreSound == \A h \in Hosts : HostIsSound(h)

MemoryInv == MemoryShape /\ HostsAreSound /\ RefutedStaysForgotten

\* A step of one request that begins or ends no write and at most drops what
\* has expired.
LEMMA QuietSteps ==
  ASSUME MemoryInv, NEW r \in Requests, NEW l \in Pcs, pc[r] \notin {"save", "done", "lost"},
         ~ Writing(r), l \notin {"forget", "save"}, pc' = [pc EXCEPT ![r] = l],
         clearances' \subseteq clearances, clearances \ expired = clearances' \ expired,
         \/ held' = held
         \/ held' = [held EXCEPT ![r] = Live(clearances, HostOf(r))]
         \/ held' = [held EXCEPT ![r] = {}],
         UNCHANGED <<plan, clearanceRows, expired, refuted, spoiled>>
  PROVE  MemoryInv'
<1> USE DEF MemoryInv, MemoryShape
<1>1. Recorded \subseteq Recorded'
  BY DEF Recorded
<1>2. \A h : OfHost(h)' = OfHost(h)
  BY DEF OfHost, HostOf
<1>3. \A o \in Requests : HostOf(o)' = HostOf(o) /\ (Writing(o)' <=> Writing(o))
                         /\ (pc'[o] = "forget" <=> pc[o] = "forget")
                         /\ (pc'[o] = "save" <=> pc[o] = "save")
  BY DEF HostOf, Writing
<1>4. \A h : /\ Live(clearances, h)' = Live(clearances, h)
             /\ Live(clearanceRows, h)' = Live(clearanceRows, h)
  BY <1>2 DEF Live
<1>5. HostsAreSound'
  <2>1. \A h : OfHost(h) \subseteq Requests
    BY DEF OfHost
  <2> QED BY <1>2, <1>3, <1>4, <2>1 DEF HostsAreSound, HostIsSound
<1>6. MemoryShape'
  <2>1. \A o \in Requests : held'[o] \subseteq Recorded \cap OfHost(HostOf(o))
    BY DEF Live
  <2>2. pc' \in [Requests -> Pcs] /\ held' \in [Requests -> SUBSET Requests]
    BY DEF Live, OfHost
  <2>3. \A o \in Requests : held'[o] \subseteq Recorded' \cap OfHost(HostOf(o))'
    BY <1>1, <1>2, <1>3, <2>1
  <2> QED BY <1>1, <2>2, <2>3
<1>7. RefutedStaysForgotten'
  BY DEF RefutedStaysForgotten
<1> QED BY <1>5, <1>6, <1>7

\* A request begins to write: it has changed the map, and will change the row.
LEMMA WriteBeginnings ==
  ASSUME MemoryInv, NEW r \in Requests, NEW l \in {"forget", "save"},
         pc[r] \notin {"save", "done", "lost"}, ~ Writing(r),
         pc' = [pc EXCEPT ![r] = l], WriteBegins(r),
         clearances' = IF l = "save" THEN Upsert(clearances, r)
                       ELSE Without(clearances, HostOf(r)),
         refuted' = IF l = "save" THEN refuted ELSE refuted \cup held[r],
         UNCHANGED <<plan, clearanceRows, expired, held>>
  PROVE  MemoryInv'
<1> USE DEF MemoryInv, MemoryShape
<1>1. Recorded \subseteq Recorded' /\ (l = "save" => r \in Recorded') /\ r \notin Recorded
  BY DEF Recorded
<1>2. \A h : OfHost(h)' = OfHost(h) /\ OfHost(h) \subseteq Requests
  BY DEF OfHost, HostOf
<1>3. /\ \A o \in Requests : HostOf(o)' = HostOf(o)
      /\ \A o \in Requests \ {r} : pc'[o] = pc[o] /\ (Writing(o)' <=> Writing(o))
      /\ Writing(r)' /\ pc'[r] = l
  BY DEF HostOf, Writing
<1>4. \A h : r \in OfHost(h) <=> HostOf(r) = h
  BY DEF OfHost
<1>5. \A h : h # HostOf(r) => OfHost(h) \cap OfHost(HostOf(r)) = {}
  BY DEF OfHost
<1>6. ASSUME NEW h \in Hosts, h # HostOf(r) PROVE HostIsSound(h)'
  <2>1. /\ Live(clearances, h)' = Live(clearances, h)
        /\ Live(clearanceRows, h)' = Live(clearanceRows, h)
    BY <1>2, <1>4, <1>5, <1>6 DEF Live, Upsert, Without
  <2>2. h \notin spoiled' => h \notin spoiled
    BY DEF WriteBegins
  <2>3. r \notin OfHost(h)
    BY <1>4, <1>6
  <2> QED BY <1>2, <1>3, <2>1, <2>2, <2>3 DEF HostsAreSound, HostIsSound
<1>7. ASSUME NEW h \in Hosts, h = HostOf(r) PROVE HostIsSound(h)'
  <2>1. Live(clearances, h)' = IF l = "save" THEN {r} \ expired ELSE {}
    BY <1>2, <1>4, <1>7 DEF Live, Upsert, Without
  <2>2. h \notin spoiled' => \A o \in OfHost(h) : ~ Writing(o)
    BY <1>7 DEF WriteBegins, Writers, Writing
  <2>3. r \in OfHost(h)
    BY <1>4, <1>7
  <2> QED BY <1>2, <1>3, <2>1, <2>2, <2>3 DEF HostIsSound, Writing
<1>8. MemoryShape'
  <2>1. clearances' \subseteq Recorded'
    BY <1>1 DEF Upsert, Without
  <2>2. refuted' \subseteq Recorded'
    BY <1>1
  <2>3. \A o \in Requests : held'[o] \subseteq Recorded' \cap OfHost(HostOf(o))'
    BY <1>1, <1>2, <1>3
  <2>4. pc' \in [Requests -> Pcs]
    BY DEF Pcs
  <2> QED BY <1>1, <2>1, <2>2, <2>3, <2>4
<1>9. RefutedStaysForgotten'
  <2>1. CASE l = "save"
    BY <1>1, <2>1 DEF RefutedStaysForgotten, Upsert
  <2>2. CASE l = "forget"
    BY <2>2 DEF RefutedStaysForgotten, Without
  <2> QED BY <2>1, <2>2
<1> QED BY <1>6, <1>7, <1>8, <1>9 DEF HostsAreSound

\* A request ends its write, of the row it may have saved.
LEMMA WriteEndings ==
  ASSUME MemoryInv, NEW r \in Requests, NEW l \in {"route", "done"}, NEW saved \in BOOLEAN,
         \/ pc[r] = "forget" \/ (pc[r] = "save" /\ l = "done"),
         pc' = [pc EXCEPT ![r] = l], WriteEnds(r, saved),
         clearanceRows' = IF ~ saved THEN clearanceRows
                          ELSE IF pc[r] = "save" THEN Upsert(clearanceRows, r)
                          ELSE Without(clearanceRows, HostOf(r)),
         UNCHANGED <<plan, clearances, refuted, expired, held>>
  PROVE  MemoryInv'
<1> USE DEF MemoryInv, MemoryShape
<1>1. Recorded \subseteq Recorded' /\ (pc[r] = "save" => r \in Recorded')
  BY DEF Recorded
<1>2. \A h : OfHost(h)' = OfHost(h) /\ OfHost(h) \subseteq Requests
  BY DEF OfHost, HostOf
<1>3. /\ \A o \in Requests : HostOf(o)' = HostOf(o)
      /\ \A o \in Requests \ {r} : pc'[o] = pc[o] /\ (Writing(o)' <=> Writing(o))
      /\ ~ Writing(r)' /\ pc'[r] = l /\ Writing(r)
  BY DEF HostOf, Writing
<1>4. \A h : r \in OfHost(h) <=> HostOf(r) = h
  BY DEF OfHost
<1>5. \A h : h # HostOf(r) => OfHost(h) \cap OfHost(HostOf(r)) = {}
  BY DEF OfHost
<1>6. ASSUME NEW h \in Hosts, h # HostOf(r) PROVE HostIsSound(h)'
  <2>1. /\ Live(clearances, h)' = Live(clearances, h)
        /\ Live(clearanceRows, h)' = Live(clearanceRows, h)
    BY <1>2, <1>4, <1>5, <1>6 DEF Live, Upsert, Without
  <2>2. h \notin spoiled' => h \notin spoiled
    BY DEF WriteEnds
  <2>3. r \notin OfHost(h)
    BY <1>4, <1>6
  <2> QED BY <1>2, <1>3, <2>1, <2>2, <2>3 DEF HostsAreSound, HostIsSound
<1>7. ASSUME NEW h \in Hosts, h = HostOf(r) PROVE HostIsSound(h)'
  <2>1. r \in OfHost(h)
    BY <1>4, <1>7
  <2>2. ASSUME h \notin spoiled'
        PROVE  /\ \A o \in OfHost(h) : ~ Writing(o)'
               /\ Live(clearances, h)' = Live(clearanceRows, h)'
    <3>1. saved /\ h \notin spoiled
      BY <1>7, <2>2 DEF WriteEnds
    <3>2. \A o \in OfHost(h) : ~ Writing(o)'
      BY <1>2, <1>3, <2>1, <3>1 DEF HostsAreSound, HostIsSound
    <3>3. Live(clearances, h)' = IF pc[r] = "save" THEN {r} \ expired ELSE {}
      BY <1>2, <1>3, <2>1, <3>1 DEF HostsAreSound, HostIsSound, Writing, Live
    <3>4. Live(clearanceRows, h)' = IF pc[r] = "save" THEN {r} \ expired ELSE {}
      BY <1>2, <1>7, <2>1, <3>1 DEF Live, Upsert, Without
    <3> QED BY <3>2, <3>3, <3>4
  <2> QED BY <1>2, <2>2 DEF HostIsSound, Writing
<1>8. MemoryShape'
  <2>1. clearanceRows' \subseteq Recorded'
    BY <1>1 DEF Upsert, Without
  <2>2. \A o \in Requests : held'[o] \subseteq Recorded' \cap OfHost(HostOf(o))'
    BY <1>1, <1>2, <1>3
  <2>3. pc' \in [Requests -> Pcs]
    BY DEF Pcs
  <2> QED BY <1>1, <2>1, <2>2, <2>3
<1>9. RefutedStaysForgotten'
  BY DEF RefutedStaysForgotten
<1> QED BY <1>6, <1>7, <1>8, <1>9 DEF HostsAreSound

LEMMA ExpireKeepsMemory ==
  ASSUME MemoryInv, NEW r \in Requests, Expire(r)
  PROVE  MemoryInv'
<1> USE DEF MemoryInv
<1>1. /\ expired' = expired \cup {r}
      /\ UNCHANGED <<plan, pc, held, clearances, clearanceRows, refuted, spoiled>>
  BY DEF Expire, memoryVars
<1>2. \A h : /\ OfHost(h)' = OfHost(h)
             /\ Live(clearances, h)' = Live(clearances, h) \ {r}
             /\ Live(clearanceRows, h)' = Live(clearanceRows, h) \ {r}
  BY <1>1 DEF OfHost, HostOf, Live
<1>3. ASSUME NEW h \in Hosts PROVE HostIsSound(h)'
  <2>1. \A o \in OfHost(h) : /\ Writing(o)' <=> Writing(o)
                            /\ ({o} \ expired)' = ({o} \ expired) \ {r}
    BY <1>1 DEF Writing
  <2>2. HostIsSound(h) /\ spoiled' = spoiled /\ pc' = pc
    BY <1>1 DEF HostsAreSound
  <2>3. ASSUME h \notin spoiled
        PROVE  /\ \A o \in OfHost(h) : pc[o] = "forget" => Live(clearances, h)' = {}
               /\ \A o \in OfHost(h) : pc[o] = "save" => Live(clearances, h)' = ({o} \ expired)'
               /\ (\A o \in OfHost(h) : ~ Writing(o)) =>
                     Live(clearances, h)' = Live(clearanceRows, h)'
    <3>1. \A o \in OfHost(h) : pc[o] = "forget" => Live(clearances, h)' = {}
      BY <1>2, <2>2, <2>3 DEF HostIsSound
    <3>2. \A o \in OfHost(h) : pc[o] = "save" => Live(clearances, h)' = ({o} \ expired)'
      BY <1>2, <2>1, <2>2, <2>3 DEF HostIsSound
    <3>3. (\A o \in OfHost(h) : ~ Writing(o)) => Live(clearances, h)' = Live(clearanceRows, h)'
      BY <1>2, <2>2, <2>3 DEF HostIsSound
    <3> QED BY <3>1, <3>2, <3>3
  <2>4. OfHost(h)' = OfHost(h)
    BY <1>2
  <2> QED BY <2>1, <2>2, <2>3, <2>4 DEF HostIsSound
<1>4. MemoryShape'
  BY <1>1 DEF MemoryShape, Recorded, OfHost, HostOf
<1> QED BY <1>1, <1>3, <1>4 DEF HostsAreSound, RefutedStaysForgotten

\* A clearance that is still in the table when a process starts was refused in
\* no replay the history remembers: its two copies agreed.
LEMMA RestartKeepsMemory ==
  ASSUME MemoryInv, Restart
  PROVE  MemoryInv'
<1> USE DEF MemoryInv
<1>1. /\ clearanceRows' = clearanceRows \ expired /\ clearances' = clearanceRows \ expired
      /\ pc' = [r \in Requests |-> IF pc[r] \in {"new", "done"} THEN pc[r] ELSE "lost"]
      /\ held' = [r \in Requests |-> {}]
      /\ refuted' = {c \in refuted : HostOf(c) \notin spoiled /\ Writers(HostOf(c)) = {}}
      /\ UNCHANGED <<plan, expired>>
  BY DEF Restart, RestoreClearances, Loaded
<1>2. Recorded \subseteq Recorded'
  BY <1>1 DEF Recorded
<1>3. MemoryShape'
  BY <1>1, <1>2 DEF MemoryShape, Pcs
<1>4. \A r \in Requests : ~ Writing(r)'
  BY <1>1 DEF Writing
<1>5. HostsAreSound'
  BY <1>1, <1>4 DEF HostsAreSound, HostIsSound, OfHost, Live, Writing
<1>6. ASSUME NEW c \in clearances', c \in refuted' PROVE FALSE
  <2>1. /\ c \in clearanceRows /\ c \notin expired /\ c \in refuted /\ c \in Requests
        /\ HostOf(c) \notin spoiled /\ Writers(HostOf(c)) = {}
    BY <1>1, <1>6 DEF MemoryShape, Recorded
  <2>2. HostOf(c) \in Hosts /\ c \in OfHost(HostOf(c))
    BY <2>1 DEF MemoryShape, HostOf, OfHost
  <2>3. \A r \in OfHost(HostOf(c)) : ~ Writing(r)
    BY <2>1 DEF Writers, Writing
  <2>4. Live(clearances, HostOf(c)) = Live(clearanceRows, HostOf(c))
    BY <2>1, <2>2, <2>3 DEF HostsAreSound, HostIsSound
  <2>5. c \in clearances
    BY <2>1, <2>2, <2>4 DEF Live
  <2> QED BY <2>1, <2>5 DEF RefutedStaysForgotten
<1> QED BY <1>3, <1>5, <1>6 DEF RefutedStaysForgotten

LEMMA StepKeepsMemory ==
  ASSUME MemoryInv, NEW r \in Requests, Begin(r) \/ Step(r)
  PROVE  MemoryInv'
<1>1. CASE Begin(r)
  <2>1. /\ clearances' \subseteq clearances /\ clearances \ expired = clearances' \ expired
        /\ \/ held' = [held EXCEPT ![r] = Live(clearances, HostOf(r))]
           \/ held' = [held EXCEPT ![r] = {}]
    BY <1>1 DEF Begin, Pruned
  <2>2. /\ pc[r] = "new" /\ UNCHANGED <<plan, clearanceRows, expired, refuted, spoiled>>
        /\ \E l \in {"done", "replay", "browser", "route"} : pc' = [pc EXCEPT ![r] = l]
    BY <1>1 DEF Begin, Return, Continue, Goto
  <2> QED BY <2>1, <2>2, QuietSteps DEF Writing, Pcs
<1>2. CASE Replay(r)
  <2>1. pc[r] = "replay" /\ UNCHANGED <<plan, clearanceRows, expired, held>>
    BY <1>2 DEF Replay
  <2>2. CASE pc' = [pc EXCEPT ![r] = "done"] /\ UNCHANGED <<clearances, refuted, spoiled>>
    BY <2>1, <2>2, QuietSteps DEF Writing, Pcs
  <2>3. CASE /\ pc' = [pc EXCEPT ![r] = "forget"] /\ WriteBegins(r)
             /\ clearances' = Without(clearances, HostOf(r))
             /\ refuted' = refuted \cup held[r]
    BY <2>1, <2>3, WriteBeginnings DEF Writing
  <2> QED BY <1>2, <2>2, <2>3 DEF Replay, Return, Continue, Goto
<1>3. CASE ForgetRow(r)
  BY <1>3, WriteEndings DEF ForgetRow, Continue, Goto
<1>4. CASE SkipTls(r) \/ Tls(r) \/ CapSolver(r)
  <2>1. /\ pc[r] \in {"route", "capsolver"}
        /\ UNCHANGED <<plan, clearances, clearanceRows, expired, held, refuted, spoiled>>
    BY <1>4 DEF SkipTls, Tls, CapSolver, NothingLearned
  <2>2. \E l \in {"done", "browser"} : pc' = [pc EXCEPT ![r] = l]
    BY <1>4 DEF SkipTls, Tls, CapSolver, TowardsBrowser, AfterLoad, AfterTls,
                AfterCapSolver, Return, Continue, Goto
  <2> QED BY <2>1, <2>2, QuietSteps DEF Writing, Pcs
<1>5. CASE Browser(r)
  <2>1. pc[r] = "browser" /\ UNCHANGED <<plan, clearanceRows, expired, held, refuted>>
    BY <1>5 DEF Browser
  <2>2. CASE /\ \E l \in {"done", "capsolver"} : pc' = [pc EXCEPT ![r] = l]
             /\ UNCHANGED <<clearances, spoiled>>
    BY <2>1, <2>2, QuietSteps DEF Writing, Pcs
  <2>3. CASE /\ pc' = [pc EXCEPT ![r] = "save"] /\ WriteBegins(r)
             /\ clearances' = Upsert(clearances, r)
    BY <2>1, <2>3, WriteBeginnings DEF Writing
  <2>4. PICK a \in Answers(r, "patchright") :
          IF Kind(r) \in Loads THEN AfterRender(r, a) ELSE AfterBrowser(r, a)
    BY <1>5 DEF Browser
  <2>5. CASE AfterRender(r, a)
    BY <2>2, <2>5 DEF AfterRender, NothingLearned, Return, Continue, Goto
  <2>6. CASE AfterBrowser(r, a)
    BY <2>2, <2>3, <2>6 DEF AfterBrowser, Learn, NothingLearned, Return, Continue, Goto
  <2> QED BY <2>4, <2>5, <2>6
<1>6. CASE SaveRow(r)
  BY <1>6, WriteEndings DEF SaveRow, Return, Goto
<1> QED BY <1>1, <1>2, <1>3, <1>4, <1>5, <1>6 DEF Step

LEMMA MemoryInvHolds == Spec => []MemoryInv
<1>1. ASSUME Init PROVE MemoryInv
  <2>1. plan \in [Requests -> [kind : Kinds, host : Hosts]]
    BY <1>1, WaterfallAssumption DEF Init
  <2> QED BY <1>1, <2>1
      DEF Init, MemoryInv, MemoryShape, HostsAreSound, HostIsSound, Live, Pcs, OfHost,
          Writing, RefutedStaysForgotten
<1>2. ASSUME MemoryInv, [Next]_vars PROVE MemoryInv'
  <2>1. CASE UNCHANGED vars
    BY <1>2, <2>1 DEF vars, memoryVars, MemoryInv, MemoryShape, HostsAreSound, HostIsSound,
       RefutedStaysForgotten, Recorded, OfHost, HostOf, Live, Writing
  <2> QED BY <1>2, <2>1, StepKeepsMemory, ExpireKeepsMemory, RestartKeepsMemory DEF Next
<1> QED BY <1>1, <1>2, PTL DEF Spec

\* A clearance whose replay was refused is never offered again, by no process
\* (Service.tryReplay, Clearances.Forget).
THEOREM RefutedIsForgotten == Spec => []RefutedStaysForgotten
<1>1. MemoryInv => RefutedStaysForgotten
  BY DEF MemoryInv
<1> QED BY <1>1, MemoryInvHolds, PTL

\* Memory and table hold the same live clearance of a host none of whose writes
\* failed or met another (Clearances.Record, Clearances.Forget).
THEOREM BothCopiesAgree == Spec => []CopiesAgree
<1>1. ASSUME MemoryInv PROVE CopiesAgree
  <2>1. \A h : Writers(h) = {} => \A r \in OfHost(h) : ~ Writing(r)
    BY DEF Writers, Writing
  <2> QED BY <1>1, <2>1 DEF MemoryInv, HostsAreSound, HostIsSound, CopiesAgree
<1> QED BY <1>1, MemoryInvHolds, PTL

-----------------------------------------------------------------------------
\* What a list of attempts says.
Reported == {"dead", "blocked", "retryable", "needs_render", "empty", "ok",
             "ended", "transport"} \cup Capacity
Attempt == [provider : Providers, outcome : Reported]
MadeIn(s) == {s[i].provider : i \in DOMAIN s}
OutcomesIn(s) == {s[i].outcome : i \in DOMAIN s}
Refused(s) == OutcomesIn(s) \cap Capacity # {}
Ordered(s) == \A i, j \in DOMAIN s : i < j => Position(s[i].provider) < Position(s[j].provider)

\* The loaders a request may have tried by the time it is at l.
TriedBy(l) ==
  IF l \in {"new", "replay"} THEN {}
  ELSE IF l \in {"forget", "route"} THEN {"replay"}
  ELSE IF l = "browser" THEN {"replay", "tls"}
  ELSE IF l = "capsolver" THEN {"replay", "tls", "patchright"}
  ELSE Providers

GivenUp(s) ==
  \/ s # <<>> /\ s[Len(s)] = [provider |-> "tls", outcome |-> "ok"]
  \/ /\ "patchright" \in MadeIn(s)
     /\ HasCapSolver => "capsolver" \in MadeIn(s)
     /\ "dead" \notin OutcomesIn(s)

\* A request of kind k at l that made the attempts s and has returned v.
Sound(k, l, s, v) ==
  /\ s \in Seq(Attempt) /\ Ordered(s) /\ MadeIn(s) \subseteq TriedBy(l)
  /\ l = "capsolver" => "patchright" \in MadeIn(s)
  /\ l # "done" => v = "none"
  /\ k \in {"extract", "browser"} /\ l \notin {"done", "lost"} => "dead" \notin OutcomesIn(s)
  /\ k = "browser" => l \notin {"replay", "forget", "route"} /\ (l = "browser" => s = <<>>)
  /\ k = "browser" /\ Refused(s) =>
       MadeIn(s) = {"patchright"} /\ l \in {"done", "lost"}
  /\ v = "capacity" => k = "browser" /\ Refused(s)
  /\ v = "failed" /\ k \in {"extract", "browser"} => GivenUp(s)

LoadInv ==
  /\ pc \in [Requests -> Pcs]
  /\ DOMAIN attempts = Requests /\ DOMAIN result = Requests /\ DOMAIN held = Requests
  /\ attempts = [r \in Requests |-> attempts[r]]
  /\ result = [r \in Requests |-> result[r]]
  /\ \A r \in Requests : Sound(Kind(r), pc[r], attempts[r], result[r])

\* The loaders have their places.
LEMMA Places ==
  /\ Position("replay") = 1 /\ Position("tls") = 2
  /\ Position("patchright") = 3 /\ Position("capsolver") = 4
<1>1. /\ Order[1] = "replay" /\ Order[2] = "tls"
      /\ Order[3] = "patchright" /\ Order[4] = "capsolver"
  BY DEF Order
<1>2. \A p : \A i \in 1..4 : Order[i] = p /\ (\A j \in 1..4 : Order[j] = p => j = i) => Position(p) = i
  BY DEF Position
<1>3. 1..4 = {1, 2, 3, 4}
  OBVIOUS
<1>4. /\ \A j \in 1..4 : Order[j] = "replay" => j = 1
      /\ \A j \in 1..4 : Order[j] = "tls" => j = 2
      /\ \A j \in 1..4 : Order[j] = "patchright" => j = 3
      /\ \A j \in 1..4 : Order[j] = "capsolver" => j = 4
  BY <1>1, <1>3
<1> QED BY <1>1, <1>2, <1>3, <1>4

\* One more attempt, with a loader behind all that were tried.
LEMMA OneMoreAttempt ==
  ASSUME NEW s \in Seq(Attempt), NEW e \in Attempt, Ordered(s),
         \A p \in MadeIn(s) : Position(p) < Position(e.provider)
  PROVE  /\ Append(s, e) \in Seq(Attempt) /\ Ordered(Append(s, e))
         /\ MadeIn(Append(s, e)) = MadeIn(s) \cup {e.provider}
         /\ OutcomesIn(Append(s, e)) = OutcomesIn(s) \cup {e.outcome}
         /\ Append(s, e) # <<>> /\ Append(s, e)[Len(Append(s, e))] = e
<1> DEFINE t == Append(s, e)  n == Len(s)
<1>1. /\ t \in Seq(Attempt) /\ Len(t) = n + 1 /\ n \in Nat
      /\ DOMAIN s = 1..n /\ DOMAIN t = 1..(n + 1)
      /\ \A i \in 1..n : t[i] = s[i]
      /\ t[n + 1] = e /\ t # <<>>
  OBVIOUS
<1> HIDE DEF t, n
<1>2. DOMAIN t = DOMAIN s \cup {n + 1}
  BY <1>1
<1>3. MadeIn(t) = MadeIn(s) \cup {e.provider} /\ OutcomesIn(t) = OutcomesIn(s) \cup {e.outcome}
  BY <1>1, <1>2 DEF MadeIn, OutcomesIn
<1>4. Ordered(t)
  <2> SUFFICES ASSUME NEW i \in DOMAIN t, NEW j \in DOMAIN t, i < j
               PROVE  Position(t[i].provider) < Position(t[j].provider)
    BY DEF Ordered
  <2>1. i \in 1..n /\ t[i] = s[i]
    BY <1>1
  <2>2. CASE j \in 1..n
    BY <1>1, <2>1, <2>2 DEF Ordered
  <2>3. CASE j = n + 1
    BY <1>1, <2>1, <2>3 DEF MadeIn
  <2> QED BY <1>1, <2>2, <2>3
<1> QED BY <1>1, <1>3, <1>4 DEF t

\* What a request's attempts say after one more fetch.
LEMMA AfterAFetch ==
  ASSUME LoadInv, NEW r \in Requests, NEW p \in Providers, NEW a \in Answers(r, p),
         Tried(r, p, a), \A q \in TriedBy(pc[r]) : Position(q) < Position(p)
  PROVE  /\ \A o \in Requests \ {r} : attempts'[o] = attempts[o]
         /\ DOMAIN attempts' = Requests /\ attempts' = [o \in Requests |-> attempts'[o]]
         /\ attempts'[r] \in Seq(Attempt) /\ Ordered(attempts'[r])
         /\ MadeIn(attempts'[r]) = MadeIn(attempts[r]) \cup {p}
         /\ attempts'[r] # <<>>
         /\ "dead" \in OutcomesIn(attempts'[r]) <=> "dead" \in OutcomesIn(attempts[r]) \/ Gone(a)
         /\ Refused(attempts'[r]) <=> Refused(attempts[r]) \/ a.error \in Capacity
         /\ a.error \in Capacity => p = "patchright" /\ ~ Answered(a)
         /\ Answered(a) /\ Verdict(a.doc) = "accept" /\ a.doc.type # "html" =>
              attempts'[r][Len(attempts'[r])] = [provider |-> p, outcome |-> "ok"]
<1> DEFINE x == IF Answered(a) THEN AttemptOutcome(a.doc) ELSE a.error
           e == [provider |-> p, outcome |-> x]
<1>1. a.error \in {"none", "ended", "transport"} \cup Capacity
      /\ (a.error \in Capacity => p = "patchright")
  <2>1. Errors[p] \subseteq {"ended", "transport"} \cup (IF p = "patchright" THEN Capacity ELSE {})
    BY WaterfallAssumption
  <2> QED BY <2>1 DEF Answers, Capacity
<1>2. /\ x \in Reported /\ (Gone(a) <=> x = "dead") /\ (Good(a) => x = "ok")
      /\ (x \in Capacity => a.error = x) /\ (a.error \in Capacity => x = a.error)
      /\ (Answered(a) /\ Verdict(a.doc) = "accept" /\ a.doc.type # "html" => x = "ok")
  <2>1. Verdict(a.doc) \in {"dead", "blocked", "retryable", "accept", "needs_render"}
    BY DEF Verdict
  <2> HIDE DEF e
  <2> QED BY <1>1, <2>1 DEF Reported, Capacity, Gone, Good, Answered, AttemptOutcome, Resolves
<1> HIDE DEF x
<1>3. /\ e \in Attempt /\ e.provider = p /\ e.outcome = x
  BY <1>2 DEF Attempt
<1>4. attempts' = [attempts EXCEPT ![r] = Append(@, e)]
  BY DEF Tried, x
<1> HIDE DEF e
<1>5. /\ attempts'[r] = Append(attempts[r], e)
      /\ \A o \in Requests \ {r} : attempts'[o] = attempts[o]
      /\ DOMAIN attempts' = Requests /\ attempts' = [o \in Requests |-> attempts'[o]]
  BY <1>4 DEF LoadInv
<1>6. /\ attempts[r] \in Seq(Attempt) /\ Ordered(attempts[r])
      /\ \A q \in MadeIn(attempts[r]) : Position(q) < Position(e.provider)
  BY <1>3 DEF LoadInv, Sound
<1>7. /\ attempts'[r] \in Seq(Attempt) /\ Ordered(attempts'[r])
      /\ MadeIn(attempts'[r]) = MadeIn(attempts[r]) \cup {p}
      /\ OutcomesIn(attempts'[r]) = OutcomesIn(attempts[r]) \cup {x}
      /\ attempts'[r] # <<>> /\ attempts'[r][Len(attempts'[r])] = e
  BY <1>3, <1>5, <1>6, OneMoreAttempt
<1>8. e = [provider |-> p, outcome |-> x]
  BY DEF e
<1>9. /\ "dead" \in OutcomesIn(attempts'[r]) <=> "dead" \in OutcomesIn(attempts[r]) \/ Gone(a)
      /\ Refused(attempts'[r]) <=> Refused(attempts[r]) \/ a.error \in Capacity
  BY <1>2, <1>7 DEF Refused
<1>10. a.error \in Capacity => ~ Answered(a)
  BY DEF Capacity, Answered
<1> QED BY <1>1, <1>2, <1>5, <1>7, <1>8, <1>9, <1>10

\* A step of one request leaves the others as they are.
LEMMA OneRequest ==
  ASSUME LoadInv, NEW r \in Requests, plan' = plan, DOMAIN held' = DOMAIN held,
         \E l \in Pcs : pc' = [pc EXCEPT ![r] = l],
         \A o \in Requests \ {r} : attempts'[o] = attempts[o],
         DOMAIN attempts' = Requests, attempts' = [o \in Requests |-> attempts'[o]],
         result' = result \/ (\E v : result' = [result EXCEPT ![r] = v]),
         Sound(Kind(r), pc'[r], attempts'[r], result'[r])
  PROVE  LoadInv'
<1>1. \A o \in Requests : Kind(o)' = Kind(o)
  BY DEF Kind
<1>2. /\ pc' \in [Requests -> Pcs] /\ \A o \in Requests \ {r} : pc'[o] = pc[o]
  BY DEF LoadInv
<1>3. /\ DOMAIN result' = Requests /\ result' = [o \in Requests |-> result'[o]]
      /\ \A o \in Requests \ {r} : result'[o] = result[o]
  BY DEF LoadInv
<1>4. \A o \in Requests : Sound(Kind(o), pc'[o], attempts'[o], result'[o])
  BY <1>2, <1>3 DEF LoadInv
<1> QED BY <1>1, <1>2, <1>3, <1>4 DEF LoadInv

\* The steps without a fetch.
LEMMA StepsBetween ==
  ASSUME LoadInv, NEW r \in Requests, Begin(r) \/ ForgetRow(r) \/ SkipTls(r) \/ SaveRow(r)
  PROVE  LoadInv'
<1>1. /\ plan' = plan /\ attempts' = attempts /\ DOMAIN held' = DOMAIN held
      /\ pc[r] \in {"new", "forget", "route", "save"}
  BY DEF Begin, ForgetRow, SkipTls, SaveRow
<1> DEFINE Moves(l, v) ==
      /\ pc' = [pc EXCEPT ![r] = l]
      /\ IF v = "none" THEN result' = result /\ l # "done"
         ELSE l = "done" /\ result' = [result EXCEPT ![r] = v]
      /\ l \in (IF pc[r] = "new" THEN {"done", "replay", "browser", "route"}
                ELSE IF pc[r] = "forget" THEN {"route"}
                ELSE IF pc[r] = "route" THEN {"done", "browser"} ELSE {"done"})
      /\ Kind(r) = "browser" => l \notin {"replay", "route"} \/ pc[r] = "forget"
<1>2. PICK l \in Pcs, v \in {"none", "invalid", "needs_browser", "ok"} : Moves(l, v)
  <2>1. CASE Begin(r)
    <3>1. CASE Kind(r) = "invalid"
      <4>1. Moves("done", "invalid")
        BY <2>1, <3>1 DEF Begin, Return, Goto
      <4> QED BY <4>1 DEF Pcs
    <3>2. CASE Kind(r) # "invalid"
      <4>1. Moves("replay", "none") \/ Moves("browser", "none") \/ Moves("route", "none")
        BY <2>1, <3>2 DEF Begin, Continue, Goto, LoadInv
      <4> HIDE DEF Moves
      <4> QED BY <4>1 DEF Pcs
    <3> QED BY <3>1, <3>2
  <2>2. CASE ForgetRow(r)
    BY <2>2 DEF ForgetRow, Return, Continue, Goto, Pcs
  <2>3. CASE SkipTls(r)
    BY <2>3 DEF SkipTls, TowardsBrowser, Return, Continue, Goto, Pcs
  <2>4. CASE SaveRow(r)
    BY <2>4 DEF SaveRow, Return, Continue, Goto, Pcs
  <2> HIDE DEF Moves
  <2> QED BY <2>1, <2>2, <2>3, <2>4
<1>3. Sound(Kind(r), pc[r], attempts[r], result[r])
  BY DEF LoadInv
<1>4. pc'[r] = l /\ result'[r] = (IF v = "none" THEN result[r] ELSE v)
  BY <1>2 DEF LoadInv
<1>5. pc[r] = "new" => attempts[r] = <<>>
  <2>1. ASSUME pc[r] = "new" PROVE attempts[r] = <<>>
    <3>1. MadeIn(attempts[r]) = {} /\ attempts[r] \in Seq(Attempt)
      BY <1>3, <2>1 DEF Sound, TriedBy
    <3>2. \A i \in DOMAIN attempts[r] : attempts[r][i].provider \in MadeIn(attempts[r])
      BY DEF MadeIn
    <3>3. 1 \notin DOMAIN attempts[r]
      BY <3>1, <3>2
    <3>4. Len(attempts[r]) = 0
      BY <3>1, <3>3, LenProperties
    <3> QED BY <3>1, <3>4, EmptySeq
  <2> QED BY <2>1
<1>6. OutcomesIn(<<>>) = {} /\ MadeIn(<<>>) = {} /\ ~ Refused(<<>>)
  BY DEF OutcomesIn, MadeIn, Refused
<1>7. Sound(Kind(r), pc'[r], attempts[r], result'[r])
  <2>1. MadeIn(attempts[r]) \subseteq TriedBy(l) /\ l # "capsolver"
    BY <1>1, <1>2, <1>3 DEF Sound, TriedBy, Providers
  <2>2. Kind(r) = "browser" => pc[r] \in {"new", "save"}
    BY <1>1, <1>3 DEF Sound
  <2> QED BY <1>1, <1>2, <1>3, <1>4, <1>5, <1>6, <2>1, <2>2 DEF Sound
<1>8. DOMAIN attempts = Requests /\ attempts = [o \in Requests |-> attempts[o]]
  BY DEF LoadInv
<1>9. result' = result \/ (\E w : result' = [result EXCEPT ![r] = w])
  BY <1>2
<1>10. \E k \in Pcs : pc' = [pc EXCEPT ![r] = k]
  BY <1>2
<1>11. /\ \A o \in Requests \ {r} : attempts'[o] = attempts[o]
       /\ DOMAIN attempts' = Requests /\ attempts' = [o \in Requests |-> attempts'[o]]
       /\ Sound(Kind(r), pc'[r], attempts'[r], result'[r])
  BY <1>1, <1>7, <1>8
<1> HIDE DEF Moves
<1> QED BY <1>1, <1>9, <1>10, <1>11, OneRequest

LEMMA ReplayStep ==
  ASSUME LoadInv, NEW r \in Requests, Replay(r)
  PROVE  LoadInv'
<1>1. PICK a \in Answers(r, "replay") :
        /\ Tried(r, "replay", a)
        /\ IF Good(a) \/ Gone(a) THEN Return(r, IF Good(a) THEN "ok" ELSE "dead")
           ELSE Continue(r, "forget")
  BY DEF Replay
<1>2. pc[r] = "replay" /\ plan' = plan /\ DOMAIN held' = DOMAIN held
  BY DEF Replay
<1>3. Sound(Kind(r), pc[r], attempts[r], result[r]) /\ "replay" \in Providers
  BY DEF LoadInv, Providers
<1>4. \A q \in TriedBy(pc[r]) : Position(q) < Position("replay")
  BY <1>2 DEF TriedBy
<1>5. /\ \A o \in Requests \ {r} : attempts'[o] = attempts[o]
      /\ DOMAIN attempts' = Requests /\ attempts' = [o \in Requests |-> attempts'[o]]
      /\ attempts'[r] \in Seq(Attempt) /\ Ordered(attempts'[r])
      /\ MadeIn(attempts'[r]) = MadeIn(attempts[r]) \cup {"replay"}
      /\ "dead" \in OutcomesIn(attempts'[r]) <=> "dead" \in OutcomesIn(attempts[r]) \/ Gone(a)
  BY <1>1, <1>3, <1>4, AfterAFetch
<1>6. Kind(r) # "browser"
  BY <1>2, <1>3 DEF Sound
<1>7. \E l \in {"done", "forget"} :
        /\ pc' = [pc EXCEPT ![r] = l] /\ pc'[r] = l
        /\ IF l = "done" THEN result' = [result EXCEPT ![r] = result'[r]] /\ result'[r] \in {"ok", "dead"}
           ELSE result' = result /\ result'[r] = "none" /\ ~ Gone(a)
  BY <1>1, <1>2, <1>3 DEF Return, Continue, Goto, LoadInv, Sound
<1>8. Sound(Kind(r), pc'[r], attempts'[r], result'[r])
  BY <1>2, <1>3, <1>5, <1>6, <1>7 DEF Sound, TriedBy, Providers
<1> QED BY <1>2, <1>5, <1>7, <1>8, OneRequest DEF Pcs

LEMMA TlsStep ==
  ASSUME LoadInv, NEW r \in Requests, Tls(r)
  PROVE  LoadInv'
<1>1. PICK a \in Answers(r, "tls") :
        /\ Tried(r, "tls", a)
        /\ IF Kind(r) \in Loads THEN AfterLoad(r, a) ELSE AfterTls(r, a)
  BY DEF Tls
<1>2. pc[r] = "route" /\ plan' = plan /\ DOMAIN held' = DOMAIN held
  BY DEF Tls
<1>3. Sound(Kind(r), pc[r], attempts[r], result[r]) /\ "tls" \in Providers
  BY DEF LoadInv, Providers
<1>4. \A q \in TriedBy(pc[r]) : Position(q) < Position("tls")
  BY <1>2, Places DEF TriedBy
<1>5. /\ \A o \in Requests \ {r} : attempts'[o] = attempts[o]
      /\ DOMAIN attempts' = Requests /\ attempts' = [o \in Requests |-> attempts'[o]]
      /\ attempts'[r] \in Seq(Attempt) /\ Ordered(attempts'[r])
      /\ MadeIn(attempts'[r]) = MadeIn(attempts[r]) \cup {"tls"}
      /\ attempts'[r] # <<>>
      /\ "dead" \in OutcomesIn(attempts'[r]) <=> "dead" \in OutcomesIn(attempts[r]) \/ Gone(a)
      /\ Answered(a) /\ Verdict(a.doc) = "accept" /\ a.doc.type # "html" =>
           attempts'[r][Len(attempts'[r])] = [provider |-> "tls", outcome |-> "ok"]
  BY <1>1, <1>3, <1>4, AfterAFetch
<1>6. Kind(r) # "browser"
  BY <1>2, <1>3 DEF Sound
<1>7. \E l \in {"done", "browser"} :
        /\ pc' = [pc EXCEPT ![r] = l] /\ pc'[r] = l
        /\ IF l = "done" THEN result' = [result EXCEPT ![r] = result'[r]] /\ result'[r] # "capacity"
           ELSE result' = result /\ result'[r] = "none" /\ ~ Gone(a)
        /\ Kind(r) = "extract" /\ result'[r] = "failed" =>
             Answered(a) /\ Verdict(a.doc) = "accept" /\ a.doc.type # "html"
  <2>1. CASE Kind(r) \in Loads
    BY <1>1, <1>2, <1>3, <2>1 DEF AfterLoad, Return, Continue, Goto, LoadInv, Sound, Loads
  <2>2. CASE Kind(r) \notin Loads
    BY <1>1, <1>2, <1>3, <2>2 DEF AfterTls, TowardsBrowser, Return, Continue, Goto, LoadInv, Sound
  <2> QED BY <2>1, <2>2
<1>8. Kind(r) = "extract" /\ result'[r] = "failed" => GivenUp(attempts'[r])
  BY <1>5, <1>7 DEF GivenUp
<1>9. Sound(Kind(r), pc'[r], attempts'[r], result'[r])
  BY <1>2, <1>3, <1>5, <1>6, <1>7, <1>8 DEF Sound, TriedBy, Providers
<1>10. /\ \E l \in Pcs : pc' = [pc EXCEPT ![r] = l]
       /\ result' = result \/ (\E v : result' = [result EXCEPT ![r] = v])
  BY <1>7 DEF Pcs
<1> QED BY <1>2, <1>5, <1>9, <1>10, OneRequest

LEMMA BrowserStep ==
  ASSUME LoadInv, NEW r \in Requests, Browser(r)
  PROVE  LoadInv'
<1>1. PICK a \in Answers(r, "patchright") :
        /\ Tried(r, "patchright", a)
        /\ IF Kind(r) \in Loads THEN AfterRender(r, a) ELSE AfterBrowser(r, a)
  BY DEF Browser
<1>2. pc[r] = "browser" /\ plan' = plan /\ DOMAIN held' = DOMAIN held
  BY DEF Browser
<1>3. Sound(Kind(r), pc[r], attempts[r], result[r]) /\ "patchright" \in Providers
  BY DEF LoadInv, Providers
<1>4. \A q \in TriedBy(pc[r]) : Position(q) < Position("patchright")
  BY <1>2, Places DEF TriedBy
<1>5. /\ \A o \in Requests \ {r} : attempts'[o] = attempts[o]
      /\ DOMAIN attempts' = Requests /\ attempts' = [o \in Requests |-> attempts'[o]]
      /\ attempts'[r] \in Seq(Attempt) /\ Ordered(attempts'[r])
      /\ MadeIn(attempts'[r]) = MadeIn(attempts[r]) \cup {"patchright"}
      /\ "dead" \in OutcomesIn(attempts'[r]) <=> "dead" \in OutcomesIn(attempts[r]) \/ Gone(a)
      /\ Refused(attempts'[r]) <=> Refused(attempts[r]) \/ a.error \in Capacity
      /\ a.error \in Capacity => ~ Answered(a)
  BY <1>1, <1>3, <1>4, AfterAFetch
<1>6. /\ OutcomesIn(<<>>) = {} /\ MadeIn(<<>>) = {} /\ ~ Refused(<<>>)
      /\ Kind(r) = "browser" => attempts[r] = <<>>
      /\ result[r] = "none"
  BY <1>2, <1>3 DEF OutcomesIn, MadeIn, Refused, Sound
<1>7. CASE Kind(r) \in Loads
  <2>1. \E l \in {"done", "capsolver"} :
          /\ pc' = [pc EXCEPT ![r] = l] /\ pc'[r] = l
          /\ IF l = "done" THEN result' = [result EXCEPT ![r] = result'[r]] /\ result'[r] # "capacity"
             ELSE result' = result /\ result'[r] = "none"
    BY <1>1, <1>2, <1>3, <1>6, <1>7 DEF AfterRender, Return, Continue, Goto, LoadInv
  <2>2. Kind(r) \notin {"extract", "browser"}
    BY <1>7 DEF Loads
  <2>3. Sound(Kind(r), pc'[r], attempts'[r], result'[r])
    BY <1>2, <1>3, <1>5, <2>1, <2>2 DEF Sound, TriedBy, Providers
  <2> QED BY <1>2, <1>5, <2>1, <2>3, OneRequest DEF Pcs
<1>8. CASE Kind(r) \notin Loads
  <2>1. AfterBrowser(r, a)
    BY <1>1, <1>8
  <2>2. CASE Good(a)
    <3>1. \E l \in {"done", "save"} :
            /\ pc' = [pc EXCEPT ![r] = l] /\ pc'[r] = l
            /\ IF l = "done" THEN result' = [result EXCEPT ![r] = "ok"] /\ result'[r] = "ok"
               ELSE result' = result /\ result'[r] = "none"
      BY <1>2, <1>6, <2>1, <2>2 DEF AfterBrowser, Learn, Return, Continue, Goto, LoadInv
    <3>2. "dead" \in OutcomesIn(attempts'[r]) <=> "dead" \in OutcomesIn(attempts[r])
      BY <1>5, <2>2 DEF Good, Gone, Resolves
    <3>3. Kind(r) = "browser" => ~ Refused(attempts'[r])
      BY <1>5, <1>6, <2>2 DEF Good
    <3>4. Sound(Kind(r), pc'[r], attempts'[r], result'[r])
      BY <1>2, <1>3, <1>5, <3>1, <3>2, <3>3 DEF Sound, TriedBy, Providers
    <3>5. /\ \E l \in Pcs : pc' = [pc EXCEPT ![r] = l]
          /\ result' = result \/ (\E v : result' = [result EXCEPT ![r] = v])
      BY <3>1 DEF Pcs
    <3> QED BY <1>2, <1>5, <3>4, <3>5, OneRequest
  <2>3. CASE ~ Good(a)
    <3>1. \E l \in {"done", "capsolver"} :
            /\ pc' = [pc EXCEPT ![r] = l] /\ pc'[r] = l
            /\ IF l = "done"
               THEN /\ result' = [result EXCEPT ![r] = result'[r]]
                    /\ \/ result'[r] = "dead"
                       \/ result'[r] = "capacity" /\ Kind(r) = "browser" /\ a.error \in Capacity
               ELSE /\ result' = result /\ result'[r] = "none" /\ ~ Gone(a)
                    /\ Kind(r) = "browser" => a.error \notin Capacity
      BY <1>2, <1>6, <2>1, <2>3 DEF AfterBrowser, Return, Continue, Goto, LoadInv
    <3>2. Kind(r) = "browser" => MadeIn(attempts'[r]) = {"patchright"}
      BY <1>5, <1>6
    <3>3. Kind(r) = "browser" =>
            (Refused(attempts'[r]) <=> a.error \in Capacity)
      BY <1>5, <1>6
    <3>4. "patchright" \in MadeIn(attempts'[r])
      BY <1>5
    <3>5. ~ Gone(a) /\ "dead" \notin OutcomesIn(attempts[r]) => "dead" \notin OutcomesIn(attempts'[r])
      BY <1>5
    <3>6. MadeIn(attempts'[r]) \subseteq TriedBy("capsolver") \cap TriedBy("done")
      BY <1>2, <1>3, <1>5 DEF Sound, TriedBy, Providers
    <3>7. Sound(Kind(r), pc'[r], attempts'[r], result'[r])
      BY <1>2, <1>3, <1>5, <3>1, <3>2, <3>3, <3>4, <3>5, <3>6 DEF Sound
    <3>8. /\ \E l \in Pcs : pc' = [pc EXCEPT ![r] = l]
          /\ result' = result \/ (\E v : result' = [result EXCEPT ![r] = v])
      BY <3>1 DEF Pcs
    <3> QED BY <1>2, <1>5, <3>7, <3>8, OneRequest
  <2> QED BY <2>2, <2>3
<1> QED BY <1>7, <1>8

LEMMA CapSolverStep ==
  ASSUME LoadInv, NEW r \in Requests, CapSolver(r)
  PROVE  LoadInv'
<1>1. pc[r] = "capsolver" /\ plan' = plan /\ DOMAIN held' = DOMAIN held
  BY DEF CapSolver
<1>2. Sound(Kind(r), pc[r], attempts[r], result[r]) /\ "capsolver" \in Providers
  BY DEF LoadInv, Providers
<1>3. /\ "patchright" \in MadeIn(attempts[r])
      /\ Kind(r) \in {"extract", "browser"} => "dead" \notin OutcomesIn(attempts[r])
      /\ Kind(r) = "browser" => ~ Refused(attempts[r])
  BY <1>1, <1>2 DEF Sound
<1>4. CASE HasCapSolver
  <2>1. PICK a \in Answers(r, "capsolver") : Tried(r, "capsolver", a) /\ AfterCapSolver(r, a)
    BY <1>4 DEF CapSolver
  <2>2. \A q \in TriedBy(pc[r]) : Position(q) < Position("capsolver")
    BY <1>1, Places DEF TriedBy
  <2>3. /\ \A o \in Requests \ {r} : attempts'[o] = attempts[o]
        /\ DOMAIN attempts' = Requests /\ attempts' = [o \in Requests |-> attempts'[o]]
        /\ attempts'[r] \in Seq(Attempt) /\ Ordered(attempts'[r])
        /\ MadeIn(attempts'[r]) = MadeIn(attempts[r]) \cup {"capsolver"}
        /\ "dead" \in OutcomesIn(attempts'[r]) <=> "dead" \in OutcomesIn(attempts[r]) \/ Gone(a)
        /\ Refused(attempts'[r]) <=> Refused(attempts[r])
    BY <1>2, <2>1, <2>2, AfterAFetch
  <2>4. /\ pc' = [pc EXCEPT ![r] = "done"] /\ pc'[r] = "done"
        /\ result' = [result EXCEPT ![r] = result'[r]]
        /\ result'[r] \in {"ok", "dead", "failed"}
        /\ Kind(r) \in {"extract", "browser"} /\ result'[r] = "failed" => ~ Gone(a)
    BY <2>1 DEF AfterCapSolver, Return, Goto, LoadInv, Loads
  <2>5. Kind(r) = "browser" => ~ Refused(attempts'[r])
    BY <1>3, <2>3
  <2>6. Kind(r) \in {"extract", "browser"} /\ result'[r] = "failed" => GivenUp(attempts'[r])
    BY <1>3, <2>3, <2>4 DEF GivenUp
  <2>7. MadeIn(attempts'[r]) \subseteq TriedBy("done")
    BY <1>1, <1>2, <2>3 DEF Sound, TriedBy, Providers
  <2>8. Sound(Kind(r), pc'[r], attempts'[r], result'[r])
    BY <2>3, <2>4, <2>5, <2>6, <2>7 DEF Sound
  <2> QED BY <1>1, <2>3, <2>4, <2>8, OneRequest DEF Pcs
<1>5. CASE ~ HasCapSolver
  <2>1. /\ attempts' = attempts /\ pc' = [pc EXCEPT ![r] = "done"] /\ pc'[r] = "done"
        /\ result' = [result EXCEPT ![r] = "failed"] /\ result'[r] = "failed"
    BY <1>5 DEF CapSolver, Return, Goto, LoadInv
  <2>2. MadeIn(attempts[r]) \subseteq TriedBy("done")
    BY <1>1, <1>2 DEF Sound, TriedBy, Providers
  <2>3. Kind(r) \in {"extract", "browser"} => GivenUp(attempts[r])
    BY <1>3, <1>5 DEF GivenUp
  <2>4. Sound(Kind(r), pc'[r], attempts'[r], result'[r])
    BY <1>2, <1>3, <2>1, <2>2, <2>3 DEF Sound
  <2>5. DOMAIN attempts = Requests /\ attempts = [o \in Requests |-> attempts[o]]
    BY DEF LoadInv
  <2> QED BY <1>1, <2>1, <2>4, <2>5, OneRequest DEF Pcs
<1> QED BY <1>4, <1>5

\* A restart only gives requests up.
LEMMA RestartKeepsLoads ==
  ASSUME LoadInv, Restart
  PROVE  LoadInv'
<1>1. /\ pc' = [r \in Requests |-> IF pc[r] \in {"new", "done"} THEN pc[r] ELSE "lost"]
      /\ UNCHANGED <<plan, attempts, result>> /\ DOMAIN held' = Requests
  BY DEF Restart
<1>2. ASSUME NEW r \in Requests PROVE Sound(Kind(r), pc'[r], attempts[r], result[r])
  <2>1. Sound(Kind(r), pc[r], attempts[r], result[r])
    BY DEF LoadInv
  <2>2. CASE pc[r] \in {"new", "done"}
    BY <1>1, <2>1, <2>2
  <2>3. CASE pc[r] \notin {"new", "done"}
    <3>1. pc'[r] = "lost"
      BY <1>1, <2>3
    <3>2. TriedBy(pc[r]) \subseteq TriedBy("lost")
      BY DEF TriedBy, Providers
    <3> QED BY <2>1, <2>3, <3>1, <3>2 DEF Sound
  <2> QED BY <2>2, <2>3
<1>3. pc' \in [Requests -> Pcs]
  BY <1>1 DEF LoadInv, Pcs
<1> QED BY <1>1, <1>2, <1>3 DEF LoadInv, Kind

LEMMA LoadInvHolds == Spec => []LoadInv
<1>1. ASSUME Init PROVE LoadInv
  <2>1. <<>> \in Seq(Attempt) /\ Ordered(<<>>) /\ MadeIn(<<>>) = {} /\ OutcomesIn(<<>>) = {}
          /\ ~ Refused(<<>>)
    BY DEF Ordered, MadeIn, OutcomesIn, Refused
  <2>2. \A k : Sound(k, "new", <<>>, "none")
    BY <2>1 DEF Sound
  <2> QED BY <1>1, <2>2 DEF Init, LoadInv, Pcs
<1>2. ASSUME LoadInv, [Next]_vars PROVE LoadInv'
  <2>1. CASE UNCHANGED vars
    BY <1>2, <2>1 DEF vars, LoadInv, Kind
  <2>2. CASE Restart
    BY <1>2, <2>2, RestartKeepsLoads
  <2>3. ASSUME NEW r \in Requests, Expire(r) PROVE LoadInv'
    BY <1>2, <2>3 DEF Expire, LoadInv, Kind
  <2>4. ASSUME NEW r \in Requests, Begin(r) \/ Step(r) PROVE LoadInv'
    BY <1>2, <2>4, StepsBetween, ReplayStep, TlsStep, BrowserStep, CapSolverStep DEF Step
  <2> QED BY <1>2, <2>1, <2>2, <2>3, <2>4 DEF Next
<1> QED BY <1>1, <1>2, PTL DEF Spec

\* The loaders are tried in order and a page is given up only for a reason
\* (Service.Extract, httpStage, browserStage).
THEOREM LoadersAreInOrder == Spec => []LoadersInOrder
<1>1. ASSUME LoadInv PROVE LoadersInOrder
  <2>1. \A r \in Requests : Made(r) = MadeIn(attempts[r]) /\ Outcomes(r) = OutcomesIn(attempts[r])
    BY DEF Made, Outcomes, MadeIn, OutcomesIn
  <2>2. \A r \in Requests : Sound(Kind(r), pc[r], attempts[r], result[r])
    BY <1>1 DEF LoadInv
  <2>3. ASSUME NEW r \in Requests
        PROVE  \A i, j \in DOMAIN attempts[r] : i < j =>
                 Position(attempts[r][i].provider) < Position(attempts[r][j].provider)
    BY <2>2 DEF Sound, Ordered
  <2>4. \A r \in Requests : result[r] = "failed" /\ Kind(r) \in {"extract", "browser"} =>
          GivenUp(attempts[r])
    BY <2>2 DEF Sound
  <2> QED BY <2>1, <2>3, <2>4 DEF LoadersInOrder, GivenUp
<1> QED BY <1>1, LoadInvHolds, PTL

\* A full browser defers the batch stage, and only that (Service.browserStage,
\* ExtractBrowser).
THEOREM CapacityDefers == Spec => []CapacityIsDeferred
<1>1. ASSUME LoadInv PROVE CapacityIsDeferred
  <2>1. \A r \in Requests : Made(r) = MadeIn(attempts[r]) /\ Outcomes(r) = OutcomesIn(attempts[r])
    BY DEF Made, Outcomes, MadeIn, OutcomesIn
  <2>2. \A r \in Requests : Sound(Kind(r), pc[r], attempts[r], result[r])
    BY <1>1 DEF LoadInv
  <2> QED BY <2>1, <2>2 DEF Sound, Refused, CapacityIsDeferred
<1> QED BY <1>1, LoadInvHolds, PTL
-----------------------------------------------------------------------------
\* Each of the four maps holds one entry per host, and the counts stay in bounds.
OnePerHost(map) ==
  map \subseteq Requests /\ \A c, d \in map : HostOf(c) = HostOf(d) => c = d
MapsInv ==
  /\ plan \in [Requests -> [kind : Kinds, host : Hosts]]
  /\ OnePerHost(clearances) /\ OnePerHost(clearanceRows)
  /\ OnePerHost(routes) /\ OnePerHost(routeRows)
  /\ expired \subseteq Requests /\ spoiled \subseteq Hosts
  /\ restarts \in 0..MaxRestarts /\ failed \in 0..MaxFailedWrites

\* What a step of request r may do to a map: drop entries, or put its own in.
Kept(map, new, r) == new \subseteq map \/ new = Upsert(map, r)

LEMMA OnePerHostKept ==
  ASSUME NEW map, NEW new, NEW r \in Requests, OnePerHost(map), Kept(map, new, r),
         plan' = plan
  PROVE  new \subseteq Requests /\ \A c, d \in new : HostOf(c)' = HostOf(d)' => c = d
BY DEF OnePerHost, Kept, Upsert, OfHost, HostOf

LEMMA WhatAStepWrites ==
  ASSUME NEW r \in Requests, Begin(r) \/ Step(r) \/ Expire(r)
  PROVE  /\ plan' = plan /\ restarts' = restarts
         /\ Kept(clearances, clearances', r) /\ Kept(clearanceRows, clearanceRows', r)
         /\ Kept(routes, routes', r) /\ Kept(routeRows, routeRows', r)
         /\ expired' \subseteq expired \cup {r}
         /\ spoiled' \subseteq spoiled \cup {HostOf(r)}
         /\ failed' = failed \/ (failed < MaxFailedWrites /\ failed' = failed + 1)
<1> USE DEF Kept, memoryVars
<1>1. CASE Begin(r)
  BY <1>1 DEF Begin, Pruned
<1>2. CASE Replay(r)
  BY <1>2 DEF Replay, Without, WriteBegins
<1>3. CASE ForgetRow(r)
  BY <1>3 DEF ForgetRow, Without, WriteEnds
<1>4. CASE SkipTls(r)
  BY <1>4 DEF SkipTls, AfterPreferred, Pruned
<1>5. CASE Tls(r)
  BY <1>5 DEF Tls, AfterPreferred, Pruned
<1>6. CASE Browser(r)
  <2>1. PICK a \in Answers(r, "patchright") :
          IF Kind(r) \in Loads THEN AfterRender(r, a) ELSE AfterBrowser(r, a)
    BY <1>6 DEF Browser
  <2>2. UNCHANGED <<plan, clearanceRows, expired, restarts>>
    BY <1>6 DEF Browser
  <2>3. CASE AfterRender(r, a)
    BY <2>2, <2>3 DEF AfterRender, RecordRoute, NothingLearned
  <2>4. CASE AfterBrowser(r, a)
    BY <2>2, <2>4 DEF AfterBrowser, Learn, RecordRoute, NothingLearned, WriteBegins
  <2> QED BY <2>1, <2>3, <2>4
<1>7. CASE SaveRow(r)
  BY <1>7 DEF SaveRow, WriteEnds
<1>8. CASE CapSolver(r)
  BY <1>8 DEF CapSolver, NothingLearned
<1>9. CASE Expire(r)
  BY <1>9 DEF Expire
<1> QED BY <1>1, <1>2, <1>3, <1>4, <1>5, <1>6, <1>7, <1>8, <1>9 DEF Step

LEMMA MapsInvHolds == Spec => []MapsInv
<1>1. ASSUME Init PROVE MapsInv
  BY <1>1, WaterfallAssumption DEF Init, MapsInv, OnePerHost
<1>2. ASSUME MapsInv, [Next]_vars PROVE MapsInv'
  <2> USE <1>2 DEF MapsInv
  <2>1. CASE UNCHANGED vars
    BY <2>1 DEF vars, memoryVars, OnePerHost, HostOf
  <2>2. CASE Restart
    <3>1. /\ plan' = plan /\ expired' = expired /\ failed' = failed /\ spoiled' = {}
          /\ clearanceRows' \subseteq clearanceRows /\ clearances' = clearanceRows'
          /\ routeRows' \subseteq routeRows /\ routes' = routeRows'
          /\ restarts < MaxRestarts /\ restarts' = restarts + 1
      BY <2>2 DEF Restart, RestoreClearances, RestoreRoutes, Loaded
    <3> QED BY <3>1, WaterfallAssumption DEF OnePerHost, HostOf
  <2>3. ASSUME NEW r \in Requests, Begin(r) \/ Step(r) \/ Expire(r) PROVE MapsInv'
    <3>1. /\ plan' = plan /\ restarts' = restarts
          /\ Kept(clearances, clearances', r) /\ Kept(clearanceRows, clearanceRows', r)
          /\ Kept(routes, routes', r) /\ Kept(routeRows, routeRows', r)
          /\ expired' \subseteq expired \cup {r} /\ spoiled' \subseteq spoiled \cup {HostOf(r)}
          /\ failed' = failed \/ (failed < MaxFailedWrites /\ failed' = failed + 1)
      BY <2>3, WhatAStepWrites
    <3>2. OnePerHost(clearances)' /\ OnePerHost(clearanceRows)'
      BY <3>1, OnePerHostKept DEF OnePerHost
    <3>3. OnePerHost(routes)' /\ OnePerHost(routeRows)'
      BY <3>1, OnePerHostKept DEF OnePerHost
    <3>4. HostOf(r) \in Hosts
      BY DEF HostOf
    <3> QED BY <3>1, <3>2, <3>3, <3>4, WaterfallAssumption
  <2> QED BY <1>2, <2>1, <2>2, <2>3 DEF Next
<1> QED BY <1>1, <1>2, PTL DEF Spec

\* Routes and clearances hold one entry per host, in memory and in the tables,
\* whatever requests of one host record at the same time (Routes.Record,
\* Clearances.Record).
THEOREM OneEntryPerHost == Spec => []TypeOK
<1>1. ASSUME MapsInv, MemoryInv, LoadInv PROVE TypeOK
  <2>1. refuted \subseteq Requests /\ held \in [Requests -> SUBSET Requests]
    BY <1>1 DEF MemoryInv, MemoryShape, Recorded
  <2>2. DOMAIN attempts = Requests /\ DOMAIN result = Requests /\ pc \in [Requests -> Pcs]
    BY <1>1 DEF LoadInv
  <2> QED BY <1>1, <2>1, <2>2 DEF TypeOK, MapsInv, OnePerHost
<1> QED BY <1>1, MapsInvHolds, MemoryInvHolds, LoadInvHolds, PTL
-----------------------------------------------------------------------------
\* How many places are still before a request, at most.
Distance(l) ==
  IF l = "new" THEN 6 ELSE IF l = "replay" THEN 5 ELSE IF l = "forget" THEN 4
  ELSE IF l = "route" THEN 3 ELSE IF l = "browser" THEN 2
  ELSE IF l \in {"save", "capsolver"} THEN 1 ELSE 0

\* A request goes through its loaders without ever turning back, each of its own
\* steps takes it further, and what it has returned stays as it is.
GoesForward(r) ==
  /\ pc'[r] = pc[r] \/ Distance(pc'[r]) < Distance(pc[r])
  /\ Step(r) => Distance(pc'[r]) < Distance(pc[r])
  /\ pc[r] \in {"done", "lost"} => result'[r] = result[r] /\ attempts'[r] = attempts[r]
RequestsGoForward == [][\A r \in Requests : GoesForward(r)]_vars

\* An action of r takes r, and only r, further.
LEMMA ActionGoesOn ==
  ASSUME LoadInv, NEW r \in Requests, Begin(r) \/ Step(r)
  PROVE  /\ \E l \in Pcs : pc' = [pc EXCEPT ![r] = l] /\ Distance(l) < Distance(pc[r])
         /\ pc[r] \notin {"done", "lost"}
         /\ \A o \in Requests \ {r} : result'[o] = result[o] /\ attempts'[o] = attempts[o]
<1> DEFINE Moves(l) == Goto(r, l) /\ l \in Pcs /\ Distance(l) < Distance(pc[r])
           Quiet == /\ \A o \in Requests \ {r} : result'[o] = result[o] /\ attempts'[o] = attempts[o]
                    /\ pc[r] \notin {"done", "lost"}
<1> USE DEF Return, Continue
<1>0. SUFFICES (\E l : Moves(l)) /\ Quiet
  BY DEF Goto
<1>1. CASE Begin(r)
  <2>1. \E l \in {"done", "replay", "browser", "route"} : Goto(r, l)
    BY <1>1 DEF Begin
  <2> QED BY <1>1, <2>1 DEF Begin, Distance, Pcs, LoadInv
<1>2. CASE Replay(r)
  <2>1. \E l \in {"done", "forget"} : Goto(r, l)
    BY <1>2 DEF Replay
  <2> QED BY <1>2, <2>1 DEF Replay, Tried, Distance, Pcs, LoadInv
<1>3. CASE ForgetRow(r)
  BY <1>3 DEF ForgetRow, Distance, Pcs, LoadInv
<1>4. CASE SkipTls(r)
  <2>1. \E l \in {"done", "browser"} : Goto(r, l)
    BY <1>4 DEF SkipTls, TowardsBrowser
  <2> QED BY <1>4, <2>1 DEF SkipTls, TowardsBrowser, Distance, Pcs, LoadInv
<1>5. CASE Tls(r)
  <2>1. PICK a \in Answers(r, "tls") :
          Tried(r, "tls", a) /\ IF Kind(r) \in Loads THEN AfterLoad(r, a) ELSE AfterTls(r, a)
    BY <1>5 DEF Tls
  <2>2. \E l \in {"done", "browser"} : Goto(r, l)
    BY <2>1 DEF AfterLoad, AfterTls, TowardsBrowser
  <2>3. \A o \in Requests \ {r} : result'[o] = result[o]
    BY <2>1 DEF AfterLoad, AfterTls, TowardsBrowser, LoadInv
  <2>4. pc[r] = "route"
    BY <1>5 DEF Tls
  <2> QED BY <2>1, <2>2, <2>3, <2>4 DEF Tried, Distance, Pcs, LoadInv
<1>6. CASE Browser(r)
  <2>1. PICK a \in Answers(r, "patchright") :
          Tried(r, "patchright", a) /\ IF Kind(r) \in Loads THEN AfterRender(r, a) ELSE AfterBrowser(r, a)
    BY <1>6 DEF Browser
  <2>2. \E l \in {"done", "save", "capsolver"} : Goto(r, l)
    BY <2>1 DEF AfterRender, AfterBrowser, Learn
  <2>3. \A o \in Requests \ {r} : result'[o] = result[o]
    BY <2>1 DEF AfterRender, AfterBrowser, Learn, LoadInv
  <2>4. pc[r] = "browser"
    BY <1>6 DEF Browser
  <2> QED BY <2>1, <2>2, <2>3, <2>4 DEF Tried, Distance, Pcs, LoadInv
<1>7. CASE SaveRow(r)
  BY <1>7 DEF SaveRow, Distance, Pcs, LoadInv
<1>8. CASE CapSolver(r)
  <2>1. Goto(r, "done") /\ \E v : result' = [result EXCEPT ![r] = v]
    BY <1>8 DEF CapSolver, AfterCapSolver
  <2>2. \A o \in Requests \ {r} : result'[o] = result[o]
    BY <2>1 DEF LoadInv
  <2>3. \A o \in Requests \ {r} : attempts'[o] = attempts[o]
    BY <1>8 DEF CapSolver, Tried, LoadInv
  <2>4. pc[r] = "capsolver"
    BY <1>8 DEF CapSolver
  <2> QED BY <2>1, <2>2, <2>3, <2>4 DEF Distance, Pcs
<1> QED BY <1>1, <1>2, <1>3, <1>4, <1>5, <1>6, <1>7, <1>8 DEF Step

LEMMA StepsAreOfOne ==
  ASSUME LoadInv, [Next]_vars, NEW r \in Requests
  PROVE  GoesForward(r)
<1>1. CASE UNCHANGED vars
  <2>1. ~ Step(r)
    <3> SUFFICES ASSUME Step(r) PROVE FALSE
      OBVIOUS
    <3>1. PICK l \in Pcs : pc' = [pc EXCEPT ![r] = l] /\ Distance(l) < Distance(pc[r])
      BY ActionGoesOn
    <3>2. l = pc[r]
      BY <1>1, <3>1 DEF vars, LoadInv
    <3> QED BY <3>1, <3>2 DEF Distance
  <2> QED BY <1>1, <2>1 DEF vars, GoesForward
<1>2. ASSUME Step(r) PROVE GoesForward(r)
  <2>1. /\ \E l \in Pcs : pc' = [pc EXCEPT ![r] = l] /\ Distance(l) < Distance(pc[r])
        /\ pc[r] \notin {"done", "lost"}
    BY <1>2, ActionGoesOn
  <2> QED BY <2>1 DEF GoesForward, LoadInv
<1>3. ASSUME ~ Step(r), Restart PROVE GoesForward(r)
  <2>1. /\ pc'[r] = IF pc[r] \in {"new", "done"} THEN pc[r] ELSE "lost"
        /\ result' = result /\ attempts' = attempts /\ pc[r] \in Pcs
    BY <1>3 DEF Restart, LoadInv
  <2> QED BY <1>3, <2>1 DEF GoesForward, Distance, Pcs
<1>4. ASSUME ~ Step(r), NEW q \in Requests, Begin(q) \/ Step(q) \/ Expire(q) PROVE GoesForward(r)
  <2>1. CASE Expire(q)
    BY <1>4, <2>1 DEF Expire, GoesForward
  <2>2. CASE Begin(q) \/ Step(q)
    <3>1. /\ \E l \in Pcs : pc' = [pc EXCEPT ![q] = l] /\ Distance(l) < Distance(pc[q])
          /\ pc[q] \notin {"done", "lost"}
          /\ \A o \in Requests \ {q} : result'[o] = result[o] /\ attempts'[o] = attempts[o]
      BY <2>2, ActionGoesOn
    <3> QED BY <1>4, <3>1 DEF GoesForward, LoadInv
  <2> QED BY <1>4, <2>1, <2>2
<1> QED BY <1>1, <1>2, <1>3, <1>4 DEF Next

\* No request is sent back to a loader, by its own answers, by another request or by a
\* restart: after at most six steps of its own it has returned. What EveryRequestReturns
\* needs besides is the fairness of those steps (orchestrator.go Extract, loader.go Load).
THEOREM EveryRequestGoesForward == Spec => RequestsGoForward
<1>1. ASSUME LoadInv, [Next]_vars PROVE [\A r \in Requests : GoesForward(r)]_vars
  BY <1>1, StepsAreOfOne
<1> QED BY <1>1, LoadInvHolds, PTL DEF Spec, RequestsGoForward
=============================================================================
