---------------------------- MODULE BatchProofs ----------------------------
(***************************************************************************)
(* Proofs about Batch, for every number of URLs, processes and workers.    *)
(***************************************************************************)
EXTENDS Batch, SequenceTheorems, FiniteSetTheorems, TLAPS

-----------------------------------------------------------------------------
(***************************************************************************)
(* The inductive invariant behind DoneIsStored and ImplementsLifecycle, in *)
(* the states of a Careful operator.                                       *)
(***************************************************************************)
IdleHasNoJob == \A w \in Workers : pc[w] = "idle" <=> on[w] = NoJob

OneWorkerPerJob == \A v, w \in Workers : on[v] = on[w] /\ on[v] # NoJob => v = w

Stored(ref, j) == [ref |-> ref, job |-> j] \in pages
HandedOver(j) == j[1] = "http" /\ job[BrowserJob(UrlOf(j))] # "none"

\* A job leaves `running` only through its worker, or through its hand-off.
JobsRunWhileHeld ==
  \A w \in Workers : on[w] # NoJob =>
    \/ job[on[w]] = "running"
    \/ /\ pc[w] \in {"returning", "finishing"}
       /\ job[on[w]] = "completed"
       /\ HandedOver(on[w])

VerdictsAreTrue ==
  \A w \in Workers : on[w] # NoJob /\ verdict[w].state = "completed" =>
    /\ verdict[w].recorded
    /\ Stored(verdict[w].ref, on[w]) \/ HandedOver(on[w])

ListedCanBeRetried == \A r \in Retriers : \A j \in listed[r] : job[j] \in RetryFrom

RecordsAreOfWaiters ==
  \A p \in Procs : \A i \in DOMAIN part[p] :
    LET w == part[p][i].worker
    IN  pc[w] = "waiting" /\ ProcOf[w] = p /\ on[w] = part[p][i].job

\* The number of an open file is that of no renamed file.
FileNumbersAreNew ==
  \A r \in pages :
    /\ r.ref[2] <= sequence[r.ref[1]]
    /\ part[r.ref[1]] # <<>> => r.ref[2] < sequence[r.ref[1]]

BrowserAfterHttp == \A u \in Urls : job[BrowserJob(u)] # "none" => job[HttpJob(u)] = "completed"

\* A worker has a job of its kind and hands over only HTTP jobs; a verdict it
\* returns with names a state.
WorkersFollowWork ==
  \A w \in Workers :
    /\ on[w] # NoJob => on[w][1] = KindOf[w]
    /\ pc[w] = "handing" => KindOf[w] = "http"
    /\ pc[w] \in {"returning", "finishing"} => verdict[w].state # "none"

CarefulInv ==
  /\ OneWorkerPerJob
  /\ WorkersFollowWork
  /\ JobsRunWhileHeld
  /\ VerdictsAreTrue
  /\ ListedCanBeRetried
  /\ RecordsAreOfWaiters
  /\ FileNumbersAreNew
  /\ BrowserAfterHttp
  /\ DoneIsStored

-----------------------------------------------------------------------------
(***************************************************************************)
(* The inductive invariant behind WaitersAreInTheFile, in every state.     *)
(***************************************************************************)
\* A process that is down has no work, and closed its Writer if it left in order.
DownIsIdle ==
  \A p \in Procs :
    /\ proc[p] \in {"off", "exited"} => \A w \in WorkersOf(p) : pc[w] = "idle"
    /\ writer[p] = "closed" => proc[p] = "exited"

WaitersHaveARecord ==
  \A w \in Workers : pc[w] = "waiting" => w \in WaitingIn(part[ProcOf[w]])

OneRecordPerWaiter ==
  \A p \in Procs : \A i, k \in DOMAIN part[p] :
    part[p][i].worker = part[p][k].worker => i = k

OnlyTheOpenFileHasRecords == \A p \in Procs : part[p] # <<>> => writer[p] = "open"

WritersInv ==
  /\ DownIsIdle
  /\ RecordsAreOfWaiters
  /\ WaitersHaveARecord
  /\ OneRecordPerWaiter
  /\ OnlyTheOpenFileHasRecords

-----------------------------------------------------------------------------
\* What the operators of the job table return.

LEMMA InsertedType ==
  ASSUME NEW table \in [Jobs -> States], NEW S
  PROVE  Inserted(table, S) \in [Jobs -> States]
BY DEF Inserted, States

LEMMA SetIfRunningType ==
  ASSUME NEW table \in [Jobs -> States], NEW j, NEW s \in States
  PROVE  SetIfRunning(table, j, s) \in [Jobs -> States]
BY DEF SetIfRunning

Verdicts == [state : States, recorded : BOOLEAN, ref : Refs]

LEMMA MergedType ==
  ASSUME NEW out \in [Jobs -> Refs], NEW j, NEW v \in Verdicts
  PROVE  Merged(out, j, v) \in [Jobs -> Refs]
BY DEF Merged, Verdicts

LEMMA VerdictTypes ==
  /\ NoVerdict \in Verdicts
  /\ Snooze \in Verdicts
  /\ Dead \in Verdicts
  /\ \A recorded \in BOOLEAN : Failed(recorded) \in Verdicts
  /\ \A ref \in Refs : Done(ref) \in Verdicts
  /\ Done(NoRef) \in Verdicts
BY DEF NoVerdict, Snooze, Dead, Failed, Done, Verdict, Verdicts, Refs, States

LEMMA JobsType ==
  /\ \A u \in Urls : HttpJob(u) \in Jobs /\ BrowserJob(u) \in Jobs
  /\ \A j \in Jobs : UrlOf(j) \in Urls /\ j[1] \in Kinds
  /\ NoJob \notin Jobs
BY DEF HttpJob, BrowserJob, Jobs, Kinds, UrlOf, NoJob

-----------------------------------------------------------------------------
\* What the operators of the page files return.

PartRecords == [worker : Workers, job : Jobs]

LEMMA RefOfIsALine ==
  ASSUME NEW p \in Procs, NEW number \in Nat, NEW records \in Seq(PartRecords),
         NEW w \in WaitingIn(records)
  PROVE  \E i \in DOMAIN records :
           /\ records[i].worker = w
           /\ RefOf(p, number, records, w) = <<p, number, i>>
BY DEF RefOf, WaitingIn

LEMMA FilesType ==
  ASSUME NEW p \in Procs, NEW number \in Nat, NEW records \in Seq(PartRecords)
  PROVE  /\ Lines(p, number, records) \subseteq Records
         /\ \A w \in WaitingIn(records) : RefOf(p, number, records, w) \in Refs
         /\ WaitingIn(records) \subseteq Workers
<1>1. \A i \in DOMAIN records : i \in Nat /\ records[i] \in PartRecords
  OBVIOUS
<1>2. Lines(p, number, records) \subseteq Records
  BY <1>1 DEF Lines, Records, Files, PartRecords
<1>3. \A w \in WaitingIn(records) : RefOf(p, number, records, w) \in Refs
  BY <1>1, RefOfIsALine DEF Refs, Files
<1>4. WaitingIn(records) \subseteq Workers
  BY <1>1 DEF WaitingIn, PartRecords
<1> QED BY <1>2, <1>3, <1>4

LEMMA NumberedType ==
  ASSUME TypeOK, NEW p \in Procs
  PROVE  Numbered(p) \in Nat
BY DEF TypeOK, Numbered
-----------------------------------------------------------------------------
\* Type correctness, one lemma per group of actions.

LEMMA EmptiedPart ==
  ASSUME TypeOK, NEW p \in Procs
  PROVE  [part EXCEPT ![p] = <<>>] \in [Procs -> Seq([worker : Workers, job : Jobs])]
<1>1. <<>> \in Seq([worker : Workers, job : Jobs])
  OBVIOUS
<1> QED BY <1>1 DEF TypeOK

LEMMA QueueActionsType ==
  ASSUME TypeOK,
         ImportUrls \/ (\E r \in Retriers : RetryCommand(r)) \/ (\E j \in Jobs : Rescue(j))
  PROVE  TypeOK'
<1>1. CASE ImportUrls
  <2>1. PICK S \in SUBSET Urls : Import(S)
    BY <1>1 DEF ImportUrls
  <2>2. job' \in [Jobs -> States]
    BY <2>1, InsertedType DEF Import, TypeOK
  <2> QED BY <1>1, <2>1, <2>2 DEF ImportUrls, Import, TypeOK, writerVars, procVars, workVars
<1>2. ASSUME NEW r \in Retriers, RetryCommand(r)
      PROVE  TypeOK'
  <2>1. CASE RetryList(r) /\ retries' = retries + 1 /\ UNCHANGED <<writerVars, procVars, workVars>>
    <3>1. listed' \in [Retriers -> SUBSET Jobs]
      BY <2>1 DEF RetryList, TypeOK
    <3>2. retries' \in Nat
      BY <2>1 DEF TypeOK
    <3> QED BY <2>1, <3>1, <3>2 DEF RetryList, TypeOK, writerVars, procVars, workVars
  <2>2. ASSUME NEW j \in Jobs, Retry(r, j), UNCHANGED <<writerVars, procVars, workVars, retries>>
        PROVE  TypeOK'
    BY <2>2 DEF Retry, TypeOK, States, writerVars, procVars, workVars
  <2>3. CASE RetryStops(r) /\ UNCHANGED <<writerVars, procVars, workVars, retries>>
    BY <2>3 DEF RetryStops, TypeOK, writerVars, procVars, workVars
  <2> QED BY <1>2, <2>1, <2>2, <2>3 DEF RetryCommand
<1>3. ASSUME NEW j \in Jobs, Rescue(j)
      PROVE  TypeOK'
  BY <1>3 DEF Rescue, TypeOK, States, writerVars, procVars, workVars
<1> QED BY <1>1, <1>2, <1>3

LEMMA ProcActionsType ==
  ASSUME TypeOK, NEW p \in Procs,
         \/ Start(p) \/ Cancel(p) \/ StopAndCancel(p) \/ StopWhenEmpty(p)
         \/ Exit(p) \/ Crash(p)
  PROVE  TypeOK'
<1> USE DEF TypeOK, ProcStates, queueVars, writerVars, workVars
<1>1. CASE Start(p)
  <2>1. part' \in [Procs -> Seq([worker : Workers, job : Jobs])]
    BY <1>1, EmptiedPart DEF Start, NewWriter
  <2>2. gate' \in [Procs -> [Hosts -> Nat]] /\ runs' \in Nat
    BY <1>1 DEF Start
  <2> QED BY <1>1, <2>1, <2>2 DEF Start, NewWriter
<1>2. CASE Cancel(p) \/ StopAndCancel(p) \/ StopWhenEmpty(p)
  BY <1>2 DEF Cancel, StopAndCancel, StopWhenEmpty
<1>3. CASE Exit(p)
  BY <1>3 DEF Exit, Close
<1>4. CASE Crash(p)
  <2>1. part' \in [Procs -> Seq([worker : Workers, job : Jobs])]
    BY <1>4, EmptiedPart DEF Crash, LoseWriter
  <2>2. gate' \in [Procs -> [Hosts -> Nat]] /\ crashes' \in Nat
    BY <1>4 DEF Crash
  <2>3. /\ pc' \in [Workers -> PcStates]
        /\ on' \in [Workers -> Jobs \union {NoJob}]
    BY <1>4 DEF Crash, PcStates
  <2>4. verdict' \in [Workers -> Verdicts]
    BY <1>4, VerdictTypes DEF Crash, Verdicts
  <2> QED BY <1>4, <2>1, <2>2, <2>3, <2>4 DEF Crash, LoseWriter, Verdicts
<1> QED BY <1>1, <1>2, <1>3, <1>4

LEMMA FileActionsType ==
  ASSUME TypeOK, NEW p \in Procs, NEW records \in Seq(PartRecords)
  PROVE  /\ Answer(p, records) =>
              /\ pages' \subseteq Records
              /\ part' \in [Procs -> Seq(PartRecords)]
              /\ sequence' \in [Procs -> Nat]
              /\ writer' = writer
              /\ pc' \in [Workers -> PcStates]
              /\ verdict' \in [Workers -> Verdicts]
              /\ on' = on /\ proc' = proc
         /\ \A rejected : GiveUp(p) /\ SinkFails(p, rejected) =>
              /\ pages' = pages
              /\ part' \in [Procs -> Seq(PartRecords)]
              /\ sequence' \in [Procs -> Nat]
              /\ writer' \in [Procs -> {"none", "open", "failed", "closed"}]
              /\ pc' \in [Workers -> PcStates]
              /\ verdict' \in [Workers -> Verdicts]
              /\ on' = on
              /\ proc' \in [Procs -> ProcStates]
<1> USE DEF TypeOK, PartRecords
<1>1. Numbered(p) \in Nat
  BY NumberedType
<1>2. /\ Lines(p, Numbered(p), records) \subseteq Records
      /\ \A w \in WaitingIn(records) : RefOf(p, Numbered(p), records, w) \in Refs
  BY <1>1, FilesType
<1>3. ASSUME Answer(p, records)
      PROVE  verdict' \in [Workers -> Verdicts]
  <2>1. \A w \in Blocked(records) : Done(RefOf(p, Numbered(p), records, w)) \in Verdicts
    BY <1>2, VerdictTypes DEF Blocked
  <2> QED BY <1>3, <2>1 DEF Answer, Verdicts
<1>4. ASSUME Answer(p, records)
      PROVE  /\ pages' \subseteq Records
             /\ part' \in [Procs -> Seq(PartRecords)]
             /\ sequence' \in [Procs -> Nat]
             /\ writer' = writer
             /\ pc' \in [Workers -> PcStates]
             /\ on' = on /\ proc' = proc
  <2>1. part' \in [Procs -> Seq(PartRecords)]
    BY <1>4, EmptiedPart DEF Answer, Rename
  <2>2. pc' \in [Workers -> PcStates]
    BY <1>4 DEF Answer, PcStates
  <2> QED BY <1>1, <1>2, <1>4, <2>1, <2>2 DEF Answer, Rename
<1>5. ASSUME NEW rejected, GiveUp(p), SinkFails(p, rejected)
      PROVE  /\ pages' = pages
             /\ part' \in [Procs -> Seq(PartRecords)]
             /\ sequence' \in [Procs -> Nat]
             /\ writer' \in [Procs -> {"none", "open", "failed", "closed"}]
             /\ pc' \in [Workers -> PcStates]
             /\ verdict' \in [Workers -> Verdicts]
             /\ on' = on
             /\ proc' \in [Procs -> ProcStates]
  <2>1. verdict' \in [Workers -> Verdicts]
    BY <1>5, VerdictTypes DEF SinkFails, Verdicts
  <2>2. proc' \in [Procs -> ProcStates]
    BY <1>5 DEF SinkFails, ProcStates
  <2>3. part' \in [Procs -> Seq(PartRecords)]
    BY <1>5, EmptiedPart DEF GiveUp
  <2>4. pc' \in [Workers -> PcStates]
    BY <1>5 DEF SinkFails, PcStates
  <2> QED BY <1>1, <1>5, <2>1, <2>2, <2>3, <2>4 DEF GiveUp, SinkFails
<1> QED BY <1>3, <1>4, <1>5
LEMMA WorkerProc ==
  \A w \in Workers : ProcOf[w] \in Procs /\ KindOf[w] \in Kinds
BY BatchAssumption

\* A worker on no job waits on no job's host gate: HostOf is used on jobs only.
LEMMA GateType ==
  ASSUME TypeOK, NEW w \in Workers, Release(w)
  PROVE  gate' \in [Procs -> [Hosts -> Nat]]
<1>1. \A n \in Nat : (IF n <= 1 THEN 0 ELSE n - 1) \in Nat
  OBVIOUS
<1> DEFINE p == ProcOf[w]  h == HostOf(w)
<1>2. gate' = [gate EXCEPT ![p] = [gate[p] EXCEPT ![h] =
                 IF gate[p][h] <= 1 THEN 0 ELSE gate[p][h] - 1]]
  BY DEF Release
<1>3. p \in Procs /\ gate[p] \in [Hosts -> Nat]
  BY WorkerProc DEF TypeOK
<1>4. [gate[p] EXCEPT ![h] = IF gate[p][h] <= 1 THEN 0 ELSE gate[p][h] - 1]
        \in [Hosts -> Nat]
  <2>1. CASE h \in Hosts
    BY <1>1, <1>3, <2>1
  <2>2. CASE h \notin Hosts
    BY <1>3, <2>2
  <2> QED BY <2>1, <2>2
<1> QED BY <1>2, <1>3, <1>4 DEF TypeOK

\* TypeOK is not inductive without IdleHasNoJob: a record of the page files must
\* be of some job.
LEMMA WorkerActionsType ==
  ASSUME TypeOK, IdleHasNoJob, NEW w \in Workers, WorkerStep(w)
  PROVE  TypeOK'
<1> DEFINE p == ProcOf[w]
<1>p. p \in Procs
  BY WorkerProc
<1>1. ASSUME NEW j \in Jobs, Work(w, j)
      PROVE  TypeOK'
  <2> DEFINE h == Host[UrlOf(j)]
  <2>1. h \in Hosts
    BY JobsType, BatchAssumption
  <2>2. gate' \in [Procs -> [Hosts -> Nat]]
    BY <1>1, <1>p, <2>1 DEF Work, TypeOK
  <2>3. verdict' \in [Workers -> Verdicts]
    BY <1>1, VerdictTypes DEF Work, TypeOK, Verdicts
  <2>4. /\ job' \in [Jobs -> States]
        /\ pc' \in [Workers -> PcStates]
        /\ on' \in [Workers -> Jobs \union {NoJob}]
    BY <1>1 DEF Work, TypeOK, States, PcStates
  <2> QED BY <1>1, <2>2, <2>3, <2>4 DEF Work, TypeOK, Verdicts, writerVars
<1>2. ASSUME NEW v \in Verdicts, Return(w, v)
      PROVE  /\ pc' \in [Workers -> PcStates]
             /\ verdict' \in [Workers -> Verdicts]
             /\ on' = on
  BY <1>2 DEF Return, TypeOK, PcStates, Verdicts
<1>3. CASE PutBack(w)
  BY <1>2, <1>3, VerdictTypes
  DEF PutBack, TypeOK, Verdicts, queueVars, writerVars, procVars
<1>4. CASE Loaded(w)
  <2>1. /\ pc' \in [Workers -> PcStates]
        /\ verdict' \in [Workers -> Verdicts]
        /\ on' = on
    BY <1>2, <1>4, VerdictTypes DEF Loaded, TypeOK, PcStates, Verdicts
  <2> QED BY <1>4, <2>1 DEF Loaded, TypeOK, Verdicts, queueVars, writerVars, procVars
<1>5. CASE Add(w)
  <2> DEFINE records == Append(part[p], Pending(w, on[w]))
  <2>1. on[w] \in Jobs
    BY <1>5 DEF Add, IdleHasNoJob, TypeOK
  <2>2. records \in Seq(PartRecords)
    <3>1. Pending(w, on[w]) \in PartRecords
      BY <2>1 DEF Pending, PartRecords
    <3>2. part[p] \in Seq(PartRecords)
      BY <1>p DEF TypeOK, PartRecords
    <3> QED BY <3>1, <3>2, AppendProperties
  <2>3. CASE KeepOpen(p, records) /\ pc' = [pc EXCEPT ![w] = "waiting"]
             /\ UNCHANGED <<on, verdict, proc>>
    <3>1. part' \in [Procs -> Seq(PartRecords)]
      BY <2>2, <2>3 DEF KeepOpen, TypeOK, PartRecords
    <3>2. sequence' \in [Procs -> Nat]
      BY <2>3, <1>p, NumberedType DEF KeepOpen, TypeOK
    <3>3. pc' \in [Workers -> PcStates]
      BY <2>3 DEF TypeOK, PcStates
    <3> QED BY <1>5, <2>3, <3>1, <3>2, <3>3 DEF Add, KeepOpen, TypeOK, PartRecords, queueVars
  <2>4. CASE Answer(p, records)
    BY <1>5, <1>p, <2>2, <2>4, FileActionsType DEF Add, TypeOK, Verdicts, PartRecords, queueVars
  <2>5. CASE GiveUp(p) /\ SinkFails(p, Blocked(records))
    BY <1>5, <1>p, <2>2, <2>5, FileActionsType DEF Add, TypeOK, Verdicts, PartRecords, queueVars
  <2> QED BY <1>5, <2>3, <2>4, <2>5 DEF Add
<1>6. CASE AddRejected(w)
  <2>1. /\ pc' \in [Workers -> PcStates]
        /\ verdict' \in [Workers -> Verdicts]
        /\ on' = on
        /\ proc' \in [Procs -> ProcStates]
    BY <1>6, VerdictTypes DEF AddRejected, SinkFails, TypeOK, PcStates, ProcStates, Verdicts
  <2> QED BY <1>6, <2>1 DEF AddRejected, TypeOK, Verdicts, queueVars, writerVars
<1>7. CASE AddTimesOut(w)
  BY <1>2, <1>7, VerdictTypes
  DEF AddTimesOut, TypeOK, Verdicts, queueVars, writerVars, procVars
<1>8. CASE HandOff(w)
  <2>1. job' \in [Jobs -> States]
    <3>1. SetIfRunning(job, on[w], "completed") \in [Jobs -> States]
      BY SetIfRunningType DEF TypeOK, States
    <3> QED BY <1>8, <3>1, InsertedType DEF HandOff
  <2>2. output' \in [Jobs -> Refs]
    BY <1>8, MergedType, VerdictTypes DEF HandOff, TypeOK
  <2>3. /\ pc' \in [Workers -> PcStates]
        /\ verdict' \in [Workers -> Verdicts]
        /\ on' = on
    BY <1>2, <1>8, VerdictTypes DEF HandOff
  <2> QED BY <1>8, <2>1, <2>2, <2>3 DEF HandOff, TypeOK, Verdicts, writerVars, procVars
<1>9. CASE HandOffFails(w)
  BY <1>2, <1>9, VerdictTypes
  DEF HandOffFails, TypeOK, Verdicts, queueVars, writerVars, procVars
<1>10. CASE Release(w)
  <2>1. pc' \in [Workers -> PcStates]
    BY <1>10 DEF Release, TypeOK, PcStates
  <2> QED BY <1>10, <2>1, GateType DEF Release, TypeOK, queueVars, writerVars
<1>11. CASE Complete(w)
  <2>1. job' \in [Jobs -> States]
    <3>1. verdict[w].state \in States
      BY DEF TypeOK
    <3> QED BY <1>11, <3>1, SetIfRunningType DEF Complete, TypeOK
  <2>2. output' \in [Jobs -> Refs]
    <3>1. verdict[w] \in Verdicts
      BY DEF TypeOK, Verdicts
    <3> QED BY <1>11, <3>1, MergedType DEF Complete, TypeOK
  <2>3. /\ pc' \in [Workers -> PcStates]
        /\ on' \in [Workers -> Jobs \union {NoJob}]
    BY <1>11 DEF Complete, TypeOK, PcStates
  <2>4. verdict' \in [Workers -> Verdicts]
    BY <1>11, VerdictTypes DEF Complete, TypeOK, Verdicts
  <2> QED BY <1>11, <2>1, <2>2, <2>3, <2>4 DEF Complete, TypeOK, Verdicts, writerVars, procVars
<1> QED BY <1>1, <1>3, <1>4, <1>5, <1>6, <1>7, <1>8, <1>9, <1>10, <1>11 DEF WorkerStep
LEMMA TickType ==
  ASSUME TypeOK, NEW p \in Procs, Tick(p)
  PROVE  TypeOK'
<1>1. part[p] \in Seq(PartRecords)
  BY DEF TypeOK, PartRecords
<1>2. CASE Answer(p, part[p])
  BY <1>1, <1>2, FileActionsType DEF Tick, TypeOK, Verdicts, PartRecords, queueVars
<1>3. CASE GiveUp(p) /\ SinkFails(p, Blocked(part[p]))
  BY <1>1, <1>3, FileActionsType DEF Tick, TypeOK, Verdicts, PartRecords, queueVars
<1> QED BY <1>2, <1>3 DEF Tick

LEMMA IdleStep ==
  ASSUME TypeOK, IdleHasNoJob, Next
  PROVE  IdleHasNoJob'
<1> USE DEF IdleHasNoJob
<1>1. CASE UNCHANGED workVars
  BY <1>1 DEF workVars
<1>2. ASSUME NEW p \in Procs, Crash(p)
      PROVE  IdleHasNoJob'
  BY <1>2 DEF Crash, TypeOK
<1>3. ASSUME NEW p \in Procs, NEW records, Answer(p, records) \/ SinkFails(p, Blocked(records))
      PROVE  IdleHasNoJob'
  BY <1>3 DEF Answer, SinkFails, Blocked, TypeOK
<1>4. ASSUME NEW w \in Workers, WorkerStep(w)
      PROVE  IdleHasNoJob'
  <2>1. ASSUME NEW j \in Jobs, Work(w, j)
        PROVE  IdleHasNoJob'
    BY <2>1, JobsType DEF Work, TypeOK
  <2>2. ASSUME NEW v, Return(w, v), pc[w] # "idle"
        PROVE  IdleHasNoJob'
    BY <2>2 DEF Return, TypeOK
  <2>3. CASE PutBack(w) \/ AddTimesOut(w) \/ HandOff(w) \/ HandOffFails(w)
    BY <2>2, <2>3 DEF PutBack, AddTimesOut, HandOff, HandOffFails
  <2>4. CASE Loaded(w)
    BY <2>2, <2>4 DEF Loaded, TypeOK
  <2>5. CASE Add(w)
    BY <1>3, <2>5, WorkerProc DEF Add, TypeOK
  <2>6. CASE AddRejected(w)
    BY <2>6 DEF AddRejected, SinkFails, TypeOK
  <2>7. CASE Release(w)
    BY <2>7 DEF Release, TypeOK
  <2>8. CASE Complete(w)
    BY <2>8 DEF Complete, TypeOK
  <2> QED BY <1>4, <2>1, <2>3, <2>4, <2>5, <2>6, <2>7, <2>8 DEF WorkerStep
<1>5. ASSUME NEW p \in Procs, Tick(p)
      PROVE  IdleHasNoJob'
  BY <1>3, <1>5 DEF Tick
<1>6. ASSUME NEW p \in Procs, ProcStep(p)
      PROVE  IdleHasNoJob'
  BY <1>1, <1>2, <1>5, <1>6
  DEF ProcStep, Start, Cancel, StopAndCancel, StopWhenEmpty, Exit
<1>7. CASE ImportUrls \/ (\E r \in Retriers : RetryCommand(r)) \/ (\E j \in Jobs : Rescue(j))
  BY <1>1, <1>7 DEF ImportUrls, RetryCommand, Rescue
<1> QED BY <1>4, <1>6, <1>7 DEF Next

\* Every reachable state has the shape TypeOK gives it, whatever the numbers of
\* URLs, processes, workers and `retry` commands, with and without Overrun.
THEOREM TypeCorrect == Spec => [](TypeOK /\ IdleHasNoJob)
<1>1. Init => TypeOK /\ IdleHasNoJob
  <2> SUFFICES ASSUME Init PROVE TypeOK /\ IdleHasNoJob
    OBVIOUS
  <2>1. /\ verdict \in [Workers -> Verdicts]
        /\ on \in [Workers -> Jobs \union {NoJob}]
        /\ pc \in [Workers -> PcStates]
    BY VerdictTypes DEF Init, PcStates
  <2>2. /\ job \in [Jobs -> States]
        /\ output \in [Jobs -> Refs]
        /\ listed \in [Retriers -> SUBSET Jobs]
    BY DEF Init, QueueInit, States, Refs
  <2>3. part \in [Procs -> Seq([worker : Workers, job : Jobs])]
    BY DEF Init, WriterInit
  <2>4. /\ writer \in [Procs -> {"none", "open", "failed", "closed"}]
        /\ sequence \in [Procs -> Nat]
        /\ pages \subseteq Records
    BY DEF Init, WriterInit
  <2>5. /\ proc \in [Procs -> ProcStates]
        /\ gate \in [Procs -> [Hosts -> Nat]]
        /\ runs \in Nat /\ crashes \in Nat /\ retries \in Nat
    BY DEF Init, ProcStates
  <2>6. IdleHasNoJob
    BY DEF Init, IdleHasNoJob
  <2> QED BY <2>1, <2>2, <2>3, <2>4, <2>5, <2>6 DEF TypeOK, Verdicts
<1>2. ASSUME TypeOK /\ IdleHasNoJob, [Next]_vars
      PROVE  (TypeOK /\ IdleHasNoJob)'
  <2>1. CASE Next
    <3>1. ASSUME NEW p \in Procs, ProcStep(p)
          PROVE  TypeOK'
      BY <1>2, <3>1, ProcActionsType, TickType DEF ProcStep
    <3>2. TypeOK'
      BY <1>2, <2>1, <3>1, QueueActionsType, WorkerActionsType DEF Next
    <3> QED BY <1>2, <2>1, <3>2, IdleStep
  <2>2. CASE UNCHANGED vars
    BY <1>2, <2>2
    DEF vars, TypeOK, IdleHasNoJob, queueVars, writerVars, procVars, workVars
  <2> QED BY <1>2, <2>1, <2>2
<1> QED BY <1>1, <1>2, PTL DEF Spec

-----------------------------------------------------------------------------
\* DoneIsStored, by the inductive invariant CarefulInv.  Each lemma takes one kind of step;
\* the assumptions they share are collected in Before.

Before == Careful /\ TypeOK /\ IdleHasNoJob /\ CarefulInv

LEMMA PartElements ==
  ASSUME TypeOK, NEW p \in Procs, NEW i \in DOMAIN part[p]
  PROVE  part[p][i].worker \in Workers /\ part[p][i].job \in Jobs
<1>1. part[p] \in Seq(PartRecords)
  BY DEF TypeOK, PartRecords
<1>2. part[p][i] \in PartRecords
  BY <1>1
<1> QED BY <1>2 DEF PartRecords

\* Steps that leave the job table, the files and the workers alone, but for an
\* open file that is dropped with its (idle) process.
LEMMA FrameStep ==
  ASSUME Before, UNCHANGED <<queueVars, sequence, pages, workVars>>,
         \/ part' = part
         \/ \E p \in Procs : part' = [part EXCEPT ![p] = <<>>]
  PROVE  CarefulInv'
<1> USE DEF Before, CarefulInv, queueVars, workVars
<1>1. OneWorkerPerJob' /\ WorkersFollowWork' /\ ListedCanBeRetried' /\ BrowserAfterHttp'
  BY DEF OneWorkerPerJob, WorkersFollowWork, ListedCanBeRetried, BrowserAfterHttp
<1>2. JobsRunWhileHeld' /\ VerdictsAreTrue' /\ DoneIsStored'
  BY DEF JobsRunWhileHeld, VerdictsAreTrue, DoneIsStored, HandedOver, Stored
<1>3. \A p \in Procs : part'[p] = part[p] \/ part'[p] = <<>>
  BY DEF TypeOK
<1>4. RecordsAreOfWaiters'
  BY <1>3 DEF RecordsAreOfWaiters
<1>5. FileNumbersAreNew'
  <2>1. \A r \in pages : r.ref[1] \in Procs
    BY DEF TypeOK, Records, Files
  <2> QED BY <1>3, <2>1 DEF FileNumbersAreNew
<1> QED BY <1>1, <1>2, <1>4, <1>5

LEMMA CrashStep ==
  ASSUME Before, NEW p \in Procs, Crash(p)
  PROVE  CarefulInv'
<1> USE DEF Before, CarefulInv, Crash, LoseWriter, queueVars
<1>0. \A w \in Workers : \/ on'[w] = on[w] /\ pc'[w] = pc[w] /\ verdict'[w] = verdict[w] /\ ProcOf[w] # p
                         \/ on'[w] = NoJob /\ ProcOf[w] = p
  BY DEF TypeOK
<1>1. OneWorkerPerJob' /\ ListedCanBeRetried' /\ BrowserAfterHttp'
  BY <1>0 DEF OneWorkerPerJob, ListedCanBeRetried, BrowserAfterHttp
<1>6. WorkersFollowWork'
  BY <1>0 DEF WorkersFollowWork, IdleHasNoJob, TypeOK
<1>2. JobsRunWhileHeld' /\ VerdictsAreTrue' /\ DoneIsStored'
  BY <1>0 DEF JobsRunWhileHeld, VerdictsAreTrue, DoneIsStored, HandedOver, Stored
<1>3. \A q \in Procs : part'[q] = IF q = p THEN <<>> ELSE part[q]
  BY DEF TypeOK
<1>4. RecordsAreOfWaiters'
  <2> SUFFICES ASSUME NEW q \in Procs, NEW i \in DOMAIN part'[q]
               PROVE  LET w == part'[q][i].worker
                      IN  pc'[w] = "waiting" /\ ProcOf[w] = q /\ on'[w] = part'[q][i].job
    BY DEF RecordsAreOfWaiters
  <2>1. q # p /\ part'[q] = part[q]
    BY <1>3
  <2>2. part[q][i].worker \in Workers
    BY <2>1, PartElements
  <2> QED BY <1>0, <2>1, <2>2 DEF RecordsAreOfWaiters
<1>5. FileNumbersAreNew'
  <2>1. \A r \in pages : r.ref[1] \in Procs
    BY DEF TypeOK, Records, Files
  <2> QED BY <1>3, <2>1 DEF FileNumbersAreNew
<1> QED BY <1>1, <1>2, <1>4, <1>5, <1>6

\* Steps of the job table that touch no job a worker has.
LEMMA TableStep ==
  ASSUME Before, UNCHANGED <<output, writerVars, workVars>>,
         ListedCanBeRetried',
         \A j \in Jobs :
           \/ job'[j] = job[j]
           \/ /\ \A w \in Workers : on[w] # j
              /\ job'[j] \in {"pending", "discarded"}
              /\ job[j] = "completed" => FALSE
              /\ job[j] = "none" => j[1] = "http"
  PROVE  CarefulInv'
<1> USE DEF Before, CarefulInv, writerVars, workVars
<1>1. OneWorkerPerJob' /\ WorkersFollowWork' /\ RecordsAreOfWaiters' /\ FileNumbersAreNew'
  BY DEF OneWorkerPerJob, WorkersFollowWork, RecordsAreOfWaiters, FileNumbersAreNew
<1>2. \A u \in Urls : /\ job'[BrowserJob(u)] = "none" <=> job[BrowserJob(u)] = "none"
                      /\ job[HttpJob(u)] = "completed" => job'[HttpJob(u)] = "completed"
  BY JobsType DEF BrowserJob
<1>3. BrowserAfterHttp'
  BY <1>2 DEF BrowserAfterHttp
<1>4. \A j \in Jobs : HandedOver(j)' <=> HandedOver(j)
  BY <1>2, JobsType DEF HandedOver
<1>5. JobsRunWhileHeld'
  <2> SUFFICES ASSUME NEW w \in Workers, on[w] # NoJob
               PROVE  \/ job'[on[w]] = "running"
                      \/ /\ pc[w] \in {"returning", "finishing"}
                         /\ job'[on[w]] = "completed"
                         /\ HandedOver(on[w])'
    BY DEF JobsRunWhileHeld
  <2>1. on[w] \in Jobs /\ job'[on[w]] = job[on[w]]
    BY DEF TypeOK
  <2> QED BY <1>4, <2>1 DEF JobsRunWhileHeld
<1>6. VerdictsAreTrue'
  <2>1. \A w \in Workers : on[w] # NoJob => on[w] \in Jobs
    BY DEF TypeOK
  <2> QED BY <1>4, <2>1 DEF VerdictsAreTrue, Stored
<1>7. DoneIsStored'
  <2>1. \A j \in Jobs : job'[j] = "completed" => job[j] = "completed"
    OBVIOUS
  <2>2. \A j \in Jobs : j[1] = "http" /\ job[BrowserJob(UrlOf(j))] # "none"
                          => job'[BrowserJob(UrlOf(j))] # "none"
    BY <1>2, JobsType
  <2> QED BY <2>1, <2>2 DEF DoneIsStored
<1> QED BY <1>1, <1>3, <1>5, <1>6, <1>7

LEMMA QueueStep ==
  ASSUME Before,
         ImportUrls \/ (\E r \in Retriers : RetryCommand(r)) \/ (\E j \in Jobs : Rescue(j))
  PROVE  CarefulInv'
<1> USE DEF Before, CarefulInv
<1>0. \A w \in Workers : on[w] # NoJob => on[w] \in Jobs /\ job[on[w]] \in {"running", "completed"}
  BY DEF TypeOK, JobsRunWhileHeld
<1>1. CASE ImportUrls
  <2>1. PICK S \in SUBSET Urls : Import(S)
    BY <1>1 DEF ImportUrls
  <2>2. \A j \in Jobs : job'[j] = job[j] \/ (job[j] = "none" /\ job'[j] = "pending" /\ j[1] = "http")
    BY <2>1 DEF Import, Inserted, HttpJob
  <2>3. ListedCanBeRetried'
    BY <2>1, <2>2 DEF Import, ListedCanBeRetried, RetryFrom, TypeOK
  <2> QED BY <1>0, <1>1, <2>1, <2>2, <2>3, JobsType, TableStep DEF ImportUrls, Import
<1>2. ASSUME NEW r \in Retriers, RetryCommand(r)
      PROVE  CarefulInv'
  <2>1. CASE RetryList(r) /\ UNCHANGED <<writerVars, procVars, workVars>>
    <3>1. ListedCanBeRetried'
      BY <2>1 DEF RetryList, ListedCanBeRetried, TypeOK
    <3> QED BY <2>1, <3>1, TableStep DEF RetryList
  <2>2. ASSUME NEW j \in Jobs, Retry(r, j), UNCHANGED <<writerVars, procVars, workVars, retries>>
        PROVE  CarefulInv'
    <3>1. job[j] \in RetryFrom
      BY <2>2 DEF Retry, ListedCanBeRetried
    <3>2. job' = [job EXCEPT ![j] = "pending"]
      BY <2>2, <3>1 DEF Retry, RetryFrom
    <3>3. \A s \in Retriers : s = r
      BY DEF Careful
    <3>4. ListedCanBeRetried'
      BY <2>2, <3>2, <3>3 DEF Retry, ListedCanBeRetried, TypeOK
    <3>5. \A w \in Workers : on[w] # j
      BY <1>0, <3>1, JobsType DEF RetryFrom
    <3> QED BY <2>2, <3>1, <3>2, <3>4, <3>5, TableStep DEF Retry, RetryFrom, TypeOK
  <2>3. CASE RetryStops(r) /\ UNCHANGED <<writerVars, procVars, workVars, retries>>
    <3>1. ListedCanBeRetried'
      BY <2>3 DEF RetryStops, ListedCanBeRetried, TypeOK
    <3> QED BY <2>3, <3>1, TableStep DEF RetryStops
  <2> QED BY <1>2, <2>1, <2>2, <2>3 DEF RetryCommand
<1>3. ASSUME NEW j \in Jobs, Rescue(j)
      PROVE  CarefulInv'
  <2>1. \A w \in Workers : on[w] # j
    BY <1>3 DEF Rescue, slow, Careful
  <2>2. ListedCanBeRetried'
    BY <1>3 DEF Rescue, ListedCanBeRetried, RetryFrom, TypeOK
  <2> QED BY <1>3, <2>1, <2>2, TableStep DEF Rescue, TypeOK
<1> QED BY <1>1, <1>2, <1>3

-----------------------------------------------------------------------------
\* Steps of one worker that only move it on, with a verdict that is not `done`.
LEMMA MoveStep ==
  ASSUME Before, NEW w \in Workers, on[w] # NoJob, pc[w] # "waiting",
         UNCHANGED <<queueVars, part, sequence, pages, on>>,
         pc[w] \in {"returning", "finishing"} => pc'[w] \in {"returning", "finishing"},
         verdict'[w] = verdict[w] \/ verdict'[w].state # "completed",
         pc'[w] = "handing" => KindOf[w] = "http",
         pc'[w] \in {"returning", "finishing"} => verdict'[w].state # "none",
         \A v \in Workers \ {w} : pc'[v] = pc[v] /\ verdict'[v] = verdict[v]
  PROVE  CarefulInv'
<1> USE DEF Before, CarefulInv, queueVars
<1>1. OneWorkerPerJob' /\ ListedCanBeRetried' /\ BrowserAfterHttp' /\ FileNumbersAreNew'
  BY DEF OneWorkerPerJob, ListedCanBeRetried, BrowserAfterHttp, FileNumbersAreNew
<1>2. JobsRunWhileHeld' /\ VerdictsAreTrue' /\ DoneIsStored'
  BY DEF JobsRunWhileHeld, VerdictsAreTrue, DoneIsStored, HandedOver, Stored
<1>3. RecordsAreOfWaiters'
  BY PartElements DEF RecordsAreOfWaiters
<1>4. WorkersFollowWork'
  BY DEF WorkersFollowWork
<1> QED BY <1>1, <1>2, <1>3, <1>4

LEMMA WorkStep ==
  ASSUME Before, NEW w \in Workers, NEW j \in Jobs, Work(w, j)
  PROVE  CarefulInv'
<1> USE DEF Before, CarefulInv, Work, writerVars
<1>0. \A v \in Workers : on[v] # NoJob => on[v] \in Jobs /\ job[on[v]] \in {"running", "completed"}
  BY DEF TypeOK, JobsRunWhileHeld
<1>1. on[w] = NoJob /\ \A v \in Workers : on[v] # j
  BY <1>0, JobsType DEF IdleHasNoJob
<1>2. /\ job'[j] = "running" /\ on'[w] = j /\ verdict'[w].state # "completed"
      /\ \A k \in Jobs \ {j} : job'[k] = job[k]
      /\ \A v \in Workers \ {w} : on'[v] = on[v] /\ pc'[v] = pc[v] /\ verdict'[v] = verdict[v]
  BY DEF TypeOK, NoVerdict, Snooze, Verdict
<1>3. OneWorkerPerJob'
  BY <1>1, <1>2 DEF OneWorkerPerJob
<1>4. ListedCanBeRetried'
  BY <1>2 DEF ListedCanBeRetried, RetryFrom, TypeOK
<1>5. \A u \in Urls : /\ job'[BrowserJob(u)] = "none" <=> job[BrowserJob(u)] = "none"
                      /\ job[HttpJob(u)] = "completed" => job'[HttpJob(u)] = "completed"
  BY <1>2, JobsType
<1>6. BrowserAfterHttp'
  BY <1>5 DEF BrowserAfterHttp
<1>7. \A k \in Jobs : HandedOver(k)' <=> HandedOver(k)
  BY <1>5, JobsType DEF HandedOver
<1>8. JobsRunWhileHeld'
  BY <1>0, <1>1, <1>2, <1>7, SMTT(30) DEF JobsRunWhileHeld
<1>9. VerdictsAreTrue'
  BY <1>0, <1>1, <1>2, <1>7, SMTT(30) DEF VerdictsAreTrue, Stored
<1>10. RecordsAreOfWaiters'
  BY <1>2, PartElements DEF RecordsAreOfWaiters
<1>11. FileNumbersAreNew'
  BY DEF FileNumbersAreNew
<1>12. DoneIsStored'
  BY <1>2, <1>7 DEF DoneIsStored, HandedOver
<1>13. WorkersFollowWork'
  BY <1>2 DEF WorkersFollowWork, Snooze, Verdict, TypeOK
<1> QED BY <1>3, <1>13, <1>4, <1>6, <1>8, <1>9, <1>10, <1>11, <1>12

LEMMA HttpJobOfUrl == \A j \in Jobs : j[1] = "http" => j = HttpJob(UrlOf(j))
BY DEF Jobs, Kinds, HttpJob, UrlOf

LEMMA HandedOverIsHttp ==
  ASSUME Before, NEW w \in Workers, HandOff(w)
  PROVE  /\ on[w] \in Jobs /\ job[on[w]] = "running" /\ UrlOf(on[w]) \in Urls
         /\ on[w] = HttpJob(UrlOf(on[w]))
<1>1. pc[w] = "handing" /\ on[w] # NoJob
  BY DEF HandOff, Before, IdleHasNoJob
<1>2. on[w] \in Jobs
  BY <1>1 DEF Before, TypeOK
<1>3. job[on[w]] = "running"
  BY <1>1 DEF Before, CarefulInv, JobsRunWhileHeld
<1>4. on[w][1] = "http"
  BY <1>1 DEF Before, CarefulInv, WorkersFollowWork
<1> QED BY <1>2, <1>3, <1>4, HttpJobOfUrl, JobsType

LEMMA HandOffStep ==
  ASSUME Before, NEW w \in Workers, HandOff(w)
  PROVE  CarefulInv'
<1> USE DEF Before, CarefulInv, writerVars
<1> DEFINE j == on[w]  u == UrlOf(on[w])
<1>1. j \in Jobs /\ job[j] = "running" /\ u \in Urls
  BY HandedOverIsHttp
<1>2. j = HttpJob(u)
  BY HandedOverIsHttp
<1>3. job[BrowserJob(u)] = "none"
  BY <1>1, <1>2 DEF BrowserAfterHttp
<1>4. BrowserJob(u) \in Jobs /\ BrowserJob(u) # j
  BY <1>1, <1>2, JobsType DEF BrowserJob, HttpJob
<1>5. /\ job'[j] = "completed" /\ job'[BrowserJob(u)] = "pending"
      /\ \A k \in Jobs \ {j, BrowserJob(u)} : job'[k] = job[k]
  BY <1>1, <1>3, <1>4 DEF HandOff, Inserted, SetIfRunning, TypeOK
<1>6. /\ on' = on /\ pc'[w] = "returning"
      /\ verdict'[w].recorded /\ verdict'[w].state # "none"
      /\ \A v \in Workers \ {w} : pc'[v] = pc[v] /\ verdict'[v] = verdict[v]
  BY DEF HandOff, Return, Done, Failed, Verdict, TypeOK
<1>7. /\ output'[j] = NoRef
      /\ \A k \in Jobs \ {j} : output'[k] = output[k]
  BY <1>1 DEF HandOff, Merged, Done, Verdict, TypeOK
<1>8. \A k \in Jobs : k = j \/ HandedOver(k) => HandedOver(k)'
  <2> SUFFICES ASSUME NEW k \in Jobs, k = j \/ HandedOver(k)
               PROVE  HandedOver(k)'
    OBVIOUS
  <2>1. CASE k = j
    <3>1. UrlOf(k) = u /\ k[1] = "http"
      BY <1>2, <2>1 DEF HttpJob
    <3> QED BY <1>5, <3>1 DEF HandedOver
  <2>2. CASE HandedOver(k)
    <3>1. BrowserJob(UrlOf(k)) \in Jobs
      BY JobsType
    <3>2. BrowserJob(UrlOf(k)) # j
      BY <1>2 DEF BrowserJob, HttpJob
    <3> QED BY <1>5, <2>2, <3>1, <3>2 DEF HandedOver
  <2> QED BY <2>1, <2>2
<1>9. \A v \in Workers : v # w /\ on[v] # NoJob =>
        on[v] \in Jobs /\ on[v] # j /\ on[v] # BrowserJob(u)
  <2>1. \A v \in Workers : on[v] # NoJob =>
          on[v] \in Jobs /\ job[on[v]] \in {"running", "completed"}
    BY DEF TypeOK, JobsRunWhileHeld
  <2>2. j # NoJob
    BY <1>1, JobsType
  <2> QED BY <1>3, <2>1, <2>2 DEF OneWorkerPerJob
<1>10. OneWorkerPerJob' /\ WorkersFollowWork'
  BY <1>6 DEF OneWorkerPerJob, WorkersFollowWork
<1>11. JobsRunWhileHeld'
  <2> SUFFICES ASSUME NEW v \in Workers, on[v] # NoJob
               PROVE  \/ job'[on[v]] = "running"
                      \/ /\ pc'[v] \in {"returning", "finishing"}
                         /\ job'[on[v]] = "completed"
                         /\ HandedOver(on[v])'
    BY <1>6 DEF JobsRunWhileHeld
  <2>1. HandedOver(on[v]) \/ v = w => HandedOver(on[v])'
    BY <1>1, <1>6, <1>8, <1>9 DEF HandedOver
  <2>2. CASE v = w
    BY <1>5, <1>6, <2>1, <2>2
  <2>3. CASE v # w
    BY <1>5, <1>6, <1>9, <2>1, <2>3 DEF JobsRunWhileHeld
  <2> QED BY <2>2, <2>3
<1>12. VerdictsAreTrue'
  <2> SUFFICES ASSUME NEW v \in Workers, on[v] # NoJob, verdict'[v].state = "completed"
               PROVE  /\ verdict'[v].recorded
                      /\ Stored(verdict'[v].ref, on[v]) \/ HandedOver(on[v])'
    BY <1>6 DEF VerdictsAreTrue, Stored, HandOff
  <2>1. HandedOver(on[v]) \/ v = w => HandedOver(on[v])'
    BY <1>1, <1>6, <1>8, <1>9 DEF HandedOver
  <2>2. CASE v = w
    BY <1>6, <2>1, <2>2
  <2>3. CASE v # w
    BY <1>6, <2>1, <2>3 DEF VerdictsAreTrue
  <2> QED BY <2>2, <2>3
<1>13. ListedCanBeRetried'
  BY <1>1, <1>3, <1>5 DEF HandOff, ListedCanBeRetried, RetryFrom, TypeOK
<1>14. RecordsAreOfWaiters'
  <2>1. pc[w] # "waiting"
    BY DEF HandOff
  <2> QED BY <1>6, <2>1, PartElements DEF HandOff, RecordsAreOfWaiters
<1>15. FileNumbersAreNew'
  BY DEF HandOff, FileNumbersAreNew
<1>16. BrowserAfterHttp'
  <2> SUFFICES ASSUME NEW v \in Urls, job'[BrowserJob(v)] # "none"
               PROVE  job'[HttpJob(v)] = "completed"
    BY DEF BrowserAfterHttp
  <2>1. CASE v = u
    BY <1>2, <1>5, <2>1
  <2>2. CASE v # u
    <3>1. /\ {BrowserJob(v), HttpJob(v)} \subseteq Jobs \ {j, BrowserJob(u)}
      BY <1>2, <2>2, JobsType DEF BrowserJob, HttpJob
    <3> QED BY <1>5, <3>1 DEF BrowserAfterHttp
  <2> QED BY <2>1, <2>2
<1>17. DoneIsStored'
  <2>1. \A k \in Jobs : job'[k] = "completed" => Stored(output'[k], k) \/ HandedOver(k)'
    BY <1>5, <1>7, <1>8 DEF DoneIsStored, HandedOver, Stored
  <2> QED BY <2>1 DEF DoneIsStored, HandedOver, Stored, HandOff
<1> QED BY <1>10, <1>11, <1>12, <1>13, <1>14, <1>15, <1>16, <1>17

LEMMA CompleteStep ==
  ASSUME Before, NEW w \in Workers, Complete(w)
  PROVE  CarefulInv'
<1> USE DEF Before, CarefulInv, writerVars
<1> DEFINE j == on[w]  v == verdict[w]
<1>1. j \in Jobs /\ v.state # "none" /\ v.state \in States
  BY DEF Complete, IdleHasNoJob, TypeOK, WorkersFollowWork
<1>2. \/ job[j] = "running" /\ job'[j] = v.state
      \/ job[j] = "completed" /\ job'[j] = "completed" /\ HandedOver(j)
  BY <1>1 DEF Complete, JobsRunWhileHeld, SetIfRunning, TypeOK, IdleHasNoJob
<1>3. \A k \in Jobs \ {j} : job'[k] = job[k] /\ output'[k] = output[k]
  BY DEF Complete, SetIfRunning, Merged, TypeOK
<1>4. /\ on'[w] = NoJob /\ pc'[w] = "idle"
      /\ \A x \in Workers \ {w} : on'[x] = on[x] /\ pc'[x] = pc[x] /\ verdict'[x] = verdict[x]
  BY DEF Complete, TypeOK
<1>5. \A k \in Jobs : job'[k] = "none" <=> job[k] = "none"
  BY <1>1, <1>2, <1>3
<1>6. \A k \in Jobs : HandedOver(k)' <=> HandedOver(k)
  BY <1>5, JobsType DEF HandedOver
<1>7. \A x \in Workers \ {w} : on[x] # NoJob => on[x] \in Jobs \ {j}
  BY <1>1, JobsType DEF OneWorkerPerJob, TypeOK
<1>8. OneWorkerPerJob' /\ WorkersFollowWork'
  BY <1>4 DEF OneWorkerPerJob, WorkersFollowWork
<1>9. JobsRunWhileHeld'
  BY <1>3, <1>4, <1>6, <1>7 DEF JobsRunWhileHeld
<1>10. VerdictsAreTrue'
  BY <1>4, <1>6, <1>7 DEF VerdictsAreTrue, Stored, Complete
<1>11. ListedCanBeRetried'
  BY <1>2, <1>3 DEF Complete, ListedCanBeRetried, RetryFrom, TypeOK
<1>12. RecordsAreOfWaiters'
  <2>1. pc[w] # "waiting"
    BY DEF Complete
  <2> QED BY <1>4, <2>1, PartElements DEF Complete, RecordsAreOfWaiters
<1>13. FileNumbersAreNew'
  BY DEF Complete, FileNumbersAreNew
<1>14. BrowserAfterHttp'
  <2> SUFFICES ASSUME NEW u \in Urls, job'[BrowserJob(u)] # "none"
               PROVE  job'[HttpJob(u)] = "completed"
    BY DEF BrowserAfterHttp
  <2>1. job[HttpJob(u)] = "completed"
    BY <1>5, JobsType DEF BrowserAfterHttp
  <2> QED BY <1>2, <1>3, <2>1, JobsType
<1>15. DoneIsStored'
  <2>1. \A k \in Jobs : job'[k] = "completed" => Stored(output'[k], k) \/ HandedOver(k)
    <3>1. ASSUME job[j] = "running", v.state = "completed"
          PROVE  Stored(output'[j], j) \/ HandedOver(j)
      <4>1. v.recorded /\ (Stored(v.ref, j) \/ HandedOver(j))
        BY <1>1, <3>1, JobsType DEF VerdictsAreTrue
      <4>2. output'[j] = v.ref
        BY <1>1, <4>1 DEF Complete, Merged, TypeOK
      <4> QED BY <4>1, <4>2
    <3>2. \A k \in Jobs : job[k] = "completed" => Stored(output[k], k) \/ HandedOver(k)
      BY DEF DoneIsStored, Stored, HandedOver
    <3> QED BY <1>2, <1>3, <3>1, <3>2
  <2> QED BY <1>6, <2>1 DEF DoneIsStored, Stored, HandedOver, Complete
<1> QED BY <1>8, <1>9, <1>10, <1>11, <1>12, <1>13, <1>14, <1>15
-----------------------------------------------------------------------------
\* Steps of the Writer.  A reply goes to the workers of the records of a file,
\* each of whom is in Add with the job of its record.
InAdd(p, records) ==
  \A i \in DOMAIN records :
    LET w == records[i].worker
    IN  w \in Workers /\ pc[w] \in {"sending", "waiting"} /\ ProcOf[w] = p
        /\ on[w] = records[i].job

LEMMA PartIsInAdd ==
  ASSUME Before, NEW p \in Procs
  PROVE  part[p] \in Seq(PartRecords) /\ InAdd(p, part[p])
<1>1. part[p] \in Seq(PartRecords)
  BY DEF Before, TypeOK, PartRecords
<1>2. \A i \in DOMAIN part[p] : part[p][i].worker \in Workers
  BY PartElements DEF Before
<1>3. \A i \in DOMAIN part[p] :
        LET w == part[p][i].worker
        IN  pc[w] = "waiting" /\ ProcOf[w] = p /\ on[w] = part[p][i].job
  BY DEF Before, CarefulInv, RecordsAreOfWaiters
<1> QED BY <1>1, <1>2, <1>3 DEF InAdd

LEMMA AppendIsInAdd ==
  ASSUME Before, NEW w \in Workers, pc[w] = "sending",
         NEW records, records = Append(part[ProcOf[w]], Pending(w, on[w]))
  PROVE  records \in Seq(PartRecords) /\ InAdd(ProcOf[w], records)
<1> DEFINE p == ProcOf[w]
<1>1. p \in Procs /\ on[w] \in Jobs
  BY WorkerProc DEF Before, IdleHasNoJob, TypeOK
<1>2. part[p] \in Seq(PartRecords) /\ InAdd(p, part[p])
  BY <1>1, PartIsInAdd
<1>3. Pending(w, on[w]) \in PartRecords
  BY <1>1 DEF Pending, PartRecords
<1>4. records \in Seq(PartRecords)
  BY <1>2, <1>3, AppendProperties
<1>5. \A i \in DOMAIN records :
        \/ i \in DOMAIN part[p] /\ records[i] = part[p][i]
        \/ records[i] = Pending(w, on[w])
  BY <1>2, <1>3, AppendProperties
<1>6. InAdd(p, records)
  BY <1>2, <1>5 DEF InAdd, Pending
<1> QED BY <1>4, <1>6

\* The number of the file that is open, or of the next one, is of no renamed file.
LEMMA NumberedIsNew ==
  ASSUME Before, NEW p \in Procs
  PROVE  /\ Numbered(p) \in Nat
         /\ \A r \in pages : r.ref[1] = p => r.ref[2] < Numbered(p)
         /\ \A r \in pages : r.ref[1] \in Procs /\ r.ref[2] \in Nat
<1>1. \A r \in pages : r.ref[1] \in Procs /\ r.ref[2] \in Nat
  BY DEF Before, TypeOK, Records, Files
<1>2. sequence[p] \in Nat
  BY DEF Before, TypeOK
<1>3. ASSUME NEW r \in pages, r.ref[1] = p
      PROVE  r.ref[2] < Numbered(p)
  BY <1>1, <1>2, <1>3 DEF Before, CarefulInv, FileNumbersAreNew, Numbered
<1> QED BY <1>1, <1>2, <1>3 DEF Numbered

LEMMA DoneFields ==
  ASSUME NEW ref
  PROVE  Done(ref).state = "completed" /\ Done(ref).recorded /\ Done(ref).ref = ref
BY DEF Done, Verdict

LEMMA AnswerStep ==
  ASSUME Before, NEW p \in Procs, NEW records \in Seq(PartRecords),
         InAdd(p, records), Answer(p, records), UNCHANGED queueVars
  PROVE  CarefulInv'
<1> USE DEF Before, CarefulInv, queueVars
<1> DEFINE n == Numbered(p)  new == Lines(p, n, records)
<1>1. /\ n \in Nat
      /\ \A r \in pages : r.ref[1] = p => r.ref[2] < n
      /\ \A r \in pages : r.ref[1] \in Procs /\ r.ref[2] \in Nat
  BY NumberedIsNew
<1>2. /\ on' = on /\ pages' = pages \union new
      /\ part'[p] = <<>> /\ sequence'[p] = n
      /\ \A q \in Procs \ {p} : part'[q] = part[q] /\ sequence'[q] = sequence[q]
  BY DEF Answer, Rename, TypeOK
<1>3. \A w \in Workers :
        \/ w \in Blocked(records) /\ pc'[w] = "returning"
           /\ verdict'[w].state = "completed" /\ verdict'[w].recorded
           /\ verdict'[w].ref = RefOf(p, n, records, w)
        \/ w \notin Blocked(records) /\ pc'[w] = pc[w] /\ verdict'[w] = verdict[w]
  BY DoneFields DEF Answer
<1>4. \A w \in Blocked(records) :
        /\ pc[w] \in {"sending", "waiting"} /\ ProcOf[w] = p
        /\ [ref |-> RefOf(p, n, records, w), job |-> on[w]] \in new
  <2> SUFFICES ASSUME NEW w \in Blocked(records)
               PROVE  /\ pc[w] \in {"sending", "waiting"} /\ ProcOf[w] = p
                      /\ [ref |-> RefOf(p, n, records, w), job |-> on[w]] \in new
    OBVIOUS
  <2>1. PICK i \in DOMAIN records : records[i].worker = w /\ RefOf(p, n, records, w) = <<p, n, i>>
    BY <1>1, RefOfIsALine DEF Blocked
  <2> QED BY <2>1 DEF InAdd, Lines
<1>5. OneWorkerPerJob' /\ ListedCanBeRetried' /\ BrowserAfterHttp'
  BY <1>2 DEF OneWorkerPerJob, ListedCanBeRetried, BrowserAfterHttp
<1>6. WorkersFollowWork'
  BY <1>2, <1>3, <1>4 DEF WorkersFollowWork
<1>7. JobsRunWhileHeld'
  BY <1>2, <1>3, <1>4 DEF JobsRunWhileHeld, HandedOver
<1>8. VerdictsAreTrue'
  <2> SUFFICES ASSUME NEW w \in Workers, on[w] # NoJob, verdict'[w].state = "completed"
               PROVE  /\ verdict'[w].recorded
                      /\ \/ [ref |-> verdict'[w].ref, job |-> on[w]] \in pages'
                         \/ HandedOver(on[w])
    BY <1>2 DEF VerdictsAreTrue, Stored, HandedOver
  <2>1. CASE w \in Blocked(records)
    BY <1>2, <1>3, <1>4, <2>1
  <2>2. CASE w \notin Blocked(records)
    BY <1>2, <1>3, <2>2 DEF VerdictsAreTrue, Stored
  <2> QED BY <2>1, <2>2
<1>9. RecordsAreOfWaiters'
  <2> SUFFICES ASSUME NEW q \in Procs, NEW i \in DOMAIN part'[q]
               PROVE  LET w == part'[q][i].worker
                      IN  pc'[w] = "waiting" /\ ProcOf[w] = q /\ on'[w] = part'[q][i].job
    BY DEF RecordsAreOfWaiters
  <2>1. q # p /\ part'[q] = part[q]
    BY <1>2
  <2>2. part[q][i].worker \in Workers /\ ProcOf[part[q][i].worker] = q
    BY <2>1, PartElements DEF RecordsAreOfWaiters
  <2>3. part[q][i].worker \notin Blocked(records)
    BY <1>4, <2>1, <2>2
  <2> QED BY <1>2, <1>3, <2>1, <2>2, <2>3 DEF RecordsAreOfWaiters
<1>10. \A r \in new : r.ref[1] = p /\ r.ref[2] = n
  BY DEF Lines
<1>11. FileNumbersAreNew'
  <2> SUFFICES ASSUME NEW r \in pages'
               PROVE  /\ r.ref[2] <= sequence'[r.ref[1]]
                      /\ part'[r.ref[1]] # <<>> => r.ref[2] < sequence'[r.ref[1]]
    BY DEF FileNumbersAreNew
  <2>1. CASE r \in new
    BY <1>1, <1>2, <1>10, <2>1
  <2>2. CASE r \in pages
    <3>1. CASE r.ref[1] = p
      BY <1>1, <1>2, <2>2, <3>1
    <3>2. CASE r.ref[1] # p
      BY <1>1, <1>2, <2>2, <3>2 DEF FileNumbersAreNew
    <3> QED BY <3>1, <3>2
  <2> QED BY <1>2, <2>1, <2>2
<1>12. DoneIsStored'
  <2>1. \A r, s \in new : r.ref = s.ref => r = s
    BY DEF Lines
  <2>2. \A r \in new, s \in pages : r.ref # s.ref
    BY <1>1, <1>10
  <2>3. \A r, s \in pages' : r.ref = s.ref => r = s
    BY <1>2, <2>1, <2>2 DEF DoneIsStored
  <2> QED BY <1>2, <2>3 DEF DoneIsStored
<1> QED BY <1>5, <1>6, <1>7, <1>8, <1>9, <1>11, <1>12

LEMMA GiveUpStep ==
  ASSUME Before, NEW p \in Procs, NEW records \in Seq(PartRecords),
         InAdd(p, records), WaitingIn(part[p]) \subseteq WaitingIn(records),
         GiveUp(p), SinkFails(p, Blocked(records)), UNCHANGED queueVars
  PROVE  CarefulInv'
<1> USE DEF Before, CarefulInv, queueVars
<1>1. /\ Numbered(p) \in Nat
      /\ \A r \in pages : r.ref[1] = p => r.ref[2] < Numbered(p)
      /\ \A r \in pages : r.ref[1] \in Procs /\ r.ref[2] \in Nat
  BY NumberedIsNew
<1>2. /\ on' = on /\ pages' = pages
      /\ part'[p] = <<>> /\ sequence'[p] = Numbered(p)
      /\ \A q \in Procs \ {p} : part'[q] = part[q] /\ sequence'[q] = sequence[q]
  BY DEF GiveUp, SinkFails, TypeOK
<1>3. \A w \in Workers :
        \/ w \in Blocked(records) /\ pc'[w] = "returning" /\ verdict'[w] = Snooze
        \/ w \notin Blocked(records) /\ pc'[w] = pc[w] /\ verdict'[w] = verdict[w]
  BY DEF SinkFails
<1>4. \A w \in Blocked(records) : pc[w] \in {"sending", "waiting"} /\ ProcOf[w] = p
  BY DEF Blocked, WaitingIn, InAdd
<1>5. OneWorkerPerJob' /\ ListedCanBeRetried' /\ BrowserAfterHttp' /\ DoneIsStored'
  BY <1>2 DEF OneWorkerPerJob, ListedCanBeRetried, BrowserAfterHttp, DoneIsStored
<1>6. WorkersFollowWork'
  BY <1>2, <1>3, <1>4 DEF WorkersFollowWork, Snooze, Verdict
<1>7. JobsRunWhileHeld'
  BY <1>2, <1>3, <1>4 DEF JobsRunWhileHeld, HandedOver
<1>8. VerdictsAreTrue'
  BY <1>2, <1>3 DEF VerdictsAreTrue, Snooze, Verdict, Stored, HandedOver
<1>9. RecordsAreOfWaiters'
  <2> SUFFICES ASSUME NEW q \in Procs, NEW i \in DOMAIN part'[q]
               PROVE  LET w == part'[q][i].worker
                      IN  pc'[w] = "waiting" /\ ProcOf[w] = q /\ on'[w] = part'[q][i].job
    BY DEF RecordsAreOfWaiters
  <2>1. q # p /\ part'[q] = part[q]
    BY <1>2
  <2>2. part[q][i].worker \in Workers /\ ProcOf[part[q][i].worker] = q
    BY <2>1, PartElements DEF RecordsAreOfWaiters
  <2>3. part[q][i].worker \notin Blocked(records)
    BY <1>4, <2>1, <2>2
  <2> QED BY <1>2, <1>3, <2>1, <2>2, <2>3 DEF RecordsAreOfWaiters
<1>10. FileNumbersAreNew'
  <2> SUFFICES ASSUME NEW r \in pages
               PROVE  /\ r.ref[2] <= sequence'[r.ref[1]]
                      /\ part'[r.ref[1]] # <<>> => r.ref[2] < sequence'[r.ref[1]]
    BY <1>2 DEF FileNumbersAreNew
  <2>1. CASE r.ref[1] = p
    BY <1>1, <1>2, <2>1
  <2>2. CASE r.ref[1] # p
    BY <1>1, <1>2, <2>2 DEF FileNumbersAreNew
  <2> QED BY <2>1, <2>2
<1> QED BY <1>5, <1>6, <1>7, <1>8, <1>9, <1>10

LEMMA KeepOpenStep ==
  ASSUME Before, NEW w \in Workers, pc[w] = "sending",
         NEW records, records = Append(part[ProcOf[w]], Pending(w, on[w])),
         KeepOpen(ProcOf[w], records), pc' = [pc EXCEPT ![w] = "waiting"],
         UNCHANGED <<queueVars, on, verdict>>
  PROVE  CarefulInv'
<1> USE DEF Before, CarefulInv, queueVars
<1> DEFINE p == ProcOf[w]
<1>1. p \in Procs
  BY WorkerProc
<1>2. records \in Seq(PartRecords) /\ InAdd(p, records)
  BY AppendIsInAdd
<1>3. /\ pages' = pages /\ part'[p] = records /\ sequence'[p] = Numbered(p)
      /\ \A q \in Procs \ {p} : part'[q] = part[q] /\ sequence'[q] = sequence[q]
  BY <1>1 DEF KeepOpen, TypeOK
<1>4. pc'[w] = "waiting" /\ \A v \in Workers \ {w} : pc'[v] = pc[v]
  BY DEF TypeOK
<1>5. OneWorkerPerJob' /\ ListedCanBeRetried' /\ BrowserAfterHttp' /\ DoneIsStored'
  BY <1>3 DEF OneWorkerPerJob, ListedCanBeRetried, BrowserAfterHttp, DoneIsStored
<1>6. WorkersFollowWork' /\ JobsRunWhileHeld' /\ VerdictsAreTrue'
  BY <1>3, <1>4
  DEF WorkersFollowWork, JobsRunWhileHeld, VerdictsAreTrue, Stored, HandedOver
<1>7. RecordsAreOfWaiters'
  <2> SUFFICES ASSUME NEW q \in Procs, NEW i \in DOMAIN part'[q]
               PROVE  LET v == part'[q][i].worker
                      IN  pc'[v] = "waiting" /\ ProcOf[v] = q /\ on[v] = part'[q][i].job
    BY DEF RecordsAreOfWaiters
  <2>1. CASE q # p
    <3>1. part'[q] = part[q]
      BY <1>3, <2>1
    <3> QED BY <1>4, <3>1, PartElements DEF RecordsAreOfWaiters
  <2>2. CASE q = p /\ i \in DOMAIN part[p]
    <3>1. part'[q][i] = part[p][i]
      BY <1>1, <1>3, <2>2, PartIsInAdd, AppendProperties, PartElements
    <3> QED BY <1>1, <1>4, <2>2, <3>1, PartElements DEF RecordsAreOfWaiters
  <2>3. CASE q = p /\ i \notin DOMAIN part[p]
    <3>1. part'[q][i] = Pending(w, on[w])
      BY <1>1, <1>3, <2>3, PartIsInAdd, AppendProperties
    <3> QED BY <1>4, <2>3, <3>1 DEF Pending
  <2> QED BY <2>1, <2>2, <2>3
<1>8. FileNumbersAreNew'
  <2>1. /\ Numbered(p) \in Nat
        /\ \A r \in pages : r.ref[1] = p => r.ref[2] < Numbered(p)
        /\ \A r \in pages : r.ref[1] \in Procs /\ r.ref[2] \in Nat
    BY <1>1, NumberedIsNew
  <2> SUFFICES ASSUME NEW r \in pages
               PROVE  /\ r.ref[2] <= sequence'[r.ref[1]]
                      /\ part'[r.ref[1]] # <<>> => r.ref[2] < sequence'[r.ref[1]]
    BY <1>3 DEF FileNumbersAreNew
  <2>2. CASE r.ref[1] = p
    BY <1>3, <2>1, <2>2
  <2>3. CASE r.ref[1] # p
    BY <1>3, <2>1, <2>3 DEF FileNumbersAreNew
  <2> QED BY <2>2, <2>3
<1> QED BY <1>5, <1>6, <1>7, <1>8
-----------------------------------------------------------------------------
LEMMA SinkFieldsOfSnooze ==
  Snooze.state = "pending" /\ Dead.state = "cancelled"
  /\ \A recorded : Failed(recorded).state = "discarded"
BY DEF Snooze, Dead, Failed, Verdict

LEMMA WorkerStepKeepsInv ==
  ASSUME Before, NEW w \in Workers, WorkerStep(w)
  PROVE  CarefulInv'
<1> DEFINE p == ProcOf[w]  records == Append(part[p], Pending(w, on[w]))
<1>p. p \in Procs
  BY WorkerProc
<1>1. ASSUME NEW v, Return(w, v), v.state \notin {"completed", "none"},
             pc[w] \notin {"idle", "waiting"},
             UNCHANGED <<queueVars, writerVars>>
      PROVE  CarefulInv'
  <2>1. on[w] # NoJob
    BY <1>1 DEF Before, IdleHasNoJob
  <2>2. /\ on' = on /\ pc'[w] = "returning" /\ verdict'[w] = v
        /\ \A x \in Workers \ {w} : pc'[x] = pc[x] /\ verdict'[x] = verdict[x]
    BY <1>1 DEF Return, Before, TypeOK
  <2> QED BY <1>1, <2>1, <2>2, MoveStep DEF writerVars
<1>2. ASSUME NEW j \in Jobs, Work(w, j)
      PROVE  CarefulInv'
  BY <1>2, WorkStep
<1>3. CASE PutBack(w) \/ AddTimesOut(w) \/ HandOffFails(w)
  BY <1>1, <1>3, SinkFieldsOfSnooze DEF PutBack, AddTimesOut, HandOffFails
<1>4. CASE Loaded(w)
  <2>1. CASE Return(w, Dead) \/ \E recorded \in BOOLEAN : Return(w, Failed(recorded))
    BY <1>1, <1>4, <2>1, SinkFieldsOfSnooze DEF Loaded
  <2>2. ASSUME UNCHANGED <<on, verdict>>,
               \/ pc' = [pc EXCEPT ![w] = "sending"]
               \/ KindOf[w] = "http" /\ pc' = [pc EXCEPT ![w] = "handing"]
        PROVE  CarefulInv'
    <3>1. on[w] # NoJob /\ pc[w] = "loading"
      BY <1>4 DEF Loaded, Before, IdleHasNoJob
    <3>2. \/ pc'[w] = "sending"
          \/ pc'[w] = "handing" /\ KindOf[w] = "http"
      BY <2>2 DEF Before, TypeOK
    <3>3. \A x \in Workers \ {w} : pc'[x] = pc[x] /\ verdict'[x] = verdict[x]
      BY <2>2 DEF Before, TypeOK
    <3> QED BY <1>4, <2>2, <3>1, <3>2, <3>3, MoveStep DEF Loaded, writerVars
  <2> QED BY <1>4, <2>1, <2>2 DEF Loaded
<1>5. CASE Add(w)
  <2>1. pc[w] = "sending" /\ UNCHANGED queueVars
    BY <1>5 DEF Add
  <2>2. records \in Seq(PartRecords) /\ InAdd(p, records)
    BY <2>1, AppendIsInAdd
  <2>3. CASE KeepOpen(p, records) /\ pc' = [pc EXCEPT ![w] = "waiting"]
             /\ UNCHANGED <<on, verdict, proc>>
    BY <2>1, <2>3, KeepOpenStep
  <2>4. CASE Answer(p, records)
    BY <1>p, <2>1, <2>2, <2>4, AnswerStep
  <2>5. CASE GiveUp(p) /\ SinkFails(p, Blocked(records))
    <3>1. WaitingIn(part[p]) \subseteq WaitingIn(records)
      <4>1. on[w] \in Jobs
        BY <2>1 DEF Before, IdleHasNoJob, TypeOK
      <4>2. part[p] \in Seq(PartRecords) /\ Pending(w, on[w]) \in PartRecords
        BY <1>p, <4>1, PartIsInAdd DEF Pending, PartRecords
      <4>3. \A i \in DOMAIN part[p] : i \in DOMAIN records /\ records[i] = part[p][i]
        BY <4>2, AppendProperties
      <4> QED BY <4>3 DEF WaitingIn
    <3> QED BY <1>p, <2>1, <2>2, <2>5, <3>1, GiveUpStep
  <2> QED BY <1>5, <2>3, <2>4, <2>5 DEF Add
<1>6. CASE AddRejected(w)
  <2>1. /\ on' = on /\ pc'[w] = "returning" /\ verdict'[w] = Snooze
        /\ \A x \in Workers \ {w} : pc'[x] = pc[x] /\ verdict'[x] = verdict[x]
    BY <1>6 DEF AddRejected, SinkFails, Before, TypeOK
  <2>2. on[w] # NoJob /\ pc[w] = "sending"
    BY <1>6 DEF AddRejected, Before, IdleHasNoJob
  <2> QED BY <1>6, <2>1, <2>2, SinkFieldsOfSnooze, MoveStep DEF AddRejected, writerVars
<1>7. CASE HandOff(w)
  BY <1>7, HandOffStep
<1>8. CASE Release(w)
  <2>1. /\ on' = on /\ pc[w] = "returning" /\ pc'[w] = "finishing" /\ verdict' = verdict
        /\ \A x \in Workers \ {w} : pc'[x] = pc[x]
    BY <1>8 DEF Release, Before, TypeOK
  <2>2. on[w] # NoJob /\ verdict[w].state # "none"
    BY <2>1 DEF Before, IdleHasNoJob, CarefulInv, WorkersFollowWork
  <2> QED BY <1>8, <2>1, <2>2, MoveStep DEF Release, writerVars
<1>9. CASE Complete(w)
  BY <1>9, CompleteStep
<1> QED BY <1>2, <1>3, <1>4, <1>5, <1>6, <1>7, <1>8, <1>9 DEF WorkerStep

LEMMA ProcStepKeepsInv ==
  ASSUME Before, NEW p \in Procs, ProcStep(p)
  PROVE  CarefulInv'
<1>1. CASE \/ Start(p) \/ Cancel(p) \/ StopAndCancel(p) \/ StopWhenEmpty(p) \/ Exit(p)
  BY <1>1, FrameStep
  DEF Start, NewWriter, Cancel, StopAndCancel, StopWhenEmpty, Exit, Close, writerVars
<1>2. CASE Crash(p)
  BY <1>2, CrashStep
<1>3. CASE Tick(p)
  BY <1>3, PartIsInAdd, AnswerStep, GiveUpStep DEF Tick
<1> QED BY <1>1, <1>2, <1>3 DEF ProcStep

LEMMA CarefulInvHolds ==
  ASSUME Careful
  PROVE  Spec => []CarefulInv
<1>1. Init => CarefulInv
  <2> SUFFICES ASSUME Init PROVE CarefulInv
    OBVIOUS
  <2> USE DEF Init, QueueInit, WriterInit
  <2>1. \A w \in Workers : on[w] = NoJob /\ pc[w] = "idle"
    OBVIOUS
  <2>2. OneWorkerPerJob /\ JobsRunWhileHeld /\ VerdictsAreTrue /\ WorkersFollowWork
    BY <2>1 DEF OneWorkerPerJob, JobsRunWhileHeld, VerdictsAreTrue, WorkersFollowWork
  <2>3. ListedCanBeRetried /\ BrowserAfterHttp /\ DoneIsStored
    BY JobsType DEF ListedCanBeRetried, BrowserAfterHttp, DoneIsStored
  <2>4. RecordsAreOfWaiters /\ FileNumbersAreNew
    BY DEF RecordsAreOfWaiters, FileNumbersAreNew
  <2> QED BY <2>2, <2>3, <2>4 DEF CarefulInv
<1>2. ASSUME TypeOK /\ IdleHasNoJob, CarefulInv, [Next]_vars
      PROVE  CarefulInv'
  <2>0. Before
    BY <1>2 DEF Before
  <2>1. CASE Next
    BY <2>0, <2>1, QueueStep, ProcStepKeepsInv, WorkerStepKeepsInv DEF Next
  <2>2. CASE UNCHANGED vars
    BY <2>0, <2>2, FrameStep DEF vars, writerVars
  <2> QED BY <1>2, <2>1, <2>2
<1> QED BY <1>1, <1>2, TypeCorrect, PTL DEF Spec

\* A page reported as done can be read at its contentRef, where no other page is,
\* however interrupts, crashes, failing disks and retries fall between the steps
\* of any number of workers, if writing never outlasts --lease and `retry` runs
\* alone (batch.go store and handOff, writer.go finish).
THEOREM DoneStaysStored == Careful => (Spec => []DoneIsStored)
<1> SUFFICES ASSUME Careful PROVE Spec => []DoneIsStored
  OBVIOUS
<1>1. CarefulInv => DoneIsStored
  BY DEF CarefulInv
<1>2. Spec => []CarefulInv
  BY CarefulInvHolds
<1> QED BY <1>1, <1>2, PTL
-----------------------------------------------------------------------------
\* WaitersAreInTheFile, by the inductive invariant WritersInv.  It needs no careful
\* operator: it holds however long a lease is and however many `retry` run.

Ready == TypeOK /\ IdleHasNoJob /\ WritersInv

\* What a step that only answers or rejects workers may do to the processes.
ProcsGoOn ==
  \A q \in Procs : proc'[q] = proc[q] \/ (proc[q] = "running" /\ proc'[q] = "failing")

LEMMA SinkFailsProcs ==
  ASSUME TypeOK, NEW p \in Procs, NEW rejected, SinkFails(p, rejected)
  PROVE  ProcsGoOn
BY DEF SinkFails, ProcsGoOn, TypeOK

\* Steps of one worker that neither enter nor leave the wait for the Writer.
LEMMA NotWaitingStep ==
  ASSUME Ready, NEW w \in Workers, UNCHANGED <<writer, part>>, ProcsGoOn,
         pc[w] # "waiting", pc'[w] # "waiting",
         pc[w] = "idle" => proc[ProcOf[w]] \in Fetching,
         \A v \in Workers \ {w} : pc'[v] = pc[v] /\ on'[v] = on[v]
  PROVE  WritersInv'
<1> USE DEF Ready, WritersInv
<1>1. DownIsIdle'
  <2> SUFFICES ASSUME NEW p \in Procs
               PROVE  /\ proc'[p] \in {"off", "exited"} => \A v \in WorkersOf(p) : pc'[v] = "idle"
                      /\ writer[p] = "closed" => proc'[p] = "exited"
    BY DEF DownIsIdle, WorkersOf
  <2>1. ASSUME proc'[p] \in {"off", "exited"}
        PROVE  \A v \in WorkersOf(p) : pc'[v] = "idle"
    <3>1. proc[p] \in {"off", "exited"}
      BY <2>1 DEF ProcsGoOn
    <3>2. \A v \in WorkersOf(p) : pc[v] = "idle"
      BY <3>1 DEF DownIsIdle
    <3>3. w \notin WorkersOf(p)
      BY <3>1, <3>2 DEF WorkersOf, Fetching
    <3> QED BY <3>2, <3>3 DEF WorkersOf
  <2>2. writer[p] = "closed" => proc'[p] = "exited"
    BY DEF DownIsIdle, ProcsGoOn
  <2> QED BY <2>1, <2>2
<1>2. RecordsAreOfWaiters'
  <2>1. \A p \in Procs : \A i \in DOMAIN part[p] : part[p][i].worker \in Workers \ {w}
    BY PartElements DEF RecordsAreOfWaiters
  <2> QED BY <2>1 DEF RecordsAreOfWaiters
<1>3. WaitersHaveARecord'
  BY DEF WaitersHaveARecord
<1>4. OneRecordPerWaiter' /\ OnlyTheOpenFileHasRecords'
  BY DEF OneRecordPerWaiter, OnlyTheOpenFileHasRecords
<1> QED BY <1>1, <1>2, <1>3, <1>4

\* The workers of an open file, and of the file Add would make of it, are of its process.
LEMMA WaitersOfTheFile ==
  ASSUME Ready, NEW p \in Procs
  PROVE  /\ part[p] \in Seq(PartRecords)
         /\ \A v \in WaitingIn(part[p]) : v \in Workers /\ ProcOf[v] = p /\ pc[v] = "waiting"
<1>1. part[p] \in Seq(PartRecords)
  BY DEF Ready, TypeOK, PartRecords
<1>2. \A i \in DOMAIN part[p] :
        LET v == part[p][i].worker
        IN  v \in Workers /\ ProcOf[v] = p /\ pc[v] = "waiting"
  BY PartElements DEF Ready, WritersInv, RecordsAreOfWaiters
<1> QED BY <1>1, <1>2 DEF WaitingIn

LEMMA WaitersAfterAppend ==
  ASSUME NEW s \in Seq(PartRecords), NEW x \in PartRecords
  PROVE  /\ WaitingIn(Append(s, x)) = WaitingIn(s) \union {x.worker}
         /\ Append(s, x) \in Seq(PartRecords)
         /\ Len(Append(s, x)) = Len(s) + 1
         /\ \A i \in 1 .. Len(s) : Append(s, x)[i] = s[i]
         /\ Append(s, x)[Len(s) + 1] = x
<1> DEFINE t == Append(s, x)
<1>1. /\ t \in Seq(PartRecords) /\ Len(t) = Len(s) + 1
      /\ DOMAIN t = 1 .. Len(s) + 1 /\ DOMAIN s = 1 .. Len(s)
      /\ \A i \in 1 .. Len(s) : t[i] = s[i]
      /\ t[Len(s) + 1] = x
  BY AppendProperties
<1> HIDE DEF t
<1>2. Len(s) \in Nat
  OBVIOUS
<1>3. WaitingIn(t) = WaitingIn(s) \union {x.worker}
  <2>1. ASSUME NEW v \in WaitingIn(t) PROVE v \in WaitingIn(s) \union {x.worker}
    <3>1. PICK i \in DOMAIN t : v = t[i].worker
      BY <2>1 DEF WaitingIn
    <3>2. CASE i = Len(s) + 1
      BY <1>1, <3>1, <3>2
    <3>3. CASE i # Len(s) + 1
      <4>1. i \in DOMAIN s /\ t[i] = s[i]
        BY <1>1, <1>2, <3>3
      <4> QED BY <3>1, <4>1 DEF WaitingIn
    <3> QED BY <3>2, <3>3
  <2>2. ASSUME NEW v \in WaitingIn(s) PROVE v \in WaitingIn(t)
    <3>1. PICK i \in DOMAIN s : v = s[i].worker
      BY <2>2 DEF WaitingIn
    <3>2. i \in DOMAIN t /\ t[i] = s[i]
      BY <1>1, <1>2
    <3> QED BY <3>1, <3>2 DEF WaitingIn
  <2>3. x.worker \in WaitingIn(t)
    <3>1. Len(s) + 1 \in DOMAIN t
      BY <1>1, <1>2
    <3> QED BY <1>1, <3>1 DEF WaitingIn
  <2> QED BY <2>1, <2>2, <2>3
<1> QED BY <1>1, <1>3 DEF t

\* The end of an open file, renamed or given up: everyone in it leaves the wait.
LEMMA EndOfFileStep ==
  ASSUME Ready, NEW p \in Procs, NEW records, NEW state \in {"open", "failed"},
         WaitingIn(part[p]) \subseteq WaitingIn(records),
         \A v \in WaitingIn(records) : v \in Workers /\ ProcOf[v] = p,
         writer[p] = "open", writer' = [writer EXCEPT ![p] = state],
         part' = [part EXCEPT ![p] = <<>>], ProcsGoOn, on' = on,
         \A v \in Workers : pc'[v] = IF v \in Blocked(records) THEN "returning" ELSE pc[v]
  PROVE  WritersInv'
<1> USE DEF Ready, WritersInv
<1>1. /\ part'[p] = <<>> /\ writer'[p] = state
      /\ \A q \in Procs \ {p} : part'[q] = part[q] /\ writer'[q] = writer[q]
  BY DEF TypeOK
<1>2. \A v \in Workers : v \in Blocked(records) => ProcOf[v] = p /\ pc[v] \in {"sending", "waiting"}
  BY DEF Blocked
<1>3. DownIsIdle'
  <2> SUFFICES ASSUME NEW q \in Procs
               PROVE  /\ proc'[q] \in {"off", "exited"} => \A v \in WorkersOf(q) : pc'[v] = "idle"
                      /\ writer'[q] = "closed" => proc'[q] = "exited"
    BY DEF DownIsIdle, WorkersOf
  <2>1. ASSUME proc'[q] \in {"off", "exited"}
        PROVE  \A v \in WorkersOf(q) : pc'[v] = "idle"
    <3>1. \A v \in WorkersOf(q) : pc[v] = "idle"
      BY <2>1 DEF DownIsIdle, ProcsGoOn
    <3> QED BY <1>2, <3>1 DEF WorkersOf
  <2>2. ASSUME writer'[q] = "closed" PROVE proc'[q] = "exited"
    <3>1. writer[q] = "closed"
      BY <1>1, <2>2
    <3> QED BY <3>1 DEF DownIsIdle, ProcsGoOn
  <2> QED BY <2>1, <2>2
<1>4. RecordsAreOfWaiters'
  <2> SUFFICES ASSUME NEW q \in Procs, NEW i \in DOMAIN part'[q]
               PROVE  LET v == part'[q][i].worker
                      IN  pc'[v] = "waiting" /\ ProcOf[v] = q /\ on'[v] = part'[q][i].job
    BY DEF RecordsAreOfWaiters
  <2>1. q # p /\ part'[q] = part[q]
    BY <1>1
  <2>2. part[q][i].worker \in Workers
    BY <2>1, PartElements
  <2> QED BY <1>2, <2>1, <2>2 DEF RecordsAreOfWaiters
<1>5. WaitersHaveARecord'
  <2> SUFFICES ASSUME NEW v \in Workers, pc'[v] = "waiting"
               PROVE  v \in WaitingIn(part'[ProcOf[v]])
    BY DEF WaitersHaveARecord, WaitingIn
  <2>1. v \notin Blocked(records) /\ pc[v] = "waiting"
    OBVIOUS
  <2>2. v \in WaitingIn(part[ProcOf[v]])
    BY <2>1 DEF WaitersHaveARecord
  <2>3. ProcOf[v] # p
    BY <2>1, <2>2 DEF Blocked
  <2> QED BY <1>1, <2>2, <2>3, WorkerProc
<1>6. OneRecordPerWaiter' /\ OnlyTheOpenFileHasRecords'
  BY <1>1 DEF OneRecordPerWaiter, OnlyTheOpenFileHasRecords
<1> QED BY <1>3, <1>4, <1>5, <1>6

LEMMA EndsOfFile ==
  ASSUME Ready, NEW p \in Procs, NEW records, writer[p] = "open",
         WaitingIn(part[p]) \subseteq WaitingIn(records),
         \A v \in WaitingIn(records) : v \in Workers /\ ProcOf[v] = p,
         Answer(p, records) \/ (GiveUp(p) /\ SinkFails(p, Blocked(records)))
  PROVE  WritersInv'
<1>1. CASE Answer(p, records)
  <2>1. writer' = [writer EXCEPT ![p] = "open"] /\ ProcsGoOn
    BY <1>1 DEF Answer, Rename, ProcsGoOn, Ready, TypeOK
  <2>2. part' = [part EXCEPT ![p] = <<>>] /\ on' = on
    BY <1>1 DEF Answer, Rename
  <2>3. \A v \in Workers : pc'[v] = IF v \in Blocked(records) THEN "returning" ELSE pc[v]
    BY <1>1 DEF Answer
  <2> QED BY <2>1, <2>2, <2>3, EndOfFileStep
<1>2. CASE GiveUp(p) /\ SinkFails(p, Blocked(records))
  <2>1. writer' = [writer EXCEPT ![p] = "failed"] /\ ProcsGoOn
    BY <1>2, SinkFailsProcs DEF GiveUp, Ready
  <2>2. part' = [part EXCEPT ![p] = <<>>] /\ on' = on
    BY <1>2 DEF GiveUp, SinkFails
  <2>3. \A v \in Workers : pc'[v] = IF v \in Blocked(records) THEN "returning" ELSE pc[v]
    BY <1>2 DEF SinkFails
  <2> QED BY <2>1, <2>2, <2>3, EndOfFileStep
<1> QED BY <1>1, <1>2

LEMMA AddKeepsWriters ==
  ASSUME Ready, NEW w \in Workers, Add(w)
  PROVE  WritersInv'
<1> DEFINE p == ProcOf[w]  record == Pending(w, on[w])  records == Append(part[p], record)
<1>1. p \in Procs /\ pc[w] = "sending" /\ writer[p] = "open"
  BY WorkerProc DEF Add
<1>2. /\ part[p] \in Seq(PartRecords)
      /\ \A v \in WaitingIn(part[p]) : v \in Workers /\ ProcOf[v] = p /\ pc[v] = "waiting"
  BY <1>1, WaitersOfTheFile
<1>3. record \in PartRecords /\ record.worker = w /\ record.job = on[w]
  BY <1>1 DEF Ready, IdleHasNoJob, TypeOK, Pending, PartRecords
<1> HIDE DEF record
<1>4. /\ WaitingIn(records) = WaitingIn(part[p]) \union {w}
      /\ records \in Seq(PartRecords) /\ Len(records) = Len(part[p]) + 1
      /\ \A i \in 1 .. Len(part[p]) : records[i] = part[p][i]
      /\ records[Len(part[p]) + 1] = record
  BY <1>2, <1>3, WaitersAfterAppend
<1>5. \A v \in WaitingIn(records) : v \in Workers /\ ProcOf[v] = p
  BY <1>2, <1>4
<1>6. CASE KeepOpen(p, records) /\ pc' = [pc EXCEPT ![w] = "waiting"]
           /\ UNCHANGED <<on, verdict, proc>>
  <2> USE DEF Ready, WritersInv
  <2>1. /\ part'[p] = records /\ writer' = writer
        /\ \A q \in Procs \ {p} : part'[q] = part[q]
    BY <1>1, <1>6 DEF KeepOpen, TypeOK
  <2>2. pc'[w] = "waiting" /\ \A v \in Workers \ {w} : pc'[v] = pc[v]
    BY <1>6 DEF TypeOK
  <2> HIDE DEF records
  <2>3. DownIsIdle'
    <3> SUFFICES ASSUME NEW q \in Procs
                 PROVE  /\ proc[q] \in {"off", "exited"} => \A v \in WorkersOf(q) : pc'[v] = "idle"
                        /\ writer[q] = "closed" => proc[q] = "exited"
      BY <1>6, <2>1 DEF DownIsIdle, WorkersOf
    <3>1. ASSUME proc[q] \in {"off", "exited"}
          PROVE  \A v \in WorkersOf(q) : pc'[v] = "idle"
      <4>1. \A v \in WorkersOf(q) : pc[v] = "idle"
        BY <3>1 DEF DownIsIdle
      <4>2. w \notin WorkersOf(q)
        BY <1>1, <4>1
      <4> QED BY <2>2, <4>1, <4>2 DEF WorkersOf
    <3> QED BY <3>1 DEF DownIsIdle
  <2>4. \A i \in DOMAIN records :
          \/ i \in DOMAIN part[p] /\ records[i] = part[p][i]
          \/ i = Len(part[p]) + 1 /\ records[i] = record
    BY <1>2, <1>4
  <2>5. RecordsAreOfWaiters'
    <3> SUFFICES ASSUME NEW q \in Procs, NEW i \in DOMAIN part'[q]
                 PROVE  LET v == part'[q][i].worker
                        IN  pc'[v] = "waiting" /\ ProcOf[v] = q /\ on[v] = part'[q][i].job
      BY <1>6 DEF RecordsAreOfWaiters
    <3>1. CASE q = p /\ records[i] = record
      BY <1>3, <2>1, <2>2, <3>1
    <3>2. CASE q # p \/ (i \in DOMAIN part[p] /\ records[i] = part[p][i])
      <4>1. part'[q][i] = part[q][i] /\ i \in DOMAIN part[q]
        BY <2>1, <3>2
      <4>2. part[q][i].worker \in Workers
        BY <4>1, PartElements
      <4> QED BY <2>2, <4>1, <4>2 DEF RecordsAreOfWaiters
    <3> QED BY <2>1, <2>4, <3>1, <3>2
  <2>6. WaitersHaveARecord'
    <3> SUFFICES ASSUME NEW v \in Workers, pc'[v] = "waiting"
                 PROVE  v \in WaitingIn(part'[ProcOf[v]])
      BY DEF WaitersHaveARecord, WaitingIn
    <3>1. v = w \/ v \in WaitingIn(part[ProcOf[v]])
      BY <2>2 DEF WaitersHaveARecord
    <3> QED BY <1>4, <2>1, <3>1, WorkerProc
  <2>7. OneRecordPerWaiter'
    <3> SUFFICES ASSUME NEW q \in Procs, NEW i \in DOMAIN part'[q], NEW k \in DOMAIN part'[q],
                        part'[q][i].worker = part'[q][k].worker
                 PROVE  i = k
      BY DEF OneRecordPerWaiter
    <3>1. CASE q # p
      BY <2>1, <3>1 DEF OneRecordPerWaiter
    <3>2. CASE q = p
      <4>1. \A n \in DOMAIN part[p] : part[p][n].worker # w
        BY <1>1, <1>2 DEF WaitingIn
      <4> QED BY <1>3, <2>1, <2>4, <3>2, <4>1 DEF OneRecordPerWaiter
    <3> QED BY <3>1, <3>2
  <2>8. OnlyTheOpenFileHasRecords'
    BY <1>1, <2>1 DEF OnlyTheOpenFileHasRecords
  <2> QED BY <2>3, <2>5, <2>6, <2>7, <2>8
<1>7. CASE Answer(p, records) \/ (GiveUp(p) /\ SinkFails(p, Blocked(records)))
  BY <1>1, <1>4, <1>5, <1>7, EndsOfFile
<1> QED BY <1>6, <1>7 DEF Add, record

LEMMA TickKeepsWriters ==
  ASSUME Ready, NEW p \in Procs, Tick(p)
  PROVE  WritersInv'
BY WaitersOfTheFile, EndsOfFile DEF Tick

LEMMA WorkerStepKeepsWriters ==
  ASSUME Ready, NEW w \in Workers, WorkerStep(w)
  PROVE  WritersInv'
<1> USE DEF writerVars
<1>1. ASSUME NEW v, Return(w, v), pc[w] \notin {"idle", "waiting"},
             UNCHANGED <<writerVars, proc>>
      PROVE  WritersInv'
  <2>1. /\ on' = on /\ pc'[w] = "returning" /\ \A x \in Workers \ {w} : pc'[x] = pc[x]
    BY <1>1 DEF Return, Ready, TypeOK
  <2> QED BY <1>1, <2>1, NotWaitingStep DEF ProcsGoOn
<1>2. ASSUME NEW j \in Jobs, Work(w, j)
      PROVE  WritersInv'
  <2>1. /\ pc[w] = "idle" /\ pc'[w] \in {"loading", "finishing"} /\ UNCHANGED <<writerVars, proc>>
        /\ proc[ProcOf[w]] \in Fetching
    BY <1>2 DEF Work, Ready, TypeOK
  <2>2. \A x \in Workers \ {w} : pc'[x] = pc[x] /\ on'[x] = on[x]
    BY <1>2 DEF Work, Ready, TypeOK
  <2> QED BY <2>1, <2>2, NotWaitingStep DEF ProcsGoOn
<1>3. CASE PutBack(w) \/ AddTimesOut(w) \/ HandOff(w) \/ HandOffFails(w)
  BY <1>1, <1>3 DEF PutBack, AddTimesOut, HandOff, HandOffFails, procVars
<1>4. CASE Loaded(w)
  <2>1. CASE \E v : Return(w, v)
    BY <1>1, <1>4, <2>1 DEF Loaded, procVars
  <2>2. CASE \E s \in {"sending", "handing"} : pc' = [pc EXCEPT ![w] = s] /\ on' = on
    <3>1. pc'[w] # "waiting" /\ \A x \in Workers \ {w} : pc'[x] = pc[x]
      BY <2>2 DEF Ready, TypeOK
    <3> QED BY <1>4, <2>2, <3>1, NotWaitingStep DEF Loaded, procVars, ProcsGoOn
  <2> QED BY <1>4, <2>1, <2>2 DEF Loaded
<1>5. CASE Add(w)
  BY <1>5, AddKeepsWriters
<1>6. CASE AddRejected(w)
  <2>1. /\ on' = on /\ pc[w] = "sending" /\ pc'[w] = "returning"
        /\ \A x \in Workers \ {w} : pc'[x] = pc[x]
    BY <1>6 DEF AddRejected, SinkFails, Ready, TypeOK
  <2>2. ProcsGoOn
    BY <1>6, WorkerProc, SinkFailsProcs DEF AddRejected, Ready
  <2> QED BY <1>6, <2>1, <2>2, NotWaitingStep DEF AddRejected
<1>7. CASE Release(w) \/ Complete(w)
  <2>1. /\ pc[w] \in {"returning", "finishing"} /\ pc'[w] \in {"finishing", "idle"}
        /\ UNCHANGED <<writerVars, proc>>
    BY <1>7 DEF Release, Complete, procVars, Ready, TypeOK
  <2>2. \A x \in Workers \ {w} : pc'[x] = pc[x] /\ on'[x] = on[x]
    BY <1>7 DEF Release, Complete, Ready, TypeOK
  <2> QED BY <2>1, <2>2, NotWaitingStep DEF ProcsGoOn
<1> QED BY <1>2, <1>3, <1>4, <1>5, <1>6, <1>7 DEF WorkerStep

\* Nobody waits in a process that is idle, so its file is empty.
LEMMA IdleHasNoFile ==
  ASSUME Ready, NEW p \in Procs, \A w \in WorkersOf(p) : pc[w] = "idle"
  PROVE  part[p] = <<>>
<1>1. part[p] \in Seq(PartRecords) /\ WaitingIn(part[p]) = {}
  BY WaitersOfTheFile DEF WorkersOf
<1>2. \A i \in DOMAIN part[p] : part[p][i].worker \in WaitingIn(part[p])
  BY DEF WaitingIn
<1>3. \A i \in DOMAIN part[p] : FALSE
  BY <1>1, <1>2
<1> DEFINE n == Len(part[p])
<1>4. n = 0
  <2>1. n \in Nat /\ DOMAIN part[p] = 1 .. n
    BY <1>1
  <2> HIDE DEF n
  <2>2. n >= 1 => 1 \in 1 .. n
    BY <2>1
  <2> QED BY <1>3, <2>1, <2>2
<1> QED BY <1>1, <1>4, EmptySeq

LEMMA ProcStepKeepsWriters ==
  ASSUME Ready, NEW p \in Procs, ProcStep(p)
  PROVE  WritersInv'
<1> USE DEF Ready, WritersInv, writerVars, workVars
<1>1. CASE Cancel(p) \/ StopAndCancel(p) \/ StopWhenEmpty(p)
  <2>1. /\ UNCHANGED <<writerVars, workVars>>
        /\ proc[p] \notin {"off", "exited"} /\ proc'[p] \notin {"off", "exited"}
        /\ \A q \in Procs \ {p} : proc'[q] = proc[q]
    BY <1>1 DEF Cancel, StopAndCancel, StopWhenEmpty, TypeOK
  <2>2. DownIsIdle'
    BY <2>1 DEF DownIsIdle, WorkersOf
  <2>3. RecordsAreOfWaiters' /\ WaitersHaveARecord' /\ OneRecordPerWaiter' /\ OnlyTheOpenFileHasRecords'
    BY <2>1 DEF RecordsAreOfWaiters, WaitersHaveARecord, OneRecordPerWaiter, OnlyTheOpenFileHasRecords
  <2> QED BY <2>2, <2>3
<1>2. CASE Start(p) \/ Exit(p)
  <2>1. \A w \in WorkersOf(p) : pc[w] = "idle"
    BY <1>2 DEF Start, Exit, DownIsIdle
  <2>2. part[p] = <<>>
    BY <2>1, IdleHasNoFile
  <2>3. UNCHANGED <<part, workVars>>
    BY <1>2, <2>2 DEF Start, NewWriter, Exit, Close, TypeOK
  <2>4. /\ \A q \in Procs \ {p} : proc'[q] = proc[q] /\ writer'[q] = writer[q]
        /\ (proc'[p] = "running" /\ writer'[p] = "open") \/ proc'[p] = "exited"
    BY <1>2 DEF Start, NewWriter, Exit, Close, TypeOK
  <2>5. DownIsIdle'
    BY <2>1, <2>3, <2>4 DEF DownIsIdle, WorkersOf
  <2>6. RecordsAreOfWaiters' /\ WaitersHaveARecord' /\ OneRecordPerWaiter'
    BY <2>3 DEF RecordsAreOfWaiters, WaitersHaveARecord, OneRecordPerWaiter
  <2>7. OnlyTheOpenFileHasRecords'
    BY <2>2, <2>3, <2>4 DEF OnlyTheOpenFileHasRecords
  <2> QED BY <2>5, <2>6, <2>7
<1>3. CASE Crash(p)
  <2>1. \A w \in Workers :
          \/ ProcOf[w] = p /\ pc'[w] = "idle"
          \/ ProcOf[w] # p /\ pc'[w] = pc[w] /\ on'[w] = on[w]
    BY <1>3 DEF Crash
  <2>2. /\ proc'[p] = "off" /\ writer'[p] = "none" /\ part'[p] = <<>>
        /\ \A q \in Procs \ {p} : proc'[q] = proc[q] /\ writer'[q] = writer[q] /\ part'[q] = part[q]
    BY <1>3 DEF Crash, LoseWriter, TypeOK
  <2>3. DownIsIdle'
    BY <2>1, <2>2 DEF DownIsIdle, WorkersOf
  <2>4. RecordsAreOfWaiters'
    <3> SUFFICES ASSUME NEW q \in Procs, NEW i \in DOMAIN part'[q]
                 PROVE  LET v == part'[q][i].worker
                        IN  pc'[v] = "waiting" /\ ProcOf[v] = q /\ on'[v] = part'[q][i].job
      BY DEF RecordsAreOfWaiters
    <3>1. q # p /\ part'[q] = part[q]
      BY <2>2
    <3>2. part[q][i].worker \in Workers
      BY <3>1, PartElements
    <3> QED BY <2>1, <3>1, <3>2 DEF RecordsAreOfWaiters
  <2>5. WaitersHaveARecord'
    <3> SUFFICES ASSUME NEW v \in Workers, pc'[v] = "waiting"
                 PROVE  v \in WaitingIn(part'[ProcOf[v]])
      BY DEF WaitersHaveARecord, WaitingIn
    <3> QED BY <2>1, <2>2, WorkerProc DEF WaitersHaveARecord
  <2>6. OneRecordPerWaiter' /\ OnlyTheOpenFileHasRecords'
    BY <2>2 DEF OneRecordPerWaiter, OnlyTheOpenFileHasRecords
  <2> QED BY <2>3, <2>4, <2>5, <2>6
<1>4. CASE Tick(p)
  BY <1>4, TickKeepsWriters
<1> QED BY <1>1, <1>2, <1>3, <1>4 DEF ProcStep

LEMMA WritersInvHolds == Spec => []WritersInv
<1>1. Init => WritersInv
  BY WorkerProc
  DEF Init, WriterInit, WritersInv, DownIsIdle, WorkersOf, RecordsAreOfWaiters,
      WaitersHaveARecord, OneRecordPerWaiter, OnlyTheOpenFileHasRecords
<1>2. ASSUME TypeOK /\ IdleHasNoJob, WritersInv, [Next]_vars
      PROVE  WritersInv'
  <2>0. Ready
    BY <1>2 DEF Ready
  <2>1. CASE UNCHANGED <<writerVars, workVars, proc>>
    BY <1>2, <2>1
    DEF writerVars, workVars, WritersInv, DownIsIdle, WorkersOf, RecordsAreOfWaiters,
        WaitersHaveARecord, OneRecordPerWaiter, OnlyTheOpenFileHasRecords
  <2>2. CASE ImportUrls \/ (\E r \in Retriers : RetryCommand(r)) \/ (\E j \in Jobs : Rescue(j))
    BY <2>1, <2>2 DEF ImportUrls, RetryCommand, Rescue, procVars
  <2>3. CASE Next
    BY <2>0, <2>2, <2>3, ProcStepKeepsWriters, WorkerStepKeepsWriters DEF Next
  <2> QED BY <1>2, <2>1, <2>3 DEF vars, procVars
<1> QED BY <1>1, <1>2, TypeCorrect, PTL DEF Spec

LEMMA OneWaiterPerRecord ==
  ASSUME Ready, NEW p \in Procs
  PROVE  Cardinality(WaitingIn(part[p])) = Len(part[p])
<1> DEFINE S == WaitingIn(part[p])  n == Len(part[p])
           f == [i \in 1 .. n |-> part[p][i].worker]
<1>1. part[p] \in Seq(PartRecords)
  BY WaitersOfTheFile
<1>2. n \in Nat /\ DOMAIN part[p] = 1 .. n
  BY <1>1
<1>3. S = {part[p][i].worker : i \in 1 .. n}
  BY <1>2 DEF WaitingIn
<1>4. \A i, k \in 1 .. n : part[p][i].worker = part[p][k].worker => i = k
  BY <1>2 DEF Ready, WritersInv, OneRecordPerWaiter
<1> HIDE DEF S, n
<1>5. f \in Bijection(1 .. n, S)
  BY <1>3, <1>4 DEF Bijection, Injection, Surjection, IsInjective
<1>6. ExistsBijection(1 .. n, S)
  BY <1>5 DEF ExistsBijection
<1> QED BY <1>2, <1>6, FS_CountingElements DEF S, n

\* Every worker blocked in Add has exactly one record in the open file of its
\* process, which finish or reject will answer, and no worker meets a Writer that
\* has been closed: with any number of workers, whatever fails, crashes or is
\* interrupted between the steps (writer.go Add, run, reject, Close).
THEOREM WaitersStayInTheFile == Spec => []WaitersAreInTheFile
<1>1. TypeOK /\ IdleHasNoJob /\ WritersInv => WaitersAreInTheFile
  <2> SUFFICES ASSUME Ready, NEW p \in Procs
               PROVE  /\ {w \in WorkersOf(p) : pc[w] = "waiting"} = WaitingIn(part[p])
                      /\ Cardinality(WaitingIn(part[p])) = Len(part[p])
                      /\ part[p] # <<>> => writer[p] = "open"
                      /\ writer[p] = "closed" =>
                            \A w \in WorkersOf(p) : pc[w] \notin {"sending", "waiting"}
    BY DEF WaitersAreInTheFile, Ready
  <2>1. {w \in WorkersOf(p) : pc[w] = "waiting"} = WaitingIn(part[p])
    BY WaitersOfTheFile DEF WorkersOf, Ready, WritersInv, WaitersHaveARecord
  <2>2. Cardinality(WaitingIn(part[p])) = Len(part[p])
    BY OneWaiterPerRecord
  <2>3. part[p] # <<>> => writer[p] = "open"
    BY DEF Ready, WritersInv, OnlyTheOpenFileHasRecords
  <2>4. writer[p] = "closed" => \A w \in WorkersOf(p) : pc[w] \notin {"sending", "waiting"}
    BY DEF Ready, WritersInv, DownIsIdle
  <2> QED BY <2>1, <2>2, <2>3, <2>4
<1> QED BY <1>1, TypeCorrect, WritersInvHolds, PTL
-----------------------------------------------------------------------------
(***************************************************************************)
(* Batch implements UrlLifecycle, in the states that CarefulInv describes. *)
(* Every step of the batch is a Queue, a Store, a Finish or a stutter of   *)
(* the life cycle of the URLs.                                             *)
(***************************************************************************)

LEMMA StageType ==
  \A u \in Urls : Stage(u) \in Jobs /\ UrlOf(Stage(u)) = u
BY JobsType DEF Stage, HttpJob, BrowserJob, UrlOf

LEMMA StagesOf ==
  \A j \in Jobs : j = HttpJob(UrlOf(j)) \/ j = BrowserJob(UrlOf(j))
BY DEF Jobs, Kinds, UrlOf, HttpJob, BrowserJob

\* A job that is neither missing nor completed is the stage its URL is in.
LEMMA LiveJobIsTheStage ==
  ASSUME Before, NEW j \in Jobs, job[j] # "none", job[j] # "completed"
  PROVE  Stage(UrlOf(j)) = j
<1>1. UrlOf(j) \in Urls
  BY JobsType
<1>2. CASE j = HttpJob(UrlOf(j))
  BY <1>1, <1>2 DEF Before, CarefulInv, BrowserAfterHttp, Stage
<1>3. CASE j = BrowserJob(UrlOf(j))
  BY <1>3 DEF Stage
<1> QED BY <1>2, <1>3, StagesOf

LEMMA SameJobsSameStatus ==
  ASSUME job' = job
  PROVE  UrlStatus' = UrlStatus
BY DEF UrlStatus, Stage

\* A new state of the job a URL is in is a new state of the URL, and of no other.
LEMMA JobChange ==
  ASSUME Before, NEW j \in Jobs, NEW s, s # "none", job[j] # "none",
         job' = [job EXCEPT ![j] = s], Stage(UrlOf(j)) = j
  PROVE  UrlStatus' = [UrlStatus EXCEPT ![UrlOf(j)] = StateOf(s)]
<1> USE DEF Before, TypeOK
<1>1. \A k \in Jobs : job'[k] = "none" <=> job[k] = "none"
  OBVIOUS
<1>2. \A u \in Urls : Stage(u)' = Stage(u)
  BY <1>1, JobsType DEF Stage
<1>3. \A u \in Urls : u # UrlOf(j) => Stage(u) # j
  BY StageType
<1>4. \A u \in Urls : job'[Stage(u)'] = IF u = UrlOf(j) THEN s ELSE job[Stage(u)]
  BY <1>2, <1>3, StageType
<1>5. UrlStatus' = [u \in Urls |-> StateOf(job'[Stage(u)'])]
  BY DEF UrlStatus, StateOf
<1>6. UrlStatus' = [u \in Urls |-> IF u = UrlOf(j) THEN StateOf(s) ELSE StateOf(job[Stage(u)])]
  BY <1>4, <1>5
<1> QED BY <1>6 DEF UrlStatus

LEMMA StatusOfState ==
  /\ \A s \in {"pending", "running"} : StateOf(s) = "queued"
  /\ StateOf("none") = "absent" /\ StateOf("completed") = "done"
  /\ StateOf("cancelled") = "dead" /\ StateOf("discarded") = "failed"
BY DEF StateOf, Unfinished

LEMMA RunningIsQueued ==
  ASSUME Before, NEW j \in Jobs, job[j] \in {"pending", "running"}
  PROVE  UrlOf(j) \in Urls /\ Stage(UrlOf(j)) = j /\ UrlStatus[UrlOf(j)] = "queued"
BY LiveJobIsTheStage, StatusOfState, JobsType DEF UrlStatus

LEMMA Stutter ==
  ASSUME job' = job, pages' = pages
  PROVE  UNCHANGED Lifecycle!vars
BY SameJobsSameStatus DEF Lifecycle!vars, StoredUrls

-----------------------------------------------------------------------------
LEMMA WorkersInAddRun ==
  ASSUME Before, NEW w \in Workers, pc[w] \in {"sending", "waiting"}
  PROVE  on[w] \in Jobs /\ job[on[w]] = "running"
<1>1. on[w] # NoJob
  BY DEF Before, IdleHasNoJob
<1>2. on[w] \in Jobs
  BY <1>1 DEF Before, TypeOK
<1> QED BY <1>1, <1>2 DEF Before, CarefulInv, JobsRunWhileHeld

LEMMA AnswerIsStore ==
  ASSUME Before, NEW p \in Procs, NEW records \in Seq(PartRecords),
         InAdd(p, records), Answer(p, records), UNCHANGED queueVars
  PROVE  Lifecycle!Next
<1> DEFINE S == {UrlOf(records[i].job) : i \in DOMAIN records}
<1>1. job' = job /\ UrlStatus' = UrlStatus
  BY SameJobsSameStatus DEF queueVars
<1>2. StoredUrls' = StoredUrls \union S
  <2> DEFINE new == Lines(p, Numbered(p), records)
  <2>1. pages' = pages \union new
    BY DEF Answer, Rename
  <2> DEFINE line(i) == [ref |-> <<p, Numbered(p), i>>, job |-> records[i].job]
  <2>2. new = {line(i) : i \in DOMAIN records}
    BY DEF Lines
  <2>3. \A i \in DOMAIN records : UrlOf(line(i).job) = UrlOf(records[i].job)
    OBVIOUS
  <2> HIDE DEF new, line
  <2>4. {UrlOf(r.job) : r \in new} = {UrlOf(line(i).job) : i \in DOMAIN records}
    BY <2>2
  <2>5. {UrlOf(r.job) : r \in new} = S
    BY <2>3, <2>4
  <2> HIDE DEF S
  <2> QED BY <2>1, <2>5 DEF StoredUrls
<1>3. \A u \in S : u \in Urls /\ UrlStatus[u] = "queued"
  <2> SUFFICES ASSUME NEW i \in DOMAIN records
               PROVE  LET u == UrlOf(records[i].job)
                      IN  u \in Urls /\ UrlStatus[u] = "queued"
    OBVIOUS
  <2> DEFINE w == records[i].worker
  <2>1. w \in Workers /\ pc[w] \in {"sending", "waiting"} /\ on[w] = records[i].job
    BY DEF InAdd
  <2>2. on[w] \in Jobs /\ job[on[w]] = "running"
    BY <2>1, WorkersInAddRun
  <2> QED BY <2>1, <2>2, RunningIsQueued
<1>4. S \in SUBSET Urls
  BY <1>3
<1>5. Lifecycle!Store(S)
  BY <1>1, <1>2, <1>3 DEF Lifecycle!Store
<1> QED BY <1>4, <1>5 DEF Lifecycle!Next

LEMMA QueueStepMaps ==
  ASSUME Before,
         ImportUrls \/ (\E r \in Retriers : RetryCommand(r)) \/ (\E j \in Jobs : Rescue(j))
  PROVE  Lifecycle!Next \/ UNCHANGED Lifecycle!vars
<1> USE DEF Before
<1>1. CASE ImportUrls
  <2>1. PICK S \in SUBSET Urls : Import(S)
    BY <1>1 DEF ImportUrls
  <2> DEFINE New == {u \in S : job[HttpJob(u)] = "none"}
  <2>2. job' = [j \in Jobs |-> IF j \in {HttpJob(u) : u \in S} /\ job[j] = "none"
                               THEN "pending" ELSE job[j]]
    BY <2>1 DEF Import, Inserted
  <2>3. \A u \in Urls : /\ job'[BrowserJob(u)] = job[BrowserJob(u)]
                        /\ job'[HttpJob(u)] = IF u \in New THEN "pending" ELSE job[HttpJob(u)]
    BY <2>2, JobsType DEF BrowserJob, HttpJob
  <2>4. \A u \in New : job[BrowserJob(u)] = "none"
    BY DEF CarefulInv, BrowserAfterHttp
  <2>5. \A u \in Urls : Stage(u)' = Stage(u)
    BY <2>3 DEF Stage
  <2>6. \A u \in Urls : job'[Stage(u)'] = IF u \in New THEN "pending" ELSE job[Stage(u)]
    BY <2>3, <2>4, <2>5 DEF Stage
  <2>7. UrlStatus' = [u \in Urls |-> StateOf(job'[Stage(u)'])]
    BY DEF UrlStatus, StateOf
  <2>8. UrlStatus' = [u \in Urls |-> IF u \in New THEN "queued" ELSE UrlStatus[u]]
    BY <2>6, <2>7, StatusOfState DEF UrlStatus
  <2>9. \A u \in New : UrlStatus[u] = "absent"
    BY <2>4, StatusOfState DEF UrlStatus, Stage
  <2>10. StoredUrls' = StoredUrls
    BY <1>1 DEF ImportUrls, writerVars, StoredUrls
  <2>11. Lifecycle!Queue(New)
    BY <2>8, <2>9, <2>10 DEF Lifecycle!Queue
  <2> QED BY <2>11 DEF Lifecycle!Next
<1>2. ASSUME NEW r \in Retriers, RetryCommand(r)
      PROVE  Lifecycle!Next \/ UNCHANGED Lifecycle!vars
  <2>1. pages' = pages
    BY <1>2 DEF RetryCommand, writerVars
  <2>2. CASE RetryList(r) \/ RetryStops(r)
    BY <2>1, <2>2, Stutter DEF RetryList, RetryStops
  <2>3. ASSUME NEW j \in Jobs, Retry(r, j)
        PROVE  Lifecycle!Next
    <3>1. job[j] \in RetryFrom
      BY <2>3 DEF Retry, CarefulInv, ListedCanBeRetried
    <3>2. job' = [job EXCEPT ![j] = "pending"]
      BY <2>3, <3>1 DEF Retry, RetryFrom
    <3>3. Stage(UrlOf(j)) = j /\ UrlOf(j) \in Urls
      BY <3>1, LiveJobIsTheStage, JobsType DEF RetryFrom
    <3>4. UrlStatus' = [UrlStatus EXCEPT ![UrlOf(j)] = StateOf("pending")]
      BY <3>1, <3>2, <3>3, JobChange DEF RetryFrom
    <3>5. UrlStatus' = [UrlStatus EXCEPT ![UrlOf(j)] = "queued"]
      BY <3>4, StatusOfState
    <3>6. UrlStatus[UrlOf(j)] \in {"dead", "failed"}
      BY <3>1, <3>3, StatusOfState DEF UrlStatus, RetryFrom
    <3>7. UrlStatus' = [u \in Urls |-> IF u \in {UrlOf(j)} THEN "queued" ELSE UrlStatus[u]]
      BY <3>5 DEF UrlStatus
    <3>8. Lifecycle!Queue({UrlOf(j)})
      BY <2>1, <3>6, <3>7 DEF Lifecycle!Queue, StoredUrls
    <3> QED BY <3>3, <3>8 DEF Lifecycle!Next
  <2> QED BY <1>2, <2>2, <2>3 DEF RetryCommand
<1>3. ASSUME NEW j \in Jobs, Rescue(j)
      PROVE  Lifecycle!Next
  <2>1. job[j] = "running" /\ job' = [job EXCEPT ![j] = "discarded"] /\ pages' = pages
    BY <1>3 DEF Rescue, writerVars
  <2>2. UrlOf(j) \in Urls /\ Stage(UrlOf(j)) = j /\ UrlStatus[UrlOf(j)] = "queued"
    BY <2>1, RunningIsQueued
  <2>3. UrlStatus' = [UrlStatus EXCEPT ![UrlOf(j)] = StateOf("discarded")]
    BY <2>1, <2>2, JobChange
  <2>4. UrlStatus' = [UrlStatus EXCEPT ![UrlOf(j)] = "failed"]
    BY <2>3, StatusOfState
  <2>5. Lifecycle!Finish(UrlOf(j))
    BY <2>1, <2>2, <2>4 DEF Lifecycle!Finish, StoredUrls
  <2> QED BY <2>2, <2>5 DEF Lifecycle!Next
<1> QED BY <1>1, <1>2, <1>3

LEMMA WorkMaps ==
  ASSUME Before, NEW w \in Workers, NEW j \in Jobs, Work(w, j)
  PROVE  UNCHANGED Lifecycle!vars
<1>1. job[j] = "pending" /\ job' = [job EXCEPT ![j] = "running"] /\ pages' = pages
  BY DEF Work, writerVars
<1>2. UrlOf(j) \in Urls /\ Stage(UrlOf(j)) = j /\ UrlStatus[UrlOf(j)] = "queued"
  BY <1>1, RunningIsQueued
<1>3. UrlStatus' = [UrlStatus EXCEPT ![UrlOf(j)] = StateOf("running")]
  BY <1>1, <1>2, JobChange
<1>4. UrlStatus' = [UrlStatus EXCEPT ![UrlOf(j)] = "queued"]
  BY <1>3, StatusOfState
<1>5. UrlStatus' = UrlStatus
  BY <1>2, <1>4 DEF UrlStatus
<1> QED BY <1>1, <1>5 DEF Lifecycle!vars, StoredUrls

LEMMA HandOffMaps ==
  ASSUME Before, NEW w \in Workers, HandOff(w)
  PROVE  UNCHANGED Lifecycle!vars
<1> DEFINE j == on[w]  u == UrlOf(on[w])
<1> USE DEF Before, CarefulInv
<1>1. j \in Jobs /\ job[j] = "running" /\ u \in Urls
  BY HandedOverIsHttp
<1>2. j = HttpJob(u)
  BY HandedOverIsHttp
<1>3. job[BrowserJob(u)] = "none"
  BY <1>1, <1>2 DEF BrowserAfterHttp
<1>4. BrowserJob(u) \in Jobs /\ BrowserJob(u) # j
  BY <1>1, <1>2, JobsType DEF BrowserJob, HttpJob
<1>5. /\ job'[j] = "completed" /\ job'[BrowserJob(u)] = "pending"
      /\ \A k \in Jobs \ {j, BrowserJob(u)} : job'[k] = job[k]
  BY <1>1, <1>3, <1>4 DEF HandOff, Inserted, SetIfRunning, TypeOK
<1>6. StateOf(job[Stage(u)]) = "queued"
  BY <1>1, <1>2, <1>3, StatusOfState DEF Stage
<1>7. \A v \in Urls : StateOf(job'[Stage(v)']) = StateOf(job[Stage(v)])
  <2> SUFFICES ASSUME NEW v \in Urls
               PROVE  StateOf(job'[Stage(v)']) = StateOf(job[Stage(v)])
    OBVIOUS
  <2>1. CASE v = u
    <3>1. job'[BrowserJob(v)] = "pending"
      BY <1>5, <2>1
    <3>2. Stage(v)' = BrowserJob(v)
      BY <3>1 DEF Stage
    <3> QED BY <1>6, <2>1, <3>1, <3>2, StatusOfState
  <2>2. CASE v # u
    <3>1. {BrowserJob(v), HttpJob(v)} \subseteq Jobs \ {j, BrowserJob(u)}
      BY <1>2, <2>2, JobsType DEF BrowserJob, HttpJob
    <3>2. job'[BrowserJob(v)] = job[BrowserJob(v)] /\ job'[HttpJob(v)] = job[HttpJob(v)]
      BY <1>5, <3>1
    <3> QED BY <3>2 DEF Stage
  <2> QED BY <2>1, <2>2
<1>8. UrlStatus' = [v \in Urls |-> StateOf(job'[Stage(v)'])]
  BY DEF UrlStatus, StateOf
<1>9. UrlStatus' = UrlStatus
  BY <1>7, <1>8 DEF UrlStatus
<1> QED BY <1>9 DEF Lifecycle!vars, StoredUrls, HandOff, writerVars

LEMMA CompleteMaps ==
  ASSUME Before, NEW w \in Workers, Complete(w)
  PROVE  Lifecycle!Next \/ UNCHANGED Lifecycle!vars
<1> DEFINE j == on[w]  v == verdict[w]
<1> USE DEF Before, CarefulInv
<1>1. j \in Jobs /\ v.state # "none" /\ v.state \in States /\ pages' = pages
  BY DEF Complete, IdleHasNoJob, TypeOK, WorkersFollowWork, writerVars
<1>2. CASE job[j] # "running"
  BY <1>1, <1>2, Stutter DEF Complete, SetIfRunning
<1>3. CASE job[j] = "running"
  <2>1. job' = [job EXCEPT ![j] = v.state]
    BY <1>3 DEF Complete, SetIfRunning
  <2>2. UrlOf(j) \in Urls /\ Stage(UrlOf(j)) = j /\ UrlStatus[UrlOf(j)] = "queued"
    BY <1>1, <1>3, RunningIsQueued
  <2>3. UrlStatus' = [UrlStatus EXCEPT ![UrlOf(j)] = StateOf(v.state)]
    BY <1>1, <1>3, <2>1, <2>2, JobChange
  <2>4. StoredUrls' = StoredUrls
    BY <1>1 DEF StoredUrls
  <2>5. CASE v.state \in {"pending", "running"}
    <3>1. UrlStatus' = UrlStatus
      BY <2>2, <2>3, <2>5, StatusOfState DEF UrlStatus
    <3> QED BY <2>4, <3>1 DEF Lifecycle!vars
  <2>6. CASE v.state \in {"cancelled", "discarded"}
    <3>1. Lifecycle!Finish(UrlOf(j))
      BY <2>2, <2>3, <2>4, <2>6, StatusOfState DEF Lifecycle!Finish
    <3> QED BY <2>2, <3>1 DEF Lifecycle!Next
  <2>7. CASE v.state = "completed"
    <3>1. Stored(v.ref, j) \/ HandedOver(j)
      BY <1>1, <2>7, JobsType DEF VerdictsAreTrue
    <3>2. ~ HandedOver(j)
      <4>1. ASSUME HandedOver(j)
            PROVE  FALSE
        <5>1. j = HttpJob(UrlOf(j))
          BY <1>1, <4>1, StagesOf DEF HandedOver, BrowserJob
        <5> QED BY <1>3, <2>2, <4>1, <5>1 DEF HandedOver, BrowserAfterHttp
      <4> QED BY <4>1
    <3>3. UrlOf(j) \in StoredUrls
      BY <3>1, <3>2 DEF Stored, StoredUrls
    <3>4. Lifecycle!Finish(UrlOf(j))
      BY <2>2, <2>3, <2>4, <2>7, <3>3, StatusOfState DEF Lifecycle!Finish
    <3> QED BY <2>2, <3>4 DEF Lifecycle!Next
  <2> QED BY <1>1, <2>5, <2>6, <2>7 DEF States
<1> QED BY <1>2, <1>3

-----------------------------------------------------------------------------
LEMMA WorkerStepMaps ==
  ASSUME Before, NEW w \in Workers, WorkerStep(w)
  PROVE  Lifecycle!Next \/ UNCHANGED Lifecycle!vars
<1> DEFINE p == ProcOf[w]  records == Append(part[p], Pending(w, on[w]))
<1>1. ASSUME NEW j \in Jobs, Work(w, j)
      PROVE  UNCHANGED Lifecycle!vars
  BY <1>1, WorkMaps
<1>2. CASE \/ PutBack(w) \/ Loaded(w) \/ AddRejected(w) \/ AddTimesOut(w)
           \/ HandOffFails(w) \/ Release(w)
  BY <1>2, Stutter
  DEF PutBack, Loaded, AddRejected, AddTimesOut, HandOffFails, Release, queueVars, writerVars
<1>3. CASE Add(w)
  <2>1. p \in Procs /\ records \in Seq(PartRecords) /\ InAdd(p, records)
    BY <1>3, WorkerProc, AppendIsInAdd DEF Add
  <2>2. UNCHANGED queueVars
    BY <1>3 DEF Add
  <2>3. CASE Answer(p, records)
    BY <2>1, <2>2, <2>3, AnswerIsStore
  <2>4. CASE KeepOpen(p, records) \/ GiveUp(p)
    BY <2>2, <2>4, Stutter DEF KeepOpen, GiveUp, queueVars
  <2> QED BY <1>3, <2>3, <2>4 DEF Add
<1>4. CASE HandOff(w)
  BY <1>4, HandOffMaps
<1>5. CASE Complete(w)
  BY <1>5, CompleteMaps
<1> QED BY <1>1, <1>2, <1>3, <1>4, <1>5 DEF WorkerStep

LEMMA ProcStepMaps ==
  ASSUME Before, NEW p \in Procs, ProcStep(p)
  PROVE  Lifecycle!Next \/ UNCHANGED Lifecycle!vars
<1>1. CASE \/ Start(p) \/ Cancel(p) \/ StopAndCancel(p) \/ StopWhenEmpty(p)
           \/ Exit(p) \/ Crash(p)
  BY <1>1, Stutter
  DEF Start, NewWriter, Cancel, StopAndCancel, StopWhenEmpty, Exit, Close, Crash, LoseWriter,
      queueVars, writerVars
<1>2. CASE Tick(p)
  <2>1. CASE Answer(p, part[p])
    BY <1>2, <2>1, PartIsInAdd, AnswerIsStore DEF Tick
  <2>2. CASE GiveUp(p)
    BY <1>2, <2>2, Stutter DEF Tick, GiveUp, queueVars
  <2> QED BY <1>2, <2>1, <2>2 DEF Tick
<1> QED BY <1>1, <1>2 DEF ProcStep

\* Whatever stages, processes, files, failures and retries lie in between, the
\* user of a careful batch sees each URL queued, stored and finished as the life
\* cycle says: `done` is final, and is never reported before the record is stored.
THEOREM BatchImplementsLifecycle == Careful => (Spec => ImplementsLifecycle)
<1> SUFFICES ASSUME Careful PROVE Spec => ImplementsLifecycle
  OBVIOUS
<1>1. Init => Lifecycle!Init
  BY JobsType, StatusOfState
  DEF Init, QueueInit, WriterInit, Lifecycle!Init, UrlStatus, Stage, StoredUrls
<1>2. ASSUME TypeOK /\ IdleHasNoJob, CarefulInv, [Next]_vars
      PROVE  [Lifecycle!Next]_Lifecycle!vars
  <2>0. Before
    BY <1>2 DEF Before
  <2>1. CASE Next
    BY <2>0, <2>1, QueueStepMaps, ProcStepMaps, WorkerStepMaps DEF Next
  <2>2. CASE UNCHANGED vars
    BY <2>2, Stutter DEF vars, queueVars, writerVars
  <2> QED BY <1>2, <2>1, <2>2
<1>3. Spec => [](TypeOK /\ IdleHasNoJob) /\ []CarefulInv
  BY TypeCorrect, CarefulInvHolds, PTL
<1> QED BY <1>1, <1>2, <1>3, PTL DEF Spec, ImplementsLifecycle, Lifecycle!Spec

\* What the life cycle is for: over all stages, files, crashes, rescues and retries of
\* a careful batch, a URL once reported done stays done, and a record once in a
\* renamed file stays there (batch.go, writer.go).
THEOREM DoneIsForGood == Careful => (Spec => []Lifecycle!DoneIsOnDisk /\ Lifecycle!DoneIsFinal)
<1> SUFFICES ASSUME Careful PROVE Spec => []Lifecycle!DoneIsOnDisk /\ Lifecycle!DoneIsFinal
  OBVIOUS
<1> DEFINE Inv == Lifecycle!TypeOK /\ Lifecycle!DoneIsOnDisk
<1>1. Lifecycle!Init => Inv
  BY DEF Lifecycle!Init, Lifecycle!TypeOK, Lifecycle!Statuses, Lifecycle!DoneIsOnDisk
<1>2. ASSUME Inv, Lifecycle!Next
      PROVE  /\ Inv'
             /\ \A u \in Urls : UrlStatus[u] = "done" => UrlStatus'[u] = "done"
             /\ StoredUrls \subseteq StoredUrls'
  <2> DEFINE s == UrlStatus
             d == StoredUrls
  <2>1. ASSUME NEW S \in SUBSET Urls, Lifecycle!Queue(S)
        PROVE  /\ Inv' /\ StoredUrls \subseteq StoredUrls'
               /\ \A u \in Urls : UrlStatus[u] = "done" => UrlStatus'[u] = "done"
    BY <1>2, <2>1 DEF Lifecycle!Queue, Lifecycle!TypeOK, Lifecycle!Statuses, Lifecycle!DoneIsOnDisk
  <2>2. ASSUME NEW S \in SUBSET Urls, Lifecycle!Store(S)
        PROVE  /\ Inv' /\ StoredUrls \subseteq StoredUrls'
               /\ \A u \in Urls : UrlStatus[u] = "done" => UrlStatus'[u] = "done"
    BY <1>2, <2>2 DEF Lifecycle!Store, Lifecycle!TypeOK, Lifecycle!DoneIsOnDisk
  <2>3. ASSUME NEW u \in Urls, Lifecycle!Finish(u)
        PROVE  /\ Inv' /\ StoredUrls \subseteq StoredUrls'
               /\ \A v \in Urls : UrlStatus[v] = "done" => UrlStatus'[v] = "done"
    BY <1>2, <2>3 DEF Lifecycle!Finish, Lifecycle!TypeOK, Lifecycle!Statuses, Lifecycle!DoneIsOnDisk
  <2> QED BY <1>2, <2>1, <2>2, <2>3 DEF Lifecycle!Next
<1>3. ASSUME Inv, UNCHANGED Lifecycle!vars PROVE Inv'
  BY <1>3 DEF Lifecycle!vars, Lifecycle!TypeOK, Lifecycle!DoneIsOnDisk
<1>4. Inv /\ [Lifecycle!Next]_Lifecycle!vars
      => /\ Inv'
         /\ [/\ \A u \in Urls : UrlStatus[u] = "done" => UrlStatus'[u] = "done"
             /\ StoredUrls \subseteq StoredUrls']_Lifecycle!vars
  BY <1>2, <1>3
<1>5. Inv => Lifecycle!DoneIsOnDisk
  OBVIOUS
<1> QED
  BY <1>1, <1>4, <1>5, BatchImplementsLifecycle, PTL
  DEF ImplementsLifecycle, Lifecycle!Spec, Lifecycle!DoneIsFinal

-----------------------------------------------------------------------------
\* What the table of jobs says of a URL, read the two ways the code reads it: job
\* by job in Totals and busy, and by the stage the URL is in.

LEMMA StatusByStage ==
  ASSUME TypeOK, NEW u \in Urls
  PROVE  /\ UrlStatus[u] = "done" <=> job[Stage(u)] = "completed"
         /\ UrlStatus[u] = "dead" <=> job[Stage(u)] = "cancelled"
         /\ UrlStatus[u] = "failed" <=> job[Stage(u)] = "discarded"
         /\ UrlStatus[u] = "absent" <=> job[Stage(u)] = "none"
<1>1. job[Stage(u)] \in States /\ UrlStatus[u] = StateOf(job[Stage(u)])
  BY StageType DEF TypeOK, UrlStatus
<1> QED BY <1>1, StatusOfState DEF States

\* A job that says so, and is no completed HTTP job that was handed over, is the
\* stage of its URL.
LEMMA FinalByJob ==
  ASSUME Before, NEW u \in Urls, NEW s \in {"cancelled", "discarded"}
  PROVE  /\ job[Stage(u)] = s <=> job[<<"http", u>>] = s \/ job[<<"browser", u>>] = s
         /\ ~ (job[<<"http", u>>] = s /\ job[<<"browser", u>>] = s)
BY DEF Before, CarefulInv, BrowserAfterHttp, Stage, HttpJob, BrowserJob

LEMMA UrlSetsAreFinite ==
  ASSUME NEW S \in SUBSET Urls
  PROVE  IsFiniteSet(S) /\ Cardinality(S) \in Nat
BY UrlsAssumption, FS_Subset, FS_CardinalityType

LEMMA DisjointSum ==
  ASSUME NEW S \in SUBSET Urls, NEW T \in SUBSET Urls, S \cap T = {}
  PROVE  Cardinality(S \union T) = Cardinality(S) + Cardinality(T)
<1>1. IsFiniteSet(S) /\ IsFiniteSet(T) /\ Cardinality(S) \in Nat /\ Cardinality(T) \in Nat
  BY UrlSetsAreFinite
<1>2. Cardinality(S \union T) = Cardinality(S) + Cardinality(T) - Cardinality(S \cap T)
  BY <1>1, FS_Union
<1> QED BY <1>1, <1>2, FS_EmptySet

LEMMA TotalsByStage ==
  ASSUME Before
  PROVE  TotalsCountEachUrlOnce
<1> DEFINE Of(kind, s) == {u \in Urls : job[<<kind, u>>] = s}
           Handed == {u \in Urls : job[BrowserJob(u)] # "none"}
           In(t) == {u \in Urls : UrlStatus[u] = t}
<1>1. TypeOK
  BY DEF Before
<1>2. /\ Handed \subseteq Of("http", "completed") /\ Of("browser", "completed") \subseteq Handed
      /\ In("done") = (Of("http", "completed") \ Handed) \union Of("browser", "completed")
  <2>1. \A u \in Urls : job[BrowserJob(u)] # "none" => job[HttpJob(u)] = "completed"
    BY DEF Before, CarefulInv, BrowserAfterHttp
  <2>2. \A u \in Urls : UrlStatus[u] = "done" <=> job[Stage(u)] = "completed"
    BY <1>1, StatusByStage
  <2> QED BY <2>1, <2>2 DEF Stage, HttpJob, BrowserJob
<1>3. \A s \in {"cancelled", "discarded"} :
        LET t == IF s = "cancelled" THEN "dead" ELSE "failed"
        IN  In(t) = Of("http", s) \union Of("browser", s) /\ Of("http", s) \cap Of("browser", s) = {}
  <2> SUFFICES ASSUME NEW s \in {"cancelled", "discarded"}
               PROVE  LET t == IF s = "cancelled" THEN "dead" ELSE "failed"
                      IN  /\ In(t) = Of("http", s) \union Of("browser", s)
                          /\ Of("http", s) \cap Of("browser", s) = {}
    OBVIOUS
  <2>1. \A u \in Urls : UrlStatus[u] = (IF s = "cancelled" THEN "dead" ELSE "failed")
                        <=> job[Stage(u)] = s
    BY <1>1, StatusByStage
  <2> QED BY <2>1, FinalByJob
<1>4. /\ TotalsDone = Cardinality(Of("http", "completed")) - Cardinality(Handed)
                      + Cardinality(Of("browser", "completed"))
      /\ TotalsDead = Cardinality(Of("http", "cancelled")) + Cardinality(Of("browser", "cancelled"))
      /\ TotalsFailed = Cardinality(Of("http", "discarded")) + Cardinality(Of("browser", "discarded"))
  BY DEF TotalsDone, TotalsDead, TotalsFailed, Count, HandedOff
<1>5. /\ \A kind, s : Of(kind, s) \in SUBSET Urls
      /\ Handed \in SUBSET Urls
  OBVIOUS
<1> HIDE DEF Of, Handed, In
<1>6. Cardinality(In("done")) = TotalsDone
  <2> DEFINE S == Of("http", "completed") \ Handed
  <2>1. S \in SUBSET Urls /\ S \cap Of("browser", "completed") = {}
    BY <1>2, <1>5
  <2>2. Cardinality(In("done")) = Cardinality(S) + Cardinality(Of("browser", "completed"))
    BY <1>2, <1>5, <2>1, DisjointSum
  <2>3. Of("http", "completed") \cap Handed = Handed
    BY <1>2
  <2>4. Cardinality(S) = Cardinality(Of("http", "completed")) - Cardinality(Handed)
    <3> DEFINE A == Of("http", "completed")
    <3>1. IsFiniteSet(A)
      <4>1. A \in SUBSET Urls
        BY <1>5
      <4> HIDE DEF A
      <4> QED BY <4>1, UrlSetsAreFinite
    <3>2. S = A \ Handed /\ A \cap Handed = Handed
      BY <2>3
    <3> HIDE DEF A, S
    <3>3. Cardinality(A \ Handed) = Cardinality(A) - Cardinality(A \cap Handed)
      BY <3>1, FS_Difference
    <3>4. Cardinality(S) = Cardinality(A) - Cardinality(Handed)
      BY <3>2, <3>3
    <3> QED BY <3>4 DEF A
  <2> QED BY <1>4, <2>2, <2>4
<1>7. Cardinality(In("dead")) = TotalsDead
  BY <1>3, <1>4, <1>5, DisjointSum
<1>8. Cardinality(In("failed")) = TotalsFailed
  BY <1>3, <1>4, <1>5, DisjointSum
<1> QED BY <1>6, <1>7, <1>8 DEF TotalsCountEachUrlOnce, In

\* The totals of the progress line, which add up job states and take the URLs
\* that were handed to the browser stage off the done ones, count every URL once,
\* in the stage it is in, for any number of URLs (store.go Counts.Totals).
THEOREM TotalsAddUp == Careful => (Spec => []TotalsCountEachUrlOnce)
<1> SUFFICES ASSUME Careful PROVE Spec => []TotalsCountEachUrlOnce
  OBVIOUS
<1>1. TypeOK /\ IdleHasNoJob /\ CarefulInv => TotalsCountEachUrlOnce
  BY TotalsByStage DEF Before
<1> QED BY <1>1, TypeCorrect, CarefulInvHolds, PTL

-----------------------------------------------------------------------------
\* A process is emptied only by the ticker of its own wait.
LEMMA OnlyStopWhenEmpty ==
  ASSUME TypeOK, [Next]_vars, NEW p \in Procs, proc[p] = "running", proc'[p] = "emptied"
  PROVE  StopWhenEmpty(p)
<1>1. proc' # proc
  OBVIOUS
<1>2. ASSUME NEW q \in Procs, NEW rejected, SinkFails(q, rejected)
      PROVE  FALSE
  BY <1>2 DEF SinkFails, TypeOK
<1>3. ASSUME NEW q \in Procs, NEW records, Answer(q, records)
      PROVE  FALSE
  BY <1>1, <1>3 DEF Answer
<1>4. ASSUME NEW w \in Workers, WorkerStep(w)
      PROVE  FALSE
  <2>1. CASE Add(w)
    BY <1>1, <1>2, <1>3, <2>1, WorkerProc DEF Add
  <2>2. CASE AddRejected(w)
    BY <1>2, <2>2, WorkerProc DEF AddRejected
  <2> QED BY <1>1, <1>4, <2>1, <2>2
          DEF WorkerStep, Work, PutBack, Loaded, AddTimesOut, HandOff, HandOffFails, Release,
              Complete, procVars
<1>5. ASSUME NEW q \in Procs, ProcStep(q)
      PROVE  StopWhenEmpty(p)
  <2>1. CASE Tick(q)
    BY <1>2, <1>3, <2>1 DEF Tick
  <2>2. CASE Start(q) \/ Cancel(q) \/ StopAndCancel(q) \/ Exit(q) \/ Crash(q)
    BY <2>2 DEF Start, Cancel, StopAndCancel, Exit, Crash, TypeOK
  <2>3. CASE StopWhenEmpty(q)
    <3>1. q = p
      BY <2>3 DEF StopWhenEmpty, TypeOK
    <3> QED BY <2>3, <3>1
  <2> QED BY <1>5, <2>1, <2>2, <2>3 DEF ProcStep
<1>6. ~ (ImportUrls \/ (\E r \in Retriers : RetryCommand(r)) \/ (\E j \in Jobs : Rescue(j)))
  BY <1>1 DEF ImportUrls, RetryCommand, Rescue, procVars
<1> QED BY <1>1, <1>4, <1>5, <1>6 DEF Next, vars, procVars

\* A process with workers of both kinds that leaves with --until-empty leaves no
\* URL in between: each is dead, failed, or done with its record in a renamed
\* file, whatever other processes, crashes and retries did (batch.go wait, jobs.go
\* busy and store).
THEOREM EmptiedIsFinished == Careful => (Spec => EmptyMeansFinished)
<1> SUFFICES ASSUME Careful PROVE Spec => EmptyMeansFinished
  OBVIOUS
<1> DEFINE Finished(u) == \/ UrlStatus[u] \in {"absent", "dead", "failed"}
                          \/ UrlStatus[u] = "done" /\ u \in StoredUrls
           A == \A p \in Procs :
                  /\ proc[p] = "running" /\ proc'[p] = "emptied"
                  /\ "browser" \in watched(p)
                  => \A u \in Urls : Finished(u)
<1>1. ASSUME TypeOK /\ IdleHasNoJob, CarefulInv, [Next]_vars
      PROVE  A
  <2> SUFFICES ASSUME NEW p \in Procs, proc[p] = "running", proc'[p] = "emptied",
                      "browser" \in watched(p), NEW u \in Urls
               PROVE  Finished(u)
    OBVIOUS
  <2>1. ~ busy(watched(p))
    BY <1>1, OnlyStopWhenEmpty DEF StopWhenEmpty
  <2>2. \A j \in Jobs : job[j] \notin Unfinished
    BY <2>1 DEF busy, watched, Jobs, Kinds
  <2>3. Stage(u) \in Jobs /\ UrlOf(Stage(u)) = u
    BY StageType
  <2>4. job[Stage(u)] \in {"none", "completed", "cancelled", "discarded"}
    BY <1>1, <2>2, <2>3 DEF TypeOK, States, Unfinished
  <2>5. UrlStatus[u] \in {"absent", "done", "dead", "failed"}
    BY <1>1, <2>4, StatusByStage
  <2>6. CASE UrlStatus[u] = "done"
    <3>1. job[Stage(u)] = "completed"
      BY <1>1, <2>6, StatusByStage
    <3>2. ~ (Stage(u)[1] = "http" /\ job[BrowserJob(UrlOf(Stage(u)))] # "none")
      BY <2>3 DEF Stage, BrowserJob
    <3>3. [ref |-> output[Stage(u)], job |-> Stage(u)] \in pages
      BY <1>1, <2>3, <3>1, <3>2 DEF CarefulInv, DoneIsStored
    <3>4. u \in StoredUrls
      BY <2>3, <3>3 DEF StoredUrls
    <3> QED BY <2>6, <3>4
  <2> QED BY <2>5, <2>6
<1> HIDE DEF A
<1>2. Spec => [][A]_vars
  BY <1>1, TypeCorrect, CarefulInvHolds, PTL DEF Spec
<1> QED BY <1>2, PTL DEF EmptyMeansFinished, A
=============================================================================
