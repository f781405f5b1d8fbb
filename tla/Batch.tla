------------------------------- MODULE Batch -------------------------------
(***************************************************************************)
(* `pagelode extract batch` (pkg/batch/batch.go): processes whose River    *)
(* workers take jobs, load pages under a host gate, and store, kill, fail, *)
(* put back or hand over each one; with page files, interrupts, crashes,   *)
(* River's rescuer and `retry`.                                            *)
(*                                                                         *)
(* A worker's `pc` follows one call of Work and what River does around it: *)
(*   idle -> loading -> sending -> waiting -> returning -> finishing -> idle *)
(*                  \-> handing ------------/                              *)
(* The host gate is held from loading to returning.                        *)
(***************************************************************************)
EXTENDS BatchQueue, BatchWriter, FiniteSets

CONSTANTS
  Workers,    \* the River workers of all processes
  ProcOf,     \* the process of a worker
  KindOf,     \* the kind of job a worker takes
  Hosts,      \* the hosts of the URLs
  Host,       \* the host of a URL
  HostLimit,  \* --host-concurrency
  UntilEmpty, \* the processes started with --until-empty
  Overrun,    \* may writing or handing over a page outlast --lease?
  MaxRuns,    \* bound: starts of all processes together
  MaxCrashes, \* bound: crashes
  MaxRetries  \* bound: `retry` commands

ASSUME BatchAssumption ==
  /\ ProcOf \in [Workers -> Procs]
  /\ KindOf \in [Workers -> Kinds]
  /\ Host \in [Urls -> Hosts]
  /\ HostLimit \in Nat \ {0}
  /\ UntilEmpty \subseteq Procs
  /\ Overrun \in BOOLEAN
  /\ MaxRuns \in Nat
  /\ MaxCrashes \in Nat
  /\ MaxRetries \in Nat

VARIABLES
  proc,     \* what each process does
  gate,     \* hostGate.inFlight of each process
  pc,       \* where each worker is
  on,       \* the job each worker has
  verdict,  \* what River is to write once Work has returned
  runs, crashes, retries  \* how often it happened, for the bounds

procVars == <<proc, gate, runs, crashes>>
workVars == <<pc, on, verdict>>
vars == <<queueVars, writerVars, procVars, workVars, retries>>

\* failing: Run's context is cancelled, wait has not seen it.  stopping: in
\* StopAndCancel, the contexts of the jobs are cancelled.  emptied: in Stop.
ProcStates == {"off", "running", "failing", "stopping", "emptied", "exited"}
Alive == {"running", "failing", "stopping", "emptied"}
Fetching == {"running", "failing"}

PcStates ==
  {"idle", "loading", "sending", "waiting", "handing", "returning", "finishing"}

NoJob == <<>>
Snooze == Verdict("pending", FALSE, NoRef)
Done(ref) == Verdict("completed", TRUE, ref)
Dead == Verdict("cancelled", TRUE, NoRef)
Failed(recorded) == Verdict("discarded", recorded, NoRef)

WorkersOf(p) == {w \in Workers : ProcOf[w] = p}
HostOf(w) == Host[UrlOf(on[w])]
cancelled(w) == proc[ProcOf[w]] = "stopping"

-----------------------------------------------------------------------------
Init ==
  /\ QueueInit
  /\ WriterInit
  /\ proc = [p \in Procs |-> "off"]
  /\ gate = [p \in Procs |-> [h \in Hosts |-> 0]]
  /\ pc = [w \in Workers |-> "idle"]
  /\ on = [w \in Workers |-> NoJob]
  /\ verdict = [w \in Workers |-> NoVerdict]
  /\ runs = 0
  /\ crashes = 0
  /\ retries = 0

ImportUrls ==
  /\ \E S \in SUBSET Urls : Import(S)
  /\ UNCHANGED <<writerVars, procVars, workVars, retries>>

RetryCommand(r) ==
  \/ /\ retries < MaxRetries
     /\ RetryList(r)
     /\ retries' = retries + 1
     /\ UNCHANGED <<writerVars, procVars, workVars>>
  \/ /\ \/ \E j \in Jobs : Retry(r, j)
        \/ RetryStops(r)
     /\ UNCHANGED <<writerVars, procVars, workVars, retries>>

-----------------------------------------------------------------------------
\* Start of `extract batch run`: a new Writer, an empty gate, a River client.
Start(p) ==
  /\ proc[p] \in {"off", "exited"}
  /\ runs < MaxRuns
  /\ proc' = [proc EXCEPT ![p] = "running"]
  /\ gate' = [gate EXCEPT ![p] = [h \in Hosts |-> 0]]
  /\ runs' = runs + 1
  /\ NewWriter(p)
  /\ UNCHANGED <<queueVars, workVars, crashes, retries>>

\* SIGINT or SIGTERM, or an error of the busy query: Run's context ends.
Cancel(p) ==
  /\ proc[p] = "running"
  /\ proc' = [proc EXCEPT ![p] = "failing"]
  /\ UNCHANGED <<queueVars, writerVars, workVars, gate, runs, crashes, retries>>

\* wait: case <-ctx.Done().
StopAndCancel(p) ==
  /\ proc[p] = "failing"
  /\ proc' = [proc EXCEPT ![p] = "stopping"]
  /\ UNCHANGED <<queueVars, writerVars, workVars, gate, runs, crashes, retries>>

watched(p) ==
  {"http"} \union
    (IF \E w \in WorkersOf(p) : KindOf[w] = "browser" THEN {"browser"} ELSE {})

\* wait: case <-ticker.C with --until-empty.
StopWhenEmpty(p) ==
  /\ proc[p] = "running"
  /\ p \in UntilEmpty
  /\ ~ busy(watched(p))
  /\ proc' = [proc EXCEPT ![p] = "emptied"]
  /\ UNCHANGED <<queueVars, writerVars, workVars, gate, runs, crashes, retries>>

\* Mutant: sink.Close() does not wait for the workers.
Exit_DoesNotWait(p) ==
  /\ proc[p] \in {"stopping", "emptied"}
  /\ proc' = [proc EXCEPT ![p] = "exited"]
  /\ Close(p)
  /\ UNCHANGED <<queueVars, workVars, gate, runs, crashes, retries>>

\* The client has stopped once no worker has a job; then sink.Close().
Exit(p) ==
  /\ proc[p] \in {"stopping", "emptied"}
  /\ \A w \in WorkersOf(p) : pc[w] = "idle"
  /\ proc' = [proc EXCEPT ![p] = "exited"]
  /\ Close(p)
  /\ UNCHANGED <<queueVars, workVars, gate, runs, crashes, retries>>

Crash(p) ==
  /\ proc[p] \in Alive
  /\ crashes < MaxCrashes
  /\ crashes' = crashes + 1
  /\ proc' = [proc EXCEPT ![p] = "off"]
  /\ LoseWriter(p)
  /\ gate' = [gate EXCEPT ![p] = [h \in Hosts |-> 0]]
  /\ pc' = [w \in Workers |-> IF ProcOf[w] = p THEN "idle" ELSE pc[w]]
  /\ on' = [w \in Workers |-> IF ProcOf[w] = p THEN NoJob ELSE on[w]]
  /\ verdict' = [w \in Workers |-> IF ProcOf[w] = p THEN NoVerdict ELSE verdict[w]]
  /\ UNCHANGED <<queueVars, runs, retries>>

\* River's rescuer, in any process that works the queue, discards a job that has
\* been running for longer than --lease: its one attempt is used up.  A page load
\* ends within --page-timeout, which --lease exceeds.
slow(w) == Overrun /\ pc[w] \in {"waiting", "handing", "returning", "finishing"}

Rescue(j) ==
  /\ \E p \in Procs : proc[p] \in Fetching
  /\ job[j] = "running"
  /\ \A w \in Workers : on[w] = j => slow(w)
  /\ job' = [job EXCEPT ![j] = "discarded"]
  /\ UNCHANGED <<output, listed, writerVars, procVars, workVars, retries>>

-----------------------------------------------------------------------------
\* The worker leaves Work, with or without the host gate, with v for River.
Return(w, v) ==
  /\ pc' = [pc EXCEPT ![w] = "returning"]
  /\ verdict' = [verdict EXCEPT ![w] = v]
  /\ UNCHANGED on

\* River fetches a job and Work asks the host gate.
Work(w, j) ==
  LET p == ProcOf[w]
      h == Host[UrlOf(j)]
      free == gate[p][h] < HostLimit
  IN  /\ proc[p] \in Fetching
      /\ pc[w] = "idle"
      /\ KindOf[w] = j[1]
      /\ job[j] = "pending"
      /\ job' = [job EXCEPT ![j] = "running"]
      /\ on' = [on EXCEPT ![w] = j]
      /\ pc' = [pc EXCEPT ![w] = IF free THEN "loading" ELSE "finishing"]
      /\ verdict' = [verdict EXCEPT ![w] = IF free THEN NoVerdict ELSE Snooze]
      /\ gate' = IF free THEN [gate EXCEPT ![p][h] = @ + 1] ELSE gate
      /\ UNCHANGED <<output, listed, writerVars, proc, runs, crashes, retries>>

\* The page did not load because the process is stopping, or a browser stage has
\* no capacity (ErrSaturated, ErrUnavailable).
PutBack(w) ==
  /\ pc[w] = "loading"
  /\ cancelled(w) \/ KindOf[w] = "browser"
  /\ Return(w, Snooze)
  /\ UNCHANGED <<queueVars, writerVars, procVars, retries>>

\* ExtractHTTP or ExtractBrowser gave an answer while the context was alive.
Loaded(w) ==
  /\ pc[w] = "loading"
  /\ ~ cancelled(w)
  /\ \/ /\ pc' = [pc EXCEPT ![w] = "sending"]
        /\ UNCHANGED <<on, verdict>>
     \/ Return(w, Dead)
     \/ \E recorded \in BOOLEAN : Return(w, Failed(recorded))
     \/ /\ KindOf[w] = "http"
        /\ pc' = [pc EXCEPT ![w] = "handing"]
        /\ UNCHANGED <<on, verdict>>
  /\ UNCHANGED <<queueVars, writerVars, procVars, retries>>

-----------------------------------------------------------------------------
\* The workers that a reply of the file's records finds in Add.
Blocked(records) == {w \in WaitingIn(records) : pc[w] \in {"sending", "waiting"}}

\* finish answers every worker of the file; each returns from store.
Answer(p, records) ==
  /\ Rename(p, records)
  /\ pc' = [w \in Workers |-> IF w \in Blocked(records) THEN "returning" ELSE pc[w]]
  /\ verdict' =
       [w \in Workers |->
          IF w \in Blocked(records)
          THEN Done(RefOf(p, Numbered(p), records, w))
          ELSE verdict[w]]
  /\ UNCHANGED <<on, proc>>

\* store after an error of the sink: unless the job's own context has ended
\* (River's job timeout) the run fails; the job is put back.
SinkFails(p, rejected) ==
  /\ pc' = [w \in Workers |-> IF w \in rejected THEN "returning" ELSE pc[w]]
  /\ verdict' = [w \in Workers |-> IF w \in rejected THEN Snooze ELSE verdict[w]]
  /\ \/ UNCHANGED proc
     \/ /\ proc[p] = "running"
        /\ proc' = [proc EXCEPT ![p] = "failing"]
  /\ UNCHANGED on

\* The loop takes w's record; the file that it fills is finished at once.
Add(w) ==
  LET p == ProcOf[w]
      records == Append(part[p], Pending(w, on[w]))
  IN  /\ pc[w] = "sending"
      /\ writer[p] = "open"
      /\ \/ /\ KeepOpen(p, records)
            /\ pc' = [pc EXCEPT ![w] = "waiting"]
            /\ UNCHANGED <<on, verdict, proc>>
         \/ /\ Len(records) >= FileRecords
            /\ Answer(p, records)
         \/ /\ GiveUp(p)
            /\ SinkFails(p, Blocked(records))
      /\ UNCHANGED <<queueVars, gate, runs, crashes, retries>>

\* Add's other cases: the loop has returned, ...
AddRejected(w) ==
  /\ pc[w] = "sending"
  /\ writer[ProcOf[w]] # "open"
  /\ SinkFails(ProcOf[w], {w})
  /\ UNCHANGED <<queueVars, writerVars, gate, runs, crashes, retries>>

\* ... or the job's context ended while the loop was busy.
AddTimesOut(w) ==
  /\ pc[w] = "sending"
  /\ Return(w, Snooze)
  /\ UNCHANGED <<queueVars, writerVars, procVars, retries>>

\* Mutant: a failed finish ends the loop without rejecting the waiting workers.
Tick_ForgetsReject(p) ==
  /\ writer[p] = "open"
  /\ part[p] # <<>>
  /\ Answer(p, part[p]) \/ (GiveUp(p) /\ UNCHANGED <<workVars, proc>>)
  /\ UNCHANGED <<queueVars, gate, runs, crashes, retries>>

\* The ticker finds a file that is old enough or quiet.
Tick(p) ==
  /\ writer[p] = "open"
  /\ part[p] # <<>>
  /\ \/ Answer(p, part[p])
     \/ GiveUp(p) /\ SinkFails(p, Blocked(part[p]))
  /\ UNCHANGED <<queueVars, gate, runs, crashes, retries>>

-----------------------------------------------------------------------------
\* Mutant: the browser job is inserted before the HTTP job is completed.
HandOff_TwoTransactions(w) ==
  /\ pc[w] = "handing"
  /\ job' = Inserted(job, {BrowserJob(UrlOf(on[w]))})
  /\ Return(w, Done(NoRef))
  /\ UNCHANGED <<output, listed, writerVars, procVars, retries>>

\* One transaction inserts the browser job and completes the HTTP job; the
\* answer to its commit may be lost.
HandOff(w) ==
  LET j == on[w]
  IN  /\ pc[w] = "handing"
      /\ job' = Inserted(SetIfRunning(job, j, "completed"), {BrowserJob(UrlOf(j))})
      /\ output' = Merged(output, j, Done(NoRef))
      /\ Return(w, Done(NoRef)) \/ Return(w, Failed(TRUE))
      /\ UNCHANGED <<listed, writerVars, procVars, retries>>

HandOffFails(w) ==
  /\ pc[w] = "handing"
  /\ Return(w, Failed(TRUE))
  /\ UNCHANGED <<queueVars, writerVars, procVars, retries>>

\* Mutant: Work returns on some path without releasing the host.
Release_Leaks(w) ==
  /\ pc[w] = "returning"
  /\ pc' = [pc EXCEPT ![w] = "finishing"]
  /\ UNCHANGED <<queueVars, writerVars, procVars, on, verdict, retries>>

\* Work's deferred release.
Release(w) ==
  LET p == ProcOf[w]
  IN  /\ pc[w] = "returning"
      /\ pc' = [pc EXCEPT ![w] = "finishing"]
      /\ gate' = [gate EXCEPT ![p][HostOf(w)] = IF @ <= 1 THEN 0 ELSE @ - 1]
      /\ UNCHANGED <<queueVars, writerVars, proc, runs, crashes, on, verdict, retries>>

\* River writes the state and the output that Work's return stands for.
Complete(w) ==
  /\ pc[w] = "finishing"
  /\ job' = SetIfRunning(job, on[w], verdict[w].state)
  /\ output' = Merged(output, on[w], verdict[w])
  /\ pc' = [pc EXCEPT ![w] = "idle"]
  /\ on' = [on EXCEPT ![w] = NoJob]
  /\ verdict' = [verdict EXCEPT ![w] = NoVerdict]
  /\ UNCHANGED <<listed, writerVars, procVars, retries>>

-----------------------------------------------------------------------------
WorkerStep(w) ==
  \/ \E j \in Jobs : Work(w, j)
  \/ PutBack(w) \/ Loaded(w) \/ Add(w) \/ AddRejected(w) \/ AddTimesOut(w)
  \/ HandOff(w) \/ HandOffFails(w) \/ Release(w) \/ Complete(w)

ProcStep(p) ==
  \/ Start(p) \/ Cancel(p) \/ StopAndCancel(p) \/ StopWhenEmpty(p)
  \/ Exit(p) \/ Crash(p) \/ Tick(p)

Next ==
  \/ ImportUrls
  \/ \E r \in Retriers : RetryCommand(r)
  \/ \E j \in Jobs : Rescue(j)
  \/ \E p \in Procs : ProcStep(p)
  \/ \E w \in Workers : WorkerStep(w)

Spec == Init /\ [][Next]_vars

-----------------------------------------------------------------------------
(***************************************************************************)
(* Properties.                                                             *)
(***************************************************************************)
Files == Procs \X Nat \X Nat  \* process, file, line
Refs == Files \union {NoRef}
Records == [ref : Files, job : Jobs]

\* Every variable has the shape its Go counterpart has.
TypeOK ==
  /\ job \in [Jobs -> States]
  /\ output \in [Jobs -> Refs]
  /\ listed \in [Retriers -> SUBSET Jobs]
  /\ writer \in [Procs -> {"none", "open", "failed", "closed"}]
  /\ part \in [Procs -> Seq([worker : Workers, job : Jobs])]
  /\ sequence \in [Procs -> Nat]
  /\ pages \subseteq Records
  /\ proc \in [Procs -> ProcStates]
  /\ gate \in [Procs -> [Hosts -> Nat]]
  /\ pc \in [Workers -> PcStates]
  /\ on \in [Workers -> Jobs \union {NoJob}]
  /\ verdict \in [Workers -> [state : States, recorded : BOOLEAN, ref : Refs]]
  /\ runs \in Nat /\ crashes \in Nat /\ retries \in Nat

\* What the properties below assume of the operator: writing or handing over a
\* page never takes longer than --lease allows, and `retry` runs alone.
Careful == ~ Overrun /\ \A r, s \in Retriers : r = s

\* A job is reported done only for a page that can be read at its contentRef in
\* a renamed file, where no other page is, or, in the HTTP stage, for a URL whose
\* browser job exists (batch.go store, handOff; writer.go finish).
DoneIsStored ==
  /\ \A j \in Jobs : job[j] = "completed" =>
       \/ [ref |-> output[j], job |-> j] \in pages
       \/ j[1] = "http" /\ job[BrowserJob(UrlOf(j))] # "none"
  /\ \A r, s \in pages : r.ref = s.ref => r = s

\* Every worker blocked in Add is in the open file exactly once, so that finish or
\* reject will answer it, and nobody uses a Writer that has been closed.
WaitersAreInTheFile ==
  \A p \in Procs :
    /\ {w \in WorkersOf(p) : pc[w] = "waiting"} = WaitingIn(part[p])
    /\ Cardinality(WaitingIn(part[p])) = Len(part[p])
    /\ part[p] # <<>> => writer[p] = "open"
    /\ writer[p] = "closed" =>
          \A w \in WorkersOf(p) : pc[w] \notin {"sending", "waiting"}

-----------------------------------------------------------------------------
\* The stage a URL is in, and what `status` says of it there (StateOf).
Stage(u) == IF job[BrowserJob(u)] = "none" THEN HttpJob(u) ELSE BrowserJob(u)

StateOf(state) ==
  CASE state = "none" -> "absent"
    [] state \in Unfinished -> "queued"
    [] state = "completed" -> "done"
    [] state = "cancelled" -> "dead"
    [] state = "discarded" -> "failed"

UrlStatus == [u \in Urls |-> StateOf(job[Stage(u)])]
StoredUrls == {UrlOf(r.job) : r \in pages}

\* Counts.Totals: the URLs handed to the browser stage are taken off the done ones.
Count(kind, state) == Cardinality({u \in Urls : job[<<kind, u>>] = state})
HandedOff == Cardinality({u \in Urls : job[BrowserJob(u)] # "none"})
TotalsDone == Count("http", "completed") - HandedOff + Count("browser", "completed")
TotalsDead == Count("http", "cancelled") + Count("browser", "cancelled")
TotalsFailed == Count("http", "discarded") + Count("browser", "discarded")

\* The totals of the progress line count each URL once, by the stage it is in.
TotalsCountEachUrlOnce ==
  LET InState(s) == Cardinality({u \in Urls : UrlStatus[u] = s})
  IN  /\ TotalsDone = InState("done")
      /\ TotalsDead = InState("dead")
      /\ TotalsFailed = InState("failed")

\* A process with browser workers leaves with --until-empty only when every
\* imported URL is dead, failed, or done with its record in a renamed file.
EmptyMeansFinished ==
  [][\A p \in Procs :
       /\ proc[p] = "running" /\ proc'[p] = "emptied"
       /\ "browser" \in watched(p)
       => \A u \in Urls :
            \/ UrlStatus[u] \in {"absent", "dead", "failed"}
            \/ UrlStatus[u] = "done" /\ u \in StoredUrls]_vars

\* Seen from outside, jobs, stages, processes and files implement the life cycle
\* of a URL: in particular `done` is final and comes after the record.
Lifecycle == INSTANCE UrlLifecycle WITH status <- UrlStatus, stored <- StoredUrls
ImplementsLifecycle == Lifecycle!Spec

-----------------------------------------------------------------------------
(***************************************************************************)
(* Fairness: goroutines that can run do (WF).  Of the environment (SF): a  *)
(* worker that loads a page gets an answer in the end (--page-timeout), and *)
(* not for ever the answer that every browser is full; and River's job     *)
(* timeout does not strike every time a page is handed to the Writer.      *)
(***************************************************************************)
Fairness ==
  /\ \A p \in Procs :
       WF_vars(StopAndCancel(p)) /\ WF_vars(Exit(p)) /\ WF_vars(Tick(p))
  /\ \A w \in Workers :
       /\ WF_vars(\E j \in Jobs : Work(w, j))
       /\ WF_vars(PutBack(w) \/ Loaded(w))
       /\ SF_vars(Loaded(w))
       /\ WF_vars(Add(w) \/ AddRejected(w))
       /\ SF_vars(Add(w))
       /\ SF_vars(AddRejected(w) /\ proc' # proc)
       /\ WF_vars(HandOff(w) \/ HandOffFails(w))
       /\ WF_vars(Release(w))
       /\ WF_vars(Complete(w))

FairSpec == Spec /\ Fairness

\* A process that is to stop does: no worker waits for the Writer for ever.
ShutdownEnds ==
  \A p \in Procs :
    proc[p] \in {"failing", "stopping", "emptied"} ~> proc[p] \in {"exited", "off"}

\* While a process with both kinds of workers stays up, every imported URL is
\* finished in the end, in whichever stage it ends.
EveryUrlFinishes ==
  \A u \in Urls :
    UrlStatus[u] = "queued" ~>
      \/ UrlStatus[u] \in {"done", "dead", "failed"}
      \/ \A p \in Procs : proc[p] # "running"
=============================================================================
