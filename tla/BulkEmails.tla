----------------------------- MODULE BulkEmails -----------------------------
(***************************************************************************)
(* `pagelode emails --input` (internal/cli/emails_bulk.go): a feeder,      *)
(* workers and a collector over two unbuffered channels, the table of      *)
(* finished sites, SIGINT, saves that fail, and runs that are killed and   *)
(* repeated.  A site's crawl is one step: its result.                      *)
(***************************************************************************)
EXTENDS Naturals

CONSTANTS
  Sites,     \* the sites of the input file
  Workers,   \* --workers
  MaxRuns,   \* bound: how often the command is started
  NoSite

ASSUME BulkAssumption ==
  /\ NoSite \notin Sites
  /\ Workers # {}
  /\ MaxRuns \in Nat

Finished == {"report", "failure"}     \* what a whole crawl gives: SaveEmailReport, SaveEmailFailure
Results == Finished \union {"cut"}    \* Find's error when the run's context has ended

VARIABLES
  table,      \* email_sites: what was saved of each site, or "none"
  run,        \* "running", or how the last run ended
  runs,       \* how many there have been
  todo,       \* pending sites the feeder has not sent
  jobs,       \* the channel jobs: "open" or "closed"
  worker,     \* where each worker is, with which site and result
  collector,  \* the loop over results
  cancelled,  \* ctx.Err() # nil
  saveError   \* saveError # nil

bulkVars == <<run, runs, todo, jobs, worker, collector, cancelled, saveError>>
vars == <<table, bulkVars>>

Idle == [at |-> "idle", site |-> NoSite, result |-> "none"]
Gone == [Idle EXCEPT !.at = "gone"]
Receiving == [at |-> "receiving", site |-> NoSite, result |-> "none"]

Init ==
  /\ table = [site \in Sites |-> "none"]
  /\ run = "none"
  /\ runs = 0
  /\ todo = {}
  /\ jobs = "closed"
  /\ worker = [w \in Workers |-> Gone]
  /\ collector = Receiving
  /\ cancelled = FALSE
  /\ saveError = FALSE

Running == run = "running"

\* Mutant: a run starts with all sites.
Start_IgnoresTable ==
  /\ ~ Running
  /\ runs < MaxRuns
  /\ runs' = runs + 1
  /\ todo' = Sites
  /\ cancelled' = FALSE
  /\ saveError' = FALSE
  /\ collector' = Receiving
  /\ run' = "running"
  /\ jobs' = "open"
  /\ worker' = [w \in Workers |-> Idle]
  /\ UNCHANGED table

\* A run starts with the sites that the table does not have.
Start ==
  /\ ~ Running
  /\ runs < MaxRuns
  /\ runs' = runs + 1
  /\ todo' = {site \in Sites : table[site] = "none"}
  /\ cancelled' = FALSE
  /\ saveError' = FALSE
  /\ collector' = Receiving
  /\ \/ /\ todo' = {}
        /\ run' = "done"
        /\ UNCHANGED <<table, jobs, worker>>
     \/ /\ todo' # {}
        /\ run' = "running"
        /\ jobs' = "open"
        /\ worker' = [w \in Workers |-> Idle]
        /\ UNCHANGED table

\* The feeder's select: a site goes to a worker that receives ...
Feed(w, site) ==
  /\ Running
  /\ jobs = "open"
  /\ site \in todo
  /\ worker[w].at = "idle"
  /\ todo' = todo \ {site}
  /\ worker' = [worker EXCEPT ![w] = [at |-> "crawling", site |-> site, result |-> "none"]]
  /\ UNCHANGED <<table, run, runs, jobs, collector, cancelled, saveError>>

\* ... or the context has ended; or no site is left.
StopFeeding ==
  /\ Running
  /\ jobs = "open"
  /\ cancelled \/ todo = {}
  /\ jobs' = "closed"
  /\ UNCHANGED <<table, run, runs, todo, worker, collector, cancelled, saveError>>

\* Find returns; it may still give a whole report when the context has just ended.
Crawl(w) ==
  /\ Running
  /\ worker[w].at = "crawling"
  /\ \E result \in Results :
       /\ result = "cut" => cancelled
       /\ worker' = [worker EXCEPT ![w] =
            [at |-> "sending", site |-> worker[w].site, result |-> result]]
  /\ UNCHANGED <<table, run, runs, todo, jobs, collector, cancelled, saveError>>

\* results <- siteResult, received by the collector.
Deliver(w) ==
  /\ Running
  /\ worker[w].at = "sending"
  /\ collector.at = "receiving"
  /\ collector' = [at |-> "received", site |-> worker[w].site, result |-> worker[w].result]
  /\ worker' = [worker EXCEPT ![w] = Idle]
  /\ UNCHANGED <<table, run, runs, todo, jobs, cancelled, saveError>>

\* jobs is closed: the worker's loop ends.
Leave(w) ==
  /\ Running
  /\ worker[w].at = "idle"
  /\ jobs = "closed"
  /\ worker' = [worker EXCEPT ![w] = Gone]
  /\ UNCHANGED <<table, run, runs, todo, jobs, collector, cancelled, saveError>>

\* Mutant: the collector saves what it receives after an interrupt too.
Check_SavesAlways ==
  /\ Running
  /\ collector.at = "received"
  /\ collector' = [collector EXCEPT !.at = "saving"]
  /\ UNCHANGED <<table, run, runs, todo, jobs, worker, cancelled, saveError>>

\* Mutant: after an interrupt the collector does not go on receiving.
Check_StopsReceiving ==
  /\ Running
  /\ collector.at = "received"
  /\ ~ cancelled
  /\ collector' = [collector EXCEPT !.at = "saving"]
  /\ UNCHANGED <<table, run, runs, todo, jobs, worker, cancelled, saveError>>

\* The collector drops what it receives after an interrupt.
Check ==
  /\ Running
  /\ collector.at = "received"
  /\ collector' = IF cancelled THEN Receiving ELSE [collector EXCEPT !.at = "saving"]
  /\ UNCHANGED <<table, run, runs, todo, jobs, worker, cancelled, saveError>>

\* Mutant: a save that fails is only logged.
Save_IgnoresErrors ==
  /\ Running
  /\ collector.at = "saving"
  /\ collector' = Receiving
  /\ table' \in {table, [table EXCEPT ![collector.site] = collector.result]}
  /\ UNCHANGED <<run, runs, todo, jobs, worker, cancelled, saveError>>

Saved == [table EXCEPT ![collector.site] = collector.result]

\* saveEmails, one transaction.  If it fails, perhaps after the commit, the run stops.
Save ==
  /\ Running
  /\ collector.at = "saving"
  /\ collector' = Receiving
  /\ \/ /\ table' = Saved
        /\ UNCHANGED <<cancelled, saveError>>
     \/ /\ table' \in {table, Saved}
        /\ cancelled' = TRUE
        /\ saveError' = TRUE
  /\ UNCHANGED <<run, runs, todo, jobs, worker>>

\* The workers are gone, results is closed, and the command reports how it ended.
Return ==
  /\ Running
  /\ collector.at = "receiving"
  /\ \A w \in Workers : worker[w] = Gone
  /\ run' = IF saveError THEN "error" ELSE IF cancelled THEN "interrupted" ELSE "done"
  /\ UNCHANGED <<table, runs, todo, jobs, worker, collector, cancelled, saveError>>

\* SIGINT or SIGTERM.
Interrupt ==
  /\ Running
  /\ ~ cancelled
  /\ cancelled' = TRUE
  /\ UNCHANGED <<table, run, runs, todo, jobs, worker, collector, saveError>>

\* The process is killed, by a signal after stop() for one; a save may still commit.
Crash ==
  /\ Running
  /\ run' = "killed"
  /\ todo' = {}
  /\ jobs' = "closed"
  /\ worker' = [w \in Workers |-> Gone]
  /\ collector' = Receiving
  /\ table' \in IF collector.at = "saving" THEN {table, Saved} ELSE {table}
  /\ UNCHANGED <<runs, cancelled, saveError>>

WorkerStep(w) == Crawl(w) \/ Deliver(w) \/ Leave(w)
Feeder == StopFeeding \/ \E w \in Workers, site \in todo : Feed(w, site)

Next ==
  \/ Start \/ Feeder \/ Check \/ Save \/ Return \/ Interrupt \/ Crash
  \/ \E w \in Workers : WorkerStep(w)

Spec == Init /\ [][Next]_vars

\* Goroutines that can run do; a crawl ends because of --max-duration, a save because
\* the database answers or the connection breaks.
FairSpec ==
  /\ Spec
  /\ \A w \in Workers : WF_vars(WorkerStep(w))
  /\ WF_vars(Feeder) /\ WF_vars(Check) /\ WF_vars(Save) /\ WF_vars(Return)

-----------------------------------------------------------------------------
Carried(place, results) == [at : {place}, site : Sites, result : results]

WorkerStates ==
  {Idle, Gone} \union Carried("crawling", {"none"}) \union Carried("sending", Results)
CollectorStates ==
  {Receiving} \union Carried("received", Results) \union Carried("saving", Results)

\* Every variable has the shape its Go counterpart has.
TypeOK ==
  /\ table \in [Sites -> Results \union {"none"}]
  /\ run \in {"none", "running", "done", "interrupted", "error", "killed"}
  /\ runs \in 0..MaxRuns
  /\ todo \subseteq Sites
  /\ jobs \in {"open", "closed"}
  /\ worker \in [Workers -> WorkerStates]
  /\ collector \in CollectorStates
  /\ cancelled \in BOOLEAN
  /\ saveError \in BOOLEAN

\* A site is in one hand only: to be sent, with one worker, or with the collector, and
\* then it has no row yet.  So two workers never crawl one site, and no crawl is spent
\* on a site that is saved.
OneHandPerSite ==
  /\ \A v, w \in Workers : worker[v].site = worker[w].site => v = w \/ worker[v].site = NoSite
  /\ \A w \in Workers : worker[w].site \notin todo
  /\ \A w \in Workers : worker[w].site = collector.site => collector.site = NoSite
  /\ collector.site \notin todo
  /\ \A site \in Sites :
       \/ site \in todo
       \/ site = collector.site
       \/ \E w \in Workers : site = worker[w].site
       => table[site] = "none"

\* What an interrupt has cut short is never saved: a row would keep the site from being
\* crawled when the command is run again (docs/cli.md: "interrupting with Ctrl-C and
\* rerunning resumes").
NothingCutIsSaved == \A site \in Sites : table[site] # "cut"

\* "N sites crawled, saved to Postgres" is printed only when every site has its row.
DoneMeansSaved == run = "done" => \A site \in Sites : table[site] # "none"

\* Rows are written once and only with whole results, over all runs.
Promise == INSTANCE SiteTable WITH Unsaved <- "none", Results <- Finished
ImplementsSiteTable == Promise!Spec

\* Every run ends: after an interrupt or a failed save too, feeder, workers and
\* collector do not wait for each other over the unbuffered channels.
EveryRunEnds == Running ~> ~ Running
=============================================================================
