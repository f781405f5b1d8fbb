---------------------------- MODULE EmailProofs -----------------------------
(***************************************************************************)
(* The email finder.  The command over many sites: for any number of       *)
(* sites, workers and runs, it saves each site once, with a whole result,  *)
(* and reports success only when all are saved.  One search, for any site, *)
(* request and sizes: it keeps its limits, and is "ok" only when complete. *)
(* A loop of a search is a Fold over a sequence; FoldRule says what it     *)
(* keeps, and each loop below has a lemma for one step and one for all.    *)
(***************************************************************************)
EXTENDS BulkEmails, EmailSearch, SequenceTheorems, FiniteSetTheorems, TLAPS

------------------------------------------------------------------------------
(* The command over many sites. *)

\* A result that was cut short exists only after the interrupt, and is not saved then.
CutIsDropped ==
  /\ \A w \in Workers : worker[w].result = "cut" => cancelled
  /\ collector.result = "cut" => cancelled /\ collector.at = "received"

\* Between two runs no worker is left; until an interrupt or a failed save, every site is in some hand or saved.
NothingIsLost ==
  /\ saveError => cancelled
  /\ ~ Running => \A w \in Workers : worker[w] = Gone
  /\ Running =>
       /\ \A w \in Workers : worker[w] = Gone => jobs = "closed"
       /\ ~ cancelled =>
            /\ jobs = "closed" => todo = {}
            /\ \A site \in Sites :
                 \/ site \in todo
                 \/ site = collector.site
                 \/ \E w \in Workers : site = worker[w].site
                 \/ table[site] # "none"

Safe ==
  /\ OneHandPerSite
  /\ NothingCutIsSaved
  /\ DoneMeansSaved
  /\ CutIsDropped
  /\ NothingIsLost

BulkInv == TypeOK /\ Safe

\* Who carries a site, and who does not.
LEMMA States ==
  ASSUME TypeOK
  PROVE  /\ NoSite \notin Sites
         /\ \A w \in Workers :
              /\ worker[w] = [at |-> worker[w].at, site |-> worker[w].site, result |-> worker[w].result]
              /\ worker[w].at \in {"idle", "gone", "crawling", "sending"}
              /\ worker[w].at \in {"idle", "gone"} => worker[w].site = NoSite /\ worker[w].result = "none"
              /\ worker[w].at = "idle" <=> worker[w] = Idle
              /\ worker[w].at = "gone" <=> worker[w] = Gone
              /\ worker[w].at = "crawling" => worker[w].site \in Sites /\ worker[w].result = "none"
              /\ worker[w].at = "sending" => worker[w].site \in Sites /\ worker[w].result \in Results
         /\ collector = [at |-> collector.at, site |-> collector.site, result |-> collector.result]
         /\ collector.at \in {"receiving", "received", "saving"}
         /\ collector.at = "receiving" <=> collector = Receiving
         /\ collector.at = "receiving" => collector.site = NoSite /\ collector.result = "none"
         /\ collector.at # "receiving" => collector.site \in Sites /\ collector.result \in Results
<1>1. \A x \in WorkerStates :
        /\ x = [at |-> x.at, site |-> x.site, result |-> x.result]
        /\ x.at \in {"idle", "gone", "crawling", "sending"}
        /\ x.at \in {"idle", "gone"} => x.site = NoSite /\ x.result = "none"
        /\ x.at = "idle" <=> x = Idle
        /\ x.at = "gone" <=> x = Gone
        /\ x.at = "crawling" => x.site \in Sites /\ x.result = "none"
        /\ x.at = "sending" => x.site \in Sites /\ x.result \in Results
  BY DEF WorkerStates, Carried, Idle, Gone
<1>2. \A x \in CollectorStates :
        /\ x = [at |-> x.at, site |-> x.site, result |-> x.result]
        /\ x.at \in {"receiving", "received", "saving"}
        /\ x.at = "receiving" <=> x = Receiving
        /\ x.at = "receiving" => x.site = NoSite /\ x.result = "none"
        /\ x.at # "receiving" => x.site \in Sites /\ x.result \in Results
  BY DEF CollectorStates, Carried, Receiving
<1> QED BY <1>1, <1>2, BulkAssumption DEF TypeOK

\* The records the steps write.
LEMMA NewStates ==
  /\ Idle \in WorkerStates /\ Gone \in WorkerStates /\ Receiving \in CollectorStates
  /\ \A site \in Sites :
       [at |-> "crawling", site |-> site, result |-> "none"] \in WorkerStates
  /\ \A site \in Sites, result \in Results :
       /\ [at |-> "sending", site |-> site, result |-> result] \in WorkerStates
       /\ [at |-> "received", site |-> site, result |-> result] \in CollectorStates
       /\ [at |-> "saving", site |-> site, result |-> result] \in CollectorStates
BY DEF WorkerStates, CollectorStates, Carried

\* The collector drops what it has received, or goes on to save it.
LEMMA Checked ==
  ASSUME TypeOK, Check
  PROVE  IF cancelled THEN collector' = Receiving
         ELSE collector' = [at |-> "saving", site |-> collector.site, result |-> collector.result]
<1>1. ~ cancelled => collector' = [collector EXCEPT !.at = "saving"]
  BY DEF Check
<1>2. collector = [at |-> collector.at, site |-> collector.site, result |-> collector.result]
  BY States
<1>3. [collector EXCEPT !.at = "saving"] =
        [at |-> "saving", site |-> collector.site, result |-> collector.result]
  BY <1>2
<1> QED BY <1>1, <1>3 DEF Check

LEMMA InitBulkInv == Init => BulkInv
<1> SUFFICES ASSUME Init PROVE BulkInv
  OBVIOUS
<1>1. TypeOK
  <2>1. worker \in [Workers -> WorkerStates] /\ collector \in CollectorStates
    BY NewStates DEF Init
  <2>2. 0 \in 0..MaxRuns
    BY BulkAssumption
  <2>3. table \in [Sites -> Results \union {"none"}]
    BY DEF Init
  <2> QED BY <2>1, <2>2, <2>3 DEF Init, TypeOK
<1>2. OneHandPerSite /\ CutIsDropped
  BY BulkAssumption DEF Init, OneHandPerSite, CutIsDropped, Gone, Idle, Receiving
<1>3. NothingCutIsSaved /\ DoneMeansSaved /\ NothingIsLost
  BY DEF Init, NothingCutIsSaved, DoneMeansSaved, NothingIsLost, Running
<1> QED BY <1>1, <1>2, <1>3 DEF BulkInv, Safe, Safe

LEMMA StepType == TypeOK /\ [Next]_vars => TypeOK'
<1> SUFFICES ASSUME TypeOK, [Next]_vars PROVE TypeOK'
  OBVIOUS
<1> USE States, NewStates DEF TypeOK
<1>1. CASE Start
  <2>1. runs' \in 0..MaxRuns
    BY <1>1, BulkAssumption DEF Start
  <2>2. worker' \in [Workers -> WorkerStates] /\ collector' \in CollectorStates
    BY <1>1 DEF Start
  <2> QED BY <1>1, <2>1, <2>2 DEF Start
<1>2. ASSUME NEW w \in Workers, NEW site \in todo, Feed(w, site) PROVE TypeOK'
  BY <1>2 DEF Feed
<1>3. CASE StopFeeding
  BY <1>3 DEF StopFeeding
<1>4. ASSUME NEW w \in Workers, Crawl(w) PROVE TypeOK'
  <2>1. PICK result \in Results :
          worker' = [worker EXCEPT ![w] =
            [at |-> "sending", site |-> worker[w].site, result |-> result]]
    BY <1>4 DEF Crawl
  <2>2. [at |-> "sending", site |-> worker[w].site, result |-> result] \in WorkerStates
    BY <1>4, States, NewStates DEF Crawl
  <2> QED BY <1>4, <2>1, <2>2 DEF Crawl
<1>5. ASSUME NEW w \in Workers, Deliver(w) PROVE TypeOK'
  <2>1. collector' \in CollectorStates /\ worker' \in [Workers -> WorkerStates]
    BY <1>5 DEF Deliver
  <2> QED BY <1>5, <2>1 DEF Deliver
<1>6. ASSUME NEW w \in Workers, Leave(w) PROVE TypeOK'
  BY <1>6 DEF Leave
<1>7. CASE Check
  <2>1. collector.site \in Sites /\ collector.result \in Results
    BY <1>7, States DEF Check
  <2>2. collector' \in CollectorStates
    BY <1>7, <2>1, Checked, NewStates
  <2> QED BY <1>7, <2>2 DEF Check
<1>8. CASE Save
  BY <1>8 DEF Save, Saved
<1>9. CASE Return
  BY <1>9 DEF Return
<1>10. CASE Interrupt
  BY <1>10 DEF Interrupt
<1>11. CASE Crash
  <2>1. table' \in [Sites -> Results \union {"none"}]
    BY <1>11 DEF Crash, Saved
  <2> QED BY <1>11, <2>1 DEF Crash
<1>12. CASE UNCHANGED vars
  BY <1>12 DEF vars, bulkVars
<1> QED
  BY <1>1, <1>2, <1>3, <1>4, <1>5, <1>6, <1>7, <1>8, <1>9, <1>10, <1>11, <1>12
  DEF Next, Feeder, WorkerStep

LEMMA StepSafe ==
  ASSUME BulkInv, TypeOK', [Next]_vars
  PROVE  Safe'
<1> USE DEF BulkInv, Safe
<1>1. CASE Start
  <2>1. OneHandPerSite'
    BY <1>1, States DEF TypeOK, OneHandPerSite, Start, Idle, Receiving, Running
  <2>2. NothingCutIsSaved' /\ CutIsDropped'
    BY <1>1, States DEF TypeOK, NothingCutIsSaved, CutIsDropped, NothingIsLost, Start, Idle, Receiving, Running
  <2>3. DoneMeansSaved'
    BY <1>1 DEF TypeOK, DoneMeansSaved, Start
  <2>4. saveError' => cancelled'
    BY <1>1 DEF Start
  <2>5. CASE run' = "done"
    BY <1>1, <2>1, <2>2, <2>3, <2>4, <2>5 DEF NothingIsLost, Start, Running
  <2>6. CASE run' = "running"
    <3>1. jobs' = "open" /\ \A v \in Workers : worker'[v] # Gone
      BY <1>1, <2>6 DEF Start, Idle, Gone
    <3>2. \A s \in Sites : s \in todo' \/ table'[s] # "none"
      BY <1>1 DEF Start
    <3> QED BY <2>1, <2>2, <2>3, <2>4, <2>6, <3>1, <3>2 DEF NothingIsLost, Running
  <2> QED BY <1>1, <2>5, <2>6 DEF Start
<1>2. ASSUME NEW w \in Workers, NEW site \in todo, Feed(w, site) PROVE Safe'
  <2>1. OneHandPerSite'
    BY <1>2, States DEF TypeOK, OneHandPerSite, Feed, Running
  <2>2. NothingCutIsSaved' /\ CutIsDropped'
    BY <1>2, States DEF TypeOK, NothingCutIsSaved, CutIsDropped, Feed, Running
  <2>3. ASSUME NEW s \in Sites, ~ cancelled
        PROVE  \/ s \in todo'
               \/ s = collector'.site
               \/ \E v \in Workers : s = worker'[v].site
               \/ table'[s] # "none"
    <3>1. CASE s = site
      BY <1>2, <3>1 DEF Feed, TypeOK
    <3>2. \A v \in Workers : worker[v].site = s => worker'[v].site = s
      BY <1>2, States DEF Feed, TypeOK
    <3>3. CASE s # site
      BY <1>2, <2>3, <3>2, <3>3 DEF Feed, TypeOK, NothingIsLost
    <3> QED BY <3>1, <3>3
  <2>4. \A v \in Workers : worker'[v] # Gone
    BY <1>2, States DEF Feed, TypeOK, NothingIsLost, Gone
  <2>5. DoneMeansSaved' /\ NothingIsLost'
    BY <1>2, <2>3, <2>4 DEF DoneMeansSaved, NothingIsLost, Feed, Running
  <2> QED BY <2>1, <2>2, <2>5
<1>3. CASE StopFeeding
  <2>1. OneHandPerSite'
    BY <1>3, States DEF TypeOK, OneHandPerSite, StopFeeding, Running
  <2>2. NothingCutIsSaved' /\ CutIsDropped'
    BY <1>3, States DEF TypeOK, NothingCutIsSaved, CutIsDropped, StopFeeding, Running
  <2>3. DoneMeansSaved' /\ NothingIsLost'
    BY <1>3, States DEF TypeOK, DoneMeansSaved, NothingIsLost, StopFeeding, Running
  <2> QED BY <2>1, <2>2, <2>3
<1>4. ASSUME NEW w \in Workers, Crawl(w) PROVE Safe'
  <2>1. OneHandPerSite'
    BY <1>4, States DEF TypeOK, OneHandPerSite, Crawl, Running
  <2>2. NothingCutIsSaved' /\ CutIsDropped'
    BY <1>4, States DEF TypeOK, NothingCutIsSaved, CutIsDropped, Crawl, Running
  <2>3. \A v \in Workers : worker'[v].site = worker[v].site
    BY <1>4 DEF Crawl, TypeOK
  <2>4. \A v \in Workers : worker'[v] = Gone => worker[v] = Gone
    BY <1>4 DEF Crawl, TypeOK, Gone, Idle
  <2>5. DoneMeansSaved' /\ NothingIsLost'
    BY <1>4, <2>3, <2>4 DEF DoneMeansSaved, NothingIsLost, Crawl, Running
  <2> QED BY <2>1, <2>2, <2>5
<1>5. ASSUME NEW w \in Workers, Deliver(w) PROVE Safe'
  <2>1. OneHandPerSite'
    BY <1>5, States DEF TypeOK, OneHandPerSite, Deliver, Idle, Running
  <2>2. NothingCutIsSaved' /\ CutIsDropped'
    BY <1>5, States DEF TypeOK, NothingCutIsSaved, CutIsDropped, Deliver, Idle, Running
  <2>3. \A v \in Workers : worker'[v].site = worker[v].site \/ collector'.site = worker[v].site
    BY <1>5 DEF Deliver, TypeOK
  <2>4. \A v \in Workers : worker'[v] = Gone => worker[v] = Gone
    BY <1>5 DEF Deliver, TypeOK, Gone, Idle
  <2>5. collector.site \notin Sites
    BY <1>5, States DEF Deliver
  <2>6. DoneMeansSaved' /\ NothingIsLost'
    BY <1>5, <2>3, <2>4, <2>5 DEF DoneMeansSaved, NothingIsLost, Deliver, Running
  <2> QED BY <2>1, <2>2, <2>6
<1>6. ASSUME NEW w \in Workers, Leave(w) PROVE Safe'
  <2>1. OneHandPerSite'
    BY <1>6, States DEF TypeOK, OneHandPerSite, Leave, Idle, Gone, Running
  <2>2. NothingCutIsSaved' /\ CutIsDropped'
    BY <1>6, States DEF TypeOK, NothingCutIsSaved, CutIsDropped, Leave, Idle, Gone, Running
  <2>3. DoneMeansSaved' /\ NothingIsLost'
    BY <1>6, States DEF TypeOK, DoneMeansSaved, NothingIsLost, Leave, Idle, Gone, Running
  <2> QED BY <2>1, <2>2, <2>3
<1>7. CASE Check
  <2>1. OneHandPerSite'
    BY <1>7, States, Checked DEF TypeOK, OneHandPerSite, Check, Receiving, Running
  <2>2. NothingCutIsSaved' /\ CutIsDropped'
    BY <1>7, States, Checked DEF TypeOK, NothingCutIsSaved, CutIsDropped, Check, Receiving, Running
  <2>3. DoneMeansSaved' /\ NothingIsLost'
    BY <1>7, States, Checked DEF TypeOK, DoneMeansSaved, NothingIsLost, Check, Receiving, Running
  <2> QED BY <2>1, <2>2, <2>3
<1>8. CASE Save
  <2>1. OneHandPerSite'
    BY <1>8, States DEF TypeOK, OneHandPerSite, Save, Saved, Receiving, Running, Finished, Results
  <2>2. NothingCutIsSaved' /\ CutIsDropped'
    BY <1>8, States DEF TypeOK, NothingCutIsSaved, CutIsDropped, Save, Saved, Receiving, Running, Finished, Results
  <2>3. DoneMeansSaved' /\ NothingIsLost'
    BY <1>8, States DEF TypeOK, DoneMeansSaved, NothingIsLost, Save, Saved, Receiving, Running, Finished, Results
  <2> QED BY <2>1, <2>2, <2>3
<1>9. CASE Return
  <2>1. OneHandPerSite'
    BY <1>9, States, BulkAssumption DEF TypeOK, OneHandPerSite, Return, Receiving, Gone, Idle, Running
  <2>2. NothingCutIsSaved' /\ CutIsDropped'
    BY <1>9, States, BulkAssumption DEF TypeOK, NothingCutIsSaved, CutIsDropped, Return, Receiving, Gone, Idle, Running
  <2>3. DoneMeansSaved' /\ NothingIsLost'
    BY <1>9, States, BulkAssumption DEF TypeOK, DoneMeansSaved, NothingIsLost, Return, Receiving, Gone, Idle, Running
  <2> QED BY <2>1, <2>2, <2>3
<1>10. CASE Interrupt
  <2>1. OneHandPerSite'
    BY <1>10, States DEF TypeOK, OneHandPerSite, Interrupt, Running
  <2>2. NothingCutIsSaved' /\ CutIsDropped'
    BY <1>10, States DEF TypeOK, NothingCutIsSaved, CutIsDropped, Interrupt, Running
  <2>3. DoneMeansSaved' /\ NothingIsLost'
    BY <1>10, States DEF TypeOK, DoneMeansSaved, NothingIsLost, Interrupt, Running
  <2> QED BY <2>1, <2>2, <2>3
<1>11. CASE Crash
  <2>1. OneHandPerSite'
    BY <1>11, States DEF TypeOK, OneHandPerSite, Crash, Saved, Idle, Gone, Receiving, Running, Finished, Results
  <2>2. NothingCutIsSaved' /\ CutIsDropped'
    BY <1>11, States DEF TypeOK, NothingCutIsSaved, CutIsDropped, Crash, Saved, Idle, Gone, Receiving, Running, Finished, Results
  <2>3. DoneMeansSaved' /\ NothingIsLost'
    BY <1>11, States DEF TypeOK, DoneMeansSaved, NothingIsLost, Crash, Saved, Idle, Gone, Receiving, Running, Finished, Results
  <2> QED BY <2>1, <2>2, <2>3
<1>12. CASE UNCHANGED vars
  <2>1. OneHandPerSite'
    BY <1>12, States DEF TypeOK, OneHandPerSite, vars, bulkVars, Running
  <2>2. NothingCutIsSaved' /\ CutIsDropped'
    BY <1>12, States DEF TypeOK, NothingCutIsSaved, CutIsDropped, vars, bulkVars, Running
  <2>3. DoneMeansSaved' /\ NothingIsLost'
    BY <1>12, States DEF TypeOK, DoneMeansSaved, NothingIsLost, vars, bulkVars, Running
  <2> QED BY <2>1, <2>2, <2>3
<1> QED
  BY <1>1, <1>2, <1>3, <1>4, <1>5, <1>6, <1>7, <1>8, <1>9, <1>10, <1>11, <1>12
  DEF Next, Feeder, WorkerStep

\* Sites, workers and rows have their types, no two workers have one site, and no site is lost,
\* in any run of the command (bulk emails).
THEOREM BulkInvariant == Spec => []BulkInv
<1>1. BulkInv /\ [Next]_vars => BulkInv'
  BY StepType, StepSafe DEF BulkInv
<1> QED BY <1>1, InitBulkInv, PTL DEF Spec

\* A site is never in two hands, nor in one when it has its row.
THEOREM OneHand == Spec => []OneHandPerSite
BY BulkInvariant, PTL DEF BulkInv, Safe

\* A result that an interrupt has cut short never gets into the table.
THEOREM CutIsNeverSaved == Spec => []NothingCutIsSaved
BY BulkInvariant, PTL DEF BulkInv, Safe

\* The command reports success only when every site of the input has its row.
THEOREM SuccessMeansSaved == Spec => []DoneMeansSaved
BY BulkInvariant, PTL DEF BulkInv, Safe

\* A row that a step writes is that of the site the collector holds.
LEMMA StepOfTable ==
  ASSUME BulkInv, [Next]_vars
  PROVE  \/ UNCHANGED table
         \/ \E site \in Sites, result \in Finished :
              table[site] = "none" /\ table' = [table EXCEPT ![site] = result]
<1>1. ASSUME collector.at = "saving", table' = Saved
      PROVE  \E site \in Sites, result \in Finished :
               table[site] = "none" /\ table' = [table EXCEPT ![site] = result]
  <2>1. collector.site \in Sites /\ collector.result \in Finished
    BY <1>1, States DEF BulkInv, Safe, CutIsDropped, Results
  <2>2. table[collector.site] = "none"
    BY <2>1 DEF BulkInv, Safe, OneHandPerSite
  <2> QED BY <1>1, <2>1, <2>2 DEF Saved
<1>2. CASE Save
  BY <1>1, <1>2 DEF Save
<1>3. CASE Crash
  BY <1>1, <1>3 DEF Crash
<1>4. CASE UNCHANGED table
  BY <1>4
<1>5. [Next]_vars => Save \/ Crash \/ UNCHANGED table
  BY DEF Next, Start, Feeder, Feed, StopFeeding, WorkerStep, Crawl, Deliver, Leave, Check,
         Return, Interrupt, vars
<1> QED BY <1>2, <1>3, <1>4, <1>5

\* The command implements SiteTable: a site gets one row, once, over all its runs.
THEOREM BulkImplementsSiteTable == Spec => ImplementsSiteTable
<1>1. Init => Promise!Init
  BY DEF Init, Promise!Init
<1>2. BulkInv /\ [Next]_vars => [Promise!Next]_table
  BY StepOfTable DEF Promise!Next, Promise!Save
<1> QED BY <1>1, <1>2, BulkInvariant, PTL DEF Spec, ImplementsSiteTable, Promise!Spec

\* Whatever is interrupted, cancelled, crashes and starts again in between, a site
\* keeps the row it got (email_sites, bulk emails).
THEOREM RowsStay == Spec => Promise!RowsAreFinal
<1>1. Promise!Init => Promise!TypeOK
  BY DEF Promise!Init, Promise!TypeOK
<1>2. Promise!TypeOK /\ [Promise!Next]_table => Promise!TypeOK'
  BY DEF Promise!Next, Promise!Save, Promise!TypeOK
<1>3. ASSUME Promise!TypeOK, [Promise!Next]_table
      PROVE  [\A site \in Sites : table[site] # "none" => table'[site] = table[site]]_table
  BY <1>3 DEF Promise!Next, Promise!Save, Promise!TypeOK
<1> QED
  BY <1>1, <1>2, <1>3, BulkImplementsSiteTable, PTL
  DEF ImplementsSiteTable, Promise!Spec, Promise!RowsAreFinal

------------------------------------------------------------------------------
(* One search. The inductive invariant behind OkMeansComplete and            *)
(* SearchStaysWithinLimits: the parts that speak of one search s hold between *)
(* any two of its loads.                                                     *)

Queued(s) == {s.queue[i].url : i \in DOMAIN s.queue}

\* A limit has cut something off that a warning will name.
CutShort(s) == s.candidatesDropped \/ s.sitemapLimited \/ s.depthLimited

QueueIsASet(s) ==
  /\ \A i, k \in DOMAIN s.queue : s.queue[i].url = s.queue[k].url => i = k
  /\ Queued(s) \subseteq s.seen

SeenIsKept(s) == s.seen \subseteq s.visited \cup Queued(s) \/ CutShort(s)

PagesAreRead(s) ==
  \A i \in DOMAIN s.pages :
    s.pages[i].ok => Limited(s) \/ ToSet(hunt.site.pages[s.pages[i].url].addresses) \subseteq s.emails

EmailsAreFew(s) == IsFiniteSet(s.emails) /\ Cardinality(s.emails) <= hunt.request.maxEmails

ProfileReadsNoSitemap(s) ==
  hunt.request.profile => \A i \in DOMAIN s.queue : ~s.queue[i].sitemap

Sound(s) ==
  /\ QueueIsASet(s)
  /\ SeenIsKept(s)
  /\ PagesAreRead(s)
  /\ EmailsAreFew(s)
  /\ ProfileReadsNoSitemap(s)

\* What was loaded is what the search has counted.
LoadsAreCounted(s) ==
  /\ IsFiniteSet(Loaded) /\ \A t \in Loaded : t.url \in s.visited
  /\ Cardinality({t \in Loaded : ~t.sitemap}) = Len(s.pages)
  /\ Cardinality({t \in Loaded : t.sitemap}) = s.sitemapRequests
  /\ Len(s.pages) <= hunt.request.maxPages

SearchInv ==
  /\ OkMeansComplete
  /\ SearchStaysWithinLimits
  /\ stage = "search" =>
       /\ Sound(search)
       /\ LoadsAreCounted(search)
       /\ offered \subseteq search.seen \/ CutShort(search)

\* The steps of the loops of EmailSearch, for the rule of FoldRule.
ScopeStep(least, none, kept, link) ==
  IF ScopedURL(link) # Nowhere /\ Of[link].rank >= least THEN Append(kept, link) ELSE kept
AddStep(none, nothing, s, item) == AddTarget(s, item)
RecordStep(none, nothing, s, address) == Record(s, address)
TakeStep(size, none, t, item) == TakeOne(t, item, size)
ConsumeStep(batch, ok, s, i) == ConsumeLoad(s, batch[i], i \in ok)

Scoping == INSTANCE FoldRule WITH step <- ScopeStep
Adding == INSTANCE FoldRule WITH step <- AddStep
Recording == INSTANCE FoldRule WITH step <- RecordStep
Taking == INSTANCE FoldRule WITH step <- TakeStep
Consuming == INSTANCE FoldRule WITH step <- ConsumeStep

------------------------------------------------------------------------------
(* What consume gives to add: targets, and from a page no sitemap.          *)

LEMMA ScopedIsAURL ==
  ASSUME NEW u \in URLs, ScopedURL(u) # Nowhere
  PROVE  ScopedURL(u) \in URLs
<1>1. Of[u].canon \in URLs
  BY PagesAssumption
<1> QED BY <1>1 DEF ScopedURL, NormalizedTo

LEMMA LinksInScope ==
  ASSUME NEW links \in Seq(URLs), NEW least
  PROVE  InScope(links, least) \in Seq({u \in URLs : ScopedURL(u) # Nowhere})
<1> DEFINE J == Seq({u \in URLs : ScopedURL(u) # Nowhere})
<1>1. <<>> \in J /\ Len(links) \in Nat
  OBVIOUS
<1>2. ASSUME NEW i \in 1 .. Len(links), NEW kept \in J
      PROVE  ScopeStep(least, 0, kept, links[i]) \in J
  <2>1. links[i] \in URLs
    OBVIOUS
  <2>2. CASE ScopedURL(links[i]) # Nowhere
    <3>1. links[i] \in {u \in URLs : ScopedURL(u) # Nowhere}
      BY <2>1, <2>2
    <3>2. Append(kept, links[i]) \in J
      BY <3>1, AppendProperties
    <3> QED BY <3>2 DEF ScopeStep
  <2>3. CASE ScopedURL(links[i]) = Nowhere
    BY <2>3 DEF ScopeStep
  <2> QED BY <2>2, <2>3
<1> HIDE DEF J
<1>3. Scoping!Loop(least, 0, <<>>, links) \in J
  BY <1>1, <1>2, Scoping!LoopKeeps
<1>4. InScope(links, least) = Scoping!Loop(least, 0, <<>>, links)
  BY DEF InScope, Fold, Scoping!Loop, ScopeStep
<1> QED BY <1>3, <1>4 DEF J

LEMMA LinksAsTargets ==
  ASSUME NEW links \in Seq({u \in URLs : ScopedURL(u) # Nowhere}), NEW depth \in Nat, NEW sitemap \in BOOLEAN
  PROVE  AsTargets(links, depth, sitemap) \in Seq({t \in Targets : t.sitemap = sitemap})
<1>1. ASSUME NEW i \in 1 .. Len(links)
      PROVE  /\ ScopedURL(links[i]) \in URLs
             /\ (IF sitemap THEN 110 ELSE Of[links[i]].rank) \in Nat
  <2>1. links[i] \in URLs /\ ScopedURL(links[i]) # Nowhere
    OBVIOUS
  <2>2. Of[links[i]].rank \in Nat
    BY <2>1, PagesAssumption
  <2> QED BY <2>1, <2>2, ScopedIsAURL
<1>2. ASSUME NEW i \in 1 .. Len(links)
      PROVE  [url |-> ScopedURL(links[i]), depth |-> depth, sitemap |-> sitemap,
              score |-> IF sitemap THEN 110 ELSE Of[links[i]].rank] \in {t \in Targets : t.sitemap = sitemap}
  BY <1>1 DEF Targets
<1>3. DOMAIN links = 1 .. Len(links) /\ Len(links) \in Nat
  OBVIOUS
<1> DEFINE T == {t \in Targets : t.sitemap = sitemap}
           e(i) == [url |-> ScopedURL(links[i]), depth |-> depth, sitemap |-> sitemap,
                    score |-> IF sitemap THEN 110 ELSE Of[links[i]].rank]
<1>4. \A i \in 1 .. Len(links) : e(i) \in T
  BY <1>2
<1>5. AsTargets(links, depth, sitemap) = [i \in 1 .. Len(links) |-> e(i)]
  BY <1>3 DEF AsTargets
<1> HIDE DEF e, T
<1>6. [i \in 1 .. Len(links) |-> e(i)] \in Seq(T)
  BY <1>3, <1>4
<1> QED BY <1>5, <1>6 DEF T

LEMMA CutTargets ==
  ASSUME NEW T, NEW targets \in Seq(T)
  PROVE  Cut(targets) \in Seq(T)
<1> DEFINE n == Min({MaxCandidates, Len(targets)})
<1>1. MaxCandidates \in Nat /\ Len(targets) \in Nat
  BY EmailSearchAssumption
<1>2. n \in {MaxCandidates, Len(targets)} /\ n <= Len(targets)
  <2>1. \E x \in {MaxCandidates, Len(targets)} : \A y \in {MaxCandidates, Len(targets)} : x =< y
    BY <1>1
  <2>2. n \in {MaxCandidates, Len(targets)} /\ \A y \in {MaxCandidates, Len(targets)} : n =< y
    BY <2>1 DEF Min
  <2> QED BY <2>2
<1> HIDE DEF n
<1>3. n \in Nat /\ \A i \in 1 .. n : targets[i] \in T
  BY <1>1, <1>2
<1>4. SubSeq(targets, 1, n) \in Seq(T)
  BY <1>3
<1> QED BY <1>4 DEF n, Cut, Take

LEMMA PageCandidates ==
  ASSUME hunt \in Hunts, NEW item \in Targets, NEW ok, ~ item.sitemap
  PROVE  Candidates(item, ok) \in Seq({t \in Targets : ~ t.sitemap})
<1> DEFINE S == {t \in Targets : t.sitemap = FALSE}
<1>1. CASE Usable(item, ok)
  <2>1. item.url \in DOMAIN hunt.site.pages
    BY <1>1 DEF Usable
  <2>2. hunt.site.pages[item.url].links \in Seq(URLs)
    BY <2>1, EmailSearchAssumption DEF IsHunt
  <2>3. InScope(hunt.site.pages[item.url].links, 0) \in Seq({u \in URLs : ScopedURL(u) # Nowhere})
    BY <2>2, LinksInScope
  <2>4. item.depth + 1 \in Nat
    BY DEF Targets
  <2>5. AsTargets(InScope(hunt.site.pages[item.url].links, 0), item.depth + 1, FALSE) \in Seq(S)
    BY <2>3, <2>4, LinksAsTargets
  <2>6. PageLinks(item.url, item.depth + 1) \in Seq(S)
    BY <2>5, CutTargets DEF PageLinks
  <2> QED BY <1>1, <2>6 DEF Candidates
<1>2. CASE ~ Usable(item, ok)
  BY <1>2 DEF Candidates
<1> QED BY <1>1, <1>2

LEMMA CandidatesAreTargets ==
  ASSUME hunt \in Hunts, NEW item \in Targets, NEW ok
  PROVE  /\ Candidates(item, ok) \in Seq(Targets)
         /\ ~ item.sitemap => \A i \in 1 .. Len(Candidates(item, ok)) : ~ Candidates(item, ok)[i].sitemap
<1>1. CASE ~ item.sitemap
  <2>1. Candidates(item, ok) \in Seq({t \in Targets : ~ t.sitemap})
    BY <1>1, PageCandidates
  <2> QED BY <2>1, SeqMonotonic
<1>2. CASE item.sitemap /\ Usable(item, ok)
  <2> DEFINE T(b) == {t \in Targets : t.sitemap = b}
             map == hunt.site.sitemaps[item.url]
  <2>1. item.url \in DOMAIN hunt.site.sitemaps
    BY <1>2 DEF Usable
  <2>2. map.urls \in Seq(URLs) /\ map.children \in Seq(URLs)
    BY <2>1, EmailSearchAssumption DEF IsHunt
  <2>3. /\ InScope(map.urls, 1) \in Seq({u \in URLs : ScopedURL(u) # Nowhere})
        /\ InScope(map.children, 0) \in Seq({u \in URLs : ScopedURL(u) # Nowhere})
    BY <2>2, LinksInScope
  <2>4. /\ AsTargets(InScope(map.urls, 1), 1, FALSE) \in Seq(T(FALSE))
        /\ AsTargets(InScope(map.children, 0), 0, TRUE) \in Seq(T(TRUE))
    BY <2>3, LinksAsTargets
  <2>5. /\ AsTargets(InScope(map.urls, 1), 1, FALSE) \in Seq(Targets)
        /\ AsTargets(InScope(map.children, 0), 0, TRUE) \in Seq(Targets)
    BY <2>4, SeqMonotonic
  <2> HIDE DEF T
  <2>6. AsTargets(InScope(map.urls, 1), 1, FALSE) \o AsTargets(InScope(map.children, 0), 0, TRUE) \in Seq(Targets)
    BY <2>5, ConcatProperties
  <2>7. SitemapLinks(item.url) \in Seq(Targets)
    BY <2>6, CutTargets DEF SitemapLinks
  <2> QED BY <1>2, <2>7 DEF Candidates
<1>3. CASE item.sitemap /\ ~ Usable(item, ok)
  BY <1>3 DEF Candidates
<1> QED BY <1>1, <1>2, <1>3

------------------------------------------------------------------------------
(* add: the loop over candidates. *)

\* What adding targets leaves alone, and what it only lets grow.
OnlyAdds(s, a) ==
  /\ a.visited = s.visited /\ a.emails = s.emails /\ a.pages = s.pages /\ a.warnings = s.warnings
  /\ a.sitemapRequests = s.sitemapRequests /\ a.outcome = s.outcome
  /\ s.seen \subseteq a.seen
  /\ CutShort(s) => CutShort(a)

LEMMA AppendedUrls ==
  ASSUME NEW q \in Seq(Targets), NEW item \in Targets
  PROVE  /\ Append(q, item) \in Seq(Targets)
         /\ \A i \in DOMAIN Append(q, item) :
              \/ i \in DOMAIN q /\ Append(q, item)[i] = q[i]
              \/ i = Len(q) + 1 /\ i \notin DOMAIN q /\ Append(q, item)[i] = item
         /\ {Append(q, item)[i].url : i \in DOMAIN Append(q, item)} = {q[i].url : i \in DOMAIN q} \cup {item.url}
<1>1. Append(q, item) \in Seq(Targets) /\ Len(Append(q, item)) = Len(q) + 1 /\ Len(q) \in Nat
  OBVIOUS
<1>2. DOMAIN q = 1 .. Len(q) /\ DOMAIN Append(q, item) = 1 .. (Len(q) + 1)
  BY <1>1
<1>3. /\ \A i \in 1 .. Len(q) : Append(q, item)[i] = q[i]
      /\ Append(q, item)[Len(q) + 1] = item
  OBVIOUS
<1>4. \A i \in DOMAIN Append(q, item) :
        \/ i \in DOMAIN q /\ Append(q, item)[i] = q[i]
        \/ i = Len(q) + 1 /\ i \notin DOMAIN q /\ Append(q, item)[i] = item
  BY <1>1, <1>2, <1>3
<1>5. {Append(q, item)[i].url : i \in DOMAIN Append(q, item)} \subseteq {q[i].url : i \in DOMAIN q} \cup {item.url}
  BY <1>4
<1>6. \A i \in DOMAIN q : i \in DOMAIN Append(q, item) /\ Append(q, item)[i] = q[i]
  BY <1>1, <1>2, <1>3
<1>7. Len(q) + 1 \in DOMAIN Append(q, item)
  BY <1>1, <1>2
<1>8. {q[i].url : i \in DOMAIN q} \cup {item.url} \subseteq {Append(q, item)[i].url : i \in DOMAIN Append(q, item)}
  BY <1>3, <1>6, <1>7
<1> QED BY <1>1, <1>4, <1>5, <1>8

LEMMA AddOne ==
  ASSUME NEW s \in Searches, Sound(s), NEW item \in Targets, hunt.request.profile => ~ item.sitemap
  PROVE  /\ AddTarget(s, item) \in Searches
         /\ Sound(AddTarget(s, item))
         /\ OnlyAdds(s, AddTarget(s, item))
         /\ item.url \in AddTarget(s, item).seen \/ CutShort(AddTarget(s, item))
<1> DEFINE a == AddTarget(s, item)
<1>1. CASE item.url \in s.seen
  BY <1>1 DEF AddTarget, OnlyAdds
<1>2. ASSUME item.url \notin s.seen, a = [s EXCEPT !.depthLimited = TRUE] \/ a = [s EXCEPT !.candidatesDropped = TRUE]
      PROVE  a \in Searches /\ Sound(a) /\ OnlyAdds(s, a) /\ CutShort(a)
  <2> HIDE DEF a
  <2>1. a \in Searches
    BY <1>2 DEF Searches
  <2>2. /\ a.queue = s.queue /\ a.visited = s.visited /\ a.emails = s.emails /\ a.pages = s.pages
        /\ a.warnings = s.warnings /\ a.sitemapRequests = s.sitemapRequests /\ a.outcome = s.outcome
        /\ a.seen = s.seen /\ CutShort(a)
    BY <1>2 DEF Searches, CutShort
  <2>3. Sound(a)
    <3>1. Queued(a) = Queued(s)
      BY <2>2, Zenon DEF Queued
    <3>2. QueueIsASet(a) /\ ProfileReadsNoSitemap(a)
      BY <2>2, <3>1, Zenon DEF Sound, QueueIsASet, ProfileReadsNoSitemap
    <3>3. SeenIsKept(a)
      BY <2>2 DEF SeenIsKept
    <3>4. PagesAreRead(a) /\ EmailsAreFew(a)
      BY <2>2, Zenon DEF Sound, PagesAreRead, Limited, EmailsAreFew
    <3> QED BY <3>2, <3>3, <3>4, Zenon DEF Sound
  <2> QED BY <2>1, <2>2, <2>3 DEF OnlyAdds
<1>3. ASSUME item.url \notin s.seen, a = [s EXCEPT !.seen = @ \cup {item.url}, !.queue = Append(@, item)]
      PROVE  a \in Searches /\ Sound(a) /\ OnlyAdds(s, a) /\ item.url \in a.seen
  <2> HIDE DEF a
  <2>1. s.queue \in Seq(Targets) /\ s.seen \subseteq URLs /\ item.url \in URLs
    BY DEF Searches, Targets
  <2>2. Append(s.queue, item) \in Seq(Targets) /\ s.seen \cup {item.url} \subseteq URLs
    BY <2>1
  <2>3. a \in Searches
    BY <1>3, <2>2 DEF Searches
  <2>4. /\ a.queue = Append(s.queue, item) /\ a.visited = s.visited /\ a.emails = s.emails /\ a.pages = s.pages
        /\ a.warnings = s.warnings /\ a.sitemapRequests = s.sitemapRequests /\ a.outcome = s.outcome
        /\ a.seen = s.seen \cup {item.url}
    BY <1>3 DEF Searches
  <2>5. CutShort(a) <=> CutShort(s)
    BY <1>3 DEF Searches, CutShort
  <2>5a. PICK q : /\ q = Append(s.queue, item)
                  /\ \A i \in DOMAIN q : \/ i \in DOMAIN s.queue /\ q[i] = s.queue[i]
                                         \/ i = Len(s.queue) + 1 /\ i \notin DOMAIN s.queue /\ q[i] = item
                  /\ {q[i].url : i \in DOMAIN q} = {s.queue[i].url : i \in DOMAIN s.queue} \cup {item.url}
    <3>1. /\ \A i \in DOMAIN Append(s.queue, item) :
               \/ i \in DOMAIN s.queue /\ Append(s.queue, item)[i] = s.queue[i]
               \/ i = Len(s.queue) + 1 /\ i \notin DOMAIN s.queue /\ Append(s.queue, item)[i] = item
          /\ {Append(s.queue, item)[i].url : i \in DOMAIN Append(s.queue, item)}
               = {s.queue[i].url : i \in DOMAIN s.queue} \cup {item.url}
      BY <2>1, AppendedUrls
    <3> QED BY <3>1, Zenon
  <2>5b. a.queue = q
    BY <2>4, <2>5a
  <2>6. Queued(a) = Queued(s) \cup {item.url}
    BY <2>5a, <2>5b, Zenon DEF Queued
  <2>7. QueueIsASet(a)
    <3>1. \A i \in DOMAIN a.queue : \/ i \in DOMAIN s.queue /\ a.queue[i] = s.queue[i]
                                    \/ i = Len(s.queue) + 1 /\ i \notin DOMAIN s.queue /\ a.queue[i] = item
      BY <2>5a, <2>5b
    <3>2. /\ \A i, k \in DOMAIN s.queue : s.queue[i].url = s.queue[k].url => i = k
          /\ Queued(s) \subseteq s.seen
      BY DEF Sound, QueueIsASet
    <3>3. \A i \in DOMAIN s.queue : s.queue[i].url # item.url
      BY <1>3, <3>2 DEF Queued
    <3>4. \A i, k \in DOMAIN a.queue : a.queue[i].url = a.queue[k].url => i = k
      BY <3>1, <3>2, <3>3
    <3> QED BY <2>4, <2>6, <3>2, <3>4 DEF QueueIsASet
  <2>8. SeenIsKept(a)
    BY <2>4, <2>5, <2>6 DEF Sound, SeenIsKept
  <2>9. PagesAreRead(a) /\ EmailsAreFew(a)
    BY <2>4, Zenon DEF Sound, PagesAreRead, Limited, EmailsAreFew
  <2>10. ProfileReadsNoSitemap(a)
    <3>1. \A i \in DOMAIN a.queue : \/ i \in DOMAIN s.queue /\ a.queue[i] = s.queue[i]
                                    \/ a.queue[i] = item
      BY <2>5a, <2>5b
    <3> QED BY <3>1 DEF Sound, ProfileReadsNoSitemap
  <2> QED BY <2>3, <2>4, <2>5, <2>7, <2>8, <2>9, <2>10 DEF Sound, OnlyAdds
<1>4. CASE item.url \notin s.seen
  BY <1>2, <1>3, <1>4 DEF AddTarget
<1> QED BY <1>1, <1>4

LEMMA AddsAll ==
  ASSUME NEW s \in Searches, Sound(s), NEW items \in Seq(Targets),
         hunt.request.profile => \A i \in 1 .. Len(items) : ~ items[i].sitemap
  PROVE  /\ Fold(AddTarget, s, items) \in Searches
         /\ Sound(Fold(AddTarget, s, items))
         /\ OnlyAdds(s, Fold(AddTarget, s, items))
         /\ \/ \A i \in 1 .. Len(items) : items[i].url \in Fold(AddTarget, s, items).seen
            \/ CutShort(Fold(AddTarget, s, items))
<1> DEFINE Good(n, a) ==
             /\ Sound(a) /\ OnlyAdds(s, a)
             /\ (\A i \in 1 .. n : items[i].url \in a.seen) \/ CutShort(a)
           I == {x \in Nat \X Searches : Good(x[1], x[2])}
           result == Adding!Loop(0, 0, s, items)
<1>1. <<0, s>> \in I
  BY DEF OnlyAdds
<1>2. ASSUME NEW i \in 1 .. Len(items), NEW a, <<i - 1, a>> \in I
      PROVE  <<i, AddStep(0, 0, a, items[i])>> \in I
  <2> DEFINE b == AddTarget(a, items[i])
  <2>1. a \in Searches /\ Good(i - 1, a) /\ i \in Nat /\ i - 1 \in Nat
    BY <1>2
  <2>2. items[i] \in Targets /\ (hunt.request.profile => ~ items[i].sitemap)
    OBVIOUS
  <2>3. b \in Searches /\ Sound(b) /\ OnlyAdds(a, b) /\ (items[i].url \in b.seen \/ CutShort(b))
    BY <2>1, <2>2, AddOne
  <2> HIDE DEF b
  <2>4. OnlyAdds(s, b)
    BY <2>1, <2>3 DEF OnlyAdds
  <2>5. (\A k \in 1 .. i : items[k].url \in b.seen) \/ CutShort(b)
    <3>1. a.seen \subseteq b.seen /\ (CutShort(a) => CutShort(b))
      BY <2>3 DEF OnlyAdds
    <3>2. \A k \in 1 .. i : k \in 1 .. (i - 1) \/ k = i
      BY <2>1
    <3> QED BY <2>1, <2>3, <3>1, <3>2
  <2>6. Good(i, b)
    BY <2>3, <2>4, <2>5
  <2> QED BY <2>1, <2>3, <2>6 DEF AddStep, b
<1> HIDE DEF I
<1>3. Len(items) \in Nat
  OBVIOUS
<1>4. <<Len(items), result>> \in I
  BY <1>1, <1>2, <1>3, Adding!LoopKeepsAt
<1>5. Fold(AddTarget, s, items) = result
  BY DEF Fold, Adding!Loop, AddStep
<1>6. result \in Searches /\ Good(Len(items), result)
  BY <1>4 DEF I
<1> HIDE DEF result
<1> QED BY <1>5, <1>6

------------------------------------------------------------------------------
(* The addresses of a page, up to the limit. *)

OnlyRecords(s, a) ==
  /\ a.queue = s.queue /\ a.seen = s.seen /\ a.visited = s.visited /\ a.pages = s.pages
  /\ a.sitemapRequests = s.sitemapRequests /\ a.outcome = s.outcome
  /\ a.candidatesDropped = s.candidatesDropped /\ a.sitemapLimited = s.sitemapLimited
  /\ a.depthLimited = s.depthLimited
  /\ s.emails \subseteq a.emails
  /\ s.warnings \subseteq a.warnings

LEMMA RecordOne ==
  ASSUME hunt \in Hunts, NEW s \in Searches, EmailsAreFew(s), NEW address \in STRING
  PROVE  /\ Record(s, address) \in Searches
         /\ EmailsAreFew(Record(s, address))
         /\ OnlyRecords(s, Record(s, address))
         /\ address \in Record(s, address).emails \/ Limited(Record(s, address))
<1> DEFINE a == Record(s, address)
<1>1. CASE address \in s.emails
  BY <1>1 DEF Record, OnlyRecords
<1>2. CASE address \notin s.emails /\ Cardinality(s.emails) >= hunt.request.maxEmails
  <2>1. a = [s EXCEPT !.warnings = @ \cup {"email limit reached"}]
    BY <1>2 DEF Record, WarnSearch
  <2> HIDE DEF a
  <2>2. a \in Searches
    <3>1. "email limit reached" \in Messages
      BY DEF Messages
    <3>2. s.warnings \cup {"email limit reached"} \in SUBSET Messages
      BY <3>1 DEF Searches
    <3> QED BY <2>1, <3>2 DEF Searches
  <2>3. a.emails = s.emails /\ OnlyRecords(s, a) /\ Limited(a)
    BY <2>1 DEF Searches, OnlyRecords, Limited
  <2> QED BY <2>2, <2>3 DEF EmailsAreFew, a
<1>3. CASE address \notin s.emails /\ ~ (Cardinality(s.emails) >= hunt.request.maxEmails)
  <2>1. a = [s EXCEPT !.emails = @ \cup {address}]
    BY <1>3 DEF Record
  <2> HIDE DEF a
  <2>2. a \in Searches
    BY <2>1 DEF Searches
  <2>3. a.emails = s.emails \cup {address} /\ OnlyRecords(s, a)
    BY <2>1 DEF Searches, OnlyRecords
  <2>4. EmailsAreFew(a)
    <3>1. /\ IsFiniteSet(s.emails \cup {address})
          /\ Cardinality(s.emails \cup {address}) = Cardinality(s.emails) + 1
      BY <1>3, FS_AddElement DEF EmailsAreFew
    <3>2. Cardinality(s.emails) \in Nat /\ hunt.request.maxEmails \in Nat
      BY FS_CardinalityType, EmailSearchAssumption DEF EmailsAreFew, IsHunt
    <3> QED BY <1>3, <2>3, <3>1, <3>2 DEF EmailsAreFew
  <2> QED BY <2>2, <2>3, <2>4 DEF a
<1> QED BY <1>1, <1>2, <1>3

LEMMA RecordsAll ==
  ASSUME hunt \in Hunts, NEW s \in Searches, EmailsAreFew(s), NEW addresses \in Seq(STRING)
  PROVE  /\ Fold(Record, s, addresses) \in Searches
         /\ EmailsAreFew(Fold(Record, s, addresses))
         /\ OnlyRecords(s, Fold(Record, s, addresses))
         /\ \/ Limited(Fold(Record, s, addresses))
            \/ ToSet(addresses) \subseteq Fold(Record, s, addresses).emails
<1> DEFINE Good(n, a) ==
             /\ EmailsAreFew(a) /\ OnlyRecords(s, a)
             /\ Limited(a) \/ \A i \in 1 .. n : addresses[i] \in a.emails
           I == {x \in Nat \X Searches : Good(x[1], x[2])}
           result == Recording!Loop(0, 0, s, addresses)
<1>1. <<0, s>> \in I
  BY DEF OnlyRecords
<1>2. ASSUME NEW i \in 1 .. Len(addresses), NEW a, <<i - 1, a>> \in I
      PROVE  <<i, RecordStep(0, 0, a, addresses[i])>> \in I
  <2> DEFINE b == Record(a, addresses[i])
  <2>1. a \in Searches /\ Good(i - 1, a) /\ i \in Nat /\ i - 1 \in Nat
    BY <1>2
  <2>2. addresses[i] \in STRING
    OBVIOUS
  <2>3. b \in Searches /\ EmailsAreFew(b) /\ OnlyRecords(a, b) /\ (addresses[i] \in b.emails \/ Limited(b))
    BY <2>1, <2>2, RecordOne
  <2> HIDE DEF b
  <2>4. OnlyRecords(s, b)
    BY <2>1, <2>3 DEF OnlyRecords
  <2>5. Limited(b) \/ \A k \in 1 .. i : addresses[k] \in b.emails
    <3>1. a.emails \subseteq b.emails /\ (Limited(a) => Limited(b))
      BY <2>3 DEF OnlyRecords, Limited
    <3>2. \A k \in 1 .. i : k \in 1 .. (i - 1) \/ k = i
      BY <2>1
    <3> QED BY <2>1, <2>3, <3>1, <3>2
  <2>6. Good(i, b)
    BY <2>3, <2>4, <2>5
  <2> QED BY <2>1, <2>3, <2>6 DEF RecordStep, b
<1> HIDE DEF I
<1>3. Len(addresses) \in Nat
  OBVIOUS
<1>4. <<Len(addresses), result>> \in I
  BY <1>1, <1>2, <1>3, Recording!LoopKeepsAt
<1>5. Fold(Record, s, addresses) = result
  BY DEF Fold, Recording!Loop, RecordStep
<1>6. result \in Searches /\ Good(Len(addresses), result)
  BY <1>4 DEF I
<1> HIDE DEF result
<1>7. DOMAIN addresses = 1 .. Len(addresses)
  OBVIOUS
<1> QED BY <1>5, <1>6, <1>7 DEF ToSet

------------------------------------------------------------------------------
(* consume: the result of one load. *)

\* What a result leaves alone, and what it only lets grow.
OnlyConsumes(s, a) ==
  /\ s.visited \subseteq a.visited
  /\ s.seen \subseteq a.seen
  /\ a.sitemapRequests = s.sitemapRequests
  /\ CutShort(s) => CutShort(a)

LEMMA PageAppended ==
  ASSUME NEW s \in Searches, NEW entry \in [url : URLs, ok : BOOLEAN]
  PROVE  /\ Append(s.pages, entry) \in Seq([url : URLs, ok : BOOLEAN])
         /\ Len(Append(s.pages, entry)) = Len(s.pages) + 1
         /\ \A i \in DOMAIN Append(s.pages, entry) :
              \/ i \in DOMAIN s.pages /\ Append(s.pages, entry)[i] = s.pages[i]
              \/ Append(s.pages, entry)[i] = entry
<1>1. s.pages \in Seq([url : URLs, ok : BOOLEAN])
  BY DEF Searches
<1> DEFINE E == [url : URLs, ok : BOOLEAN]
<1> HIDE DEF E
<1>2. /\ Append(s.pages, entry) \in Seq(E)
      /\ Len(Append(s.pages, entry)) = Len(s.pages) + 1
      /\ DOMAIN Append(s.pages, entry) = 1 .. (Len(s.pages) + 1)
      /\ DOMAIN s.pages = 1 .. Len(s.pages) /\ Len(s.pages) \in Nat
      /\ \A i \in 1 .. Len(s.pages) : Append(s.pages, entry)[i] = s.pages[i]
      /\ Append(s.pages, entry)[Len(s.pages) + 1] = entry
  <2>1. s.pages \in Seq(E) /\ entry \in E
    BY <1>1 DEF E
  <2> QED BY <2>1
<1>3. \A i \in 1 .. (Len(s.pages) + 1) : i \in 1 .. Len(s.pages) \/ i = Len(s.pages) + 1
  BY <1>2
<1> QED BY <1>2, <1>3 DEF E

\* The search once the page is listed and its addresses are recorded.
LEMMA ReadPage ==
  ASSUME hunt \in Hunts, NEW s \in Searches, Sound(s), NEW item \in Targets, ~ item.sitemap, NEW ok, Usable(item, ok)
  PROVE  LET page == hunt.site.pages[item.url]
             listed == [s EXCEPT !.pages = Append(@, [url |-> item.url, ok |-> Usable(item, ok)])]
             arrived == [listed EXCEPT !.visited = @ \cup {ScopedURL(page.final)}]
             a == Fold(Record, arrived, page.addresses)
         IN  a \in Searches /\ Sound(a) /\ OnlyConsumes(s, a) /\ Len(a.pages) = Len(s.pages) + 1
<1> DEFINE page == hunt.site.pages[item.url]
           entry == [url |-> item.url, ok |-> Usable(item, ok)]
           listed == [s EXCEPT !.pages = Append(@, entry)]
           arrived == [listed EXCEPT !.visited = @ \cup {ScopedURL(page.final)}]
           a == Fold(Record, arrived, page.addresses)
<1>1. /\ item.url \in DOMAIN hunt.site.pages /\ ScopedURL(page.final) # Nowhere
      /\ page.addresses \in Seq(STRING) /\ page.final \in URLs \cup {Nowhere}
  BY EmailSearchAssumption DEF Usable, IsHunt
<1>2. ScopedURL(page.final) \in URLs
  <2>1. page.final # Nowhere
    BY <1>1 DEF ScopedURL, NormalizedTo
  <2> QED BY <1>1, <2>1, ScopedIsAURL
<1>3. entry = [url |-> item.url, ok |-> TRUE] /\ entry \in [url : URLs, ok : BOOLEAN]
  <2>1. Usable(item, ok) = TRUE
    BY DEF Usable
  <2>2. item.url \in URLs
    BY DEF Targets
  <2> QED BY <2>1, <2>2
<1> HIDE DEF entry
<1>4. PICK pages : /\ pages = Append(s.pages, entry)
                   /\ pages \in Seq([url : URLs, ok : BOOLEAN]) /\ Len(pages) = Len(s.pages) + 1
                   /\ \A i \in DOMAIN pages : \/ i \in DOMAIN s.pages /\ pages[i] = s.pages[i]
                                              \/ pages[i] = entry
  <2>1. /\ Append(s.pages, entry) \in Seq([url : URLs, ok : BOOLEAN])
        /\ Len(Append(s.pages, entry)) = Len(s.pages) + 1
        /\ \A i \in DOMAIN Append(s.pages, entry) :
              \/ i \in DOMAIN s.pages /\ Append(s.pages, entry)[i] = s.pages[i]
              \/ Append(s.pages, entry)[i] = entry
    BY <1>3, PageAppended
  <2> QED BY <2>1, Zenon
<1>5. /\ arrived \in Searches
      /\ arrived.queue = s.queue /\ arrived.seen = s.seen /\ arrived.emails = s.emails /\ arrived.pages = pages
      /\ arrived.warnings = s.warnings /\ arrived.sitemapRequests = s.sitemapRequests
      /\ arrived.visited = s.visited \cup {ScopedURL(page.final)}
      /\ CutShort(arrived) <=> CutShort(s)
  <2>1. arrived = [s EXCEPT !.pages = pages, !.visited = s.visited \cup {ScopedURL(page.final)}]
    BY <1>4 DEF Searches
  <2>2. s.visited \cup {ScopedURL(page.final)} \in SUBSET URLs
    BY <1>2 DEF Searches
  <2> HIDE DEF arrived
  <2>3. arrived \in Searches
    BY <1>4, <2>1, <2>2 DEF Searches
  <2>4. CutShort(arrived) <=> CutShort(s)
    BY <2>1 DEF Searches, CutShort
  <2>5. /\ arrived.queue = s.queue /\ arrived.seen = s.seen /\ arrived.emails = s.emails /\ arrived.pages = pages
        /\ arrived.warnings = s.warnings /\ arrived.sitemapRequests = s.sitemapRequests
        /\ arrived.visited = s.visited \cup {ScopedURL(page.final)}
    BY <2>1 DEF Searches
  <2> QED BY <2>3, <2>4, <2>5
<1> HIDE DEF arrived
<1>6. EmailsAreFew(arrived)
  BY <1>5 DEF Sound, EmailsAreFew
<1>7. /\ a \in Searches /\ EmailsAreFew(a) /\ OnlyRecords(arrived, a)
      /\ Limited(a) \/ ToSet(page.addresses) \subseteq a.emails
  BY <1>1, <1>5, <1>6, RecordsAll
<1> HIDE DEF a
<1>8. /\ a.queue = s.queue /\ a.seen = s.seen /\ a.pages = pages /\ a.sitemapRequests = s.sitemapRequests
      /\ s.visited \subseteq a.visited /\ s.emails \subseteq a.emails /\ s.warnings \subseteq a.warnings
      /\ CutShort(a) <=> CutShort(s)
  <2>1. CutShort(a) <=> CutShort(arrived)
    BY <1>7, Zenon DEF OnlyRecords, CutShort
  <2> QED BY <1>5, <1>7, <2>1 DEF OnlyRecords
<1>9. QueueIsASet(a) /\ ProfileReadsNoSitemap(a)
  <2>1. a.queue = s.queue /\ a.seen = s.seen /\ Queued(a) = Queued(s)
    BY <1>8, Zenon DEF Queued
  <2>2. QueueIsASet(a)
    BY <2>1, Zenon DEF Sound, QueueIsASet
  <2>3. ProfileReadsNoSitemap(a)
    BY <2>1, Zenon DEF Sound, ProfileReadsNoSitemap
  <2> QED BY <2>2, <2>3
<1>10. SeenIsKept(a)
  BY <1>8 DEF Sound, SeenIsKept, Queued
<1>11. PagesAreRead(a)
  <2> SUFFICES ASSUME NEW i \in DOMAIN pages, pages[i].ok, ~ Limited(a)
               PROVE  ToSet(hunt.site.pages[pages[i].url].addresses) \subseteq a.emails
    BY <1>8 DEF PagesAreRead
  <2>1. CASE i \in DOMAIN s.pages /\ pages[i] = s.pages[i]
    <3>1. ~ Limited(s)
      BY <1>8 DEF Limited
    <3>2. ToSet(hunt.site.pages[s.pages[i].url].addresses) \subseteq s.emails
      BY <2>1, <3>1 DEF Sound, PagesAreRead
    <3> QED BY <1>8, <2>1, <3>2
  <2>2. CASE pages[i] = entry
    <3>1. pages[i].url = item.url
      BY <1>3, <2>2
    <3> QED BY <1>7, <3>1
  <2> QED BY <1>4, <2>1, <2>2
<1>12. a \in Searches /\ Sound(a) /\ OnlyConsumes(s, a) /\ Len(a.pages) = Len(s.pages) + 1
  BY <1>4, <1>7, <1>8, <1>9, <1>10, <1>11 DEF Sound, OnlyConsumes
<1> QED BY <1>12 DEF a, arrived, entry

LEMMA ListPage ==
  ASSUME NEW s \in Searches, Sound(s), NEW item \in Targets, NEW ok, ~ Usable(item, ok)
  PROVE  LET a == [s EXCEPT !.pages = Append(@, [url |-> item.url, ok |-> Usable(item, ok)])]
         IN  a \in Searches /\ Sound(a) /\ OnlyConsumes(s, a) /\ Len(a.pages) = Len(s.pages) + 1
<1> DEFINE entry == [url |-> item.url, ok |-> Usable(item, ok)]
           a == [s EXCEPT !.pages = Append(@, entry)]
<1>1. entry = [url |-> item.url, ok |-> FALSE] /\ entry \in [url : URLs, ok : BOOLEAN]
  <2>1. Usable(item, ok) = FALSE
    BY DEF Usable
  <2>2. item.url \in URLs
    BY DEF Targets
  <2> QED BY <2>1, <2>2
<1> HIDE DEF entry
<1>2. PICK pages : /\ pages = Append(s.pages, entry)
                   /\ pages \in Seq([url : URLs, ok : BOOLEAN]) /\ Len(pages) = Len(s.pages) + 1
                   /\ \A i \in DOMAIN pages : \/ i \in DOMAIN s.pages /\ pages[i] = s.pages[i]
                                              \/ pages[i] = entry
  <2>1. /\ Append(s.pages, entry) \in Seq([url : URLs, ok : BOOLEAN])
        /\ Len(Append(s.pages, entry)) = Len(s.pages) + 1
        /\ \A i \in DOMAIN Append(s.pages, entry) :
              \/ i \in DOMAIN s.pages /\ Append(s.pages, entry)[i] = s.pages[i]
              \/ Append(s.pages, entry)[i] = entry
    BY <1>1, PageAppended
  <2> QED BY <2>1, Zenon
<1>3. a = [s EXCEPT !.pages = pages]
  BY <1>2
<1> HIDE DEF a
<1>4. a \in Searches
  BY <1>2, <1>3 DEF Searches
<1>5. /\ a.queue = s.queue /\ a.seen = s.seen /\ a.emails = s.emails /\ a.pages = pages
      /\ a.warnings = s.warnings /\ a.sitemapRequests = s.sitemapRequests /\ a.visited = s.visited
  BY <1>3 DEF Searches
<1>6. CutShort(a) <=> CutShort(s)
  BY <1>3 DEF Searches, CutShort
<1>7. QueueIsASet(a) /\ ProfileReadsNoSitemap(a) /\ EmailsAreFew(a) /\ SeenIsKept(a)
  <2>1. QueueIsASet(a) /\ ProfileReadsNoSitemap(a)
    <3>1. a.queue = s.queue /\ a.seen = s.seen
      BY <1>5
    <3> QED BY <3>1, Zenon DEF Sound, QueueIsASet, Queued, ProfileReadsNoSitemap
  <2>2. SeenIsKept(a) /\ EmailsAreFew(a)
    BY <1>5, <1>6 DEF Sound, SeenIsKept, Queued, EmailsAreFew
  <2> QED BY <2>1, <2>2
<1>8. PagesAreRead(a)
  <2> SUFFICES ASSUME NEW i \in DOMAIN pages, pages[i].ok, ~ Limited(a)
               PROVE  ToSet(hunt.site.pages[pages[i].url].addresses) \subseteq a.emails
    BY <1>5 DEF PagesAreRead
  <2>1. i \in DOMAIN s.pages /\ pages[i] = s.pages[i]
    BY <1>1, <1>2
  <2>2. ~ Limited(s)
    BY <1>5 DEF Limited
  <2> QED BY <1>5, <2>1, <2>2 DEF Sound, PagesAreRead
<1>9. a \in Searches /\ Sound(a) /\ OnlyConsumes(s, a) /\ Len(a.pages) = Len(s.pages) + 1
  BY <1>2, <1>4, <1>5, <1>6, <1>7, <1>8 DEF Sound, OnlyConsumes
<1> QED BY <1>9 DEF a, entry

LEMMA ConsumeOne ==
  ASSUME hunt \in Hunts, NEW s \in Searches, Sound(s), NEW item \in Targets, NEW ok,
         hunt.request.profile => ~ item.sitemap
  PROVE  LET a == ConsumeLoad(s, item, ok)
         IN  /\ a \in Searches /\ Sound(a) /\ OnlyConsumes(s, a)
             /\ Len(a.pages) = IF item.sitemap THEN Len(s.pages) ELSE Len(s.pages) + 1
             /\ (\A i \in 1 .. Len(Candidates(item, ok)) : Candidates(item, ok)[i].url \in a.seen) \/ CutShort(a)
<1> DEFINE page == hunt.site.pages[item.url]
           listed == [s EXCEPT !.pages = Append(@, [url |-> item.url, ok |-> Usable(item, ok)])]
           arrived == [listed EXCEPT !.visited = @ \cup {ScopedURL(page.final)}]
           base == IF item.sitemap THEN s ELSE IF Usable(item, ok) THEN Fold(Record, arrived, page.addresses) ELSE listed
           items == Candidates(item, ok)
           a == Fold(AddTarget, base, items)
<1>1. /\ base \in Searches /\ Sound(base) /\ OnlyConsumes(s, base)
      /\ Len(base.pages) = IF item.sitemap THEN Len(s.pages) ELSE Len(s.pages) + 1
  <2>1. CASE item.sitemap
    <3>1. base = s
      BY <2>1
    <3> QED BY <2>1, <3>1 DEF OnlyConsumes
  <2>2. CASE ~ item.sitemap /\ Usable(item, ok)
    <3>1. base = Fold(Record, arrived, page.addresses)
      BY <2>2
    <3> HIDE DEF base
    <3> QED BY <2>2, <3>1, ReadPage
  <2>3. CASE ~ item.sitemap /\ ~ Usable(item, ok)
    <3>1. base = listed
      BY <2>3
    <3> HIDE DEF base
    <3> QED BY <2>3, <3>1, ListPage
  <2> QED BY <2>1, <2>2, <2>3
<1>2. /\ items \in Seq(Targets)
      /\ hunt.request.profile => \A i \in 1 .. Len(items) : ~ items[i].sitemap
  BY CandidatesAreTargets
<1>3. ConsumeLoad(s, item, ok) = a
  BY DEF ConsumeLoad
<1> HIDE DEF base, items
<1>4. /\ a \in Searches /\ Sound(a) /\ OnlyAdds(base, a)
      /\ (\A i \in 1 .. Len(items) : items[i].url \in a.seen) \/ CutShort(a)
  BY <1>1, <1>2, AddsAll
<1> HIDE DEF a
<1>5. OnlyConsumes(s, a) /\ a.pages = base.pages
  BY <1>1, <1>4 DEF OnlyConsumes, OnlyAdds
<1>6. Len(a.pages) = IF item.sitemap THEN Len(s.pages) ELSE Len(s.pages) + 1
  BY <1>1, <1>5
<1> QED BY <1>3, <1>4, <1>5, <1>6 DEF items

------------------------------------------------------------------------------
(* orderTargets: the queue in order has the same targets, each once. *)

LEMMA BeforeOrders ==
  ASSUME NEW Q \in SUBSET Targets, \A a, b \in Q : a.url = b.url => a = b
  PROVE  /\ \A a \in Q : ~ Before(a, a)
         /\ \A a, b \in Q : a = b \/ Before(a, b) \/ Before(b, a)
         /\ \A a, b, c \in Q : Before(a, b) /\ Before(b, c) => Before(a, c)
<1>1. \A a \in Q : a.url \in Nat /\ a.score \in Nat /\ a.depth \in Nat
  BY PagesAssumption DEF Targets
<1>2. \A a \in Q : ~ Before(a, a)
  BY <1>1 DEF Before
<1>3. ASSUME NEW a \in Q, NEW b \in Q PROVE a = b \/ Before(a, b) \/ Before(b, a)
  <2>1. a.url = b.url => a = b
    OBVIOUS
  <2> QED BY <1>1, <2>1 DEF Before
<1>4. ASSUME NEW a \in Q, NEW b \in Q, NEW c \in Q, Before(a, b), Before(b, c) PROVE Before(a, c)
  BY <1>1, <1>4 DEF Before
<1> QED BY <1>2, <1>3, <1>4

LEMMA RanksAreOneToOne ==
  ASSUME NEW Q \in SUBSET Targets, IsFiniteSet(Q), \A a, b \in Q : a.url = b.url => a = b
  PROVE  /\ \A t \in Q : Cardinality({o \in Q : Before(o, t)}) \in 0 .. Cardinality(Q) - 1
         /\ \A t, u \in Q : Cardinality({o \in Q : Before(o, t)}) = Cardinality({o \in Q : Before(o, u)}) => t = u
         /\ \A k \in 0 .. Cardinality(Q) - 1 : \E t \in Q : Cardinality({o \in Q : Before(o, t)}) = k
<1> DEFINE below(t) == {o \in Q : Before(o, t)}
           rank == [t \in Q |-> Cardinality(below(t))]
           n == Cardinality(Q)
<1>1. n \in Nat /\ \A t \in Q : IsFiniteSet(below(t)) /\ Cardinality(below(t)) \in Nat
  <2>1. \A t \in Q : below(t) \in SUBSET Q
    OBVIOUS
  <2> HIDE DEF below
  <2>2. \A t \in Q : IsFiniteSet(below(t))
    BY <2>1, FS_Subset
  <2> QED BY <2>2, FS_CardinalityType
<1>2. \A t \in Q : Cardinality(below(t)) \in 0 .. n - 1
  <2> SUFFICES ASSUME NEW t \in Q PROVE Cardinality(below(t)) \in 0 .. n - 1
    OBVIOUS
  <2>1. below(t) \in SUBSET (Q \ {t})
    BY BeforeOrders
  <2>2. IsFiniteSet(Q \ {t}) /\ Cardinality(Q \ {t}) = n - 1
    BY FS_RemoveElement
  <2> HIDE DEF below, n
  <2>3. Cardinality(below(t)) <= Cardinality(Q \ {t})
    BY <2>1, <2>2, FS_Subset
  <2> QED BY <1>1, <2>2, <2>3
<1>3. ASSUME NEW t \in Q, NEW u \in Q, Before(t, u) PROVE Cardinality(below(t)) < Cardinality(below(u))
  <2>1. below(t) \cup {t} \in SUBSET below(u) /\ t \notin below(t)
    BY <1>3, BeforeOrders
  <2> HIDE DEF below, n
  <2>2. Cardinality(below(t) \cup {t}) = Cardinality(below(t)) + 1
    BY <1>1, <2>1, FS_AddElement
  <2>3. Cardinality(below(t) \cup {t}) <= Cardinality(below(u))
    BY <1>1, <2>1, FS_Subset
  <2> QED BY <1>1, <2>2, <2>3
<1>4. \A t, u \in Q : Cardinality(below(t)) = Cardinality(below(u)) => t = u
  <2> SUFFICES ASSUME NEW t \in Q, NEW u \in Q, t # u PROVE Cardinality(below(t)) # Cardinality(below(u))
    OBVIOUS
  <2>1. Before(t, u) \/ Before(u, t)
    BY BeforeOrders
  <2>2. Cardinality(below(t)) \in Nat /\ Cardinality(below(u)) \in Nat
    BY <1>1
  <2> HIDE DEF below
  <2> QED BY <1>3, <2>1, <2>2
<1> HIDE DEF below, n
<1>5. rank \in Injection(Q, 0 .. n - 1)
  <2>1. rank \in [Q -> 0 .. n - 1]
    BY <1>2
  <2>2. \A t, u \in Q : rank[t] = rank[u] => t = u
    BY <1>4
  <2> QED BY <2>1, <2>2 DEF Injection, IsInjective
<1>6. IsFiniteSet(0 .. n - 1) /\ Cardinality(0 .. n - 1) = n
  <2>1. 0 \in Int /\ n - 1 \in Int
    BY <1>1
  <2>2. IsFiniteSet(0 .. n - 1) /\ Cardinality(0 .. n - 1) = IF 0 > n - 1 THEN 0 ELSE (n - 1) - 0 + 1
    BY <2>1, FS_Interval
  <2> QED BY <1>1, <2>2
<1>7. rank \in Surjection(Q, 0 .. n - 1)
  BY <1>5, <1>6, FS_Injection DEF n
<1>8. \A k \in 0 .. n - 1 : \E t \in Q : Cardinality(below(t)) = k
  BY <1>7 DEF Surjection
<1> QED BY <1>2, <1>4, <1>8 DEF below, n

LEMMA QueueIsCounted ==
  ASSUME NEW q \in Seq(Targets), \A i, k \in DOMAIN q : q[i].url = q[k].url => i = k
  PROVE  /\ ToSet(q) \in SUBSET Targets /\ IsFiniteSet(ToSet(q)) /\ Cardinality(ToSet(q)) = Len(q)
         /\ \A a, b \in ToSet(q) : a.url = b.url => a = b
<1>1. DOMAIN q = 1 .. Len(q) /\ Len(q) \in Nat /\ \A i \in DOMAIN q : q[i] \in Targets
  OBVIOUS
<1>2. q \in [1 .. Len(q) -> ToSet(q)]
  BY <1>1 DEF ToSet
<1>3. q \in Surjection(1 .. Len(q), ToSet(q)) /\ q \in Injection(1 .. Len(q), ToSet(q))
  <2>1. \A i, k \in 1 .. Len(q) : q[i] = q[k] => i = k
    BY <1>1
  <2>2. \A t \in ToSet(q) : \E i \in 1 .. Len(q) : q[i] = t
    BY <1>1 DEF ToSet
  <2> QED BY <1>2, <2>1, <2>2 DEF Surjection, Injection, IsInjective
<1>4. IsFiniteSet(1 .. Len(q)) /\ Cardinality(1 .. Len(q)) = Len(q)
  <2>1. IsFiniteSet(1 .. Len(q)) /\ Cardinality(1 .. Len(q)) = IF 1 > Len(q) THEN 0 ELSE Len(q) - 1 + 1
    BY <1>1, FS_Interval
  <2> QED BY <1>1, <2>1
<1>5. IsFiniteSet(ToSet(q)) /\ Cardinality(ToSet(q)) = Len(q)
  BY <1>3, <1>4, FS_Surjection
<1>6. ToSet(q) \in SUBSET Targets
  BY <1>1 DEF ToSet
<1>7. \A a, b \in ToSet(q) : a.url = b.url => a = b
  BY DEF ToSet
<1> QED BY <1>5, <1>6, <1>7

LEMMA OrderedQueue ==
  ASSUME NEW s \in Searches, QueueIsASet(s)
  PROVE  /\ Ordered(s.queue) \in Seq(Targets)
         /\ Len(Ordered(s.queue)) = Len(s.queue)
         /\ \A i \in 1 .. Len(s.queue) : \E j \in DOMAIN s.queue : Ordered(s.queue)[i] = s.queue[j]
         /\ \A i, k \in 1 .. Len(s.queue) : Ordered(s.queue)[i].url = Ordered(s.queue)[k].url => i = k
         /\ \A u \in Queued(s) : \E i \in 1 .. Len(s.queue) : Ordered(s.queue)[i].url = u
<1> DEFINE q == s.queue
           n == Len(q)
           Q == ToSet(q)
           rank(t) == Cardinality({o \in Q : Before(o, t)})
           order == Ordered(q)
<1>1. q \in Seq(Targets) /\ n \in Nat /\ DOMAIN q = 1 .. n
  BY DEF Searches
<1>2. \A i, k \in DOMAIN q : q[i].url = q[k].url => i = k
  BY DEF QueueIsASet
<1>3. /\ Q \in SUBSET Targets /\ IsFiniteSet(Q) /\ Cardinality(Q) = n
      /\ \A a, b \in Q : a.url = b.url => a = b
  BY <1>1, <1>2, QueueIsCounted
<1>4. /\ \A t \in Q : rank(t) \in 0 .. n - 1
      /\ \A t, u \in Q : rank(t) = rank(u) => t = u
      /\ \A k \in 0 .. n - 1 : \E t \in Q : rank(t) = k
  <2> HIDE DEF Q
  <2> QED BY <1>3, RanksAreOneToOne
<1>5. order = [i \in 1 .. n |-> CHOOSE t \in Q : rank(t) = i - 1]
  BY <1>1 DEF Ordered
<1> HIDE DEF rank, order
<1>6. ASSUME NEW i \in 1 .. n PROVE order[i] \in Q /\ rank(order[i]) = i - 1
  <2>1. i - 1 \in 0 .. n - 1
    BY <1>1
  <2>2. \E t \in Q : rank(t) = i - 1
    BY <1>4, <2>1
  <2>3. order[i] = CHOOSE t \in Q : rank(t) = i - 1
    BY <1>5
  <2> HIDE DEF Q
  <2> QED BY <2>2, <2>3
<1>7. order \in Seq(Targets) /\ Len(order) = n
  <2>1. \A i \in 1 .. n : order[i] \in Targets
    BY <1>3, <1>6
  <2>2. order \in [1 .. n -> Targets]
    BY <1>5, <2>1
  <2> HIDE DEF n
  <2> QED BY <1>1, <2>2
<1>8. \A i \in 1 .. n : \E j \in DOMAIN q : order[i] = q[j]
  BY <1>6 DEF ToSet
<1>9. \A i, k \in 1 .. n : order[i].url = order[k].url => i = k
  <2> SUFFICES ASSUME NEW i \in 1 .. n, NEW k \in 1 .. n, order[i].url = order[k].url PROVE i = k
    OBVIOUS
  <2>1. order[i] = order[k]
    BY <1>3, <1>6
  <2>2. i - 1 = k - 1
    BY <1>6, <2>1
  <2> QED BY <2>2
<1>10. \A u \in Queued(s) : \E i \in 1 .. n : order[i].url = u
  <2> SUFFICES ASSUME NEW u \in Queued(s) PROVE \E i \in 1 .. n : order[i].url = u
    OBVIOUS
  <2>1. PICK t \in Q : t.url = u
    BY DEF Queued, ToSet
  <2>2. rank(t) + 1 \in 1 .. n /\ (rank(t) + 1) - 1 = rank(t)
    BY <1>1, <1>4
  <2>3. order[rank(t) + 1] \in Q /\ rank(order[rank(t) + 1]) = rank(t)
    BY <1>6, <2>2
  <2>4. order[rank(t) + 1] = t
    BY <1>4, <2>3
  <2> QED BY <2>1, <2>2, <2>4
<1> QED BY <1>7, <1>8, <1>9, <1>10 DEF order

------------------------------------------------------------------------------
(* take: what the batch holds once the targets of P are passed. *)

OnePerUrl(q) == \A i, k \in DOMAIN q : q[i].url = q[k].url => i = k

\* What taking leaves alone.
OnlyTakes(s, a) ==
  /\ a.seen = s.seen /\ a.emails = s.emails /\ a.pages = s.pages /\ a.warnings = s.warnings
  /\ a.outcome = s.outcome
  /\ CutShort(s) => CutShort(a)

\* Every target passed is visited, back in the queue, or cut off.
PassedAreKept(s, P, t) ==
  /\ ToSet(t.batch) \cup ToSet(t.search.queue) \subseteq P
  /\ OnePerUrl(t.batch) /\ OnePerUrl(t.search.queue)
  /\ t.search.visited = s.visited \cup {x.url : x \in ToSet(t.batch)}
  /\ \A x \in ToSet(t.batch) : x.url \notin s.visited
  /\ \A p \in P : p.url \in t.search.visited \/ p \in ToSet(t.search.queue) \/ CutShort(t.search)

TakenAreCounted(s, t) ==
  /\ IsFiniteSet(ToSet(t.batch))
  /\ t.pages = Len(s.pages) + Cardinality({x \in ToSet(t.batch) : ~ x.sitemap})
  /\ t.search.sitemapRequests = s.sitemapRequests + Cardinality({x \in ToSet(t.batch) : x.sitemap})

TakenAreFew(size, t) ==
  /\ t.pages <= hunt.request.maxPages
  /\ t.search.sitemapRequests <= MaxSitemapRequests
  /\ Len(t.batch) <= size
  /\ t.search.queue # <<>> => t.stopped \/ Len(t.batch) >= size
  /\ t.stopped => t.pages >= hunt.request.maxPages

Takings == [search : Searches, batch : Seq(Targets), pages : Nat, stopped : BOOLEAN]

Taken(s, size, P, t) ==
  /\ t \in Takings
  /\ OnlyTakes(s, t.search)
  /\ PassedAreKept(s, P, t)
  /\ TakenAreCounted(s, t)
  /\ TakenAreFew(size, t)

LEMMA AppendedSet ==
  ASSUME NEW q \in Seq(Targets), NEW item \in Targets
  PROVE  /\ Append(q, item) \in Seq(Targets)
         /\ Append(q, item) # <<>>
         /\ Len(Append(q, item)) = Len(q) + 1
         /\ ToSet(Append(q, item)) = ToSet(q) \cup {item}
         /\ OnePerUrl(q) /\ (\A x \in ToSet(q) : x.url # item.url) => OnePerUrl(Append(q, item))
<1>1. Append(q, item) \in Seq(Targets) /\ Append(q, item) # <<>> /\ Len(Append(q, item)) = Len(q) + 1 /\ Len(q) \in Nat
  OBVIOUS
<1>2. DOMAIN q = 1 .. Len(q) /\ DOMAIN Append(q, item) = 1 .. (Len(q) + 1)
  BY <1>1
<1>3. /\ \A i \in 1 .. Len(q) : Append(q, item)[i] = q[i]
      /\ Append(q, item)[Len(q) + 1] = item
  OBVIOUS
<1>4. \A i \in DOMAIN Append(q, item) :
        \/ i \in DOMAIN q /\ Append(q, item)[i] = q[i]
        \/ i = Len(q) + 1 /\ i \notin DOMAIN q /\ Append(q, item)[i] = item
  BY <1>1, <1>2, <1>3
<1>5. ToSet(Append(q, item)) \subseteq ToSet(q) \cup {item}
  BY <1>4 DEF ToSet
<1>6. \A i \in DOMAIN q : i \in DOMAIN Append(q, item) /\ Append(q, item)[i] = q[i]
  BY <1>1, <1>2, <1>3
<1>7. Len(q) + 1 \in DOMAIN Append(q, item)
  BY <1>1, <1>2
<1>8. ToSet(q) \cup {item} \subseteq ToSet(Append(q, item))
  BY <1>3, <1>6, <1>7 DEF ToSet
<1>9. ASSUME OnePerUrl(q), \A x \in ToSet(q) : x.url # item.url PROVE OnePerUrl(Append(q, item))
  <2>1. \A i \in DOMAIN q : q[i].url # item.url
    BY <1>9 DEF ToSet
  <2> QED BY <1>4, <1>9, <2>1 DEF OnePerUrl
<1> QED BY <1>1, <1>5, <1>8, <1>9

\* The target goes back to the queue.
LEMMA PutBack ==
  ASSUME NEW s, NEW size \in Nat, NEW P, NEW t, Taken(s, size, P, t), NEW item \in Targets,
         \A p \in P : p.url # item.url, NEW stopped \in BOOLEAN,
         stopped \/ Len(t.batch) >= size, t.stopped => stopped,
         stopped => t.stopped \/ t.pages >= hunt.request.maxPages
  PROVE  Taken(s, size, P \cup {item},
               [search |-> [t.search EXCEPT !.queue = Append(@, item)], batch |-> t.batch,
                pages |-> t.pages, stopped |-> stopped])
<1> DEFINE a == [t.search EXCEPT !.queue = Append(@, item)]
           u == [search |-> a, batch |-> t.batch, pages |-> t.pages, stopped |-> stopped]
<1>1. t \in Takings /\ t.search \in Searches /\ t.search.queue \in Seq(Targets)
  BY DEF Taken, Takings, Searches
<1>2. PICK q : /\ q = Append(t.search.queue, item)
               /\ q \in Seq(Targets) /\ q # <<>>
               /\ ToSet(q) = ToSet(t.search.queue) \cup {item}
               /\ OnePerUrl(t.search.queue) /\ (\A x \in ToSet(t.search.queue) : x.url # item.url) => OnePerUrl(q)
  <2> DEFINE q == Append(t.search.queue, item)
  <2>1. /\ q \in Seq(Targets) /\ q # <<>>
        /\ ToSet(q) = ToSet(t.search.queue) \cup {item}
        /\ OnePerUrl(t.search.queue) /\ (\A x \in ToSet(t.search.queue) : x.url # item.url) => OnePerUrl(q)
    BY <1>1, AppendedSet
  <2> HIDE DEF q
  <2>2. q = Append(t.search.queue, item)
    BY DEF q
  <2> QED BY <2>1, <2>2
<1>3. a = [t.search EXCEPT !.queue = q]
  BY <1>2
<1>4. /\ a \in Searches /\ a.queue = q /\ a.seen = t.search.seen /\ a.visited = t.search.visited
      /\ a.emails = t.search.emails /\ a.pages = t.search.pages /\ a.warnings = t.search.warnings
      /\ a.sitemapRequests = t.search.sitemapRequests /\ a.outcome = t.search.outcome
  <2> HIDE DEF a
  <2>1. a \in Searches
    BY <1>1, <1>2, <1>3 DEF Searches
  <2> QED BY <1>1, <1>3, <2>1 DEF Searches
<1>5. CutShort(a) <=> CutShort(t.search)
  <2> HIDE DEF a
  <2> QED BY <1>1, <1>3 DEF Searches, CutShort
<1> HIDE DEF a
<1>6. u \in Takings /\ u.search = a /\ u.batch = t.batch /\ u.pages = t.pages /\ u.stopped = stopped
  BY <1>1, <1>4 DEF Takings
<1> HIDE DEF u
<1>7. OnlyTakes(s, u.search)
  BY <1>4, <1>5, <1>6 DEF Taken, OnlyTakes
<1>8. PassedAreKept(s, P \cup {item}, u)
  <2>1. PassedAreKept(s, P, t)
    BY DEF Taken
  <2>2. ToSet(u.batch) \cup ToSet(u.search.queue) \subseteq P \cup {item}
    BY <1>2, <1>4, <1>6, <2>1 DEF PassedAreKept
  <2>3. OnePerUrl(u.batch) /\ OnePerUrl(u.search.queue)
    BY <1>2, <1>4, <1>6, <2>1 DEF PassedAreKept
  <2>4. /\ u.search.visited = s.visited \cup {x.url : x \in ToSet(u.batch)}
        /\ \A x \in ToSet(u.batch) : x.url \notin s.visited
    BY <1>4, <1>6, <2>1 DEF PassedAreKept
  <2>5. \A p \in P \cup {item} : p.url \in u.search.visited \/ p \in ToSet(u.search.queue) \/ CutShort(u.search)
    BY <1>2, <1>4, <1>5, <1>6, <2>1 DEF PassedAreKept
  <2> QED BY <2>2, <2>3, <2>4, <2>5 DEF PassedAreKept
<1>9. TakenAreCounted(s, u)
  BY <1>4, <1>6, Zenon DEF Taken, TakenAreCounted
<1>10. TakenAreFew(size, u)
  BY <1>4, <1>6 DEF Taken, TakenAreFew
<1> QED BY <1>6, <1>7, <1>8, <1>9, <1>10 DEF Taken, u, a

\* The target was visited already.
LEMMA PassOver ==
  ASSUME NEW s, NEW size \in Nat, NEW P, NEW t, Taken(s, size, P, t), NEW item \in Targets,
         item.url \in t.search.visited
  PROVE  Taken(s, size, P \cup {item}, t)
<1>1. PassedAreKept(s, P \cup {item}, t)
  BY DEF Taken, PassedAreKept
<1> QED BY <1>1 DEF Taken

\* A sitemap that is one too many is dropped.
LEMMA DropSitemap ==
  ASSUME NEW s, NEW size \in Nat, NEW P, NEW t, Taken(s, size, P, t), NEW item \in Targets
  PROVE  Taken(s, size, P \cup {item}, [t EXCEPT !.search.sitemapLimited = TRUE])
<1> DEFINE a == [t.search EXCEPT !.sitemapLimited = TRUE]
           u == [t EXCEPT !.search.sitemapLimited = TRUE]
<1>1. t \in Takings /\ t.search \in Searches
  BY DEF Taken, Takings
<1>2. u = [search |-> a, batch |-> t.batch, pages |-> t.pages, stopped |-> t.stopped]
  <2>1. u = [t EXCEPT !.search = a]
    OBVIOUS
  <2> HIDE DEF u, a
  <2>2. t = [search |-> t.search, batch |-> t.batch, pages |-> t.pages, stopped |-> t.stopped]
    BY <1>1 DEF Takings
  <2> QED BY <2>1, <2>2
<1>3. /\ a \in Searches /\ a.queue = t.search.queue /\ a.seen = t.search.seen /\ a.visited = t.search.visited
      /\ a.emails = t.search.emails /\ a.pages = t.search.pages /\ a.warnings = t.search.warnings
      /\ a.sitemapRequests = t.search.sitemapRequests /\ a.outcome = t.search.outcome
      /\ CutShort(a)
  BY <1>1 DEF Searches, CutShort
<1> HIDE DEF a
<1>4. u \in Takings /\ u.search = a /\ u.batch = t.batch /\ u.pages = t.pages /\ u.stopped = t.stopped
  BY <1>1, <1>2, <1>3 DEF Takings
<1> HIDE DEF u
<1>5. OnlyTakes(s, u.search)
  BY <1>3, <1>4 DEF Taken, OnlyTakes
<1>6. PassedAreKept(s, P \cup {item}, u)
  BY <1>3, <1>4 DEF Taken, PassedAreKept
<1>7. TakenAreCounted(s, u)
  BY <1>3, <1>4, Zenon DEF Taken, TakenAreCounted
<1>8. TakenAreFew(size, u)
  BY <1>3, <1>4 DEF Taken, TakenAreFew
<1> QED BY <1>4, <1>5, <1>6, <1>7, <1>8 DEF Taken, u

\* The target joins the batch.
LEMMA PutInBatch ==
  ASSUME hunt \in Hunts, NEW s \in Searches, NEW size \in Nat, NEW P, NEW t, Taken(s, size, P, t), NEW item \in Targets,
         item.url \notin t.search.visited, \A p \in P : p.url # item.url,
         ~ t.stopped, Len(t.batch) < size,
         ~ item.sitemap => t.pages < hunt.request.maxPages,
         item.sitemap => t.search.sitemapRequests < MaxSitemapRequests
  PROVE  Taken(s, size, P \cup {item},
               [search |-> Visit(t.search, item), batch |-> Append(t.batch, item),
                pages |-> IF item.sitemap THEN t.pages ELSE t.pages + 1, stopped |-> t.stopped])
<1> DEFINE requests == IF item.sitemap THEN t.search.sitemapRequests + 1 ELSE t.search.sitemapRequests
           pages == IF item.sitemap THEN t.pages ELSE t.pages + 1
           a == Visit(t.search, item)
           u == [search |-> a, batch |-> Append(t.batch, item), pages |-> pages, stopped |-> t.stopped]
<1>1. /\ t \in Takings /\ t.search \in Searches /\ t.batch \in Seq(Targets) /\ t.pages \in Nat
      /\ t.search.sitemapRequests \in Nat /\ t.search.visited \subseteq URLs
  BY DEF Taken, Takings, Searches
<1>2. PICK batch : /\ batch = Append(t.batch, item)
                   /\ batch \in Seq(Targets) /\ Len(batch) = Len(t.batch) + 1
                   /\ ToSet(batch) = ToSet(t.batch) \cup {item}
                   /\ OnePerUrl(t.batch) /\ (\A x \in ToSet(t.batch) : x.url # item.url) => OnePerUrl(batch)
  <2> DEFINE q == Append(t.batch, item)
  <2>1. /\ q \in Seq(Targets) /\ Len(q) = Len(t.batch) + 1
        /\ ToSet(q) = ToSet(t.batch) \cup {item}
        /\ OnePerUrl(t.batch) /\ (\A x \in ToSet(t.batch) : x.url # item.url) => OnePerUrl(q)
    BY <1>1, AppendedSet
  <2> HIDE DEF q
  <2>2. q = Append(t.batch, item)
    BY DEF q
  <2> QED BY <2>1, <2>2
<1>3. requests \in Nat /\ pages \in Nat /\ t.search.visited \cup {item.url} \in SUBSET URLs
  BY <1>1 DEF Targets
<1>4. a = [t.search EXCEPT !.visited = t.search.visited \cup {item.url}, !.sitemapRequests = requests]
  BY DEF Visit
<1> HIDE DEF requests, pages
<1>5. /\ a \in Searches /\ a.queue = t.search.queue /\ a.seen = t.search.seen
      /\ a.visited = t.search.visited \cup {item.url}
      /\ a.emails = t.search.emails /\ a.pages = t.search.pages /\ a.warnings = t.search.warnings
      /\ a.sitemapRequests = requests /\ a.outcome = t.search.outcome
  <2> HIDE DEF a
  <2>1. a \in Searches
    BY <1>1, <1>3, <1>4 DEF Searches
  <2> QED BY <1>1, <1>4, <2>1 DEF Searches
<1>6. CutShort(a) <=> CutShort(t.search)
  <2> HIDE DEF a
  <2> QED BY <1>1, <1>4 DEF Searches, CutShort
<1> HIDE DEF a
<1>7. u \in Takings /\ u.search = a /\ u.batch = batch /\ u.pages = pages /\ u.stopped = t.stopped
  BY <1>1, <1>2, <1>3, <1>5 DEF Takings
<1> HIDE DEF u
<1>8. OnlyTakes(s, u.search)
  BY <1>5, <1>6, <1>7 DEF Taken, OnlyTakes
<1>9. PassedAreKept(s, P, t) /\ TakenAreCounted(s, t) /\ TakenAreFew(size, t)
  BY DEF Taken
<1>10. item \notin ToSet(t.batch) /\ \A x \in ToSet(t.batch) : x.url # item.url
  BY <1>9 DEF PassedAreKept
<1>11. PassedAreKept(s, P \cup {item}, u)
  <2>1. ToSet(u.batch) \cup ToSet(u.search.queue) \subseteq P \cup {item}
    BY <1>2, <1>5, <1>7, <1>9 DEF PassedAreKept
  <2>2. OnePerUrl(u.batch) /\ OnePerUrl(u.search.queue)
    BY <1>2, <1>5, <1>7, <1>9, <1>10 DEF PassedAreKept
  <2>3. u.search.visited = s.visited \cup {x.url : x \in ToSet(u.batch)}
    BY <1>2, <1>5, <1>7, <1>9 DEF PassedAreKept
  <2>4. \A x \in ToSet(u.batch) : x.url \notin s.visited
    BY <1>2, <1>7, <1>9 DEF PassedAreKept
  <2>5. \A p \in P \cup {item} : p.url \in u.search.visited \/ p \in ToSet(u.search.queue) \/ CutShort(u.search)
    BY <1>5, <1>6, <1>7, <1>9 DEF PassedAreKept
  <2> QED BY <2>1, <2>2, <2>3, <2>4, <2>5 DEF PassedAreKept
<1>12. TakenAreCounted(s, u)
  <2> DEFINE Read(b) == {x \in ToSet(b) : ~ x.sitemap}
             Maps(b) == {x \in ToSet(b) : x.sitemap}
  <2>1. IsFiniteSet(ToSet(t.batch)) /\ IsFiniteSet(ToSet(batch))
    BY <1>2, <1>9, FS_AddElement DEF TakenAreCounted
  <2>2. Read(t.batch) \in SUBSET ToSet(t.batch) /\ Maps(t.batch) \in SUBSET ToSet(t.batch)
    OBVIOUS
  <2>3. /\ IF item.sitemap THEN Read(batch) = Read(t.batch) ELSE Read(batch) = Read(t.batch) \cup {item}
        /\ IF item.sitemap THEN Maps(batch) = Maps(t.batch) \cup {item} ELSE Maps(batch) = Maps(t.batch)
        /\ item \notin Read(t.batch) /\ item \notin Maps(t.batch)
    BY <1>2, <1>10
  <2>4. /\ t.pages = Len(s.pages) + Cardinality(Read(t.batch))
        /\ t.search.sitemapRequests = s.sitemapRequests + Cardinality(Maps(t.batch))
    BY <1>9 DEF TakenAreCounted
  <2> HIDE DEF Read, Maps
  <2>5. IsFiniteSet(Read(t.batch)) /\ IsFiniteSet(Maps(t.batch))
    BY <2>1, <2>2, FS_Subset
  <2>6. Cardinality(Read(t.batch)) \in Nat /\ Cardinality(Maps(t.batch)) \in Nat
    BY <2>5, FS_CardinalityType
  <2>7. /\ Cardinality(Read(t.batch) \cup {item}) = Cardinality(Read(t.batch)) + 1
        /\ Cardinality(Maps(t.batch) \cup {item}) = Cardinality(Maps(t.batch)) + 1
    BY <2>3, <2>5, FS_AddElement
  <2>8. Len(s.pages) \in Nat /\ s.sitemapRequests \in Nat
    BY DEF Searches
  <2>9. pages = Len(s.pages) + Cardinality(Read(batch)) /\ requests = s.sitemapRequests + Cardinality(Maps(batch))
    <3>1. CASE item.sitemap
      <4>1. Cardinality(Read(batch)) = Cardinality(Read(t.batch)) /\ Cardinality(Maps(batch)) = Cardinality(Maps(t.batch)) + 1
        BY <2>3, <2>7, <3>1
      <4>2. pages = t.pages /\ requests = t.search.sitemapRequests + 1
        BY <3>1 DEF pages, requests
      <4> QED BY <2>4, <2>6, <2>8, <4>1, <4>2
    <3>2. CASE ~ item.sitemap
      <4>1. Cardinality(Read(batch)) = Cardinality(Read(t.batch)) + 1 /\ Cardinality(Maps(batch)) = Cardinality(Maps(t.batch))
        BY <2>3, <2>7, <3>2
      <4>2. pages = t.pages + 1 /\ requests = t.search.sitemapRequests
        BY <3>2 DEF pages, requests
      <4> QED BY <2>4, <2>6, <2>8, <4>1, <4>2
    <3> QED BY <3>1, <3>2
  <2> QED BY <1>5, <1>7, <2>1, <2>9 DEF TakenAreCounted, Read, Maps
<1>13. TakenAreFew(size, u)
  <2>1. MaxSitemapRequests \in Nat /\ hunt.request.maxPages \in Nat /\ Len(t.batch) \in Nat
    BY <1>1, EmailSearchAssumption DEF IsHunt
  <2>2. pages <= hunt.request.maxPages /\ requests <= MaxSitemapRequests /\ Len(batch) <= size
    BY <1>1, <1>2, <1>9, <2>1 DEF TakenAreFew, pages, requests
  <2>3. u.search.queue = <<>> /\ ~ u.stopped
    BY <1>5, <1>7, <1>9, <2>1 DEF TakenAreFew
  <2> QED BY <1>5, <1>7, <2>2, <2>3 DEF TakenAreFew
<1> QED BY <1>2, <1>7, <1>8, <1>11, <1>12, <1>13 DEF Taken, u, a, pages

\* The records the steps of take write.
LEMMA SearchOfTakings ==
  ASSUME NEW t \in Takings, NEW a
  PROVE  [t EXCEPT !.search = a] = [search |-> a, batch |-> t.batch, pages |-> t.pages, stopped |-> t.stopped]
BY DEF Takings

LEMMA StoppedTakings ==
  ASSUME NEW t \in Takings, NEW a, NEW b
  PROVE  [t EXCEPT !.stopped = b, !.search = a] =
         [search |-> a, batch |-> t.batch, pages |-> t.pages, stopped |-> b]
<1> DEFINE u == [t EXCEPT !.stopped = b]
<1>1. u = [search |-> t.search, batch |-> t.batch, pages |-> t.pages, stopped |-> b]
  BY DEF Takings
<1>2. [t EXCEPT !.stopped = b, !.search = a] = [u EXCEPT !.search = a]
  OBVIOUS
<1> HIDE DEF u
<1>3. [u EXCEPT !.search = a] = [search |-> a, batch |-> t.batch, pages |-> t.pages, stopped |-> b]
  BY <1>1
<1> QED BY <1>2, <1>3

LEMMA BatchOfTakings ==
  ASSUME NEW t \in Takings, NEW a, NEW b, NEW c
  PROVE  [t EXCEPT !.search = a, !.pages = b, !.batch = c] =
         [search |-> a, batch |-> c, pages |-> b, stopped |-> t.stopped]
<1> DEFINE u == [t EXCEPT !.search = a]
           v == [u EXCEPT !.pages = b]
<1>1. u = [search |-> a, batch |-> t.batch, pages |-> t.pages, stopped |-> t.stopped]
  BY SearchOfTakings
<1>2. [t EXCEPT !.search = a, !.pages = b, !.batch = c] = [v EXCEPT !.batch = c]
  OBVIOUS
<1> HIDE DEF u
<1>3. v = [search |-> a, batch |-> t.batch, pages |-> b, stopped |-> t.stopped]
  BY <1>1
<1> HIDE DEF v
<1>4. [v EXCEPT !.batch = c] = [search |-> a, batch |-> c, pages |-> b, stopped |-> t.stopped]
  BY <1>3
<1> QED BY <1>2, <1>4

LEMMA TakeOneTakes ==
  ASSUME hunt \in Hunts, NEW s \in Searches, NEW size \in Nat, NEW P, NEW t, Taken(s, size, P, t), NEW item \in Targets,
         \A p \in P : p.url # item.url
  PROVE  Taken(s, size, P \cup {item}, TakeOne(t, item, size))
<1>1. /\ t \in Takings /\ t = [search |-> t.search, batch |-> t.batch, pages |-> t.pages, stopped |-> t.stopped]
      /\ t.stopped \in BOOLEAN /\ Len(t.batch) \in Nat /\ t.pages \in Nat /\ t.search.sitemapRequests \in Nat
      /\ hunt.request.maxPages \in Nat /\ MaxSitemapRequests \in Nat
  <2>1. t \in Takings
    BY DEF Taken
  <2>2. hunt.request.maxPages \in Nat /\ MaxSitemapRequests \in Nat
    BY EmailSearchAssumption DEF IsHunt
  <2> QED BY <2>1, <2>2 DEF Takings, Searches
<1>2. CASE t.stopped \/ Len(t.batch) >= size
  <2> DEFINE a == [t.search EXCEPT !.queue = Append(@, item)]
  <2>1. TakeOne(t, item, size) = [t EXCEPT !.search.queue = Append(@, item)]
    BY <1>2 DEF TakeOne
  <2>2. [t EXCEPT !.search.queue = Append(@, item)] = [t EXCEPT !.search = a]
    OBVIOUS
  <2>3. Taken(s, size, P \cup {item}, [search |-> a, batch |-> t.batch, pages |-> t.pages, stopped |-> t.stopped])
    BY <1>1, <1>2, PutBack
  <2> HIDE DEF a
  <2>4. [t EXCEPT !.search = a] = [search |-> a, batch |-> t.batch, pages |-> t.pages, stopped |-> t.stopped]
    BY <1>1, SearchOfTakings
  <2> QED BY <2>1, <2>2, <2>3, <2>4
<1>3. CASE ~ (t.stopped \/ Len(t.batch) >= size) /\ ~ item.sitemap /\ t.pages >= hunt.request.maxPages
  <2> DEFINE a == [t.search EXCEPT !.queue = Append(@, item)]
  <2>1. TakeOne(t, item, size) = [t EXCEPT !.stopped = TRUE, !.search.queue = Append(@, item)]
    BY <1>3 DEF TakeOne
  <2>2. [t EXCEPT !.stopped = TRUE, !.search.queue = Append(@, item)] = [t EXCEPT !.stopped = TRUE, !.search = a]
    OBVIOUS
  <2>3. Taken(s, size, P \cup {item}, [search |-> a, batch |-> t.batch, pages |-> t.pages, stopped |-> TRUE])
    BY <1>1, <1>3, PutBack
  <2> HIDE DEF a
  <2>4. [t EXCEPT !.stopped = TRUE, !.search = a] = [search |-> a, batch |-> t.batch, pages |-> t.pages, stopped |-> TRUE]
    <3>1. t \in Takings
      BY <1>1
    <3> QED BY <3>1, StoppedTakings
  <2> QED BY <2>1, <2>2, <2>3, <2>4
<1>4. CASE /\ ~ (t.stopped \/ Len(t.batch) >= size) /\ ~ (~ item.sitemap /\ t.pages >= hunt.request.maxPages)
           /\ item.url \in t.search.visited
  <2>1. TakeOne(t, item, size) = t
    BY <1>4 DEF TakeOne
  <2> QED BY <1>4, <2>1, PassOver
<1>5. CASE /\ ~ (t.stopped \/ Len(t.batch) >= size) /\ ~ (~ item.sitemap /\ t.pages >= hunt.request.maxPages)
           /\ item.url \notin t.search.visited
           /\ item.sitemap /\ t.search.sitemapRequests >= MaxSitemapRequests
  <2>1. TakeOne(t, item, size) = [t EXCEPT !.search.sitemapLimited = TRUE]
    BY <1>5 DEF TakeOne
  <2> QED BY <2>1, DropSitemap
<1>6. CASE /\ ~ (t.stopped \/ Len(t.batch) >= size) /\ ~ (~ item.sitemap /\ t.pages >= hunt.request.maxPages)
           /\ item.url \notin t.search.visited
           /\ ~ (item.sitemap /\ t.search.sitemapRequests >= MaxSitemapRequests)
  <2> DEFINE a == Visit(t.search, item)
             batch == Append(t.batch, item)
             pages == IF item.sitemap THEN t.pages ELSE t.pages + 1
  <2>1. TakeOne(t, item, size) =
          [t EXCEPT !.search = Visit(t.search, item), !.pages = IF item.sitemap THEN @ ELSE @ + 1,
                    !.batch = Append(@, item)]
    BY <1>6, Zenon DEF TakeOne
  <2>2. [t EXCEPT !.search = Visit(t.search, item), !.pages = IF item.sitemap THEN @ ELSE @ + 1,
                  !.batch = Append(@, item)] =
        [t EXCEPT !.search = a, !.pages = pages, !.batch = batch]
    <3> DEFINE u == [t EXCEPT !.search = a]
    <3>1. u.pages = t.pages /\ u.batch = t.batch
      BY <1>1, SearchOfTakings
    <3> QED BY <3>1
  <2>3. Taken(s, size, P \cup {item}, [search |-> a, batch |-> batch, pages |-> pages, stopped |-> t.stopped])
    BY <1>1, <1>6, PutInBatch
  <2> HIDE DEF a, batch, pages
  <2>4. [t EXCEPT !.search = a, !.pages = pages, !.batch = batch] =
        [search |-> a, batch |-> batch, pages |-> pages, stopped |-> t.stopped]
    <3>1. t \in Takings
      BY <1>1
    <3> QED BY <3>1, BatchOfTakings
  <2> QED BY <2>1, <2>2, <2>3, <2>4
<1> QED BY <1>2, <1>3, <1>4, <1>5, <1>6

LEMMA TakesNothingYet ==
  ASSUME NEW s \in Searches, NEW size \in Nat, hunt \in Hunts,
         Len(s.pages) <= hunt.request.maxPages, s.sitemapRequests <= MaxSitemapRequests
  PROVE  Taken(s, size, {}, [search |-> [s EXCEPT !.queue = <<>>], batch |-> <<>>, pages |-> Len(s.pages), stopped |-> FALSE])
<1> DEFINE a == [s EXCEPT !.queue = <<>>]
           t == [search |-> a, batch |-> <<>>, pages |-> Len(s.pages), stopped |-> FALSE]
<1>1. <<>> \in Seq(Targets) /\ Len(s.pages) \in Nat /\ s.sitemapRequests \in Nat
  BY DEF Searches
<1>2. /\ a \in Searches /\ a.queue = <<>> /\ a.seen = s.seen /\ a.visited = s.visited
      /\ a.emails = s.emails /\ a.pages = s.pages /\ a.warnings = s.warnings
      /\ a.sitemapRequests = s.sitemapRequests /\ a.outcome = s.outcome
  BY <1>1 DEF Searches
<1>3. CutShort(a) <=> CutShort(s)
  BY DEF Searches, CutShort
<1> HIDE DEF a
<1>4. t \in Takings /\ t.search = a /\ t.batch = <<>> /\ t.pages = Len(s.pages) /\ t.stopped = FALSE
  BY <1>1, <1>2 DEF Takings
<1> HIDE DEF t
<1>5. ToSet(t.batch) = {} /\ ToSet(t.search.queue) = {}
  BY <1>2, <1>4 DEF ToSet
<1>6. OnlyTakes(s, t.search)
  BY <1>2, <1>3, <1>4 DEF OnlyTakes
<1>7. PassedAreKept(s, {}, t)
  <2>1. OnePerUrl(t.batch) /\ OnePerUrl(t.search.queue)
    BY <1>2, <1>4 DEF OnePerUrl
  <2> QED BY <1>2, <1>4, <1>5, <2>1 DEF PassedAreKept
<1>8. TakenAreCounted(s, t)
  <2>1. {x \in ToSet(t.batch) : ~ x.sitemap} = {} /\ {x \in ToSet(t.batch) : x.sitemap} = {}
    BY <1>5
  <2>2. IsFiniteSet(ToSet(t.batch))
    BY <1>5, FS_EmptySet
  <2>3. Cardinality({x \in ToSet(t.batch) : ~ x.sitemap}) = 0 /\ Cardinality({x \in ToSet(t.batch) : x.sitemap}) = 0
    BY <2>1, FS_EmptySet
  <2>4. t.pages = Len(s.pages) + 0 /\ t.search.sitemapRequests = s.sitemapRequests + 0
    BY <1>1, <1>2, <1>4
  <2> QED BY <2>2, <2>3, <2>4, Zenon DEF TakenAreCounted
<1>9. TakenAreFew(size, t)
  BY <1>1, <1>2, <1>4 DEF TakenAreFew
<1> QED BY <1>4, <1>6, <1>7, <1>8, <1>9 DEF Taken, t, a

LEMMA TakesAll ==
  ASSUME hunt \in Hunts, NEW s \in Searches, NEW size \in Nat, QueueIsASet(s),
         Len(s.pages) <= hunt.request.maxPages, s.sitemapRequests <= MaxSitemapRequests
  PROVE  \E P : /\ Taken(s, size, P, TakeBatch(s, size))
                /\ \A p \in P : \E j \in DOMAIN s.queue : p = s.queue[j]
                /\ \A u \in Queued(s) : \E p \in P : p.url = u
<1> DEFINE o == Ordered(s.queue)
           n == Len(s.queue)
           base == [search |-> [s EXCEPT !.queue = <<>>], batch |-> <<>>, pages |-> Len(s.pages), stopped |-> FALSE]
           First(k) == {o[i] : i \in 1 .. k}
           I == {x \in (0 .. n) \X Takings : Taken(s, size, First(x[1]), x[2])}
           result == Taking!Loop(size, 0, base, o)
<1>1. /\ o \in Seq(Targets) /\ Len(o) = n /\ n \in Nat
      /\ \A i \in 1 .. n : \E j \in DOMAIN s.queue : o[i] = s.queue[j]
      /\ \A i, k \in 1 .. n : o[i].url = o[k].url => i = k
      /\ \A u \in Queued(s) : \E i \in 1 .. n : o[i].url = u
  <2>1. n \in Nat
    BY DEF Searches
  <2> QED BY <2>1, OrderedQueue
<1> HIDE DEF o, n
<1>2. <<0, base>> \in I
  <2>1. Taken(s, size, {}, base)
    BY TakesNothingYet
  <2>2. First(0) = {} /\ 0 \in 0 .. n
    BY <1>1
  <2> HIDE DEF base
  <2>3. base \in Takings
    BY <2>1 DEF Taken
  <2> QED BY <2>1, <2>2, <2>3
<1>3. ASSUME NEW i \in 1 .. n, NEW t, <<i - 1, t>> \in I
      PROVE  <<i, TakeStep(size, 0, t, o[i])>> \in I
  <2>1. Taken(s, size, First(i - 1), t) /\ i \in 0 .. n
    <3> HIDE DEF First
    <3>1. Taken(s, size, First(<<i - 1, t>>[1]), <<i - 1, t>>[2])
      BY <1>3
    <3>2. <<i - 1, t>>[1] = i - 1 /\ <<i - 1, t>>[2] = t
      OBVIOUS
    <3> QED BY <1>1, <3>1, <3>2
  <2>2. o[i] \in Targets /\ \A p \in First(i - 1) : p.url # o[i].url
    BY <1>1
  <2>3. First(i) = First(i - 1) \cup {o[i]}
    BY <1>1
  <2> HIDE DEF First
  <2>4. Taken(s, size, First(i - 1) \cup {o[i]}, TakeOne(t, o[i], size))
    BY <2>1, <2>2, TakeOneTakes
  <2>5. Taken(s, size, First(i), TakeOne(t, o[i], size)) /\ TakeOne(t, o[i], size) \in Takings
    BY <2>3, <2>4 DEF Taken
  <2> QED BY <2>1, <2>5 DEF TakeStep
<1> HIDE DEF I
<1>4. <<Len(o), result>> \in I
  <2>1. Len(o) \in Nat /\ \A i \in 1 .. Len(o) : \A a : <<i - 1, a>> \in I => <<i, TakeStep(size, 0, a, o[i])>> \in I
    BY <1>1, <1>3
  <2> HIDE DEF base
  <2> QED BY <1>2, <2>1, Taking!LoopKeepsAt
<1>5. TakeBatch(s, size) = result
  BY DEF Fold, Taking!Loop, TakeStep, TakeBatch, o
<1>6. Taken(s, size, First(n), result)
  BY <1>1, <1>4 DEF I
<1> HIDE DEF result
<1>7. \A p \in First(n) : \E j \in DOMAIN s.queue : p = s.queue[j]
  BY <1>1
<1>8. \A u \in Queued(s) : \E p \in First(n) : p.url = u
  BY <1>1
<1> HIDE DEF First
<1> QED BY <1>5, <1>6, <1>7, <1>8

LEMMA BatchIsSound ==
  ASSUME hunt \in Hunts, NEW s \in Searches, NEW size \in Nat \ {0}, Sound(s),
         Len(s.pages) <= hunt.request.maxPages, s.sitemapRequests <= MaxSitemapRequests
  PROVE  LET t == TakeBatch(s, size)
         IN  /\ t \in Takings /\ Sound(t.search) /\ OnlyTakes(s, t.search)
             /\ TakenAreCounted(s, t) /\ TakenAreFew(size, t) /\ OnePerUrl(t.batch)
             /\ t.search.visited = s.visited \cup {x.url : x \in ToSet(t.batch)}
             /\ \A x \in ToSet(t.batch) : x.url \notin s.visited /\ (hunt.request.profile => ~ x.sitemap)
             /\ t.batch = <<>> /\ Len(s.pages) < hunt.request.maxPages => t.search.queue = <<>>
<1> DEFINE t == TakeBatch(s, size)
<1>1. QueueIsASet(s) /\ size \in Nat
  BY DEF Sound
<1>2. PICK P : /\ Taken(s, size, P, t)
               /\ \A p \in P : \E j \in DOMAIN s.queue : p = s.queue[j]
               /\ \A u \in Queued(s) : \E p \in P : p.url = u
  BY <1>1, TakesAll
<1> HIDE DEF t
<1>3. t \in Takings /\ OnlyTakes(s, t.search) /\ PassedAreKept(s, P, t) /\ TakenAreCounted(s, t) /\ TakenAreFew(size, t)
  BY <1>2 DEF Taken
<1>4. hunt.request.profile => \A p \in P : ~ p.sitemap
  BY <1>2 DEF Sound, ProfileReadsNoSitemap
<1>5. \A x \in ToSet(t.batch) : x.url \notin s.visited /\ (hunt.request.profile => ~ x.sitemap)
  BY <1>3, <1>4 DEF PassedAreKept
<1>6. /\ t.search.seen = s.seen /\ t.search.emails = s.emails /\ t.search.pages = s.pages
      /\ t.search.warnings = s.warnings /\ (CutShort(s) => CutShort(t.search))
  BY <1>3 DEF OnlyTakes
<1>7. ToSet(t.search.queue) \subseteq P /\ OnePerUrl(t.search.queue) /\ OnePerUrl(t.batch)
  BY <1>3 DEF PassedAreKept
<1>8. Queued(t.search) = {x.url : x \in ToSet(t.search.queue)}
  BY DEF Queued, ToSet
<1>9. QueueIsASet(t.search)
  <2>1. Queued(t.search) \subseteq s.seen
    <3>1. \A p \in P : p.url \in Queued(s)
      BY <1>2 DEF Queued
    <3>2. Queued(s) \subseteq s.seen
      BY DEF Sound, QueueIsASet
    <3> QED BY <1>7, <1>8, <3>1, <3>2
  <2> QED BY <1>6, <1>7, <2>1 DEF QueueIsASet, OnePerUrl
<1>10. SeenIsKept(t.search)
  <2> SUFFICES ASSUME ~ CutShort(t.search), NEW u \in s.seen
               PROVE  u \in t.search.visited \cup Queued(t.search)
    BY <1>6 DEF SeenIsKept
  <2>1. u \in s.visited \cup Queued(s)
    BY <1>6 DEF Sound, SeenIsKept
  <2>2. CASE u \in s.visited
    BY <1>3, <2>2 DEF PassedAreKept
  <2>3. CASE u \in Queued(s)
    <3>1. PICK p \in P : p.url = u
      BY <1>2, <2>3
    <3>2. p.url \in t.search.visited \/ p \in ToSet(t.search.queue)
      BY <1>3 DEF PassedAreKept
    <3> QED BY <1>8, <3>1, <3>2
  <2> QED BY <2>1, <2>2, <2>3
<1>11. PagesAreRead(t.search) /\ EmailsAreFew(t.search)
  BY <1>6, Zenon DEF Sound, PagesAreRead, Limited, EmailsAreFew
<1>12. ProfileReadsNoSitemap(t.search)
  <2>1. \A i \in DOMAIN t.search.queue : t.search.queue[i] \in P
    BY <1>7 DEF ToSet
  <2> QED BY <1>4, <2>1 DEF ProfileReadsNoSitemap
<1>13. Sound(t.search)
  BY <1>9, <1>10, <1>11, <1>12 DEF Sound
<1>14. ASSUME t.batch = <<>>, Len(s.pages) < hunt.request.maxPages PROVE t.search.queue = <<>>
  <2>1. ToSet(t.batch) = {} /\ Len(t.batch) = 0
    BY <1>14 DEF ToSet
  <2>2. {x \in ToSet(t.batch) : ~ x.sitemap} = {}
    BY <2>1
  <2>3. Cardinality({x \in ToSet(t.batch) : ~ x.sitemap}) = 0
    BY <2>2, FS_EmptySet
  <2>4. t.pages = Len(s.pages) + 0
    BY <1>3, <2>3 DEF TakenAreCounted
  <2>5. Len(s.pages) \in Nat /\ hunt.request.maxPages \in Nat
    BY EmailSearchAssumption DEF IsHunt, Searches
  <2>6. ~ (t.pages >= hunt.request.maxPages) /\ ~ (Len(t.batch) >= size)
    BY <1>14, <2>1, <2>4, <2>5
  <2> QED BY <1>3, <2>6 DEF TakenAreFew
<1>15. t.search.visited = s.visited \cup {x.url : x \in ToSet(t.batch)}
  BY <1>3 DEF PassedAreKept
<1>16. /\ t \in Takings /\ Sound(t.search) /\ OnlyTakes(s, t.search)
       /\ TakenAreCounted(s, t) /\ TakenAreFew(size, t) /\ OnePerUrl(t.batch)
       /\ t.search.visited = s.visited \cup {x.url : x \in ToSet(t.batch)}
       /\ \A x \in ToSet(t.batch) : x.url \notin s.visited /\ (hunt.request.profile => ~ x.sitemap)
       /\ t.batch = <<>> /\ Len(s.pages) < hunt.request.maxPages => t.search.queue = <<>>
  BY <1>3, <1>5, <1>7, <1>13, <1>14, <1>15
<1> QED BY <1>16 DEF t

LEMMA ConsumesAll ==
  ASSUME hunt \in Hunts, NEW s \in Searches, Sound(s), NEW batch \in Seq(Targets), OnePerUrl(batch),
         hunt.request.profile => \A x \in ToSet(batch) : ~ x.sitemap, NEW ok
  PROVE  LET a == Fold(LAMBDA r, i : ConsumeLoad(r, batch[i], i \in ok), s, [i \in DOMAIN batch |-> i])
         IN  /\ a \in Searches /\ Sound(a) /\ OnlyConsumes(s, a)
             /\ Len(a.pages) = Len(s.pages) + Cardinality({x \in ToSet(batch) : ~ x.sitemap})
             /\ \/ CutShort(a)
                \/ \A k \in DOMAIN batch : \A i \in 1 .. Len(Candidates(batch[k], k \in ok)) :
                     Candidates(batch[k], k \in ok)[i].url \in a.seen
<1> DEFINE n == Len(batch)
           First(k) == {batch[i] : i \in 1 .. k}
           Read(k) == {x \in First(k) : ~ x.sitemap}
           urls(k) == {Candidates(batch[k], k \in ok)[i].url : i \in 1 .. Len(Candidates(batch[k], k \in ok))}
           Good(k, a) ==
             /\ Sound(a) /\ OnlyConsumes(s, a)
             /\ IsFiniteSet(First(k))
             /\ Len(a.pages) = Len(s.pages) + Cardinality(Read(k))
             /\ CutShort(a) \/ \A j \in 1 .. k : urls(j) \subseteq a.seen
           I == {x \in (0 .. n) \X Searches : Good(x[1], x[2])}
           order == [i \in DOMAIN batch |-> i]
           result == Consuming!Loop(batch, ok, s, order)
<1>1. /\ n \in Nat /\ DOMAIN batch = 1 .. n /\ \A i \in 1 .. n : batch[i] \in Targets
      /\ \A i \in 1 .. n : hunt.request.profile => ~ batch[i].sitemap
  BY DEF ToSet
<1>2. order \in Seq(Nat) /\ Len(order) = n /\ \A i \in 1 .. n : order[i] = i
  <2>1. order = [i \in 1 .. n |-> i]
    BY <1>1
  <2> HIDE DEF n
  <2> QED BY <1>1, <2>1
<1> HIDE DEF n, order
<1>3. <<0, s>> \in I
  <2>1. First(0) = {} /\ Read(0) = {} /\ 0 \in 0 .. n
    BY <1>1
  <2>2. Len(s.pages) \in Nat
    BY DEF Searches
  <2>3. IsFiniteSet(First(0)) /\ Cardinality(Read(0)) = 0
    BY <2>1, FS_EmptySet
  <2>4. \A j \in 1 .. 0 : FALSE
    OBVIOUS
  <2> HIDE DEF First, Read, urls
  <2>5. OnlyConsumes(s, s)
    BY DEF OnlyConsumes
  <2>6. Good(0, s)
    BY <2>2, <2>3, <2>4, <2>5
  <2> QED BY <2>1, <2>6
<1>4. ASSUME NEW k \in 1 .. n, NEW a, <<k - 1, a>> \in I
      PROVE  <<k, ConsumeStep(batch, ok, a, order[k])>> \in I
  <2> DEFINE b == ConsumeLoad(a, batch[k], k \in ok)
  <2>1. a \in Searches /\ Good(k - 1, a) /\ k \in 0 .. n
    <3> HIDE DEF Good
    <3>1. <<k - 1, a>>[1] = k - 1 /\ <<k - 1, a>>[2] = a /\ Good(<<k - 1, a>>[1], <<k - 1, a>>[2])
      BY <1>4
    <3>2. a \in Searches
      BY <1>4
    <3> QED BY <1>1, <3>1, <3>2
  <2>2. batch[k] \in Targets /\ (hunt.request.profile => ~ batch[k].sitemap)
    BY <1>1
  <2>3. /\ b \in Searches /\ Sound(b) /\ OnlyConsumes(a, b)
        /\ Len(b.pages) = IF batch[k].sitemap THEN Len(a.pages) ELSE Len(a.pages) + 1
        /\ urls(k) \subseteq b.seen \/ CutShort(b)
    BY <2>1, <2>2, ConsumeOne
  <2> HIDE DEF b
  <2>4. First(k) = First(k - 1) \cup {batch[k]} /\ batch[k] \notin First(k - 1)
    <3>1. First(k) = First(k - 1) \cup {batch[k]}
      BY <1>1
    <3>2. \A i \in 1 .. (k - 1) : batch[i].url # batch[k].url
      BY <1>1 DEF OnePerUrl
    <3> QED BY <3>1, <3>2
  <2>5. IsFiniteSet(First(k))
    <3> HIDE DEF First
    <3> QED BY <2>1, <2>4, FS_AddElement
  <2>6. Len(b.pages) = Len(s.pages) + Cardinality(Read(k))
    <3>1. Read(k - 1) \in SUBSET First(k - 1) /\ batch[k] \notin Read(k - 1)
      BY <2>4
    <3>2. /\ batch[k].sitemap => Read(k) = Read(k - 1)
          /\ ~ batch[k].sitemap => Read(k) = Read(k - 1) \cup {batch[k]}
      BY <2>4
    <3> HIDE DEF Read, First
    <3>3. IsFiniteSet(Read(k - 1)) /\ Cardinality(Read(k - 1)) \in Nat
      BY <2>1, <3>1, FS_Subset, FS_CardinalityType
    <3>4. Cardinality(Read(k - 1) \cup {batch[k]}) = Cardinality(Read(k - 1)) + 1
      BY <3>1, <3>3, FS_AddElement
    <3>5. Len(s.pages) \in Nat /\ Len(a.pages) = Len(s.pages) + Cardinality(Read(k - 1))
      BY <2>1 DEF Searches
    <3>6. CASE batch[k].sitemap
      BY <2>3, <3>2, <3>5, <3>6
    <3>7. CASE ~ batch[k].sitemap
      <4>1. Len(b.pages) = Len(a.pages) + 1
        BY <2>3, <3>7
      <4>2. Cardinality(Read(k)) = Cardinality(Read(k - 1)) + 1
        BY <3>2, <3>4, <3>7
      <4>3. PICK c \in Nat : c = Cardinality(Read(k - 1))
        BY <3>3
      <4>4. PICK m \in Nat : m = Len(s.pages)
        BY <3>5
      <4>5. Len(a.pages) = m + c /\ Cardinality(Read(k)) = c + 1
        BY <3>5, <4>2, <4>3, <4>4
      <4>6. Len(b.pages) = m + Cardinality(Read(k))
        BY <4>1, <4>5
      <4> QED BY <4>4, <4>6
    <3> QED BY <3>6, <3>7
  <2> HIDE DEF First, Read, urls
  <2>7. OnlyConsumes(s, b) /\ a.seen \subseteq b.seen /\ (CutShort(a) => CutShort(b))
    BY <2>1, <2>3 DEF OnlyConsumes
  <2>8. CutShort(b) \/ \A j \in 1 .. k : urls(j) \subseteq b.seen
    <3>1. \A j \in 1 .. k : j \in 1 .. (k - 1) \/ j = k
      BY <1>1
    <3> QED BY <2>1, <2>3, <2>7, <3>1
  <2>9. Good(k, b)
    BY <2>3, <2>5, <2>6, <2>7, <2>8
  <2>10. ConsumeStep(batch, ok, a, order[k]) = b
    BY <1>2 DEF ConsumeStep, b
  <2> HIDE DEF Good
  <2> QED BY <2>1, <2>3, <2>9, <2>10
<1> HIDE DEF I
<1>5. <<Len(order), result>> \in I
  <2>1. Len(order) \in Nat /\ \A i \in 1 .. Len(order) : \A a : <<i - 1, a>> \in I => <<i, ConsumeStep(batch, ok, a, order[i])>> \in I
    BY <1>1, <1>2, <1>4
  <2> QED BY <1>3, <2>1, <1>2, Consuming!LoopKeepsAt
<1>6. Fold(LAMBDA r, i : ConsumeLoad(r, batch[i], i \in ok), s, [i \in DOMAIN batch |-> i]) = result
  BY DEF Fold, Consuming!Loop, ConsumeStep, order
<1>7. result \in Searches /\ Good(n, result)
  BY <1>2, <1>5 DEF I
<1> HIDE DEF result
<1>8. First(n) = ToSet(batch)
  BY <1>1 DEF ToSet
<1>9. /\ result \in Searches /\ Sound(result) /\ OnlyConsumes(s, result)
      /\ Len(result.pages) = Len(s.pages) + Cardinality({x \in ToSet(batch) : ~ x.sitemap})
      /\ \/ CutShort(result)
         \/ \A k \in DOMAIN batch : \A i \in 1 .. Len(Candidates(batch[k], k \in ok)) :
              Candidates(batch[k], k \in ok)[i].url \in result.seen
  BY <1>1, <1>7, <1>8
<1> QED BY <1>6, <1>9

------------------------------------------------------------------------------
(* The steps of the search. *)

BatchSize == IF hunt.request.profile THEN 1 ELSE Concurrency

LEMMA SearchStarts == SearchInit => SearchTypeOK /\ SearchInv
<1> SUFFICES ASSUME SearchInit PROVE SearchTypeOK /\ SearchInv
  OBVIOUS
<1> DEFINE first == [url |-> hunt.request.url, depth |-> 0, sitemap |-> FALSE, score |-> 200]
           sitemap == [url |-> hunt.site.sitemap, depth |-> 0, sitemap |-> TRUE, score |-> 110]
           start == IF hunt.request.profile \/ hunt.request.maxPages = 1 THEN <<first>> ELSE <<first, sitemap>>
           empty == [queue |-> <<>>, seen |-> {}, visited |-> {}, emails |-> {}, pages |-> <<>>, warnings |-> {},
                     sitemapRequests |-> 0, candidatesDropped |-> FALSE, sitemapLimited |-> FALSE,
                     depthLimited |-> FALSE, outcome |-> "ok"]
<1>1. hunt \in Hunts /\ stage = "search" /\ over = "no" /\ loads = <<>>
  BY DEF SearchInit
<1>2. offered = {t.url : t \in ToSet(start)} /\ search = Fold(AddTarget, empty, start)
  BY DEF SearchInit
<1>3. /\ hunt.request.url \in URLs /\ hunt.site.sitemap \in URLs /\ hunt.request.profile \in BOOLEAN
      /\ hunt.request.maxPages \in Nat /\ hunt.request.maxEmails \in Nat
  BY <1>1, EmailSearchAssumption DEF IsHunt
<1>4. first \in Targets /\ sitemap \in Targets /\ ~ first.sitemap
  BY <1>3 DEF Targets
<1> HIDE DEF first, sitemap
<1>5. start \in Seq(Targets) /\ (hunt.request.profile => \A i \in 1 .. Len(start) : ~ start[i].sitemap)
  <2>1. <<first>> \in Seq(Targets) /\ Len(<<first>>) = 1 /\ <<first>>[1] = first
    BY <1>4
  <2>2. <<first, sitemap>> \in Seq(Targets)
    BY <1>4
  <2>3. hunt.request.profile => \A i \in 1 .. Len(start) : ~ start[i].sitemap
    BY <1>4, <2>1
  <2> QED BY <2>1, <2>2, <2>3
<1> HIDE DEF start
<1>6. /\ empty \in Searches /\ empty.queue = <<>> /\ empty.seen = {} /\ empty.visited = {} /\ empty.emails = {}
      /\ empty.pages = <<>> /\ empty.sitemapRequests = 0
  BY DEF Searches
<1> HIDE DEF empty
<1>7. DOMAIN empty.queue = {} /\ DOMAIN empty.pages = {} /\ Len(empty.pages) = 0
  BY <1>6
<1>8. Sound(empty)
  <2>1. QueueIsASet(empty) /\ SeenIsKept(empty)
    BY <1>6, <1>7 DEF QueueIsASet, SeenIsKept, Queued
  <2>2. PagesAreRead(empty) /\ ProfileReadsNoSitemap(empty)
    BY <1>7 DEF PagesAreRead, ProfileReadsNoSitemap
  <2>3. EmailsAreFew(empty)
    BY <1>3, <1>6, FS_EmptySet DEF EmailsAreFew
  <2> QED BY <2>1, <2>2, <2>3 DEF Sound
<1>9. /\ search \in Searches /\ Sound(search) /\ OnlyAdds(empty, search)
      /\ (\A i \in 1 .. Len(start) : start[i].url \in search.seen) \/ CutShort(search)
  BY <1>2, <1>5, <1>6, <1>8, AddsAll
<1>10. DOMAIN start = 1 .. Len(start) /\ \A i \in 1 .. Len(start) : start[i] \in Targets
  BY <1>5
<1>11. offered \subseteq search.seen \/ CutShort(search)
  BY <1>2, <1>9, <1>10 DEF ToSet
<1>12. offered \subseteq URLs
  BY <1>2, <1>10 DEF ToSet, Targets
<1>13. SearchTypeOK
  <2>1. loads \in Seq(Seq(Targets))
    BY <1>1
  <2> QED BY <1>1, <1>9, <1>12, <2>1 DEF SearchTypeOK
<1>14. Loaded = {} /\ DOMAIN loads = {}
  BY <1>1 DEF Loaded
<1>15. /\ IsFiniteSet(Loaded)
       /\ Cardinality({t \in Loaded : ~ t.sitemap}) = 0 /\ Cardinality({t \in Loaded : t.sitemap}) = 0
  <2>1. {t \in Loaded : ~ t.sitemap} = {} /\ {t \in Loaded : t.sitemap} = {}
    BY <1>14
  <2> QED BY <1>14, <2>1, FS_EmptySet
<1>16. search.emails = {} /\ search.pages = <<>> /\ search.sitemapRequests = 0
  BY <1>6, <1>9 DEF OnlyAdds
<1>17. SearchStaysWithinLimits
  <2>1. Cardinality(search.emails) = 0
    BY <1>16, FS_EmptySet
  <2>2. MaxSitemapRequests \in Nat
    BY EmailSearchAssumption
  <2> QED BY <1>3, <1>14, <1>15, <2>1, <2>2 DEF SearchStaysWithinLimits
<1>18. LoadsAreCounted(search)
  <2>1. Len(search.pages) = 0
    BY <1>16
  <2> QED BY <1>3, <1>14, <1>15, <1>16, <2>1 DEF LoadsAreCounted
<1>9a. OkMeansComplete
  BY <1>1 DEF OkMeansComplete
<1> QED BY <1>9, <1>11, <1>13, <1>17, <1>18, <1>9a DEF SearchInv

LEMMA TakenNowIsSound ==
  ASSUME SearchTypeOK, SearchInv, stage = "search"
  PROVE  /\ TakenNow = TakeBatch(search, BatchSize)
         /\ BatchSize \in Nat \ {0}
         /\ TakenNow \in Takings /\ Sound(TakenNow.search) /\ OnlyTakes(search, TakenNow.search)
         /\ TakenAreCounted(search, TakenNow) /\ TakenAreFew(BatchSize, TakenNow) /\ OnePerUrl(TakenNow.batch)
         /\ TakenNow.search.visited = search.visited \cup {x.url : x \in ToSet(TakenNow.batch)}
         /\ \A x \in ToSet(TakenNow.batch) : x.url \notin search.visited /\ (hunt.request.profile => ~ x.sitemap)
         /\ TakenNow.batch = <<>> /\ Len(search.pages) < hunt.request.maxPages => TakenNow.search.queue = <<>>
<1>1. TakenNow = TakeBatch(search, BatchSize)
  BY DEF TakenNow, BatchSize
<1>2. BatchSize \in Nat \ {0}
  BY EmailSearchAssumption DEF BatchSize
<1>3. hunt \in Hunts /\ search \in Searches /\ Sound(search)
  BY DEF SearchTypeOK, SearchInv
<1>4. Len(search.pages) <= hunt.request.maxPages /\ search.sitemapRequests <= MaxSitemapRequests
  BY DEF SearchInv, LoadsAreCounted, SearchStaysWithinLimits
<1> QED BY <1>1, <1>2, <1>3, <1>4, BatchIsSound

LEMMA LoadedGrows ==
  ASSUME loads \in Seq(Seq(Targets)), NEW batch \in Seq(Targets), loads' = Append(loads, batch)
  PROVE  /\ loads' \in Seq(Seq(Targets))
         /\ DOMAIN loads' = DOMAIN loads \cup {Len(loads) + 1} /\ Len(loads) + 1 \notin DOMAIN loads
         /\ \A b \in DOMAIN loads : loads'[b] = loads[b]
         /\ loads'[Len(loads) + 1] = batch
         /\ Loaded' = Loaded \cup ToSet(batch)
<1> DEFINE B == Seq(Targets)
<1> HIDE DEF B
<1>1. /\ loads \in Seq(B) /\ batch \in B
  BY DEF B
<1>2. /\ loads' \in Seq(B) /\ Len(loads') = Len(loads) + 1 /\ Len(loads) \in Nat
      /\ DOMAIN loads = 1 .. Len(loads) /\ DOMAIN loads' = 1 .. (Len(loads) + 1)
      /\ \A b \in 1 .. Len(loads) : loads'[b] = loads[b]
      /\ loads'[Len(loads) + 1] = batch
  BY <1>1
<1>3. DOMAIN loads' = DOMAIN loads \cup {Len(loads) + 1} /\ Len(loads) + 1 \notin DOMAIN loads
  BY <1>2
<1>4. Loaded' = Loaded \cup ToSet(batch)
  <2>1. Loaded' = UNION {ToSet(loads'[b]) : b \in DOMAIN loads'}
    BY DEF Loaded, ToSet
  <2>2. \A b \in DOMAIN loads : ToSet(loads'[b]) = ToSet(loads[b])
    BY <1>2
  <2>3. ToSet(loads'[Len(loads) + 1]) = ToSet(batch)
    BY <1>2
  <2> QED BY <1>3, <2>1, <2>2, <2>3 DEF Loaded
<1> QED BY <1>2, <1>3, <1>4 DEF B

\* However its loads end, a batch keeps the limits.
LEMMA BatchStaysWithinLimits ==
  ASSUME SearchTypeOK, SearchInv, LoadBatch
  PROVE  /\ IsFiniteSet(Loaded') /\ Loaded' = Loaded \cup ToSet(TakenNow.batch)
         /\ Cardinality({t \in Loaded' : ~ t.sitemap}) = TakenNow.pages
         /\ Cardinality({t \in Loaded' : t.sitemap}) = TakenNow.search.sitemapRequests
         /\ \A a, b \in DOMAIN loads' : \A i \in DOMAIN loads'[a], k \in DOMAIN loads'[b] :
              loads'[a][i].url = loads'[b][k].url => a = b /\ i = k
         /\ hunt.request.profile => \A b \in DOMAIN loads' : Len(loads'[b]) = 1 /\ ~ loads'[b][1].sitemap
<1> DEFINE t == TakenNow
           read(S) == {x \in S : ~ x.sitemap}
           maps(S) == {x \in S : x.sitemap}
<1>1. stage = "search" /\ t.batch # <<>> /\ loads' = Append(loads, t.batch) /\ hunt' = hunt
  BY DEF LoadBatch
<1>2. /\ t \in Takings /\ TakenAreCounted(search, t) /\ TakenAreFew(BatchSize, t) /\ OnePerUrl(t.batch)
      /\ \A x \in ToSet(t.batch) : x.url \notin search.visited /\ (hunt.request.profile => ~ x.sitemap)
  BY <1>1, TakenNowIsSound
<1> HIDE DEF t
<1>3. /\ loads \in Seq(Seq(Targets)) /\ t.batch \in Seq(Targets) /\ LoadsAreCounted(search)
      /\ SearchStaysWithinLimits
  BY <1>1, <1>2 DEF SearchTypeOK, SearchInv, Takings
<1>4. /\ loads' \in Seq(Seq(Targets))
      /\ DOMAIN loads' = DOMAIN loads \cup {Len(loads) + 1} /\ Len(loads) + 1 \notin DOMAIN loads
      /\ \A b \in DOMAIN loads : loads'[b] = loads[b]
      /\ loads'[Len(loads) + 1] = t.batch
      /\ Loaded' = Loaded \cup ToSet(t.batch)
  BY <1>1, <1>3, LoadedGrows
<1>5. Loaded \cap ToSet(t.batch) = {}
  BY <1>2, <1>3 DEF LoadsAreCounted
<1>6. IsFiniteSet(Loaded) /\ IsFiniteSet(ToSet(t.batch))
  BY <1>2, <1>3 DEF LoadsAreCounted, TakenAreCounted
<1>7. IsFiniteSet(Loaded')
  BY <1>4, <1>6, FS_Union
<1>8. /\ Cardinality(read(Loaded')) = Cardinality(read(Loaded)) + Cardinality(read(ToSet(t.batch)))
      /\ Cardinality(maps(Loaded')) = Cardinality(maps(Loaded)) + Cardinality(maps(ToSet(t.batch)))
  <2>1. /\ read(Loaded') = read(Loaded) \cup read(ToSet(t.batch)) /\ read(Loaded) \cap read(ToSet(t.batch)) = {}
        /\ maps(Loaded') = maps(Loaded) \cup maps(ToSet(t.batch)) /\ maps(Loaded) \cap maps(ToSet(t.batch)) = {}
    BY <1>4, <1>5
  <2>2. /\ read(Loaded) \in SUBSET Loaded /\ read(ToSet(t.batch)) \in SUBSET ToSet(t.batch)
        /\ maps(Loaded) \in SUBSET Loaded /\ maps(ToSet(t.batch)) \in SUBSET ToSet(t.batch)
    OBVIOUS
  <2> HIDE DEF read, maps
  <2>3. /\ IsFiniteSet(read(Loaded)) /\ IsFiniteSet(read(ToSet(t.batch)))
        /\ IsFiniteSet(maps(Loaded)) /\ IsFiniteSet(maps(ToSet(t.batch)))
    BY <1>6, <2>2, FS_Subset
  <2>4. \A S, T : IsFiniteSet(S) /\ IsFiniteSet(T) /\ S \cap T = {} =>
          Cardinality(S \cup T) = Cardinality(S) + Cardinality(T)
    <3> SUFFICES ASSUME NEW S, NEW T, IsFiniteSet(S), IsFiniteSet(T), S \cap T = {}
                 PROVE  Cardinality(S \cup T) = Cardinality(S) + Cardinality(T)
      OBVIOUS
    <3>1. Cardinality(S \cup T) = Cardinality(S) + Cardinality(T) - Cardinality({})
      BY FS_Union
    <3>2. Cardinality(S) \in Nat /\ Cardinality(T) \in Nat /\ Cardinality({}) = 0
      BY FS_CardinalityType, FS_EmptySet
    <3> QED BY <3>1, <3>2
  <2> QED BY <2>1, <2>3, <2>4
<1>9. Cardinality(read(Loaded')) = t.pages /\ Cardinality(maps(Loaded')) = t.search.sitemapRequests
  BY <1>2, <1>3, <1>8 DEF LoadsAreCounted, TakenAreCounted
<1>10. ASSUME NEW a \in DOMAIN loads', NEW b \in DOMAIN loads',
              NEW i \in DOMAIN loads'[a], NEW k \in DOMAIN loads'[b], loads'[a][i].url = loads'[b][k].url
       PROVE  a = b /\ i = k
  <2>1. CASE a \in DOMAIN loads /\ b \in DOMAIN loads
    BY <1>3, <1>4, <1>10, <2>1 DEF SearchStaysWithinLimits
  <2>2. \A c \in DOMAIN loads : \A j \in DOMAIN loads[c] : loads[c][j].url \in search.visited
    <3>1. \A c \in DOMAIN loads : \A j \in DOMAIN loads[c] : loads[c][j] \in Loaded
      BY DEF Loaded, ToSet
    <3> QED BY <1>3, <3>1 DEF LoadsAreCounted
  <2>3. \A j \in DOMAIN t.batch : t.batch[j].url \notin search.visited
    BY <1>2 DEF ToSet
  <2>4. CASE a \in DOMAIN loads /\ b = Len(loads) + 1
    BY <1>4, <1>10, <2>2, <2>3, <2>4
  <2>5. CASE a = Len(loads) + 1 /\ b \in DOMAIN loads
    BY <1>4, <1>10, <2>2, <2>3, <2>5
  <2>6. CASE a = Len(loads) + 1 /\ b = Len(loads) + 1
    BY <1>2, <1>4, <1>10, <2>6 DEF OnePerUrl
  <2> QED BY <1>4, <2>1, <2>4, <2>5, <2>6
<1>11. ASSUME hunt.request.profile, NEW b \in DOMAIN loads' PROVE Len(loads'[b]) = 1 /\ ~ loads'[b][1].sitemap
  <2>1. CASE b \in DOMAIN loads
    BY <1>3, <1>4, <1>11, <2>1 DEF SearchStaysWithinLimits
  <2>2. CASE b = Len(loads) + 1
    <3>1. Len(t.batch) <= 1 /\ Len(t.batch) \in Nat /\ Len(t.batch) # 0
      <4>1. Len(t.batch) <= 1
        BY <1>2, <1>11 DEF TakenAreFew, BatchSize
      <4> QED BY <1>1, <1>3, <4>1, EmptySeq
    <3>2. 1 \in DOMAIN t.batch
      BY <1>3, <3>1
    <3>3. ~ t.batch[1].sitemap
      <4>1. t.batch[1] \in ToSet(t.batch)
        BY <3>2 DEF ToSet
      <4> QED BY <1>2, <1>11, <4>1
    <3>4. Len(t.batch) = 1
      <4>1. PICK n \in Nat : n = Len(t.batch)
        BY <3>1
      <4>2. n <= 1 /\ n # 0
        BY <3>1, <4>1
      <4>3. n = 1
        BY <4>2
      <4> QED BY <4>1, <4>3
    <3>5. loads'[b] = t.batch
      BY <1>4, <2>2
    <3> QED BY <3>3, <3>4, <3>5
  <2> QED BY <1>4, <2>1, <2>2
<1> QED BY <1>4, <1>7, <1>9, <1>10, <1>11 DEF t

LEMMA SoundOnwards ==
  ASSUME hunt' = hunt, NEW a, search' = a, Sound(a)
  PROVE  Sound(search)'
<1>1. QueueIsASet(search)' /\ SeenIsKept(search)'
  BY DEF Sound, QueueIsASet, Queued, SeenIsKept, CutShort
<1>2. PagesAreRead(search)' /\ EmailsAreFew(search)'
  BY DEF Sound, PagesAreRead, Limited, EmailsAreFew
<1>3. ProfileReadsNoSitemap(search)'
  BY DEF Sound, ProfileReadsNoSitemap
<1> QED BY <1>1, <1>2, <1>3 DEF Sound

LEMMA LoadsEnd ==
  ASSUME SearchTypeOK, SearchInv, LoadBatch, stage' = stage
  PROVE  SearchTypeOK' /\ SearchInv'
<1> DEFINE t == TakenNow
<1>1. stage = "search" /\ loads' = Append(loads, t.batch) /\ hunt' = hunt /\ over' = over
  BY DEF LoadBatch
<1>2. PICK ok \in SUBSET DOMAIN t.batch :
        /\ search' = Fold(LAMBDA r, i : ConsumeLoad(r, t.batch[i], i \in ok), t.search, [i \in DOMAIN t.batch |-> i])
        /\ offered' = offered \cup UNION {{c.url : c \in ToSet(Candidates(t.batch[i], i \in ok))} : i \in DOMAIN t.batch}
  BY <1>1 DEF LoadBatch
<1>3. /\ t \in Takings /\ Sound(t.search) /\ OnlyTakes(search, t.search)
      /\ TakenAreCounted(search, t) /\ TakenAreFew(BatchSize, t) /\ OnePerUrl(t.batch)
      /\ t.search.visited = search.visited \cup {x.url : x \in ToSet(t.batch)}
      /\ \A x \in ToSet(t.batch) : hunt.request.profile => ~ x.sitemap
  BY <1>1, TakenNowIsSound
<1>4. /\ IsFiniteSet(Loaded') /\ Loaded' = Loaded \cup ToSet(t.batch)
      /\ Cardinality({x \in Loaded' : ~ x.sitemap}) = t.pages
      /\ Cardinality({x \in Loaded' : x.sitemap}) = t.search.sitemapRequests
      /\ \A a, b \in DOMAIN loads' : \A i \in DOMAIN loads'[a], k \in DOMAIN loads'[b] :
           loads'[a][i].url = loads'[b][k].url => a = b /\ i = k
      /\ hunt.request.profile => \A b \in DOMAIN loads' : Len(loads'[b]) = 1 /\ ~ loads'[b][1].sitemap
  BY BatchStaysWithinLimits
<1> HIDE DEF t
<1>5. /\ hunt \in Hunts /\ search \in Searches /\ loads \in Seq(Seq(Targets)) /\ offered \subseteq URLs
      /\ over \in {"no", "deadline", "cancelled"}
      /\ Sound(search) /\ LoadsAreCounted(search) /\ (offered \subseteq search.seen \/ CutShort(search))
  BY <1>1 DEF SearchTypeOK, SearchInv
<1>6. t.search \in Searches /\ t.batch \in Seq(Targets)
  BY <1>3 DEF Takings
<1>7. PICK a : /\ a = search' /\ a \in Searches /\ Sound(a) /\ OnlyConsumes(t.search, a)
               /\ Len(a.pages) = Len(t.search.pages) + Cardinality({x \in ToSet(t.batch) : ~ x.sitemap})
               /\ \/ CutShort(a)
                  \/ \A k \in DOMAIN t.batch : \A i \in 1 .. Len(Candidates(t.batch[k], k \in ok)) :
                       Candidates(t.batch[k], k \in ok)[i].url \in a.seen
  BY <1>2, <1>3, <1>5, <1>6, ConsumesAll
<1>8. \A k \in DOMAIN t.batch : Candidates(t.batch[k], k \in ok) \in Seq(Targets)
  <2>1. \A k \in DOMAIN t.batch : t.batch[k] \in Targets
    BY <1>6
  <2> QED BY <1>5, <2>1, CandidatesAreTargets
<1>9. \A k \in DOMAIN t.batch : \A c \in ToSet(Candidates(t.batch[k], k \in ok)) :
        /\ c.url \in URLs
        /\ c.url \in a.seen \/ CutShort(a)
  <2> SUFFICES ASSUME NEW k \in DOMAIN t.batch, NEW c \in ToSet(Candidates(t.batch[k], k \in ok))
               PROVE  c.url \in URLs /\ (c.url \in a.seen \/ CutShort(a))
    OBVIOUS
  <2>1. PICK q \in Seq(Targets) : q = Candidates(t.batch[k], k \in ok)
    BY <1>8
  <2>2. PICK i \in 1 .. Len(q) : c = q[i] /\ q[i] \in Targets
    BY <2>1 DEF ToSet
  <2> QED BY <1>7, <2>1, <2>2 DEF Targets
<1>9a. ASSUME NEW u \in offered', u \notin offered
       PROVE  u \in URLs /\ (u \in a.seen \/ CutShort(a))
  <2>1. \E k \in DOMAIN t.batch : u \in {c.url : c \in ToSet(Candidates(t.batch[k], k \in ok))}
    BY <1>2, <1>9a, Zenon
  <2> QED BY <1>9, <2>1
<1>10. SearchTypeOK'
  <2>1. offered' \subseteq URLs
    BY <1>5, <1>9a
  <2>2. loads' \in Seq(Seq(Targets))
    BY <1>1, <1>5, <1>6, LoadedGrows
  <2>3. stage' \in {"search", "done", "cancelled", "saturated"}
    BY <1>1
  <2> QED BY <1>1, <1>5, <1>7, <2>1, <2>2, <2>3 DEF SearchTypeOK
<1>11. Sound(search)'
  BY <1>1, <1>7, SoundOnwards
<1>12. /\ t.search.seen = search.seen /\ t.search.pages = search.pages /\ (CutShort(search) => CutShort(t.search))
       /\ t.search.visited \subseteq a.visited /\ t.search.seen \subseteq a.seen
       /\ a.sitemapRequests = t.search.sitemapRequests /\ (CutShort(t.search) => CutShort(a))
  BY <1>3, <1>7 DEF OnlyTakes, OnlyConsumes
<1>13. (offered \subseteq search.seen \/ CutShort(search))'
  <2>1. offered' \subseteq a.seen \/ CutShort(a)
    BY <1>5, <1>12, <1>9a
  <2>2. CutShort(a) => CutShort(search)'
    BY <1>7 DEF CutShort
  <2> QED BY <1>7, <2>1, <2>2
<1>14. Len(a.pages) = t.pages /\ t.pages <= hunt.request.maxPages /\ t.search.sitemapRequests <= MaxSitemapRequests
  <2>1. t.pages = Len(search.pages) + Cardinality({x \in ToSet(t.batch) : ~ x.sitemap})
    BY <1>3 DEF TakenAreCounted
  <2>2. Len(a.pages) = Len(search.pages) + Cardinality({x \in ToSet(t.batch) : ~ x.sitemap})
    BY <1>7, <1>12
  <2> QED BY <1>3, <2>1, <2>2 DEF TakenAreFew
<1>15. LoadsAreCounted(search)'
  <2>1. \A x \in Loaded' : x.url \in a.visited
    <3>1. \A x \in Loaded : x.url \in search.visited
      BY <1>5 DEF LoadsAreCounted
    <3> QED BY <1>3, <1>4, <1>12, <3>1
  <2>2. search'.pages = a.pages /\ search'.visited = a.visited /\ search'.sitemapRequests = a.sitemapRequests
    BY <1>7
  <2>3. Cardinality({x \in Loaded' : ~ x.sitemap}) = Len(search'.pages) /\ Len(search'.pages) <= hunt'.request.maxPages
    BY <1>1, <1>4, <1>14, <2>2
  <2>4. Cardinality({x \in Loaded' : x.sitemap}) = search'.sitemapRequests
    BY <1>4, <1>12, <2>2
  <2> QED BY <1>4, <2>1, <2>2, <2>3, <2>4 DEF LoadsAreCounted
<1>16. SearchStaysWithinLimits'
  <2>1. Cardinality(search'.emails) <= hunt'.request.maxEmails
    BY <1>1, <1>7 DEF Sound, EmailsAreFew
  <2>2. /\ Cardinality({x \in Loaded' : ~ x.sitemap}) <= hunt'.request.maxPages
        /\ Cardinality({x \in Loaded' : x.sitemap}) <= MaxSitemapRequests
    BY <1>1, <1>4, <1>14
  <2>3. hunt'.request.profile => \A b \in DOMAIN loads' : Len(loads'[b]) = 1 /\ ~ loads'[b][1].sitemap
    BY <1>1, <1>4
  <2> QED BY <1>4, <2>1, <2>2, <2>3 DEF SearchStaysWithinLimits
<1>17. OkMeansComplete'
  BY <1>1 DEF OkMeansComplete
<1>18. SearchInv'
  BY <1>11, <1>13, <1>15, <1>16, <1>17 DEF SearchInv
<1> QED BY <1>10, <1>18

LEMMA LoadsSaturate ==
  ASSUME SearchTypeOK, SearchInv, LoadBatch, stage' = "saturated", UNCHANGED <<search, offered>>
  PROVE  SearchTypeOK' /\ SearchInv'
<1> DEFINE t == TakenNow
<1>1. stage = "search" /\ loads' = Append(loads, t.batch) /\ hunt' = hunt /\ over' = over
  BY DEF LoadBatch
<1>2. t \in Takings /\ TakenAreFew(BatchSize, t)
  BY <1>1, TakenNowIsSound
<1>3. /\ IsFiniteSet(Loaded') /\ Loaded' = Loaded \cup ToSet(t.batch)
      /\ Cardinality({x \in Loaded' : ~ x.sitemap}) = t.pages
      /\ Cardinality({x \in Loaded' : x.sitemap}) = t.search.sitemapRequests
      /\ \A a, b \in DOMAIN loads' : \A i \in DOMAIN loads'[a], k \in DOMAIN loads'[b] :
           loads'[a][i].url = loads'[b][k].url => a = b /\ i = k
      /\ hunt.request.profile => \A b \in DOMAIN loads' : Len(loads'[b]) = 1 /\ ~ loads'[b][1].sitemap
  BY BatchStaysWithinLimits
<1> HIDE DEF t
<1>4. SearchTypeOK'
  <2>1. loads' \in Seq(Seq(Targets))
    BY <1>1, <1>2, LoadedGrows DEF SearchTypeOK, Takings
  <2> QED BY <1>1, <2>1 DEF SearchTypeOK
<1>5. SearchStaysWithinLimits'
  <2>1. Cardinality(search'.emails) <= hunt'.request.maxEmails
    BY <1>1 DEF SearchInv, SearchStaysWithinLimits
  <2>2. /\ Cardinality({x \in Loaded' : ~ x.sitemap}) <= hunt'.request.maxPages
        /\ Cardinality({x \in Loaded' : x.sitemap}) <= MaxSitemapRequests
    BY <1>1, <1>2, <1>3 DEF TakenAreFew
  <2>3. hunt'.request.profile => \A b \in DOMAIN loads' : Len(loads'[b]) = 1 /\ ~ loads'[b][1].sitemap
    BY <1>1, <1>3
  <2> QED BY <1>3, <2>1, <2>2, <2>3 DEF SearchStaysWithinLimits
<1>6. SearchInv'
  BY <1>5 DEF SearchInv, OkMeansComplete
<1> QED BY <1>4, <1>6

\* What finish leaves alone, and what an "ok" says.
LEMMA FinishedIs ==
  ASSUME NEW s \in Searches, hunt \in Hunts
  PROVE  /\ Concluded(s) \in Searches
         /\ Concluded(s).visited = s.visited /\ Concluded(s).pages = s.pages /\ Concluded(s).emails = s.emails
         /\ Concluded(s).outcome = "ok" =>
              /\ ~ Limited(s) /\ Warnings(s) = {}
              /\ \A i \in DOMAIN s.pages : s.pages[i].ok
<1> DEFINE warned == [s EXCEPT !.warnings = @ \cup Warnings(s)]
           failed == {i \in DOMAIN s.pages : ~ s.pages[i].ok}
           outcome == IF s.pages # <<>> /\ failed = DOMAIN s.pages THEN "failed"
                      ELSE IF failed # {} \/ Limited(warned) THEN "partial" ELSE "ok"
           f == Concluded(s)
<1>1. f = [warned EXCEPT !.outcome = outcome]
  BY DEF Concluded
<1>2. s.warnings \cup Warnings(s) \subseteq Messages
  BY DEF Searches, Warnings, Messages
<1>3. outcome \in {"ok", "partial", "failed"}
  OBVIOUS
<1>4. outcome = "ok" => failed = {} /\ ~ Limited(warned)
  OBVIOUS
<1>5. warned.warnings = s.warnings \cup Warnings(s)
  BY DEF Searches
<1> HIDE DEF outcome
<1>6. warned \in Searches /\ warned.visited = s.visited /\ warned.pages = s.pages /\ warned.emails = s.emails
  BY <1>2 DEF Searches
<1> HIDE DEF warned, f
<1>7. f \in Searches /\ f.visited = s.visited /\ f.pages = s.pages /\ f.emails = s.emails /\ f.outcome = outcome
  BY <1>1, <1>3, <1>6 DEF Searches
<1>8. f.outcome = "ok" =>
        /\ ~ Limited(s) /\ Warnings(s) = {}
        /\ \A i \in DOMAIN s.pages : s.pages[i].ok
  BY <1>4, <1>5, <1>7 DEF Limited
<1> QED BY <1>7, <1>8 DEF f

LEMMA SearchFinishes ==
  ASSUME SearchTypeOK, SearchInv, FinishSearch
  PROVE  SearchTypeOK' /\ SearchInv'
<1> DEFINE s == IF Searching THEN TakenNow.search ELSE search
<1>1. /\ stage = "search" /\ hunt' = hunt /\ over' = over /\ loads' = loads /\ offered' = offered
      /\ search' = Concluded(s) /\ stage' = IF over = "cancelled" THEN "cancelled" ELSE "done"
      /\ ~ Searching \/ TakenNow.batch = <<>>
  BY DEF FinishSearch
<1>2. /\ hunt \in Hunts /\ search \in Searches /\ Sound(search) /\ over \in {"no", "deadline", "cancelled"}
      /\ offered \subseteq search.seen \/ CutShort(search)
  BY <1>1 DEF SearchTypeOK, SearchInv
<1>3. /\ s \in Searches /\ Sound(s)
      /\ s.seen = search.seen /\ s.emails = search.emails /\ s.pages = search.pages
      /\ CutShort(search) => CutShort(s)
  <2>1. CASE Searching
    BY <1>1, <2>1, TakenNowIsSound DEF Takings, OnlyTakes
  <2>2. CASE ~ Searching
    BY <1>2, <2>2
  <2> QED BY <2>1, <2>2
<1>4. Len(search.pages) \in Nat /\ hunt.request.maxPages \in Nat /\ hunt.request.maxEmails \in Nat
      /\ Cardinality(search.emails) \in Nat
  <2>1. Cardinality(search.emails) \in Nat
    BY <1>2, FS_CardinalityType DEF Sound, EmailsAreFew
  <2> QED BY <1>2, <2>1, EmailSearchAssumption DEF IsHunt, Searches
<1>5. Searching => s.queue = <<>>
  <2> SUFFICES ASSUME Searching PROVE s.queue = <<>>
    OBVIOUS
  <2>1. Len(search.pages) < hunt.request.maxPages /\ TakenNow.batch = <<>>
    BY <1>1 DEF Searching
  <2>2. TakenNow.search.queue = <<>>
    BY <1>1, <2>1, TakenNowIsSound
  <2> QED BY <2>2
<1>6. ~ Searching => s = search
  OBVIOUS
<1> HIDE DEF s
<1>7. PICK f : /\ f = search' /\ f \in Searches /\ f.visited = s.visited /\ f.pages = s.pages /\ f.emails = s.emails
               /\ f.outcome = "ok" => /\ ~ Limited(s) /\ Warnings(s) = {}
                                      /\ \A i \in DOMAIN s.pages : s.pages[i].ok
  BY <1>1, <1>2, <1>3, FinishedIs
<1>8. OkMeansComplete'
  <2> SUFFICES ASSUME stage' = "done", f.outcome = "ok"
               PROVE  /\ offered \subseteq f.visited
                      /\ \A i \in DOMAIN f.pages :
                           f.pages[i].ok /\ ToSet(hunt.site.pages[f.pages[i].url].addresses) \subseteq f.emails
    BY <1>1, <1>7 DEF OkMeansComplete
  <2>1. ~ Limited(s) /\ Warnings(s) = {} /\ \A i \in DOMAIN s.pages : s.pages[i].ok
    BY <1>7
  <2>2. /\ over = "no" /\ ~ (Cardinality(s.emails) >= hunt.request.maxEmails)
        /\ ~ (s.queue # <<>> /\ Len(s.pages) >= hunt.request.maxPages)
        /\ ~ CutShort(s)
    BY <1>1, <1>2, <2>1 DEF Warnings, CutShort
  <2>3. s.queue = <<>>
    <3>1. CASE Searching
      BY <1>5, <3>1
    <3>2. CASE ~ Searching
      <4>1. s.queue = <<>> \/ Len(s.pages) >= hunt.request.maxPages
        BY <1>3, <1>4, <1>6, <2>2, <3>2 DEF Searching
      <4> QED BY <2>2, <4>1
    <3> QED BY <3>1, <3>2
  <2>4. Queued(s) = {}
    BY <2>3 DEF Queued
  <2>5. offered \subseteq f.visited
    BY <1>2, <1>3, <1>7, <2>2, <2>4 DEF Sound, SeenIsKept
  <2>6. \A i \in DOMAIN s.pages : ToSet(hunt.site.pages[s.pages[i].url].addresses) \subseteq s.emails
    BY <1>3, <2>1 DEF Sound, PagesAreRead
  <2> QED BY <1>7, <2>1, <2>5, <2>6
<1>9. SearchStaysWithinLimits'
  <2>1. search'.emails = search.emails
    BY <1>3, <1>7
  <2>2. Loaded' = Loaded
    BY <1>1 DEF Loaded, ToSet
  <2>3. SearchStaysWithinLimits
    BY DEF SearchInv
  <2> QED BY <1>1, <2>1, <2>2, <2>3 DEF SearchStaysWithinLimits
<1>10. SearchTypeOK'
  BY <1>1, <1>7 DEF SearchTypeOK
<1>11. stage' # "search"
  BY <1>1
<1>12. SearchInv'
  BY <1>8, <1>9, <1>11 DEF SearchInv
<1> QED BY <1>10, <1>12

LEMMA SearchRests ==
  ASSUME SearchTypeOK, SearchInv, hunt' = hunt, search' = search, loads' = loads, offered' = offered,
         stage' = stage, over' \in {"no", "deadline", "cancelled"}
  PROVE  SearchTypeOK' /\ SearchInv'
<1>1. SearchTypeOK'
  BY DEF SearchTypeOK
<1>2. OkMeansComplete'
  BY DEF SearchInv, OkMeansComplete
<1>3. Loaded' = Loaded
  BY DEF Loaded, ToSet
<1>4. SearchStaysWithinLimits'
  <2>1. SearchStaysWithinLimits
    BY DEF SearchInv
  <2> QED BY <1>3, <2>1 DEF SearchStaysWithinLimits
<1>5. ASSUME stage' = "search"
      PROVE  Sound(search)' /\ LoadsAreCounted(search)' /\ (offered \subseteq search.seen \/ CutShort(search))'
  <2>1. Sound(search) /\ LoadsAreCounted(search) /\ (offered \subseteq search.seen \/ CutShort(search))
    BY <1>5 DEF SearchInv
  <2>2. Sound(search)'
    BY <2>1, SoundOnwards
  <2>3. LoadsAreCounted(search)'
    BY <1>3, <2>1 DEF LoadsAreCounted
  <2>4. (offered \subseteq search.seen \/ CutShort(search))'
    BY <2>1 DEF CutShort
  <2> QED BY <2>2, <2>3, <2>4
<1>6. SearchInv'
  BY <1>2, <1>4, <1>5 DEF SearchInv
<1> QED BY <1>1, <1>6

LEMMA SearchSteps ==
  ASSUME SearchTypeOK, SearchInv, [SearchNext]_searchVars
  PROVE  SearchTypeOK' /\ SearchInv'
<1>1. CASE LoadBatch
  <2>1. CASE stage' = stage
    BY <1>1, <2>1, LoadsEnd
  <2>2. CASE stage' # stage
    <3>1. stage' = "saturated" /\ UNCHANGED <<search, offered>>
      BY <1>1, <2>2 DEF LoadBatch
    <3> QED BY <1>1, <3>1, LoadsSaturate
  <2> QED BY <2>1, <2>2
<1>2. CASE FinishSearch
  BY <1>2, SearchFinishes
<1>3. ASSUME NEW how \in {"deadline", "cancelled"}, SearchContextEnds(how)
      PROVE  SearchTypeOK' /\ SearchInv'
  BY <1>3, SearchRests DEF SearchContextEnds
<1>4. CASE UNCHANGED searchVars
  BY <1>4, SearchRests DEF searchVars, SearchTypeOK
<1> QED BY <1>1, <1>2, <1>3, <1>4 DEF SearchNext, SearchStep

\* A search keeps every limit, for any site, request and sizes: take never lets a
\* URL, or a page or sitemap too many, into a batch, record no address too many,
\* and with a profile Find loads one page at a time (search.go take, record; service.go Find).
THEOREM SearchKeepsItsLimits == SearchSpec => []SearchStaysWithinLimits
<1>1. SearchInv => SearchStaysWithinLimits
  BY DEF SearchInv
<1>2. SearchTypeOK /\ SearchInv /\ [SearchNext]_searchVars => SearchTypeOK' /\ SearchInv'
  BY SearchSteps
<1> QED BY <1>1, <1>2, SearchStarts, PTL DEF SearchSpec

\* A search whose outcome is "ok" has visited every candidate it was offered and
\* reports every address of every page it read, for any site, request and sizes:
\* whatever add, take, consume or record leaves out, finish names (search.go).
THEOREM OkIsComplete == SearchSpec => []OkMeansComplete
<1>1. SearchInv => OkMeansComplete
  BY DEF SearchInv
<1>2. SearchTypeOK /\ SearchInv /\ [SearchNext]_searchVars => SearchTypeOK' /\ SearchInv'
  BY SearchSteps
<1> QED BY <1>1, <1>2, SearchStarts, PTL DEF SearchSpec

\* A search, its queue, pages, addresses and warnings have their types, for any
\* site, request and sizes (search.go search, target).
THEOREM SearchIsTyped == SearchSpec => []SearchTypeOK
<1>1. SearchTypeOK /\ SearchInv /\ [SearchNext]_searchVars => SearchTypeOK' /\ SearchInv'
  BY SearchSteps
<1> QED BY <1>1, SearchStarts, PTL DEF SearchSpec

------------------------------------------------------------------------------
(* Every batch takes at least one page or sitemap from what the limits leave, *)
(* so a search ends however the site links and whatever its loads answer.     *)

PagesLoaded == {t \in Loaded : ~ t.sitemap}
SitemapsLoaded == {t \in Loaded : t.sitemap}

EachBatchCounts ==
  /\ IsFiniteSet(Loaded)
  /\ Len(loads) <= Cardinality(PagesLoaded) + Cardinality(SitemapsLoaded)

LoadsAreFew == Len(loads) <= hunt.request.maxPages + MaxSitemapRequests

LEMMA BatchCounts ==
  ASSUME SearchTypeOK, SearchInv, EachBatchCounts, LoadBatch
  PROVE  EachBatchCounts'
<1> DEFINE t == TakenNow
           read == {x \in ToSet(t.batch) : ~ x.sitemap}
           maps == {x \in ToSet(t.batch) : x.sitemap}
<1>1. stage = "search" /\ t.batch # <<>> /\ loads' = Append(loads, t.batch)
  BY DEF LoadBatch
<1>2. t \in Takings /\ TakenAreCounted(search, t)
  BY <1>1, TakenNowIsSound
<1>3. /\ Cardinality(PagesLoaded') = t.pages /\ Cardinality(SitemapsLoaded') = t.search.sitemapRequests
      /\ IsFiniteSet(Loaded')
  BY BatchStaysWithinLimits DEF PagesLoaded, SitemapsLoaded
<1> HIDE DEF t
<1>4. /\ LoadsAreCounted(search) /\ search \in Searches /\ loads \in Seq(Seq(Targets))
      /\ t.batch \in Seq(Targets)
  BY <1>1, <1>2 DEF SearchTypeOK, SearchInv, Takings
<1>5. /\ t.pages = Len(search.pages) + Cardinality(read)
      /\ t.search.sitemapRequests = search.sitemapRequests + Cardinality(maps)
      /\ IsFiniteSet(ToSet(t.batch))
  BY <1>2 DEF TakenAreCounted
<1>6. /\ Cardinality(PagesLoaded) = Len(search.pages) /\ Cardinality(SitemapsLoaded) = search.sitemapRequests
      /\ Len(search.pages) \in Nat /\ search.sitemapRequests \in Nat
  BY <1>4 DEF LoadsAreCounted, PagesLoaded, SitemapsLoaded, Searches
<1>7. read \in SUBSET ToSet(t.batch) /\ maps \in SUBSET ToSet(t.batch) /\ read \cup maps = ToSet(t.batch)
  OBVIOUS
<1> HIDE DEF read, maps
<1>8. /\ IsFiniteSet(read) /\ IsFiniteSet(maps)
      /\ Cardinality(read) \in Nat /\ Cardinality(maps) \in Nat
  BY <1>5, <1>7, FS_Subset, FS_CardinalityType
<1>9. Cardinality(read) + Cardinality(maps) >= 1
  <2>1. t.batch[1] \in ToSet(t.batch)
    <3>1. Len(t.batch) \in Nat /\ Len(t.batch) # 0
      BY <1>1, <1>4, EmptySeq
    <3> QED BY <1>4, <3>1 DEF ToSet
  <2>2. read # {} \/ maps # {}
    BY <1>7, <2>1
  <2>3. Cardinality(read) # 0 \/ Cardinality(maps) # 0
    BY <1>8, <2>2, FS_EmptySet
  <2> QED BY <1>8, <2>3
<1>10. Len(loads') = Len(loads) + 1 /\ Len(loads) \in Nat
  BY <1>1, <1>4
<1>11. Len(loads) <= Len(search.pages) + search.sitemapRequests
  BY <1>6 DEF EachBatchCounts
<1>12. Len(loads') <= (Len(search.pages) + Cardinality(read)) + (search.sitemapRequests + Cardinality(maps))
  BY <1>6, <1>8, <1>9, <1>10, <1>11
<1> QED BY <1>3, <1>5, <1>12 DEF EachBatchCounts

LEMMA CountsKept ==
  ASSUME SearchTypeOK, SearchInv, EachBatchCounts, [SearchNext]_searchVars
  PROVE  EachBatchCounts'
<1>1. CASE LoadBatch
  BY <1>1, BatchCounts
<1>2. CASE UNCHANGED loads
  <2>1. Loaded' = Loaded
    BY <1>2 DEF Loaded, ToSet
  <2> QED BY <1>2, <2>1 DEF EachBatchCounts, PagesLoaded, SitemapsLoaded
<1>3. LoadBatch \/ UNCHANGED loads
  BY DEF SearchNext, SearchStep, FinishSearch, SearchContextEnds, searchVars
<1> QED BY <1>1, <1>2, <1>3

\* A search loads at most as many batches as it may read pages and sitemaps: with
\* every step but these ending the search or its context, this is the part of
\* EverySearchEnds that needs no fairness (service.go Find, search.go take).
THEOREM SearchIsShort == SearchSpec => []LoadsAreFew
<1> DEFINE Inv == SearchTypeOK /\ SearchInv /\ EachBatchCounts
<1>1. SearchInit => Inv
  <2> SUFFICES ASSUME SearchInit PROVE EachBatchCounts
    BY SearchStarts
  <2>1. SearchTypeOK /\ SearchInv /\ loads = <<>> /\ stage = "search"
    BY SearchStarts DEF SearchInit
  <2>2. /\ Cardinality(PagesLoaded) = Len(search.pages) /\ Cardinality(SitemapsLoaded) = search.sitemapRequests
        /\ Len(search.pages) \in Nat /\ search.sitemapRequests \in Nat
    BY <2>1 DEF SearchTypeOK, SearchInv, LoadsAreCounted, PagesLoaded, SitemapsLoaded, Searches
  <2>3. IsFiniteSet(Loaded)
    BY <2>1 DEF SearchInv, LoadsAreCounted
  <2> QED BY <2>1, <2>2, <2>3 DEF EachBatchCounts
<1>2. Inv /\ [SearchNext]_searchVars => Inv'
  BY SearchSteps, CountsKept
<1>3. Inv => LoadsAreFew
  <2> SUFFICES ASSUME Inv PROVE LoadsAreFew
    OBVIOUS
  <2>1. Len(loads) \in Nat /\ hunt.request.maxPages \in Nat /\ MaxSitemapRequests \in Nat
    BY EmailSearchAssumption DEF SearchTypeOK, IsHunt
  <2>2. Cardinality(PagesLoaded) <= hunt.request.maxPages /\ Cardinality(SitemapsLoaded) <= MaxSitemapRequests
    BY DEF SearchInv, SearchStaysWithinLimits, PagesLoaded, SitemapsLoaded
  <2>3. PagesLoaded \in SUBSET Loaded /\ SitemapsLoaded \in SUBSET Loaded
    BY DEF PagesLoaded, SitemapsLoaded
  <2>4. Cardinality(PagesLoaded) \in Nat /\ Cardinality(SitemapsLoaded) \in Nat
    BY <2>3, FS_Subset, FS_CardinalityType DEF EachBatchCounts
  <2> QED BY <2>1, <2>2, <2>4 DEF EachBatchCounts, LoadsAreFew
<1> QED BY <1>1, <1>2, <1>3, PTL DEF SearchSpec
=============================================================================
