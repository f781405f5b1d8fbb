# PageLode in TLA+

PageLode extracts the content of web pages: a Go program (CLI and HTTP API, `pkg/`, `internal/`) with a
Bun/TypeScript browser service (`browser-service/`) that it renders pages with, and Postgres, where it keeps
what it has learned and, with the River library, the job queue of `pagelode extract batch`. These modules model
the parts of it that run concurrently or survive failures, and check and prove what they promise.

## 1. The system

| Component | State | Operations | Talks to | What is hard |
|---|---|---|---|---|
| Batch queue `pkg/batch`, `internal/cli/batch.go` | River's job table (one `http` and at most one `browser` job per URL), page files, one Writer and host gate per process | import, run, hand over, store, put back, retry, status | River/Postgres, fetch, file system | several processes on one table, crash between file and table, `--lease`, interrupts, `--until-empty` |
| Request limiter `pkg/fetch/limit.go` | slots, waiting counter | Run | every request of a process | counter and channel change in separate steps, deadlines |
| Extraction waterfall `pkg/fetch/orchestrator.go`, `routes.go`, `clearances.go` | learned routes and clearances, in memory and Postgres | Extract, ExtractHTTP, ExtractBrowser | HTTP, browser client, CapSolver, store | requests of one host side by side, stale clearances, deferral on capacity |
| Browser client `pkg/browser/client.go`, `identity.go` | nodes, their slots and `downUntil`, identity generations, pending retirements, login sessions | render, observe, retire, create and close a session | browser service, store | retries on other nodes, late answers around a rotation, lost deletions, failed saves, restarts |
| Challenge solver `pkg/browser/solver.go`, `capsolver.go`, `capsolver_api.go` | where each call is | solve, fetch | browser client, CapSolver, HTTP | what is tried again, and how often |
| Browser service: identities `identities/pool.ts`, `render/renderer.ts` | warm identities, the queue on each profile directory, Chromes | render (lease), rotate, shutdown | Chrome, file system | launches, closes, evictions and exits on one directory |
| Browser service: profiles, sessions, limiter `profiles/`, `sessions/`, `shared/limiter.ts` | profile locks, sessions, slots and queue | open, close, expire, render in a profile | Chrome, file system | Chrome exits during a close, locks, SIGTERM |
| Browser service: page rendering `render/`, `browser/` | one page each | render, capture, explore, replay | Chrome | owned by Chrome's behaviour |
| Page loading `pkg/fetch/http.go`, `classify.go`, `extract.go` | none | fetch, judge, extract | HTTP | what a response is taken for |
| Site map `pkg/sitemap`, email finder `pkg/emails` | a frontier per request | crawl | limiter, fetch | robots.txt groups, limits, redirects, saturation, deadlines |
| Bulk emails `internal/cli/emails_bulk.go` | channels, saved sites | run, interrupt, resume | email finder, store | unbuffered channels, failing saves |
| Endpoint discovery `pkg/discovery` | none | analyse a capture | | sequential string work |
| Store `internal/store`, API `internal/api`, CLI `internal/cli` | tables | queries, requests, commands | all | |

What makes each correct:

* **Batch queue** -- a URL reported `done` has its record on disk, at the contentRef reported, which no other URL
  shares (a crash between rename and completion, and the retry after it, may leave an older record besides, which
  nothing refers to); nothing is lost, done twice or reopened; `--until-empty` leaves only when all is finished; a shutdown ends.
* **Limiter** -- bounded, first come first served, leaks neither slot nor ticket, every call returns.
* **Identities** -- never two Chromes on a directory, never a browser closed under a render, none forgotten.
* **Waterfall** -- a clearance that was refused is not offered again, memory and table agree, loaders are tried in
  order and a page is not given up before the last, a full browser defers a batch job and does not fail it.
* **Client** -- an identity is retired only for what was blocked under it, is saved before it is deleted, and its
  deletion is never lost; one good node is enough; an open login session can be closed.
* **Sessions** -- one user of a profile at a time, every session gives its profile back.
* **Crawls** -- polite and within every limit, no URL twice; of the links that are read of a page none is missing
  from a report that is not limited, and each page that was to be fetched was unless the report is limited, full or warns.
* **Bulk emails** -- an interrupted run resumes with exactly the unsaved sites and never blocks.

## 2. The modules

| Module | Models |
|---|---|
| `UrlLifecycle` | abstract: what the batch queue promises of a URL |
| `BatchQueue`, `BatchWriter` | the job table (`jobs.go`, `import.go`); the page files (`writer.go`) |
| `Batch` | composes both: processes, workers, host gate, hand-over, rescuer, commands; implements `UrlLifecycle` |
| `Semaphore` | abstract: a first-come first-served semaphore with a bounded queue |
| `Limiter` | `fetch.Limiter`, one statement on shared state per action; implements `Semaphore` |
| `IdentityPool` | `Identities` with the renders' leases, Chromes, rotation and SIGTERM |
| `ServiceLimiter`, `Profiles` | the browser service's limiter; profile locks, renders in a profile, CDP sessions, SIGTERM; implements `Semaphore` |
| `SiteTable` | abstract: each site gets its row once, from a whole crawl |
| `BulkEmails` | `emails --input`: feeder, workers, collector, signals, repeated runs; implements `SiteTable` |
| `Classify` | how a fetched page is judged: pure operators on what a verdict depends on |
| `HostMemory`, `Waterfall` | learned routes and clearances in memory and in their tables; the requests that go through the loaders, expiry, restart |
| `BrowserClient`, `ChallengeSolver` | nodes, identities, retirements and login sessions; the calls with their tasks and second renders |
| `Pages`, `SiteMap`, `EmailSearch` | the URLs of a site; one map and one email search over them |
| `BatchProofs`, `SharingProofs` (limiter, identities), `ProfileProofs`, `WaterfallProofs`, `ClientProofs`, `EmailProofs` (bulk emails, search), `SiteMapProofs` | the theorems |
| `FoldRule` | what a loop over a sequence keeps: the lemmas the last two rest on |
| `MCBatch`, `MCLimiter`, `MCIdentityPool`, `MCProfiles`, `MCBulkEmails`, `MCWaterfall`, `MCBrowserClient`, `MCSites` | instances for TLC; `MCPages`, `MCMaps` and `MCEmails` hold the sites of the last |

Who composes whom: `Batch` composes the job table with the Writer and the workers of several processes;
`IdentityPool` and `Profiles` each compose Chromes, renders and SIGTERM; `Waterfall` composes requests of one process over
one `HostMemory`; `ChallengeSolver` composes the callers with the client they share. Between these groups a
component is seen as the outcomes it can have: a job's fetch in `Batch` answers what `Waterfall` shows a request to
return, a loader in `Waterfall` answers what a call of `BrowserClient` ends with (`Errors`), a render of
`BrowserClient` what the service answers. An operator named `Operator_Word` is `Operator` with one plausible bug; no
specification uses it, it is there to show that a property notices.

### Batch

A job's value in `job` is its River state (`available`, `scheduled` and `pending` are one value, as in
`StateOf`); `output` is the contentRef in its metadata. A worker's `pc` follows one call of `Work`:
`Work` (fetch and host gate), `Loaded`/`PutBack` (the page's outcome), `Add` and its other cases (the Writer's
channel), `Tick` and `Answer` (a file is finished and its workers answered), `HandOff` (one transaction),
`Release` (the deferred gate release) and `Complete` (what River writes afterwards). A page's content is left
out: a record is the job it is of, a contentRef is process, file number and line. `proc` follows `Run` and
`wait`; `Crash` loses the workers and the open `.part` file.

River is external. Taken of it: a unique insert skips a job that exists in any state; a job is fetched by one
worker; completion and `JobCompleteTx` change a row only while it is `running`; `RecordOutput` is merged into
the metadata when the job is completed; `JobRetry` makes a job available in any state but running; the rescuer
discards a job that has run longer than `--lease`, because its one attempt is used. A job row has no attempt
token in the model, as River's update has no such condition.

### Limiter

`Run`'s first `select`, the counter's `Add(1)` with its comparison, the `Add(-1)` of a refusal, the second
`select`, `release` and the deferred `Add(-1)` are one action each, so that calls interleave between them. The
channel is the number of values in it and the queue of blocked senders; Go gives the place of a received value
to the longest blocked sender in the same step.

### IdentityPool

Code between two `await`s is one action. `chain[k]` is the promise chain in `#profiles` for the directory of
key k: who occupies it and who waits; `browser[k]` is what its first does. `AcquireWarm`, `AcquireCold` and
`AcquireNew` are `acquire` and the first turn of `#attach`; `Begin` is the end of `await previous`; `LaunchDone`
resumes every waiting render, as the resolved promise does before any other task; `Finish` is the end of a
render, after `retire` if its page did not close; `CloseDone` the end of `#close`. Assumed: a failed launch
leaves no Chrome; a Chrome that does not close within 15 s is killed (`SingletonLock`); `server.stop()` waits for the
requests in flight. Left out: which idle identity is the least recently used (any may be evicted), a second
proxy for a key (answered 409, changes nothing), headers, persona and views.

### Profiles

Code between two `await`s is one action here too, and JavaScript's one thread makes it atomic. `turns[p]` is the
chain of promises of `withRender` (its first has the turn), `held` the set of `holdForSession`. A render in a
profile takes its turn first and a slot of the limiter second (`RequestProfile`, `Turn`), launches, uses and closes
its own Chrome, and gives slot and turn back in one step (`Ended`), as both `finally` blocks do. A render without a
profile only takes and gives back a slot: what it does with an identity is `IdentityPool`. A session's `saving`
says that `#shutdown` waits for `saveCookies`; the close event (`SessionChromeExits`) may release it meanwhile, and
then `Save` finds nothing to release. `closing` holds the sessions somebody waits for in `close()`: a DELETE, or
`closeAll`; a session that expires is waited for by nobody.

Abstractions: `restoreCookies`, the page and `saveCookies` of a render are the one step `UseProfile`, which may end
early for any reason, an abort or Chrome's exit among them; a profile exists; removing a directory succeeds.
Assumed: launches and closes end (patchright's timeouts), `server.stop()` waits for the requests in flight (it may
take longer, say for an open CDP socket: `CloseAll` may come at any later time).

### BulkEmails

`Feed` and `Deliver` are rendezvous on the unbuffered channels `jobs` and `results`; `Crawl` is one call of `Find`,
whose result is `cut` when the run's context ended before its last look at it (`service.go:70`). The collector's
loop has a step for the check of `ctx.Err()` and one for the save, between which SIGINT may come. A save is one
transaction; one that fails may have committed. `Crash` is a kill, also by a second signal after `stop()` has
restored its default. One command runs at a time; rows that an operator deletes are left out.

### Waterfall

A request has a kind: `extract` and `http`/`browser` are `Extract` and the two batch stages, `auto`, `never`, `always`
and `profile` are the email loader's render modes, `invalid` one that `Load` refuses. `pc` is the loader it is at;
between two fetches everything is one action, except the two writes of a host's clearance: memory first (`Replay`,
`Learn`), the row later (`ForgetRow`, `SaveRow`), with no lock in between. `attempts` is what `RunState` records.
A route or clearance is named by the request that recorded it, which is exact because a request records each at
most once. `Expire` lets the time to live of what a request recorded pass; `Restart` loses the requests under way and
restores both maps from their tables. What a loader may answer is given per loader: documents
(`Pages`), one of each verdict of `Classify` a stage tells apart, and errors. Once a request's context has ended every
further fetch ends at once (`Answers`). Two history variables serve the properties: `refuted`, and `spoiled`, the hosts
of which a row write failed, was cut off or met another.

### BrowserClient and ChallengeSolver

A render is `Start` (key of the host's slot, first healthy node), `Enter` (a slot of that node), and one end:
`Answer`, `ServiceError`, `Unreached` (the node is put out of service; once, the next node is tried) or
`DeadlinePasses`. `Answer` includes `Identities.observe`, whose mutex is held while a rotation is saved: other
renders of that slot wait (`Unlocked`). `SaveGeneration` writes the row, which may fail, and starts a retire
goroutine with every pending retirement; `Deletes` is one DELETE of it. `reachable` are nodes that never fail to
answer; any other node may or may not. `known` is the node of the login session in `Client.sessions`, `open` the one
that has it in fact. `ChallengeSolver` adds the calls: which pages get a task (`Solvable`), the task's steps, the
second render with the cookie, and `CapSolver.Fetch`, which renders nothing. Proxies are the
generations they stand for; cookies and form values are left out.

### SiteMap and EmailSearch

A site is a constant: what robots.txt, sitemaps and pages hold, over URLs of which `Of` gives what the code reads.
`SiteMap` follows `Service.Map`: robots.txt, sitemap batches, then levels; one action per batch, in which each load
may succeed, fail, find the limiter saturated or be cut off, and the results are consumed in order, as in
`crawl.go`. The counters the loads of a batch share (renders, explores, scripts) are taken in any order. Robots
groups, shapes, templates, near-duplicates and normalisation are functions. `EmailSearch` does the same for `Service.Find`:
`take` with its limits, `consume`, the outcome. The deadline or a cancellation may come between any two batches; a load
that it cuts off is one that fails just before. `MCSites` runs one map or one search at a time: a process serves many of
both, but they share nothing that these modules describe, so a second one would only multiply the states.

## 3. The runs

| Run | Question | Result |
|---|---|---|
| `batch` | two processes, a retry, a crash, interrupts, failing disks: is what is reported stored, do waiting pages keep their records, are totals right, does `--until-empty` wait, is the life cycle kept? | holds |
| `batch_live` | does a shutdown end, is every URL finished, with a contended host gate? | holds |
| `batch_overrun` | the same totals when `--lease` is shorter than a hand-over may take | violated, see 5 |
| `limiter` | leaks, order, bound, termination | holds |
| `identity_pool` | directories, uses, stray browsers, with rotation and SIGTERM; does every waiting render get a browser or an error, does the service exit? | holds |
| `profiles` | one user per profile, logins saved before the close, slots and turns given back, sessions and service end | holds |
| `profiles_directories` | is every anonymous session's directory removed when the service has exited? | violated, see 5 |
| `bulk_emails` | is every site saved once and whole over two runs, and does every run end? | holds |
| `waterfall` | does what one request unlearns about a host hold for the others and after a restart, do both copies agree, are loaders tried in order, does a full browser defer, does every request return? | holds |
| `waterfall_written` | are clearances written through when no write fails? | violated, see 5 |
| `browser_client` | are rotations earned, saved and applied, is one good node enough, is a session's node known, do calls and retire goroutines end? | holds |
| `sites` | is a crawl polite, are the links it reads of a page listed and followed unless a limit accounts for it, are templates tight, do searches keep their limits and say when they were cut, does every run end? | holds |

Every module of a component has a type invariant that says what its variables hold (`TypeOK`, `LimiterTypeOK`,
`MapTypeOK`, ...), and each is proved (section 4). No run lists it; TLC finds it, and the inductive invariants of the proof
modules, to hold on the instances of the table when they are added to their configurations.

Bounds, and why they are enough:

* Batch: two URLs (a file of two records is filled, or finished by the ticker with one), one host, three
  workers in two processes, of which one has no browser stage; two starts, one crash, one `retry`. Each hazard
  needs at most two jobs and two workers: two records in one file, two workers after one job, a job of one
  process and a query of another. URLs are symmetric. The liveness run has one process and no symmetry, with a
  gate of one place, so that the gate is contended.
* Limiter: five calls, two slots, two tickets: slots and tickets full, one more refused, one more giving up.
* IdentityPool: two keys and room for one, so each evicts the other; three renders (one aborts while one waits
  and one uses); `MaxMade = 2` identities per key, so that a key is made, evicted or rotated, and made again.
  The keys are not symmetric there, since the run checks liveness.
* Profiles: three renders, one slot, one place in the queue: one works, one is queued or has its turn, one is
  refused, aborted or in line; two sessions, so that one may ask for what the other, or a render, still holds.
* BulkEmails: more sites (three) than workers (two), so that one waits in the feeder while others are crawled,
  sent and saved; two runs, the second after each way the first can end.
* Waterfall: three requests, since a hazard of the memory needs one that learns, one that refutes and one that begins
  in between; two hosts, one protected; one restart and one failed row write. `MCPlans` are five starting plans
  in which each kind occurs, with the others it can disturb: all combinations of kinds would only repeat them.
* BrowserClient: two callers (an answer of the old generation arrives after the rotation of the other's), two
  nodes with one slot each, two hosts of one identity slot, room for one pending retirement, so that the second
  overflows it. The five workloads each bound calls, pages, sessions, restarts and failed saves for one group of
  hazards; what they do not mix shares no state but the nodes.
* Sites: twenty URLs; every robots.txt of two or three lines over five kinds of line, every set of eight links of a
  start page of which six are read, and thirteen larger maps and eight searches that each reach a limit, a redirect, a
  loop or a level. Each exception `LinksAreAccountedFor` makes is met: a page with links beyond the bound, reports that are
  limited, exactly full with a level unread, and cut by the page limit. The code's
  limits (200 pages, 5000 links, ...) become small constants, so that each is reached.

Deadlock is not checked where the system may stop: an imported queue that is finished, a service that has exited,
requests that have returned. `sites` and `limiter` say themselves when they are over.

Fairness. In `Batch` goroutines that can run do (weak fairness of every step of a worker and of a process that
stops); a page load answers because of `--page-timeout`; strong fairness says that the browsers are not full
for ever and that River's job timeout does not hit every single attempt to hand a page to the Writer. Nobody
need start, cancel, crash or retry. In `Limiter` a call that can go on does and its work ends, since each
caller has a deadline; no caller need give up. In `IdentityPool` launches, closes and renders end because of
their timers (30 s, 15 s + 5 s, the render's deadline + 15 s + 10 s). In `Profiles` every step of a render that has
its turn and of a session is fair, expiry among them, for the same reasons and because of `ttl_seconds`. In
`BulkEmails` goroutines that can run do, crawls end because of `--max-duration`; no signal and no failure need come.
In `Waterfall` the steps of a request that has begun are fair: each fetch and row write has a timeout or the request's
context; nothing need begin, expire or restart. In `BrowserClient` the steps of a call are fair, its deadline among them
(the request's, or 45 s from `renderTimeout`), and so are those of retire goroutines, which have 10 s; no node need
recover. In `SiteMap` and `EmailSearch` the run's goroutine is scheduled and every load ends, at the latest by its
timeout; the deadline need not come. A Chrome need not exit, a client need not leave, and SIGTERM need not come.

## 4. The proofs

* `TypeCorrect` (`BatchProofs`): `TypeOK` of `Batch`, together with `IdleHasNoJob`, for all constants. The type invariants
  of the other components are proved as well: with other invariants in `CountsStayExact`, `BulkInvariant` and
  `MapStaysSound`, on their own in `PoolIsTyped`, `ServiceStaysWithinLimits`, `OneEntryPerHost`, `NodesAreNotOverrun` and `SearchIsTyped`.
  Where a type says more than a shape they are about limits: no node has more renders than slots, the backlog of
  retirements stays within its bound, and no more renders run or sessions are open than the service allows.
* `DoneStaysStored` (`BatchProofs`): `DoneIsStored` for a `Careful` operator. The invariant is not
  inductive: completing a job writes what its verdict says, which was decided when a file was renamed, whose
  name must then be new. `CarefulInv` adds: one worker per job (a second one could complete it with another
  verdict), `VerdictsAreTrue` (a verdict `completed` already has its record), `RecordsAreOfWaiters` (the
  records of the open file are of the jobs of the workers that wait), `FileNumbersAreNew` (a rename hides no earlier
  record), `ListedCanBeRetried` (`retry` does not reopen a completed job), `BrowserAfterHttp` and
  `WorkersFollowWork`. Each step of `Next` has a lemma.
* `BatchImplementsLifecycle` (`BatchProofs`): every step, seen through `UrlStatus` and `StoredUrls`,
  is a step of `UrlLifecycle` or a stutter, from the same invariant. `DoneIsForGood` draws the conclusion: a URL once done
  stays done and has its record, and a record once in a renamed file stays there.
* `WaitersStayInTheFile` (`BatchProofs`): for every operator, careful or not. `WritersInv` says that
  each waiting worker has one record in the open file and nobody else has any (so `finish` answers each once, and a
  rejected worker leaves none behind), that a file that is not open is empty, that a process which is down has idle
  workers, and that only an exited one has a closed Writer.
* `TotalsAddUp`, `EmptiedIsFinished` (`BatchProofs`): for a careful operator, from `CarefulInv`. Both need that a URL's
  state, which the code reads job by job, is that of the stage it is in (`StatusByStage`, `FinalByJob`): the totals are
  then cardinalities of disjoint sets of URLs, and a table without busy jobs has only final ones.
* `CountsStayExact`, `LimiterImplementsSemaphore` (`SharingProofs`): for any number of calls, slots and tickets.
  `LimiterInv` adds to the counts that the queue holds exactly the queued calls, once each, and that who is blocked or
  leaves has one of at most `MaxWaiting` tickets, which bounds the queue of the semaphore. What the semaphore promises
  carries over: `LimiterIsFair`, and for the browser service `ServiceIsFair`, say that while calls wait only the one that
  has waited longest gets a slot.
* `DirectoriesAreSafe`, `ClosedOnlyUnused`, `NoBrowserIsLost` (`SharingProofs`): for any number of keys, renders and
  identities. The three are not inductive: that a new Chrome is not of a wiped identity depends on everything
  queued on the directory. `PoolInv` adds `ChainsAreOrdered` (the identities' numbers in a chain only grow, grow
  strictly after a rotation, and exceed the last wiped one), `FirstsAreSound` (what the chain's first does, and that an
  open browser that is not retired is the key's current one), `LeasesAreCurrent` (a render that holds an identity holds
  its key's, and its browser is open), `UsersAreCounted` (the two counters are the numbers of renders they stand
  for) and `ExitedIsEmpty`. `IdentitiesInUseStay` follows from the counters: an identity that renders use keeps its key.
* `LocksStayExact`, `ChromeStaysOwned`, `ServiceImplementsSemaphore` (`ProfileProofs`): for any number of renders,
  sessions, profiles and slots. The first and the third rest on one idea, `LineIs`: a sequence holds exactly the
  renders of a set, once each. It says so of the limiter's queue and the queued renders, and of each profile's line
  and the renders that name the profile; joining, moving up and leaving from the middle keep it. `ProfilesInv` adds
  that only the first in a profile's line has begun (so the `finally` of a render takes its own turn off, and nobody
  else's), that the limiter's count is that of the running renders and nobody waits beside a free slot, that a
  profile is held by at most one session and then has no line, and that a session saves cookies only of a profile.
* `OneHand`, `CutIsNeverSaved`, `SuccessMeansSaved`, `BulkImplementsSiteTable` (`EmailProofs`): for any number
  of sites, workers and runs. `BulkInv` adds that a cut result exists only after the interrupt and never while
  saving (`CutIsDropped`), and that until an interrupt or a failed save every site is to be sent, carried or saved
  (`NothingIsLost`), from which the workers' end gives the success report. `RowsStay` is what the table promises, carried
  over by the refinement: a row, once there, is what every later run finds.
* `RefutedIsForgotten`, `BothCopiesAgree` (`WaterfallProofs`): for any number of requests, hosts, restarts and failed
  writes. `MemoryInv` says of each host that is not `spoiled`: at most one request is writing its row; while it
  is, memory is already what the table will be; when none is, both agree. `LoadersAreInOrder` and `CapacityDefers`
  follow from `LoadInv`, which says for each position which loaders have been tried, and with which outcomes.
* `EveryRotationIsEarned`, `EveryRetiredIsPersisted`, `NoRetirementIsLost`, `OneNodeIsEnough`, `SessionsStayReachable`
  (`ClientProofs`): for any number of callers, nodes, hosts and identity slots. `ClientInv` adds that one render at a time saves a
  slot's generation (`SavingsAlone`), so that without a failed save its row lags only behind that one (`RowsFollow`);
  that a count stands for a blocked page of the current generation (`CountsAreRefusals`), and a save for two
  (`SavingsAreEarned`); and that a render on its second try has left a node that failed (`SecondTries`), while nodes are
  out of service only because they did (`NodeShape`).

* `SearchKeepsItsLimits`, `OkIsComplete` (`EmailProofs`): for any site, request and sizes. `SearchInv` relates the loads so
  far to the search (`LoadsAreCounted`: the counters are the numbers of loads) and says that a search that was not cut
  short has every candidate it was offered either visited or queued (`Sound`, `offered`), so that an empty queue means
  all were visited.
* `MapStaysPolite`, `LinksStayAccountedFor`, `TemplatesStayTight` and the invariant behind them, `MapStaysSound`
  (`SiteMapProofs`): for any site, request and sizes. `MapInv` speaks of one line of pages, those tried, the rest
  of the level and those collected for the next (`tried \o run.level \o run.next`): consuming a page appends to the line,
  fetching a batch moves its front across, and only a cut-off drops any of it. The line never repeats a page, holds
  nothing robots.txt forbids and no more of a shape than is sampled (`LineIsPolite`), and unless something was cut off
  holds all that was queued (`LineIsWhole`); every page read has its links queued or a reason why not (`PageIsFollowed`). Its
  links are listed whatever was cut off (`PageIsListed`): only `limited` excuses a missing one, since `add` sets it when it
  refuses a URL. `OfferedIsRead` relates the two ways of saying which links are read, by their position on the page and as
  the code cuts them. `Disallowed` and
  `TemplatesAreTight` say in terms of the lines of robots.txt, and of the URLs found, what the code computes in loops;
  `BlocksIsDisallowed` and `TemplatesTight` prove that the loops compute it, for any robots.txt and any set of URLs.
* `EveryRequestGoesForward` (`WaterfallProofs`), `EveryCallGoesForward` (`ClientProofs`), `SearchIsShort` (`EmailProofs`),
  `EveryMapGoesForward` (`SiteMapProofs`): what can be proved of the end of a request, a call, a search or a map without
  fairness. Each of its own steps takes it nearer to its end, nobody else's takes it back, and a bound on the steps
  follows: six for a request of the waterfall, eighteen for a call of the client (two nodes and two loads at most, a
  challenge in between), for a search as many batches as it may read pages and sitemaps, however these refer to each
  other. A map comes with each step to a later stage, to fewer sitemaps or pages of the level that may still be fetched,
  or to one of the levels asked for. That the steps are taken is left to TLC.

Loops. `SiteMap` and `EmailSearch` are full of loops over sequences, written as `Fold`. What a loop computes calls for
induction, and the library's induction theorems take an operator as a parameter, which the provers cannot instantiate.
`FoldRule` goes around that: `<` on the naturals is well-founded, so every set of naturals has a least element
(`LeastNatural`), so a set that has 0 and successors has them all (`NatSetInduction`), and with the set of the lengths up
to which an invariant holds, `LoopKeeps` and `LoopKeepsAt` follow: what one round of a loop keeps, the loop keeps. A proof
instantiates `FoldRule` with the round it is about.

Assumptions: those named in the modules (`BatchAssumption`, `UrlsAssumption`, `FileRecordsAssumption`, `LimiterAssumption`,
`PoolAssumption`, `BulkAssumption`, `HostMemoryAssumption`, `WaterfallAssumption`, `BrowserClientAssumption`,
`ChallengeSolverAssumption`, `ServiceLimiterAssumption`, `ProfilesAssumption`, `PagesAssumption`, `SiteMapAssumption`,
`EmailSearchAssumption`), which TLC evaluates on its instances; and, in the Batch safety and refinement theorems, `Careful`: writing or handing over a page takes no
longer than `--lease`, and one `retry` runs at a time. Both are needed: `batch_overrun` shows what an overrun does,
and two `retry` commands can reopen a job that was completed in between.

Model-checked only: liveness (`ShutdownEnds`, `EveryUrlFinishes`, `EveryCallReturns`, `LeasesSettle`, `ServiceExits`,
`EverySessionEnds`, `EveryRunEnds`, `EveryRequestReturns`), since fairness and ENABLED are out of the prover's reach (for requests, calls,
searches and maps the half that needs no fairness is proved, see above), and the three violations of section 5. Every safety property and refinement that a passing run checks is also a theorem.
The theorems on maps and searches are about `MapSpec` and `SearchSpec`, the steps of which `MCSites` takes.

## 5. Where code and documents disagree

* `batch_overrun`: `withDefaults` accepts a `--lease` shorter than the 30 s a hand-over may take. The rescuer
  then discards a job whose hand-over commits, and the totals count its URL as failed while they take it off
  `done`. `progress_test.go:5` and `docs/batch.md:70` promise otherwise.
* `profiles_directories`: a session leaves the map before it is closed (`sessions.ts:128`), so a shutdown at that
  moment does not wait for it, and its temporary directory stays (`docs/browser-service.md:173`).
* `waterfall_written`: `Clearances.Record` and `Forget` release the lock between map and row (`clearances.go:72-95`), so
  the deletion of one request may reach the table after the newer row of another. Memory keeps a clearance that is
  gone after a restart, or loses one that a restart brings back, although no write failed
  (`docs/browser-service.md:233`: "written through to Postgres").

Smaller ones, visible in the modules but without a run:

* A call that had to wait keeps its ticket while it works (`limit.go:45`), so requests are refused although fewer
  than `PAGELODE_MAX_WAITING` wait (`docs/configuration.md:23`).
* The pool evicts one identity before it adds one, never when renders end (`pool.ts:266`); after a burst more
  than `BROWSER_SERVICE_MAX_IDENTITIES` browsers stay warm (`docs/browser-service.md:206`).
* Renders of one profile line up before they reach the limiter (`locks.ts:13`, `renderer.ts:65`), so any number may
  wait (`docs/browser-service.md:110`).
* `docs/map.md:19` says at most 200 pages are fetched: pages that failed or led out of the site are not counted. The
  start page and scripts are not checked against robots.txt, and `robotsSkipped` counts only links of expanded pages.
* A map that comes to exactly its `limit` stops and does not call itself limited: while it reads sitemaps it skips the
  crawl (`service.go:114`), and in a crawl it leaves the rest of the level unread (`crawl.go:86`), with `limited: false` and no
  warning, although the pages left may link to URLs that are not listed. `LinksAreAccountedFor` excepts the full report
  from what it says of the pages fetched, and not from what it says of the links listed.
* Page links stop silently after 5000 in a map (`urls.go:126`), where `docs/map.md:20` says that every discovered URL is
  listed: a link beyond them is in no report, and nothing says so. `LinksAreAccountedFor` is about the links up to there.
* Page links stop silently after 1000, repeats included, in an email search; a sitemap that fails
  to load leaves a search's outcome `ok` (`docs/emails.md:59` and `:67` say that limits warn).

## 6. Not modelled, and why

* **Page rendering** (`browser-service/src/render/`, `browser/`): what Chrome and web pages do decides what happens, and
  the service keeps no state of it. The models see of a render that it ends, fails, or leaves a page that does not close.
* **Endpoint discovery** (`pkg/discovery`): a sequential scoring of strings and JSON trees without state, concurrency or
  failure. A model of it would be its transliteration; its golden tests say more.
* **Text and HTML** (`extract.go`, `pkg/emails/extract.go`, parts of `http.go`, persona look-up): data of the models. A
  page has the links, addresses, signs and fingerprint it has.
* **HTTP surfaces, CLI, configuration, migrations, exports**: decoding, validation and formats around the modelled
  operations. The service's shutting-down flag is the variable `service`.
* **Two processes on one identity table**: each keeps its generations in memory and saves the last one it made
  (`identity.go:107`), which the docs do not rule out; only one process and its successors are modelled.
* **The CDP relay of sessions, and what cookies are saved**: they change no state of the service that a property is about.

Assumed of what is outside: a Chrome that is killed is gone 5 s later, when its directory is given up
(`pool.ts:260`); `context.close()` of a profile render returns (`renderer.ts:73` sets no bound of its own); River keeps
the promises named under Batch; a commit that reports success is durable.
