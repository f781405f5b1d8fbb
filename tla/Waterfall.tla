------------------------------- MODULE Waterfall ------------------------------
(***************************************************************************)
(* Requests that load pages through the waterfall of                       *)
(* pkg/fetch/orchestrator.go: replay of a clearance, plain HTTP, browser,  *)
(* challenge solver.  "extract" is Extract, "http" and "browser" are the   *)
(* batch stages ExtractHTTP and ExtractBrowser, and "auto", "never",       *)
(* "always" and "profile" are the render options of the email loader       *)
(* (pkg/emails/loader.go), which shares the loaders and the routes.        *)
(* Requests of one host share its route and its clearance; a fetch is one  *)
(* step that chooses an answer, and another request may run before each.   *)
(* The application always has a browser client (internal/cli/cli.go:132),  *)
(* so the checks for a missing one are left out.                           *)
(***************************************************************************)
EXTENDS HostMemory, Classify, Sequences

CONSTANTS Plans,          \* the [Requests -> [kind, host]] the run starts from
          Pages,          \* Pages[p]: the documents provider p may answer with
          Errors,         \* Errors[p]: how its fetch may fail
          HasCapSolver,   \* a CapSolver key and proxy are configured
          MaxRestarts, MaxFailedWrites

Providers == {"replay", "tls", "patchright", "capsolver"}
Capacity  == {"saturated", "unavailable"}   \* only a browser node is ever full

ASSUME WaterfallAssumption ==
  /\ \A p \in Providers :
       Errors[p] \subseteq {"ended", "transport"} \cup (IF p = "patchright" THEN Capacity ELSE {})
  /\ Plans \subseteq [Requests -> [kind : Kinds, host : Hosts]]
  /\ HasCapSolver \in BOOLEAN
  /\ MaxRestarts \in Nat /\ MaxFailedWrites \in Nat

VARIABLES
  pc, held,    \* where a request is, and the clearance it replays ({} or one)
  attempts,    \* attempts[r]: the fetches it made, as [provider, outcome]
  result,      \* the outcome it returned
  restarts, failed,       \* restarts and failed row writes so far
  refuted,     \* history: clearances forgotten because their replay failed
  spoiled      \* history: hosts with a clearance row write that failed or met
               \* another one of the host, in this process

vars == <<plan, memoryVars, expired, pc, held, attempts, result, restarts,
          failed, refuted, spoiled>>

Loads == {"auto", "never", "always", "profile"}
Order == <<"replay", "tls", "patchright", "capsolver">>
Kind(r) == plan[r].kind
Made(r) == {attempts[r][i].provider : i \in DOMAIN attempts[r]}
Outcomes(r) == {attempts[r][i].outcome : i \in DOMAIN attempts[r]}

Init ==
  /\ plan \in Plans
  /\ clearances = {} /\ clearanceRows = {} /\ routes = {} /\ routeRows = {}
  /\ expired = {} /\ refuted = {} /\ spoiled = {} /\ restarts = 0 /\ failed = 0
  /\ pc = [r \in Requests |-> "new"]
  /\ held = [r \in Requests |-> {}]
  /\ attempts = [r \in Requests |-> <<>>]
  /\ result = [r \in Requests |-> "none"]

Goto(r, l) == pc' = [pc EXCEPT ![r] = l]
Return(r, outcome) == Goto(r, "done") /\ result' = [result EXCEPT ![r] = outcome]
Continue(r, l) == Goto(r, l) /\ UNCHANGED result

\* The answers a fetch may get: a document, or an error.  Once the context of
\* the request has ended, every fetch ends with that error.
Answers(r, p) ==
  IF "ended" \in Outcomes(r) THEN {[error |-> "ended"]}
  ELSE [error : {"none"}, doc : Pages[p]] \cup [error : Errors[p]]

Answered(a) == a.error = "none"
Tried(r, p, a) ==
  attempts' = [attempts EXCEPT ![r] = Append(@,
    [provider |-> p,
     outcome  |-> IF Answered(a) THEN AttemptOutcome(a.doc) ELSE a.error])]

Good(a) == Answered(a) /\ Resolves(a.doc)
Gone(a) == Answered(a) /\ Verdict(a.doc) = "dead"

\* Two writes of one host's clearance row are under way.
Writers(h) == {r \in OfHost(h) : pc[r] \in {"forget", "save"}}
WriteBegins(r) ==
  spoiled' = IF Writers(HostOf(r)) # {} THEN spoiled \cup {HostOf(r)} ELSE spoiled
WriteEnds_Alone(r, saved) ==
  Writers(HostOf(r)) = {r} /\ saved /\ UNCHANGED <<failed, spoiled>>
WriteEnds(r, saved) ==
  /\ saved \/ failed < MaxFailedWrites
  /\ failed' = IF saved THEN failed ELSE failed + 1
  /\ spoiled' = IF saved THEN spoiled ELSE spoiled \cup {HostOf(r)}
-----------------------------------------------------------------------------
\* newRunState and tryReplay's Clearances.Get; Load's first decisions.
Begin(r) ==
  /\ pc[r] = "new"
  /\ held' = [held EXCEPT ![r] = IF Kind(r) \in {"extract", "http"}
                                 THEN Live(clearances, HostOf(r)) ELSE {}]
  /\ clearances' = IF Kind(r) \in {"extract", "http"}
                   THEN Pruned(clearances, HostOf(r)) ELSE clearances
  /\ IF Kind(r) = "invalid" THEN Return(r, "invalid")
     ELSE Continue(r, IF held'[r] # {} THEN "replay"
                      ELSE IF Kind(r) \in {"browser", "always", "profile"}
                      THEN "browser" ELSE "route")
  /\ UNCHANGED <<plan, clearanceRows, routes, routeRows, expired, attempts,
                 restarts, failed, refuted, spoiled>>

\* The replay answers.  Unless it gave a result or a dead page, the host's
\* clearance is forgotten, in memory first.
Replay(r) ==
  /\ pc[r] = "replay"
  /\ \E a \in Answers(r, "replay") :
       /\ Tried(r, "replay", a)
       /\ IF Good(a) \/ Gone(a)
          THEN /\ Return(r, IF Good(a) THEN "ok" ELSE "dead")
               /\ UNCHANGED <<clearances, refuted, spoiled>>
          ELSE /\ Continue(r, "forget")
               /\ clearances' = Without(clearances, HostOf(r))
               /\ refuted' = refuted \cup held[r]
               /\ WriteBegins(r)
  /\ UNCHANGED <<plan, clearanceRows, routes, routeRows, expired, held,
                 restarts, failed>>

\* Clearances.Forget, the row.
ForgetRow_KeepsRow(r) ==
  /\ pc[r] = "forget" /\ Continue(r, "route")
  /\ UNCHANGED <<plan, memoryVars, expired, held, attempts, restarts, failed, refuted, spoiled>>
ForgetRow(r) ==
  /\ pc[r] = "forget"
  /\ \E saved \in BOOLEAN :
       /\ WriteEnds(r, saved)
       /\ clearanceRows' = IF saved THEN Without(clearanceRows, HostOf(r))
                                    ELSE clearanceRows
  /\ Continue(r, "route")
  /\ UNCHANGED <<plan, clearances, routes, routeRows, expired, held, attempts,
                 restarts, refuted>>

\* The batch stage leaves the browser to another job; Extract goes on to it.
TowardsBrowser(r) ==
  IF Kind(r) = "http" THEN Return(r, "needs_browser") ELSE Continue(r, "browser")

\* httpStage after the replay, and the HTTP half of Load.
Skips(r) == Kind(r) # "never" /\ PrefersBrowser(HostOf(r))

SkipTls(r) ==
  /\ pc[r] = "route" /\ Skips(r)
  /\ routes' = AfterPreferred(HostOf(r))
  /\ TowardsBrowser(r)
  /\ UNCHANGED <<plan, clearances, clearanceRows, routeRows, expired, held,
                 attempts, restarts, failed, refuted, spoiled>>

AfterTls_FailsBlocked(r, a) ==
  IF Good(a) THEN Return(r, "ok")
  ELSE IF Answered(a) THEN Return(r, "failed") ELSE TowardsBrowser(r)
AfterTls(r, a) ==
  IF Good(a) THEN Return(r, "ok")
  ELSE IF Gone(a) THEN Return(r, "dead")
  ELSE IF Answered(a) /\ Verdict(a.doc) = "accept" /\ a.doc.type # "html"
       THEN Return(r, "failed")
  ELSE TowardsBrowser(r)

AfterLoad(r, a) ==
  IF a.error = "ended" THEN Return(r, "ended")
  ELSE IF Gone(a) THEN Return(r, "dead")
  ELSE \E contact \in BOOLEAN :
         IF Answered(a) /\ Usable(a.doc)
            /\ (Kind(r) = "never" \/ ~ NeedsBrowser(a.doc, contact))
         THEN Return(r, "ok")
         ELSE IF Kind(r) = "never" THEN Return(r, "failed")
         ELSE Continue(r, "browser")

Tls(r) ==
  /\ pc[r] = "route" /\ ~ Skips(r)
  /\ routes' = AfterPreferred(HostOf(r))
  /\ \E a \in Answers(r, "tls") :
       /\ Tried(r, "tls", a)
       /\ IF Kind(r) \in Loads THEN AfterLoad(r, a) ELSE AfterTls(r, a)
  /\ UNCHANGED <<plan, clearances, clearanceRows, routeRows, expired, held,
                 restarts, failed, refuted, spoiled>>

-----------------------------------------------------------------------------
\* tryPatchright.  A page that is a result is recorded: the route, then the
\* clearance if its session can be replayed, in memory before the table.
Learn(r, a) ==
  /\ \E saved \in BOOLEAN :
       /\ saved \/ failed < MaxFailedWrites
       /\ RecordRoute(r, saved)
       /\ failed' = IF saved THEN failed ELSE failed + 1
  /\ IF a.doc.replayable
     THEN clearances' = Upsert(clearances, r) /\ WriteBegins(r) /\ Continue(r, "save")
     ELSE Return(r, "ok") /\ UNCHANGED <<clearances, spoiled>>

NothingLearned == UNCHANGED <<clearances, routes, routeRows, failed, spoiled>>

\* A browser that is full or gone defers the batch stage; it does not fail it.
AfterBrowser_GoesOn(r, a) ==
  IF Good(a) THEN Learn(r, a)
  ELSE NothingLearned /\ IF Gone(a) THEN Return(r, "dead") ELSE Continue(r, "capsolver")
AfterBrowser(r, a) ==
  IF Good(a) THEN Learn(r, a)
  ELSE /\ NothingLearned
       /\ IF Gone(a) THEN Return(r, "dead")
          ELSE IF Kind(r) = "browser" /\ a.error \in Capacity
               THEN Return(r, "capacity")
          ELSE Continue(r, "capsolver")

\* Loader.render and what Load does with its answer.
AfterRender(r, a) ==
  IF Answered(a) /\ Usable(a.doc)
  THEN /\ Return(r, "ok")
       /\ UNCHANGED <<clearances, spoiled>>
       /\ \E saved \in BOOLEAN :
            IF Kind(r) = "profile" THEN UNCHANGED <<routes, routeRows, failed>>
            ELSE /\ saved \/ failed < MaxFailedWrites
                 /\ RecordRoute(r, saved)
                 /\ failed' = IF saved THEN failed ELSE failed + 1
  ELSE /\ NothingLearned
       /\ IF Kind(r) = "profile" THEN Return(r, "failed")
          ELSE IF a.error \in {"ended", "saturated"} THEN Return(r, a.error)
          ELSE Continue(r, "capsolver")

Browser(r) ==
  /\ pc[r] = "browser"
  /\ \E a \in Answers(r, "patchright") :
       /\ Tried(r, "patchright", a)
       /\ IF Kind(r) \in Loads THEN AfterRender(r, a) ELSE AfterBrowser(r, a)
  /\ UNCHANGED <<plan, clearanceRows, expired, held, restarts, refuted>>

\* Clearances.Record, the row; Extract and ExtractBrowser return.
SaveRow(r) ==
  /\ pc[r] = "save"
  /\ \E saved \in BOOLEAN :
       /\ WriteEnds(r, saved)
       /\ clearanceRows' = IF saved THEN Upsert(clearanceRows, r) ELSE clearanceRows
  /\ Return(r, "ok")
  /\ UNCHANGED <<plan, clearances, routes, routeRows, expired, held, attempts,
                 restarts, refuted>>

\* tryCapSolver, and the end of Load.
AfterCapSolver(r, a) ==
  IF Kind(r) \in Loads
  THEN Return(r, IF Answered(a) /\ Usable(a.doc) THEN "ok" ELSE "failed")
  ELSE Return(r, IF Good(a) THEN "ok" ELSE IF Gone(a) THEN "dead" ELSE "failed")

CapSolver(r) ==
  /\ pc[r] = "capsolver"
  /\ IF HasCapSolver
     THEN \E a \in Answers(r, "capsolver") :
            Tried(r, "capsolver", a) /\ AfterCapSolver(r, a)
     ELSE Return(r, "failed") /\ UNCHANGED attempts
  /\ NothingLearned
  /\ UNCHANGED <<plan, clearanceRows, expired, held, restarts, refuted>>
-----------------------------------------------------------------------------
\* The ttl of what r recorded passes.
Expire(r) ==
  /\ r \in (clearances \cup clearanceRows \cup routes \cup routeRows) \ expired
  /\ expired' = expired \cup {r}
  /\ UNCHANGED <<plan, memoryVars, pc, held, attempts, result, restarts, failed,
                 refuted, spoiled>>

\* The process stops and another one starts: requests under way are lost.  The
\* history forgets what a write that was cut off, overlapped or failed may
\* have left in the table.
Restart ==
  /\ restarts < MaxRestarts
  /\ restarts' = restarts + 1
  /\ pc' = [r \in Requests |-> IF pc[r] \in {"new", "done"} THEN pc[r] ELSE "lost"]
  /\ held' = [r \in Requests |-> {}]
  /\ RestoreClearances /\ RestoreRoutes
  /\ refuted' = {c \in refuted : HostOf(c) \notin spoiled /\ Writers(HostOf(c)) = {}}
  /\ spoiled' = {}
  /\ UNCHANGED <<plan, expired, attempts, result, failed>>

Step(r) ==
  \/ Replay(r) \/ ForgetRow(r) \/ SkipTls(r) \/ Tls(r)
  \/ Browser(r) \/ SaveRow(r) \/ CapSolver(r)

Next == Restart \/ \E r \in Requests : Begin(r) \/ Step(r) \/ Expire(r)

\* A request that has begun is run by a goroutine, and each of its fetches and
\* writes is bounded by a timeout or by its context.
Fairness == \A r \in Requests : WF_vars(Step(r))
Spec == Init /\ [][Next]_vars /\ Fairness
-----------------------------------------------------------------------------
Pcs == {"new", "replay", "forget", "route", "browser", "save", "capsolver",
        "done", "lost"}

\* Every variable has its type, and each map holds one entry per host.
TypeOK ==
  /\ plan \in [Requests -> [kind : Kinds, host : Hosts]]
  /\ \A map \in {clearances, clearanceRows, routes, routeRows} :
       /\ map \subseteq Requests
       /\ \A c, d \in map : HostOf(c) = HostOf(d) => c = d
  /\ expired \subseteq Requests /\ refuted \subseteq Requests
  /\ spoiled \subseteq Hosts
  /\ pc \in [Requests -> Pcs] /\ held \in [Requests -> SUBSET Requests]
  /\ DOMAIN attempts = Requests /\ DOMAIN result = Requests
  /\ restarts \in 0..MaxRestarts /\ failed \in 0..MaxFailedWrites

\* A clearance whose replay was refused is never offered again: not to a
\* request that began meanwhile, and not after a restart, unless the deletion
\* of its row failed, was cut off or overlapped another write of that host
\* (orchestrator.go:139, clearances.go:75-95).
RefutedStaysForgotten == clearances \cap refuted = {}

\* The two copies of a host's clearance agree whenever none of its rows is
\* being written, unless a write failed or two of them overlapped: the lock is
\* released between a map and its row (clearances.go:72-79, :86-93).
CopiesAgree ==
  \A h \in Hosts : h \notin spoiled /\ Writers(h) = {} =>
    Live(clearances, h) = Live(clearanceRows, h)

\* The waterfall goes through its loaders in order, each at most once, and
\* gives a page up only when it was found dead or not to be a page, or when
\* every loader there is has failed on it (orchestrator.go:93-180).
Position(p) == CHOOSE i \in 1..4 : Order[i] = p
LoadersInOrder ==
  \A r \in Requests :
    /\ \A i, j \in DOMAIN attempts[r] : i < j =>
         Position(attempts[r][i].provider) < Position(attempts[r][j].provider)
    /\ result[r] = "failed" /\ Kind(r) \in {"extract", "browser"} =>
         \/ attempts[r] # <<>> /\ attempts[r][Len(attempts[r])] = [provider |-> "tls", outcome |-> "ok"]
         \/ /\ "patchright" \in Made(r)
            /\ HasCapSolver => "capsolver" \in Made(r)
            /\ "dead" \notin Outcomes(r)

\* A browser that is full or gone costs the batch stage nothing: it comes back
\* with the capacity error, the challenge solver is not paid, and no other
\* kind of request sees that result (orchestrator.go:148-152, :189).
CapacityIsDeferred ==
  \A r \in Requests :
    LET refused == Kind(r) = "browser" /\ Outcomes(r) \cap Capacity # {}
    IN  /\ refused => Made(r) = {"patchright"} /\ pc[r] \in {"done", "lost"}
        /\ refused \/ result[r] # "capacity"

\* Every request that has begun returns, unless the process stops.
EveryRequestReturns ==
  \A r \in Requests : pc[r] # "new" ~> pc[r] \in {"done", "lost"}

\* Documented (docs/browser-service.md:233): clearances are written through to
\* Postgres, so they survive restarts.  With no write failed and none under way,
\* a host that has a clearance in memory has one in the table.
WrittenThrough ==
  \A h \in Hosts :
    failed = 0 /\ Writers(h) = {} /\ Live(clearances, h) # {} =>
      Without(clearanceRows, h) # clearanceRows
=============================================================================
