---------------------------- MODULE ChallengeSolver ----------------------------
(***************************************************************************)
(* What callers make of rendered pages: Solver.render (pkg/browser/        *)
(* solver.go) solves a Google or DataDome challenge through the CapSolver  *)
(* API (capsolver_api.go) and renders once more with the cookie it earned; *)
(* CapSolver.Fetch (capsolver.go) fetches a Cloudflare page over HTTP, has *)
(* it solved and fetches it again.  A call is of one of these kinds:       *)
(*   "fetch" a page for extraction      "profile" one with a saved profile *)
(*   "explore" the site map's client,   "cloudflare" CapSolver.Fetch       *)
(*             which has no solver                                         *)
(***************************************************************************)
EXTENDS BrowserClient

CONSTANT HasSolver     \* CAPSOLVER_API_KEY is set

ASSUME ChallengeSolverAssumption == HasSolver \in BOOLEAN

VARIABLES loads,   \* renders this call has started
          calls    \* calls made so far

vars == <<reachable, down, identityVars, retireVars, sessionVars, callVars,
          boundVars, loads, calls>>

SolverInit == Init /\ loads = [r \in Callers |-> 0] /\ calls = 0

Elsewhere == UNCHANGED <<reachable, down, identityVars, retireVars, sessionVars,
                         boundVars, calls>>
Move(r, l) == Goto(r, l) /\ UNCHANGED <<host, kind, key, at, tries, page, loads>>
Finish(r)  == Return(r) /\ loads' = [loads EXCEPT ![r] = 0]

Call(r) ==
  /\ pc[r] = "idle" /\ calls < workload.calls /\ calls' = calls + 1
  /\ \E k \in workload.kinds, h \in workload.hosts :
       /\ kind' = [kind EXCEPT ![r] = k] /\ host' = [host EXCEPT ![r] = h]
       /\ Goto(r, IF k = "cloudflare" THEN "bootstrap" ELSE "start")
       /\ loads' = [loads EXCEPT ![r] = IF k = "cloudflare" THEN 0 ELSE 1]
  /\ UNCHANGED <<reachable, down, identityVars, retireVars, sessionVars, boundVars,
                 key, at, tries, page>>

\* Solver.solve: which pages are worth a task.  A "refused" page stands for the
\* facts it leaves alone: t=bv, no site key, no proxy, any other vendor.
Solvable(r) ==
  /\ HasSolver /\ kind[r] \in {"fetch", "profile"} /\ loads[r] = 1
  /\ page[r] \in {"recaptcha", "datadome"}

Settle(r) ==
  /\ pc[r] = "page"
  /\ IF Solvable(r) THEN Move(r, "create") ELSE Finish(r)
  /\ Elsewhere

\* CapSolver.Fetch, the challenge page.
Bootstrap(r) ==
  /\ pc[r] = "bootstrap"
  /\ Move(r, "create") \/ Finish(r)
  /\ Elsewhere

\* CapSolverAPI.solve: createTask, and the polls until an answer is ready.  A
\* poll that finds the task processing changes nothing.
CreateTask(r) ==
  /\ pc[r] = "create"
  /\ Move(r, "poll") \/ Finish(r)
  /\ Elsewhere

\* load(session) again, with the cookie merged into the session.
Reload_Again(r) == Move(r, "start")
Reload(r) ==
  /\ Goto(r, "start") /\ loads' = [loads EXCEPT ![r] = @ + 1]
  /\ UNCHANGED <<host, kind, key, at, tries, page>>

Ready(r) ==
  /\ pc[r] = "poll"
  /\ \/ Finish(r)
     \/ kind[r] = "cloudflare" /\ Move(r, "handoff")
     \/ kind[r] # "cloudflare" /\ page[r] = "recaptcha" /\ Move(r, "submit")
     \/ kind[r] # "cloudflare" /\ page[r] = "datadome" /\ Reload(r)
  /\ Elsewhere

\* solveGoogle: the form is submitted; without the exemption cookie it fails.
Submit(r) ==
  /\ pc[r] = "submit"
  /\ Reload(r) \/ Finish(r)
  /\ Elsewhere

\* CapSolver.Fetch, the solved page.
Handoff(r) ==
  /\ pc[r] = "handoff"
  /\ Finish(r)
  /\ Elsewhere

Render(r) ==
  /\ \/ Start(r) \/ Enter(r) \/ Unreached(r) \/ DeadlinePasses(r)
     \/ ServiceError(r) \/ Answer(r) \/ SaveGeneration(r)
  /\ UNCHANGED <<loads, calls>>

Step(r) ==
  \/ Render(r) \/ Settle(r) \/ Bootstrap(r) \/ CreateTask(r) \/ Ready(r)
  \/ Submit(r) \/ Handoff(r)

RetireStep == Retire /\ UNCHANGED <<loads, calls>>
Outside ==
  /\ \/ CreateSession \/ CloseSession \/ ExpireSession
     \/ Restart \/ \E n \in Nodes : Recover(n)
  /\ UNCHANGED <<loads, calls>>

Next == Outside \/ RetireStep \/ \E r \in Callers : Call(r) \/ Step(r)

\* A call has a deadline (the request's, or 45 s in renderTimeout), its HTTP
\* calls have timeouts, and a retire goroutine has 10 s.
Fairness == WF_vars(RetireStep) /\ \A r \in Callers : WF_vars(Step(r))
Spec == SolverInit /\ [][Next]_vars /\ Fairness
-----------------------------------------------------------------------------
Pcs == {"idle", "start", "wait", "on", "saving", "page", "create", "poll",
        "submit", "bootstrap", "handoff"}
Retirements == [slot : IdentitySlots, generation : Nat, node : Nodes]

\* Every variable has its type, a node runs at most NodeSlots renders, and no
\* more than MaxPending retirements wait.
TypeOK ==
  /\ reachable \subseteq Nodes /\ down \subseteq Nodes
  /\ generation \in [IdentitySlots -> Nat] /\ row \in [IdentitySlots -> Nat]
  /\ blocks \in [Hosts -> Nat]
  /\ pc \in [Callers -> Pcs] /\ host \in [Callers -> Hosts \cup {"none"}]
  /\ DOMAIN kind = Callers
  /\ key \in [Callers -> Nat] /\ at \in [Callers -> Nodes]
  /\ tries \in [Callers -> 0..2]
  /\ pending \in Seq(Retirements) /\ Len(pending) <= MaxPending
  /\ retired \subseteq Retirements /\ settled \subseteq Retirements
  /\ known \in Nodes \cup {NoNode} /\ open \in Nodes \cup {NoNode}
  /\ \A n \in Nodes : Cardinality(Holders(n)) <= NodeSlots

\* An identity is retired only after one of its slot's hosts blocked two
\* renders made under that very identity: answers that come after a rotation
\* do not count against the new one (identity.go:90). That no page of the
\* host came between the two (identity.go:93) is not part of it.
RotationsAreEarned ==
  \A x \in retired : \E h \in Hosts :
    SlotOf[h] = x.slot /\ <<h, x.generation, 2>> \in refused

\* No retirement is lost while the process runs: it is pending, with a
\* goroutine, applied, or given up because too many waited (client.go:300-326).
RetirementsAreKept ==
  \A x \in retired \ settled :
    \/ \E i \in DOMAIN pending : pending[i] = x
    \/ \E b \in batches :
         (\E i \in DOMAIN b.todo : b.todo[i] = x) \/ (\E i \in DOMAIN b.failed : b.failed[i] = x)

\* An identity that is being deleted is not used again by the next process,
\* unless a save failed: the generation is in the table before the deletion is
\* sent (identity.go:107 before client.go:305).
RetiredIsPersisted ==
  failedSaves = 0 => \A x \in retired : row[x.slot] > x.generation

\* With one node that always answers, a render finds every node unavailable
\* only if two others failed: the second try is on another node, and a node
\* is out of service only because it failed (client.go:229-247).
OneGoodNodeServes ==
  \A r \in Callers :
    pc[r] = "page" /\ page[r] = "unavailable" =>
      reachable = {} \/ Cardinality(Nodes \ reachable) >= 2

\* A session that is open can be closed where it is, unless an answer about it
\* was lost or its process is gone (client.go:164, :179).
SessionStaysReachable == open # NoNode /\ ~ mislaid => known = open

\* Every call returns and every retire goroutine ends.
EveryCallReturns ==
  /\ \A r \in Callers : pc[r] # "idle" ~> pc[r] = "idle"
  /\ batches # {} ~> batches = {}
=============================================================================
