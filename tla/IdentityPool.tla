---------------------------- MODULE IdentityPool ----------------------------
(***************************************************************************)
(* The browser service's warm identities (browser-service/src/identities/  *)
(* pool.ts) with the renders that lease them (render/renderer.ts), their   *)
(* Chromes, DELETE /v1/identities/:key and the service's shutdown.  What   *)
(* JavaScript runs without an await is one action.  Which of the idle      *)
(* identities is evicted (the least recently used) is left open, and a key *)
(* has one proxy.                                                          *)
(***************************************************************************)
EXTENDS Naturals, Sequences, FiniteSets

CONSTANTS
  Keys,           \* identity keys, each with its profile directory
  Leases,         \* the renders that may run at once
  MaxIdentities,  \* BROWSER_SERVICE_MAX_IDENTITIES
  MaxMade         \* bound: identities made for a key

ASSUME PoolAssumption ==
  /\ IsFiniteSet(Leases)
  /\ MaxIdentities \in Nat \ {0}
  /\ MaxMade \in Nat

VARIABLES
  pool,       \* #identities: the number of the identity of a key, 0 if it has none
  made,       \* how many identities a key has had
  users,      \* identity.users
  launching,  \* the identities with a launch under way
  lease,      \* what each render has: nothing, a launch to wait for, or a browser
  chain,      \* #profiles: who occupies or waits for each profile directory
  browser,    \* what the first in chain does, and its Browser once it has one
  chrome,     \* the Chromes alive on each directory
  wiped,      \* the latest identity of a key whose directory was removed
  service     \* server.ts: "up", "stopping", "closing" or "exited"

vars == <<pool, made, users, launching, lease, chain, browser, chrome, wiped, service>>

Ids == Keys \X (1..MaxMade)
NoId == <<>>
Out == [at |-> "out", id |-> NoId]
NoBrowser == [phase |-> "none", retired |-> FALSE, users |-> 0]

Pooled == {k \in Keys : pool[k] # 0}
Identity(k) == <<k, pool[k]>>
Holders(i, at) == {l \in Leases : lease[l] = [at |-> at, id |-> i]}

\* identity.browser of the key's identity is defined.
warm(k) ==
  /\ pool[k] # 0
  /\ browser[k].phase = "open"
  /\ ~ browser[k].retired
  /\ Head(chain[k]) = <<"launch", pool[k]>>

Init ==
  /\ pool = [k \in Keys |-> 0]
  /\ made = [k \in Keys |-> 0]
  /\ users = [i \in Ids |-> 0]
  /\ launching = {}
  /\ lease = [l \in Leases |-> Out]
  /\ chain = [k \in Keys |-> <<>>]
  /\ browser = [k \in Keys |-> NoBrowser]
  /\ chrome = [k \in Keys |-> 0]
  /\ wiped = [k \in Keys |-> 0]
  /\ service = "up"

\* Mutant: a retired browser is closed at once, whoever uses it.
Retired_AtOnce(b) == [b EXCEPT !.retired = TRUE, !.phase = "closing"]

\* #retire: a browser that nobody uses is closed.
Retired(b) ==
  [b EXCEPT !.retired = TRUE,
            !.phase = IF b.users = 0 /\ ~ b.retired THEN "closing" ELSE @]

\* Mutant: the last user of a retired browser does not close it.
Left_ForgetsRetired(b) == [b EXCEPT !.users = @ - 1]

\* release: the last user of a retired browser closes it.
Left(b) ==
  [b EXCEPT !.users = @ - 1,
            !.phase = IF b.retired /\ b.users = 1 THEN "closing" ELSE @]

Vacate(k) ==
  /\ chain' = [chain EXCEPT ![k] = Tail(@)]
  /\ browser' = [browser EXCEPT ![k] = NoBrowser]

-----------------------------------------------------------------------------
\* #evictIdle: the keys that lose their identity to a new one.
Evictions ==
  LET idle == {k \in Pooled : users[Identity(k)] = 0}
  IN  IF Cardinality(Pooled) < MaxIdentities \/ idle = {} THEN {{}} ELSE {{k} : k \in idle}

\* A render leases the browser of the key's identity ...
AcquireWarm(l, k) ==
  /\ service = "up"
  /\ lease[l] = Out
  /\ warm(k)
  /\ lease' = [lease EXCEPT ![l] = [at |-> "attached", id |-> Identity(k)]]
  /\ users' = [users EXCEPT ![Identity(k)] = @ + 1]
  /\ browser' = [browser EXCEPT ![k].users = @ + 1]
  /\ UNCHANGED <<pool, made, launching, chain, chrome, wiped, service>>

\* ... or waits for its launch, which it starts if nobody has.
Join(l, i) ==
  /\ lease' = [lease EXCEPT ![l] = [at |-> "waiting", id |-> i]]
  /\ users' = [users EXCEPT ![i] = @ + 1]
  /\ launching' = launching \union {i}
  /\ chain' = IF i \in launching THEN chain
              ELSE [chain EXCEPT ![i[1]] = Append(@, <<"launch", i[2]>>)]

AcquireCold(l, k) ==
  /\ service = "up"
  /\ lease[l] = Out
  /\ pool[k] # 0
  /\ ~ warm(k)
  /\ Join(l, Identity(k))
  /\ UNCHANGED <<pool, made, browser, chrome, wiped, service>>

AcquireNew(l, k) ==
  /\ service = "up"
  /\ lease[l] = Out
  /\ pool[k] = 0
  /\ made[k] < MaxMade
  /\ \E E \in Evictions :
       /\ pool' = [j \in Keys |-> IF j = k THEN made[k] + 1 ELSE IF j \in E THEN 0 ELSE pool[j]]
       /\ browser' = [j \in Keys |-> IF j \in E /\ warm(j) THEN Retired(browser[j])
                                                          ELSE browser[j]]
  /\ made' = [made EXCEPT ![k] = @ + 1]
  /\ Join(l, <<k, made[k] + 1>>)
  /\ UNCHANGED <<chrome, wiped, service>>

\* The client left, or the render's deadline passed, before the launch ended.
Abort(l) ==
  /\ lease[l].at = "waiting"
  /\ lease' = [lease EXCEPT ![l] = Out]
  /\ users' = [users EXCEPT ![lease[l].id] = @ - 1]
  /\ UNCHANGED <<pool, made, launching, chain, browser, chrome, wiped, service>>

\* A render ends; wedged if its page did not close: the browser is retired too.
Finish(l, wedged) ==
  LET k == lease[l].id[1]
  IN  /\ lease[l].at = "attached"
      /\ lease' = [lease EXCEPT ![l] = Out]
      /\ users' = [users EXCEPT ![lease[l].id] = @ - 1]
      /\ browser' = [browser EXCEPT ![k] = Left(IF wedged THEN Retired(@) ELSE @)]
      /\ UNCHANGED <<pool, made, launching, chain, chrome, wiped, service>>

-----------------------------------------------------------------------------
\* The directory is free for the first in the chain: `await previous`.
Begin(k) ==
  /\ chain[k] # <<>>
  /\ browser[k].phase = "none"
  /\ LET launch == Head(chain[k])[1] = "launch"
     IN  /\ browser' = [browser EXCEPT ![k].phase = IF launch THEN "starting" ELSE "removing"]
         /\ chrome' = IF launch THEN [chrome EXCEPT ![k] = @ + 1] ELSE chrome
  /\ UNCHANGED <<pool, made, users, launching, lease, chain, wiped, service>>

Launched(k) == <<k, Head(chain[k])[2]>>

\* Chrome is up: every render that waits for it gets it.  If the identity is no
\* longer the key's, Chrome is closed, and renders still waiting launch it again.
LaunchDone(k) ==
  LET i == Launched(k)
      W == Holders(i, "waiting")
      up == [phase |-> "open", retired |-> FALSE, users |-> 0]
  IN  /\ browser[k].phase = "starting"
      /\ \/ /\ pool[k] = i[2]
            /\ browser' = [browser EXCEPT ![k] = [up EXCEPT !.users = Cardinality(W)]]
            /\ lease' = [l \in Leases |-> IF l \in W THEN [at |-> "attached", id |-> i]
                                                     ELSE lease[l]]
            /\ launching' = launching \ {i}
            /\ UNCHANGED chain
         \/ /\ pool[k] # i[2]
            /\ browser' = [browser EXCEPT ![k] = Retired(up)]
            /\ launching' = IF W = {} THEN launching \ {i} ELSE launching
            /\ chain' = IF W = {} THEN chain ELSE [chain EXCEPT ![k] = Append(@, Head(@))]
            /\ UNCHANGED lease
      /\ UNCHANGED <<pool, made, users, chrome, wiped, service>>

\* Mutant: a failed launch keeps the directory.
LaunchFails_KeepsDirectory(k) ==
  LET i == Launched(k)
      W == Holders(i, "waiting")
  IN  /\ browser[k].phase = "starting"
      /\ chrome' = [chrome EXCEPT ![k] = @ - 1]
      /\ launching' = launching \ {i}
      /\ lease' = [l \in Leases |-> IF l \in W THEN Out ELSE lease[l]]
      /\ users' = [users EXCEPT ![i] = @ - Cardinality(W)]
      /\ browser' = [browser EXCEPT ![k].phase = "failed"]
      /\ UNCHANGED <<pool, made, chain, wiped, service>>

\* A failed launch fails every render that waits for it.
LaunchFails(k) ==
  LET i == Launched(k)
      W == Holders(i, "waiting")
  IN  /\ browser[k].phase = "starting"
      /\ chrome' = [chrome EXCEPT ![k] = @ - 1]
      /\ launching' = launching \ {i}
      /\ lease' = [l \in Leases |-> IF l \in W THEN Out ELSE lease[l]]
      /\ users' = [users EXCEPT ![i] = @ - Cardinality(W)]
      /\ Vacate(k)
      /\ UNCHANGED <<pool, made, wiped, service>>

\* Chrome exits by itself: the context's "close" event retires the browser.
ChromeExits(k) ==
  /\ browser[k].phase = "open"
  /\ chrome[k] > 0
  /\ chrome' = [chrome EXCEPT ![k] = @ - 1]
  /\ browser' = [browser EXCEPT ![k] = Retired(@)]
  /\ UNCHANGED <<pool, made, users, launching, lease, chain, wiped, service>>

\* Mutant: the directory is given up when the close begins.
CloseDone_VacatesFirst(k) ==
  /\ browser[k].phase = "closing"
  /\ Vacate(k)
  /\ UNCHANGED <<pool, made, users, launching, lease, chrome, wiped, service>>

\* #close: Chrome has exited, of its own accord or killed after 15 s.
CloseDone(k) ==
  /\ browser[k].phase = "closing"
  /\ chrome' = [chrome EXCEPT ![k] = 0]
  /\ Vacate(k)
  /\ UNCHANGED <<pool, made, users, launching, lease, wiped, service>>

-----------------------------------------------------------------------------
\* DELETE of a key whose identity has no renders (409 otherwise).
Rotate(k) ==
  /\ service = "up"
  /\ pool[k] # 0
  /\ users[Identity(k)] = 0
  /\ pool' = [pool EXCEPT ![k] = 0]
  /\ browser' = IF warm(k) THEN [browser EXCEPT ![k] = Retired(@)] ELSE browser
  /\ chain' = [chain EXCEPT ![k] = Append(@, <<"rotate", pool[k]>>)]
  /\ UNCHANGED <<made, users, launching, lease, chrome, wiped, service>>

\* The directory has been removed, or could not be.
RotateDone(k) ==
  /\ browser[k].phase = "removing"
  /\ wiped' \in {wiped, [wiped EXCEPT ![k] = Head(chain[k])[2]]}
  /\ Vacate(k)
  /\ UNCHANGED <<pool, made, users, launching, lease, chrome, service>>

-----------------------------------------------------------------------------
\* SIGTERM: server.stop() takes no new requests ...
Stop ==
  /\ service = "up"
  /\ service' = "stopping"
  /\ UNCHANGED <<pool, made, users, launching, lease, chain, browser, chrome, wiped>>

Rotating(k) == \E n \in DOMAIN chain[k] : chain[k][n][1] = "rotate"

\* ... and waits for those in flight; then Identities.close.
Close ==
  /\ service = "stopping"
  /\ \A l \in Leases : lease[l] = Out
  /\ \A k \in Keys : ~ Rotating(k)
  /\ service' = "closing"
  /\ pool' = [k \in Keys |-> 0]
  /\ browser' = [k \in Keys |-> IF warm(k) THEN Retired(browser[k]) ELSE browser[k]]
  /\ UNCHANGED <<made, users, launching, lease, chain, chrome, wiped>>

\* Mutant: close waits only for the browsers that are up.
Exit_ForgetsLaunches ==
  /\ service = "closing"
  /\ \A k \in Keys : browser[k].phase \in {"none", "starting"}
  /\ service' = "exited"
  /\ UNCHANGED <<pool, made, users, launching, lease, chain, browser, chrome, wiped>>

Exit ==
  /\ service = "closing"
  /\ \A k \in Keys : chain[k] = <<>>
  /\ service' = "exited"
  /\ UNCHANGED <<pool, made, users, launching, lease, chain, browser, chrome, wiped>>

-----------------------------------------------------------------------------
DirectoryStep(k) ==
  Begin(k) \/ LaunchDone(k) \/ LaunchFails(k) \/ CloseDone(k) \/ RotateDone(k)

Ends(l) == Finish(l, TRUE) \/ Finish(l, FALSE)

Next ==
  \/ \E l \in Leases :
       \/ \E k \in Keys : AcquireWarm(l, k) \/ AcquireCold(l, k) \/ AcquireNew(l, k)
       \/ Abort(l)
       \/ Ends(l)
  \/ \E k \in Keys : DirectoryStep(k) \/ ChromeExits(k) \/ Rotate(k)
  \/ Stop \/ Close \/ Exit

Spec == Init /\ [][Next]_vars

\* Launches, closes and renders are bounded by timers (launchTimeoutMs,
\* closeTimeoutMs and killWaitMs, deadlineGraceMs); promises that are resolved run.
FairSpec ==
  /\ Spec
  /\ \A k \in Keys : WF_vars(DirectoryStep(k))
  /\ \A l \in Leases : WF_vars(Ends(l))
  /\ WF_vars(Close) /\ WF_vars(Exit)

-----------------------------------------------------------------------------
Phases == {"none", "starting", "open", "closing", "removing"}

\* Every variable has the shape its TypeScript counterpart has.
TypeOK ==
  /\ pool \in [Keys -> 0..MaxMade]
  /\ made \in [Keys -> 0..MaxMade]
  /\ users \in [Ids -> Nat]
  /\ launching \subseteq Ids
  /\ lease \in [Leases -> {Out} \union [at : {"waiting", "attached"}, id : Ids]]
  /\ chain \in [Keys -> Seq({"launch", "rotate"} \X (1..MaxMade))]
  /\ browser \in [Keys -> [phase : Phases, retired : BOOLEAN, users : Nat]]
  /\ chrome \in [Keys -> Nat]
  /\ wiped \in [Keys -> 0..MaxMade]
  /\ service \in {"up", "stopping", "closing", "exited"}

\* A profile directory never has two Chromes, is removed only when it has none, and
\* no Chrome of an identity starts on it again after its rotation.
OneChromePerProfile ==
  \A k \in Keys :
    /\ chrome[k] <= 1
    /\ browser[k].phase = "removing" => chrome[k] = 0
    /\ browser[k].phase \in {"starting", "open", "closing"} => Launched(k)[2] > wiped[k]

\* A browser is closed only when no render has it, and then it is: a retired
\* browser is in use or being closed, whoever aborts, fails or wedges.
ClosedWhenUnused ==
  \A k \in Keys :
    LET inUse == {l \in Leases : lease[l].at = "attached" /\ lease[l].id[1] = k}
    IN  /\ browser[k].phase = "closing" => inUse = {}
        /\ browser[k].phase = "open" /\ browser[k].retired => inUse # {}

\* Every browser that is to stay open is that of its key's identity, so that
\* eviction, rotation and shutdown find it; nothing is left when the service exits.
NoStrayBrowser ==
  /\ \A k \in Keys : browser[k].phase = "open" /\ ~ browser[k].retired => warm(k)
  /\ service = "exited" => \A k \in Keys : chrome[k] = 0

\* A render that waits for a browser gets one, or an error.
LeasesSettle == \A l \in Leases : lease[l].at = "waiting" ~> lease[l].at # "waiting"

\* SIGTERM ends the service.
ServiceExits == service = "stopping" ~> service = "exited"
=============================================================================
