------------------------------ MODULE Profiles ------------------------------
(***************************************************************************)
(* Who uses the login profiles of the browser service: renders in a        *)
(* profile (render/renderer.ts), one after the other, and CDP sessions     *)
(* (sessions/sessions.ts), under the locks of profiles/locks.ts and the    *)
(* limiter, with aborts, exits of Chrome, expiry and the service's         *)
(* shutdown.  Renders without a profile only take slots here; their        *)
(* browsers are IdentityPool's.  Code between two awaits is one action.    *)
(*                                                                         *)
(* render:  out -> turn -> [queued ->] launching -> using -> closing ->    *)
(*          out                                                            *)
(* session: out -> launching -> preparing -> open -> releasing ->          *)
(*          [removing ->] out, or failing -> out before it is open         *)
(***************************************************************************)
EXTENDS ServiceLimiter, FiniteSets

CONSTANTS
  Renders,      \* the requests of POST /v1/render that may be in flight at once
  Sessions,     \* the sessions that may exist at once, closing ones included
  Profiles,     \* the names of the profiles
  NoProfile,    \* the profile of a request that names none
  MaxSessions   \* BROWSER_SERVICE_MAX_SESSIONS

ASSUME ProfilesAssumption ==
  /\ IsFiniteSet(Renders)
  /\ NoProfile \notin Profiles
  /\ MaxSessions \in Nat

VARIABLES
  held,         \* ProfileLocks.#sessions
  turns,        \* ProfileLocks.#renders: whose turn it is on each profile, and who waits
  render,       \* where each render is, and its profile
  aborted,      \* the renders whose request was aborted while they were in line
  session,      \* where each session is, its profile, and whether saveCookies runs
  closing,      \* the sessions whose close() somebody waits for: DELETE or closeAll
  directories,  \* the anonymous sessions with a directory
  chrome,       \* the Chromes that may be alive: whose, and on which profile
  service       \* server.ts: "up", "stopping", "closing" or "exited"

renderVars == <<render, aborted>>
sessionVars == <<session, closing, directories>>
vars == <<limiterVars, held, turns, renderVars, sessionVars, chrome, service>>

NoRender == [at |-> "out", profile |-> NoProfile]
NoSession == [at |-> "out", profile |-> NoProfile, saving |-> FALSE]

Init ==
  /\ LimiterInit
  /\ held = {}
  /\ turns = [p \in Profiles |-> <<>>]
  /\ render = [r \in Renders |-> NoRender]
  /\ aborted = {}
  /\ session = [s \in Sessions |-> NoSession]
  /\ closing = {}
  /\ directories = {}
  /\ chrome = {}
  /\ service = "up"

ChromeOf(x, table) == <<x, table[x].profile>>

At(r, place) == [render EXCEPT ![r].at = place]

\* What a render with a slot does first; without a profile it leases an identity.
FirstOf(p) == IF p = NoProfile THEN "using" ELSE "launching"

-----------------------------------------------------------------------------
\* Limiter.run: a slot or a place in its queue, if there is one.
Admit(r, p) ==
  \/ /\ Acquire
     /\ render' = [render EXCEPT ![r] = [at |-> FirstOf(p), profile |-> p]]
  \/ /\ Enqueue(r)
     /\ render' = [render EXCEPT ![r] = [at |-> "queued", profile |-> p]]

\* A render without a profile.
Request(r) ==
  /\ service = "up"
  /\ render[r] = NoRender
  /\ Admit(r, NoProfile)
  /\ UNCHANGED <<held, turns, aborted, sessionVars, chrome, service>>

\* withRender, first half: the renders of a profile line up, unless a session has it.
RequestProfile(r, p) ==
  /\ service = "up"
  /\ render[r] = NoRender
  /\ p \notin held
  /\ render' = [render EXCEPT ![r] = [at |-> "turn", profile |-> p]]
  /\ turns' = [turns EXCEPT ![p] = Append(@, r)]
  /\ UNCHANGED <<limiterVars, held, aborted, sessionVars, chrome, service>>

\* The lock's finally: the next render of the profile has its turn.
NextTurn(p) == turns' = IF p = NoProfile THEN turns ELSE [turns EXCEPT ![p] = Tail(@)]

Refused(r) ==
  /\ NextTurn(render[r].profile)
  /\ render' = [render EXCEPT ![r] = NoRender]
  /\ aborted' = aborted \ {r}

\* It is r's turn: Limiter.run refuses it if its request is gone.
Turn(r) ==
  /\ render[r].at = "turn"
  /\ Head(turns[render[r].profile]) = r
  /\ \/ /\ r \notin aborted
        /\ Admit(r, render[r].profile)
        /\ UNCHANGED <<turns, aborted>>
     \/ /\ r \notin aborted
        /\ Saturated
        /\ Refused(r)
     \/ /\ r \in aborted
        /\ Refused(r)
        /\ UNCHANGED limiterVars
  /\ UNCHANGED <<held, sessionVars, chrome, service>>

\* The client has gone.  A queued render leaves, but nobody in line for a profile
\* notices.  Later, the page is closed: one of the failures of UseProfile.
Abort(r) ==
  /\ \/ /\ render[r].at = "queued"
        /\ Abandon(r)
        /\ Refused(r)
     \/ /\ render[r].at = "turn"
        /\ r \notin aborted
        /\ aborted' = aborted \union {r}
        /\ UNCHANGED <<limiterVars, turns, render>>
  /\ UNCHANGED <<held, sessionVars, chrome, service>>

\* The task ends: first the slot, then the lock goes on.
Ended(r) ==
  /\ Release
  /\ NextTurn(render[r].profile)
  /\ render' = [q \in Renders |-> IF q = r THEN NoRender
                                  ELSE IF q \in Granted THEN [render[q] EXCEPT !.at = FirstOf(render[q].profile)]
                                  ELSE render[q]]
  /\ UNCHANGED <<held, aborted, sessionVars, service>>

\* launchBrowser, with the profile's directory.
LaunchRender(r) ==
  /\ render[r].at = "launching"
  /\ \/ /\ render' = At(r, "using")
        /\ chrome' = chrome \union {ChromeOf(r, render)}
        /\ UNCHANGED <<limiterVars, held, turns, aborted, sessionVars, service>>
     \/ Ended(r) /\ UNCHANGED chrome

\* restoreCookies, renderPage and saveCookies are over, or one of them has failed.
UseProfile(r) ==
  /\ render[r].profile # NoProfile
  /\ render[r].at = "using"
  /\ render' = At(r, "closing")
  /\ UNCHANGED <<limiterVars, held, turns, aborted, sessionVars, chrome, service>>

\* context.close() has returned; or a render without a profile is over.
CloseRender(r) ==
  /\ render[r].at = "closing" \/ render[r] = [at |-> "using", profile |-> NoProfile]
  /\ chrome' = chrome \ {ChromeOf(r, render)}
  /\ Ended(r)

-----------------------------------------------------------------------------
SessionAt(s, place) == [session EXCEPT ![s].at = place]

\* Sessions.count
count == Cardinality({s \in Sessions :
           session[s].at \in {"launching", "preparing", "failing", "open"}})

\* Mutant: a session does not ask whether renders use its profile.
Create_IgnoresRenders(s, p) ==
  /\ service = "up"
  /\ session[s] = NoSession
  /\ count < MaxSessions
  /\ p \notin held
  /\ held' = held \union ({p} \ {NoProfile})
  /\ directories' = IF p = NoProfile THEN directories \union {s} ELSE directories
  /\ session' = [session EXCEPT ![s] = [at |-> "launching", profile |-> p, saving |-> FALSE]]
  /\ UNCHANGED <<limiterVars, turns, renderVars, closing, chrome, service>>

\* create and the start of #open: the profile is held, or a directory made.
Create(s, p) ==
  /\ service = "up"
  /\ session[s] = NoSession
  /\ count < MaxSessions
  /\ p # NoProfile => p \notin held /\ turns[p] = <<>>
  /\ held' = held \union ({p} \ {NoProfile})
  /\ directories' = IF p = NoProfile THEN directories \union {s} ELSE directories
  /\ session' = [session EXCEPT ![s] = [at |-> "launching", profile |-> p, saving |-> FALSE]]
  /\ UNCHANGED <<limiterVars, turns, renderVars, closing, chrome, service>>

LaunchSession(s) ==
  /\ session[s].at = "launching"
  /\ session' = SessionAt(s, "preparing")
  /\ chrome' = chrome \union {ChromeOf(s, session)}
  /\ UNCHANGED <<limiterVars, held, turns, renderVars, closing, directories, service>>

\* #register: if Chrome has exited by now, its close event has been missed.
Register(s) ==
  /\ session[s].at = "preparing"
  /\ session' = SessionAt(s, "open")
  /\ UNCHANGED <<limiterVars, held, turns, renderVars, closing, directories, chrome, service>>

OpenFails(s) ==
  /\ session[s].at \in {"launching", "preparing"}
  /\ session' = SessionAt(s, "failing")
  /\ UNCHANGED <<limiterVars, held, turns, renderVars, closing, directories, chrome, service>>

\* The rest of #open's catch: Chrome is closed, the lock or the directory given up.
CleanUp(s) ==
  /\ session[s].at = "failing"
  /\ session' = [session EXCEPT ![s] = NoSession]
  /\ chrome' = chrome \ {ChromeOf(s, session)}
  /\ held' = held \ {session[s].profile}
  /\ directories' = directories \ {s}
  /\ UNCHANGED <<limiterVars, turns, renderVars, closing, service>>

-----------------------------------------------------------------------------
\* Mutant: #shutdown does not wait for saveCookies.
Shutdown_DoesNotWait(record) ==
  IF record.saving \/ record.at # "open" THEN record
  ELSE [record EXCEPT !.saving = record.profile # NoProfile, !.at = "releasing"]

\* #shutdown: a profile's cookies are saved first; an anonymous session is released.
Shutdown(record) ==
  IF record.saving \/ record.at # "open" THEN record
  ELSE IF record.profile # NoProfile THEN [record EXCEPT !.saving = TRUE]
  ELSE [record EXCEPT !.at = "releasing"]

Delete(s) ==
  /\ service = "up"
  /\ session[s].at = "open"
  /\ session' = [session EXCEPT ![s] = Shutdown(@)]
  /\ closing' = closing \union {s}
  /\ UNCHANGED <<limiterVars, held, turns, renderVars, directories, chrome, service>>

\* The timer of the session's time to live.
Expire(s) ==
  /\ session[s].at = "open"
  /\ ~ session[s].saving
  /\ session' = [session EXCEPT ![s] = Shutdown(@)]
  /\ UNCHANGED <<limiterVars, held, turns, renderVars, closing, directories, chrome, service>>

\* Mutant: a session whose cookies could not be saved is not released.
Save_StopsOnError(s) ==
  /\ service # "exited"
  /\ session[s].saving
  /\ session' = [session EXCEPT ![s] =
       IF @.at = "open" THEN [@ EXCEPT !.saving = FALSE]
       ELSE IF @.at = "releasing" THEN [@ EXCEPT !.saving = FALSE]
       ELSE NoSession]
  /\ closing' = closing \ {s}
  /\ UNCHANGED <<limiterVars, held, turns, renderVars, directories, chrome, service>>

\* saveCookies has succeeded or failed; #release follows, if the close event has not
\* called it before.
Save(s) ==
  /\ service # "exited"
  /\ session[s].saving
  /\ session' = [session EXCEPT ![s] =
       IF @.at = "open" THEN [@ EXCEPT !.saving = FALSE, !.at = "releasing"]
       ELSE IF @.at = "releasing" THEN [@ EXCEPT !.saving = FALSE]
       ELSE NoSession]
  /\ closing' = IF session[s].at = "open" THEN closing ELSE closing \ {s}
  /\ UNCHANGED <<limiterVars, held, turns, renderVars, directories, chrome, service>>

\* #release after context.close(): the lock is given up, or the directory.
ReleaseSession(s) ==
  /\ service # "exited"
  /\ session[s].at = "releasing"
  /\ chrome' = chrome \ {ChromeOf(s, session)}
  /\ held' = held \ {session[s].profile}
  /\ \/ /\ session[s].profile = NoProfile
        /\ session' = SessionAt(s, "removing")
        /\ UNCHANGED closing
     \/ /\ session[s].profile # NoProfile
        /\ ~ session[s].saving
        /\ session' = [session EXCEPT ![s] = NoSession]
        /\ closing' = closing \ {s}
     \/ /\ session[s].saving
        /\ session' = SessionAt(s, "out")
        /\ UNCHANGED closing
  /\ UNCHANGED <<limiterVars, turns, renderVars, directories, service>>

RemoveDirectory(s) ==
  /\ service # "exited"
  /\ session[s].at = "removing"
  /\ session' = [session EXCEPT ![s] = NoSession]
  /\ directories' = directories \ {s}
  /\ closing' = closing \ {s}
  /\ UNCHANGED <<limiterVars, held, turns, renderVars, chrome, service>>

\* Chrome exits by itself: the close event of an open session releases it at once.
SessionChromeExits(s) ==
  /\ ChromeOf(s, session) \in chrome
  /\ session[s].at \in {"preparing", "open"}
  /\ chrome' = chrome \ {ChromeOf(s, session)}
  /\ session' = [session EXCEPT ![s].at = IF @ = "open" THEN "releasing" ELSE @]
  /\ UNCHANGED <<limiterVars, held, turns, renderVars, closing, directories, service>>

-----------------------------------------------------------------------------
\* SIGTERM: server.stop() takes no new requests ...
Stop ==
  /\ service = "up"
  /\ service' = "stopping"
  /\ UNCHANGED <<limiterVars, held, turns, renderVars, sessionVars, chrome>>

\* ... and waits for those in flight; then Sessions.closeAll.
CloseAll ==
  /\ service = "stopping"
  /\ \A r \in Renders : render[r] = NoRender
  /\ \A s \in Sessions : session[s].at \notin {"launching", "preparing", "failing"}
  /\ closing = {}
  /\ service' = "closing"
  /\ closing' = {s \in Sessions : session[s].at = "open"}
  /\ session' = [s \in Sessions |-> Shutdown(session[s])]
  /\ UNCHANGED <<limiterVars, held, turns, renderVars, directories, chrome>>

Exit ==
  /\ service = "closing"
  /\ closing = {}
  /\ service' = "exited"
  /\ UNCHANGED <<limiterVars, held, turns, renderVars, sessionVars, chrome>>

-----------------------------------------------------------------------------
RenderStep(r) == Turn(r) \/ LaunchRender(r) \/ UseProfile(r) \/ CloseRender(r)

SessionStep(s) ==
  \/ LaunchSession(s) \/ Register(s) \/ OpenFails(s) \/ CleanUp(s)
  \/ Expire(s) \/ Save(s) \/ ReleaseSession(s) \/ RemoveDirectory(s)

Next ==
  \/ \E r \in Renders :
       \/ \E p \in Profiles : RequestProfile(r, p)
       \/ Request(r) \/ Abort(r) \/ RenderStep(r)
  \/ \E s \in Sessions :
       \/ \E p \in Profiles \union {NoProfile} : Create(s, p)
       \/ Delete(s) \/ SessionChromeExits(s) \/ SessionStep(s)
  \/ Stop \/ CloseAll \/ Exit

Spec == Init /\ [][Next]_vars

\* Launches and closes are bounded by patchright's timeouts, pages by theirs, and
\* sessions by their time to live; promises that are resolved run.
FairSpec ==
  /\ Spec
  /\ \A r \in Renders : WF_vars(RenderStep(r))
  /\ \A s \in Sessions : WF_vars(SessionStep(s))
  /\ WF_vars(CloseAll) /\ WF_vars(Exit)

-----------------------------------------------------------------------------
RenderPlaces == {"out", "turn", "queued", "launching", "using", "closing"}
Opening == {"launching", "preparing", "failing"}
SessionPlaces == Opening \union {"out", "open", "releasing", "removing"}
AnyProfile == Profiles \union {NoProfile}

\* Every variable has the shape its TypeScript counterpart has.
TypeOK ==
  /\ active \in 0..Concurrency
  /\ queue \in Seq(Renders)
  /\ held \subseteq Profiles
  /\ turns \in [Profiles -> Seq(Renders)]
  /\ render \in [Renders -> [at : RenderPlaces, profile : AnyProfile]]
  /\ aborted \subseteq Renders
  /\ session \in [Sessions -> [at : SessionPlaces, profile : AnyProfile,
                               saving : BOOLEAN]]
  /\ closing \subseteq Sessions
  /\ directories \subseteq Sessions
  /\ chrome \subseteq (Renders \union Sessions) \X AnyProfile
  /\ service \in {"up", "stopping", "closing", "exited"}

Running == {r \in Renders : render[r].at \in {"launching", "using", "closing"}}

\* The sessions that hold the profile p, and the renders that line up for it.
HoldersOf(p) ==
  {s \in Sessions : session[s].profile = p /\ session[s].at \in Opening \union {"open", "releasing"}}
LineOf(p) == {r \in Renders : render[r].profile = p}

\* A profile is locked exactly while a session or renders have it: one session, or
\* renders of which only the first has begun.  No path out of #open, #release or
\* withRender forgets the lock, or gives up one that is somebody else's by then.
LocksAreExact ==
  /\ held = {p \in Profiles : HoldersOf(p) # {}}
  /\ \A p \in Profiles :
       /\ Cardinality(HoldersOf(p)) <= 1
       /\ {turns[p][i] : i \in DOMAIN turns[p]} = LineOf(p)
       /\ Len(turns[p]) = Cardinality(LineOf(p))
       /\ \A i \in DOMAIN turns[p] : i > 1 => render[turns[p][i]].at = "turn"
       /\ p \in held => turns[p] = <<>>

\* Chrome does not outlive the lock, nor is it closed while its cookies are read or
\* written: a login is saved before its session is closed.
ChromeIsOwned ==
  \A c \in chrome :
    \/ \E r \in Renders : c = ChromeOf(r, render) /\ render[r].at \in {"using", "closing"}
    \/ \E s \in Sessions :
         /\ c = ChromeOf(s, session)
         /\ session[s].at \in Opening \union {"open", "releasing"}
         /\ session[s].at = "releasing" => ~ session[s].saving

\* The service's limiter is a first-come first-served semaphore whose queue is
\* bounded by BROWSER_SERVICE_MAX_WAITING, whoever aborts, fails or waits for a
\* profile (docs/browser-service.md).
Promise == INSTANCE Semaphore WITH Calls <- Renders, running <- Running
ImplementsSemaphore == Promise!Spec

\* Every session gives its profile back, at the latest when it expires, and SIGTERM
\* ends the service: lines, slots and locks do not wait for each other in a circle.
EverySessionEnds ==
  /\ \A s \in Sessions : session[s].at # "out" ~> session[s].at = "out" \/ service = "exited"
  /\ service = "stopping" ~> service = "exited"

\* Closing deletes anonymous profile directories (docs/browser-service.md): none is
\* left when the service has exited.
NoDirectoryLeft == service = "exited" => directories = {}
=============================================================================
