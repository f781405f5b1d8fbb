----------------------------- MODULE BrowserClient -----------------------------
(***************************************************************************)
(* The browser client of one process (pkg/browser/client.go) with its      *)
(* identities (pkg/browser/identity.go).  A render takes the key of its    *)
(* host's identity slot, a node that is not out of service, one of that    *)
(* node's slots, and once another node if the first cannot be reached.  An *)
(* identity that one host blocks twice in a row is retired: the slot's     *)
(* generation is raised and saved, and a goroutine of its own deletes the  *)
(* old identity on the node that served.  ChallengeSolver says what is     *)
(* made of a page; here a render starts at "start" and ends at "page".     *)
(* Nodes are numbered from 0, as in Client.nodes.                          *)
(***************************************************************************)
EXTENDS Integers, FiniteSets, SequencesExt

CONSTANTS Callers,        \* goroutines that make calls
          NodeCount, NodeSlots,
          Hosts, IdentitySlots, SlotOf,  \* slotFor: a stable hash of the host
          ProfileNode,    \* bucket(profile): the node profiles prefer
          Sticky,         \* the proxy template has a session to change
          MaxPending,     \* maxPendingRetirements
          Workloads       \* what a run may ask for, see Workload below

RotateAfterBlocks == 2
Nodes  == 0..(NodeCount - 1)
NoNode == -1

CallKinds == {"fetch", "profile", "explore", "cloudflare"}
PageKinds == {"fine", "refused", "recaptcha", "datadome"}

\* The calls of a run, the pages they may get, and how many of them, of login
\* sessions, restarts and failed saves there are.
Workload == [kinds : SUBSET CallKinds, hosts : SUBSET Hosts, pages : SUBSET PageKinds,
             calls : Nat, sessions : Nat, restarts : Nat, failedSaves : Nat]

ASSUME BrowserClientAssumption ==
  /\ IsFiniteSet(Callers) /\ NodeCount \in Nat \ {0} /\ NodeSlots \in Nat \ {0}
  /\ SlotOf \in [Hosts -> IdentitySlots] /\ IdentitySlots \subseteq Nat
  /\ ProfileNode \in Nodes /\ Sticky \in BOOLEAN /\ MaxPending \in Nat
  /\ Workloads \subseteq Workload

VARIABLES
  workload,    \* the bounds of this run
  reachable,   \* the nodes that never fail to answer
  down,        \* nodes marked down less than unhealthyFor ago
  generation, row,  \* each slot's generation, in memory and in the table
  blocks,      \* blocks[h]: slot.blocks of the slot of h
  pc, host, kind,   \* each caller's position and what it was called for
  key, at, tries, page,  \* its identity's generation, node, tries, last page
  pending,     \* Client.pending
  batches,     \* what each running retire goroutine has to do and failed at
  known, open, \* the login session's node: in Client.sessions, in fact
  sessions, restarts, failedSaves,  \* how many there were
  refused,     \* history: <<host, generation, 1>> a blocked page, 2 another one
  retired, settled, \* history: retirements made, and deleted or given up
  mislaid      \* history: a session whose answer was lost, or its process

identityVars == <<generation, row, blocks, refused, retired>>
retireVars   == <<pending, batches, settled>>
sessionVars  == <<known, open, mislaid, sessions>>
callVars     == <<pc, host, kind, key, at, tries, page>>
boundVars    == <<workload, restarts, failedSaves>>

Slot(r)      == SlotOf[host[r]]
HasKey(r)    == kind[r] # "profile"
Holders(n)   == {r \in Callers : pc[r] = "on" /\ at[r] = n}
Unlocked(s)  == \A r \in Callers : ~ (pc[r] = "saving" /\ Slot(r) = s)

\* healthyFrom: the first node from `start`, cyclically, that is not down.
Up == Nodes \ down
Distance(start, n) == (n - start) % NodeCount
HealthyFrom(start) ==
  CHOOSE n \in Up : \A m \in Up : Distance(start, n) <= Distance(start, m)

Init ==
  /\ workload \in Workloads
  /\ reachable \in SUBSET Nodes /\ down = {}
  /\ generation = [s \in IdentitySlots |-> 0] /\ row = generation
  /\ blocks = [h \in Hosts |-> 0]
  /\ pc = [r \in Callers |-> "idle"] /\ page = [r \in Callers |-> "none"]
  /\ kind = [r \in Callers |-> "none"] /\ host = [r \in Callers |-> "none"]
  /\ key = [r \in Callers |-> 0] /\ at = [r \in Callers |-> 0]
  /\ tries = [r \in Callers |-> 0]
  /\ pending = <<>> /\ batches = {} /\ known = NoNode /\ open = NoNode
  /\ sessions = 0 /\ restarts = 0 /\ failedSaves = 0
  /\ refused = {} /\ retired = {} /\ settled = {} /\ mislaid = FALSE

Goto(r, l) == pc' = [pc EXCEPT ![r] = l]
\* A call is over, and what it was about is gone.
Return(r) ==
  /\ Goto(r, "idle")
  /\ page' = [page EXCEPT ![r] = "none"] /\ kind' = [kind EXCEPT ![r] = "none"]
  /\ host' = [host EXCEPT ![r] = "none"] /\ key' = [key EXCEPT ![r] = 0]
  /\ at' = [at EXCEPT ![r] = 0] /\ tries' = [tries EXCEPT ![r] = 0]

End(r, outcome) == Goto(r, "page") /\ page' = [page EXCEPT ![r] = outcome]
-----------------------------------------------------------------------------
\* render and renderAnywhere up to the first node: the slot's current key (its
\* mutex is free), and the first healthy node from the preferred one.
Preferred(r) == IF HasKey(r) THEN Slot(r) % NodeCount ELSE ProfileNode

Start(r) ==
  /\ pc[r] = "start" /\ (HasKey(r) => Unlocked(Slot(r)))
  /\ key' = [key EXCEPT ![r] = IF HasKey(r) THEN generation[Slot(r)] ELSE 0]
  /\ tries' = [tries EXCEPT ![r] = 1]
  /\ IF Up = {}
     THEN End(r, "unavailable") /\ UNCHANGED at
     ELSE /\ Goto(r, "wait") /\ UNCHANGED page
          /\ at' = [at EXCEPT ![r] = HealthyFrom(Preferred(r))]
  /\ UNCHANGED <<reachable, down, identityVars, host, kind, retireVars,
                 sessionVars, boundVars>>

\* renderOn: one of the node's slots is free.
Enter(r) ==
  /\ pc[r] = "wait" /\ Cardinality(Holders(at[r])) < NodeSlots
  /\ Goto(r, "on")
  /\ UNCHANGED <<reachable, down, identityVars, host, kind, key, at, tries, page,
                 retireVars, sessionVars, boundVars>>

\* The second healthyFrom, when node n has been put out of service.
NextNode_Same(n) == n
NextNode(n) ==
  CHOOSE m \in Up \ {n} : \A o \in Up \ {n} : Distance(n + 1, m) <= Distance(n + 1, o)

\* do fails before an answer: the node is put out of service, and the render
\* goes to the next one, once.
Unreached(r) ==
  /\ pc[r] = "on" /\ at[r] \notin reachable
  /\ down' = down \cup {at[r]}
  /\ IF tries[r] = 1 /\ Up \ {at[r]} # {}
     THEN /\ Goto(r, "wait") /\ UNCHANGED page
          /\ tries' = [tries EXCEPT ![r] = 2]
          /\ at' = [at EXCEPT ![r] = NextNode(at[r])]
     ELSE End(r, "unavailable") /\ UNCHANGED <<at, tries>>
  /\ UNCHANGED <<reachable, identityVars, host, kind, key, retireVars,
                 sessionVars, boundVars>>

\* Less than a second is left before the deadline, or it passes while the
\* render waits or is under way.
DeadlinePasses(r) ==
  /\ pc[r] \in {"start", "wait", "on"} /\ End(r, "failed")
  /\ UNCHANGED <<reachable, down, identityVars, host, kind, key, at, tries,
                 retireVars, sessionVars, boundVars>>

\* The service answers with an error, ErrSaturated (429) among them, which no
\* step of this model tells from the others.
ServiceError(r) ==
  /\ pc[r] = "on"
  /\ End(r, "failed")
  /\ UNCHANGED <<reachable, down, identityVars, host, kind, key, at, tries,
                 retireVars, sessionVars, boundVars>>

\* Identities.observe for a page of host h under generation k.
Rotates(h, k) ==
  generation[SlotOf[h]] = k /\ blocks[h] + 1 >= RotateAfterBlocks /\ Sticky
BlocksAfter_CountsLate(h, k, blocked) ==
  IF blocked THEN [blocks EXCEPT ![h] = @ + 1] ELSE [blocks EXCEPT ![h] = 0]
BlocksAfter(h, k, blocked) ==
  IF generation[SlotOf[h]] # k THEN blocks
  ELSE IF ~ blocked THEN [blocks EXCEPT ![h] = 0]
  ELSE IF Rotates(h, k)
       THEN [g \in Hosts |-> IF SlotOf[g] = SlotOf[h] THEN 0 ELSE blocks[g]]
  ELSE [blocks EXCEPT ![h] = @ + 1]

CountRefusal(h, k) ==
  refused \cup {<<h, k, IF <<h, k, 1>> \in refused THEN 2 ELSE 1>>}

\* The service answers with a page; client.observe follows unless the render
\* had a profile.
Answer(r) ==
  /\ pc[r] = "on" /\ (HasKey(r) => Unlocked(Slot(r)))
  /\ \E p \in workload.pages :
       LET blocked == p # "fine"
           rotates == HasKey(r) /\ blocked /\ Rotates(host[r], key[r])
       IN  /\ page' = [page EXCEPT ![r] = p]
           /\ Goto(r, IF rotates THEN "saving" ELSE "page")
           /\ IF HasKey(r)
              THEN /\ blocks' = BlocksAfter(host[r], key[r], blocked)
                   /\ refused' = IF blocked THEN CountRefusal(host[r], key[r]) ELSE refused
                   /\ generation' = IF rotates THEN [generation EXCEPT ![Slot(r)] = @ + 1]
                                    ELSE generation
              ELSE UNCHANGED <<blocks, refused, generation>>
  /\ UNCHANGED <<reachable, down, row, retired, host, kind, key, at, tries,
                 retireVars, sessionVars, boundVars>>

\* SaveGeneration, which may fail; then every pending retirement and the new
\* one are given to a goroutine.
Retirement(r) == [slot |-> Slot(r), generation |-> key[r], node |-> at[r]]

Saved_Before(r) == [row EXCEPT ![Slot(r)] = key[r]]
Saved(r) == [row EXCEPT ![Slot(r)] = generation[Slot(r)]]

SaveGeneration(r) ==
  /\ pc[r] = "saving"
  /\ \E saved \in BOOLEAN :
       /\ saved \/ failedSaves < workload.failedSaves
       /\ failedSaves' = IF saved THEN failedSaves ELSE failedSaves + 1
       /\ row' = IF saved THEN Saved(r) ELSE row
  /\ retired' = retired \cup {Retirement(r)}
  /\ batches' = batches \cup {[todo |-> Append(pending, Retirement(r)), failed |-> <<>>]}
  /\ pending' = <<>>
  /\ Goto(r, "page")
  /\ UNCHANGED <<reachable, down, generation, blocks, refused, host, kind, key,
                 at, tries, page, settled, sessionVars, workload, restarts>>
-----------------------------------------------------------------------------
\* retire: one goroutine deletes its identities one after the other, each on
\* its node.  A node refuses while renders use the identity, may be out of
\* reach, or the goroutine's 10 s are over; what failed is pending again, and
\* the oldest are given up beyond MaxPending.
InUse(x) == \E r \in Holders(x.node) :
  HasKey(r) /\ Slot(r) = x.slot /\ key[r] = x.generation

Newest(s) == SubSeq(s, Len(s) - Min({Len(s), MaxPending}) + 1, Len(s))
GivenUp(s) == {s[i] : i \in 1..(Len(s) - Min({Len(s), MaxPending}))}

Kept_Overwrites(failed) == failed
Kept(failed) == failed \o pending

Deletes(b, x, ok) ==
  /\ ok => ~ InUse(x)
  /\ down' \in {down, IF ok THEN down ELSE down \cup ({x.node} \ reachable)}
  /\ LET failed == IF ok THEN b.failed ELSE Append(b.failed, x)
         others == batches \ {b}
         done   == IF ok THEN {x} ELSE {}
     IN  IF Len(b.todo) > 1
         THEN /\ batches' = others \cup {[todo |-> Tail(b.todo), failed |-> failed]}
              /\ settled' = settled \cup done
              /\ UNCHANGED pending
         ELSE /\ batches' = others
              /\ pending' = IF failed = <<>> THEN pending ELSE Newest(Kept(failed))
              /\ settled' = settled \cup done \cup
                              (IF failed = <<>> THEN {} ELSE GivenUp(Kept(failed)))

Retire ==
  /\ \E b \in batches, ok \in BOOLEAN : Deletes(b, Head(b.todo), ok)
  /\ UNCHANGED <<reachable, identityVars, callVars, sessionVars, boundVars>>

\* unhealthyFor passes.
Recover(n) ==
  /\ n \in down /\ down' = down \ {n}
  /\ UNCHANGED <<reachable, identityVars, callVars, retireVars, sessionVars, boundVars>>
-----------------------------------------------------------------------------
\* CreateSession for a login: one attempt on the first healthy node from the
\* profile's.  The service may have opened it although the answer is lost.
CreateSession ==
  /\ open = NoNode /\ known = NoNode /\ ~ mislaid /\ Up # {}
  /\ sessions < workload.sessions /\ sessions' = sessions + 1
  /\ LET n == HealthyFrom(ProfileNode)
     IN  \/ open' = n /\ known' = n /\ UNCHANGED <<down, mislaid>>
         \/ /\ n \notin reachable
            /\ down' \in {down, down \cup {n}} /\ mislaid' = TRUE
            /\ open' \in {NoNode, n} /\ UNCHANGED known
  /\ UNCHANGED <<reachable, identityVars, callVars, retireVars, boundVars>>

\* CloseSession: the node that has it, node 0 if it is not known.  A node that
\* cannot be reached may be tried again; after any other end, an error among
\* them, the session is forgotten.
CloseTarget_First == 0
CloseTarget == IF known = NoNode THEN 0 ELSE known

CloseSession ==
  LET n == CloseTarget
  IN  /\ known # NoNode \/ mislaid
      /\ \/ /\ n \notin reachable /\ down' = down \cup {n}
            /\ open' \in {open, IF open = n THEN NoNode ELSE open}
            /\ UNCHANGED <<known, mislaid>>
         \/ /\ open' = IF open = n THEN NoNode ELSE open
            /\ known' = NoNode /\ UNCHANGED <<down, mislaid>>
         \/ known' = NoNode /\ mislaid' = TRUE /\ UNCHANGED <<down, open>>
      /\ UNCHANGED <<reachable, identityVars, callVars, retireVars, sessions, boundVars>>

\* The service closes the session at the end of its time to live.
ExpireSession ==
  /\ open # NoNode /\ open' = NoNode
  /\ UNCHANGED <<reachable, down, identityVars, callVars, retireVars, known,
                 mislaid, sessions, boundVars>>

\* The process stops and another one starts with the generations in the table.
\* Calls, counts, pending retirements and the session's node are gone.
Restart ==
  /\ restarts < workload.restarts /\ restarts' = restarts + 1
  /\ generation' = row /\ blocks' = [h \in Hosts |-> 0]
  /\ pc' = [r \in Callers |-> "idle"] /\ page' = [r \in Callers |-> "none"]
  /\ kind' = page' /\ host' = page'
  /\ key' = [r \in Callers |-> 0] /\ at' = key' /\ tries' = key'
  /\ down' = {} /\ pending' = <<>> /\ batches' = {} /\ known' = NoNode
  /\ mislaid' = (mislaid \/ open # NoNode)
  /\ refused' = {} /\ retired' = {} /\ settled' = {}
  /\ UNCHANGED <<workload, reachable, row, open, sessions, failedSaves>>
=============================================================================
