--------------------------- MODULE ServiceLimiter ---------------------------
(***************************************************************************)
(* The browser service's limiter (browser-service/src/shared/limiter.ts):  *)
(* a count of renders with a slot and a queue of grants, in one thread.    *)
(***************************************************************************)
EXTENDS Naturals, Sequences

CONSTANTS
  Concurrency,  \* BROWSER_SERVICE_CONCURRENCY
  MaxWaiting    \* BROWSER_SERVICE_MAX_WAITING

ASSUME ServiceLimiterAssumption ==
  /\ Concurrency \in Nat \ {0}
  /\ MaxWaiting \in Nat

VARIABLES
  active,  \* #active
  queue    \* #queue: the renders whose grants wait

limiterVars == <<active, queue>>

LimiterInit == active = 0 /\ queue = <<>>

\* #acquire: a slot, ...
Acquire ==
  /\ active < Concurrency
  /\ active' = active + 1
  /\ UNCHANGED queue

\* ... a place in the queue, ...
Enqueue(r) ==
  /\ active >= Concurrency
  /\ Len(queue) < MaxWaiting
  /\ queue' = Append(queue, r)
  /\ UNCHANGED active

\* ... or 429.
Saturated ==
  /\ active >= Concurrency
  /\ Len(queue) >= MaxWaiting
  /\ UNCHANGED limiterVars

\* abandon: the request of a queued render is aborted.
Abandon(r) ==
  /\ \E i \in DOMAIN queue :
       /\ queue[i] = r
       /\ queue' = SubSeq(queue, 1, i - 1) \o SubSeq(queue, i + 1, Len(queue))
  /\ UNCHANGED active

Granted == IF queue = <<>> THEN {} ELSE {Head(queue)}

\* Mutant: the slot is given to a queued render that does not count as active.
Release_ForgetsToCount ==
  /\ active' = active - 1
  /\ queue' = IF queue = <<>> THEN queue ELSE Tail(queue)

\* The task has ended: its slot goes to the first grant of the queue.
Release ==
  /\ active' = IF queue = <<>> THEN active - 1 ELSE active
  /\ queue' = IF queue = <<>> THEN queue ELSE Tail(queue)
=============================================================================
