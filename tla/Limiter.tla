------------------------------ MODULE Limiter ------------------------------
(***************************************************************************)
(* fetch.Limiter (pkg/fetch/limit.go), shared by every request of a Go     *)
(* process: a channel of slots, and a counter of tickets that bounds how   *)
(* many calls may block on it.  The `active` gauge is left out: only the   *)
(* health report reads it.                                                 *)
(*                                                                         *)
(*   out -> working                                       -> out           *)
(*      \-> counting -> rejecting                         -> out           *)
(*                  \-> blocking -> [queued ->] [working] -> leaving -> out *)
(***************************************************************************)
EXTENDS Naturals, Sequences, FiniteSets

CONSTANTS
  Calls,        \* the goroutines that call Run, any number of times
  Concurrency,  \* cap(slots)
  MaxWaiting    \* maxWaiting

ASSUME LimiterAssumption ==
  /\ IsFiniteSet(Calls)
  /\ Concurrency \in Nat \ {0}
  /\ MaxWaiting \in Nat

VARIABLES
  pc,
  slots,    \* len(slots)
  queue,    \* the calls blocked in sending to slots, in the order the channel serves
  waiting,  \* the tickets taken
  tickets   \* the calls with a deferred waiting.Add(-1)

limiterVars == <<pc, slots, queue, waiting, tickets>>

LimiterInit ==
  /\ pc = [c \in Calls |-> "out"]
  /\ slots = 0
  /\ queue = <<>>
  /\ waiting = 0
  /\ tickets = {}

Goto(c, label) == pc' = [pc EXCEPT ![c] = label]

\* The first select: a free slot, or default.
Run(c) ==
  /\ pc[c] = "out"
  /\ \/ /\ slots < Concurrency
        /\ slots' = slots + 1
        /\ Goto(c, "working")
     \/ /\ slots = Concurrency
        /\ Goto(c, "counting")
        /\ UNCHANGED slots
  /\ UNCHANGED <<queue, waiting, tickets>>

\* Mutant: the bound is off by one.
Count_OffByOne(c) ==
  /\ pc[c] = "counting"
  /\ waiting' = waiting + 1
  /\ \/ /\ waiting' > MaxWaiting + 1
        /\ Goto(c, "rejecting")
        /\ UNCHANGED tickets
     \/ /\ waiting' <= MaxWaiting + 1
        /\ Goto(c, "blocking")
        /\ tickets' = tickets \union {c}
  /\ UNCHANGED <<slots, queue>>

Count(c) ==
  /\ pc[c] = "counting"
  /\ waiting' = waiting + 1
  /\ \/ /\ waiting' > MaxWaiting
        /\ Goto(c, "rejecting")
        /\ UNCHANGED tickets
     \/ /\ waiting' <= MaxWaiting
        /\ Goto(c, "blocking")
        /\ tickets' = tickets \union {c}
  /\ UNCHANGED <<slots, queue>>

\* Mutant: ErrSaturated is returned with the ticket still taken.
Reject_KeepsTicket(c) ==
  /\ pc[c] = "rejecting"
  /\ Goto(c, "out")
  /\ UNCHANGED <<slots, queue, waiting, tickets>>

Reject(c) ==
  /\ pc[c] = "rejecting"
  /\ waiting' = waiting - 1
  /\ Goto(c, "out")
  /\ UNCHANGED <<slots, queue, tickets>>

\* The second select: a free slot, an ended context, or the channel's queue.
Block(c) ==
  /\ pc[c] = "blocking"
  /\ \/ /\ slots < Concurrency
        /\ slots' = slots + 1
        /\ Goto(c, "working")
        /\ UNCHANGED queue
     \/ /\ Goto(c, "leaving")
        /\ UNCHANGED <<slots, queue>>
     \/ /\ slots = Concurrency
        /\ queue' = Append(queue, c)
        /\ Goto(c, "queued")
        /\ UNCHANGED slots
  /\ UNCHANGED <<waiting, tickets>>

\* <-ctx.Done() of a blocked call.
Abandon(c) ==
  \E i \in DOMAIN queue :
    /\ queue[i] = c
    /\ queue' = SubSeq(queue, 1, i - 1) \o SubSeq(queue, i + 1, Len(queue))
    /\ Goto(c, "leaving")
    /\ UNCHANGED <<slots, waiting, tickets>>

After(c) == IF c \in tickets THEN "leaving" ELSE "out"

\* Mutant: release runs only when work returns nil.
Release_LeaksOnError(c) ==
  /\ pc[c] = "working"
  /\ Goto(c, After(c))
  /\ UNCHANGED <<slots, queue, waiting, tickets>>

\* work returns; release receives from slots, which hands the slot to the call
\* that has been blocked longest.
Release(c) ==
  /\ pc[c] = "working"
  /\ \/ /\ queue = <<>>
        /\ slots' = slots - 1
        /\ Goto(c, After(c))
        /\ UNCHANGED queue
     \/ /\ queue # <<>>
        /\ queue' = Tail(queue)
        /\ pc' = [pc EXCEPT ![c] = After(c), ![Head(queue)] = "working"]
        /\ UNCHANGED slots
  /\ UNCHANGED <<waiting, tickets>>

\* The deferred waiting.Add(-1).
Leave(c) ==
  /\ pc[c] = "leaving"
  /\ waiting' = waiting - 1
  /\ tickets' = tickets \ {c}
  /\ Goto(c, "out")
  /\ UNCHANGED <<slots, queue>>

Step(c) == Count(c) \/ Reject(c) \/ Block(c) \/ Release(c) \/ Leave(c)

LimiterNext == \E c \in Calls : Run(c) \/ Abandon(c) \/ Step(c)

LimiterSpec == LimiterInit /\ [][LimiterNext]_limiterVars

\* A call that can go on does, and its work ends: every caller's context has a
\* deadline.  Nobody need call again or give up.
FairLimiterSpec == LimiterSpec /\ \A c \in Calls : WF_limiterVars(Step(c))

-----------------------------------------------------------------------------
PcStates ==
  {"out", "counting", "rejecting", "blocking", "queued", "working", "leaving"}

\* Every variable has the shape its Go counterpart has.
LimiterTypeOK ==
  /\ pc \in [Calls -> PcStates]
  /\ slots \in 0..Concurrency
  /\ queue \in Seq(Calls)
  /\ waiting \in Nat
  /\ tickets \subseteq Calls

Working == {c \in Calls : pc[c] = "working"}
Rejecting == {c \in Calls : pc[c] = "rejecting"}
Queued == {c \in Calls : pc[c] = "queued"}

\* Slots and tickets are those of the calls that have one and of no other: none
\* leaks on any path out of Run (release, the deferred waiting.Add(-1)), and
\* nobody is blocked while a slot is free.
CountsAreExact ==
  /\ slots = Cardinality(Working)
  /\ waiting = Cardinality(tickets) + Cardinality(Rejecting)
  /\ \A c \in tickets : pc[c] \in {"blocking", "queued", "working", "leaving"}
  /\ queue # <<>> => slots = Concurrency

\* Seen from its callers, the Limiter is a first-come first-served semaphore whose
\* queue is bounded by maxWaiting.
Promise == INSTANCE Semaphore WITH running <- Working
ImplementsSemaphore == Promise!Spec

\* The inductive invariant behind both: the queue is that of the queued calls,
\* and whoever blocks, or returns from having blocked, has one of the tickets.
QueueIsExact ==
  /\ \A i \in DOMAIN queue : pc[queue[i]] = "queued"
  /\ \A i, j \in DOMAIN queue : queue[i] = queue[j] => i = j
  /\ Len(queue) = Cardinality(Queued)
  /\ \A c \in Calls : pc[c] \in {"blocking", "queued", "leaving"} => c \in tickets
  /\ Cardinality(tickets) <= MaxWaiting

LimiterInv == CountsAreExact /\ QueueIsExact

\* Every call of Run returns: a queued call is served or gives up, none is forgotten.
EveryCallReturns == \A c \in Calls : pc[c] # "out" ~> pc[c] = "out"
=============================================================================
