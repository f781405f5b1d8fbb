----------------------------- MODULE Semaphore -----------------------------
(***************************************************************************)
(* What a limiter promises its callers: at most Concurrency of them run,   *)
(* at most MaxWaiting wait, a place that becomes free goes to the one that *)
(* has waited longest, and nobody overtakes.                               *)
(***************************************************************************)
EXTENDS Naturals, Sequences, FiniteSets

CONSTANTS Calls, Concurrency, MaxWaiting

VARIABLES
  running,  \* the calls whose work runs
  queue     \* the calls that wait for a place, the longest first

vars == <<running, queue>>

Init == running = {} /\ queue = <<>>

\* There is a place, hence nobody waits.
Enter(c) ==
  /\ c \notin running
  /\ queue = <<>>
  /\ Cardinality(running) < Concurrency
  /\ running' = running \union {c}
  /\ UNCHANGED queue

Wait(c) ==
  /\ c \notin running
  /\ \A i \in DOMAIN queue : queue[i] # c
  /\ Cardinality(running) = Concurrency
  /\ Len(queue) < MaxWaiting
  /\ queue' = Append(queue, c)
  /\ UNCHANGED running

\* The place of a call that ends is at once that of the first one waiting.
Leave(c) ==
  /\ c \in running
  /\ \/ /\ queue = <<>>
        /\ running' = running \ {c}
        /\ UNCHANGED queue
     \/ /\ queue # <<>>
        /\ running' = (running \ {c}) \union {Head(queue)}
        /\ queue' = Tail(queue)

\* A call that waits may give up; the others keep their order.
Abandon(i) ==
  /\ queue' = SubSeq(queue, 1, i - 1) \o SubSeq(queue, i + 1, Len(queue))
  /\ UNCHANGED running

Next ==
  \/ \E c \in Calls : Enter(c) \/ Wait(c) \/ Leave(c)
  \/ \E i \in DOMAIN queue : Abandon(i)

Spec == Init /\ [][Next]_vars

\* While calls wait, only the one that has waited longest gets a place.
NobodyOvertakes == [][queue # <<>> => running' \subseteq running \union {Head(queue)}]_vars
=============================================================================
