---------------------------- MODULE UrlLifecycle ----------------------------
(***************************************************************************)
(* What `pagelode extract batch` promises about one URL, whatever stages,  *)
(* processes and files lie behind it.  `done` is final and needs a page    *)
(* record on disk; `dead` and `failed` can be queued again.                *)
(***************************************************************************)
CONSTANT Urls

VARIABLES
  status,  \* what `status` and the progress line report of each URL
  stored   \* the URLs with a record in a page file

Statuses == {"absent", "queued", "done", "dead", "failed"}

TypeOK ==
  /\ status \in [Urls -> Statuses]
  /\ stored \subseteq Urls

Init ==
  /\ status = [u \in Urls |-> "absent"]
  /\ stored = {}

Queue(S) ==
  /\ \A u \in S : status[u] \in {"absent", "dead", "failed"}
  /\ status' = [u \in Urls |-> IF u \in S THEN "queued" ELSE status[u]]
  /\ UNCHANGED stored

Store(S) ==
  /\ \A u \in S : status[u] = "queued"
  /\ stored' = stored \union S
  /\ UNCHANGED status

Finish(u) ==
  /\ status[u] = "queued"
  /\ \E s \in {"done", "dead", "failed"} :
        /\ s = "done" => u \in stored
        /\ status' = [status EXCEPT ![u] = s]
  /\ UNCHANGED stored

Next ==
  \/ \E S \in SUBSET Urls : Queue(S) \/ Store(S)
  \/ \E u \in Urls : Finish(u)

vars == <<status, stored>>

Spec == Init /\ [][Next]_vars

\* A URL reported done has a record in a page file.
DoneIsOnDisk == \A u \in Urls : status[u] = "done" => u \in stored

\* No later run queues a URL that is done again, and no record is lost.
DoneIsFinal ==
  [][/\ \A u \in Urls : status[u] = "done" => status'[u] = "done"
     /\ stored \subseteq stored']_vars
=============================================================================
