----------------------------- MODULE BatchQueue -----------------------------
(***************************************************************************)
(* The job table of pkg/batch (jobs.go, import.go): one River job per kind *)
(* and URL, unique in every state, with one attempt.  River itself is a    *)
(* library; its part is what jobs.go asks of it.  River's `available`,     *)
(* `scheduled` and `pending` are one state here, as in StateOf.            *)
(***************************************************************************)
EXTENDS Naturals, FiniteSets

CONSTANTS
  Urls,      \* the normalized URLs of the import files
  Retriers   \* the `extract batch retry` commands that may run at once

ASSUME UrlsAssumption == IsFiniteSet(Urls)

VARIABLES
  job,      \* the state of each kind's job for each URL, "none" if not inserted
  output,   \* the contentRef of the output kept in each job's metadata
  listed    \* the jobs each retry command has listed and not yet retried

queueVars == <<job, output, listed>>

Kinds == {"http", "browser"}
Jobs == Kinds \X Urls
UrlOf(j) == j[2]
HttpJob(u) == <<"http", u>>
BrowserJob(u) == <<"browser", u>>

States == {"none", "pending", "running", "completed", "cancelled", "discarded"}
Unfinished == {"pending", "running"}
RetryFrom_Any == {"discarded", "cancelled", "completed"}  \* mutant
RetryFrom == {"discarded", "cancelled"}

\* contentRef is <<process, file number, line>>, or NoRef when there is none.
NoRef == <<>>

\* What a run of a job leaves for River to write: the next state, and the output
\* if RecordOutput was called.
Verdict(state, recorded, ref) == [state |-> state, recorded |-> recorded, ref |-> ref]
NoVerdict == Verdict("none", FALSE, NoRef)

QueueInit ==
  /\ job = [j \in Jobs |-> "none"]
  /\ output = [j \in Jobs |-> NoRef]
  /\ listed = [r \in Retriers |-> {}]

\* InsertMany / InsertTx with UniqueOpts{ByArgs, ByState: every state}: a job
\* that exists in any state is skipped as a duplicate.
Inserted(table, S) ==
  [j \in Jobs |-> IF j \in S /\ table[j] = "none" THEN "pending" ELSE table[j]]

\* River changes the state of a job only while the row says `running`, but not
\* only if the row's current run is the caller's.
SetIfRunning(table, j, state) ==
  IF table[j] = "running" THEN [table EXCEPT ![j] = state] ELSE table

\* The output a run recorded is merged into the metadata in any state.
Merged(out, j, v) ==
  IF v.recorded THEN [out EXCEPT ![j] = v.ref] ELSE out

-----------------------------------------------------------------------------
\* One transaction of an import; a second import of a URL changes nothing.
Import(S) ==
  /\ \E u \in S : job[HttpJob(u)] = "none"
  /\ job' = Inserted(job, {HttpJob(u) : u \in S})
  /\ UNCHANGED <<output, listed>>

\* `retry` reads the ids of one state first ...
RetryList(r) ==
  /\ listed[r] = {}
  /\ \E s \in RetryFrom :
        /\ \E j \in Jobs : job[j] = s
        /\ listed' = [listed EXCEPT ![r] = {j \in Jobs : job[j] = s}]
  /\ UNCHANGED <<job, output>>

\* ... and makes them available one by one, whatever state they are in by then;
\* River leaves only a running job alone.
Retry(r, j) ==
  /\ j \in listed[r]
  /\ listed' = [listed EXCEPT ![r] = @ \ {j}]
  /\ job' = IF job[j] = "running" THEN job ELSE [job EXCEPT ![j] = "pending"]
  /\ UNCHANGED output

\* The first error of JobRetry, or an interrupt, leaves the rest as they are.
RetryStops(r) ==
  /\ listed[r] # {}
  /\ listed' = [listed EXCEPT ![r] = {}]
  /\ UNCHANGED <<job, output>>

-----------------------------------------------------------------------------
\* Mutant: running jobs are not asked for.
busy_ForgetsRunning(kinds) == \E j \in Jobs : j[1] \in kinds /\ job[j] = "pending"

\* Queue.busy: one query over the unfinished jobs of the watched kinds.
busy(kinds) == \E j \in Jobs : j[1] \in kinds /\ job[j] \in Unfinished
=============================================================================
