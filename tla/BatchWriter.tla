---------------------------- MODULE BatchWriter ----------------------------
(***************************************************************************)
(* The page files of pkg/batch/writer.go.  Each process has one Writer     *)
(* whose single goroutine takes records from the workers, keeps the open   *)
(* `.part` file's waiting workers, and answers them all when that file is  *)
(* renamed or given up.  A record can be read back only from a renamed     *)
(* file.                                                                   *)
(***************************************************************************)
EXTENDS Naturals, Sequences

CONSTANTS
  Procs,        \* the `extract batch run` processes
  FileRecords   \* records per file, fileRecords in the code

ASSUME FileRecordsAssumption == FileRecords \in Nat \ {0}

VARIABLES
  writer,    \* "none", "open", "failed" (its loop has returned) or "closed"
  part,      \* the records of the open file, in line order, with the waiting workers
  sequence,  \* the number of the latest file; its name never comes back
  pages      \* the records of the renamed files, with their contentRef

writerVars == <<writer, part, sequence, pages>>

WriterInit ==
  /\ writer = [p \in Procs |-> "none"]
  /\ part = [p \in Procs |-> <<>>]
  /\ sequence = [p \in Procs |-> 0]
  /\ pages = {}

NewWriter(p) ==
  /\ writer' = [writer EXCEPT ![p] = "open"]
  /\ part' = [part EXCEPT ![p] = <<>>]
  /\ UNCHANGED <<sequence, pages>>

\* The loop opens a file for the first record after the last one was finished.
Numbered(p) == IF part[p] = <<>> THEN sequence[p] + 1 ELSE sequence[p]

\* A record of a worker's job.
Pending(w, j) == [worker |-> w, job |-> j]

\* What outputFile.finish puts under the final name.
Lines(p, number, records) ==
  {[ref |-> <<p, number, i>>, job |-> records[i].job] : i \in DOMAIN records}

\* Mutant: lines are counted from 0 in contentRef.
RefOf_ZeroBased(p, number, records, w) ==
  <<p, number, (CHOOSE i \in DOMAIN records : records[i].worker = w) - 1>>

RefOf(p, number, records, w) ==
  <<p, number, CHOOSE i \in DOMAIN records : records[i].worker = w>>

WaitingIn(records) == {records[i].worker : i \in DOMAIN records}

\* A record is written and the file stays open.
KeepOpen(p, records) ==
  /\ Len(records) < FileRecords
  /\ part' = [part EXCEPT ![p] = records]
  /\ sequence' = [sequence EXCEPT ![p] = Numbered(p)]
  /\ UNCHANGED <<writer, pages>>

\* Compressed, flushed, synced, closed and renamed.
Rename(p, records) ==
  /\ pages' = pages \union Lines(p, Numbered(p), records)
  /\ part' = [part EXCEPT ![p] = <<>>]
  /\ sequence' = [sequence EXCEPT ![p] = Numbered(p)]
  /\ UNCHANGED writer

\* Any error, of open, write, close or rename, ends the loop for good.
GiveUp(p) ==
  /\ writer' = [writer EXCEPT ![p] = "failed"]
  /\ part' = [part EXCEPT ![p] = <<>>]
  /\ sequence' = [sequence EXCEPT ![p] = Numbered(p)]
  /\ UNCHANGED pages

\* Close: no record is left to wait for, so the last finish is of no file.
Close(p) ==
  /\ writer' = [writer EXCEPT ![p] = IF @ = "open" THEN "closed" ELSE @]
  /\ UNCHANGED <<part, sequence, pages>>

\* The process dies: what the open file held is lost.
LoseWriter(p) ==
  /\ writer' = [writer EXCEPT ![p] = "none"]
  /\ part' = [part EXCEPT ![p] = <<>>]
  /\ UNCHANGED <<sequence, pages>>
=============================================================================
