------------------------------- MODULE MCBatch -------------------------------
(***************************************************************************)
(* Two processes on one queue: `a` has an HTTP and a browser worker, `b`   *)
(* one HTTP worker and no browser stage (--browser-workers 0).  All URLs   *)
(* are on one host, so any two of them can be exchanged.                   *)
(***************************************************************************)
EXTENDS Batch, TLC

MCProcOf == [w \in Workers |-> IF w = "bh" THEN "b" ELSE "a"]
MCKindOf == [w \in Workers |-> IF w = "ab" THEN "browser" ELSE "http"]
MCHost == [u \in Urls |-> "h"]

Symmetry == Permutations(Urls)
=============================================================================
