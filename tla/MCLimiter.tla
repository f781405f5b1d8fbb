----------------------------- MODULE MCLimiter -----------------------------
(***************************************************************************)
(* Enough calls to fill every slot and every place in the queue and to     *)
(* have two more on their way.                                             *)
(***************************************************************************)
EXTENDS Limiter
=============================================================================
