----------------------------- MODULE MCProfiles -----------------------------
(***************************************************************************)
(* One profile, one slot and one place in the queue, so that renders with  *)
(* and without a profile and sessions all meet.                            *)
(***************************************************************************)
EXTENDS Profiles
=============================================================================
