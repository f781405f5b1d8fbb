---------------------------- MODULE MCBulkEmails ----------------------------
(***************************************************************************)
(* More sites than workers, and a second run after whatever ended the      *)
(* first.                                                                  *)
(***************************************************************************)
EXTENDS BulkEmails
=============================================================================
