--------------------------- MODULE MCIdentityPool ---------------------------
(***************************************************************************)
(* Two keys and room for one warm identity, so that each evicts the other; *)
(* three renders, so that one may give up while another waits and a third  *)
(* uses the browser.                                                       *)
(***************************************************************************)
EXTENDS IdentityPool
=============================================================================
