----------------------------- MODULE MCHelpers -----------------------------
(* Helpers with two blind lanes and one that reads them. *)
EXTENDS Helpers
=============================================================================
