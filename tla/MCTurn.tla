------------------------------- MODULE MCTurn -------------------------------
(* Turn for TLC; the bounds are given in the .cfg. *)
EXTENDS Turn
=============================================================================
