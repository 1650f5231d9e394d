--------------------------- MODULE MCRolloutQueue ---------------------------
(* RolloutQueue for TLC; the cfg files give the bounds. *)
EXTENDS RolloutQueue
=============================================================================
