------------------------ MODULE MCRolloutScheduler ------------------------
(* RolloutScheduler for TLC; the cfg files give the bounds.  Workers are     *)
(* interchangeable.                                                          *)
EXTENDS RolloutScheduler

Symmetry == Permutations(Workers)
=============================================================================
