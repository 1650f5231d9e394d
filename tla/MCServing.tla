----------------------------- MODULE MCServing -----------------------------
(* Serving for TLC: two server groups of one engine each, the first of them *)
(* on GPUs it shares with training.                                         *)
EXTENDS Serving

CONSTANTS e1, e2

MCGroups == <<{e1}, {e2}>>
MCNeedsOffload == {1}
=============================================================================
