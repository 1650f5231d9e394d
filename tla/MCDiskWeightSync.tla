-------------------------- MODULE MCDiskWeightSync --------------------------
(* DiskWeightSync for TLC: one engine on two hosts and one that shares the  *)
(* second of them; two tensors.                                             *)
EXTENDS DiskWeightSync, TLC

CONSTANTS e1, e2, h1, h2, t1, t2

MCEngines == {e1, e2}
MCHostsOf == [e \in MCEngines |-> IF e = e1 THEN {h1, h2} ELSE {h2}]
MCTensors == {t1, t2}

TensorSymmetry == Permutations(MCTensors)
=============================================================================
