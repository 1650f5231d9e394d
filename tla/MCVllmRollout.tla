--------------------------- MODULE MCVllmRollout ---------------------------
(* VllmRollout for TLC.  Groups are interchangeable, and so are the samples  *)
(* of a group.  Each pair of options occurs in some configuration.           *)
EXTENDS VllmRollout

Option(p, m, s, r) == [partial |-> p, masking |-> m, streaming |-> s, groupRm |-> r]
MCConfs == {Option(FALSE, FALSE, FALSE, FALSE), Option(FALSE, FALSE, TRUE, TRUE),
            Option(TRUE, FALSE, FALSE, TRUE), Option(TRUE, FALSE, TRUE, TRUE),
            Option(TRUE, TRUE, FALSE, FALSE), Option(TRUE, TRUE, TRUE, FALSE)}
Symmetry == Permutations(Groups) \cup Permutations(Index)
=============================================================================
