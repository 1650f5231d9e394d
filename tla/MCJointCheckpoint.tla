-------------------------- MODULE MCJointCheckpoint --------------------------
(* TLC instance of JointCheckpoint: two overlapping launches, two steps. *)
EXTENDS JointCheckpoint
==============================================================================
