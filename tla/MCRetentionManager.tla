-------------------------- MODULE MCRetentionManager --------------------------
(***************************************************************************)
(* Small instances of RetentionManager for TLC.                            *)
(***************************************************************************)
EXTENDS RetentionManager, TLC

CONSTANTS c1, c2, l1, l2

MCSymmetry == Permutations({c1, c2}) \cup Permutations({l1, l2})
=============================================================================
