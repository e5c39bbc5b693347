--------------------------- MODULE MCMirrorSelector ---------------------------
(***************************************************************************)
(* Small instances of MirrorSelector for TLC.                              *)
(***************************************************************************)
EXTENDS MirrorSelector

CONSTANTS m1, m2, f1, f2, l1, l2

MCBaseWeight == [m \in Mirrors |-> IF m = m1 THEN 1 ELSE 3]

(* A download that succeeds costs 0.5 and 0.3, one that fails 1.0.         *)
MCCharges == {<<5, 3>>, <<10>>}
=============================================================================
