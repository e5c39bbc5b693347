--------------------------- MODULE MCPackageServer ---------------------------
(***************************************************************************)
(* Small instances of PackageServer for TLC.                               *)
(***************************************************************************)
EXTENDS PackageServer, TLC

CONSTANTS r1, r2, pkg, db, m1, m2

(* Two packages, or a package and a database: each path has its own key.   *)
MCKeys == {"key1", "key2"}
MCKeyOf == [p \in Paths |-> IF p = db THEN "key2" ELSE "key1"]

(* One package file name asked for in two repositories, or for two         *)
(* architectures: parsePackageName derives the same name and version.      *)
MCSharedKeyOf == [p \in Paths |-> "key1"]

MCSymmetry == Permutations({r1, r2}) \cup Permutations({m1, m2})
=============================================================================
