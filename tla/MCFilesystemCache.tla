--------------------------- MODULE MCFilesystemCache ---------------------------
(***************************************************************************)
(* Two goroutines, two packages and two versions.                          *)
(***************************************************************************)
EXTENDS FilesystemCache, TLC

Symmetry == Permutations(Callers) \cup Permutations(Names)

=============================================================================
