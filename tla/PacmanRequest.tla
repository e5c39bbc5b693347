----------------------------- MODULE PacmanRequest -----------------------------
(***************************************************************************)
(* parsePacmanRequest and parsePackageName of internal/server/             *)
(* http_server.go: which file a request path stands for, and the name and  *)
(* version under which FetchManager fetches it.                            *)
(*                                                                         *)
(* A path is its directories and a file.  A file name is the sequence of   *)
(* parts between its hyphens, with the extension ".pkg.tar.zst" and the    *)
(* architecture before it taken off; a repository file is one part.        *)
(***************************************************************************)
EXTENDS Integers, Sequences, FiniteSetsExt

CONSTANT Digits \* parts that start with a digit

(* The version may begin at a part that starts with a digit, if what is    *)
(* before it is not empty.                                                 *)
Starts(f) == {i \in 2..Len(f) : f[i] \in Digits /\ SubSeq(f, 1, i - 1) # <<"">>}

(* The search goes backwards and stops at the first such part, for         *)
(* "linux-6.7.1-1" the release number.                                     *)
Version(f) == SubSeq(f, Max(Starts(f)), Len(f))

(* Mutation: the name is what comes before the first hyphen.               *)
NameToHyphen(f) == <<f[1]>>

Name(f) == SubSeq(f, 1, Max(Starts(f)) - 1)

(* strings.Split(strings.Trim(path, "/"), "/") has one part more than p    *)
(* has directories.                                                        *)
IsUnderOs(p) == Len(p.dirs) >= 2 /\ p.dirs[2] = "os"

IsRepoFile(p) == ~p.file.package

(* A package must have its own architecture in the path: a name that ends  *)
(* in "-any" is refused under x86_64.                                      *)
Accepted(p) ==
  /\ IsUnderOs(p)
  /\ IsRepoFile(p) \/ /\ Len(p.dirs) >= 3
                      /\ p.dirs[3] = p.file.arch
                      /\ Starts(p.file.parts) # {}

(* The key of FetchManager.inProgress.  For a repository file it is made   *)
(* of the repository and the file name.                                    *)
Key(p) ==
  IF IsRepoFile(p) THEN [name |-> <<p.dirs[1]>>, version |-> p.file.parts]
  ELSE [name |-> Name(p.file.parts), version |-> Version(p.file.parts)]
=============================================================================
