----------------------------- MODULE MCHTTPServer -----------------------------
(***************************************************************************)
(* A small instance of HTTPServer for TLC.                                 *)
(***************************************************************************)
EXTENDS HTTPServer

CONSTANTS c1, c2, r1, r2

MCDigits == {"6", "1"}

Package(name, arch, dirs) ==
  [dirs |-> dirs, file |-> [package |-> TRUE, parts |-> name, arch |-> arch]]

RepoFile(name, dirs) ==
  [dirs |-> dirs, file |-> [package |-> FALSE, parts |-> <<name>>, arch |-> ""]]

(* Two packages whose names begin alike, one whose architecture the path   *)
(* does not name, and a repository file in the shortest path there is.     *)
MCPaths ==
  {Package(<<"linux", "6", "1">>, "x86_64", <<"core", "os", "x86_64">>),
   Package(<<"linux", "lts", "6", "1">>, "x86_64", <<"core", "os", "x86_64">>),
   Package(<<"linux", "6", "1">>, "any", <<"core", "os", "x86_64">>),
   RepoFile("core.db", <<"core", "os">>)}
=============================================================================
