----------------------------- MODULE MCApplication -----------------------------
(***************************************************************************)
(* A small instance of Application for TLC.                                *)
(***************************************************************************)
EXTENDS Application

CONSTANTS w1, w2, r1

MCMirror == [url |-> "https://mirror", weight |-> 10, timeout |-> 30]

(* A file that leaves out all it can.                                      *)
MCFile ==
  [concurrency |-> 0, storage_path |-> "", log_level |-> "",
   mirrors |-> <<[MCMirror EXCEPT !.weight = 0, !.timeout = 0]>>,
   number |-> [f \in DOMAIN Standard |-> 0]]

(* With a minute of 6 and a limit of 1024, the last number of minutes that *)
(* fits, and those that wrap around to less than zero, to little more than *)
(* zero and to zero.                                                       *)
MCIntervals == {170, 171, 342, 1024}

(* Files that differ from it in one field, at and beyond its bounds.       *)
MCFiles ==
  {MCFile}
  \cup {[MCFile EXCEPT !.concurrency = n] : n \in {-1, 10000, 10001}}
  \cup {[MCFile EXCEPT !.mirrors = ms] :
          ms \in {<<>>, <<[MCMirror EXCEPT !.weight = -1]>>,
                  <<[MCMirror EXCEPT !.timeout = -1]>>,
                  <<MCMirror, [MCMirror EXCEPT !.url = ""]>>}}
  \cup {[MCFile EXCEPT !.log_level = "loud"]}
  \cup {[MCFile EXCEPT !.number[f] = n] :
          f \in DOMAIN Standard, n \in {-1, 101}}
  \cup {[MCFile EXCEPT !.number.recovery_interval = n] : n \in MCIntervals}

MCPaths ==
  {[dirs |-> <<"core", "os", "x86_64">>,
    file |-> [package |-> FALSE, parts |-> <<"core.db">>, arch |-> ""]]}
=============================================================================
