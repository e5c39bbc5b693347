-------------------------- MODULE ReadThroughCache --------------------------
(***************************************************************************)
(* What the package server promises its clients, whatever happens to the   *)
(* downloads behind it: a request is answered with the whole file, or it   *)
(* fails; a file that became available stays available until it is         *)
(* evicted, a restart of the server included.                              *)
(***************************************************************************)
CONSTANTS
  Requests,  \* the clients' requests
  Paths,     \* the files that can be asked for
  Evicts     \* TRUE iff something may take files out of the cache

VARIABLES
  available, \* the files the cache holds in full
  wanted,    \* wanted[r]: the file request r asks for
  phase      \* phase[r]: how far request r got

vars == <<available, wanted, phase>>

(* A request waits until it fails or is pinned to a file that is available *)
(* at that moment; the file may be evicted while it is being delivered.    *)
Phases == {"idle", "waiting", "pinned", "full", "failed"}

TypeOK ==
  /\ available \in SUBSET Paths
  /\ wanted \in [Requests -> Paths]
  /\ phase \in [Requests -> Phases]

Init ==
  /\ available = {}
  /\ wanted \in [Requests -> Paths]
  /\ phase = [r \in Requests |-> "idle"]

Move(r, from, to) ==
  /\ phase[r] = from
  /\ phase' = [phase EXCEPT ![r] = to]

Ask(r, p) ==
  /\ Move(r, "idle", "waiting")
  /\ wanted' = [wanted EXCEPT ![r] = p]
  /\ UNCHANGED available

Fill(p) ==
  /\ available' = available \cup {p}
  /\ UNCHANGED <<wanted, phase>>

Evict(p) ==
  /\ Evicts
  /\ available' = available \ {p}
  /\ UNCHANGED <<wanted, phase>>

Pin(r) ==
  /\ wanted[r] \in available
  /\ Move(r, "waiting", "pinned")
  /\ UNCHANGED <<available, wanted>>

Deliver(r) ==
  /\ Move(r, "pinned", "full")
  /\ UNCHANGED <<available, wanted>>

Fail(r) ==
  /\ \/ Move(r, "waiting", "failed")
     \/ Move(r, "pinned", "failed")
  /\ UNCHANGED <<available, wanted>>

Leave(r) ==
  /\ \/ Move(r, "full", "idle")
     \/ Move(r, "failed", "idle")
  /\ UNCHANGED <<available, wanted>>

Restart ==
  /\ phase' = [r \in Requests |-> "idle"]
  /\ UNCHANGED <<available, wanted>>

Next ==
  \/ \E r \in Requests :
       \/ \E p \in Paths : Ask(r, p)
       \/ Pin(r) \/ Deliver(r) \/ Fail(r) \/ Leave(r)
  \/ \E p \in Paths : Fill(p) \/ Evict(p)
  \/ Restart

Spec == Init /\ [][Next]_vars
=============================================================================
