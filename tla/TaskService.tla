------------------------------ MODULE TaskService ------------------------------
(***************************************************************************)
(* What the worker pool promises those who queue tasks, however often it   *)
(* is stopped and started: a task is accepted or refused, for good; only   *)
(* an accepted task is run, once; and its only answer is that of its run.  *)
(***************************************************************************)
CONSTANT Tasks

VARIABLE state \* state[t]: how far task t has come

Init == state = [t \in Tasks |-> "new"]

Move(t, from, to) ==
  /\ state[t] = from
  /\ state' = [state EXCEPT ![t] = to]

Accept(t) == Move(t, "new", "accepted")

Refuse(t) == Move(t, "new", "refused")

Run(t) == Move(t, "accepted", "running")

Answer(t) == Move(t, "running", "ok") \/ Move(t, "running", "error")

Next == \E t \in Tasks : Accept(t) \/ Refuse(t) \/ Run(t) \/ Answer(t)

Spec == Init /\ [][Next]_state
=============================================================================
