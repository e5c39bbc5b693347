------------------------------- MODULE WorkerPool -------------------------------
(***************************************************************************)
(* internal/downloader/worker_pool.go: callers that Queue tasks, worker    *)
(* goroutines that take them, and Start and Stop at any time between.      *)
(*                                                                         *)
(* Each task is queued once, by a caller of its own, with a buffered Done. *)
(* A closed stopChan is told from an open one by the number of the Start   *)
(* that made it: a goroutine may still be watching an earlier one.         *)
(***************************************************************************)
EXTENDS Integers, Sequences, FiniteSets

CONSTANTS
  Tasks,      \* the tasks callers submit
  Goroutines, \* names for worker goroutines
  NoTask,
  Requested,  \* the workerCount asked for
  MaxWorkers, \* the cap on it, 100 in the code
  MaxStarts   \* bound on the calls of Start

ASSUME WorkerPoolAssumption ==
  /\ NoTask \notin Tasks
  /\ IsFiniteSet(Goroutines)
  /\ Requested \in Int /\ MaxWorkers \in Nat \ {0}
  /\ MaxStarts \in Nat

VARIABLES
  running,   \* wp.running
  starts,    \* successful calls of Start: the number of the current stopChan
  closed,    \* wp.taskQueue has been closed
  queue,     \* wp.taskQueue
  caller,    \* caller[t]: how far the call of Queue for t has come
  done,      \* done[t]: what was sent on t.Done
  pc,        \* pc[w]: where goroutine w is
  task,      \* task[w]: the task it processes
  watching,  \* watching[w]: the stopChan it selects on
  total, successful, failed, \* PoolMetrics
  panicked   \* TRUE once a closed channel was closed or sent on

taskVars == <<caller, done>>
workerVars == <<pc, task, watching>>
metricVars == <<total, successful, failed>>
vars == <<running, starts, closed, queue, taskVars, workerVars, metricVars,
          panicked>>

(* The clamps of NewWorkerPool.                                            *)
Workers ==
  IF Requested < 1 THEN 1
  ELSE IF Requested > MaxWorkers THEN MaxWorkers ELSE Requested

Capacity == Workers * 2

Outcomes == {"ok", "error"}
Processing == {"begin", "download", "ok", "error"}

TypeOK ==
  /\ running \in BOOLEAN
  /\ starts \in 0..MaxStarts
  /\ closed \in BOOLEAN
  /\ queue \in Seq(Tasks) /\ Len(queue) <= Capacity
  /\ caller \in [Tasks -> {"idle", "admitted", "queued", "refused", "full"}]
  /\ done \in [Tasks -> Outcomes \cup {"none"}]
  /\ pc \in [Goroutines -> {"off", "select"} \cup Processing]
  /\ task \in [Goroutines -> Tasks \cup {NoTask}]
  /\ watching \in [Goroutines -> 0..MaxStarts]
  /\ total \in Nat /\ successful \in Nat /\ failed \in Nat
  /\ panicked \in BOOLEAN

Init ==
  /\ running = FALSE
  /\ starts = 0
  /\ closed = FALSE
  /\ queue = <<>>
  /\ caller = [t \in Tasks |-> "idle"]
  /\ done = [t \in Tasks |-> "none"]
  /\ pc = [w \in Goroutines |-> "off"]
  /\ task = [w \in Goroutines |-> NoTask]
  /\ watching = [w \in Goroutines |-> 0]
  /\ total = 0 /\ successful = 0 /\ failed = 0
  /\ panicked = FALSE

-----------------------------------------------------------------------------
(* Start leaves taskQueue as it is, also when Stop has closed it.          *)
Launch(count) ==
  /\ ~running
  /\ starts < MaxStarts
  /\ running' = TRUE
  /\ starts' = starts + 1
  /\ \E new \in SUBSET {w \in Goroutines : pc[w] = "off"} :
       /\ Cardinality(new) = count
       /\ pc' = [w \in Goroutines |-> IF w \in new THEN "select" ELSE pc[w]]
       /\ watching' = [w \in Goroutines |->
                         IF w \in new THEN starts + 1 ELSE watching[w]]
  /\ UNCHANGED <<closed, queue, taskVars, task, metricVars, panicked>>

(* Mutation: the loop that starts the goroutines counts from 0 to workers. *)
StartOneMore == Launch(Workers + 1)

Start == Launch(Workers)

Stop ==
  /\ running
  /\ running' = FALSE
  /\ closed' = TRUE
  /\ panicked' = closed
  /\ UNCHANGED <<starts, queue, taskVars, workerVars, metricVars>>

-----------------------------------------------------------------------------
(* Queue looks at running under the mutex, and sends without it.           *)
QueueChecks(t) ==
  /\ caller[t] = "idle"
  /\ caller' = [caller EXCEPT ![t] = IF running THEN "admitted" ELSE "refused"]
  /\ UNCHANGED <<running, starts, closed, queue, done, workerVars, metricVars,
                 panicked>>

QueueSends(t) ==
  /\ caller[t] = "admitted"
  /\ ~closed
  /\ Len(queue) < Capacity
  /\ queue' = Append(queue, t)
  /\ caller' = [caller EXCEPT ![t] = "queued"]
  /\ UNCHANGED <<running, starts, closed, done, workerVars, metricVars,
                 panicked>>

QueuePanics(t) ==
  /\ caller[t] = "admitted"
  /\ closed
  /\ panicked' = TRUE
  /\ UNCHANGED <<running, starts, closed, queue, taskVars, workerVars,
                 metricVars>>

(* Mutation: the task is left in the queue although Queue reports failure. *)
QueueTimesOutLate(t) ==
  /\ caller[t] = "admitted"
  /\ ~closed
  /\ Len(queue) < Capacity
  /\ queue' = Append(queue, t)
  /\ caller' = [caller EXCEPT ![t] = "full"]
  /\ UNCHANGED <<running, starts, closed, done, workerVars, metricVars,
                 panicked>>

(* Five seconds with a full queue.                                         *)
QueueTimesOut(t) ==
  /\ caller[t] = "admitted"
  /\ ~closed
  /\ Len(queue) = Capacity
  /\ caller' = [caller EXCEPT ![t] = "full"]
  /\ UNCHANGED <<running, starts, closed, queue, done, workerVars, metricVars,
                 panicked>>

-----------------------------------------------------------------------------
(* A closed channel still delivers what is in it.                          *)
Take(w) ==
  /\ pc[w] = "select"
  /\ queue # <<>>
  /\ task' = [task EXCEPT ![w] = Head(queue)]
  /\ queue' = Tail(queue)
  /\ pc' = [pc EXCEPT ![w] = "begin"]
  /\ total' = total + 1
  /\ UNCHANGED <<running, starts, closed, taskVars, watching, successful,
                 failed, panicked>>

(* The queue is closed and empty.                                          *)
Drained(w) ==
  /\ pc[w] = "select"
  /\ queue = <<>> /\ closed
  /\ pc' = [pc EXCEPT ![w] = "off"]
  /\ UNCHANGED <<running, starts, closed, queue, taskVars, task, watching,
                 metricVars, panicked>>

(* The stopChan it watches is closed; select may prefer it to a task.      *)
StopSeen(w) ==
  /\ pc[w] = "select"
  /\ watching[w] < starts \/ ~running
  /\ pc' = [pc EXCEPT ![w] = "off"]
  /\ UNCHANGED <<running, starts, closed, queue, taskVars, task, watching,
                 metricVars, panicked>>

SelectMirror(w) ==
  /\ pc[w] = "begin"
  /\ pc' = [pc EXCEPT ![w] = "download"]
  /\ UNCHANGED <<running, starts, closed, queue, taskVars, task, watching,
                 metricVars, panicked>>

(* Mutation: the error path does not count.                                *)
FailsUncounted(w) ==
  /\ pc[w] \in {"begin", "download"}
  /\ pc' = [pc EXCEPT ![w] = "error"]
  /\ UNCHANGED <<running, starts, closed, queue, taskVars, task, watching,
                 metricVars, panicked>>

(* No mirror was selected, or the download failed.                         *)
Fails(w) ==
  /\ pc[w] \in {"begin", "download"}
  /\ pc' = [pc EXCEPT ![w] = "error"]
  /\ failed' = failed + 1
  /\ UNCHANGED <<running, starts, closed, queue, taskVars, task, watching,
                 total, successful, panicked>>

Succeeds(w) ==
  /\ pc[w] = "download"
  /\ pc' = [pc EXCEPT ![w] = "ok"]
  /\ successful' = successful + 1
  /\ UNCHANGED <<running, starts, closed, queue, taskVars, task, watching,
                 total, failed, panicked>>

(* Mutation: a failure ends the goroutine.                                 *)
ReportLeaves(w) ==
  /\ pc[w] \in Outcomes
  /\ done' = [done EXCEPT ![task[w]] = pc[w]]
  /\ task' = [task EXCEPT ![w] = NoTask]
  /\ pc' = [pc EXCEPT ![w] = IF pc[w] = "ok" THEN "select" ELSE "off"]
  /\ UNCHANGED <<running, starts, closed, queue, caller, watching, metricVars,
                 panicked>>

(* Mutation: Done has no buffer, and nobody receives once Stop was called. *)
ReportBlocks(w) ==
  /\ pc[w] \in Outcomes
  /\ running
  /\ done' = [done EXCEPT ![task[w]] = pc[w]]
  /\ task' = [task EXCEPT ![w] = NoTask]
  /\ pc' = [pc EXCEPT ![w] = "select"]
  /\ UNCHANGED <<running, starts, closed, queue, caller, watching, metricVars,
                 panicked>>

(* The outcome is sent, and select reads wp.stopChan anew.  It does so     *)
(* without the mutex, so it may get the one before.                        *)
Report(w) ==
  /\ pc[w] \in Outcomes
  /\ done' = [done EXCEPT ![task[w]] = pc[w]]
  /\ task' = [task EXCEPT ![w] = NoTask]
  /\ pc' = [pc EXCEPT ![w] = "select"]
  /\ \E chan \in {watching[w], starts} :
       watching' = [watching EXCEPT ![w] = chan]
  /\ UNCHANGED <<running, starts, closed, queue, caller, metricVars, panicked>>

-----------------------------------------------------------------------------
Submit(t) ==
  QueueChecks(t) \/ QueueSends(t) \/ QueuePanics(t) \/ QueueTimesOut(t)

Work(w) ==
  \/ Take(w) \/ Drained(w) \/ StopSeen(w)
  \/ SelectMirror(w) \/ Fails(w) \/ Succeeds(w) \/ Report(w)

Next ==
  /\ ~panicked
  /\ \/ Start \/ Stop
     \/ \E t \in Tasks : Submit(t)
     \/ \E w \in Goroutines : Work(w)

(* A caller in Queue and a worker keep running; a download ends, by the    *)
(* timeout of the HTTP client if by nothing else.                          *)
Fairness ==
  /\ \A t \in Tasks :
       WF_vars(~panicked /\ caller[t] = "admitted" /\ Submit(t))
  /\ \A w \in Goroutines : WF_vars(~panicked /\ Work(w))

Spec == Init /\ [][Next]_vars /\ Fairness

-----------------------------------------------------------------------------
Busy == {w \in Goroutines : pc[w] \in Processing}
Waiting(t) == {i \in 1..Len(queue) : queue[i] = t}
Holding(t) == {w \in Busy : task[w] = t}

(* A task Queue has accepted is in one place until its Done is signalled,  *)
(* once: in the queue or with one worker.  A task it has refused, or given *)
(* up on, is nowhere, so that the caller may submit it again.              *)
Placed(t) ==
  Cardinality(Waiting(t)) + Cardinality(Holding(t)) =
    IF caller[t] = "queued" /\ done[t] = "none" THEN 1 ELSE 0

EachTaskOnce == \A t \in Tasks : Placed(t)

(* What TaskService sees of a task: one that is not in its place has no    *)
(* counterpart there.                                                      *)
Progress(t) ==
  CASE ~Placed(t) -> "astray"
    [] Placed(t) /\ caller[t] \in {"idle", "admitted"} -> "new"
    [] Placed(t) /\ caller[t] \in {"refused", "full"} -> "refused"
    [] Placed(t) /\ caller[t] = "queued" /\ done[t] # "none" -> done[t]
    [] OTHER -> IF Holding(t) = {} THEN "accepted" ELSE "running"

Service == INSTANCE TaskService WITH state <- [t \in Tasks |-> Progress(t)]

(* Through stops and restarts, every task is refused for good or accepted  *)
(* for good, in one place until it is answered, run once and answered once.*)
KeepsTasks == Service!Spec

(* The metrics add up: a download that was counted has succeeded, has      *)
(* failed, or is under way.                                                *)
Accounted ==
  total = successful + failed
          + Cardinality({w \in Busy : pc[w] \notin Outcomes})

(* CONFIG.md: "number of parallel download workers": until it is started   *)
(* again, with workers of before still busy, the pool never runs more      *)
(* downloads at a time than it has workers.                                *)
Bounded == starts < 2 => Cardinality(Busy) <= Workers

(* While the pool is not stopped, and the process lives, a task that was   *)
(* accepted is answered, whatever becomes of the tasks before it.          *)
AcceptedAnswered ==
  \A t \in Tasks :
    caller[t] = "queued" ~> done[t] # "none" \/ ~running \/ panicked

(* "WaitForCompletion waits for all workers to finish processing": once    *)
(* Stop was called it returns, unless the pool is started again.           *)
WorkersEnd ==
  ~running ~> running \/ panicked \/ \A w \in Goroutines : pc[w] = "off"

(* Queue of a pool that is being stopped reports "worker pool not          *)
(* running", and does not bring down the process.                          *)
QueueRefuses == ~panicked
=============================================================================
