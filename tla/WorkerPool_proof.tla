---------------------------- MODULE WorkerPool_proof ----------------------------
(***************************************************************************)
(* Proofs about WorkerPool, for any tasks, any number of workers and any   *)
(* calls of Start and Stop: where a task is, that the pool implements      *)
(* TaskService, what the metrics count, and how many downloads run at a    *)
(* time.                                                                   *)
(***************************************************************************)
EXTENDS WorkerPool, FiniteSetTheorems, SequenceTheorems, TLAPS

USE WorkerPoolAssumption

Positions == 1..Len(queue)

(* A task is pending from its acceptance to its Done.                      *)
Pending(t) == caller[t] = "queued" /\ done[t] = "none"

(* The busy goroutines have a task.                                        *)
Employed == \A w \in Busy : task[w] \in Tasks

(* Only what was queued is answered.                                       *)
AnsweredQueued == \A t \in Tasks : done[t] # "none" => caller[t] = "queued"

(* No task is twice in the queue, or with two workers, or in both places.  *)
OncePlaced ==
  /\ \A i, j \in Positions : queue[i] = queue[j] => i = j
  /\ \A w, x \in Busy : task[w] = task[x] => w = x
  /\ \A i \in Positions, w \in Busy : queue[i] # task[w]

(* The pending tasks are those that are in one of the two places.          *)
PendingPlaced ==
  \A t \in Tasks : Pending(t) <=> \/ \E i \in Positions : queue[i] = t
                                  \/ \E w \in Busy : task[w] = t

PlaceInv == TypeOK /\ Employed /\ AnsweredQueued /\ OncePlaced /\ PendingPlaced

-----------------------------------------------------------------------------
(* The clamps leave at least one worker.                                   *)
LEMMA WorkersPositive == Workers \in Nat \ {0} /\ Capacity \in Nat
BY DEF Workers, Capacity

(* Start touches neither tasks nor busy goroutines.                        *)
LEMMA LaunchPlace == PlaceInv /\ Start => PlaceInv'
<1> SUFFICES ASSUME PlaceInv, Start PROVE PlaceInv'
  OBVIOUS
<1> USE DEF PlaceInv, TypeOK
<1>1. PICK new \in SUBSET {w \in Goroutines : pc[w] = "off"} :
        /\ pc' = [w \in Goroutines |-> IF w \in new THEN "select" ELSE pc[w]]
        /\ watching' = [w \in Goroutines |->
                          IF w \in new THEN starts + 1 ELSE watching[w]]
  BY DEF Start, Launch
<1>2. starts + 1 \in 0..MaxStarts
  BY DEF Start, Launch
<1>3. /\ starts' = starts + 1 /\ running' = TRUE
      /\ UNCHANGED <<closed, queue, taskVars, task, metricVars, panicked>>
  BY DEF Start, Launch
<1>4. TypeOK'
  <2>1. pc' \in [Goroutines -> {"off", "select"} \cup Processing]
    BY <1>1
  <2>2. watching' \in [Goroutines -> 0..MaxStarts]
    BY <1>1, <1>2
  <2> QED BY <1>2, <1>3, <2>1, <2>2 DEF taskVars, metricVars, Capacity, Workers
<1>5. Busy' = Busy
  BY <1>1 DEF Busy, Processing
<1> QED BY <1>3, <1>4, <1>5 DEF Employed, AnsweredQueued, OncePlaced,
              PendingPlaced, Pending, Positions, taskVars

(* Stop touches none of them either.                                       *)
LEMMA StopPlace == PlaceInv /\ Stop => PlaceInv'
<1> SUFFICES ASSUME PlaceInv, Stop PROVE PlaceInv'
  OBVIOUS
<1>1. /\ running' \in BOOLEAN /\ closed' \in BOOLEAN /\ panicked' \in BOOLEAN
      /\ UNCHANGED <<starts, queue, caller, done, pc, task, watching, total,
                     successful, failed>>
  BY DEF PlaceInv, TypeOK, Stop, taskVars, workerVars, metricVars
<1>2. TypeOK'
  BY <1>1 DEF PlaceInv, TypeOK, Capacity, Workers
<1>3. Busy' = Busy /\ Positions' = Positions
  BY <1>1 DEF Busy, Positions
<1>4. Employed' /\ AnsweredQueued' /\ OncePlaced'
  BY <1>1, <1>3 DEF PlaceInv, Employed, AnsweredQueued, OncePlaced
<1>5. PendingPlaced'
  BY <1>1, <1>3 DEF PlaceInv, PendingPlaced, Pending
<1> QED BY <1>2, <1>4, <1>5 DEF PlaceInv

(* A task becomes pending when it is sent, at the end of the queue.        *)
LEMMA SendPlace ==
  ASSUME PlaceInv, NEW t \in Tasks, QueueSends(t)
  PROVE  PlaceInv'
<1> USE DEF PlaceInv, TypeOK
<1>1. /\ caller[t] = "admitted" /\ Len(queue) < Capacity
      /\ queue' = Append(queue, t)
      /\ caller' = [caller EXCEPT ![t] = "queued"]
      /\ UNCHANGED <<running, starts, closed, done, workerVars, metricVars,
                     panicked>>
  BY DEF QueueSends
<1>2. /\ queue' \in Seq(Tasks) /\ Len(queue') = Len(queue) + 1
      /\ Len(queue) \in Nat
      /\ queue'[Len(queue) + 1] = t
      /\ \A i \in 1..Len(queue) : queue'[i] = queue[i]
  BY <1>1
<1>3. done[t] = "none"
  BY <1>1 DEF AnsweredQueued
<1>4. /\ \A i \in Positions : queue[i] # t
      /\ \A w \in Busy : task[w] # t
  BY <1>1 DEF PendingPlaced, Pending
<1>5. TypeOK'
  <2>1. Len(queue') <= Capacity
    BY <1>1, <1>2, WorkersPositive
  <2>2. caller' \in [Tasks -> {"idle", "admitted", "queued", "refused", "full"}]
    BY <1>1
  <2> QED BY <1>1, <1>2, <2>1, <2>2 DEF workerVars, metricVars, Capacity, Workers
<1>6. Busy' = Busy /\ UNCHANGED <<task, done>>
  BY <1>1 DEF Busy, workerVars
<1>7. OncePlaced'
  <2>1. \A i \in Positions' : i \in Positions \/ i = Len(queue) + 1
    BY <1>2 DEF Positions
  <2>2. \A i \in Positions : queue'[i] = queue[i] /\ queue[i] # t
    BY <1>2, <1>4 DEF Positions
  <2>3. \A i, j \in Positions' : queue'[i] = queue'[j] => i = j
    BY <1>2, <2>1, <2>2 DEF OncePlaced
  <2>4. \A i \in Positions', w \in Busy : queue'[i] # task[w]
    BY <1>2, <1>4, <2>1, <2>2 DEF OncePlaced
  <2>5. \A w, x \in Busy : task[w] = task[x] => w = x
    BY DEF OncePlaced
  <2> QED BY <1>6, <2>3, <2>4, <2>5 DEF OncePlaced
<1>8. PendingPlaced'
  <2> SUFFICES ASSUME NEW u \in Tasks
               PROVE  Pending(u)' <=> \/ \E i \in Positions' : queue'[i] = u
                                      \/ \E w \in Busy : task[w] = u
    BY <1>6 DEF PendingPlaced
  <2>1. CASE u = t
    <3>1. Pending(u)'
      BY <1>1, <1>3, <1>6, <2>1 DEF Pending
    <3>2. Len(queue) + 1 \in Positions'
      BY <1>2 DEF Positions
    <3> QED BY <1>2, <2>1, <3>1, <3>2
  <2>2. CASE u # t
    <3>1. Pending(u)' <=> Pending(u)
      BY <1>1, <1>6, <2>2 DEF Pending
    <3>2. (\E i \in Positions' : queue'[i] = u) <=> (\E i \in Positions : queue[i] = u)
      <4>1. \A i \in Positions' : i \in Positions \/ i = Len(queue) + 1
        BY <1>2 DEF Positions
      <4>2. \A i \in Positions : i \in Positions' /\ queue'[i] = queue[i]
        BY <1>2 DEF Positions
      <4> QED BY <1>2, <2>2, <4>1, <4>2
    <3> QED BY <3>1, <3>2 DEF PendingPlaced
  <2> QED BY <2>1, <2>2
<1> QED BY <1>1, <1>5, <1>6, <1>7, <1>8 DEF Employed, AnsweredQueued

(* The other outcomes of Queue leave the task nowhere.                     *)
LEMMA SubmitPlace ==
  ASSUME PlaceInv, NEW t \in Tasks, QueueChecks(t) \/ QueuePanics(t) \/ QueueTimesOut(t)
  PROVE  PlaceInv'
<1> USE DEF PlaceInv, TypeOK
<1>1. /\ UNCHANGED <<queue, done, pc, task, running, starts, closed, watching,
                     total, successful, failed>>
      /\ panicked' \in BOOLEAN
      /\ \/ caller' = caller
         \/ /\ caller[t] \in {"idle", "admitted"}
            /\ \E to \in {"admitted", "refused", "full"} :
                 caller' = [caller EXCEPT ![t] = to]
  BY DEF QueueChecks, QueuePanics, QueueTimesOut, taskVars, workerVars, metricVars
<1>2. caller' \in [Tasks -> {"idle", "admitted", "queued", "refused", "full"}]
  BY <1>1
<1>3. \A u \in Tasks : caller'[u] = "queued" <=> caller[u] = "queued"
  BY <1>1
<1>4. TypeOK'
  BY <1>1, <1>2 DEF Capacity, Workers
<1>5. Busy' = Busy /\ Positions' = Positions
  BY <1>1 DEF Busy, Positions
<1>6. Employed' /\ AnsweredQueued' /\ OncePlaced'
  BY <1>1, <1>3, <1>5 DEF Employed, AnsweredQueued, OncePlaced
<1>7. PendingPlaced'
  <2>1. \A u \in Tasks : Pending(u)' <=> Pending(u)
    BY <1>1, <1>3 DEF Pending
  <2> QED BY <1>1, <1>5, <2>1 DEF PendingPlaced
<1> QED BY <1>4, <1>6, <1>7

(* Take moves the head of the queue to the worker.                         *)
LEMMA TakePlace ==
  ASSUME PlaceInv, NEW w \in Goroutines, Take(w)
  PROVE  PlaceInv'
<1> USE DEF PlaceInv, TypeOK
<1> DEFINE t == Head(queue)
<1>1. /\ pc[w] = "select" /\ queue # <<>>
      /\ task' = [task EXCEPT ![w] = t]
      /\ queue' = Tail(queue)
      /\ pc' = [pc EXCEPT ![w] = "begin"]
      /\ total' = total + 1
      /\ UNCHANGED <<running, starts, closed, taskVars, watching, successful,
                     failed, panicked>>
  BY DEF Take
<1>2. /\ t \in Tasks /\ t = queue[1] /\ Len(queue) \in Nat /\ Len(queue) >= 1
      /\ queue' \in Seq(Tasks) /\ Len(queue') = Len(queue) - 1
      /\ \A i \in 1..Len(queue') : queue'[i] = queue[i + 1]
  <2>1. Len(queue) \in Nat \ {0} /\ t = queue[1]
    BY <1>1, EmptySeq
  <2> QED BY <1>1, <2>1, HeadTailProperties
<1> HIDE DEF t
<1>3. TypeOK'
  <2>1. Len(queue') <= Capacity
    BY <1>2, WorkersPositive
  <2>2. /\ task' \in [Goroutines -> Tasks \cup {NoTask}]
        /\ pc' \in [Goroutines -> {"off", "select"} \cup Processing]
    BY <1>1, <1>2 DEF Processing
  <2> QED BY <1>1, <1>2, <2>1, <2>2 DEF taskVars, Capacity, Workers
<1>4. /\ Busy' = Busy \cup {w} /\ w \notin Busy /\ task'[w] = t
      /\ \A x \in Busy : task'[x] = task[x]
  BY <1>1 DEF Busy, Processing
<1>5. 1 \in Positions /\ \A i \in Positions' : i + 1 \in Positions
  BY <1>2 DEF Positions
<1>6. Employed'
  BY <1>2, <1>4 DEF Employed
<1>7. OncePlaced'
  <2>1. \A i, j \in Positions' : queue'[i] = queue'[j] => i = j
    <3> SUFFICES ASSUME NEW i \in Positions', NEW j \in Positions',
                        queue'[i] = queue'[j]
                 PROVE  i = j
      OBVIOUS
    <3>1. i + 1 \in Positions /\ j + 1 \in Positions
      BY <1>5
    <3>2. queue[i + 1] = queue'[i] /\ queue[j + 1] = queue'[j]
      BY <1>2 DEF Positions
    <3>3. i + 1 = j + 1
      BY <3>1, <3>2 DEF OncePlaced
    <3> QED BY <3>3 DEF Positions
  <2>2. \A x \in Busy : task[x] # t
    BY <1>2, <1>5 DEF OncePlaced
  <2>3. \A i \in Positions' : queue'[i] # t
    <3> SUFFICES ASSUME NEW i \in Positions', queue'[i] = t PROVE FALSE
      OBVIOUS
    <3>1. i + 1 \in Positions /\ queue[i + 1] = queue[1]
      BY <1>2, <1>5 DEF Positions
    <3>2. i + 1 = 1
      BY <1>5, <3>1 DEF OncePlaced
    <3> QED BY <3>2 DEF Positions
  <2>4. \A i \in Positions', x \in Busy : queue'[i] # task[x]
    BY <1>2, <1>5 DEF OncePlaced, Positions
  <2>5. \A x, y \in Busy' : task'[x] = task'[y] => x = y
    <3>1. \A x, y \in Busy : task[x] = task[y] => x = y
      BY DEF OncePlaced
    <3> QED BY <1>4, <2>2, <3>1
  <2>6. \A i \in Positions', x \in Busy' : queue'[i] # task'[x]
    BY <1>4, <2>3, <2>4
  <2> QED BY <2>1, <2>5, <2>6 DEF OncePlaced
<1>8. PendingPlaced'
  <2> SUFFICES ASSUME NEW u \in Tasks
               PROVE  Pending(u) <=> \/ \E i \in Positions' : queue'[i] = u
                                     \/ \E x \in Busy' : task'[x] = u
    BY <1>1 DEF PendingPlaced, Pending, taskVars
  <2>1. Pending(u) <=> \/ \E i \in Positions : queue[i] = u
                       \/ \E x \in Busy : task[x] = u
    BY DEF PendingPlaced
  <2>2. (\E x \in Busy' : task'[x] = u) <=> u = t \/ \E x \in Busy : task[x] = u
    BY <1>4
  <2>3. (\E i \in Positions : queue[i] = u) <=>
          u = t \/ \E i \in Positions' : queue'[i] = u
    <3>1. \A i \in Positions : i = 1 \/ i - 1 \in Positions'
      BY <1>2 DEF Positions
    <3>2. \A i \in Positions \ {1} : queue[i] = queue'[i - 1]
      <4> SUFFICES ASSUME NEW i \in Positions \ {1} PROVE queue[i] = queue'[i - 1]
        OBVIOUS
      <4>1. i - 1 \in 1..Len(queue') /\ (i - 1) + 1 = i
        BY <1>2 DEF Positions
      <4> QED BY <1>2, <4>1
    <3>3. \A i \in Positions' : queue'[i] = queue[i + 1]
      BY <1>2 DEF Positions
    <3>4. ASSUME NEW i \in Positions, queue[i] = u
          PROVE  u = t \/ \E j \in Positions' : queue'[j] = u
      <4>1. CASE i = 1
        BY <1>2, <3>4, <4>1
      <4>2. CASE i # 1
        <5>1. i - 1 \in Positions' /\ queue'[i - 1] = u
          BY <3>1, <3>2, <3>4, <4>2
        <5> QED BY <5>1
      <4> QED BY <4>1, <4>2
    <3>5. ASSUME NEW i \in Positions', queue'[i] = u
          PROVE  \E j \in Positions : queue[j] = u
      BY <1>5, <3>3, <3>5
    <3>6. queue[1] = t
      BY <1>2
    <3> QED BY <1>5, <3>4, <3>5, <3>6
  <2> QED BY <2>1, <2>2, <2>3
<1>9. AnsweredQueued'
  BY <1>1 DEF AnsweredQueued, taskVars
<1> QED BY <1>3, <1>6, <1>7, <1>8, <1>9

(* Report makes the task no longer pending, and takes it from the worker.  *)
LEMMA ReportPlace ==
  ASSUME PlaceInv, NEW w \in Goroutines, Report(w)
  PROVE  PlaceInv'
<1> USE DEF PlaceInv, TypeOK
<1> DEFINE t == task[w]
<1>1. /\ pc[w] \in Outcomes
      /\ done' = [done EXCEPT ![t] = pc[w]]
      /\ task' = [task EXCEPT ![w] = NoTask]
      /\ pc' = [pc EXCEPT ![w] = "select"]
      /\ UNCHANGED <<running, starts, closed, queue, caller, total, successful,
                     failed, panicked>>
      /\ \E chan \in {watching[w], starts} :
           watching' = [watching EXCEPT ![w] = chan]
  BY DEF Report, metricVars
<1>2. w \in Busy /\ t \in Tasks
  BY <1>1 DEF Employed, Busy, Outcomes, Processing
<1>3. TypeOK'
  <2>1. watching' \in [Goroutines -> 0..MaxStarts]
    BY <1>1
  <2>2. done' \in [Tasks -> Outcomes \cup {"none"}]
    BY <1>1, <1>2
  <2>3. /\ task' \in [Goroutines -> Tasks \cup {NoTask}]
        /\ pc' \in [Goroutines -> {"off", "select"} \cup Processing]
    BY <1>1
  <2> QED BY <1>1, <2>1, <2>2, <2>3 DEF Capacity, Workers
<1>4. /\ Busy' = Busy \ {w}
      /\ \A x \in Busy' : task'[x] = task[x]
  BY <1>1 DEF Busy, Processing
<1>5. done'[t] # "none" /\ caller[t] = "queued"
  <2>1. Pending(t)
    BY <1>2 DEF PendingPlaced
  <2> QED BY <1>1, <1>2, <2>1 DEF Pending, Outcomes
<1>6. OncePlaced'
  BY <1>1, <1>4 DEF OncePlaced, Positions
<1>7. PendingPlaced'
  <2> SUFFICES ASSUME NEW u \in Tasks
               PROVE  Pending(u)' <=> \/ \E i \in Positions : queue[i] = u
                                      \/ \E x \in Busy' : task'[x] = u
    BY <1>1 DEF PendingPlaced, Positions
  <2>1. CASE u = t
    <3>1. ~Pending(u)'
      BY <1>5, <2>1 DEF Pending
    <3>2. /\ \A i \in Positions : queue[i] # t
          /\ \A x \in Busy' : task'[x] # t
      BY <1>2, <1>4 DEF OncePlaced
    <3> QED BY <2>1, <3>1, <3>2
  <2>2. CASE u # t
    <3>1. Pending(u)' <=> Pending(u)
      BY <1>1, <1>2, <2>2 DEF Pending
    <3>2. (\E x \in Busy' : task'[x] = u) <=> (\E x \in Busy : task[x] = u)
      BY <1>4, <2>2
    <3> QED BY <3>1, <3>2 DEF PendingPlaced
  <2> QED BY <2>1, <2>2
<1>8. AnsweredQueued'
  BY <1>1, <1>2, <1>5 DEF AnsweredQueued
<1> QED BY <1>3, <1>4, <1>6, <1>7, <1>8 DEF Employed

(* The other steps of a worker leave every task where it is.               *)
LEMMA WorkPlace ==
  ASSUME PlaceInv, NEW w \in Goroutines,
         \/ Drained(w) \/ StopSeen(w)
         \/ SelectMirror(w) \/ Fails(w) \/ Succeeds(w)
  PROVE  PlaceInv'
<1> USE DEF PlaceInv, TypeOK
<1>1. /\ UNCHANGED <<running, starts, closed, queue, caller, done, task,
                     watching, panicked>>
      /\ total' \in Nat /\ successful' \in Nat /\ failed' \in Nat
      /\ \/ pc[w] = "select" /\ pc' = [pc EXCEPT ![w] = "off"]
         \/ /\ pc[w] \in Processing
            /\ \E to \in Processing : pc' = [pc EXCEPT ![w] = to]
  BY DEF Drained, StopSeen, SelectMirror, Fails, Succeeds, taskVars,
         metricVars, Processing
<1>2. pc' \in [Goroutines -> {"off", "select"} \cup Processing]
  BY <1>1
<1>3. Busy' = Busy
  BY <1>1 DEF Busy, Processing
<1>4. TypeOK'
  BY <1>1, <1>2 DEF Capacity, Workers
<1> QED BY <1>1, <1>3, <1>4 DEF Employed, AnsweredQueued, OncePlaced,
             PendingPlaced, Pending, Positions

(* The invariant of the places is inductive.                               *)
LEMMA NextPlace == PlaceInv /\ [Next]_vars => PlaceInv'
<1> SUFFICES ASSUME PlaceInv, [Next]_vars PROVE PlaceInv'
  OBVIOUS
<1>1. CASE UNCHANGED vars
  BY <1>1 DEF PlaceInv, TypeOK, Employed, AnsweredQueued, OncePlaced,
              PendingPlaced, Pending, Positions, Busy, vars, taskVars,
              workerVars, metricVars, Capacity, Workers
<1> QED BY <1>1, LaunchPlace, StopPlace, SendPlace, SubmitPlace, TakePlace,
           ReportPlace, WorkPlace DEF Next, Submit, Work

(* Nothing is anywhere at first.                                           *)
LEMMA InitPlace == Init => PlaceInv
<1> SUFFICES ASSUME Init PROVE PlaceInv
  OBVIOUS
<1>1. queue \in Seq(Tasks) /\ Len(queue) = 0
  BY EmptySeq DEF Init
<1>2. TypeOK
  <2>1. /\ running \in BOOLEAN /\ closed \in BOOLEAN /\ panicked \in BOOLEAN
    BY DEF Init
  <2>2. /\ starts \in 0..MaxStarts
        /\ total \in Nat /\ successful \in Nat /\ failed \in Nat
    BY DEF Init
  <2>3. /\ caller \in [Tasks -> {"idle", "admitted", "queued", "refused", "full"}]
        /\ done \in [Tasks -> Outcomes \cup {"none"}]
        /\ pc \in [Goroutines -> {"off", "select"} \cup Processing]
        /\ task \in [Goroutines -> Tasks \cup {NoTask}]
        /\ watching \in [Goroutines -> 0..MaxStarts]
    BY DEF Init
  <2>4. Len(queue) <= Capacity
    BY <1>1, WorkersPositive
  <2> QED BY <1>1, <2>1, <2>2, <2>3, <2>4 DEF TypeOK
<1> QED BY <1>1, <1>2 DEF Init, PlaceInv, Employed, AnsweredQueued, OncePlaced,
             PendingPlaced, Pending, Positions, Busy, Processing

(* The inductive invariant of the places of the tasks.                     *)
THEOREM PlaceInvariant == Spec => []PlaceInv
BY InitPlace, NextPlace, PTL DEF Spec

(* Every variable keeps its type, and the queue its capacity.              *)
THEOREM TypeCorrect == Spec => []TypeOK
BY PlaceInvariant, PTL DEF PlaceInv

(* The invariant says where each task is.                                  *)
LEMMA PlaceOnce == PlaceInv => EachTaskOnce
<1> SUFFICES ASSUME PlaceInv, NEW t \in Tasks
             PROVE  Cardinality(Waiting(t)) + Cardinality(Holding(t)) =
                      IF Pending(t) THEN 1 ELSE 0
  BY DEF EachTaskOnce, Placed, Pending
<1> USE DEF PlaceInv
<1>1. Cardinality({}) = 0 /\ \A x : Cardinality({x}) = 1
  BY FS_EmptySet, FS_Singleton
<1>2. /\ Waiting(t) = {} \/ \E i \in Positions : Waiting(t) = {i}
      /\ Holding(t) = {} \/ \E w \in Busy : Holding(t) = {w}
      /\ Waiting(t) = {} \/ Holding(t) = {}
  BY DEF OncePlaced, Waiting, Holding, Positions
<1>3. Pending(t) <=> Waiting(t) # {} \/ Holding(t) # {}
  BY DEF PendingPlaced, Waiting, Holding, Positions
<1>4. /\ Waiting(t) = {} => Cardinality(Waiting(t)) = 0
      /\ Waiting(t) # {} => Cardinality(Waiting(t)) = 1
  BY <1>1, <1>2
<1>5. /\ Holding(t) = {} => Cardinality(Holding(t)) = 0
      /\ Holding(t) # {} => Cardinality(Holding(t)) = 1
  BY <1>1, <1>2
<1> QED BY <1>2, <1>3, <1>4, <1>5

(* A task is in exactly one place from its acceptance to its Done, and in  *)
(* none before and after.                                                  *)
THEOREM EachTaskOnceHolds == Spec => []EachTaskOnce
BY PlaceOnce, PlaceInvariant, PTL

-----------------------------------------------------------------------------
(* How far a task has come, when it is in its place.                       *)
Held(t) == \E w \in Busy : task[w] = t

Stage(t) ==
  IF caller[t] \in {"idle", "admitted"} THEN "new"
  ELSE IF caller[t] \in {"refused", "full"} THEN "refused"
  ELSE IF done[t] # "none" THEN done[t]
  ELSE IF Held(t) THEN "running" ELSE "accepted"

LEMMA ProgressIsStage == PlaceInv => \A t \in Tasks : Progress(t) = Stage(t)
<1> SUFFICES ASSUME PlaceInv, NEW t \in Tasks PROVE Progress(t) = Stage(t)
  OBVIOUS
<1>1. Placed(t)
  BY PlaceOnce DEF EachTaskOnce
<1>2. Held(t) <=> Holding(t) # {}
  BY DEF Held, Holding
<1>3. caller[t] \in {"idle", "admitted", "queued", "refused", "full"}
  BY DEF PlaceInv, TypeOK
<1> QED BY <1>1, <1>2, <1>3 DEF Progress, Stage

LEMMA ProgressIsStageNext ==
  PlaceInv' => (\A t \in Tasks : Progress(t) = Stage(t))'
BY ProgressIsStage, PTL

(* A step that changes no task's stage, and one that changes that of one   *)
(* task, as TaskService sees them.                                         *)
LEMMA Stutters ==
  ASSUME PlaceInv, PlaceInv', \A u \in Tasks : Stage(u)' = Stage(u)
  PROVE  [t \in Tasks |-> Progress(t)]' = [t \in Tasks |-> Progress(t)]
BY ProgressIsStage, ProgressIsStageNext

LEMMA Moves ==
  ASSUME PlaceInv, PlaceInv', NEW t \in Tasks, NEW from, NEW to,
         Stage(t) = from, Stage(t)' = to,
         \A u \in Tasks \ {t} : Stage(u)' = Stage(u)
  PROVE  Service!Move(t, from, to)
<1>1. /\ \A u \in Tasks : Progress(u) = Stage(u)
      /\ \A u \in Tasks : Progress(u)' = Stage(u)'
  BY ProgressIsStage, ProgressIsStageNext
<1> QED BY <1>1 DEF Service!Move

(* Queue refuses a task, or accepts it when it sends it.                   *)
LEMMA SubmitMoves ==
  ASSUME PlaceInv, PlaceInv', NEW t \in Tasks, Submit(t)
  PROVE  [Service!Next]_[u \in Tasks |-> Progress(u)]
<1> USE DEF PlaceInv, TypeOK
<1>1. UNCHANGED <<done, pc, task>>
  BY DEF Submit, QueueChecks, QueueSends, QueuePanics, QueueTimesOut,
         taskVars, workerVars
<1>2. \A u \in Tasks : Held(u)' <=> Held(u)
  BY <1>1 DEF Held, Busy
<1>3. CASE caller' = [caller EXCEPT ![t] = "admitted"] /\ caller[t] = "idle"
  <2>1. \A u \in Tasks : Stage(u)' = Stage(u)
    BY <1>1, <1>2, <1>3 DEF Stage
  <2> QED BY <2>1, Stutters
<1>4. CASE /\ caller[t] \in {"idle", "admitted"}
           /\ \E to \in {"refused", "full"} : caller' = [caller EXCEPT ![t] = to]
  <2>1. Stage(t) = "new" /\ Stage(t)' = "refused"
    BY <1>4 DEF Stage
  <2>2. \A u \in Tasks \ {t} : Stage(u)' = Stage(u)
    BY <1>1, <1>2, <1>4 DEF Stage
  <2>3. Service!Refuse(t)
    BY <2>1, <2>2, Moves DEF Service!Refuse
  <2> QED BY <2>3 DEF Service!Next
<1>5. CASE caller[t] = "admitted" /\ caller' = [caller EXCEPT ![t] = "queued"]
  <2>1. done[t] = "none" /\ ~Held(t)
    BY <1>5 DEF AnsweredQueued, PendingPlaced, Pending, Held
  <2>2. Stage(t) = "new" /\ Stage(t)' = "accepted"
    BY <1>1, <1>2, <1>5, <2>1 DEF Stage
  <2>3. \A u \in Tasks \ {t} : Stage(u)' = Stage(u)
    BY <1>1, <1>2, <1>5 DEF Stage
  <2>4. Service!Accept(t)
    BY <2>2, <2>3, Moves DEF Service!Accept
  <2> QED BY <2>4 DEF Service!Next
<1>6. CASE caller' = caller
  <2>1. \A u \in Tasks : Stage(u)' = Stage(u)
    BY <1>1, <1>2, <1>6 DEF Stage
  <2> QED BY <2>1, Stutters
<1> QED BY <1>3, <1>4, <1>5, <1>6 DEF Submit, QueueChecks, QueueSends,
             QueuePanics, QueueTimesOut, taskVars

(* The worker that takes a task runs it.                                   *)
LEMMA TakeMoves ==
  ASSUME PlaceInv, PlaceInv', NEW w \in Goroutines, Take(w)
  PROVE  Service!Next
<1> USE DEF PlaceInv, TypeOK
<1>0. 1 \in Positions /\ queue[1] = Head(queue) /\ Head(queue) \in Tasks
  <2>1. Len(queue) \in Nat \ {0} /\ Head(queue) = queue[1]
    BY EmptySeq DEF Take
  <2> QED BY <2>1, HeadTailProperties DEF Take, Positions
<1> PICK t \in Tasks : t = Head(queue)
  BY <1>0
<1>1. /\ pc[w] = "select"
      /\ task' = [task EXCEPT ![w] = t] /\ pc' = [pc EXCEPT ![w] = "begin"]
      /\ UNCHANGED <<caller, done>>
  BY DEF Take, taskVars
<1>2. 1 \in Positions /\ queue[1] = t
  BY <1>0
<1>3. /\ Busy' = Busy \cup {w} /\ w \notin Busy /\ task'[w] = t
      /\ \A x \in Busy : task'[x] = task[x]
  BY <1>1 DEF Busy, Processing
<1>4. Pending(t) /\ ~Held(t)
  BY <1>2 DEF PendingPlaced, OncePlaced, Held
<1>5. Held(t)' /\ \A u \in Tasks \ {t} : Held(u)' <=> Held(u)
  BY <1>3 DEF Held
<1>6. Stage(t) = "accepted" /\ Stage(t)' = "running"
  BY <1>1, <1>4, <1>5 DEF Stage, Pending
<1>7. \A u \in Tasks \ {t} : Stage(u)' = Stage(u)
  BY <1>1, <1>5 DEF Stage
<1>8. Service!Run(t)
  BY <1>6, <1>7, Moves DEF Service!Run
<1> QED BY <1>8 DEF Service!Next

(* Its report is the answer to that task.                                  *)
LEMMA ReportMoves ==
  ASSUME PlaceInv, PlaceInv', NEW w \in Goroutines, Report(w)
  PROVE  Service!Next
<1> USE DEF PlaceInv, TypeOK
<1>0. w \in Busy /\ task[w] \in Tasks
  BY DEF Report, Employed, Busy, Outcomes, Processing
<1> PICK t \in Tasks : t = task[w]
  BY <1>0
<1> PICK to \in Outcomes : to = pc[w]
  BY DEF Report
<1>1. /\ done' = [done EXCEPT ![t] = to]
      /\ task' = [task EXCEPT ![w] = NoTask] /\ pc' = [pc EXCEPT ![w] = "select"]
      /\ caller' = caller
  BY DEF Report
<1>2. w \in Busy /\ task[w] = t
  BY <1>0
<1>3. Pending(t) /\ Held(t)
  BY <1>2 DEF PendingPlaced, Held
<1>4. Busy' = Busy \ {w} /\ \A x \in Busy' : task'[x] = task[x]
  BY <1>1 DEF Busy, Processing
<1>5. \A u \in Tasks \ {t} : Held(u)' <=> Held(u)
  BY <1>4 DEF Held
<1>6. Stage(t) = "running" /\ Stage(t)' = to
  BY <1>1, <1>2, <1>3 DEF Stage, Pending, Outcomes
<1>7. \A u \in Tasks \ {t} : Stage(u)' = Stage(u)
  BY <1>1, <1>2, <1>5 DEF Stage
<1>8. Service!Move(t, "running", to)
  BY <1>6, <1>7, Moves
<1>9. Service!Answer(t)
  BY <1>8 DEF Service!Answer, Outcomes
<1> QED BY <1>9 DEF Service!Next

(* No other step changes how far a task has come.                          *)
LEMMA OthersStutter ==
  ASSUME PlaceInv, PlaceInv',
         \/ Start \/ Stop \/ UNCHANGED vars
         \/ \E w \in Goroutines : \/ Drained(w) \/ StopSeen(w)
                                 \/ SelectMirror(w) \/ Fails(w) \/ Succeeds(w)
  PROVE  [t \in Tasks |-> Progress(t)]' = [t \in Tasks |-> Progress(t)]
<1> USE DEF PlaceInv, TypeOK
<1>1. UNCHANGED <<caller, done, task>>
  BY DEF Start, Launch, Stop, Drained, StopSeen, SelectMirror, Fails, Succeeds,
         vars, taskVars, workerVars
<1>2. Busy' = Busy
  <2>1. CASE Start
    BY <2>1 DEF Start, Launch, Busy, Processing
  <2>2. CASE Stop \/ UNCHANGED vars
    BY <2>2 DEF Stop, vars, workerVars, Busy
  <2>3. ASSUME NEW w \in Goroutines,
               \/ Drained(w) \/ StopSeen(w)
               \/ SelectMirror(w) \/ Fails(w) \/ Succeeds(w)
        PROVE  Busy' = Busy
    <3>1. \/ pc[w] = "select" /\ pc' = [pc EXCEPT ![w] = "off"]
          \/ /\ pc[w] \in Processing
             /\ \E to \in Processing : pc' = [pc EXCEPT ![w] = to]
      BY <2>3 DEF Drained, StopSeen, SelectMirror, Fails, Succeeds, Processing
    <3> QED BY <3>1 DEF Busy, Processing
  <2> QED BY <2>1, <2>2, <2>3
<1>3. \A u \in Tasks : Stage(u)' = Stage(u)
  BY <1>1, <1>2 DEF Stage, Held
<1> QED BY <1>3, Stutters

(* The pool implements the service: whatever the interleaving of callers,  *)
(* workers, Start and Stop, a task is refused for good or accepted for     *)
(* good, run once and answered with the outcome of its run.                *)
THEOREM KeepsTasksHolds == Spec => KeepsTasks
<1>1. Init => Service!Init
  <2> SUFFICES ASSUME Init PROVE Service!Init
    OBVIOUS
  <2>1. \A t \in Tasks : Progress(t) = Stage(t)
    BY InitPlace, ProgressIsStage
  <2>2. \A t \in Tasks : Stage(t) = "new"
    BY DEF Init, Stage
  <2> QED BY <2>1, <2>2 DEF Service!Init
<1>2. PlaceInv /\ PlaceInv' /\ [Next]_vars
        => [Service!Next]_[t \in Tasks |-> Progress(t)]
  BY SubmitMoves, TakeMoves, ReportMoves, OthersStutter DEF Next, Work
<1> QED BY <1>1, <1>2, PlaceInvariant, PTL DEF Spec, KeepsTasks, Service!Spec

-----------------------------------------------------------------------------
(* Downloads that were counted and have not ended.                         *)
UnderWay == {w \in Busy : pc[w] \notin Outcomes}

(* Goroutines that exist.                                                  *)
Existing == {w \in Goroutines : pc[w] # "off"}

(* Until the second Start, only the goroutines of the first exist.         *)
FewExist ==
  /\ starts = 0 => Existing = {}
  /\ starts = 1 => Cardinality(Existing) <= Workers

CountInv == Accounted /\ FewExist

(* Sets of goroutines are finite.                                          *)
LEMMA GoroutinesFinite ==
  /\ IsFiniteSet(UnderWay) /\ Cardinality(UnderWay) \in Nat
  /\ IsFiniteSet(Existing) /\ Cardinality(Existing) \in Nat
<1>1. UnderWay \in SUBSET Goroutines /\ Existing \in SUBSET Goroutines
  BY DEF UnderWay, Busy, Existing
<1> QED BY <1>1, FS_Subset, FS_CardinalityType

(* Steps in which no download begins or ends and no goroutine starts.      *)
LEMMA CountKept ==
  ASSUME CountInv, UNCHANGED <<starts, total, successful, failed>>,
         UnderWay' = UnderWay, Existing' \subseteq Existing
  PROVE  CountInv'
<1>1. Accounted'
  BY DEF CountInv, Accounted, UnderWay
<1>2. FewExist'
  <2>1. Cardinality(Existing') <= Cardinality(Existing) /\ Cardinality(Existing') \in Nat
    BY GoroutinesFinite, FS_Subset, FS_CardinalityType
  <2>2. starts = 0 => Existing' = {}
    BY DEF CountInv, FewExist
  <2>3. starts = 1 => Cardinality(Existing') <= Workers
    BY <2>1, GoroutinesFinite, WorkersPositive DEF CountInv, FewExist
  <2> QED BY <2>2, <2>3 DEF FewExist
<1> QED BY <1>1, <1>2 DEF CountInv

(* A step in which a download ends is counted once.                        *)
LEMMA CountEnds ==
  ASSUME TypeOK, CountInv, NEW w \in UnderWay, UnderWay' = UnderWay \ {w},
         \/ failed' = failed + 1 /\ successful' = successful
         \/ failed' = failed /\ successful' = successful + 1,
         total' = total, starts' = starts, Existing' \subseteq Existing
  PROVE  CountInv'
<1>1. Cardinality(UnderWay') = Cardinality(UnderWay) - 1
  BY GoroutinesFinite, FS_RemoveElement
<1>2. Accounted'
  <2>1. total = successful + failed + Cardinality(UnderWay)
    BY DEF CountInv, Accounted, UnderWay
  <2>2. total' = successful' + failed' + Cardinality(UnderWay')
    BY <1>1, <2>1, GoroutinesFinite DEF TypeOK
  <2> QED BY <2>2 DEF Accounted, UnderWay
<1>3. FewExist'
  <2>1. Cardinality(Existing') <= Cardinality(Existing) /\ Cardinality(Existing') \in Nat
    BY GoroutinesFinite, FS_Subset, FS_CardinalityType
  <2>2. starts = 0 => Existing' = {}
    BY DEF CountInv, FewExist
  <2>3. starts = 1 => Cardinality(Existing') <= Workers
    BY <2>1, GoroutinesFinite, WorkersPositive DEF CountInv, FewExist
  <2> QED BY <2>2, <2>3 DEF FewExist
<1> QED BY <1>2, <1>3 DEF CountInv

(* Take counts the download it begins.                                     *)
LEMMA CountBegins ==
  ASSUME TypeOK, CountInv, NEW w \in Goroutines, Take(w)
  PROVE  CountInv'
<1>1. /\ pc[w] = "select" /\ pc' = [pc EXCEPT ![w] = "begin"]
      /\ total' = total + 1 /\ UNCHANGED <<starts, successful, failed>>
  BY DEF Take
<1>2. /\ UnderWay' = UnderWay \cup {w} /\ w \notin UnderWay
      /\ Existing' = Existing
  BY <1>1 DEF TypeOK, UnderWay, Busy, Existing, Processing, Outcomes
<1>3. Cardinality(UnderWay') = Cardinality(UnderWay) + 1
  BY <1>2, GoroutinesFinite, FS_AddElement
<1>4. Accounted'
  <2>1. total = successful + failed + Cardinality(UnderWay)
    BY DEF CountInv, Accounted, UnderWay
  <2>2. total' = successful' + failed' + Cardinality(UnderWay')
    BY <1>1, <1>3, <2>1, GoroutinesFinite DEF TypeOK
  <2> QED BY <2>2 DEF Accounted, UnderWay
<1>5. FewExist'
  BY <1>1, <1>2 DEF CountInv, FewExist
<1> QED BY <1>4, <1>5 DEF CountInv

(* The first Start makes as many goroutines as there are workers.          *)
LEMMA CountStart ==
  ASSUME TypeOK, CountInv, Start
  PROVE  CountInv'
<1>1. PICK new \in SUBSET {w \in Goroutines : pc[w] = "off"} :
        /\ Cardinality(new) = Workers
        /\ pc' = [w \in Goroutines |-> IF w \in new THEN "select" ELSE pc[w]]
  BY DEF Start, Launch
<1>2. starts' = starts + 1 /\ UNCHANGED <<total, successful, failed>>
  BY DEF Start, Launch, metricVars
<1>3. UnderWay' = UnderWay /\ Existing' = Existing \cup new
  BY <1>1 DEF TypeOK, UnderWay, Busy, Existing, Processing, Outcomes
<1>4. Accounted'
  BY <1>2, <1>3 DEF CountInv, Accounted, UnderWay
<1>5. FewExist'
  <2>1. starts' # 0 /\ (starts' = 1 => starts = 0)
    BY <1>2 DEF TypeOK
  <2>2. starts = 0 => Existing' = new
    BY <1>3 DEF CountInv, FewExist
  <2> QED BY <1>1, <2>1, <2>2, WorkersPositive DEF FewExist
<1> QED BY <1>4, <1>5 DEF CountInv

(* The counts are inductive, given the types.                              *)
LEMMA NextCount == TypeOK /\ CountInv /\ [Next]_vars => CountInv'
<1> SUFFICES ASSUME TypeOK, CountInv, [Next]_vars PROVE CountInv'
  OBVIOUS
<1>1. CASE UNCHANGED <<pc, starts, total, successful, failed>>
  <2>1. UnderWay' = UnderWay /\ Existing' = Existing
    BY <1>1 DEF UnderWay, Busy, Existing
  <2> QED BY <1>1, <2>1, CountKept
<1>2. CASE UNCHANGED vars \/ Stop \/ \E t \in Tasks : Submit(t)
  BY <1>1, <1>2 DEF vars, workerVars, metricVars, Stop, Submit, QueueChecks,
                    QueueSends, QueuePanics, QueueTimesOut
<1>3. ASSUME NEW w \in Goroutines, Drained(w) \/ StopSeen(w) PROVE CountInv'
  <2>1. /\ pc[w] = "select" /\ pc' = [pc EXCEPT ![w] = "off"]
        /\ UNCHANGED <<starts, total, successful, failed>>
    BY <1>3 DEF Drained, StopSeen, metricVars
  <2>2. UnderWay' = UnderWay /\ Existing' \subseteq Existing
    BY <2>1 DEF TypeOK, UnderWay, Busy, Existing, Processing, Outcomes
  <2> QED BY <2>1, <2>2, CountKept
<1>4. ASSUME NEW w \in Goroutines, SelectMirror(w) \/ Report(w)
      PROVE  CountInv'
  <2>1. /\ \/ pc[w] = "begin" /\ pc' = [pc EXCEPT ![w] = "download"]
           \/ pc[w] \in Outcomes /\ pc' = [pc EXCEPT ![w] = "select"]
        /\ UNCHANGED <<starts, total, successful, failed>>
    BY <1>4 DEF SelectMirror, Report, metricVars
  <2>2. UnderWay' = UnderWay /\ Existing' = Existing
    BY <2>1 DEF TypeOK, UnderWay, Busy, Existing, Processing, Outcomes
  <2> QED BY <2>1, <2>2, CountKept
<1>5. ASSUME NEW w \in Goroutines, Fails(w) \/ Succeeds(w) PROVE CountInv'
  <2>1. /\ pc[w] \in {"begin", "download"}
        /\ \E to \in Outcomes : pc' = [pc EXCEPT ![w] = to]
        /\ \/ failed' = failed + 1 /\ successful' = successful
           \/ failed' = failed /\ successful' = successful + 1
        /\ total' = total /\ starts' = starts
    BY <1>5 DEF Fails, Succeeds, Outcomes
  <2>2. w \in UnderWay /\ UnderWay' = UnderWay \ {w} /\ Existing' = Existing
    BY <2>1 DEF TypeOK, UnderWay, Busy, Existing, Processing, Outcomes
  <2> QED BY <2>1, <2>2, CountEnds
<1> QED BY <1>2, <1>3, <1>4, <1>5, CountBegins, CountStart DEF Next, Work

(* The counts hold in every state.                                         *)
THEOREM CountInvariant == Spec => []CountInv
<1>1. Init => CountInv
  <2> SUFFICES ASSUME Init PROVE CountInv
    OBVIOUS
  <2>1. Busy = {} /\ UnderWay = {} /\ Existing = {}
    BY DEF Init, Busy, UnderWay, Existing, Processing
  <2>2. Cardinality(UnderWay) = 0
    BY <2>1, FS_EmptySet
  <2> QED BY <2>1, <2>2 DEF Init, CountInv, Accounted, FewExist, UnderWay
<1> QED BY <1>1, NextCount, TypeCorrect, PTL DEF Spec

(* The metrics add up: counted downloads have succeeded, have failed or    *)
(* are under way.                                                          *)
THEOREM AccountedHolds == Spec => []Accounted
BY CountInvariant, PTL DEF CountInv

(* Until it is started a second time the pool never runs more downloads at *)
(* a time than it has workers, whatever the number asked for.              *)
THEOREM BoundedHolds == Spec => []Bounded
<1>1. TypeOK /\ CountInv => Bounded
  <2> SUFFICES ASSUME TypeOK, CountInv, starts < 2
               PROVE  Cardinality(Busy) <= Workers
    BY DEF Bounded
  <2>1. Busy \in SUBSET Existing
    BY DEF TypeOK, Busy, Existing, Processing
  <2>2. Cardinality(Busy) <= Cardinality(Existing) /\ Cardinality(Busy) \in Nat
    BY <2>1, GoroutinesFinite, FS_Subset, FS_CardinalityType
  <2>3. starts = 0 \/ starts = 1
    BY DEF TypeOK
  <2>4. Cardinality(Existing) <= Workers
    BY <2>3, FS_EmptySet, WorkersPositive DEF CountInv, FewExist
  <2> QED BY <2>2, <2>4, GoroutinesFinite, WorkersPositive
<1> QED BY <1>1, CountInvariant, TypeCorrect, PTL

=============================================================================
