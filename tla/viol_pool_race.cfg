\* Stop between the two halves of Queue.
SPECIFICATION Spec
CONSTANTS
  t1 = t1
  t2 = t2
  t3 = t3
  w1 = w1
  w2 = w2
  Tasks = {t1, t2, t3}
  Goroutines = {w1, w2}
  NoTask = NoTask
  Requested = 1
  MaxWorkers = 100
  MaxStarts = 1
CHECK_DEADLOCK FALSE
INVARIANT
  QueueRefuses
