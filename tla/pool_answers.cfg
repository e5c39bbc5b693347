\* One worker, a queue of two, a stop and a restart; a panicked process is stopped.
SPECIFICATION Spec
CONSTANTS
  t1 = t1
  t2 = t2
  t3 = t3
  w1 = w1
  w2 = w2
  Tasks = {t1, t2, t3}
  Goroutines = {w1, w2}
  NoTask = NoTask
  Requested = 3
  MaxWorkers = 1
  MaxStarts = 2
CHECK_DEADLOCK FALSE
INVARIANTS
  Accounted Bounded
PROPERTIES
  KeepsTasks AcceptedAnswered WorkersEnd
