\* The queue without priorities (QNP) at work: batches handed out to workers.
SPECIFICATION Spec
CONSTANTS
  Task = {t1, t2}
  Worker = {w1, w2}
  Steady = w1
  Reactor = {r1}
  Absent = Absent
  PopSize = 2
  LeaseTime = 2
  HistoryTime = 1
  MaxTime = 2
  MaxAsks = 3
  MaxMishaps = 1
INVARIANTS LeasesSound NothingLost
PROPERTIES LeaveTried EveryTaskTried
CHECK_DEADLOCK FALSE
