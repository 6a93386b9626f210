\* Requests of three connection threads, served by two reactors.
SPECIFICATION FairSpec
CONSTANTS
  Client = {c1, c2, c3}
  Reactor = {r1, r2}
INVARIANTS TypeOK OnePlace NoSleepingWork
PROPERTIES EveryCallReturns
\* The program ends after the destructor.
CHECK_DEADLOCK FALSE
