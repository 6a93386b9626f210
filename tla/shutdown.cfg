\* Destroying an idle queue, or one that has just answered.
SPECIFICATION FairSpec
CONSTANTS
  Client = {c1}
  Reactor = {r1, r2}
PROPERTIES ShutdownTerminates
CHECK_DEADLOCK FALSE
