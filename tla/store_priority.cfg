\* The priority queue (QP): positions merge moves, selections replace.
SPECIFICATION Spec
CONSTANTS
  Key = {k1, k2}
  Move = {m1, m2}
  Absent = Absent
  Reactor = {r1, r2}
  Pri = {0, 1}
  WithPriority = TRUE
  AutoExpiryThreshold = 0
  PushModes = {"insert", "replace", "merge"}
  MaxTime = 2
  MaxBatch = 2
SYMMETRY Interchangeable
INVARIANTS TypeOK IndexConsistent ReplayAgrees
PROPERTIES LossAccounted NothingForgotten
