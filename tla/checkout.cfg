\* Counterexample: the new backend is gone before the task that started it claims it.
SPECIFICATION Spec
CONSTANTS
  Session = {s1, s2, s3}
  pool_size = 1
  MaxBackends = 3
INVARIANTS ClaimFindsPipes
CHECK_DEADLOCK FALSE
