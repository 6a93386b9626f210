\* Counterexample: a snapshot that could not be written counts as one, and the log goes.
SPECIFICATION Spec
CONSTANTS
  Key = {k1, k2}
  Val = {v}
  None = None
  Torn = Torn
  BufLimit = 1
  MaxRecords = 3
CONSTRAINT FewMishaps
PROPERTIES SnapshotCommits
