\* Every way of logging, snapshotting, stopping and crashing, up to the first mishap,
\* and on when the mishap is that no log could be opened.
SPECIFICATION Spec
CONSTANTS
  Key = {k1, k2}
  Val = {v}
  None = None
  Torn = Torn
  BufLimit = 1
  MaxRecords = 3
CONSTRAINT Logless
INVARIANTS TypeOK
PROPERTIES Durable
