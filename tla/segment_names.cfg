\* Counterexample: segments are named after their size, so an older one may be replaced or replayed late.
SPECIFICATION Spec
CONSTANTS
  Key = {k1, k2}
  Val = {v}
  None = None
  Torn = Torn
  BufLimit = 1
  MaxRecords = 3
CONSTRAINT FewMishaps
PROPERTIES SegmentsKeepOrder
