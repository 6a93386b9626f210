\* Three clients, a pool of one, and backends that may end at any time.
SPECIFICATION Spec
CONSTANTS
  Session = {s1, s2, s3}
  pool_size = 1
  MaxBackends = 3
INVARIANTS TypeOK AliveCounted NoneStranded SizeKept
PROPERTIES CleanHandover
