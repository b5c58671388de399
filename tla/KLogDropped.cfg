\* One CPU's buffer wraps: three records into two slots.
CONSTANTS
  NCPU = 1
  KLOG_BUF_SIZE = 2
  r1 = r1
  r2 = r2
  Readers <- MCReaderOne
  MaxEntries = {3}
  MaxSeq = 4
  MaxSnapshots = 0
  MaxClears = 0
  MaxDropQueries = 1
  SEQ_MOD = 1024
  HEAD_MOD = 1024
SPECIFICATION Spec
INVARIANT DroppedCountsOverwrites
