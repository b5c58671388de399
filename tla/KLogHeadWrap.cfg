\* cpu_logs[c].head is a uint: scaled down to 4 values (a multiple of the
\* buffer size, as 2^32 is of 256).  One CPU logs past the wrap.
CONSTANTS
  NCPU = 1
  KLOG_BUF_SIZE = 2
  r1 = r1
  r2 = r2
  Readers <- MCReaderOne
  MaxEntries = {3}
  MaxSeq = 5
  MaxSnapshots = 1
  MaxClears = 0
  MaxDropQueries = 0
  SEQ_MOD = 1024
  HEAD_MOD = 4
SPECIFICATION Spec
PROPERTY ImplementsBuffers
