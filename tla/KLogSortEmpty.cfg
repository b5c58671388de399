\* klog_clear followed by a snapshot: every buffer is empty, count = 0,
\* and the sort loop bound count - 1 is compared as uint.
CONSTANTS
  NCPU = 2
  KLOG_BUF_SIZE = 2
  r1 = r1
  r2 = r2
  Readers <- MCReaderOne
  MaxEntries = {3}
  MaxSeq = 2
  MaxSnapshots = 1
  MaxClears = 1
  MaxDropQueries = 0
  SEQ_MOD = 1024
  HEAD_MOD = 1024
SPECIFICATION Spec
INVARIANT SortStaysInBuffer
