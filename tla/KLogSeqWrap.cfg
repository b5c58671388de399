\* global_seq is a uint: scaled down to 4 values.  CPU 0 keeps the boot
\* record, CPU 1 logs on until the counter wraps, then a snapshot runs.
CONSTANTS
  NCPU = 2
  KLOG_BUF_SIZE = 2
  r1 = r1
  r2 = r2
  Readers <- MCReaderOne
  MaxEntries = {3}
  MaxSeq = 5
  MaxSnapshots = 1
  MaxClears = 0
  MaxDropQueries = 0
  SEQ_MOD = 4
  HEAD_MOD = 1024
SPECIFICATION Spec
INVARIANT SnapshotOrdered
