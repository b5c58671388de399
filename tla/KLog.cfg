\* Three CPUs with two-slot buffers log four records (a buffer can wrap),
\* writers race three ways on seq_lock, one reader snapshots with a budget
\* that can run out inside the first or the middle CPU (2) or takes
\* everything (5), and one klog_clear and one klog_get_dropped run
\* concurrently.
CONSTANTS
  NCPU = 3
  KLOG_BUF_SIZE = 2
  r1 = r1
  r2 = r2
  Readers <- MCReaderOne
  MaxEntries = {2, 5}
  MaxSeq = 4
  MaxSnapshots = 1
  MaxClears = 1
  MaxDropQueries = 1
  SEQ_MOD = 1024
  HEAD_MOD = 1024
SPECIFICATION Spec
INVARIANT TypeOK
INVARIANT SnapshotOrdered
PROPERTY ImplementsBuffers
