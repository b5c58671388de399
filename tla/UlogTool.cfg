\* Two CPUs with two-slot buffers hold three records; a process reads
\* /dev/klog with n of 83, 168 and 300 bytes (none, two and three whole
\* records) while ulog_tool runs once, calling getklog with 64 (scaled to
\* 2), which the kernel clamps to a page (scaled to 1); klog_clear runs
\* once.  Sizes keep the order of the code: PAGE_FIT (48) < DEV_MAX = 64
\* = ULOG_MAX < GETKLOG_CEIL (1024), and the records kept exceed both
\* arrays.  The three records carry levels 0, 4 and 3.
CONSTANTS
  NCPU = 2
  KLOG_BUF_SIZE = 2
  cat = cat
  tool = tool
  Readers <- MCReaders
  CatProcs <- MCCat
  ToolProcs <- MCTool
  MaxEntries = {1, 2}
  MaxSeq = 3
  MaxSnapshots = 2
  MaxClears = 1
  MaxDropQueries = 0
  SEQ_MOD = 1024
  HEAD_MOD = 1024
  DEV_MAX = 2
  PAGE_FIT = 1
  GETKLOG_CEIL = 4
  ULOG_MAX = 2
  ReadLens = {83, 168, 300}
  GetklogArgs = {2}
  RecordLevel <- MCRecordLevel
  LevelArgs = {4}
SPECIFICATION UlogSpec
INVARIANT UlogTypeOK
INVARIANT SnapshotStaysInDestination
INVARIANT NoPageLeak
INVARIANT ReadReturnsWholeRecords
INVARIANT UlogPrintsSnapshot
