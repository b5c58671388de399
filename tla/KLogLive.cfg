\* Progress of every call under the fairness of UlogLiveSpec: klog_init's boot
\* record is followed by one more log call on either CPU, while a process
\* reads /dev/klog once (n = 168, two whole records), ulog_tool runs once
\* (getklog(entries, 64) scaled to 2 and clamped to a page of 1), and a clear and a klog_get_dropped run, all
\* contending for the per-CPU locks.
CONSTANTS
  NCPU = 2
  KLOG_BUF_SIZE = 2
  cat = cat
  tool = tool
  Readers <- MCReaders
  CatProcs <- MCCat
  ToolProcs <- MCTool
  MaxEntries = {1, 2}
  MaxSeq = 2
  MaxSnapshots = 1
  MaxClears = 1
  MaxDropQueries = 1
  SEQ_MOD = 1024
  HEAD_MOD = 1024
  DEV_MAX = 2
  PAGE_FIT = 1
  GETKLOG_CEIL = 4
  ULOG_MAX = 2
  ReadLens = {168}
  GetklogArgs = {2}
  RecordLevel <- MCRecordLevel
  LevelArgs = {4}
SPECIFICATION UlogLiveSpec
PROPERTY CallsReturn
PROPERTY UserCallsReturn
