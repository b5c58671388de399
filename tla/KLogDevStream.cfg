\* cat /dev/klog: one process reads twice with room for three records
\* while one CPU holds two.
CONSTANTS
  NCPU = 1
  KLOG_BUF_SIZE = 2
  cat = cat
  tool = tool
  Readers <- MCCatOnly
  CatProcs <- MCCatOnly
  ToolProcs <- MCNone
  MaxEntries = {1, 2}
  MaxSeq = 2
  MaxSnapshots = 2
  MaxClears = 0
  MaxDropQueries = 0
  SEQ_MOD = 1024
  HEAD_MOD = 1024
  DEV_MAX = 2
  PAGE_FIT = 1
  GETKLOG_CEIL = 4
  ReadLens = {300}
  GetklogArgs = {1}
SPECIFICATION DevSpec
PROPERTY ReadsAdvance
