-------------------------------- MODULE KLog --------------------------------
(***************************************************************************)
(* The kernel logging engine of xv6-public/klog.c (stored in               *)
(* src/xv6-public/klogdev.c from line 57): per-CPU ring buffers            *)
(* cpu_logs[NCPU], the global sequence counter global_seq behind seq_lock, *)
(* klog_printf_internal, klog_snapshot, klog_clear and klog_get_dropped.   *)
(*                                                                         *)
(* Actors: one writer per CPU (klog_printf_internal runs between pushcli   *)
(* and popcli, so it is pinned to its CPU and cannot interleave with       *)
(* another log call on that CPU), snapshot callers (getklog, /dev/klog),   *)
(* and one caller each of klog_clear and klog_get_dropped.                 *)
(*                                                                         *)
(* Data is abstracted: an entry keeps its seq; cpu is the buffer index,    *)
(* pid, level, timestamp and message are left out (no property reads      *)
(* them).  A critical section that touches only one CPU's buffer is one    *)
(* step; the writer's critical section is two steps because the sequence   *)
(* allocation inside it is the point where CPUs race on seq_lock.          *)
(***************************************************************************)
EXTENDS Integers, Sequences, FiniteSets, TLC

CONSTANTS
  NCPU,           \* number of per-CPU buffers, cpu_logs[NCPU]
  KLOG_BUF_SIZE,  \* slots per buffer
  Readers,        \* processes that call klog_snapshot
  MaxEntries,     \* the max_entries arguments a caller may pass
  MaxSeq,         \* bound: records logged in one behaviour
  MaxSnapshots,   \* bound: snapshots taken by each reader
  MaxClears,      \* bound: calls of klog_clear
  MaxDropQueries, \* bound: calls of klog_get_dropped
  SEQ_MOD,        \* 2^32: range of the uint sequence numbers (scaled down)
  HEAD_MOD        \* 2^32: range of the uint cpu_logs[c].head (scaled down)

ASSUME NCPU \in Nat \ {0}
ASSUME KLOG_BUF_SIZE \in Nat \ {0}
ASSUME MaxEntries \subseteq Nat \ {0}
ASSUME MaxSeq \in Nat /\ MaxSnapshots \in Nat
ASSUME MaxClears \in Nat /\ MaxDropQueries \in Nat
ASSUME SEQ_MOD \in Nat \ {0}
\* 2^32 is a multiple of KLOG_BUF_SIZE (256): the slot index does not jump
\* when head wraps.
ASSUME HEAD_MOD \in Nat \ {0} /\ HEAD_MOD % KLOG_BUF_SIZE = 0

CPUS == 0 .. NCPU - 1
SlotIdx == 0 .. KLOG_BUF_SIZE - 1
\* Stands for a uint of 2^31 or more: count - 1 < 0 compared as uint is
\* 2^32 + (count - 1), which TLC cannot represent; any value above every
\* buffer index says the same about the sort loop.
UINT_WRAPPED == 2147483647

VARIABLES
  global_seq,   \* calls of next_seq so far; the uint global_seq of the
                \* code is global_seq % SEQ_MOD
  head,         \* head[c]: cpu_logs[c].head, records appended since clear,
                \* modulo HEAD_MOD
  dropped,      \* dropped[c]: cpu_logs[c].dropped
  entries,      \* entries[c][i]: seq stored in slot i of cpu_logs[c]
  wpc,          \* wpc[c]: "idle", or "fill" while the writer on c holds the lock
  rpc,          \* rpc[r]: "idle" or "collect" (inside klog_snapshot)
  rcur,         \* rcur[r]: loop variable cpu_id of klog_snapshot
  rmax,         \* rmax[r]: max_entries argument of the running snapshot
  rout,         \* rout[r]: buf[0..count-1] being collected
  rres,         \* rres[r]: the array returned by the last snapshot
  rtouch,       \* rtouch[r]: highest buf index the last sort compared
  rdone,        \* rdone[r]: snapshots completed by r
  cpc, ccur, cdone,         \* klog_clear: pc, loop cpu_id, calls done
  gpc, gcur, gtotal, gres,  \* klog_get_dropped: pc, cpu_id, total, result
  gdone                     \* calls of klog_get_dropped done

writerVars == <<wpc>>
readerVars == <<rpc, rcur, rmax, rout, rres, rtouch, rdone>>
clearVars  == <<cpc, ccur, cdone>>
dropVars   == <<gpc, gcur, gtotal, gres, gdone>>
bufVars    == <<global_seq, head, dropped, entries>>
vars == <<bufVars, writerVars, readerVars, clearVars, dropVars>>

Entry == [seq : Nat, cpu : CPUS]

\* cpu_logs[c].lock is free: the only actor that holds it across steps is
\* the writer of c, between LogBegin and LogCommit.
LockFree(c) == wpc[c] = "idle"

\* Mutant: the wrap-around branch forgotten, copying always starts at 0.
WindowStartNoWrap(h) == 0

\* Range of positions klog_snapshot copies from a buffer whose head is h.
WindowStart(h) == IF h > KLOG_BUF_SIZE THEN h - KLOG_BUF_SIZE ELSE 0

MinOf(a, b) == IF a < b THEN a ELSE b

(***************************************************************************)
(* klog_init: every buffer empty and, because klog_init ends with          *)
(* klog_printf, the boot CPU 0 holding the record with seq 0.              *)
(***************************************************************************)
Init ==
  /\ global_seq = 1
  /\ head = [c \in CPUS |-> IF c = 0 THEN 1 ELSE 0]
  /\ dropped = [c \in CPUS |-> 0]
  /\ entries = [c \in CPUS |-> [i \in SlotIdx |-> 0]]
  /\ wpc = [c \in CPUS |-> "idle"]
  /\ rpc = [r \in Readers |-> "idle"]
  /\ rcur = [r \in Readers |-> 0]
  /\ rmax = [r \in Readers |-> CHOOSE m \in MaxEntries : TRUE]
  /\ rout = [r \in Readers |-> <<>>]
  /\ rres = [r \in Readers |-> <<>>]
  /\ rtouch = [r \in Readers |-> -1]
  /\ rdone = [r \in Readers |-> 0]
  /\ cpc = "idle" /\ ccur = 0 /\ cdone = 0
  /\ gpc = "idle" /\ gcur = 0 /\ gtotal = 0 /\ gres = 0 /\ gdone = 0

(***************************************************************************)
(* klog_printf_internal on CPU c.  LogBegin: pushcli, cpuid, acquire the   *)
(* CPU's lock, idx = head % KLOG_BUF_SIZE, entry->seq = next_seq() (which  *)
(* takes seq_lock, reads and increments global_seq).  The slot is          *)
(* overwritten here, before head moves.                                    *)
(***************************************************************************)
\* next_seq(): seq = global_seq++ between acquire and release of seq_lock;
\* the value returned is the uint global_seq before the increment.
NextSeq == global_seq % SEQ_MOD

\* Mutant: seq = ++global_seq instead of global_seq++.
LogBeginPreIncrement(c) ==
  /\ wpc[c] = "idle"
  /\ global_seq < MaxSeq
  /\ entries' = [entries EXCEPT ![c][head[c] % KLOG_BUF_SIZE] =
                   (global_seq + 1) % SEQ_MOD]
  /\ global_seq' = global_seq + 1
  /\ wpc' = [wpc EXCEPT ![c] = "fill"]
  /\ UNCHANGED <<head, dropped, readerVars, clearVars, dropVars>>

LogBegin(c) ==
  /\ wpc[c] = "idle"
  /\ global_seq < MaxSeq
  /\ entries' = [entries EXCEPT ![c][head[c] % KLOG_BUF_SIZE] = NextSeq]
  /\ global_seq' = global_seq + 1
  /\ wpc' = [wpc EXCEPT ![c] = "fill"]
  /\ UNCHANGED <<head, dropped, readerVars, clearVars, dropVars>>

\* The rest of the critical section: fill the other fields, log->head++,
\* release the lock, popcli.  dropped is never touched.
LogCommit(c) ==
  /\ wpc[c] = "fill"
  /\ head' = [head EXCEPT ![c] = (@ + 1) % HEAD_MOD]
  /\ wpc' = [wpc EXCEPT ![c] = "idle"]
  /\ UNCHANGED <<global_seq, dropped, entries, readerVars, clearVars, dropVars>>

(***************************************************************************)
(* klog_snapshot(buf, max_entries) by reader r.  SnapStartWith is the     *)
(* call with a given max_entries; callers of KLogDev use it directly.      *)
(***************************************************************************)
SnapStartWith(r, m) ==
  /\ rpc[r] = "idle"
  /\ rdone[r] < MaxSnapshots
  /\ rmax' = [rmax EXCEPT ![r] = m]
  /\ rpc' = [rpc EXCEPT ![r] = "collect"]
  /\ rcur' = [rcur EXCEPT ![r] = 0]
  /\ rout' = [rout EXCEPT ![r] = <<>>]
  /\ UNCHANGED <<rres, rtouch, rdone, bufVars, writerVars, clearVars, dropVars>>

SnapStart(r) == \E m \in MaxEntries : SnapStartWith(r, m)

\* Mutant: the loop variable cpu_id is never advanced.
SnapVisitNoAdvance(r) ==
  LET c     == rcur[r]
      start == WindowStart(head[c])
      n     == MinOf(head[c] - start, rmax[r] - Len(rout[r]))
  IN /\ rpc[r] = "collect"
     /\ c < NCPU
     /\ LockFree(c)
     /\ rout' = [rout EXCEPT ![r] = @ \o
                  [k \in 1 .. n |-> [seq |-> entries[c][(start + k - 1) % KLOG_BUF_SIZE],
                                     cpu |-> c]]]
     /\ UNCHANGED <<rcur, rpc, rmax, rres, rtouch, rdone, bufVars, writerVars,
                    clearVars, dropVars>>

\* One iteration of the cpu_id loop: acquire that CPU's lock, compute
\* [start, end), copy while i < end && count < max_entries, release.
SnapVisit(r) ==
  LET c     == rcur[r]
      start == WindowStart(head[c])
      n     == MinOf(head[c] - start, rmax[r] - Len(rout[r]))
      copy  == [k \in 1 .. n |->
                  [seq |-> entries[c][(start + k - 1) % KLOG_BUF_SIZE],
                   cpu |-> c]]
  IN /\ rpc[r] = "collect"
     /\ c < NCPU
     /\ LockFree(c)
     /\ rout' = [rout EXCEPT ![r] = @ \o copy]
     /\ rcur' = [rcur EXCEPT ![r] = c + 1]
     /\ UNCHANGED <<rpc, rmax, rres, rtouch, rdone, bufVars, writerVars,
                    clearVars, dropVars>>

(***************************************************************************)
(* The bubble sort of lines 310-318.  BubblePass is the inner j loop,      *)
(* BubbleSort the outer i loop (buf is 1-based here, buf[j] of the code    *)
(* is buf[j+1]).                                                           *)
(***************************************************************************)
RECURSIVE BubblePass(_, _, _)
BubblePass(buf, j, lim) ==
  IF j >= lim THEN buf
  ELSE BubblePass(IF buf[j + 1].seq > buf[j + 2].seq
                    THEN [buf EXCEPT ![j + 1] = buf[j + 2], ![j + 2] = buf[j + 1]]
                    ELSE buf,
                  j + 1, lim)

RECURSIVE BubbleSort(_, _, _)
BubbleSort(buf, i, count) ==
  IF i >= count - 1 THEN buf
  ELSE BubbleSort(BubblePass(buf, 0, count - i - 1), i + 1, count)

\* Mutant: the outer loop runs over count - 1 elements instead of count.
KlogSortShort(buf) ==
  IF Len(buf) = 0 THEN buf ELSE BubbleSort(buf, 0, Len(buf) - 1)

\* The sort applied to the collected buffer.  With count = 0 the loops read
\* far outside buf (see SortLastIndex); the model then leaves buf as it is.
KlogSort(buf) ==
  IF Len(buf) = 0 THEN buf ELSE BubbleSort(buf, 0, Len(buf))

\* Highest index buf[j+1] the sort reads for a given count, or -1 if the
\* loops do not run.  i and j are uint, so count - 1 and count - i - 1 are
\* compared as uint: for count = 0 the bound is 2^32 - 1, not -1.
SortLastIndex(count) ==
  CASE count - 1 < 0 -> UINT_WRAPPED
    [] count - 1 > 0 -> count - 1
    [] OTHER         -> -1

\* After the last CPU: sort, return count.
SnapFinish(r) ==
  /\ rpc[r] = "collect"
  /\ rcur[r] = NCPU
  /\ rres' = [rres EXCEPT ![r] = KlogSort(rout[r])]
  /\ rtouch' = [rtouch EXCEPT ![r] = SortLastIndex(Len(rout[r]))]
  /\ rpc' = [rpc EXCEPT ![r] = "idle"]
  /\ rdone' = [rdone EXCEPT ![r] = @ + 1]
  /\ UNCHANGED <<rcur, rmax, rout, bufVars, writerVars, clearVars, dropVars>>

(***************************************************************************)
(* klog_clear: for each CPU in turn, under its lock, head = dropped = 0.   *)
(* global_seq and the slot contents are left as they are.                  *)
(***************************************************************************)
ClearStart ==
  /\ cpc = "idle"
  /\ cdone < MaxClears
  /\ cpc' = "clear"
  /\ ccur' = 0
  /\ UNCHANGED <<cdone, bufVars, writerVars, readerVars, dropVars>>

ClearVisit ==
  /\ cpc = "clear"
  /\ ccur < NCPU
  /\ LockFree(ccur)
  /\ head' = [head EXCEPT ![ccur] = 0]
  /\ dropped' = [dropped EXCEPT ![ccur] = 0]
  /\ ccur' = ccur + 1
  /\ UNCHANGED <<cpc, cdone, global_seq, entries, writerVars, readerVars,
                 dropVars>>

ClearEnd ==
  /\ cpc = "clear"
  /\ ccur = NCPU
  /\ cpc' = "idle"
  /\ cdone' = cdone + 1
  /\ UNCHANGED <<ccur, bufVars, writerVars, readerVars, dropVars>>

(***************************************************************************)
(* klog_get_dropped: sum dropped over the CPUs, each under its lock.      *)
(***************************************************************************)
DropStart ==
  /\ gpc = "idle"
  /\ gdone < MaxDropQueries
  /\ gpc' = "sum"
  /\ gcur' = 0
  /\ gtotal' = 0
  /\ UNCHANGED <<gres, gdone, bufVars, writerVars, readerVars, clearVars>>

DropVisit ==
  /\ gpc = "sum"
  /\ gcur < NCPU
  /\ LockFree(gcur)
  /\ gtotal' = gtotal + dropped[gcur]
  /\ gcur' = gcur + 1
  /\ UNCHANGED <<gpc, gres, gdone, bufVars, writerVars, readerVars, clearVars>>

DropEnd ==
  /\ gpc = "sum"
  /\ gcur = NCPU
  /\ gres' = gtotal
  /\ gpc' = "idle"
  /\ gdone' = gdone + 1
  /\ UNCHANGED <<gcur, gtotal, bufVars, writerVars, readerVars, clearVars>>

\* Every bounded workload has run to the end and every actor is idle.
Finished ==
  /\ global_seq = MaxSeq
  /\ \A c \in CPUS : wpc[c] = "idle"
  /\ \A r \in Readers : rpc[r] = "idle" /\ rdone[r] = MaxSnapshots
  /\ cpc = "idle" /\ cdone = MaxClears
  /\ gpc = "idle" /\ gdone = MaxDropQueries

Next ==
  \/ \E c \in CPUS : LogBegin(c) \/ LogCommit(c)
  \/ \E r \in Readers : SnapStart(r) \/ SnapVisit(r) \/ SnapFinish(r)
  \/ ClearStart \/ ClearVisit \/ ClearEnd
  \/ DropStart \/ DropVisit \/ DropEnd
  \/ Finished /\ UNCHANGED vars

Spec == Init /\ [][Next]_vars

(***************************************************************************)
(* Fairness.  Nothing obliges a caller to log, snapshot, clear or query,  *)
(* so the Start actions and LogBegin carry no fairness.  Once inside, a    *)
(* call runs kernel code to its end: the writer holds its CPU's lock with  *)
(* interrupts off, so LogCommit is not delayed forever; a snapshot, clear *)
(* or dropped query between two CPUs has released every lock and is       *)
(* rescheduled by the round-robin scheduler.  Weak fairness suffices for   *)
(* the Visit actions only because the number of log calls is bounded:     *)
(* xv6 spinlocks are not fair, and a CPU that logged without end could     *)
(* keep a visitor waiting.                                                 *)
(***************************************************************************)
Fairness ==
  /\ \A c \in CPUS : WF_vars(LogCommit(c))
  /\ \A r \in Readers : WF_vars(SnapVisit(r)) /\ WF_vars(SnapFinish(r))
  /\ WF_vars(ClearVisit) /\ WF_vars(ClearEnd)
  /\ WF_vars(DropVisit) /\ WF_vars(DropEnd)

LiveSpec == Spec /\ Fairness

(***************************************************************************)
(* Properties.                                                             *)
(***************************************************************************)
TypeOK ==
  /\ global_seq \in 0 .. MaxSeq
  /\ head \in [CPUS -> Nat] /\ dropped \in [CPUS -> Nat]
  /\ entries \in [CPUS -> [SlotIdx -> 0 .. MaxSeq - 1]]
  /\ wpc \in [CPUS -> {"idle", "fill"}]
  /\ rpc \in [Readers -> {"idle", "collect"}]
  /\ rcur \in [Readers -> 0 .. NCPU] /\ rmax \in [Readers -> MaxEntries]
  /\ rout \in [Readers -> Seq(Entry)] /\ rres \in [Readers -> Seq(Entry)]
  /\ rtouch \in [Readers -> Int] /\ rdone \in [Readers -> 0 .. MaxSnapshots]
  /\ cpc \in {"idle", "clear"} /\ ccur \in 0 .. NCPU
  /\ gpc \in {"idle", "sum"} /\ gcur \in 0 .. NCPU /\ gtotal \in Nat

\* Every array klog_snapshot returns is in strictly ascending seq order:
\* no record appears twice and the sort leaves nothing out of order, even
\* when writers on all CPUs race on seq_lock while the snapshot walks the
\* buffers one lock at a time.
SnapshotOrdered ==
  \A r \in Readers :
    \A i \in 1 .. Len(rres[r]) - 1 : rres[r][i].seq < rres[r][i + 1].seq

\* The bubble sort of klog_snapshot compares only entries that the
\* collection loop filled: it never reads buf[j+1] with j+1 >= count.
SortStaysInBuffer ==
  \A r \in Readers : rtouch[r] < Len(rres[r])

\* The per-CPU drop counter counts the records that were overwritten
\* before any reader could see them again (the documented meaning of
\* cpu_logs[c].dropped, reported by klog_get_dropped).
DroppedCountsOverwrites ==
  \A c \in CPUS : wpc[c] = "idle" => dropped[c] = WindowStart(head[c])

\* Every call that entered the engine returns: a log call releases its
\* CPU's lock, and klog_snapshot, klog_clear and klog_get_dropped each get
\* every per-CPU lock in turn and leave, however writers on the CPUs and
\* the other callers interleave with them.
CallsReturn ==
  /\ \A c \in CPUS : wpc[c] = "fill" ~> wpc[c] = "idle"
  /\ \A r \in Readers : rpc[r] = "collect" ~> rpc[r] = "idle"
  /\ cpc = "clear" ~> cpc = "idle"
  /\ gpc = "sum" ~> gpc = "idle"

(***************************************************************************)
(* Refinement.  The records a CPU keeps are the slots of its last          *)
(* min(h, KLOG_BUF_SIZE) positions below h; while the writer of c is between LogBegin and      *)
(* LogCommit its record is already in its slot, so h counts it.            *)
(***************************************************************************)
EffectiveHead(c) == head[c] + (IF wpc[c] = "fill" THEN 1 ELSE 0)

KeptRecords(c) ==
  LET h == EffectiveHead(c)
      n == MinOf(h, KLOG_BUF_SIZE)
  IN  [k \in 1 .. n |-> entries[c][(h - n + k - 1) % KLOG_BUF_SIZE]]

Abs == INSTANCE KLogBuffers
         WITH win <- [c \in CPUS |-> KeptRecords(c)], nextSeq <- global_seq,
              clearAt <- IF cpc = "clear" THEN ccur ELSE NCPU

\* The slots, cursors and copy ranges of klog.c behave as per-CPU bounded
\* FIFO windows read in CPU order under a budget (module KLogBuffers).
ImplementsBuffers == Abs!Spec

=============================================================================
