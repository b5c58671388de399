# TLA+ models of the xv6 kernel logging subsystem

This directory holds TLA+ models of the kernel log in `src/xv6-public`. The file
`klogdev.c` holds the `/dev/klog` driver (lines 1-56) and, from line 57 on, the
logging engine `klog.c`. The `getklog` system call (`sys_getklog`) appears only in
the project report, `src/unnamed/part_000` lines 460-511. The user viewer is
`ulog_tool.c`.

## 1. Inventory

### Components and their state

| Component | Code | State |
|---|---|---|
| Per-CPU ring buffer | `cpu_logs[NCPU]`, klogdev.c 66-67 | `entries[KLOG_BUF_SIZE]`, `head` (uint; records appended since the last clear), `dropped`, one spinlock |
| Sequence allocator | `global_seq`, `seq_lock`, `next_seq` 69-92 | one uint counter behind its own lock |
| Timestamp source | `get_timestamp` 73-81 | none (reads rdtsc) |
| Log engine | `klog_printf_internal` 177-259, `klog_printf`, `klog_printf_level` | a local 64-byte format buffer |
| Formatter | format loop 203-236, `snprintf_int` 112-144, `snprintf_hex` 147-174 | none (pure) |
| Snapshot collector | `klog_snapshot` 278-321 | the caller's buffer |
| Clear / dropped query | `klog_clear` 324-337, `klog_get_dropped` 340-355 | none of their own |
| `/dev/klog` device | `klogdev_read`, `klogdev_write` 31-56 | `klogdev.last_seq`, `klogdev.lock` (both unused) |
| `getklog` syscall | `sys_getklog`, part_000 460-511 | one kalloc'd page |
| Viewer | `ulog_tool.c` | none (prints what getklog returns) |

### Operations and interactions

- **Logging.** `klog_printf_internal(level, fmt, ap)` runs between `pushcli` and
  `popcli`, so it stays on one CPU. It formats the message, takes that CPU's buffer
  lock, and writes slot `head % KLOG_BUF_SIZE`. It calls `next_seq()` while
  holding the buffer lock (lock order: buffer lock, then `seq_lock`). It then fills
  the remaining fields, increments `head` and releases the lock. Writers on
  different CPUs only contend for `seq_lock`.
- **Snapshot.** `klog_snapshot(buf, max)` visits CPUs 0 to NCPU-1 in order. For
  each CPU it takes only that CPU's lock and copies the positions
  `[max(0, head - SIZE), head)` while `count < max`. It then bubble-sorts the
  collected records by `seq`. There is no global cut: CPUs are read at different
  moments.
- **Clear and dropped.** `klog_clear` and `klog_get_dropped` also visit the CPUs one
  lock at a time. `klog_clear` has no caller in the repository.
- **Consumers.** `sys_getklog` validates its arguments, allocates a page, clamps
  `max` to 48 (4096 / 84), snapshots and copies the result out. `klogdev_read`
  snapshots 64 records into a stack array and copies whole records that fit in `n`.
  `ulog_tool` allocates 64 entries, calls `getklog(entries, 64)` once, prints a
  header with the count and one line per record, and exits. It prints the
  severity text of each record, or `?` for a level of 4 or more.

### What is hard

- Concurrency: writers on every CPU race on `seq_lock` while a snapshot walks
  the buffers. A slot is overwritten (line 244) before `head` moves (line 255).
  `klog_clear` runs concurrently with both.
- Boundaries: the window start at the wrap point (292-298); the budget (301);
  the uint loop counters of the sort when count is 0 (310-311); the one-byte
  overrun of the format buffer (231-236); `INT_MIN` in `snprintf_int`.
- Resources: a 5376-byte array on a 4096-byte kernel stack (`klogdev_read`);
  the one-page staging buffer in `sys_getklog`.
- Progress: every read of `/dev/klog` returns the same oldest records, so a
  reader never reaches end of file.
- Partial failure: a `copyout` error after some records were already copied.

### What makes each component correct

- Buffers and allocator: every record gets a distinct seq. On each CPU the kept
  records are the last `KLOG_BUF_SIZE` logged there, in logging order.
  `dropped` counts the records that were overwritten.
- Snapshot: the result is strictly ordered by seq. From each CPU it takes a
  budget-limited prefix of what that CPU kept when it was visited, in CPU order.
  It never reads or writes outside the caller's buffer.
- Formatter: the message is NUL-terminated within 64 bytes and is a prefix of the
  intended text.
- Device and syscall: they never copy more than the destination can hold, never
  overflow the kernel stack. The documented `cat /dev/klog` needs a
  reader that reaches end of file; section 4 shows it does not.

## 2. Plan

Modules, in order of importance:

1. **KLog** (done): buffers, allocator, writers, snapshot, clear and dropped query.
2. **KLogBuffers** (done): the abstract specification, with bounded per-CPU FIFO
   windows and a snapshot that takes budget prefixes in CPU order and returns
   them sorted. KLog is shown to implement it through `INSTANCE ... WITH`.
3. **KLogFormat** (done): the format loop, `snprintf_int` and `snprintf_hex` as
   operators over every directive at every position of the real 64-byte buffer.
   They are checked against a reference rendering written from the substitution
   grammar.
4. **KLogDev** (done): `klogdev_read`, `klogdev_write` and `sys_getklog`
   composed with KLog, which it EXTENDS. It covers the argument checks, the
   one-page clamp, the whole-record copy loop, a `copyout` failure after partial
   progress, and a repeated reader.
5. **Counter widths** (done): the uint ranges of `global_seq` and `head` are
   the constants `SEQ_MOD` and `HEAD_MOD` of KLog. They are scaled down in two
   violation runs.
6. **Liveness** (done): every log call, snapshot, clear and dropped query that
   starts eventually returns, under the fairness of section 5.
7. **UlogTool** (done): `ulog_tool`'s `main` composed with KLogDev. Its getklog
   caller is the `ToolProcs` process of the device run.

What is left: the stack size of `klogdev_read` is a static fact, not a
behaviour (section 6). The liveness of the device's callers and of
`ulog_tool` is checked in klog_live (`UserCallsReturn`). Larger instances of the
core exceed the five-minute budget of a run without reaching a new case.

## 3. Modules and correspondence to the code

### KLog.tla (klogdev.c 57-355)

Variables: `global_seq`, `head[c]`, `dropped[c]` and `entries[c][i]` (the seq in
slot i) are the code's fields. `wpc[c]` is the writer of CPU c: `"fill"` while it
holds its buffer lock. Reader `r` is one call of `klog_snapshot`: `rcur` is its
`cpu_id` loop variable, `rmax` is `max_entries`, `rout` is `buf[0..count-1]`, and
`rres` is the sorted result. `rtouch` is the highest index the sort compared.
`cpc`/`ccur` and `gpc`/`gcur`/`gtotal`/`gres` are the loops of `klog_clear` and
`klog_get_dropped`.

Actions:

- `LogBegin(c)`: pushcli, acquire, `idx = head % SIZE`, `entry->seq = next_seq()`.
  `NextSeq` is the value `next_seq` returns: `global_seq` before the increment,
  as a uint.
- `LogCommit(c)`: the remaining fields, `head++`, release.
- `SnapStart`, `SnapVisit`: one iteration of the CPU loop under that CPU's lock.
- `SnapFinish`: the bubble sort (`BubblePass`, `BubbleSort`) and the return.
- `ClearStart`/`ClearVisit`/`ClearEnd`, `DropStart`/`DropVisit`/`DropEnd`.

A critical section that touches one buffer is one step, because nothing else can
observe its inside. The writer's critical section is two steps, because the
sequence allocation in it is a point where CPUs interleave.

Counter widths: `head[c]` is the code's uint, incremented modulo `HEAD_MOD`
(2^32). `global_seq` counts the calls of `next_seq`. The seq a record stores is
`global_seq % SEQ_MOD`, which is the code's uint value. The normal runs set both
constants to 1024, above any count they reach, so nothing wraps there.

`SnapStartWith(r, m)` is the call with a given `max_entries`; `SnapStart(r)`
chooses `m` from `MaxEntries`. KLogDev calls `SnapStartWith` with the value its
wrapper passes.

Abstractions:

- `pid`, `level`, the timestamps and the message are left out. The `cpu` field of
  a copied record is the buffer index, which is what line 246 stores.
- `Init` is the state after `klog_init`: CPU 0 holds record 0, from the
  `klog_printf` at line 108.
- The early return at lines 192-195 is never taken, because `cpuid()` is always
  below NCPU.
- A snapshot runs as its own actor, independent of the writers. This allows more
  interleavings than the kernel does (a snapshot caller on CPU c excludes that
  CPU's writer while it holds a lock). That is sound for the safety properties.

### KLogBuffers.tla

It states the promise without slots: `win[c]` holds the records CPU c keeps,
`Log(c)` appends the next number and keeps the last `KLOG_BUF_SIZE`, and
`Visit`/`Finish` take budget prefixes and sort. Only a running clear empties a
window: `StartClear` and `Clear(c)` visit the CPUs in order through `clearAt`,
which maps to `ccur` while `klog_clear` runs. So a window that shrinks for any
other reason breaks the refinement. The refinement mapping in KLog
(`KeptRecords`, `EffectiveHead`) reads the last `min(h, SIZE)` positions below
`h`. `h` counts a record whose writer is between `LogBegin` and `LogCommit`,
because that record is already in its slot. So `LogBegin` implements `Log` and
`LogCommit` is a stuttering step.

### KLogFormat.tla (klogdev.c 112-174, 203-236, 250-253)

This module models pure code. `Init` picks a format and its argument: k ordinary
characters, one directive, then 0 or 2 more characters. `Next` leaves them
unchanged.

- `FormatLoop` is the `for` loop. Because it writes sequentially, `i` is the
  length of what it has written.
- `SnprintfInt` and `SnprintfHex` return the characters the helpers write (at most
  `size - 1`), with `tmp[]` built least significant digit first and reversed, as
  in the code.
- `Neg32` is the two's-complement negation of line 124.
- `StoredMessage` is the copy into `entry->msg`.
- `Intended` (`Rendered`, `DecimalOf`, `HexOf`) is the reference. It renders
  `%d`, `0x`-prefixed `%x`, `%s` (or `(null)`) and `%%`, copies unknown directives
  through, and has no size limit.

### KLogDev.tla (klogdev.c 13-56; sys_getklog, part_000 460-507)

This module EXTENDS KLog. Each caller process is one of KLog's `Readers`.
`CatProcs` read `/dev/klog`; `ToolProcs` call `getklog`.

- `upc[r]` is `"kernel"` while r's call is inside `klog_snapshot`.
- `uarg[r]` is the `n` of a read.
- `kpage[r]` says the call holds its kalloc'd page.
- `ucopied[r]` holds the records the last call copied out.
- `uret[r]` is the last return value.
- `useen[r]` is a history variable: the highest seq a successful read returned.

Actions:

- `GetklogCall(r)` takes one of two paths.
  - `GetklogFail(r)`: any early return. That covers `argint`, `max_entries`
    outside 1..1024, `buf` outside `sz`, or `kalloc` out of pages. The range
    checks and `kalloc` depend on the caller's address space and free memory, so
    this step is open to every call.
  - `GetklogEnter(r, min(max, PAGE_FIT))`: take the page, then enter the
    snapshot through `SnapStartWith`.
- `GetklogReturn(r)`: after `SnapFinish`, the copyout loop either succeeds for
  every record or fails at some record k. Records before k are already in user
  memory. The page is freed on both paths.
- `DevRead(r)`: enter the snapshot with `DEV_MAX` (the 64 of `entries[64]`).
- `DevReadReturn(r)`: copy `WholeRecords(count, n)` records, or fail at one of
  them and return -1.
- `DevWrite(r)`: returns -1.

The engine's actions run unchanged and interleave with these. `copyout` can fail
because the guard page below the user stack lies below `sz`: it passes the range
checks, but it has no `PTE_U`. The copy loops run in the caller's own address
space, so each is one step.

### UlogTool.tla (ulog_tool.c 6-46)

This module EXTENDS KLogDev. Each of the `ToolProcs` runs `main` once.

- `tpc[r]` is the point of `main`: `"start"`, `"call"`, `"wait"` (the getklog
  call is in progress), `"print"` (inside the loop) or `"done"`.
- `ti[r]` is the loop index `i`.
- `theader[r]` is the count the header printed (-1 before the header).
- `tout[r]` holds the record lines printed on fd 1. A line is abstracted to its
  seq, its severity text and its cpu. `pid` and `msg` are left out.
- `terr[r]` is the message printed on fd 2.

Actions:

- `UlogMalloc`: `malloc` succeeds, or fails and the tool exits with
  `malloc failed`.
- `UlogGetklog`: the call `getklog(entries, 64)`, which is KLogDev's
  `GetklogCall`. The cfg passes `ULOG_MAX` (64, scaled to 2) as the only argument.
  The kernel half is `GetklogReturn`.
- `UlogCount`: back in user mode, it either prints `getklog failed` and exits, or
  prints the header.
- `UlogPrint`: one loop iteration. It prints the record at index `i`, with
  `LevelName` translating `entries[i].level < 4 ? level_names[level] : "?"`.
- `UlogExit`: `free` and `exit`.

A record's level is the argument of the log call that produced it (klogdev.c
248). Which call draws which seq is arbitrary, so the constant `RecordLevel`
fixes a level per seq. It must be a level some entry point stores
(`LoggedLevels`):

- `KLOG_INFO`, which `klog_printf` stores;
- `KLOG_DEBUG` .. `KLOG_ERROR`, which the `klog_debug` .. `klog_error` macros
  pass;
- any value in `LevelArgs`, which `klog_printf_level` stores as given.

The cfg gives the three records the levels 0, 4 and 3:
the two ends of the named range, and the first value past it.

### MC_KLog.tla, MC_KLogFormat.tla, MC_KLogDev.tla, MC_UlogTool.tla

Reader model values, and the input sets for the format checks. `INT_MIN` has its
own set because it is the subject of its own run.

## 4. Runs

| Run | Cfg | Checks | Result |
|---|---|---|---|
| klog_core | KLog.cfg | `TypeOK`, `SnapshotOrdered`, `ImplementsBuffers`, deadlock | passes: 378,330 distinct states, about 40 s |
| sort_after_clear | KLogSortEmpty.cfg | `SortStaysInBuffer` | violated |
| dropped_never_counted | KLogDropped.cfg | `DroppedCountsOverwrites` | violated |
| format_fits | KLogFormat.cfg | `TypeOK`, `FitsRenderedExactly` | passes: 1,625 inputs |
| format_int_min | KLogFormatIntMin.cfg | `FitsRenderedExactly` | violated |
| format_hex_at_end | KLogFormatTrunc.cfg | `TruncatesToPrefix` | violated |
| format_overrun | KLogFormatOverrun.cfg | `FormatWritesInBuffer` | violated |
| klog_live | KLogLive.cfg (MC_UlogTool) | `CallsReturn`, `UserCallsReturn` under `UlogLiveSpec` | passes: 81,660 distinct states, about 2 min |
| seq_wrap | KLogSeqWrap.cfg | `SnapshotOrdered` with `SEQ_MOD = 4` | violated |
| head_wrap | KLogHeadWrap.cfg | `ImplementsBuffers` with `HEAD_MOD = 4` | violated |
| device | UlogTool.cfg (MC_UlogTool) | `UlogTypeOK`, `SnapshotStaysInDestination`, `NoPageLeak`, `ReadReturnsWholeRecords`, `UlogPrintsSnapshot` | passes: 1,333,769 distinct states, about 40 s |
| dev_stream | KLogDevStream.cfg | `ReadsAdvance` | violated |

- **klog_core.** Three CPUs with two-slot buffers log 4 records, so a buffer
  can wrap (three on one CPU). One reader snapshots with budget 2, which can run out inside the first
  or the middle CPU, or budget 5, which takes everything. One `klog_clear` and one
  `klog_get_dropped` run concurrently. The run shows four things:
  - Every snapshot result is strictly ordered by seq, even when records commit
    out of seq order across CPUs.
  - The slot and cursor arithmetic implements the bounded FIFO windows of
    KLogBuffers. This includes the wrap point, the state in which a slot is
    overwritten before `head` moves, and a clear that empties the CPUs one at a
    time while writers and the snapshot run.
  - Three writers race on `seq_lock`.
  - There is no deadlock: `Finished`, with every bounded workload done, is the
    only state without successors. This covers the one-lock-at-a-time visits.
    `seq_lock` is taken and released inside the single step `LogBegin`, so the
    model cannot express a lock cycle through it (section 6).

- **sort_after_clear.** After `klog_clear` empties every buffer, `count = 0` and
  the sort bound `count - 1`, compared as uint, is 2^32 - 1. The sort then reads
  and swaps memory far past the caller's buffer. This is a code bug, reachable
  once anything calls the exported `klog_clear`.
- **dropped_never_counted.** A wrap overwrites a record, but `dropped` stays 0. The
  documentation says `dropped` counts dropped entries.

- **format_fits.** Every message whose rendering fits in 63 characters is stored
  exactly as rendered. This covers every directive at every buffer position 0-64
  and arguments that are zero, negative, multi-digit or near INT_MAX, and null or
  empty strings. No stored message exceeds 63 characters.
- **format_int_min.** `%d` of INT_MIN is stored as `-`. Negating INT_MIN leaves it
  negative, so the digit loop never runs. This is a code bug.
- **format_hex_at_end.** The format text always goes on after the directive.
  TLC's trace is 62 `a`, then `%x` with argument 0, then `aa`.
  - `snprintf_hex` writes nothing when `size <= 2`, so the digit `0` is lost.
  - The loop goes on, and the next `a` takes the digit's place at index 62.
  - The stored 63 `a` are not a prefix of the rendering, 62 `a` followed by
    `0`, as the spec's truncation rule requires.

  With nothing after `%x`, the digit alone is lost.
  That message is still a prefix, so this run gives every template a suffix.
- **format_overrun.** An unknown directive reached at `i = 62` writes 2 characters
  and leaves `i = 64`. Line 236 then writes the terminator to `buf[64]`, one byte
  past the array on the kernel stack.

- **klog_live.** `klog_init` logs its boot record, and then one more log
  call runs on either CPU. A process reads `/dev/klog` once,
  `ulog_tool` runs once, and a clear and a dropped query run. Checked:
  - every call that entered the engine returns: no lock order or interleaving
    leaves a log call, snapshot, clear or query waiting forever (`CallsReturn`);
  - every `/dev/klog` read that entered the kernel returns to user mode, and
    every `ulog_tool` run exits (`UserCallsReturn`). This holds through the
    composed layers: the wrapper's return step waits only for its snapshot to
    end.

  The engine part alone was checked at first with three records and two
  snapshots: 525,000 states took 14 minutes, over the time limit. With one log
  call after boot, that writer still contends with the snapshots of both
  callers, the clear and the query for its CPU's lock.
- **seq_wrap.** CPU 0 keeps the boot record, seq 0. CPU 1 logs until the scaled
  counter wraps and stores seq 0 again. The snapshot then returns two records
  with seq 0. In the code this takes 2^32 records, and an idle CPU keeps its last
  256 records for as long as that takes. The spec leaves wraparound open.
- **head_wrap.** One CPU logs until `head` wraps to 0. The window `[0, head)` is
  then empty, although the slots hold the last records. The check finds a log
  call that makes records vanish with no clear running. The spec says a
  collection after N+k appends returns the last N.
- **device.** A `/dev/klog` reader (n = 83, 168 or 300 bytes) and a run of
  `ulog_tool` (its `getklog(entries, 64)` is scaled to 2 and clamped to a page
  of 1) run against two CPUs holding three records, with one clear. Checked:
  - the snapshot never writes past the page or the stack array;
  - every `getklog` return frees its page, including after a partial copy;
  - a read returns -1, or whole records within `n`, at the exact-multiple
    boundary too;
  - when `ulog_tool` exits after a header, it has printed exactly the records its
    snapshot returned, in order. The header count equals their number. Each level
    is shown by its name, or as `?` when it is outside 0..3, as the spec's
    severity encoding asks. `SeverityText` states that encoding independently of
    the code's `LevelName`.
- **dev_stream.** Two reads with nothing logged between them return the same
  records. This is what spec section 6 asks for: a fresh collect on every read.
  The code conforms to the spec. But the project report documents
  `cat /dev/klog` as the way to use the device (part_000 line 126), and `cat`
  reads until a read returns 0. That never happens, so the documented use never
  terminates. Streaming is listed as future work: `last_seq` is "for future
  streaming support" (IMPLEMENTATION_DETAILS.md 242), and real-time streaming
  is still a TODO (part_001 line 350). The finding is a gap in the documentation
  and the spec, not a code bug.

Why the bounds are enough:

- Two slots and four records wrap a buffer: three land on one CPU.
- Three CPUs give three-way races on the allocator and a snapshot that sees the
  CPUs at different moments.
- A budget of 2 covers exhaustion inside the first CPU and inside a middle CPU;
  5 covers no exhaustion.
- The same instance with five records and the dropped query (2.3 million
  states) takes about 3.5 minutes and shows nothing more. The state space with a second reader was not needed for these
properties: readers never write shared state. In the device run the scaled sizes
keep the code's order: PAGE_FIT (48) < DEV_MAX (64) < GETKLOG_CEIL (1024).
Three kept records exceed both arrays, so the clamp and the budget both bite. A
wrap needs only a counter range a little above the buffer size, so 4 is enough.

Mutants (each must make TLC find its property violated):

- `LogBegin` becomes `LogBeginPreIncrement` (seq = ++global_seq): breaks `TypeOK`.
- `KlogSort` becomes `KlogSortShort` (the sort covers count - 1 elements): breaks
  `SnapshotOrdered`.
- `WindowStart` becomes `WindowStartNoWrap` (the wrap branch is forgotten): breaks
  `ImplementsBuffers`.
- `StoredMessage` becomes `StoredMessageFull` (the copy runs up to `sizeof(msg)`):
  breaks format `TypeOK`.
- `SnprintfInt` becomes `SnprintfIntLsbFirst` (`tmp[]` is not reversed): breaks
  `FitsRenderedExactly`.
- `SnapVisit` becomes `SnapVisitNoAdvance` (`cpu_id` is never advanced): breaks
  `CallsReturn`, and `UserCallsReturn` as well, since the read and the getklog
  call then never leave the kernel.
- `LogBegin` becomes `LogBeginPreIncrement`: breaks `UlogTypeOK`.
- `GetklogCall` becomes `GetklogCallNoClamp` (no clamp to a page): breaks
  `SnapshotStaysInDestination`.
- `GetklogReturn` becomes `GetklogReturnLeak` (no `kfree` on the failure path):
  breaks `NoPageLeak`.
- `WholeRecords` becomes `WholeRecordsPartial` (the loop tests `copied < n`):
  breaks `ReadReturnsWholeRecords`.
- `LevelName` becomes `LevelNameLe` (the bound test is written `<= 4`, so
  `level_names[4]` reads the word after the array): breaks `UlogPrintsSnapshot`.

## 5. Fairness

`LiveSpec` of KLog (its `Fairness`, which `UlogLiveSpec` includes) adds weak fairness to the steps inside a call: `LogCommit`,
`SnapVisit`, `SnapFinish`, `ClearVisit`, `ClearEnd`, `DropVisit` and `DropEnd`.
The steps that start a call, and `LogBegin`, carry no fairness: nothing obliges
a caller to call.

Why the code justifies this:

- A writer holds its CPU's lock with interrupts off, so it cannot be preempted
  before `LogCommit`.
- A snapshot, clear or query between two CPUs holds no lock. xv6's round-robin
  scheduler runs it again.

Weak fairness is enough for the `Visit` steps only because the number of log
calls is bounded. xv6 spinlocks are not fair, so a CPU that logged without end
could keep a visitor waiting.

`UlogLiveSpec` of UlogTool also makes these steps weakly fair:

- `GetklogReturn` and `DevReadReturn`: after `klog_snapshot`, the caller copies
  out and returns holding no lock.
- The steps of a running `ulog_tool`: it is a runnable process.

xv6's round-robin scheduler runs both kinds of process again. Nothing obliges
`cat` to read, so `DevRead` and `DevWrite` carry no fairness.

The safety runs use `Spec`, `DevSpec` or `UlogSpec`, with no
fairness.

## 6. Not modelled

- `get_timestamp`: nothing in the repository reads `ts_hi` or `ts_lo`. The
  snapshot orders by seq, and `ulog_tool` does not print them. The spec makes
  timestamps meaningful only within one core, where the single pinned writer and
  the free-running counter order them by construction.
- In `ulog_tool`, the text of a line: `pid`, `msg` and the layout of
  `printf`. `printf` is xv6's user `printf`, which is not in this repository.
  So its `%d` of a seq of 2^31 or more, which prints a negative number, is not
  modelled.
- The stack usage of `klogdev_read`: `entries[64]` is 5376 bytes on xv6's
  4096-byte kernel stack (`KSTACKSIZE`, defined outside this repository). It
  overruns on every call, whatever the state, so no state-machine property can
  separate right from wrong here. It is recorded as a hazard.
- `klogdev.lock` and `klogdev.last_seq`: initialised and never used.
- Lock nesting as such. The nesting "buffer lock, then `seq_lock`" is one step
  of the model, and no other code takes `seq_lock`. A change to the nesting
  would change the structure of the model, not a guard in it, so the lock-order
  hazard at klogdev.c 88 has no property.
- The records a failing `copyout` of `klogdev_read` leaves in user memory. The
  spec allows partial copies for the query interface and says nothing for the
  device, so no property separates a right outcome from a wrong one here.
- The call sites in the rest of the kernel: they are the nondeterministic choice of
  which CPU logs next.
- In the formatter, a `uint` `%x` argument of 2^31 or more cannot be represented
  by TLC's integers. The hex arguments stay below 2^31, which does not change the
  lengths that matter at the buffer boundary.
