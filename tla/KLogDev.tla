------------------------------- MODULE KLogDev -------------------------------
(***************************************************************************)
(* The two ways user processes reach klog_snapshot, composed with the      *)
(* engine of module KLog:                                                  *)
(*   - the /dev/klog character device (src/xv6-public/klogdev.c lines      *)
(*     13-56): klogdev_read snapshots into a stack array entries[64] and   *)
(*     copies out as many whole records as fit in n bytes; klogdev_write   *)
(*     always fails;                                                       *)
(*   - the getklog system call, sys_getklog (src/unnamed/part_000 lines    *)
(*     460-507): argument checks, one kalloc'd page, the clamp of          *)
(*     max_entries to a page, the snapshot, one copyout per record, kfree. *)
(* Each caller process is one of the Readers of KLog: its call enters the  *)
(* snapshot through SnapStartWith with the max_entries the wrapper passes, *)
(* the engine's SnapVisit/SnapFinish run interleaved with the writers and  *)
(* other callers, and the wrapper's return step copies the result out.     *)
(*                                                                         *)
(* The copyout loop runs in the caller's own address space, so it is one   *)
(* step.  copyout fails when the destination reaches a page without        *)
(* PTE_U (the guard page below the user stack lies below sz and passes     *)
(* the range checks); the record at which it fails is chosen freely.      *)
(* Sizes are scaled: DEV_MAX, PAGE_FIT and GETKLOG_CEIL keep the order     *)
(* 48 < 64 < 1024 of the code against a few records per CPU.               *)
(***************************************************************************)
EXTENDS KLog

CONSTANTS
  CatProcs,      \* processes reading /dev/klog in a loop, as cat does
  ToolProcs,     \* processes calling getklog, as ulog_tool does
  DEV_MAX,       \* 64: length of entries[] in klogdev_read
  PAGE_FIT,      \* PGSIZE / sizeof(struct klog_entry) = 48
  GETKLOG_CEIL,  \* 1024: the largest max_entries sys_getklog accepts
  ReadLens,      \* byte counts n passed to read()
  GetklogArgs    \* max_entries values passed to getklog()

\* sizeof(struct klog_entry): seq, ts_hi, ts_lo, cpu, pid, level, msg[64].
RECORD_SIZE == 84

ASSUME CatProcs \cap ToolProcs = {} /\ CatProcs \cup ToolProcs = Readers
ASSUME PAGE_FIT < DEV_MAX /\ DEV_MAX < GETKLOG_CEIL
ASSUME 1 .. DEV_MAX \subseteq MaxEntries
ASSUME ReadLens \subseteq Nat

VARIABLES
  upc,       \* upc[r]: "user", or "kernel" while r's call is in the snapshot
  uarg,      \* uarg[r]: the n of r's read in progress
  kpage,     \* kpage[r]: r's call holds the page kalloc gave it
  ucopied,   \* ucopied[r]: records the last call of r copied out, in order
  uret,      \* uret[r]: value the last call of r returned
  useen      \* useen[r]: highest seq a successful read of r returned, or -1

devVars == <<upc, uarg, kpage, ucopied, uret, useen>>
allVars == <<vars, devVars>>

\* The highest seq among the records of s, -1 for none.
HighestSeq(s) ==
  LET seqs == {s[i].seq : i \in 1 .. Len(s)}
  IN  IF s = <<>> THEN -1 ELSE CHOOSE v \in seqs : \A w \in seqs : w <= v

MaxOf(a, b) == IF a > b THEN a ELSE b

\* The first k records of s.
FirstRecords(s, k) == [i \in 1 .. k |-> s[i]]

(***************************************************************************)
(* klogdev_init leaves last_seq = 0 and registers the device; no state it  *)
(* sets is ever read.  Every process starts in user mode.                  *)
(***************************************************************************)
DevInit ==
  /\ Init
  /\ upc = [r \in Readers |-> "user"]
  /\ uarg = [r \in Readers |-> 0]
  /\ kpage = [r \in Readers |-> FALSE]
  /\ ucopied = [r \in Readers |-> <<>>]
  /\ uret = [r \in Readers |-> 0]
  /\ useen = [r \in Readers |-> -1]

(***************************************************************************)
(* sys_getklog(buf, max_entries) by r.  Every early return leaves all but  *)
(* the result as it is: argint failing, max_entries outside               *)
(* 1..1024, buf outside curproc->sz (lines 468-479), kalloc out of pages   *)
(* (482-484).  The range checks and kalloc depend on the caller's address *)
(* space and free memory, so a call may fail whatever max_entries is.     *)
(* Otherwise the page is taken, max_entries clamped to what a page holds,  *)
(* and klog_snapshot entered with it.                                      *)
(***************************************************************************)
GetklogFail(r) ==
  /\ uret' = [uret EXCEPT ![r] = -1]
  /\ UNCHANGED <<vars, upc, uarg, kpage, ucopied, useen>>

GetklogEnter(r, m) ==
  /\ SnapStartWith(r, m)
  /\ kpage' = [kpage EXCEPT ![r] = TRUE]
  /\ upc' = [upc EXCEPT ![r] = "kernel"]
  /\ UNCHANGED <<uarg, ucopied, uret, useen>>

\* Mutant: the clamp to one page left out.
GetklogCallNoClamp(r) ==
  /\ upc[r] = "user"
  /\ \/ GetklogFail(r)
     \/ \E max \in GetklogArgs :
          /\ 0 < max /\ max <= GETKLOG_CEIL
          /\ GetklogEnter(r, max)

GetklogCall(r) ==
  /\ upc[r] = "user"
  /\ \/ GetklogFail(r)
     \/ \E max \in GetklogArgs :
          /\ 0 < max /\ max <= GETKLOG_CEIL
          /\ GetklogEnter(r, MinOf(max, PAGE_FIT))

\* After klog_snapshot returned count: copy kbuf[0..count-1] one record at
\* a time.  copyout failing at record k returns -1 with records 0..k-1
\* already in the user buffer; the page is freed on both paths.
CopyoutResult(r, k, ret) ==
  /\ ucopied' = [ucopied EXCEPT ![r] = FirstRecords(rres[r], k)]
  /\ uret' = [uret EXCEPT ![r] = ret]
  /\ upc' = [upc EXCEPT ![r] = "user"]

\* Mutant: the copyout failure path returns without kfree.
GetklogReturnLeak(r) ==
  /\ upc[r] = "kernel"
  /\ rpc[r] = "idle"
  /\ \/ CopyoutResult(r, Len(rres[r]), Len(rres[r]))
        /\ kpage' = [kpage EXCEPT ![r] = FALSE]
     \/ \E k \in 0 .. Len(rres[r]) - 1 :
          CopyoutResult(r, k, -1) /\ UNCHANGED kpage
  /\ UNCHANGED <<vars, uarg, useen>>

GetklogReturn(r) ==
  /\ upc[r] = "kernel"
  /\ rpc[r] = "idle"
  /\ \/ CopyoutResult(r, Len(rres[r]), Len(rres[r]))
     \/ \E k \in 0 .. Len(rres[r]) - 1 : CopyoutResult(r, k, -1)
  /\ kpage' = [kpage EXCEPT ![r] = FALSE]
  /\ UNCHANGED <<vars, uarg, useen>>

(***************************************************************************)
(* klogdev_read(ip, dst, n) by r: klog_snapshot(entries, 64) into the     *)
(* stack array, then copy record i while i < count and                    *)
(* copied + sizeof(struct klog_entry) <= n; a failing copyout returns -1. *)
(* Reads go through sys_read, whose argptr keeps n >= 0.                   *)
(***************************************************************************)
DevRead(r) ==
  /\ upc[r] = "user"
  /\ \E n \in ReadLens : uarg' = [uarg EXCEPT ![r] = n]
  /\ SnapStartWith(r, DEV_MAX)
  /\ upc' = [upc EXCEPT ![r] = "kernel"]
  /\ UNCHANGED <<kpage, ucopied, uret, useen>>

\* Mutant: the loop tests copied < n, so a partial record fits.
WholeRecordsPartial(count, n) ==
  MinOf(count, (n + RECORD_SIZE - 1) \div RECORD_SIZE)

\* Records the copy loop takes for a count and a byte length n.
WholeRecords(count, n) == MinOf(count, n \div RECORD_SIZE)

DevReadReturn(r) ==
  LET m == WholeRecords(Len(rres[r]), uarg[r]) IN
  /\ upc[r] = "kernel"
  /\ rpc[r] = "idle"
  /\ \/ /\ CopyoutResult(r, m, m * RECORD_SIZE)
        /\ useen' = [useen EXCEPT ![r] =
                       IF m = 0 THEN @
                       ELSE MaxOf(@, HighestSeq(FirstRecords(rres[r], m)))]
     \/ \E k \in 0 .. m - 1 : CopyoutResult(r, k, -1) /\ UNCHANGED useen
  /\ UNCHANGED <<vars, uarg, kpage>>

\* klogdev_write: the device is read-only.
DevWrite(r) ==
  /\ upc[r] = "user"
  /\ uret' = [uret EXCEPT ![r] = -1]
  /\ UNCHANGED <<vars, upc, uarg, kpage, ucopied, useen>>

engineOps ==
  \/ \E c \in CPUS : LogBegin(c) \/ LogCommit(c)
  \/ \E r \in Readers : SnapVisit(r) \/ SnapFinish(r)
  \/ ClearStart \/ ClearVisit \/ ClearEnd
  \/ DropStart \/ DropVisit \/ DropEnd

\* A process may always call again, and a call that fails early changes
\* nothing but its result, so no state is terminal.
DevNext ==
  \/ engineOps /\ UNCHANGED devVars
  \/ \E r \in ToolProcs : GetklogCall(r) \/ GetklogReturn(r)
  \/ \E r \in CatProcs : DevRead(r) \/ DevReadReturn(r) \/ DevWrite(r)

DevSpec == DevInit /\ [][DevNext]_allVars

(***************************************************************************)
(* Properties.                                                             *)
(***************************************************************************)
DevTypeOK ==
  /\ TypeOK
  /\ upc \in [Readers -> {"user", "kernel"}]
  /\ uarg \in [Readers -> ReadLens \cup {0}]
  /\ kpage \in [Readers -> BOOLEAN]
  /\ ucopied \in [Readers -> Seq(Entry)]
  /\ uret \in [Readers -> Int]
  /\ useen \in [Readers -> -1 .. MaxSeq]

\* The array klog_snapshot fills is never overrun: a getklog call collects
\* at most the records its kalloc'd page holds, whatever max_entries the
\* caller passed (up to 1024), and a /dev/klog read at most the 64 of its
\* stack array, while writers keep filling the CPU buffers.
SnapshotStaysInDestination ==
  \A r \in Readers :
    upc[r] = "kernel" =>
      Len(rout[r]) <= (IF r \in ToolProcs THEN PAGE_FIT ELSE DEV_MAX)

\* Every getklog call that returned, on the success path or after a
\* failed copyout with records already copied, has given back its page.
NoPageLeak == \A r \in ToolProcs : upc[r] = "user" => ~kpage[r]

\* A /dev/klog read returns -1 or a byte count that fits in the n bytes
\* the caller asked for and is made of whole records: no partial record is
\* emitted at the tail (the streaming contract of the device).
ReadReturnsWholeRecords ==
  \A r \in CatProcs :
    upc[r] = "user" /\ uret[r] >= 0 =>
      uret[r] <= uarg[r] /\ uret[r] % RECORD_SIZE = 0

\* The usage the project report documents, cat /dev/klog (a reader that
\* reads until a read returns 0), terminates: a successful read of
\* /dev/klog returns only records newer than every record an earlier read
\* of the same process returned.  Spec section 6 asks for a fresh collect
\* per read, which klogdev_read does; this is the documented use, not the
\* spec's contract.
ReadsAdvance ==
  [][\A r \in CatProcs :
       (upc[r] = "kernel" /\ upc'[r] = "user" /\ uret'[r] > 0) =>
         \A k \in 1 .. Len(ucopied'[r]) : ucopied'[r][k].seq > useen[r]
    ]_allVars

=============================================================================
