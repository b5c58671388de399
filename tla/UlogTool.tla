------------------------------- MODULE UlogTool -------------------------------
(***************************************************************************)
(* The user program ulog_tool (src/xv6-public/ulog_tool.c) composed with   *)
(* the device and system-call layer of KLogDev.  Each of the ToolProcs     *)
(* runs main() once: malloc a 64-entry array, getklog(entries, 64), print  *)
(* a header with the count and one line per record, free, exit.  The      *)
(* getklog call is KLogDev's GetklogCall (the cfg passes ULOG_MAX, the     *)
(* literal 64, as the only argument) and its kernel half GetklogReturn;    *)
(* the tool resumes when the call has returned to user mode.               *)
(*                                                                         *)
(* Output is abstracted to what a line says: the header's count, and per   *)
(* record its seq, the severity text and its cpu; pid and msg are left    *)
(* out.  The level a record carries is the argument of the log call that   *)
(* produced it (entry->level = level, klogdev.c line 248); which call      *)
(* draws which seq is arbitrary, so the level is given per seq by the     *)
(* constant RecordLevel, which the cfg fills with levels inside and        *)
(* outside 0..3 (klog_printf_level takes any int).                         *)
(***************************************************************************)
EXTENDS KLogDev

CONSTANTS
  ULOG_MAX,     \* 64: entries ulog_tool allocates and asks getklog for
  RecordLevel,  \* RecordLevel[s]: the uint level of the record with seq s
  LevelArgs     \* other levels passed to klog_printf_level, as uint

ASSUME PAGE_FIT < ULOG_MAX /\ ULOG_MAX <= GETKLOG_CEIL
ASSUME 0 .. MaxSeq - 1 \subseteq DOMAIN RecordLevel

\* The levels of klog.h: KLOG_DEBUG .. KLOG_ERROR, which the macros
\* klog_debug .. klog_error pass to klog_printf_level.
KLOG_LEVELS == 0 .. 3
KLOG_INFO == 1

\* The level an entry point stores: klog_printf stores KLOG_INFO,
\* klog_printf_level stores whatever int it is given.
LoggedLevels == {KLOG_INFO} \cup KLOG_LEVELS \cup LevelArgs

ASSUME \A s \in 0 .. MaxSeq - 1 : RecordLevel[s] \in LoggedLevels

VARIABLES
  tpc,      \* tpc[r]: "start", "call", "wait", "print" or "done"
  ti,       \* ti[r]: loop index i of the print loop
  theader,  \* theader[r]: count printed in the header, -1 before it
  tout,     \* tout[r]: the record lines printed on fd 1, in order
  terr      \* terr[r]: the message printed on fd 2, "" for none

toolVars == <<tpc, ti, theader, tout, terr>>
ulogVars == <<allVars, toolVars>>

\* static const char *level_names[]
LEVEL_NAMES == <<"DEBUG", "INFO", "WARN", "ERROR">>

\* Mutant: the bound check written level <= 4; level_names[4] reads the
\* word after the array, whatever the binary holds there.
LevelNameLe(lv) ==
  IF lv <= 4 THEN (IF lv < 4 THEN LEVEL_NAMES[lv + 1] ELSE "level_names[4]")
  ELSE "?"

\* entries[i].level < 4 ? level_names[entries[i].level] : "?"
LevelName(lv) == IF lv < 4 THEN LEVEL_NAMES[lv + 1] ELSE "?"

\* What printf(1, "[%d] %s CPU%d PID%d: %s\n", ...) says of a record.
Line(e) == [seq |-> e.seq, level |-> LevelName(RecordLevel[e.seq]), cpu |-> e.cpu]

UlogInit ==
  /\ DevInit
  /\ tpc = [r \in ToolProcs |-> "start"]
  /\ ti = [r \in ToolProcs |-> 0]
  /\ theader = [r \in ToolProcs |-> -1]
  /\ tout = [r \in ToolProcs |-> <<>>]
  /\ terr = [r \in ToolProcs |-> ""]

\* entries = malloc(64 * sizeof(struct klog_entry)); on failure print
\* "malloc failed" to fd 2 and exit.
UlogMalloc(r) ==
  /\ tpc[r] = "start"
  /\ \/ tpc' = [tpc EXCEPT ![r] = "call"] /\ UNCHANGED terr
     \/ /\ tpc' = [tpc EXCEPT ![r] = "done"]
        /\ terr' = [terr EXCEPT ![r] = "malloc failed"]
  /\ UNCHANGED <<allVars, ti, theader, tout>>

\* count = getklog(entries, 64): the system call's entry.
UlogGetklog(r) ==
  /\ tpc[r] = "call"
  /\ GetklogCall(r)
  /\ tpc' = [tpc EXCEPT ![r] = "wait"]
  /\ UNCHANGED <<ti, theader, tout, terr>>

\* Back in user mode with count: on count < 0 print "getklog failed",
\* free and exit; otherwise print the header and enter the loop at i = 0.
UlogCount(r) ==
  /\ tpc[r] = "wait"
  /\ upc[r] = "user"
  /\ \/ /\ uret[r] < 0
        /\ terr' = [terr EXCEPT ![r] = "getklog failed"]
        /\ tpc' = [tpc EXCEPT ![r] = "done"]
        /\ UNCHANGED <<ti, theader>>
     \/ /\ uret[r] >= 0
        /\ theader' = [theader EXCEPT ![r] = uret[r]]
        /\ ti' = [ti EXCEPT ![r] = 0]
        /\ tpc' = [tpc EXCEPT ![r] = "print"]
        /\ UNCHANGED terr
  /\ UNCHANGED <<allVars, tout>>

\* One iteration of for(i = 0; i < count; i++): print entries[i].
UlogPrint(r) ==
  /\ tpc[r] = "print"
  /\ ti[r] < uret[r]
  /\ tout' = [tout EXCEPT ![r] = Append(@, Line(ucopied[r][ti[r] + 1]))]
  /\ ti' = [ti EXCEPT ![r] = @ + 1]
  /\ UNCHANGED <<allVars, tpc, theader, terr>>

\* The loop ends: free(entries); exit().
UlogExit(r) ==
  /\ tpc[r] = "print"
  /\ ti[r] >= uret[r]
  /\ tpc' = [tpc EXCEPT ![r] = "done"]
  /\ UNCHANGED <<allVars, ti, theader, tout, terr>>

\* The engine and the /dev/klog readers as in KLogDev; the ToolProcs run
\* ulog_tool, whose getklog call returns through GetklogReturn.
UlogNext ==
  \/ engineOps /\ UNCHANGED <<devVars, toolVars>>
  \/ \E r \in CatProcs :
       (DevRead(r) \/ DevReadReturn(r) \/ DevWrite(r)) /\ UNCHANGED toolVars
  \/ \E r \in ToolProcs : GetklogReturn(r) /\ UNCHANGED toolVars
  \/ \E r \in ToolProcs :
       UlogMalloc(r) \/ UlogGetklog(r) \/ UlogCount(r) \/ UlogPrint(r) \/ UlogExit(r)

UlogSpec == UlogInit /\ [][UlogNext]_ulogVars

(***************************************************************************)
(* Fairness.  The engine's steps inside a call are fair as in KLog.  A     *)
(* process in the kernel after klog_snapshot returned runs its copy loop  *)
(* and returns (GetklogReturn, DevReadReturn): it holds no lock there and *)
(* xv6's round-robin scheduler runs it again.  A running ulog_tool is a   *)
(* runnable process, so its steps are fair too; nothing obliges cat to    *)
(* read, so DevRead and DevWrite are not.                                  *)
(***************************************************************************)
UlogFairness ==
  /\ Fairness
  /\ \A r \in ToolProcs :
       /\ WF_ulogVars(GetklogReturn(r) /\ UNCHANGED toolVars)
       /\ WF_ulogVars(UlogMalloc(r) \/ UlogGetklog(r) \/ UlogCount(r)
                        \/ UlogPrint(r) \/ UlogExit(r))
  /\ \A r \in CatProcs : WF_ulogVars(DevReadReturn(r) /\ UNCHANGED toolVars)

UlogLiveSpec == UlogSpec /\ UlogFairness

(***************************************************************************)
(* Properties.                                                             *)
(***************************************************************************)
UlogTypeOK ==
  /\ DevTypeOK
  /\ tpc \in [ToolProcs -> {"start", "call", "wait", "print", "done"}]
  /\ ti \in [ToolProcs -> 0 .. PAGE_FIT]
  /\ theader \in [ToolProcs -> -1 .. PAGE_FIT]
  /\ tout \in [ToolProcs -> Seq([seq : Nat, level : STRING, cpu : CPUS])]
  /\ terr \in [ToolProcs -> {"", "malloc failed", "getklog failed"}]

\* The severity text the encoding of the records prescribes: Debug=0,
\* Info=1, Warn=2, Error=3, any other value shown as unknown, not rejected.
SeverityText(lv) ==
  CASE lv = 0 -> "DEBUG" [] lv = 1 -> "INFO" [] lv = 2 -> "WARN"
    [] lv = 3 -> "ERROR" [] OTHER -> "?"

\* A ulog_tool run that printed a header and exited has printed exactly
\* the records klog_snapshot returned for its getklog call, one line each,
\* in the snapshot's order, with the header's count equal to their number
\* and every level shown by its name or as unknown -- while writers, a
\* clear and a /dev/klog reader ran during the call.
UlogPrintsSnapshot ==
  \A r \in ToolProcs :
    tpc[r] = "done" /\ theader[r] >= 0 =>
      /\ theader[r] = Len(rres[r])
      /\ tout[r] = [i \in 1 .. Len(rres[r]) |->
                      [seq |-> rres[r][i].seq,
                       level |-> SeverityText(RecordLevel[rres[r][i].seq]),
                       cpu |-> rres[r][i].cpu]]

\* Every read of /dev/klog that entered the kernel returns to its caller,
\* and every ulog_tool run exits, while writers on every CPU, a clear and
\* the other process take the same per-CPU locks: the wrappers' return
\* steps wait only on the end of their klog_snapshot, and that ends.
UserCallsReturn ==
  /\ \A r \in CatProcs : upc[r] = "kernel" ~> upc[r] = "user"
  /\ \A r \in ToolProcs : <>(tpc[r] = "done")

=============================================================================
