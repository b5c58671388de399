----------------------------- MODULE KLogBuffers -----------------------------
(***************************************************************************)
(* What the klog engine promises, without slots or cursors: each CPU       *)
(* keeps the last KLOG_BUF_SIZE records logged on it, in logging order;    *)
(* every record gets the next number of one global counter; a snapshot     *)
(* visits the CPUs in ascending order, takes from each the oldest of its   *)
(* kept records while the caller's budget lasts, and returns them sorted   *)
(* by sequence number.  A clear forgets the records of each CPU in turn;  *)
(* nothing else makes a CPU forget a record but a newer one on that CPU.   *)
(*                                                                         *)
(* KLog implements this specification under the mapping in MC_KLog.        *)
(***************************************************************************)
EXTENDS Integers, Sequences, TLC

CONSTANTS NCPU, KLOG_BUF_SIZE, Readers, MaxEntries

CPUS == 0 .. NCPU - 1

VARIABLES
  win,      \* win[c]: the records CPU c still keeps, oldest first
  nextSeq,  \* the number the next record gets
  rpc,      \* rpc[r]: "idle" or "collect"
  rcur,     \* rcur[r]: next CPU the snapshot of r visits
  rmax,     \* rmax[r]: the budget of the snapshot
  rout,     \* rout[r]: records taken so far
  rres,     \* rres[r]: result of the last snapshot of r
  clearAt   \* next CPU the running clear empties, NCPU when none runs

absVars == <<win, nextSeq, rpc, rcur, rmax, rout, rres, clearAt>>

\* The last n elements of s.
KeepLast(s, n) == IF Len(s) <= n THEN s ELSE SubSeq(s, Len(s) - n + 1, Len(s))

\* The first n elements of s.
TakeFirst(s, n) == IF Len(s) <= n THEN s ELSE SubSeq(s, 1, n)

BySeq(a, b) == a.seq < b.seq

Init ==
  /\ win = [c \in CPUS |-> IF c = 0 THEN <<0>> ELSE <<>>]
  /\ nextSeq = 1
  /\ rpc = [r \in Readers |-> "idle"]
  /\ rcur = [r \in Readers |-> 0]
  /\ rmax = [r \in Readers |-> CHOOSE m \in MaxEntries : TRUE]
  /\ rout = [r \in Readers |-> <<>>]
  /\ rres = [r \in Readers |-> <<>>]
  /\ clearAt = NCPU

Log(c) ==
  /\ win' = [win EXCEPT ![c] = KeepLast(Append(@, nextSeq), KLOG_BUF_SIZE)]
  /\ nextSeq' = nextSeq + 1
  /\ UNCHANGED <<rpc, rcur, rmax, rout, rres, clearAt>>

StartClear ==
  /\ clearAt = NCPU
  /\ clearAt' = 0
  /\ UNCHANGED <<win, nextSeq, rpc, rcur, rmax, rout, rres>>

Clear(c) ==
  /\ clearAt = c
  /\ win' = [win EXCEPT ![c] = <<>>]
  /\ clearAt' = c + 1
  /\ UNCHANGED <<nextSeq, rpc, rcur, rmax, rout, rres>>

Start(r) ==
  /\ rpc[r] = "idle"
  /\ \E m \in MaxEntries : rmax' = [rmax EXCEPT ![r] = m]
  /\ rpc' = [rpc EXCEPT ![r] = "collect"]
  /\ rcur' = [rcur EXCEPT ![r] = 0]
  /\ rout' = [rout EXCEPT ![r] = <<>>]
  /\ UNCHANGED <<win, nextSeq, rres, clearAt>>

Visit(r) ==
  LET c    == rcur[r]
      take == TakeFirst(win[c], rmax[r] - Len(rout[r]))
  IN /\ rpc[r] = "collect"
     /\ c < NCPU
     /\ rout' = [rout EXCEPT ![r] =
                   @ \o [k \in 1 .. Len(take) |-> [seq |-> take[k], cpu |-> c]]]
     /\ rcur' = [rcur EXCEPT ![r] = c + 1]
     /\ UNCHANGED <<win, nextSeq, rpc, rmax, rres, clearAt>>

Finish(r) ==
  /\ rpc[r] = "collect"
  /\ rcur[r] = NCPU
  /\ rres' = [rres EXCEPT ![r] = SortSeq(rout[r], BySeq)]
  /\ rpc' = [rpc EXCEPT ![r] = "idle"]
  /\ UNCHANGED <<win, nextSeq, rcur, rmax, rout, clearAt>>

Next ==
  \/ \E c \in CPUS : Log(c) \/ Clear(c)
  \/ StartClear
  \/ \E r \in Readers : Start(r) \/ Visit(r) \/ Finish(r)

Spec == Init /\ [][Next]_absVars

=============================================================================
