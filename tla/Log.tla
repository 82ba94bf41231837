-------------------------------- MODULE Log --------------------------------
(***************************************************************************)
(* The write-ahead log of the file system (log.c), on top of the buffer    *)
(* cache (bio.c): group commit by the last operation to leave, the log     *)
(* space reserved by begin_op(), crashes between any two block writes, and *)
(* recovery at boot, which may itself crash.  kill() of a process asleep   *)
(* in its call (proc.c) leaves it off every run queue: its operation       *)
(* never ends, until the machine is started again.                         *)
(***************************************************************************)
EXTENDS Integers, Sequences, FiniteSets

CONSTANTS
  Ops,         \* processes that make file system calls
  Blocks,      \* home blocks the operations write
  Vals,        \* contents of a block
  MAXOPBLOCKS, \* log blocks begin_op() reserves for one operation
  LOGSIZE,     \* entries of the in-memory log header
  NLOG,        \* log.size: blocks of the on-disk log, its header included
  OpMax,       \* log blocks an operation really uses, at most
  NoBlock      \* no buffer

ASSUME LogConstants ==
  /\ IsFiniteSet(Ops)
  /\ MAXOPBLOCKS \in Nat /\ LOGSIZE \in Nat /\ OpMax \in Nat
  /\ NLOG \in Nat \ {0}
  /\ MAXOPBLOCKS =< LOGSIZE
  /\ Vals # {}
  /\ NoBlock \notin Blocks

Slots == 1..(NLOG - 1) \* the on-disk log blocks after the header

VARIABLES
  disk,        \* [Blocks -> Vals], the home locations
  logdata,     \* [Slots -> Vals], the on-disk log blocks
  hdr,         \* the on-disk header: the blocks of a committed transaction
  cache,       \* [Blocks -> Vals], what bread() returns
  dirty,       \* the blocks pinned in the cache by B_DIRTY
  lh,          \* log.lh: the block numbers of the current transaction
  outstanding, \* log.outstanding
  committing,  \* log.committing
  step,        \* progress of initlog() or commit(), see Steps
  tail,        \* blocks copied so far by write_log() or install_trans()
  pc,          \* [Ops -> where the process is]
  buf,         \* [Ops -> the block whose buffer it is writing, or NoBlock]
  used,        \* [Ops -> log blocks it has added to the transaction]
  stranded,    \* those killed in their sleep, which never run again
  panicked     \* panic() was called

persistent == <<disk, logdata, hdr>>
mem  == <<cache, dirty, lh>>
ctl  == <<outstanding, committing, step, tail>>
op   == <<pc, buf, used, stranded>>
vars == <<persistent, mem, ctl, op, panicked>>

(***************************************************************************)
(* boot     before read_head() of recover_from_log()                       *)
(* recover  in install_trans() of recover_from_log()                       *)
(* none     no commit in progress                                          *)
(* log      in write_log()                                                 *)
(* install  in install_trans() of commit()                                 *)
(* done     commit() has returned, end_op() is about to finish             *)
(***************************************************************************)
Steps == {"boot", "recover", "none", "log", "install", "done"}

(***************************************************************************)
(* idle     outside a file system call                                     *)
(* begin    in the loop of begin_op(), to look at the log again            *)
(* sleep    asleep in begin_op()                                           *)
(* in       between begin_op() and end_op()                                *)
(* write    in log_write(), past its checks                                *)
(* commit   the last to leave, in commit()                                 *)
(***************************************************************************)
OpStates == {"idle", "begin", "sleep", "in", "write", "commit"}

InLog(s, b) == \E i \in 1..Len(s) : s[i] = b

TypeOK ==
  /\ disk \in [Blocks -> Vals]
  /\ logdata \in [Slots -> Vals]
  /\ hdr \in Seq(Blocks) /\ Len(hdr) =< NLOG - 1
  /\ cache \in [Blocks -> Vals]
  /\ dirty \subseteq Blocks
  /\ lh \in Seq(Blocks) /\ Len(lh) =< NLOG - 1
  /\ outstanding \in Int
  /\ committing \in BOOLEAN
  /\ step \in Steps
  /\ tail \in 0..Len(lh)
  /\ pc \in [Ops -> OpStates]
  /\ buf \in [Ops -> Blocks \cup {NoBlock}]
  /\ used \in [Ops -> 0..OpMax]
  /\ stranded \subseteq Ops
  /\ panicked \in BOOLEAN

\* The disk as mkfs left it; forkret() of the first process calls initlog().
Init ==
  /\ disk \in [Blocks -> Vals]
  /\ \E v \in Vals : logdata = [i \in Slots |-> v]
  /\ hdr = << >>
  /\ cache = disk
  /\ dirty = {}
  /\ lh = << >>
  /\ outstanding = 0
  /\ committing = FALSE
  /\ step = "boot"
  /\ tail = 0
  /\ pc = [o \in Ops |-> "idle"]
  /\ buf = [o \in Ops |-> NoBlock]
  /\ used = [o \in Ops |-> 0]
  /\ stranded = {}
  /\ panicked = FALSE

-----------------------------------------------------------------------------
(* begin_op(), log_write() and end_op().                                   *)

\* Mutant: the blocks of the transaction so far are not counted.
FullButLh == (outstanding + 1) * MAXOPBLOCKS > LOGSIZE

\* begin_op(): this operation might exhaust the log.
Full == Len(lh) + (outstanding + 1) * MAXOPBLOCKS > LOGSIZE

Running(o, states) ==
  /\ ~panicked /\ step \notin {"boot", "recover"}
  /\ pc[o] \in states /\ o \notin stranded

BeginOp(o) ==
  /\ Running(o, {"idle", "begin"})
  /\ ~committing /\ ~Full
  /\ outstanding' = outstanding + 1
  /\ pc' = [pc EXCEPT ![o] = "in"]
  /\ used' = [used EXCEPT ![o] = 0]
  /\ UNCHANGED <<persistent, mem, committing, step, tail, buf, stranded,
                 panicked>>

\* sleep(&log, &log.lock)
BeginSleep(o) ==
  /\ Running(o, {"idle", "begin"})
  /\ committing \/ Full
  /\ pc' = [pc EXCEPT ![o] = "sleep"]
  /\ UNCHANGED <<persistent, mem, ctl, buf, used, stranded, panicked>>

(***************************************************************************)
(* An operation changes a locked buffer (no other has it) and calls        *)
(* log_write(), which checks for room without taking log.lock.  An         *)
(* operation adds at most OpMax blocks to the transaction.                 *)
(***************************************************************************)
Locked(b) == \E o \in Ops : buf[o] = b

LogWriteCheck(o, b, v) ==
  /\ Running(o, {"in"})
  /\ ~Locked(b)
  /\ InLog(lh, b) \/ used[o] < OpMax
  /\ cache' = [cache EXCEPT ![b] = v]
  /\ buf' = [buf EXCEPT ![o] = b]
  /\ pc' = [pc EXCEPT ![o] = "write"]
  /\ panicked' = (Len(lh) >= LOGSIZE \/ Len(lh) >= NLOG - 1 \/ outstanding < 1)
  /\ UNCHANGED <<persistent, dirty, lh, ctl, used, stranded>>

\* The rest of log_write(), under log.lock, and the brelse() that follows.
LogWrite(o) ==
  /\ Running(o, {"write"})
  /\ LET new == ~InLog(lh, buf[o]) \* else log absorption
     IN  /\ lh' = IF new THEN Append(lh, buf[o]) ELSE lh
         /\ used' = IF new THEN [used EXCEPT ![o] = @ + 1] ELSE used
  /\ dirty' = dirty \cup {buf[o]}
  /\ buf' = [buf EXCEPT ![o] = NoBlock]
  /\ pc' = [pc EXCEPT ![o] = "in"]
  /\ UNCHANGED <<persistent, cache, ctl, stranded, panicked>>

\* In begin_op(), for a wakeup(&log) to find.
Sleeping(o) == pc[o] = "sleep" /\ o \notin stranded

\* wakeup(&log), while o leaves end_op().
WakeupLog(o) ==
  pc' = [x \in Ops |-> IF x = o THEN "idle"
                       ELSE IF Sleeping(x) THEN "begin" ELSE pc[x]]

\* end_op() while other operations are in progress.
EndOp(o) ==
  /\ Running(o, {"in"}) /\ outstanding # 1
  /\ outstanding' = outstanding - 1
  /\ panicked' = committing
  /\ IF committing THEN UNCHANGED pc ELSE WakeupLog(o)
  /\ UNCHANGED <<persistent, mem, committing, step, tail, buf, used, stranded>>

\* end_op() of the last one: commit() starts, without log.lock.
EndOpLast(o) ==
  /\ Running(o, {"in"}) /\ outstanding = 1
  /\ outstanding' = 0
  /\ panicked' = committing
  /\ committing' = TRUE
  /\ pc' = [pc EXCEPT ![o] = "commit"]
  /\ step' = IF lh = << >> THEN "done" ELSE "log"
  /\ tail' = 0
  /\ UNCHANGED <<persistent, mem, buf, used, stranded>>

\* Mutant: nobody is woken after the commit.
EndCommitQuiet(o) ==
  /\ Running(o, {"commit"}) /\ step = "done"
  /\ committing' = FALSE
  /\ step' = "none"
  /\ pc' = [pc EXCEPT ![o] = "idle"]
  /\ UNCHANGED <<persistent, mem, outstanding, tail, buf, used, stranded,
                 panicked>>

\* end_op() finishes after commit().
EndCommit(o) ==
  /\ Running(o, {"commit"}) /\ step = "done"
  /\ committing' = FALSE
  /\ step' = "none"
  /\ WakeupLog(o)
  /\ UNCHANGED <<persistent, mem, outstanding, tail, buf, used, stranded,
                 panicked>>

-----------------------------------------------------------------------------
(* commit(): one action per block written to the disk.                     *)

\* The process in commit(), or in initlog(), goes on.
Going == ~panicked /\ \A o \in stranded : pc[o] # "commit"

\* write_log(): the next block of the transaction goes to the log.
WriteLog ==
  /\ Going /\ step = "log" /\ tail < Len(lh)
  /\ logdata' = [logdata EXCEPT ![tail + 1] = cache[lh[tail + 1]]]
  /\ tail' = tail + 1
  /\ UNCHANGED <<disk, hdr, mem, outstanding, committing, step, op,
                 panicked>>

\* Mutant: the header is written before the last log block.
WriteHeadEarly ==
  /\ Going /\ step = "log" /\ tail >= Len(lh) - 1
  /\ hdr' = lh
  /\ step' = "install" /\ tail' = 0
  /\ UNCHANGED <<disk, logdata, mem, outstanding, committing, op, panicked>>

\* write_head(): the transaction commits.
WriteHead ==
  /\ Going /\ step = "log" /\ tail = Len(lh)
  /\ hdr' = lh
  /\ step' = "install" /\ tail' = 0
  /\ UNCHANGED <<disk, logdata, mem, outstanding, committing, op, panicked>>

Installing == Going /\ step \in {"install", "recover"}

\* Mutant: the buffer stays pinned.
InstallTransPinned ==
  /\ Installing /\ tail < Len(lh)
  /\ LET b == lh[tail + 1]
     IN  /\ disk' = [disk EXCEPT ![b] = logdata[tail + 1]]
         /\ cache' = [cache EXCEPT ![b] = logdata[tail + 1]]
  /\ tail' = tail + 1
  /\ UNCHANGED <<logdata, hdr, dirty, lh, outstanding, committing, step, op,
                 panicked>>

\* install_trans(): the next block goes from the log to its home location.
InstallTrans ==
  /\ Installing /\ tail < Len(lh)
  /\ LET b == lh[tail + 1]
     IN  /\ disk' = [disk EXCEPT ![b] = logdata[tail + 1]]
         /\ cache' = [cache EXCEPT ![b] = logdata[tail + 1]]
         /\ dirty' = dirty \ {b}
  /\ tail' = tail + 1
  /\ UNCHANGED <<logdata, hdr, lh, outstanding, committing, step, op,
                 panicked>>

\* log.lh.n = 0 and write_head(): the transaction is erased from the log.
ClearHead ==
  /\ Installing /\ tail = Len(lh)
  /\ lh' = << >> /\ hdr' = << >>
  /\ step' = IF step = "recover" THEN "none" ELSE "done"
  /\ tail' = 0
  /\ UNCHANGED <<disk, logdata, cache, dirty, outstanding, committing, op,
                 panicked>>

\* read_head() of recover_from_log().
ReadHead ==
  /\ ~panicked /\ step = "boot"
  /\ lh' = hdr
  /\ step' = "recover" /\ tail' = 0
  /\ UNCHANGED <<persistent, cache, dirty, outstanding, committing, op,
                 panicked>>

-----------------------------------------------------------------------------
\* bget() recycles a buffer nobody holds and that is not pinned.
Evict(b) ==
  /\ ~panicked /\ b \notin dirty /\ ~Locked(b)
  /\ cache' = [cache EXCEPT ![b] = disk[b]]
  /\ UNCHANGED <<persistent, dirty, lh, ctl, op, panicked>>

\* kill() of o asleep in begin_op(), in the file system between begin_op() and
\* end_op() (in ilock() or iderw()), or in the disk writes of commit().
Kill(o) ==
  /\ ~panicked
  /\ \/ pc[o] \in {"sleep", "in"}
     \/ pc[o] = "commit" /\ step # "done"
  /\ stranded' = stranded \cup {o}
  /\ UNCHANGED <<persistent, mem, ctl, pc, buf, used, panicked>>

\* The machine stops and boots again, at any time: only the disk survives.
Crash ==
  /\ cache' = disk /\ dirty' = {} /\ lh' = << >>
  /\ outstanding' = 0 /\ committing' = FALSE
  /\ step' = "boot" /\ tail' = 0
  /\ pc' = [o \in Ops |-> "idle"]
  /\ buf' = [o \in Ops |-> NoBlock]
  /\ used' = [o \in Ops |-> 0]
  /\ stranded' = {}
  /\ panicked' = FALSE
  /\ UNCHANGED persistent

OpStep(o) ==
  \/ BeginOp(o) \/ BeginSleep(o)
  \/ \E b \in Blocks, v \in Vals : LogWriteCheck(o, b, v)
  \/ LogWrite(o) \/ EndOp(o) \/ EndOpLast(o) \/ EndCommit(o)

LogStep == WriteLog \/ WriteHead \/ InstallTrans \/ ClearHead \/ ReadHead

Next ==
  \/ \E o \in Ops : OpStep(o) \/ Kill(o)
  \/ LogStep
  \/ \E b \in Blocks : Evict(b)
  \/ Crash

Spec == Init /\ [][Next]_vars

-----------------------------------------------------------------------------
(* The disk that recovery would rebuild: the home blocks, overwritten by   *)
(* the log blocks if the header says that a transaction is committed.      *)

Overlay(d, h, l) ==
  [b \in Blocks |-> IF InLog(h, b)
                      THEN l[CHOOSE i \in 1..Len(h) : h[i] = b]
                      ELSE d[b]]

Durable == Overlay(disk, hdr, logdata)
Booting == step \in {"boot", "recover"}
Active  == {o \in Ops : pc[o] \in {"in", "write"}}

Abstract == INSTANCE AtomicDisk WITH
  durable <- Durable,
  current <- IF Booting THEN Durable ELSE cache,
  active  <- Active

(***************************************************************************)
(* "The logging system only commits when there are no FS system calls      *)
(* active": seen from outside, log.c is a disk on which whole groups of    *)
(* operations become durable at once, and crashes, also during commit()    *)
(* and during recovery, never leave a part of one.                         *)
(***************************************************************************)
ImplementsAtomicDisk == Abstract!Spec

(***************************************************************************)
(* When the log is at rest and nobody is in a file system call, all that   *)
(* was written is on the disk at its home location.                        *)
(***************************************************************************)
SyncedAtRest ==
  step = "none" /\ outstanding = 0 =>
    lh = << >> /\ hdr = << >> /\ disk = cache /\ dirty = {}

(***************************************************************************)
(* The space reserved by begin_op() is enough: log_write() never panics    *)
(* with "too big a transaction" or "outside of trans", although it looks   *)
(* at log.lh.n without the lock, nor end_op() with "log.committing".       *)
(***************************************************************************)
NoPanic == ~panicked

\* Nobody sleeps in begin_op() unless some end_op() is still to wake it.
NoLostLogWakeup ==
  \A o \in Ops : Sleeping(o) => Active # {} \/ committing

(***************************************************************************)
(* What log.lock and the disk guarantee between two steps of log.c: a well *)
(* typed log whose transaction fits its blocks on disk, nothing left       *)
(* behind at rest, and nobody asleep without somebody to wake it.          *)
(***************************************************************************)
LogInv == TypeOK /\ SyncedAtRest /\ NoLostLogWakeup

-----------------------------------------------------------------------------
(***************************************************************************)
(* An operation killed in its sleep past begin_op() keeps its place in     *)
(* log.outstanding, or log.committing, and the locks it has.               *)
(***************************************************************************)
Blocked == \E o \in stranded : pc[o] # "sleep"

\* What a process does inside a call, without a new begin_op() or log_write().
Onward(o) ==
  \/ pc[o] = "begin" /\ (BeginOp(o) \/ BeginSleep(o))
  \/ LogWrite(o) \/ EndOp(o) \/ EndOpLast(o) \/ EndCommit(o)

\* A program starts a call, or a call writes one more block.
Calls ==
  \E o \in Ops :
    \/ pc[o] = "idle" /\ (BeginOp(o) \/ BeginSleep(o))
    \/ \E b \in Blocks, v \in Vals : LogWriteCheck(o, b, v)

(***************************************************************************)
(* Fairness.  As long as somebody inside a call, or the commit, can go on, *)
(* somebody does: scheduler() runs some process, and the disk answers.     *)
(* Nothing is said of which one, for a process on a lower queue may have   *)
(* to wait as long as those above find work (Proc, QueuesServed).          *)
(***************************************************************************)
Fairness == WF_vars(~Blocked /\ (LogStep \/ \E o \in Ops : Onward(o)))

FairSpec == Spec /\ Fairness

(***************************************************************************)
(* A sleeper of begin_op() gets to look at the log again, once programs    *)
(* let the processes that are inside a call come to its end: the last to   *)
(* leave commits and wakes whoever waits for log space or for the commit.  *)
(* It may wait for ever after kill() of an operation asleep in its call.   *)
(***************************************************************************)
SleepersRetry ==
  \/ []<><<Calls>>_vars
  \/ \A o \in Ops : Sleeping(o) ~> (~Sleeping(o) \/ Blocked)
=============================================================================
