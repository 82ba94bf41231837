------------------------------- MODULE Bcache -------------------------------
(***************************************************************************)
(* The buffer cache of bio.c with the sleep lock of each buffer            *)
(* (sleeplock.c) and the IDE driver it sits on (ide.c): processes, the     *)
(* disk and its interrupt handler run side by side.                        *)
(*                                                                         *)
(* What happens under bcache.lock, under the spin lock of a sleep lock or  *)
(* under idelock is one step each; between them another process or the     *)
(* interrupt may come.  Blocks are those of the one disk in use, so dev is *)
(* not kept.  bcache.buf starts out zeroed: its buffers hold NoBlock.      *)
(*                                                                         *)
(* The file system is represented by what it may do with a buffer it has:  *)
(* change it and pin it with log_write(), change it and write it with      *)
(* bwrite(), release it.  It never asks for a block it already has.        *)
(*                                                                         *)
(* kill() of a process asleep in iderw() or acquiresleep() (proc.c) leaves *)
(* it off every run queue, with the locks it holds.                        *)
(***************************************************************************)
EXTENDS Integers, Sequences, SequencesExt, FiniteSets

CONSTANTS Procs,       \* processes
          Bufs,        \* the buffers of bcache.buf
          Blocks,      \* disk blocks
          Val,         \* contents of a block
          None, NoBlock,
          MaxHold,     \* bound: buffers a process has at a time
          MaxPins,     \* bound: buffers pinned by the log (LOGSIZE)
          DiskErrors   \* the disk may report a read error

ASSUME CacheAssumption ==
  /\ IsFiniteSet(Procs) /\ IsFiniteSet(Bufs)
  /\ None \notin Procs \union Bufs /\ NoBlock \notin Blocks
  /\ MaxHold \in Nat /\ MaxPins \in Nat /\ DiskErrors \in BOOLEAN

VARIABLES blockno, valid, dirty, refcnt, data,   \* struct buf
          owner,      \* b->lock.pid: the holder of the sleep lock, or None
          lru,        \* the list from bcache.head.next on: recent first
          idequeue,   \* the requests for the disk; the first is being served
          disk,       \* the contents of the disk
          cmd,        \* the command the disk is working on
          intr,       \* the disk has raised its interrupt
          pc, cur,    \* where a process is, and the buffer it is busy with
          held,       \* the buffers bread() has returned to it
          stranded,   \* those killed in their sleep, which never run again
          panicked

buf == <<blockno, valid, dirty, refcnt, data>>
ide == <<idequeue, disk, cmd, intr>>
vars == <<blockno, valid, dirty, refcnt, data, owner, lru, idequeue, disk,
          cmd, intr, pc, cur, held, stranded, panicked>>

NoCmd == [op |-> "none"]

Places == {"fs", "lock", "locksleep", "bread", "iderw", "iosleep", "iowake",
           "unref"}

Init == /\ blockno = [b \in Bufs |-> NoBlock]
        /\ valid = [b \in Bufs |-> FALSE] /\ dirty = [b \in Bufs |-> FALSE]
        /\ refcnt = [b \in Bufs |-> 0]
        /\ data \in [Bufs -> Val] /\ \A b, c \in Bufs: data[b] = data[c]
        /\ owner = [b \in Bufs |-> None]
        /\ lru = SetToSeq(Bufs)
        /\ idequeue = <<>> /\ cmd = NoCmd /\ intr = FALSE
        /\ disk \in [Blocks -> Val]
        /\ pc = [p \in Procs |-> "fs"]
        /\ cur = [p \in Procs |-> None]
        /\ held = [p \in Procs |-> {}]
        /\ stranded = {}
        /\ panicked = FALSE

At(p, place) == ~panicked /\ pc[p] = place /\ p \notin stranded

Goto(p, place) == pc' = [pc EXCEPT ![p] = place]

\* wakeup(b) and wakeup(&b->lock): all that sleep there go round their loop,
\* but for those that kill() made RUNNABLE already.
Wake(b, from, to) ==
  [q \in Procs |-> IF pc[q] = from /\ cur[q] = b /\ q \notin stranded
                     THEN to ELSE pc[q]]

Holding(blk) == {b \in Bufs : blockno[b] = blk}

\* Mutant: B_DIRTY does not keep a buffer in the cache.
RecyclableDirty(b) == refcnt[b] = 0

Recyclable(b) == refcnt[b] = 0 /\ ~dirty[b]

-----------------------------------------------------------------------------
\* May the file system, as p, ask for block blk?
MayAsk(p, blk) == /\ At(p, "fs")
                  /\ Cardinality(held[p]) < MaxHold
                  /\ \A b \in held[p]: blockno[b] # blk

\* bget(): the block is cached, or being read for somebody else.
BgetHit(p, blk) ==
  /\ MayAsk(p, blk)
  /\ \E b \in Holding(blk):
        /\ refcnt' = [refcnt EXCEPT ![b] = @ + 1]
        /\ cur' = [cur EXCEPT ![p] = b]
  /\ Goto(p, "lock")
  /\ UNCHANGED <<blockno, valid, dirty, data, owner, lru, ide, held, stranded,
                 panicked>>

\* Mutant: the block is looked for among the buffers in use only.
BgetMissUnused(p, blk) ==
  /\ MayAsk(p, blk)
  /\ \A b \in Holding(blk): refcnt[b] = 0
  /\ \E i \in 1 .. Len(lru):
        /\ Recyclable(lru[i])
        /\ \A j \in i + 1 .. Len(lru): ~Recyclable(lru[j])
        /\ blockno' = [blockno EXCEPT ![lru[i]] = blk]
        /\ valid' = [valid EXCEPT ![lru[i]] = FALSE]
        /\ dirty' = [dirty EXCEPT ![lru[i]] = FALSE]
        /\ refcnt' = [refcnt EXCEPT ![lru[i]] = 1]
        /\ cur' = [cur EXCEPT ![p] = lru[i]]
  /\ Goto(p, "lock")
  /\ UNCHANGED <<data, owner, lru, ide, held, stranded, panicked>>

\* bget(): recycle the least recently used buffer that nobody uses and the
\* log has not pinned.
BgetMiss(p, blk) ==
  /\ MayAsk(p, blk)
  /\ Holding(blk) = {}
  /\ \E i \in 1 .. Len(lru):
        /\ Recyclable(lru[i])
        /\ \A j \in i + 1 .. Len(lru): ~Recyclable(lru[j])
        /\ blockno' = [blockno EXCEPT ![lru[i]] = blk]
        /\ valid' = [valid EXCEPT ![lru[i]] = FALSE]
        /\ dirty' = [dirty EXCEPT ![lru[i]] = FALSE]
        /\ refcnt' = [refcnt EXCEPT ![lru[i]] = 1]
        /\ cur' = [cur EXCEPT ![p] = lru[i]]
  /\ Goto(p, "lock")
  /\ UNCHANGED <<data, owner, lru, ide, held, stranded, panicked>>

\* panic("bget: no buffers")
BgetPanic(p, blk) ==
  /\ MayAsk(p, blk)
  /\ Holding(blk) = {}
  /\ \A b \in Bufs: ~Recyclable(b)
  /\ panicked' = TRUE
  /\ UNCHANGED <<buf, owner, lru, ide, pc, cur, held, stranded>>

\* acquiresleep(&b->lock), once round its loop.
AcquireSleep(p) ==
  /\ At(p, "lock")
  /\ owner[cur[p]] = None
  /\ owner' = [owner EXCEPT ![cur[p]] = p]
  /\ Goto(p, "bread")
  /\ UNCHANGED <<buf, lru, ide, cur, held, stranded, panicked>>

AcquireSleepWait(p) ==
  /\ At(p, "lock")
  /\ owner[cur[p]] # None
  /\ Goto(p, "locksleep")
  /\ UNCHANGED <<buf, owner, lru, ide, cur, held, stranded, panicked>>

\* The end of bread() and of bwrite(): the caller has the buffer.
Have(p) == /\ held' = [held EXCEPT ![p] = @ \union {cur[p]}]
           /\ cur' = [cur EXCEPT ![p] = None]
           /\ Goto(p, "fs")

\* bread() looks whether the buffer it has locked has been read.
Bread(p) ==
  /\ At(p, "bread")
  /\ valid[cur[p]]
  /\ Have(p)
  /\ UNCHANGED <<buf, owner, lru, ide, stranded, panicked>>

\* Mutant: bread() always goes to the disk.
BreadIoAlways(p) ==
  /\ At(p, "bread")
  /\ Goto(p, "iderw")
  /\ UNCHANGED <<buf, owner, lru, ide, cur, held, stranded, panicked>>

BreadIo(p) ==
  /\ At(p, "bread")
  /\ ~valid[cur[p]]
  /\ Goto(p, "iderw")
  /\ UNCHANGED <<buf, owner, lru, ide, cur, held, stranded, panicked>>

-----------------------------------------------------------------------------
\* idestart(b): a write takes the data along, a read leaves it to the end.
IdeStart(b) == cmd' = IF dirty[b] THEN [op |-> "write", blk |-> blockno[b],
                                        val |-> data[b]]
                                  ELSE [op |-> "read", blk |-> blockno[b]]

\* iderw(): queue the request, start the disk if it is idle, and sleep; the
\* panic is the one of "iderw: nothing to do".
IdeRw(p) ==
  /\ At(p, "iderw")
  /\ panicked' = (valid[cur[p]] /\ ~dirty[cur[p]])
  /\ idequeue' = Append(idequeue, cur[p])
  /\ IF idequeue = <<>> THEN IdeStart(cur[p]) ELSE cmd' = cmd
  /\ Goto(p, "iosleep")
  /\ UNCHANGED <<buf, owner, lru, disk, intr, cur, held, stranded>>

\* The loop of iderw() after a wakeup.
IdeRwCheck(p) ==
  /\ At(p, "iowake")
  /\ IF valid[cur[p]] /\ ~dirty[cur[p]]
       THEN Have(p)
       ELSE Goto(p, "iosleep") /\ UNCHANGED <<cur, held>>
  /\ UNCHANGED <<buf, owner, lru, ide, stranded, panicked>>

\* What is on the disk once it has done its command.
Done == IF cmd.op = "write" THEN [disk EXCEPT ![cmd.blk] = cmd.val] ELSE disk

\* The disk finishes its command and raises the interrupt.
DiskDone ==
  /\ ~panicked /\ cmd # NoCmd /\ ~intr
  /\ intr' = TRUE
  /\ disk' = Done
  /\ UNCHANGED <<buf, owner, lru, idequeue, cmd, pc, cur, held, stranded,
                 panicked>>

\* The disk interrupts although it has no command.  One that is taken before
\* a process comes to iderw() does nothing, so only the others are modelled.
DiskSpurious ==
  /\ ~panicked /\ cmd = NoCmd /\ ~intr
  /\ \E p \in Procs: At(p, "iderw")
  /\ intr' = TRUE
  /\ UNCHANGED <<buf, owner, lru, idequeue, disk, cmd, pc, cur, held, stranded,
                 panicked>>

\* ideintr(): take the first request off the queue, fetch the data of a read
\* when the disk is ready (unless it reports an error), wake the process that
\* sleeps for it, start the next when the disk is done with this one.
IdeIntr ==
  /\ ~panicked /\ intr /\ idequeue # <<>>
  /\ intr' = FALSE
  /\ LET b == Head(idequeue)
         read == {disk[blockno[b]]}
                   \union (IF DiskErrors THEN {data[b]} ELSE {})
     IN  /\ idequeue' = Tail(idequeue)
         /\ \E v \in IF dirty[b] THEN {data[b]} ELSE read:
              data' = [data EXCEPT ![b] = v]
         /\ valid' = [valid EXCEPT ![b] = TRUE]
         /\ dirty' = [dirty EXCEPT ![b] = FALSE]
         /\ pc' = Wake(b, "iosleep", "iowake")
  /\ disk' = Done
  /\ IF Tail(idequeue) = <<>> THEN cmd' = NoCmd ELSE IdeStart(idequeue[2])
  /\ UNCHANGED <<blockno, refcnt, owner, lru, cur, held, stranded, panicked>>

\* ideintr() with nothing in the queue.
IdeIntrNone ==
  /\ ~panicked /\ intr /\ idequeue = <<>>
  /\ intr' = FALSE
  /\ UNCHANGED <<buf, owner, lru, idequeue, disk, cmd, pc, cur, held, stranded,
                 panicked>>

-----------------------------------------------------------------------------
\* The file system changes a buffer it has and calls log_write(), which
\* sets B_DIRTY to keep the buffer in the cache.
LogWrite(p, b) ==
  /\ At(p, "fs") /\ b \in held[p]
  /\ dirty[b] \/ Cardinality({c \in Bufs : dirty[c]}) < MaxPins
  /\ \E v \in Val: data' = [data EXCEPT ![b] = v]
  /\ dirty' = [dirty EXCEPT ![b] = TRUE]
  /\ UNCHANGED <<blockno, valid, refcnt, owner, lru, ide, pc, cur, held,
                 stranded, panicked>>

\* The log changes a buffer it has, or not, and calls bwrite().
Bwrite(p, b) ==
  /\ At(p, "fs") /\ b \in held[p]
  /\ \E v \in Val: data' = [data EXCEPT ![b] = v]
  /\ dirty' = [dirty EXCEPT ![b] = TRUE]
  /\ cur' = [cur EXCEPT ![p] = b]
  /\ Goto(p, "iderw")
  /\ UNCHANGED <<blockno, valid, refcnt, owner, lru, ide, held, stranded,
                 panicked>>

\* Mutant: releasesleep() without its wakeup.
BrelseQuiet(p, b) ==
  /\ At(p, "fs") /\ b \in held[p]
  /\ owner' = [owner EXCEPT ![b] = None]
  /\ held' = [held EXCEPT ![p] = @ \ {b}]
  /\ cur' = [cur EXCEPT ![p] = b]
  /\ pc' = [pc EXCEPT ![p] = "unref"]
  /\ UNCHANGED <<buf, lru, ide, stranded, panicked>>

\* brelse(): first the sleep lock ...
Brelse(p, b) ==
  /\ At(p, "fs") /\ b \in held[p]
  /\ owner' = [owner EXCEPT ![b] = None]
  /\ held' = [held EXCEPT ![p] = @ \ {b}]
  /\ cur' = [cur EXCEPT ![p] = b]
  /\ pc' = [Wake(b, "locksleep", "lock") EXCEPT ![p] = "unref"]
  /\ UNCHANGED <<buf, lru, ide, stranded, panicked>>

\* ... then, under bcache.lock, the reference; the last one makes the buffer
\* the most recently used.
BrelseUnref(p) ==
  /\ At(p, "unref")
  /\ refcnt' = [refcnt EXCEPT ![cur[p]] = @ - 1]
  /\ IF refcnt'[cur[p]] = 0
       THEN \E i \in 1 .. Len(lru): /\ lru[i] = cur[p]
                                    /\ lru' = <<cur[p]>> \o RemoveAt(lru, i)
       ELSE lru' = lru
  /\ cur' = [cur EXCEPT ![p] = None]
  /\ Goto(p, "fs")
  /\ UNCHANGED <<blockno, valid, dirty, data, owner, ide, held, stranded,
                 panicked>>

-----------------------------------------------------------------------------
Ask(p) == \E blk \in Blocks:
            BgetHit(p, blk) \/ BgetMiss(p, blk) \/ BgetPanic(p, blk)

Use(p) == \E b \in Bufs: LogWrite(p, b) \/ Bwrite(p, b)

Inside(p) == \/ AcquireSleep(p) \/ AcquireSleepWait(p)
             \/ Bread(p) \/ BreadIo(p)
             \/ IdeRw(p) \/ IdeRwCheck(p) \/ BrelseUnref(p)

Asleep(p) == pc[p] \in {"iosleep", "locksleep"} /\ p \notin stranded

\* kill() of a sleeper, by a process that is not modelled.
Kill(p) ==
  /\ ~panicked /\ Asleep(p)
  /\ stranded' = stranded \union {p}
  /\ UNCHANGED <<buf, owner, lru, ide, pc, cur, held, panicked>>

Disk == DiskDone \/ DiskSpurious \/ IdeIntr \/ IdeIntrNone

Next == \/ Disk
        \/ \E p \in Procs:
             \/ Ask(p) \/ Use(p) \/ Inside(p) \/ Kill(p)
             \/ \E b \in Bufs: Brelse(p, b)

Spec == Init /\ [][Next]_vars

(***************************************************************************)
(* Fairness: the disk answers and its interrupt is taken; and as long as   *)
(* some process can finish bread(), bwrite() or brelse(), or release what  *)
(* it has, some process does.  Which one is left to scheduler().           *)
(***************************************************************************)
FairSpec ==
  /\ Spec
  /\ WF_vars(DiskDone \/ IdeIntr \/ IdeIntrNone)
  /\ WF_vars(\E p \in Procs: Inside(p) \/ \E b \in Bufs: Brelse(p, b))

-----------------------------------------------------------------------------
(***************************************************************************)
(* The type invariant; the list bcache.head.next ... holds every buffer    *)
(* once.                                                                   *)
(***************************************************************************)
TypeOK ==
  /\ blockno \in [Bufs -> Blocks \union {NoBlock}]
  /\ valid \in [Bufs -> BOOLEAN] /\ dirty \in [Bufs -> BOOLEAN]
  /\ refcnt \in [Bufs -> Nat] /\ data \in [Bufs -> Val]
  /\ owner \in [Bufs -> Procs \union {None}]
  /\ lru \in Seq(Bufs) /\ Len(lru) = Cardinality(Bufs)
  /\ \A b \in Bufs: \E i \in 1 .. Len(lru): lru[i] = b
  /\ idequeue \in Seq(Bufs) /\ intr \in BOOLEAN
  /\ disk \in [Blocks -> Val]
  /\ pc \in [Procs -> Places]
  /\ cur \in [Procs -> Bufs \union {None}]
  /\ held \in [Procs -> SUBSET Bufs]
  /\ stranded \subseteq Procs
  /\ panicked \in BOOLEAN

\* The content of a block: that of its buffer once it was read or changed.
Content(blk) ==
  IF \E b \in Holding(blk): valid[b]
    THEN data[CHOOSE b \in Holding(blk): valid[b]] ELSE disk[blk]

User(blk) ==
  IF \E p \in Procs: \E b \in held[p]: blockno[b] = blk
    THEN CHOOSE p \in Procs: \E b \in held[p]: blockno[b] = blk ELSE None

Abstract == INSTANCE BlockStore WITH
  content <- [blk \in Blocks |-> Content(blk)],
  user <- [blk \in Blocks |-> User(blk)]

(***************************************************************************)
(* "Return a locked buf with the contents of the indicated block": through *)
(* recycling, pinning, queueing and interrupts, a block has one content    *)
(* and one user at a time, and only that user changes it.                  *)
(***************************************************************************)
CacheIsStore == Abstract!Spec

(***************************************************************************)
(* The cache is "a synchronization point for disk blocks used by multiple  *)
(* processes" only as long as no block has two buffers.                    *)
(***************************************************************************)
OneBufferPerBlock ==
  \A b, c \in Bufs: blockno[b] = blockno[c] /\ blockno[b] # NoBlock => b = c

(***************************************************************************)
(* refcnt counts the processes that wait for, have or are letting go of a  *)
(* buffer, so that bget() recycles none that is still wanted.              *)
(***************************************************************************)
RefsExact ==
  \A b \in Bufs:
    refcnt[b] = Cardinality({p \in Procs : b \in held[p] \union {cur[p]}})

(***************************************************************************)
(* A process asleep in iderw() has its request in the queue, once, and the *)
(* disk works on the first request or has raised its interrupt for it.     *)
(***************************************************************************)
NoLostIo ==
  /\ \A p \in Procs: pc[p] = "iosleep" /\ Asleep(p) =>
       \E i \in 1 .. Len(idequeue): idequeue[i] = cur[p]
  /\ \A i, j \in 1 .. Len(idequeue): idequeue[i] = idequeue[j] => i = j
  /\ idequeue # <<>> => cmd # NoCmd /\ cmd.blk = blockno[Head(idequeue)]

(***************************************************************************)
(* iderw() is never asked for a buffer that needs no transfer: bread(),    *)
(* bwrite() and the interrupt agree on the flags although no lock covers   *)
(* them from call to call.  The only panic left is that of bget() when     *)
(* every buffer is in use or pinned.                                       *)
(***************************************************************************)
NoIdePanic == panicked => \A b \in Bufs: refcnt[b] > 0 \/ dirty[b]

(***************************************************************************)
(* The buffer cache and the disk queue between two steps: bget() never     *)
(* caches a block twice, counts every user of a buffer, ideintr() leaves   *)
(* no request behind, and iderw() is never called for nothing.             *)
(***************************************************************************)
BufferInv == TypeOK /\ OneBufferPerBlock /\ RefsExact /\ NoLostIo /\ NoIdePanic

\* The file system asks for a block, or changes one it has.
Calls == \E p \in Procs: Ask(p) \/ Use(p)

(***************************************************************************)
(* Whoever sleeps for a buffer is woken: in iderw() by the interrupt of    *)
(* its own request, however many are queued before it, in acquiresleep()   *)
(* by the brelse() of the holder of the lock.  Exempt is a run in which    *)
(* processes go on calling bread() and changing buffers for ever, for then *)
(* scheduler() may run those alone, and the lock of a buffer whose holder  *)
(* was killed in its sleep.                                                *)
(***************************************************************************)
SleepersWoken ==
  \/ []<><<Calls>>_vars
  \/ \A p \in Procs:
       Asleep(p) ~> \/ ~Asleep(p) \/ panicked
                    \/ /\ pc[p] = "locksleep"
                       /\ \E b \in Bufs: owner[b] \in stranded
=============================================================================
