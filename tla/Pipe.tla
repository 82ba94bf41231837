-------------------------------- MODULE Pipe --------------------------------
(***************************************************************************)
(* The pipe of pipe.c: a ring of PIPESIZE bytes under one spin lock, two   *)
(* counters of type uint that only ever grow (and wrap), two sleep         *)
(* channels, and a page of memory that the last of the two fileclose()     *)
(* calls gives back.                                                       *)
(*                                                                         *)
(* Everything pipewrite(), piperead() and pipeclose() do between acquiring *)
(* and releasing p->lock is one step; sleep() ends a step, since it gives  *)
(* the lock up.  Before it the lock is held for a second step, for kill()  *)
(* does not take it and may come after the test of killed.  The file       *)
(* structure of either end is the set of processes that hold a descriptor  *)
(* for it; fork() shares it, fileclose() leaves it, and the last to leave  *)
(* calls pipeclose() after ftable.lock is released.                        *)
(* kill() makes a sleeper RUNNABLE without queueing it (see Proc), so a    *)
(* process killed in its sleep is never run again and keeps its            *)
(* descriptors: that is the place "limbo".                                 *)
(***************************************************************************)
EXTENDS Integers, Sequences, FiniteSets

CONSTANTS Procs,      \* processes
          Byte,       \* values of a byte
          PIPESIZE,   \* bytes of the ring
          COUNTER,    \* modulus of nread and nwrite: 2^32 in the code
          MaxN,       \* bound: longest read() and write()
          Strings,    \* bound: what write() is called with
          Killable    \* the processes kill() may be called for

ASSUME RingAssumption == /\ PIPESIZE \in Nat \ {0}
                         /\ COUNTER \in Nat
                         /\ COUNTER >= 2 * PIPESIZE
                         /\ COUNTER % PIPESIZE = 0
ASSUME CallAssumption == /\ MaxN \in Nat /\ Killable \subseteq Procs
                         /\ Strings \subseteq Seq(Byte)
                         /\ \A s \in Strings: Len(s) =< MaxN

VARIABLES data, nread, nwrite, readopen, writeopen,   \* struct pipe
          page,       \* whether the page of the pipe is allocated
          rfile,      \* processes with a descriptor for the read end
          wfile,      \* processes with a descriptor for the write end
          pc,         \* where each process is
          todo,       \* addr[i..n-1] of the write() a process is in
          want,       \* n of the read() a process is in
          got,        \* the bytes the last read() copied to its caller
          killed,     \* the processes with p->killed set
          gaveup      \* history: a killed writer has left readers of this pipe asleep

ring == <<data, nread, nwrite>>
ends == <<readopen, writeopen, page>>
files == <<rfile, wfile>>
vars == <<data, nread, nwrite, readopen, writeopen, page, rfile, wfile,
          pc, todo, want, got, killed, gaveup>>

Writing == {"write", "writefull", "writesleep"}
Reading == {"read", "readempty", "readsleep"}
Places == Writing \union Reading
            \union {"user", "closeread", "closewrite", "kfree", "limbo"}

\* About to sleep, with p->lock held.
Locked == {"writefull", "readempty"}

\* Process p is there and takes p->lock.
Enter(p, place) == /\ pc[p] = place
                   /\ \A q \in Procs: pc[q] \notin Locked

\* How many bytes are in the ring: the difference of two wrapping counters.
Used == (nwrite - nread) % COUNTER

\* Room left in the ring: pipewrite() stops at nwrite = nread + PIPESIZE.
Room == PIPESIZE - Used

\* data[n % PIPESIZE] for a counter value n.
Slot(n) == (n % COUNTER) % PIPESIZE

Full == nwrite = (nread + PIPESIZE) % COUNTER

Empty == nread = nwrite

Least(a, b) == IF a =< b THEN a ELSE b

\* wakeup(&p->nread) and wakeup(&p->nwrite): all the sleepers of a channel.
WakeReaders(where) ==
  [q \in Procs |-> IF where[q] = "readsleep" THEN "read" ELSE where[q]]

WakeWriters(where) ==
  [q \in Procs |-> IF where[q] = "writesleep" THEN "write" ELSE where[q]]

Init == /\ data \in [0 .. PIPESIZE - 1 -> Byte]
        /\ nread = 0 /\ nwrite = 0
        /\ readopen = FALSE /\ writeopen = FALSE /\ page = FALSE
        /\ rfile = {} /\ wfile = {} /\ killed = {} /\ gaveup = FALSE
        /\ pc = [p \in Procs |-> "user"]
        /\ todo = [p \in Procs |-> <<>>]
        /\ want = [p \in Procs |-> 0]
        /\ got = <<>>

-----------------------------------------------------------------------------
\* pipealloc() as called by sys_pipe(): kalloc() returns a page of any
\* contents.  Its failure leaves no pipe behind and is not a step here.
PipeAlloc(p) ==
  /\ pc[p] = "user" /\ p \notin killed
  /\ ~page
  /\ page' = TRUE /\ readopen' = TRUE /\ writeopen' = TRUE
  /\ nread' = 0 /\ nwrite' = 0
  /\ rfile' = {p} /\ wfile' = {p}
  /\ gaveup' = FALSE
  /\ UNCHANGED <<data, pc, todo, want, got, killed>>

\* fork(): the child, a new process, has what its parent has open.
Fork(p, q) ==
  /\ pc[p] = "user" /\ p \notin killed
  /\ p \in rfile \union wfile
  /\ pc[q] = "user" /\ q \notin rfile \union wfile
  /\ rfile' = rfile \union (IF p \in rfile THEN {q} ELSE {})
  /\ wfile' = wfile \union (IF p \in wfile THEN {q} ELSE {})
  /\ killed' = killed \ {q}
  /\ UNCHANGED <<ring, ends, pc, todo, want, got, gaveup>>

\* fileclose() of the read end, by sys_close() or exit(): the reference is
\* dropped under ftable.lock, and the last one goes on to pipeclose().
CloseReadFile(p) ==
  /\ pc[p] = "user" /\ p \in rfile
  /\ rfile' = rfile \ {p}
  /\ pc' = [pc EXCEPT ![p] = IF rfile' = {} THEN "closeread" ELSE "user"]
  /\ UNCHANGED <<ring, ends, wfile, todo, want, got, killed, gaveup>>

CloseWriteFile(p) ==
  /\ pc[p] = "user" /\ p \in wfile
  /\ wfile' = wfile \ {p}
  /\ pc' = [pc EXCEPT ![p] = IF wfile' = {} THEN "closewrite" ELSE "user"]
  /\ UNCHANGED <<ring, ends, rfile, todo, want, got, killed, gaveup>>

\* Mutant: the page is freed when either end is shut.
PipeCloseReadEager(p) ==
  /\ Enter(p, "closeread")
  /\ readopen' = FALSE
  /\ pc' = [WakeWriters(pc) EXCEPT ![p] = "kfree"]
  /\ UNCHANGED <<ring, writeopen, page, files, todo, want, got, killed, gaveup>>

\* Mutant: the ends are looked at before this one is shut.
PipeCloseReadLate(p) ==
  /\ Enter(p, "closeread")
  /\ readopen' = FALSE
  /\ pc' = [WakeWriters(pc) EXCEPT
              ![p] = IF readopen \/ writeopen THEN "user" ELSE "kfree"]
  /\ UNCHANGED <<ring, writeopen, page, files, todo, want, got, killed, gaveup>>

\* Mutant: closing the write end wakes the writers, not the readers.
PipeCloseWriteQuiet(p) ==
  /\ Enter(p, "closewrite")
  /\ writeopen' = FALSE
  /\ pc' = [WakeWriters(pc) EXCEPT ![p] = IF readopen THEN "user" ELSE "kfree"]
  /\ UNCHANGED <<ring, readopen, page, files, todo, want, got, killed, gaveup>>

\* pipeclose(p, 0) and pipeclose(p, 1): shut one end, wake the other side,
\* and look, still under the lock, whether both ends are shut.
PipeCloseRead(p) ==
  /\ Enter(p, "closeread")
  /\ readopen' = FALSE
  /\ pc' = [WakeWriters(pc) EXCEPT ![p] = IF writeopen THEN "user" ELSE "kfree"]
  /\ UNCHANGED <<ring, writeopen, page, files, todo, want, got, killed, gaveup>>

PipeCloseWrite(p) ==
  /\ Enter(p, "closewrite")
  /\ writeopen' = FALSE
  /\ pc' = [WakeReaders(pc) EXCEPT ![p] = IF readopen THEN "user" ELSE "kfree"]
  /\ UNCHANGED <<ring, readopen, page, files, todo, want, got, killed, gaveup>>

\* kfree((char*)p), after the release of the lock.
KFree(p) ==
  /\ pc[p] = "kfree"
  /\ page' = FALSE
  /\ pc' = [pc EXCEPT ![p] = "user"]
  /\ UNCHANGED <<ring, readopen, writeopen, files, todo, want, got, killed, gaveup>>

-----------------------------------------------------------------------------
\* filewrite() reaches pipewrite() with the n bytes at addr.
WriteCall(p) ==
  /\ pc[p] = "user" /\ p \in wfile \ killed
  /\ pc' = [pc EXCEPT ![p] = "write"]
  /\ \E s \in Strings: todo' = [todo EXCEPT ![p] = s]
  /\ UNCHANGED <<ring, ends, files, want, got, killed, gaveup>>

\* The copy loop of pipewrite() up to its end or to a full ring.
CopyIn(p, k) ==
  /\ data' = [j \in 0 .. PIPESIZE - 1 |->
                LET new == {i \in 1 .. k : Slot(nwrite + i - 1) = j}
                IN  IF new = {} THEN data[j] ELSE todo[p][CHOOSE i \in new : TRUE]]
  /\ nwrite' = (nwrite + k) % COUNTER
  /\ nread' = nread

\* All of the bytes found room: wake the readers and return n.
PipeWrite(p) ==
  /\ Enter(p, "write")
  /\ Len(todo[p]) =< Room
  /\ CopyIn(p, Len(todo[p]))
  /\ todo' = [todo EXCEPT ![p] = <<>>]
  /\ pc' = [WakeReaders(pc) EXCEPT ![p] = "user"]
  /\ UNCHANGED <<ends, files, want, got, killed, gaveup>>

\* Mutant: after the sleep the loop starts again with the first byte.
PipeWriteSleepRestart(p) ==
  /\ Enter(p, "write")
  /\ Len(todo[p]) > Room
  /\ readopen /\ p \notin killed
  /\ CopyIn(p, Room)
  /\ pc' = [WakeReaders(pc) EXCEPT ![p] = "writefull"]
  /\ UNCHANGED <<todo, ends, files, want, got, killed, gaveup>>

\* The ring is full with bytes left: wake the readers and go to sleep.
PipeWriteSleep(p) ==
  /\ Enter(p, "write")
  /\ Len(todo[p]) > Room
  /\ readopen /\ p \notin killed
  /\ CopyIn(p, Room)
  /\ todo' = [todo EXCEPT ![p] =
                SubSeq(todo[p], Room + 1, Len(todo[p]))]
  /\ pc' = [WakeReaders(pc) EXCEPT ![p] = "writefull"]
  /\ UNCHANGED <<ends, files, want, got, killed, gaveup>>

\* The ring is full, and nobody will read or the writer was killed: return
\* -1 at once.  The bytes copied so far stay in the ring and wake nobody.
PipeWriteFail(p) ==
  /\ Enter(p, "write")
  /\ Len(todo[p]) > Room
  /\ ~readopen \/ p \in killed
  /\ CopyIn(p, Room)
  /\ todo' = [todo EXCEPT ![p] = <<>>]
  /\ pc' = [pc EXCEPT ![p] = "user"]
  /\ gaveup' = (gaveup \/ (p \in killed /\ \E q \in Procs: pc[q] = "readsleep"))
  /\ UNCHANGED <<ends, files, want, got, killed>>

\* fileread() reaches piperead() with a buffer of n bytes.
ReadCall(p) ==
  /\ pc[p] = "user" /\ p \in rfile \ killed
  /\ pc' = [pc EXCEPT ![p] = "read"]
  /\ \E n \in 0 .. MaxN: want' = [want EXCEPT ![p] = n]
  /\ UNCHANGED <<ring, ends, files, todo, got, killed, gaveup>>

\* Mutant: the writers are woken only when the ring was emptied.
PipeReadLazy(p) ==
  LET k == Least(want[p], Used)
  IN  /\ Enter(p, "read")
      /\ ~Empty \/ ~writeopen
      /\ got' = [i \in 1 .. k |-> data[Slot(nread + i - 1)]]
      /\ nread' = (nread + k) % COUNTER
      /\ want' = [want EXCEPT ![p] = 0]
      /\ pc' = [(IF k = Used THEN WakeWriters(pc) ELSE pc) EXCEPT ![p] = "user"]
      /\ UNCHANGED <<data, nwrite, ends, files, todo, killed, gaveup>>

\* There are bytes, or there will never be: copy what there is, wake the
\* writers and return the number copied.
PipeRead(p) ==
  LET k == Least(want[p], Used)
  IN  /\ Enter(p, "read")
      /\ ~Empty \/ ~writeopen
      /\ got' = [i \in 1 .. k |-> data[Slot(nread + i - 1)]]
      /\ nread' = (nread + k) % COUNTER
      /\ want' = [want EXCEPT ![p] = 0]
      /\ pc' = [WakeWriters(pc) EXCEPT ![p] = "user"]
      /\ UNCHANGED <<data, nwrite, ends, files, todo, killed, gaveup>>

\* Nothing to read yet: go to sleep, or return -1 when killed.
PipeReadWait(p) ==
  /\ Enter(p, "read")
  /\ Empty /\ writeopen
  /\ pc' = [pc EXCEPT ![p] = IF p \in killed THEN "user" ELSE "readempty"]
  /\ want' = [want EXCEPT ![p] = IF p \in killed THEN 0 ELSE @]
  /\ UNCHANGED <<ring, ends, files, todo, got, killed, gaveup>>

\* sleep() gives p->lock up, whether or not p was killed meanwhile.
Sleep(p) ==
  /\ pc[p] \in Locked
  /\ pc' = [pc EXCEPT ![p] = IF @ = "writefull" THEN "writesleep" ELSE "readsleep"]
  /\ UNCHANGED <<ring, ends, files, todo, want, got, killed, gaveup>>

\* kill(): sets p->killed; a sleeper leaves its channel for good.
Kill(p) ==
  /\ p \in Killable
  /\ p \notin killed \/ pc[p] \in {"writesleep", "readsleep"}
  /\ p \in rfile \union wfile
  /\ killed' = killed \union {p}
  /\ pc' = [pc EXCEPT ![p] =
              IF @ \in {"writesleep", "readsleep"} THEN "limbo" ELSE @]
  /\ todo' = [todo EXCEPT ![p] = IF pc[p] = "writesleep" THEN <<>> ELSE @]
  /\ UNCHANGED <<ring, ends, files, want, got, gaveup>>

-----------------------------------------------------------------------------
\* What a process does by itself once it is in the kernel.
KernelStep(p) == \/ PipeWrite(p) \/ PipeWriteSleep(p) \/ PipeWriteFail(p)
                 \/ PipeRead(p) \/ PipeReadWait(p) \/ Sleep(p)
                 \/ PipeCloseRead(p) \/ PipeCloseWrite(p) \/ KFree(p)

\* The system calls it may make, and kill().
UserStep(p) == \/ PipeAlloc(p) \/ (\E q \in Procs: Fork(p, q))
               \/ CloseReadFile(p) \/ CloseWriteFile(p)
               \/ WriteCall(p) \/ ReadCall(p) \/ Kill(p)

Next == \E p \in Procs: KernelStep(p) \/ UserStep(p)

Spec == Init /\ [][Next]_vars

\* As long as some process can go on in the kernel some process does; which
\* one is left to scheduler().  Nothing is assumed of the programs, which need
\* never call read() or close().
FairSpec == Spec /\ WF_vars(\E p \in Procs: KernelStep(p))

-----------------------------------------------------------------------------
(***************************************************************************)
(* The type invariant: the ring never holds more than PIPESIZE bytes, on   *)
(* either side of a wrap of its counters.                                  *)
(***************************************************************************)
TypeOK ==
  /\ data \in [0 .. PIPESIZE - 1 -> Byte]
  /\ nread \in 0 .. COUNTER - 1 /\ nwrite \in 0 .. COUNTER - 1
  /\ Used =< PIPESIZE
  /\ readopen \in BOOLEAN /\ writeopen \in BOOLEAN /\ page \in BOOLEAN
  /\ rfile \subseteq Procs /\ wfile \subseteq Procs /\ killed \subseteq Procs
  /\ gaveup \in BOOLEAN
  /\ pc \in [Procs -> Places]
  /\ todo \in [Procs -> Seq(Byte)] /\ \A p \in Procs: Len(todo[p]) =< MaxN
  /\ want \in [Procs -> 0 .. MaxN]
  /\ got \in Seq(Byte)

\* The bytes between the two counters, in the order in which they went in.
Contents ==
  IF readopen \/ writeopen THEN [i \in 1 .. Used |-> data[Slot(nread + i - 1)]] ELSE <<>>

Abstract == INSTANCE ByteStream WITH
  Capacity <- PIPESIZE, stream <- Contents,
  ropen <- readopen, wopen <- writeopen

(***************************************************************************)
(* The ring, its two wrapping counters and its sleeping readers and        *)
(* writers deliver a stream: every byte of every pipewrite() that was not  *)
(* given up comes out of piperead() once, in order.                        *)
(***************************************************************************)
DeliversStream == Abstract!Spec

(***************************************************************************)
(* Nobody is asleep in piperead() or pipewrite() while there is something  *)
(* for it to do.  The readers lose this to a killed writer, which fills    *)
(* the ring, finds itself killed and returns without waking them.          *)
(***************************************************************************)
NoLostPipeWakeup ==
  \A p \in Procs:
    /\ pc[p] = "readsleep" => writeopen /\ (gaveup \/ Empty)
    /\ pc[p] = "writesleep" => readopen /\ Full

(***************************************************************************)
(* The page of a pipe is freed by one process, after the last use: whoever *)
(* is inside pipe.c, or still has a descriptor, has a pipe to use, and the *)
(* process about to free it is the only one left.                          *)
(***************************************************************************)
Using == {p \in Procs : pc[p] # "user"} \union rfile \union wfile

NoUseAfterFree ==
  /\ Using # {} => page
  /\ \A p \in Procs: pc[p] = "kfree" => Using = {p}

(***************************************************************************)
(* The page of a pipe while it exists and after: at most PIPESIZE bytes    *)
(* between two counters that wrap, and pipeclose() frees it once, after    *)
(* its last user.                                                          *)
(***************************************************************************)
PipeInv == TypeOK /\ NoUseAfterFree

\* End of file and broken pipe: a piperead() whose last writer has closed, and
\* a pipewrite() whose last reader has, return.
PeersGoneReturn ==
  \A p \in Procs:
    /\ (pc[p] \in Reading /\ wfile = {}) ~> pc[p] \notin Reading
    /\ (pc[p] \in Writing /\ rfile = {}) ~> pc[p] \notin Writing

\* A pipe nobody has a descriptor for gives its page back.
PageReturned == (page /\ rfile = {} /\ wfile = {}) ~> ~page

(***************************************************************************)
(* What pipeclose() sets off ends well: the other side returns, and the    *)
(* page comes back.  Exempt is a run in which programs go on calling the   *)
(* kernel for ever: scheduler() may then run those alone, and never the    *)
(* process that was woken.                                                 *)
(***************************************************************************)
ClosedPipesEnd ==
  \/ []<><<\E p \in Procs: UserStep(p)>>_vars
  \/ PeersGoneReturn /\ PageReturned
=============================================================================
