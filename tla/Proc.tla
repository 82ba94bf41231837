-------------------------------- MODULE Proc --------------------------------
(***************************************************************************)
(* The process table and the multi-level feedback scheduler of xv6-l       *)
(* (proc.c, with the timer interrupt of trap.c and sys_sleep of sysproc.c).*)
(*                                                                         *)
(* Every process slot of ptable.proc runs an arbitrary program: while it   *)
(* is RUNNING in user mode it may call fork, exit, wait, kill or sleep, or *)
(* fault, or just compute until the clock interrupts it.  A step is one    *)
(* critical section of ptable.lock, or one iteration of a loop that runs   *)
(* inside such a section (the queue scan of scheduler and the table scan   *)
(* of wakeup1), so CPUs interleave exactly where the code drops the lock.  *)
(***************************************************************************)
EXTENDS Integers, Sequences

CONSTANTS
  NPROC,     \* slots of the process table
  NPROCQ,    \* priority queues
  Cpus,      \* the CPUs
  BootCpu,   \* the CPU whose clock interrupt advances ticks (cpuid() == 0)
  Calls,     \* what the programs do, besides computing: a subset of Programs
  MaxSleep,  \* longest sys_sleep request, in ticks
  UMAX       \* largest value of an unsigned machine word

Procs    == 1..NPROC
Queues   == 0..(NPROCQ - 1)
TopQueue == NPROCQ - 1
NIL      == 0         \* the null pointer, and the free lock
InitProc == 1         \* slot taken by userinit()
Ticks    == NPROC + 1 \* the channel &ticks; a process slot is its own channel
Chans    == Procs \cup {Ticks}

\* Length of a time slice at priority q: 1 << (NPROCQ - priority - 1).
Slice(q) == 2 ^ (NPROCQ - q - 1)

Programs == {"fork", "exit", "wait", "kill", "sleep", "fault"}

ASSUME ProcConstants ==
  /\ NPROC \in Nat \ {0}
  /\ NPROCQ \in Nat \ {0}
  /\ BootCpu \in Cpus
  /\ NIL \notin Cpus
  /\ Calls \subseteq Programs
  /\ MaxSleep \in Nat
  /\ UMAX \in Nat

\* A slice is a positive number that fits the machine word.
ASSUME SliceFits == \A q \in Queues : Slice(q) \in 1..UMAX

VARIABLES
  state,      \* [Procs -> procstate]
  parent,     \* [Procs -> Procs or NIL]
  haspid,     \* [Procs -> BOOLEAN], p->pid # 0; pids are unique, so which is abstracted
  chan,       \* [Procs -> Chans or NIL]
  killed,     \* [Procs -> BOOLEAN]
  priority,   \* [Procs -> Queues]
  timepiece,  \* [Procs -> 0..UMAX]
  next,       \* [Procs -> Procs or NIL], the link of the run queues
  head,       \* [Queues -> Procs or NIL]
  last,       \* [Queues -> Procs or NIL]
  count,      \* [Queues -> Nat]
  order,      \* history: the processes pushed on each queue and not yet popped
  stranded,   \* history: the processes that kill() made RUNNABLE in their sleep
  proc,       \* [Cpus -> Procs or NIL], c->proc
  pc,         \* [Procs -> where the process is in its kernel code]
  np,         \* [Procs -> Procs or NIL], fork()'s new process
  left,       \* [Procs -> 0..MaxSleep], ticks before sys_sleep's loop ends
  intr,       \* [Cpus -> progress of the clock interrupt on this CPU]
  lock,       \* the CPU that holds ptable.lock, or NIL
  idx,        \* loop index of the lock holder (queue number or table slot)
  wchan,      \* argument of the wakeup1() in progress, or NIL
  panicked    \* panic() was called

lists  == <<next, head, last, count, order>>
pqueue == <<lists, stranded>>
table  == <<state, parent, haspid, chan, killed, priority, timepiece>>
thread == <<pc, np, left>>
crit   == <<lock, idx, wchan>>
vars   == <<table, pqueue, proc, thread, intr, crit, panicked>>

States == {"UNUSED", "EMBRYO", "SLEEPING", "RUNNABLE", "RUNNING", "ZOMBIE"}

(***************************************************************************)
(* Where a process is:                                                     *)
(*   user     in user mode                                                 *)
(*   syscall  in trap(), past the check of killed, about to serve the call *)
(*   alloc    in allocproc(), the slot claimed, interrupts still on        *)
(*   fork     in fork(), after allocproc()'s cli(), copying the process    *)
(*   wait     in the loop of wait(), holding ptable.lock when RUNNING      *)
(*   sleep    in sys_sleep(), in sleep() or back from it                   *)
(*   doze     in sleep(&ticks, &tickslock), before it takes ptable.lock:   *)
(*            tickslock is held and the interrupts of the CPU are off      *)
(*   trapret  at the last check of killed in trap(), after a clock tick    *)
(*   exit     in exit(), before it takes ptable.lock                       *)
(*   exit1    in exit(), in wakeup1(curproc->parent)                       *)
(*   exit2    in exit(), in wakeup1(initproc)                              *)
(***************************************************************************)
Locations ==
  {"user", "syscall", "alloc", "fork", "wait", "sleep", "doze", "trapret",
   "exit", "exit1", "exit2"}

(***************************************************************************)
(* The clock interrupt on a CPU: tick while it holds tickslock (ticks++    *)
(* done, wakeup(&ticks) not finished), post in the rest of trap(), yield   *)
(* when the time slice is used up and yield() wants ptable.lock.           *)
(***************************************************************************)
IntrStates == {"none", "tick", "post", "yield"}

TypeOK ==
  /\ state \in [Procs -> States]
  /\ parent \in [Procs -> Procs \cup {NIL}]
  /\ haspid \in [Procs -> BOOLEAN]
  /\ chan \in [Procs -> Chans \cup {NIL}]
  /\ killed \in [Procs -> BOOLEAN]
  /\ priority \in [Procs -> Queues]
  /\ timepiece \in [Procs -> 0..UMAX]
  /\ next \in [Procs -> Procs \cup {NIL}]
  /\ head \in [Queues -> Procs \cup {NIL}]
  /\ last \in [Queues -> Procs \cup {NIL}]
  /\ count \in [Queues -> Nat]
  /\ order \in [Queues -> Seq(Procs)]
  /\ stranded \subseteq Procs
  /\ proc \in [Cpus -> Procs \cup {NIL}]
  /\ pc \in [Procs -> Locations]
  /\ np \in [Procs -> Procs \cup {NIL}]
  /\ left \in [Procs -> 0..MaxSleep]
  /\ intr \in [Cpus -> IntrStates]
  /\ lock \in Cpus \cup {NIL}
  /\ idx \in Nat
  /\ wchan \in Chans \cup {NIL}
  /\ panicked \in BOOLEAN

-----------------------------------------------------------------------------
(* The state main() leaves behind: userinit() has put init on the top      *)
(* queue and every CPU is about to enter the loop of scheduler().          *)

Init ==
  /\ state = [p \in Procs |-> IF p = InitProc THEN "RUNNABLE" ELSE "UNUSED"]
  /\ parent = [p \in Procs |-> NIL]
  /\ haspid = [p \in Procs |-> p = InitProc]
  /\ chan = [p \in Procs |-> NIL]
  /\ killed = [p \in Procs |-> FALSE]
  /\ priority = [p \in Procs |-> IF p = InitProc THEN TopQueue ELSE 0]
  /\ timepiece = [p \in Procs |-> IF p = InitProc THEN Slice(TopQueue) ELSE 0]
  /\ next = [p \in Procs |-> IF p = InitProc THEN InitProc ELSE NIL]
  /\ head = [q \in Queues |-> IF q = TopQueue THEN InitProc ELSE NIL]
  /\ last = [q \in Queues |-> IF q = TopQueue THEN InitProc ELSE NIL]
  /\ count = [q \in Queues |-> IF q = TopQueue THEN 1 ELSE 0]
  /\ order = [q \in Queues |-> IF q = TopQueue THEN <<InitProc>> ELSE <<>>]
  /\ stranded = {}
  /\ proc = [c \in Cpus |-> NIL]
  /\ pc = [p \in Procs |-> "user"]
  /\ np = [p \in Procs |-> NIL]
  /\ left = [p \in Procs |-> 0]
  /\ intr = [c \in Cpus |-> "none"]
  /\ lock = NIL
  /\ idx = 0
  /\ wchan = NIL
  /\ panicked = FALSE

-----------------------------------------------------------------------------
(* The run queues.                                                         *)

\* Mutant: the process keeps what was left of its slice.
qpushOldSlice(p, q) ==
  /\ next' = [next EXCEPT ![p] = p]
  /\ head' = [head EXCEPT ![q] = p] /\ last' = [last EXCEPT ![q] = p]
  /\ UNCHANGED <<timepiece, stranded>>
  /\ count' = [count EXCEPT ![q] = @ + 1]
  /\ order' = [order EXCEPT ![q] = Append(@, p)]

(***************************************************************************)
(* qpush(p) with p->priority = q: append p to the circular list of queue q *)
(* and give it a full time slice.                                          *)
(***************************************************************************)
qpush(p, q) ==
  /\ IF count[q] = 0
       THEN /\ next' = [next EXCEPT ![p] = p]
            /\ head' = [head EXCEPT ![q] = p]
       ELSE /\ next' = [next EXCEPT ![p] = head[q], ![last[q]] = p]
            /\ UNCHANGED head
  /\ last' = [last EXCEPT ![q] = p]
  /\ timepiece' = [timepiece EXCEPT ![p] = Slice(q)]
  /\ count' = [count EXCEPT ![q] = @ + 1]
  /\ order' = [order EXCEPT ![q] = Append(@, p)]
  /\ UNCHANGED stranded

\* The scheduler takes the head of queue q off the list.
qpop(q) ==
  /\ head' = [head EXCEPT ![q] = next[head[q]]]
  /\ count' = [count EXCEPT ![q] = @ - 1]
  /\ order' = [order EXCEPT ![q] = Tail(@)]
  /\ UNCHANGED <<next, last, stranded>>

\* wakeup1() and yield() move a process one queue up or down.
LowerWraps(q) == IF q > 0 THEN q - 1 ELSE TopQueue \* mutant: from the lowest to the top
Raise(q) == IF q < TopQueue THEN q + 1 ELSE q
Lower(q) == IF q > 0 THEN q - 1 ELSE q

-----------------------------------------------------------------------------
(* scheduler(): one instance per CPU.                                      *)

\* Top of the loop: sti(), then take ptable.lock and start at the top queue.
SchedAcquire(c) ==
  /\ ~panicked
  /\ proc[c] = NIL /\ intr[c] = "none" /\ lock = NIL
  /\ lock' = c
  /\ idx' = TopQueue
  /\ UNCHANGED <<table, pqueue, proc, thread, intr, wchan, panicked>>

Scanning(c) ==
  ~panicked /\ lock = c /\ proc[c] = NIL /\ intr[c] = "none"

\* This queue is empty and there is a lower one.
SchedNextQueue(c) ==
  /\ Scanning(c) /\ count[idx] = 0 /\ idx > 0
  /\ idx' = idx - 1
  /\ UNCHANGED <<table, pqueue, proc, thread, intr, lock, wchan, panicked>>

\* Nothing to run: release ptable.lock and loop.
SchedIdle(c) ==
  /\ Scanning(c) /\ count[idx] = 0 /\ idx = 0
  /\ lock' = NIL
  /\ UNCHANGED <<table, pqueue, proc, thread, intr, idx, wchan, panicked>>

(***************************************************************************)
(* Take the head of the queue.  A process that is not RUNNABLE is thrown   *)
(* away and the scan goes on; a RUNNABLE one is switched to, and it leaves *)
(* the sleep(), yield() or forkret() it is in: chan is cleared and         *)
(* ptable.lock released, unless it sleeps in wait(), which keeps it.       *)
(***************************************************************************)
SchedPop(c) ==
  /\ Scanning(c) /\ count[idx] > 0
  /\ LET p   == head[idx]
         run == state[p] = "RUNNABLE"
     IN  /\ qpop(idx)
         /\ state' = IF run THEN [state EXCEPT ![p] = "RUNNING"] ELSE state
         /\ chan' = IF run THEN [chan EXCEPT ![p] = NIL] ELSE chan
         /\ proc' = IF run THEN [proc EXCEPT ![c] = p] ELSE proc
         /\ lock' = IF run /\ pc[p] # "wait" THEN NIL ELSE c
         /\ idx' = IF run THEN 0 ELSE idx
  /\ UNCHANGED <<parent, haspid, killed, priority, timepiece, thread, intr,
                 wchan, panicked>>

-----------------------------------------------------------------------------
(* wakeup1(wchan): one step per slot of the table, ptable.lock held.       *)

Waking(c) == ~panicked /\ lock = c /\ wchan # NIL /\ idx \in Procs

AsleepAnyState(p) == chan[p] = wchan \* mutant: the state is not looked at

Asleep(p) == state[p] = "SLEEPING" /\ chan[p] = wchan

\* Mutant: as kill() does, the process is made RUNNABLE but not queued.
Wakeup1HitNoPush(c) ==
  /\ Waking(c) /\ Asleep(idx)
  /\ state' = [state EXCEPT ![idx] = "RUNNABLE"]
  /\ idx' = idx + 1
  /\ UNCHANGED <<parent, haspid, chan, killed, priority, timepiece, pqueue,
                 proc, thread, intr, lock, wchan, panicked>>

Wakeup1Hit(c) ==
  /\ Waking(c) /\ Asleep(idx)
  /\ state' = [state EXCEPT ![idx] = "RUNNABLE"]
  /\ priority' = [priority EXCEPT ![idx] = Raise(@)]
  /\ qpush(idx, Raise(priority[idx]))
  /\ idx' = idx + 1
  /\ UNCHANGED <<parent, haspid, chan, killed, proc, thread, intr, lock,
                 wchan, panicked>>

Wakeup1Skip(c) ==
  /\ Waking(c) /\ ~Asleep(idx)
  /\ idx' = idx + 1
  /\ UNCHANGED <<table, pqueue, proc, thread, intr, lock, wchan, panicked>>

\* The wakeup1() in progress has visited the whole table.
Woken(c) == ~panicked /\ lock = c /\ wchan # NIL /\ idx = NPROC + 1

-----------------------------------------------------------------------------
(* trap(): the clock interrupt.                                            *)

(***************************************************************************)
(* tickslock is held by the boot CPU from ticks++ to the end of the        *)
(* wakeup, and by a process on its way to sleep in sys_sleep().            *)
(***************************************************************************)
TicksLockFree == intr[BootCpu] # "tick" /\ \A p \in Procs : pc[p] # "doze"

(***************************************************************************)
(* The interrupt is delivered while interrupts are on: never under         *)
(* ptable.lock or tickslock, nor in fork() after the cli() of allocproc(), *)
(* nor before the iret of an earlier interrupt.  On the boot CPU it takes  *)
(* tickslock and increments ticks; an idle other CPU only counts it.       *)
(***************************************************************************)
TimerIrq(c) ==
  /\ ~panicked
  /\ intr[c] = "none" /\ lock # c
  /\ proc[c] # NIL => pc[proc[c]] \notin {"fork", "doze", "trapret"}
  /\ c = BootCpu => TicksLockFree
  /\ proc[c] # NIL \/ c = BootCpu
  /\ IF c = BootCpu
       THEN /\ intr' = [intr EXCEPT ![c] = "tick"]
            /\ left' = [p \in Procs |-> IF left[p] > 0 THEN left[p] - 1 ELSE 0]
       ELSE /\ intr' = [intr EXCEPT ![c] = "post"]
            /\ UNCHANGED left
  /\ UNCHANGED <<table, pqueue, proc, pc, np, crit, panicked>>

\* Mutant: ticks++ without wakeup(&ticks).
TickNoWakeup(c) ==
  /\ ~panicked /\ intr[c] = "tick"
  /\ intr' = [intr EXCEPT ![c] = "post"]
  /\ UNCHANGED <<table, pqueue, proc, thread, crit, panicked>>

\* wakeup(&ticks) takes ptable.lock.
TickWakeup(c) ==
  /\ ~panicked
  /\ intr[c] = "tick" /\ lock = NIL
  /\ lock' = c
  /\ wchan' = Ticks
  /\ idx' = 1
  /\ UNCHANGED <<table, pqueue, proc, thread, intr, panicked>>

\* wakeup(&ticks) returns: release ptable.lock and tickslock.
TickDone(c) ==
  /\ Woken(c) /\ intr[c] = "tick"
  /\ intr' = [intr EXCEPT ![c] = "post"]
  /\ lock' = NIL /\ wchan' = NIL /\ idx' = 0
  /\ UNCHANGED <<table, pqueue, proc, thread, panicked>>

DecForgotten(t) == t \* mutant: the slice is never used up

\* --myproc()->timepiece on an unsigned word.
Dec(t) == IF t = 0 THEN UMAX ELSE t - 1

(***************************************************************************)
(* The rest of trap(): a killed process in user mode exits; otherwise the  *)
(* process loses one unit of its slice and yields if that was the last; on *)
(* the way back to user mode killed is checked once more (TrapRet).        *)
(***************************************************************************)
TrapIdle(c) ==
  /\ ~panicked /\ intr[c] = "post" /\ proc[c] = NIL
  /\ intr' = [intr EXCEPT ![c] = "none"]
  /\ UNCHANGED <<table, pqueue, proc, thread, crit, panicked>>

TrapKilled(c) ==
  /\ ~panicked /\ intr[c] = "post" /\ proc[c] # NIL
  /\ killed[proc[c]] /\ pc[proc[c]] = "user"
  /\ pc' = [pc EXCEPT ![proc[c]] = "exit"]
  /\ intr' = [intr EXCEPT ![c] = "none"]
  /\ UNCHANGED <<table, pqueue, proc, np, left, crit, panicked>>

TrapTimepiece(c) ==
  /\ ~panicked /\ intr[c] = "post" /\ proc[c] # NIL
  /\ ~(killed[proc[c]] /\ pc[proc[c]] = "user")
  /\ state[proc[c]] = "RUNNING"
  /\ LET p == proc[c]
         t == Dec(timepiece[p])
     IN  /\ timepiece' = [timepiece EXCEPT ![p] = t]
         /\ intr' = [intr EXCEPT ![c] = IF t <= 0 THEN "yield" ELSE "none"]
         /\ pc' = [pc EXCEPT ![p] = IF @ = "user" THEN "trapret" ELSE @]
  /\ UNCHANGED <<state, parent, haspid, chan, killed, priority, pqueue, proc,
                 np, left, crit, panicked>>

\* yield(): back to the run queue, one priority lower.
Yield(c) ==
  /\ ~panicked /\ intr[c] = "yield" /\ lock = NIL
  /\ LET p == proc[c]
     IN  /\ state' = [state EXCEPT ![p] = "RUNNABLE"]
         /\ priority' = [priority EXCEPT ![p] = Lower(@)]
         /\ qpush(p, Lower(priority[p]))
  /\ proc' = [proc EXCEPT ![c] = NIL]
  /\ intr' = [intr EXCEPT ![c] = "none"]
  /\ UNCHANGED <<parent, haspid, chan, killed, thread, crit, panicked>>

-----------------------------------------------------------------------------
(* System calls.  p runs on c, no interrupt is being served there.         *)

At(c, p, loc) ==
  ~panicked /\ proc[c] = p /\ intr[c] = "none" /\ pc[p] = loc

\* A system call returns through trap(), which checks killed on the way out.
SysRet(p) == IF killed[p] THEN "exit" ELSE "user"

\* trap() for T_SYSCALL: a process already killed exits, any other is served.
Syscall(c, p) ==
  /\ At(c, p, "user")
  /\ pc' = [pc EXCEPT ![p] = IF killed[p] THEN "exit" ELSE "syscall"]
  /\ UNCHANGED <<table, pqueue, proc, np, left, intr, crit, panicked>>

\* The end of trap() for an interrupt of user mode.
TrapRet(c, p) ==
  /\ At(c, p, "trapret")
  /\ pc' = [pc EXCEPT ![p] = SysRet(p)]
  /\ UNCHANGED <<table, pqueue, proc, np, left, intr, crit, panicked>>

\* allocproc() takes the first UNUSED slot.
FirstUnused(n) ==
  state[n] = "UNUSED" /\ \A m \in 1..(n - 1) : state[m] # "UNUSED"

\* fork(): allocproc() claims a slot under ptable.lock.
ForkAlloc(c, p) ==
  /\ "fork" \in Calls
  /\ At(c, p, "syscall") /\ lock = NIL
  /\ \E n \in Procs :
       /\ FirstUnused(n)
       /\ state' = [state EXCEPT ![n] = "EMBRYO"]
       /\ haspid' = [haspid EXCEPT ![n] = TRUE]
       /\ np' = [np EXCEPT ![p] = n]
  /\ pc' = [pc EXCEPT ![p] = "alloc"]
  /\ UNCHANGED <<parent, chan, killed, priority, timepiece, pqueue, proc,
                 left, intr, crit, panicked>>

\* The table is full: fork() returns -1.
ForkFull(c, p) ==
  /\ "fork" \in Calls
  /\ At(c, p, "syscall") /\ lock = NIL
  /\ \A n \in Procs : state[n] # "UNUSED"
  /\ pc' = [pc EXCEPT ![p] = SysRet(p)]
  /\ UNCHANGED <<table, pqueue, proc, np, left, intr, crit, panicked>>

\* The rest of allocproc(): kernel stack, top priority, interrupts off.
ForkStack(c, p) ==
  /\ At(c, p, "alloc")
  /\ priority' = [priority EXCEPT ![np[p]] = TopQueue]
  /\ pc' = [pc EXCEPT ![p] = "fork"]
  /\ UNCHANGED <<state, parent, haspid, chan, killed, timepiece, pqueue, proc,
                 np, left, intr, crit, panicked>>

(***************************************************************************)
(* kalloc() (in allocproc()) or copyuvm() (in fork()) finds no memory: the *)
(* slot is given back without taking ptable.lock, and it keeps its pid.    *)
(***************************************************************************)
ForkFail(c, p) ==
  /\ At(c, p, "alloc") \/ At(c, p, "fork")
  /\ state' = [state EXCEPT ![np[p]] = "UNUSED"]
  /\ np' = [np EXCEPT ![p] = NIL]
  /\ pc' = [pc EXCEPT ![p] = SysRet(p)]
  /\ UNCHANGED <<parent, haspid, chan, killed, priority, timepiece, pqueue,
                 proc, left, intr, crit, panicked>>

\* The copy is complete: the child becomes runnable on the top queue.
ForkDone(c, p) ==
  /\ At(c, p, "fork") /\ lock = NIL
  /\ LET n == np[p]
     IN  /\ state' = [state EXCEPT ![n] = "RUNNABLE"]
         /\ parent' = [parent EXCEPT ![n] = p]
         /\ qpush(n, priority[n])
         /\ pc' = [pc EXCEPT ![n] = "user", ![p] = SysRet(p)]
  /\ np' = [np EXCEPT ![p] = NIL]
  /\ UNCHANGED <<haspid, chan, killed, priority, proc, left, intr, crit,
                 panicked>>

\* sys_exit(); trap() calls exit() for a killed process.
ExitCall(c, p) ==
  /\ "exit" \in Calls
  /\ At(c, p, "syscall")
  /\ pc' = [pc EXCEPT ![p] = "exit"]
  /\ UNCHANGED <<table, pqueue, proc, np, left, intr, crit, panicked>>

\* A fault in user mode: the process is marked killed and exits.
UserFault(c, p) ==
  /\ "fault" \in Calls
  /\ At(c, p, "user")
  /\ killed' = [killed EXCEPT ![p] = TRUE]
  /\ pc' = [pc EXCEPT ![p] = "exit"]
  /\ UNCHANGED <<state, parent, haspid, chan, priority, timepiece, pqueue,
                 proc, np, left, intr, crit, panicked>>

\* panic("init exiting")
ExitInit(c) ==
  /\ At(c, InitProc, "exit")
  /\ panicked' = TRUE
  /\ UNCHANGED <<table, pqueue, proc, thread, intr, crit>>

\* Mutant: the parent is not woken.
ExitWakeNobody(c, p) ==
  /\ At(c, p, "exit") /\ p # InitProc /\ lock = NIL
  /\ lock' = c /\ wchan' = parent[p] /\ idx' = NPROC + 1
  /\ pc' = [pc EXCEPT ![p] = "exit1"]
  /\ UNCHANGED <<table, pqueue, proc, np, left, intr, panicked>>

\* exit(): take ptable.lock and wake a parent that sleeps in wait().
ExitWakeParent(c, p) ==
  /\ At(c, p, "exit") /\ p # InitProc /\ lock = NIL
  /\ lock' = c /\ wchan' = parent[p] /\ idx' = 1
  /\ pc' = [pc EXCEPT ![p] = "exit1"]
  /\ UNCHANGED <<table, pqueue, proc, np, left, intr, panicked>>

\* Mutant: the children keep their dead parent.
ExitNoReparent(c, p) ==
  /\ At(c, p, "exit1") /\ Woken(c)
  /\ wchan' = InitProc /\ idx' = NPROC + 1
  /\ pc' = [pc EXCEPT ![p] = "exit2"]
  /\ UNCHANGED <<table, pqueue, proc, np, left, intr, lock, panicked>>

\* Hand the children to init; wake init if one of them is a zombie.
ExitReparent(c, p) ==
  /\ At(c, p, "exit1") /\ Woken(c)
  /\ parent' = [n \in Procs |-> IF parent[n] = p THEN InitProc ELSE parent[n]]
  /\ wchan' = InitProc
  /\ idx' = IF \E n \in Procs : parent[n] = p /\ state[n] = "ZOMBIE"
              THEN 1 ELSE NPROC + 1
  /\ pc' = [pc EXCEPT ![p] = "exit2"]
  /\ UNCHANGED <<state, haspid, chan, killed, priority, timepiece, pqueue,
                 proc, np, left, intr, lock, panicked>>

\* Become a ZOMBIE and jump into the scheduler, which releases the lock.
ExitZombie(c, p) ==
  /\ At(c, p, "exit2") /\ Woken(c)
  /\ state' = [state EXCEPT ![p] = "ZOMBIE"]
  /\ proc' = [proc EXCEPT ![c] = NIL]
  /\ pc' = [pc EXCEPT ![p] = "user"]
  /\ lock' = NIL /\ wchan' = NIL /\ idx' = 0
  /\ UNCHANGED <<parent, haspid, chan, killed, priority, timepiece, pqueue,
                 np, left, intr, panicked>>

\* wait(): take ptable.lock and enter the loop.
WaitCall(c, p) ==
  /\ "wait" \in Calls
  /\ At(c, p, "syscall") /\ lock = NIL
  /\ lock' = c
  /\ pc' = [pc EXCEPT ![p] = "wait"]
  /\ UNCHANGED <<table, pqueue, proc, np, left, intr, idx, wchan, panicked>>

IsChild(n, p)     == parent[n] = p
ZombieChild(n, p) == IsChild(n, p) /\ state[n] = "ZOMBIE"

\* The first exited child in table order is freed and its pid returned.
WaitReap(c, p) ==
  /\ At(c, p, "wait") /\ lock = c
  /\ \E n \in Procs :
       /\ ZombieChild(n, p) /\ \A m \in 1..(n - 1) : ~ZombieChild(m, p)
       /\ state' = [state EXCEPT ![n] = "UNUSED"]
       /\ parent' = [parent EXCEPT ![n] = NIL]
       /\ haspid' = [haspid EXCEPT ![n] = FALSE]
       /\ killed' = [killed EXCEPT ![n] = FALSE]
  /\ pc' = [pc EXCEPT ![p] = SysRet(p)]
  /\ lock' = NIL
  /\ UNCHANGED <<chan, priority, timepiece, pqueue, proc, np, left, intr,
                 idx, wchan, panicked>>

\* No child at all, or the caller was killed: return -1.
WaitFail(c, p) ==
  /\ At(c, p, "wait") /\ lock = c
  /\ \A n \in Procs : ~ZombieChild(n, p)
  /\ killed[p] \/ \A n \in Procs : ~IsChild(n, p)
  /\ pc' = [pc EXCEPT ![p] = SysRet(p)]
  /\ lock' = NIL
  /\ UNCHANGED <<table, pqueue, proc, np, left, intr, idx, wchan, panicked>>

\* Mutant: the scheduler does not clear c->proc.
GoToSleepKeepProc(c, p, ch) ==
  /\ chan' = [chan EXCEPT ![p] = ch]
  /\ state' = [state EXCEPT ![p] = "SLEEPING"]
  /\ UNCHANGED proc

\* sched() from sleep(ch): the process leaves its CPU, asleep on ch.
GoToSleep(c, p, ch) ==
  /\ chan' = [chan EXCEPT ![p] = ch]
  /\ state' = [state EXCEPT ![p] = "SLEEPING"]
  /\ proc' = [proc EXCEPT ![c] = NIL]

\* sleep(curproc, &ptable.lock); the scheduler releases the lock.
WaitSleep(c, p) ==
  /\ At(c, p, "wait") /\ lock = c
  /\ \A n \in Procs : ~ZombieChild(n, p)
  /\ ~killed[p] /\ \E n \in Procs : IsChild(n, p)
  /\ GoToSleep(c, p, p)
  /\ lock' = NIL
  /\ UNCHANGED <<parent, haspid, killed, priority, timepiece, pqueue, thread,
                 intr, idx, wchan, panicked>>

(***************************************************************************)
(* sys_sleep(n): read ticks0 and, unless the process was killed meanwhile, *)
(* call sleep(&ticks, &tickslock) for the first time.                      *)
(***************************************************************************)
SleepCall(c, p) ==
  /\ "sleep" \in Calls
  /\ At(c, p, "syscall") /\ TicksLockFree
  /\ ~killed[p]
  /\ \E n \in 1..MaxSleep : left' = [left EXCEPT ![p] = n]
  /\ pc' = [pc EXCEPT ![p] = "doze"]
  /\ UNCHANGED <<table, pqueue, proc, np, intr, crit, panicked>>

\* sleep() takes ptable.lock, drops tickslock and leaves the CPU: a kill() on
\* another CPU may have come before, and then it wakes nobody.
SleepTicks(c, p) ==
  /\ At(c, p, "doze") /\ lock = NIL
  /\ GoToSleep(c, p, Ticks)
  /\ pc' = [pc EXCEPT ![p] = "sleep"]
  /\ UNCHANGED <<parent, haspid, killed, priority, timepiece, pqueue, np, left,
                 intr, crit, panicked>>

\* sys_sleep(0), or a process killed since it entered the kernel.
SleepNot(c, p) ==
  /\ "sleep" \in Calls
  /\ At(c, p, "syscall") /\ TicksLockFree
  /\ pc' = [pc EXCEPT ![p] = SysRet(p)]
  /\ UNCHANGED <<table, pqueue, proc, np, left, intr, crit, panicked>>

\* The loop of sys_sleep() ends: enough ticks, or the process was killed.
SleepReturn(c, p) ==
  /\ At(c, p, "sleep") /\ TicksLockFree
  /\ left[p] = 0 \/ killed[p]
  /\ pc' = [pc EXCEPT ![p] = SysRet(p)]
  /\ left' = [left EXCEPT ![p] = 0]
  /\ UNCHANGED <<table, pqueue, proc, np, intr, crit, panicked>>

\* Too early: call sleep() again.
SleepAgain(c, p) ==
  /\ At(c, p, "sleep") /\ TicksLockFree
  /\ left[p] > 0 /\ ~killed[p]
  /\ pc' = [pc EXCEPT ![p] = "doze"]
  /\ UNCHANGED <<table, pqueue, proc, np, left, intr, crit, panicked>>

(***************************************************************************)
(* kill(pid): the slot with this pid is marked killed and, if it sleeps,   *)
(* made RUNNABLE, but not queued.  kill(0) finds the first slot without a  *)
(* pid.                                                                    *)
(***************************************************************************)
KillTarget(t) == haspid[t] \/ \A m \in 1..(t - 1) : haspid[m]

Kill(c, p) ==
  /\ "kill" \in Calls
  /\ At(c, p, "syscall") /\ lock = NIL
  /\ \E t \in Procs :
       /\ KillTarget(t)
       /\ killed' = [killed EXCEPT ![t] = TRUE]
       /\ state' = IF state[t] = "SLEEPING"
                     THEN [state EXCEPT ![t] = "RUNNABLE"] ELSE state
       /\ stranded' = IF state[t] = "SLEEPING"
                        THEN stranded \cup {t} ELSE stranded
       /\ pc' = [pc EXCEPT ![p] = IF killed'[p] THEN "exit" ELSE "user"]
  /\ UNCHANGED <<parent, haspid, chan, priority, timepiece, lists, proc, np,
                 left, intr, crit, panicked>>

\* panic(): this CPU loops for ever, the others freeze at their next output.
PanicLoop == panicked /\ UNCHANGED vars

-----------------------------------------------------------------------------
Scheduler(c) ==
  SchedAcquire(c) \/ SchedNextQueue(c) \/ SchedIdle(c) \/ SchedPop(c)

Wakeup1(c) == Wakeup1Hit(c) \/ Wakeup1Skip(c)

\* The interrupt handler, once the interrupt has been taken.
Trap(c) ==
  \/ TickWakeup(c) \/ TickDone(c)
  \/ TrapIdle(c) \/ TrapKilled(c) \/ TrapTimepiece(c) \/ Yield(c)

\* Kernel code that runs on behalf of a process once it is in the kernel.
KernelPath(c, p) ==
  \/ TrapRet(c, p)
  \/ ForkStack(c, p) \/ ForkFail(c, p) \/ ForkDone(c, p)
  \/ ExitWakeParent(c, p) \/ ExitReparent(c, p) \/ ExitZombie(c, p)
  \/ WaitReap(c, p) \/ WaitFail(c, p) \/ WaitSleep(c, p)
  \/ SleepReturn(c, p) \/ SleepAgain(c, p) \/ SleepTicks(c, p)

\* What a user program may do.
UserStep(c, p) ==
  \/ Syscall(c, p) \/ UserFault(c, p)
  \/ ForkAlloc(c, p) \/ ForkFull(c, p) \/ ExitCall(c, p) \/ WaitCall(c, p)
  \/ SleepCall(c, p) \/ SleepNot(c, p) \/ Kill(c, p)

Next ==
  \/ \E c \in Cpus :
       \/ Scheduler(c) \/ Wakeup1(c) \/ TimerIrq(c) \/ Trap(c) \/ ExitInit(c)
       \/ \E p \in Procs : KernelPath(c, p) \/ UserStep(c, p)
  \/ PanicLoop

Spec == Init /\ [][Next]_vars

-----------------------------------------------------------------------------
(* Safety.                                                                 *)

Queued(q)  == {order[q][i] : i \in 1..Len(order[q])}
OnQueue(p) == \E q \in Queues : p \in Queued(q)

(***************************************************************************)
(* The circular lists kept by qpush() and scheduler() through head, last,  *)
(* next and count are exactly the FIFO queues of the processes pushed and  *)
(* not yet popped: nothing is lost, duplicated or reordered by the lists.  *)
(***************************************************************************)
ListsAreFifo ==
  \A q \in Queues :
    /\ count[q] = Len(order[q])
    /\ count[q] > 0 => /\ head[q] = order[q][1]
                       /\ last[q] = order[q][Len(order[q])]
    /\ \A i \in 1..(Len(order[q]) - 1) : next[order[q][i]] = order[q][i + 1]

(***************************************************************************)
(* A process is on at most one run queue, once, at its own priority, and   *)
(* is RUNNABLE there: the "otherwise will be cleared" case of scheduler()  *)
(* never arises, and no process can be switched to by two CPUs.            *)
(***************************************************************************)
QueueEntries ==
  \A q \in Queues : \A i \in 1..Len(order[q]) :
    /\ state[order[q][i]] = "RUNNABLE"
    /\ priority[order[q][i]] = q
    /\ \A j \in 1..Len(order[q]) : order[q][i] = order[q][j] => i = j

(***************************************************************************)
(* The run queues of qpush() and scheduler() as a whole: well typed, FIFO  *)
(* through their links, and holding nothing but RUNNABLE processes.        *)
(***************************************************************************)
RunQueues == TypeOK /\ ListsAreFifo /\ QueueEntries

(***************************************************************************)
(* A process is RUNNING exactly when one CPU runs it, and no two CPUs run  *)
(* the same process (they would share its kernel stack).                   *)
(***************************************************************************)
OneCpuPerProcess ==
  /\ \A c \in Cpus : proc[c] # NIL => state[proc[c]] = "RUNNING"
  /\ \A p \in Procs : state[p] = "RUNNING" => \E c \in Cpus : proc[c] = p
  /\ \A c, d \in Cpus : proc[c] = proc[d] /\ proc[c] # NIL => c = d

(***************************************************************************)
(* The RUNNABLE processes are those on the run queues and those killed in  *)
(* their sleep: kill() does not call qpush(), so it leaves its target on   *)
(* no queue, for good; whoever else fork(), yield() or wakeup1() makes     *)
(* RUNNABLE, killed or not, is queued, and only switched to off its queue. *)
(***************************************************************************)
RunnableQueued ==
  \A p \in Procs :
    /\ state[p] = "RUNNABLE" <=> OnQueue(p) \/ p \in stranded
    /\ p \in stranded => killed[p] /\ ~OnQueue(p)

(***************************************************************************)
(* A parent asleep in wait() has no child left to reap when ptable.lock is *)
(* free: exit() never loses the wakeup, also when children change parent.  *)
(***************************************************************************)
NoLostExit ==
  lock = NIL =>
    \A p, n \in Procs :
      state[p] = "SLEEPING" /\ pc[p] = "wait" => ~ZombieChild(n, p)

(***************************************************************************)
(* Once the clock has released tickslock, nobody sleeps in sys_sleep()     *)
(* past its time.                                                          *)
(***************************************************************************)
NoLostTick ==
  intr[BootCpu] # "tick" =>
    \A p \in Procs : state[p] = "SLEEPING" /\ pc[p] = "sleep" => left[p] > 0

(***************************************************************************)
(* --timepiece, on an unsigned word, never wraps: whoever runs, or may be  *)
(* switched to, has some of its slice left, so "<= 0" is met in time.      *)
(***************************************************************************)
SliceNeverWraps ==
  /\ \A c \in Cpus :
       proc[c] # NIL => \/ timepiece[proc[c]] \in 1..Slice(priority[proc[c]])
                        \/ intr[c] = "yield"
  /\ \A q \in Queues : \A p \in Queued(q) : timepiece[p] = Slice(q)

(***************************************************************************)
(* Somebody will reap every process: its parent is alive (init is the      *)
(* parent of last resort), and a free slot is nobody's child.              *)
(***************************************************************************)
NoOrphans ==
  \A p \in Procs :
    IF state[p] \in {"UNUSED", "EMBRYO"} \/ p = InitProc
      THEN parent[p] = NIL
      ELSE parent[p] # NIL /\ state[parent[p]] \notin {"UNUSED", "EMBRYO", "ZOMBIE"}

(***************************************************************************)
(* A process leaves a time slice early only by sleeping or exiting: its    *)
(* priority drops by exactly one when its slice is used up, rises by one   *)
(* when it is woken, and is the highest for a new process.                 *)
(***************************************************************************)
PriorityFeedback ==
  [][\A p \in Procs :
       priority'[p] # priority[p] =>
         \/ state[p] = "RUNNING" /\ timepiece[p] = 0
              /\ priority'[p] = priority[p] - 1
         \/ state[p] = "SLEEPING" /\ priority'[p] = priority[p] + 1
         \/ state[p] = "EMBRYO" /\ priority'[p] = TopQueue]_vars

-----------------------------------------------------------------------------
(***************************************************************************)
(* Fairness.  An interrupt handler runs to its end.  The clock period is   *)
(* longer than the handler, so the code it interrupts also gets on (strong *)
(* fairness, as each tick disables it for a while); and a clock interrupt  *)
(* that is masked stays pending in the local APIC, so it is taken if       *)
(* interrupts are enabled again and again.  User programs need not act.    *)
(***************************************************************************)
Served(c, p) == At(c, p, "syscall") /\ UserStep(c, p)

Fairness ==
  \A c \in Cpus :
    /\ WF_vars(Wakeup1(c) \/ Trap(c) \/ ExitInit(c))
    /\ SF_vars(Scheduler(c))
    /\ SF_vars(\E p \in Procs : KernelPath(c, p) \/ Served(c, p))
    /\ SF_vars(TimerIrq(c))

FairSpec == Spec /\ Fairness

(***************************************************************************)
(* Round robin at the highest priority: a process on the top queue runs    *)
(* eventually, whatever the programs do.  On a lower queue this is so only *)
(* if the programs stop making system calls: scheduler() has no aging, and *)
(* processes that wake each other stay above it.                           *)
(***************************************************************************)
Runs(p) == state[p] = "RUNNING" \/ panicked

QueuesServed ==
  /\ \A p \in Procs : (p \in Queued(TopQueue)) ~> Runs(p)
  /\ \/ []<><<\E c \in Cpus, p \in Procs : Syscall(c, p)>>_vars
     \/ \A p \in Procs : OnQueue(p) ~> Runs(p)

\* A process in sys_sleep() is woken by the clock, whatever the others do.
SleepersWake ==
  \A p \in Procs :
    (state[p] = "SLEEPING" /\ pc[p] = "sleep")
      ~> (state[p] # "SLEEPING" \/ panicked)
=============================================================================
