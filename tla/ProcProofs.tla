----------------------------- MODULE ProcProofs -----------------------------
(***************************************************************************)
(* Proofs about Proc for any number of slots, queues and CPUs.             *)
(*                                                                         *)
(* IInv is the inductive invariant.  QueueEntries, the property the others *)
(* hang on, says that what the scheduler pops is RUNNABLE; it is preserved *)
(* by qpush() only if nothing RUNNABLE is ever pushed, which for fork()    *)
(* needs ForkInv (the slot pushed is an EMBRYO of this caller alone), for  *)
(* yield() CpuInv (the caller is RUNNING on one CPU), and for wakeup1() its *)
(* own test.  ScanInv and LockInv say who holds ptable.lock and what the   *)
(* loop index idx means to it.                                             *)
(*                                                                         *)
(* FullInv adds what the wakeups rest on: a sleeper's channel fits its     *)
(* place in the code (AsleepInv), the family tree has no dead parents      *)
(* (FamilyInv), and the scans of exit() and of the clock tick have not     *)
(* passed whoever they are for (ExitInv, TickInv).                         *)
(***************************************************************************)
EXTENDS Proc, TLAPS

(***************************************************************************)
(* Running processes and CPUs match, and only a process can be about to    *)
(* yield.                                                                  *)
(***************************************************************************)
CpuInv ==
  /\ OneCpuPerProcess
  /\ \A c \in Cpus : intr[c] = "yield" => proc[c] # NIL

(***************************************************************************)
(* A process inside fork() is awake and owns one EMBRYO slot, which no     *)
(* other fork() has.                                                       *)
(***************************************************************************)
ForkInv ==
  /\ \A p \in Procs : pc[p] \in {"alloc", "fork"} =>
       /\ state[p] \in {"RUNNABLE", "RUNNING"}
       /\ np[p] \in Procs
       /\ state[np[p]] = "EMBRYO"
  /\ \A p, r \in Procs :
       /\ pc[p] \in {"alloc", "fork"}
       /\ pc[r] \in {"alloc", "fork"}
       /\ np[p] = np[r]
       => p = r

(***************************************************************************)
(* A CPU in the scan of scheduler() holds the number of an existing queue  *)
(* in idx.                                                                 *)
(***************************************************************************)
ScanInv ==
  \A c \in Cpus :
    lock = c /\ proc[c] = NIL /\ intr[c] = "none" => idx \in Queues

(***************************************************************************)
(* A wakeup1() in progress belongs to a holder of ptable.lock, which is in *)
(* the clock tick or in exit(); past the tick a handler no longer holds    *)
(* the lock.                                                               *)
(***************************************************************************)
LockInv ==
  /\ lock = NIL => wchan = NIL
  /\ \A c \in Cpus :
       lock = c /\ wchan # NIL =>
         \/ intr[c] = "tick"
         \/ proc[c] # NIL /\ pc[proc[c]] \in {"exit1", "exit2"}
  /\ \A c \in Cpus : intr[c] \in {"post", "yield"} => lock # c

\* The part of the invariant that speaks of the run queues.
QueueInv ==
  /\ ListsAreFifo
  /\ QueueEntries
  /\ SliceNeverWraps

\* The inductive invariant.
IInv ==
  /\ TypeOK
  /\ CpuInv
  /\ ForkInv
  /\ ScanInv
  /\ LockInv
  /\ ListsAreFifo
  /\ QueueEntries
  /\ SliceNeverWraps

(***************************************************************************)
(* What the assumptions on the constants say of the sets the types are     *)
(* built from.                                                             *)
(***************************************************************************)
LEMMA ConstFacts ==
  /\ TopQueue \in Queues /\ 0 \in Queues
  /\ Queues \subseteq Nat /\ TopQueue \in Nat
  /\ InitProc \in Procs
  /\ NIL \notin Procs /\ Ticks \in Chans /\ Procs \subseteq Chans
  /\ Procs \subseteq Nat /\ NIL \in Nat
  /\ BootCpu \in Cpus /\ NIL \notin Cpus
BY ProcConstants DEF TopQueue, Queues, InitProc, Procs, NIL, Ticks, Chans

(***************************************************************************)
(* A process moved up by wakeup1() or down by yield() lands on an existing *)
(* queue.                                                                  *)
(***************************************************************************)
LEMMA QueueMoves ==
  \A q \in Queues : Raise(q) \in Queues /\ Lower(q) \in Queues
BY ProcConstants DEF Queues, Raise, Lower, TopQueue

\* Every slice qpush() hands out fits the unsigned word.
LEMMA SliceTypes == \A q \in Queues : Slice(q) \in 0..UMAX
BY SliceFits, ProcConstants

\* The unsigned decrement of trap() stays within the word.
LEMMA DecType == \A t \in 0..UMAX : Dec(t) \in 0..UMAX
BY ProcConstants DEF Dec

\* The state left by main() is well typed.
LEMMA TypeInit == Init => TypeOK
<1> SUFFICES ASSUME Init PROVE TypeOK
  OBVIOUS
<1> USE ConstFacts, ProcConstants
<1>1. haspid \in [Procs -> BOOLEAN] /\ killed \in [Procs -> BOOLEAN]
  BY DEF Init
<1>2. timepiece \in [Procs -> 0..UMAX]
  BY SliceTypes DEF Init
<1>3. order \in [Queues -> Seq(Procs)]
  BY DEF Init
<1>4. count \in [Queues -> Nat]
  BY DEF Init
<1>5. left \in [Procs -> 0..MaxSleep]
  BY DEF Init
<1> QED
  BY <1>1, <1>2, <1>3, <1>4, <1>5
     DEF Init, TypeOK, IntrStates, Locations, States

\* The part of TypeOK that qpush() changes.
QueuesTyped ==
  /\ next \in [Procs -> Procs \cup {NIL}]
  /\ head \in [Queues -> Procs \cup {NIL}]
  /\ last \in [Queues -> Procs \cup {NIL}]
  /\ count \in [Queues -> Nat]
  /\ order \in [Queues -> Seq(Procs)]
  /\ stranded \subseteq Procs
  /\ timepiece \in [Procs -> 0..UMAX]

\* qpush() keeps the run queues well typed.
LEMMA QPushTypes ==
  ASSUME TypeOK, NEW p \in Procs, NEW q \in Queues, qpush(p, q)
  PROVE  QueuesTyped'
<1>1. next' \in [Procs -> Procs \cup {NIL}] /\ head' \in [Queues -> Procs \cup {NIL}]
  BY DEF TypeOK, qpush
<1>2. last' \in [Queues -> Procs \cup {NIL}]
  BY DEF TypeOK, qpush
<1>3. count' \in [Queues -> Nat]
  BY DEF TypeOK, qpush
<1>4. order' \in [Queues -> Seq(Procs)]
  <2>1. Append(order[q], p) \in Seq(Procs)
    BY DEF TypeOK
  <2> QED BY <2>1 DEF TypeOK, qpush
<1>5. timepiece' \in [Procs -> 0..UMAX]
  BY SliceTypes DEF TypeOK, qpush
<1>6. stranded' \subseteq Procs
  BY DEF TypeOK, qpush
<1> QED BY <1>1, <1>2, <1>3, <1>4, <1>5, <1>6 DEF QueuesTyped

\* Every step keeps the state well typed.
LEMMA TypeStep == IInv /\ [Next]_vars => TypeOK'
<1> SUFFICES ASSUME IInv, [Next]_vars PROVE TypeOK'
  OBVIOUS
<1>t. TypeOK BY DEF IInv
<1> USE <1>t, ConstFacts
        DEF TypeOK, table, pqueue, lists, thread, crit, States, Locations,
            IntrStates
<1>1. CASE UNCHANGED vars BY <1>1 DEF vars
<1>2. ASSUME NEW c \in Cpus, Scheduler(c) PROVE TypeOK'
  <2>1. CASE SchedAcquire(c)
    BY <2>1 DEF SchedAcquire
  <2>2. CASE SchedNextQueue(c)
    <3>1. idx' \in Nat BY <2>2 DEF SchedNextQueue
    <3> QED BY <2>2, <3>1 DEF SchedNextQueue
  <2>3. CASE SchedIdle(c)
    BY <2>3 DEF SchedIdle
  <2>4. CASE SchedPop(c)
    <3>1. idx \in Queues BY <2>4 DEF SchedPop, Scanning, IInv, ScanInv
    <3>2. head[idx] \in Procs
      <4>1. count[idx] > 0 /\ count[idx] = Len(order[idx])
        BY <2>4, <3>1 DEF SchedPop, IInv, ListsAreFifo
      <4>2. head[idx] = order[idx][1]
        BY <3>1, <4>1 DEF IInv, ListsAreFifo
      <4>3. order[idx] \in Seq(Procs) BY <3>1
      <4> QED BY <4>1, <4>2, <4>3
    <3>3. count' \in [Queues -> Nat]
      BY <2>4, <3>1 DEF SchedPop, qpop
    <3>4. order' \in [Queues -> Seq(Procs)]
      <4>1. order[idx] \in Seq(Procs) /\ order[idx] # << >>
        BY <2>4, <3>1 DEF SchedPop, IInv, ListsAreFifo
      <4>2. Tail(order[idx]) \in Seq(Procs) BY <4>1
      <4> QED BY <2>4, <3>1, <4>2 DEF SchedPop, qpop
    <3>5. /\ head' \in [Queues -> Procs \cup {NIL}]
          /\ UNCHANGED <<next, last, stranded>>
      BY <2>4, <3>1, <3>2 DEF SchedPop, qpop
    <3>6. idx' \in Nat /\ lock' \in Cpus \cup {NIL}
      BY <2>4 DEF SchedPop
    <3>7. proc' \in [Cpus -> Procs \cup {NIL}]
      BY <2>4, <3>2 DEF SchedPop
    <3>8. state' \in [Procs -> States] /\ chan' \in [Procs -> Chans \cup {NIL}]
      BY <2>4, <3>2 DEF SchedPop
    <3>9. UNCHANGED <<parent, haspid, killed, priority, timepiece, thread, intr,
                     wchan, panicked>>
      BY <2>4 DEF SchedPop
    <3> QED BY <3>3, <3>4, <3>5, <3>6, <3>7, <3>8, <3>9
  <2> QED BY <1>2, <2>1, <2>2, <2>3, <2>4 DEF Scheduler
<1>3. ASSUME NEW c \in Cpus, Wakeup1(c) PROVE TypeOK'
  <2>1. CASE Wakeup1Hit(c)
    <3>1. idx \in Procs BY <2>1 DEF Wakeup1Hit, Waking
    <3>2. Raise(priority[idx]) \in Queues BY <3>1, QueueMoves
    <3>3. qpush(idx, Raise(priority[idx])) BY <2>1 DEF Wakeup1Hit
    <3>4. idx' \in Nat BY <2>1 DEF Wakeup1Hit
    <3>5. /\ state' = [state EXCEPT ![idx] = "RUNNABLE"]
          /\ priority' = [priority EXCEPT ![idx] = Raise(@)]
          /\ UNCHANGED <<parent, haspid, chan, killed, proc, thread, intr, lock,
                 wchan, panicked>>
      BY <2>1 DEF Wakeup1Hit
    <3> HIDE DEF TypeOK
    <3>6. QueuesTyped'
      BY <3>1, <3>2, <3>3, QPushTypes
    <3> QED BY <3>1, <3>2, <3>4, <3>5, <3>6 DEF TypeOK, QueuesTyped
  <2>2. CASE Wakeup1Skip(c)
    <3>1. idx' \in Nat BY <2>2 DEF Wakeup1Skip
    <3> QED BY <2>2, <3>1 DEF Wakeup1Skip
  <2> QED BY <1>3, <2>1, <2>2 DEF Wakeup1
<1>4. ASSUME NEW c \in Cpus, TimerIrq(c) PROVE TypeOK'
  <2>1. left' \in [Procs -> 0..MaxSleep]
    BY <1>4, ProcConstants DEF TimerIrq
  <2>2. intr' \in [Cpus -> IntrStates]
    BY <1>4 DEF TimerIrq
  <2>3. UNCHANGED <<table, pqueue, proc, pc, np, crit, panicked>>
    BY <1>4 DEF TimerIrq
  <2> QED BY <2>1, <2>2, <2>3
<1>5. ASSUME NEW c \in Cpus, Trap(c) PROVE TypeOK'
  <2>1. CASE TickWakeup(c) BY <2>1 DEF TickWakeup
  <2>2. CASE TickDone(c) BY <2>2 DEF TickDone
  <2>3. CASE TrapIdle(c) BY <2>3 DEF TrapIdle
  <2>4. CASE TrapKilled(c) BY <2>4 DEF TrapKilled
  <2>5. CASE TrapTimepiece(c)
    <3>1. proc[c] \in Procs BY <2>5 DEF TrapTimepiece
    <3>2. timepiece' \in [Procs -> 0..UMAX]
      <4>1. Dec(timepiece[proc[c]]) \in 0..UMAX BY <3>1, DecType
      <4> QED BY <2>5, <3>1, <4>1 DEF TrapTimepiece
    <3>3. intr' \in [Cpus -> IntrStates] /\ pc' \in [Procs -> Locations]
      BY <2>5, <3>1 DEF TrapTimepiece
    <3> QED BY <2>5, <3>2, <3>3 DEF TrapTimepiece
  <2>6. CASE Yield(c)
    <3> DEFINE p == proc[c]
    <3>1. p \in Procs BY <2>6 DEF Yield, IInv, CpuInv
    <3>2. Lower(priority[p]) \in Queues BY <3>1, QueueMoves
    <3>3. /\ state' = [state EXCEPT ![p] = "RUNNABLE"]
          /\ priority' = [priority EXCEPT ![p] = Lower(@)]
          /\ qpush(p, Lower(priority[p]))
          /\ proc' = [proc EXCEPT ![c] = NIL]
          /\ intr' = [intr EXCEPT ![c] = "none"]
          /\ UNCHANGED <<parent, haspid, chan, killed, thread, crit, panicked>>
      BY <2>6 DEF Yield
    <3> HIDE DEF p, TypeOK
    <3>4. QueuesTyped'
      BY <3>1, <3>2, <3>3, QPushTypes
    <3> QED BY <3>1, <3>2, <3>3, <3>4 DEF TypeOK, QueuesTyped
  <2> QED BY <1>5, <2>1, <2>2, <2>3, <2>4, <2>5, <2>6 DEF Trap
<1>6. ASSUME NEW c \in Cpus, ExitInit(c) PROVE TypeOK'
  BY <1>6 DEF ExitInit
<1>7. ASSUME NEW c \in Cpus, NEW p \in Procs, KernelPath(c, p) PROVE TypeOK'
  <2> USE DEF SysRet
  <2>1. CASE TrapRet(c, p) BY <2>1 DEF TrapRet
  <2>2. CASE ForkStack(c, p) BY <2>2 DEF ForkStack
  <2>3. CASE ForkFail(c, p) BY <2>3 DEF ForkFail
  <2>4. CASE ForkDone(c, p)
    <3> DEFINE n == np[p]
    <3>1. n \in Procs BY <2>4 DEF ForkDone, At, IInv, ForkInv
    <3>2. priority[n] \in Queues BY <3>1
    <3>3. /\ state' = [state EXCEPT ![n] = "RUNNABLE"]
          /\ parent' = [parent EXCEPT ![n] = p]
          /\ qpush(n, priority[n])
          /\ pc' = [pc EXCEPT ![n] = "user", ![p] = SysRet(p)]
          /\ np' = [np EXCEPT ![p] = NIL]
          /\ UNCHANGED <<haspid, chan, killed, priority, proc, left, intr, crit,
                         panicked>>
      BY <2>4 DEF ForkDone
    <3> HIDE DEF n, TypeOK
    <3>4. QueuesTyped'
      BY <3>1, <3>2, <3>3, QPushTypes
    <3> QED BY <3>1, <3>2, <3>3, <3>4 DEF TypeOK, QueuesTyped
  <2>5. CASE ExitWakeParent(c, p) BY <2>5 DEF ExitWakeParent
  <2>6. CASE ExitReparent(c, p)
    <3>1. idx' \in Nat BY <2>6, ProcConstants DEF ExitReparent
    <3>2. parent' \in [Procs -> Procs \cup {NIL}] BY <2>6 DEF ExitReparent
    <3> QED BY <2>6, <3>1, <3>2 DEF ExitReparent
  <2>7. CASE ExitZombie(c, p) BY <2>7 DEF ExitZombie
  <2>8. CASE WaitReap(c, p)
    <3>1. PICK n \in Procs :
            /\ state' = [state EXCEPT ![n] = "UNUSED"]
            /\ parent' = [parent EXCEPT ![n] = NIL]
            /\ haspid' = [haspid EXCEPT ![n] = FALSE]
            /\ killed' = [killed EXCEPT ![n] = FALSE]
      BY <2>8 DEF WaitReap
    <3>2. haspid' \in [Procs -> BOOLEAN] /\ killed' \in [Procs -> BOOLEAN]
      BY <3>1
    <3> QED BY <2>8, <3>1, <3>2 DEF WaitReap
  <2>9. CASE WaitFail(c, p) BY <2>9 DEF WaitFail
  <2>10. CASE WaitSleep(c, p) BY <2>10 DEF WaitSleep, GoToSleep
  <2>11. CASE SleepReturn(c, p)
    <3>1. left' \in [Procs -> 0..MaxSleep]
      BY <2>11, ProcConstants DEF SleepReturn
    <3> QED BY <2>11, <3>1 DEF SleepReturn
  <2>12. CASE SleepAgain(c, p) BY <2>12 DEF SleepAgain
  <2>13. CASE SleepTicks(c, p) BY <2>13 DEF SleepTicks, GoToSleep
  <2> QED
    BY <1>7, <2>1, <2>2, <2>3, <2>4, <2>5, <2>6, <2>7, <2>8, <2>9, <2>10,
       <2>11, <2>12, <2>13 DEF KernelPath
<1>8. ASSUME NEW c \in Cpus, NEW p \in Procs, UserStep(c, p) PROVE TypeOK'
  <2> USE DEF SysRet
  <2>1. CASE Syscall(c, p) BY <2>1 DEF Syscall
  <2>2. CASE UserFault(c, p) BY <2>2 DEF UserFault
  <2>3. CASE ForkAlloc(c, p)
    <3>1. PICK n \in Procs :
            /\ state' = [state EXCEPT ![n] = "EMBRYO"]
            /\ haspid' = [haspid EXCEPT ![n] = TRUE]
            /\ np' = [np EXCEPT ![p] = n]
      BY <2>3 DEF ForkAlloc
    <3>2. haspid' \in [Procs -> BOOLEAN] BY <3>1
    <3> QED BY <2>3, <3>1, <3>2 DEF ForkAlloc
  <2>4. CASE ForkFull(c, p) BY <2>4 DEF ForkFull
  <2>5. CASE ExitCall(c, p) BY <2>5 DEF ExitCall
  <2>6. CASE WaitCall(c, p) BY <2>6 DEF WaitCall
  <2>7. CASE SleepCall(c, p)
    <3>1. left' \in [Procs -> 0..MaxSleep]
      BY <2>7, ProcConstants DEF SleepCall
    <3> QED BY <2>7, <3>1 DEF SleepCall
  <2>8. CASE SleepNot(c, p) BY <2>8 DEF SleepNot
  <2>9. CASE Kill(c, p)
    <3>1. PICK t \in Procs :
            /\ killed' = [killed EXCEPT ![t] = TRUE]
            /\ state' = IF state[t] = "SLEEPING"
                          THEN [state EXCEPT ![t] = "RUNNABLE"] ELSE state
            /\ stranded' = IF state[t] = "SLEEPING"
                             THEN stranded \cup {t} ELSE stranded
            /\ pc' = [pc EXCEPT ![p] = IF killed'[p] THEN "exit" ELSE "user"]
      BY <2>9 DEF Kill
    <3>2. killed' \in [Procs -> BOOLEAN] BY <3>1
    <3>3. /\ state' \in [Procs -> States] /\ pc' \in [Procs -> Locations]
          /\ stranded' \subseteq Procs
      BY <3>1
    <3> QED BY <2>9, <3>2, <3>3 DEF Kill
  <2> QED
    BY <1>8, <2>1, <2>2, <2>3, <2>4, <2>5, <2>6, <2>7, <2>8, <2>9 DEF UserStep
<1>9. CASE PanicLoop BY <1>9, <1>1 DEF PanicLoop
<1> QED BY <1>1, <1>2, <1>3, <1>4, <1>5, <1>6, <1>7, <1>8, <1>9 DEF Next

-----------------------------------------------------------------------------
(* The process a CPU is about to switch to.                                *)

(***************************************************************************)
(* The process scheduler() finds at the head of a non-empty queue is       *)
(* RUNNABLE, at the priority of that queue, and no CPU runs it.            *)
(***************************************************************************)
LEMMA QueueHead ==
  ASSUME IInv, NEW c \in Cpus, SchedPop(c)
  PROVE  /\ idx \in Queues
         /\ order[idx] # << >>
         /\ head[idx] = order[idx][1]
         /\ head[idx] \in Procs
         /\ head[idx] \in Queued(idx)
         /\ state[head[idx]] = "RUNNABLE"
         /\ priority[head[idx]] = idx
<1>1. idx \in Queues /\ count[idx] > 0
  BY DEF SchedPop, Scanning, IInv, ScanInv
<1>2. order[idx] \in Seq(Procs) /\ Len(order[idx]) > 0
  BY <1>1 DEF IInv, ListsAreFifo, TypeOK
<1>3. head[idx] = order[idx][1] /\ 1 \in 1..Len(order[idx])
  BY <1>1, <1>2 DEF IInv, ListsAreFifo
<1>4. state[head[idx]] = "RUNNABLE" /\ priority[head[idx]] = idx
  BY <1>1, <1>3 DEF IInv, QueueEntries
<1> QED BY <1>1, <1>2, <1>3, <1>4 DEF Queued

\* What SchedPop does, now that its head is known to be RUNNABLE.
LEMMA PopRuns ==
  ASSUME IInv, NEW c \in Cpus, SchedPop(c)
  PROVE  /\ state' = [state EXCEPT ![head[idx]] = "RUNNING"]
         /\ proc' = [proc EXCEPT ![c] = head[idx]]
         /\ lock' = IF pc[head[idx]] # "wait" THEN NIL ELSE c
         /\ idx' = 0
BY QueueHead DEF SchedPop

\* Every step keeps RUNNING processes and CPUs matched.
LEMMA CpuStep == IInv /\ [Next]_vars => CpuInv'
<1> SUFFICES ASSUME IInv, [Next]_vars PROVE CpuInv'
  OBVIOUS
<1>t. TypeOK /\ CpuInv /\ ForkInv BY DEF IInv
<1> USE <1>t, ConstFacts
<1>u. ASSUME UNCHANGED <<state, proc, intr>> PROVE CpuInv'
  BY <1>u DEF CpuInv, OneCpuPerProcess
<1>1. CASE UNCHANGED vars BY <1>1, <1>u DEF vars, table
<1>2. ASSUME NEW c \in Cpus, Scheduler(c) PROVE CpuInv'
  <2>1. CASE SchedPop(c)
    <3> DEFINE p == head[idx]
    <3>1. p \in Procs /\ state[p] = "RUNNABLE" BY <2>1, QueueHead
    <3>2. state' = [state EXCEPT ![p] = "RUNNING"] /\ proc' = [proc EXCEPT ![c] = p]
      BY <2>1, PopRuns
    <3>3. proc[c] = NIL /\ intr' = intr BY <2>1 DEF SchedPop, Scanning
    <3> HIDE DEF p
    <3> QED BY <3>1, <3>2, <3>3 DEF TypeOK, CpuInv, OneCpuPerProcess
  <2> QED
    BY <1>2, <1>u, <2>1
       DEF Scheduler, SchedAcquire, SchedNextQueue, SchedIdle, table
<1>3. ASSUME NEW c \in Cpus, Wakeup1(c) PROVE CpuInv'
  <2>1. CASE Wakeup1Hit(c)
    BY <2>1 DEF Wakeup1Hit, Waking, Asleep, TypeOK, CpuInv, OneCpuPerProcess
  <2> QED BY <1>3, <1>u, <2>1 DEF Wakeup1, Wakeup1Skip, table
<1>4. ASSUME NEW c \in Cpus, TimerIrq(c) PROVE CpuInv'
  BY <1>4 DEF TimerIrq, table, TypeOK, CpuInv, OneCpuPerProcess
<1>5. ASSUME NEW c \in Cpus, Trap(c) PROVE CpuInv'
  <2>1. CASE TickWakeup(c) BY <2>1, <1>u DEF TickWakeup, table
  <2>2. CASE TickDone(c) BY <2>2 DEF TickDone, table, TypeOK, CpuInv, OneCpuPerProcess
  <2>3. CASE TrapIdle(c) BY <2>3 DEF TrapIdle, table, TypeOK, CpuInv, OneCpuPerProcess
  <2>4. CASE TrapKilled(c) BY <2>4 DEF TrapKilled, table, TypeOK, CpuInv, OneCpuPerProcess
  <2>5. CASE TrapTimepiece(c)
    BY <2>5 DEF TrapTimepiece, TypeOK, CpuInv, OneCpuPerProcess
  <2>6. CASE Yield(c)
    BY <2>6 DEF Yield, TypeOK, CpuInv, OneCpuPerProcess
  <2> QED BY <1>5, <2>1, <2>2, <2>3, <2>4, <2>5, <2>6 DEF Trap
<1>6. ASSUME NEW c \in Cpus, ExitInit(c) PROVE CpuInv'
  BY <1>6, <1>u DEF ExitInit, table
<1>7. ASSUME NEW c \in Cpus, NEW p \in Procs, KernelPath(c, p) PROVE CpuInv'
  <2>1. CASE ForkFail(c, p)
    BY <2>1 DEF ForkFail, At, ForkInv, TypeOK, CpuInv, OneCpuPerProcess
  <2>2. CASE ForkDone(c, p)
    <3>1. np[p] \in Procs /\ state[np[p]] = "EMBRYO"
      BY <2>2 DEF ForkDone, At, ForkInv
    <3>2. state' = [state EXCEPT ![np[p]] = "RUNNABLE"] /\ UNCHANGED <<proc, intr>>
      BY <2>2 DEF ForkDone
    <3> QED BY <3>1, <3>2 DEF TypeOK, CpuInv, OneCpuPerProcess
  <2>3. CASE ExitZombie(c, p)
    BY <2>3 DEF ExitZombie, At, TypeOK, CpuInv, OneCpuPerProcess
  <2>4. CASE WaitReap(c, p)
    BY <2>4 DEF WaitReap, ZombieChild, TypeOK, CpuInv, OneCpuPerProcess
  <2>5. CASE WaitSleep(c, p) \/ SleepTicks(c, p)
    <3>1. /\ proc[c] = p /\ intr[c] = "none" /\ intr' = intr
          /\ state' = [state EXCEPT ![p] = "SLEEPING"]
          /\ proc' = [proc EXCEPT ![c] = NIL]
      BY <2>5 DEF WaitSleep, SleepTicks, GoToSleep, At
    <3> QED BY <3>1 DEF TypeOK, CpuInv, OneCpuPerProcess
  <2>6. CASE \/ TrapRet(c, p) \/ ForkStack(c, p) \/ ExitWakeParent(c, p)
             \/ ExitReparent(c, p) \/ WaitFail(c, p) \/ SleepReturn(c, p)
             \/ SleepAgain(c, p)
    <3>1. UNCHANGED <<state, proc, intr>>
      BY <2>6 DEF TrapRet, ForkStack, ExitWakeParent, ExitReparent, WaitFail,
                  SleepReturn, SleepAgain, table
    <3> QED BY <3>1, <1>u
  <2> QED BY <1>7, <2>1, <2>2, <2>3, <2>4, <2>5, <2>6 DEF KernelPath
<1>8. ASSUME NEW c \in Cpus, NEW p \in Procs, UserStep(c, p) PROVE CpuInv'
  <2>1. CASE ForkAlloc(c, p)
    <3>1. PICK n \in Procs : /\ state[n] = "UNUSED"
                             /\ state' = [state EXCEPT ![n] = "EMBRYO"]
      BY <2>1 DEF ForkAlloc, FirstUnused
    <3>2. UNCHANGED <<proc, intr>> BY <2>1 DEF ForkAlloc
    <3> QED BY <3>1, <3>2 DEF TypeOK, CpuInv, OneCpuPerProcess
  <2>2. CASE SleepCall(c, p)
    <3>1. UNCHANGED <<state, proc, intr>> BY <2>2 DEF SleepCall, table
    <3> QED BY <3>1, <1>u
  <2>3. CASE Kill(c, p)
    <3>1. PICK t \in Procs :
            state' = IF state[t] = "SLEEPING"
                       THEN [state EXCEPT ![t] = "RUNNABLE"] ELSE state
      BY <2>3 DEF Kill
    <3>2. UNCHANGED <<proc, intr>> BY <2>3 DEF Kill
    <3>3. \A r \in Procs : state[r] = "RUNNING" => state'[r] = state[r]
      BY <3>1 DEF TypeOK
    <3>4. \A r \in Procs : state'[r] = "RUNNING" => state[r] = "RUNNING"
      BY <3>1 DEF TypeOK
    <3>5. \A d \in Cpus : proc[d] \in Procs \cup {NIL} BY DEF TypeOK
    <3>6. \A d \in Cpus : proc[d] # NIL => state'[proc[d]] = "RUNNING"
      BY <3>3, <3>5 DEF CpuInv, OneCpuPerProcess
    <3>7. \A r \in Procs : state'[r] = "RUNNING" => \E d \in Cpus : proc[d] = r
      BY <3>4 DEF CpuInv, OneCpuPerProcess
    <3> QED BY <3>2, <3>6, <3>7 DEF CpuInv, OneCpuPerProcess
  <2>4. CASE \/ Syscall(c, p) \/ UserFault(c, p) \/ ForkFull(c, p)
             \/ ExitCall(c, p) \/ WaitCall(c, p) \/ SleepNot(c, p)
    <3>1. UNCHANGED <<state, proc, intr>>
      BY <2>4 DEF Syscall, UserFault, ForkFull, ExitCall, WaitCall, SleepNot,
                  table
    <3> QED BY <3>1, <1>u
  <2> QED BY <1>8, <2>1, <2>2, <2>3, <2>4 DEF UserStep
<1>9. CASE PanicLoop BY <1>9, <1>1 DEF PanicLoop
<1> QED BY <1>1, <1>2, <1>3, <1>4, <1>5, <1>6, <1>7, <1>8, <1>9 DEF Next

(***************************************************************************)
(* Every step keeps the slots that fork() is filling private to their      *)
(* parents.                                                                *)
(***************************************************************************)
LEMMA ForkStep == IInv /\ [Next]_vars => ForkInv'
<1> SUFFICES ASSUME IInv, [Next]_vars PROVE ForkInv'
  OBVIOUS
<1>t. TypeOK /\ CpuInv /\ ForkInv BY DEF IInv
<1> USE <1>t, ConstFacts
<1>u. ASSUME UNCHANGED <<state, pc, np>> PROVE ForkInv'
  BY <1>u DEF ForkInv
\* The process that runs moves from one location to another, not in fork().
<1>m. ASSUME NEW p \in Procs, NEW l \in Locations \ {"alloc", "fork"},
             pc' = [pc EXCEPT ![p] = l], UNCHANGED <<state, np>>
      PROVE  ForkInv'
  BY <1>m DEF ForkInv, TypeOK
\* A process that is neither in fork() nor being created changes state.
<1>s. ASSUME NEW n \in Procs, NEW st \in States, state[n] # "EMBRYO",
             pc[n] \in {"alloc", "fork"} => st \in {"RUNNABLE", "RUNNING"},
             state' = [state EXCEPT ![n] = st], UNCHANGED <<pc, np>>
      PROVE  ForkInv'
  BY <1>s DEF ForkInv, TypeOK
<1>1. CASE UNCHANGED vars BY <1>1, <1>u DEF vars, table, thread
<1>2. ASSUME NEW c \in Cpus, Scheduler(c) PROVE ForkInv'
  <2>1. CASE SchedPop(c)
    <3>1. UNCHANGED <<pc, np>> BY <2>1 DEF SchedPop, thread
    <3> QED BY <1>s, <2>1, <3>1, QueueHead, PopRuns DEF States
  <2>2. CASE SchedAcquire(c) \/ SchedNextQueue(c) \/ SchedIdle(c)
    <3>1. UNCHANGED <<state, pc, np>>
      BY <2>2 DEF SchedAcquire, SchedNextQueue, SchedIdle, table, thread
    <3> QED BY <1>u, <3>1
  <2> QED BY <1>2, <2>1, <2>2 DEF Scheduler
<1>3. ASSUME NEW c \in Cpus, Wakeup1(c) PROVE ForkInv'
  <2>1. CASE Wakeup1Hit(c)
    <3>1. /\ idx \in Procs /\ state[idx] = "SLEEPING"
          /\ state' = [state EXCEPT ![idx] = "RUNNABLE"] /\ UNCHANGED <<pc, np>>
      BY <2>1 DEF Wakeup1Hit, Waking, Asleep, thread
    <3> QED BY <1>s, <3>1 DEF States
  <2>2. CASE Wakeup1Skip(c)
    BY <2>2, <1>u DEF Wakeup1Skip, table, thread
  <2> QED BY <1>3, <2>1, <2>2 DEF Wakeup1
<1>4. ASSUME NEW c \in Cpus, TimerIrq(c) PROVE ForkInv'
  BY <1>4, <1>u DEF TimerIrq, table
<1>5. ASSUME NEW c \in Cpus, Trap(c) PROVE ForkInv'
  <2>1. CASE TickWakeup(c) \/ TickDone(c) \/ TrapIdle(c)
    <3>1. UNCHANGED <<state, pc, np>>
      BY <2>1 DEF TickWakeup, TickDone, TrapIdle, table, thread
    <3> QED BY <1>u, <3>1
  <2>2. CASE TrapKilled(c)
    <3>1. proc[c] \in Procs BY <2>2 DEF TrapKilled, TypeOK
    <3> QED BY <1>m, <2>2, <3>1 DEF TrapKilled, table, Locations
  <2>3. CASE TrapTimepiece(c)
    <3>1. proc[c] \in Procs BY <2>3 DEF TrapTimepiece, TypeOK
    <3>2. UNCHANGED <<state, np>> BY <2>3 DEF TrapTimepiece
    <3>3. CASE pc[proc[c]] = "user"
      <4>1. pc' = [pc EXCEPT ![proc[c]] = "trapret"]
        BY <2>3, <3>1, <3>3 DEF TrapTimepiece, TypeOK
      <4> QED BY <1>m, <3>1, <3>2, <4>1 DEF Locations
    <3>4. CASE pc[proc[c]] # "user"
      <4>1. pc' = pc BY <2>3, <3>1, <3>4 DEF TrapTimepiece, TypeOK
      <4> QED BY <1>u, <3>2, <4>1
    <3> QED BY <3>3, <3>4
  <2>4. CASE Yield(c)
    <3>1. proc[c] \in Procs /\ state[proc[c]] = "RUNNING"
      BY <2>4 DEF Yield, TypeOK, CpuInv, OneCpuPerProcess
    <3>2. state' = [state EXCEPT ![proc[c]] = "RUNNABLE"] /\ UNCHANGED <<pc, np>>
      BY <2>4 DEF Yield, thread
    <3> QED BY <1>s, <3>1, <3>2 DEF States
  <2> QED BY <1>5, <2>1, <2>2, <2>3, <2>4 DEF Trap
<1>6. ASSUME NEW c \in Cpus, ExitInit(c) PROVE ForkInv'
  BY <1>6, <1>u DEF ExitInit, table, thread
<1>7. ASSUME NEW c \in Cpus, NEW p \in Procs, KernelPath(c, p) PROVE ForkInv'
  <2>r. SysRet(p) \in Locations \ {"alloc", "fork"} BY DEF SysRet, Locations
  <2>1. CASE TrapRet(c, p) \/ WaitFail(c, p) \/ SleepReturn(c, p)
    <3>1. pc' = [pc EXCEPT ![p] = SysRet(p)] /\ UNCHANGED <<state, np>>
      BY <2>1 DEF TrapRet, WaitFail, SleepReturn, table
    <3> QED BY <1>m, <2>r, <3>1
  <2>2. CASE ForkStack(c, p)
    <3>1. /\ pc[p] = "alloc" /\ pc' = [pc EXCEPT ![p] = "fork"]
          /\ UNCHANGED <<state, np>>
      BY <2>2 DEF ForkStack, At
    <3>2. \A r \in Procs : pc'[r] \in {"alloc", "fork"} => pc[r] \in {"alloc", "fork"}
      BY <3>1 DEF TypeOK
    <3> QED BY <3>1, <3>2 DEF ForkInv
  <2>3. CASE ForkFail(c, p) \/ ForkDone(c, p)
    <3>1. pc[p] \in {"alloc", "fork"} /\ np' = [np EXCEPT ![p] = NIL]
      BY <2>3 DEF ForkFail, ForkDone, At
    <3>2. /\ np[p] \in Procs /\ state[np[p]] = "EMBRYO"
          /\ pc[np[p]] \notin {"alloc", "fork"}
      BY <3>1 DEF ForkInv
    <3>3. \E st \in {"UNUSED", "RUNNABLE"} : state' = [state EXCEPT ![np[p]] = st]
      BY <2>3 DEF ForkFail, ForkDone
    <3>4. /\ pc'[p] = SysRet(p)
          /\ \A r \in Procs \ {p} : pc'[r] = pc[r] \/ pc'[r] = "user"
      BY <2>3, <3>2 DEF ForkFail, ForkDone, TypeOK
    <3>5. \A r \in Procs : pc'[r] \in {"alloc", "fork"} =>
            /\ r # p /\ r # np[p] /\ pc[r] \in {"alloc", "fork"}
            /\ np'[r] = np[r] /\ np[r] # np[p]
      BY <2>r, <3>1, <3>2, <3>4 DEF ForkInv, TypeOK
    <3>6. \A r \in Procs \ {np[p]} : state'[r] = state[r]
      BY <3>2, <3>3 DEF TypeOK
    <3>7. \A r \in Procs : pc'[r] \in {"alloc", "fork"} =>
            /\ state'[r] \in {"RUNNABLE", "RUNNING"}
            /\ np'[r] \in Procs /\ state'[np'[r]] = "EMBRYO"
      <4> SUFFICES ASSUME NEW r \in Procs, pc'[r] \in {"alloc", "fork"}
                   PROVE  /\ state'[r] \in {"RUNNABLE", "RUNNING"}
                          /\ np'[r] \in Procs /\ state'[np'[r]] = "EMBRYO"
        OBVIOUS
      <4>1. /\ pc[r] \in {"alloc", "fork"} /\ np'[r] = np[r]
            /\ r # np[p] /\ np[r] # np[p]
        BY <3>5
      <4>2. /\ state[r] \in {"RUNNABLE", "RUNNING"}
            /\ np[r] \in Procs /\ state[np[r]] = "EMBRYO"
        BY <4>1 DEF ForkInv
      <4> QED BY <3>6, <4>1, <4>2
    <3>8. \A r, q \in Procs : /\ pc'[r] \in {"alloc", "fork"}
                              /\ pc'[q] \in {"alloc", "fork"}
                              /\ np'[r] = np'[q]
                              => r = q
      BY <3>5 DEF ForkInv
    <3> QED BY <3>7, <3>8 DEF ForkInv
  <2>4. CASE ExitWakeParent(c, p) \/ ExitReparent(c, p)
    <3>1. \E l \in {"exit1", "exit2"} : pc' = [pc EXCEPT ![p] = l]
      BY <2>4 DEF ExitWakeParent, ExitReparent
    <3>2. UNCHANGED <<state, np>>
      BY <2>4 DEF ExitWakeParent, ExitReparent, table
    <3> QED BY <1>m, <3>1, <3>2 DEF Locations
  <2>5. CASE ExitZombie(c, p)
    <3>1. /\ proc[c] = p /\ pc' = [pc EXCEPT ![p] = "user"] /\ np' = np
          /\ state' = [state EXCEPT ![p] = "ZOMBIE"]
      BY <2>5 DEF ExitZombie, At
    <3>2. state[p] = "RUNNING" BY <3>1 DEF CpuInv, OneCpuPerProcess
    <3> QED BY <3>1, <3>2 DEF ForkInv, TypeOK
  <2>6. CASE WaitReap(c, p)
    <3>1. PICK n \in Procs : /\ state[n] = "ZOMBIE"
                             /\ state' = [state EXCEPT ![n] = "UNUSED"]
      BY <2>6 DEF WaitReap, ZombieChild
    <3>2. pc' = [pc EXCEPT ![p] = SysRet(p)] /\ np' = np
      BY <2>6 DEF WaitReap
    <3> QED BY <2>r, <3>1, <3>2 DEF ForkInv, TypeOK
  <2>7. CASE WaitSleep(c, p)
    <3>1. /\ proc[c] = p /\ pc[p] = "wait" /\ UNCHANGED <<pc, np>>
          /\ state' = [state EXCEPT ![p] = "SLEEPING"]
      BY <2>7 DEF WaitSleep, GoToSleep, At, thread
    <3>2. state[p] = "RUNNING" BY <3>1 DEF CpuInv, OneCpuPerProcess
    <3> QED BY <1>s, <3>1, <3>2 DEF States
  <2>8. CASE SleepTicks(c, p)
    <3>1. /\ proc[c] = p /\ pc' = [pc EXCEPT ![p] = "sleep"] /\ np' = np
          /\ state' = [state EXCEPT ![p] = "SLEEPING"]
      BY <2>8 DEF SleepTicks, GoToSleep, At
    <3>2. state[p] = "RUNNING" BY <3>1 DEF CpuInv, OneCpuPerProcess
    <3> QED BY <3>1, <3>2 DEF ForkInv, TypeOK
  <2>9. CASE SleepAgain(c, p)
    <3>1. pc' = [pc EXCEPT ![p] = "doze"] /\ UNCHANGED <<state, np>>
      BY <2>9 DEF SleepAgain, table
    <3> QED BY <1>m, <3>1 DEF Locations
  <2> QED
    BY <1>7, <2>1, <2>2, <2>3, <2>4, <2>5, <2>6, <2>7, <2>8, <2>9 DEF KernelPath
<1>8. ASSUME NEW c \in Cpus, NEW p \in Procs, UserStep(c, p) PROVE ForkInv'
  <2>1. CASE ForkAlloc(c, p)
    <3>1. PICK n \in Procs : /\ state[n] = "UNUSED"
                             /\ state' = [state EXCEPT ![n] = "EMBRYO"]
                             /\ np' = [np EXCEPT ![p] = n]
      BY <2>1 DEF ForkAlloc, FirstUnused
    <3>2. proc[c] = p /\ pc' = [pc EXCEPT ![p] = "alloc"]
      BY <2>1 DEF ForkAlloc, At
    <3>3. state[p] = "RUNNING" BY <3>2 DEF CpuInv, OneCpuPerProcess
    <3>4. \A r \in Procs \ {p} :
            /\ pc'[r] = pc[r] /\ np'[r] = np[r]
            /\ pc[r] \in {"alloc", "fork"} => np[r] # n
      BY <3>1, <3>2 DEF ForkInv, TypeOK
    <3>5. \A r \in Procs \ {n} : state'[r] = state[r]
      BY <3>1 DEF TypeOK
    <3>6. /\ state'[n] = "EMBRYO" /\ state'[p] = "RUNNING" /\ np'[p] = n
          /\ \A r \in Procs : pc[r] \in {"alloc", "fork"} => r # n
      BY <3>1, <3>3 DEF TypeOK, ForkInv
    <3>7. \A r \in Procs : pc'[r] \in {"alloc", "fork"} =>
            /\ state'[r] \in {"RUNNABLE", "RUNNING"}
            /\ np'[r] \in Procs /\ state'[np'[r]] = "EMBRYO"
      <4> SUFFICES ASSUME NEW r \in Procs \ {p}, pc'[r] \in {"alloc", "fork"}
                   PROVE  /\ state'[r] \in {"RUNNABLE", "RUNNING"}
                          /\ np'[r] \in Procs /\ state'[np'[r]] = "EMBRYO"
        BY <3>6
      <4>1. /\ pc[r] \in {"alloc", "fork"} /\ np'[r] = np[r]
            /\ r # n /\ np[r] # n
        BY <3>4, <3>6
      <4>2. /\ state[r] \in {"RUNNABLE", "RUNNING"}
            /\ np[r] \in Procs /\ state[np[r]] = "EMBRYO"
        BY <4>1 DEF ForkInv
      <4> QED BY <3>5, <4>1, <4>2
    <3>8. \A r, q \in Procs : /\ pc'[r] \in {"alloc", "fork"}
                              /\ pc'[q] \in {"alloc", "fork"}
                              /\ np'[r] = np'[q]
                              => r = q
      BY <3>4, <3>6 DEF ForkInv
    <3> QED BY <3>7, <3>8 DEF ForkInv
  <2>2. CASE SleepCall(c, p)
    <3>1. pc' = [pc EXCEPT ![p] = "doze"] /\ UNCHANGED <<state, np>>
      BY <2>2 DEF SleepCall, table
    <3> QED BY <1>m, <3>1 DEF Locations
  <2>3. CASE Kill(c, p)
    <3>1. PICK t \in Procs :
            state' = IF state[t] = "SLEEPING"
                       THEN [state EXCEPT ![t] = "RUNNABLE"] ELSE state
      BY <2>3 DEF Kill
    <3>2. np' = np /\ \E l \in {"exit", "user"} : pc' = [pc EXCEPT ![p] = l]
      BY <2>3 DEF Kill
    <3>3. \A r \in Procs : \/ state'[r] = state[r]
                           \/ state[r] = "SLEEPING" /\ state'[r] = "RUNNABLE"
      BY <3>1 DEF TypeOK
    <3>4. \A r \in Procs : pc'[r] \in {"alloc", "fork"} => pc[r] \in {"alloc", "fork"}
      BY <3>2 DEF TypeOK
    <3> QED BY <3>2, <3>3, <3>4 DEF ForkInv
  <2>4. CASE \/ Syscall(c, p) \/ UserFault(c, p) \/ ForkFull(c, p)
             \/ ExitCall(c, p) \/ WaitCall(c, p) \/ SleepNot(c, p)
    <3>1. \E l \in Locations \ {"alloc", "fork"} : pc' = [pc EXCEPT ![p] = l]
      BY <2>4 DEF Syscall, UserFault, ForkFull, ExitCall, WaitCall, SleepNot,
                  SysRet, Locations
    <3>2. UNCHANGED <<state, np>>
      BY <2>4 DEF Syscall, UserFault, ForkFull, ExitCall, WaitCall, SleepNot,
                  table
    <3> QED BY <1>m, <3>1, <3>2
  <2> QED BY <1>8, <2>1, <2>2, <2>3, <2>4 DEF UserStep
<1>9. CASE PanicLoop BY <1>9, <1>1 DEF PanicLoop
<1> QED BY <1>1, <1>2, <1>3, <1>4, <1>5, <1>6, <1>7, <1>8, <1>9 DEF Next

-----------------------------------------------------------------------------
(* The run queues.                                                         *)

(***************************************************************************)
(* A step that leaves the lists alone, and changes state, priority and     *)
(* slice only of processes that are neither RUNNABLE nor RUNNING, keeps    *)
(* the queues sound.                                                       *)
(***************************************************************************)
LEMMA KeepQueues ==
  ASSUME IInv, UNCHANGED lists,
         \A r \in Procs : state[r] = "RUNNABLE" => state'[r] = "RUNNABLE",
         \A r \in Procs : state[r] \in {"RUNNABLE", "RUNNING"} =>
           priority'[r] = priority[r] /\ timepiece'[r] = timepiece[r],
         \A c \in Cpus : proc'[c] \in {proc[c], NIL},
         \A c \in Cpus : intr[c] = "yield" => intr'[c] = "yield"
  PROVE  QueueInv'
<1> USE ConstFacts DEF IInv, lists
<1>1. ListsAreFifo' BY DEF ListsAreFifo
<1>2. \A q \in Queues : order[q] \in Seq(Procs) BY DEF TypeOK
<1>3. \A q \in Queues : \A i \in 1..Len(order[q]) :
        order[q][i] \in Procs /\ state[order[q][i]] = "RUNNABLE"
  BY <1>2 DEF QueueEntries
<1>o. order' = order OBVIOUS
<1>4. QueueEntries'
  <2> SUFFICES ASSUME NEW q \in Queues, NEW i \in 1..Len(order[q])
               PROVE  /\ state'[order[q][i]] = "RUNNABLE"
                      /\ priority'[order[q][i]] = q
                      /\ \A j \in 1..Len(order[q]) :
                           order[q][i] = order[q][j] => i = j
    BY <1>o DEF QueueEntries
  <2>1. /\ order[q][i] \in Procs /\ state[order[q][i]] = "RUNNABLE"
        /\ priority[order[q][i]] = q
        /\ \A j \in 1..Len(order[q]) : order[q][i] = order[q][j] => i = j
    BY <1>3 DEF QueueEntries
  <2> QED BY <2>1
<1>5. \A q \in Queues : \A p \in Queued(q)' : timepiece'[p] = Slice(q)
  <2> SUFFICES ASSUME NEW q \in Queues, NEW i \in 1..Len(order[q])
               PROVE  timepiece'[order[q][i]] = Slice(q)
    BY <1>o DEF Queued
  <2>1. order[q][i] \in Procs /\ state[order[q][i]] = "RUNNABLE" BY <1>3
  <2>2. timepiece[order[q][i]] = Slice(q) BY DEF SliceNeverWraps, Queued
  <2> QED BY <2>1, <2>2
<1>6. ASSUME NEW c \in Cpus, proc'[c] # NIL, intr'[c] # "yield"
      PROVE  timepiece'[proc'[c]] \in 1..Slice(priority'[proc'[c]])
  <2>1. proc'[c] = proc[c] /\ intr[c] # "yield" BY <1>6
  <2>2. proc[c] \in Procs /\ state[proc[c]] = "RUNNING"
    BY <1>6, <2>1 DEF TypeOK, CpuInv, OneCpuPerProcess
  <2>3. timepiece[proc[c]] \in 1..Slice(priority[proc[c]])
    BY <1>6, <2>1 DEF SliceNeverWraps
  <2> QED BY <2>1, <2>2, <2>3
<1> QED BY <1>1, <1>4, <1>5, <1>6 DEF QueueInv, SliceNeverWraps

(***************************************************************************)
(* qpush() of a process that was not RUNNABLE, and that no CPU runs        *)
(* afterwards, keeps the queues sound.                                     *)
(***************************************************************************)
LEMMA PushQueues ==
  ASSUME IInv, NEW p \in Procs, NEW q \in Queues,
         state[p] # "RUNNABLE", qpush(p, q),
         state' = [state EXCEPT ![p] = "RUNNABLE"],
         priority' = [priority EXCEPT ![p] = q],
         \A c \in Cpus : proc'[c] \in {proc[c], NIL} /\ proc'[c] # p,
         \A c \in Cpus : intr[c] = "yield" => intr'[c] = "yield" \/ proc'[c] = NIL
  PROVE  QueueInv'
<1> USE ConstFacts
<1>t. TypeOK /\ ListsAreFifo /\ QueueEntries /\ SliceNeverWraps BY DEF IInv
<1> DEFINE n == Len(order[q])
<1>1. /\ \A r \in Queues : order[r] \in Seq(Procs)
      /\ n \in Nat
      /\ count[q] = n
  BY <1>t DEF TypeOK, ListsAreFifo
<1>2. /\ \A r \in Queues \ {q} : order'[r] = order[r]
      /\ order'[q] = Append(order[q], p)
  BY <1>t DEF qpush, TypeOK
<1>3. /\ Len(order'[q]) = n + 1
      /\ order'[q][n + 1] = p
      /\ \A i \in 1..n : order'[q][i] = order[q][i]
  BY <1>1, <1>2
<1>4. \A r \in Queues : \A i \in 1..Len(order[r]) :
        /\ order[r][i] \in Procs
        /\ state[order[r][i]] = "RUNNABLE"
        /\ priority[order[r][i]] = r
        /\ order[r][i] # p
  BY <1>t, <1>1 DEF QueueEntries
<1>5. /\ state'[p] = "RUNNABLE" /\ priority'[p] = q
      /\ \A r \in Procs \ {p} : state'[r] = state[r] /\ priority'[r] = priority[r]
  BY <1>t DEF TypeOK
<1>6. /\ timepiece'[p] = Slice(q)
      /\ \A r \in Procs \ {p} : timepiece'[r] = timepiece[r]
  BY <1>t DEF qpush, TypeOK
<1>7. /\ count'[q] = n + 1
      /\ last'[q] = p
      /\ \A r \in Queues \ {q} :
           count'[r] = count[r] /\ last'[r] = last[r] /\ head'[r] = head[r]
  BY <1>t, <1>1 DEF qpush, TypeOK
<1>8. head'[q] = order'[q][1]
  <2>1. CASE n = 0 BY <1>t, <1>1, <1>3, <2>1 DEF qpush, TypeOK
  <2>2. CASE n # 0
    <3>1. head'[q] = head[q] BY <1>1, <2>2 DEF qpush
    <3>2. head[q] = order[q][1] BY <1>t, <1>1, <2>2 DEF ListsAreFifo
    <3> QED BY <1>1, <1>3, <2>2, <3>1, <3>2
  <2> QED BY <2>1, <2>2
<1>9. \A r \in Queues : \A i \in 1..(Len(order'[r]) - 1) :
        next'[order'[r][i]] = order'[r][i + 1]
  <2>1. ASSUME NEW r \in Queues \ {q}, NEW i \in 1..(Len(order[r]) - 1)
        PROVE  next'[order[r][i]] = order[r][i + 1]
    <3>1. i \in 1..Len(order[r]) BY <1>1, <2>1
    <3>2. next[order[r][i]] = order[r][i + 1] BY <1>t, <2>1 DEF ListsAreFifo
    <3>3. order[r][i] \in Procs \ {p} /\ priority[order[r][i]] = r BY <1>4, <3>1
    <3>4. CASE n = 0 BY <1>t, <1>1, <3>2, <3>3, <3>4 DEF qpush, TypeOK
    <3>5. CASE n # 0
      <4>1. n \in 1..n /\ last[q] = order[q][n] BY <1>t, <1>1, <3>5 DEF ListsAreFifo
      <4>2. last[q] \in Procs /\ priority[last[q]] = q BY <1>4, <4>1
      <4> QED BY <1>t, <1>1, <3>2, <3>3, <3>5, <4>2 DEF qpush, TypeOK
    <3> QED BY <3>4, <3>5
  <2>2. ASSUME NEW i \in 1..n
        PROVE  next'[order[q][i]] = order'[q][i + 1]
    <3>1. order[q][i] \in Procs \ {p} BY <1>4, <2>2
    <3>2. n # 0 /\ n \in 1..n /\ n > 0 BY <1>1, <2>2
    <3>3. last[q] = order[q][n]
      <4>1. ListsAreFifo /\ count[q] = n /\ q \in Queues BY <1>t, <1>1
      <4> QED BY <1>1, <3>2, <4>1 DEF ListsAreFifo
    <3>4. next' = [next EXCEPT ![p] = head[q], ![last[q]] = p]
      BY <1>1, <3>2 DEF qpush
    <3>5. order[q][n] \in Procs BY <1>4, <3>2
    <3>6. CASE i = n BY <1>t, <1>3, <3>3, <3>4, <3>5, <3>6 DEF TypeOK
    <3>7. CASE i # n
      <4>1. order[q][i] # order[q][n] BY <1>t, <2>2, <3>2, <3>7 DEF QueueEntries
      <4>2. next[order[q][i]] = order[q][i + 1]
        BY <1>t, <1>1, <2>2, <3>7 DEF ListsAreFifo
      <4>3. order'[q][i + 1] = order[q][i + 1] BY <1>1, <1>3, <2>2, <3>7
      <4> QED BY <1>t, <3>1, <3>3, <3>4, <4>1, <4>2, <4>3 DEF TypeOK
    <3> QED BY <3>6, <3>7
  <2> SUFFICES ASSUME NEW r \in Queues, NEW i \in 1..(Len(order'[r]) - 1)
               PROVE  next'[order'[r][i]] = order'[r][i + 1]
    OBVIOUS
  <2>3. CASE r = q
    <3>1. i \in 1..n BY <1>1, <1>3, <2>3
    <3> QED BY <1>3, <2>2, <2>3, <3>1
  <2>4. CASE r # q BY <1>2, <2>1, <2>4
  <2> QED BY <2>3, <2>4
<1>10. ListsAreFifo'
  <2>1. \A r \in Queues : count'[r] = Len(order'[r])
    BY <1>t, <1>2, <1>3, <1>7 DEF ListsAreFifo
  <2>2. \A r \in Queues : count'[r] > 0 =>
          head'[r] = order'[r][1] /\ last'[r] = order'[r][Len(order'[r])]
    BY <1>t, <1>2, <1>3, <1>7, <1>8 DEF ListsAreFifo
  <2> QED BY <1>9, <2>1, <2>2 DEF ListsAreFifo
<1>11. \A r \in Queues : \A i \in 1..Len(order'[r]) :
         \/ r = q /\ i = n + 1 /\ order'[r][i] = p
         \/ i \in 1..Len(order[r]) /\ order'[r][i] = order[r][i]
  <2> SUFFICES ASSUME NEW r \in Queues, NEW i \in 1..Len(order'[r])
               PROVE  \/ r = q /\ i = n + 1 /\ order'[r][i] = p
                      \/ i \in 1..Len(order[r]) /\ order'[r][i] = order[r][i]
    OBVIOUS
  <2>1. CASE r = q
    <3>1. i \in 1..n \/ i = n + 1 BY <1>1, <1>3, <2>1
    <3> QED BY <1>3, <2>1, <3>1
  <2>2. CASE r # q BY <1>2, <2>2
  <2> QED BY <2>1, <2>2
<1>12. QueueEntries'
  <2>1. ASSUME NEW r \in Queues, NEW i \in 1..Len(order'[r])
        PROVE  state'[order'[r][i]] = "RUNNABLE" /\ priority'[order'[r][i]] = r
    <3>1. CASE r = q /\ order'[r][i] = p BY <1>5, <3>1
    <3>2. CASE i \in 1..Len(order[r]) /\ order'[r][i] = order[r][i]
      <4>1. /\ order[r][i] \in Procs \ {p} /\ state[order[r][i]] = "RUNNABLE"
            /\ priority[order[r][i]] = r
        BY <1>4, <3>2
      <4> QED BY <1>5, <3>2, <4>1
    <3> QED BY <1>11, <2>1, <3>1, <3>2
  <2>2. ASSUME NEW r \in Queues, NEW i \in 1..Len(order'[r]),
               NEW j \in 1..Len(order'[r]), order'[r][i] = order'[r][j]
        PROVE  i = j
    <3>1. /\ \/ r = q /\ i = n + 1 /\ order'[r][i] = p
             \/ i \in 1..Len(order[r]) /\ order'[r][i] = order[r][i]
          /\ \/ r = q /\ j = n + 1 /\ order'[r][j] = p
             \/ j \in 1..Len(order[r]) /\ order'[r][j] = order[r][j]
      BY <1>11, <2>2
    <3>2. \A k \in 1..Len(order[r]) : order[r][k] # p BY <1>4
    <3>3. CASE i \in 1..Len(order[r]) /\ j \in 1..Len(order[r])
      BY <1>t, <2>2, <3>1, <3>2, <3>3 DEF QueueEntries
    <3> QED BY <2>2, <3>1, <3>2, <3>3
  <2> SUFFICES ASSUME NEW r \in Queues, NEW i \in 1..Len(order'[r])
               PROVE  /\ state'[order'[r][i]] = "RUNNABLE"
                      /\ priority'[order'[r][i]] = r
                      /\ \A j \in 1..Len(order'[r]) :
                           order'[r][i] = order'[r][j] => i = j
    BY DEF QueueEntries
  <2> QED BY <2>1, <2>2
<1>13. \A r \in Queues : \A x \in Queued(r)' : timepiece'[x] = Slice(r)
  <2>1. ASSUME NEW r \in Queues, NEW i \in 1..Len(order'[r])
        PROVE  timepiece'[order'[r][i]] = Slice(r)
    <3>1. \A j \in 1..Len(order[r]) : timepiece[order[r][j]] = Slice(r)
      BY <1>t DEF SliceNeverWraps, Queued
    <3>2. CASE r = q /\ order'[r][i] = p BY <1>6, <3>2
    <3>3. CASE i \in 1..Len(order[r]) /\ order'[r][i] = order[r][i]
      <4>1. order[r][i] \in Procs \ {p} BY <1>4, <3>3
      <4> QED BY <1>6, <3>1, <3>3, <4>1
    <3> QED BY <1>11, <2>1, <3>2, <3>3
  <2> QED BY <2>1 DEF Queued
<1>14. ASSUME NEW c \in Cpus, proc'[c] # NIL, intr'[c] # "yield"
       PROVE  timepiece'[proc'[c]] \in 1..Slice(priority'[proc'[c]])
  <2>1. proc'[c] = proc[c] /\ proc[c] # p /\ intr[c] # "yield" BY <1>14
  <2>2. proc[c] \in Procs BY <1>t, <1>14, <2>1 DEF TypeOK
  <2>3. timepiece[proc[c]] \in 1..Slice(priority[proc[c]])
    BY <1>t, <1>14, <2>1 DEF SliceNeverWraps
  <2> QED BY <1>5, <1>6, <2>1, <2>2, <2>3
<1> QED BY <1>10, <1>12, <1>13, <1>14 DEF QueueInv, SliceNeverWraps

(***************************************************************************)
(* Taking the head off a queue, as scheduler() does, keeps the queues      *)
(* sound.                                                                  *)
(***************************************************************************)
LEMMA PopQueues ==
  ASSUME IInv, NEW c \in Cpus, SchedPop(c)
  PROVE  QueueInv'
<1> DEFINE q == idx
           p == head[q]
           n == Len(order[q])
<1> USE ConstFacts
<1>t. TypeOK /\ ListsAreFifo /\ QueueEntries /\ SliceNeverWraps BY DEF IInv
<1>h. /\ q \in Queues /\ order[q] # << >> /\ p = order[q][1] /\ p \in Procs
      /\ state[p] = "RUNNABLE" /\ priority[p] = q
  BY QueueHead
<1>1. /\ \A r \in Queues : order[r] \in Seq(Procs)
      /\ n \in Nat \ {0}
      /\ count[q] = n
  BY <1>t, <1>h DEF TypeOK, ListsAreFifo
<1>d. /\ head' = [head EXCEPT ![q] = next[head[q]]]
      /\ count' = [count EXCEPT ![q] = @ - 1]
      /\ order' = [order EXCEPT ![q] = Tail(@)]
      /\ UNCHANGED <<next, last, priority, timepiece, intr>>
  BY DEF SchedPop, qpop
<1>e. state' = [state EXCEPT ![p] = "RUNNING"] /\ proc' = [proc EXCEPT ![c] = p]
  BY PopRuns
<1>p. head[q] = order[q][1] BY QueueHead
<1>c. proc[c] = NIL BY DEF SchedPop, Scanning
<1> HIDE DEF q, p
<1>2. /\ \A r \in Queues \ {q} : order'[r] = order[r]
      /\ order'[q] = Tail(order[q])
  BY <1>t, <1>d, <1>h DEF TypeOK
<1>3. /\ Len(order'[q]) = n - 1
      /\ \A i \in 1..(n - 1) : order'[q][i] = order[q][i + 1]
  BY <1>1, <1>2, <1>h
<1>4. \A r \in Queues : \A i \in 1..Len(order'[r]) :
        \E j \in 1..Len(order[r]) :
          /\ j = IF r = q THEN i + 1 ELSE i
          /\ order'[r][i] = order[r][j]
          /\ order[r][j] \in Procs \ {p}
  <2> SUFFICES ASSUME NEW r \in Queues, NEW i \in 1..Len(order'[r])
               PROVE  \E j \in 1..Len(order[r]) :
                        /\ j = IF r = q THEN i + 1 ELSE i
                        /\ order'[r][i] = order[r][j]
                        /\ order[r][j] \in Procs \ {p}
    OBVIOUS
  <2>1. CASE r = q
    <3>1. i \in 1..(n - 1) /\ i + 1 \in 1..n /\ 1 \in 1..n BY <1>1, <1>3, <2>1
    <3>2. order[q][i + 1] \in Procs BY <1>1, <1>h, <3>1
    <3>3. order[q][i + 1] # order[q][1] BY <1>t, <1>h, <3>1 DEF QueueEntries
    <3> QED BY <1>3, <1>h, <2>1, <3>1, <3>2, <3>3
  <2>2. CASE r # q
    <3>1. order[r][i] \in Procs /\ priority[order[r][i]] = r
      BY <1>t, <1>1, <1>2, <2>2 DEF QueueEntries
    <3> QED BY <1>2, <1>h, <2>2, <3>1
  <2> QED BY <2>1, <2>2
<1>5. state'[p] = "RUNNING" /\ \A r \in Procs \ {p} : state'[r] = state[r]
  BY <1>t, <1>e, <1>h DEF TypeOK
<1>6. QueueEntries'
  <2> SUFFICES ASSUME NEW r \in Queues, NEW i \in 1..Len(order'[r])
               PROVE  /\ state'[order'[r][i]] = "RUNNABLE"
                      /\ priority'[order'[r][i]] = r
                      /\ \A k \in 1..Len(order'[r]) :
                           order'[r][i] = order'[r][k] => i = k
    BY DEF QueueEntries
  <2>1. PICK j \in 1..Len(order[r]) :
          /\ j = IF r = q THEN i + 1 ELSE i
          /\ order'[r][i] = order[r][j]
          /\ order[r][j] \in Procs \ {p}
    BY <1>4
  <2>2. /\ state[order[r][j]] = "RUNNABLE" /\ priority[order[r][j]] = r
        /\ \A k \in 1..Len(order[r]) : order[r][j] = order[r][k] => j = k
    BY <1>t DEF QueueEntries
  <2>3. ASSUME NEW k \in 1..Len(order'[r]), order'[r][i] = order'[r][k]
        PROVE  i = k
    <3>1. PICK l \in 1..Len(order[r]) :
            l = (IF r = q THEN k + 1 ELSE k) /\ order'[r][k] = order[r][l]
      BY <1>4
    <3>2. j = l BY <2>1, <2>2, <2>3, <3>1
    <3> QED BY <2>1, <3>1, <3>2
  <2> QED BY <1>5, <1>d, <2>1, <2>2, <2>3
<1>7. ListsAreFifo'
  <2> SUFFICES ASSUME NEW r \in Queues
               PROVE  /\ count'[r] = Len(order'[r])
                      /\ count'[r] > 0 =>
                           /\ head'[r] = order'[r][1]
                           /\ last'[r] = order'[r][Len(order'[r])]
                      /\ \A i \in 1..(Len(order'[r]) - 1) :
                           next'[order'[r][i]] = order'[r][i + 1]
    BY DEF ListsAreFifo
  <2>1. CASE r # q
    <3>1. count'[r] = count[r] /\ head'[r] = head[r] /\ order'[r] = order[r]
      BY <1>t, <1>d, <1>2, <2>1 DEF TypeOK
    <3>2. /\ count[r] = Len(order[r])
          /\ count[r] > 0 => /\ head[r] = order[r][1]
                             /\ last[r] = order[r][Len(order[r])]
          /\ \A i \in 1..(Len(order[r]) - 1) :
               next[order[r][i]] = order[r][i + 1]
      BY <1>t DEF ListsAreFifo
    <3> QED BY <1>d, <3>1, <3>2
  <2>2. CASE r = q
    <3>1. count'[q] = n - 1 BY <1>t, <1>1, <1>d, <1>h DEF TypeOK
    <3>2. ASSUME n - 1 > 0
          PROVE  /\ head'[q] = order'[q][1]
                 /\ last'[q] = order'[q][n - 1]
      <4>1. head'[q] = next[order[q][1]] BY <1>t, <1>d, <1>h, <1>p DEF TypeOK
      <4>2. next[order[q][1]] = order[q][1 + 1]
        <5>1. 1 \in 1..(n - 1) BY <1>1, <3>2
        <5> QED BY <1>t, <1>h, <5>1 DEF ListsAreFifo
      <4>3. last[q] = order[q][n]
        <5>1. count[q] > 0 BY <1>1
        <5> QED BY <1>t, <1>h, <5>1 DEF ListsAreFifo
      <4>4. order'[q][1] = order[q][1 + 1] /\ order'[q][n - 1] = order[q][n]
        <5>1. 1 \in 1..(n - 1) /\ n - 1 \in 1..(n - 1) /\ (n - 1) + 1 = n
          BY <1>1, <3>2
        <5>2. order'[q][n - 1] = order[q][(n - 1) + 1] BY <1>3, <5>1
        <5>3. order'[q][1] = order[q][1 + 1] BY <1>3, <5>1
        <5> QED BY <5>1, <5>2, <5>3
      <4> QED BY <1>d, <4>1, <4>2, <4>3, <4>4
    <3>3. ASSUME NEW i \in 1..(n - 2)
          PROVE  next'[order'[q][i]] = order'[q][i + 1]
      <4>1. order'[q][i] = order[q][i + 1] /\ order'[q][i + 1] = order[q][i + 2]
        <5>1. /\ i \in 1..(n - 1) /\ i + 1 \in 1..(n - 1)
              /\ (i + 1) + 1 = i + 2
          BY <1>1, <3>3
        <5>2. order'[q][i + 1] = order[q][(i + 1) + 1] BY <1>3, <5>1
        <5>3. order'[q][i] = order[q][i + 1] BY <1>3, <5>1
        <5> QED BY <5>1, <5>2, <5>3
      <4>2. i + 1 \in 1..(n - 1) BY <1>1, <3>3
      <4>3. next[order[q][i + 1]] = order[q][(i + 1) + 1]
        BY <1>t, <1>h, <4>2 DEF ListsAreFifo
      <4>4. (i + 1) + 1 = i + 2 BY <3>3
      <4> QED BY <1>d, <4>1, <4>3, <4>4
    <3>4. Len(order'[q]) - 1 = n - 2 BY <1>1, <1>3
    <3> QED BY <1>3, <2>2, <3>1, <3>2, <3>3, <3>4
  <2> QED BY <2>1, <2>2
<1>8. \A r \in Queues : \A x \in Queued(r)' : timepiece'[x] = Slice(r)
  <2> SUFFICES ASSUME NEW r \in Queues, NEW x \in Queued(r)'
               PROVE  timepiece'[x] = Slice(r)
    OBVIOUS
  <2>0. PICK i \in 1..Len(order'[r]) : x = order'[r][i] BY DEF Queued
  <2>1. PICK j \in 1..Len(order[r]) : order'[r][i] = order[r][j] BY <1>4
  <2>2. timepiece[order[r][j]] = Slice(r) BY <1>t DEF SliceNeverWraps, Queued
  <2> QED BY <1>d, <2>0, <2>1, <2>2
<1>9. ASSUME NEW d \in Cpus, proc'[d] # NIL, intr'[d] # "yield"
      PROVE  timepiece'[proc'[d]] \in 1..Slice(priority'[proc'[d]])
  <2>1. CASE d = c
    <3>1. proc'[d] = p BY <1>t, <1>e, <2>1 DEF TypeOK
    <3>2. 1 \in 1..n BY <1>1
    <3>3. timepiece[p] = Slice(q) BY <1>t, <1>h, <3>2 DEF SliceNeverWraps, Queued
    <3>4. Slice(q) \in 1..UMAX BY <1>h, SliceFits
    <3> QED BY <1>d, <1>h, <3>1, <3>3, <3>4
  <2>2. CASE d # c
    <3>1. proc'[d] = proc[d] BY <1>t, <1>e, <2>2 DEF TypeOK
    <3> QED BY <1>9, <1>t, <1>d, <3>1 DEF SliceNeverWraps
  <2> QED BY <2>1, <2>2
<1> QED BY <1>6, <1>7, <1>8, <1>9 DEF QueueInv, SliceNeverWraps

\* Every step keeps the run queues sound.
LEMMA QueueStep == IInv /\ [Next]_vars => QueueInv'
<1> SUFFICES ASSUME IInv, [Next]_vars PROVE QueueInv'
  OBVIOUS
<1>t. TypeOK /\ CpuInv /\ ForkInv BY DEF IInv
<1> USE <1>t, ConstFacts DEF pqueue
\* Steps that leave the queues and the scheduling fields alone.
<1>u. ASSUME UNCHANGED <<state, priority, timepiece, lists, proc, intr>>
      PROVE  QueueInv'
  BY <1>u, KeepQueues
\* A process changes state, away from the run queues.
<1>s. ASSUME NEW n \in Procs, NEW st, state[n] # "RUNNABLE",
             state' = [state EXCEPT ![n] = st],
             UNCHANGED <<priority, timepiece, lists, intr>>,
             \A c \in Cpus : proc'[c] \in {proc[c], NIL}
      PROVE  QueueInv'
  BY <1>s, KeepQueues DEF TypeOK
<1>1. CASE UNCHANGED vars BY <1>1, <1>u DEF vars, table
<1>2. ASSUME NEW c \in Cpus, Scheduler(c) PROVE QueueInv'
  <2>1. CASE SchedPop(c) BY <2>1, PopQueues
  <2>2. CASE SchedAcquire(c) \/ SchedNextQueue(c) \/ SchedIdle(c)
    <3>1. UNCHANGED <<state, priority, timepiece, lists, proc, intr>>
      BY <2>2 DEF SchedAcquire, SchedNextQueue, SchedIdle, table
    <3> QED BY <1>u, <3>1
  <2> QED BY <1>2, <2>1, <2>2 DEF Scheduler
<1>3. ASSUME NEW c \in Cpus, Wakeup1(c) PROVE QueueInv'
  <2>1. CASE Wakeup1Hit(c)
    <3> DEFINE q == Raise(priority[idx])
    <3>1. /\ idx \in Procs /\ state[idx] = "SLEEPING" /\ qpush(idx, q)
          /\ state' = [state EXCEPT ![idx] = "RUNNABLE"]
          /\ priority' = [priority EXCEPT ![idx] = q]
          /\ UNCHANGED <<proc, intr>>
      BY <2>1 DEF Wakeup1Hit, Waking, Asleep
    <3>2. q \in Queues BY <3>1, QueueMoves DEF TypeOK
    <3>3. \A d \in Cpus : proc'[d] \in {proc[d], NIL} /\ proc'[d] # idx
      BY <3>1 DEF CpuInv, OneCpuPerProcess
    <3> HIDE DEF q
    <3> QED BY <3>1, <3>2, <3>3, PushQueues
  <2>2. CASE Wakeup1Skip(c) BY <2>2, <1>u DEF Wakeup1Skip, table
  <2> QED BY <1>3, <2>1, <2>2 DEF Wakeup1
<1>4. ASSUME NEW c \in Cpus, TimerIrq(c) PROVE QueueInv'
  <2>1. UNCHANGED <<state, priority, timepiece, lists, proc>>
    BY <1>4 DEF TimerIrq, table
  <2>2. \A d \in Cpus : intr[d] = "yield" => intr'[d] = "yield"
    BY <1>4 DEF TimerIrq, TypeOK
  <2> QED BY <2>1, <2>2, KeepQueues
<1>5. ASSUME NEW c \in Cpus, Trap(c) PROVE QueueInv'
  <2>1. CASE TickWakeup(c) \/ TickDone(c) \/ TrapIdle(c) \/ TrapKilled(c)
    <3>1. UNCHANGED <<state, priority, timepiece, lists, proc>>
      BY <2>1 DEF TickWakeup, TickDone, TrapIdle, TrapKilled, table
    <3>2. \A d \in Cpus : intr[d] = "yield" => intr'[d] = "yield"
      BY <2>1 DEF TickWakeup, TickDone, TrapIdle, TrapKilled, TypeOK
    <3> QED BY <3>1, <3>2, KeepQueues
  <2>2. CASE TrapTimepiece(c)
    <3> DEFINE p == proc[c]
               t == timepiece[p]
    <3>1. /\ p \in Procs /\ state[p] = "RUNNING" /\ intr[c] = "post"
          /\ timepiece' = [timepiece EXCEPT ![p] = Dec(t)]
          /\ intr' = [intr EXCEPT ![c] = IF Dec(t) <= 0 THEN "yield" ELSE "none"]
          /\ UNCHANGED <<state, priority, lists, proc>>
      BY <2>2 DEF TrapTimepiece, TypeOK
    <3>2. t \in 1..Slice(priority[p]) /\ Slice(priority[p]) \in 1..UMAX
      BY <3>1, SliceFits DEF IInv, SliceNeverWraps, TypeOK
    <3>3. Dec(t) \in 0..(t - 1) /\ Dec(t) = t - 1 BY <3>2, ProcConstants DEF Dec
    <3> HIDE DEF t
    <3>4. order' = order /\ \A r \in Procs \ {p} : timepiece'[r] = timepiece[r]
      BY <3>1 DEF TypeOK, lists
    <3>5. ListsAreFifo' /\ QueueEntries'
      <4>1. UNCHANGED <<next, head, last, count, order, state, priority>>
        BY <3>1 DEF lists
      <4>2. ListsAreFifo' BY <4>1 DEF IInv, ListsAreFifo
      <4>3. QueueEntries' BY <4>1 DEF IInv, QueueEntries
      <4> QED BY <4>2, <4>3
    <3>6. ASSUME NEW q \in Queues, NEW i \in 1..Len(order[q])
          PROVE  timepiece'[order[q][i]] = Slice(q)
      <4>1. state[order[q][i]] = "RUNNABLE" BY <3>6 DEF IInv, QueueEntries
      <4>2. timepiece[order[q][i]] = Slice(q) BY <3>6 DEF IInv, SliceNeverWraps, Queued
      <4>3. order[q][i] \in Procs BY <3>6 DEF TypeOK
      <4> QED BY <3>1, <3>4, <4>1, <4>2, <4>3
    <3>7. ASSUME NEW d \in Cpus, proc'[d] # NIL, intr'[d] # "yield"
          PROVE  timepiece'[proc'[d]] \in 1..Slice(priority'[proc'[d]])
      <4>1. CASE d = c
        <5>1. ~(Dec(t) <= 0) BY <3>1, <3>7, <4>1 DEF TypeOK
        <5>2. timepiece'[p] = Dec(t) BY <3>1 DEF TypeOK
        <5> QED BY <3>1, <3>2, <3>3, <4>1, <5>1, <5>2
      <4>2. CASE d # c
        <5>1. proc[d] # p /\ proc[d] \in Procs /\ proc'[d] = proc[d]
          BY <3>1, <3>7, <4>2 DEF CpuInv, OneCpuPerProcess, TypeOK
        <5>2. intr[d] # "yield" BY <3>1, <3>7, <4>2 DEF TypeOK
        <5>3. timepiece[proc[d]] \in 1..Slice(priority[proc[d]])
          BY <5>1, <5>2 DEF IInv, SliceNeverWraps
        <5> QED BY <3>1, <3>4, <5>1, <5>3
      <4> QED BY <4>1, <4>2
    <3> QED
      BY <3>4, <3>5, <3>6, <3>7 DEF QueueInv, SliceNeverWraps, Queued
  <2>3. CASE Yield(c)
    <3> DEFINE p == proc[c]
               q == Lower(priority[p])
    <3>1. p \in Procs /\ state[p] = "RUNNING"
      BY <2>3 DEF Yield, TypeOK, CpuInv, OneCpuPerProcess
    <3>2. /\ state' = [state EXCEPT ![p] = "RUNNABLE"]
          /\ priority' = [priority EXCEPT ![p] = q]
          /\ qpush(p, q)
          /\ proc' = [proc EXCEPT ![c] = NIL]
          /\ intr' = [intr EXCEPT ![c] = "none"]
      BY <2>3 DEF Yield
    <3>3. q \in Queues BY <3>1, QueueMoves DEF TypeOK
    <3>4. /\ \A d \in Cpus : proc'[d] \in {proc[d], NIL} /\ proc'[d] # p
          /\ \A d \in Cpus : intr[d] = "yield" => intr'[d] = "yield" \/ proc'[d] = NIL
      BY <3>1, <3>2 DEF TypeOK, CpuInv, OneCpuPerProcess
    <3> HIDE DEF p, q
    <3> QED BY <3>1, <3>2, <3>3, <3>4, PushQueues
  <2> QED BY <1>5, <2>1, <2>2, <2>3 DEF Trap
<1>6. ASSUME NEW c \in Cpus, ExitInit(c) PROVE QueueInv'
  BY <1>6, <1>u DEF ExitInit, table
<1>7. ASSUME NEW c \in Cpus, NEW p \in Procs, KernelPath(c, p) PROVE QueueInv'
  <2>1. CASE \/ TrapRet(c, p) \/ ExitWakeParent(c, p) \/ ExitReparent(c, p)
             \/ WaitFail(c, p) \/ SleepReturn(c, p) \/ SleepAgain(c, p)
    <3>1. UNCHANGED <<state, priority, timepiece, lists, proc, intr>>
      BY <2>1 DEF TrapRet, ExitWakeParent, ExitReparent, WaitFail, SleepReturn,
                  SleepAgain, table
    <3> QED BY <1>u, <3>1
  <2>2. CASE ForkStack(c, p)
    <3>1. np[p] \in Procs /\ state[np[p]] = "EMBRYO"
      BY <2>2 DEF ForkStack, At, ForkInv
    <3>2. /\ priority' = [priority EXCEPT ![np[p]] = TopQueue]
          /\ UNCHANGED <<state, timepiece, lists, proc, intr>>
      BY <2>2 DEF ForkStack
    <3>3. \A r \in Procs : state[r] \in {"RUNNABLE", "RUNNING"} =>
            priority'[r] = priority[r] /\ timepiece'[r] = timepiece[r]
      BY <3>1, <3>2 DEF TypeOK
    <3> QED BY <3>2, <3>3, KeepQueues
  <2>3. CASE ForkFail(c, p)
    <3>1. np[p] \in Procs /\ state[np[p]] = "EMBRYO"
      BY <2>3 DEF ForkFail, At, ForkInv
    <3>2. /\ state' = [state EXCEPT ![np[p]] = "UNUSED"]
          /\ UNCHANGED <<priority, timepiece, lists, proc, intr>>
      BY <2>3 DEF ForkFail
    <3> QED BY <1>s, <3>1, <3>2
  <2>4. CASE ForkDone(c, p)
    <3> DEFINE n == np[p]
               q == priority[n]
    <3>1. n \in Procs /\ state[n] = "EMBRYO" BY <2>4 DEF ForkDone, At, ForkInv
    <3>2. q \in Queues BY <3>1 DEF TypeOK
    <3>3. /\ state' = [state EXCEPT ![n] = "RUNNABLE"] /\ qpush(n, q)
          /\ UNCHANGED <<priority, proc, intr>>
      BY <2>4 DEF ForkDone
    <3>4. priority' = [priority EXCEPT ![n] = q] BY <3>1, <3>3 DEF TypeOK
    <3>5. \A d \in Cpus : proc'[d] \in {proc[d], NIL} /\ proc'[d] # n
      BY <3>1, <3>3 DEF CpuInv, OneCpuPerProcess
    <3> HIDE DEF n, q
    <3> QED BY <3>1, <3>2, <3>3, <3>4, <3>5, PushQueues
  <2>5. CASE ExitZombie(c, p) \/ WaitSleep(c, p) \/ SleepTicks(c, p)
    <3>1. /\ proc[c] = p /\ proc' = [proc EXCEPT ![c] = NIL]
          /\ \E st \in States : state' = [state EXCEPT ![p] = st]
          /\ UNCHANGED <<priority, timepiece, lists, intr>>
      BY <2>5 DEF ExitZombie, WaitSleep, SleepTicks, GoToSleep, At, States
    <3>2. state[p] = "RUNNING" BY <3>1 DEF CpuInv, OneCpuPerProcess
    <3>3. \A d \in Cpus : proc'[d] \in {proc[d], NIL} BY <3>1 DEF TypeOK
    <3> QED BY <1>s, <3>1, <3>2, <3>3
  <2>6. CASE WaitReap(c, p)
    <3>1. PICK n \in Procs : /\ state[n] = "ZOMBIE"
                             /\ state' = [state EXCEPT ![n] = "UNUSED"]
      BY <2>6 DEF WaitReap, ZombieChild
    <3>2. UNCHANGED <<priority, timepiece, lists, proc, intr>>
      BY <2>6 DEF WaitReap
    <3> QED BY <1>s, <3>1, <3>2
  <2> QED BY <1>7, <2>1, <2>2, <2>3, <2>4, <2>5, <2>6 DEF KernelPath
<1>8. ASSUME NEW c \in Cpus, NEW p \in Procs, UserStep(c, p) PROVE QueueInv'
  <2>1. CASE ForkAlloc(c, p)
    <3>1. PICK n \in Procs : /\ state[n] = "UNUSED"
                             /\ state' = [state EXCEPT ![n] = "EMBRYO"]
      BY <2>1 DEF ForkAlloc, FirstUnused
    <3>2. UNCHANGED <<priority, timepiece, lists, proc, intr>>
      BY <2>1 DEF ForkAlloc
    <3> QED BY <1>s, <3>1, <3>2
  <2>2. CASE SleepCall(c, p)
    <3>1. UNCHANGED <<state, priority, timepiece, lists, proc, intr>>
      BY <2>2 DEF SleepCall, table
    <3> QED BY <1>u, <3>1
  <2>3. CASE Kill(c, p)
    <3>1. PICK t \in Procs :
            state' = IF state[t] = "SLEEPING"
                       THEN [state EXCEPT ![t] = "RUNNABLE"] ELSE state
      BY <2>3 DEF Kill
    <3>2. UNCHANGED <<priority, timepiece, lists, proc, intr>> BY <2>3 DEF Kill
    <3>3. CASE state[t] = "SLEEPING" BY <1>s, <3>1, <3>2, <3>3
    <3>4. CASE state[t] # "SLEEPING" BY <1>u, <3>1, <3>2, <3>4
    <3> QED BY <3>3, <3>4
  <2>4. CASE \/ Syscall(c, p) \/ UserFault(c, p) \/ ForkFull(c, p)
             \/ ExitCall(c, p) \/ WaitCall(c, p) \/ SleepNot(c, p)
    <3>1. UNCHANGED <<state, priority, timepiece, lists, proc, intr>>
      BY <2>4 DEF Syscall, UserFault, ForkFull, ExitCall, WaitCall, SleepNot,
                  table
    <3> QED BY <1>u, <3>1
  <2> QED BY <1>8, <2>1, <2>2, <2>3, <2>4 DEF UserStep
<1>9. CASE PanicLoop BY <1>9, <1>1 DEF PanicLoop
<1> QED BY <1>1, <1>2, <1>3, <1>4, <1>5, <1>6, <1>7, <1>8, <1>9 DEF Next

-----------------------------------------------------------------------------
(* Who holds ptable.lock, and what for.                                    *)

\* Every step keeps the index of scheduler()'s scan inside the queues.
LEMMA ScanStep == IInv /\ [Next]_vars => ScanInv'
<1> SUFFICES ASSUME IInv, [Next]_vars PROVE ScanInv'
  OBVIOUS
<1>t. TypeOK /\ CpuInv /\ ScanInv /\ LockInv BY DEF IInv
<1> USE <1>t, ConstFacts
<1>u. ASSUME UNCHANGED <<lock, idx, proc, intr>> PROVE ScanInv'
  BY <1>u DEF ScanInv
\* ptable.lock is free afterwards.
<1>f. ASSUME lock' = NIL PROVE ScanInv'
  BY <1>f DEF ScanInv
<1>1. CASE UNCHANGED vars BY <1>1, <1>u DEF vars, crit
<1>2. ASSUME NEW c \in Cpus, Scheduler(c) PROVE ScanInv'
  <2>1. CASE SchedAcquire(c) BY <2>1 DEF SchedAcquire, ScanInv
  <2>2. CASE SchedNextQueue(c)
    <3>1. idx \in Queues BY <2>2 DEF SchedNextQueue, Scanning, ScanInv
    <3>2. idx' \in Queues BY <2>2, <3>1, ProcConstants DEF SchedNextQueue, Queues
    <3> QED BY <3>2 DEF ScanInv
  <2>3. CASE SchedIdle(c) BY <2>3, <1>f DEF SchedIdle
  <2>4. CASE SchedPop(c) BY <2>4, PopRuns DEF ScanInv
  <2> QED BY <1>2, <2>1, <2>2, <2>3, <2>4 DEF Scheduler
<1>3. ASSUME NEW c \in Cpus, Wakeup1(c) PROVE ScanInv'
  <2>1. lock = c /\ wchan # NIL /\ UNCHANGED <<lock, proc, intr>>
    BY <1>3 DEF Wakeup1, Wakeup1Hit, Wakeup1Skip, Waking
  <2>2. intr[c] = "tick" \/ proc[c] # NIL BY <2>1 DEF LockInv
  <2> QED BY <2>1, <2>2 DEF ScanInv
<1>4. ASSUME NEW c \in Cpus, TimerIrq(c) PROVE ScanInv'
  <2>1. UNCHANGED <<lock, idx, proc>> /\ lock # c BY <1>4 DEF TimerIrq, crit
  <2>2. \A d \in Cpus \ {c} : intr'[d] = intr[d] BY <1>4 DEF TimerIrq, TypeOK
  <2> QED BY <2>1, <2>2 DEF ScanInv
<1>5. ASSUME NEW c \in Cpus, Trap(c) PROVE ScanInv'
  <2>1. CASE TickWakeup(c) BY <2>1 DEF TickWakeup, ScanInv
  <2>2. CASE TickDone(c) BY <2>2, <1>f DEF TickDone
  <2>3. CASE TrapIdle(c) \/ TrapKilled(c) \/ TrapTimepiece(c) \/ Yield(c)
    <3>1. intr[c] \in {"post", "yield"} /\ UNCHANGED <<lock, idx>>
      BY <2>3 DEF TrapIdle, TrapKilled, TrapTimepiece, Yield, crit
    <3>2. lock # c BY <3>1 DEF LockInv
    <3>3. \A d \in Cpus \ {c} : intr'[d] = intr[d] /\ proc'[d] = proc[d]
      BY <2>3 DEF TrapIdle, TrapKilled, TrapTimepiece, Yield, TypeOK
    <3> QED BY <3>1, <3>2, <3>3 DEF ScanInv
  <2> QED BY <1>5, <2>1, <2>2, <2>3 DEF Trap
<1>6. ASSUME NEW c \in Cpus, ExitInit(c) PROVE ScanInv'
  BY <1>6, <1>u DEF ExitInit, crit
<1>7. ASSUME NEW c \in Cpus, NEW p \in Procs, KernelPath(c, p) PROVE ScanInv'
  <2>1. CASE \/ TrapRet(c, p) \/ ForkStack(c, p) \/ ForkFail(c, p)
             \/ ForkDone(c, p) \/ SleepReturn(c, p) \/ SleepAgain(c, p)
    <3>1. UNCHANGED <<lock, idx, proc, intr>>
      BY <2>1 DEF TrapRet, ForkStack, ForkFail, ForkDone, SleepReturn,
                  SleepAgain, crit
    <3> QED BY <1>u, <3>1
  <2>2. CASE ExitWakeParent(c, p) \/ ExitReparent(c, p)
    <3>1. lock' = c /\ proc[c] = p /\ UNCHANGED <<proc, intr>>
      BY <2>2 DEF ExitWakeParent, ExitReparent, Woken, At
    <3> QED BY <3>1 DEF ScanInv
  <2>3. CASE \/ ExitZombie(c, p) \/ WaitReap(c, p) \/ WaitFail(c, p)
             \/ WaitSleep(c, p) \/ SleepTicks(c, p)
    <3>1. lock' = NIL
      BY <2>3 DEF ExitZombie, WaitReap, WaitFail, WaitSleep, SleepTicks, crit
    <3> QED BY <1>f, <3>1
  <2> QED BY <1>7, <2>1, <2>2, <2>3 DEF KernelPath
<1>8. ASSUME NEW c \in Cpus, NEW p \in Procs, UserStep(c, p) PROVE ScanInv'
  <2>1. CASE WaitCall(c, p)
    BY <2>1 DEF WaitCall, At, ScanInv
  <2>2. CASE SleepCall(c, p)
    <3>1. UNCHANGED <<lock, idx, proc, intr>> BY <2>2 DEF SleepCall, crit
    <3> QED BY <1>u, <3>1
  <2>3. CASE \/ Syscall(c, p) \/ UserFault(c, p) \/ ForkAlloc(c, p)
             \/ ForkFull(c, p) \/ ExitCall(c, p) \/ SleepNot(c, p) \/ Kill(c, p)
    <3>1. UNCHANGED <<lock, idx, proc, intr>>
      BY <2>3 DEF Syscall, UserFault, ForkAlloc, ForkFull, ExitCall, SleepNot,
                  Kill, crit
    <3> QED BY <1>u, <3>1
  <2> QED BY <1>8, <2>1, <2>2, <2>3 DEF UserStep
<1>9. CASE PanicLoop BY <1>9, <1>1 DEF PanicLoop
<1> QED BY <1>1, <1>2, <1>3, <1>4, <1>5, <1>6, <1>7, <1>8, <1>9 DEF Next

\* Every step keeps ptable.lock and the wakeup1() in progress matched.
LEMMA LockStep == IInv /\ [Next]_vars => LockInv'
<1> SUFFICES ASSUME IInv, [Next]_vars PROVE LockInv'
  OBVIOUS
<1>t. TypeOK /\ CpuInv /\ ForkInv /\ LockInv BY DEF IInv
<1> USE <1>t, ConstFacts
<1>u. ASSUME UNCHANGED <<lock, wchan, proc, intr, pc>> PROVE LockInv'
  BY <1>u DEF LockInv
\* ptable.lock is free afterwards, and no wakeup1() is in progress.
<1>f. ASSUME lock' = NIL, wchan' = NIL PROVE LockInv'
  BY <1>f DEF LockInv
\* A running process that is not in exit() moves on; the lock is left alone.
<1>m. ASSUME NEW p \in Procs, NEW l, pc[p] \notin {"exit1", "exit2"},
             pc' = [pc EXCEPT ![p] = l], UNCHANGED <<lock, wchan, proc, intr>>
      PROVE  LockInv'
  BY <1>m DEF LockInv, TypeOK
<1>1. CASE UNCHANGED vars BY <1>1, <1>u DEF vars, crit, thread
<1>2. ASSUME NEW c \in Cpus, Scheduler(c) PROVE LockInv'
  <2>1. CASE SchedAcquire(c) BY <2>1 DEF SchedAcquire, LockInv
  <2>2. CASE SchedNextQueue(c) BY <2>2, <1>u DEF SchedNextQueue, thread
  <2>3. ASSUME Scanning(c) PROVE wchan = NIL BY <2>3 DEF Scanning, LockInv
  <2>4. CASE SchedIdle(c) BY <1>f, <2>3, <2>4 DEF SchedIdle
  <2>5. CASE SchedPop(c)
    <3>1. wchan' = NIL BY <2>3, <2>5 DEF SchedPop
    <3>2. lock = c /\ lock' \in {NIL, c} /\ intr' = intr
      BY <2>5, PopRuns DEF SchedPop, Scanning
    <3> QED BY <3>1, <3>2 DEF LockInv
  <2> QED BY <1>2, <2>1, <2>2, <2>4, <2>5 DEF Scheduler
<1>3. ASSUME NEW c \in Cpus, Wakeup1(c) PROVE LockInv'
  <2>1. UNCHANGED <<lock, wchan, proc, intr, pc>>
    BY <1>3 DEF Wakeup1, Wakeup1Hit, Wakeup1Skip, thread
  <2> QED BY <1>u, <2>1
<1>4. ASSUME NEW c \in Cpus, TimerIrq(c) PROVE LockInv'
  <2>1. UNCHANGED <<lock, wchan, proc, pc>> /\ lock # c
    BY <1>4 DEF TimerIrq, crit
  <2>2. \A d \in Cpus \ {c} : intr'[d] = intr[d] BY <1>4 DEF TimerIrq, TypeOK
  <2> QED BY <2>1, <2>2 DEF LockInv
<1>5. ASSUME NEW c \in Cpus, Trap(c) PROVE LockInv'
  <2>1. CASE TickWakeup(c) BY <2>1 DEF TickWakeup, LockInv
  <2>2. CASE TickDone(c) BY <2>2, <1>f DEF TickDone
  <2>3. CASE TrapIdle(c) \/ TrapKilled(c) \/ TrapTimepiece(c) \/ Yield(c)
    <3>1. intr[c] \in {"post", "yield"} /\ UNCHANGED <<lock, wchan>>
      BY <2>3 DEF TrapIdle, TrapKilled, TrapTimepiece, Yield, crit
    <3>2. lock # c BY <3>1 DEF LockInv
    <3>3. \A d \in Cpus \ {c} : intr'[d] = intr[d] /\ proc'[d] = proc[d]
      BY <2>3 DEF TrapIdle, TrapKilled, TrapTimepiece, Yield, TypeOK
    <3>4. \A d \in Cpus \ {c} : proc[d] # NIL => pc'[proc[d]] = pc[proc[d]]
      <4>1. CASE TrapIdle(c) \/ Yield(c)
        BY <4>1 DEF TrapIdle, Yield, thread
      <4>2. CASE TrapKilled(c) \/ TrapTimepiece(c)
        <5>1. /\ proc[c] # NIL
              /\ \A r \in Procs \ {proc[c]} : pc'[r] = pc[r]
          BY <4>2 DEF TrapKilled, TrapTimepiece, TypeOK
        <5>2. ASSUME NEW d \in Cpus \ {c}, proc[d] # NIL
              PROVE  proc[d] \in Procs \ {proc[c]}
          BY <5>1, <5>2 DEF CpuInv, OneCpuPerProcess, TypeOK
        <5> QED BY <5>1, <5>2
      <4> QED BY <2>3, <4>1, <4>2
    <3> QED BY <3>1, <3>2, <3>3, <3>4 DEF LockInv
  <2> QED BY <1>5, <2>1, <2>2, <2>3 DEF Trap
<1>6. ASSUME NEW c \in Cpus, ExitInit(c) PROVE LockInv'
  BY <1>6, <1>u DEF ExitInit, crit, thread
<1>7. ASSUME NEW c \in Cpus, NEW p \in Procs, KernelPath(c, p) PROVE LockInv'
  <2>w. ASSUME lock = c, proc[c] = p, intr[c] = "none", pc[p] = "wait"
        PROVE  wchan = NIL
    BY <2>w DEF LockInv
  <2>1. CASE \/ TrapRet(c, p) \/ ForkStack(c, p) \/ ForkFail(c, p)
             \/ SleepReturn(c, p) \/ SleepAgain(c, p)
    <3>1. /\ pc[p] \notin {"exit1", "exit2"}
          /\ \E l \in Locations : pc' = [pc EXCEPT ![p] = l]
          /\ UNCHANGED <<lock, wchan, proc, intr>>
      BY <2>1 DEF TrapRet, ForkStack, ForkFail, SleepReturn, SleepAgain, At,
                  SysRet, Locations, crit
    <3> QED BY <1>m, <3>1
  <2>2. CASE ForkDone(c, p)
    <3>1. /\ lock = NIL /\ UNCHANGED <<lock, wchan>>
      BY <2>2 DEF ForkDone, crit
    <3> QED BY <1>f, <3>1 DEF LockInv
  <2>3. CASE ExitWakeParent(c, p) \/ ExitReparent(c, p)
    <3>1. /\ lock' = c /\ proc[c] = p /\ intr[c] = "none"
          /\ pc'[p] \in {"exit1", "exit2"}
          /\ UNCHANGED <<proc, intr>>
      BY <2>3 DEF ExitWakeParent, ExitReparent, Woken, At, TypeOK
    <3> QED BY <3>1 DEF LockInv
  <2>4. CASE ExitZombie(c, p) BY <1>f, <2>4 DEF ExitZombie
  <2>5. CASE WaitReap(c, p) \/ WaitFail(c, p) \/ WaitSleep(c, p)
    <3>1. /\ lock = c /\ proc[c] = p /\ intr[c] = "none" /\ pc[p] = "wait"
          /\ lock' = NIL /\ wchan' = wchan
      BY <2>5 DEF WaitReap, WaitFail, WaitSleep, At
    <3> QED BY <1>f, <2>w, <3>1
  <2>6. CASE SleepTicks(c, p)
    <3>1. lock = NIL /\ UNCHANGED <<lock, wchan>>
      BY <2>6 DEF SleepTicks, crit
    <3> QED BY <1>f, <3>1 DEF LockInv
  <2> QED BY <1>7, <2>1, <2>2, <2>3, <2>4, <2>5, <2>6 DEF KernelPath
<1>8. ASSUME NEW c \in Cpus, NEW p \in Procs, UserStep(c, p) PROVE LockInv'
  <2>1. CASE WaitCall(c, p)
    <3>1. /\ lock = NIL /\ lock' = c /\ wchan' = wchan /\ intr[c] = "none"
          /\ intr' = intr
      BY <2>1 DEF WaitCall, At
    <3> QED BY <3>1 DEF LockInv
  <2>2. CASE SleepCall(c, p)
    <3>1. /\ pc[p] \notin {"exit1", "exit2"}
          /\ \E l \in Locations : pc' = [pc EXCEPT ![p] = l]
          /\ UNCHANGED <<lock, wchan, proc, intr>>
      BY <2>2 DEF SleepCall, At, Locations, crit
    <3> QED BY <1>m, <3>1
  <2>3. CASE \/ Syscall(c, p) \/ UserFault(c, p) \/ ForkAlloc(c, p)
             \/ ForkFull(c, p) \/ ExitCall(c, p) \/ SleepNot(c, p) \/ Kill(c, p)
    <3>1. /\ pc[p] \notin {"exit1", "exit2"}
          /\ \E l \in Locations : pc' = [pc EXCEPT ![p] = l]
          /\ UNCHANGED <<lock, wchan, proc, intr>>
      BY <2>3 DEF Syscall, UserFault, ForkAlloc, ForkFull, ExitCall, SleepNot,
                  Kill, At, SysRet, Locations, crit
    <3> QED BY <1>m, <3>1
  <2> QED BY <1>8, <2>1, <2>2, <2>3 DEF UserStep
<1>9. CASE PanicLoop BY <1>9, <1>1 DEF PanicLoop
<1> QED BY <1>1, <1>2, <1>3, <1>4, <1>5, <1>6, <1>7, <1>8, <1>9 DEF Next

-----------------------------------------------------------------------------
(* The theorems.                                                           *)

\* The state left by main() satisfies the inductive invariant.
LEMMA InvInit == Init => IInv
<1> SUFFICES ASSUME Init PROVE IInv
  OBVIOUS
<1> USE ConstFacts
<1>1. TypeOK BY TypeInit
<1>2. CpuInv BY DEF Init, CpuInv, OneCpuPerProcess
<1>3. ForkInv BY DEF Init, ForkInv
<1>4. ScanInv BY DEF Init, ScanInv
<1>5. LockInv BY DEF Init, LockInv
<1>6. \A q \in Queues : \/ q = TopQueue /\ order[q] = <<InitProc>> /\ count[q] = 1
                        \/ q # TopQueue /\ order[q] = << >> /\ count[q] = 0
  BY DEF Init
<1>7. ListsAreFifo
  BY <1>6 DEF Init, ListsAreFifo
<1>8. QueueEntries
  BY <1>6 DEF Init, QueueEntries
<1>9. SliceNeverWraps
  BY <1>6 DEF Init, SliceNeverWraps, Queued
<1> QED BY <1>1, <1>2, <1>3, <1>4, <1>5, <1>7, <1>8, <1>9 DEF IInv

\* Every step preserves the inductive invariant.
LEMMA InvStep == IInv /\ [Next]_vars => IInv'
BY TypeStep, CpuStep, ForkStep, ScanStep, LockStep, QueueStep DEF IInv, QueueInv

(***************************************************************************)
(* The inductive invariant holds in every reachable state of the process   *)
(* table and scheduler.                                                    *)
(***************************************************************************)
THEOREM Invariance == Spec => []IInv
BY InvInit, InvStep, PTL DEF Spec

\* Type correctness of the process table, the queues and the CPUs.
THEOREM TypeCorrect == Spec => []TypeOK
BY Invariance, PTL DEF IInv

(***************************************************************************)
(* The circular lists of qpush() and scheduler() are FIFO queues of        *)
(* distinct RUNNABLE processes at their priority, whatever the numbers of  *)
(* slots, queues and CPUs: nothing is lost or queued twice.                *)
(***************************************************************************)
THEOREM RunQueuesAreFifo == Spec => []RunQueues
<1>1. IInv => RunQueues BY DEF IInv, RunQueues
<1> QED BY <1>1, Invariance, PTL

\* No two CPUs ever run the same process, and RUNNING means on a CPU.
THEOREM OneCpu == Spec => []OneCpuPerProcess
BY Invariance, PTL DEF IInv, CpuInv

(***************************************************************************)
(* The unsigned --timepiece of trap() never wraps around, so a process     *)
(* that uses up its slice always yields.                                   *)
(***************************************************************************)
THEOREM SliceSafe == Spec => []SliceNeverWraps
BY Invariance, PTL DEF IInv

-----------------------------------------------------------------------------
(* Families: sleepers, parents and children.                               *)

\* p is asleep in the loop of wait().
Waiting(p) == state[p] = "SLEEPING" /\ pc[p] = "wait"

(***************************************************************************)
(* Only sys_sleep() and wait() sleep, each on its own channel, so that the *)
(* wakeup1() meant for a sleeper does find it.                             *)
(***************************************************************************)
AsleepInv ==
  \A p \in Procs : state[p] = "SLEEPING" =>
    \/ pc[p] = "sleep" /\ chan[p] = Ticks
    \/ pc[p] = "wait" /\ chan[p] = p

(***************************************************************************)
(* NoOrphans, with what it takes to keep it: init lives for ever, nobody   *)
(* is its own parent, and a process about to become a ZOMBIE has handed    *)
(* its children to init.                                                   *)
(***************************************************************************)
FamilyInv ==
  /\ NoOrphans
  /\ state[InitProc] \notin {"UNUSED", "EMBRYO", "ZOMBIE"}
  /\ \A p \in Procs : parent[p] # p
  /\ \A p \in Procs : pc[p] \in {"exit1", "exit2"} => p # InitProc
  /\ \A p, n \in Procs : pc[p] = "exit2" => parent[n] # p

\* The states of a process that has started and not yet exited.
Live == {"SLEEPING", "RUNNABLE", "RUNNING"}

(***************************************************************************)
(* Every step keeps each sleeper on the channel it will be woken through.  *)
(***************************************************************************)
LEMMA AsleepStep == IInv /\ AsleepInv /\ [Next]_vars => AsleepInv'
<1> SUFFICES ASSUME IInv, AsleepInv, [Next]_vars PROVE AsleepInv'
  OBVIOUS
<1>t. TypeOK /\ CpuInv /\ ForkInv BY DEF IInv
<1> USE <1>t, ConstFacts
\* No process falls asleep, and those that stay asleep do not move.
<1>k. ASSUME \A r \in Procs : state'[r] = "SLEEPING" =>
               state[r] = "SLEEPING" /\ pc'[r] = pc[r] /\ chan'[r] = chan[r]
      PROVE  AsleepInv'
  BY <1>k DEF AsleepInv
\* A process that runs moves on.
<1>m. ASSUME NEW c \in Cpus, NEW p \in Procs, proc[c] = p, NEW l,
             pc' = [pc EXCEPT ![p] = l], UNCHANGED <<state, chan>>
      PROVE  AsleepInv'
  <2>1. state[p] = "RUNNING" BY <1>m DEF CpuInv, OneCpuPerProcess
  <2> QED BY <1>m, <2>1, <1>k DEF TypeOK
<1>1. CASE UNCHANGED vars BY <1>1, <1>k DEF vars, table, thread
<1>2. ASSUME NEW c \in Cpus, Scheduler(c) PROVE AsleepInv'
  <2>1. CASE SchedPop(c)
    <3>1. /\ head[idx] \in Procs /\ state[head[idx]] = "RUNNABLE"
          /\ state' = [state EXCEPT ![head[idx]] = "RUNNING"]
          /\ chan' = [chan EXCEPT ![head[idx]] = NIL]
          /\ pc' = pc
      BY <2>1, QueueHead, PopRuns DEF SchedPop, thread
    <3> QED BY <1>k, <3>1 DEF TypeOK
  <2>2. CASE SchedAcquire(c) \/ SchedNextQueue(c) \/ SchedIdle(c)
    BY <2>2, <1>k DEF SchedAcquire, SchedNextQueue, SchedIdle, table, thread
  <2> QED BY <1>2, <2>1, <2>2 DEF Scheduler
<1>3. ASSUME NEW c \in Cpus, Wakeup1(c) PROVE AsleepInv'
  <2>1. CASE Wakeup1Hit(c)
    <3>1. /\ idx \in Procs /\ state' = [state EXCEPT ![idx] = "RUNNABLE"]
          /\ UNCHANGED <<chan, pc>>
      BY <2>1 DEF Wakeup1Hit, Waking, thread
    <3> QED BY <1>k, <3>1 DEF TypeOK
  <2> QED BY <1>3, <1>k, <2>1 DEF Wakeup1, Wakeup1Skip, table, thread
<1>4. ASSUME NEW c \in Cpus, TimerIrq(c) PROVE AsleepInv'
  BY <1>4, <1>k DEF TimerIrq, table
<1>5. ASSUME NEW c \in Cpus, Trap(c) PROVE AsleepInv'
  <2>1. CASE TickWakeup(c) \/ TickDone(c) \/ TrapIdle(c)
    BY <2>1, <1>k DEF TickWakeup, TickDone, TrapIdle, table, thread
  <2>2. CASE TrapKilled(c) \/ TrapTimepiece(c)
    <3>1. proc[c] \in Procs /\ UNCHANGED <<state, chan>>
      BY <2>2 DEF TrapKilled, TrapTimepiece, table, TypeOK
    <3>2. \E l : pc' = [pc EXCEPT ![proc[c]] = l]
      BY <2>2 DEF TrapKilled, TrapTimepiece
    <3> QED BY <1>m, <3>1, <3>2
  <2>3. CASE Yield(c)
    <3>1. /\ proc[c] \in Procs /\ UNCHANGED <<pc, chan>>
          /\ state' = [state EXCEPT ![proc[c]] = "RUNNABLE"]
      BY <2>3 DEF Yield, thread, CpuInv, TypeOK
    <3> QED BY <1>k, <3>1 DEF TypeOK
  <2> QED BY <1>5, <2>1, <2>2, <2>3 DEF Trap
<1>6. ASSUME NEW c \in Cpus, ExitInit(c) PROVE AsleepInv'
  BY <1>6, <1>k DEF ExitInit, table, thread
\* sleep() puts the running process to sleep on the channel of its location.
<1>s. ASSUME NEW c \in Cpus, NEW p \in Procs, NEW ch, GoToSleep(c, p, ch),
             \A r \in Procs \ {p} : pc'[r] = pc[r],
             \/ pc'[p] = "sleep" /\ ch = Ticks
             \/ pc'[p] = "wait" /\ ch = p
      PROVE  AsleepInv'
  BY <1>s DEF GoToSleep, AsleepInv, TypeOK
<1>7. ASSUME NEW c \in Cpus, NEW p \in Procs, KernelPath(c, p) PROVE AsleepInv'
  <2>1. CASE \/ TrapRet(c, p) \/ ForkStack(c, p) \/ ExitWakeParent(c, p)
             \/ ExitReparent(c, p) \/ WaitFail(c, p) \/ SleepReturn(c, p)
             \/ SleepAgain(c, p)
    <3>1. proc[c] = p /\ UNCHANGED <<state, chan>>
      BY <2>1 DEF TrapRet, ForkStack, ExitWakeParent, ExitReparent, WaitFail,
                  SleepReturn, SleepAgain, At, table
    <3>2. \E l : pc' = [pc EXCEPT ![p] = l]
      BY <2>1 DEF TrapRet, ForkStack, ExitWakeParent, ExitReparent, WaitFail,
                  SleepReturn, SleepAgain
    <3> QED BY <1>m, <3>1, <3>2
  <2>2. CASE ForkFail(c, p) \/ ForkDone(c, p)
    <3>1. /\ np[p] \in Procs /\ state[np[p]] = "EMBRYO" /\ proc[c] = p
          /\ chan' = chan
      BY <2>2 DEF ForkFail, ForkDone, At, ForkInv
    <3>2. state[p] = "RUNNING" BY <3>1 DEF CpuInv, OneCpuPerProcess
    <3>3. /\ \A r \in Procs \ {np[p]} : state'[r] = state[r]
          /\ state'[np[p]] # "SLEEPING"
      BY <2>2, <3>1 DEF ForkFail, ForkDone, TypeOK
    <3>4. \A r \in Procs \ {p, np[p]} : pc'[r] = pc[r]
      BY <2>2, <3>1 DEF ForkFail, ForkDone, TypeOK
    <3> QED BY <1>k, <3>1, <3>2, <3>3, <3>4
  <2>3. CASE ExitZombie(c, p)
    <3>1. /\ state' = [state EXCEPT ![p] = "ZOMBIE"] /\ chan' = chan
          /\ pc' = [pc EXCEPT ![p] = "user"]
      BY <2>3 DEF ExitZombie
    <3> QED BY <1>k, <3>1 DEF TypeOK
  <2>4. CASE WaitReap(c, p)
    <3>1. PICK n \in Procs : state' = [state EXCEPT ![n] = "UNUSED"]
      BY <2>4 DEF WaitReap
    <3>2. /\ proc[c] = p /\ chan' = chan /\ pc' = [pc EXCEPT ![p] = SysRet(p)]
      BY <2>4 DEF WaitReap, At
    <3>3. state[p] = "RUNNING" BY <3>2 DEF CpuInv, OneCpuPerProcess
    <3> QED BY <1>k, <3>1, <3>2, <3>3 DEF TypeOK
  <2>5. CASE WaitSleep(c, p)
    BY <2>5, <1>s DEF WaitSleep, At, thread
  <2>6. CASE SleepTicks(c, p)
    <3>1. GoToSleep(c, p, Ticks) /\ pc' = [pc EXCEPT ![p] = "sleep"]
      BY <2>6 DEF SleepTicks
    <3> QED BY <1>s, <3>1 DEF TypeOK
  <2> QED BY <1>7, <2>1, <2>2, <2>3, <2>4, <2>5, <2>6 DEF KernelPath
<1>8. ASSUME NEW c \in Cpus, NEW p \in Procs, UserStep(c, p) PROVE AsleepInv'
  <2>1. CASE \/ Syscall(c, p) \/ UserFault(c, p) \/ ForkFull(c, p)
             \/ ExitCall(c, p) \/ WaitCall(c, p) \/ SleepNot(c, p)
    <3>1. proc[c] = p /\ UNCHANGED <<state, chan>>
      BY <2>1 DEF Syscall, UserFault, ForkFull, ExitCall, WaitCall, SleepNot,
                  At, table
    <3>2. \E l : pc' = [pc EXCEPT ![p] = l]
      BY <2>1 DEF Syscall, UserFault, ForkFull, ExitCall, WaitCall, SleepNot
    <3> QED BY <1>m, <3>1, <3>2
  <2>2. CASE ForkAlloc(c, p)
    <3>1. PICK n \in Procs : state' = [state EXCEPT ![n] = "EMBRYO"]
      BY <2>2 DEF ForkAlloc
    <3>2. /\ proc[c] = p /\ chan' = chan /\ pc' = [pc EXCEPT ![p] = "alloc"]
      BY <2>2 DEF ForkAlloc, At
    <3>3. state[p] = "RUNNING" BY <3>2 DEF CpuInv, OneCpuPerProcess
    <3> QED BY <1>k, <3>1, <3>2, <3>3 DEF TypeOK
  <2>3. CASE SleepCall(c, p)
    <3>1. /\ proc[c] = p /\ UNCHANGED <<state, chan>>
          /\ pc' = [pc EXCEPT ![p] = "doze"]
      BY <2>3 DEF SleepCall, At, table
    <3> QED BY <1>m, <3>1
  <2>4. CASE Kill(c, p)
    <3>1. PICK t \in Procs :
            state' = IF state[t] = "SLEEPING"
                       THEN [state EXCEPT ![t] = "RUNNABLE"] ELSE state
      BY <2>4 DEF Kill
    <3>2. /\ proc[c] = p /\ chan' = chan
          /\ \A r \in Procs \ {p} : pc'[r] = pc[r]
      BY <2>4 DEF Kill, At, TypeOK
    <3>3. state[p] = "RUNNING" BY <3>2 DEF CpuInv, OneCpuPerProcess
    <3>4. \A r \in Procs : state'[r] = "SLEEPING" => state[r] = "SLEEPING"
      BY <3>1 DEF TypeOK
    <3> QED BY <1>k, <3>2, <3>3, <3>4
  <2> QED BY <1>8, <2>1, <2>2, <2>3, <2>4 DEF UserStep
<1>9. CASE PanicLoop BY <1>9, <1>1 DEF PanicLoop
<1> QED BY <1>1, <1>2, <1>3, <1>4, <1>5, <1>6, <1>7, <1>8, <1>9 DEF Next

(***************************************************************************)
(* Every step keeps the family tree: fork() hangs a child under a live     *)
(* parent, exit() empties a process of children before it dies, and wait() *)
(* frees a slot nobody is the child of.                                    *)
(***************************************************************************)
LEMMA FamilyStep == IInv /\ FamilyInv /\ [Next]_vars => FamilyInv'
<1> SUFFICES ASSUME IInv, FamilyInv, [Next]_vars PROVE FamilyInv'
  OBVIOUS
<1>t. TypeOK /\ CpuInv /\ ForkInv BY DEF IInv
<1> USE <1>t, ConstFacts
\* Nobody is born, dies, is reaped or enters the end of exit().
<1>k. ASSUME parent' = parent,
             \A r \in Procs : \/ state'[r] = state[r]
                              \/ state[r] \in Live /\ state'[r] \in Live
                              \/ /\ state[r] \in {"UNUSED", "EMBRYO"}
                                 /\ state'[r] \in {"UNUSED", "EMBRYO"},
             \A r \in Procs : pc'[r] \in {"exit1", "exit2"} => pc'[r] = pc[r]
      PROVE  FamilyInv'
  <2>1. \A r \in Procs : /\ state'[r] \in {"UNUSED", "EMBRYO"}
                               <=> state[r] \in {"UNUSED", "EMBRYO"}
                         /\ state'[r] = "ZOMBIE" <=> state[r] = "ZOMBIE"
    BY <1>k DEF Live
  <2>2. \A r \in Procs : parent[r] \in Procs \cup {NIL} BY DEF TypeOK
  <2>3. NoOrphans' BY <1>k, <2>1, <2>2 DEF FamilyInv, NoOrphans
  <2> QED BY <1>k, <2>1, <2>3 DEF FamilyInv
\* A process moves to a location before the end of exit().
<1>m. ASSUME NEW p \in Procs, NEW l, l \notin {"exit1", "exit2"},
             pc' = [pc EXCEPT ![p] = l], UNCHANGED <<state, parent>>
      PROVE  FamilyInv'
  <2>1. \A r \in Procs : pc'[r] \in {"exit1", "exit2"} => pc'[r] = pc[r]
    BY <1>m DEF TypeOK
  <2> QED BY <1>m, <2>1, <1>k
\* A live process changes state and stays alive.
<1>s. ASSUME NEW n \in Procs, NEW st \in Live, state[n] \in Live,
             state' = [state EXCEPT ![n] = st], parent' = parent,
             \A r \in Procs : pc'[r] \in {"exit1", "exit2"} => pc'[r] = pc[r]
      PROVE  FamilyInv'
  BY <1>s, <1>k DEF TypeOK
<1>1. CASE UNCHANGED vars BY <1>1, <1>k DEF vars, table, thread
<1>2. ASSUME NEW c \in Cpus, Scheduler(c) PROVE FamilyInv'
  <2>1. CASE SchedPop(c)
    <3>1. /\ head[idx] \in Procs /\ state[head[idx]] = "RUNNABLE"
          /\ state' = [state EXCEPT ![head[idx]] = "RUNNING"]
          /\ UNCHANGED <<pc, parent>>
      BY <2>1, QueueHead, PopRuns DEF SchedPop, thread
    <3> QED BY <1>s, <3>1 DEF Live
  <2>2. CASE SchedAcquire(c) \/ SchedNextQueue(c) \/ SchedIdle(c)
    BY <2>2, <1>k DEF SchedAcquire, SchedNextQueue, SchedIdle, table, thread
  <2> QED BY <1>2, <2>1, <2>2 DEF Scheduler
<1>3. ASSUME NEW c \in Cpus, Wakeup1(c) PROVE FamilyInv'
  <2>1. CASE Wakeup1Hit(c)
    <3>1. /\ idx \in Procs /\ state[idx] = "SLEEPING"
          /\ state' = [state EXCEPT ![idx] = "RUNNABLE"]
          /\ UNCHANGED <<parent, pc>>
      BY <2>1 DEF Wakeup1Hit, Waking, Asleep, thread
    <3> QED BY <1>s, <3>1 DEF Live
  <2> QED BY <1>3, <1>k, <2>1 DEF Wakeup1, Wakeup1Skip, table, thread
<1>4. ASSUME NEW c \in Cpus, TimerIrq(c) PROVE FamilyInv'
  BY <1>4, <1>k DEF TimerIrq, table
<1>5. ASSUME NEW c \in Cpus, Trap(c) PROVE FamilyInv'
  <2>1. CASE TickWakeup(c) \/ TickDone(c) \/ TrapIdle(c)
    BY <2>1, <1>k DEF TickWakeup, TickDone, TrapIdle, table, thread
  <2>2. CASE TrapKilled(c) \/ TrapTimepiece(c)
    <3>1. proc[c] \in Procs /\ UNCHANGED <<state, parent>>
      BY <2>2 DEF TrapKilled, TrapTimepiece, table, TypeOK
    <3>2. \A r \in Procs : pc'[r] \in {"exit1", "exit2"} => pc'[r] = pc[r]
      BY <2>2, <3>1 DEF TrapKilled, TrapTimepiece, TypeOK
    <3> QED BY <1>k, <3>1, <3>2
  <2>3. CASE Yield(c)
    <3>1. /\ proc[c] \in Procs /\ UNCHANGED <<pc, parent>>
          /\ state' = [state EXCEPT ![proc[c]] = "RUNNABLE"]
      BY <2>3 DEF Yield, thread, CpuInv, TypeOK
    <3>2. state[proc[c]] = "RUNNING" BY <3>1 DEF CpuInv, OneCpuPerProcess
    <3> QED BY <1>s, <3>1, <3>2 DEF Live
  <2> QED BY <1>5, <2>1, <2>2, <2>3 DEF Trap
<1>6. ASSUME NEW c \in Cpus, ExitInit(c) PROVE FamilyInv'
  BY <1>6, <1>k DEF ExitInit, table, thread
<1>7. ASSUME NEW c \in Cpus, NEW p \in Procs, KernelPath(c, p) PROVE FamilyInv'
  <2>r. SysRet(p) \notin {"exit1", "exit2"} BY DEF SysRet
  <2>a. ASSUME proc[c] = p PROVE state[p] = "RUNNING"
    BY <2>a DEF CpuInv, OneCpuPerProcess
  <2>1. CASE TrapRet(c, p) \/ WaitFail(c, p) \/ SleepReturn(c, p)
    <3>1. pc' = [pc EXCEPT ![p] = SysRet(p)] /\ UNCHANGED <<state, parent>>
      BY <2>1 DEF TrapRet, WaitFail, SleepReturn, table
    <3> QED BY <1>m, <2>r, <3>1
  <2>2. CASE ForkStack(c, p) \/ SleepAgain(c, p)
    <3>1. /\ \E l \in {"fork", "doze"} : pc' = [pc EXCEPT ![p] = l]
          /\ UNCHANGED <<state, parent>>
      BY <2>2 DEF ForkStack, SleepAgain, table
    <3> QED BY <1>m, <3>1
  <2>3. CASE ForkFail(c, p)
    <3>1. /\ np[p] \in Procs /\ state[np[p]] = "EMBRYO"
          /\ state' = [state EXCEPT ![np[p]] = "UNUSED"]
          /\ pc' = [pc EXCEPT ![p] = SysRet(p)] /\ parent' = parent
      BY <2>3 DEF ForkFail, At, ForkInv
    <3> QED BY <1>k, <2>r, <3>1 DEF TypeOK
  <2>4. CASE ForkDone(c, p)
    <3>1. PICK n \in Procs : n = np[p] /\ state[n] = "EMBRYO"
      BY <2>4 DEF ForkDone, At, ForkInv
    <3>2. /\ state' = [state EXCEPT ![n] = "RUNNABLE"]
          /\ parent' = [parent EXCEPT ![n] = p]
          /\ pc' = [pc EXCEPT ![n] = "user", ![p] = SysRet(p)]
          /\ proc[c] = p /\ pc[p] = "fork"
      BY <2>4, <3>1 DEF ForkDone, At
    <3>3. state[p] = "RUNNING" /\ p # n BY <2>a, <3>1, <3>2
    <3>4. n # InitProc BY <3>1 DEF FamilyInv
    <3>5. \A r \in Procs : parent[r] # n BY <3>1, <3>4 DEF FamilyInv, NoOrphans
    <3>6. NoOrphans'
      BY <3>1, <3>2, <3>3, <3>4, <3>5 DEF FamilyInv, NoOrphans, TypeOK
    <3>7. \A r \in Procs : pc'[r] \in {"exit1", "exit2"} =>
                             pc'[r] = pc[r] /\ r # p
      BY <2>r, <3>2, <3>3 DEF TypeOK
    <3>8. /\ state'[InitProc] = state[InitProc]
          /\ \A r \in Procs \ {n} : parent'[r] = parent[r]
          /\ parent'[n] = p
      BY <3>2, <3>4 DEF TypeOK
    <3> QED BY <3>3, <3>6, <3>7, <3>8 DEF FamilyInv
  <2>5. CASE ExitWakeParent(c, p)
    <3>1. /\ p # InitProc /\ pc' = [pc EXCEPT ![p] = "exit1"]
          /\ UNCHANGED <<state, parent>>
      BY <2>5 DEF ExitWakeParent, table
    <3> QED BY <3>1 DEF FamilyInv, NoOrphans, TypeOK
  <2>6. CASE ExitReparent(c, p)
    <3>1. /\ pc[p] = "exit1" /\ pc' = [pc EXCEPT ![p] = "exit2"]
          /\ \A n \in Procs :
               parent'[n] = IF parent[n] = p THEN InitProc ELSE parent[n]
          /\ state' = state
      BY <2>6 DEF ExitReparent, At
    <3>2. p # InitProc BY <3>1 DEF FamilyInv
    <3>3. NoOrphans' BY <3>1, <3>2 DEF FamilyInv, NoOrphans, TypeOK
    <3>4. parent[InitProc] = NIL BY DEF FamilyInv, NoOrphans
    <3>5. \A n \in Procs : parent'[n] # n
      BY <3>1, <3>2, <3>4 DEF FamilyInv
    <3>6. \A r, n \in Procs : pc'[r] = "exit2" => r # InitProc /\ parent'[n] # r
      BY <3>1, <3>2 DEF FamilyInv, TypeOK
    <3>7. \A r \in Procs : pc'[r] = "exit1" => r # InitProc
      BY <3>1, <3>2 DEF FamilyInv, TypeOK
    <3> QED BY <3>1, <3>3, <3>5, <3>6, <3>7 DEF FamilyInv
  <2>7. CASE ExitZombie(c, p)
    <3>1. /\ pc[p] = "exit2" /\ proc[c] = p
          /\ state' = [state EXCEPT ![p] = "ZOMBIE"]
          /\ pc' = [pc EXCEPT ![p] = "user"] /\ parent' = parent
      BY <2>7 DEF ExitZombie, At
    <3>2. p # InitProc /\ state[p] = "RUNNING" /\ \A n \in Procs : parent[n] # p
      BY <2>a, <3>1 DEF FamilyInv
    <3>3. NoOrphans' BY <3>1, <3>2 DEF FamilyInv, NoOrphans, TypeOK
    <3> QED BY <3>1, <3>2, <3>3 DEF FamilyInv, TypeOK
  <2>8. CASE WaitReap(c, p)
    <3>1. PICK n \in Procs : /\ state[n] = "ZOMBIE"
                             /\ state' = [state EXCEPT ![n] = "UNUSED"]
                             /\ parent' = [parent EXCEPT ![n] = NIL]
      BY <2>8 DEF WaitReap, ZombieChild
    <3>2. pc' = [pc EXCEPT ![p] = SysRet(p)] BY <2>8 DEF WaitReap
    <3>3. n # InitProc BY <3>1 DEF FamilyInv
    <3>4. \A r \in Procs : parent[r] # n
      BY <3>1, <3>3 DEF FamilyInv, NoOrphans
    <3>5. NoOrphans'
      BY <3>1, <3>3, <3>4 DEF FamilyInv, NoOrphans, TypeOK
    <3>6. /\ state'[InitProc] = state[InitProc]
          /\ \A r \in Procs : parent'[r] \in {parent[r], NIL}
          /\ \A r \in Procs : pc'[r] \in {"exit1", "exit2"} => pc'[r] = pc[r]
      BY <2>r, <3>1, <3>2, <3>3 DEF TypeOK
    <3> QED BY <3>5, <3>6 DEF FamilyInv
  <2>9. CASE WaitSleep(c, p)
    <3>1. /\ proc[c] = p /\ state' = [state EXCEPT ![p] = "SLEEPING"]
          /\ UNCHANGED <<parent, pc>>
      BY <2>9 DEF WaitSleep, GoToSleep, At, thread
    <3> QED BY <1>s, <2>a, <3>1 DEF Live
  <2>10. CASE SleepTicks(c, p)
    <3>1. /\ proc[c] = p /\ state' = [state EXCEPT ![p] = "SLEEPING"]
          /\ parent' = parent /\ pc' = [pc EXCEPT ![p] = "sleep"]
      BY <2>10 DEF SleepTicks, GoToSleep, At
    <3> QED BY <1>s, <2>a, <3>1 DEF Live, TypeOK
  <2> QED BY <1>7, <2>1, <2>2, <2>3, <2>4, <2>5, <2>6, <2>7, <2>8, <2>9, <2>10
          DEF KernelPath
<1>8. ASSUME NEW c \in Cpus, NEW p \in Procs, UserStep(c, p) PROVE FamilyInv'
  <2>1. CASE \/ Syscall(c, p) \/ UserFault(c, p) \/ ForkFull(c, p)
             \/ ExitCall(c, p) \/ WaitCall(c, p) \/ SleepNot(c, p)
    <3>1. UNCHANGED <<state, parent>>
      BY <2>1 DEF Syscall, UserFault, ForkFull, ExitCall, WaitCall, SleepNot,
                  table
    <3>2. \E l \in {"exit", "user", "syscall", "wait"} : pc' = [pc EXCEPT ![p] = l]
      BY <2>1 DEF Syscall, UserFault, ForkFull, ExitCall, WaitCall, SleepNot,
                  SysRet
    <3> QED BY <1>m, <3>1, <3>2
  <2>2. CASE ForkAlloc(c, p)
    <3>1. PICK n \in Procs : /\ state[n] = "UNUSED"
                             /\ state' = [state EXCEPT ![n] = "EMBRYO"]
      BY <2>2 DEF ForkAlloc, FirstUnused
    <3>2. parent' = parent /\ pc' = [pc EXCEPT ![p] = "alloc"]
      BY <2>2 DEF ForkAlloc
    <3> QED BY <1>k, <3>1, <3>2 DEF TypeOK
  <2>3. CASE SleepCall(c, p)
    <3>1. pc' = [pc EXCEPT ![p] = "doze"] /\ UNCHANGED <<state, parent>>
      BY <2>3 DEF SleepCall, table
    <3> QED BY <1>m, <3>1
  <2>4. CASE Kill(c, p)
    <3>1. PICK t \in Procs :
            state' = IF state[t] = "SLEEPING"
                       THEN [state EXCEPT ![t] = "RUNNABLE"] ELSE state
      BY <2>4 DEF Kill
    <3>2. \A r \in Procs : pc'[r] \in {"exit1", "exit2"} => pc'[r] = pc[r]
      BY <2>4 DEF Kill, TypeOK
    <3>3. parent' = parent BY <2>4 DEF Kill
    <3> QED BY <1>k, <3>1, <3>2, <3>3 DEF Live, TypeOK
  <2> QED BY <1>8, <2>1, <2>2, <2>3, <2>4 DEF UserStep
<1>9. CASE PanicLoop BY <1>9, <1>1 DEF PanicLoop
<1> QED BY <1>1, <1>2, <1>3, <1>4, <1>5, <1>6, <1>7, <1>8, <1>9 DEF Next

-----------------------------------------------------------------------------
(* exit() and wait(): no wakeup is lost.                                   *)

\* The two locations at which exit() scans the table.
AtEnd == {"exit1", "exit2"}

\* q sleeps in wait() although its child n could be reaped.
Missed(q, n) == Waiting(q) /\ ZombieChild(n, q)

(***************************************************************************)
(* The end of exit() runs under ptable.lock.  While it looks for its       *)
(* parent the scan has not passed a parent asleep in wait(); after that    *)
(* scan the parent is awake; and the only parent that may be asleep with a *)
(* child to reap is init, whom the second scan has yet to reach.           *)
(***************************************************************************)
ExitInv ==
  /\ \A p \in Procs : pc[p] \in AtEnd =>
       \E c \in Cpus : lock = c /\ proc[c] = p /\ intr[c] = "none"
  /\ \A p \in Procs : pc[p] = "exit1" =>
       wchan = parent[p] /\ (Waiting(parent[p]) => idx <= parent[p])
  /\ \A p \in Procs : pc[p] = "exit2" =>
       wchan = InitProc /\ ~Waiting(parent[p])
  /\ \A q, n \in Procs : Missed(q, n) =>
       q = InitProc /\ idx <= InitProc /\ \E p \in Procs : pc[p] = "exit2"

\* A process at the end of exit() has a parent, and is alone there.
LEMMA EndFacts ==
  ASSUME IInv, FamilyInv, ExitInv
  PROVE  /\ \A p \in Procs : pc[p] \in AtEnd =>
              /\ p # InitProc /\ parent[p] \in Procs
              /\ state[p] = "RUNNING" /\ lock \in Cpus
              /\ proc[lock] = p /\ intr[lock] = "none"
         /\ \A p, r \in Procs : pc[p] \in AtEnd /\ pc[r] \in AtEnd => p = r
<1> USE ConstFacts
<1>1. TypeOK /\ CpuInv BY DEF IInv
<1>2. ASSUME NEW p \in Procs, pc[p] \in AtEnd
      PROVE  lock \in Cpus /\ proc[lock] = p /\ intr[lock] = "none"
  BY <1>2 DEF ExitInv
<1>3. ASSUME NEW p \in Procs, pc[p] \in AtEnd
      PROVE  p # InitProc /\ state[p] = "RUNNING" /\ parent[p] \in Procs
  <2>1. p # InitProc BY <1>3 DEF FamilyInv, AtEnd
  <2>2. state[p] = "RUNNING" BY <1>1, <1>2, <1>3 DEF CpuInv, OneCpuPerProcess
  <2> QED BY <1>1, <2>1, <2>2 DEF FamilyInv, NoOrphans, TypeOK
<1> QED BY <1>2, <1>3

(***************************************************************************)
(* Every step keeps exit() from losing the wakeup of a parent in wait().   *)
(***************************************************************************)
LEMMA ExitStep ==
  IInv /\ AsleepInv /\ FamilyInv /\ ExitInv /\ [Next]_vars => ExitInv'
<1> SUFFICES ASSUME IInv, AsleepInv, FamilyInv, ExitInv, [Next]_vars PROVE ExitInv'
  OBVIOUS
<1>t. TypeOK /\ CpuInv /\ ForkInv /\ LockInv BY DEF IInv
<1> USE <1>t, ConstFacts
<1>e. /\ \A p \in Procs : pc[p] \in AtEnd =>
           /\ p # InitProc /\ parent[p] \in Procs
           /\ state[p] = "RUNNING" /\ lock \in Cpus
           /\ proc[lock] = p /\ intr[lock] = "none"
      /\ \A p, r \in Procs : pc[p] \in AtEnd /\ pc[r] \in AtEnd => p = r
  BY EndFacts
\* The lock and its holder are left alone, and nobody falls asleep or dies.
<1>k. ASSUME UNCHANGED <<lock, idx, wchan, parent>>,
             \A d \in Cpus : d = lock => proc'[d] = proc[d] /\ intr'[d] = intr[d],
             \A r \in Procs : pc'[r] \in AtEnd \/ pc[r] \in AtEnd => pc'[r] = pc[r],
             \A r \in Procs : Waiting(r)' => Waiting(r),
             \A r \in Procs : state'[r] = "ZOMBIE" => state[r] = "ZOMBIE"
      PROVE  ExitInv'
  <2>1. \A p \in Procs : pc'[p] \in AtEnd =>
          \E c \in Cpus : lock' = c /\ proc'[c] = p /\ intr'[c] = "none"
    BY <1>e, <1>k
  <2>2. \A p \in Procs : pc'[p] = "exit1" =>
          wchan' = parent'[p] /\ (Waiting(parent[p])' => idx' <= parent'[p])
    BY <1>e, <1>k DEF ExitInv, AtEnd
  <2>3. \A p \in Procs : pc'[p] = "exit2" =>
          wchan' = InitProc /\ ~Waiting(parent[p])'
    BY <1>e, <1>k DEF ExitInv, AtEnd
  <2>4. \A q, n \in Procs : Missed(q, n)' => Missed(q, n)
    BY <1>k DEF Missed, ZombieChild, IsChild
  <2>5. \A q, n \in Procs : Missed(q, n)' =>
          q = InitProc /\ idx' <= InitProc /\ \E p \in Procs : pc'[p] = "exit2"
    BY <1>k, <2>4 DEF ExitInv, AtEnd
  <2> QED BY <2>1, <2>2, <2>3, <2>5 DEF ExitInv
\* Nobody is at the end of exit(), and no parent begins to miss a child.
<1>f. ASSUME \A r \in Procs : pc[r] \notin AtEnd,
             \A r \in Procs : pc'[r] \notin AtEnd,
             \A q, n \in Procs : Missed(q, n)' => Missed(q, n)
      PROVE  ExitInv'
  <2>1. \A q, n \in Procs : ~Missed(q, n) BY <1>f DEF ExitInv, AtEnd
  <2>2. \A q, n \in Procs : ~Missed(q, n)' BY <1>f, <2>1
  <2> QED BY <1>f, <2>2 DEF ExitInv, AtEnd
\* A step under ptable.lock by someone who is not at the end of exit().
<1>o. ASSUME \/ lock = NIL
             \/ \E c \in Cpus : lock = c /\ (proc[c] = NIL \/ intr[c] # "none")
             \/ \E c \in Cpus, p \in Procs :
                  lock = c /\ proc[c] = p /\ pc[p] \notin AtEnd
      PROVE  \A r \in Procs : pc[r] \notin AtEnd
  BY <1>e, <1>o
<1>1. CASE UNCHANGED vars
  BY <1>1, <1>k DEF vars, table, thread, crit, Waiting
<1>2. ASSUME NEW c \in Cpus, Scheduler(c) PROVE ExitInv'
  <2>1. \A r \in Procs : pc[r] \notin AtEnd
    BY <1>2, <1>o DEF Scheduler, SchedAcquire, SchedNextQueue, SchedIdle,
                      SchedPop, Scanning
  <2>2. CASE SchedPop(c)
    <3>1. /\ head[idx] \in Procs /\ state[head[idx]] = "RUNNABLE"
          /\ state' = [state EXCEPT ![head[idx]] = "RUNNING"]
          /\ UNCHANGED <<pc, parent>>
      BY <2>2, QueueHead, PopRuns DEF SchedPop, thread
    <3>2. \A q, n \in Procs : Missed(q, n)' => Missed(q, n)
      BY <3>1 DEF Missed, Waiting, ZombieChild, IsChild, TypeOK
    <3> QED BY <1>f, <2>1, <3>1, <3>2
  <2>3. CASE SchedAcquire(c) \/ SchedNextQueue(c) \/ SchedIdle(c)
    <3>1. UNCHANGED <<state, pc, parent>>
      BY <2>3 DEF SchedAcquire, SchedNextQueue, SchedIdle, table, thread
    <3>2. \A q, n \in Procs : Missed(q, n)' => Missed(q, n)
      BY <3>1 DEF Missed, Waiting, ZombieChild, IsChild
    <3> QED BY <1>f, <2>1, <3>1, <3>2
  <2> QED BY <1>2, <2>2, <2>3 DEF Scheduler
<1>3. ASSUME NEW c \in Cpus, Wakeup1(c) PROVE ExitInv'
  <2>1. /\ lock = c /\ idx \in Procs /\ idx' = idx + 1
        /\ UNCHANGED <<parent, proc, pc, intr, lock, wchan>>
    BY <1>3 DEF Wakeup1, Wakeup1Hit, Wakeup1Skip, Waking, table, thread
  <2>2. \A r \in Procs : Waiting(r)' => Waiting(r)
    BY <1>3, <2>1 DEF Wakeup1, Wakeup1Hit, Wakeup1Skip, table, Waiting, TypeOK
  <2>3. \A r \in Procs : state'[r] = "ZOMBIE" => state[r] = "ZOMBIE"
    BY <1>3, <2>1 DEF Wakeup1, Wakeup1Hit, Wakeup1Skip, table, TypeOK
  <2>4. \A q, n \in Procs : Missed(q, n)' => Missed(q, n)
    BY <2>1, <2>2, <2>3 DEF Missed, ZombieChild, IsChild
  <2>5. PICK i \in Procs : i = idx BY <2>1
  \* The slot just visited does not sleep on the channel of this wakeup1().
  <2>6. i = wchan => ~Waiting(i)'
    <3>1. CASE Wakeup1Hit(c)
      BY <2>5, <3>1 DEF Wakeup1Hit, Waiting, TypeOK
    <3>2. CASE Wakeup1Skip(c)
      <4>1. ~Asleep(i) BY <2>5, <3>2 DEF Wakeup1Skip
      <4>2. i = wchan => ~Waiting(i)
        BY <4>1 DEF Asleep, AsleepInv, Waiting
      <4> QED BY <2>2, <4>2
    <3> QED BY <1>3, <3>1, <3>2 DEF Wakeup1
  <2>7. \A p \in Procs : pc'[p] \in AtEnd =>
          \E d \in Cpus : lock' = d /\ proc'[d] = p /\ intr'[d] = "none"
    BY <2>1 DEF ExitInv
  <2>8. \A p \in Procs : pc'[p] = "exit1" =>
          wchan' = parent'[p] /\ (Waiting(parent[p])' => idx' <= parent'[p])
    <3> SUFFICES ASSUME NEW p \in Procs, pc[p] = "exit1", Waiting(parent[p])'
                 PROVE  i + 1 <= parent[p]
      BY <2>1, <2>5 DEF ExitInv
    <3>1. PICK w \in Procs : w = parent[p] BY <1>e DEF AtEnd
    <3>2. Waiting(w)' /\ Waiting(w) BY <2>1, <2>2, <3>1
    <3>3. wchan = w /\ i <= w BY <2>5, <3>1, <3>2 DEF ExitInv
    <3>4. i # w BY <2>6, <3>2, <3>3
    <3> QED BY <3>1, <3>3, <3>4
  <2>9. \A p \in Procs : pc'[p] = "exit2" =>
          wchan' = InitProc /\ ~Waiting(parent[p])'
    <3> SUFFICES ASSUME NEW p \in Procs, pc[p] = "exit2", Waiting(parent[p])'
                 PROVE  FALSE
      BY <2>1 DEF ExitInv
    <3>1. PICK w \in Procs : w = parent[p] BY <1>e DEF AtEnd
    <3>2. Waiting(w)' /\ Waiting(w) BY <2>1, <2>2, <3>1
    <3> QED BY <3>1, <3>2 DEF ExitInv
  <2>10. \A q, n \in Procs : ~Missed(q, n)'
    <3> SUFFICES ASSUME NEW q \in Procs, NEW n \in Procs, Missed(q, n)'
                 PROVE  FALSE
      OBVIOUS
    <3>1. /\ q = InitProc /\ i <= InitProc
          /\ \E p \in Procs : pc[p] = "exit2"
      BY <2>4, <2>5 DEF ExitInv
    <3>2. wchan = InitProc BY <3>1 DEF ExitInv
    <3>3. i = InitProc BY <3>1 DEF Procs, InitProc
    <3> QED BY <2>6, <3>1, <3>2, <3>3 DEF Missed
  <2> QED BY <2>7, <2>8, <2>9, <2>10 DEF ExitInv
<1>4. ASSUME NEW c \in Cpus, TimerIrq(c) PROVE ExitInv'
  <2>1. lock # c /\ UNCHANGED <<lock, idx, wchan, parent, proc, pc, state>>
    BY <1>4 DEF TimerIrq, table, crit
  <2>2. \A d \in Cpus : d = lock => proc'[d] = proc[d] /\ intr'[d] = intr[d]
    BY <1>4, <2>1 DEF TimerIrq, TypeOK
  <2> QED BY <1>k, <2>1, <2>2 DEF Waiting
<1>5. ASSUME NEW c \in Cpus, Trap(c) PROVE ExitInv'
  <2>1. CASE TickWakeup(c) \/ TickDone(c)
    <3>1. lock = NIL \/ (lock = c /\ intr[c] # "none")
      BY <2>1 DEF TickWakeup, TickDone, Woken
    <3>2. UNCHANGED <<state, pc, parent>>
      BY <2>1 DEF TickWakeup, TickDone, table, thread
    <3>3. \A q, n \in Procs : Missed(q, n)' => Missed(q, n)
      BY <3>2 DEF Missed, Waiting, ZombieChild, IsChild
    <3> QED BY <1>f, <1>o, <3>1, <3>2, <3>3
  <2>2. CASE TrapIdle(c) \/ TrapKilled(c) \/ TrapTimepiece(c)
    <3>1. /\ intr[c] = "post" /\ UNCHANGED <<lock, idx, wchan, parent, proc, state>>
          /\ \A d \in Cpus : d # c => intr'[d] = intr[d]
      BY <2>2 DEF TrapIdle, TrapKilled, TrapTimepiece, table, crit, TypeOK
    <3>2. lock # c BY <3>1 DEF LockInv
    <3>3. \A r \in Procs : \/ pc'[r] = pc[r]
                           \/ pc[r] = "user" /\ pc'[r] \in {"exit", "trapret"}
      <4>1. CASE TrapIdle(c) BY <4>1 DEF TrapIdle, thread
      <4>2. CASE TrapKilled(c) \/ TrapTimepiece(c)
        BY <4>2 DEF TrapKilled, TrapTimepiece, TypeOK
      <4> QED BY <2>2, <4>1, <4>2
    <3>4. \A r \in Procs : Waiting(r)' => Waiting(r) BY <3>1, <3>3 DEF Waiting
    <3> QED BY <1>k, <3>1, <3>2, <3>3, <3>4 DEF AtEnd
  <2>3. CASE Yield(c)
    <3>1. /\ proc[c] \in Procs /\ UNCHANGED <<pc, parent>> /\ lock = NIL
          /\ state' = [state EXCEPT ![proc[c]] = "RUNNABLE"]
      BY <2>3 DEF Yield, thread, CpuInv, TypeOK
    <3>2. \A q, n \in Procs : Missed(q, n)' => Missed(q, n)
      BY <3>1 DEF Missed, Waiting, ZombieChild, IsChild, TypeOK
    <3> QED BY <1>f, <1>o, <3>1, <3>2
  <2> QED BY <1>5, <2>1, <2>2, <2>3 DEF Trap
<1>6. ASSUME NEW c \in Cpus, ExitInit(c) PROVE ExitInv'
  BY <1>6, <1>k DEF ExitInit, table, thread, crit, Waiting
\* A running process moves to a location before the end of exit().
<1>m. ASSUME NEW c \in Cpus, NEW p \in Procs, NEW l, l \notin AtEnd,
             proc[c] = p, pc[p] \notin AtEnd, pc' = [pc EXCEPT ![p] = l],
             UNCHANGED <<state, parent, proc, intr, lock, idx, wchan>>
      PROVE  ExitInv'
  <2>1. state[p] = "RUNNING" BY <1>m DEF CpuInv, OneCpuPerProcess
  <2>2. \A r \in Procs : Waiting(r)' => Waiting(r)
    BY <1>m, <2>1 DEF Waiting, TypeOK
  <2>3. \A r \in Procs : pc'[r] \in AtEnd \/ pc[r] \in AtEnd => pc'[r] = pc[r]
    BY <1>m DEF TypeOK
  <2> QED BY <1>k, <1>m, <2>2, <2>3
<1>7. ASSUME NEW c \in Cpus, NEW p \in Procs, KernelPath(c, p) PROVE ExitInv'
  <2>r. SysRet(p) \notin AtEnd /\ SysRet(p) # "wait" BY DEF SysRet, AtEnd
  <2>a. ASSUME proc[c] = p PROVE state[p] = "RUNNING"
    BY <2>a DEF CpuInv, OneCpuPerProcess
  <2>1. CASE TrapRet(c, p) \/ SleepReturn(c, p)
    <3>1. /\ proc[c] = p /\ pc[p] \notin AtEnd
          /\ pc' = [pc EXCEPT ![p] = SysRet(p)]
          /\ UNCHANGED <<state, parent, proc, intr, lock, idx, wchan>>
      BY <2>1 DEF TrapRet, SleepReturn, At, AtEnd, table, crit
    <3> QED BY <1>m, <2>r, <3>1
  <2>2. CASE ForkStack(c, p) \/ SleepAgain(c, p)
    <3>1. /\ proc[c] = p /\ pc[p] \notin AtEnd
          /\ \E l \in {"fork", "doze"} : pc' = [pc EXCEPT ![p] = l]
          /\ UNCHANGED <<state, parent, proc, intr, lock, idx, wchan>>
      BY <2>2 DEF ForkStack, SleepAgain, At, AtEnd, table, crit
    <3> QED BY <1>m, <3>1 DEF AtEnd
  <2>3. CASE ForkFail(c, p)
    <3>1. /\ np[p] \in Procs /\ proc[c] = p /\ pc[p] \in {"alloc", "fork"}
          /\ state' = [state EXCEPT ![np[p]] = "UNUSED"]
          /\ pc' = [pc EXCEPT ![p] = SysRet(p)]
          /\ UNCHANGED <<parent, proc, intr, lock, idx, wchan>>
      BY <2>3 DEF ForkFail, At, ForkInv, crit
    <3>2. \A r \in Procs : Waiting(r)' => Waiting(r)
      BY <2>r, <3>1 DEF Waiting, TypeOK
    <3>3. \A r \in Procs : pc'[r] \in AtEnd \/ pc[r] \in AtEnd => pc'[r] = pc[r]
      BY <2>r, <3>1 DEF TypeOK, AtEnd
    <3>4. \A r \in Procs : state'[r] = "ZOMBIE" => state[r] = "ZOMBIE"
      BY <3>1 DEF TypeOK
    <3> QED BY <1>k, <3>1, <3>2, <3>3, <3>4
  <2>4. CASE ForkDone(c, p)
    <3>1. PICK n \in Procs : n = np[p] BY <2>4 DEF ForkDone, At, ForkInv
    <3>2. /\ state' = [state EXCEPT ![n] = "RUNNABLE"]
          /\ parent' = [parent EXCEPT ![n] = p]
          /\ pc' = [pc EXCEPT ![n] = "user", ![p] = SysRet(p)]
          /\ lock = NIL
      BY <2>4, <3>1 DEF ForkDone
    <3>3. \A r \in Procs : Waiting(r)' => Waiting(r)
      BY <2>r, <3>2 DEF Waiting, TypeOK
    <3>4. \A q, m \in Procs : ZombieChild(m, q)' => ZombieChild(m, q)
      BY <3>2 DEF ZombieChild, IsChild, TypeOK
    <3>5. \A q, m \in Procs : Missed(q, m)' => Missed(q, m)
      BY <3>3, <3>4 DEF Missed
    <3>6. \A r \in Procs : pc'[r] \notin AtEnd
      BY <1>o, <2>r, <3>2 DEF TypeOK, AtEnd
    <3> QED BY <1>f, <1>o, <3>2, <3>5, <3>6
  <2>5. CASE ExitWakeParent(c, p)
    <3>1. /\ lock = NIL /\ p # InitProc /\ proc[c] = p /\ intr[c] = "none"
          /\ lock' = c /\ wchan' = parent[p] /\ idx' = 1
          /\ pc' = [pc EXCEPT ![p] = "exit1"]
          /\ UNCHANGED <<state, parent, proc, intr>>
      BY <2>5 DEF ExitWakeParent, At, table
    <3>2. \A r \in Procs : pc[r] \notin AtEnd BY <1>o, <3>1
    <3>3. \A r \in Procs : pc'[r] \in AtEnd => r = p /\ pc'[r] = "exit1"
      BY <3>1, <3>2 DEF TypeOK
    <3>4. \A r \in Procs : Waiting(r)' => Waiting(r)
      BY <3>1 DEF Waiting, TypeOK
    <3>5. \A q, n \in Procs : ~Missed(q, n)'
      BY <3>1, <3>2, <3>4 DEF Missed, ZombieChild, IsChild, ExitInv, AtEnd
    <3>6. parent[p] \in Procs /\ 1 <= parent[p]
      <4>1. parent[p] \in Procs
        BY <2>a, <3>1 DEF FamilyInv, NoOrphans, TypeOK
      <4> QED BY <4>1, ProcConstants DEF Procs
    <3> QED BY <3>1, <3>3, <3>5, <3>6 DEF ExitInv, AtEnd
  <2>6. CASE ExitReparent(c, p)
    <3>1. /\ pc[p] = "exit1" /\ lock = c /\ idx = NPROC + 1
          /\ pc' = [pc EXCEPT ![p] = "exit2"] /\ wchan' = InitProc
          /\ \A n \in Procs :
               parent'[n] = IF parent[n] = p THEN InitProc ELSE parent[n]
          /\ UNCHANGED <<state, lock, proc, intr>>
      BY <2>6 DEF ExitReparent, At, Woken
    <3>2. /\ p # InitProc /\ parent[p] \in Procs /\ parent[p] # p
          /\ proc[c] = p /\ intr[c] = "none"
      BY <1>e, <3>1 DEF FamilyInv, AtEnd
    <3>3. \A r \in Procs : pc'[r] \in AtEnd => r = p /\ pc'[r] = "exit2"
      BY <1>e, <3>1 DEF TypeOK, AtEnd
    <3>4. \A r \in Procs : Waiting(r)' => Waiting(r)
      BY <3>1 DEF Waiting, TypeOK
    <3>5. ~Waiting(parent[p])
      BY <3>1, <3>2, ProcConstants DEF ExitInv, Procs
    <3>6. ~Waiting(parent[p])'
      <4>1. PICK w \in Procs : w = parent[p] BY <3>2
      <4> QED BY <3>1, <3>2, <3>4, <3>5, <4>1
    <3>7. \A q, n \in Procs : ~Missed(q, n)
      BY <1>e, <3>1 DEF ExitInv, AtEnd
    <3>8. \A q, n \in Procs : Missed(q, n)' =>
            q = InitProc /\ parent[n] = p /\ state[n] = "ZOMBIE"
      BY <3>1, <3>4, <3>7 DEF Missed, ZombieChild, IsChild
    <3>9. (\E n \in Procs : parent[n] = p /\ state[n] = "ZOMBIE") => idx' = 1
      BY <2>6 DEF ExitReparent
    <3>10. pc'[p] = "exit2" BY <3>1 DEF TypeOK
    <3>11. \A q, n \in Procs : Missed(q, n)' =>
             q = InitProc /\ idx' <= InitProc /\ \E r \in Procs : pc'[r] = "exit2"
      BY <3>8, <3>9, <3>10 DEF InitProc
    <3> QED BY <3>1, <3>2, <3>3, <3>6, <3>11 DEF ExitInv, AtEnd
  <2>7. CASE ExitZombie(c, p)
    <3>1. /\ pc[p] = "exit2" /\ lock = c /\ idx = NPROC + 1
          /\ state' = [state EXCEPT ![p] = "ZOMBIE"]
          /\ pc' = [pc EXCEPT ![p] = "user"] /\ parent' = parent
      BY <2>7 DEF ExitZombie, At, Woken
    <3>2. \A r \in Procs : pc'[r] \notin AtEnd
      BY <1>e, <3>1 DEF TypeOK, AtEnd
    <3>3. \A r \in Procs : Waiting(r)' => Waiting(r)
      BY <3>1 DEF Waiting, TypeOK
    <3>4. \A q, n \in Procs : ~Missed(q, n)
      BY <3>1, ProcConstants DEF ExitInv, InitProc
    <3>5. \A q, n \in Procs : ZombieChild(n, q)' => ZombieChild(n, q) \/ n = p
      BY <3>1 DEF ZombieChild, IsChild, TypeOK
    <3>6. \A q \in Procs : ZombieChild(p, q)' => ~Waiting(q)
      BY <3>1 DEF ExitInv, ZombieChild, IsChild
    <3>7. \A q, n \in Procs : ~Missed(q, n)'
      BY <3>3, <3>4, <3>5, <3>6 DEF Missed
    <3> QED BY <3>2, <3>7 DEF ExitInv, AtEnd
  <2>8. CASE WaitReap(c, p) \/ WaitFail(c, p)
    <3>1. /\ lock = c /\ proc[c] = p /\ pc[p] = "wait"
          /\ pc' = [pc EXCEPT ![p] = SysRet(p)]
      BY <2>8 DEF WaitReap, WaitFail, At
    <3>2. \A r \in Procs : \/ state'[r] = state[r] /\ parent'[r] = parent[r]
                           \/ state'[r] = "UNUSED"
      <4>1. CASE WaitFail(c, p) BY <4>1 DEF WaitFail, table
      <4>2. CASE WaitReap(c, p) BY <4>2 DEF WaitReap, TypeOK
      <4> QED BY <2>8, <4>1, <4>2
    <3>3. \A r \in Procs : Waiting(r)' => Waiting(r)
      BY <2>r, <3>1, <3>2 DEF Waiting, TypeOK
    <3>4. \A q, n \in Procs : Missed(q, n)' => Missed(q, n)
      BY <3>2, <3>3 DEF Missed, ZombieChild, IsChild
    <3>5. \A r \in Procs : pc[r] \notin AtEnd BY <1>o, <3>1 DEF AtEnd
    <3>6. \A r \in Procs : pc'[r] \notin AtEnd
      BY <2>r, <3>1, <3>5 DEF TypeOK
    <3> QED BY <1>f, <3>4, <3>5, <3>6
  <2>9. CASE WaitSleep(c, p)
    <3>1. /\ lock = c /\ proc[c] = p /\ pc[p] = "wait"
          /\ \A n \in Procs : ~ZombieChild(n, p)
          /\ state' = [state EXCEPT ![p] = "SLEEPING"]
          /\ UNCHANGED <<pc, parent>>
      BY <2>9 DEF WaitSleep, GoToSleep, At, thread
    <3>2. \A q, n \in Procs : ZombieChild(n, q)' => ZombieChild(n, q)
      BY <3>1 DEF ZombieChild, IsChild, TypeOK
    <3>3. \A q \in Procs \ {p} : Waiting(q)' => Waiting(q)
      BY <3>1 DEF Waiting, TypeOK
    <3>4. \A q, n \in Procs : Missed(q, n)' => Missed(q, n)
      BY <3>1, <3>2, <3>3 DEF Missed
    <3>5. \A r \in Procs : pc[r] \notin AtEnd BY <1>o, <3>1 DEF AtEnd
    <3> QED BY <1>f, <3>1, <3>4, <3>5
  <2>10. CASE SleepTicks(c, p)
    <3>1. /\ lock = NIL /\ pc' = [pc EXCEPT ![p] = "sleep"]
          /\ state' = [state EXCEPT ![p] = "SLEEPING"]
          /\ parent' = parent
      BY <2>10 DEF SleepTicks, GoToSleep, At
    <3>2. \A q, n \in Procs : Missed(q, n)' => Missed(q, n)
      BY <3>1 DEF Missed, Waiting, ZombieChild, IsChild, TypeOK
    <3>3. \A r \in Procs : pc[r] \notin AtEnd /\ pc'[r] \notin AtEnd
      BY <1>o, <3>1 DEF TypeOK, AtEnd
    <3> QED BY <1>f, <3>2, <3>3
  <2> QED BY <1>7, <2>1, <2>2, <2>3, <2>4, <2>5, <2>6, <2>7, <2>8, <2>9, <2>10
          DEF KernelPath
<1>8. ASSUME NEW c \in Cpus, NEW p \in Procs, UserStep(c, p) PROVE ExitInv'
  <2>1. CASE \/ Syscall(c, p) \/ UserFault(c, p) \/ ForkFull(c, p)
             \/ ExitCall(c, p) \/ SleepNot(c, p) \/ SleepCall(c, p)
    <3>1. /\ proc[c] = p /\ pc[p] \notin AtEnd
          /\ UNCHANGED <<state, parent, proc, intr, lock, idx, wchan>>
      BY <2>1 DEF Syscall, UserFault, ForkFull, ExitCall, SleepNot, SleepCall,
                  At, AtEnd, table, crit
    <3>2. \E l \in {"exit", "user", "syscall", "doze"} :
            pc' = [pc EXCEPT ![p] = l]
      BY <2>1 DEF Syscall, UserFault, ForkFull, ExitCall, SleepNot, SleepCall,
                  SysRet
    <3> QED BY <1>m, <3>1, <3>2 DEF AtEnd
  <2>2. CASE \/ ForkAlloc(c, p) \/ WaitCall(c, p) \/ Kill(c, p)
    <3>1. lock = NIL /\ proc[c] = p /\ parent' = parent
      BY <2>2 DEF ForkAlloc, WaitCall, Kill, At, table
    <3>2. \E l \in {"alloc", "wait", "exit", "user"} :
            pc' = [pc EXCEPT ![p] = l]
      BY <2>2 DEF ForkAlloc, WaitCall, Kill
    <3>3. state[p] = "RUNNING" BY <3>1 DEF CpuInv, OneCpuPerProcess
    <3>4. \/ state' = state
          \/ \E n \in Procs, st \in {"EMBRYO", "RUNNABLE"} :
               state' = [state EXCEPT ![n] = st]
      BY <2>2 DEF ForkAlloc, WaitCall, Kill, table, TypeOK
    <3>5. \A r \in Procs : state'[r] = "ZOMBIE" => state[r] = "ZOMBIE"
      BY <3>4 DEF TypeOK
    <3>6. \A r \in Procs : Waiting(r)' => Waiting(r)
      <4>1. \A r \in Procs \ {p} : pc'[r] = pc[r] BY <3>2 DEF TypeOK
      <4>2. \A r \in Procs : state'[r] = "SLEEPING" => state[r] = "SLEEPING"
        BY <3>4 DEF TypeOK
      <4> QED BY <3>3, <4>1, <4>2 DEF Waiting
    <3>7. \A q, n \in Procs : Missed(q, n)' => Missed(q, n)
      BY <3>1, <3>5, <3>6 DEF Missed, ZombieChild, IsChild
    <3>8. \A r \in Procs : pc'[r] \notin AtEnd
      BY <1>o, <3>1, <3>2 DEF TypeOK, AtEnd
    <3> QED BY <1>f, <1>o, <3>1, <3>7, <3>8
  <2> QED BY <1>8, <2>1, <2>2 DEF UserStep
<1>9. CASE PanicLoop BY <1>9, <1>1 DEF PanicLoop
<1> QED BY <1>1, <1>2, <1>3, <1>4, <1>5, <1>6, <1>7, <1>8, <1>9 DEF Next

-----------------------------------------------------------------------------
(* sys_sleep() and the clock: no tick is lost.                             *)

\* p still sleeps in sys_sleep() though its time is up.
Overdue(p) == state[p] = "SLEEPING" /\ pc[p] = "sleep" /\ left[p] = 0

(***************************************************************************)
(* Only the boot CPU advances ticks, and its wakeup(&ticks) is the only    *)
(* wakeup1() on that channel.  Whoever is overdue is still in front of     *)
(* that scan, so tickslock is not free.                                    *)
(***************************************************************************)
TickInv ==
  /\ \A c \in Cpus : intr[c] = "tick" => c = BootCpu
  /\ lock = BootCpu /\ intr[BootCpu] = "tick" => wchan = Ticks
  /\ wchan = Ticks => lock = BootCpu /\ intr[BootCpu] = "tick"
  /\ \A p \in Procs : Overdue(p) =>
       intr[BootCpu] = "tick" /\ (lock = BootCpu => idx <= p)

\* Whoever is about to sleep in sys_sleep() has ticks to go: the clock waits
\* for tickslock, so none goes by before it sleeps.
DozeInv == \A p \in Procs : pc[p] = "doze" => left[p] # 0

\* Every step keeps it.
LEMMA DozeStep == IInv /\ DozeInv /\ [Next]_vars => DozeInv'
<1> SUFFICES ASSUME IInv, DozeInv, [Next]_vars PROVE DozeInv'
  OBVIOUS
<1>t. TypeOK /\ CpuInv /\ ForkInv BY DEF IInv
<1> USE <1>t, ConstFacts
\* Nobody comes here whose ticks are not those it had.
<1>k. ASSUME \A r \in Procs : pc'[r] = "doze" =>
               \/ pc[r] = "doze" /\ left'[r] = left[r]
               \/ left'[r] # 0
      PROVE  DozeInv'
  BY <1>k DEF DozeInv
<1>u. ASSUME UNCHANGED <<pc, left>> PROVE DozeInv'
  BY <1>u DEF DozeInv
<1>1. CASE UNCHANGED vars BY <1>1, <1>u DEF vars, thread
<1>2. ASSUME NEW c \in Cpus, Scheduler(c) PROVE DozeInv'
  BY <1>2, <1>u DEF Scheduler, SchedAcquire, SchedNextQueue, SchedIdle, SchedPop,
       thread
<1>3. ASSUME NEW c \in Cpus, Wakeup1(c) PROVE DozeInv'
  BY <1>3, <1>u DEF Wakeup1, Wakeup1Hit, Wakeup1Skip, thread
<1>4. ASSUME NEW c \in Cpus, TimerIrq(c) PROVE DozeInv'
  <2>1. pc' = pc BY <1>4 DEF TimerIrq
  <2>2. CASE c = BootCpu
    BY <1>4, <2>1, <2>2 DEF TimerIrq, TicksLockFree, DozeInv
  <2>3. CASE c # BootCpu
    BY <1>4, <2>1, <2>3 DEF TimerIrq, DozeInv
  <2> QED BY <2>2, <2>3
<1>5. ASSUME NEW c \in Cpus, Trap(c) PROVE DozeInv'
  <2>1. left' = left
    BY <1>5 DEF Trap, TickWakeup, TickDone, TrapIdle, TrapKilled, TrapTimepiece,
         Yield, thread
  <2>2. \A r \in Procs : pc'[r] = "doze" => pc[r] = "doze"
    BY <1>5 DEF Trap, TickWakeup, TickDone, TrapIdle, TrapKilled, TrapTimepiece,
         Yield, thread, TypeOK
  <2> QED BY <1>k, <2>1, <2>2
<1>6. ASSUME NEW c \in Cpus, ExitInit(c) PROVE DozeInv'
  BY <1>6, <1>u DEF ExitInit, thread
<1>7. ASSUME NEW c \in Cpus, NEW p \in Procs, KernelPath(c, p) PROVE DozeInv'
  <2>1. CASE SleepAgain(c, p)
    <3>1. left[p] # 0 /\ pc' = [pc EXCEPT ![p] = "doze"] /\ left' = left
      BY <2>1, ProcConstants DEF SleepAgain, TypeOK
    <3> QED BY <1>k, <3>1 DEF TypeOK
  <2>2. CASE SleepReturn(c, p)
    <3>1. /\ pc' = [pc EXCEPT ![p] = SysRet(p)] /\ SysRet(p) # "doze"
          /\ left' = [left EXCEPT ![p] = 0]
      BY <2>2 DEF SleepReturn, SysRet
    <3> QED BY <1>k, <3>1 DEF TypeOK
  <2>3. CASE ~SleepAgain(c, p) /\ ~SleepReturn(c, p)
    <3>1. left' = left
      BY <1>7, <2>3 DEF KernelPath, TrapRet, ForkStack, ForkFail, ForkDone,
           ExitWakeParent, ExitReparent, ExitZombie, WaitReap, WaitFail,
           WaitSleep, SleepTicks, thread
    <3>2. \A r \in Procs : pc'[r] = "doze" => pc[r] = "doze"
      <4>1. CASE ForkFail(c, p) \/ ForkDone(c, p)
        <5>1. np[p] \in Procs BY <4>1 DEF ForkFail, ForkDone, At, ForkInv
        <5> QED BY <4>1, <5>1 DEF ForkFail, ForkDone, SysRet, TypeOK
      <4>2. CASE \/ TrapRet(c, p) \/ ForkStack(c, p) \/ ExitWakeParent(c, p)
                 \/ ExitReparent(c, p) \/ ExitZombie(c, p) \/ WaitReap(c, p)
                 \/ WaitFail(c, p) \/ SleepTicks(c, p)
        <5>1. \E l \in Locations \ {"doze"} : pc' = [pc EXCEPT ![p] = l]
          BY <4>2 DEF TrapRet, ForkStack, ExitWakeParent, ExitReparent,
               ExitZombie, WaitReap, WaitFail, SleepTicks, SysRet, Locations
        <5> QED BY <5>1 DEF TypeOK
      <4>3. CASE WaitSleep(c, p) BY <4>3 DEF WaitSleep, thread
      <4> QED BY <1>7, <2>3, <4>1, <4>2, <4>3 DEF KernelPath
    <3> QED BY <1>k, <3>1, <3>2
  <2> QED BY <2>1, <2>2, <2>3
<1>8. ASSUME NEW c \in Cpus, NEW p \in Procs, UserStep(c, p) PROVE DozeInv'
  <2>1. CASE SleepCall(c, p)
    <3>1. PICK m \in 1..MaxSleep : left' = [left EXCEPT ![p] = m]
      BY <2>1 DEF SleepCall
    <3>2. pc' = [pc EXCEPT ![p] = "doze"] BY <2>1 DEF SleepCall
    <3>3. left'[p] # 0 BY <3>1, ProcConstants DEF TypeOK
    <3> QED BY <1>k, <3>1, <3>2, <3>3 DEF TypeOK
  <2>2. CASE ~SleepCall(c, p)
    <3>1. left' = left
      BY <1>8, <2>2 DEF UserStep, Syscall, UserFault, ForkAlloc, ForkFull,
           ExitCall, WaitCall, SleepNot, Kill, thread
    <3>2. \E l \in Locations \ {"doze"} : pc' = [pc EXCEPT ![p] = l]
      BY <1>8, <2>2 DEF UserStep, Syscall, UserFault, ForkAlloc, ForkFull,
           ExitCall, WaitCall, SleepNot, Kill, SysRet, Locations
    <3> QED BY <1>k, <3>1, <3>2 DEF TypeOK
  <2> QED BY <2>1, <2>2
<1>9. CASE PanicLoop BY <1>9, <1>1 DEF PanicLoop
<1> QED BY <1>1, <1>2, <1>3, <1>4, <1>5, <1>6, <1>7, <1>8, <1>9 DEF Next

\* Every step keeps overdue sleepers in front of the scan that wakes them.
LEMMA TickStep ==
  IInv /\ AsleepInv /\ TickInv /\ DozeInv /\ [Next]_vars => TickInv'
<1> SUFFICES ASSUME IInv, AsleepInv, TickInv, DozeInv, [Next]_vars PROVE TickInv'
  OBVIOUS
<1>t. TypeOK /\ CpuInv /\ ForkInv /\ LockInv BY DEF IInv
<1> USE <1>t, ConstFacts
<1>n. Ticks \notin Procs /\ Ticks # NIL
  BY ProcConstants DEF Ticks, Procs, NIL
\* The lock and the clock tick are left alone.
<1>k. ASSUME UNCHANGED <<lock, idx, wchan>>,
             \A d \in Cpus : intr'[d] = "tick" <=> intr[d] = "tick",
             \A r \in Procs : Overdue(r)' => Overdue(r)
      PROVE  TickInv'
  BY <1>k DEF TickInv
\* A CPU that is not in the clock tick takes, uses or releases the lock.
<1>w. ASSUME NEW c \in Cpus, intr[c] # "tick", lock \in {NIL, c},
             lock' \in {NIL, c}, wchan' = wchan \/ wchan' # Ticks, intr' = intr,
             \A r \in Procs : Overdue(r)' => Overdue(r)
      PROVE  TickInv'
  <2>1. wchan # Ticks BY <1>w DEF TickInv
  <2>2. lock' = BootCpu => intr[BootCpu] # "tick" BY <1>w
  <2> QED BY <1>w, <2>1, <2>2 DEF TickInv
\* The running process moves on, or falls asleep with ticks to go.
<1>m. ASSUME NEW c \in Cpus, NEW p \in Procs, proc[c] = p,
             state' = state \/ state' = [state EXCEPT ![p] = "SLEEPING"],
             \A r \in Procs \ {p} : pc'[r] = pc[r] /\ left'[r] = left[r],
             state'[p] = "SLEEPING" /\ pc'[p] = "sleep" => left'[p] # 0
      PROVE  \A r \in Procs : Overdue(r)' => Overdue(r)
  <2>1. \A r \in Procs \ {p} : state'[r] = state[r] BY <1>m DEF TypeOK
  <2> QED BY <1>m, <2>1 DEF Overdue
<1>1. CASE UNCHANGED vars
  BY <1>1, <1>k DEF vars, table, thread, crit, Overdue
<1>2. ASSUME NEW c \in Cpus, Scheduler(c) PROVE TickInv'
  <2>1. CASE SchedPop(c)
    <3>1. /\ head[idx] \in Procs
          /\ state' = [state EXCEPT ![head[idx]] = "RUNNING"]
          /\ UNCHANGED <<pc, left, wchan, intr>>
          /\ lock = c /\ lock' \in {NIL, c} /\ intr[c] = "none"
      BY <2>1, QueueHead, PopRuns DEF SchedPop, Scanning, thread
    <3>2. \A r \in Procs : Overdue(r)' => Overdue(r)
      BY <3>1 DEF Overdue, TypeOK
    <3> QED BY <1>w, <3>1, <3>2
  <2>2. CASE SchedAcquire(c) \/ SchedNextQueue(c) \/ SchedIdle(c)
    <3>1. /\ lock \in {NIL, c} /\ lock' \in {NIL, c} /\ intr[c] = "none"
          /\ UNCHANGED <<state, pc, left, wchan, intr>>
      BY <2>2 DEF SchedAcquire, SchedNextQueue, SchedIdle, Scanning, table, thread
    <3> QED BY <1>w, <3>1 DEF Overdue
  <2> QED BY <1>2, <2>1, <2>2 DEF Scheduler
<1>3. ASSUME NEW c \in Cpus, Wakeup1(c) PROVE TickInv'
  <2>1. /\ lock = c /\ idx \in Procs /\ idx' = idx + 1
        /\ UNCHANGED <<pc, left, intr, lock, wchan>>
    BY <1>3 DEF Wakeup1, Wakeup1Hit, Wakeup1Skip, Waking, thread
  <2>2. \A r \in Procs : Overdue(r)' => Overdue(r)
    BY <1>3, <2>1 DEF Wakeup1, Wakeup1Hit, Wakeup1Skip, table, Overdue, TypeOK
  <2>3. CASE intr[c] # "tick"
    BY <1>w, <2>1, <2>2, <2>3
  <2>4. CASE intr[c] = "tick"
    <3>1. PICK i \in Procs : i = idx BY <2>1
    <3>2. c = BootCpu /\ wchan = Ticks BY <2>1, <2>4 DEF TickInv
    <3>3. ~Overdue(i)'
      <4>1. CASE Wakeup1Hit(c)
        BY <3>1, <4>1 DEF Wakeup1Hit, Overdue, TypeOK
      <4>2. CASE Wakeup1Skip(c)
        <5>1. ~Asleep(i) BY <3>1, <4>2 DEF Wakeup1Skip
        <5>2. ~Overdue(i) BY <3>2, <5>1 DEF Asleep, AsleepInv, Overdue
        <5> QED BY <2>2, <5>2
      <4> QED BY <1>3, <4>1, <4>2 DEF Wakeup1
    <3>4. \A r \in Procs : Overdue(r)' => i + 1 <= r
      <4> SUFFICES ASSUME NEW r \in Procs, Overdue(r)' PROVE i + 1 <= r
        OBVIOUS
      <4>1. i <= r BY <2>1, <2>2, <3>1, <3>2 DEF TickInv
      <4>2. i # r BY <3>3
      <4> QED BY <4>1, <4>2
    <3> QED BY <2>1, <2>4, <3>1, <3>2, <3>4 DEF TickInv
  <2> QED BY <2>3, <2>4
<1>4. ASSUME NEW c \in Cpus, TimerIrq(c) PROVE TickInv'
  <2>1. /\ intr[c] = "none" /\ lock # c
        /\ UNCHANGED <<state, pc, lock, idx, wchan>>
    BY <1>4 DEF TimerIrq, table, crit
  <2>2. CASE c = BootCpu
    <3>1. intr' = [intr EXCEPT ![BootCpu] = "tick"] BY <1>4, <2>2 DEF TimerIrq
    <3> QED BY <2>1, <2>2, <3>1 DEF TickInv, TypeOK
  <2>3. CASE c # BootCpu
    <3>1. left' = left /\ intr' = [intr EXCEPT ![c] = "post"]
      BY <1>4, <2>3 DEF TimerIrq
    <3>2. \A d \in Cpus : intr'[d] = "tick" <=> intr[d] = "tick"
      BY <2>1, <3>1 DEF TypeOK
    <3> QED BY <1>k, <2>1, <3>1, <3>2 DEF Overdue
  <2> QED BY <2>2, <2>3
<1>5. ASSUME NEW c \in Cpus, Trap(c) PROVE TickInv'
  <2>1. CASE TickWakeup(c)
    <3>1. /\ intr[c] = "tick" /\ lock' = c /\ wchan' = Ticks /\ idx' = 1
          /\ UNCHANGED <<state, pc, left, intr>>
      BY <2>1 DEF TickWakeup, table, thread
    <3>2. c = BootCpu BY <3>1 DEF TickInv
    <3>3. \A r \in Procs : 1 <= r BY ProcConstants DEF Procs
    <3> QED BY <3>1, <3>2, <3>3 DEF TickInv
  <2>2. CASE TickDone(c)
    <3>1. /\ intr[c] = "tick" /\ lock = c /\ idx = NPROC + 1
          /\ lock' = NIL /\ wchan' = NIL
          /\ intr' = [intr EXCEPT ![c] = "post"]
          /\ UNCHANGED <<state, pc, left>>
      BY <2>2 DEF TickDone, Woken, table, thread
    <3>2. c = BootCpu BY <3>1 DEF TickInv
    <3>3. \A r \in Procs : ~Overdue(r)
      BY <3>1, <3>2, ProcConstants DEF TickInv, Procs
    <3>4. \A r \in Procs : ~Overdue(r)' BY <3>1, <3>3 DEF Overdue
    <3> QED BY <1>n, <3>1, <3>2, <3>4 DEF TickInv, TypeOK
  <2>3. CASE TrapIdle(c) \/ TrapKilled(c) \/ TrapTimepiece(c) \/ Yield(c)
    <3>1. UNCHANGED <<lock, idx, wchan, left>>
      BY <2>3 DEF TrapIdle, TrapKilled, TrapTimepiece, Yield, crit, thread
    <3>2. \A d \in Cpus : intr'[d] = "tick" <=> intr[d] = "tick"
      BY <2>3 DEF TrapIdle, TrapKilled, TrapTimepiece, Yield, TypeOK
    <3>3. CASE TrapIdle(c)
      BY <1>k, <3>1, <3>2, <3>3 DEF TrapIdle, table, thread, Overdue
    <3>4. CASE TrapKilled(c) \/ TrapTimepiece(c)
      <4>1. /\ state' = state
            /\ \A r \in Procs : pc'[r] = pc[r] \/ pc'[r] # "sleep"
        BY <3>4 DEF TrapKilled, TrapTimepiece, table, TypeOK
      <4> QED BY <1>k, <3>1, <3>2, <4>1 DEF Overdue
    <3>5. CASE Yield(c)
      <4>1. /\ proc[c] \in Procs /\ pc' = pc
            /\ state' = [state EXCEPT ![proc[c]] = "RUNNABLE"]
        BY <3>5 DEF Yield, thread, CpuInv, TypeOK
      <4>2. \A r \in Procs : Overdue(r)' => Overdue(r)
        BY <3>1, <4>1 DEF Overdue, TypeOK
      <4> QED BY <1>k, <3>1, <3>2, <4>2
    <3> QED BY <2>3, <3>3, <3>4, <3>5
  <2> QED BY <1>5, <2>1, <2>2, <2>3 DEF Trap
<1>6. ASSUME NEW c \in Cpus, ExitInit(c) PROVE TickInv'
  BY <1>6, <1>k DEF ExitInit, table, thread, crit, Overdue
<1>7. ASSUME NEW c \in Cpus, NEW p \in Procs, KernelPath(c, p) PROVE TickInv'
  <2>a. ASSUME proc[c] = p PROVE state[p] = "RUNNING"
    BY <2>a DEF CpuInv, OneCpuPerProcess
  <2>1. CASE \/ TrapRet(c, p) \/ ForkStack(c, p) \/ SleepReturn(c, p)
             \/ SleepAgain(c, p)
    <3>1. /\ proc[c] = p /\ UNCHANGED <<state, lock, idx, wchan, intr>>
          /\ \A r \in Procs \ {p} : pc'[r] = pc[r] /\ left'[r] = left[r]
      BY <2>1 DEF TrapRet, ForkStack, SleepReturn, SleepAgain, At, table, crit,
                  TypeOK
    <3>2. \A r \in Procs : Overdue(r)' => Overdue(r)
      BY <1>m, <2>a, <3>1
    <3> QED BY <1>k, <3>1, <3>2
  <2>2. CASE ForkFail(c, p) \/ ForkDone(c, p)
    <3>1. PICK n \in Procs : n = np[p] /\ state[n] = "EMBRYO"
      BY <2>2 DEF ForkFail, ForkDone, At, ForkInv
    <3>2. /\ proc[c] = p /\ UNCHANGED <<lock, idx, wchan, intr, left>>
          /\ \A r \in Procs \ {n} : state'[r] = state[r]
          /\ state'[n] # "SLEEPING"
          /\ \A r \in Procs \ {n, p} : pc'[r] = pc[r]
      <4>1. CASE ForkFail(c, p)
        BY <4>1, <3>1 DEF ForkFail, At, crit, TypeOK
      <4>2. CASE ForkDone(c, p)
        <5>1. /\ proc[c] = p /\ UNCHANGED <<lock, idx, wchan, intr, left>>
              /\ state' = [state EXCEPT ![n] = "RUNNABLE"]
              /\ pc' = [pc EXCEPT ![n] = "user", ![p] = SysRet(p)]
          BY <4>2, <3>1 DEF ForkDone, At, crit
        <5> QED BY <5>1 DEF TypeOK
      <4> QED BY <2>2, <4>1, <4>2
    <3>3. \A r \in Procs : Overdue(r)' => Overdue(r)
      <4>1. SUFFICES ASSUME NEW r \in Procs, Overdue(r)' PROVE Overdue(r)
        OBVIOUS
      <4>2. /\ r \notin {n}  /\ state[r] = "SLEEPING"
        BY <4>1, <3>2 DEF Overdue
      <4>3. r # p /\ pc'[r] = pc[r] BY <4>2, <3>2, <2>a
      <4> QED BY <4>1, <4>2, <4>3, <3>2 DEF Overdue
    <3> QED BY <1>k, <3>2, <3>3
  <2>3. CASE ExitWakeParent(c, p) \/ ExitReparent(c, p) \/ ExitZombie(c, p)
    <3>1. /\ lock \in {NIL, c} /\ lock' \in {NIL, c}
          /\ proc[c] = p /\ intr[c] = "none" /\ intr' = intr /\ left' = left
          /\ wchan' \in Procs \cup {NIL}
      BY <2>3 DEF ExitWakeParent, ExitReparent, ExitZombie, Woken, At, TypeOK
    <3>2. \A r \in Procs \ {p} : state'[r] = state[r] /\ pc'[r] = pc[r]
      BY <2>3 DEF ExitWakeParent, ExitReparent, ExitZombie, table, TypeOK
    <3>3. state'[p] # "SLEEPING"
      BY <2>3, <2>a, <3>1
         DEF ExitWakeParent, ExitReparent, ExitZombie, table, TypeOK
    <3>4. \A r \in Procs : Overdue(r)' => Overdue(r)
      BY <3>1, <3>2, <3>3 DEF Overdue
    <3> QED BY <1>n, <1>w, <3>1, <3>4
  <2>4. CASE WaitReap(c, p) \/ WaitFail(c, p) \/ WaitSleep(c, p)
    <3>1. /\ lock = c /\ lock' = NIL /\ intr[c] = "none" /\ proc[c] = p
          /\ pc[p] = "wait" /\ UNCHANGED <<intr, wchan, left>>
      BY <2>4 DEF WaitReap, WaitFail, WaitSleep, At, thread
    <3>2. \A r \in Procs \ {p} : pc'[r] = pc[r]
      BY <2>4 DEF WaitReap, WaitFail, WaitSleep, thread, TypeOK
    <3>3. pc'[p] # "sleep"
      BY <2>4, <3>1 DEF WaitReap, WaitFail, WaitSleep, thread, SysRet, TypeOK
    <3>4. \A r \in Procs \ {p} : state'[r] = "SLEEPING" => state[r] = "SLEEPING"
      <4>1. CASE WaitFail(c, p) BY <4>1 DEF WaitFail, table
      <4>2. CASE WaitReap(c, p) BY <4>2 DEF WaitReap, TypeOK
      <4>3. CASE WaitSleep(c, p) BY <4>3 DEF WaitSleep, GoToSleep, TypeOK
      <4> QED BY <2>4, <4>1, <4>2, <4>3
    <3>5. \A r \in Procs : Overdue(r)' => Overdue(r)
      BY <3>1, <3>2, <3>3, <3>4 DEF Overdue
    <3> QED BY <1>w, <3>1, <3>5
  <2>5. CASE SleepTicks(c, p)
    <3>1. /\ proc[c] = p /\ pc[p] = "doze"
          /\ pc' = [pc EXCEPT ![p] = "sleep"]
          /\ state' = [state EXCEPT ![p] = "SLEEPING"]
          /\ UNCHANGED <<lock, idx, wchan, intr, left>>
      BY <2>5 DEF SleepTicks, GoToSleep, At, crit
    <3>2. left'[p] # 0 /\ \A r \in Procs \ {p} : pc'[r] = pc[r]
      BY <3>1 DEF DozeInv, TypeOK
    <3>3. \A r \in Procs : Overdue(r)' => Overdue(r)
      BY <1>m, <3>1, <3>2
    <3> QED BY <1>k, <3>1, <3>3
  <2> QED BY <1>7, <2>1, <2>2, <2>3, <2>4, <2>5 DEF KernelPath
<1>8. ASSUME NEW c \in Cpus, NEW p \in Procs, UserStep(c, p) PROVE TickInv'
  <2>a. ASSUME proc[c] = p PROVE state[p] = "RUNNING"
    BY <2>a DEF CpuInv, OneCpuPerProcess
  <2>1. CASE \/ Syscall(c, p) \/ UserFault(c, p) \/ ForkFull(c, p)
             \/ ExitCall(c, p) \/ SleepNot(c, p)
    <3>1. /\ proc[c] = p /\ UNCHANGED <<state, lock, idx, wchan, intr, left>>
          /\ \A r \in Procs \ {p} : pc'[r] = pc[r]
      BY <2>1 DEF Syscall, UserFault, ForkFull, ExitCall, SleepNot, At, table,
                  crit, TypeOK
    <3>2. \A r \in Procs : Overdue(r)' => Overdue(r)
      BY <1>m, <2>a, <3>1
    <3> QED BY <1>k, <3>1, <3>2
  <2>2. CASE WaitCall(c, p)
    <3>1. /\ proc[c] = p /\ intr[c] = "none" /\ lock = NIL /\ lock' = c
          /\ UNCHANGED <<state, wchan, intr, left>>
          /\ \A r \in Procs \ {p} : pc'[r] = pc[r]
      BY <2>2 DEF WaitCall, At, table, TypeOK
    <3>2. \A r \in Procs : Overdue(r)' => Overdue(r)
      BY <1>m, <2>a, <3>1
    <3> QED BY <1>w, <3>1, <3>2
  <2>3. CASE SleepCall(c, p)
    <3>1. PICK m \in 1..MaxSleep : left' = [left EXCEPT ![p] = m]
      BY <2>3 DEF SleepCall
    <3>2. /\ proc[c] = p /\ pc' = [pc EXCEPT ![p] = "doze"]
          /\ UNCHANGED <<state, lock, idx, wchan, intr>>
      BY <2>3 DEF SleepCall, At, table, crit
    <3>3. left'[p] # 0 BY <3>1, ProcConstants DEF TypeOK
    <3>4. \A r \in Procs \ {p} : pc'[r] = pc[r] /\ left'[r] = left[r]
      BY <3>1, <3>2 DEF TypeOK
    <3>5. \A r \in Procs : Overdue(r)' => Overdue(r)
      BY <1>m, <3>2, <3>3, <3>4
    <3> QED BY <1>k, <3>2, <3>5
  <2>4. CASE ForkAlloc(c, p) \/ Kill(c, p)
    <3>1. /\ proc[c] = p /\ UNCHANGED <<lock, idx, wchan, intr, left>>
          /\ \A r \in Procs \ {p} : pc'[r] = pc[r]
          /\ pc'[p] # "sleep"
      BY <2>4 DEF ForkAlloc, Kill, At, crit, TypeOK
    <3>2. \A r \in Procs : state'[r] = "SLEEPING" => state[r] = "SLEEPING"
      <4>1. CASE ForkAlloc(c, p) BY <4>1 DEF ForkAlloc, TypeOK
      <4>2. CASE Kill(c, p) BY <4>2 DEF Kill, TypeOK
      <4> QED BY <2>4, <4>1, <4>2
    <3>3. \A r \in Procs : Overdue(r)' => Overdue(r)
      BY <3>1, <3>2 DEF Overdue
    <3> QED BY <1>k, <3>1, <3>3
  <2> QED BY <1>8, <2>1, <2>2, <2>3, <2>4 DEF UserStep
<1>9. CASE PanicLoop BY <1>9, <1>1 DEF PanicLoop
<1> QED BY <1>1, <1>2, <1>3, <1>4, <1>5, <1>6, <1>7, <1>8, <1>9 DEF Next

-----------------------------------------------------------------------------
(* Yielding and the run queues.                                            *)

\* A process about to yield() has used up its time slice.
YieldInv == \A c \in Cpus : intr[c] = "yield" => timepiece[proc[c]] = 0

\* Every step leaves a process that is about to yield() with an empty slice.
LEMMA YieldStep == IInv /\ YieldInv /\ [Next]_vars => YieldInv'
<1> SUFFICES ASSUME IInv, YieldInv, [Next]_vars PROVE YieldInv'
  OBVIOUS
<1>t. TypeOK /\ CpuInv /\ ForkInv BY DEF IInv
<1> USE <1>t, ConstFacts
<1>y. \A d \in Cpus : intr[d] = "yield" =>
        proc[d] \in Procs /\ state[proc[d]] = "RUNNING"
  BY DEF CpuInv, OneCpuPerProcess, TypeOK
\* The CPUs that are about to yield keep their process and its slice.
<1>k. ASSUME \A d \in Cpus : intr'[d] = "yield" => intr[d] = "yield",
             \A d \in Cpus : intr[d] = "yield" => proc'[d] = proc[d],
             \A r \in Procs : state[r] = "RUNNING" => timepiece'[r] = timepiece[r]
      PROVE  YieldInv'
  BY <1>k, <1>y DEF YieldInv
<1>1. CASE UNCHANGED vars BY <1>1, <1>k DEF vars, table
<1>2. ASSUME NEW c \in Cpus, Scheduler(c) PROVE YieldInv'
  <2>1. UNCHANGED <<intr, timepiece>>
    BY <1>2 DEF Scheduler, SchedAcquire, SchedNextQueue, SchedIdle, SchedPop, table
  <2>2. \A d \in Cpus : intr[d] = "yield" => proc'[d] = proc[d]
    <3>1. CASE SchedPop(c)
      <4>1. intr[c] = "none" /\ proc' = [proc EXCEPT ![c] = head[idx]]
        BY <3>1, PopRuns DEF SchedPop, Scanning
      <4> QED BY <4>1 DEF TypeOK
    <3>2. CASE SchedAcquire(c) \/ SchedNextQueue(c) \/ SchedIdle(c)
      BY <3>2 DEF SchedAcquire, SchedNextQueue, SchedIdle
    <3> QED BY <1>2, <3>1, <3>2 DEF Scheduler
  <2> QED BY <1>k, <2>1, <2>2
<1>3. ASSUME NEW c \in Cpus, Wakeup1(c) PROVE YieldInv'
  <2>1. UNCHANGED <<intr, proc>>
    BY <1>3 DEF Wakeup1, Wakeup1Hit, Wakeup1Skip
  <2>2. \A r \in Procs : state[r] = "RUNNING" => timepiece'[r] = timepiece[r]
    BY <1>3 DEF Wakeup1, Wakeup1Hit, Wakeup1Skip, Waking, Asleep, qpush, table, TypeOK
  <2> QED BY <1>k, <2>1, <2>2
<1>4. ASSUME NEW c \in Cpus, TimerIrq(c) PROVE YieldInv'
  <2>1. UNCHANGED <<timepiece, proc>> BY <1>4 DEF TimerIrq, table
  <2>2. \A d \in Cpus : intr'[d] = "yield" => intr[d] = "yield"
    BY <1>4 DEF TimerIrq, TypeOK
  <2> QED BY <1>k, <2>1, <2>2
<1>5. ASSUME NEW c \in Cpus, Trap(c) PROVE YieldInv'
  <2>1. CASE TickWakeup(c) \/ TickDone(c) \/ TrapIdle(c) \/ TrapKilled(c)
    <3>1. UNCHANGED <<timepiece, proc>>
      BY <2>1 DEF TickWakeup, TickDone, TrapIdle, TrapKilled, table
    <3>2. \A d \in Cpus : intr'[d] = "yield" => intr[d] = "yield"
      BY <2>1 DEF TickWakeup, TickDone, TrapIdle, TrapKilled, TypeOK
    <3> QED BY <1>k, <3>1, <3>2
  <2>2. CASE TrapTimepiece(c)
    <3>1. PICK p \in Procs : p = proc[c] BY <2>2 DEF TrapTimepiece, TypeOK
    <3>2. PICK t \in 0..UMAX : t = Dec(timepiece[p])
      BY <3>1, DecType DEF TypeOK
    <3>3. /\ timepiece' = [timepiece EXCEPT ![p] = t]
          /\ intr' = [intr EXCEPT ![c] = IF t <= 0 THEN "yield" ELSE "none"]
          /\ proc' = proc
      BY <2>2, <3>1, <3>2 DEF TrapTimepiece
    <3>4. intr'[c] = "yield" => timepiece'[p] = 0
      <4>1. t <= 0 => t = 0 BY <3>2, ProcConstants
      <4> QED BY <3>3, <4>1 DEF TypeOK
    <3>5. \A d \in Cpus \ {c} : intr'[d] = "yield" =>
            intr[d] = "yield" /\ proc[d] \in Procs \ {p}
      BY <1>y, <3>1, <3>3 DEF TypeOK, CpuInv, OneCpuPerProcess
    <3>6. \A r \in Procs \ {p} : timepiece'[r] = timepiece[r]
      BY <3>3 DEF TypeOK
    <3> QED BY <3>1, <3>3, <3>4, <3>5, <3>6 DEF YieldInv
  <2>3. CASE Yield(c)
    <3>1. PICK p \in Procs : p = proc[c] BY <2>3, <1>y DEF Yield
    <3>2. /\ timepiece' = [timepiece EXCEPT ![p] = Slice(Lower(priority[p]))]
          /\ proc' = [proc EXCEPT ![c] = NIL]
          /\ intr' = [intr EXCEPT ![c] = "none"]
      BY <2>3, <3>1 DEF Yield, qpush
    <3>3. \A d \in Cpus : intr'[d] = "yield" =>
            /\ intr[d] = "yield" /\ proc'[d] = proc[d]
            /\ proc[d] \in Procs \ {p}
      BY <1>y, <3>1, <3>2 DEF TypeOK, CpuInv, OneCpuPerProcess
    <3>4. \A r \in Procs \ {p} : timepiece'[r] = timepiece[r]
      BY <3>2 DEF TypeOK
    <3> QED BY <3>3, <3>4 DEF YieldInv
  <2> QED BY <1>5, <2>1, <2>2, <2>3 DEF Trap
<1>6. ASSUME NEW c \in Cpus, ExitInit(c) PROVE YieldInv'
  BY <1>6, <1>k DEF ExitInit, table
<1>7. ASSUME NEW c \in Cpus, NEW p \in Procs, KernelPath(c, p) PROVE YieldInv'
  <2>1. intr' = intr /\ intr[c] = "none"
    BY <1>7 DEF KernelPath, TrapRet, ForkStack, ForkFail, ForkDone,
         ExitWakeParent, ExitReparent, ExitZombie, WaitReap, WaitFail, WaitSleep,
         SleepReturn, SleepAgain, SleepTicks, At
  <2>2. CASE ForkDone(c, p)
    <3>1. /\ np[p] \in Procs /\ state[np[p]] = "EMBRYO"
          /\ timepiece' = [timepiece EXCEPT ![np[p]] = Slice(priority[np[p]])]
          /\ proc' = proc
      BY <2>2 DEF ForkDone, At, ForkInv, qpush
    <3> QED BY <1>k, <2>1, <3>1 DEF TypeOK
  <2>3. CASE ~ForkDone(c, p)
    <3>1. timepiece' = timepiece /\ \A d \in Cpus \ {c} : proc'[d] = proc[d]
      BY <1>7, <2>3 DEF KernelPath, TrapRet, ForkStack, ForkFail,
         ExitWakeParent, ExitReparent, ExitZombie, WaitReap, WaitFail, WaitSleep,
         SleepReturn, SleepAgain, SleepTicks, GoToSleep, table, TypeOK
    <3> QED BY <1>k, <2>1, <3>1
  <2> QED BY <2>2, <2>3
<1>8. ASSUME NEW c \in Cpus, NEW p \in Procs, UserStep(c, p) PROVE YieldInv'
  <2>1. UNCHANGED <<intr, timepiece>> /\ intr[c] = "none"
    BY <1>8 DEF UserStep, Syscall, UserFault, ForkAlloc, ForkFull, ExitCall,
         WaitCall, SleepCall, SleepNot, Kill, At, table
  <2>2. \A d \in Cpus \ {c} : proc'[d] = proc[d]
    BY <1>8 DEF UserStep, Syscall, UserFault, ForkAlloc, ForkFull, ExitCall,
         WaitCall, SleepCall, SleepNot, Kill, GoToSleep, TypeOK
  <2> QED BY <1>k, <2>1, <2>2
<1>9. CASE PanicLoop BY <1>9, <1>1 DEF PanicLoop
<1> QED BY <1>1, <1>2, <1>3, <1>4, <1>5, <1>6, <1>7, <1>8, <1>9 DEF Next

\* qpush() puts its process on a run queue, and nobody else on or off.
LEMMA PushOnQueue ==
  ASSUME TypeOK, NEW p \in Procs, NEW q \in Queues, qpush(p, q)
  PROVE  OnQueue(p)' /\ \A r \in Procs \ {p} : OnQueue(r)' <=> OnQueue(r)
<1>1. order' = [order EXCEPT ![q] = Append(order[q], p)] BY DEF qpush, TypeOK
<1>2. order[q] \in Seq(Procs) /\ order \in [Queues -> Seq(Procs)] BY DEF TypeOK
<1>3. order'[q] = Append(order[q], p) /\ \A s \in Queues \ {q} : order'[s] = order[s]
  BY <1>1, <1>2
<1>4. /\ Len(order'[q]) = Len(order[q]) + 1
      /\ order'[q][Len(order[q]) + 1] = p
      /\ \A i \in 1..Len(order[q]) : order'[q][i] = order[q][i]
  BY <1>2, <1>3
<1>5. Len(order[q]) \in Nat BY <1>2
<1>6. p \in Queued(q)'
  BY <1>4, <1>5 DEF Queued
<1>7. \A s \in Queues : \A r \in Queued(s) : r \in Queued(s)'
  BY <1>3, <1>4, <1>5 DEF Queued
<1>8. \A s \in Queues : \A r \in Queued(s)' : r = p \/ r \in Queued(s)
  <2>1. \A i \in 1..(Len(order[q]) + 1) :
          order'[q][i] = p \/ order'[q][i] \in Queued(q)
    BY <1>4, <1>5 DEF Queued
  <2> QED BY <1>3, <1>4, <2>1 DEF Queued
<1> QED BY <1>6, <1>7, <1>8 DEF OnQueue

\* scheduler() takes nobody but the process it switches to off the queues.
LEMMA PopOnQueue ==
  ASSUME IInv, NEW c \in Cpus, SchedPop(c)
  PROVE  \A r \in Procs \ {head[idx]} : OnQueue(r)' <=> OnQueue(r)
<1>1. TypeOK BY DEF IInv
<1>2. /\ idx \in Queues /\ order[idx] # << >> /\ head[idx] = order[idx][1]
  BY QueueHead
<1>3. order' = [order EXCEPT ![idx] = Tail(order[idx])]
  BY <1>1 DEF SchedPop, qpop, TypeOK
<1>4. order[idx] \in Seq(Procs) /\ order \in [Queues -> Seq(Procs)]
  BY <1>1, <1>2 DEF TypeOK
<1>5. /\ order'[idx] = Tail(order[idx])
      /\ \A s \in Queues \ {idx} : order'[s] = order[s]
  BY <1>2, <1>3, <1>4
<1>6. PICK i \in Queues : i = idx BY <1>2
<1>7. /\ Len(order'[i]) = Len(order[i]) - 1
      /\ \A k \in 1..(Len(order[i]) - 1) : order'[i][k] = order[i][k + 1]
      /\ Len(order[i]) \in Nat
  BY <1>2, <1>4, <1>5, <1>6
<1>8. \A r \in Queued(i) : r # order[i][1] => r \in Queued(i)'
  <2> SUFFICES ASSUME NEW k \in 1..Len(order[i]), order[i][k] # order[i][1]
               PROVE  order[i][k] \in Queued(i)'
    BY DEF Queued
  <2>1. k - 1 \in 1..(Len(order[i]) - 1) BY <1>7
  <2>2. order'[i][k - 1] = order[i][k] BY <1>7, <2>1
  <2> QED BY <1>7, <2>1, <2>2 DEF Queued
<1>9. \A s \in Queues \ {i} : \A r \in Queued(s) : r \in Queued(s)'
  BY <1>5, <1>6 DEF Queued
<1>10. \A r \in Queued(i)' : r \in Queued(i)
  <2> SUFFICES ASSUME NEW k \in 1..(Len(order[i]) - 1)
               PROVE  order'[i][k] \in Queued(i)
    BY <1>7 DEF Queued
  <2>1. k + 1 \in 1..Len(order[i]) BY <1>7
  <2> QED BY <1>7, <2>1 DEF Queued
<1>11. \A s \in Queues \ {i} : \A r \in Queued(s)' : r \in Queued(s)
  BY <1>5, <1>6 DEF Queued
<1> QED BY <1>2, <1>6, <1>8, <1>9, <1>10, <1>11 DEF OnQueue

(***************************************************************************)
(* Every step puts whoever it makes RUNNABLE on a run queue, kill() aside, *)
(* and takes off the queues only what it switches to.                      *)
(***************************************************************************)
LEMMA RunnableStep == IInv /\ RunnableQueued /\ [Next]_vars => RunnableQueued'
<1> SUFFICES ASSUME IInv, RunnableQueued, [Next]_vars PROVE RunnableQueued'
  OBVIOUS
<1>t. TypeOK /\ CpuInv /\ ForkInv BY DEF IInv
<1> USE <1>t, ConstFacts
\* The queues hold nothing but RUNNABLE processes, after the step too.
<1>q. \A r \in Procs : OnQueue(r)' => state'[r] = "RUNNABLE"
  <2>1. QueueEntries' BY InvStep DEF IInv
  <2> QED BY <2>1 DEF QueueEntries, OnQueue, Queued
<1>k. ASSUME stranded' = stranded,
             \A r \in stranded : state'[r] = "RUNNABLE" /\ killed'[r] /\ ~OnQueue(r)',
             \A r \in Procs : state'[r] = "RUNNABLE" => OnQueue(r)' \/ r \in stranded
      PROVE  RunnableQueued'
  BY <1>k, <1>q DEF RunnableQueued, TypeOK
\* The queues are left alone, and so are those that are RUNNABLE.
<1>u. ASSUME UNCHANGED <<order, stranded>>,
             \A r \in Procs : state'[r] = "RUNNABLE" <=> state[r] = "RUNNABLE",
             \A r \in Procs : state[r] = "RUNNABLE" /\ killed[r] => killed'[r]
      PROVE  RunnableQueued'
  <2>1. \A r \in Procs : OnQueue(r)' <=> OnQueue(r) BY <1>u DEF OnQueue, Queued
  <2> QED BY <1>u, <1>k, <2>1 DEF RunnableQueued, TypeOK
\* One process becomes RUNNABLE and is queued.
<1>p. ASSUME NEW p \in Procs, NEW q \in Queues, qpush(p, q),
             state[p] # "RUNNABLE",
             state' = [state EXCEPT ![p] = "RUNNABLE"], killed' = killed
      PROVE  RunnableQueued'
  <2>1. OnQueue(p)' /\ \A r \in Procs \ {p} : OnQueue(r)' <=> OnQueue(r)
    BY <1>p, PushOnQueue
  <2>2. \A r \in Procs \ {p} : state'[r] = state[r] BY <1>p DEF TypeOK
  <2>3. stranded' = stranded BY <1>p DEF qpush
  <2>4. p \notin stranded /\ stranded \subseteq Procs
    BY <1>p DEF RunnableQueued, TypeOK
  <2>5. \A r \in stranded : state'[r] = "RUNNABLE" /\ killed'[r] /\ ~OnQueue(r)'
    BY <1>p, <2>1, <2>2, <2>4 DEF RunnableQueued
  <2>6. \A r \in Procs : state'[r] = "RUNNABLE" => OnQueue(r)' \/ r \in stranded
    BY <2>1, <2>2 DEF RunnableQueued
  <2> QED BY <1>k, <2>3, <2>5, <2>6
<1>1. CASE UNCHANGED vars BY <1>1, <1>u DEF vars, table, pqueue, lists
<1>2. ASSUME NEW c \in Cpus, Scheduler(c) PROVE RunnableQueued'
  <2>1. CASE SchedPop(c)
    <3>1. PICK h \in Procs : h = head[idx] /\ OnQueue(h)
      BY <2>1, QueueHead DEF OnQueue
    <3>2. state' = [state EXCEPT ![h] = "RUNNING"] /\ killed' = killed
      BY <2>1, <3>1, PopRuns DEF SchedPop
    <3>3. \A r \in Procs \ {h} : OnQueue(r)' <=> OnQueue(r)
      BY <2>1, <3>1, PopOnQueue
    <3>4. state'[h] = "RUNNING" /\ \A r \in Procs \ {h} : state'[r] = state[r]
      BY <3>2 DEF TypeOK
    <3>5. stranded' = stranded BY <2>1 DEF SchedPop, qpop
    <3>6. h \notin stranded /\ stranded \subseteq Procs
      BY <3>1 DEF RunnableQueued, TypeOK
    <3>7. \A r \in stranded : state'[r] = "RUNNABLE" /\ killed'[r] /\ ~OnQueue(r)'
      BY <3>2, <3>3, <3>4, <3>6 DEF RunnableQueued
    <3>8. \A r \in Procs : state'[r] = "RUNNABLE" => OnQueue(r)' \/ r \in stranded
      BY <3>3, <3>4 DEF RunnableQueued
    <3> QED BY <1>k, <3>5, <3>7, <3>8
  <2>2. CASE SchedAcquire(c) \/ SchedNextQueue(c) \/ SchedIdle(c)
    BY <2>2, <1>u
       DEF SchedAcquire, SchedNextQueue, SchedIdle, table, pqueue, lists
  <2> QED BY <1>2, <2>1, <2>2 DEF Scheduler
<1>3. ASSUME NEW c \in Cpus, Wakeup1(c) PROVE RunnableQueued'
  <2>1. CASE Wakeup1Hit(c)
    <3>1. /\ idx \in Procs /\ Raise(priority[idx]) \in Queues
          /\ qpush(idx, Raise(priority[idx])) /\ state[idx] # "RUNNABLE"
          /\ state' = [state EXCEPT ![idx] = "RUNNABLE"] /\ killed' = killed
      BY <2>1, QueueMoves DEF Wakeup1Hit, Waking, Asleep, TypeOK
    <3> QED BY <1>p, <3>1
  <2> QED BY <1>3, <1>u, <2>1 DEF Wakeup1, Wakeup1Skip, table, pqueue, lists
<1>4. ASSUME NEW c \in Cpus, TimerIrq(c) PROVE RunnableQueued'
  BY <1>4, <1>u DEF TimerIrq, table, pqueue, lists
<1>5. ASSUME NEW c \in Cpus, Trap(c) PROVE RunnableQueued'
  <2>1. CASE Yield(c)
    <3>1. proc[c] \in Procs /\ state[proc[c]] = "RUNNING"
      BY <2>1 DEF Yield, CpuInv, OneCpuPerProcess, TypeOK
    <3>2. /\ Lower(priority[proc[c]]) \in Queues
          /\ qpush(proc[c], Lower(priority[proc[c]]))
          /\ state' = [state EXCEPT ![proc[c]] = "RUNNABLE"] /\ killed' = killed
      BY <2>1, <3>1, QueueMoves DEF Yield, TypeOK
    <3> QED BY <1>p, <3>1, <3>2
  <2>2. CASE \/ TickWakeup(c) \/ TickDone(c) \/ TrapIdle(c) \/ TrapKilled(c)
             \/ TrapTimepiece(c)
    <3>1. UNCHANGED <<order, stranded, state, killed>>
      BY <2>2 DEF TickWakeup, TickDone, TrapIdle, TrapKilled, TrapTimepiece,
                  table, pqueue, lists
    <3> QED BY <1>u, <3>1
  <2> QED BY <1>5, <2>1, <2>2 DEF Trap
<1>6. ASSUME NEW c \in Cpus, ExitInit(c) PROVE RunnableQueued'
  BY <1>6, <1>u DEF ExitInit, table, pqueue, lists
<1>7. ASSUME NEW c \in Cpus, NEW p \in Procs, KernelPath(c, p)
      PROVE  RunnableQueued'
  <2>a. ASSUME proc[c] = p PROVE state[p] = "RUNNING"
    BY <2>a DEF CpuInv, OneCpuPerProcess
  <2>1. CASE ForkDone(c, p)
    <3>1. np[p] \in Procs /\ state[np[p]] = "EMBRYO"
      BY <2>1 DEF ForkDone, At, ForkInv
    <3>2. /\ priority[np[p]] \in Queues /\ qpush(np[p], priority[np[p]])
          /\ state' = [state EXCEPT ![np[p]] = "RUNNABLE"] /\ killed' = killed
      BY <2>1, <3>1 DEF ForkDone, TypeOK
    <3> QED BY <1>p, <3>1, <3>2
  <2>2. CASE \/ TrapRet(c, p) \/ ForkStack(c, p) \/ ExitWakeParent(c, p)
             \/ ExitReparent(c, p) \/ WaitFail(c, p) \/ SleepReturn(c, p)
             \/ SleepAgain(c, p)
    <3>1. UNCHANGED <<order, stranded, state, killed>>
      BY <2>2 DEF TrapRet, ForkStack, ExitWakeParent, ExitReparent, WaitFail,
                  SleepReturn, SleepAgain, table, pqueue, lists
    <3> QED BY <1>u, <3>1
  <2>3. CASE \/ ForkFail(c, p) \/ ExitZombie(c, p) \/ WaitSleep(c, p)
             \/ SleepTicks(c, p)
    <3>1. UNCHANGED <<order, stranded, killed>>
      BY <2>3 DEF ForkFail, ExitZombie, WaitSleep, SleepTicks, pqueue, lists
    <3>2. CASE ForkFail(c, p)
      <4>1. /\ np[p] \in Procs /\ state[np[p]] = "EMBRYO"
            /\ state' = [state EXCEPT ![np[p]] = "UNUSED"]
        BY <3>2 DEF ForkFail, At, ForkInv
      <4> QED BY <1>u, <3>1, <4>1 DEF TypeOK
    <3>3. CASE ExitZombie(c, p) \/ WaitSleep(c, p) \/ SleepTicks(c, p)
      <4>1. /\ state[p] = "RUNNING"
            /\ \E st \in {"ZOMBIE", "SLEEPING"} : state' = [state EXCEPT ![p] = st]
        BY <2>a, <3>3 DEF ExitZombie, WaitSleep, SleepTicks, GoToSleep, At
      <4> QED BY <1>u, <3>1, <4>1 DEF TypeOK
    <3> QED BY <2>3, <3>2, <3>3
  <2>4. CASE WaitReap(c, p)
    <3>1. PICK n \in Procs : /\ state[n] = "ZOMBIE"
                             /\ state' = [state EXCEPT ![n] = "UNUSED"]
                             /\ killed' = [killed EXCEPT ![n] = FALSE]
      BY <2>4 DEF WaitReap, ZombieChild
    <3>2. UNCHANGED <<order, stranded>> BY <2>4 DEF WaitReap, pqueue, lists
    <3>3. /\ state'[n] = "UNUSED"
          /\ \A r \in Procs \ {n} : state'[r] = state[r] /\ killed'[r] = killed[r]
      BY <3>1 DEF TypeOK
    <3> QED BY <1>u, <3>1, <3>2, <3>3
  <2> QED BY <1>7, <2>1, <2>2, <2>3, <2>4 DEF KernelPath
<1>8. ASSUME NEW c \in Cpus, NEW p \in Procs, UserStep(c, p) PROVE RunnableQueued'
  <2>1. order' = order
    BY <1>8 DEF UserStep, Syscall, UserFault, ForkAlloc, ForkFull, ExitCall,
         WaitCall, SleepCall, SleepNot, Kill, pqueue, lists
  <2>2. CASE \/ Syscall(c, p) \/ ForkFull(c, p) \/ ExitCall(c, p)
             \/ WaitCall(c, p) \/ SleepCall(c, p) \/ SleepNot(c, p)
    <3>1. UNCHANGED <<stranded, state, killed>>
      BY <2>2 DEF Syscall, ForkFull, ExitCall, WaitCall, SleepCall, SleepNot,
                  table, pqueue
    <3> QED BY <1>u, <2>1, <3>1
  <2>3. CASE UserFault(c, p)
    <3>1. /\ UNCHANGED <<stranded, state>>
          /\ \A r \in Procs : killed[r] => killed'[r]
      BY <2>3 DEF UserFault, pqueue, TypeOK
    <3> QED BY <1>u, <2>1, <3>1
  <2>4. CASE ForkAlloc(c, p)
    <3>1. PICK n \in Procs : /\ state[n] = "UNUSED"
                             /\ state' = [state EXCEPT ![n] = "EMBRYO"]
      BY <2>4 DEF ForkAlloc, FirstUnused
    <3>2. UNCHANGED <<stranded, killed>> BY <2>4 DEF ForkAlloc, pqueue
    <3> QED BY <1>u, <2>1, <3>1, <3>2 DEF TypeOK
  <2>5. CASE Kill(c, p)
    <3>1. PICK t \in Procs :
            /\ killed' = [killed EXCEPT ![t] = TRUE]
            /\ state' = IF state[t] = "SLEEPING"
                          THEN [state EXCEPT ![t] = "RUNNABLE"] ELSE state
            /\ stranded' = IF state[t] = "SLEEPING"
                             THEN stranded \cup {t} ELSE stranded
      BY <2>5 DEF Kill
    <3>2. /\ killed'[t]
          /\ \A r \in Procs \ {t} : state'[r] = state[r] /\ killed'[r] = killed[r]
      BY <3>1 DEF TypeOK
    <3>3. CASE state[t] # "SLEEPING" BY <1>u, <2>1, <3>1, <3>2, <3>3
    <3>4. CASE state[t] = "SLEEPING"
      <4>1. \A r \in Procs : OnQueue(r)' <=> OnQueue(r)
        BY <2>1 DEF OnQueue, Queued
      <4>2. ~OnQueue(t) BY <3>4 DEF RunnableQueued
      <4>3. state'[t] = "RUNNABLE" /\ stranded' = stranded \cup {t}
        BY <3>1, <3>4 DEF TypeOK
      <4> QED BY <3>2, <4>1, <4>2, <4>3 DEF RunnableQueued
    <3> QED BY <3>3, <3>4
  <2> QED BY <1>8, <2>2, <2>3, <2>4, <2>5 DEF UserStep
<1>9. CASE PanicLoop BY <1>9, <1>1 DEF PanicLoop
<1> QED BY <1>1, <1>2, <1>3, <1>4, <1>5, <1>6, <1>7, <1>8, <1>9 DEF Next

-----------------------------------------------------------------------------
(* The theorems about families, sleepers and priorities.                   *)

\* The invariants of families, sleepers and slices, on top of IInv.
FullInv ==
  /\ IInv
  /\ AsleepInv
  /\ FamilyInv
  /\ ExitInv
  /\ TickInv
  /\ DozeInv
  /\ YieldInv
  /\ RunnableQueued

\* The state left by main() satisfies them.
LEMMA FullInit == Init => FullInv
<1> SUFFICES ASSUME Init PROVE FullInv
  OBVIOUS
<1> USE ConstFacts
<1>1. IInv BY InvInit
<1>2. \A p \in Procs : pc[p] = "user" /\ state[p] \in {"RUNNABLE", "UNUSED"}
  BY DEF Init
<1>3. AsleepInv BY <1>2 DEF AsleepInv
<1>4. FamilyInv BY DEF Init, FamilyInv, NoOrphans
<1>5. ExitInv BY <1>2 DEF ExitInv, AtEnd, Missed, Waiting
<1>6. Ticks # NIL BY ProcConstants DEF Ticks, NIL
<1>7. TickInv BY <1>2, <1>6 DEF Init, TickInv, Overdue
<1>8. YieldInv BY DEF Init, YieldInv
<1>9. RunnableQueued
  <2>1. order[TopQueue] = <<InitProc>> BY DEF Init
  <2>2. InitProc \in Queued(TopQueue) BY <2>1 DEF Queued
  <2>3. \A p \in Procs : state[p] = "RUNNABLE" => p = InitProc BY DEF Init
  <2>4. \A p \in Procs : OnQueue(p) => state[p] = "RUNNABLE"
    <3>1. QueueEntries BY <1>1 DEF IInv
    <3> QED BY <3>1 DEF QueueEntries, OnQueue, Queued
  <2>5. stranded = {} BY DEF Init
  <2> QED BY <2>2, <2>3, <2>4, <2>5 DEF RunnableQueued, OnQueue
<1>10. DozeInv BY <1>2 DEF DozeInv
<1> QED BY <1>1, <1>3, <1>4, <1>5, <1>7, <1>8, <1>9, <1>10 DEF FullInv

\* Every step preserves them.
LEMMA FullStep == FullInv /\ [Next]_vars => FullInv'
BY InvStep, AsleepStep, FamilyStep, ExitStep, TickStep, DozeStep, YieldStep,
   RunnableStep DEF FullInv

\* They hold in every reachable state.
THEOREM FullInvariance == Spec => []FullInv
BY FullInit, FullStep, PTL DEF Spec

(***************************************************************************)
(* Whatever makes a process RUNNABLE also queues it, killed or not:        *)
(* wakeup1(), yield() and fork() all go through qpush(); and nobody leaves *)
(* a queue but to run.  Only kill() makes a sleeper RUNNABLE on no queue,  *)
(* and nothing queues it afterwards.                                       *)
(***************************************************************************)
THEOREM RunnableIsQueued == Spec => []RunnableQueued
BY FullInvariance, PTL DEF FullInv

(***************************************************************************)
(* exit() never loses the wakeup of a parent in wait(), for any number of  *)
(* CPUs and processes: whenever ptable.lock is free, nobody sleeps in      *)
(* wait() with a child to reap.                                            *)
(***************************************************************************)
THEOREM ExitWakes == Spec => []NoLostExit
<1>1. FullInv => NoLostExit
  <2> SUFFICES ASSUME FullInv, lock = NIL, NEW p \in Procs, NEW n \in Procs,
                      Missed(p, n)
               PROVE  FALSE
    BY DEF NoLostExit, Missed, Waiting
  <2>1. PICK r \in Procs : pc[r] \in AtEnd
    BY DEF FullInv, ExitInv, AtEnd
  <2> QED BY <2>1, ConstFacts DEF FullInv, ExitInv
<1> QED BY <1>1, FullInvariance, PTL

(***************************************************************************)
(* The clock never loses the wakeup of a process in sys_sleep(): once it   *)
(* has released tickslock, whoever sleeps there has ticks to go.           *)
(***************************************************************************)
THEOREM TickWakes == Spec => []NoLostTick
<1>1. FullInv => NoLostTick
  <2> SUFFICES ASSUME FullInv, intr[BootCpu] # "tick", NEW p \in Procs,
                      state[p] = "SLEEPING", pc[p] = "sleep"
               PROVE  left[p] > 0
    BY DEF NoLostTick
  <2>1. left[p] # 0 BY DEF FullInv, TickInv, Overdue
  <2>2. left[p] \in 0..MaxSleep BY DEF FullInv, IInv, TypeOK
  <2> QED BY <2>1, <2>2, ProcConstants
<1> QED BY <1>1, FullInvariance, PTL

(***************************************************************************)
(* Every process has a live parent to reap it, init being the parent of    *)
(* last resort, and a free slot is nobody's child.                         *)
(***************************************************************************)
THEOREM FamiliesKept == Spec => []NoOrphans
BY FullInvariance, PTL DEF FullInv, FamilyInv

(***************************************************************************)
(* Priorities move by the feedback rule only: one down when a time slice   *)
(* is used up, one up when a sleeper is woken, to the top for a new        *)
(* process.                                                                *)
(***************************************************************************)
THEOREM FeedbackRule == Spec => PriorityFeedback
<1> DEFINE Rule ==
      \A p \in Procs :
        priority'[p] # priority[p] =>
          \/ state[p] = "RUNNING" /\ timepiece[p] = 0
               /\ priority'[p] = priority[p] - 1
          \/ state[p] = "SLEEPING" /\ priority'[p] = priority[p] + 1
          \/ state[p] = "EMBRYO" /\ priority'[p] = TopQueue
<1>1. FullInv /\ [Next]_vars => [Rule]_vars
  <2> SUFFICES ASSUME FullInv, Next PROVE Rule
    OBVIOUS
  <2>t. TypeOK /\ CpuInv /\ ForkInv /\ YieldInv BY DEF FullInv, IInv
  <2> USE <2>t, ConstFacts
  <2>1. ASSUME NEW c \in Cpus, Wakeup1Hit(c) PROVE Rule
    <3>1. /\ idx \in Procs /\ state[idx] = "SLEEPING"
          /\ priority' = [priority EXCEPT ![idx] = Raise(priority[idx])]
      BY <2>1 DEF Wakeup1Hit, Waking, Asleep, TypeOK
    <3> QED BY <3>1 DEF Raise, TypeOK
  <2>2. ASSUME NEW c \in Cpus, Yield(c) PROVE Rule
    <3>1. PICK p \in Procs : p = proc[c] BY <2>2 DEF Yield, CpuInv, TypeOK
    <3>2. /\ state[p] = "RUNNING" /\ timepiece[p] = 0
          /\ priority' = [priority EXCEPT ![p] = Lower(priority[p])]
      BY <2>2, <3>1 DEF Yield, YieldInv, CpuInv, OneCpuPerProcess, TypeOK
    <3> QED BY <3>2 DEF Lower, TypeOK
  <2>3. ASSUME NEW c \in Cpus, NEW p \in Procs, ForkStack(c, p) PROVE Rule
    <3>1. /\ np[p] \in Procs /\ state[np[p]] = "EMBRYO"
          /\ priority' = [priority EXCEPT ![np[p]] = TopQueue]
      BY <2>3 DEF ForkStack, At, ForkInv
    <3> QED BY <3>1 DEF TypeOK
  <2>4. CASE priority' = priority BY <2>4
  <2>5. ASSUME NEW c \in Cpus, Scheduler(c) \/ TimerIrq(c) \/ ExitInit(c)
        PROVE  priority' = priority
    BY <2>5 DEF Scheduler, SchedAcquire, SchedNextQueue, SchedIdle, SchedPop,
         TimerIrq, ExitInit, table
  <2>6. ASSUME NEW c \in Cpus, Trap(c) \/ Wakeup1(c)
        PROVE  priority' = priority \/ Yield(c) \/ Wakeup1Hit(c)
    BY <2>6 DEF Trap, TickWakeup, TickDone, TrapIdle, TrapKilled, TrapTimepiece,
         Wakeup1, Wakeup1Skip, table
  <2>7. ASSUME NEW c \in Cpus, NEW p \in Procs, KernelPath(c, p)
        PROVE  priority' = priority \/ ForkStack(c, p)
    BY <2>7 DEF KernelPath, TrapRet, ForkFail, ForkDone, ExitWakeParent,
         ExitReparent, ExitZombie, WaitReap, WaitFail, WaitSleep, SleepReturn,
         SleepAgain, SleepTicks, table
  <2>8. ASSUME NEW c \in Cpus, NEW p \in Procs, UserStep(c, p)
        PROVE  priority' = priority
    BY <2>8 DEF UserStep, Syscall, UserFault, ForkAlloc, ForkFull, ExitCall,
         WaitCall, SleepCall, SleepNot, Kill, table
  <2>9. CASE PanicLoop BY <2>4, <2>9 DEF PanicLoop, vars, table
  <2> HIDE DEF Rule
  <2> QED BY <2>1, <2>2, <2>3, <2>4, <2>5, <2>6, <2>7, <2>8, <2>9 DEF Next
<1> QED BY <1>1, FullInvariance, PTL DEF Spec, PriorityFeedback
=============================================================================
