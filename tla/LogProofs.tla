------------------------------ MODULE LogProofs ------------------------------
(***************************************************************************)
(* Proofs about Log for any number of processes and blocks, any log size.  *)
(*                                                                         *)
(* The theorems assume LogFits: the largest operation leaves enough of its *)
(* reservation unused to make up for the header block of the on-disk log.  *)
(* Here MAXOPBLOCKS = 10, LOGSIZE = log.size = 30, and the largest         *)
(* operation, a chunk of filewrite(), uses 7 blocks (4 data blocks, the    *)
(* bitmap, the indirect block, the inode), so LogFits holds.               *)
(*                                                                         *)
(* The inductive invariant IInv has one part per concern.  SpaceInv is the *)
(* reservation argument: what is in the log plus what is reserved fits, if *)
(* the blocks already used by the operations in progress are not counted   *)
(* twice; Credit is the set of these used blocks, so that its cardinality  *)
(* is a sum over the operations.  CommitInv, BufInv and HeaderInv say who  *)
(* is doing what; CacheInv and CopyInv relate cache, log and disk, and give *)
(* the refinement of AtomicDisk.                                           *)
(***************************************************************************)
EXTENDS Log, FiniteSetTheorems, TLAPS

\* What the sizes of the log must satisfy.
LogFits ==
  /\ OpMax < MAXOPBLOCKS
  /\ LOGSIZE - (MAXOPBLOCKS - OpMax) =< NLOG - 2

(***************************************************************************)
(* The log blocks used by the operations of A: pairs of an operation and a *)
(* number up to what it has used.                                          *)
(***************************************************************************)
CreditOf(A, u) == {x \in A \X (1..OpMax) : x[2] =< u[x[1]]}

\* The log blocks used by the operations in progress.
Credit == CreditOf(Active, used)

(***************************************************************************)
(* Log space: log.outstanding counts the operations in progress, what is   *)
(* logged or reserved fits in LOGSIZE, and a log_write() under way has a   *)
(* block to use; so nothing panics.                                        *)
(***************************************************************************)
SpaceInv ==
  /\ outstanding = Cardinality(Active)
  /\ ~Booting => Len(lh) + outstanding * MAXOPBLOCKS =< LOGSIZE + Cardinality(Credit)
  /\ \A o \in Ops : pc[o] = "write" => InLog(lh, buf[o]) \/ used[o] < OpMax
  /\ ~panicked

(***************************************************************************)
(* A commit excludes operations, there is one committer, and a sleeper of  *)
(* begin_op() has an end_op() to wait for.                                 *)
(***************************************************************************)
CommitInv ==
  /\ committing <=> step \in {"log", "install", "done"}
  /\ committing \/ Booting => Active = {}
  /\ \A o \in Ops : pc[o] = "commit" => committing
  /\ \A o, x \in Ops : pc[o] = "commit" /\ pc[x] = "commit" => o = x
  /\ \A o \in Ops : Sleeping(o) => Active # {} \/ committing

\* A buffer is held during log_write(), by one process.
BufInv ==
  /\ \A o \in Ops : buf[o] # NoBlock <=> pc[o] = "write"
  /\ \A o, x \in Ops : buf[o] = buf[x] /\ buf[o] # NoBlock => o = x

(***************************************************************************)
(* The in-memory and the on-disk header never name a block twice, and      *)
(* agree as the phase of the commit or of the recovery says.               *)
(***************************************************************************)
HeaderInv ==
  /\ \A i, j \in 1..Len(lh) : lh[i] = lh[j] => i = j
  /\ \A i, j \in 1..Len(hdr) : hdr[i] = hdr[j] => i = j
  /\ step \in {"none", "log", "done"} => hdr = << >>
  /\ step \in {"install", "recover"} => hdr = lh
  /\ step \in {"boot", "done"} => lh = << >>
  /\ step = "none" /\ Active = {} => lh = << >>

\* The first block of the transaction that is still pinned in the cache.
Pending == IF step = "install" THEN tail + 1 ELSE 1

(***************************************************************************)
(* B_DIRTY pins exactly the logged blocks not yet installed; any other     *)
(* buffer that nobody is changing equals its home block.                   *)
(***************************************************************************)
CacheInv ==
  /\ Booting => cache = disk /\ dirty = {}
  /\ ~Booting => \A b \in Blocks :
       b \in dirty <=> \E i \in 1..Len(lh) : i >= Pending /\ lh[i] = b
  /\ \A b \in Blocks : b \in dirty \/ Locked(b) \/ cache[b] = disk[b]

\* The blocks copied so far by write_log() and install_trans() are copies.
CopyInv ==
  /\ step = "log" => \A i \in 1..tail : logdata[i] = cache[lh[i]]
  /\ step = "install" => \A i \in 1..Len(lh) : logdata[i] = cache[lh[i]]
  /\ step \in {"install", "recover"} =>
       \A i \in 1..tail : disk[lh[i]] = logdata[i]

\* The inductive invariant.
IInv == TypeOK /\ SpaceInv /\ CommitInv /\ BufInv /\ HeaderInv /\ CacheInv /\ CopyInv

\* The used blocks are finitely many, at most OpMax per operation.
LEMMA CreditBound ==
  ASSUME NEW A, IsFiniteSet(A), NEW u
  PROVE  /\ IsFiniteSet(CreditOf(A, u))
         /\ Cardinality(CreditOf(A, u)) \in Nat
         /\ Cardinality(CreditOf(A, u)) =< Cardinality(A) * OpMax
<1>1. OpMax \in Nat BY LogConstants
<1>2. IsFiniteSet(1..OpMax) /\ Cardinality(1..OpMax) = OpMax
  BY <1>1, FS_Interval
<1>3. /\ IsFiniteSet(A \X (1..OpMax))
      /\ Cardinality(A \X (1..OpMax)) = Cardinality(A) * OpMax
  BY <1>2, FS_Product
<1>4. CreditOf(A, u) \in SUBSET (A \X (1..OpMax)) BY DEF CreditOf
<1> QED BY <1>3, <1>4, FS_Subset, FS_CardinalityType

\* An operation that begins has used nothing.
LEMMA CreditBegin ==
  ASSUME NEW A \in SUBSET Ops, NEW o \in Ops \ A, NEW u \in [Ops -> 0..OpMax]
  PROVE  CreditOf(A \cup {o}, [u EXCEPT ![o] = 0]) = CreditOf(A, u)
<1>1. OpMax \in Nat BY LogConstants
<1>2. ASSUME NEW x \in (A \cup {o}) \X (1..OpMax), x[2] =< [u EXCEPT ![o] = 0][x[1]]
      PROVE  x \in A \X (1..OpMax) /\ x[2] =< u[x[1]]
  BY <1>1, <1>2
<1>3. ASSUME NEW x \in A \X (1..OpMax), x[2] =< u[x[1]]
      PROVE  x \in (A \cup {o}) \X (1..OpMax) /\ x[2] =< [u EXCEPT ![o] = 0][x[1]]
  BY <1>1, <1>3
<1> QED BY <1>2, <1>3 DEF CreditOf

\* An operation that ends gives back at most OpMax used blocks.
LEMMA CreditEnd ==
  ASSUME NEW A \in SUBSET Ops, IsFiniteSet(A), NEW o \in A, NEW u
  PROVE  Cardinality(CreditOf(A, u)) =< Cardinality(CreditOf(A \ {o}, u)) + OpMax
<1>1. OpMax \in Nat BY LogConstants
<1>2. IsFiniteSet(1..OpMax) /\ Cardinality(1..OpMax) = OpMax
  BY <1>1, FS_Interval
<1> DEFINE D == {o} \X (1..OpMax)
           C == CreditOf(A, u)
           E == CreditOf(A \ {o}, u)
<1>3. IsFiniteSet(D) /\ Cardinality(D) = OpMax
  <2>1. IsFiniteSet({o}) /\ Cardinality({o}) = 1 BY FS_Singleton
  <2>2. IsFiniteSet(D) /\ Cardinality(D) = 1 * OpMax BY <1>2, <2>1, FS_Product
  <2> QED BY <1>1, <2>2
<1>4. IsFiniteSet(A \ {o}) BY FS_RemoveElement
<1>5. IsFiniteSet(C) /\ IsFiniteSet(E) /\ Cardinality(E) \in Nat
  BY <1>4, CreditBound
<1>6. C \in SUBSET (E \cup D) BY DEF CreditOf
<1>7. /\ IsFiniteSet(E \cup D)
      /\ Cardinality(E \cup D) = Cardinality(E) + Cardinality(D) - Cardinality(E \cap D)
  BY <1>3, <1>5, FS_Union
<1>8. Cardinality(E \cap D) \in Nat
  BY <1>5, FS_Intersection, FS_CardinalityType
<1>9. Cardinality(C) =< Cardinality(E \cup D) BY <1>6, <1>7, FS_Subset
<1>10. Cardinality(C) \in Nat BY <1>5, FS_CardinalityType
<1> HIDE DEF C, D, E
<1>11. Cardinality(C) =< Cardinality(E) + OpMax
  BY <1>1, <1>3, <1>5, <1>7, <1>8, <1>9, <1>10
<1> QED BY <1>11 DEF C, E

\* Logging a new block adds one to the used blocks.
LEMMA CreditUse ==
  ASSUME NEW A \in SUBSET Ops, IsFiniteSet(A), NEW o \in A,
         NEW u \in [Ops -> 0..OpMax], u[o] < OpMax
  PROVE  Cardinality(CreditOf(A, [u EXCEPT ![o] = @ + 1]))
           = Cardinality(CreditOf(A, u)) + 1
<1>1. OpMax \in Nat BY LogConstants
<1> DEFINE w == [u EXCEPT ![o] = @ + 1]
           y == <<o, u[o] + 1>>
<1>2. CreditOf(A, w) = CreditOf(A, u) \cup {y}
  <2>1. ASSUME NEW x \in A \X (1..OpMax), x[2] =< w[x[1]], x # y
        PROVE  x[2] =< u[x[1]]
    BY <1>1, <2>1
  <2>2. ASSUME NEW x \in A \X (1..OpMax), x[2] =< u[x[1]]
        PROVE  x[2] =< w[x[1]]
    BY <1>1, <2>2
  <2>3. y \in A \X (1..OpMax) /\ y[2] =< w[y[1]]
    BY <1>1
  <2> QED BY <2>1, <2>2, <2>3 DEF CreditOf
<1>3. y \notin CreditOf(A, u) BY <1>1 DEF CreditOf
<1> QED BY <1>2, <1>3, CreditBound, FS_AddElement

\* Finitely many operations are in progress.
LEMMA ActiveFinite == IsFiniteSet(Active) /\ Active \in SUBSET Ops
BY LogConstants, FS_Subset DEF Active

(***************************************************************************)
(* While an operation is in progress the unlocked checks of log_write()    *)
(* pass, whatever the others do.                                           *)
(***************************************************************************)
LEMMA Room ==
  ASSUME LogFits, IInv, ~Booting, NEW o \in Active
  PROVE  Len(lh) < LOGSIZE /\ Len(lh) < NLOG - 1 /\ outstanding >= 1
<1> DEFINE a == Cardinality(Active)
           c == Cardinality(Credit)
<1>1. a \in Nat /\ a >= 1
  <2>1. a \in Nat /\ a # 0
    BY ActiveFinite, FS_CardinalityType, FS_EmptySet
  <2> QED BY <2>1
<1>2. c \in Nat /\ c =< a * OpMax
  BY ActiveFinite, CreditBound DEF Credit
<1>3. outstanding = a /\ Len(lh) + a * MAXOPBLOCKS =< LOGSIZE + c
  BY DEF IInv, SpaceInv
<1>4. Len(lh) \in Nat BY DEF IInv, TypeOK
<1> HIDE DEF a, c
<1>5. MAXOPBLOCKS \in Nat /\ LOGSIZE \in Nat /\ NLOG \in Nat /\ OpMax \in Nat
  BY LogConstants
<1>6. a * MAXOPBLOCKS - a * OpMax >= MAXOPBLOCKS - OpMax
  <2> DEFINE d == MAXOPBLOCKS - OpMax
             e == a - 1
  <2>1. d \in Nat /\ e \in Nat BY <1>1, <1>5 DEF LogFits
  <2>2. e * d >= 0 BY <2>1
  <2>3. e * d = a * MAXOPBLOCKS - a * OpMax - (MAXOPBLOCKS - OpMax)
    BY <1>1, <1>5
  <2>4. a * MAXOPBLOCKS \in Int /\ a * OpMax \in Int BY <1>1, <1>5
  <2> QED BY <2>2, <2>3, <2>4, <1>5
<1>7. a * MAXOPBLOCKS \in Nat /\ a * OpMax \in Nat BY <1>1, <1>5
<1> QED BY <1>1, <1>2, <1>3, <1>4, <1>5, <1>6, <1>7 DEF LogFits

(***************************************************************************)
(* Every step keeps the state well typed; the log does not outgrow the     *)
(* disk.                                                                   *)
(***************************************************************************)
LEMMA TypeStep == LogFits /\ IInv /\ [Next]_vars => TypeOK'
<1> SUFFICES ASSUME LogFits, IInv, [Next]_vars PROVE TypeOK'
  OBVIOUS
<1>t. TypeOK BY DEF IInv
<1> USE <1>t DEF TypeOK, persistent, mem, ctl, op, Steps, OpStates
<1>1. CASE UNCHANGED vars BY <1>1 DEF vars
<1>6. ASSUME NEW o \in Ops, Kill(o) PROVE TypeOK' BY <1>6 DEF Kill
<1>2. ASSUME NEW o \in Ops, OpStep(o) PROVE TypeOK'
  <2>1. CASE BeginOp(o)
    <3>1. used' \in [Ops -> 0..OpMax] BY <2>1, LogConstants DEF BeginOp
    <3> QED BY <2>1, <3>1 DEF BeginOp
  <2>2. CASE BeginSleep(o) BY <2>2 DEF BeginSleep
  <2>3. ASSUME NEW b \in Blocks, NEW v \in Vals, LogWriteCheck(o, b, v)
        PROVE  TypeOK'
    <3>1. panicked' \in BOOLEAN BY <2>3 DEF LogWriteCheck
    <3> QED BY <2>3, <3>1 DEF LogWriteCheck
  <2>4. CASE LogWrite(o)
    <3>1. pc[o] = "write" /\ ~Booting /\ o \in Active
      BY <2>4 DEF LogWrite, Running, Booting, Active
    <3>2. Len(lh) < NLOG - 1 BY <3>1, Room
    <3>3. buf[o] \in Blocks BY <3>1 DEF IInv, BufInv
    <3>4. lh' \in Seq(Blocks) /\ Len(lh') =< NLOG - 1 /\ Len(lh') >= Len(lh)
      BY <2>4, <3>2, <3>3, LogConstants DEF LogWrite
    <3>5. used' \in [Ops -> 0..OpMax]
      <4>1. InLog(lh, buf[o]) \/ used[o] < OpMax BY <3>1 DEF IInv, SpaceInv
      <4>2. used' = IF ~InLog(lh, buf[o]) THEN [used EXCEPT ![o] = @ + 1] ELSE used
        BY <2>4 DEF LogWrite
      <4> QED BY <4>1, <4>2, LogConstants
    <3>6. tail' = tail /\ tail' \in 0..Len(lh') BY <2>4, <3>4 DEF LogWrite
    <3>7. dirty' \subseteq Blocks BY <2>4, <3>3 DEF LogWrite
    <3> QED BY <2>4, <3>4, <3>5, <3>6, <3>7 DEF LogWrite
  <2>5. CASE EndOp(o)
    <3>1. pc' \in [Ops -> OpStates] BY <2>5 DEF EndOp, WakeupLog, Sleeping
    <3> QED BY <2>5, <3>1 DEF EndOp
  <2>6. CASE EndOpLast(o)
    <3>1. tail' \in 0..Len(lh') BY <2>6 DEF EndOpLast
    <3> QED BY <2>6, <3>1 DEF EndOpLast
  <2>7. CASE EndCommit(o)
    <3>1. pc' \in [Ops -> OpStates] BY <2>7 DEF EndCommit, WakeupLog, Sleeping
    <3> QED BY <2>7, <3>1 DEF EndCommit
  <2> QED BY <1>2, <2>1, <2>2, <2>3, <2>4, <2>5, <2>6, <2>7 DEF OpStep
<1>3. CASE LogStep
  <2>1. CASE WriteLog
    <3>1. tail + 1 \in 1..Len(lh) /\ lh[tail + 1] \in Blocks
      BY <2>1 DEF WriteLog
    <3>2. cache[lh[tail + 1]] \in Vals BY <3>1
    <3>3. logdata' \in [Slots -> Vals] BY <2>1, <3>2 DEF WriteLog
    <3>4. lh' = lh /\ tail' = tail + 1 BY <2>1 DEF WriteLog
    <3>5. tail' \in 0..Len(lh') BY <3>1, <3>4
    <3> QED BY <2>1, <3>3, <3>5 DEF WriteLog
  <2>2. CASE WriteHead
    <3>1. tail' \in 0..Len(lh') BY <2>2 DEF WriteHead
    <3> QED BY <2>2, <3>1 DEF WriteHead
  <2>3. CASE InstallTrans
    <3>1. tail + 1 \in 1..Len(lh) /\ lh[tail + 1] \in Blocks
      BY <2>3 DEF InstallTrans
    <3>2. tail + 1 \in Slots BY <3>1, LogConstants DEF Slots
    <3>3. /\ disk' \in [Blocks -> Vals] /\ cache' \in [Blocks -> Vals]
          /\ dirty' \subseteq Blocks /\ tail' \in 0..Len(lh')
      BY <2>3, <3>1, <3>2 DEF InstallTrans
    <3> QED BY <2>3, <3>3 DEF InstallTrans
  <2>4. CASE ClearHead
    <3>1. lh' = << >> /\ hdr' = << >> /\ tail' = 0 BY <2>4 DEF ClearHead
    <3>2. Len(lh') = 0 /\ Len(hdr') = 0 BY <3>1
    <3>3. 0 =< NLOG - 1 BY LogConstants
    <3> QED BY <2>4, <3>1, <3>2, <3>3 DEF ClearHead
  <2>5. CASE ReadHead
    <3>1. tail' \in 0..Len(lh') BY <2>5 DEF ReadHead
    <3> QED BY <2>5, <3>1 DEF ReadHead
  <2> QED BY <1>3, <2>1, <2>2, <2>3, <2>4, <2>5 DEF LogStep
<1>4. ASSUME NEW b \in Blocks, Evict(b) PROVE TypeOK' BY <1>4 DEF Evict
<1>5. CASE Crash
  <2>1. lh' = << >> /\ tail' = 0 BY <1>5 DEF Crash
  <2>2. Len(lh') = 0 BY <2>1
  <2>3. 0 =< NLOG - 1 /\ 0 \in 0..OpMax BY LogConstants
  <2>4. lh' \in Seq(Blocks) /\ Len(lh') =< NLOG - 1 /\ tail' \in 0..Len(lh')
    BY <2>1, <2>2, <2>3
  <2>5. /\ pc' \in [Ops -> OpStates] /\ buf' \in [Ops -> Blocks \cup {NoBlock}]
        /\ used' \in [Ops -> 0..OpMax]
    BY <1>5, <2>3 DEF Crash
  <2>6. UNCHANGED <<disk, logdata, hdr>> /\ cache' = disk /\ dirty' = {}
    BY <1>5 DEF Crash
  <2>7. outstanding' \in Int /\ step' \in Steps BY <1>5 DEF Crash
  <2>8. committing' = FALSE /\ panicked' = FALSE /\ stranded' = {}
    BY <1>5 DEF Crash
  <2>9. committing' \in BOOLEAN /\ panicked' \in BOOLEAN BY <2>8
  <2> QED BY <2>4, <2>5, <2>6, <2>7, <2>8, <2>9
<1> QED BY <1>1, <1>2, <1>3, <1>4, <1>5, <1>6 DEF Next

\* All but the record of who was killed in its sleep.
state == <<persistent, mem, ctl, pc, buf, used, panicked>>

\* kill() of a sleeper moves nothing in the log: the process stays where it is.
LEMMA QuietStep ==
  UNCHANGED vars \/ (\E o \in Ops : Kill(o)) =>
    UNCHANGED state /\ stranded \subseteq stranded'
BY DEF vars, op, Kill, state

(***************************************************************************)
(* begin_op() adds an operation, end_op() removes it and finds no commit   *)
(* in progress, and nothing else changes who is in progress.               *)
(***************************************************************************)
LEMMA ActiveMoves ==
  ASSUME IInv, NEW o \in Ops
  PROVE  /\ BeginOp(o) => o \notin Active /\ Active' = Active \cup {o}
         /\ EndOp(o) \/ EndOpLast(o) =>
              ~committing /\ o \in Active /\ Active' = Active \ {o}
         /\ BeginSleep(o) \/ LogWrite(o) \/ EndCommit(o) => Active' = Active
         /\ \A b \in Blocks, v \in Vals : LogWriteCheck(o, b, v) => Active' = Active
<1>t. pc \in [Ops -> OpStates] BY DEF IInv, TypeOK
\* What a change of pc means for Active.
<1>a. ASSUME NEW l \in OpStates, pc' = [pc EXCEPT ![o] = l]
      PROVE  /\ l \in {"in", "write"} => Active' = Active \cup {o}
             /\ l \notin {"in", "write"} => Active' = Active \ {o}
  <2>1. \A x \in Ops : x # o => pc'[x] = pc[x] BY <1>t, <1>a
  <2>2. pc'[o] = l BY <1>t, <1>a
  <2> QED BY <2>1, <2>2 DEF Active
<1>b. o \in Active <=> pc[o] \in {"in", "write"} BY DEF Active
<1>1. ASSUME BeginOp(o) PROVE o \notin Active /\ Active' = Active \cup {o}
  <2>1. pc[o] \in {"idle", "begin"} /\ pc' = [pc EXCEPT ![o] = "in"]
    BY <1>1 DEF BeginOp, Running
  <2> QED BY <1>a, <1>b, <2>1 DEF OpStates
<1>2. ASSUME EndOp(o) \/ EndOpLast(o)
      PROVE  ~committing /\ o \in Active /\ Active' = Active \ {o}
  <2>1. pc[o] = "in" /\ o \in Active
    BY <1>2 DEF EndOp, EndOpLast, Running, Active
  <2>2. ~committing BY <2>1 DEF IInv, CommitInv
  <2>3. \A x \in Ops : pc'[x] \in {"in", "write"} <=> pc[x] \in {"in", "write"} /\ x # o
    <3>1. CASE EndOp(o) BY <1>t, <2>1, <2>2, <3>1 DEF EndOp, WakeupLog, Sleeping
    <3>2. CASE EndOpLast(o) BY <1>t, <2>1, <3>2 DEF EndOpLast
    <3> QED BY <1>2, <3>1, <3>2
  <2> QED BY <2>1, <2>2, <2>3 DEF Active
<1>3. ASSUME BeginSleep(o) PROVE Active' = Active
  <2>1. pc[o] \in {"idle", "begin"} /\ pc' = [pc EXCEPT ![o] = "sleep"]
    BY <1>3 DEF BeginSleep, Running
  <2>2. o \notin Active /\ Active' = Active \ {o} BY <1>a, <1>b, <2>1 DEF OpStates
  <2> QED BY <2>2
<1>4. ASSUME LogWrite(o) PROVE Active' = Active
  <2>1. pc[o] = "write" /\ pc' = [pc EXCEPT ![o] = "in"]
    BY <1>4 DEF LogWrite, Running
  <2>2. o \in Active /\ Active' = Active \cup {o} BY <1>a, <1>b, <2>1 DEF OpStates
  <2> QED BY <2>2
<1>5. ASSUME EndCommit(o) PROVE Active' = Active
  <2>1. \A x \in Ops : pc'[x] \in {"in", "write"} <=> pc[x] \in {"in", "write"}
    BY <1>t, <1>5 DEF EndCommit, WakeupLog, Sleeping, Running
  <2> QED BY <2>1 DEF Active
<1>6. ASSUME NEW b \in Blocks, NEW v \in Vals, LogWriteCheck(o, b, v)
      PROVE  Active' = Active
  <2>1. pc[o] = "in" /\ pc' = [pc EXCEPT ![o] = "write"]
    BY <1>6 DEF LogWriteCheck, Running
  <2>2. o \in Active /\ Active' = Active \cup {o} BY <1>a, <1>b, <2>1 DEF OpStates
  <2> QED BY <2>2
<1> QED BY <1>1, <1>2, <1>3, <1>4, <1>5, <1>6

\* What Append does to a sequence.
LEMMA LenAppend ==
  ASSUME NEW S, NEW s \in Seq(S), NEW e \in S
  PROVE  /\ Append(s, e) \in Seq(S)
         /\ Len(Append(s, e)) = Len(s) + 1
         /\ \A i \in 1..Len(s) : Append(s, e)[i] = s[i]
         /\ Append(s, e)[Len(s) + 1] = e
OBVIOUS

\* Appending a block to the header makes it, and no other, logged.
LEMMA LogGrows ==
  ASSUME NEW s \in Seq(Blocks), NEW e \in Blocks, NEW b
  PROVE  InLog(Append(s, e), b) <=> InLog(s, b) \/ b = e
<1>1. Len(s) \in Nat OBVIOUS
<1>2. InLog(s, b) => InLog(Append(s, e), b) BY LenAppend, <1>1 DEF InLog
<1>3. b = e => InLog(Append(s, e), b) BY LenAppend, <1>1 DEF InLog
<1>4. ASSUME NEW i \in 1..Len(Append(s, e)), Append(s, e)[i] = b
      PROVE  InLog(s, b) \/ b = e
  <2>1. i \in 1..Len(s) \/ i = Len(s) + 1 BY LenAppend, <1>1
  <2> QED BY <2>1, <1>4, LenAppend DEF InLog
<1> QED BY <1>2, <1>3, <1>4 DEF InLog

\* Every step keeps the reservation sound.
LEMMA SpaceStep == LogFits /\ IInv /\ [Next]_vars => SpaceInv'
<1> SUFFICES ASSUME LogFits, IInv, [Next]_vars PROVE SpaceInv'
  OBVIOUS
<1>t. /\ pc \in [Ops -> OpStates] /\ used \in [Ops -> 0..OpMax]
      /\ buf \in [Ops -> Blocks \cup {NoBlock}]
      /\ lh \in Seq(Blocks) /\ Len(lh) \in Nat
  BY DEF IInv, TypeOK
<1>s. SpaceInv BY DEF IInv
<1>c. MAXOPBLOCKS \in Nat /\ LOGSIZE \in Nat /\ NLOG \in Nat /\ OpMax \in Nat
  BY LogConstants
<1>f. /\ IsFiniteSet(Active) /\ Active \in SUBSET Ops
      /\ Cardinality(Active) \in Nat
      /\ Cardinality(Credit) \in Nat
  BY ActiveFinite, FS_CardinalityType, CreditBound DEF Credit
\* The transaction and its users are left alone.
<1>k. ASSUME UNCHANGED <<outstanding, lh, used, buf>>, Active' = Active,
             Booting => Booting',
             \A x \in Ops : pc'[x] = "write" => pc[x] = "write",
             ~panicked'
      PROVE  SpaceInv'
  <2>1. Credit' = Credit BY <1>k DEF Credit
  <2> QED BY <1>s, <1>k, <2>1 DEF SpaceInv, InLog
<1>1. CASE UNCHANGED state
  BY <1>1, <1>s DEF state, op, ctl, mem, SpaceInv, Booting, Active, Credit, CreditOf, InLog
<1>2. ASSUME NEW o \in Ops, OpStep(o) PROVE SpaceInv'
  <2>1. CASE BeginOp(o)
    <3>1. /\ o \notin Active /\ Active' = Active \cup {o}
          /\ used' = [used EXCEPT ![o] = 0]
          /\ outstanding' = outstanding + 1 /\ lh' = lh /\ panicked' = panicked
          /\ pc' = [pc EXCEPT ![o] = "in"] /\ buf' = buf
      BY <2>1, ActiveMoves DEF BeginOp, mem
    <3>a. Len(lh) + (outstanding + 1) * MAXOPBLOCKS =< LOGSIZE
      <4> DEFINE m == (outstanding + 1) * MAXOPBLOCKS
      <4>1. m \in Int BY <1>s, <1>f, <1>c DEF SpaceInv
      <4>2. ~(Len(lh) + m > LOGSIZE) BY <2>1 DEF BeginOp, Full
      <4> HIDE DEF m
      <4>3. Len(lh) + m =< LOGSIZE BY <4>1, <4>2, <1>t, <1>c
      <4> QED BY <4>3 DEF m
    <3>2. Credit' = Credit BY <3>1, <1>t, <1>f, CreditBegin DEF Credit
    <3>3. Cardinality(Active') = Cardinality(Active) + 1
      BY <3>1, <1>f, FS_AddElement
    <3>4. outstanding' = Cardinality(Active') BY <3>1, <3>3, <1>s DEF SpaceInv
    <3>5. Len(lh') + outstanding' * MAXOPBLOCKS =< LOGSIZE + Cardinality(Credit')
      <4> DEFINE m == (outstanding + 1) * MAXOPBLOCKS
      <4>1. m \in Int BY <1>s, <1>f, <1>c DEF SpaceInv
      <4>2. outstanding' * MAXOPBLOCKS = m BY <3>1
      <4> HIDE DEF m
      <4>3. Len(lh) + m =< LOGSIZE BY <3>a DEF m
      <4> QED BY <4>1, <4>2, <4>3, <3>1, <3>2, <1>t, <1>f, <1>c
    <3>6. \A x \in Ops : pc'[x] = "write" => InLog(lh', buf'[x]) \/ used'[x] < OpMax
      BY <3>1, <1>s, <1>t DEF SpaceInv, InLog
    <3> QED BY <3>1, <3>4, <3>5, <3>6, <1>s DEF SpaceInv
  <2>2. CASE BeginSleep(o)
    <3>1. /\ UNCHANGED <<outstanding, lh, used, buf, step, panicked>>
          /\ Active' = Active /\ pc' = [pc EXCEPT ![o] = "sleep"]
      BY <2>2, ActiveMoves DEF BeginSleep, mem, ctl
    <3>2. ~panicked' BY <3>1, <1>s DEF SpaceInv
    <3>3. Booting => Booting' BY <3>1 DEF Booting
    <3>4. \A x \in Ops : pc'[x] = "write" => pc[x] = "write" BY <3>1, <1>t
    <3> QED BY <1>k, <3>1, <3>2, <3>3, <3>4
  <2>3. ASSUME NEW b \in Blocks, NEW v \in Vals, LogWriteCheck(o, b, v)
        PROVE  SpaceInv'
    <3>1. /\ o \in Active /\ ~Booting /\ Active' = Active
          /\ UNCHANGED <<outstanding, lh, used, step>>
          /\ buf' = [buf EXCEPT ![o] = b] /\ pc' = [pc EXCEPT ![o] = "write"]
          /\ InLog(lh, b) \/ used[o] < OpMax
          /\ panicked' = (Len(lh) >= LOGSIZE \/ Len(lh) >= NLOG - 1 \/ outstanding < 1)
      BY <2>3, ActiveMoves DEF LogWriteCheck, ctl, Running, Active, Booting
    <3>2. ~panicked'
      <4>1. Len(lh) < LOGSIZE /\ Len(lh) < NLOG - 1 /\ outstanding >= 1
        BY <3>1, Room
      <4>2. ~(Len(lh) >= LOGSIZE \/ Len(lh) >= NLOG - 1 \/ outstanding < 1)
        BY <4>1, <1>t, <1>c, <1>s, <1>f DEF SpaceInv
      <4> QED BY <3>1, <4>2
    <3>3. Credit' = Credit BY <3>1 DEF Credit
    <3>4. \A x \in Ops : pc'[x] = "write" => InLog(lh', buf'[x]) \/ used'[x] < OpMax
      BY <3>1, <1>s, <1>t DEF SpaceInv, InLog
    <3> QED BY <3>1, <3>2, <3>3, <3>4, <1>s DEF SpaceInv, Booting
  <2>4. CASE LogWrite(o)
    <3>1. /\ pc[o] = "write" /\ o \in Active /\ ~Booting /\ Active' = Active
          /\ lh' = IF ~InLog(lh, buf[o]) THEN Append(lh, buf[o]) ELSE lh
          /\ used' = IF ~InLog(lh, buf[o]) THEN [used EXCEPT ![o] = @ + 1] ELSE used
          /\ UNCHANGED <<outstanding, step, panicked>>
          /\ buf' = [buf EXCEPT ![o] = NoBlock] /\ pc' = [pc EXCEPT ![o] = "in"]
      BY <2>4, ActiveMoves DEF LogWrite, ctl, Running, Active, Booting
    <3>b. buf[o] \in Blocks BY <3>1, <1>t DEF IInv, BufInv
    <3>2. \/ Len(lh') = Len(lh) + 1 /\ Cardinality(Credit') = Cardinality(Credit) + 1
          \/ Len(lh') = Len(lh) /\ Cardinality(Credit') = Cardinality(Credit)
      <4>1. CASE InLog(lh, buf[o]) BY <3>1, <4>1 DEF Credit
      <4>2. CASE ~InLog(lh, buf[o])
        <5>1. used[o] < OpMax BY <4>2, <3>1, <1>s DEF SpaceInv
        <5>2. Credit' = CreditOf(Active, [used EXCEPT ![o] = @ + 1])
          BY <3>1, <4>2 DEF Credit
        <5>3. Cardinality(Credit') = Cardinality(Credit) + 1
          <6>1. Cardinality(CreditOf(Active, [used EXCEPT ![o] = @ + 1]))
                  = Cardinality(CreditOf(Active, used)) + 1
            BY <5>1, <3>1, <1>t, <1>f, CreditUse
          <6> QED BY <6>1, <5>2 DEF Credit
        <5>4. Len(lh') = Len(lh) + 1 BY <3>1, <3>b, <4>2, <1>t, LenAppend
        <5> QED BY <5>3, <5>4
      <4> QED BY <4>1, <4>2
    <3>3. Len(lh') + outstanding' * MAXOPBLOCKS =< LOGSIZE + Cardinality(Credit')
      <4> DEFINE m == outstanding * MAXOPBLOCKS
      <4>1. m \in Int BY <1>s, <1>f, <1>c DEF SpaceInv
      <4>2. outstanding' * MAXOPBLOCKS = m BY <3>1
      <4>3. Len(lh) + m =< LOGSIZE + Cardinality(Credit) BY <1>s, <3>1 DEF SpaceInv
      <4> HIDE DEF m
      <4> QED BY <4>1, <4>2, <4>3, <3>2, <1>t, <1>f, <1>c
    <3>4. \A x \in Ops : pc'[x] = "write" => InLog(lh', buf'[x]) \/ used'[x] < OpMax
      <4> SUFFICES ASSUME NEW x \in Ops, pc'[x] = "write"
                   PROVE  InLog(lh', buf'[x]) \/ used'[x] < OpMax
        OBVIOUS
      <4>1. x # o /\ pc[x] = "write" /\ buf'[x] = buf[x] /\ used'[x] = used[x]
        BY <3>1, <1>t
      <4>2. InLog(lh, buf[x]) => InLog(lh', buf[x])
        BY <3>1, <3>b, <1>t, LogGrows
      <4> QED BY <4>1, <4>2, <1>s DEF SpaceInv
    <3> QED BY <3>1, <3>3, <3>4, <1>s DEF SpaceInv, Booting
  <2>5. CASE EndOp(o) \/ EndOpLast(o)
    <3>1. o \in Active /\ Active' = Active \ {o} /\ ~committing /\ ~Booting
      BY <2>5, ActiveMoves DEF EndOp, EndOpLast, Running, Booting
    <3>2. /\ outstanding' = outstanding - 1 /\ panicked' = committing
          /\ UNCHANGED <<lh, used, buf>>
      <4>1. CASE EndOp(o) BY <4>1 DEF EndOp, mem
      <4>2. CASE EndOpLast(o) BY <4>2 DEF EndOpLast, mem
      <4> QED BY <2>5, <4>1, <4>2
    <3>3. Cardinality(Active') = Cardinality(Active) - 1
      BY <3>1, <1>f, FS_RemoveElement
    <3>4. Cardinality(Credit) =< Cardinality(Credit') + OpMax
      BY <3>1, <3>2, <1>f, CreditEnd DEF Credit
    <3>5. Cardinality(Credit') \in Nat
      BY <3>1, <3>2, <1>f, FS_RemoveElement, CreditBound DEF Credit
    <3>6. Len(lh') + outstanding' * MAXOPBLOCKS =< LOGSIZE + Cardinality(Credit')
      <4> DEFINE m == outstanding * MAXOPBLOCKS
      <4>1. m \in Int BY <1>s, <1>f, <1>c DEF SpaceInv
      <4>2. outstanding' * MAXOPBLOCKS = m - MAXOPBLOCKS
        BY <3>2, <1>s, <1>f, <1>c DEF SpaceInv
      <4>3. Len(lh) + m =< LOGSIZE + Cardinality(Credit) BY <1>s, <3>1 DEF SpaceInv
      <4> HIDE DEF m
      <4> QED BY <4>1, <4>2, <4>3, <3>2, <3>4, <3>5, <1>t, <1>f, <1>c DEF LogFits
    <3>7. \A x \in Ops : pc'[x] = "write" => pc[x] = "write"
      <4>1. CASE EndOp(o) BY <4>1, <3>1, <1>t DEF EndOp, WakeupLog, Sleeping
      <4>2. CASE EndOpLast(o) BY <4>2, <1>t DEF EndOpLast
      <4> QED BY <2>5, <4>1, <4>2
    <3>8. \A x \in Ops : pc'[x] = "write" => InLog(lh', buf'[x]) \/ used'[x] < OpMax
      BY <3>2, <3>7, <1>s DEF SpaceInv, InLog
    <3> QED BY <3>1, <3>2, <3>3, <3>6, <3>8, <1>s DEF SpaceInv
  <2>6. CASE EndCommit(o)
    <3>1. /\ UNCHANGED <<outstanding, lh, used, buf, panicked>>
          /\ Active' = Active /\ ~Booting
          /\ \A x \in Ops : pc'[x] = "write" => pc[x] = "write"
      BY <2>6, <1>t, ActiveMoves DEF EndCommit, WakeupLog, Sleeping, mem, Running, Booting
    <3>2. ~panicked' BY <3>1, <1>s DEF SpaceInv
    <3> QED BY <1>k, <3>1, <3>2
  <2> QED BY <1>2, <2>1, <2>2, <2>3, <2>4, <2>5, <2>6 DEF OpStep
<1>3. CASE WriteLog \/ WriteHead \/ InstallTrans
  <2>1. UNCHANGED <<outstanding, lh, pc, buf, used, panicked>> /\ (Booting => Booting')
    BY <1>3 DEF WriteLog, WriteHead, InstallTrans, Installing, mem, op, Booting
  <2>2. Active' = Active BY <2>1 DEF Active
  <2>3. ~panicked' BY <2>1, <1>s DEF SpaceInv
  <2> QED BY <1>k, <2>1, <2>2, <2>3
<1>4. CASE ClearHead \/ ReadHead
  <2>1. /\ UNCHANGED <<outstanding, pc, buf, used, panicked>>
        /\ ClearHead => lh' = << >>
        /\ ReadHead => Booting'
    BY <1>4 DEF ClearHead, ReadHead, op, Booting
  <2>2. Active' = Active /\ Credit' = Credit BY <2>1 DEF Active, Credit
  <2>3. Active = {}
    BY <1>4 DEF ClearHead, ReadHead, Installing, IInv, CommitInv, Booting
  <2>4. outstanding = 0 BY <2>3, <1>s, FS_EmptySet DEF SpaceInv
  <2>5. outstanding' * MAXOPBLOCKS = 0 BY <2>1, <2>4, <1>c
  <2>6. ~Booting' => Len(lh') + outstanding' * MAXOPBLOCKS =< LOGSIZE + Cardinality(Credit')
    <3>1. CASE ReadHead BY <3>1, <2>1
    <3>2. CASE ClearHead
      <4>1. Len(lh') = 0 BY <3>2, <2>1
      <4> QED BY <4>1, <2>2, <2>5, <1>c, <1>f
    <3> QED BY <1>4, <3>1, <3>2
  <2>7. \A x \in Ops : pc'[x] # "write" BY <2>1, <2>3, <1>t DEF Active
  <2> QED BY <2>1, <2>2, <2>6, <2>7, <1>s DEF SpaceInv
<1>5. ASSUME NEW b \in Blocks, Evict(b) PROVE SpaceInv'
  <2>1. UNCHANGED <<outstanding, lh, pc, buf, used, step, panicked>>
    BY <1>5 DEF Evict, ctl, op
  <2>2. Active' = Active BY <2>1 DEF Active
  <2>3. ~panicked' /\ (Booting => Booting') BY <2>1, <1>s DEF SpaceInv, Booting
  <2> QED BY <1>k, <2>1, <2>2, <2>3
<1>6. CASE Crash
  <2>1. /\ outstanding' = 0 /\ step' = "boot" /\ panicked' = FALSE
        /\ pc' = [x \in Ops |-> "idle"]
    BY <1>6 DEF Crash
  <2>2. Active' = {} BY <2>1 DEF Active
  <2> QED BY <2>1, <2>2, FS_EmptySet DEF SpaceInv, Booting
<1> QED BY <1>1, <1>2, <1>3, <1>4, <1>5, <1>6, QuietStep DEF Next, LogStep

(***************************************************************************)
(* If begin_op() finds the log full, an operation is in progress or a      *)
(* commit is: an empty log has room for one operation.                     *)
(***************************************************************************)
LEMMA FullIsUsed == IInv /\ ~Booting /\ Full => Active # {} \/ committing
<1>1. ASSUME IInv, ~Booting, Full, Active = {}, ~committing PROVE FALSE
  <2>1. outstanding = 0 BY <1>1, FS_EmptySet DEF IInv, SpaceInv
  <2>2. step = "none" BY <1>1 DEF IInv, TypeOK, CommitInv, Steps, Booting
  <2>3. lh = << >> BY <1>1, <2>2 DEF IInv, HeaderInv
  <2>4. Len(lh) = 0 BY <2>3
  <2> QED BY <1>1, <2>1, <2>4, LogConstants DEF Full
<1> QED BY <1>1

\* Every step keeps commits and operations apart.
LEMMA CommitStep == IInv /\ [Next]_vars => CommitInv'
<1> SUFFICES ASSUME IInv, [Next]_vars PROVE CommitInv'
  OBVIOUS
<1>t. pc \in [Ops -> OpStates] BY DEF IInv, TypeOK
<1>i. CommitInv BY DEF IInv
<1>e. committing \/ Booting => Active = {} BY <1>i DEF CommitInv
<1>1. CASE UNCHANGED state /\ stranded \subseteq stranded'
  BY <1>1, <1>i DEF state, op, ctl, CommitInv, Booting, Active, Sleeping
<1>2. ASSUME NEW o \in Ops, OpStep(o) PROVE CommitInv'
  <2>1. CASE BeginOp(o)
    <3>1. /\ ~committing /\ ~Booting /\ UNCHANGED <<committing, step, stranded>>
          /\ pc' = [pc EXCEPT ![o] = "in"] /\ o \in Active'
      BY <2>1, ActiveMoves DEF BeginOp, Running, Booting
    <3> QED BY <3>1, <1>i, <1>t DEF CommitInv, Booting, Sleeping
  <2>2. CASE BeginSleep(o)
    <3>1. /\ UNCHANGED <<committing, step, stranded>> /\ Active' = Active
          /\ pc' = [pc EXCEPT ![o] = "sleep"]
          /\ committing \/ Full
      BY <2>2, ActiveMoves DEF BeginSleep, ctl
    <3>2. Active # {} \/ committing
      BY <2>2, <3>1, FullIsUsed DEF BeginSleep, Running, Booting
    <3> QED BY <3>1, <3>2, <1>i, <1>t DEF CommitInv, Booting, Sleeping
  <2>3. ASSUME NEW b \in Blocks, NEW v \in Vals, LogWriteCheck(o, b, v)
        PROVE  CommitInv'
    <3>1. /\ UNCHANGED <<committing, step, stranded>> /\ Active' = Active
          /\ pc' = [pc EXCEPT ![o] = "write"]
      BY <2>3, ActiveMoves DEF LogWriteCheck, ctl
    <3> QED BY <3>1, <1>i, <1>t DEF CommitInv, Booting, Sleeping
  <2>4. CASE LogWrite(o)
    <3>1. /\ UNCHANGED <<committing, step, stranded>> /\ Active' = Active
          /\ pc' = [pc EXCEPT ![o] = "in"]
      BY <2>4, ActiveMoves DEF LogWrite, ctl
    <3> QED BY <3>1, <1>i, <1>t DEF CommitInv, Booting, Sleeping
  <2>5. CASE EndOp(o)
    <3>1. /\ ~committing /\ ~Booting /\ UNCHANGED <<committing, step, stranded>>
          /\ \A x \in Ops : pc'[x] = "sleep" => x \in stranded
          /\ \A x \in Ops : pc'[x] = "commit" => pc[x] = "commit"
      BY <2>5, <1>t, ActiveMoves DEF EndOp, WakeupLog, Sleeping, Running, Booting, OpStates
    <3> QED BY <3>1, <1>i DEF CommitInv, Booting, Sleeping
  <2>6. CASE EndOpLast(o)
    <3>1. /\ ~committing /\ Active' = Active \ {o} /\ outstanding = 1
          /\ committing' = TRUE /\ step' \in {"done", "log"}
          /\ pc' = [pc EXCEPT ![o] = "commit"]
      BY <2>6, ActiveMoves DEF EndOpLast
    <3>2. Active = {o}
      <4>1. Cardinality(Active) = 1 BY <3>1 DEF IInv, SpaceInv
      <4>2. PICK x : Active = {x} BY <4>1, ActiveFinite, FS_Singleton
      <4> QED BY <2>6, <4>2, ActiveMoves
    <3>3. Active' = {} BY <3>1, <3>2
    <3>4. \A x \in Ops : pc[x] # "commit" BY <3>1, <1>i DEF CommitInv
    <3> QED BY <3>1, <3>3, <3>4, <1>t DEF CommitInv, Booting, Sleeping
  <2>7. CASE EndCommit(o)
    <3>1. /\ committing' = FALSE /\ step' = "none" /\ pc[o] = "commit"
          /\ \A x \in Ops : x # o => pc[x] # "commit"
          /\ stranded' = stranded
          /\ \A x \in Ops : pc'[x] = "sleep" => x \in stranded
          /\ \A x \in Ops : pc'[x] # "commit"
      BY <2>7, <1>t, <1>i DEF EndCommit, WakeupLog, Sleeping, Running, CommitInv, OpStates
    <3> QED BY <3>1 DEF CommitInv, Booting, Sleeping
  <2> QED BY <1>2, <2>1, <2>2, <2>3, <2>4, <2>5, <2>6, <2>7 DEF OpStep
<1>3. CASE LogStep
  <2>1. UNCHANGED <<committing, pc, stranded>>
    BY <1>3 DEF LogStep, WriteLog, WriteHead, InstallTrans, ClearHead, ReadHead, op
  <2>2. Active' = Active BY <2>1 DEF Active
  <2>3. /\ committing <=> step' \in {"log", "install", "done"}
        /\ committing \/ Booting' => Active = {}
    BY <1>3, <1>i DEF LogStep, WriteLog, WriteHead, InstallTrans, ClearHead,
       ReadHead, Installing, CommitInv, Booting
  <2> QED BY <1>i, <2>1, <2>2, <2>3 DEF CommitInv, Sleeping
<1>4. ASSUME NEW b \in Blocks, Evict(b) PROVE CommitInv'
  <2>1. UNCHANGED <<committing, pc, step, stranded>> BY <1>4 DEF Evict, op, ctl
  <2>2. Active' = Active BY <2>1 DEF Active
  <2> QED BY <1>i, <2>1, <2>2 DEF CommitInv, Booting, Sleeping
<1>5. CASE Crash
  <2>1. committing' = FALSE /\ step' = "boot" /\ pc' = [x \in Ops |-> "idle"]
    BY <1>5 DEF Crash
  <2>2. Active' = {} BY <2>1 DEF Active
  <2> QED BY <2>1, <2>2 DEF CommitInv, Sleeping
<1> QED BY <1>1, <1>2, <1>3, <1>4, <1>5, QuietStep DEF Next

\* Every step keeps buffers with one holder.
LEMMA BufStep == IInv /\ [Next]_vars => BufInv'
<1> SUFFICES ASSUME IInv, [Next]_vars PROVE BufInv'
  OBVIOUS
<1>t. pc \in [Ops -> OpStates] /\ buf \in [Ops -> Blocks \cup {NoBlock}]
  BY DEF IInv, TypeOK
<1>i. BufInv BY DEF IInv
<1>c. NoBlock \notin Blocks BY LogConstants
\* Nobody starts or ends a log_write().
<1>k. ASSUME UNCHANGED buf, \A x \in Ops : pc'[x] = "write" <=> pc[x] = "write"
      PROVE  BufInv'
  BY <1>k, <1>i DEF BufInv
<1>1. CASE UNCHANGED state BY <1>1, <1>k DEF state, op
<1>2. ASSUME NEW o \in Ops, OpStep(o) PROVE BufInv'
  <2>1. CASE BeginOp(o) \/ BeginSleep(o)
    <3>1. /\ buf' = buf /\ pc[o] \in {"idle", "begin"}
          /\ \E l \in {"in", "sleep"} : pc' = [pc EXCEPT ![o] = l]
      BY <2>1 DEF BeginOp, BeginSleep, Running
    <3> QED BY <3>1, <1>k, <1>t
  <2>2. ASSUME NEW b \in Blocks, NEW v \in Vals, LogWriteCheck(o, b, v)
        PROVE  BufInv'
    <3>1. /\ ~Locked(b) /\ buf' = [buf EXCEPT ![o] = b]
          /\ pc' = [pc EXCEPT ![o] = "write"]
      BY <2>2 DEF LogWriteCheck
    <3>2. \A x \in Ops : buf[x] # b BY <3>1 DEF Locked
    <3> QED BY <3>1, <3>2, <1>i, <1>t, <1>c DEF BufInv
  <2>3. CASE LogWrite(o)
    <3>1. buf' = [buf EXCEPT ![o] = NoBlock] /\ pc' = [pc EXCEPT ![o] = "in"]
      BY <2>3 DEF LogWrite
    <3> QED BY <3>1, <1>i, <1>t DEF BufInv
  <2>4. CASE EndOp(o) \/ EndOpLast(o) \/ EndCommit(o)
    <3>1. buf' = buf BY <2>4 DEF EndOp, EndOpLast, EndCommit
    <3>2. \A x \in Ops : pc'[x] = "write" <=> pc[x] = "write"
      BY <2>4, <1>t DEF EndOp, EndOpLast, EndCommit, WakeupLog, Sleeping, Running
    <3> QED BY <1>k, <3>1, <3>2
  <2> QED BY <1>2, <2>1, <2>2, <2>3, <2>4 DEF OpStep
<1>3. CASE LogStep
  <2>1. UNCHANGED <<buf, pc>>
    BY <1>3 DEF LogStep, WriteLog, WriteHead, InstallTrans, ClearHead, ReadHead, op
  <2> QED BY <1>k, <2>1
<1>4. ASSUME NEW b \in Blocks, Evict(b) PROVE BufInv'
  BY <1>4, <1>k DEF Evict, op
<1>5. CASE Crash BY <1>5 DEF Crash, BufInv
<1> QED BY <1>1, <1>2, <1>3, <1>4, <1>5, QuietStep DEF Next

\* Every step keeps the headers sound.
LEMMA HeaderStep == IInv /\ [Next]_vars => HeaderInv'
<1> SUFFICES ASSUME IInv, [Next]_vars PROVE HeaderInv'
  OBVIOUS
<1>i. HeaderInv BY DEF IInv
<1>t. lh \in Seq(Blocks) /\ Len(lh) \in Nat /\ buf \in [Ops -> Blocks \cup {NoBlock}]
  BY DEF IInv, TypeOK
<1>e. committing \/ Booting => Active = {} BY DEF IInv, CommitInv
<1>1. CASE UNCHANGED state
  BY <1>1, <1>i DEF state, op, ctl, mem, persistent, HeaderInv, Active
<1>2. ASSUME NEW o \in Ops, OpStep(o) PROVE HeaderInv'
  <2>1. CASE BeginOp(o)
    <3>1. UNCHANGED <<lh, hdr, step>> /\ Active' # {}
      BY <2>1, ActiveMoves DEF BeginOp, mem, persistent
    <3> QED BY <3>1, <1>i DEF HeaderInv
  <2>2. CASE BeginSleep(o)
    <3>1. UNCHANGED <<lh, hdr, step>> /\ Active' = Active
      BY <2>2, ActiveMoves DEF BeginSleep, mem, persistent, ctl
    <3> QED BY <3>1, <1>i DEF HeaderInv
  <2>3. ASSUME NEW b \in Blocks, NEW v \in Vals, LogWriteCheck(o, b, v)
        PROVE  HeaderInv'
    <3>1. UNCHANGED <<lh, hdr, step>> /\ Active' = Active
      BY <2>3, ActiveMoves DEF LogWriteCheck, persistent, ctl
    <3> QED BY <3>1, <1>i DEF HeaderInv
  <2>4. CASE LogWrite(o)
    <3>1. /\ UNCHANGED <<hdr, step>> /\ Active' = Active /\ o \in Active
          /\ lh' = IF ~InLog(lh, buf[o]) THEN Append(lh, buf[o]) ELSE lh
          /\ pc[o] = "write" /\ ~Booting
      BY <2>4, ActiveMoves DEF LogWrite, Running, Booting, Active, persistent, ctl
    <3>2. step = "none"
      BY <3>1, <1>e DEF IInv, CommitInv, TypeOK, Steps, Booting
    <3>3. buf[o] \in Blocks BY <3>1, <1>t DEF IInv, BufInv
    <3>4. \A i, j \in 1..Len(lh') : lh'[i] = lh'[j] => i = j
      <4>1. CASE InLog(lh, buf[o]) BY <4>1, <3>1, <1>i DEF HeaderInv
      <4>2. CASE ~InLog(lh, buf[o])
        <5>1. /\ Len(lh') = Len(lh) + 1 /\ lh'[Len(lh) + 1] = buf[o]
              /\ \A i \in 1..Len(lh) : lh'[i] = lh[i] /\ lh[i] # buf[o]
          BY <4>2, <3>1, <3>3, <1>t, LenAppend DEF InLog
        <5>2. \A i \in 1..(Len(lh) + 1) : i \in 1..Len(lh) \/ i = Len(lh) + 1
          BY <1>t
        <5> QED BY <5>1, <5>2, <1>i DEF HeaderInv
      <4> QED BY <4>1, <4>2
    <3> QED BY <3>1, <3>2, <3>4, <1>i DEF HeaderInv
  <2>5. CASE EndOp(o)
    <3>1. /\ UNCHANGED <<lh, hdr, step>> /\ Active' = Active \ {o}
          /\ outstanding # 1
      BY <2>5, ActiveMoves DEF EndOp, mem, persistent
    <3>2. Active' # {}
      <4>1. CASE Active' = {}
        <5>1. Active = {o} BY <2>5, <3>1, <4>1, ActiveMoves
        <5>2. Cardinality(Active) = 1 BY <5>1, FS_Singleton
        <5> QED BY <3>1, <5>2 DEF IInv, SpaceInv
      <4> QED BY <4>1
    <3> QED BY <3>1, <3>2, <1>i DEF HeaderInv
  <2>6. CASE EndOpLast(o)
    <3>1. /\ UNCHANGED <<lh, hdr>> /\ ~committing /\ ~Booting
          /\ step' = IF lh = << >> THEN "done" ELSE "log"
      BY <2>6, ActiveMoves DEF EndOpLast, mem, persistent, Running, Booting
    <3>2. step = "none"
      BY <3>1 DEF IInv, CommitInv, TypeOK, Steps, Booting
    <3> QED BY <3>1, <3>2, <1>i DEF HeaderInv
  <2>7. CASE EndCommit(o)
    <3>1. UNCHANGED <<lh, hdr>> /\ step = "done" /\ step' = "none"
      BY <2>7 DEF EndCommit, mem, persistent
    <3> QED BY <3>1, <1>i DEF HeaderInv
  <2> QED BY <1>2, <2>1, <2>2, <2>3, <2>4, <2>5, <2>6, <2>7 DEF OpStep
<1>3. CASE WriteLog \/ InstallTrans
  <2>1. UNCHANGED <<lh, hdr, step, pc>> BY <1>3 DEF WriteLog, InstallTrans, mem, op
  <2> QED BY <2>1, <1>i DEF HeaderInv, Active
<1>4. CASE WriteHead
  <2>1. lh' = lh /\ hdr' = lh /\ step' = "install" BY <1>4 DEF WriteHead, mem
  <2> QED BY <2>1, <1>i DEF HeaderInv
<1>5. CASE ClearHead
  <2>1. lh' = << >> /\ hdr' = << >> /\ step' \in {"none", "done"}
    BY <1>5 DEF ClearHead
  <2>2. Len(lh') = 0 /\ Len(hdr') = 0 BY <2>1
  <2> QED BY <2>1, <2>2 DEF HeaderInv
<1>6. CASE ReadHead
  <2>1. lh' = hdr /\ hdr' = hdr /\ step' = "recover" BY <1>6 DEF ReadHead, persistent
  <2> QED BY <2>1, <1>i DEF HeaderInv
<1>7. ASSUME NEW b \in Blocks, Evict(b) PROVE HeaderInv'
  <2>1. UNCHANGED <<lh, hdr, step, pc>> BY <1>7 DEF Evict, persistent, ctl, op
  <2> QED BY <2>1, <1>i DEF HeaderInv, Active
<1>8. CASE Crash
  <2>1. lh' = << >> /\ hdr' = hdr /\ step' = "boot" BY <1>8 DEF Crash, persistent
  <2>2. Len(lh') = 0 BY <2>1
  <2> QED BY <2>1, <2>2, <1>i DEF HeaderInv
<1> QED BY <1>1, <1>2, <1>3, <1>4, <1>5, <1>6, <1>7, <1>8, QuietStep DEF Next, LogStep

\* Without a commit or a recovery in progress the log is at rest.
LEMMA AtRest ==
  ASSUME IInv, ~committing, ~Booting
  PROVE  step = "none"
BY DEF IInv, CommitInv, TypeOK, Steps, Booting

\* Recycling a buffer loses nothing: only clean buffers are recycled.
LEMMA EvictSame == ASSUME IInv, NEW b \in Blocks, Evict(b) PROVE cache' = cache
BY DEF Evict, IInv, CacheInv, TypeOK

\* The next block to copy exists in the header and in the on-disk log.
LEMMA NextSlot ==
  ASSUME IInv, tail < Len(lh)
  PROVE  /\ tail + 1 \in 1..Len(lh) /\ tail + 1 \in Slots /\ tail \in Nat
         /\ lh[tail + 1] \in Blocks
<1>1. tail \in 0..Len(lh) /\ lh \in Seq(Blocks) /\ Len(lh) =< NLOG - 1
  BY DEF IInv, TypeOK
<1>2. Len(lh) \in Nat BY <1>1
<1>3. tail + 1 \in 1..Len(lh) /\ tail \in Nat BY <1>1, <1>2
<1> QED BY <1>1, <1>2, <1>3, LogConstants DEF Slots

\* Every step keeps the cache consistent with the disk.
LEMMA CacheStep == IInv /\ [Next]_vars => CacheInv'
<1> SUFFICES ASSUME IInv, [Next]_vars PROVE CacheInv'
  OBVIOUS
<1>i. CacheInv BY DEF IInv
<1>t. /\ lh \in Seq(Blocks) /\ Len(lh) \in Nat /\ tail \in 0..Len(lh)
      /\ buf \in [Ops -> Blocks \cup {NoBlock}]
      /\ disk \in [Blocks -> Vals] /\ cache \in [Blocks -> Vals]
  BY DEF IInv, TypeOK
<1>e. Active # {} => ~committing /\ ~Booting BY DEF IInv, CommitInv
\* Neither the cache nor the transaction changes.
<1>k. ASSUME UNCHANGED <<disk, cache, dirty, lh, buf>>, ~Booting, ~Booting',
             Pending' = Pending
      PROVE  CacheInv'
  BY <1>k, <1>i DEF CacheInv, Locked
<1>1. CASE UNCHANGED state
  BY <1>1, <1>i DEF state, op, ctl, mem, persistent, CacheInv, Locked, Booting, Pending
<1>2. ASSUME NEW o \in Ops, OpStep(o) PROVE CacheInv'
  <2>b. ~Booting BY <1>2 DEF OpStep, BeginOp, BeginSleep, LogWriteCheck, LogWrite,
          EndOp, EndOpLast, EndCommit, Running, Booting
  <2>1. CASE BeginOp(o) \/ BeginSleep(o) \/ EndOp(o)
    <3>1. UNCHANGED <<disk, cache, dirty, lh, buf, step, tail>>
      BY <2>1 DEF BeginOp, BeginSleep, EndOp, mem, persistent, ctl
    <3> QED BY <1>k, <3>1, <2>b DEF Booting, Pending
  <2>2. CASE EndOpLast(o)
    <3>1. /\ UNCHANGED <<disk, cache, dirty, lh, buf>>
          /\ step' \in {"done", "log"} /\ step = "none"
      BY <2>2, <2>b, ActiveMoves, AtRest DEF EndOpLast, mem, persistent
    <3> QED BY <1>k, <3>1, <2>b DEF Booting, Pending
  <2>3. CASE EndCommit(o)
    <3>1. /\ UNCHANGED <<disk, cache, dirty, lh, buf>>
          /\ step' = "none" /\ step = "done"
      BY <2>3 DEF EndCommit, mem, persistent
    <3> QED BY <1>k, <3>1, <2>b DEF Booting, Pending
  <2>4. ASSUME NEW b \in Blocks, NEW v \in Vals, LogWriteCheck(o, b, v)
        PROVE  CacheInv'
    <3>1. /\ UNCHANGED <<disk, dirty, lh, step, tail>>
          /\ cache' = [cache EXCEPT ![b] = v]
          /\ buf' = [buf EXCEPT ![o] = b] /\ pc[o] = "in"
      BY <2>4 DEF LogWriteCheck, persistent, ctl, Running
    <3>2. buf[o] = NoBlock BY <3>1 DEF IInv, BufInv
    <3>3. \A x \in Blocks : Locked(x) => Locked(x)'
      <4> SUFFICES ASSUME NEW x \in Blocks, NEW y \in Ops, buf[y] = x
                   PROVE  \E z \in Ops : buf'[z] = x
        BY DEF Locked
      <4>1. y # o BY <3>2, LogConstants
      <4>2. buf'[y] = x BY <4>1, <3>1, <1>t
      <4> QED BY <4>2
    <3>4. Locked(b)' BY <3>1, <1>t DEF Locked
    <3>5. \A x \in Blocks : x \in dirty' \/ Locked(x)' \/ cache'[x] = disk'[x]
      <4> SUFFICES ASSUME NEW x \in Blocks
                   PROVE  x \in dirty' \/ Locked(x)' \/ cache'[x] = disk'[x]
        OBVIOUS
      <4>1. CASE x = b BY <4>1, <3>4
      <4>2. CASE x # b
        <5>1. cache'[x] = cache[x] BY <4>2, <3>1, <1>t
        <5> QED BY <5>1, <3>1, <3>3, <1>i DEF CacheInv
      <4> QED BY <4>1, <4>2
    <3> QED BY <3>1, <3>5, <2>b, <1>i DEF CacheInv, Booting, Pending
  <2>5. CASE LogWrite(o)
    <3>1. /\ UNCHANGED <<disk, cache, step, tail>>
          /\ dirty' = dirty \cup {buf[o]}
          /\ lh' = IF ~InLog(lh, buf[o]) THEN Append(lh, buf[o]) ELSE lh
          /\ buf' = [buf EXCEPT ![o] = NoBlock] /\ pc[o] = "write"
      BY <2>5 DEF LogWrite, persistent, ctl, Running
    <3>2. buf[o] \in Blocks BY <3>1, <1>t DEF IInv, BufInv
    <3>3. step = "none" BY <2>b, <3>1, <1>e, AtRest DEF Active
    <3>4. \A x \in Blocks : x \in dirty <=> InLog(lh, x)
      BY <3>3, <2>b, <1>i, <1>t DEF CacheInv, Pending, InLog
    <3>5. \A x \in Blocks : x \in dirty' <=> InLog(lh', x)
      <4>1. CASE InLog(lh, buf[o]) BY <4>1, <3>1, <3>2, <3>4
      <4>2. CASE ~InLog(lh, buf[o]) BY <4>2, <3>1, <3>2, <3>4, <1>t, LogGrows
      <4> QED BY <4>1, <4>2
    <3>6. \A x \in Blocks : Locked(x) => Locked(x)' \/ x = buf[o]
      <4> SUFFICES ASSUME NEW x \in Blocks, NEW y \in Ops, buf[y] = x, x # buf[o]
                   PROVE  \E z \in Ops : buf'[z] = x
        BY DEF Locked
      <4>1. buf'[y] = x BY <3>1, <1>t
      <4> QED BY <4>1
    <3>7. \A x \in Blocks : x \in dirty' \/ Locked(x)' \/ cache'[x] = disk'[x]
      BY <3>1, <3>6, <1>i DEF CacheInv
    <3>8. \A x \in Blocks :
            x \in dirty' <=> \E i \in 1..Len(lh') : i >= Pending' /\ lh'[i] = x
      <4>1. Pending' = 1 BY <3>1, <3>3 DEF Pending
      <4>2. \A i \in 1..Len(lh') : i >= 1 OBVIOUS
      <4> QED BY <4>1, <4>2, <3>5 DEF InLog
    <3> QED BY <3>1, <3>7, <3>8, <2>b DEF CacheInv, Booting
  <2> QED BY <1>2, <2>1, <2>2, <2>3, <2>4, <2>5 DEF OpStep
<1>3. CASE WriteLog
  <2>1. UNCHANGED <<disk, cache, dirty, lh, buf, step>> /\ step = "log"
    BY <1>3 DEF WriteLog, mem, op
  <2> QED BY <1>k, <2>1 DEF Booting, Pending
<1>4. CASE WriteHead
  <2>1. /\ UNCHANGED <<disk, cache, dirty, lh, buf>>
        /\ step = "log" /\ step' = "install" /\ tail' = 0
    BY <1>4 DEF WriteHead, mem, op
  <2>2. Pending' = Pending BY <2>1 DEF Pending
  <2> QED BY <1>k, <2>1, <2>2 DEF Booting
<1>5. CASE InstallTrans
  <2> DEFINE b == lh[tail + 1]
  <2>1. /\ UNCHANGED <<lh, buf, step>> /\ tail' = tail + 1
        /\ disk' = [disk EXCEPT ![b] = logdata[tail + 1]]
        /\ cache' = [cache EXCEPT ![b] = logdata[tail + 1]]
        /\ dirty' = dirty \ {b}
        /\ step \in {"install", "recover"} /\ tail < Len(lh)
    BY <1>5 DEF InstallTrans, Installing, op
  <2>2. /\ tail + 1 \in 1..Len(lh) /\ tail \in Nat /\ b \in Blocks
    BY <2>1, NextSlot
  <2> HIDE DEF b
  <2>3. \A x \in Blocks : x \in dirty' \/ Locked(x)' \/ cache'[x] = disk'[x]
    <3> SUFFICES ASSUME NEW x \in Blocks
                 PROVE  x \in dirty' \/ Locked(x)' \/ cache'[x] = disk'[x]
      OBVIOUS
    <3>1. CASE x = b BY <3>1, <2>1, <2>2, <1>t
    <3>2. CASE x # b
      <4>1. cache'[x] = cache[x] /\ disk'[x] = disk[x] /\ (x \in dirty => x \in dirty')
        BY <3>2, <2>1, <2>2, <1>t
      <4> QED BY <4>1, <2>1, <1>i DEF CacheInv, Locked
    <3> QED BY <3>1, <3>2
  <2>4. CASE step = "recover"
    <3>1. Booting /\ Booting' BY <2>1, <2>4 DEF Booting
    <3>2. cache = disk /\ dirty = {} BY <3>1, <1>i DEF CacheInv
    <3>3. cache' = disk' /\ dirty' = {} BY <2>1, <3>2
    <3> QED BY <3>1, <3>3, <2>3 DEF CacheInv
  <2>5. CASE step = "install"
    <3>1. ~Booting /\ ~Booting' /\ Pending = tail + 1 /\ Pending' = tail + 2
      BY <2>1, <2>2, <2>5 DEF Booting, Pending
    <3>2. \A x \in Blocks :
            x \in dirty <=> \E i \in 1..Len(lh) : i >= tail + 1 /\ lh[i] = x
      BY <3>1, <1>i DEF CacheInv
    <3>3. \A i \in 1..Len(lh) : i >= tail + 1 <=> i >= tail + 2 \/ i = tail + 1
      BY <2>2, <1>t
    <3>4. \A i \in 1..Len(lh) : i >= tail + 2 => lh[i] # b
      <4>1. \A i \in 1..Len(lh) : i >= tail + 2 => i # tail + 1 BY <2>2, <1>t
      <4> QED BY <4>1, <2>2 DEF b, IInv, HeaderInv
    <3>5. \A x \in Blocks :
            x \in dirty' <=> \E i \in 1..Len(lh) : i >= tail + 2 /\ lh[i] = x
      BY <3>2, <3>3, <3>4, <2>1, <2>2 DEF b
    <3> QED BY <3>1, <3>5, <2>1, <2>3 DEF CacheInv
  <2> QED BY <2>1, <2>4, <2>5
<1>6. CASE ClearHead
  <2>1. /\ UNCHANGED <<disk, cache, dirty, buf>> /\ lh' = << >>
        /\ step' \in {"none", "done"} /\ tail = Len(lh)
        /\ step \in {"install", "recover"}
    BY <1>6 DEF ClearHead, Installing, op
  <2>2. dirty = {}
    <3>1. CASE step = "recover" BY <3>1, <1>i DEF CacheInv, Booting
    <3>2. CASE step = "install"
      <4>1. \A i \in 1..Len(lh) : ~(i >= Pending)
        BY <3>2, <2>1, <1>t DEF Pending
      <4>2. dirty \subseteq Blocks BY DEF IInv, TypeOK
      <4> QED BY <4>1, <4>2, <3>2, <1>i DEF CacheInv, Booting
    <3> QED BY <2>1, <3>1, <3>2
  <2>3. Len(lh') = 0 BY <2>1
  <2> QED BY <2>1, <2>2, <2>3, <1>i DEF CacheInv, Booting, Locked
<1>7. CASE ReadHead
  <2>1. UNCHANGED <<disk, cache, dirty, buf>> /\ step = "boot" /\ step' = "recover"
    BY <1>7 DEF ReadHead, persistent, op
  <2> QED BY <2>1, <1>i DEF CacheInv, Booting, Locked
<1>8. ASSUME NEW b \in Blocks, Evict(b) PROVE CacheInv'
  <2>1. UNCHANGED <<disk, cache, dirty, lh, buf, step, tail>>
    BY <1>8, EvictSame DEF Evict, persistent, ctl, op
  <2> QED BY <2>1, <1>i DEF CacheInv, Booting, Locked, Pending
<1>9. CASE Crash
  <2>1. cache' = disk /\ disk' = disk /\ dirty' = {} /\ step' = "boot"
    BY <1>9 DEF Crash, persistent
  <2> QED BY <2>1 DEF CacheInv, Booting
<1> QED BY <1>1, <1>2, <1>3, <1>4, <1>5, <1>6, <1>7, <1>8, <1>9, QuietStep DEF Next, LogStep

\* Every step keeps the copies of commit() and recovery right.
LEMMA CopyStep == IInv /\ [Next]_vars => CopyInv'
<1> SUFFICES ASSUME IInv, [Next]_vars PROVE CopyInv'
  OBVIOUS
<1>i. CopyInv BY DEF IInv
<1>t. /\ lh \in Seq(Blocks) /\ Len(lh) \in Nat /\ tail \in 0..Len(lh)
      /\ disk \in [Blocks -> Vals] /\ cache \in [Blocks -> Vals]
      /\ logdata \in [Slots -> Vals] /\ Len(lh) =< NLOG - 1
  BY DEF IInv, TypeOK
<1>e. Active # {} => ~committing /\ ~Booting BY DEF IInv, CommitInv
<1>k. ASSUME UNCHANGED <<disk, logdata, cache, lh, step, tail>> PROVE CopyInv'
  BY <1>k, <1>i DEF CopyInv
<1>n. ASSUME step' \in {"none", "boot", "done"} PROVE CopyInv'
  BY <1>n DEF CopyInv
<1>1. CASE UNCHANGED state BY <1>1, <1>k DEF state, persistent, mem, ctl
<1>2. ASSUME NEW o \in Ops, OpStep(o) PROVE CopyInv'
  <2>1. CASE BeginOp(o) \/ BeginSleep(o) \/ EndOp(o)
    BY <2>1, <1>k DEF BeginOp, BeginSleep, EndOp, persistent, mem, ctl
  <2>2. ASSUME NEW b \in Blocks, NEW v \in Vals, LogWriteCheck(o, b, v)
        PROVE  CopyInv'
    <3>1. step' = step /\ o \in Active
      BY <2>2 DEF LogWriteCheck, ctl, Running, Active
    <3>2. step = "none" BY <3>1, <1>e, AtRest
    <3> QED BY <1>n, <3>1, <3>2
  <2>3. CASE LogWrite(o)
    <3>1. step' = step /\ o \in Active
      BY <2>3 DEF LogWrite, ctl, Running, Active
    <3>2. step = "none" BY <3>1, <1>e, AtRest
    <3> QED BY <1>n, <3>1, <3>2
  <2>4. CASE EndOpLast(o)
    <3>1. step' \in {"log", "done"} /\ tail' = 0 BY <2>4 DEF EndOpLast
    <3> QED BY <3>1 DEF CopyInv
  <2>5. CASE EndCommit(o) BY <2>5, <1>n DEF EndCommit
  <2> QED BY <1>2, <2>1, <2>2, <2>3, <2>4, <2>5 DEF OpStep
<1>3. CASE WriteLog
  <2>1. /\ UNCHANGED <<cache, lh, step>> /\ step = "log" /\ tail' = tail + 1
        /\ logdata' = [logdata EXCEPT ![tail + 1] = cache[lh[tail + 1]]]
        /\ tail < Len(lh)
    BY <1>3 DEF WriteLog, mem
  <2>2. tail + 1 \in 1..Len(lh) /\ tail + 1 \in Slots /\ tail \in Nat
    BY <2>1, NextSlot
  <2>3. \A i \in 1..(tail + 1) : logdata'[i] = cache[lh[i]]
    <3> SUFFICES ASSUME NEW i \in 1..(tail + 1) PROVE logdata'[i] = cache[lh[i]]
      OBVIOUS
    <3>1. i \in Slots BY <2>2, LogConstants DEF Slots
    <3>2. CASE i = tail + 1 BY <3>2, <2>1, <2>2, <1>t
    <3>3. CASE i # tail + 1
      <4>1. i \in 1..tail BY <3>3, <2>2
      <4>2. logdata[i] = cache[lh[i]] BY <4>1, <2>1, <1>i DEF CopyInv
      <4>3. logdata'[i] = logdata[i] BY <2>1, <3>1, <3>3, <1>t
      <4> QED BY <4>2, <4>3
    <3> QED BY <3>2, <3>3
  <2> QED BY <2>1, <2>3 DEF CopyInv
<1>4. CASE WriteHead
  <2>1. /\ UNCHANGED <<disk, logdata, cache, lh>> /\ tail = Len(lh)
        /\ step = "log" /\ step' = "install" /\ tail' = 0
    BY <1>4 DEF WriteHead, mem
  <2>2. \A i \in 1..Len(lh) : logdata[i] = cache[lh[i]] BY <2>1, <1>i DEF CopyInv
  <2> QED BY <2>1, <2>2 DEF CopyInv
<1>5. CASE InstallTrans
  <2> DEFINE b == lh[tail + 1]
  <2>1. /\ UNCHANGED <<lh, step, logdata>> /\ tail' = tail + 1
        /\ disk' = [disk EXCEPT ![b] = logdata[tail + 1]]
        /\ cache' = [cache EXCEPT ![b] = logdata[tail + 1]]
        /\ step \in {"install", "recover"} /\ tail < Len(lh)
    BY <1>5 DEF InstallTrans, Installing
  <2>2. /\ tail + 1 \in 1..Len(lh) /\ tail \in Nat /\ b \in Blocks
    BY <2>1, NextSlot
  <2>3. step = "install" => cache' = cache
    <3>1. step = "install" => logdata[tail + 1] = cache[b]
      BY <2>2, <1>i DEF CopyInv
    <3> HIDE DEF b
    <3> QED BY <3>1, <2>1, <2>2, <1>t
  <2>4. \A i \in 1..(tail + 1) : disk'[lh[i]] = logdata[i]
    <3> SUFFICES ASSUME NEW i \in 1..(tail + 1) PROVE disk'[lh[i]] = logdata[i]
      OBVIOUS
    <3>1. i \in 1..Len(lh) /\ lh[i] \in Blocks BY <2>2, <1>t
    <3>2. CASE i = tail + 1 BY <3>2, <2>1, <2>2, <1>t
    <3>3. CASE i # tail + 1
      <4>1. i \in 1..tail BY <3>3, <2>2
      <4>2. disk[lh[i]] = logdata[i] BY <4>1, <2>1, <1>i DEF CopyInv
      <4>3. lh[i] # b BY <3>1, <3>3, <2>2 DEF IInv, HeaderInv
      <4>4. disk'[lh[i]] = disk[lh[i]] BY <2>1, <3>1, <4>3, <1>t
      <4> QED BY <4>2, <4>4
    <3> QED BY <3>2, <3>3
  <2> QED BY <2>1, <2>3, <2>4, <1>i DEF CopyInv
<1>6. CASE ClearHead
  <2>1. step' \in {"none", "done"} BY <1>6 DEF ClearHead
  <2> QED BY <1>n, <2>1
<1>7. CASE ReadHead
  <2>1. step' = "recover" /\ tail' = 0 BY <1>7 DEF ReadHead
  <2> QED BY <2>1 DEF CopyInv
<1>8. ASSUME NEW b \in Blocks, Evict(b) PROVE CopyInv'
  BY <1>8, <1>k, EvictSame DEF Evict, persistent, ctl
<1>9. CASE Crash BY <1>9, <1>n DEF Crash
<1> QED BY <1>1, <1>2, <1>3, <1>4, <1>5, <1>6, <1>7, <1>8, <1>9, QuietStep DEF Next, LogStep

\* The state at first boot satisfies the inductive invariant.
LEMMA InvInit == Init => IInv
<1> SUFFICES ASSUME Init PROVE IInv
  OBVIOUS
<1> USE LogConstants DEF Init
<1>1. TypeOK
  <2>1. lh \in Seq(Blocks) /\ Len(lh) = 0 /\ hdr \in Seq(Blocks) /\ Len(hdr) = 0
    OBVIOUS
  <2>2. logdata \in [Slots -> Vals] OBVIOUS
  <2>3. committing \in BOOLEAN /\ panicked \in BOOLEAN OBVIOUS
  <2>4. /\ tail \in 0..Len(lh) /\ outstanding \in Int /\ 0 =< NLOG - 1
        /\ used \in [Ops -> 0..OpMax]
    BY <2>1
  <2> QED BY <2>1, <2>2, <2>3, <2>4 DEF TypeOK, Steps, OpStates
<1>2. Active = {} /\ Booting BY DEF Active, Booting
<1>3. Len(lh) = 0 /\ Len(hdr) = 0 OBVIOUS
<1>4. SpaceInv BY <1>2, FS_EmptySet DEF SpaceInv
<1>5. CommitInv BY <1>2 DEF CommitInv, Sleeping
<1>6. BufInv BY DEF BufInv
<1>7. HeaderInv BY <1>3 DEF HeaderInv
<1>8. CacheInv BY <1>2 DEF CacheInv
<1>9. CopyInv BY DEF CopyInv
<1> QED BY <1>1, <1>4, <1>5, <1>6, <1>7, <1>8, <1>9 DEF IInv

\* Every step, crashes included, preserves the inductive invariant.
LEMMA InvStep == LogFits /\ IInv /\ [Next]_vars => IInv'
BY TypeStep, SpaceStep, CommitStep, BufStep, HeaderStep, CacheStep, CopyStep DEF IInv

\* With an empty header the durable disk is the home locations.
LEMMA EmptyOverlay ==
  ASSUME NEW d \in [Blocks -> Vals], NEW l PROVE Overlay(d, << >>, l) = d
<1>1. \A b : ~InLog(<< >>, b) BY DEF InLog
<1> QED BY <1>1 DEF Overlay

\* A logged block's durable value is the one in the log.
LEMMA InOverlay ==
  ASSUME NEW d, NEW h, NEW l, NEW i \in 1..Len(h), h[i] \in Blocks,
         \A j, k \in 1..Len(h) : h[j] = h[k] => j = k
  PROVE  Overlay(d, h, l)[h[i]] = l[i]
<1>1. InLog(h, h[i]) BY DEF InLog
<1>2. (CHOOSE j \in 1..Len(h) : h[j] = h[i]) = i OBVIOUS
<1> QED BY <1>1, <1>2 DEF Overlay

(***************************************************************************)
(* Every step of the log is a step of the atomic disk, or changes nothing  *)
(* of it: begin_op() is Begin, the change of a buffer is Write, end_op()   *)
(* is End, the write of the header is Commit.                              *)
(***************************************************************************)
LEMMA AbstractStep ==
  LogFits /\ IInv /\ IInv' /\ [Next]_vars => [Abstract!Next]_(Abstract!vars)
<1> SUFFICES ASSUME LogFits, IInv, IInv', [Next]_vars
             PROVE  [Abstract!Next]_(Abstract!vars)
  OBVIOUS
<1> DEFINE Cur == IF Booting THEN Durable ELSE cache
<1>t. /\ lh \in Seq(Blocks) /\ Len(lh) \in Nat
      /\ disk \in [Blocks -> Vals] /\ cache \in [Blocks -> Vals]
      /\ disk' \in [Blocks -> Vals]
  BY DEF IInv, TypeOK
<1>e. committing \/ Booting => Active = {} BY DEF IInv, CommitInv
\* A step that changes nothing the abstract disk shows.
<1>s. ASSUME Durable' = Durable, Cur' = Cur, Active' = Active
      PROVE  [Abstract!Next]_(Abstract!vars)
  BY <1>s DEF Abstract!vars
<1>k. ASSUME UNCHANGED <<disk, logdata, hdr, cache>>, Booting' <=> Booting
      PROVE  Durable' = Durable /\ Cur' = Cur
  <2>1. Durable' = Durable BY <1>k DEF Durable
  <2> QED BY <1>k, <2>1
<1>1. CASE UNCHANGED state
  <2>1. UNCHANGED <<disk, logdata, hdr, cache, step, pc>>
    BY <1>1 DEF state, persistent, mem, ctl, op
  <2> QED BY <1>s, <1>k, <2>1 DEF Booting, Active
<1>2. ASSUME NEW o \in Ops, OpStep(o) PROVE [Abstract!Next]_(Abstract!vars)
  <2>b. ~Booting BY <1>2 DEF OpStep, BeginOp, BeginSleep, LogWriteCheck, LogWrite,
          EndOp, EndOpLast, EndCommit, Running, Booting
  <2>1. CASE BeginOp(o)
    <3>1. /\ UNCHANGED <<disk, logdata, hdr, cache, step>>
          /\ o \notin Active /\ Active' = Active \cup {o}
      BY <2>1, ActiveMoves DEF BeginOp, persistent, mem
    <3>2. Durable' = Durable /\ Cur' = Cur BY <1>k, <3>1 DEF Booting
    <3>3. Abstract!Begin(o) BY <3>1, <3>2 DEF Abstract!Begin
    <3> QED BY <3>3 DEF Abstract!Next
  <2>2. CASE BeginSleep(o) \/ LogWrite(o)
    <3>1. UNCHANGED <<disk, logdata, hdr, cache, step>> /\ Active' = Active
      BY <2>2, ActiveMoves DEF BeginSleep, LogWrite, persistent, mem, ctl
    <3> QED BY <1>s, <1>k, <3>1 DEF Booting
  <2>3. ASSUME NEW b \in Blocks, NEW v \in Vals, LogWriteCheck(o, b, v)
        PROVE  [Abstract!Next]_(Abstract!vars)
    <3>1. /\ UNCHANGED <<disk, logdata, hdr, step>> /\ Active' = Active /\ o \in Active
          /\ cache' = [cache EXCEPT ![b] = v]
      BY <2>3, ActiveMoves DEF LogWriteCheck, Running, Active, persistent, ctl
    <3>2. Durable' = Durable BY <3>1 DEF Durable
    <3>3. Cur = cache /\ Cur' = cache' BY <3>1, <2>b DEF Booting
    <3>4. Abstract!Write(o, b, v)
      BY <3>1, <3>2, <3>3 DEF Abstract!Write
    <3> QED BY <3>4 DEF Abstract!Next
  <2>4. CASE EndOp(o) \/ EndOpLast(o)
    <3>1. /\ UNCHANGED <<disk, logdata, hdr, cache>> /\ ~Booting'
          /\ o \in Active /\ Active' = Active \ {o}
      BY <2>4, <2>b, ActiveMoves DEF EndOp, EndOpLast, persistent, mem, Booting
    <3>2. Durable' = Durable /\ Cur' = Cur BY <1>k, <3>1, <2>b
    <3>3. Abstract!End(o) BY <3>1, <3>2 DEF Abstract!End
    <3> QED BY <3>3 DEF Abstract!Next
  <2>5. CASE EndCommit(o)
    <3>1. /\ UNCHANGED <<disk, logdata, hdr, cache>> /\ ~Booting'
          /\ Active' = Active
      BY <2>5, ActiveMoves DEF EndCommit, persistent, mem, Booting
    <3> QED BY <1>s, <1>k, <3>1, <2>b
  <2> QED BY <1>2, <2>1, <2>2, <2>3, <2>4, <2>5 DEF OpStep
<1>3. CASE WriteLog
  <2>1. UNCHANGED <<disk, hdr, cache, step, pc>> /\ step = "log"
    BY <1>3 DEF WriteLog, mem, op
  <2>2. hdr = << >> BY <2>1 DEF IInv, HeaderInv
  <2>3. Durable' = Durable BY <2>1, <2>2, <1>t, EmptyOverlay DEF Durable
  <2> QED BY <1>s, <2>1, <2>3 DEF Booting, Active
<1>4. CASE WriteHead
  <2>1. /\ UNCHANGED <<disk, logdata, cache, lh, pc>> /\ hdr' = lh
        /\ step = "log" /\ step' = "install" /\ tail = Len(lh)
    BY <1>4 DEF WriteHead, mem, op
  <2>2. Active = {} /\ Active' = {}
    BY <2>1, <1>e DEF IInv, CommitInv, Active
  <2>3. Durable' = cache
    <3>1. \A b \in Blocks : Overlay(disk, lh, logdata)[b] = cache[b]
      <4> SUFFICES ASSUME NEW b \in Blocks
                   PROVE  Overlay(disk, lh, logdata)[b] = cache[b]
        OBVIOUS
      <4>1. ASSUME NEW i \in 1..Len(lh), lh[i] = b
            PROVE  Overlay(disk, lh, logdata)[b] = cache[b]
        <5>1. logdata[i] = cache[lh[i]] BY <2>1 DEF IInv, CopyInv
        <5>2. Overlay(disk, lh, logdata)[lh[i]] = logdata[i]
          BY <4>1, InOverlay DEF IInv, HeaderInv
        <5> QED BY <5>1, <5>2, <4>1
      <4>2. CASE ~InLog(lh, b)
        <5>1. b \notin dirty
          BY <4>2, <2>1 DEF IInv, CacheInv, Booting, Pending, InLog
        <5>2. ~Locked(b)
          <6>1. \A x \in Ops : buf[x] = NoBlock
            BY <2>2 DEF IInv, BufInv, Active
          <6> QED BY <6>1, LogConstants DEF Locked
        <5>3. cache[b] = disk[b] BY <5>1, <5>2 DEF IInv, CacheInv
        <5> QED BY <5>3, <4>2 DEF Overlay
      <4> QED BY <4>1, <4>2 DEF InLog
    <3>2. Durable' = Overlay(disk, lh, logdata) BY <2>1 DEF Durable
    <3>3. Overlay(disk, lh, logdata) = [b \in Blocks |-> cache[b]]
      BY <3>1 DEF Overlay
    <3> QED BY <3>2, <3>3, <1>t
  <2>4. Cur = cache /\ Cur' = cache BY <2>1 DEF Booting
  <2>5. Abstract!Commit BY <2>2, <2>3, <2>4 DEF Abstract!Commit
  <2> QED BY <2>5 DEF Abstract!Next
<1>5. CASE InstallTrans
  <2> DEFINE b == lh[tail + 1]
  <2>1. /\ UNCHANGED <<lh, hdr, logdata, step, pc>>
        /\ disk' = [disk EXCEPT ![b] = logdata[tail + 1]]
        /\ cache' = [cache EXCEPT ![b] = logdata[tail + 1]]
        /\ step \in {"install", "recover"} /\ tail < Len(lh)
    BY <1>5 DEF InstallTrans, Installing, op
  <2>2. tail + 1 \in 1..Len(lh) /\ b \in Blocks BY <2>1, NextSlot
  <2>3. hdr = lh BY <2>1 DEF IInv, HeaderInv
  <2>4. Durable' = Durable
    <3>1. InLog(hdr, b) BY <2>2, <2>3 DEF InLog
    <3> HIDE DEF b
    <3>2. \A x \in Blocks : ~InLog(hdr, x) => disk'[x] = disk[x]
      BY <3>1, <2>1, <2>2, <1>t
    <3> QED BY <3>2, <2>1 DEF Durable, Overlay
  <2>5. Cur' = Cur
    <3>1. CASE step = "recover" BY <3>1, <2>1, <2>4 DEF Booting
    <3>2. CASE step = "install"
      <4>1. logdata[tail + 1] = cache[b] BY <3>2, <2>2 DEF IInv, CopyInv
      <4> HIDE DEF b
      <4>2. cache' = cache BY <4>1, <2>1, <2>2, <1>t
      <4> QED BY <3>2, <2>1, <4>2 DEF Booting
    <3> QED BY <2>1, <3>1, <3>2
  <2> QED BY <1>s, <2>1, <2>4, <2>5 DEF Active
<1>6. CASE ClearHead
  <2>1. /\ UNCHANGED <<disk, logdata, cache, pc>> /\ hdr' = << >>
        /\ step' \in {"none", "done"} /\ tail = Len(lh)
        /\ step \in {"install", "recover"}
        /\ step = "recover" \/ step = "install"
    BY <1>6 DEF ClearHead, Installing, op
  <2>2. hdr = lh /\ Durable' = disk
    BY <2>1, <1>t, EmptyOverlay DEF IInv, HeaderInv, Durable
  <2>3. Durable = disk
    <3>1. \A x \in Blocks : Overlay(disk, lh, logdata)[x] = disk[x]
      <4> SUFFICES ASSUME NEW x \in Blocks
                   PROVE  Overlay(disk, lh, logdata)[x] = disk[x]
        OBVIOUS
      <4>1. ASSUME NEW i \in 1..Len(lh), lh[i] = x
            PROVE  Overlay(disk, lh, logdata)[x] = disk[x]
        <5>1. disk[lh[i]] = logdata[i] BY <2>1 DEF IInv, CopyInv
        <5>2. Overlay(disk, lh, logdata)[lh[i]] = logdata[i]
          BY <4>1, InOverlay DEF IInv, HeaderInv
        <5> QED BY <5>1, <5>2, <4>1
      <4>2. CASE ~InLog(lh, x) BY <4>2 DEF Overlay
      <4> QED BY <4>1, <4>2 DEF InLog
    <3>2. Overlay(disk, lh, logdata) = [x \in Blocks |-> disk[x]]
      BY <3>1 DEF Overlay
    <3> QED BY <3>2, <2>2, <1>t DEF Durable
  <2>4. Cur' = Cur
    <3>1. CASE step = "recover"
      <4>1. cache = disk BY <3>1 DEF IInv, CacheInv, Booting
      <4> QED BY <4>1, <3>1, <2>1, <2>3 DEF Booting
    <3>2. CASE step = "install" BY <3>2, <2>1 DEF Booting
    <3> QED BY <2>1, <3>1, <3>2
  <2> QED BY <1>s, <2>1, <2>2, <2>3, <2>4 DEF Active
<1>7. CASE ReadHead
  <2>1. /\ UNCHANGED <<disk, logdata, hdr, cache, pc>>
        /\ step = "boot" /\ step' = "recover"
    BY <1>7 DEF ReadHead, persistent, op
  <2> QED BY <1>s, <1>k, <2>1 DEF Booting, Active
<1>8. ASSUME NEW b \in Blocks, Evict(b) PROVE [Abstract!Next]_(Abstract!vars)
  <2>1. UNCHANGED <<disk, logdata, hdr, cache, step, pc>>
    BY <1>8, EvictSame DEF Evict, persistent, ctl, op
  <2> QED BY <1>s, <1>k, <2>1 DEF Booting, Active
<1>9. CASE Crash
  <2>1. /\ UNCHANGED <<disk, logdata, hdr>> /\ step' = "boot"
        /\ pc' = [x \in Ops |-> "idle"]
    BY <1>9 DEF Crash, persistent
  <2>2. Active' = {} BY <2>1 DEF Active
  <2>3. Durable' = Durable /\ Cur' = Durable BY <2>1 DEF Durable, Booting
  <2>4. Abstract!Crash BY <2>2, <2>3 DEF Abstract!Crash
  <2> QED BY <2>4 DEF Abstract!Next
<1> QED BY <1>1, <1>2, <1>3, <1>4, <1>5, <1>6, <1>7, <1>8, <1>9, QuietStep DEF Next, LogStep

\* The state at first boot is an initial state of the atomic disk.
LEMMA AbstractInit == Init => Abstract!Init
<1> SUFFICES ASSUME Init PROVE Abstract!Init
  OBVIOUS
<1>1. Durable = disk /\ disk \in [Blocks -> Vals]
  BY EmptyOverlay DEF Init, Durable
<1>2. Booting /\ Active = {} BY DEF Init, Booting, Active
<1> QED BY <1>1, <1>2 DEF Abstract!Init

\* The inductive invariant of the log holds in every reachable state.
THEOREM Invariance == ASSUME LogFits PROVE Spec => []IInv
BY InvInit, InvStep, PTL DEF Spec

\* Type correctness: log.c never writes past the log area of the disk.
THEOREM LogTypeCorrect == ASSUME LogFits PROVE Spec => []TypeOK
BY Invariance, PTL DEF IInv

(***************************************************************************)
(* The reservation of begin_op() is sufficient: log_write() and end_op()   *)
(* never panic, for any number of processes.                               *)
(***************************************************************************)
THEOREM LogNeverPanics == ASSUME LogFits PROVE Spec => []NoPanic
<1>1. IInv => NoPanic BY DEF IInv, SpaceInv, NoPanic
<1> QED BY <1>1, Invariance, PTL

(***************************************************************************)
(* When the log is at rest and no operation is in progress, every write is *)
(* at home on the disk.                                                    *)
(***************************************************************************)
THEOREM LogSynced == ASSUME LogFits PROVE Spec => []SyncedAtRest
<1>1. IInv => SyncedAtRest
  <2> SUFFICES ASSUME IInv, step = "none", outstanding = 0
               PROVE  lh = << >> /\ hdr = << >> /\ disk = cache /\ dirty = {}
    BY DEF SyncedAtRest
  <2>1. Active = {} BY ActiveFinite, FS_EmptySet DEF IInv, SpaceInv
  <2>2. lh = << >> /\ hdr = << >> BY <2>1 DEF IInv, HeaderInv
  <2>3. Len(lh) = 0 BY <2>2
  <2>4. dirty = {} BY <2>3 DEF IInv, CacheInv, Booting, TypeOK
  <2>5. \A b \in Blocks : ~Locked(b)
    <3>1. \A x \in Ops : buf[x] = NoBlock BY <2>1 DEF IInv, BufInv, Active
    <3> QED BY <3>1, LogConstants DEF Locked
  <2>6. \A b \in Blocks : cache[b] = disk[b] BY <2>4, <2>5 DEF IInv, CacheInv
  <2>7. disk = cache BY <2>6 DEF IInv, TypeOK
  <2> QED BY <2>2, <2>4, <2>7
<1> QED BY <1>1, Invariance, PTL

(***************************************************************************)
(* Nobody sleeps in begin_op() without an operation or a commit whose end  *)
(* will wake it.                                                           *)
(***************************************************************************)
THEOREM LogNoLostWakeup == ASSUME LogFits PROVE Spec => []NoLostLogWakeup
<1>1. IInv => NoLostLogWakeup BY DEF IInv, CommitInv, NoLostLogWakeup
<1> QED BY <1>1, Invariance, PTL

\* The three together: the state of log.c is consistent between its steps.
THEOREM LogConsistent == ASSUME LogFits PROVE Spec => []LogInv
<1>1. TypeOK /\ SyncedAtRest /\ NoLostLogWakeup => LogInv BY DEF LogInv
<1> QED BY <1>1, LogTypeCorrect, LogSynced, LogNoLostWakeup, PTL

(***************************************************************************)
(* log.c implements the atomic disk: crashes at any time, also in commit() *)
(* and in recovery, never expose a part of an operation.                   *)
(***************************************************************************)
THEOREM LogIsAtomicDisk == ASSUME LogFits PROVE Spec => ImplementsAtomicDisk
BY AbstractInit, AbstractStep, Invariance, PTL
   DEF Spec, ImplementsAtomicDisk, Abstract!Spec
=============================================================================
