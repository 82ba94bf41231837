----------------------------- MODULE BcacheProofs -----------------------------
(***************************************************************************)
(* Proofs about Bcache for any number of processes, buffers and blocks.    *)
(*                                                                         *)
(* No lock covers a buffer from bread() to brelse() and through iderw() on *)
(* the way: what does is the sleep lock, and the argument is about its     *)
(* owner.  IInv says, besides what the runs check, that whoever has or     *)
(* works on a buffer owns its lock (LockInv), in which flags a buffer is   *)
(* at every place of bread(), bwrite() and iderw() (FlagInv), that a       *)
(* request of the disk queue is that of a process asleep for it and that   *)
(* the disk works on the first (QueueInv), and that data that is neither   *)
(* dirty nor unread is that of the disk (CleanInv), which needs a disk     *)
(* without read errors.                                                    *)
(***************************************************************************)
EXTENDS Bcache, FiniteSetTheorems, SequenceTheorems, TLAPS

\* The places at which a process has the lock of the buffer it works on.
Locked == {"bread", "iderw", "iosleep", "iowake"}

(***************************************************************************)
(* A process at rest works on no buffer; one that has a buffer or works on *)
(* it has its lock; a buffer being let go of is no longer had.             *)
(***************************************************************************)
LockInv ==
  /\ \A p \in Procs: pc[p] = "fs" <=> cur[p] = None
  /\ \A p \in Procs: pc[p] \in Locked => owner[cur[p]] = p
  /\ \A p \in Procs: \A b \in held[p]: owner[b] = p
  /\ \A p \in Procs: pc[p] \in {"lock", "locksleep", "unref"} => cur[p] \notin held[p]

(***************************************************************************)
(* The flags: a buffer that was given out is read; one that was changed    *)
(* was read before; iderw() has something to do until it is done.          *)
(***************************************************************************)
FlagInv ==
  /\ \A p \in Procs: \A b \in held[p]: valid[b]
  /\ \A b \in Bufs: dirty[b] => valid[b]
  /\ \A p \in Procs: pc[p] = "iderw" => ~valid[cur[p]] \/ dirty[cur[p]]
  /\ \A i \in 1 .. Len(idequeue): ~valid[idequeue[i]] \/ dirty[idequeue[i]]
  /\ \A p \in Procs: pc[p] = "iowake" => valid[cur[p]] /\ ~dirty[cur[p]]
  /\ \A b \in Bufs: refcnt[b] > 0 => blockno[b] # NoBlock

\* The command of idestart() for buffer b.
CommandFor(b) == IF dirty[b] THEN [op |-> "write", blk |-> blockno[b], val |-> data[b]]
                             ELSE [op |-> "read", blk |-> blockno[b]]

\* The requests: those of the processes asleep in iderw(), one each; who was
\* killed asleep stays there when its request is done.
QueueInv ==
  /\ \A p \in Procs: pc[p] = "iosleep" /\ p \notin stranded =>
       \E i \in 1 .. Len(idequeue): idequeue[i] = cur[p]
  /\ \A i \in 1 .. Len(idequeue): \E p \in Procs: pc[p] = "iosleep" /\ cur[p] = idequeue[i]
  /\ \A i, j \in 1 .. Len(idequeue): idequeue[i] = idequeue[j] => i = j
  /\ cmd = IF idequeue = << >> THEN NoCmd ELSE CommandFor(idequeue[1])

IInv == /\ TypeOK /\ OneBufferPerBlock /\ RefsExact /\ NoIdePanic
        /\ LockInv /\ FlagInv /\ QueueInv

(***************************************************************************)
(* Without read errors, a buffer that is valid and not dirty is the block. *)
(***************************************************************************)
CleanInv ==
  \A b \in Bufs: valid[b] /\ ~dirty[b] => blockno[b] \in Blocks /\ data[b] = disk[blockno[b]]

-----------------------------------------------------------------------------
\* The processes that refcnt counts for buffer b.
Users(b) == {p \in Procs : b \in held[p] \union {cur[p]}}

\* A set of processes is finite.
LEMMA FiniteProcs == ASSUME NEW S \in SUBSET Procs
                     PROVE  IsFiniteSet(S) /\ Cardinality(S) \in Nat
BY CacheAssumption, FS_Subset, FS_CardinalityType

\* Nobody has or works on a buffer whose refcnt is 0.
LEMMA Unused == ASSUME TypeOK, RefsExact, NEW b \in Bufs
                PROVE  refcnt[b] = 0 <=> \A p \in Procs: b \notin held[p] /\ cur[p] # b
<1>1. Users(b) \in SUBSET Procs /\ refcnt[b] = Cardinality(Users(b))
  BY DEF Users, RefsExact
<1>2. refcnt[b] = 0 <=> Users(b) = {}
  BY <1>1, FiniteProcs, FS_EmptySet
<1> QED BY <1>2 DEF Users

\* Steps that count no buffer differently keep refcnt exact.
LEMMA SameRefs ==
  ASSUME RefsExact, UNCHANGED refcnt,
         \A p \in Procs: \A b \in Bufs:
            b \in held'[p] \union {cur'[p]} <=> b \in held[p] \union {cur[p]}
  PROVE  RefsExact'
<1> SUFFICES ASSUME NEW b \in Bufs
             PROVE  refcnt'[b] = Cardinality({p \in Procs : b \in held'[p] \union {cur'[p]}})
  BY DEF RefsExact
<1>1. {p \in Procs : b \in held'[p] \union {cur'[p]}} = {p \in Procs : b \in held[p] \union {cur[p]}}
  OBVIOUS
<1> QED BY <1>1 DEF RefsExact

\* A request is for a buffer, and its process is asleep.
LEMMA InQueue ==
  ASSUME TypeOK, QueueInv, NEW i \in 1 .. Len(idequeue)
  PROVE  /\ idequeue[i] \in Bufs
         /\ \E p \in Procs: pc[p] = "iosleep" /\ cur[p] = idequeue[i]
<1>1. idequeue[i] \in Bufs BY DEF TypeOK
<1>2. \E p \in Procs: pc[p] = "iosleep" /\ cur[p] = idequeue[i] BY DEF QueueInv
<1> QED BY <1>1, <1>2

\* Steps that touch neither the queue, nor its buffers, nor its sleepers.
LEMMA SameQueue ==
  ASSUME TypeOK, QueueInv, UNCHANGED <<idequeue, cmd>>,
         stranded \subseteq stranded',
         \A k \in 1 .. Len(idequeue): /\ dirty'[idequeue[k]] = dirty[idequeue[k]]
                                      /\ blockno'[idequeue[k]] = blockno[idequeue[k]]
                                      /\ data'[idequeue[k]] = data[idequeue[k]],
         \A q \in Procs: /\ pc'[q] = "iosleep" <=> pc[q] = "iosleep"
                         /\ pc[q] = "iosleep" => cur'[q] = cur[q]
  PROVE  QueueInv'
<1>1. idequeue # << >> => 1 \in 1 .. Len(idequeue) BY DEF TypeOK
<1>2. idequeue # << >> => (CommandFor(idequeue[1]))' = CommandFor(idequeue[1])
  BY <1>1 DEF CommandFor
<1>3. cmd' = IF idequeue' = << >> THEN NoCmd ELSE (CommandFor(idequeue[1]))'
  BY <1>2 DEF QueueInv
<1>4. \A q \in Procs: pc'[q] = "iosleep" /\ q \notin stranded' =>
         \E i \in 1 .. Len(idequeue'): idequeue'[i] = cur'[q]
  BY DEF QueueInv
<1>5. \A i \in 1 .. Len(idequeue'): \E q \in Procs: pc'[q] = "iosleep" /\ cur'[q] = idequeue'[i]
  BY DEF QueueInv
<1>6. \A i, j \in 1 .. Len(idequeue'): idequeue'[i] = idequeue'[j] => i = j
  BY DEF QueueInv
<1> QED BY <1>3, <1>4, <1>5, <1>6 DEF QueueInv

\* RemoveAt() closes the gap.
LEMMA RemoveAtIs ==
  ASSUME NEW S, NEW s \in Seq(S), NEW i \in 1 .. Len(s)
  PROVE  /\ RemoveAt(s, i) \in Seq(S) /\ Len(RemoveAt(s, i)) = Len(s) - 1
         /\ \A j \in 1 .. Len(s) - 1: RemoveAt(s, i)[j] = IF j < i THEN s[j] ELSE s[j + 1]
<1> DEFINE l == SubSeq(s, 1, i - 1)
           r == SubSeq(s, i + 1, Len(s))
<1>1. /\ l \in Seq(S) /\ Len(l) = i - 1
      /\ \A j \in 1 .. i - 1: l[j] = s[j]
  OBVIOUS
<1>2. /\ r \in Seq(S) /\ Len(r) = Len(s) - i
      /\ \A j \in 1 .. Len(s) - i: r[j] = s[i + j]
  OBVIOUS
<1>3. RemoveAt(s, i) = l \o r BY DEF RemoveAt
<1> HIDE DEF l, r
<1>4. /\ l \o r \in Seq(S) /\ Len(l \o r) = Len(l) + Len(r)
      /\ \A j \in 1 .. Len(l) + Len(r): (l \o r)[j] = IF j <= Len(l) THEN l[j] ELSE r[j - Len(l)]
  BY <1>1, <1>2, ConcatProperties
<1>5. ASSUME NEW j \in 1 .. Len(s) - 1
      PROVE  (l \o r)[j] = IF j < i THEN s[j] ELSE s[j + 1]
  <2> Len(s) \in Nat /\ i \in Nat /\ i >= 1 /\ i =< Len(s) /\ j \in Nat OBVIOUS
  <2>0. Len(l) + Len(r) = Len(s) - 1 BY <1>1, <1>2
  <2>1. (l \o r)[j] = IF j <= i - 1 THEN l[j] ELSE r[j - (i - 1)]
    BY <1>1, <2>0, <1>4
  <2>2. CASE j < i BY <2>1, <2>2, <1>1
  <2>3. CASE ~(j < i)
    <3>1. j - (i - 1) \in 1 .. Len(s) - i /\ i + (j - (i - 1)) = j + 1 BY <2>3
    <3> QED BY <2>1, <2>3, <3>1, <1>2
  <2> QED BY <2>2, <2>3
<1>6. Len(l) + Len(r) = Len(s) - 1
  <2> Len(s) \in Nat /\ i \in Nat OBVIOUS
  <2> QED BY <1>1, <1>2
<1>7. l \o r \in Seq(S) /\ Len(l \o r) = Len(s) - 1 BY <1>4, <1>6
<1>8. \A j \in 1 .. Len(s) - 1: (l \o r)[j] = IF j < i THEN s[j] ELSE s[j + 1] BY <1>5
<1> QED BY <1>3, <1>7, <1>8, Zenon

\* The list s with its i-th buffer moved to the front.
Moved(s, i) == <<s[i]>> \o RemoveAt(s, i)

\* Moving a buffer to the front keeps the list a list of all buffers.
LEMMA MoveToFront ==
  ASSUME NEW S, NEW s \in Seq(S), NEW i \in 1 .. Len(s)
  PROVE  /\ Moved(s, i) \in Seq(S) /\ Len(Moved(s, i)) = Len(s)
         /\ \A j \in 1 .. Len(s): \E k \in 1 .. Len(s): Moved(s, i)[k] = s[j]
<1> DEFINE t == Moved(s, i)
<1>1. <<s[i]>> \in Seq(S) /\ Len(<<s[i]>>) = 1 /\ <<s[i]>>[1] = s[i]
  OBVIOUS
<1>2. /\ t \in Seq(S) /\ Len(t) = Len(s)
      /\ \A j \in 1 .. Len(s): t[j] = IF j <= 1 THEN s[i] ELSE RemoveAt(s, i)[j - 1]
  <2>1. /\ RemoveAt(s, i) \in Seq(S) /\ Len(RemoveAt(s, i)) = Len(s) - 1
    BY RemoveAtIs
  <2>2. /\ t \in Seq(S) /\ Len(t) = 1 + Len(RemoveAt(s, i))
        /\ \A j \in 1 .. 1 + Len(RemoveAt(s, i)):
             t[j] = IF j <= 1 THEN <<s[i]>>[j] ELSE RemoveAt(s, i)[j - 1]
    BY <1>1, <2>1, ConcatProperties DEF Moved
  <2> HIDE DEF t
  <2> QED BY <1>1, <2>1, <2>2
<1> HIDE DEF t
<1>3. ASSUME NEW j \in 1 .. Len(s) PROVE \E k \in 1 .. Len(s): t[k] = s[j]
  <2>1. CASE j = i BY <2>1, <1>2
  <2>2. CASE j < i
    <3>1. j + 1 \in 1 .. Len(s) /\ j \in 1 .. Len(s) - 1 /\ (j + 1) - 1 = j BY <2>2
    <3>2. t[j + 1] = s[j] BY <3>1, <2>2, <1>2, RemoveAtIs
    <3> QED BY <3>1, <3>2, <1>2
  <2>3. CASE j > i
    <3>1. j - 1 \in 1 .. Len(s) - 1 /\ (j - 1) + 1 = j /\ ~(j <= 1) BY <2>3
    <3>2. t[j] = s[j] BY <3>1, <2>3, <1>2, RemoveAtIs
    <3> QED BY <3>2, <1>2
  <2> QED BY <2>1, <2>2, <2>3
<1> QED BY <1>2, <1>3 DEF t

-----------------------------------------------------------------------------
\* binit() sets the invariant up.
LEMMA InvInit == Init => IInv
<1> SUFFICES ASSUME Init PROVE IInv
  OBVIOUS
<1>1. /\ lru \in [1 .. Cardinality(Bufs) -> Bufs] /\ IsInjective(lru)
      /\ Cardinality(Bufs) \in Nat
  <2>1. PICK f : f \in Bijection(1 .. Cardinality(Bufs), Bufs)
    BY CacheAssumption, FS_CardinalityType DEF ExistsBijection
  <2>2. \E f1 \in [1 .. Cardinality(Bufs) -> Bufs] : IsInjective(f1)
    BY <2>1 DEF Bijection, Injection
  <2> QED BY <2>2, CacheAssumption, FS_CardinalityType DEF Init, SetToSeq
<1>2. lru \in Surjection(1 .. Cardinality(Bufs), Bufs)
  <2>1. lru \in Injection(1 .. Cardinality(Bufs), Bufs) BY <1>1 DEF Injection
  <2>2. Cardinality(1 .. Cardinality(Bufs)) = Cardinality(Bufs)
    BY <1>1, FS_Interval
  <2> QED BY <2>1, <2>2, CacheAssumption, FS_Injection
<1>3. TypeOK
  <2>1. /\ lru \in Seq(Bufs) /\ Len(lru) = Cardinality(Bufs)
        /\ \A b \in Bufs: \E i \in 1 .. Len(lru): lru[i] = b
    BY <1>1, <1>2 DEF Surjection
  <2>2. /\ data \in [Bufs -> Val] /\ disk \in [Blocks -> Val] /\ idequeue \in Seq(Bufs)
    BY DEF Init
  <2>3. pc \in [Procs -> Places] /\ held \in [Procs -> SUBSET Bufs]
    BY DEF Init, Places
  <2> QED BY <2>1, <2>2, <2>3 DEF Init, TypeOK
<1>4. RefsExact
  <2> SUFFICES ASSUME NEW b \in Bufs PROVE refcnt[b] = Cardinality(Users(b))
    BY DEF RefsExact, Users
  <2>1. Users(b) = {} BY CacheAssumption DEF Init, Users
  <2> QED BY <2>1, FS_EmptySet DEF Init
<1>5. OneBufferPerBlock /\ NoIdePanic /\ LockInv /\ FlagInv /\ QueueInv
  BY CacheAssumption DEF Init, OneBufferPerBlock, NoIdePanic, LockInv, FlagInv, QueueInv, Locked
<1> QED BY <1>3, <1>4, <1>5 DEF IInv

-----------------------------------------------------------------------------
\* bget() of a cached block: one user more.
LEMMA BgetHitInv == ASSUME IInv, NEW p \in Procs, NEW blk \in Blocks, BgetHit(p, blk)
                    PROVE  IInv'
<1> USE CacheAssumption
<1>1. PICK b \in Bufs : /\ blockno[b] = blk
                        /\ refcnt' = [refcnt EXCEPT ![b] = @ + 1]
                        /\ cur' = [cur EXCEPT ![p] = b]
                        /\ b \notin held[p]
  BY DEF BgetHit, MayAsk, Holding
<1>2. /\ ~panicked /\ pc[p] = "fs" /\ cur[p] = None
      /\ pc' = [pc EXCEPT ![p] = "lock"]
      /\ UNCHANGED <<blockno, valid, dirty, data, owner, lru, idequeue, disk, cmd, intr, held, stranded, panicked>>
  BY DEF BgetHit, MayAsk, At, Goto, ide, IInv, LockInv
<1>3. TypeOK' BY <1>1, <1>2 DEF IInv, TypeOK, Places
<1>4. OneBufferPerBlock' BY <1>1, <1>2 DEF IInv, OneBufferPerBlock
<1>5. RefsExact'
  <2> SUFFICES ASSUME NEW c \in Bufs PROVE refcnt'[c] = Cardinality(Users(c)')
    BY DEF RefsExact, Users
  <2>1. refcnt[c] = Cardinality(Users(c)) BY DEF IInv, RefsExact, Users
  <2>2. CASE c # b
    <3>1. Users(c)' = Users(c) BY <1>1, <1>2, <2>2 DEF Users, IInv, TypeOK
    <3> QED BY <1>1, <2>1, <2>2, <3>1 DEF IInv, TypeOK
  <2>3. CASE c = b
    <3>1. Users(b)' = Users(b) \union {p} /\ p \notin Users(b)
      BY <1>1, <1>2 DEF Users, IInv, TypeOK
    <3>2. IsFiniteSet(Users(b)) BY FiniteProcs DEF Users
    <3>3. Cardinality(Users(b) \union {p}) = Cardinality(Users(b)) + 1
      BY <3>1, <3>2, FS_AddElement
    <3>4. refcnt'[b] = refcnt[b] + 1 BY <1>1 DEF IInv, TypeOK
    <3> QED BY <2>1, <2>3, <3>1, <3>3, <3>4
  <2> QED BY <2>2, <2>3
<1>6. NoIdePanic' BY <1>2 DEF NoIdePanic
<1>7. LockInv' BY <1>1, <1>2 DEF IInv, LockInv, Locked, TypeOK, Places
<1>8. FlagInv' BY <1>1, <1>2 DEF IInv, FlagInv, TypeOK
<1>9. QueueInv'
  <2>1. \A q \in Procs: /\ pc'[q] = "iosleep" <=> pc[q] = "iosleep"
                        /\ pc[q] = "iosleep" => cur'[q] = cur[q]
    BY <1>1, <1>2 DEF IInv, TypeOK
  <2>2. /\ UNCHANGED <<idequeue, cmd, stranded>>
        /\ \A k \in 1 .. Len(idequeue): /\ dirty'[idequeue[k]] = dirty[idequeue[k]]
                                        /\ blockno'[idequeue[k]] = blockno[idequeue[k]]
                                        /\ data'[idequeue[k]] = data[idequeue[k]]
    BY <1>2
  <2> QED BY <2>1, <2>2, SameQueue DEF IInv
<1> QED BY <1>3, <1>4, <1>5, <1>6, <1>7, <1>8, <1>9 DEF IInv

\* bget() recycles a buffer nobody uses.
LEMMA BgetMissInv == ASSUME IInv, NEW p \in Procs, NEW blk \in Blocks, BgetMiss(p, blk)
                     PROVE  IInv'
<1> USE CacheAssumption
<1>1. PICK i \in 1 .. Len(lru) :
        /\ Recyclable(lru[i])
        /\ blockno' = [blockno EXCEPT ![lru[i]] = blk]
        /\ valid' = [valid EXCEPT ![lru[i]] = FALSE]
        /\ dirty' = [dirty EXCEPT ![lru[i]] = FALSE]
        /\ refcnt' = [refcnt EXCEPT ![lru[i]] = 1]
        /\ cur' = [cur EXCEPT ![p] = lru[i]]
  BY DEF BgetMiss
<1>2. /\ ~panicked /\ pc[p] = "fs" /\ cur[p] = None
      /\ pc' = [pc EXCEPT ![p] = "lock"]
      /\ UNCHANGED <<data, owner, lru, idequeue, disk, cmd, intr, held, stranded, panicked>>
      /\ \A c \in Bufs: blockno[c] # blk
  BY DEF BgetMiss, MayAsk, At, Goto, ide, IInv, LockInv, Holding
<1>3. PICK b \in Bufs : b = lru[i] BY DEF IInv, TypeOK
<1>4. /\ refcnt[b] = 0 /\ ~dirty[b] /\ \A q \in Procs: b \notin held[q] /\ cur[q] # b
  BY <1>1, <1>3, Unused DEF Recyclable, IInv
<1>5. /\ blockno' = [blockno EXCEPT ![b] = blk] /\ valid' = [valid EXCEPT ![b] = FALSE]
      /\ dirty' = [dirty EXCEPT ![b] = FALSE] /\ refcnt' = [refcnt EXCEPT ![b] = 1]
      /\ cur' = [cur EXCEPT ![p] = b]
  BY <1>1, <1>3
<1>6. TypeOK' BY <1>2, <1>5 DEF IInv, TypeOK, Places
<1>7. OneBufferPerBlock' BY <1>2, <1>5 DEF IInv, OneBufferPerBlock, TypeOK
<1>8. RefsExact'
  <2> SUFFICES ASSUME NEW c \in Bufs PROVE refcnt'[c] = Cardinality(Users(c)')
    BY DEF RefsExact, Users
  <2>1. refcnt[c] = Cardinality(Users(c)) BY DEF IInv, RefsExact, Users
  <2>2. CASE c # b
    <3>1. Users(c)' = Users(c) BY <1>2, <1>5, <2>2 DEF Users, IInv, TypeOK
    <3> QED BY <1>5, <2>1, <2>2, <3>1 DEF IInv, TypeOK
  <2>3. CASE c = b
    <3>1. Users(b)' = {p} BY <1>2, <1>4, <1>5 DEF Users, IInv, TypeOK
    <3> QED BY <1>5, <2>3, <3>1, FS_Singleton DEF IInv, TypeOK
  <2> QED BY <2>2, <2>3
<1>9. NoIdePanic' BY <1>2 DEF NoIdePanic
<1>10. LockInv' BY <1>2, <1>4, <1>5 DEF IInv, LockInv, Locked, TypeOK, Places
<1>11. FlagInv' BY <1>2, <1>4, <1>5 DEF IInv, FlagInv, LockInv, TypeOK
<1>12. QueueInv'
  <2>1. \A k \in 1 .. Len(idequeue): idequeue[k] \in Bufs /\ idequeue[k] # b
    BY <1>4, InQueue DEF IInv
  <2>2. \A q \in Procs: /\ pc'[q] = "iosleep" <=> pc[q] = "iosleep"
                        /\ pc[q] = "iosleep" => cur'[q] = cur[q]
    BY <1>2, <1>5 DEF IInv, TypeOK
  <2>3. \A c \in Bufs: c # b => /\ dirty'[c] = dirty[c] /\ blockno'[c] = blockno[c]
                                /\ data'[c] = data[c]
    BY <1>2, <1>5 DEF IInv, TypeOK
  <2> QED BY <1>2, <2>1, <2>2, <2>3, SameQueue DEF IInv
<1> QED BY <1>6, <1>7, <1>8, <1>9, <1>10, <1>11, <1>12 DEF IInv

\* panic("bget: no buffers") changes nothing else.
LEMMA BgetPanicInv == ASSUME IInv, NEW p \in Procs, NEW blk \in Blocks, BgetPanic(p, blk)
                      PROVE  IInv'
<1>1. /\ UNCHANGED <<blockno, valid, dirty, refcnt, data, owner, lru, idequeue,
                     disk, cmd, intr, pc, cur, held, stranded>>
      /\ panicked' = TRUE /\ \A b \in Bufs: ~Recyclable(b)
  BY DEF BgetPanic, buf, ide
<1>2. TypeOK' BY <1>1 DEF IInv, TypeOK
<1>3. OneBufferPerBlock' BY <1>1 DEF IInv, OneBufferPerBlock
<1>4. RefsExact' BY <1>1, SameRefs DEF IInv
<1>5. NoIdePanic' BY <1>1 DEF Recyclable, NoIdePanic, IInv, TypeOK
<1>6. LockInv' BY <1>1 DEF IInv, LockInv
<1>7. FlagInv' BY <1>1 DEF IInv, FlagInv
<1>8. QueueInv' BY <1>1, SameQueue DEF IInv
<1> QED BY <1>2, <1>3, <1>4, <1>5, <1>6, <1>7, <1>8 DEF IInv

\* acquiresleep() gets the lock.
LEMMA AcquireSleepInv == ASSUME IInv, NEW p \in Procs, AcquireSleep(p) PROVE IInv'
<1> USE CacheAssumption
<1>1. /\ ~panicked /\ pc[p] = "lock" /\ owner[cur[p]] = None
      /\ owner' = [owner EXCEPT ![cur[p]] = p] /\ pc' = [pc EXCEPT ![p] = "bread"]
      /\ UNCHANGED <<blockno, valid, dirty, refcnt, data, lru, idequeue,
                     disk, cmd, intr, cur, held, stranded, panicked>>
  BY DEF AcquireSleep, At, Goto, buf, ide
<1>2. cur[p] \in Bufs /\ cur[p] # None BY <1>1 DEF IInv, TypeOK, LockInv
<1>3. TypeOK' BY <1>1, <1>2 DEF IInv, TypeOK, Places
<1>4. OneBufferPerBlock' BY <1>1 DEF IInv, OneBufferPerBlock
<1>5. RefsExact' BY <1>1, SameRefs DEF IInv
<1>6. NoIdePanic' BY <1>1 DEF NoIdePanic
<1>7. LockInv'
  <2>1. \A q \in Procs: q # p => pc'[q] = pc[q] BY <1>1 DEF IInv, TypeOK
  <2>2. \A q \in Procs: /\ pc[q] \in Locked => owner[cur[q]] = q /\ cur[q] \in Bufs
                        /\ \A b \in held[q]: owner[b] = q /\ b \in Bufs
    BY DEF IInv, LockInv, TypeOK, Locked
  <2>3. pc'[p] = "bread" /\ owner'[cur[p]] = p /\ "bread" \in Locked
    BY <1>1, <1>2 DEF IInv, TypeOK, Locked
  <2>4. \A b \in Bufs: owner[b] # None => owner'[b] = owner[b]
    BY <1>1, <1>2 DEF IInv, TypeOK
  <2>5. \A q \in Procs: q # None OBVIOUS
  <2>6. \A q \in Procs: pc'[q] \in Locked => owner'[cur'[q]] = q
    BY <1>1, <2>1, <2>2, <2>3, <2>4, <2>5
  <2>7. \A q \in Procs: \A b \in held'[q]: owner'[b] = q
    BY <1>1, <2>2, <2>4, <2>5
  <2>8. \A q \in Procs: pc'[q] = "fs" <=> cur'[q] = None
    BY <1>1, <1>2, <2>1, <2>3 DEF IInv, LockInv
  <2>9. \A q \in Procs: pc'[q] \in {"lock", "locksleep", "unref"} => cur'[q] \notin held'[q]
    BY <1>1, <2>1, <2>3 DEF IInv, LockInv
  <2> QED BY <2>6, <2>7, <2>8, <2>9 DEF LockInv
<1>8. FlagInv' BY <1>1 DEF IInv, FlagInv, TypeOK
<1>9. QueueInv'
  <2>1. \A q \in Procs: pc'[q] = "iosleep" <=> pc[q] = "iosleep" BY <1>1 DEF IInv, TypeOK
  <2> QED BY <1>1, <2>1, SameQueue DEF IInv
<1> QED BY <1>3, <1>4, <1>5, <1>6, <1>7, <1>8, <1>9 DEF IInv

\* A step that only moves p between places that the invariant treats alike.
LEMMA MoveInv ==
  ASSUME IInv, NEW p \in Procs, NEW place \in Places, pc' = [pc EXCEPT ![p] = place],
         UNCHANGED <<blockno, valid, dirty, refcnt, data, owner, lru, idequeue,
                     disk, cmd, intr, cur, held, stranded, panicked>>,
         ~panicked,
         \/ pc[p] = "lock" /\ place = "locksleep"
         \/ pc[p] = "bread" /\ place = "iderw" /\ ~valid[cur[p]]
  PROVE  IInv'
<1>1. TypeOK' BY DEF IInv, TypeOK
<1>2. OneBufferPerBlock' BY DEF IInv, OneBufferPerBlock
<1>3. RefsExact' BY SameRefs DEF IInv
<1>4. NoIdePanic' BY DEF NoIdePanic
<1>5. LockInv' BY DEF IInv, LockInv, Locked, TypeOK
<1>6. FlagInv' BY DEF IInv, FlagInv, TypeOK
<1>7. QueueInv'
  <2>1. \A q \in Procs: pc'[q] = "iosleep" <=> pc[q] = "iosleep" BY DEF IInv, TypeOK
  <2> QED BY <2>1, SameQueue DEF IInv
<1> QED BY <1>1, <1>2, <1>3, <1>4, <1>5, <1>6, <1>7 DEF IInv

\* acquiresleep() sleeps; bread() goes to the disk.
LEMMA WaitInv == ASSUME IInv, NEW p \in Procs, AcquireSleepWait(p) \/ BreadIo(p) PROVE IInv'
<1>1. CASE AcquireSleepWait(p)
  BY <1>1, MoveInv DEF AcquireSleepWait, At, Goto, buf, ide, Places
<1>2. CASE BreadIo(p)
  BY <1>2, MoveInv DEF BreadIo, At, Goto, buf, ide, Places
<1> QED BY <1>1, <1>2

\* The request of another: a buffer whose owner is not asleep is not queued.
LEMMA NotQueued ==
  ASSUME IInv, NEW b \in Bufs, NEW p \in Procs, owner[b] = p, pc[p] # "iosleep"
  PROVE  \A i \in 1 .. Len(idequeue): idequeue[i] # b
<1> SUFFICES ASSUME NEW i \in 1 .. Len(idequeue), idequeue[i] = b PROVE FALSE
  OBVIOUS
<1>1. PICK q \in Procs : pc[q] = "iosleep" /\ cur[q] = b BY InQueue DEF IInv
<1>2. owner[b] = q BY <1>1 DEF IInv, LockInv, Locked
<1> QED BY <1>1, <1>2

\* bread() and iderw() return a buffer to their caller.
LEMMA HaveInv ==
  ASSUME IInv, NEW p \in Procs, ~panicked, pc[p] \in {"bread", "iowake"},
         valid[cur[p]], Have(p),
         UNCHANGED <<blockno, valid, dirty, refcnt, data, owner, lru, idequeue,
                     disk, cmd, intr, stranded, panicked>>
  PROVE  IInv'
<1> USE CacheAssumption
<1>1. /\ pc' = [pc EXCEPT ![p] = "fs"] /\ cur' = [cur EXCEPT ![p] = None]
      /\ held' = [held EXCEPT ![p] = @ \union {cur[p]}]
  BY DEF Have, Goto
<1>2. cur[p] \in Bufs /\ owner[cur[p]] = p BY DEF IInv, LockInv, Locked, TypeOK
<1>3. TypeOK' BY <1>1, <1>2 DEF IInv, TypeOK, Places
<1>4. OneBufferPerBlock' BY DEF IInv, OneBufferPerBlock
<1>5. RefsExact'
  <2>1. \A q \in Procs: \A b \in Bufs:
          b \in held'[q] \union {cur'[q]} <=> b \in held[q] \union {cur[q]}
    BY <1>1 DEF IInv, TypeOK
  <2> QED BY <2>1, SameRefs DEF IInv
<1>6. NoIdePanic' BY DEF NoIdePanic
<1>7. LockInv' BY <1>1, <1>2 DEF IInv, LockInv, Locked, TypeOK
<1>8. FlagInv' BY <1>1 DEF IInv, FlagInv, TypeOK
<1>9. QueueInv'
  <2>1. \A q \in Procs: /\ pc'[q] = "iosleep" <=> pc[q] = "iosleep"
                        /\ pc[q] = "iosleep" => cur'[q] = cur[q]
    BY <1>1 DEF IInv, TypeOK
  <2> QED BY <2>1, SameQueue DEF IInv
<1> QED BY <1>3, <1>4, <1>5, <1>6, <1>7, <1>8, <1>9 DEF IInv

\* After the wakeup of ideintr() the request is done: iderw() returns.
LEMMA ReturnInv == ASSUME IInv, NEW p \in Procs, Bread(p) \/ IdeRwCheck(p) PROVE IInv'
<1>1. CASE Bread(p) BY <1>1, HaveInv DEF Bread, At, buf, ide
<1>2. CASE IdeRwCheck(p)
  <2>1. ~panicked /\ pc[p] = "iowake" BY <1>2 DEF IdeRwCheck, At
  <2>2. valid[cur[p]] /\ ~dirty[cur[p]] BY <2>1 DEF IInv, FlagInv
  <2>3. Have(p) BY <1>2, <2>2 DEF IdeRwCheck
  <2>4. UNCHANGED <<blockno, valid, dirty, refcnt, data, owner, lru, idequeue,
                    disk, cmd, intr, stranded, panicked>>
    BY <1>2 DEF IdeRwCheck, buf, ide
  <2> QED BY <2>1, <2>2, <2>3, <2>4, HaveInv
<1> QED BY <1>1, <1>2

\* iderw() queues a request, of which there is none yet, and does not panic.
LEMMA IdeRwInv == ASSUME IInv, NEW p \in Procs, IdeRw(p) PROVE IInv'
<1> USE CacheAssumption
<1>1. /\ ~panicked /\ pc[p] = "iderw" /\ pc' = [pc EXCEPT ![p] = "iosleep"]
      /\ idequeue' = Append(idequeue, cur[p])
      /\ panicked' = (valid[cur[p]] /\ ~dirty[cur[p]])
      /\ UNCHANGED <<blockno, valid, dirty, refcnt, data, owner, lru, disk, intr, cur, held, stranded>>
  BY DEF IdeRw, At, Goto, buf
<1>2. cur[p] \in Bufs /\ owner[cur[p]] = p BY <1>1 DEF IInv, LockInv, Locked, TypeOK
<1>3. ~panicked'
  <2>1. ~valid[cur[p]] \/ dirty[cur[p]] BY <1>1 DEF IInv, FlagInv
  <2> QED BY <1>1, <2>1
<1>4. TypeOK'
  <2>1. idequeue' \in Seq(Bufs) BY <1>1, <1>2 DEF IInv, TypeOK
  <2>2. pc' \in [Procs -> Places] BY <1>1 DEF IInv, TypeOK, Places
  <2>3. panicked' \in BOOLEAN BY <1>1
  <2> QED BY <1>1, <2>1, <2>2, <2>3 DEF IInv, TypeOK
<1>5. OneBufferPerBlock' BY <1>1 DEF IInv, OneBufferPerBlock
<1>6. RefsExact' BY <1>1, SameRefs DEF IInv
<1>7. NoIdePanic' BY <1>3 DEF NoIdePanic
<1>8. LockInv' BY <1>1 DEF IInv, LockInv, Locked, TypeOK
<1>9. FlagInv'
  <2>1. \A q \in Procs: /\ pc'[q] = "iderw" => pc[q] = "iderw"
                        /\ pc'[q] = "iowake" => pc[q] = "iowake"
    BY <1>1 DEF IInv, TypeOK
  <2>2. idequeue \in Seq(Bufs) BY DEF IInv, TypeOK
  <2>3. ~valid[cur[p]] \/ dirty[cur[p]] BY <1>1 DEF IInv, FlagInv
  <2>4. \A i \in 1 .. Len(idequeue'): ~valid[idequeue'[i]] \/ dirty[idequeue'[i]]
    BY <1>1, <1>2, <2>2, <2>3 DEF IInv, FlagInv
  <2> QED BY <1>1, <2>1, <2>4 DEF IInv, FlagInv
<1>10. QueueInv'
  <2> DEFINE n == Len(idequeue)
  <2>0. idequeue \in Seq(Bufs) BY DEF IInv, TypeOK
  <2>1. /\ n \in Nat /\ Len(idequeue') = n + 1 /\ idequeue'[n + 1] = cur[p]
        /\ \A i \in 1 .. n: idequeue'[i] = idequeue[i]
        /\ idequeue' # << >>
    BY <1>1, <1>2, <2>0
  <2> HIDE DEF n
  <2>2. \A i \in 1 .. n: idequeue[i] # cur[p]
    BY <1>1, <1>2, NotQueued DEF n
  <2>3. /\ pc'[p] = "iosleep" /\ \A q \in Procs: q # p => pc'[q] = pc[q]
    BY <1>1 DEF IInv, TypeOK
  <2>4. \A q \in Procs: pc'[q] = "iosleep" /\ q \notin stranded' =>
           \E i \in 1 .. Len(idequeue'): idequeue'[i] = cur'[q]
    <3> SUFFICES ASSUME NEW q \in Procs, pc'[q] = "iosleep", q \notin stranded'
                 PROVE  \E i \in 1 .. Len(idequeue'): idequeue'[i] = cur'[q]
      OBVIOUS
    <3>1. CASE q = p BY <3>1, <2>1, <1>1
    <3>2. CASE q # p
      <4>1. PICK i \in 1 .. n : idequeue[i] = cur[q]
        BY <3>2, <2>3, <1>1 DEF IInv, QueueInv, n
      <4>2. i \in 1 .. n + 1 BY <2>1
      <4> QED BY <4>1, <4>2, <2>1, <1>1
    <3> QED BY <3>1, <3>2
  <2>5. \A i \in 1 .. Len(idequeue'): \E q \in Procs: pc'[q] = "iosleep" /\ cur'[q] = idequeue'[i]
    <3> SUFFICES ASSUME NEW i \in 1 .. n + 1
                 PROVE  \E q \in Procs: pc'[q] = "iosleep" /\ cur'[q] = idequeue'[i]
      BY <2>1
    <3>1. CASE i = n + 1 BY <3>1, <2>1, <2>3, <1>1
    <3>2. CASE i # n + 1
      <4>1. i \in 1 .. n BY <3>2, <2>1
      <4>2. PICK q \in Procs : pc[q] = "iosleep" /\ cur[q] = idequeue[i]
        BY <4>1, InQueue DEF IInv, n
      <4> QED BY <4>1, <4>2, <2>1, <2>3, <1>1
    <3> QED BY <3>1, <3>2
  <2>6. \A i, j \in 1 .. Len(idequeue'): idequeue'[i] = idequeue'[j] => i = j
    <3> SUFFICES ASSUME NEW i \in 1 .. n + 1, NEW j \in 1 .. n + 1, idequeue'[i] = idequeue'[j]
                 PROVE  i = j
      BY <2>1
    <3>1. CASE i = n + 1 /\ j # n + 1 BY <3>1, <2>1, <2>2
    <3>2. CASE j = n + 1 /\ i # n + 1 BY <3>2, <2>1, <2>2
    <3>3. CASE i # n + 1 /\ j # n + 1
      <4>1. i \in 1 .. n /\ j \in 1 .. n BY <3>3, <2>1
      <4> QED BY <4>1, <2>1 DEF IInv, QueueInv, n
    <3> QED BY <3>1, <3>2, <3>3
  <2>7. cmd' = CommandFor(idequeue'[1])
    <3>1. CASE idequeue = << >>
      <4>1. n = 0 BY <3>1 DEF n
      <4>2. idequeue'[1] = cur[p] BY <4>1, <2>1
      <4>3. cmd' = CommandFor(cur[p]) BY <3>1 DEF IdeRw, IdeStart, CommandFor
      <4> QED BY <4>2, <4>3
    <3>2. CASE idequeue # << >>
      <4>1. 1 \in 1 .. n BY <3>2, <2>1 DEF n, IInv, TypeOK
      <4>2. cmd' = cmd /\ idequeue'[1] = idequeue[1] BY <3>2, <4>1, <2>1 DEF IdeRw
      <4>3. cmd = CommandFor(idequeue[1]) BY <3>2 DEF IInv, QueueInv
      <4> QED BY <4>2, <4>3
    <3> QED BY <3>1, <3>2
  <2>8. (CommandFor(idequeue[1]))' = CommandFor(idequeue'[1]) BY <1>1 DEF CommandFor
  <2> QED BY <2>1, <2>4, <2>5, <2>6, <2>7, <2>8 DEF QueueInv
<1> QED BY <1>3, <1>4, <1>5, <1>6, <1>7, <1>8, <1>9, <1>10 DEF IInv

\* The disk's command is for the first request: done, a write has reached the
\* block of its buffer, and nothing else has changed.
LEMMA DoneIs ==
  ASSUME IInv, idequeue # << >>
  PROVE  LET b == idequeue[1]
         IN  /\ b \in Bufs /\ blockno[b] \in Blocks
             /\ Done \in [Blocks -> Val]
             /\ \A x \in Blocks: x # blockno[b] => Done[x] = disk[x]
             /\ IF dirty[b] THEN Done[blockno[b]] = data[b] ELSE Done = disk
<1> USE CacheAssumption
<1> DEFINE b == idequeue[1]
<1>1. 1 \in 1 .. Len(idequeue) BY DEF IInv, TypeOK
<1>2. b \in Bufs /\ \E p \in Procs: cur[p] = b BY <1>1, InQueue DEF IInv
<1>3. blockno[b] \in Blocks
  <2>1. refcnt[b] # 0 BY <1>2, Unused DEF IInv
  <2> QED BY <1>2, <2>1 DEF IInv, FlagInv, TypeOK
<1>4. cmd = CommandFor(b) BY DEF IInv, QueueInv
<1> HIDE DEF b
<1>5. CASE dirty[b]
  <2>1. cmd.op = "write" /\ cmd.blk = blockno[b] /\ cmd.val = data[b]
    BY <1>4, <1>5 DEF CommandFor
  <2>2. Done = [disk EXCEPT ![blockno[b]] = data[b]] BY <2>1 DEF Done
  <2>3. disk \in [Blocks -> Val] /\ data[b] \in Val BY <1>2 DEF IInv, TypeOK
  <2> QED BY <1>2, <1>3, <1>5, <2>2, <2>3 DEF b
<1>6. CASE ~dirty[b]
  <2>1. cmd.op = "read" BY <1>4, <1>6 DEF CommandFor
  <2>2. Done = disk BY <2>1 DEF Done
  <2>3. disk \in [Blocks -> Val] BY DEF IInv, TypeOK
  <2> QED BY <1>2, <1>3, <1>6, <2>2, <2>3 DEF b
<1> QED BY <1>5, <1>6

\* The disk finishes: only the disk and its interrupt change.
LEMMA DiskDoneInv == ASSUME IInv, DiskDone PROVE IInv'
<1>1. /\ ~panicked /\ cmd # NoCmd /\ intr' = TRUE
      /\ disk' = Done
      /\ UNCHANGED <<blockno, valid, dirty, refcnt, data, owner, lru, idequeue,
                     cmd, pc, cur, held, stranded, panicked>>
  BY DEF DiskDone, buf
<1>2. idequeue # << >> /\ cmd = CommandFor(idequeue[1]) /\ idequeue[1] \in Bufs
  BY <1>1 DEF IInv, QueueInv, TypeOK
<1>3. TypeOK'
  <2>1. disk' \in [Blocks -> Val] BY <1>1, <1>2, DoneIs
  <2> QED BY <1>1, <2>1 DEF IInv, TypeOK
<1>4. OneBufferPerBlock' BY <1>1 DEF IInv, OneBufferPerBlock
<1>5. RefsExact' BY <1>1, SameRefs DEF IInv
<1>6. NoIdePanic' BY <1>1 DEF NoIdePanic
<1>7. LockInv' BY <1>1 DEF IInv, LockInv
<1>8. FlagInv' BY <1>1 DEF IInv, FlagInv
<1>9. QueueInv'
  <2>1. (CommandFor(idequeue[1]))' = CommandFor(idequeue[1]) BY <1>1 DEF CommandFor
  <2> QED BY <1>1, <1>2, <2>1 DEF IInv, QueueInv
<1> QED BY <1>3, <1>4, <1>5, <1>6, <1>7, <1>8, <1>9 DEF IInv

\* Making a valid buffer dirty, maybe on the way to iderw(), keeps the flags.
LEMMA Dirtied ==
  ASSUME TypeOK, FlagInv, NEW b \in Bufs, valid[b], dirty' = [dirty EXCEPT ![b] = TRUE],
         UNCHANGED <<blockno, valid, refcnt, idequeue, held>>,
         \A q \in Procs: pc'[q] = "iowake" =>
           pc[q] = "iowake" /\ cur'[q] = cur[q] /\ cur[q] \in Bufs /\ cur[q] # b,
         \A q \in Procs: pc'[q] = "iderw" =>
           cur'[q] = b \/ (pc[q] = "iderw" /\ cur'[q] = cur[q] /\ cur[q] \in Bufs)
  PROVE  FlagInv'
<1>1. dirty'[b] /\ \A c \in Bufs: c # b => dirty'[c] = dirty[c] BY DEF TypeOK
<1>2. \A i \in 1 .. Len(idequeue): idequeue[i] \in Bufs BY DEF TypeOK
<1>3. \A p \in Procs: \A c \in held'[p]: valid'[c] BY DEF FlagInv
<1>4. \A c \in Bufs: dirty'[c] => valid'[c] BY <1>1 DEF FlagInv
<1>5. \A q \in Procs: pc'[q] = "iderw" => ~valid'[cur'[q]] \/ dirty'[cur'[q]]
  BY <1>1 DEF FlagInv
<1>6. \A i \in 1 .. Len(idequeue'): ~valid'[idequeue'[i]] \/ dirty'[idequeue'[i]]
  BY <1>1, <1>2 DEF FlagInv
<1>7. \A q \in Procs: pc'[q] = "iowake" => valid'[cur'[q]] /\ ~dirty'[cur'[q]]
  BY <1>1 DEF FlagInv
<1>8. \A c \in Bufs: refcnt'[c] > 0 => blockno'[c] # NoBlock BY DEF FlagInv
<1> QED BY <1>3, <1>4, <1>5, <1>6, <1>7, <1>8 DEF FlagInv

\* Changing a buffer under its lock touches no request and no other user.
LEMMA LogWriteInv == ASSUME IInv, NEW p \in Procs, NEW b \in Bufs, LogWrite(p, b) PROVE IInv'
<1>1. /\ ~panicked /\ pc[p] = "fs" /\ b \in held[p] /\ owner[b] = p /\ valid[b]
      /\ dirty' = [dirty EXCEPT ![b] = TRUE]
      /\ UNCHANGED <<blockno, valid, refcnt, owner, lru, idequeue, disk, cmd, intr,
                     pc, cur, held, stranded, panicked>>
  BY DEF LogWrite, At, ide, IInv, LockInv, FlagInv
<1>2. PICK v \in Val : data' = [data EXCEPT ![b] = v] BY DEF LogWrite
<1>3. \A k \in 1 .. Len(idequeue): idequeue[k] \in Bufs /\ idequeue[k] # b
  BY <1>1, NotQueued, InQueue DEF IInv
<1>4. TypeOK' BY <1>1, <1>2 DEF IInv, TypeOK
<1>5. OneBufferPerBlock' BY <1>1 DEF IInv, OneBufferPerBlock
<1>6. RefsExact' BY <1>1, SameRefs DEF IInv
<1>7. NoIdePanic' BY <1>1 DEF NoIdePanic
<1>8. LockInv' BY <1>1 DEF IInv, LockInv
<1>9. FlagInv'
  <2>1. \A q \in Procs: pc[q] = "iowake" => cur[q] \in Bufs /\ cur[q] # b
    BY <1>1 DEF IInv, LockInv, Locked, TypeOK
  <2>2. \A q \in Procs: pc[q] = "iderw" => cur[q] \in Bufs
    BY DEF IInv, LockInv, TypeOK
  <2> QED BY <1>1, <2>1, <2>2, Dirtied DEF IInv
<1>10. QueueInv'
  <2>1. \A c \in Bufs: c # b => /\ dirty'[c] = dirty[c] /\ blockno'[c] = blockno[c]
                                /\ data'[c] = data[c]
    BY <1>1, <1>2 DEF IInv, TypeOK
  <2> QED BY <1>1, <1>3, <2>1, SameQueue DEF IInv
<1> QED BY <1>4, <1>5, <1>6, <1>7, <1>8, <1>9, <1>10 DEF IInv

\* bwrite() changes a buffer under its lock and goes to the disk with it.
LEMMA BwriteInv == ASSUME IInv, NEW p \in Procs, NEW b \in Bufs, Bwrite(p, b) PROVE IInv'
<1> USE CacheAssumption
<1>1. /\ ~panicked /\ pc[p] = "fs" /\ b \in held[p] /\ owner[b] = p /\ valid[b] /\ cur[p] = None
      /\ dirty' = [dirty EXCEPT ![b] = TRUE]
      /\ cur' = [cur EXCEPT ![p] = b] /\ pc' = [pc EXCEPT ![p] = "iderw"]
      /\ UNCHANGED <<blockno, valid, refcnt, owner, lru, idequeue, disk, cmd, intr,
                     held, stranded, panicked>>
  BY DEF Bwrite, At, Goto, ide, IInv, LockInv, FlagInv
<1>2. PICK v \in Val : data' = [data EXCEPT ![b] = v] BY DEF Bwrite
<1>3. \A k \in 1 .. Len(idequeue): idequeue[k] \in Bufs /\ idequeue[k] # b
  BY <1>1, NotQueued, InQueue DEF IInv
<1>4. TypeOK' BY <1>1, <1>2 DEF IInv, TypeOK, Places
<1>5. OneBufferPerBlock' BY <1>1 DEF IInv, OneBufferPerBlock
<1>6. RefsExact'
  <2>1. \A q \in Procs: \A c \in Bufs:
          c \in held'[q] \union {cur'[q]} <=> c \in held[q] \union {cur[q]}
    BY <1>1 DEF IInv, TypeOK
  <2> QED BY <1>1, <2>1, SameRefs DEF IInv
<1>7. NoIdePanic' BY <1>1 DEF NoIdePanic
<1>8. LockInv' BY <1>1 DEF IInv, LockInv, Locked, TypeOK
<1>9. FlagInv'
  <2>1. \A q \in Procs: pc[q] = "iowake" => cur[q] \in Bufs /\ cur[q] # b
    BY <1>1 DEF IInv, LockInv, Locked, TypeOK
  <2>2. \A q \in Procs: pc[q] = "iderw" => cur[q] \in Bufs
    BY DEF IInv, LockInv, TypeOK
  <2>3. \A q \in Procs: /\ pc'[q] = "iowake" => pc[q] = "iowake" /\ cur'[q] = cur[q]
                        /\ pc'[q] = "iderw" => cur'[q] = b \/ (pc[q] = "iderw" /\ cur'[q] = cur[q])
    BY <1>1 DEF IInv, TypeOK
  <2>4. \A q \in Procs: pc'[q] = "iowake" =>
          pc[q] = "iowake" /\ cur'[q] = cur[q] /\ cur[q] \in Bufs /\ cur[q] # b
    BY <2>1, <2>3
  <2>5. \A q \in Procs: pc'[q] = "iderw" =>
          cur'[q] = b \/ (pc[q] = "iderw" /\ cur'[q] = cur[q] /\ cur[q] \in Bufs)
    BY <2>2, <2>3
  <2>6. TypeOK /\ FlagInv BY DEF IInv
  <2>7. /\ valid[b] /\ dirty' = [dirty EXCEPT ![b] = TRUE]
        /\ UNCHANGED <<blockno, valid, refcnt, idequeue, held>>
    BY <1>1
  <2> QED BY <2>4, <2>5, <2>6, <2>7, Dirtied
<1>10. QueueInv'
  <2>1. \A c \in Bufs: c # b => /\ dirty'[c] = dirty[c] /\ blockno'[c] = blockno[c]
                                /\ data'[c] = data[c]
    BY <1>1, <1>2 DEF IInv, TypeOK
  <2>2. \A q \in Procs: /\ pc'[q] = "iosleep" <=> pc[q] = "iosleep"
                        /\ pc[q] = "iosleep" => cur'[q] = cur[q]
    BY <1>1 DEF IInv, TypeOK
  <2> QED BY <1>1, <1>3, <2>1, <2>2, SameQueue DEF IInv
<1> QED BY <1>4, <1>5, <1>6, <1>7, <1>8, <1>9, <1>10 DEF IInv

\* brelse() lets the lock go, and with it its claim on the buffer.
LEMMA BrelseInv == ASSUME IInv, NEW p \in Procs, NEW b \in Bufs, Brelse(p, b) PROVE IInv'
<1> USE CacheAssumption
<1>1. /\ ~panicked /\ pc[p] = "fs" /\ b \in held[p] /\ owner[b] = p /\ cur[p] = None
      /\ owner' = [owner EXCEPT ![b] = None] /\ held' = [held EXCEPT ![p] = @ \ {b}]
      /\ cur' = [cur EXCEPT ![p] = b]
      /\ UNCHANGED <<blockno, valid, dirty, refcnt, data, lru, idequeue, disk, cmd, intr, stranded, panicked>>
  BY DEF Brelse, At, buf, ide, IInv, LockInv
<1>2. /\ pc' \in [Procs -> Places] /\ pc'[p] = "unref"
      /\ \A q \in Procs: q # p => pc'[q] = pc[q] \/ (pc[q] = "locksleep" /\ pc'[q] = "lock")
  <2> DEFINE w == Wake(b, "locksleep", "lock")
  <2>1. pc' = [w EXCEPT ![p] = "unref"] BY DEF Brelse
  <2>2. pc \in [Procs -> Places] /\ "lock" \in Places /\ "unref" \in Places
    BY DEF IInv, TypeOK, Places
  <2>3. w \in [Procs -> Places] BY <2>2 DEF Wake
  <2>4. \A q \in Procs: w[q] = pc[q] \/ (pc[q] = "locksleep" /\ w[q] = "lock")
    BY DEF Wake
  <2> HIDE DEF w
  <2> QED BY <2>1, <2>2, <2>3, <2>4
<1>3. TypeOK' BY <1>1, <1>2 DEF IInv, TypeOK
<1>4. OneBufferPerBlock' BY <1>1 DEF IInv, OneBufferPerBlock
<1>5. RefsExact'
  <2>1. \A q \in Procs: \A c \in Bufs:
          c \in held'[q] \union {cur'[q]} <=> c \in held[q] \union {cur[q]}
    BY <1>1 DEF IInv, TypeOK
  <2> QED BY <1>1, <2>1, SameRefs DEF IInv
<1>6. NoIdePanic' BY <1>1 DEF NoIdePanic
<1>7. LockInv'
  <2>1. \A q \in Procs: q # p => /\ cur'[q] = cur[q] /\ held'[q] = held[q]
    BY <1>1 DEF IInv, TypeOK
  <2>2. cur'[p] = b /\ held'[p] = held[p] \ {b} BY <1>1 DEF IInv, TypeOK
  <2>3. \A c \in Bufs: c # b => owner'[c] = owner[c] BY <1>1 DEF IInv, TypeOK
  <2>4. \A q \in Procs: q # p /\ pc'[q] \in Locked => owner'[cur'[q]] = q
    BY <1>1, <1>2, <2>1, <2>3 DEF IInv, LockInv, Locked, TypeOK
  <2>5. \A q \in Procs: \A c \in held'[q]: owner'[c] = q
    BY <1>1, <2>1, <2>2, <2>3 DEF IInv, LockInv, TypeOK
  <2>6. \A q \in Procs: pc'[q] = "fs" <=> cur'[q] = None
    BY <1>1, <1>2, <2>1, <2>2 DEF IInv, LockInv
  <2>7. \A q \in Procs: pc'[q] \in {"lock", "locksleep", "unref"} => cur'[q] \notin held'[q]
    BY <1>1, <1>2, <2>1, <2>2 DEF IInv, LockInv
  <2> QED BY <1>2, <2>4, <2>5, <2>6, <2>7 DEF LockInv, Locked
<1>8. FlagInv'
  <2>1. \A q \in Procs: q # p => /\ cur'[q] = cur[q] /\ held'[q] = held[q]
    BY <1>1 DEF IInv, TypeOK
  <2>2. held'[p] \in SUBSET held[p] BY <1>1 DEF IInv, TypeOK
  <2> QED BY <1>1, <1>2, <2>1, <2>2 DEF IInv, FlagInv
<1>9. QueueInv'
  <2>1. \A q \in Procs: /\ pc'[q] = "iosleep" <=> pc[q] = "iosleep"
                        /\ pc[q] = "iosleep" => cur'[q] = cur[q]
    BY <1>1, <1>2 DEF IInv, TypeOK
  <2> QED BY <1>1, <2>1, SameQueue DEF IInv
<1> QED BY <1>3, <1>4, <1>5, <1>6, <1>7, <1>8, <1>9 DEF IInv

\* brelse() gives its reference back; the list keeps all buffers.
LEMMA BrelseUnrefInv == ASSUME IInv, NEW p \in Procs, BrelseUnref(p) PROVE IInv'
<1> USE CacheAssumption
<1> DEFINE b == cur[p]
<1>1. /\ ~panicked /\ pc[p] = "unref" /\ refcnt' = [refcnt EXCEPT ![b] = @ - 1]
      /\ cur' = [cur EXCEPT ![p] = None] /\ pc' = [pc EXCEPT ![p] = "fs"]
      /\ UNCHANGED <<blockno, valid, dirty, data, owner, idequeue, disk, cmd, intr, held, stranded, panicked>>
  BY DEF BrelseUnref, At, Goto, ide
<1>2. b \in Bufs /\ b \notin held[p] BY <1>1 DEF IInv, LockInv, TypeOK
<1>3. lru' \in Seq(Bufs) /\ Len(lru') = Len(lru)
      /\ \A c \in Bufs: \E i \in 1 .. Len(lru'): lru'[i] = c
  <2>1. CASE lru' = lru BY <2>1 DEF IInv, TypeOK
  <2>2. CASE lru' # lru
    <3>1. PICK i \in 1 .. Len(lru) : lru[i] = b /\ lru' = <<b>> \o RemoveAt(lru, i)
      BY <2>2 DEF BrelseUnref
    <3>2. lru \in Seq(Bufs) /\ \A c \in Bufs: \E j \in 1 .. Len(lru): lru[j] = c
      BY DEF IInv, TypeOK
    <3>3. /\ lru' \in Seq(Bufs) /\ Len(lru') = Len(lru)
          /\ \A j \in 1 .. Len(lru): \E k \in 1 .. Len(lru): lru'[k] = lru[j]
      <4>1. lru' = Moved(lru, i) BY <3>1 DEF Moved
      <4>2. lru \in Seq(Bufs) BY <3>2
      <4>3. /\ Moved(lru, i) \in Seq(Bufs) /\ Len(Moved(lru, i)) = Len(lru)
            /\ \A j \in 1 .. Len(lru): \E k \in 1 .. Len(lru): Moved(lru, i)[k] = lru[j]
        BY <4>2, MoveToFront
      <4> QED BY <4>1, <4>3
    <3> QED BY <3>2, <3>3
  <2> QED BY <2>1, <2>2
<1>4. p \in Users(b) /\ refcnt[b] > 0 /\ refcnt[b] \in Nat /\ refcnt[b] = Cardinality(Users(b))
  <2>1. p \in Users(b) BY DEF Users
  <2>2. refcnt[b] = Cardinality(Users(b)) BY <1>2 DEF IInv, RefsExact, Users
  <2>3. Users(b) \in SUBSET Procs BY DEF Users
  <2>4. refcnt[b] # 0 BY <2>1, <2>2, <2>3, FiniteProcs, FS_EmptySet
  <2>5. refcnt[b] \in Nat BY <1>2 DEF IInv, TypeOK
  <2> QED BY <2>1, <2>2, <2>4, <2>5
<1>5. TypeOK'
  <2>1. refcnt' \in [Bufs -> Nat] BY <1>1, <1>2, <1>4 DEF IInv, TypeOK
  <2>2. pc' \in [Procs -> Places] /\ cur' \in [Procs -> Bufs \union {None}]
    BY <1>1 DEF IInv, TypeOK, Places
  <2> QED BY <1>1, <1>3, <2>1, <2>2 DEF IInv, TypeOK
<1>6. OneBufferPerBlock' BY <1>1 DEF IInv, OneBufferPerBlock
<1>7. RefsExact'
  <2> SUFFICES ASSUME NEW c \in Bufs PROVE refcnt'[c] = Cardinality(Users(c)')
    BY DEF RefsExact, Users
  <2>1. CASE c # b
    <3>1. Users(c)' = Users(c) BY <1>1, <2>1 DEF Users, IInv, TypeOK
    <3>2. refcnt[c] = Cardinality(Users(c)) BY DEF IInv, RefsExact, Users
    <3> QED BY <1>1, <2>1, <3>1, <3>2 DEF IInv, TypeOK
  <2>2. CASE c = b
    <3>1. Users(c)' = Users(b) \ {p} BY <1>1, <1>2, <2>2 DEF Users, IInv, TypeOK
    <3>2. IsFiniteSet(Users(b)) BY FiniteProcs DEF Users
    <3>3. Cardinality(Users(b) \ {p}) = Cardinality(Users(b)) - 1
      BY <1>4, <3>2, FS_RemoveElement
    <3>4. refcnt'[b] = refcnt[b] - 1 BY <1>1, <1>2 DEF IInv, TypeOK
    <3> QED BY <1>4, <2>2, <3>1, <3>3, <3>4
  <2> QED BY <2>1, <2>2
<1>8. NoIdePanic' BY <1>1 DEF NoIdePanic
<1>9. LockInv' BY <1>1 DEF IInv, LockInv, Locked, TypeOK
<1>10. FlagInv' BY <1>1, <1>4 DEF IInv, FlagInv, TypeOK
<1>11. QueueInv'
  <2>1. \A q \in Procs: /\ pc'[q] = "iosleep" <=> pc[q] = "iosleep"
                        /\ pc[q] = "iosleep" => cur'[q] = cur[q]
    BY <1>1 DEF IInv, TypeOK
  <2> QED BY <1>1, <2>1, SameQueue DEF IInv
<1> QED BY <1>5, <1>6, <1>7, <1>8, <1>9, <1>10, <1>11 DEF IInv

(***************************************************************************)
(* ideintr() finishes the first request, whose process alone works on the  *)
(* buffer, and starts the next.                                            *)
(***************************************************************************)
LEMMA IdeIntrInv == ASSUME IInv, IdeIntr PROVE IInv'
<1> USE CacheAssumption
<1> DEFINE b == idequeue[1]
<1>q. idequeue \in Seq(Bufs) /\ idequeue # << >> BY DEF IdeIntr, IInv, TypeOK
<1>h. Head(idequeue) = b /\ 1 \in 1 .. Len(idequeue) BY <1>q
<1>b. b \in Bufs BY <1>q, <1>h
<1>1. /\ ~panicked /\ intr' = FALSE /\ idequeue' = Tail(idequeue)
      /\ valid' = [valid EXCEPT ![b] = TRUE] /\ dirty' = [dirty EXCEPT ![b] = FALSE]
      /\ pc' = Wake(b, "iosleep", "iowake")
      /\ disk' = Done
      /\ UNCHANGED <<blockno, refcnt, owner, lru, cur, held, stranded, panicked>>
  BY <1>h DEF IdeIntr
<1>2. PICK o \in Procs : pc[o] = "iosleep" /\ cur[o] = b /\ owner[b] = o
  BY <1>h, InQueue DEF IInv, LockInv, Locked
<1>3. blockno[b] \in Blocks /\ Done \in [Blocks -> Val] BY <1>q, DoneIs
<1>4. PICK v \in Val : data' = [data EXCEPT ![b] = v]
  <2>1. PICK v \in IF dirty[b] THEN {data[b]}
                   ELSE {disk[blockno[b]]} \union (IF DiskErrors THEN {data[b]} ELSE {}) :
           data' = [data EXCEPT ![b] = v]
    BY <1>h DEF IdeIntr
  <2>2. data[b] \in Val /\ disk[blockno[b]] \in Val BY <1>3, <1>b DEF IInv, TypeOK
  <2>3. v \in Val BY <2>1, <2>2
  <2> QED BY <2>1, <2>3
<1>5. /\ pc' \in [Procs -> Places]
      /\ \A q \in Procs: \/ /\ pc'[q] = pc[q]
                            /\ ~(pc[q] = "iosleep" /\ cur[q] = b /\ q \notin stranded)
                         \/ pc[q] = "iosleep" /\ cur[q] = b /\ pc'[q] = "iowake"
  <2>1. pc \in [Procs -> Places] /\ "iowake" \in Places BY DEF IInv, TypeOK, Places
  <2> QED BY <1>1, <2>1 DEF Wake
<1>6. TypeOK'
  <2>1. idequeue' \in Seq(Bufs) BY <1>1, <1>q
  <2>2. data' \in [Bufs -> Val] /\ disk' \in [Blocks -> Val]
    BY <1>1, <1>3, <1>4 DEF IInv, TypeOK
  <2>3. valid' \in [Bufs -> BOOLEAN] /\ dirty' \in [Bufs -> BOOLEAN]
    BY <1>1, <1>b DEF IInv, TypeOK
  <2> QED BY <1>1, <1>5, <2>1, <2>2, <2>3 DEF IInv, TypeOK
<1>7. OneBufferPerBlock' BY <1>1 DEF IInv, OneBufferPerBlock
<1>8. RefsExact' BY <1>1, SameRefs DEF IInv
<1>9. NoIdePanic' BY <1>1 DEF NoIdePanic
<1>10. LockInv' BY <1>1, <1>5 DEF IInv, LockInv, Locked
<1>11. FlagInv'
  <2>1. /\ valid'[b] /\ ~dirty'[b]
        /\ \A c \in Bufs: c # b => valid'[c] = valid[c] /\ dirty'[c] = dirty[c]
    BY <1>1, <1>b DEF IInv, TypeOK
  <2>2. \A q \in Procs: pc'[q] = "iderw" => cur[q] # b /\ pc[q] = "iderw"
    BY <1>2, <1>5 DEF IInv, LockInv, Locked
  <2>3. \A q \in Procs: pc'[q] = "iderw" => ~valid'[cur'[q]] \/ dirty'[cur'[q]]
    BY <2>1, <2>2, <1>1 DEF IInv, FlagInv, TypeOK, LockInv
  <2>7. \A i \in 1 .. Len(idequeue'): ~valid'[idequeue'[i]] \/ dirty'[idequeue'[i]]
    <3> SUFFICES ASSUME NEW i \in 1 .. Len(idequeue')
                 PROVE  ~valid'[idequeue'[i]] \/ dirty'[idequeue'[i]]
      OBVIOUS
    <3>1. i + 1 \in 1 .. Len(idequeue) /\ i + 1 # 1 /\ idequeue'[i] = idequeue[i + 1]
      BY <1>1, <1>q
    <3>2. idequeue[i + 1] # b BY <3>1, <1>h DEF IInv, QueueInv
    <3>3. idequeue[i + 1] \in Bufs BY <3>1, <1>q
    <3> QED BY <2>1, <3>1, <3>2, <3>3 DEF IInv, FlagInv
  <2>4. \A q \in Procs: pc'[q] = "iowake" => valid'[cur'[q]] /\ ~dirty'[cur'[q]]
    BY <2>1, <1>1, <1>5 DEF IInv, FlagInv, TypeOK, LockInv
  <2>5. \A q \in Procs: \A c \in held'[q]: valid'[c]
    BY <2>1, <1>1 DEF IInv, FlagInv, TypeOK
  <2>6. \A c \in Bufs: dirty'[c] => valid'[c]
    BY <2>1, <1>1 DEF IInv, FlagInv
  <2> QED BY <1>1, <2>3, <2>4, <2>5, <2>6, <2>7 DEF IInv, FlagInv
<1>12. QueueInv'
  <2> DEFINE n == Len(idequeue)
  <2>1. /\ n \in Nat /\ n >= 1 /\ Len(idequeue') = n - 1
        /\ \A i \in 1 .. n - 1: idequeue'[i] = idequeue[i + 1]
    BY <1>1, <1>q
  <2> HIDE DEF n
  <2>2. \A i \in 1 .. n: i # 1 => idequeue[i] # b
    BY <1>h DEF IInv, QueueInv, n
  <2>3. \A q \in Procs: pc'[q] = "iosleep" /\ q \notin stranded' =>
           \E i \in 1 .. Len(idequeue'): idequeue'[i] = cur'[q]
    <3> SUFFICES ASSUME NEW q \in Procs, pc'[q] = "iosleep", q \notin stranded'
                 PROVE  \E i \in 1 .. Len(idequeue'): idequeue'[i] = cur'[q]
      OBVIOUS
    <3>1. pc[q] = "iosleep" /\ q \notin stranded /\ cur[q] # b BY <1>1, <1>5
    <3>2. PICK i \in 1 .. n : idequeue[i] = cur[q] BY <3>1 DEF IInv, QueueInv, n
    <3>3. i - 1 \in 1 .. n - 1 /\ (i - 1) + 1 = i BY <3>1, <3>2, <2>1
    <3> QED BY <3>2, <3>3, <2>1, <1>1
  <2>4. \A i \in 1 .. Len(idequeue'): \E q \in Procs: pc'[q] = "iosleep" /\ cur'[q] = idequeue'[i]
    <3> SUFFICES ASSUME NEW i \in 1 .. n - 1
                 PROVE  \E q \in Procs: pc'[q] = "iosleep" /\ cur'[q] = idequeue'[i]
      BY <2>1
    <3>1. i + 1 \in 1 .. n /\ i + 1 # 1 BY <2>1
    <3>2. PICK q \in Procs : pc[q] = "iosleep" /\ cur[q] = idequeue[i + 1]
      BY <3>1, InQueue DEF IInv, n
    <3>3. cur[q] # b BY <3>1, <3>2, <2>2
    <3> QED BY <3>2, <3>3, <2>1, <1>1, <1>5
  <2>5. \A i, j \in 1 .. Len(idequeue'): idequeue'[i] = idequeue'[j] => i = j
    <3> SUFFICES ASSUME NEW i \in 1 .. n - 1, NEW j \in 1 .. n - 1, idequeue'[i] = idequeue'[j]
                 PROVE  i = j
      BY <2>1
    <3>1. i + 1 \in 1 .. n /\ j + 1 \in 1 .. n /\ i \in Nat /\ j \in Nat BY <2>1
    <3>2. idequeue[i + 1] = idequeue[j + 1] BY <2>1
    <3>3. i + 1 = j + 1 BY <3>1, <3>2 DEF IInv, QueueInv, n
    <3> QED BY <3>1, <3>3
  <2>6. cmd' = IF idequeue' = << >> THEN NoCmd ELSE (CommandFor(idequeue[1]))'
    <3>1. CASE idequeue' = << >> BY <3>1, <1>1 DEF IdeIntr
    <3>2. CASE idequeue' # << >>
      <4>1. 1 \in 1 .. n - 1 /\ 2 \in 1 .. n
        <5>1. idequeue' \in Seq(Bufs) BY <1>6 DEF TypeOK
        <5>2. Len(idequeue') # 0 BY <5>1, <3>2
        <5> QED BY <5>2, <2>1
      <4>2. idequeue'[1] = idequeue[2] /\ idequeue[2] # b /\ idequeue[2] \in Bufs
        BY <4>1, <2>1, <2>2, <1>q DEF n
      <4>3. cmd' = CommandFor(idequeue[2]) BY <3>2, <1>1 DEF IdeIntr, IdeStart, CommandFor
      <4>4. /\ dirty'[idequeue[2]] = dirty[idequeue[2]] /\ data'[idequeue[2]] = data[idequeue[2]]
            /\ blockno' = blockno
        BY <4>2, <1>1, <1>4 DEF IInv, TypeOK
      <4>5. (CommandFor(idequeue[1]))' = CommandFor(idequeue[2]) BY <4>2, <4>4 DEF CommandFor
      <4> QED BY <3>2, <4>3, <4>5
    <3> QED BY <3>1, <3>2
  <2> QED BY <1>1, <2>3, <2>4, <2>5, <2>6 DEF QueueInv
<1> QED BY <1>6, <1>7, <1>8, <1>9, <1>10, <1>11, <1>12 DEF IInv

\* An interrupt that concerns no request, and the kill() of a sleeper.
LEMMA QuietInv ==
  ASSUME IInv, DiskSpurious \/ IdeIntrNone \/ \E p \in Procs: Kill(p)
  PROVE  IInv'
<1>1. /\ UNCHANGED <<blockno, valid, dirty, refcnt, data, owner, lru, idequeue, disk, cmd,
                     pc, cur, held, panicked>>
      /\ intr' \in BOOLEAN /\ stranded \subseteq stranded' /\ stranded' \subseteq Procs
  BY DEF DiskSpurious, IdeIntrNone, Kill, IInv, TypeOK, buf, ide
<1>2. TypeOK' BY <1>1 DEF IInv, TypeOK
<1>3. OneBufferPerBlock' BY <1>1 DEF IInv, OneBufferPerBlock
<1>4. RefsExact' BY <1>1, SameRefs DEF IInv
<1>5. NoIdePanic' BY <1>1 DEF IInv, NoIdePanic
<1>6. LockInv' BY <1>1 DEF IInv, LockInv
<1>7. FlagInv' BY <1>1 DEF IInv, FlagInv
<1>8. QueueInv' BY <1>1, SameQueue DEF IInv
<1> QED BY <1>2, <1>3, <1>4, <1>5, <1>6, <1>7, <1>8 DEF IInv

\* Every step keeps the invariant.
LEMMA InvStep == IInv /\ [Next]_vars => IInv'
<1> SUFFICES ASSUME IInv, [Next]_vars PROVE IInv'
  OBVIOUS
<1>1. CASE Next
  <2>1. CASE Disk BY <2>1, DiskDoneInv, IdeIntrInv, QuietInv DEF Disk
  <2>2. ASSUME NEW p \in Procs, Ask(p) PROVE IInv'
    BY <2>2, BgetHitInv, BgetMissInv, BgetPanicInv DEF Ask
  <2>3. ASSUME NEW p \in Procs, Use(p) PROVE IInv'
    BY <2>3, LogWriteInv, BwriteInv DEF Use
  <2>4. ASSUME NEW p \in Procs, Inside(p) PROVE IInv'
    BY <2>4, AcquireSleepInv, WaitInv, ReturnInv, IdeRwInv, BrelseUnrefInv DEF Inside
  <2>5. ASSUME NEW p \in Procs, NEW b \in Bufs, Brelse(p, b) PROVE IInv'
    BY <2>5, BrelseInv
  <2>6. ASSUME NEW p \in Procs, Kill(p) PROVE IInv' BY <2>6, QuietInv
  <2> QED BY <1>1, <2>1, <2>2, <2>3, <2>4, <2>5, <2>6 DEF Next
<1>2. CASE UNCHANGED vars
  <2>1. UNCHANGED <<blockno, valid, dirty, refcnt, data, owner, lru, idequeue,
                    disk, cmd, intr, pc, cur, held, stranded, panicked>>
    BY <1>2 DEF vars
  <2>2. TypeOK' BY <2>1 DEF IInv, TypeOK
  <2>3. OneBufferPerBlock' BY <2>1 DEF IInv, OneBufferPerBlock
  <2>4. RefsExact' BY <2>1, SameRefs DEF IInv
  <2>5. NoIdePanic' BY <2>1 DEF IInv, NoIdePanic
  <2>6. LockInv' BY <2>1 DEF IInv, LockInv
  <2>7. FlagInv' BY <2>1 DEF IInv, FlagInv
  <2>8. QueueInv' BY <2>1, SameQueue DEF IInv
  <2> QED BY <2>2, <2>3, <2>4, <2>5, <2>6, <2>7, <2>8 DEF IInv
<1> QED BY <1>1, <1>2

\* The inductive invariant of the buffer cache holds in every reachable state.
THEOREM CacheInvariance == Spec => []IInv
BY InvInit, InvStep, PTL DEF Spec

(***************************************************************************)
(* The cache is consistent between any two steps of its processes, the     *)
(* disk and the interrupt: a block has one buffer, refcnt is exact, no     *)
(* request is lost, iderw() is never called for nothing.                   *)
(***************************************************************************)
THEOREM CacheConsistent == Spec => []BufferInv
<1>1. IInv => BufferInv
  <2> SUFFICES ASSUME IInv PROVE NoLostIo
    BY DEF IInv, BufferInv
  <2>1. \A p \in Procs: pc[p] = "iosleep" /\ Asleep(p) =>
           \E i \in 1 .. Len(idequeue): idequeue[i] = cur[p]
    BY DEF IInv, QueueInv, Asleep
  <2>2. \A i, j \in 1 .. Len(idequeue): idequeue[i] = idequeue[j] => i = j
    BY DEF IInv, QueueInv
  <2>3. ASSUME idequeue # << >> PROVE cmd # NoCmd /\ cmd.blk = blockno[Head(idequeue)]
    <3>1. Head(idequeue) = idequeue[1] BY <2>3 DEF IInv, TypeOK
    <3>2. cmd = CommandFor(idequeue[1]) BY <2>3 DEF IInv, QueueInv
    <3>3. CASE dirty[idequeue[1]]
      <4>1. cmd.op = "write" /\ cmd.blk = blockno[idequeue[1]] BY <3>2, <3>3 DEF CommandFor
      <4> QED BY <4>1, <3>1 DEF NoCmd
    <3>4. CASE ~dirty[idequeue[1]]
      <4>1. cmd.op = "read" /\ cmd.blk = blockno[idequeue[1]] BY <3>2, <3>4 DEF CommandFor
      <4> QED BY <4>1, <3>1 DEF NoCmd
    <3> QED BY <3>3, <3>4
  <2> QED BY <2>1, <2>2, <2>3 DEF NoLostIo
<1> QED BY <1>1, CacheInvariance, PTL

-----------------------------------------------------------------------------
(***************************************************************************)
(* The refinement of BlockStore.  As a block has at most one buffer and a  *)
(* buffer one owner, the content and the user of a block are determined.   *)
(***************************************************************************)
ContentOf ==
  \A blk \in Blocks:
    /\ \A b \in Bufs: blockno[b] = blk =>
          Content(blk) = IF valid[b] THEN data[b] ELSE disk[blk]
    /\ (\A b \in Bufs: blockno[b] # blk) => Content(blk) = disk[blk]

UserOf ==
  \A blk \in Blocks:
    /\ \A p \in Procs: \A b \in held[p]: blockno[b] = blk => User(blk) = p
    /\ (\A p \in Procs: \A b \in held[p]: blockno[b] # blk) => User(blk) = None

\* The invariant determines both.
LEMMA Determined == IInv => ContentOf /\ UserOf
<1> SUFFICES ASSUME IInv PROVE ContentOf /\ UserOf
  OBVIOUS
<1>1. \A b, c \in Bufs: blockno[b] = blockno[c] /\ blockno[b] \in Blocks => b = c
  BY CacheAssumption DEF IInv, OneBufferPerBlock
<1>2. ASSUME NEW blk \in Blocks, NEW b \in Bufs, blockno[b] = blk
      PROVE  Content(blk) = IF valid[b] THEN data[b] ELSE disk[blk]
  <2>1. Holding(blk) = {b} BY <1>1, <1>2 DEF Holding
  <2>2. CASE valid[b]
    <3>1. (CHOOSE c \in {b}: valid[c]) = b BY <2>2
    <3> QED BY <2>1, <2>2, <3>1 DEF Content
  <2>3. CASE ~valid[b] BY <2>1, <2>3 DEF Content
  <2> QED BY <2>2, <2>3
<1>3. ASSUME NEW blk \in Blocks, \A b \in Bufs: blockno[b] # blk
      PROVE  Content(blk) = disk[blk]
  BY <1>3 DEF Content, Holding
<1>4. ASSUME NEW blk \in Blocks, NEW p \in Procs, NEW b \in held[p], blockno[b] = blk
      PROVE  User(blk) = p
  <2>1. b \in Bufs /\ owner[b] = p BY DEF IInv, LockInv, TypeOK
  <2>2. \A q \in Procs: (\E c \in held[q]: blockno[c] = blk) => q = p
    BY <1>1, <1>4, <2>1 DEF IInv, LockInv, TypeOK
  <2>3. \E q \in Procs: \E c \in held[q]: blockno[c] = blk BY <1>4
  <2> QED BY <2>2, <2>3 DEF User
<1>5. ASSUME NEW blk \in Blocks, \A p \in Procs: \A b \in held[p]: blockno[b] # blk
      PROVE  User(blk) = None
  BY <1>5 DEF User
<1>6. ContentOf BY <1>2, <1>3 DEF ContentOf
<1>7. UserOf BY <1>4, <1>5 DEF UserOf
<1> QED BY <1>6, <1>7

\* What the refinement of a step may use of the state before and after it.
Known == /\ IInv /\ CleanInv /\ ContentOf /\ UserOf
         /\ IInv' /\ ContentOf' /\ UserOf'

\* A step that changes no content and no user is none of BlockStore.
LEMMA Stutter ==
  ASSUME \A blk \in Blocks: Content(blk)' = Content(blk),
         \A blk \in Blocks: User(blk)' = User(blk)
  PROVE  UNCHANGED Abstract!vars
BY DEF Abstract!vars

\* Users stay while nobody's buffers change.
LEMMA SameUser ==
  ASSUME UserOf, UserOf', UNCHANGED held,
         \A p \in Procs: \A b \in held[p]: blockno'[b] = blockno[b]
  PROVE  \A blk \in Blocks: User(blk)' = User(blk)
<1> SUFFICES ASSUME NEW blk \in Blocks PROVE User(blk)' = User(blk)
  OBVIOUS
<1>1. CASE \E p \in Procs: \E b \in held[p]: blockno[b] = blk
  <2>0. PICK p \in Procs : \E b \in held[p]: blockno[b] = blk BY <1>1
  <2>1. PICK b \in held[p] : blockno[b] = blk BY <2>0
  <2>2. User(blk) = p BY <2>1 DEF UserOf
  <2>3. b \in held'[p] /\ blockno'[b] = blk BY <2>1
  <2>4. User(blk)' = p BY <2>3 DEF UserOf
  <2> QED BY <2>2, <2>4
<1>2. CASE \A p \in Procs: \A b \in held[p]: blockno[b] # blk
  <2>1. User(blk) = None BY <1>2 DEF UserOf
  <2>2. \A p \in Procs: \A b \in held'[p]: blockno'[b] # blk BY <1>2
  <2>3. User(blk)' = None BY <2>2 DEF UserOf
  <2> QED BY <2>1, <2>3
<1> QED BY <1>1, <1>2

\* Contents stay while buffers keep their blocks, flags and data.
LEMMA SameContent ==
  ASSUME ContentOf, ContentOf', UNCHANGED blockno,
         \A b \in Bufs: blockno[b] \in Blocks =>
            (IF valid'[b] THEN data'[b] ELSE disk'[blockno[b]])
              = (IF valid[b] THEN data[b] ELSE disk[blockno[b]]),
         \A blk \in Blocks: (\A b \in Bufs: blockno[b] # blk) => disk'[blk] = disk[blk]
  PROVE  \A blk \in Blocks: Content(blk)' = Content(blk)
<1> SUFFICES ASSUME NEW blk \in Blocks PROVE Content(blk)' = Content(blk)
  OBVIOUS
<1>1. CASE \E b \in Bufs: blockno[b] = blk
  <2>1. PICK b \in Bufs : blockno[b] = blk BY <1>1
  <2>2. Content(blk) = IF valid[b] THEN data[b] ELSE disk[blk] BY <2>1 DEF ContentOf
  <2>3. blockno'[b] = blk BY <2>1
  <2>4. Content(blk)' = IF valid'[b] THEN data'[b] ELSE disk'[blk] BY <2>3 DEF ContentOf
  <2> QED BY <2>1, <2>2, <2>4
<1>2. CASE \A b \in Bufs: blockno[b] # blk
  <2>1. Content(blk) = disk[blk] BY <1>2 DEF ContentOf
  <2>2. \A b \in Bufs: blockno'[b] # blk BY <1>2
  <2>3. Content(blk)' = disk'[blk] BY <2>2 DEF ContentOf
  <2> QED BY <1>2, <2>1, <2>3
<1> QED BY <1>1, <1>2

\* Locks, references, the list and the queue are not visible in the store.
LEMMA Invisible ==
  ASSUME Known, UNCHANGED <<blockno, valid, dirty, data, disk, held>>
  PROVE  CleanInv' /\ UNCHANGED Abstract!vars
<1>1. CleanInv' BY DEF Known, CleanInv
<1>2. \A blk \in Blocks: Content(blk)' = Content(blk) BY SameContent DEF Known
<1>3. \A blk \in Blocks: User(blk)' = User(blk) BY SameUser DEF Known
<1> QED BY <1>1, <1>2, <1>3, Stutter

\* bread() gives the block; bwrite() returns to a caller that had it.
LEMMA HaveGives ==
  ASSUME Known, NEW p \in Procs, pc[p] \in {"bread", "iowake"}, valid[cur[p]], Have(p),
         UNCHANGED <<blockno, valid, dirty, refcnt, data, owner, disk>>
  PROVE  CleanInv' /\ [Abstract!Next]_(Abstract!vars)
<1>0. PICK b \in Bufs : b = cur[p] /\ owner[b] = p
  BY CacheAssumption DEF Known, IInv, LockInv, Locked, TypeOK
<1>1. held' = [held EXCEPT ![p] = @ \union {b}] BY <1>0 DEF Have
<1>2. refcnt[b] # 0 BY <1>0, Unused DEF Known, IInv
<1>3. PICK blk \in Blocks : blk = blockno[b] BY <1>2 DEF Known, IInv, FlagInv, TypeOK
<1>4. CleanInv' BY DEF Known, CleanInv
<1>5. \A x \in Blocks: Content(x)' = Content(x) BY SameContent DEF Known
<1>6. held'[p] = held[p] \union {b} /\ \A q \in Procs: q # p => held'[q] = held[q]
  BY <1>1 DEF Known, IInv, TypeOK
<1>7. User(blk)' = p
  <2>1. b \in held'[p] /\ blockno'[b] = blk BY <1>3, <1>6
  <2> QED BY <2>1 DEF Known, UserOf
<1>8. CASE b \in held[p]
  <2>1. held' = held
    <3>1. held[p] \union {b} = held[p] BY <1>8
    <3>2. held \in [Procs -> SUBSET Bufs] BY DEF Known, IInv, TypeOK
    <3>3. [held EXCEPT ![p] = held[p]] = held BY <3>2
    <3> QED BY <1>1, <3>1, <3>3
  <2>2. \A x \in Blocks: User(x)' = User(x) BY <2>1, SameUser DEF Known
  <2> QED BY <1>4, <1>5, <2>2, Stutter
<1>9. CASE b \notin held[p]
  <2>1. \A q \in Procs: \A c \in held[q]: blockno[c] # blk
    <3> SUFFICES ASSUME NEW q \in Procs, NEW c \in held[q], blockno[c] = blk PROVE FALSE
      OBVIOUS
    <3>1. c \in Bufs /\ owner[c] = q BY DEF Known, IInv, TypeOK, LockInv
    <3>2. c = b BY <1>3, <3>1, CacheAssumption DEF Known, IInv, OneBufferPerBlock
    <3> QED BY <1>0, <1>9, <3>1, <3>2
  <2>2. User(blk) = None BY <1>3, <2>1 DEF Known, UserOf
  <2>3. ASSUME NEW x \in Blocks, x # blk PROVE User(x)' = User(x)
    <3>1. CASE \E q \in Procs: \E c \in held[q]: blockno[c] = x
      <4>1. PICK q \in Procs : \E c \in held[q]: blockno[c] = x BY <3>1
      <4>2. PICK c \in held[q] : blockno[c] = x BY <4>1
      <4>3. c \in held'[q] /\ blockno'[c] = x BY <4>2, <1>6
      <4> QED BY <4>2, <4>3 DEF Known, UserOf
    <3>2. CASE \A q \in Procs: \A c \in held[q]: blockno[c] # x
      <4>1. \A q \in Procs: \A c \in held'[q]: blockno'[c] # x BY <3>2, <2>3, <1>3, <1>6
      <4>2. User(x) = None BY <3>2 DEF Known, UserOf
      <4>3. User(x)' = None BY <4>1 DEF Known, UserOf
      <4> QED BY <4>2, <4>3
    <3> QED BY <3>1, <3>2
  <2>4. [x \in Blocks |-> User(x)'] = [[x \in Blocks |-> User(x)] EXCEPT ![blk] = p]
    BY <1>7, <2>3
  <2>5. [x \in Blocks |-> Content(x)'] = [x \in Blocks |-> Content(x)] BY <1>5
  <2>6. Abstract!Give(p, blk) BY <1>3, <2>2, <2>4, <2>5 DEF Abstract!Give
  <2> QED BY <1>3, <1>4, <2>6 DEF Abstract!Next
<1> QED BY <1>8, <1>9

\* The user of a block changes it in its buffer.
LEMMA WriteChanges ==
  ASSUME Known, NEW p \in Procs, NEW b \in held[p], NEW v \in Val,
         data' = [data EXCEPT ![b] = v], dirty' = [dirty EXCEPT ![b] = TRUE],
         UNCHANGED <<blockno, valid, disk, held>>
  PROVE  CleanInv' /\ [Abstract!Next]_(Abstract!vars)
<1>1. b \in Bufs /\ valid[b] /\ refcnt[b] # 0
  <2>1. b \in Bufs BY DEF Known, IInv, TypeOK
  <2> QED BY <2>1, Unused DEF Known, IInv, FlagInv
<1>2. PICK blk \in Blocks : blk = blockno[b] BY <1>1 DEF Known, IInv, FlagInv, TypeOK
<1>3. /\ data'[b] = v /\ dirty'[b]
      /\ \A c \in Bufs: c # b => data'[c] = data[c] /\ dirty'[c] = dirty[c]
  BY <1>1 DEF Known, IInv, TypeOK
<1>4. CleanInv' BY <1>3 DEF Known, CleanInv
<1>5. \A x \in Blocks: User(x)' = User(x) BY SameUser DEF Known
<1>6. User(blk) = p BY <1>2 DEF Known, UserOf
<1>7. Content(blk)' = v BY <1>1, <1>2, <1>3 DEF Known, ContentOf
<1>8. ASSUME NEW x \in Blocks, x # blk PROVE Content(x)' = Content(x)
  <2>1. CASE \E c \in Bufs: blockno[c] = x
    <3>1. PICK c \in Bufs : blockno[c] = x BY <2>1
    <3>2. data'[c] = data[c] BY <3>1, <1>8, <1>2, <1>3
    <3>3. Content(x) = IF valid[c] THEN data[c] ELSE disk[x] BY <3>1 DEF Known, ContentOf
    <3>4. Content(x)' = IF valid'[c] THEN data'[c] ELSE disk'[x] BY <3>1 DEF Known, ContentOf
    <3> QED BY <3>2, <3>3, <3>4
  <2>2. CASE \A c \in Bufs: blockno[c] # x
    <3>1. Content(x) = disk[x] BY <2>2 DEF Known, ContentOf
    <3>2. Content(x)' = disk'[x] BY <2>2 DEF Known, ContentOf
    <3> QED BY <3>1, <3>2
  <2> QED BY <2>1, <2>2
<1>9. [x \in Blocks |-> Content(x)'] = [[x \in Blocks |-> Content(x)] EXCEPT ![blk] = v]
  BY <1>7, <1>8
<1>10. [x \in Blocks |-> User(x)'] = [x \in Blocks |-> User(x)] BY <1>5
<1>11. [x \in Blocks |-> Content(x)'][blk] = v BY <1>2, <1>7
<1>12. Abstract!Change(p, blk)
  BY <1>2, <1>6, <1>9, <1>10, <1>11 DEF Abstract!Change
<1> QED BY <1>2, <1>4, <1>12 DEF Abstract!Next

\* brelse() takes the block back.
LEMMA BrelseReleases ==
  ASSUME Known, NEW p \in Procs, NEW b \in Bufs, Brelse(p, b)
  PROVE  CleanInv' /\ [Abstract!Next]_(Abstract!vars)
<1>1. /\ b \in held[p] /\ held' = [held EXCEPT ![p] = @ \ {b}]
      /\ UNCHANGED <<blockno, valid, dirty, refcnt, data, disk, intr, cmd>>
  BY DEF Brelse, buf, ide
<1>2. refcnt[b] # 0 BY <1>1, Unused DEF Known, IInv
<1>3. PICK blk \in Blocks : blk = blockno[b] BY <1>2 DEF Known, IInv, FlagInv, TypeOK
<1>4. CleanInv' BY <1>1 DEF Known, CleanInv
<1>5. \A x \in Blocks: Content(x)' = Content(x) BY <1>1, SameContent DEF Known
<1>6. held'[p] = held[p] \ {b} /\ \A q \in Procs: q # p => held'[q] = held[q]
  BY <1>1 DEF Known, IInv, TypeOK
<1>7. User(blk) = p BY <1>1, <1>3 DEF Known, UserOf
<1>8. \A q \in Procs: \A c \in held'[q]: blockno'[c] # blk
  <2> SUFFICES ASSUME NEW q \in Procs, NEW c \in held'[q], blockno[c] = blk PROVE FALSE
    BY <1>1
  <2>1. c \in held[q] /\ c \in Bufs /\ owner[c] = q BY <1>6 DEF Known, IInv, TypeOK, LockInv
  <2>2. c = b BY <1>3, <2>1, CacheAssumption DEF Known, IInv, OneBufferPerBlock
  <2>3. owner[b] = p BY <1>1 DEF Known, IInv, LockInv
  <2> QED BY <1>6, <2>1, <2>2, <2>3
<1>9. User(blk)' = None BY <1>3, <1>8 DEF Known, UserOf
<1>10. ASSUME NEW x \in Blocks, x # blk PROVE User(x)' = User(x)
  <2>1. CASE \E q \in Procs: \E c \in held[q]: blockno[c] = x
    <3>1. PICK q \in Procs : \E c \in held[q]: blockno[c] = x BY <2>1
    <3>2. PICK c \in held[q] : blockno[c] = x BY <3>1
    <3>3. c \in held'[q] /\ blockno'[c] = x BY <3>2, <1>1, <1>3, <1>6, <1>10
    <3> QED BY <3>2, <3>3 DEF Known, UserOf
  <2>2. CASE \A q \in Procs: \A c \in held[q]: blockno[c] # x
    <3>1. \A q \in Procs: \A c \in held'[q]: blockno'[c] # x BY <2>2, <1>1, <1>6
    <3>2. User(x) = None BY <2>2 DEF Known, UserOf
    <3>3. User(x)' = None BY <3>1 DEF Known, UserOf
    <3> QED BY <3>2, <3>3
  <2> QED BY <2>1, <2>2
<1>11. [x \in Blocks |-> User(x)'] = [[x \in Blocks |-> User(x)] EXCEPT ![blk] = None]
  BY <1>9, <1>10
<1>12. [x \in Blocks |-> Content(x)'] = [x \in Blocks |-> Content(x)] BY <1>5
<1>13. Abstract!Release(p, blk) BY <1>3, <1>7, <1>11, <1>12 DEF Abstract!Release
<1> QED BY <1>3, <1>4, <1>13 DEF Abstract!Next

\* Recycling a clean buffer forgets nothing the disk does not have.
LEMMA BgetMissHidden ==
  ASSUME Known, NEW p \in Procs, NEW new \in Blocks, BgetMiss(p, new)
  PROVE  CleanInv' /\ UNCHANGED Abstract!vars
<1>1. PICK i \in 1 .. Len(lru) :
        /\ Recyclable(lru[i]) /\ blockno' = [blockno EXCEPT ![lru[i]] = new]
        /\ valid' = [valid EXCEPT ![lru[i]] = FALSE]
        /\ dirty' = [dirty EXCEPT ![lru[i]] = FALSE]
  BY DEF BgetMiss
<1>2. PICK b \in Bufs : b = lru[i] BY DEF Known, IInv, TypeOK
<1>3. UNCHANGED <<data, disk, held>> BY DEF BgetMiss, ide
<1>4. refcnt[b] = 0 /\ ~dirty[b] /\ \A q \in Procs: b \notin held[q]
  BY <1>1, <1>2, Unused DEF Recyclable, Known, IInv
<1>5. /\ blockno'[b] = new /\ ~valid'[b]
      /\ \A c \in Bufs: c # b => /\ blockno'[c] = blockno[c] /\ valid'[c] = valid[c]
                                 /\ dirty'[c] = dirty[c]
  BY <1>1, <1>2 DEF Known, IInv, TypeOK
<1>6. CleanInv' BY <1>3, <1>5 DEF Known, CleanInv
<1>7. \A q \in Procs: \A c \in held[q]: blockno'[c] = blockno[c]
  BY <1>4, <1>5 DEF Known, IInv, TypeOK
<1>8. \A x \in Blocks: User(x)' = User(x) BY <1>3, <1>7, SameUser DEF Known
<1>9. \A c \in Bufs: blockno[c] # new BY DEF BgetMiss, Holding
<1>10. ASSUME NEW x \in Blocks PROVE Content(x)' = Content(x)
  <2>1. CASE x = new
    <3>1. Content(x) = disk[x] BY <1>9, <2>1 DEF Known, ContentOf
    <3>2. Content(x)' = disk'[x] BY <1>5, <2>1 DEF Known, ContentOf
    <3> QED BY <1>3, <3>1, <3>2
  <2>2. CASE x # new /\ blockno[b] = x
    <3>1. Content(x) = IF valid[b] THEN data[b] ELSE disk[x] BY <2>2 DEF Known, ContentOf
    <3>2. Content(x) = disk[x] BY <1>4, <2>2, <3>1 DEF Known, CleanInv
    <3>3. \A c \in Bufs: blockno'[c] # x
      BY <1>5, <2>2, CacheAssumption DEF Known, IInv, OneBufferPerBlock
    <3>4. Content(x)' = disk'[x] BY <3>3 DEF Known, ContentOf
    <3> QED BY <1>3, <3>2, <3>4
  <2>3. CASE x # new /\ blockno[b] # x
    <3>1. CASE \E c \in Bufs: blockno[c] = x
      <4>1. PICK c \in Bufs : blockno[c] = x BY <3>1
      <4>2. c # b BY <4>1, <2>3
      <4>3. blockno'[c] = x /\ valid'[c] = valid[c] BY <4>1, <4>2, <1>5
      <4>4. Content(x) = IF valid[c] THEN data[c] ELSE disk[x] BY <4>1 DEF Known, ContentOf
      <4>5. Content(x)' = IF valid'[c] THEN data'[c] ELSE disk'[x] BY <4>3 DEF Known, ContentOf
      <4> QED BY <1>3, <4>3, <4>4, <4>5
    <3>2. CASE \A c \in Bufs: blockno[c] # x
      <4>1. Content(x) = disk[x] BY <3>2 DEF Known, ContentOf
      <4>2. \A c \in Bufs: blockno'[c] # x BY <3>2, <2>3, <1>5
      <4>3. Content(x)' = disk'[x] BY <4>2 DEF Known, ContentOf
      <4> QED BY <1>3, <4>1, <4>3
    <3> QED BY <3>1, <3>2
  <2> QED BY <2>1, <2>2, <2>3
<1> QED BY <1>6, <1>8, <1>10, Stutter

\* A write reaches the disk while the buffer still stands for the block.
LEMMA DiskDoneHidden ==
  ASSUME Known, DiskDone PROVE CleanInv' /\ UNCHANGED Abstract!vars
<1> DEFINE b == idequeue[1]
<1>1. /\ cmd # NoCmd /\ disk' = Done /\ UNCHANGED <<blockno, valid, dirty, data, held>>
  BY DEF DiskDone, buf
<1>2. idequeue # << >> BY <1>1 DEF Known, IInv, QueueInv
<1>3. /\ b \in Bufs /\ blockno[b] \in Blocks
      /\ \A x \in Blocks: x # blockno[b] => disk'[x] = disk[x]
      /\ IF dirty[b] THEN disk'[blockno[b]] = data[b] ELSE disk' = disk
  BY <1>1, <1>2, DoneIs DEF Known
<1> HIDE DEF b
<1>4. \A x \in Blocks: User(x)' = User(x) BY <1>1, SameUser DEF Known
<1>5. CASE ~dirty[b]
  <2>1. disk' = disk BY <1>3, <1>5
  <2> QED BY <1>1, <2>1, Invisible
<1>6. CASE dirty[b]
  <2>1. valid[b] /\ disk'[blockno[b]] = data[b] BY <1>3, <1>6 DEF Known, IInv, FlagInv
  <2>2. \A c \in Bufs: c # b /\ blockno[c] \in Blocks => blockno[c] # blockno[b]
    BY <1>3, CacheAssumption DEF Known, IInv, OneBufferPerBlock
  <2>3. CleanInv' BY <1>1, <1>3, <1>6, <2>2 DEF Known, CleanInv
  <2>4. \A c \in Bufs: blockno[c] \in Blocks =>
          (IF valid'[c] THEN data'[c] ELSE disk'[blockno[c]])
            = (IF valid[c] THEN data[c] ELSE disk[blockno[c]])
    BY <1>1, <1>3, <2>1, <2>2
  <2>5. \A x \in Blocks: (\A c \in Bufs: blockno[c] # x) => disk'[x] = disk[x]
    BY <1>3
  <2>6. \A x \in Blocks: Content(x)' = Content(x)
    BY <1>1, <2>4, <2>5, SameContent DEF Known
  <2> QED BY <1>4, <2>3, <2>6, Stutter
<1> QED BY <1>5, <1>6

\* The interrupt brings the buffer of a read up to the disk; that of a write
\* has what the disk has, or is about to have.
LEMMA IdeIntrHidden ==
  ASSUME Known, DiskErrors = FALSE, IdeIntr PROVE CleanInv' /\ UNCHANGED Abstract!vars
<1> DEFINE b == idequeue[1]
<1>1. idequeue # << >> /\ b = Head(idequeue) /\ 1 \in 1 .. Len(idequeue)
  BY DEF IdeIntr, Known, IInv, TypeOK
<1>2. /\ valid' = [valid EXCEPT ![b] = TRUE] /\ dirty' = [dirty EXCEPT ![b] = FALSE]
      /\ disk' = Done /\ UNCHANGED <<blockno, held>>
  BY <1>1 DEF IdeIntr
<1>3. PICK v : /\ v \in IF dirty[b] THEN {data[b]}
                        ELSE {disk[blockno[b]]} \union (IF DiskErrors THEN {data[b]} ELSE {})
               /\ data' = [data EXCEPT ![b] = v]
  BY <1>1 DEF IdeIntr
<1>4. /\ b \in Bufs /\ blockno[b] \in Blocks
      /\ \A x \in Blocks: x # blockno[b] => disk'[x] = disk[x]
      /\ IF dirty[b] THEN disk'[blockno[b]] = data[b] ELSE disk' = disk
  BY <1>1, <1>2, DoneIs DEF Known
<1>5. ~valid[b] \/ dirty[b] BY <1>1 DEF Known, IInv, FlagInv
<1> HIDE DEF b
<1>6. /\ valid'[b] /\ ~dirty'[b] /\ data'[b] = v
      /\ \A c \in Bufs: c # b => valid'[c] = valid[c] /\ dirty'[c] = dirty[c] /\ data'[c] = data[c]
  BY <1>2, <1>3, <1>4 DEF Known, IInv, TypeOK
<1>7. v = disk'[blockno[b]] /\ v = IF valid[b] THEN data[b] ELSE disk[blockno[b]]
  <2>1. CASE dirty[b] BY <1>3, <1>4, <2>1 DEF Known, IInv, FlagInv
  <2>2. CASE ~dirty[b] BY <1>3, <1>4, <1>5, <2>2
  <2> QED BY <2>1, <2>2
<1>8. \A c \in Bufs: c # b /\ blockno[c] \in Blocks => blockno[c] # blockno[b]
  BY <1>4, CacheAssumption DEF Known, IInv, OneBufferPerBlock
<1>9. CleanInv'
  <2> SUFFICES ASSUME NEW c \in Bufs, valid'[c], ~dirty'[c]
               PROVE  blockno'[c] \in Blocks /\ data'[c] = disk'[blockno'[c]]
    BY DEF CleanInv
  <2>1. CASE c = b BY <1>2, <1>4, <1>6, <1>7, <2>1
  <2>2. CASE c # b
    <3>1. blockno[c] \in Blocks /\ data[c] = disk[blockno[c]] BY <1>6, <2>2 DEF Known, CleanInv
    <3>2. disk'[blockno[c]] = disk[blockno[c]] BY <1>4, <1>8, <2>2, <3>1
    <3> QED BY <1>2, <1>6, <2>2, <3>1, <3>2
  <2> QED BY <2>1, <2>2
<1>10. \A x \in Blocks: User(x)' = User(x) BY <1>2, SameUser DEF Known
<1>11. \A x \in Blocks: Content(x)' = Content(x)
  <2>1. \A c \in Bufs: blockno[c] \in Blocks =>
          (IF valid'[c] THEN data'[c] ELSE disk'[blockno[c]])
            = (IF valid[c] THEN data[c] ELSE disk[blockno[c]])
    BY <1>2, <1>4, <1>6, <1>7, <1>8
  <2>2. \A x \in Blocks: (\A c \in Bufs: blockno[c] # x) => disk'[x] = disk[x]
    BY <1>4
  <2> QED BY <1>2, <2>1, <2>2, SameContent DEF Known
<1> QED BY <1>9, <1>10, <1>11, Stutter

\* Every step of the cache is a step of the store, or none.
LEMMA StoreStep ==
  ASSUME DiskErrors = FALSE
  PROVE  Known /\ [Next]_vars => CleanInv' /\ [Abstract!Next]_(Abstract!vars)
<1> SUFFICES ASSUME Known, [Next]_vars
             PROVE  CleanInv' /\ [Abstract!Next]_(Abstract!vars)
  OBVIOUS
<1>1. CASE DiskDone BY <1>1, DiskDoneHidden
<1>2. CASE IdeIntr BY <1>2, IdeIntrHidden
<1>3. ASSUME NEW p \in Procs, NEW blk \in Blocks, BgetMiss(p, blk)
      PROVE  CleanInv' /\ [Abstract!Next]_(Abstract!vars)
  BY <1>3, BgetMissHidden
<1>4. ASSUME NEW p \in Procs, NEW blk \in Blocks, BgetHit(p, blk) \/ BgetPanic(p, blk)
      PROVE  CleanInv' /\ [Abstract!Next]_(Abstract!vars)
  <2>1. UNCHANGED <<blockno, valid, dirty, data, disk, held>>
    BY <1>4 DEF BgetHit, BgetPanic, buf, ide
  <2> QED BY <2>1, Invisible
<1>5. ASSUME NEW p \in Procs, NEW b \in Bufs, LogWrite(p, b) \/ Bwrite(p, b)
      PROVE  CleanInv' /\ [Abstract!Next]_(Abstract!vars)
  <2>1. /\ b \in held[p] /\ dirty' = [dirty EXCEPT ![b] = TRUE]
        /\ UNCHANGED <<blockno, valid, disk, held>>
        /\ \E v \in Val: data' = [data EXCEPT ![b] = v]
    BY <1>5 DEF LogWrite, Bwrite, ide
  <2> QED BY <2>1, WriteChanges
<1>6. ASSUME NEW p \in Procs, NEW b \in Bufs, Brelse(p, b)
      PROVE  CleanInv' /\ [Abstract!Next]_(Abstract!vars)
  BY <1>6, BrelseReleases
<1>7. ASSUME NEW p \in Procs, AcquireSleep(p) \/ AcquireSleepWait(p) \/ BreadIo(p) \/ BrelseUnref(p)
      PROVE  CleanInv' /\ [Abstract!Next]_(Abstract!vars)
  <2>1. UNCHANGED <<blockno, valid, dirty, data, disk, held>>
    BY <1>7 DEF AcquireSleep, AcquireSleepWait, BreadIo, BrelseUnref, buf, ide
  <2> QED BY <2>1, Invisible
<1>8. ASSUME NEW p \in Procs, IdeRw(p)
      PROVE  CleanInv' /\ [Abstract!Next]_(Abstract!vars)
  <2>1. UNCHANGED <<blockno, valid, dirty, data, disk, held>> BY <1>8 DEF IdeRw, buf
  <2> QED BY <2>1, Invisible
<1>9. ASSUME NEW p \in Procs, Bread(p)
      PROVE  CleanInv' /\ [Abstract!Next]_(Abstract!vars)
  BY <1>9, HaveGives DEF Bread, At, buf, ide
<1>10. ASSUME NEW p \in Procs, IdeRwCheck(p)
       PROVE  CleanInv' /\ [Abstract!Next]_(Abstract!vars)
  <2>1. pc[p] = "iowake" BY <1>10 DEF IdeRwCheck, At
  <2>2. valid[cur[p]] /\ ~dirty[cur[p]] BY <2>1 DEF Known, IInv, FlagInv
  <2>3. Have(p) BY <1>10, <2>2 DEF IdeRwCheck
  <2>4. UNCHANGED <<blockno, valid, dirty, refcnt, data, owner, disk>>
    BY <1>10 DEF IdeRwCheck, buf, ide
  <2> QED BY <2>1, <2>2, <2>3, <2>4, HaveGives
<1>11. CASE UNCHANGED vars BY <1>11, Invisible DEF vars
<1>13. CASE DiskSpurious \/ IdeIntrNone \/ \E p \in Procs: Kill(p)
  <2>1. UNCHANGED <<blockno, valid, dirty, data, disk, held>>
    BY <1>13 DEF DiskSpurious, IdeIntrNone, Kill, buf, ide
  <2> QED BY <2>1, Invisible
<1>12. CASE Next
  <2>1. CASE Disk BY <2>1, <1>1, <1>2, <1>13 DEF Disk
  <2>2. ASSUME NEW p \in Procs, Ask(p) PROVE CleanInv' /\ [Abstract!Next]_(Abstract!vars)
    BY <2>2, <1>3, <1>4 DEF Ask
  <2>3. ASSUME NEW p \in Procs, Use(p) PROVE CleanInv' /\ [Abstract!Next]_(Abstract!vars)
    BY <2>3, <1>5 DEF Use
  <2>4. ASSUME NEW p \in Procs, Inside(p) PROVE CleanInv' /\ [Abstract!Next]_(Abstract!vars)
    BY <2>4, <1>7, <1>8, <1>9, <1>10 DEF Inside
  <2> QED BY <1>12, <1>13, <2>1, <2>2, <2>3, <2>4, <1>6 DEF Next
<1> QED BY <1>11, <1>12

\* After binit() every block is on the disk, and nobody has one.
LEMMA StoreInit == Init => CleanInv /\ Abstract!Init
<1> SUFFICES ASSUME Init PROVE CleanInv /\ Abstract!Init
  OBVIOUS
<1>1. CleanInv BY DEF Init, CleanInv
<1>2. IInv BY InvInit
<1>3. ContentOf /\ UserOf BY <1>2, Determined
<1>4. \A x \in Blocks: Content(x) = disk[x]
  <2>1. \A x \in Blocks: \A b \in Bufs: blockno[b] # x BY CacheAssumption DEF Init
  <2> QED BY <1>3, <2>1 DEF ContentOf
<1>5. \A x \in Blocks: User(x) = None
  <2>1. \A x \in Blocks: \A p \in Procs: \A b \in held[p]: blockno[b] # x BY DEF Init
  <2> QED BY <1>3, <2>1 DEF UserOf
<1>6. [x \in Blocks |-> Content(x)] \in [Blocks -> Val] BY <1>4 DEF Init
<1>7. [x \in Blocks |-> User(x)] = [x \in Blocks |-> None] BY <1>5
<1> QED BY <1>1, <1>6, <1>7 DEF Abstract!Init

(***************************************************************************)
(* The cache is a store of blocks: whatever is recycled, pinned, queued or *)
(* interrupted, and however the processes interleave, a block has one      *)
(* content and one user at a time, and only that user changes it.  The     *)
(* disk must not report errors: ideintr() would mark the old data valid.   *)
(***************************************************************************)
THEOREM CacheImplementsStore == ASSUME DiskErrors = FALSE PROVE Spec => CacheIsStore
<1>1. Init => IInv /\ CleanInv /\ Abstract!Init BY InvInit, StoreInit
<1>2. IInv /\ CleanInv /\ [Next]_vars => IInv' /\ CleanInv' /\ [Abstract!Next]_(Abstract!vars)
  <2>1. IInv /\ [Next]_vars => IInv' BY InvStep
  <2>2. IInv => ContentOf /\ UserOf BY Determined
  <2>3. IInv' => ContentOf' /\ UserOf' BY Determined, PTL
  <2>4. Known /\ [Next]_vars => CleanInv' /\ [Abstract!Next]_(Abstract!vars) BY StoreStep
  <2> QED BY <2>1, <2>2, <2>3, <2>4 DEF Known
<1> QED BY <1>1, <1>2, PTL DEF Spec, CacheIsStore, Abstract!Spec
=============================================================================
