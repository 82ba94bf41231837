------------------------------ MODULE SharedMem ------------------------------
(***************************************************************************)
(* The keyed shared memory of this kernel (getshared() and releaseshared() *)
(* of proc.c, sharevm() and desharevm() of vm.c): MAXSHAREDPG keys, each   *)
(* with a page and a count of its users in the table sharedmemo, and per   *)
(* process a record of the keys it uses and a page table that maps key k   *)
(* at KERNBASE-(k+1)*PGSIZE.                                               *)
(*                                                                         *)
(* No lock protects sharedmemo, so every access to it is a step: two calls *)
(* on two CPUs interleave, as those of two children of scsh do.            *)
(* recs[idx]++ is a load and a store.  Of desharevm() the compiler makes   *)
(* one load, for both tests and the decrement, and a store (kernel.asm).   *)
(*                                                                         *)
(* Physical pages are free, given to other uses of kalloc(), a page table  *)
(* (the one walkpgdir() allocates for the addresses under KERNBASE when a  *)
(* process maps its first key) or behind a key.  A panic stops everything. *)
(***************************************************************************)
EXTENDS Integers, FiniteSets

CONSTANTS Slots,      \* entries of the process table
          Boot,       \* the slot of the first process
          Keys,       \* indices of shared pages: 0 .. MAXSHAREDPG-1
          Pages,      \* physical pages
          None,       \* no page, no key
          Others,     \* bound: pages in use by the rest of the kernel
          MaxRecs     \* bound: users a key may have had

ASSUME SharedAssumption ==
  /\ IsFiniteSet(Slots) /\ Boot \in Slots
  /\ 0 \in Keys /\ Keys \subseteq Nat
  /\ None \notin Pages /\ None \notin Keys
  /\ Others \in Nat /\ MaxRecs \in Nat

VARIABLES shared, recs,  \* sharedmemo: the page of a key and its user count
          sharedrec,     \* sharedrec[p][k]: p->sharedrec[k] is 's'
          pte,           \* pte[p][k]: the page p's page table maps for key k
          pgtab,         \* the page that holds those entries of p's table
          state,         \* p->state: is the slot in use
          free, other,   \* the free list; pages of the rest of the kernel
          pc,            \* where a process is in these calls
          key, next,     \* the key of its call, and the key to go on with
          mem, reg,      \* its local mem, and the loaded recs[idx]
          panicked,
          failed,        \* history: sharevm() has run out of memory,
          kept,          \* the keys a process released since its address space is new,
          lost,          \* the keys whose count lost an update to an overlapping call,
          raced          \* and two calls ran into each other where a count is zero

vars == <<shared, recs, sharedrec, pte, pgtab, state, free, other, pc, key,
          next, mem, reg, panicked, failed, kept, lost, raced>>
table == <<shared, recs>>
procs == <<sharedrec, pte, pgtab, state>>
locals == <<key, next, mem, reg>>
races == <<lost, raced>>
flags == <<panicked, failed, kept, races>>

Places == {"user", "get", "publish", "use", "map", "load", "store", "record",
           "deshare", "drop", "free"}

Init == /\ shared = [k \in Keys |-> None]
        /\ recs = [k \in Keys |-> 0]
        /\ sharedrec = [p \in Slots |-> [k \in Keys |-> FALSE]]
        /\ pte = [p \in Slots |-> [k \in Keys |-> None]]
        /\ pgtab = [p \in Slots |-> None]
        /\ state = [p \in Slots |-> IF p = Boot THEN "live" ELSE "unused"]
        /\ free = Pages /\ other = {}
        /\ pc = [p \in Slots |-> "user"]
        /\ key = [p \in Slots |-> None] /\ next = [p \in Slots |-> None]
        /\ mem = [p \in Slots |-> None] /\ reg = [p \in Slots |-> 0]
        /\ panicked = FALSE /\ failed = FALSE /\ kept = {}
        /\ lost = {} /\ raced = FALSE

Goto(p, place) == pc' = [pc EXCEPT ![p] = place]

\* p is in user mode, and may make a call that touches sharedmemo.
MayCall(p) == /\ ~panicked
              /\ state[p] = "live" /\ pc[p] = "user"

At(p, place) == ~panicked /\ pc[p] = place

\* Another call than that of p has looked at sharedmemo for key k, and is going
\* on with what it saw.
Meets(p, k) ==
  \E q \in Slots \ {p}:
    key[q] = k /\ pc[q] \in {"publish", "use", "map", "load", "store", "drop", "free"}

-----------------------------------------------------------------------------
\* The rest of the kernel: allocproc(), allocuvm(), pipes, ... and back.
KallocOther == /\ ~panicked /\ Cardinality(other) < Others
               /\ \E g \in free: free' = free \ {g} /\ other' = other \union {g}
               /\ UNCHANGED <<table, procs, pc, locals, flags>>

KfreeOther == /\ ~panicked
              /\ \E g \in other: other' = other \ {g} /\ free' = free \union {g}
              /\ UNCHANGED <<table, procs, pc, locals, flags>>

\* Mutant: the child gets the records of its parent, but not the mappings.
ForkInherits(p, q) ==
  /\ ~panicked /\ state[p] = "live" /\ pc[p] = "user"
  /\ state[q] = "unused"
  /\ state' = [state EXCEPT ![q] = "live"]
  /\ sharedrec' = [sharedrec EXCEPT ![q] = sharedrec[p]]
  /\ UNCHANGED <<table, pte, pgtab, free, other, pc, locals, flags>>

\* fork(): copyuvm() copies the pages under sz, so that no shared page is
\* mapped in the child; the loop that clears sharedrec starts at 1.
Fork(p, q) ==
  /\ ~panicked /\ state[p] = "live" /\ pc[p] = "user"
  /\ state[q] = "unused"
  /\ state' = [state EXCEPT ![q] = "live"]
  /\ sharedrec' = [sharedrec EXCEPT ![q] = [k \in Keys |-> k = 0 /\ @[0]]]
  /\ UNCHANGED <<table, pte, pgtab, free, other, pc, locals, flags>>

\* exit() releases nothing.
Exit(p) ==
  /\ ~panicked /\ state[p] = "live" /\ pc[p] = "user" /\ p # Boot
  /\ state' = [state EXCEPT ![p] = "zombie"]
  /\ UNCHANGED <<table, sharedrec, pte, pgtab, free, other, pc, locals, flags>>

\* freevm(): deallocuvm() stops under the shared pages, which are kept; the
\* page tables are freed.
FreeVm(p) ==
  /\ pte' = [pte EXCEPT ![p] = [k \in Keys |-> None]]
  /\ pgtab' = [pgtab EXCEPT ![p] = None]
  /\ free' = free \union ({pgtab[p]} \ {None})
  /\ kept' = kept \ ({p} \X Keys)

\* wait() in the parent frees the address space of a zombie, not its records.
Wait(p) ==
  /\ ~panicked /\ state[p] = "zombie"
  /\ state' = [state EXCEPT ![p] = "unused"]
  /\ FreeVm(p)
  /\ UNCHANGED <<table, sharedrec, other, pc, locals, panicked, failed, races>>

\* exec(): a new page table, and the records of the old one.
Exec(p) ==
  /\ ~panicked /\ state[p] = "live" /\ pc[p] = "user"
  /\ FreeVm(p)
  /\ UNCHANGED <<table, sharedrec, state, other, pc, locals, panicked, failed, races>>

-----------------------------------------------------------------------------
\* sys_getsharem(k), and the memo calls with k = 2: getshared(0) goes before
\* getshared(1).  A key that is recorded needs nothing but its address.
\* Bound: MaxRecs.
GetSharem(p, k) ==
  /\ MayCall(p)
  /\ \A j \in Keys: recs[j] < MaxRecs
  /\ key' = [key EXCEPT ![p] = IF k = 1 THEN 0 ELSE k]
  /\ next' = [next EXCEPT ![p] = IF k = 1 THEN 1 ELSE None]
  /\ Goto(p, "get")
  /\ UNCHANGED <<table, procs, free, other, mem, reg, flags>>

\* The end of a call: its locals are gone.  Return to user mode, or go on with the next key.
Return(p) ==
  /\ key' = [key EXCEPT ![p] = next[p]]
  /\ next' = [next EXCEPT ![p] = None]
  /\ mem' = [mem EXCEPT ![p] = None]
  /\ reg' = [reg EXCEPT ![p] = 0]
  /\ Goto(p, IF next[p] = None THEN "user" ELSE "get")

GetShared(p) ==
  /\ At(p, "get")
  /\ sharedrec[p][key[p]]
  /\ Return(p)
  /\ UNCHANGED <<table, procs, free, other, flags>>

\* sharevm(): the key has users ...
ShareVm(p) ==
  /\ At(p, "get")
  /\ ~sharedrec[p][key[p]]
  /\ recs[key[p]] > 0
  /\ Goto(p, "use")
  /\ UNCHANGED <<table, procs, free, other, locals, flags>>

\* ... use their page: mem = sharedmemo.shared[idx].
UseTheirs(p) ==
  /\ At(p, "use")
  /\ mem' = [mem EXCEPT ![p] = shared[key[p]]]
  /\ Goto(p, "map")
  /\ UNCHANGED <<table, procs, free, other, key, next, reg, flags>>

\* sharevm(): the first user takes a page, filled with zeros.
ShareVmFirst(p) ==
  /\ At(p, "get")
  /\ ~sharedrec[p][key[p]]
  /\ recs[key[p]] = 0
  /\ \E g \in free: /\ free' = free \ {g}
                    /\ mem' = [mem EXCEPT ![p] = g]
  /\ Goto(p, "publish")
  /\ raced' = (raced \/ Meets(p, key[p]))
  /\ UNCHANGED <<table, procs, other, key, next, reg, panicked, failed, kept, lost>>

\* sharevm() out of memory: it returns, and getshared() takes no notice.
ShareVmFail(p) ==
  /\ At(p, "get")
  /\ ~sharedrec[p][key[p]]
  /\ recs[key[p]] = 0
  /\ free = {}
  /\ failed' = TRUE
  /\ Goto(p, "record")
  /\ UNCHANGED <<table, procs, free, other, locals, panicked, kept, races>>

\* sharedmemo.shared[idx] = mem
Publish(p) ==
  /\ At(p, "publish")
  /\ shared' = [shared EXCEPT ![key[p]] = mem[p]]
  /\ Goto(p, "map")
  /\ UNCHANGED <<recs, procs, free, other, locals, flags>>

\* mappages(): enter the page in the page table, allocating the part of the
\* page table when it is missing; an entry that is present is a panic.
MapPages(p) ==
  /\ At(p, "map")
  /\ pte[p][key[p]] = None
  /\ \/ /\ pgtab[p] # None
        /\ UNCHANGED <<pgtab, free>>
     \/ /\ pgtab[p] = None
        /\ \E g \in free: /\ pgtab' = [pgtab EXCEPT ![p] = g]
                          /\ free' = free \ {g}
  /\ pte' = [pte EXCEPT ![p][key[p]] = mem[p]]
  /\ Goto(p, "load")
  /\ UNCHANGED <<table, sharedrec, state, other, locals, flags>>

MapPagesRemap(p) ==
  /\ At(p, "map")
  /\ pte[p][key[p]] # None
  /\ panicked' = TRUE
  /\ UNCHANGED <<table, procs, free, other, pc, locals, failed, kept, races>>

\* No page for the page table: sharevm() frees the shared page, also when
\* others use it, and returns.
MapPagesFail(p) ==
  /\ At(p, "map")
  /\ pte[p][key[p]] = None /\ pgtab[p] = None /\ free = {}
  /\ free' = free \union {mem[p]}
  /\ failed' = TRUE
  /\ Goto(p, "record")
  /\ UNCHANGED <<table, procs, other, locals, panicked, kept, races>>

\* A store of p forgets the calls that changed the count since it was loaded.
LostBy(p) == IF recs[key[p]] = reg[p] THEN lost ELSE lost \union {key[p]}

\* sharedmemo.recs[idx]++
CountLoad(p) ==
  /\ At(p, "load")
  /\ reg' = [reg EXCEPT ![p] = recs[key[p]]]
  /\ Goto(p, "store")
  /\ UNCHANGED <<table, procs, free, other, key, next, mem, flags>>

CountStore(p) ==
  /\ At(p, "store")
  /\ recs' = [recs EXCEPT ![key[p]] = reg[p] + 1]
  /\ lost' = LostBy(p)
  /\ Goto(p, "record")
  /\ UNCHANGED <<shared, procs, free, other, locals, panicked, failed, kept, raced>>

\* Back in getshared(): curproc->sharedrec[idx] = 's'.
Record(p) ==
  /\ At(p, "record")
  /\ sharedrec' = [sharedrec EXCEPT ![p][key[p]] = TRUE]
  /\ Return(p)
  /\ UNCHANGED <<table, pte, pgtab, state, free, other, flags>>

-----------------------------------------------------------------------------
\* Mutant: the record is kept, so that a key can be released twice.
ReleaseSharedTwice(p, k) ==
  /\ MayCall(p)
  /\ sharedrec[p][k]
  /\ key' = [key EXCEPT ![p] = k]
  /\ Goto(p, "deshare")
  /\ UNCHANGED <<table, procs, free, other, next, mem, reg, flags>>

\* releaseshared(k): forget the key; the page stays mapped.
ReleaseShared(p, k) ==
  /\ MayCall(p)
  /\ sharedrec[p][k]
  /\ sharedrec' = [sharedrec EXCEPT ![p][k] = FALSE]
  /\ kept' = kept \union {<<p, k>>}
  /\ key' = [key EXCEPT ![p] = k]
  /\ Goto(p, "deshare")
  /\ UNCHANGED <<table, pte, pgtab, state, free, other, next, mem, reg, panicked, failed, races>>

\* desharevm(): give up when there are no users, else take one off.
DeshareVm(p) ==
  /\ At(p, "deshare")
  /\ recs[key[p]] > 0
  /\ reg' = [reg EXCEPT ![p] = recs[key[p]]]
  /\ Goto(p, "drop")
  /\ UNCHANGED <<table, procs, free, other, key, next, mem, flags>>

DeshareVmNone(p) ==
  /\ At(p, "deshare")
  /\ recs[key[p]] = 0
  /\ Return(p)
  /\ UNCHANGED <<table, procs, free, other, flags>>

\* sharedmemo.recs[idx]--
DropStore(p) ==
  /\ At(p, "drop")
  /\ recs' = [recs EXCEPT ![key[p]] = reg[p] - 1]
  /\ lost' = LostBy(p)
  /\ IF reg[p] = 1
     THEN /\ Goto(p, "free")
          /\ raced' = (raced \/ Meets(p, key[p]) \/ key[p] \in lost')
          /\ UNCHANGED locals
     ELSE Return(p) /\ UNCHANGED raced
  /\ UNCHANGED <<shared, procs, free, other, panicked, failed, kept>>

\* The last user frees the page.
DropLast(p) ==
  /\ At(p, "free")
  /\ free' = free \union {shared[key[p]]}
  /\ Return(p)
  /\ UNCHANGED <<table, procs, other, flags>>

-----------------------------------------------------------------------------
Get(p) == \/ \E k \in Keys: GetSharem(p, k)
          \/ GetShared(p) \/ ShareVm(p) \/ UseTheirs(p)
          \/ ShareVmFirst(p) \/ ShareVmFail(p)
          \/ Publish(p) \/ MapPages(p) \/ MapPagesRemap(p) \/ MapPagesFail(p)
          \/ CountLoad(p) \/ CountStore(p) \/ Record(p)

Release(p) == \/ \E k \in Keys: ReleaseShared(p, k)
              \/ DeshareVm(p) \/ DeshareVmNone(p)
              \/ DropStore(p) \/ DropLast(p)

Life(p) == Exit(p) \/ Wait(p) \/ Exec(p) \/ \E q \in Slots: Fork(p, q)

Next == \/ KallocOther \/ KfreeOther
        \/ \E p \in Slots: Get(p) \/ Release(p) \/ Life(p)

Spec == Init /\ [][Next]_vars

-----------------------------------------------------------------------------
(***************************************************************************)
(* The type invariant.  recs is unsigned: the test in desharevm() keeps it *)
(* from passing below zero, also for a key recorded without a page, and a  *)
(* page that is freed was published.                                       *)
(***************************************************************************)
TypeOK ==
  /\ shared \in [Keys -> Pages \union {None}]
  /\ recs \in [Keys -> Nat]
  /\ sharedrec \in [Slots -> [Keys -> BOOLEAN]]
  /\ pte \in [Slots -> [Keys -> Pages \union {None}]]
  /\ pgtab \in [Slots -> Pages \union {None}]
  /\ state \in [Slots -> {"unused", "live", "zombie"}]
  /\ free \subseteq Pages /\ other \subseteq Pages
  /\ pc \in [Slots -> Places]
  /\ key \in [Slots -> Keys \union {None}]
  /\ next \in [Slots -> Keys \union {None}]
  /\ mem \in [Slots -> Pages \union {None}] /\ reg \in [Slots -> Nat]
  /\ panicked \in BOOLEAN /\ failed \in BOOLEAN /\ kept \subseteq Slots \X Keys
  /\ lost \subseteq Keys /\ raced \in BOOLEAN

\* p uses key k: it is recorded, and there is a page behind its address.
Holds(p, k) == state[p] # "unused" /\ sharedrec[p][k] /\ pte[p][k] # None

(***************************************************************************)
(* getshared() gives a key the same page in every process that uses it,    *)
(* and the page is not free and not in use for anything else while one of  *)
(* them has not released it, however calls overlap, until                  *)
(*   - sharevm() runs out of memory: when mappages() fails it frees the    *)
(*     page of a key that others use; or                                   *)
(*   - raced: sharevm() finds no user of a key that another call is getting*)
(*     or giving up, or desharevm() takes the last user off a key that     *)
(*     another call is getting, or whose count lost an update.             *)
(***************************************************************************)
HoldersShare ==
  \A p \in Slots, k \in Keys: Holds(p, k) /\ ~failed /\ ~raced =>
     /\ pte[p][k] = shared[k]
     /\ shared[k] \notin free \union other
     /\ \A q \in Slots: pgtab[q] # shared[k]
     /\ \A j \in Keys: j # k /\ recs[j] > 0 => shared[j] # shared[k]

(***************************************************************************)
(* The count of a key is at least the number of processes that have it     *)
(* recorded, so that releaseshared() cannot free it early, as long as no   *)
(* update of it was lost (and none of the cases of HoldersShare arose).    *)
(***************************************************************************)
CountCoversRecords ==
  ~failed /\ ~raced =>
     \A k \in Keys \ lost: recs[k] >= Cardinality({p \in Slots : sharedrec[p][k]})

(***************************************************************************)
(* mappages() panics with "remap" only when a process gets a key again     *)
(* that it released before: releaseshared() leaves the page mapped, while  *)
(* fork(), exec(), exit() and the reuse of a slot leave no page mapped     *)
(* that is not recorded.                                                   *)
(***************************************************************************)
OnlyReleasedRemap == panicked => \E p \in Slots: <<p, key[p]>> \in kept

(***************************************************************************)
(* The table sharedmemo of vm.c: recs is unsigned and never passes below   *)
(* zero, and covers the records of the processes.                          *)
(***************************************************************************)
ShareInv == TypeOK /\ CountCoversRecords /\ OnlyReleasedRemap
=============================================================================
