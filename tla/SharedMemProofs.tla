--------------------------- MODULE SharedMemProofs ---------------------------
(***************************************************************************)
(* Proofs about SharedMem, for any number of processes, keys and pages,    *)
(* however their calls overlap.                                            *)
(*                                                                         *)
(* RemapInv speaks of each process alone: what is mapped is recorded,      *)
(* released or about to be recorded; and what is freed was published.      *)
(*                                                                         *)
(* IInv adds what holds until memory runs out or calls have raced.  A page *)
(* is freed when recs reaches zero, so CountInv says that recs covers the  *)
(* processes that have the key recorded and the calls that are about to    *)
(* record or to drop it, or else, when an update of it was lost, that it   *)
(* is not zero while there are any.  AloneInv: where recs is zero, one     *)
(* call at a time is under way.  PageInv keeps apart what kalloc() has     *)
(* given out, and HoldInv ties the page tables to the table of keys.       *)
(***************************************************************************)
EXTENDS SharedMem, FiniteSetTheorems, TLAPS

-----------------------------------------------------------------------------
(* What holds throughout.                                                  *)

(***************************************************************************)
(* A process in one of these calls is live and has a key; past the test of *)
(* getshared(), and in releaseshared(), that key is not recorded.          *)
(***************************************************************************)
CallInv ==
  \A p \in Slots :
    /\ pc[p] = "user" => next[p] = None
    /\ pc[p] # "user" => state[p] = "live" /\ key[p] \in Keys
    /\ pc[p] \notin {"user", "get"} => ~sharedrec[p][key[p]]

(***************************************************************************)
(* A call has a page where it is to enter or to free one, and where it is  *)
(* to take a user off the key there was one.                               *)
(***************************************************************************)
Known ==
  /\ \A k \in Keys : recs[k] > 0 => shared[k] \in Pages
  /\ \A p \in Slots :
       /\ pc[p] \in {"publish", "map", "load", "store"} => mem[p] \in Pages
       /\ pc[p] \in {"use", "map", "load", "store", "drop", "free"}
            => shared[key[p]] \in Pages
       /\ pc[p] = "drop" => reg[p] > 0

\* What is mapped is recorded, was released, or is about to be recorded.
MapInv ==
  \A p \in Slots, k \in Keys :
    pte[p][k] # None =>
      /\ state[p] # "unused"
      /\ \/ sharedrec[p][k]
         \/ <<p, k>> \in kept
         \/ pc[p] \in {"load", "store", "record"} /\ key[p] = k

RemapInv ==
  /\ TypeOK
  /\ CallInv
  /\ Known
  /\ MapInv
  /\ OnlyReleasedRemap

\* The end of a call keeps the types.
LEMMA ReturnType ==
  ASSUME TypeOK, NEW p \in Slots, Return(p)
  PROVE  /\ key' \in [Slots -> Keys \union {None}]
         /\ next' \in [Slots -> Keys \union {None}]
         /\ mem' \in [Slots -> Pages \union {None}]
         /\ reg' \in [Slots -> Nat]
         /\ pc' \in [Slots -> Places]
BY DEF Return, TypeOK, Goto, Places

\* Every step keeps the types.
LEMMA TypeStep == TypeOK /\ CallInv /\ Known /\ [Next]_vars => TypeOK'
<1> SUFFICES ASSUME TypeOK, CallInv, Known, [Next]_vars PROVE TypeOK'
  OBVIOUS
<1> USE SharedAssumption
        DEF TypeOK, CallInv, table, procs, locals, flags, races, At, MayCall, Goto, Places
<1>1. CASE UNCHANGED vars BY <1>1 DEF vars
<1>2. CASE KallocOther BY <1>2 DEF KallocOther
<1>3. CASE KfreeOther BY <1>3 DEF KfreeOther
<1>4. ASSUME NEW p \in Slots, Get(p) PROVE TypeOK'
  <2>1. ASSUME NEW k \in Keys, GetSharem(p, k) PROVE TypeOK'
    BY <2>1 DEF GetSharem
  <2>2. CASE GetShared(p) BY <2>2, ReturnType DEF GetShared
  <2>3. CASE ShareVm(p) BY <2>3 DEF ShareVm
  <2>4. CASE UseTheirs(p)
    <3>1. shared[key[p]] \in Pages BY <2>4 DEF UseTheirs, Known
    <3> QED BY <2>4, <3>1 DEF UseTheirs
  <2>5. CASE ShareVmFirst(p)
    <3>1. raced' \in BOOLEAN BY <2>5 DEF ShareVmFirst, Meets
    <3>2. free' \subseteq Pages /\ mem' \in [Slots -> Pages \union {None}]
      BY <2>5 DEF ShareVmFirst
    <3>3. pc' \in [Slots -> Places] BY <2>5 DEF ShareVmFirst
    <3>4. UNCHANGED <<table, procs, other, key, next, reg, panicked, failed, kept, lost>>
      BY <2>5 DEF ShareVmFirst
    <3> QED BY <3>1, <3>2, <3>3, <3>4
  <2>6. CASE ShareVmFail(p) BY <2>6 DEF ShareVmFail
  <2>7. CASE Publish(p) BY <2>7 DEF Publish
  <2>8. CASE MapPages(p)
    <3>1. pte' \in [Slots -> [Keys -> Pages \union {None}]] BY <2>8 DEF MapPages
    <3>2. pgtab' \in [Slots -> Pages \union {None}] /\ free' \subseteq free
      <4>1. CASE UNCHANGED <<pgtab, free>> BY <4>1
      <4>2. ASSUME NEW g \in free, pgtab' = [pgtab EXCEPT ![p] = g], free' = free \ {g}
            PROVE  pgtab' \in [Slots -> Pages \union {None}] /\ free' \subseteq free
        BY <4>2
      <4> QED BY <2>8, <4>1, <4>2 DEF MapPages
    <3> QED BY <2>8, <3>1, <3>2 DEF MapPages
  <2>9. CASE MapPagesRemap(p) BY <2>9 DEF MapPagesRemap
  <2>10. CASE MapPagesFail(p)
    <3>1. mem[p] \in Pages BY <2>10 DEF MapPagesFail, Known
    <3> QED BY <2>10, <3>1 DEF MapPagesFail
  <2>11. CASE CountLoad(p) BY <2>11 DEF CountLoad
  <2>12. CASE CountStore(p)
    <3>1. key[p] \in Keys BY <2>12 DEF CountStore
    <3>2. lost' \subseteq Keys BY <2>12, <3>1 DEF CountStore, LostBy
    <3>3. recs' \in [Keys -> Nat] BY <2>12, <3>1 DEF CountStore
    <3> QED BY <2>12, <3>2, <3>3 DEF CountStore
  <2>13. CASE Record(p)
    <3>1. sharedrec' \in [Slots -> [Keys -> BOOLEAN]] BY <2>13 DEF Record
    <3> QED BY <2>13, <3>1, ReturnType DEF Record
  <2> QED BY <1>4, <2>1, <2>2, <2>3, <2>4, <2>5, <2>6, <2>7, <2>8, <2>9,
             <2>10, <2>11, <2>12, <2>13 DEF Get
<1>5. ASSUME NEW p \in Slots, Release(p) PROVE TypeOK'
  <2>1. ASSUME NEW k \in Keys, ReleaseShared(p, k) PROVE TypeOK'
    <3>1. sharedrec' \in [Slots -> [Keys -> BOOLEAN]] BY <2>1 DEF ReleaseShared
    <3>2. kept' \subseteq Slots \X Keys BY <2>1 DEF ReleaseShared
    <3> QED BY <2>1, <3>1, <3>2 DEF ReleaseShared
  <2>2. CASE DeshareVm(p) BY <2>2 DEF DeshareVm
  <2>3. CASE DeshareVmNone(p) BY <2>3, ReturnType DEF DeshareVmNone
  <2>4. CASE DropStore(p)
    <3>1. key[p] \in Keys /\ reg[p] \in Nat /\ reg[p] > 0 BY <2>4 DEF DropStore, Known
    <3>2. lost' \subseteq Keys BY <2>4, <3>1 DEF DropStore, LostBy
    <3>3. recs' \in [Keys -> Nat] BY <2>4, <3>1 DEF DropStore
    <3>4. CASE reg[p] = 1
      <4>1. raced' \in BOOLEAN BY <2>4, <3>4 DEF DropStore, Meets
      <4> QED BY <2>4, <3>2, <3>3, <3>4, <4>1 DEF DropStore
    <3>5. CASE reg[p] # 1
      BY <2>4, <3>2, <3>3, <3>5, ReturnType DEF DropStore
    <3> QED BY <3>4, <3>5
  <2>5. CASE DropLast(p)
    <3>1. shared[key[p]] \in Pages BY <2>5 DEF DropLast, Known
    <3> QED BY <2>5, <3>1, ReturnType DEF DropLast
  <2> QED BY <1>5, <2>1, <2>2, <2>3, <2>4, <2>5 DEF Release
<1>6. ASSUME NEW p \in Slots, Life(p) PROVE TypeOK'
  <2>1. CASE Exit(p) BY <2>1 DEF Exit
  <2>f. ASSUME FreeVm(p)
        PROVE  /\ pte' \in [Slots -> [Keys -> Pages \union {None}]]
               /\ pgtab' \in [Slots -> Pages \union {None}]
               /\ free' \subseteq Pages
               /\ kept' \subseteq Slots \X Keys
    BY <2>f DEF FreeVm
  <2>2. CASE Wait(p) BY <2>2, <2>f DEF Wait
  <2>3. CASE Exec(p) BY <2>3, <2>f DEF Exec
  <2>4. ASSUME NEW q \in Slots, Fork(p, q) PROVE TypeOK'
    <3>1. [k \in Keys |-> k = 0 /\ sharedrec[q][0]] \in [Keys -> BOOLEAN]
      OBVIOUS
    <3>2. sharedrec' = [sharedrec EXCEPT ![q] = [k \in Keys |-> k = 0 /\ sharedrec[q][0]]]
      BY <2>4 DEF Fork
    <3>3. sharedrec' \in [Slots -> [Keys -> BOOLEAN]] BY <3>1, <3>2
    <3> QED BY <2>4, <3>3 DEF Fork
  <2> QED BY <1>6, <2>1, <2>2, <2>3, <2>4 DEF Life
<1> QED BY <1>1, <1>2, <1>3, <1>4, <1>5, <1>6 DEF Next

(***************************************************************************)
(* Every step keeps a process in these calls live, and its key unrecorded. *)
(***************************************************************************)
LEMMA CallStep == TypeOK /\ CallInv /\ [Next]_vars => CallInv'
<1> SUFFICES ASSUME TypeOK, CallInv, [Next]_vars PROVE CallInv'
  OBVIOUS
<1> USE SharedAssumption DEF TypeOK, At, MayCall, Goto
<1>u. ASSUME UNCHANGED <<pc, next, state, key, sharedrec>> PROVE CallInv'
  BY <1>u DEF CallInv
\* The end of a call, with or without a record.
<1>r. ASSUME NEW p \in Slots, Return(p), pc[p] # "user", state' = state,
             \A q \in Slots \ {p} : sharedrec'[q] = sharedrec[q]
      PROVE  CallInv'
  <2>1. \A q \in Slots \ {p} : /\ pc'[q] = pc[q] /\ next'[q] = next[q]
                               /\ key'[q] = key[q]
    BY <1>r DEF Return
  <2>2. /\ next'[p] = None /\ key'[p] = next[p]
        /\ pc'[p] = IF next[p] = None THEN "user" ELSE "get"
    BY <1>r DEF Return
  <2> QED BY <1>r, <2>1, <2>2 DEF CallInv
\* A process in a call goes on to another place, past the test of the record.
<1>m. ASSUME NEW p \in Slots, NEW l, pc[p] # "user", ~sharedrec[p][key[p]],
             l # "user", pc' = [pc EXCEPT ![p] = l],
             UNCHANGED <<next, state, key, sharedrec>>
      PROVE  CallInv'
  BY <1>m DEF CallInv
<1>1. CASE UNCHANGED vars BY <1>1, <1>u DEF vars
<1>2. CASE KallocOther BY <1>2, <1>u DEF KallocOther, procs, locals
<1>3. CASE KfreeOther BY <1>3, <1>u DEF KfreeOther, procs, locals
<1>4. ASSUME NEW p \in Slots, Get(p) PROVE CallInv'
  <2>1. ASSUME NEW k \in Keys, GetSharem(p, k) PROVE CallInv'
    BY <2>1 DEF GetSharem, CallInv, procs
  <2>2. CASE GetShared(p) BY <2>2, <1>r DEF GetShared, procs
  <2>3. CASE ShareVm(p) \/ ShareVmFirst(p) \/ ShareVmFail(p)
    <3>1. /\ pc[p] = "get" /\ ~sharedrec[p][key[p]]
          /\ UNCHANGED <<next, state, key, sharedrec>>
      BY <2>3 DEF ShareVm, ShareVmFirst, ShareVmFail, procs, locals
    <3>2. \E l \in {"use", "publish", "record"} : pc' = [pc EXCEPT ![p] = l]
      BY <2>3 DEF ShareVm, ShareVmFirst, ShareVmFail
    <3> QED BY <1>m, <3>1, <3>2
  <2>4. CASE \/ UseTheirs(p) \/ Publish(p) \/ MapPages(p) \/ MapPagesFail(p)
             \/ CountLoad(p) \/ CountStore(p)
    <3>1. /\ pc[p] \in {"use", "publish", "map", "load", "store"}
          /\ UNCHANGED <<next, state, key, sharedrec>>
      BY <2>4 DEF UseTheirs, Publish, MapPages, MapPagesFail, CountLoad, CountStore, procs,
                  locals
    <3>2. \E l \in {"map", "load", "record", "store"} : pc' = [pc EXCEPT ![p] = l]
      BY <2>4 DEF UseTheirs, Publish, MapPages, MapPagesFail, CountLoad, CountStore
    <3>3. ~sharedrec[p][key[p]] BY <3>1 DEF CallInv
    <3> QED BY <1>m, <3>1, <3>2, <3>3
  <2>5. CASE MapPagesRemap(p) BY <2>5, <1>u DEF MapPagesRemap, procs, locals
  <2>6. CASE Record(p)
    <3>1. /\ pc[p] = "record" /\ Return(p) /\ state' = state
          /\ \A q \in Slots \ {p} : sharedrec'[q] = sharedrec[q]
      BY <2>6 DEF Record
    <3> QED BY <1>r, <3>1
  <2> QED BY <1>4, <2>1, <2>2, <2>3, <2>4, <2>5, <2>6 DEF Get
<1>5. ASSUME NEW p \in Slots, Release(p) PROVE CallInv'
  <2>1. ASSUME NEW k \in Keys, ReleaseShared(p, k) PROVE CallInv'
    <3>1. /\ pc' = [pc EXCEPT ![p] = "deshare"]
          /\ key' = [key EXCEPT ![p] = k]
          /\ sharedrec' = [sharedrec EXCEPT ![p][k] = FALSE]
          /\ state[p] = "live" /\ UNCHANGED <<next, state>>
      BY <2>1 DEF ReleaseShared
    <3>2. \A q \in Slots \ {p} : /\ pc'[q] = pc[q] /\ key'[q] = key[q]
                                 /\ sharedrec'[q] = sharedrec[q]
      BY <3>1
    <3>3. pc'[p] = "deshare" /\ key'[p] = k /\ ~sharedrec'[p][k]
      BY <3>1
    <3> QED BY <3>1, <3>2, <3>3 DEF CallInv
  <2>2. CASE DeshareVm(p)
    <3>1. /\ pc[p] = "deshare" /\ pc' = [pc EXCEPT ![p] = "drop"]
          /\ UNCHANGED <<next, state, key, sharedrec>>
      BY <2>2 DEF DeshareVm, procs
    <3>2. ~sharedrec[p][key[p]] BY <3>1 DEF CallInv
    <3> QED BY <1>m, <3>1, <3>2
  <2>3. CASE DeshareVmNone(p) \/ DropLast(p)
    <3>1. /\ pc[p] \in {"deshare", "free"} /\ Return(p)
          /\ UNCHANGED <<state, sharedrec>>
      BY <2>3 DEF DeshareVmNone, DropLast, procs
    <3> QED BY <1>r, <3>1
  <2>4. CASE DropStore(p)
    <3>1. pc[p] = "drop" /\ UNCHANGED <<state, sharedrec>>
      BY <2>4 DEF DropStore, procs
    <3>2. CASE reg[p] = 1
      <4>1. pc' = [pc EXCEPT ![p] = "free"] /\ UNCHANGED <<next, key>>
        BY <2>4, <3>2 DEF DropStore, locals
      <4>2. ~sharedrec[p][key[p]] BY <3>1 DEF CallInv
      <4> QED BY <1>m, <3>1, <4>1, <4>2
    <3>3. CASE reg[p] # 1
      <4>1. Return(p) BY <2>4, <3>3 DEF DropStore
      <4> QED BY <1>r, <3>1, <4>1
    <3> QED BY <3>2, <3>3
  <2> QED BY <1>5, <2>1, <2>2, <2>3, <2>4 DEF Release
<1>6. ASSUME NEW p \in Slots, Life(p) PROVE CallInv'
  <2>1. CASE Exit(p) BY <2>1 DEF Exit, CallInv, locals
  <2>2. CASE Wait(p) BY <2>2 DEF Wait, CallInv, locals
  <2>3. CASE Exec(p) BY <2>3, <1>u DEF Exec, locals
  <2>4. ASSUME NEW q \in Slots, Fork(p, q) PROVE CallInv'
    <3>1. /\ state[q] = "unused" /\ state' = [state EXCEPT ![q] = "live"]
          /\ \A r \in Slots \ {q} : sharedrec'[r] = sharedrec[r]
          /\ UNCHANGED <<pc, key, next>>
      BY <2>4 DEF Fork, locals
    <3>2. pc[q] = "user" BY <3>1 DEF CallInv
    <3> QED BY <3>1, <3>2 DEF CallInv
  <2> QED BY <1>6, <2>1, <2>2, <2>3, <2>4 DEF Life
<1> QED BY <1>1, <1>2, <1>3, <1>4, <1>5, <1>6 DEF Next

\* A call changes the places and locals of its process only.
LEMMA OthersStay ==
  ASSUME TypeOK, NEW p \in Slots, Get(p) \/ Release(p)
  PROVE  \A q \in Slots \ {p} : /\ pc'[q] = pc[q] /\ key'[q] = key[q]
                               /\ mem'[q] = mem[q] /\ reg'[q] = reg[q]
<1> USE DEF TypeOK, Goto, locals
<1>r. Return(p) => \A q \in Slots \ {p} : /\ pc'[q] = pc[q] /\ key'[q] = key[q]
                                          /\ mem'[q] = mem[q] /\ reg'[q] = reg[q]
  BY DEF Return
<1>1. ASSUME NEW k \in Keys, GetSharem(p, k) \/ ReleaseShared(p, k)
      PROVE  \A q \in Slots \ {p} : /\ pc'[q] = pc[q] /\ key'[q] = key[q]
                                   /\ mem'[q] = mem[q] /\ reg'[q] = reg[q]
  BY <1>1 DEF GetSharem, ReleaseShared
<1>2. CASE GetShared(p) \/ Record(p) \/ DeshareVmNone(p) \/ DropLast(p)
  BY <1>2, <1>r DEF GetShared, Record, DeshareVmNone, DropLast
<1>3. CASE ShareVm(p) \/ UseTheirs(p) \/ ShareVmFirst(p) \/ ShareVmFail(p) \/ Publish(p)
  BY <1>3 DEF ShareVm, UseTheirs, ShareVmFirst, ShareVmFail, Publish
<1>4. CASE MapPages(p) \/ MapPagesRemap(p) \/ MapPagesFail(p) \/ CountLoad(p) \/ CountStore(p)
  BY <1>4 DEF MapPages, MapPagesRemap, MapPagesFail, CountLoad, CountStore
<1>5. CASE DeshareVm(p) BY <1>5 DEF DeshareVm
<1>6. CASE DropStore(p)
  <2>1. CASE reg[p] = 1 BY <1>6, <2>1 DEF DropStore
  <2>2. CASE reg[p] # 1 BY <1>6, <2>2, <1>r DEF DropStore
  <2> QED BY <2>1, <2>2
<1> QED BY <1>1, <1>2, <1>3, <1>4, <1>5, <1>6 DEF Get, Release

\* Every step keeps what a call knows of its pages.
LEMMA KnownStep == TypeOK /\ CallInv /\ Known /\ [Next]_vars => Known'
<1> SUFFICES ASSUME TypeOK, CallInv, Known, [Next]_vars PROVE Known'
  OBVIOUS
<1> USE DEF At, MayCall, Goto
<1>t. /\ recs \in [Keys -> Nat] /\ reg \in [Slots -> Nat] /\ pc \in [Slots -> Places]
      /\ shared \in [Keys -> Pages \union {None}] /\ free \subseteq Pages
      /\ mem \in [Slots -> Pages \union {None}] /\ key \in [Slots -> Keys \union {None}]
  BY DEF TypeOK
<1> DEFINE Fits(q) ==
      /\ pc'[q] \in {"publish", "map", "load", "store"} => mem'[q] \in Pages
      /\ pc'[q] \in {"use", "map", "load", "store", "drop", "free"}
           => shared'[key'[q]] \in Pages
      /\ pc'[q] = "drop" => reg'[q] > 0
<1>u. ASSUME UNCHANGED <<shared, recs, pc, key, mem, reg>> PROVE Known'
  BY <1>u DEF Known
\* A call goes on.
<1>m. ASSUME NEW p \in Slots, Get(p) \/ Release(p), Fits(p),
             \A k \in Keys : shared[k] \in Pages => shared'[k] \in Pages,
             \A k \in Keys : recs'[k] > 0 => shared[k] \in Pages
      PROVE  Known'
  <2>1. ASSUME NEW q \in Slots PROVE Fits(q)
    <3>1. CASE q = p BY <1>m, <3>1
    <3>2. CASE q # p
      <4>1. /\ pc'[q] = pc[q] /\ key'[q] = key[q] /\ mem'[q] = mem[q] /\ reg'[q] = reg[q]
        BY <1>m, <3>2, OthersStay
      <4>2. pc[q] # "user" => key[q] \in Keys BY DEF CallInv
      <4> QED BY <1>m, <4>1, <4>2 DEF Known
    <3> QED BY <3>1, <3>2
  <2> QED BY <1>m, <2>1 DEF Known
<1>s. ASSUME NEW p \in Slots, Get(p) \/ Release(p), Fits(p), UNCHANGED table
      PROVE  Known'
  BY <1>s, <1>m DEF Known, table
\* It ends.
<1>r. ASSUME NEW p \in Slots, Return(p) PROVE Fits(p)
  <2>1. pc'[p] \in {"user", "get"} BY <1>r, <1>t DEF Return
  <2> QED BY <2>1
<1>1. CASE UNCHANGED vars BY <1>1, <1>u DEF vars
<1>2. CASE KallocOther \/ KfreeOther
  BY <1>2, <1>u DEF KallocOther, KfreeOther, table, locals
<1>3. ASSUME NEW p \in Slots, Life(p) PROVE Known'
  BY <1>3, <1>u DEF Life, Exit, Wait, Exec, Fork, table, locals
<1>4. ASSUME NEW p \in Slots, Get(p) PROVE Known'
  <2>1. ASSUME NEW k \in Keys, GetSharem(p, k) PROVE Known'
    <3>1. pc'[p] = "get" /\ UNCHANGED table BY <2>1, <1>t DEF GetSharem
    <3>2. Fits(p) BY <3>1
    <3> QED BY <3>1, <3>2, <1>4, <1>s
  <2>2. CASE GetShared(p) \/ Record(p)
    <3>1. Return(p) /\ UNCHANGED table BY <2>2 DEF GetShared, Record
    <3> QED BY <3>1, <1>r, <1>s, <1>4
  <2>3. CASE ShareVm(p)
    <3>1. pc[p] = "get" /\ pc'[p] = "use" /\ recs[key[p]] > 0 /\ UNCHANGED <<table, locals>>
      BY <2>3, <1>t DEF ShareVm
    <3>2. shared'[key'[p]] \in Pages BY <3>1 DEF Known, CallInv, table, locals
    <3> HIDE DEF Fits
    <3>3. Fits(p) BY <3>1, <3>2 DEF Fits
    <3> QED BY <3>1, <3>3, <1>s, <1>4
  <2>4. CASE UseTheirs(p)
    <3>1. /\ pc[p] = "use" /\ pc'[p] = "map" /\ mem'[p] = shared[key[p]]
          /\ UNCHANGED <<table, key>>
      BY <2>4, <1>t DEF UseTheirs
    <3>2. shared[key[p]] \in Pages BY <3>1 DEF Known
    <3>3. Fits(p) BY <3>1, <3>2 DEF table
    <3> QED BY <3>1, <3>3, <1>s, <1>4
  <2>5. CASE ShareVmFirst(p)
    <3>1. pc'[p] = "publish" /\ mem'[p] \in Pages /\ UNCHANGED table
      BY <2>5, <1>t DEF ShareVmFirst
    <3>2. Fits(p) BY <3>1
    <3> QED BY <3>1, <3>2, <1>s, <1>4
  <2>6. CASE ShareVmFail(p) \/ MapPagesFail(p)
    <3>1. pc'[p] = "record" /\ UNCHANGED table
      BY <2>6, <1>t DEF ShareVmFail, MapPagesFail
    <3>2. Fits(p) BY <3>1
    <3> QED BY <3>1, <3>2, <1>s, <1>4
  <2>7. CASE Publish(p)
    <3>1. PICK k \in Keys : k = key[p] /\ pc[p] = "publish"
      BY <2>7 DEF Publish, CallInv
    <3>2. /\ pc'[p] = "map" /\ shared' = [shared EXCEPT ![k] = mem[p]]
          /\ UNCHANGED <<recs, key, mem>>
      BY <2>7, <3>1, <1>t DEF Publish, locals
    <3>3. mem[p] \in Pages BY <3>1 DEF Known
    <3>4. shared'[k] = mem[p] /\ \A j \in Keys \ {k} : shared'[j] = shared[j]
      BY <3>2, <1>t
    <3>5. Fits(p) BY <3>1, <3>2, <3>3, <3>4
    <3>6. \A j \in Keys : shared[j] \in Pages => shared'[j] \in Pages BY <3>3, <3>4
    <3>7. \A j \in Keys : recs'[j] > 0 => shared[j] \in Pages BY <3>2 DEF Known
    <3> HIDE DEF Fits
    <3> QED BY <3>5, <3>6, <3>7, <1>m, <1>4
  <2>8. CASE MapPages(p) \/ CountLoad(p)
    <3>1. /\ pc[p] \in {"map", "load"} /\ pc'[p] \in {"load", "store"}
          /\ UNCHANGED <<table, key, mem>>
      BY <2>8, <1>t DEF MapPages, CountLoad, locals
    <3>2. mem[p] \in Pages /\ shared[key[p]] \in Pages BY <3>1 DEF Known
    <3>3. Fits(p) BY <3>1, <3>2 DEF table
    <3> QED BY <3>1, <3>3, <1>s, <1>4
  <2>9. CASE MapPagesRemap(p)
    BY <2>9, <1>u DEF MapPagesRemap, table, locals
  <2>10. CASE CountStore(p)
    <3>1. PICK k \in Keys : k = key[p] /\ pc[p] = "store"
      BY <2>10 DEF CountStore, CallInv
    <3>2. /\ pc'[p] = "record" /\ recs' = [recs EXCEPT ![k] = reg[p] + 1]
          /\ UNCHANGED shared
      BY <2>10, <3>1, <1>t DEF CountStore
    <3>3. shared[k] \in Pages BY <3>1 DEF Known
    <3>4. \A j \in Keys : recs'[j] > 0 => shared[j] \in Pages BY <3>2, <3>3, <1>t DEF Known
    <3>5. Fits(p) BY <3>2
    <3> QED BY <3>2, <3>4, <3>5, <1>m, <1>4
  <2> QED BY <1>4, <2>1, <2>2, <2>3, <2>4, <2>5, <2>6, <2>7, <2>8, <2>9, <2>10 DEF Get
<1>5. ASSUME NEW p \in Slots, Release(p) PROVE Known'
  <2>1. ASSUME NEW k \in Keys, ReleaseShared(p, k) PROVE Known'
    <3>1. pc'[p] = "deshare" /\ UNCHANGED table BY <2>1, <1>t DEF ReleaseShared
    <3>2. Fits(p) BY <3>1
    <3> QED BY <3>1, <3>2, <1>5, <1>s
  <2>2. CASE DeshareVmNone(p) \/ DropLast(p)
    <3>1. Return(p) /\ UNCHANGED table BY <2>2 DEF DeshareVmNone, DropLast
    <3> QED BY <3>1, <1>r, <1>s, <1>5
  <2>3. CASE DeshareVm(p)
    <3>1. PICK k \in Keys : k = key[p] /\ pc[p] = "deshare"
      BY <2>3 DEF DeshareVm, CallInv
    <3>2. /\ pc'[p] = "drop" /\ reg'[p] = recs[k] /\ recs[k] > 0 /\ UNCHANGED <<table, key>>
      BY <2>3, <3>1, <1>t DEF DeshareVm
    <3>3. shared[k] \in Pages BY <3>2 DEF Known
    <3>4. Fits(p) BY <3>1, <3>2, <3>3 DEF table
    <3> QED BY <3>2, <3>4, <1>s, <1>5
  <2>4. CASE DropStore(p)
    <3>1. PICK k \in Keys : k = key[p] /\ pc[p] = "drop"
      BY <2>4 DEF DropStore, CallInv
    <3>2. recs' = [recs EXCEPT ![k] = reg[p] - 1] /\ UNCHANGED shared
      BY <2>4, <3>1 DEF DropStore
    <3>3. shared[k] \in Pages BY <3>1 DEF Known
    <3>4. \A j \in Keys : recs'[j] > 0 => shared[j] \in Pages BY <3>2, <3>3, <1>t DEF Known
    <3>5. CASE reg[p] = 1
      <4>1. pc'[p] = "free" /\ key'[p] = k
        BY <2>4, <3>1, <3>5, <1>t DEF DropStore, locals
      <4>2. Fits(p) BY <4>1, <3>2, <3>3
      <4> QED BY <3>2, <3>4, <4>2, <1>m, <1>5
    <3>6. CASE reg[p] # 1
      <4>1. Return(p) BY <2>4, <3>6 DEF DropStore
      <4> QED BY <3>2, <3>4, <4>1, <1>r, <1>m, <1>5
    <3> QED BY <3>5, <3>6
  <2> QED BY <1>5, <2>1, <2>2, <2>3, <2>4 DEF Release
<1> QED BY <1>1, <1>2, <1>3, <1>4, <1>5 DEF Next

\* The places of a call whose key is mapped and not yet recorded.
Mapped == {"load", "store", "record"}

(***************************************************************************)
(* Every step keeps the page tables within what was recorded or released.  *)
(***************************************************************************)
LEMMA MapStep == TypeOK /\ CallInv /\ MapInv /\ [Next]_vars => MapInv'
<1> SUFFICES ASSUME TypeOK, CallInv, MapInv, [Next]_vars PROVE MapInv'
  OBVIOUS
<1> USE SharedAssumption DEF TypeOK, At, MayCall, Goto
\* Nothing is mapped, recorded or released, and no slot is freed.
<1>k. ASSUME UNCHANGED <<pte, sharedrec, kept>>,
             \A r \in Slots : state[r] # "unused" => state'[r] # "unused",
             \A r \in Slots : pc[r] \in Mapped => pc'[r] \in Mapped /\ key'[r] = key[r]
      PROVE  MapInv'
  BY <1>k DEF MapInv, Mapped
\* The same, for a step of one process.
<1>m. ASSUME NEW p \in Slots, UNCHANGED <<pte, sharedrec, kept, state>>,
             \A r \in Slots \ {p} : pc'[r] = pc[r] /\ key'[r] = key[r],
             pc[p] \in Mapped => pc'[p] \in Mapped /\ key'[p] = key[p]
      PROVE  MapInv'
  BY <1>m, <1>k
<1>r. ASSUME NEW p \in Slots, Return(p)
      PROVE  \A r \in Slots \ {p} : pc'[r] = pc[r] /\ key'[r] = key[r]
  BY <1>r DEF Return
<1>1. CASE UNCHANGED vars BY <1>1, <1>k DEF vars
<1>2. CASE KallocOther \/ KfreeOther
  BY <1>2, <1>k DEF KallocOther, KfreeOther, procs, locals, flags
<1>4. ASSUME NEW p \in Slots, Get(p) PROVE MapInv'
  <2>1. ASSUME NEW k \in Keys, GetSharem(p, k) PROVE MapInv'
    BY <2>1, <1>m DEF GetSharem, procs, flags, Mapped
  <2>2. CASE GetShared(p) BY <2>2, <1>m, <1>r DEF GetShared, procs, flags, Mapped
  <2>3. CASE \/ ShareVm(p) \/ UseTheirs(p) \/ ShareVmFirst(p) \/ ShareVmFail(p) \/ Publish(p)
             \/ MapPagesFail(p) \/ CountLoad(p) \/ CountStore(p) \/ MapPagesRemap(p)
    <3>1. /\ UNCHANGED <<pte, sharedrec, kept, state, key>>
          /\ \A r \in Slots \ {p} : pc'[r] = pc[r]
      BY <2>3 DEF ShareVm, UseTheirs, ShareVmFirst, ShareVmFail, Publish, MapPagesFail,
                  CountLoad, CountStore, MapPagesRemap, procs, locals, flags
    <3>2. pc[p] \in Mapped => pc'[p] \in Mapped
      BY <2>3 DEF ShareVm, UseTheirs, ShareVmFirst, ShareVmFail, Publish, MapPagesFail,
                  CountLoad, CountStore, MapPagesRemap, Mapped
    <3> QED BY <1>m, <3>1, <3>2
  <2>4. CASE MapPages(p)
    <3>1. PICK k \in Keys : k = key[p] /\ pc[p] = "map" /\ state[p] = "live"
      BY <2>4 DEF MapPages, CallInv
    <3>2. /\ pte' = [pte EXCEPT ![p][k] = mem[p]]
          /\ pc' = [pc EXCEPT ![p] = "load"]
          /\ UNCHANGED <<sharedrec, state, key, kept>>
      BY <2>4, <3>1 DEF MapPages, locals, flags
    <3>3. \A q \in Slots, j \in Keys :
            <<q, j>> # <<p, k>> => pte'[q][j] = pte[q][j]
      BY <3>2
    <3>4. pc'[p] \in Mapped /\ key'[p] = k /\ \A q \in Slots \ {p} : pc'[q] = pc[q]
      BY <3>1, <3>2 DEF Mapped
    <3>5. pc[p] \notin Mapped BY <3>1 DEF Mapped
    <3> QED BY <3>1, <3>2, <3>3, <3>4, <3>5 DEF MapInv, Mapped
  <2>5. CASE Record(p)
    <3>1. PICK k \in Keys : k = key[p] /\ pc[p] = "record"
      BY <2>5 DEF Record, CallInv
    <3>2. /\ sharedrec' = [sharedrec EXCEPT ![p][k] = TRUE]
          /\ UNCHANGED <<pte, state, kept>>
      BY <2>5, <3>1 DEF Record, flags
    <3>3. \A r \in Slots \ {p} : pc'[r] = pc[r] /\ key'[r] = key[r]
      BY <2>5, <1>r DEF Record
    <3>4. /\ sharedrec'[p][k]
          /\ \A q \in Slots, j \in Keys : sharedrec[q][j] => sharedrec'[q][j]
      BY <3>2
    <3> QED BY <3>1, <3>2, <3>3, <3>4 DEF MapInv
  <2> QED BY <1>4, <2>1, <2>2, <2>3, <2>4, <2>5 DEF Get
<1>5. ASSUME NEW p \in Slots, Release(p) PROVE MapInv'
  <2>1. ASSUME NEW k \in Keys, ReleaseShared(p, k) PROVE MapInv'
    <3>1. /\ pc[p] = "user" /\ sharedrec' = [sharedrec EXCEPT ![p][k] = FALSE]
          /\ kept' = kept \union {<<p, k>>} /\ UNCHANGED <<pte, state>>
          /\ \A r \in Slots \ {p} : pc'[r] = pc[r] /\ key'[r] = key[r]
      BY <2>1 DEF ReleaseShared
    <3>2. \A q \in Slots, j \in Keys :
            sharedrec[q][j] => sharedrec'[q][j] \/ <<q, j>> \in kept'
      BY <3>1
    <3>3. \A q \in Slots, j \in Keys : <<q, j>> \in kept => <<q, j>> \in kept'
      BY <3>1
    <3> QED BY <3>1, <3>2, <3>3 DEF MapInv
  <2>2. CASE DeshareVm(p)
    <3>1. /\ UNCHANGED <<pte, sharedrec, kept, state, key>>
          /\ \A r \in Slots \ {p} : pc'[r] = pc[r]
          /\ pc[p] \notin Mapped
      BY <2>2 DEF DeshareVm, procs, locals, flags, Mapped
    <3> QED BY <1>m, <3>1
  <2>3. CASE DeshareVmNone(p) \/ DropLast(p)
    <3>1. /\ UNCHANGED <<pte, sharedrec, kept, state>> /\ Return(p)
          /\ pc[p] \notin Mapped
      BY <2>3 DEF DeshareVmNone, DropLast, procs, flags, Mapped
    <3> QED BY <1>m, <1>r, <3>1
  <2>4. CASE DropStore(p)
    <3>1. /\ UNCHANGED <<pte, sharedrec, kept, state>>
          /\ pc[p] \notin Mapped
      BY <2>4 DEF DropStore, procs, Mapped
    <3>2. \A r \in Slots \ {p} : pc'[r] = pc[r] /\ key'[r] = key[r]
      BY <1>5, OthersStay
    <3> QED BY <1>m, <3>1, <3>2
  <2> QED BY <1>5, <2>1, <2>2, <2>3, <2>4 DEF Release
<1>6. ASSUME NEW p \in Slots, Life(p) PROVE MapInv'
  <2>1. CASE Exit(p)
    <3>1. /\ UNCHANGED <<pte, sharedrec, kept, pc, key>>
          /\ \A r \in Slots : state[r] # "unused" => state'[r] # "unused"
      BY <2>1 DEF Exit, locals, flags
    <3> QED BY <1>k, <3>1
  <2>2. CASE Wait(p) \/ Exec(p)
    <3>1. FreeVm(p) /\ UNCHANGED <<sharedrec, pc, key>>
      BY <2>2 DEF Wait, Exec, locals
    <3>2. /\ \A j \in Keys : pte'[p][j] = None
          /\ \A q \in Slots \ {p} : pte'[q] = pte[q]
          /\ \A q \in Slots \ {p}, j \in Keys : <<q, j>> \in kept => <<q, j>> \in kept'
      BY <3>1 DEF FreeVm
    <3>3. \A q \in Slots \ {p} : state'[q] = state[q] BY <2>2 DEF Wait, Exec
    <3> QED BY <3>1, <3>2, <3>3 DEF MapInv
  <2>3. ASSUME NEW q \in Slots, Fork(p, q) PROVE MapInv'
    <3>1. /\ state[q] = "unused" /\ state' = [state EXCEPT ![q] = "live"]
          /\ \A r \in Slots \ {q} : sharedrec'[r] = sharedrec[r]
          /\ UNCHANGED <<pte, kept, pc, key>>
      BY <2>3 DEF Fork, locals, flags
    <3>2. \A k \in Keys : pte[q][k] = None BY <3>1 DEF MapInv
    <3>3. \A r \in Slots \ {q} : state'[r] = state[r] BY <3>1
    <3> QED BY <3>1, <3>2, <3>3 DEF MapInv
  <2> QED BY <1>6, <2>1, <2>2, <2>3 DEF Life
<1> QED BY <1>1, <1>2, <1>4, <1>5, <1>6 DEF Next

\* Only a page mapped again makes the kernel panic, and then it stops.
LEMMA PanicStep ==
  TypeOK /\ CallInv /\ MapInv /\ OnlyReleasedRemap /\ [Next]_vars
    => OnlyReleasedRemap'
<1> SUFFICES ASSUME TypeOK, CallInv, MapInv, OnlyReleasedRemap, [Next]_vars
             PROVE  OnlyReleasedRemap'
  OBVIOUS
<1>1. CASE UNCHANGED vars BY <1>1 DEF vars, OnlyReleasedRemap
<1>2. CASE KallocOther \/ KfreeOther
  BY <1>2 DEF KallocOther, KfreeOther, flags, OnlyReleasedRemap
<1>3. ASSUME NEW p \in Slots, MapPagesRemap(p) PROVE OnlyReleasedRemap'
  <2>1. /\ pc[p] = "map" /\ pte[p][key[p]] # None /\ UNCHANGED <<key, kept>>
    BY <1>3 DEF MapPagesRemap, At, locals
  <2>2. key[p] \in Keys /\ ~sharedrec[p][key[p]] BY <2>1 DEF CallInv
  <2>3. <<p, key[p]>> \in kept BY <2>1, <2>2 DEF MapInv
  <2> QED BY <2>1, <2>3 DEF OnlyReleasedRemap
<1>4. ASSUME NEW p \in Slots, Get(p) PROVE OnlyReleasedRemap'
  <2>1. CASE ~MapPagesRemap(p)
    <3>1. ~panicked /\ panicked' = panicked
      BY <1>4, <2>1 DEF Get, GetSharem, GetShared, ShareVm, UseTheirs, ShareVmFirst,
           ShareVmFail, Publish, MapPages, MapPagesFail, CountLoad, CountStore,
           Record, At, MayCall, flags
    <3> QED BY <3>1 DEF OnlyReleasedRemap
  <2> QED BY <1>3, <2>1
<1>5. ASSUME NEW p \in Slots, Release(p) PROVE OnlyReleasedRemap'
  <2>1. ~panicked /\ panicked' = panicked
    BY <1>5 DEF Release, ReleaseShared, DeshareVm, DeshareVmNone,
         DropStore, DropLast, At, MayCall, flags
  <2> QED BY <2>1 DEF OnlyReleasedRemap
<1>6. ASSUME NEW p \in Slots, Life(p) PROVE OnlyReleasedRemap'
  <2>1. ~panicked /\ panicked' = panicked
    BY <1>6 DEF Life, Exit, Wait, Exec, Fork, flags
  <2> QED BY <2>1 DEF OnlyReleasedRemap
<1> QED BY <1>1, <1>2, <1>4, <1>5, <1>6 DEF Next

\* The first state satisfies RemapInv.
LEMMA RemapInit == Init => RemapInv
<1> SUFFICES ASSUME Init PROVE RemapInv
  OBVIOUS
<1> USE SharedAssumption DEF Init
<1>1. TypeOK
  <2>1. sharedrec \in [Slots -> [Keys -> BOOLEAN]] OBVIOUS
  <2>2. pte \in [Slots -> [Keys -> Pages \union {None}]] OBVIOUS
  <2>3. shared \in [Keys -> Pages \union {None}] /\ recs \in [Keys -> Nat] OBVIOUS
  <2>4. /\ pgtab \in [Slots -> Pages \union {None}] /\ mem \in [Slots -> Pages \union {None}]
        /\ key \in [Slots -> Keys \union {None}] /\ next \in [Slots -> Keys \union {None}]
        /\ reg \in [Slots -> Nat]
    OBVIOUS
  <2>5. state \in [Slots -> {"unused", "live", "zombie"}] OBVIOUS
  <2>6. pc \in [Slots -> Places] BY DEF Places
  <2> QED BY <2>1, <2>2, <2>3, <2>4, <2>5, <2>6 DEF TypeOK
<1>2. CallInv /\ Known BY DEF CallInv, Known
<1>3. MapInv BY DEF MapInv
<1> QED BY <1>1, <1>2, <1>3 DEF RemapInv, OnlyReleasedRemap

\* Every step keeps RemapInv.
LEMMA RemapStep == RemapInv /\ [Next]_vars => RemapInv'
BY TypeStep, CallStep, KnownStep, MapStep, PanicStep DEF RemapInv

\* What is said of each process alone holds also when calls overlap.
THEOREM RemapInvariance == Spec => []RemapInv
BY RemapInit, RemapStep, PTL DEF Spec

(***************************************************************************)
(* mappages() panics with "remap" only for a key that its process released *)
(* before, whatever the interleaving of calls.                             *)
(***************************************************************************)
THEOREM RemapOnlyReleased == Spec => []OnlyReleasedRemap
BY RemapInvariance, PTL DEF RemapInv

-----------------------------------------------------------------------------
(* What holds until memory runs out or calls race.                         *)

\* The call of p is past its first look at the table, for key k.
Busy(p, k) ==
  key[p] = k /\ pc[p] \in {"publish", "use", "map", "load", "store", "drop", "free"}

(***************************************************************************)
(* What a call may rely on: a key is published and freed only when it has  *)
(* no users, and the page a call maps is the page of the key.              *)
(***************************************************************************)
AtCall(p) ==
  /\ pc[p] \in {"publish", "free"} => recs[key[p]] = 0
  /\ pc[p] = "use" => recs[key[p]] > 0
  /\ pc[p] \in {"map", "load", "store"} => shared[key[p]] = mem[p]

CallsInv == \A p \in Slots : AtCall(p)

\* Where a key has no users, one call at a time is under way.
AloneInv ==
  \A k \in Keys : recs[k] = 0 =>
    \A p, q \in Slots : Busy(p, k) /\ Busy(q, k) => p = q

\* The processes that have k recorded, or will record or drop it.
Using(p, k) ==
  sharedrec[p][k] \/ (key[p] = k /\ pc[p] \in {"record", "deshare", "drop"})
Users(k) == {p \in Slots : Using(p, k)}

\* The count of a key covers its users, or is not zero while there are any.
CountInv ==
  \A k \in Keys : /\ k \notin lost => recs[k] >= Cardinality(Users(k))
                  /\ recs[k] = 0 => Users(k) = {}

\* A page of one who uses a key is the page of the key.
HoldInv ==
  \A p \in Slots, k \in Keys :
    /\ pte[p][k] # None
    /\ sharedrec[p][k] \/ (pc[p] \in Mapped /\ key[p] = k)
    => pte[p][k] = shared[k]

\* shared[k] is a page of its own, and the pages that are something else.
Used(k) == \/ recs[k] > 0
           \/ \E p \in Slots : key[p] = k /\ pc[p] \in {"map", "load", "store", "free"}
Taken(g) == g \in free \/ g \in other \/ \E q \in Slots : pgtab[q] = g

\* A page is free, in use elsewhere, one page table, behind one key or about to be.
PageInv ==
  /\ free \intersect other = {}
  /\ \A q \in Slots : pgtab[q] \notin free /\ pgtab[q] \notin other
  /\ \A q, r \in Slots : pgtab[q] # None /\ pgtab[q] = pgtab[r] => q = r
  /\ \A k \in Keys : Used(k) => ~Taken(shared[k])
  /\ \A j, k \in Keys : Used(j) /\ Used(k) /\ shared[j] = shared[k] => j = k
  /\ \A p \in Slots : pc[p] = "publish" =>
       /\ ~Taken(mem[p])
       /\ \A k \in Keys : Used(k) => shared[k] # mem[p]
       /\ \A q \in Slots : pc[q] = "publish" /\ mem[q] = mem[p] => q = p

GoodInv == CallsInv /\ AloneInv /\ CountInv /\ HoldInv /\ PageInv

IInv == RemapInv /\ (~failed /\ ~raced => GoodInv)

\* What made a page or a count doubtful is not forgotten.
LEMMA Doubts ==
  ASSUME TypeOK, [Next]_vars, ~failed', ~raced'
  PROVE  ~failed /\ ~raced
<1> USE DEF flags, races
<1>1. CASE UNCHANGED vars BY <1>1 DEF vars
<1>2. CASE KallocOther \/ KfreeOther BY <1>2 DEF KallocOther, KfreeOther
<1>3. ASSUME NEW p \in Slots, Get(p) PROVE ~failed /\ ~raced
  <2>1. CASE ShareVmFirst(p) BY <2>1 DEF ShareVmFirst
  <2>2. CASE ShareVmFail(p) \/ MapPagesFail(p) BY <2>2 DEF ShareVmFail, MapPagesFail
  <2>3. CASE CountStore(p) BY <2>3 DEF CountStore
  <2> QED BY <1>3, <2>1, <2>2, <2>3 DEF Get, GetSharem, GetShared, ShareVm, UseTheirs,
       Publish, MapPages, MapPagesRemap, CountLoad, Record
<1>4. ASSUME NEW p \in Slots, Release(p) PROVE ~failed /\ ~raced
  <2>1. CASE DropStore(p)
    <3>1. CASE reg[p] = 1 BY <2>1, <3>1 DEF DropStore
    <3>2. CASE reg[p] # 1 BY <2>1, <3>2 DEF DropStore
    <3> QED BY <3>1, <3>2
  <2> QED BY <1>4, <2>1 DEF Release, ReleaseShared, DeshareVm, DeshareVmNone, DropLast
<1>5. ASSUME NEW p \in Slots, Life(p) PROVE ~failed /\ ~raced
  BY <1>5 DEF Life, Exit, Wait, Exec, Fork
<1> QED BY <1>1, <1>2, <1>3, <1>4, <1>5 DEF Next

\* The end of a call.
LEMMA ReturnDoes ==
  ASSUME TypeOK, NEW p \in Slots, Return(p)
  PROVE  pc'[p] \in {"user", "get"}
BY DEF TypeOK, Return, Goto

(***************************************************************************)
(* The steps that write to the table.  CountStore and DropStore store what *)
(* the count is and one more or less, unless the key loses an update.      *)
(***************************************************************************)
LEMMA PublishDoes ==
  ASSUME TypeOK, CallInv, NEW p \in Slots, Publish(p)
  PROVE  \E k \in Keys :
           /\ k = key[p] /\ key'[p] = k /\ pc[p] = "publish" /\ pc'[p] = "map"
           /\ shared' = [shared EXCEPT ![k] = mem[p]]
           /\ shared'[k] = mem[p] /\ \A j \in Keys \ {k} : shared'[j] = shared[j]
           /\ UNCHANGED <<recs, procs, free, other, locals, flags>>
<1>1. PICK k \in Keys : k = key[p] /\ pc[p] = "publish"
  BY DEF Publish, At, CallInv
<1>2. /\ shared' = [shared EXCEPT ![k] = mem[p]] /\ pc'[p] = "map" /\ key' = key
      /\ UNCHANGED <<recs, procs, free, other, locals, flags>>
  BY <1>1 DEF Publish, Goto, TypeOK, locals
<1>3. shared'[k] = mem[p] /\ \A j \in Keys \ {k} : shared'[j] = shared[j]
  BY <1>2 DEF TypeOK
<1> QED BY <1>1, <1>2, <1>3

LEMMA CountStoreDoes ==
  ASSUME TypeOK, CallInv, NEW p \in Slots, CountStore(p)
  PROVE  \E k \in Keys :
           /\ k = key[p] /\ key'[p] = k /\ pc[p] = "store" /\ pc'[p] = "record"
           /\ recs'[k] \in Nat /\ recs'[k] > 0
           /\ \A j \in Keys \ {k} : recs'[j] = recs[j]
           /\ lost \subseteq lost' /\ lost' \subseteq lost \union {k}
           /\ k \notin lost' => recs'[k] = recs[k] + 1
           /\ UNCHANGED <<shared, procs, free, other, locals, panicked, failed, kept, raced>>
<1>1. PICK k \in Keys : k = key[p] /\ pc[p] = "store"
  BY DEF CountStore, At, CallInv
<1>2. /\ recs' = [recs EXCEPT ![k] = reg[p] + 1] /\ pc'[p] = "record" /\ key' = key
      /\ lost' = LostBy(p)
      /\ UNCHANGED <<shared, procs, free, other, locals, panicked, failed, kept, raced>>
  BY <1>1 DEF CountStore, Goto, TypeOK, locals
<1>3. recs'[k] = reg[p] + 1 /\ reg[p] \in Nat /\ \A j \in Keys \ {k} : recs'[j] = recs[j]
  BY <1>2 DEF TypeOK
<1>4. lost \subseteq lost' /\ lost' \subseteq lost \union {k} BY <1>1, <1>2 DEF LostBy
<1>5. k \notin lost' => reg[p] = recs[k] BY <1>1, <1>2 DEF LostBy
<1> QED BY <1>1, <1>2, <1>3, <1>4, <1>5

LEMMA DropStoreDoes ==
  ASSUME TypeOK, CallInv, Known, NEW p \in Slots, DropStore(p), ~raced'
  PROVE  \E k \in Keys :
           /\ k = key[p] /\ pc[p] = "drop" /\ pc'[p] \in {"user", "get", "free"}
           /\ pc'[p] = "free" => key'[p] = k /\ recs'[k] = 0
           /\ recs'[k] \in Nat
           /\ \A j \in Keys \ {k} : recs'[j] = recs[j]
           /\ lost \subseteq lost' /\ lost' \subseteq lost \union {k}
           /\ k \notin lost' => recs'[k] + 1 = recs[k]
           /\ recs'[k] = 0 => k \notin lost' /\ \A q \in Slots \ {p} : ~Busy(q, k)
           /\ UNCHANGED <<shared, procs, free, other, panicked, failed, kept>>
<1>1. PICK k \in Keys : k = key[p] /\ pc[p] = "drop" /\ reg[p] > 0 /\ reg[p] \in Nat
  BY DEF DropStore, At, CallInv, Known, TypeOK
<1>2. /\ recs' = [recs EXCEPT ![k] = reg[p] - 1]
      /\ lost' = LostBy(p)
      /\ UNCHANGED <<shared, procs, free, other, panicked, failed, kept>>
  BY <1>1 DEF DropStore
<1>3. recs'[k] = reg[p] - 1 /\ \A j \in Keys \ {k} : recs'[j] = recs[j]
  BY <1>2 DEF TypeOK
<1>4. lost \subseteq lost' /\ lost' \subseteq lost \union {k} BY <1>1, <1>2 DEF LostBy
<1>5. k \notin lost' => reg[p] = recs[k] BY <1>1, <1>2 DEF LostBy
<1>6. CASE reg[p] = 1
  <2>1. pc'[p] = "free" /\ key'[p] = k
    BY <1>1, <1>6 DEF DropStore, Goto, TypeOK, locals
  <2>2. k \notin lost' /\ ~Meets(p, k) BY <1>1, <1>6 DEF DropStore
  <2>3. \A q \in Slots \ {p} : ~Busy(q, k) BY <2>2 DEF Meets, Busy
  <2> QED BY <1>1, <1>2, <1>3, <1>4, <1>5, <1>6, <2>1, <2>2, <2>3
<1>7. CASE reg[p] # 1
  <2>1. pc'[p] \in {"user", "get"} BY <1>7, ReturnDoes DEF DropStore
  <2>2. recs'[k] > 0 BY <1>1, <1>3, <1>7
  <2> QED BY <1>1, <1>2, <1>3, <1>4, <1>5, <2>1, <2>2
<1> QED BY <1>6, <1>7

\* All other steps leave it alone.
LEMMA TableStays ==
  ASSUME NEW p \in Slots, Get(p) \/ Release(p), ~Publish(p), ~CountStore(p), ~DropStore(p)
  PROVE  UNCHANGED <<table, lost>>
BY DEF Get, Release, GetSharem, GetShared, ShareVm, UseTheirs, ShareVmFirst, ShareVmFail,
       MapPages, MapPagesRemap, MapPagesFail, CountLoad, Record, ReleaseShared, DeshareVm,
       DeshareVmNone, DropLast, flags, races

\* Nor does a step outside these calls change what they know.
LEMMA OutsideStays ==
  ASSUME NEW p \in Slots, KallocOther \/ KfreeOther \/ Life(p)
  PROVE  UNCHANGED <<table, pc, locals, lost, raced, failed>>
BY DEF KallocOther, KfreeOther, Life, Exit, Wait, Exec, Fork, flags, races

(***************************************************************************)
(* Every step keeps what the calls rely on: who writes to the table for a  *)
(* key without users is alone with it, and who takes the last user off     *)
(* meets nobody.                                                           *)
(***************************************************************************)
LEMMA CallsStep ==
  ASSUME TypeOK, CallInv, Known, GoodInv, [Next]_vars, ~failed', ~raced'
  PROVE  CallsInv'
<1> USE DEF At, MayCall, Goto
<1>0. CallsInv /\ AloneInv /\ CountInv BY DEF GoodInv
<1>u. ASSUME UNCHANGED <<table, pc, key, mem>> PROVE CallsInv'
  BY <1>u, <1>0 DEF CallsInv, AtCall, table
\* A call goes on, and leaves the table alone.
<1>m. ASSUME NEW p \in Slots, Get(p) \/ Release(p), AtCall(p)', UNCHANGED table
      PROVE  CallsInv'
  <2> SUFFICES ASSUME NEW q \in Slots \ {p} PROVE AtCall(q)'
    BY <1>m DEF CallsInv
  <2>1. pc'[q] = pc[q] /\ key'[q] = key[q] /\ mem'[q] = mem[q] BY <1>m, OthersStay
  <2>2. AtCall(q) BY <1>0 DEF CallsInv
  <2> QED BY <2>1, <2>2, <1>m DEF AtCall, table
\* It writes to the table, for key k.
<1>w. ASSUME NEW p \in Slots, Get(p) \/ Release(p), NEW k \in Keys, AtCall(p)',
             \A j \in Keys \ {k} : recs'[j] = recs[j] /\ shared'[j] = shared[j],
             \/ \A q \in Slots \ {p} : ~Busy(q, k)
             \/ recs[k] # 0 /\ recs'[k] > 0 /\ shared' = shared
      PROVE  CallsInv'
  <2> SUFFICES ASSUME NEW q \in Slots \ {p} PROVE AtCall(q)'
    BY <1>w DEF CallsInv
  <2>1. pc'[q] = pc[q] /\ key'[q] = key[q] /\ mem'[q] = mem[q] BY <1>w, OthersStay
  <2>2. AtCall(q) /\ (pc[q] # "user" => key[q] \in Keys) BY <1>0 DEF CallsInv, CallInv
  <2>3. CASE key[q] # k BY <2>1, <2>2, <2>3, <1>w DEF AtCall
  <2>4. CASE key[q] = k /\ ~Busy(q, k) BY <2>1, <2>4 DEF AtCall, Busy
  <2>5. CASE key[q] = k /\ recs[k] # 0 /\ recs'[k] > 0 /\ shared' = shared
    BY <2>1, <2>2, <2>5 DEF AtCall
  <2> QED BY <2>3, <2>4, <2>5, <1>w
<1>e. ASSUME NEW p \in Slots, NEW l, pc' = [pc EXCEPT ![p] = l] PROVE pc'[p] = l
  BY <1>e DEF TypeOK
<1>1. CASE UNCHANGED vars BY <1>1, <1>u DEF vars, table
<1>2. CASE KallocOther \/ KfreeOther BY <1>2, <1>u, OutsideStays, SharedAssumption DEF locals
<1>3. ASSUME NEW p \in Slots, Get(p) PROVE CallsInv'
  <2>1. ASSUME NEW k \in Keys, GetSharem(p, k) PROVE CallsInv'
    <3>1. pc'[p] = "get" BY <2>1, <1>e DEF GetSharem
    <3>2. UNCHANGED table BY <2>1 DEF GetSharem
    <3> QED BY <1>3, <3>1, <3>2, <1>m DEF AtCall
  <2>2. CASE GetShared(p) \/ Record(p)
    <3>1. pc'[p] \in {"user", "get"} BY <2>2, ReturnDoes DEF GetShared, Record
    <3>2. UNCHANGED table BY <2>2 DEF GetShared, Record
    <3> QED BY <1>3, <3>1, <3>2, <1>m DEF AtCall
  <2>3. CASE ShareVm(p) \/ ShareVmFirst(p)
    <3>1. UNCHANGED table /\ key' = key
      BY <2>3 DEF ShareVm, ShareVmFirst, locals
    <3>2. CASE ShareVm(p)
      <4>1. pc'[p] = "use" /\ recs[key[p]] > 0 BY <3>2, <1>e DEF ShareVm
      <4>2. AtCall(p)' BY <4>1, <3>1 DEF AtCall, table
      <4> QED BY <1>3, <3>1, <4>2, <1>m
    <3>3. CASE ShareVmFirst(p)
      <4>1. pc'[p] = "publish" /\ recs[key[p]] = 0 BY <3>3, <1>e DEF ShareVmFirst
      <4>2. AtCall(p)' BY <4>1, <3>1 DEF AtCall, table
      <4> QED BY <1>3, <3>1, <4>2, <1>m
    <3> QED BY <2>3, <3>2, <3>3
  <2>4. CASE UseTheirs(p)
    <3>1. pc'[p] = "map" /\ UNCHANGED table /\ key' = key
      BY <2>4, <1>e DEF UseTheirs
    <3>2. mem'[p] = shared[key[p]] BY <2>4 DEF UseTheirs, TypeOK
    <3>3. AtCall(p)' BY <3>1, <3>2 DEF AtCall, table
    <3> QED BY <1>3, <3>1, <3>3, <1>m
  <2>5. CASE ShareVmFail(p) \/ MapPagesFail(p) BY <2>5 DEF ShareVmFail, MapPagesFail
  <2>6. CASE Publish(p)
    <3>1. PICK k \in Keys :
            /\ k = key[p] /\ key'[p] = k /\ pc[p] = "publish" /\ pc'[p] = "map"
            /\ shared'[k] = mem[p] /\ \A j \in Keys \ {k} : shared'[j] = shared[j]
            /\ UNCHANGED <<recs, procs, free, other, locals, flags>>
      BY <2>6, PublishDoes
    <3>2. recs[k] = 0 BY <3>1, <1>0 DEF CallsInv, AtCall
    <3>3. \A q \in Slots \ {p} : ~Busy(q, k)
      BY <3>1, <3>2, <1>0 DEF AloneInv, Busy
    <3>4. AtCall(p)' BY <3>1 DEF AtCall, locals
    <3> QED BY <1>3, <3>1, <3>3, <3>4, <1>w
  <2>7. CASE MapPages(p) \/ CountLoad(p)
    <3>1. /\ pc[p] \in {"map", "load"} /\ pc'[p] \in {"load", "store"}
          /\ UNCHANGED table /\ UNCHANGED <<key, mem>>
      BY <2>7, <1>e DEF MapPages, CountLoad, locals
    <3>2. AtCall(p)' BY <3>1, <1>0 DEF CallsInv, AtCall, table
    <3> QED BY <1>3, <3>1, <3>2, <1>m
  <2>8. CASE MapPagesRemap(p) BY <2>8, <1>u DEF MapPagesRemap, locals
  <2>9. CASE CountStore(p)
    <3>1. PICK k \in Keys :
            /\ k = key[p] /\ key'[p] = k /\ pc[p] = "store" /\ pc'[p] = "record"
            /\ recs'[k] > 0 /\ \A j \in Keys \ {k} : recs'[j] = recs[j]
            /\ shared' = shared
      BY <2>9, CountStoreDoes
    <3>2. recs[k] = 0 => \A q \in Slots \ {p} : ~Busy(q, k)
      BY <3>1, <1>0 DEF AloneInv, Busy
    <3>3. AtCall(p)' BY <3>1 DEF AtCall
    <3> QED BY <1>3, <3>1, <3>2, <3>3, <1>w
  <2> QED BY <1>3, <2>1, <2>2, <2>3, <2>4, <2>5, <2>6, <2>7, <2>8, <2>9 DEF Get
<1>4. ASSUME NEW p \in Slots, Release(p) PROVE CallsInv'
  <2>1. ASSUME NEW k \in Keys, ReleaseShared(p, k) PROVE CallsInv'
    <3>1. pc'[p] = "deshare" BY <2>1, <1>e DEF ReleaseShared
    <3>2. UNCHANGED table BY <2>1 DEF ReleaseShared
    <3> QED BY <1>4, <3>1, <3>2, <1>m DEF AtCall
  <2>2. CASE DeshareVm(p)
    <3>1. pc'[p] = "drop" BY <2>2, <1>e DEF DeshareVm
    <3>2. UNCHANGED table BY <2>2 DEF DeshareVm
    <3> QED BY <1>4, <3>1, <3>2, <1>m DEF AtCall
  <2>3. CASE DeshareVmNone(p) \/ DropLast(p)
    <3>1. pc'[p] \in {"user", "get"} BY <2>3, ReturnDoes DEF DeshareVmNone, DropLast
    <3>2. UNCHANGED table BY <2>3 DEF DeshareVmNone, DropLast
    <3> QED BY <1>4, <3>1, <3>2, <1>m DEF AtCall
  <2>4. CASE DropStore(p)
    <3>1. PICK k \in Keys :
            /\ k = key[p] /\ pc[p] = "drop" /\ pc'[p] \in {"user", "get", "free"}
            /\ pc'[p] = "free" => key'[p] = k /\ recs'[k] = 0
            /\ recs'[k] \in Nat /\ \A j \in Keys \ {k} : recs'[j] = recs[j]
            /\ recs'[k] = 0 => \A q \in Slots \ {p} : ~Busy(q, k)
            /\ shared' = shared
      BY <2>4, DropStoreDoes
    <3>2. p \in Users(k) BY <3>1 DEF Users, Using
    <3>3. recs[k] # 0 BY <3>2, <1>0 DEF CountInv
    <3>4. recs'[k] = 0 \/ recs'[k] > 0 BY <3>1
    <3>5. AtCall(p)' BY <3>1 DEF AtCall
    <3> QED BY <1>4, <3>1, <3>3, <3>4, <3>5, <1>w
  <2> QED BY <1>4, <2>1, <2>2, <2>3, <2>4 DEF Release
<1>5. ASSUME NEW p \in Slots, Life(p) PROVE CallsInv'
  BY <1>5, <1>u, OutsideStays DEF locals
<1> QED BY <1>1, <1>2, <1>3, <1>4, <1>5 DEF Next

(***************************************************************************)
(* Every step keeps a call alone with a key that has no users: one that    *)
(* gets such a key meets nobody, nor one that takes its last user off.     *)
(***************************************************************************)
LEMMA AloneStep ==
  ASSUME TypeOK, CallInv, Known, GoodInv, [Next]_vars, ~failed', ~raced'
  PROVE  AloneInv'
<1> USE DEF At, MayCall, Goto
<1>0. CallsInv /\ AloneInv /\ CountInv BY DEF GoodInv
<1>u. ASSUME UNCHANGED <<table, pc, key>> PROVE AloneInv'
  BY <1>u, <1>0 DEF AloneInv, Busy, table
\* A call goes on; where there are no users, it was busy or it is alone.
<1>m. ASSUME NEW p \in Slots, Get(p) \/ Release(p),
             \A k \in Keys : recs'[k] = 0 =>
               \/ recs[k] = 0 /\ (Busy(p, k)' => Busy(p, k))
               \/ \A q \in Slots \ {p} : ~Busy(q, k)
      PROVE  AloneInv'
  <2> SUFFICES ASSUME NEW k \in Keys, recs'[k] = 0, NEW q \in Slots, NEW r \in Slots,
                      Busy(q, k)', Busy(r, k)'
               PROVE  q = r
    BY DEF AloneInv
  <2>1. \A s \in Slots \ {p} : Busy(s, k)' => Busy(s, k) BY <1>m, OthersStay DEF Busy
  <2>2. CASE recs[k] = 0 /\ (Busy(p, k)' => Busy(p, k))
    <3>1. Busy(q, k) /\ Busy(r, k) BY <2>1, <2>2
    <3> QED BY <3>1, <2>2, <1>0 DEF AloneInv
  <2>3. CASE \A s \in Slots \ {p} : ~Busy(s, k) BY <2>1, <2>3
  <2> QED BY <1>m, <2>2, <2>3
<1>s. ASSUME NEW p \in Slots, Get(p) \/ Release(p), UNCHANGED table,
             \A k \in Keys : recs[k] = 0 => (Busy(p, k)' => Busy(p, k))
      PROVE  AloneInv'
  BY <1>s, <1>m DEF table
<1>e. ASSUME NEW p \in Slots, NEW l, pc' = [pc EXCEPT ![p] = l] PROVE pc'[p] = l
  BY <1>e DEF TypeOK
<1>1. CASE UNCHANGED vars BY <1>1, <1>u DEF vars, table
<1>2. CASE KallocOther \/ KfreeOther BY <1>2, <1>u, OutsideStays, SharedAssumption DEF locals
<1>3. ASSUME NEW p \in Slots, Get(p) PROVE AloneInv'
  <2>1. ASSUME NEW k \in Keys, GetSharem(p, k) PROVE AloneInv'
    <3>1. pc'[p] = "get" BY <2>1, <1>e DEF GetSharem
    <3>2. UNCHANGED table BY <2>1 DEF GetSharem
    <3> QED BY <1>3, <3>1, <3>2, <1>s DEF Busy
  <2>2. CASE GetShared(p) \/ Record(p)
    <3>1. pc'[p] \in {"user", "get"} BY <2>2, ReturnDoes DEF GetShared, Record
    <3>2. UNCHANGED table BY <2>2 DEF GetShared, Record
    <3> QED BY <1>3, <3>1, <3>2, <1>s DEF Busy
  <2>3. CASE ShareVm(p)
    <3>1. recs[key[p]] > 0 /\ UNCHANGED table /\ key' = key BY <2>3 DEF ShareVm, locals
    <3> QED BY <1>3, <3>1, <1>s DEF Busy
  <2>4. CASE ShareVmFirst(p)
    <3>1. UNCHANGED table /\ key' = key /\ ~Meets(p, key[p]) BY <2>4 DEF ShareVmFirst
    <3>2. \A q \in Slots \ {p} : ~Busy(q, key[p]) BY <3>1 DEF Meets, Busy
    <3>3. \A k \in Keys : k # key[p] => ~Busy(p, k)' BY <3>1 DEF Busy
    <3> QED BY <1>3, <3>1, <3>2, <3>3, <1>m DEF table
  <2>5. CASE ShareVmFail(p) \/ MapPagesFail(p) BY <2>5 DEF ShareVmFail, MapPagesFail
  <2>6. CASE UseTheirs(p) \/ MapPages(p) \/ CountLoad(p)
    <3>1. UNCHANGED table /\ key' = key /\ pc[p] \in {"use", "map", "load"}
      BY <2>6 DEF UseTheirs, MapPages, CountLoad, locals
    <3> QED BY <1>3, <3>1, <1>s DEF Busy
  <2>7. CASE Publish(p)
    <3>1. PICK k \in Keys : /\ k = key[p] /\ key'[p] = k /\ pc[p] = "publish"
                            /\ UNCHANGED <<recs, procs, free, other, locals, flags>>
      BY <2>7, PublishDoes
    <3> QED BY <1>3, <3>1, <1>m DEF Busy
  <2>8. CASE MapPagesRemap(p) BY <2>8, <1>u DEF MapPagesRemap, locals
  <2>9. CASE CountStore(p)
    <3>1. PICK k \in Keys :
            /\ k = key[p] /\ key'[p] = k /\ pc'[p] = "record"
            /\ recs'[k] > 0 /\ \A j \in Keys \ {k} : recs'[j] = recs[j]
      BY <2>9, CountStoreDoes
    <3> QED BY <1>3, <3>1, <1>m DEF Busy
  <2> QED BY <1>3, <2>1, <2>2, <2>3, <2>4, <2>5, <2>6, <2>7, <2>8, <2>9 DEF Get
<1>4. ASSUME NEW p \in Slots, Release(p) PROVE AloneInv'
  <2>1. ASSUME NEW k \in Keys, ReleaseShared(p, k) PROVE AloneInv'
    <3>1. pc'[p] = "deshare" BY <2>1, <1>e DEF ReleaseShared
    <3>2. UNCHANGED table BY <2>1 DEF ReleaseShared
    <3> QED BY <1>4, <3>1, <3>2, <1>s DEF Busy
  <2>2. CASE DeshareVm(p)
    <3>1. recs[key[p]] > 0 /\ UNCHANGED table /\ key' = key BY <2>2 DEF DeshareVm
    <3> QED BY <1>4, <3>1, <1>s DEF Busy
  <2>3. CASE DeshareVmNone(p) \/ DropLast(p)
    <3>1. pc'[p] \in {"user", "get"} BY <2>3, ReturnDoes DEF DeshareVmNone, DropLast
    <3>2. UNCHANGED table BY <2>3 DEF DeshareVmNone, DropLast
    <3> QED BY <1>4, <3>1, <3>2, <1>s DEF Busy
  <2>4. CASE DropStore(p)
    <3>1. PICK k \in Keys :
            /\ k = key[p] /\ pc'[p] \in {"user", "get", "free"}
            /\ pc'[p] = "free" => key'[p] = k
            /\ \A j \in Keys \ {k} : recs'[j] = recs[j]
            /\ recs'[k] = 0 => \A q \in Slots \ {p} : ~Busy(q, k)
      BY <2>4, DropStoreDoes
    <3> QED BY <1>4, <3>1, <1>m DEF Busy
  <2> QED BY <1>4, <2>1, <2>2, <2>3, <2>4 DEF Release
<1>5. ASSUME NEW p \in Slots, Life(p) PROVE AloneInv'
  BY <1>5, <1>u, OutsideStays DEF locals
<1> QED BY <1>1, <1>2, <1>3, <1>4, <1>5 DEF Next

\* The users of a key are finite in number, and any of them is counted.
LEMMA UsersFinite ==
  \A k \in Keys : IsFiniteSet(Users(k)) /\ Cardinality(Users(k)) \in Nat
BY SharedAssumption, FS_Subset, FS_CardinalityType DEF Users

LEMMA RecordedCounts ==
  ASSUME TypeOK, CountInv, NEW p \in Slots, NEW k \in Keys, sharedrec[p][k]
  PROVE  recs[k] > 0
<1>1. p \in Users(k) BY DEF Users, Using
<1> QED BY <1>1 DEF TypeOK, CountInv

(***************************************************************************)
(* Every step keeps the counts covering the users: a user is recorded      *)
(* after the count went up, and gone before the count goes down.           *)
(***************************************************************************)
LEMMA CountStep ==
  ASSUME TypeOK, CallInv, Known, GoodInv, [Next]_vars, ~failed', ~raced'
  PROVE  CountInv'
<1> USE DEF At, MayCall, Goto
<1>0. CountInv BY DEF GoodInv
\* Nobody becomes a user.
<1>k. ASSUME \A k \in Keys : Users(k)' \subseteq Users(k), UNCHANGED <<recs, lost>>
      PROVE  CountInv'
  <2> SUFFICES ASSUME NEW k \in Keys
               PROVE  /\ k \notin lost => recs[k] >= Cardinality(Users(k)')
                      /\ recs[k] = 0 => Users(k)' = {}
    BY <1>k DEF CountInv
  <2>1. /\ Cardinality(Users(k)') \in Nat
        /\ Cardinality(Users(k)') <= Cardinality(Users(k))
    BY <1>k, UsersFinite, FS_Subset, FS_CardinalityType
  <2>2. recs[k] \in Nat /\ Cardinality(Users(k)) \in Nat BY UsersFinite DEF TypeOK
  <2>3. /\ k \notin lost => recs[k] >= Cardinality(Users(k))
        /\ recs[k] = 0 => Users(k) = {}
    BY <1>0 DEF CountInv
  <2>4. k \notin lost => recs[k] >= Cardinality(Users(k)') BY <2>1, <2>2, <2>3
  <2> QED BY <2>3, <2>4, <1>k
\* A call changes what its process uses.
<1>o. ASSUME NEW p \in Slots, Get(p) \/ Release(p), NEW k \in Keys,
             \A q \in Slots \ {p} : sharedrec'[q] = sharedrec[q]
      PROVE  /\ \A q \in Slots \ {p} : q \in Users(k)' => q \in Users(k)
             /\ p \in Users(k)' <=> Using(p, k)'
  <2>1. \A q \in Slots \ {p} : Using(q, k)' => Using(q, k)
    BY <1>o, OthersStay DEF Using
  <2> QED BY <2>1 DEF Users
<1>s. ASSUME NEW p \in Slots, Get(p) \/ Release(p), UNCHANGED <<recs, lost>>,
             \A q \in Slots \ {p} : sharedrec'[q] = sharedrec[q],
             \A k \in Keys : Using(p, k)' => Using(p, k)
      PROVE  CountInv'
  <2>1. ASSUME NEW k \in Keys PROVE Users(k)' \subseteq Users(k)
    <3>1. \A q \in Slots : q \in Users(k)' => q \in Users(k)
      BY <1>s, <1>o DEF Users
    <3> QED BY <3>1 DEF Users
  <2> QED BY <2>1, <1>s, <1>k
<1>e. ASSUME NEW p \in Slots, NEW l, pc' = [pc EXCEPT ![p] = l] PROVE pc'[p] = l
  BY <1>e DEF TypeOK
<1>u. ASSUME UNCHANGED <<recs, lost, sharedrec, pc, key>> PROVE CountInv'
  BY <1>u, <1>k DEF Users, Using
<1>1. CASE UNCHANGED vars BY <1>1, <1>u DEF vars
<1>2. CASE KallocOther \/ KfreeOther
  BY <1>2, <1>u DEF KallocOther, KfreeOther, table, procs, locals, flags, races
<1>3. ASSUME NEW p \in Slots, Get(p) PROVE CountInv'
  <2>t. CASE ~Publish(p) /\ ~CountStore(p)
    <3>0. ~DropStore(p)
      BY <1>3, <2>t DEF Get, GetSharem, GetShared, ShareVm, UseTheirs, ShareVmFirst,
           ShareVmFail, MapPages, MapPagesRemap, MapPagesFail, CountLoad, Record, DropStore
    <3>t. UNCHANGED <<recs, lost>> BY <1>3, <2>t, <3>0, TableStays DEF table
    <3>1. ASSUME NEW k \in Keys, GetSharem(p, k) PROVE CountInv'
      <4>1. pc'[p] = "get" /\ sharedrec' = sharedrec
        BY <3>1, <1>e DEF GetSharem, procs
      <4> QED BY <1>3, <3>t, <4>1, <1>s DEF Using
    <3>2. CASE GetShared(p)
      <4>1. pc'[p] \in {"user", "get"} /\ sharedrec' = sharedrec
        BY <3>2, ReturnDoes DEF GetShared, procs
      <4> QED BY <1>3, <3>t, <4>1, <1>s DEF Using
    <3>3. CASE ShareVm(p) \/ ShareVmFirst(p) \/ UseTheirs(p) \/ MapPages(p) \/ CountLoad(p)
      <4>1. pc'[p] \in {"use", "publish", "map", "load", "store"} /\ sharedrec' = sharedrec
        BY <3>3, <1>e DEF ShareVm, ShareVmFirst, UseTheirs, MapPages, CountLoad, procs
      <4> QED BY <1>3, <3>t, <4>1, <1>s DEF Using
    <3>4. CASE ShareVmFail(p) \/ MapPagesFail(p) BY <3>4 DEF ShareVmFail, MapPagesFail
    <3>5. CASE MapPagesRemap(p)
      BY <3>5, <3>t, <1>u DEF MapPagesRemap, procs, locals
    <3>6. CASE Record(p)
      <4>1. /\ pc[p] = "record" /\ pc'[p] \in {"user", "get"}
            /\ sharedrec' = [sharedrec EXCEPT ![p][key[p]] = TRUE]
        BY <3>6, ReturnDoes DEF Record
      <4>2. /\ \A q \in Slots \ {p} : sharedrec'[q] = sharedrec[q]
            /\ \A k \in Keys : k # key[p] => sharedrec'[p][k] = sharedrec[p][k]
        BY <4>1 DEF TypeOK
      <4> QED BY <1>3, <3>t, <4>1, <4>2, <1>s DEF Using
    <3> QED BY <1>3, <2>t, <3>1, <3>2, <3>3, <3>4, <3>5, <3>6 DEF Get
  <2>1. CASE Publish(p)
    <3>1. PICK k \in Keys : /\ pc'[p] = "map"
                            /\ UNCHANGED <<recs, procs, free, other, locals, flags>>
      BY <2>1, PublishDoes
    <3> QED BY <1>3, <3>1, <1>s DEF Using, procs, flags, races
  <2>2. CASE CountStore(p)
    <3>1. PICK k \in Keys :
            /\ k = key[p] /\ key'[p] = k /\ pc[p] = "store" /\ pc'[p] = "record"
            /\ recs'[k] \in Nat /\ recs'[k] > 0
            /\ \A j \in Keys \ {k} : recs'[j] = recs[j]
            /\ lost \subseteq lost' /\ lost' \subseteq lost \union {k}
            /\ k \notin lost' => recs'[k] = recs[k] + 1
            /\ UNCHANGED <<shared, procs, free, other, locals, panicked, failed, kept, raced>>
      BY <2>2, CountStoreDoes
    <3>2. ASSUME NEW j \in Keys PROVE Users(j)' \subseteq Users(j) \union {p}
      <4>1. \A q \in Slots \ {p} : q \in Users(j)' => q \in Users(j)
        BY <1>3, <3>1, <1>o DEF procs
      <4> QED BY <4>1 DEF Users
    <3>3. ASSUME NEW j \in Keys, j # k PROVE Users(j)' \subseteq Users(j)
      <4>1. Using(p, j)' => Using(p, j) BY <3>1, <3>3 DEF Using, procs
      <4>2. p \in Users(j)' => p \in Users(j) BY <4>1 DEF Users
      <4> QED BY <3>2, <4>2
    <3>4. ASSUME NEW j \in Keys
          PROVE  /\ j \notin lost' => recs'[j] >= Cardinality(Users(j)')
                 /\ recs'[j] = 0 => Users(j)' = {}
      <4>1. CASE j # k
        <5>1. /\ Cardinality(Users(j)') \in Nat
              /\ Cardinality(Users(j)') <= Cardinality(Users(j))
          BY <4>1, <3>3, UsersFinite, FS_Subset, FS_CardinalityType
        <5>2. /\ recs'[j] = recs[j] /\ (j \notin lost' => j \notin lost)
              /\ recs[j] \in Nat /\ Cardinality(Users(j)) \in Nat
          BY <4>1, <3>1, UsersFinite DEF TypeOK
        <5>3. /\ j \notin lost => recs[j] >= Cardinality(Users(j))
              /\ recs[j] = 0 => Users(j) = {}
          BY <1>0 DEF CountInv
        <5>4. recs'[j] = 0 => Users(j)' = {} BY <4>1, <5>2, <5>3, <3>3
        <5>5. j \notin lost' => recs'[j] >= Cardinality(Users(j)') BY <5>1, <5>2, <5>3
        <5> QED BY <5>4, <5>5
      <4>2. CASE j = k
        <5>0. IsFiniteSet(Users(k)) /\ Cardinality(Users(k)) \in Nat BY UsersFinite
        <5>1. /\ IsFiniteSet(Users(k) \union {p})
              /\ \/ Cardinality(Users(k) \union {p}) = Cardinality(Users(k))
                 \/ Cardinality(Users(k) \union {p}) = Cardinality(Users(k)) + 1
          BY <5>0, FS_AddElement, Zenon
        <5>2. /\ Cardinality(Users(k)') <= Cardinality(Users(k) \union {p})
              /\ IsFiniteSet(Users(k)')
          BY <5>1, <3>2, FS_Subset
        <5>3. Cardinality(Users(k)') \in Nat /\ Cardinality(Users(k) \union {p}) \in Nat
          BY <5>1, <5>2, FS_CardinalityType
        <5>4. k \notin lost' => recs[k] >= Cardinality(Users(k)) BY <3>1, <1>0 DEF CountInv
        <5>5. recs[k] \in Nat BY DEF TypeOK
        <5>6. k \notin lost' => recs'[k] >= Cardinality(Users(k)')
          BY <5>0, <5>1, <5>2, <5>3, <5>4, <5>5, <3>1
        <5> QED BY <4>2, <5>6, <3>1
      <4> QED BY <4>1, <4>2
    <3> QED BY <3>4 DEF CountInv
  <2> QED BY <2>t, <2>1, <2>2
<1>4. ASSUME NEW p \in Slots, Release(p) PROVE CountInv'
  <2>1. ASSUME NEW k \in Keys, ReleaseShared(p, k) PROVE CountInv'
    <3>1. /\ sharedrec[p][k] /\ sharedrec' = [sharedrec EXCEPT ![p][k] = FALSE]
          /\ key' = [key EXCEPT ![p] = k]
          /\ UNCHANGED <<recs, lost>>
      BY <2>1 DEF ReleaseShared, table, races
    <3>2. /\ \A q \in Slots \ {p} : sharedrec'[q] = sharedrec[q]
          /\ \A j \in Keys : sharedrec'[p][j] => sharedrec[p][j]
          /\ key'[p] = k
      BY <3>1 DEF TypeOK
    <3> QED BY <1>4, <3>1, <3>2, <1>s DEF Using
  <2>2. CASE DeshareVm(p)
    <3>1. /\ pc[p] = "deshare" /\ key' = key /\ sharedrec' = sharedrec
          /\ UNCHANGED <<recs, lost>>
      BY <2>2 DEF DeshareVm, table, procs, flags, races
    <3> QED BY <1>4, <3>1, <1>s DEF Using
  <2>3. CASE DeshareVmNone(p) \/ DropLast(p)
    <3>1. /\ pc'[p] \in {"user", "get"} /\ sharedrec' = sharedrec
          /\ UNCHANGED <<recs, lost>>
      BY <2>3, ReturnDoes DEF DeshareVmNone, DropLast, table, procs, flags, races
    <3> QED BY <1>4, <3>1, <1>s DEF Using
  <2>4. CASE DropStore(p)
    <3>1. PICK k \in Keys :
            /\ k = key[p] /\ pc[p] = "drop" /\ pc'[p] \in {"user", "get", "free"}
            /\ recs'[k] \in Nat
            /\ \A j \in Keys \ {k} : recs'[j] = recs[j]
            /\ lost \subseteq lost' /\ lost' \subseteq lost \union {k}
            /\ k \notin lost' => recs'[k] + 1 = recs[k]
            /\ recs'[k] = 0 => k \notin lost'
            /\ UNCHANGED <<shared, procs, free, other, panicked, failed, kept>>
      BY <2>4, DropStoreDoes
    <3>2. ASSUME NEW j \in Keys PROVE Users(j)' \subseteq Users(j)
      <4>1. \A q \in Slots \ {p} : q \in Users(j)' => q \in Users(j)
        BY <1>4, <3>1, <1>o DEF procs
      <4>2. Using(p, j)' => Using(p, j) BY <3>1 DEF Using, procs
      <4> QED BY <4>1, <4>2 DEF Users
    <3>3. p \in Users(k) BY <3>1 DEF Users, Using
    <3>4. p \notin Users(k)' BY <3>1 DEF Users, Using, procs, CallInv
    <3>5. ASSUME NEW j \in Keys
          PROVE  /\ j \notin lost' => recs'[j] >= Cardinality(Users(j)')
                 /\ recs'[j] = 0 => Users(j)' = {}
      <4>0. IsFiniteSet(Users(j)) /\ Cardinality(Users(j)) \in Nat /\ recs[j] \in Nat
        BY UsersFinite DEF TypeOK
      <4>1. CASE j # k
        <5>1. /\ Cardinality(Users(j)') \in Nat
              /\ Cardinality(Users(j)') <= Cardinality(Users(j))
          BY <3>2, <4>0, FS_Subset, FS_CardinalityType
        <5>2. recs'[j] = recs[j] /\ (j \notin lost' => j \notin lost) BY <4>1, <3>1
        <5>3. /\ j \notin lost => recs[j] >= Cardinality(Users(j))
              /\ recs[j] = 0 => Users(j) = {}
          BY <1>0 DEF CountInv
        <5>4. recs'[j] = 0 => Users(j)' = {} BY <5>2, <5>3, <3>2
        <5>5. j \notin lost' => recs'[j] >= Cardinality(Users(j)') BY <5>1, <5>2, <5>3, <4>0
        <5> QED BY <5>4, <5>5
      <4>2. CASE j = k
        <5> DEFINE Left == Users(k) \ {p}
        <5>1. IsFiniteSet(Left) /\ Cardinality(Left) = Cardinality(Users(k)) - 1
          BY <4>0, <4>2, <3>3, FS_RemoveElement
        <5>2. Users(k)' \subseteq Left BY <3>2, <3>4
        <5>3. /\ Cardinality(Users(k)') <= Cardinality(Left)
              /\ IsFiniteSet(Users(k)')
          BY <5>1, <5>2, FS_Subset
        <5>4. Cardinality(Users(k)') \in Nat BY <5>3, FS_CardinalityType
        <5>5. k \notin lost' => recs[k] >= Cardinality(Users(k)) BY <3>1, <1>0 DEF CountInv
        <5> HIDE DEF Left
        <5>6. k \notin lost' => recs'[k] >= Cardinality(Users(k)')
          BY <5>1, <5>3, <5>4, <5>5, <4>0, <4>2, <3>1
        <5>7. recs'[k] = 0 => Cardinality(Users(k)') = 0 BY <5>6, <5>4, <3>1
        <5>8. Cardinality(Users(k)') = 0 => Users(k)' = {} BY <5>3, FS_EmptySet
        <5> QED BY <4>2, <5>6, <5>7, <5>8
      <4> QED BY <4>1, <4>2
    <3> QED BY <3>5 DEF CountInv
  <2> QED BY <1>4, <2>1, <2>2, <2>3, <2>4 DEF Release
<1>5. ASSUME NEW p \in Slots, Life(p) PROVE CountInv'
  <2>0. UNCHANGED <<recs, lost, pc, key>> BY <1>5, OutsideStays DEF table, locals
  <2>1. CASE Exit(p) \/ Wait(p) \/ Exec(p)
    <3>1. sharedrec' = sharedrec BY <2>1 DEF Exit, Wait, Exec
    <3> QED BY <2>0, <3>1, <1>u
  <2>2. ASSUME NEW q \in Slots, Fork(p, q) PROVE CountInv'
    <3>1. \A r \in Slots, k \in Keys : sharedrec'[r][k] => sharedrec[r][k]
      BY <2>2, SharedAssumption DEF Fork, TypeOK
    <3>2. \A k \in Keys : Users(k)' \subseteq Users(k) BY <2>0, <3>1 DEF Users, Using
    <3> QED BY <2>0, <3>2, <1>k
  <2> QED BY <1>5, <2>1, <2>2 DEF Life
<1> QED BY <1>1, <1>2, <1>3, <1>4, <1>5 DEF Next

(***************************************************************************)
(* Every step keeps the page of a key the same for all its users: it is    *)
(* published only when the key has none.                                   *)
(***************************************************************************)
LEMMA HoldStep ==
  ASSUME TypeOK, CallInv, Known, GoodInv, [Next]_vars, ~failed', ~raced'
  PROVE  HoldInv'
<1> USE DEF At, MayCall, Goto
<1>0. CallsInv /\ AloneInv /\ CountInv /\ HoldInv BY DEF GoodInv
\* Nothing is mapped, recorded or published.
<1>k. ASSUME UNCHANGED <<shared, pte>>,
             \A r \in Slots, k \in Keys : sharedrec'[r][k] => sharedrec[r][k],
             \A r \in Slots : pc'[r] \in Mapped => pc[r] \in Mapped /\ key'[r] = key[r]
      PROVE  HoldInv'
  BY <1>k, <1>0 DEF HoldInv
<1>m. ASSUME NEW p \in Slots, Get(p) \/ Release(p), UNCHANGED <<shared, pte>>,
             \A r \in Slots, k \in Keys : sharedrec'[r][k] => sharedrec[r][k],
             pc'[p] \in Mapped => pc[p] \in Mapped /\ key'[p] = key[p]
      PROVE  HoldInv'
  BY <1>m, <1>k, OthersStay
<1>r. ASSUME NEW p \in Slots, Return(p) PROVE pc'[p] \notin Mapped
  BY <1>r, ReturnDoes DEF Mapped
<1>e. ASSUME NEW p \in Slots, NEW l, pc' = [pc EXCEPT ![p] = l] PROVE pc'[p] = l
  BY <1>e DEF TypeOK
<1>1. CASE UNCHANGED vars BY <1>1, <1>k DEF vars
<1>2. CASE KallocOther \/ KfreeOther
  BY <1>2, <1>k DEF KallocOther, KfreeOther, table, procs, locals
<1>3. ASSUME NEW p \in Slots, Get(p) PROVE HoldInv'
  <2>1. ASSUME NEW k \in Keys, GetSharem(p, k) PROVE HoldInv'
    <3>1. UNCHANGED <<shared, pte, sharedrec>> /\ pc'[p] \notin Mapped
      BY <2>1, <1>e DEF GetSharem, table, procs, Mapped
    <3> QED BY <1>3, <3>1, <1>m
  <2>2. CASE GetShared(p)
    <3>1. UNCHANGED <<shared, pte, sharedrec>> /\ pc'[p] \notin Mapped
      BY <2>2, <1>r DEF GetShared, table, procs
    <3> QED BY <1>3, <3>1, <1>m
  <2>3. CASE ShareVm(p) \/ UseTheirs(p) \/ ShareVmFirst(p)
    <3>1. UNCHANGED <<shared, pte, sharedrec>> /\ pc'[p] \notin Mapped
      BY <2>3, <1>e DEF ShareVm, UseTheirs, ShareVmFirst, table, procs, Mapped
    <3> QED BY <1>3, <3>1, <1>m
  <2>4. CASE CountLoad(p) \/ CountStore(p)
    <3>1. /\ UNCHANGED <<shared, pte, sharedrec>> /\ key' = key
          /\ pc[p] \in Mapped
      BY <2>4 DEF CountLoad, CountStore, table, procs, locals, Mapped
    <3> QED BY <1>3, <3>1, <1>m
  <2>5. CASE ShareVmFail(p) \/ MapPagesFail(p) BY <2>5 DEF ShareVmFail, MapPagesFail
  <2>6. CASE MapPagesRemap(p)
    BY <2>6, <1>k DEF MapPagesRemap, table, procs, locals
  <2>7. CASE Publish(p)
    <3>1. PICK k \in Keys :
            /\ k = key[p] /\ key'[p] = k /\ pc[p] = "publish" /\ pc'[p] = "map"
            /\ \A j \in Keys \ {k} : shared'[j] = shared[j]
            /\ UNCHANGED <<recs, procs, free, other, locals, flags>>
      BY <2>7, PublishDoes
    <3>2. recs[k] = 0 BY <3>1, <1>0 DEF CallsInv, AtCall
    <3>3. \A q \in Slots : q \notin Users(k) BY <3>2, <1>0 DEF CountInv
    <3>4. \A q \in Slots : ~sharedrec[q][k] /\ ~(key[q] = k /\ pc[q] = "record")
      BY <3>3 DEF Users, Using
    <3>5. \A q \in Slots \ {p} : ~Busy(q, k)
      BY <3>1, <3>2, <1>0 DEF AloneInv, Busy
    <3>6. \A q \in Slots : ~(pc'[q] \in Mapped /\ key'[q] = k)
      BY <3>1, <3>4, <3>5, <1>3, OthersStay DEF Mapped, Busy
    <3>7. \A q \in Slots : pc'[q] \in Mapped => pc[q] \in Mapped /\ key'[q] = key[q]
      BY <3>1, <1>3, OthersStay DEF Mapped
    <3> QED BY <3>1, <3>4, <3>6, <3>7, <1>0 DEF HoldInv, procs
  <2>8. CASE MapPages(p)
    <3>1. PICK k \in Keys : k = key[p] /\ pc[p] = "map" /\ shared[k] = mem[p]
      BY <2>8, <1>0 DEF MapPages, CallInv, CallsInv, AtCall
    <3>2. /\ pte' = [pte EXCEPT ![p][k] = mem[p]]
          /\ UNCHANGED <<shared, sharedrec, key>>
      BY <2>8, <3>1 DEF MapPages, table, locals
    <3>3. pte'[p][k] = mem[p] BY <3>2 DEF TypeOK
    <3>4. \A q \in Slots, j \in Keys :
            <<q, j>> # <<p, k>> => pte'[q][j] = pte[q][j]
      BY <3>2 DEF TypeOK
    <3>5. \A q \in Slots \ {p} : pc'[q] = pc[q] BY <1>3, OthersStay
    <3> QED BY <3>1, <3>2, <3>3, <3>4, <3>5, <1>0 DEF HoldInv
  <2>9. CASE Record(p)
    <3>1. PICK k \in Keys : k = key[p] /\ pc[p] \in Mapped
      BY <2>9 DEF Record, CallInv, Mapped
    <3>2. /\ sharedrec' = [sharedrec EXCEPT ![p][k] = TRUE]
          /\ Return(p) /\ UNCHANGED <<shared, pte>>
      BY <2>9, <3>1 DEF Record, table
    <3>3. \A q \in Slots, j \in Keys :
            <<q, j>> # <<p, k>> => sharedrec'[q][j] = sharedrec[q][j]
      BY <3>2 DEF TypeOK
    <3>4. pc'[p] \notin Mapped BY <3>2, <1>r
    <3>5. \A q \in Slots \ {p} : pc'[q] = pc[q] /\ key'[q] = key[q] BY <1>3, OthersStay
    <3> QED BY <3>1, <3>2, <3>3, <3>4, <3>5, <1>0 DEF HoldInv
  <2> QED BY <1>3, <2>1, <2>2, <2>3, <2>4, <2>5, <2>6, <2>7, <2>8, <2>9 DEF Get
<1>4. ASSUME NEW p \in Slots, Release(p) PROVE HoldInv'
  <2>1. ASSUME NEW k \in Keys, ReleaseShared(p, k) PROVE HoldInv'
    <3>1. /\ sharedrec' = [sharedrec EXCEPT ![p][k] = FALSE]
          /\ pc'[p] \notin Mapped /\ UNCHANGED <<shared, pte>>
      BY <2>1, <1>e DEF ReleaseShared, table, Mapped
    <3>2. \A r \in Slots, j \in Keys : sharedrec'[r][j] => sharedrec[r][j]
      BY <3>1 DEF TypeOK
    <3> QED BY <1>4, <3>1, <3>2, <1>m
  <2>2. CASE DeshareVm(p)
    <3>1. UNCHANGED <<shared, pte, sharedrec>> /\ pc'[p] \notin Mapped
      BY <2>2, <1>e DEF DeshareVm, table, procs, Mapped
    <3> QED BY <1>4, <3>1, <1>m
  <2>3. CASE DeshareVmNone(p) \/ DropLast(p)
    <3>1. UNCHANGED <<shared, pte, sharedrec>> /\ pc'[p] \notin Mapped
      BY <2>3, <1>r DEF DeshareVmNone, DropLast, table, procs
    <3> QED BY <1>4, <3>1, <1>m
  <2>4. CASE DropStore(p)
    <3>1. PICK k \in Keys : /\ pc'[p] \in {"user", "get", "free"}
                            /\ UNCHANGED <<shared, procs, free, other, panicked, failed, kept>>
      BY <2>4, DropStoreDoes
    <3> QED BY <1>4, <3>1, <1>m DEF procs, Mapped
  <2> QED BY <1>4, <2>1, <2>2, <2>3, <2>4 DEF Release
<1>5. ASSUME NEW p \in Slots, Life(p) PROVE HoldInv'
  <2>0. UNCHANGED <<shared, pc, key>> BY <1>5, OutsideStays DEF table, locals
  <2>1. CASE Exit(p) BY <2>0, <2>1, <1>k DEF Exit
  <2>2. CASE Wait(p) \/ Exec(p)
    <3>1. FreeVm(p) /\ sharedrec' = sharedrec BY <2>2 DEF Wait, Exec
    <3>2. /\ \A k \in Keys : pte'[p][k] = None
          /\ \A q \in Slots \ {p} : pte'[q] = pte[q]
      BY <3>1 DEF FreeVm, TypeOK
    <3> QED BY <2>0, <3>1, <3>2, <1>0 DEF HoldInv
  <2>3. ASSUME NEW q \in Slots, Fork(p, q) PROVE HoldInv'
    <3>1. \A r \in Slots, k \in Keys : sharedrec'[r][k] => sharedrec[r][k]
      BY <2>3, SharedAssumption DEF Fork, TypeOK
    <3> QED BY <2>0, <2>3, <3>1, <1>k DEF Fork
  <2> QED BY <1>5, <2>1, <2>2, <2>3 DEF Life
<1> QED BY <1>1, <1>2, <1>3, <1>4, <1>5 DEF Next

(***************************************************************************)
(* Every step keeps the pages apart: a page leaves a key for the free list *)
(* only when its last user drops it, alone with the key.                   *)
(***************************************************************************)
LEMMA PageStep ==
  ASSUME TypeOK, CallInv, Known, GoodInv, [Next]_vars, ~failed', ~raced'
  PROVE  PageInv'
<1> USE DEF At, MayCall, Goto
<1>0. CallsInv /\ AloneInv /\ CountInv /\ PageInv BY DEF GoodInv
<1>a. /\ \A k \in Keys : Used(k) => shared[k] \in Pages
      /\ \A r \in Slots : pc[r] = "publish" => mem[r] \in Pages
  BY DEF Used, Known
\* No key gains a page; what is free, in use and a page table stays apart.
<1>k. ASSUME shared' = shared,
             \A k \in Keys : Used(k)' => Used(k),
             \A r \in Slots : pc'[r] = "publish" => pc[r] = "publish" /\ mem'[r] = mem[r],
             \A g \in Pages : Taken(g)' => Taken(g),
             free' \intersect other' = {},
             \A q \in Slots : pgtab'[q] \notin free' /\ pgtab'[q] \notin other',
             \A q, r \in Slots : pgtab'[q] # None /\ pgtab'[q] = pgtab'[r] => q = r
      PROVE  PageInv'
  <2>3. \A k \in Keys : Used(k)' => ~Taken(shared[k])'
    BY <1>k, <1>a, <1>0 DEF PageInv, Taken
  <2>4. \A r \in Slots : pc'[r] = "publish" =>
          /\ ~Taken(mem[r])'
          /\ \A k \in Keys : Used(k)' => shared'[k] # mem'[r]
          /\ \A q \in Slots : pc'[q] = "publish" /\ mem'[q] = mem'[r] => q = r
    BY <1>k, <1>a, <1>0 DEF PageInv, Taken
  <2>5. \A j, k \in Keys : Used(j)' /\ Used(k)' /\ shared'[j] = shared'[k] => j = k
    BY <1>k, <1>0 DEF PageInv
  <2> QED BY <1>k, <2>3, <2>4, <2>5 DEF PageInv, Taken
\* The same when no page changes hands.
<1>s. ASSUME UNCHANGED <<shared, free, other, pgtab>>,
             \A k \in Keys : Used(k)' => Used(k),
             \A r \in Slots : pc'[r] = "publish" => pc[r] = "publish" /\ mem'[r] = mem[r]
      PROVE  PageInv'
  <2>1. \A g \in Pages : Taken(g)' => Taken(g) BY <1>s DEF Taken
  <2>2. /\ free' \intersect other' = {}
        /\ \A q \in Slots : pgtab'[q] \notin free' /\ pgtab'[q] \notin other'
        /\ \A q, r \in Slots : pgtab'[q] # None /\ pgtab'[q] = pgtab'[r] => q = r
    BY <1>s, <1>0 DEF PageInv
  <2> QED BY <2>1, <2>2, <1>s, <1>k
\* A call goes on, with a key that was in use if it is.
<1>m. ASSUME NEW p \in Slots, Get(p) \/ Release(p), pc'[p] # "publish",
             \A k \in Keys : recs'[k] > 0 => Used(k),
             \A k \in Keys : key'[p] = k /\ pc'[p] \in {"map", "load", "store", "free"}
               => Used(k)
      PROVE  /\ \A k \in Keys : Used(k)' => Used(k)
             /\ \A r \in Slots : pc'[r] = "publish" => pc[r] = "publish" /\ mem'[r] = mem[r]
  <2>1. \A q \in Slots \ {p} : pc'[q] = pc[q] /\ key'[q] = key[q] /\ mem'[q] = mem[q]
    BY <1>m, OthersStay
  <2>2. ASSUME NEW k \in Keys, Used(k)' PROVE Used(k)
    <3>1. CASE recs'[k] > 0 BY <3>1, <1>m
    <3>2. ASSUME NEW q \in Slots, key'[q] = k, pc'[q] \in {"map", "load", "store", "free"}
          PROVE  Used(k)
      <4>1. CASE q = p BY <3>2, <4>1, <1>m
      <4>2. CASE q # p BY <3>2, <4>2, <2>1 DEF Used
      <4> QED BY <4>1, <4>2
    <3> QED BY <2>2, <3>1, <3>2 DEF Used
  <2> QED BY <2>1, <2>2, <1>m
<1>t. \A k \in Keys : recs[k] > 0 => Used(k) BY DEF Used
<1>u. ASSUME UNCHANGED <<shared, free, other, pgtab, recs, pc, key, mem>>
      PROVE  PageInv'
  BY <1>u, <1>s DEF Used
<1>e. ASSUME NEW p \in Slots, NEW l, pc' = [pc EXCEPT ![p] = l] PROVE pc'[p] = l
  BY <1>e DEF TypeOK
<1>1. CASE UNCHANGED vars BY <1>1, <1>u DEF vars
<1>2. CASE KallocOther \/ KfreeOther
  <2>1. UNCHANGED <<shared, pgtab, recs, pc, key, mem>>
    BY <1>2 DEF KallocOther, KfreeOther, table, procs, locals
  <2>2. PICK g : \/ g \in free /\ free' = free \ {g} /\ other' = other \union {g}
                 \/ g \in other /\ other' = other \ {g} /\ free' = free \union {g}
    BY <1>2 DEF KallocOther, KfreeOther
  <2>4. \A k \in Keys : Used(k)' => Used(k) BY <2>1 DEF Used
  <2>5. \A h \in Pages : Taken(h)' => Taken(h) BY <2>1, <2>2 DEF Taken
  <2>6. free' \intersect other' = {} BY <2>2, <1>0 DEF PageInv
  <2>7. \A q \in Slots : pgtab'[q] \notin free' /\ pgtab'[q] \notin other'
    BY <2>1, <2>2, <1>0 DEF PageInv
  <2>8. \A q, r \in Slots : pgtab'[q] # None /\ pgtab'[q] = pgtab'[r] => q = r
    BY <2>1, <1>0 DEF PageInv
  <2> QED BY <2>1, <2>4, <2>5, <2>6, <2>7, <2>8, <1>k
<1>3. ASSUME NEW p \in Slots, Get(p) PROVE PageInv'
  <2>1. ASSUME NEW k \in Keys, GetSharem(p, k) PROVE PageInv'
    <3>1. UNCHANGED <<shared, free, other, pgtab, recs>> /\ pc'[p] = "get"
      BY <2>1, <1>e DEF GetSharem, table, procs
    <3> QED BY <1>3, <3>1, <1>m, <1>t, <1>s
  <2>2. CASE GetShared(p) \/ Record(p)
    <3>1. /\ pc'[p] \in {"user", "get"}
          /\ UNCHANGED <<shared, free, other, pgtab, recs>>
      BY <2>2, ReturnDoes DEF GetShared, Record, table, procs
    <3> QED BY <1>3, <3>1, <1>m, <1>t, <1>s
  <2>3. CASE ShareVm(p) \/ UseTheirs(p) \/ CountLoad(p)
    <3>1. /\ UNCHANGED <<shared, free, other, pgtab, recs, key>>
          /\ pc'[p] \in {"use", "map", "store"}
      BY <2>3, <1>e DEF ShareVm, UseTheirs, CountLoad, table, procs, locals
    <3>2. pc'[p] # "use" => pc[p] \in {"use", "load"}
      BY <2>3, <1>e DEF ShareVm, UseTheirs, CountLoad
    <3>3. \A k \in Keys : key'[p] = k /\ pc'[p] \in {"map", "load", "store", "free"}
            => Used(k)
      BY <3>1, <3>2, <1>0, <1>t DEF Used, CallsInv, AtCall
    <3> QED BY <1>3, <3>1, <3>3, <1>m, <1>t, <1>s
  <2>4. CASE ShareVmFirst(p)
    <3>1. PICK g \in free : free' = free \ {g} /\ mem' = [mem EXCEPT ![p] = g]
      BY <2>4 DEF ShareVmFirst
    <3>2. UNCHANGED <<shared, other, pgtab, recs, key>> /\ pc'[p] = "publish"
      BY <2>4, <1>e DEF ShareVmFirst, table, procs
    <3>3. /\ mem'[p] = g
          /\ \A q \in Slots \ {p} : pc'[q] = pc[q] /\ mem'[q] = mem[q]
      BY <3>1, <1>3, OthersStay DEF TypeOK
    <3>4. \A q \in Slots \ {p} : key'[q] = key[q] BY <3>2
    <3>5. \A k \in Keys : Used(k)' => Used(k) BY <3>2, <3>3 DEF Used
    <3>6. \A h : Taken(h)' => Taken(h) /\ h # g
      BY <3>1, <3>2, <1>0 DEF Taken, PageInv
    <3>7. Taken(g) BY <3>1 DEF Taken
    <3>8. \A k \in Keys : Used(k)' => ~Taken(shared[k])'
      <4> SUFFICES ASSUME NEW k \in Keys, Used(k)' PROVE ~Taken(shared[k])'
        OBVIOUS
      <4>1. ~Taken(shared[k]) BY <3>5, <1>0 DEF PageInv
      <4> QED BY <4>1, <3>6, <3>2 DEF Taken
    <3>9. ASSUME NEW r \in Slots, pc'[r] = "publish"
          PROVE  /\ ~Taken(mem[r])'
                 /\ \A k \in Keys : Used(k)' => shared'[k] # mem'[r]
                 /\ \A q \in Slots : pc'[q] = "publish" /\ mem'[q] = mem'[r] => q = r
      <4>1. CASE r = p
        <5>1. mem'[r] = g BY <4>1, <3>3
        <5>2. ~Taken(mem[r])' BY <5>1, <3>6 DEF Taken
        <5>3. \A k \in Keys : Used(k)' => shared'[k] # g
          BY <3>2, <3>5, <3>7, <1>0 DEF PageInv
        <5>4. \A q \in Slots \ {p} : pc'[q] = "publish" => mem'[q] # g
          BY <3>3, <3>7, <1>0 DEF PageInv
        <5> QED BY <4>1, <5>1, <5>2, <5>3, <5>4
      <4>2. CASE r # p
        <5>1. pc[r] = "publish" /\ mem'[r] = mem[r] BY <3>9, <4>2, <3>3
        <5>2. ~Taken(mem[r]) BY <5>1, <1>0 DEF PageInv
        <5>3. ~Taken(mem[r])' BY <5>1, <5>2, <3>6 DEF Taken
        <5>4. \A k \in Keys : Used(k)' => shared'[k] # mem'[r]
          BY <5>1, <3>2, <3>5, <1>0 DEF PageInv
        <5>5. mem'[p] # mem'[r] BY <5>1, <5>2, <3>3, <3>7
        <5>6. \A q \in Slots \ {p} : pc'[q] = "publish" /\ mem'[q] = mem'[r] => q = r
          BY <5>1, <3>3, <1>0 DEF PageInv
        <5> QED BY <5>3, <5>4, <5>5, <5>6
      <4> QED BY <4>1, <4>2
    <3>10. /\ free' \intersect other' = {}
           /\ \A q \in Slots : pgtab'[q] \notin free' /\ pgtab'[q] \notin other'
           /\ \A q, r \in Slots : pgtab'[q] # None /\ pgtab'[q] = pgtab'[r] => q = r
      BY <3>1, <3>2, <1>0 DEF PageInv
    <3>11. \A j, k \in Keys : Used(j)' /\ Used(k)' /\ shared'[j] = shared'[k] => j = k
      BY <3>2, <3>5, <1>0 DEF PageInv
    <3> QED BY <3>2, <3>8, <3>9, <3>10, <3>11 DEF PageInv, Taken
  <2>5. CASE ShareVmFail(p) \/ MapPagesFail(p) BY <2>5 DEF ShareVmFail, MapPagesFail
  <2>6. CASE MapPagesRemap(p)
    BY <2>6, <1>u DEF MapPagesRemap, table, procs, locals
  <2>7. CASE Publish(p)
    <3>1. PICK k \in Keys :
            /\ k = key[p] /\ key'[p] = k /\ pc[p] = "publish" /\ pc'[p] = "map"
            /\ shared'[k] = mem[p] /\ \A j \in Keys \ {k} : shared'[j] = shared[j]
            /\ UNCHANGED <<recs, procs, free, other, locals, flags>>
      BY <2>7, PublishDoes
    <3>2. UNCHANGED <<recs, free, other, pgtab, key, mem>> BY <3>1 DEF procs, locals
    <3>3. \A q \in Slots \ {p} : pc'[q] = pc[q] BY <1>3, OthersStay
    <3>6. \A j \in Keys \ {k} : Used(j)' => Used(j) BY <3>1, <3>2, <3>3 DEF Used
    <3>7. ~Taken(mem[p]) /\ \A j \in Keys : Used(j) => shared[j] # mem[p]
      BY <3>1, <1>0 DEF PageInv
    <3>9. ASSUME NEW j \in Keys, Used(j)' PROVE ~Taken(shared[j])'
      <4>1. CASE j = k BY <4>1, <3>1, <3>7, <3>2 DEF Taken
      <4>2. CASE j # k BY <4>2, <3>9, <3>1, <3>2, <3>6, <1>0 DEF PageInv, Taken
      <4> QED BY <4>1, <4>2
    <3>10. ASSUME NEW j \in Keys, NEW i \in Keys, Used(j)', Used(i)',
                  shared'[j] = shared'[i]
           PROVE  j = i
      BY <3>1, <3>6, <3>7, <3>10, <1>0 DEF PageInv
    <3>11. ASSUME NEW r \in Slots, pc'[r] = "publish"
           PROVE  /\ ~Taken(mem[r])'
                  /\ \A j \in Keys : Used(j)' => shared'[j] # mem'[r]
                  /\ \A q \in Slots : pc'[q] = "publish" /\ mem'[q] = mem'[r] => q = r
      <4>1. r # p /\ pc[r] = "publish" /\ mem'[r] = mem[r]
        BY <3>1, <3>2, <3>3, <3>11
      <4>2. ~Taken(mem[r])' BY <4>1, <3>2, <1>0 DEF PageInv, Taken
      <4>3. mem[r] # mem[p] BY <4>1, <3>1, <1>0 DEF PageInv
      <4>4. ASSUME NEW j \in Keys, Used(j)' PROVE shared'[j] # mem'[r]
        <5>1. CASE j = k BY <5>1, <4>1, <4>3, <3>1
        <5>2. CASE j # k BY <5>2, <4>1, <4>4, <3>1, <3>6, <1>0 DEF PageInv
        <5> QED BY <5>1, <5>2
      <4>5. \A q \in Slots : pc'[q] = "publish" /\ mem'[q] = mem'[r] => q = r
        BY <4>1, <3>1, <3>2, <3>3, <1>0 DEF PageInv
      <4> QED BY <4>2, <4>4, <4>5
    <3>12. /\ free' \intersect other' = {}
           /\ \A q \in Slots : pgtab'[q] \notin free' /\ pgtab'[q] \notin other'
           /\ \A q, r \in Slots : pgtab'[q] # None /\ pgtab'[q] = pgtab'[r] => q = r
      BY <3>2, <1>0 DEF PageInv
    <3> QED BY <3>9, <3>10, <3>11, <3>12 DEF PageInv, Taken
  <2>8. CASE MapPages(p)
    <3>1. /\ UNCHANGED <<shared, other, recs, key>>
          /\ pc[p] = "map" /\ pc'[p] = "load"
      BY <2>8, <1>e DEF MapPages, table, locals
    <3>2. \A k \in Keys : key'[p] = k => Used(k) BY <3>1 DEF Used
    <3>5. /\ \A k \in Keys : Used(k)' => Used(k)
          /\ \A r \in Slots : pc'[r] = "publish" => pc[r] = "publish" /\ mem'[r] = mem[r]
      BY <3>1, <3>2, <1>3, <1>m, <1>t
    <3>6. CASE UNCHANGED <<pgtab, free>> BY <3>1, <3>5, <3>6, <1>s
    <3>7. ASSUME NEW g \in free, pgtab' = [pgtab EXCEPT ![p] = g], free' = free \ {g}
          PROVE  PageInv'
      <4>1. pgtab'[p] = g /\ \A q \in Slots \ {p} : pgtab'[q] = pgtab[q]
        BY <3>7 DEF TypeOK
      <4>2. \A h \in Pages : Taken(h)' => Taken(h) BY <4>1, <3>1, <3>7 DEF Taken
      <4>3. free' \intersect other' = {} BY <3>1, <3>7, <1>0 DEF PageInv
      <4>4. \A q \in Slots : pgtab'[q] \notin free' /\ pgtab'[q] \notin other'
        BY <4>1, <3>1, <3>7, <1>0 DEF PageInv
      <4>5. \A q, r \in Slots : pgtab'[q] # None /\ pgtab'[q] = pgtab'[r] => q = r
        BY <4>1, <3>7, <1>0 DEF PageInv
      <4> QED BY <4>2, <4>3, <4>4, <4>5, <3>1, <3>5, <1>k
    <3> QED BY <2>8, <3>6, <3>7 DEF MapPages
  <2>9. CASE CountStore(p)
    <3>1. PICK k \in Keys :
            /\ k = key[p] /\ pc[p] = "store" /\ pc'[p] = "record"
            /\ \A j \in Keys \ {k} : recs'[j] = recs[j]
            /\ UNCHANGED <<shared, procs, free, other, locals, panicked, failed, kept, raced>>
      BY <2>9, CountStoreDoes
    <3>2. Used(k) BY <3>1 DEF Used
    <3>3. \A j \in Keys : recs'[j] > 0 => Used(j) BY <3>1, <3>2, <1>t
    <3> QED BY <1>3, <3>1, <3>3, <1>m, <1>s DEF procs
  <2> QED BY <1>3, <2>1, <2>2, <2>3, <2>4, <2>5, <2>6, <2>7, <2>8, <2>9 DEF Get
<1>4. ASSUME NEW p \in Slots, Release(p) PROVE PageInv'
  <2>1. ASSUME NEW k \in Keys, ReleaseShared(p, k) PROVE PageInv'
    <3>1. UNCHANGED <<shared, free, other, pgtab, recs>> /\ pc'[p] = "deshare"
      BY <2>1, <1>e DEF ReleaseShared, table
    <3> QED BY <1>4, <3>1, <1>m, <1>t, <1>s
  <2>2. CASE DeshareVm(p)
    <3>1. UNCHANGED <<shared, free, other, pgtab, recs>> /\ pc'[p] = "drop"
      BY <2>2, <1>e DEF DeshareVm, table, procs
    <3> QED BY <1>4, <3>1, <1>m, <1>t, <1>s
  <2>3. CASE DeshareVmNone(p)
    <3>1. /\ pc'[p] \in {"user", "get"}
          /\ UNCHANGED <<shared, free, other, pgtab, recs>>
      BY <2>3, ReturnDoes DEF DeshareVmNone, table, procs
    <3> QED BY <1>4, <3>1, <1>m, <1>t, <1>s
  <2>4. CASE DropStore(p)
    <3>1. PICK k \in Keys :
            /\ k = key[p] /\ pc[p] = "drop" /\ pc'[p] \in {"user", "get", "free"}
            /\ pc'[p] = "free" => key'[p] = k
            /\ \A j \in Keys \ {k} : recs'[j] = recs[j]
            /\ UNCHANGED <<shared, procs, free, other, panicked, failed, kept>>
      BY <2>4, DropStoreDoes
    <3>2. p \in Users(k) BY <3>1 DEF Users, Using
    <3>3. recs[k] > 0 BY <3>2, <1>0 DEF CountInv, TypeOK
    <3>4. \A j \in Keys : recs'[j] > 0 => Used(j) BY <3>1, <3>3, <1>t
    <3>5. \A j \in Keys : key'[p] = j /\ pc'[p] \in {"map", "load", "store", "free"}
            => Used(j)
      BY <3>1, <3>3, <1>t
    <3> QED BY <1>4, <3>1, <3>4, <3>5, <1>m, <1>s DEF procs
  <2>5. CASE DropLast(p)
    <3>1. PICK k \in Keys : k = key[p] /\ pc[p] = "free"
      BY <2>5 DEF DropLast, CallInv
    <3>2. /\ pc'[p] \in {"user", "get"} /\ UNCHANGED <<shared, recs, other, pgtab>>
          /\ free' = free \union {shared[k]}
      BY <2>5, <3>1, ReturnDoes DEF DropLast, table, procs
    <3>3. recs[k] = 0 BY <3>1, <1>0 DEF CallsInv, AtCall
    <3>4. /\ \A j \in Keys : Used(j)' => Used(j)
          /\ \A r \in Slots : pc'[r] = "publish" => pc[r] = "publish" /\ mem'[r] = mem[r]
      BY <3>2, <1>4, <1>m, <1>t
    <3>11. Used(k) /\ ~Taken(shared[k]) BY <3>1, <1>0 DEF Used, PageInv
    <3>12. \A q \in Slots \ {p} : ~Busy(q, k)
      BY <3>1, <3>3, <1>0 DEF AloneInv, Busy
    <3>14. ~Used(k)' BY <3>2, <3>3, <3>12, <1>4, OthersStay DEF Used, Busy
    <3>16. \A h : Taken(h)' => Taken(h) \/ h = shared[k] BY <3>2 DEF Taken
    <3>17. ASSUME NEW j \in Keys, Used(j)' PROVE ~Taken(shared[j])'
      <4>1. Used(j) /\ j # k BY <3>4, <3>14, <3>17
      <4>2. ~Taken(shared[j]) /\ shared[j] # shared[k] BY <4>1, <3>11, <1>0 DEF PageInv
      <4> QED BY <4>2, <3>16, <3>2 DEF Taken
    <3>18. free' \intersect other' = {} BY <3>11, <3>2, <1>0 DEF PageInv, Taken
    <3>19. \A q \in Slots : pgtab'[q] \notin free' /\ pgtab'[q] \notin other'
      BY <3>11, <3>2, <1>0 DEF PageInv, Taken
    <3>20. ASSUME NEW r \in Slots, pc'[r] = "publish"
           PROVE  /\ ~Taken(mem[r])'
                  /\ \A j \in Keys : Used(j)' => shared'[j] # mem'[r]
                  /\ \A q \in Slots : pc'[q] = "publish" /\ mem'[q] = mem'[r] => q = r
      <4>1. pc[r] = "publish" /\ mem'[r] = mem[r] BY <3>20, <3>4
      <4>2. ~Taken(mem[r]) /\ shared[k] # mem[r] BY <4>1, <3>11, <1>0 DEF PageInv
      <4>3. ~Taken(mem[r])' BY <4>1, <4>2, <3>16 DEF Taken
      <4>4. \A j \in Keys : Used(j)' => shared'[j] # mem'[r]
        BY <4>1, <3>2, <3>4, <1>0 DEF PageInv
      <4>5. \A q \in Slots : pc'[q] = "publish" /\ mem'[q] = mem'[r] => q = r
        BY <4>1, <3>4, <1>0 DEF PageInv
      <4> QED BY <4>3, <4>4, <4>5
    <3>21. \A q, r \in Slots : pgtab'[q] # None /\ pgtab'[q] = pgtab'[r] => q = r
      BY <3>2, <1>0 DEF PageInv
    <3>22. \A j, i \in Keys : Used(j)' /\ Used(i)' /\ shared'[j] = shared'[i] => j = i
      BY <3>2, <3>4, <1>0 DEF PageInv
    <3> QED BY <3>2, <3>17, <3>18, <3>19, <3>20, <3>21, <3>22 DEF PageInv, Taken
  <2> QED BY <1>4, <2>1, <2>2, <2>3, <2>4, <2>5 DEF Release
<1>5. ASSUME NEW p \in Slots, Life(p) PROVE PageInv'
  <2>0. UNCHANGED <<shared, recs, pc, key, mem>> BY <1>5, OutsideStays DEF table, locals
  <2>1. CASE Exit(p) BY <2>0, <2>1, <1>u DEF Exit
  <2>2. CASE Wait(p) \/ Exec(p)
    <3>1. FreeVm(p) /\ other' = other BY <2>2 DEF Wait, Exec
    <3>3. /\ pgtab'[p] = None /\ \A q \in Slots \ {p} : pgtab'[q] = pgtab[q]
          /\ free' = free \union ({pgtab[p]} \ {None})
      BY <3>1 DEF FreeVm, TypeOK
    <3>4. \A k \in Keys : Used(k)' => Used(k) BY <2>0 DEF Used
    <3>5. \A h \in Pages : Taken(h)' => Taken(h)
      BY <3>1, <3>3, SharedAssumption DEF Taken
    <3>6. free' \intersect other' = {} BY <3>1, <3>3, <1>0 DEF PageInv
    <3>7. None \notin free' /\ None \notin other'
      BY <3>1, <3>3, SharedAssumption DEF TypeOK
    <3>8. \A q \in Slots : pgtab'[q] \notin free' /\ pgtab'[q] \notin other'
      BY <3>1, <3>3, <3>7, <1>0 DEF PageInv
    <3>9. \A q, r \in Slots : pgtab'[q] # None /\ pgtab'[q] = pgtab'[r] => q = r
      BY <3>3, <1>0 DEF PageInv
    <3> QED BY <2>0, <3>1, <3>4, <3>5, <3>6, <3>8, <3>9, <1>k
  <2>3. ASSUME NEW q \in Slots, Fork(p, q) PROVE PageInv'
    BY <2>0, <2>3, <1>u DEF Fork
  <2> QED BY <1>5, <2>1, <2>2, <2>3 DEF Life
<1> QED BY <1>1, <1>2, <1>3, <1>4, <1>5 DEF Next

\* The first state satisfies IInv.
LEMMA IInvInit == Init => IInv
<1> SUFFICES ASSUME Init PROVE RemapInv /\ GoodInv
  BY DEF IInv
<1>1. RemapInv BY RemapInit
<1> USE SharedAssumption DEF Init
<1>2. CallsInv BY DEF CallsInv, AtCall
<1>3. AloneInv BY DEF AloneInv, Busy
<1>4. CountInv
  <2>1. \A k \in Keys : Users(k) = {} BY DEF Users, Using
  <2>2. Cardinality({}) = 0 BY FS_EmptySet
  <2>3. \A k \in Keys : Cardinality(Users(k)) = 0 BY <2>1, <2>2
  <2> QED BY <2>1, <2>3 DEF CountInv
<1>5. HoldInv BY DEF HoldInv
<1>6. PageInv BY DEF PageInv, Used, Taken
<1> QED BY <1>1, <1>2, <1>3, <1>4, <1>5, <1>6 DEF GoodInv

(***************************************************************************)
(* However the calls of any number of processes overlap: what is mapped is *)
(* recorded or released, and until memory runs out or calls race where a   *)
(* count is zero, the counts cover the users, a key has one page, and that *)
(* page is nothing else.  IInv is inductive.                               *)
(***************************************************************************)
THEOREM SharedInvariance == Spec => []IInv
<1>1. IInv /\ [Next]_vars => IInv'
  <2> SUFFICES ASSUME IInv, [Next]_vars PROVE IInv'
    OBVIOUS
  <2>1. TypeOK /\ CallInv /\ Known BY DEF IInv, RemapInv
  <2>2. RemapInv' BY RemapStep DEF IInv
  <2>3. ASSUME ~failed', ~raced' PROVE GoodInv'
    <3>1. GoodInv BY <2>1, <2>3, Doubts DEF IInv
    <3> QED BY <2>1, <2>3, <3>1, CallsStep, AloneStep, CountStep, HoldStep, PageStep
            DEF GoodInv
  <2> QED BY <2>2, <2>3 DEF IInv
<1> QED BY <1>1, IInvInit, PTL DEF Spec

(***************************************************************************)
(* Where no update was lost, the count of a key covers the processes that  *)
(* have it recorded.                                                       *)
(***************************************************************************)
LEMMA IInvCounts == IInv => CountCoversRecords
<1> SUFFICES ASSUME IInv, ~failed, ~raced, NEW k \in Keys \ lost
             PROVE  recs[k] >= Cardinality({p \in Slots : sharedrec[p][k]})
  BY DEF CountCoversRecords
<1> DEFINE Recorded == {p \in Slots : sharedrec[p][k]}
<1>1. TypeOK /\ CountInv BY DEF IInv, RemapInv, GoodInv
<1>2. IsFiniteSet(Users(k)) /\ Cardinality(Users(k)) \in Nat BY UsersFinite
<1>3. Recorded \subseteq Users(k) BY DEF Users, Using
<1>4. Cardinality(Recorded) <= Cardinality(Users(k)) /\ Cardinality(Recorded) \in Nat
  BY <1>2, <1>3, FS_Subset, FS_CardinalityType
<1>5. recs[k] >= Cardinality(Users(k)) /\ recs[k] \in Nat BY <1>1 DEF CountInv, TypeOK
<1> HIDE DEF Recorded
<1>6. recs[k] >= Cardinality(Recorded) BY <1>2, <1>4, <1>5
<1> QED BY <1>6 DEF Recorded

(***************************************************************************)
(* The table sharedmemo keeps its types with any number of processes: recs *)
(* never passes below zero, covers the records where no update was lost,   *)
(* and only a released key is mapped again.                                *)
(***************************************************************************)
THEOREM ShareInvariance == Spec => []ShareInv
<1>1. IInv => ShareInv BY IInvCounts DEF ShareInv, IInv, RemapInv
<1> QED BY <1>1, SharedInvariance, PTL

(***************************************************************************)
(* However calls overlap, until memory runs out or they race where a count *)
(* is zero, all users of a key have one page, which serves nothing else:   *)
(* no other key, no page table, no other part of the kernel, not the free  *)
(* list; a lost count does not free it early.                              *)
(***************************************************************************)
THEOREM HoldersSharePages == Spec => []HoldersShare
<1>1. IInv => HoldersShare
  <2> SUFFICES ASSUME IInv, NEW p \in Slots, NEW k \in Keys, Holds(p, k), ~failed, ~raced
               PROVE  /\ pte[p][k] = shared[k]
                      /\ shared[k] \notin free \union other
                      /\ \A q \in Slots : pgtab[q] # shared[k]
                      /\ \A j \in Keys : j # k /\ recs[j] > 0 => shared[j] # shared[k]
    BY DEF HoldersShare
  <2>1. TypeOK /\ CountInv /\ HoldInv /\ PageInv BY DEF IInv, RemapInv, GoodInv
  <2>2. recs[k] > 0 BY <2>1, RecordedCounts DEF Holds
  <2>3. Used(k) BY <2>2 DEF Used
  <2>4. pte[p][k] = shared[k] BY <2>1 DEF Holds, HoldInv
  <2>5. ~Taken(shared[k]) BY <2>1, <2>3 DEF PageInv
  <2>6. \A j \in Keys : recs[j] > 0 => Used(j) BY DEF Used
  <2> QED BY <2>1, <2>3, <2>4, <2>5, <2>6 DEF PageInv, Taken
<1> QED BY <1>1, SharedInvariance, PTL
=============================================================================
