--------------------------- MODULE DirectoryProofs ---------------------------
(***************************************************************************)
(* Proofs about Directory, for any number of processes, inodes and names,  *)
(* any set of calls, and disks that start as Init says.                    *)
(*                                                                         *)
(* Inv holds whatever happens.  A process has the references and the locks *)
(* of the place it is at, with what it goes on to after iput() (PlaceInv,  *)
(* LockInv); references are counted (RefsCounted); an entry that was read  *)
(* is the disk's (EntryInv); and an inode that a process has had locked    *)
(* since it got its reference is not freed (KnownInv), since iput() frees  *)
(* with the lock, and with the only reference.                             *)
(*                                                                         *)
(* TInv is about names, and holds until ".." of a removed directory leads  *)
(* to an inode that nobody has.  What is referenced is owned (OwnedInv).   *)
(* Directories have one name each, in the directory their ".." leads to,   *)
(* and none is above itself (TreeInv, Acyclic).  The name that unlink(),   *)
(* create() or dirlink() found is there while the directory is locked      *)
(* (NameInv).  Links are counted (LinkInv), which takes that a directory   *)
(* without a name is empty (EmptyInv).  An inode without links has a       *)
(* reference that iput() will look at (LeakInv).                           *)
(***************************************************************************)
EXTENDS Directory, FiniteSetTheorems, SequenceTheorems, TLAPS

-----------------------------------------------------------------------------
(* The inductive invariant, whatever ".." leads to.                        *)

Iputs == {"put", "free", "dec"}

\* The place of p in its call, the one after iput() while it is in iput().
Then(p) == IF pc[p] \in Iputs THEN ret[p] ELSE pc[p]

InDirPlaces == {"create", "unlink", "linknew", "init", "victim", "unlockdp"}
IpPlaces    == InDirPlaces \union {"namex", "open", "chdir", "linkold"}
TgtPlaces   == {"exists", "init", "created", "victim", "unlinked", "linknew",
                "linkput", "linkbad"}
Returns     == {"user", "namex", "exists", "created", "unlinked", "unlockdp",
                "linkput", "linkbad"}

\* What is left of a path.
CallInv ==
  /\ call \in [Procs -> [op: Ops \union {"none"}, path: Seq(Entries), new: Seq(Elements)]]
  /\ \A p \in Procs: \A k \in 2 .. Len(call[p].new): call[p].new[k] # "/"

\* The references that a call has at each of its places.
PlaceOf(p) ==
  /\ put[p] # None <=> pc[p] \in Iputs
  /\ ret[p] \in Returns
  /\ pc[p] \notin Iputs => ret[p] = "user"
  /\ ip[p] # None <=> Then(p) \in IpPlaces
  /\ Then(p) \notin {"namex", "unlockdp"} => (tgt[p] # None <=> Then(p) \in TgtPlaces)
  /\ Then(p) = "namex" => Op(p) \in Ops /\ (tgt[p] # None => Op(p) = "link")
  /\ Then(p) = "unlockdp" => Op(p) \in {"link", "unlink"} /\ (tgt[p] # None <=> Op(p) = "link")
  /\ Then(p) \in {"create", "exists", "init", "created"} => Op(p) \in Creates
  /\ Then(p) \in {"unlink", "victim", "unlinked"} => Op(p) = "unlink"
  /\ Then(p) \in {"linkold", "linknew", "linkput", "linkbad"} => Op(p) = "link"
  /\ Then(p) \in {"namex", "linkold"} /\ Op(p) = "link" /\ tgt[p] = None => call[p].new # <<>>
  /\ Then(p) \in InDirPlaces => Path(p) # <<>>
PlaceInv == \A p \in Procs: PlaceOf(p)

\* p has the lock of i.
LockedBy(p, i) ==
  \/ pc[p] = "free" /\ put[p] = i
  \/ Then(p) \in {"init", "victim", "unlockdp"} /\ ip[p] = i
  \/ Then(p) \in {"created", "unlinked"} /\ tgt[p] = i
LockInv == \A p \in Procs, i \in Inodes: lock[i] = p <=> LockedBy(p, i)

\* An entry that was read is the disk's, and that of a locked inode was read.
EntryOf(i) == ref[i] > 0 /\ valid[i] =>
                dtype[i] # "free" /\ type[i] = dtype[i] /\ nlink[i] = dnlink[i]
EntryInv ==
  /\ \A i \in Inodes: EntryOf(i)
  /\ \A p \in Procs, i \in Inodes: LockedBy(p, i) => valid[i]
  /\ \A p \in Procs: pc[p] = "free" => nlink[put[p]] = 0

\* The inodes that p has, or has had, locked while it had this reference.
Known(p, i) ==
  \/ cwd[p] = i \/ fd[p] = i
  \/ Then(p) \in InDirPlaces /\ ip[p] = i
  \/ /\ Then(p) \in {"namex", "unlockdp", "init", "created", "unlinked", "linknew",
                     "linkput", "linkbad"}
     /\ tgt[p] = i
Safe(i) == dtype[i] # "free" /\ \A q \in Procs: pc[q] = "free" => put[q] # i
KnownInv ==
  \A p \in Procs: /\ \A i \in Inodes: Known(p, i) => Safe(i)
                  /\ dtype[cwd[p]] = "dir"
                  /\ Then(p) \in InDirPlaces => dtype[ip[p]] = "dir"

Inv == /\ TypeOK /\ CallInv /\ PlaceInv /\ LockInv /\ RefsCounted /\ EntryInv
       /\ KnownInv /\ ParentsStayDirs

-----------------------------------------------------------------------------
(* The rest of it, until ".." leads to an inode that nobody has.           *)

\* create() has taken i and not given it a name yet.
AtInit(i) == \E p \in Procs: pc[p] = "init" /\ tgt[p] = i

\* The references that keep an inode from being freed.
Holds(p, i) ==
  \/ cwd[p] = i \/ fd[p] = i \/ ip[p] = i
  \/ pc[p] = "put" /\ put[p] = i
  \/ pc[p] # "init" /\ tgt[p] = i
OwnedInv ==
  /\ \A p \in Procs, i \in Inodes: Holds(p, i) => ~Unowned(i)
  /\ \A p, q \in Procs: pc[p] = "init" /\ pc[q] = "init" /\ tgt[p] = tgt[q] => p = q

\* The directories are a tree, and what is below a removed one is not in it.
TreeInv ==
  /\ \A d \in Inodes:
       /\ dtype[d] # "dir" \/ AtInit(d) => dirent[d] = NoEntry
       /\ dtype[d] = "dir" /\ ~AtInit(d) => dirent[d]["."] = d /\ dirent[d][".."] # None
  /\ \A d, e \in Inodes, n \in Names:
       dtype[d] = "dir" /\ dirent[e][n] = d =>
         dirent[d][".."] = e /\ \A m \in Names: dirent[e][m] = d => m = n
  /\ dtype[ROOTINO] = "dir" /\ dirent[ROOTINO][".."] = ROOTINO
  /\ \A e \in Inodes, n \in Names: dirent[e][n] # ROOTINO

\* In every set of inodes there is one that names none of them.
Acyclic == \A D \in SUBSET Inodes: D # {} => \E d \in D: \A n \in Names: dirent[d][n] \notin D

\* The name that p looked up in the directory it has locked is still there.
NameOf(p) ==
  /\ pc[p] = "victim" => Name(p) \in Names /\ dirent[ip[p]][Name(p)] = tgt[p]
  /\ pc[p] = "init" => Name(p) \in Names /\ dirent[ip[p]][Name(p)] = None
  /\ pc[p] = "put" /\ ret[p] = "unlockdp" /\ Name(p) \in Names =>
       dirent[ip[p]][Name(p)] = put[p]
NameInv == \A p \in Procs: NameOf(p)

\* Names and ".." that lead to i, and calls that owe it a link or a name.
Total(i) == Cardinality(Named(i)) + Cardinality(Subdirs(i)) + Cardinality(Pending(i))
LinkInv ==
  \A i \in Inodes: /\ dnlink[i] >= Total(i)
                   /\ ~stray => dnlink[i] = Total(i)
                   /\ dtype[i] = "free" \/ AtInit(i) => dnlink[i] = 0

EmptyOf(p) ==
  /\ Then(p) = "unlinked" => \A n \in Names: dirent[tgt[p]][n] = None
  /\ Op(p) = "link" /\ tgt[p] # None => dtype[tgt[p]] # "dir"
EmptyInv ==
  /\ ~stray => \A d \in Inodes \ {ROOTINO}: Named(d) = {} => \A n \in Names: dirent[d][n] = None
  /\ \A p \in Procs: EmptyOf(p)

\* The references that have not been looked at by iput().
Keeps(p, i) ==
  \/ cwd[p] = i \/ fd[p] = i \/ ip[p] = i \/ tgt[p] = i
  \/ pc[p] \in {"put", "free"} /\ put[p] = i
LeakInv ==
  ~overlap =>
    \A i \in Inodes:
      dtype[i] # "free" /\ dnlink[i] = 0 =>
        /\ \E p \in Procs: Keeps(p, i)
        /\ ref[i] > 0 /\ ~valid[i] => AtInit(i)

TInv == OwnedInv /\ TreeInv /\ Acyclic /\ NameInv /\ LinkInv /\ EmptyInv /\ LeakInv /\ OnlyFullPanics
-----------------------------------------------------------------------------
(* Counting: a set of processes that changes at one of them.               *)

One(b) == IF b THEN 1 ELSE 0

LEMMA Toggle ==
  ASSUME NEW S, NEW T, NEW x, IsFiniteSet(S), S \ {x} = T \ {x}
  PROVE  /\ IsFiniteSet(T)
         /\ Cardinality(S) \in Nat /\ Cardinality(T) \in Nat
         /\ Cardinality(T) = (Cardinality(S) - One(x \in S)) + One(x \in T)
         /\ x \in S => Cardinality(S) >= 1
<1> DEFINE R == S \ {x}
<1>1. /\ IsFiniteSet(R)
      /\ Cardinality(R) = IF x \in S THEN Cardinality(S) - 1 ELSE Cardinality(S)
  BY FS_RemoveElement, Zenon
<1>2. /\ IsFiniteSet(R \cup {x})
      /\ Cardinality(R \cup {x}) = Cardinality(R) + 1
  <2>1. x \notin R
    OBVIOUS
  <2> HIDE DEF R
  <2>2. /\ IsFiniteSet(R \cup {x})
        /\ Cardinality(R \cup {x}) = IF x \in R THEN Cardinality(R) ELSE Cardinality(R) + 1
    BY <1>1, FS_AddElement, Zenon
  <2>3. QED BY <2>1, <2>2
<1>3. T = R \/ T = R \cup {x}
  OBVIOUS
<1>4. IsFiniteSet(T)
  BY <1>1, <1>2, <1>3
<1>5. /\ Cardinality(S) \in Nat /\ Cardinality(T) \in Nat /\ Cardinality(R) \in Nat
  BY <1>1, <1>4, FS_CardinalityType
<1>6. CASE x \in T
  <2>1. T = R \cup {x}
    BY <1>6
  <2>2. Cardinality(T) = Cardinality(R) + 1
    BY <1>2, <2>1
  <2> HIDE DEF R
  <2>3. QED BY <1>1, <1>4, <1>5, <1>6, <2>2 DEF One
<1>7. CASE x \notin T
  <2>1. T = R
    BY <1>7
  <2> HIDE DEF R
  <2>2. QED BY <1>1, <1>4, <1>5, <1>7, <2>1 DEF One
<1>8. QED BY <1>6, <1>7

\* How many references p has to i.
Uses(p, i) == One(cwd[p] = i) + One(fd[p] = i) + One(ip[p] = i) + One(tgt[p] = i)
              + One(put[p] = i)

\* What a step of p leaves alone.
Others(p) ==
  \A q \in Procs \ {p}:
    /\ pc'[q] = pc[q] /\ ret'[q] = ret[q] /\ put'[q] = put[q]
    /\ ip'[q] = ip[q] /\ tgt'[q] = tgt[q] /\ cwd'[q] = cwd[q] /\ fd'[q] = fd[q]
    /\ call'[q] = call[q]

\* The processes whose v is i.
Count(v, i) == Cardinality({q \in Procs : v[q] = i})

LEMMA CountMove ==
  ASSUME IsFiniteSet(Procs), NEW p \in Procs, NEW i, NEW v, NEW w,
         \A q \in Procs \ {p}: w[q] = v[q]
  PROVE  /\ Count(v, i) \in Nat /\ Count(w, i) \in Nat
         /\ One(v[p] = i) \in Nat /\ One(w[p] = i) \in Nat
         /\ Count(w, i) = (Count(v, i) - One(v[p] = i)) + One(w[p] = i)
<1> DEFINE S == {q \in Procs : v[q] = i}
           T == {q \in Procs : w[q] = i}
<1>1. IsFiniteSet(S)
  BY FS_Subset
<1>2. (p \in S <=> v[p] = i) /\ (p \in T <=> w[p] = i)
  OBVIOUS
<1>3. S \ {p} = T \ {p}
  OBVIOUS
<1>4. Count(v, i) = Cardinality(S) /\ Count(w, i) = Cardinality(T)
  BY DEF Count
<1> HIDE DEF S, T
<1>5. /\ Cardinality(S) \in Nat /\ Cardinality(T) \in Nat
      /\ Cardinality(T) = (Cardinality(S) - One(p \in S)) + One(p \in T)
  BY <1>1, <1>3, Toggle, Zenon
<1>6. One(p \in S) = One(v[p] = i) /\ One(p \in T) = One(w[p] = i)
  BY <1>2 DEF One
<1>7. QED BY <1>2, <1>4, <1>5, <1>6 DEF One

\* The sum that ref has to be.
References(i) == Count(cwd, i) + Count(fd, i) + Count(ip, i) + Count(tgt, i) + Count(put, i)

LEMMA CountUses ==
  ASSUME IsFiniteSet(Procs), NEW p \in Procs, Others(p), NEW i
  PROVE  /\ References(i) \in Nat /\ References(i)' \in Nat
         /\ References(i)' = (References(i) - Uses(p, i)) + Uses(p, i)'
<1>1. IsFiniteSet(Procs)
  OBVIOUS
<1>2. \A q \in Procs \ {p}: /\ cwd'[q] = cwd[q] /\ fd'[q] = fd[q] /\ ip'[q] = ip[q]
                            /\ tgt'[q] = tgt[q] /\ put'[q] = put[q]
  BY DEF Others
<1>3. /\ Count(cwd, i) \in Nat /\ Count(cwd', i) \in Nat
      /\ One(cwd[p] = i) \in Nat /\ One(cwd'[p] = i) \in Nat
      /\ Count(cwd', i) = (Count(cwd, i) - One(cwd[p] = i)) + One(cwd'[p] = i)
  BY <1>1, <1>2, CountMove
<1>4. /\ Count(fd, i) \in Nat /\ Count(fd', i) \in Nat
      /\ One(fd[p] = i) \in Nat /\ One(fd'[p] = i) \in Nat
      /\ Count(fd', i) = (Count(fd, i) - One(fd[p] = i)) + One(fd'[p] = i)
  BY <1>1, <1>2, CountMove
<1>5. /\ Count(ip, i) \in Nat /\ Count(ip', i) \in Nat
      /\ One(ip[p] = i) \in Nat /\ One(ip'[p] = i) \in Nat
      /\ Count(ip', i) = (Count(ip, i) - One(ip[p] = i)) + One(ip'[p] = i)
  BY <1>1, <1>2, CountMove
<1>6. /\ Count(tgt, i) \in Nat /\ Count(tgt', i) \in Nat
      /\ One(tgt[p] = i) \in Nat /\ One(tgt'[p] = i) \in Nat
      /\ Count(tgt', i) = (Count(tgt, i) - One(tgt[p] = i)) + One(tgt'[p] = i)
  BY <1>1, <1>2, CountMove
<1>7. /\ Count(put, i) \in Nat /\ Count(put', i) \in Nat
      /\ One(put[p] = i) \in Nat /\ One(put'[p] = i) \in Nat
      /\ Count(put', i) = (Count(put, i) - One(put[p] = i)) + One(put'[p] = i)
  BY <1>1, <1>2, CountMove
<1>8. /\ Uses(p, i) = One(cwd[p] = i) + One(fd[p] = i) + One(ip[p] = i) + One(tgt[p] = i)
                      + One(put[p] = i)
      /\ Uses(p, i)' = One(cwd'[p] = i) + One(fd'[p] = i) + One(ip'[p] = i)
                       + One(tgt'[p] = i) + One(put'[p] = i)
  BY DEF Uses
<1>9. References(i)' = Count(cwd', i) + Count(fd', i) + Count(ip', i) + Count(tgt', i)
                       + Count(put', i)
  BY DEF References, Count
<1>10. References(i) = Count(cwd, i) + Count(fd, i) + Count(ip, i) + Count(tgt, i)
                       + Count(put, i)
  BY DEF References
<1>11. References(i) \in Nat /\ References(i)' \in Nat
  BY <1>3, <1>4, <1>5, <1>6, <1>7, <1>9, <1>10
<1>12. References(i)' = (References(i) - Uses(p, i)) + Uses(p, i)'
  BY <1>3, <1>4, <1>5, <1>6, <1>7, <1>8, <1>9, <1>10
<1>13. QED BY <1>11, <1>12

LEMMA RefsAre == RefsCounted <=> \A i \in Inodes: ref[i] = References(i)
  BY DEF RefsCounted, References, Count

LEMMA RefsAreNext == RefsCounted' <=> \A i \in Inodes: ref'[i] = References(i)'
  BY DEF RefsCounted, References, Count

\* The count of references follows the references of the process that moves.
LEMMA CountStep ==
  ASSUME RefsCounted, NEW p \in Procs, Others(p),
         \A i \in Inodes: ref'[i] = (ref[i] - Uses(p, i)) + Uses(p, i)'
  PROVE  RefsCounted' /\ \A i \in Inodes: ref'[i] \in Nat
<1>1. SUFFICES ASSUME NEW i \in Inodes PROVE ref'[i] = References(i)' /\ ref'[i] \in Nat
  BY RefsAreNext, Zenon
<1>2. ref[i] = References(i)
  BY RefsAre
<1>3. QED BY <1>2, CountUses, DirectoryConstants

\* Two processes are counted apart.
LEMMA CountTwo ==
  ASSUME IsFiniteSet(Procs), NEW p \in Procs, NEW q \in Procs, p # q, NEW i, NEW v
  PROVE  /\ Count(v, i) \in Nat
         /\ One(v[p] = i) \in Nat /\ One(v[q] = i) \in Nat
         /\ Count(v, i) >= One(v[p] = i) + One(v[q] = i)
<1> DEFINE S == {o \in Procs : v[o] = i}
           T == S \ {p}
<1>1. IsFiniteSet(S) /\ IsFiniteSet(T)
  BY FS_Subset
<1>2. (p \in S <=> v[p] = i) /\ (q \in T <=> v[q] = i) /\ p \notin T
  OBVIOUS
<1>3. S \ {p} = T \ {p}
  OBVIOUS
<1>4. Count(v, i) = Cardinality(S)
  BY DEF Count
<1> HIDE DEF S, T
<1>5. /\ Cardinality(S) \in Nat /\ Cardinality(T) \in Nat
      /\ Cardinality(T) = (Cardinality(S) - One(p \in S)) + One(p \in T)
  BY <1>1, <1>3, Toggle, Zenon
<1>6. q \in T => Cardinality(T) >= 1
  BY <1>1, Toggle, Zenon
<1>7. QED BY <1>2, <1>4, <1>5, <1>6 DEF One

LEMMA Counted ==
  ASSUME RefsCounted, NEW i \in Inodes, NEW p \in Procs
  PROVE  /\ ref[i] \in Nat /\ Uses(p, i) \in Nat
         /\ ref[i] >= Uses(p, i)
         /\ \A q \in Procs: q # p => Uses(q, i) \in Nat /\ ref[i] >= Uses(p, i) + Uses(q, i)
<1>1. IsFiniteSet(Procs)
  BY DirectoryConstants
<1>2. \A v: Count(v, i) \in Nat /\ Count(v, i) >= One(v[p] = i) /\ One(v[p] = i) \in Nat
  <2>1. SUFFICES ASSUME NEW v
                 PROVE Count(v, i) \in Nat /\ Count(v, i) >= One(v[p] = i) /\ One(v[p] = i) \in Nat
    OBVIOUS
  <2> DEFINE S == {o \in Procs : v[o] = i}
  <2>2. IsFiniteSet(S)
    BY <1>1, FS_Subset
  <2>3. (p \in S <=> v[p] = i)
    OBVIOUS
  <2>4. Count(v, i) = Cardinality(S)
    BY DEF Count
  <2> HIDE DEF S
  <2>5. Cardinality(S) \in Nat /\ (p \in S => Cardinality(S) >= 1)
    BY <2>2, Toggle, Zenon
  <2>6. QED BY <2>3, <2>4, <2>5 DEF One
<1>3. ref[i] = Count(cwd, i) + Count(fd, i) + Count(ip, i) + Count(tgt, i) + Count(put, i)
  BY RefsAre DEF References
<1>4. Uses(p, i) = One(cwd[p] = i) + One(fd[p] = i) + One(ip[p] = i) + One(tgt[p] = i)
                   + One(put[p] = i)
  BY DEF Uses
<1>5. ref[i] \in Nat /\ Uses(p, i) \in Nat /\ ref[i] >= Uses(p, i)
  BY <1>2, <1>3, <1>4
<1>6. ASSUME NEW q \in Procs, q # p
      PROVE  Uses(q, i) \in Nat /\ ref[i] >= Uses(p, i) + Uses(q, i)
  <2>1. Uses(q, i) = One(cwd[q] = i) + One(fd[q] = i) + One(ip[q] = i) + One(tgt[q] = i)
                     + One(put[q] = i)
    BY DEF Uses
  <2>2. /\ Count(cwd, i) >= One(cwd[p] = i) + One(cwd[q] = i) /\ One(cwd[q] = i) \in Nat
        /\ Count(fd, i) >= One(fd[p] = i) + One(fd[q] = i) /\ One(fd[q] = i) \in Nat
        /\ Count(ip, i) >= One(ip[p] = i) + One(ip[q] = i) /\ One(ip[q] = i) \in Nat
        /\ Count(tgt, i) >= One(tgt[p] = i) + One(tgt[q] = i) /\ One(tgt[q] = i) \in Nat
        /\ Count(put, i) >= One(put[p] = i) + One(put[q] = i) /\ One(put[q] = i) \in Nat
    BY <1>1, <1>6, CountTwo
  <2>3. QED BY <1>2, <1>3, <1>4, <2>1, <2>2
<1>7. QED BY <1>5, <1>6

\* Every single reference is counted.
LEMMA Referenced ==
  ASSUME RefsCounted, NEW i \in Inodes, NEW p \in Procs
  PROVE  /\ ref[i] \in Nat
         /\ cwd[p] = i \/ fd[p] = i \/ ip[p] = i \/ tgt[p] = i \/ put[p] = i => ref[i] > 0
         /\ put[p] = i /\ (cwd[p] = i \/ fd[p] = i \/ ip[p] = i \/ tgt[p] = i) => ref[i] > 1
         /\ \A q \in Procs: q # p /\ put[p] = i
              /\ (cwd[q] = i \/ fd[q] = i \/ ip[q] = i \/ tgt[q] = i \/ put[q] = i) => ref[i] > 1
  BY Counted DEF Uses, One

-----------------------------------------------------------------------------
(* What the steps have in common.                                          *)

\* Where a step takes p, and the references that its call has then.
Local(p, place, r, v, i, t) ==
  pc'[p] = place /\ ret'[p] = r /\ put'[p] = v /\ ip'[p] = i /\ tgt'[p] = t

\* What a step does to the entries when it reads i, if any, and gets j, if any.
Reads(i, j) ==
  /\ dtype' = dtype /\ dnlink' = dnlink
  /\ \A k \in Inodes:
       /\ ref'[k] = IF k = j THEN ref[k] + 1 ELSE ref[k]
       /\ valid'[k] <=> (k = i \/ (valid[k] /\ ~(k = j /\ ref[k] = 0)))
       /\ type'[k] = IF k = i THEN dtype[k] ELSE type[k]
       /\ nlink'[k] = IF k = i THEN dnlink[k] ELSE nlink[k]

EntriesOK ==
  /\ dtype \in [Inodes -> Types] /\ dnlink \in [Inodes -> Int]
  /\ ref \in [Inodes -> Nat] /\ valid \in [Inodes -> BOOLEAN]
  /\ type \in [Inodes -> Types] /\ nlink \in [Inodes -> Int]

LEMMA NotNone == None \notin Inodes /\ None \notin Procs
  BY DirectoryConstants

LEMMA Finite == IsFiniteSet(Procs) /\ IsFiniteSet(Inodes)
  BY DirectoryConstants, FS_Interval DEF Inodes

\* A referenced entry says what the disk says, read or not.
LEMMA AsOnDisk ==
  ASSUME EntryInv, NEW i \in Inodes, ref[i] > 0
  PROVE  Type(i) = dtype[i] /\ Nlink(i) = dnlink[i]
  BY DEF EntryInv, EntryOf, Type, Nlink

\* ilock() of an inode that p has a reference to, with iget() of j.
LEMMA ReadEffect ==
  ASSUME TypeOK, EntryInv, NEW i \in Inodes, ref[i] > 0, NEW j,
         ReadGet(i, j), Links(i, Nlink(i)), dtype' = dtype
  PROVE  Reads(i, j) /\ EntriesOK'
<1>1. Type(i) = dtype[i] /\ Nlink(i) = dnlink[i]
  BY AsOnDisk
<1>2. /\ type' = [type EXCEPT ![i] = dtype[i]] /\ nlink' = [nlink EXCEPT ![i] = dnlink[i]]
      /\ dnlink' = [dnlink EXCEPT ![i] = dnlink[i]]
  BY <1>1 DEF Links
<1>3. dnlink' = dnlink
  BY <1>2 DEF TypeOK
<1>4. EntriesOK'
  BY <1>2, <1>3 DEF TypeOK, EntriesOK, ReadGet
<1>5. QED BY <1>2, <1>3, <1>4 DEF TypeOK, Reads, ReadGet

\* iget() or idup() alone.
LEMMA GetEffect ==
  ASSUME TypeOK, NEW j, ReadGet(None, j), UNCHANGED <<dtype, dnlink, type, nlink>>
  PROVE  Reads(None, j) /\ EntriesOK'
  BY NotNone DEF TypeOK, Reads, ReadGet, EntriesOK

LEMMA NoEffect ==
  ASSUME TypeOK, UNCHANGED <<dtype, dnlink, ref, valid, type, nlink>>
  PROVE  Reads(None, None) /\ EntriesOK'
  BY NotNone DEF TypeOK, Reads, EntriesOK

-----------------------------------------------------------------------------
(* Each part of the invariant, for a step of p.                            *)

LEMMA PlaceStep ==
  ASSUME PlaceInv, NEW p \in Procs, Others(p), PlaceOf(p)'
  PROVE  PlaceInv'
  BY DEF PlaceInv, PlaceOf, Others, Then, Op, Path

LEMMA LockStep ==
  ASSUME LockInv, NEW p \in Procs, Others(p),
         \A i \in Inodes: /\ \/ lock'[i] = lock[i]
                             \/ lock[i] \in {None, p} /\ lock'[i] \in {None, p}
                          /\ lock'[i] = p <=> LockedBy(p, i)'
  PROVE  LockInv'
<1>1. SUFFICES ASSUME NEW q \in Procs, NEW i \in Inodes
               PROVE  lock'[i] = q <=> LockedBy(q, i)'
  BY DEF LockInv
<1>2. CASE q = p
  BY <1>2
<1>3. CASE q # p
  <2>1. LockedBy(q, i)' <=> LockedBy(q, i)
    BY <1>3 DEF LockedBy, Others, Then
  <2>2. lock[i] = q <=> LockedBy(q, i)
    BY DEF LockInv
  <2>3. lock'[i] = q <=> lock[i] = q
    BY <1>3, NotNone
  <2>4. QED BY <2>1, <2>2, <2>3
<1>4. QED BY <1>2, <1>3

LEMMA LockSame ==
  ASSUME LockInv, NEW p \in Procs, Others(p), lock' = lock,
         \A i \in Inodes: LockedBy(p, i)' <=> LockedBy(p, i)
  PROVE  LockInv'
<1>1. \A i \in Inodes: lock'[i] = lock[i] /\ (lock'[i] = p <=> LockedBy(p, i)')
  BY DEF LockInv
<1>2. QED BY <1>1, LockStep

\* p has a reference to what it has locked.
LEMMA LockedRef ==
  ASSUME RefsCounted, NEW p \in Procs, NEW i \in Inodes, LockedBy(p, i)
  PROVE  ref[i] > 0
  BY Referenced DEF LockedBy

LEMMA EntryStep ==
  ASSUME TypeOK, PlaceInv, RefsCounted, EntryInv, NEW p \in Procs, Others(p), NEW i, NEW j,
         Reads(i, j), i = None \/ (i \in Inodes /\ ref[i] > 0 /\ dtype[i] # "free"),
         pc'[p] # "free", \A k \in Inodes: LockedBy(p, k)' => LockedBy(p, k) \/ k = i
  PROVE  EntryInv'
<1>1. ASSUME NEW k \in Inodes PROVE EntryOf(k)'
  <2>1. ref'[k] > 0 /\ valid'[k] => k = i \/ (valid[k] /\ ref[k] > 0)
    BY Referenced DEF Reads
  <2>2. QED BY <2>1, NotNone DEF EntryInv, EntryOf, Reads
<1>2. ASSUME NEW q \in Procs, NEW k \in Inodes, LockedBy(q, k)' PROVE valid'[k]
  <2>1. LockedBy(q, k) \/ k = i
    BY <1>2 DEF LockedBy, Others, Then
  <2>2. LockedBy(q, k) => valid[k] /\ ref[k] > 0
    BY LockedRef DEF EntryInv
  <2>3. QED BY <2>1, <2>2, Referenced DEF Reads
<1>3. ASSUME NEW q \in Procs, pc'[q] = "free" PROVE nlink'[put'[q]] = 0
  <2>1. q # p /\ pc[q] = "free" /\ put'[q] = put[q]
    BY <1>3 DEF Others
  <2>2. put[q] \in Inodes
    BY <2>1 DEF TypeOK, PlaceInv, PlaceOf, InodeOrNone, Iputs
  <2>3. LockedBy(q, put[q])
    BY <2>1 DEF LockedBy
  <2>4. valid[put[q]] /\ ref[put[q]] > 0 /\ nlink[put[q]] = 0
    BY <2>1, <2>2, <2>3, LockedRef DEF EntryInv
  <2>5. nlink[put[q]] = dnlink[put[q]]
    BY <2>2, <2>4 DEF EntryInv, EntryOf
  <2>6. QED BY <2>1, <2>2, <2>4, <2>5 DEF Reads
<1>4. QED BY <1>1, <1>2, <1>3 DEF EntryInv

\* No inode becomes free, and p does not start to free one.
LEMMA KnownStep ==
  ASSUME TypeOK, PlaceInv, KnownInv, NEW p \in Procs, Others(p),
         \A i \in Inodes: dtype'[i] = dtype[i] \/ (dtype[i] = "free" /\ dtype'[i] # "free"),
         pc'[p] # "free", \A i \in Inodes: Known(p, i)' => Known(p, i) \/ Safe(i)',
         dtype'[cwd'[p]] = "dir", Then(p)' \in InDirPlaces => dtype'[ip'[p]] = "dir"
  PROVE  KnownInv'
<1>1. ASSUME NEW i \in Inodes, Safe(i) PROVE Safe(i)'
  BY <1>1 DEF Safe, Others
<1>2. SUFFICES ASSUME NEW q \in Procs
               PROVE  /\ \A i \in Inodes: Known(q, i)' => Safe(i)'
                      /\ dtype'[cwd'[q]] = "dir"
                      /\ Then(q)' \in InDirPlaces => dtype'[ip'[q]] = "dir"
  BY DEF KnownInv
<1>3. CASE q = p
  BY <1>1, <1>3 DEF KnownInv
<1>4. CASE q # p
  <2>1. Then(q)' = Then(q) /\ cwd'[q] = cwd[q] /\ ip'[q] = ip[q]
    BY <1>4 DEF Others, Then
  <2>2. \A i \in Inodes: Known(q, i)' => Known(q, i)
    BY <1>4, <2>1 DEF Known, Others
  <2>3. \A i \in Inodes: Known(q, i)' => Safe(i)'
    BY <1>1, <2>2 DEF KnownInv
  <2>4. dtype'[cwd'[q]] = "dir"
    BY <2>1 DEF KnownInv, TypeOK
  <2>5. Then(q)' \in InDirPlaces => dtype'[ip'[q]] = "dir"
    <3>1. SUFFICES ASSUME Then(q) \in InDirPlaces PROVE dtype'[ip[q]] = "dir"
      BY <2>1
    <3>2. dtype[ip[q]] = "dir"
      BY <3>1 DEF KnownInv
    <3>3. ip[q] \in Inodes
      BY <3>1 DEF TypeOK, InodeOrNone, PlaceInv, PlaceOf, IpPlaces
    <3>4. QED BY <3>2, <3>3
  <2>6. QED BY <2>3, <2>4, <2>5
<1>5. QED BY <1>3, <1>4

\* No iput() frees an inode that is not locked.
LEMMA UnlockedSafe ==
  ASSUME Inv, NEW i \in Inodes, lock[i] = None, dtype[i] # "free"
  PROVE  Safe(i)
<1>1. SUFFICES ASSUME NEW q \in Procs, pc[q] = "free", put[q] = i PROVE FALSE
  BY DEF Safe
<1>2. lock[i] = q
  BY <1>1 DEF Inv, LockInv, LockedBy
<1>3. QED BY <1>2, NotNone

LEMMA SafeStep ==
  ASSUME NEW p \in Procs, Others(p), dtype' = dtype, pc'[p] # "free", NEW i, Safe(i)
  PROVE  Safe(i)'
  BY DEF Safe, Others

\* A step that reads and gets entries, and leaves the disk alone.
LEMMA QuietStep ==
  ASSUME Inv, NEW p \in Procs, Others(p), TypeOK', CallInv', PlaceOf(p)', NEW i, NEW j,
         Reads(i, j), i = None \/ (i \in Inodes /\ ref[i] > 0 /\ dtype[i] # "free"),
         pc'[p] # "free", panic' = panic,
         \A k \in Inodes:
           /\ Uses(p, k)' = Uses(p, k) + (IF k = j THEN 1 ELSE 0)
           /\ \/ lock'[k] = lock[k]
              \/ lock[k] \in {None, p} /\ lock'[k] \in {None, p}
           /\ lock'[k] = p <=> LockedBy(p, k)'
           /\ LockedBy(p, k)' => LockedBy(p, k) \/ k = i
           /\ Known(p, k)' => Known(p, k) \/ Safe(k),
         dtype[cwd'[p]] = "dir", Then(p)' \in InDirPlaces => dtype[ip'[p]] = "dir"
  PROVE  Inv'
<1>1. PlaceInv'
  BY PlaceStep DEF Inv
<1>2. LockInv'
  BY LockStep DEF Inv
<1>3. RefsCounted'
  <2>1. \A k \in Inodes: ref'[k] = (ref[k] - Uses(p, k)) + Uses(p, k)'
    <3>1. SUFFICES ASSUME NEW k \in Inodes
                   PROVE  ref'[k] = (ref[k] - Uses(p, k)) + Uses(p, k)'
      OBVIOUS
    <3>2. ref[k] \in Nat /\ Uses(p, k) \in Nat
      BY Counted DEF Inv
    <3>3. ref'[k] = IF k = j THEN ref[k] + 1 ELSE ref[k]
      BY DEF Reads
    <3>4. Uses(p, k)' = Uses(p, k) + (IF k = j THEN 1 ELSE 0)
      OBVIOUS
    <3>5. QED BY <3>2, <3>3, <3>4
  <2>2. QED BY <2>1, CountStep DEF Inv
<1>4. EntryInv'
  BY EntryStep DEF Inv
<1>5. KnownInv'
  <2>1. dtype' = dtype
    BY DEF Reads
  <2>2. \A k \in Inodes: Known(p, k)' => Known(p, k) \/ Safe(k)'
    BY <2>1, SafeStep
  <2>3. QED BY <2>1, <2>2, KnownStep DEF Inv
<1>6. QED BY <1>1, <1>2, <1>3, <1>4, <1>5 DEF Inv, ParentsStayDirs

-----------------------------------------------------------------------------
(* Paths.                                                                  *)

LEMMA SeqOf ==
  ASSUME NEW S, NEW T, NEW s \in Seq(S), \A k \in 1 .. Len(s): s[k] \in T
  PROVE  s \in Seq(T)
  OBVIOUS

\* A path without the root's "/".
LEMMA RestPath ==
  ASSUME NEW q \in Seq(Elements), q # <<>>, \A k \in 2 .. Len(q): q[k] # "/"
  PROVE  Rest(q) \in Seq(Entries)
<1>1. \A k \in 2 .. Len(q): q[k] \in Entries
  BY DEF Elements
<1>2. q \in [1 .. Len(q) -> Elements] /\ Len(q) \in Nat /\ Len(q) > 0
  OBVIOUS
<1>3. CASE q[1] = "/"
  <2>1. /\ Tail(q) \in Seq(Elements) /\ Len(Tail(q)) = Len(q) - 1
        /\ \A k \in 1 .. Len(Tail(q)): Tail(q)[k] = q[k + 1]
    BY HeadTailProperties
  <2>2. \A k \in 1 .. Len(Tail(q)): Tail(q)[k] \in Entries
    BY <1>1, <1>2, <2>1
  <2> DEFINE t == Tail(q)
  <2>3. t \in Seq(Elements) /\ \A k \in 1 .. Len(t): t[k] \in Entries
    BY <2>1, <2>2
  <2>4. t \in Seq(Entries)
    <3> HIDE DEF t
    <3>1. QED BY <2>3, SeqOf
  <2>5. QED BY <1>3, <2>4 DEF Rest
<1>4. CASE q[1] # "/"
  <2>1. q[1] \in Entries
    BY <1>2, <1>4 DEF Elements
  <2>2. \A k \in 1 .. Len(q): q[k] \in Entries
    BY <1>1, <1>2, <2>1
  <2>3. QED BY <1>4, <2>2 DEF Rest
<1>5. QED BY <1>3, <1>4

LEMMA StartInode ==
  ASSUME TypeOK, NEW p \in Procs, NEW q
  PROVE  Start(p, q) \in Inodes
  BY DirectoryConstants DEF TypeOK, Start, ROOTINO, Inodes

\* The next name of a path, and what a directory has under it.
LEMMA NextName ==
  ASSUME TypeOK, CallInv, NEW p \in Procs, Path(p) # <<>>
  PROVE  /\ Name(p) \in Entries /\ Path(p) \in Seq(Entries) /\ Tail(Path(p)) \in Seq(Entries)
         /\ \A d \in Inodes: dirent[d][Name(p)] \in InodeOrNone
<1>1. Path(p) \in Seq(Entries)
  BY DEF CallInv, Path
<1>2. Name(p) \in Entries /\ Tail(Path(p)) \in Seq(Entries)
  BY <1>1 DEF Name
<1>3. QED BY <1>1, <1>2 DEF TypeOK

-----------------------------------------------------------------------------
(* namex().                                                                *)

LEMMA SyscallEffect ==
  ASSUME Inv, NEW p \in Procs, NEW c \in Calls, Syscall(p, c)
  PROVE  /\ pc[p] = "user" /\ PlaceOf(p)
         /\ Start(p, c.path) \in Inodes
         /\ c.op \in Ops /\ (c.op = "link" => c.new # <<>>)
         /\ Local(p, "namex", "user", None, Start(p, c.path), None) /\ Others(p)
         /\ Reads(None, Start(p, c.path)) /\ TypeOK' /\ CallInv'
         /\ call'[p].op = c.op /\ call'[p].new = c.new
         /\ UNCHANGED <<cwd, fd, lock, dirent, panic, stray, overlap, lost>>
<1>1. pc[p] = "user" /\ PlaceOf(p)
  BY DEF Syscall, InDir, At, Inv, PlaceInv
<1>2. Start(p, c.path) \in Inodes
  BY StartInode DEF Inv
<1>3. c.op \in Ops /\ (c.op = "link" => c.new # <<>>)
  BY DirectoryConstants
<1>4. Reads(None, Start(p, c.path)) /\ EntriesOK'
  BY GetEffect DEF Syscall, disk, Inv
<1>5. Local(p, "namex", "user", None, Start(p, c.path), None) /\ Others(p)
  BY <1>1, <1>2, <1>3 DEF Syscall, Iput, Goto, Leave, Local, Others, Inv, TypeOK, procs,
     locals, PlaceOf, Iputs, Then, IpPlaces, InDirPlaces, TgtPlaces
<1>6. TypeOK'
  BY <1>1, <1>2, <1>3, <1>4 DEF Syscall, Iput, Goto, Leave, Failed, Places, InodeOrNone,
     EntriesOK,
     Inv, TypeOK, disk, icache, procs, locals
<1>7. CallInv'
  <2>1. /\ c \in [op: Ops, path: Seq(Elements), new: Seq(Elements)]
        /\ c.path # <<>> /\ \A k \in 2 .. Len(c.path): c.path[k] # "/"
        /\ \A k \in 2 .. Len(c.new): c.new[k] # "/"
    BY DirectoryConstants
  <2>2. Rest(c.path) \in Seq(Entries)
    BY <2>1, RestPath
  <2>3. [c EXCEPT !.path = Rest(@)] \in [op: Ops \union {"none"}, path: Seq(Entries), new: Seq(Elements)]
        /\ [c EXCEPT !.path = Rest(@)].new = c.new
    BY <2>1, <2>2
  <2>4. QED BY <2>1, <2>3 DEF Syscall, CallInv, Inv
<1>8. QED
  BY <1>1, <1>2, <1>3, <1>4, <1>5, <1>6, <1>7 DEF Syscall, Leave, Iput, Goto, Inv, TypeOK,
     CallInv, disk, icache, procs, locals, hist

LEMMA SyscallInv ==
  ASSUME Inv, NEW p \in Procs, NEW c \in Calls, Syscall(p, c)
  PROVE  Inv'
<1>1. /\ pc[p] = "user" /\ PlaceOf(p)
      /\ Start(p, c.path) \in Inodes
      /\ c.op \in Ops /\ (c.op = "link" => c.new # <<>>)
      /\ Local(p, "namex", "user", None, Start(p, c.path), None) /\ Others(p)
      /\ Reads(None, Start(p, c.path)) /\ TypeOK' /\ CallInv'
      /\ call'[p].op = c.op /\ call'[p].new = c.new
      /\ UNCHANGED <<cwd, fd, lock, dirent, panic, stray, overlap, lost>>
  BY SyscallEffect
<1>2. PlaceOf(p)'
  BY <1>1, NotNone DEF PlaceOf, Local, Then, Op, Path, Failed, Iputs, Returns, IpPlaces,
     InDirPlaces, TgtPlaces
<1>3. \A k \in Inodes: Uses(p, k)' = Uses(p, k) + (IF k = Start(p, c.path) THEN 1 ELSE 0)
  BY <1>1, NotNone DEF Local, Uses, One, PlaceOf, Then, Iputs, IpPlaces, InDirPlaces, TgtPlaces
<1>4. \A k \in Inodes: /\ lock'[k] = lock[k]
                       /\ lock'[k] = p <=> LockedBy(p, k)'
                       /\ LockedBy(p, k)' => LockedBy(p, k) \/ k = None
  BY <1>1, NotNone DEF LockedBy, Local, Then, Failed, Iputs, Inv, LockInv
<1>5. /\ pc'[p] # "free"
      /\ \A k \in Inodes: Known(p, k)' => Known(p, k) \/ Safe(k)
  BY <1>1, NotNone DEF Known, Local, Then, Failed, Iputs, InDirPlaces, PlaceOf, IpPlaces,
     TgtPlaces
<1>6. dtype[cwd'[p]] = "dir" /\ (Then(p)' \in InDirPlaces => dtype[ip'[p]] = "dir")
  BY <1>1 DEF Inv, KnownInv, Local, Then, Failed, Iputs, InDirPlaces, PlaceOf
<1>7. panic' = panic
  BY <1>1
<1>8. QED BY <1>1, <1>2, <1>3, <1>4, <1>5, <1>6, <1>7, QuietStep

LEMMA NamexFailEffect ==
  ASSUME Inv, NEW p \in Procs, NamexFail(p)
  PROVE  /\ pc[p] = "namex" /\ PlaceOf(p)
         /\ ip[p] \in Inodes /\ ref[ip[p]] > 0 /\ dtype[ip[p]] # "free" /\ Safe(ip[p])
         /\ lock[ip[p]] = None
         /\ Local(p, "put", Failed(p), ip[p], None, tgt[p]) /\ Others(p)
         /\ Reads(ip[p], None) /\ TypeOK' /\ CallInv'
         /\ UNCHANGED <<cwd, fd, call, lock, dirent, panic, hist>>
<1>1. pc[p] = "namex" /\ PlaceOf(p)
  BY DEF NamexFail, InDir, At, Inv, PlaceInv
<1>2. ip[p] \in Inodes /\ ref[ip[p]] > 0
  BY <1>1, Referenced DEF Inv, TypeOK, PlaceOf, Then, Iputs, IpPlaces, InDirPlaces,
     TgtPlaces, InodeOrNone
<1>3. dtype[ip[p]] # "free" /\ lock[ip[p]] = None
  BY <1>2, AsOnDisk DEF NamexFail, InDir, Ilock, Inv
<1>4. Safe(ip[p])
  BY <1>2, <1>3, UnlockedSafe
<1>5. Reads(ip[p], None) /\ EntriesOK'
  BY <1>2, ReadEffect DEF NamexFail, ReadLock, ReadLockGet, ReadGet, Links, Inv
<1>6. Local(p, "put", Failed(p), ip[p], None, tgt[p]) /\ Others(p)
  BY <1>1, <1>2, <1>3, <1>4 DEF NamexFail, Iput, Goto, Leave, Local, Others, Inv, TypeOK,
     procs, locals, PlaceOf, Iputs
<1>7. TypeOK'
  BY <1>1, <1>2, <1>3, <1>4, <1>5 DEF NamexFail, Iput, Goto, Leave, Failed, Places,
     InodeOrNone, EntriesOK,
     Inv, TypeOK, disk, icache, procs, locals
<1>8. CallInv'
  BY <1>1, <1>2, <1>3, <1>4 DEF NamexFail, Leave, NoCall, Iput, Goto, CallInv, Inv
<1>9. QED
  BY <1>1, <1>2, <1>3, <1>4, <1>5, <1>6, <1>7, <1>8 DEF NamexFail, Leave, Iput, Goto, Inv,
     TypeOK, CallInv, disk, icache, procs, locals, hist

LEMMA NamexFailInv ==
  ASSUME Inv, NEW p \in Procs, NamexFail(p)
  PROVE  Inv'
<1>1. /\ pc[p] = "namex" /\ PlaceOf(p)
      /\ ip[p] \in Inodes /\ ref[ip[p]] > 0 /\ dtype[ip[p]] # "free" /\ Safe(ip[p])
      /\ lock[ip[p]] = None
      /\ Local(p, "put", Failed(p), ip[p], None, tgt[p]) /\ Others(p)
      /\ Reads(ip[p], None) /\ TypeOK' /\ CallInv'
      /\ UNCHANGED <<cwd, fd, call, lock, dirent, panic, hist>>
  BY NamexFailEffect
<1>2. PlaceOf(p)'
  BY <1>1, NotNone DEF PlaceOf, Local, Then, Op, Path, Failed, Iputs, Returns, IpPlaces,
     InDirPlaces, TgtPlaces
<1>3. \A k \in Inodes: Uses(p, k)' = Uses(p, k) + (IF k = None THEN 1 ELSE 0)
  BY <1>1, NotNone DEF Local, Uses, One, PlaceOf, Then, Iputs, IpPlaces, InDirPlaces, TgtPlaces
<1>4. \A k \in Inodes: /\ lock'[k] = lock[k]
                       /\ lock'[k] = p <=> LockedBy(p, k)'
                       /\ LockedBy(p, k)' => LockedBy(p, k) \/ k = ip[p]
  BY <1>1, NotNone DEF LockedBy, Local, Then, Failed, Iputs, Inv, LockInv
<1>5. /\ pc'[p] # "free"
      /\ \A k \in Inodes: Known(p, k)' => Known(p, k) \/ Safe(k)
  BY <1>1, NotNone DEF Known, Local, Then, Failed, Iputs, InDirPlaces, PlaceOf, IpPlaces,
     TgtPlaces
<1>6. dtype[cwd'[p]] = "dir" /\ (Then(p)' \in InDirPlaces => dtype[ip'[p]] = "dir")
  BY <1>1 DEF Inv, KnownInv, Local, Then, Failed, Iputs, InDirPlaces, PlaceOf
<1>7. panic' = panic
  BY <1>1
<1>8. QED BY <1>1, <1>2, <1>3, <1>4, <1>5, <1>6, <1>7, QuietStep

LEMMA NamexStepEffect ==
  ASSUME Inv, NEW p \in Procs, NamexStep(p)
  PROVE  /\ pc[p] = "namex" /\ PlaceOf(p)
         /\ ip[p] \in Inodes /\ ref[ip[p]] > 0 /\ dtype[ip[p]] # "free" /\ Safe(ip[p])
         /\ lock[ip[p]] = None
         /\ dirent[ip[p]][Name(p)] \in Inodes /\ Path(p) # <<>> /\ dtype[ip[p]] = "dir"
         /\ Tail(Path(p)) \in Seq(Entries)
         /\ call'[p].op = Op(p) /\ call'[p].new = call[p].new
         /\ Local(p, "put", "namex", ip[p], dirent[ip[p]][Name(p)], tgt[p]) /\ Others(p)
         /\ Reads(ip[p], dirent[ip[p]][Name(p)]) /\ TypeOK' /\ CallInv'
         /\ lost' = (lost \/ (Name(p) = ".." /\ Unowned(dirent[ip[p]][Name(p)])))
         /\ UNCHANGED <<cwd, fd, lock, dirent, panic, calls, stray, overlap>>
<1>1. pc[p] = "namex" /\ PlaceOf(p)
  BY DEF NamexStep, InDir, At, Inv, PlaceInv
<1>2. ip[p] \in Inodes /\ ref[ip[p]] > 0
  BY <1>1, Referenced DEF Inv, TypeOK, PlaceOf, Then, Iputs, IpPlaces, InDirPlaces,
     TgtPlaces, InodeOrNone
<1>3. dtype[ip[p]] # "free" /\ lock[ip[p]] = None
  BY <1>2, AsOnDisk DEF NamexStep, InDir, Ilock, Inv
<1>4. Safe(ip[p])
  BY <1>2, <1>3, UnlockedSafe
<1>5. dirent[ip[p]][Name(p)] \in Inodes /\ Path(p) # <<>> /\ dtype[ip[p]] = "dir"
  BY <1>2, NextName, AsOnDisk DEF NamexStep, InodeOrNone, Inv
<1>6. Tail(Path(p)) \in Seq(Entries)
  BY <1>1, <1>2, <1>3, <1>4, <1>5, NextName DEF Inv
<1>7. call'[p].op = Op(p) /\ call'[p].new = call[p].new
  BY DEF NamexStep, Op, CallInv, Inv
<1>8. Reads(ip[p], dirent[ip[p]][Name(p)]) /\ EntriesOK'
  BY <1>2, ReadEffect DEF NamexStep, ReadLock, ReadLockGet, ReadGet, Links, Inv
<1>9. Local(p, "put", "namex", ip[p], dirent[ip[p]][Name(p)], tgt[p]) /\ Others(p)
  BY <1>1, <1>2, <1>3, <1>4, <1>5, <1>6, <1>7 DEF NamexStep, Iput, Goto, Leave, Local,
     Others, Inv, TypeOK, procs, locals, PlaceOf, Iputs
<1>10. TypeOK'
  BY <1>1, <1>2, <1>3, <1>4, <1>5, <1>6, <1>7, <1>8 DEF NamexStep, Iput, Goto, Leave,
     Failed, Places, InodeOrNone, EntriesOK,
     Inv, TypeOK, disk, icache, procs, locals
<1>11. CallInv'
  BY <1>1, <1>2, <1>3, <1>4, <1>5, <1>6, <1>7 DEF NamexStep, Leave, NoCall, Iput, Goto,
     CallInv, Inv, Path
<1>12. QED
  BY <1>1, <1>2, <1>3, <1>4, <1>5, <1>6, <1>7, <1>8, <1>9, <1>10, <1>11 DEF NamexStep,
     Leave, Iput, Goto, Inv, TypeOK, CallInv, disk, icache, procs, locals, hist, Follow

LEMMA NamexStepInv ==
  ASSUME Inv, NEW p \in Procs, NamexStep(p)
  PROVE  Inv'
<1>1. /\ pc[p] = "namex" /\ PlaceOf(p)
      /\ ip[p] \in Inodes /\ ref[ip[p]] > 0 /\ dtype[ip[p]] # "free" /\ Safe(ip[p])
      /\ lock[ip[p]] = None
      /\ dirent[ip[p]][Name(p)] \in Inodes /\ Path(p) # <<>> /\ dtype[ip[p]] = "dir"
      /\ Tail(Path(p)) \in Seq(Entries)
      /\ call'[p].op = Op(p) /\ call'[p].new = call[p].new
      /\ Local(p, "put", "namex", ip[p], dirent[ip[p]][Name(p)], tgt[p]) /\ Others(p)
      /\ Reads(ip[p], dirent[ip[p]][Name(p)]) /\ TypeOK' /\ CallInv'
      /\ lost' = (lost \/ (Name(p) = ".." /\ Unowned(dirent[ip[p]][Name(p)])))
      /\ UNCHANGED <<cwd, fd, lock, dirent, panic, calls, stray, overlap>>
  BY NamexStepEffect
<1>2. PlaceOf(p)'
  BY <1>1, NotNone DEF PlaceOf, Local, Then, Op, Path, Failed, Iputs, Returns, IpPlaces,
     InDirPlaces, TgtPlaces
<1>3. \A k \in Inodes: Uses(p, k)' = Uses(p, k) + (IF k = dirent[ip[p]][Name(p)] THEN 1 ELSE 0)
  BY <1>1, NotNone DEF Local, Uses, One, PlaceOf, Then, Iputs, IpPlaces, InDirPlaces, TgtPlaces
<1>4. \A k \in Inodes: /\ lock'[k] = lock[k]
                       /\ lock'[k] = p <=> LockedBy(p, k)'
                       /\ LockedBy(p, k)' => LockedBy(p, k) \/ k = ip[p]
  BY <1>1, NotNone DEF LockedBy, Local, Then, Failed, Iputs, Inv, LockInv
<1>5. /\ pc'[p] # "free"
      /\ \A k \in Inodes: Known(p, k)' => Known(p, k) \/ Safe(k)
  BY <1>1, NotNone DEF Known, Local, Then, Failed, Iputs, InDirPlaces, PlaceOf, IpPlaces,
     TgtPlaces
<1>6. dtype[cwd'[p]] = "dir" /\ (Then(p)' \in InDirPlaces => dtype[ip'[p]] = "dir")
  BY <1>1 DEF Inv, KnownInv, Local, Then, Failed, Iputs, InDirPlaces, PlaceOf
<1>7. panic' = panic
  BY <1>1
<1>8. QED BY <1>1, <1>2, <1>3, <1>4, <1>5, <1>6, <1>7, QuietStep

LEMMA NamexParentEffect ==
  ASSUME Inv, NEW p \in Procs, NamexParent(p)
  PROVE  /\ pc[p] = "namex" /\ PlaceOf(p)
         /\ ip[p] \in Inodes /\ ref[ip[p]] > 0 /\ dtype[ip[p]] # "free" /\ Safe(ip[p])
         /\ lock[ip[p]] = None
         /\ dtype[ip[p]] = "dir"
         /\ Path(p) # <<>> /\ Parent(p)
         /\ \/ Op(p) \in Creates /\ Found(p) = "create" /\ tgt[p] = None
            \/ Op(p) = "unlink" /\ Found(p) = "unlink" /\ tgt[p] = None
            \/ Op(p) = "link" /\ Found(p) = "linknew" /\ tgt[p] # None
         /\ Local(p, Found(p), "user", None, ip[p], tgt[p]) /\ Others(p)
         /\ Reads(ip[p], None) /\ TypeOK' /\ CallInv'
         /\ UNCHANGED <<cwd, fd, call, lock, dirent, panic, hist>>
<1>1. pc[p] = "namex" /\ PlaceOf(p)
  BY DEF NamexParent, InDir, At, Inv, PlaceInv
<1>2. ip[p] \in Inodes /\ ref[ip[p]] > 0
  BY <1>1, Referenced DEF Inv, TypeOK, PlaceOf, Then, Iputs, IpPlaces, InDirPlaces,
     TgtPlaces, InodeOrNone
<1>3. dtype[ip[p]] # "free" /\ lock[ip[p]] = None
  BY <1>2, AsOnDisk DEF NamexParent, InDir, Ilock, Inv
<1>4. Safe(ip[p])
  BY <1>2, <1>3, UnlockedSafe
<1>5. dtype[ip[p]] = "dir"
  BY <1>1, <1>2, <1>3, <1>4, AsOnDisk DEF NamexParent, InDir, Inv
<1>6. Path(p) # <<>> /\ Parent(p)
  BY DEF NamexParent, AtParent
<1>7. \/ Op(p) \in Creates /\ Found(p) = "create" /\ tgt[p] = None
      \/ Op(p) = "unlink" /\ Found(p) = "unlink" /\ tgt[p] = None
      \/ Op(p) = "link" /\ Found(p) = "linknew" /\ tgt[p] # None
  BY <1>1, <1>2, <1>3, <1>4, <1>5, <1>6 DEF Parent, Found, Creates, PlaceOf, Then, Iputs
<1>8. Reads(ip[p], None) /\ EntriesOK'
  BY <1>2, ReadEffect DEF NamexParent, ReadLock, ReadLockGet, ReadGet, Links, Inv
<1>9. Local(p, Found(p), "user", None, ip[p], tgt[p]) /\ Others(p)
  BY <1>1, <1>2, <1>3, <1>4, <1>5, <1>6, <1>7 DEF NamexParent, Iput, Goto, Leave, Local,
     Others, Inv, TypeOK, procs, locals, PlaceOf, Iputs
<1>10. TypeOK'
  BY <1>1, <1>2, <1>3, <1>4, <1>5, <1>6, <1>7, <1>8 DEF NamexParent, Iput, Goto, Leave,
     Failed, Places, InodeOrNone, EntriesOK,
     Inv, TypeOK, disk, icache, procs, locals, Found
<1>11. CallInv'
  BY <1>1, <1>2, <1>3, <1>4, <1>5, <1>6, <1>7 DEF NamexParent, Leave, NoCall, Iput, Goto,
     CallInv, Inv
<1>12. QED
  BY <1>1, <1>2, <1>3, <1>4, <1>5, <1>6, <1>7, <1>8, <1>9, <1>10, <1>11 DEF NamexParent,
     Leave, Iput, Goto, Inv, TypeOK, CallInv, disk, icache, procs, locals, hist

LEMMA NamexParentInv ==
  ASSUME Inv, NEW p \in Procs, NamexParent(p)
  PROVE  Inv'
<1>1. /\ pc[p] = "namex" /\ PlaceOf(p)
      /\ ip[p] \in Inodes /\ ref[ip[p]] > 0 /\ dtype[ip[p]] # "free" /\ Safe(ip[p])
      /\ lock[ip[p]] = None
      /\ dtype[ip[p]] = "dir"
      /\ Path(p) # <<>> /\ Parent(p)
      /\ \/ Op(p) \in Creates /\ Found(p) = "create" /\ tgt[p] = None
         \/ Op(p) = "unlink" /\ Found(p) = "unlink" /\ tgt[p] = None
         \/ Op(p) = "link" /\ Found(p) = "linknew" /\ tgt[p] # None
      /\ Local(p, Found(p), "user", None, ip[p], tgt[p]) /\ Others(p)
      /\ Reads(ip[p], None) /\ TypeOK' /\ CallInv'
      /\ UNCHANGED <<cwd, fd, call, lock, dirent, panic, hist>>
  BY NamexParentEffect
<1>2. PlaceOf(p)'
  BY <1>1, NotNone DEF PlaceOf, Local, Then, Op, Path, Failed, Iputs, Returns, IpPlaces,
     InDirPlaces, TgtPlaces, Creates
<1>3. \A k \in Inodes: Uses(p, k)' = Uses(p, k) + (IF k = None THEN 1 ELSE 0)
  BY <1>1, NotNone DEF Local, Uses, One, PlaceOf, Then, Iputs, IpPlaces, InDirPlaces, TgtPlaces
<1>4. \A k \in Inodes: /\ lock'[k] = lock[k]
                       /\ lock'[k] = p <=> LockedBy(p, k)'
                       /\ LockedBy(p, k)' => LockedBy(p, k) \/ k = ip[p]
  BY <1>1, NotNone DEF LockedBy, Local, Then, Failed, Iputs, Inv, LockInv
<1>5. /\ pc'[p] # "free"
      /\ \A k \in Inodes: Known(p, k)' => Known(p, k) \/ Safe(k)
  BY <1>1, NotNone DEF Known, Local, Then, Failed, Iputs, InDirPlaces, PlaceOf, IpPlaces,
     TgtPlaces
<1>6. dtype[cwd'[p]] = "dir" /\ (Then(p)' \in InDirPlaces => dtype[ip'[p]] = "dir")
  BY <1>1 DEF Inv, KnownInv, Local, Then, Failed, Iputs, InDirPlaces, PlaceOf
<1>7. panic' = panic
  BY <1>1
<1>8. QED BY <1>1, <1>2, <1>3, <1>4, <1>5, <1>6, <1>7, QuietStep

LEMMA NamexFailEndEffect ==
  ASSUME Inv, NEW p \in Procs, NamexEnd(p), Parent(p)
  PROVE  /\ pc[p] = "namex" /\ PlaceOf(p)
         /\ Local(p, "put", Failed(p), ip[p], None, tgt[p]) /\ Others(p)
         /\ Reads(None, None) /\ TypeOK' /\ CallInv'
         /\ UNCHANGED <<cwd, fd, call, lock, dirent, panic, hist>>
<1>1. pc[p] = "namex" /\ PlaceOf(p)
  BY DEF NamexEnd, InDir, At, Inv, PlaceInv
<1>2. Reads(None, None) /\ EntriesOK'
  BY NoEffect DEF NamexEnd, disk, icache, Inv
<1>3. Local(p, "put", Failed(p), ip[p], None, tgt[p]) /\ Others(p)
  BY <1>1 DEF NamexEnd, Iput, Goto, Leave, Local, Others, Inv, TypeOK, procs, locals,
     PlaceOf, Iputs
<1>4. TypeOK'
  BY <1>1, <1>2 DEF NamexEnd, Iput, Goto, Leave, Failed, Places, InodeOrNone, EntriesOK,
     Inv, TypeOK, disk, icache, procs, locals
<1>5. CallInv'
  BY <1>1 DEF NamexEnd, Leave, NoCall, Iput, Goto, CallInv, Inv
<1>6. QED
  BY <1>1, <1>2, <1>3, <1>4, <1>5 DEF NamexEnd, Leave, Iput, Goto, Inv, TypeOK, CallInv,
     disk, icache, procs, locals, hist

LEMMA NamexFailEndInv ==
  ASSUME Inv, NEW p \in Procs, NamexEnd(p), Parent(p)
  PROVE  Inv'
<1>1. /\ pc[p] = "namex" /\ PlaceOf(p)
      /\ Local(p, "put", Failed(p), ip[p], None, tgt[p]) /\ Others(p)
      /\ Reads(None, None) /\ TypeOK' /\ CallInv'
      /\ UNCHANGED <<cwd, fd, call, lock, dirent, panic, hist>>
  BY NamexFailEndEffect
<1>2. PlaceOf(p)'
  BY <1>1, NotNone DEF PlaceOf, Local, Then, Op, Path, Failed, Iputs, Returns, IpPlaces,
     InDirPlaces, TgtPlaces
<1>3. \A k \in Inodes: Uses(p, k)' = Uses(p, k) + (IF k = None THEN 1 ELSE 0)
  BY <1>1, NotNone DEF Local, Uses, One, PlaceOf, Then, Iputs, IpPlaces, InDirPlaces, TgtPlaces
<1>4. \A k \in Inodes: /\ lock'[k] = lock[k]
                       /\ lock'[k] = p <=> LockedBy(p, k)'
                       /\ LockedBy(p, k)' => LockedBy(p, k) \/ k = None
  BY <1>1, NotNone DEF LockedBy, Local, Then, Failed, Iputs, Inv, LockInv
<1>5. /\ pc'[p] # "free"
      /\ \A k \in Inodes: Known(p, k)' => Known(p, k) \/ Safe(k)
  BY <1>1, NotNone DEF Known, Local, Then, Failed, Iputs, InDirPlaces, PlaceOf, IpPlaces,
     TgtPlaces
<1>6. dtype[cwd'[p]] = "dir" /\ (Then(p)' \in InDirPlaces => dtype[ip'[p]] = "dir")
  BY <1>1 DEF Inv, KnownInv, Local, Then, Failed, Iputs, InDirPlaces, PlaceOf
<1>7. panic' = panic
  BY <1>1
<1>8. QED BY <1>1, <1>2, <1>3, <1>4, <1>5, <1>6, <1>7, QuietStep

LEMMA NamexFoundEffect ==
  ASSUME Inv, NEW p \in Procs, NamexEnd(p), ~Parent(p)
  PROVE  /\ pc[p] = "namex" /\ PlaceOf(p)
         /\ \/ Op(p) \in {"open", "openw"} /\ Found(p) = "open" /\ tgt[p] = None
            \/ Op(p) = "chdir" /\ Found(p) = "chdir" /\ tgt[p] = None
            \/ Op(p) = "link" /\ Found(p) = "linkold" /\ tgt[p] = None
         /\ Local(p, Found(p), "user", None, ip[p], tgt[p]) /\ Others(p)
         /\ Reads(None, None) /\ TypeOK' /\ CallInv'
         /\ UNCHANGED <<cwd, fd, call, lock, dirent, panic, hist>>
<1>1. pc[p] = "namex" /\ PlaceOf(p)
  BY DEF NamexEnd, InDir, At, Inv, PlaceInv
<1>2. \/ Op(p) \in {"open", "openw"} /\ Found(p) = "open" /\ tgt[p] = None
      \/ Op(p) = "chdir" /\ Found(p) = "chdir" /\ tgt[p] = None
      \/ Op(p) = "link" /\ Found(p) = "linkold" /\ tgt[p] = None
  BY <1>1 DEF Parent, Found, Creates, Ops, PlaceOf, Then, Iputs
<1>3. Reads(None, None) /\ EntriesOK'
  BY NoEffect DEF NamexEnd, disk, icache, Inv
<1>4. Local(p, Found(p), "user", None, ip[p], tgt[p]) /\ Others(p)
  BY <1>1, <1>2 DEF NamexEnd, Iput, Goto, Leave, Local, Others, Inv, TypeOK, procs, locals,
     PlaceOf, Iputs
<1>5. TypeOK'
  BY <1>1, <1>2, <1>3 DEF NamexEnd, Iput, Goto, Leave, Failed, Places, InodeOrNone, EntriesOK,
     Inv, TypeOK, disk, icache, procs, locals
<1>6. CallInv'
  BY <1>1, <1>2 DEF NamexEnd, Leave, NoCall, Iput, Goto, CallInv, Inv
<1>7. QED
  BY <1>1, <1>2, <1>3, <1>4, <1>5, <1>6 DEF NamexEnd, Leave, Iput, Goto, Inv, TypeOK,
     CallInv, disk, icache, procs, locals, hist

LEMMA NamexFoundInv ==
  ASSUME Inv, NEW p \in Procs, NamexEnd(p), ~Parent(p)
  PROVE  Inv'
<1>1. /\ pc[p] = "namex" /\ PlaceOf(p)
      /\ \/ Op(p) \in {"open", "openw"} /\ Found(p) = "open" /\ tgt[p] = None
         \/ Op(p) = "chdir" /\ Found(p) = "chdir" /\ tgt[p] = None
         \/ Op(p) = "link" /\ Found(p) = "linkold" /\ tgt[p] = None
      /\ Local(p, Found(p), "user", None, ip[p], tgt[p]) /\ Others(p)
      /\ Reads(None, None) /\ TypeOK' /\ CallInv'
      /\ UNCHANGED <<cwd, fd, call, lock, dirent, panic, hist>>
  BY NamexFoundEffect
<1>2. PlaceOf(p)'
  BY <1>1, NotNone DEF PlaceOf, Local, Then, Op, Path, Failed, Iputs, Returns, IpPlaces,
     InDirPlaces, TgtPlaces
<1>3. \A k \in Inodes: Uses(p, k)' = Uses(p, k) + (IF k = None THEN 1 ELSE 0)
  BY <1>1, NotNone DEF Local, Uses, One, PlaceOf, Then, Iputs, IpPlaces, InDirPlaces, TgtPlaces
<1>4. \A k \in Inodes: /\ lock'[k] = lock[k]
                       /\ lock'[k] = p <=> LockedBy(p, k)'
                       /\ LockedBy(p, k)' => LockedBy(p, k) \/ k = None
  BY <1>1, NotNone DEF LockedBy, Local, Then, Failed, Iputs, Inv, LockInv
<1>5. /\ pc'[p] # "free"
      /\ \A k \in Inodes: Known(p, k)' => Known(p, k) \/ Safe(k)
  BY <1>1, NotNone DEF Known, Local, Then, Failed, Iputs, InDirPlaces, PlaceOf, IpPlaces,
     TgtPlaces
<1>6. dtype[cwd'[p]] = "dir" /\ (Then(p)' \in InDirPlaces => dtype[ip'[p]] = "dir")
  BY <1>1 DEF Inv, KnownInv, Local, Then, Failed, Iputs, InDirPlaces, PlaceOf
<1>7. panic' = panic
  BY <1>1
<1>8. QED BY <1>1, <1>2, <1>3, <1>4, <1>5, <1>6, <1>7, QuietStep

-----------------------------------------------------------------------------
(* iput(), open(), close() and chdir().                                    *)

LEMMA PutWaitEffect ==
  ASSUME Inv, NEW p \in Procs, PutTest(p), ~Last(put[p])
  PROVE  /\ pc[p] = "put" /\ PlaceOf(p)
         /\ Local(p, "dec", ret[p], put[p], ip[p], tgt[p]) /\ Others(p)
         /\ Reads(None, None) /\ TypeOK' /\ CallInv'
         /\ overlap' = (overlap \/ (/\ valid[put[p]] /\ nlink[put[p]] = 0 /\ ref[put[p]] > 1
                                    /\ \E q \in Procs: pc[q] = "dec" /\ put[q] = put[p]))
         /\ UNCHANGED <<cwd, fd, call, lock, dirent, panic, calls, stray, lost>>
<1>1. pc[p] = "put" /\ PlaceOf(p)
  BY DEF PutTest, InDir, At, Inv, PlaceInv
<1>2. Reads(None, None) /\ EntriesOK'
  BY NoEffect DEF PutTest, disk, icache, Inv
<1>3. Local(p, "dec", ret[p], put[p], ip[p], tgt[p]) /\ Others(p)
  BY <1>1 DEF PutTest, Iput, Goto, Leave, Local, Others, Inv, TypeOK, procs, locals,
     PlaceOf, Iputs
<1>4. TypeOK'
  BY <1>1, <1>2 DEF PutTest, Iput, Goto, Leave, Failed, Places, InodeOrNone, EntriesOK,
     Inv, TypeOK, disk, icache, procs, locals
<1>5. CallInv'
  BY <1>1 DEF PutTest, Leave, NoCall, Iput, Goto, CallInv, Inv
<1>6. QED
  BY <1>1, <1>2, <1>3, <1>4, <1>5 DEF PutTest, Leave, Iput, Goto, Inv, TypeOK, CallInv,
     disk, icache, procs, locals, hist

LEMMA PutWaitInv ==
  ASSUME Inv, NEW p \in Procs, PutTest(p), ~Last(put[p])
  PROVE  Inv'
<1>1. /\ pc[p] = "put" /\ PlaceOf(p)
      /\ Local(p, "dec", ret[p], put[p], ip[p], tgt[p]) /\ Others(p)
      /\ Reads(None, None) /\ TypeOK' /\ CallInv'
      /\ overlap' = (overlap \/ (/\ valid[put[p]] /\ nlink[put[p]] = 0 /\ ref[put[p]] > 1
                                 /\ \E q \in Procs: pc[q] = "dec" /\ put[q] = put[p]))
      /\ UNCHANGED <<cwd, fd, call, lock, dirent, panic, calls, stray, lost>>
  BY PutWaitEffect
<1>2. PlaceOf(p)'
  BY <1>1, NotNone DEF PlaceOf, Local, Then, Op, Path, Failed, Iputs, Returns, IpPlaces,
     InDirPlaces, TgtPlaces
<1>3. \A k \in Inodes: Uses(p, k)' = Uses(p, k) + (IF k = None THEN 1 ELSE 0)
  BY <1>1, NotNone DEF Local, Uses, One, PlaceOf, Then, Iputs, IpPlaces, InDirPlaces, TgtPlaces
<1>4. \A k \in Inodes: /\ lock'[k] = lock[k]
                       /\ lock'[k] = p <=> LockedBy(p, k)'
                       /\ LockedBy(p, k)' => LockedBy(p, k) \/ k = None
  BY <1>1, NotNone DEF LockedBy, Local, Then, Failed, Iputs, Inv, LockInv
<1>5. /\ pc'[p] # "free"
      /\ \A k \in Inodes: Known(p, k)' => Known(p, k) \/ Safe(k)
  BY <1>1, NotNone DEF Known, Local, Then, Failed, Iputs, InDirPlaces, PlaceOf, IpPlaces,
     TgtPlaces
<1>6. dtype[cwd'[p]] = "dir" /\ (Then(p)' \in InDirPlaces => dtype[ip'[p]] = "dir")
  BY <1>1 DEF Inv, KnownInv, Local, Then, Failed, Iputs, InDirPlaces, PlaceOf
<1>7. panic' = panic
  BY <1>1
<1>8. QED BY <1>1, <1>2, <1>3, <1>4, <1>5, <1>6, <1>7, QuietStep

LEMMA OpenFile ==
  ASSUME TypeOK, NEW p \in Procs, NEW i, NEW ok \in BOOLEAN, OpenInode(p, i, ok), pc'[p] = "user"
  PROVE  fd[p] = None /\ fd' = [fd EXCEPT ![p] = i] /\ Leave(p) /\ UNCHANGED <<put, ret>>
  BY DEF OpenInode, TypeOK, Iput, Goto

LEMMA OpenNot ==
  ASSUME TypeOK, NEW p \in Procs, NEW i, NEW ok \in BOOLEAN, OpenInode(p, i, ok), pc'[p] # "user"
  PROVE  Iput(p, i, "user") /\ UNCHANGED <<fd, call>>
  BY DEF OpenInode, TypeOK, Leave, Goto

LEMMA OpenDoneEffect ==
  ASSUME Inv, NEW p \in Procs, Open(p), pc'[p] = "user"
  PROVE  /\ pc[p] = "open" /\ PlaceOf(p)
         /\ ip[p] \in Inodes /\ ref[ip[p]] > 0 /\ dtype[ip[p]] # "free" /\ Safe(ip[p])
         /\ lock[ip[p]] = None
         /\ Local(p, "user", "user", None, None, None) /\ Others(p)
         /\ Reads(ip[p], None) /\ TypeOK' /\ CallInv'
         /\ fd[p] = None /\ fd'[p] = ip[p]
         /\ call'[p] = NoCall
         /\ UNCHANGED <<cwd, lock, dirent, panic, hist>>
<1>1. pc[p] = "open" /\ PlaceOf(p)
  BY DEF Open, InDir, At, Inv, PlaceInv
<1>2. ip[p] \in Inodes /\ ref[ip[p]] > 0
  BY <1>1, Referenced DEF Inv, TypeOK, PlaceOf, Then, Iputs, IpPlaces, InDirPlaces,
     TgtPlaces, InodeOrNone
<1>3. dtype[ip[p]] # "free" /\ lock[ip[p]] = None
  BY <1>2, AsOnDisk DEF Open, InDir, Ilock, Inv
<1>4. Safe(ip[p])
  BY <1>2, <1>3, UnlockedSafe
<1>5. tgt[p] = None
  BY <1>1, <1>2, <1>3, <1>4 DEF PlaceOf, Then, Iputs, TgtPlaces
<1>6. /\ fd[p] = None /\ fd' = [fd EXCEPT ![p] = ip[p]]
      /\ Leave(p) /\ UNCHANGED <<put, ret>>
  BY OpenFile DEF Open, Inv
<1>7. Reads(ip[p], None) /\ EntriesOK'
  BY <1>2, ReadEffect DEF Open, ReadLock, ReadLockGet, ReadGet, Links, Inv
<1>8. Local(p, "user", "user", None, None, None) /\ Others(p)
  BY <1>1, <1>2, <1>3, <1>4, <1>5, <1>6 DEF Open, Iput, Goto, Leave, Local, Others, Inv,
     TypeOK, procs, locals, PlaceOf, Iputs
<1>9. TypeOK'
  BY <1>1, <1>2, <1>3, <1>4, <1>5, <1>6, <1>7 DEF Open, Iput, Goto, Leave, Failed, Places,
     InodeOrNone, EntriesOK,
     Inv, TypeOK, disk, icache, procs, locals
<1>10. CallInv'
  BY <1>1, <1>2, <1>3, <1>4, <1>5, <1>6 DEF Open, Leave, NoCall, Iput, Goto, CallInv, Inv
<1>11. QED
  BY <1>1, <1>2, <1>3, <1>4, <1>5, <1>6, <1>7, <1>8, <1>9, <1>10 DEF Open, Leave, Iput,
     Goto, Inv, TypeOK, CallInv, disk, icache, procs, locals, hist

LEMMA OpenDoneInv ==
  ASSUME Inv, NEW p \in Procs, Open(p), pc'[p] = "user"
  PROVE  Inv'
<1>1. /\ pc[p] = "open" /\ PlaceOf(p)
      /\ ip[p] \in Inodes /\ ref[ip[p]] > 0 /\ dtype[ip[p]] # "free" /\ Safe(ip[p])
      /\ lock[ip[p]] = None
      /\ Local(p, "user", "user", None, None, None) /\ Others(p)
      /\ Reads(ip[p], None) /\ TypeOK' /\ CallInv'
      /\ fd[p] = None /\ fd'[p] = ip[p]
      /\ call'[p] = NoCall
      /\ UNCHANGED <<cwd, lock, dirent, panic, hist>>
  BY OpenDoneEffect
<1>2. PlaceOf(p)'
  BY <1>1, NotNone DEF PlaceOf, Local, Then, Op, Path, Failed, Iputs, Returns, IpPlaces,
     InDirPlaces, TgtPlaces
<1>3. \A k \in Inodes: Uses(p, k)' = Uses(p, k) + (IF k = None THEN 1 ELSE 0)
  BY <1>1, NotNone DEF Local, Uses, One, PlaceOf, Then, Iputs, IpPlaces, InDirPlaces, TgtPlaces
<1>4. \A k \in Inodes: /\ lock'[k] = lock[k]
                       /\ lock'[k] = p <=> LockedBy(p, k)'
                       /\ LockedBy(p, k)' => LockedBy(p, k) \/ k = ip[p]
  BY <1>1, NotNone DEF LockedBy, Local, Then, Failed, Iputs, Inv, LockInv
<1>5. /\ pc'[p] # "free"
      /\ \A k \in Inodes: Known(p, k)' => Known(p, k) \/ Safe(k)
  BY <1>1, NotNone DEF Known, Local, Then, Failed, Iputs, InDirPlaces, PlaceOf, IpPlaces,
     TgtPlaces
<1>6. dtype[cwd'[p]] = "dir" /\ (Then(p)' \in InDirPlaces => dtype[ip'[p]] = "dir")
  BY <1>1 DEF Inv, KnownInv, Local, Then, Failed, Iputs, InDirPlaces, PlaceOf
<1>7. panic' = panic
  BY <1>1
<1>8. QED BY <1>1, <1>2, <1>3, <1>4, <1>5, <1>6, <1>7, QuietStep

LEMMA OpenFailEffect ==
  ASSUME Inv, NEW p \in Procs, Open(p), pc'[p] # "user"
  PROVE  /\ pc[p] = "open" /\ PlaceOf(p)
         /\ ip[p] \in Inodes /\ ref[ip[p]] > 0 /\ dtype[ip[p]] # "free" /\ Safe(ip[p])
         /\ lock[ip[p]] = None
         /\ Local(p, "put", "user", ip[p], None, None) /\ Others(p)
         /\ Reads(ip[p], None) /\ TypeOK' /\ CallInv'
         /\ UNCHANGED <<cwd, fd, call, lock, dirent, panic, hist>>
<1>1. pc[p] = "open" /\ PlaceOf(p)
  BY DEF Open, InDir, At, Inv, PlaceInv
<1>2. ip[p] \in Inodes /\ ref[ip[p]] > 0
  BY <1>1, Referenced DEF Inv, TypeOK, PlaceOf, Then, Iputs, IpPlaces, InDirPlaces,
     TgtPlaces, InodeOrNone
<1>3. dtype[ip[p]] # "free" /\ lock[ip[p]] = None
  BY <1>2, AsOnDisk DEF Open, InDir, Ilock, Inv
<1>4. Safe(ip[p])
  BY <1>2, <1>3, UnlockedSafe
<1>5. tgt[p] = None
  BY <1>1, <1>2, <1>3, <1>4 DEF PlaceOf, Then, Iputs, TgtPlaces
<1>6. Iput(p, ip[p], "user") /\ UNCHANGED <<fd, call>>
  BY OpenNot DEF Open, Inv
<1>7. Reads(ip[p], None) /\ EntriesOK'
  BY <1>2, ReadEffect DEF Open, ReadLock, ReadLockGet, ReadGet, Links, Inv
<1>8. Local(p, "put", "user", ip[p], None, None) /\ Others(p)
  BY <1>1, <1>2, <1>3, <1>4, <1>5, <1>6 DEF Open, Iput, Goto, Leave, Local, Others, Inv,
     TypeOK, procs, locals, PlaceOf, Iputs
<1>9. TypeOK'
  BY <1>1, <1>2, <1>3, <1>4, <1>5, <1>6, <1>7 DEF Open, Iput, Goto, Leave, Failed, Places,
     InodeOrNone, EntriesOK,
     Inv, TypeOK, disk, icache, procs, locals
<1>10. CallInv'
  BY <1>1, <1>2, <1>3, <1>4, <1>5, <1>6 DEF Open, Leave, NoCall, Iput, Goto, CallInv, Inv
<1>11. QED
  BY <1>1, <1>2, <1>3, <1>4, <1>5, <1>6, <1>7, <1>8, <1>9, <1>10 DEF Open, Leave, Iput,
     Goto, Inv, TypeOK, CallInv, disk, icache, procs, locals, hist

LEMMA OpenFailInv ==
  ASSUME Inv, NEW p \in Procs, Open(p), pc'[p] # "user"
  PROVE  Inv'
<1>1. /\ pc[p] = "open" /\ PlaceOf(p)
      /\ ip[p] \in Inodes /\ ref[ip[p]] > 0 /\ dtype[ip[p]] # "free" /\ Safe(ip[p])
      /\ lock[ip[p]] = None
      /\ Local(p, "put", "user", ip[p], None, None) /\ Others(p)
      /\ Reads(ip[p], None) /\ TypeOK' /\ CallInv'
      /\ UNCHANGED <<cwd, fd, call, lock, dirent, panic, hist>>
  BY OpenFailEffect
<1>2. PlaceOf(p)'
  BY <1>1, NotNone DEF PlaceOf, Local, Then, Op, Path, Failed, Iputs, Returns, IpPlaces,
     InDirPlaces, TgtPlaces
<1>3. \A k \in Inodes: Uses(p, k)' = Uses(p, k) + (IF k = None THEN 1 ELSE 0)
  BY <1>1, NotNone DEF Local, Uses, One, PlaceOf, Then, Iputs, IpPlaces, InDirPlaces, TgtPlaces
<1>4. \A k \in Inodes: /\ lock'[k] = lock[k]
                       /\ lock'[k] = p <=> LockedBy(p, k)'
                       /\ LockedBy(p, k)' => LockedBy(p, k) \/ k = ip[p]
  BY <1>1, NotNone DEF LockedBy, Local, Then, Failed, Iputs, Inv, LockInv
<1>5. /\ pc'[p] # "free"
      /\ \A k \in Inodes: Known(p, k)' => Known(p, k) \/ Safe(k)
  BY <1>1, NotNone DEF Known, Local, Then, Failed, Iputs, InDirPlaces, PlaceOf, IpPlaces,
     TgtPlaces
<1>6. dtype[cwd'[p]] = "dir" /\ (Then(p)' \in InDirPlaces => dtype[ip'[p]] = "dir")
  BY <1>1 DEF Inv, KnownInv, Local, Then, Failed, Iputs, InDirPlaces, PlaceOf
<1>7. panic' = panic
  BY <1>1
<1>8. QED BY <1>1, <1>2, <1>3, <1>4, <1>5, <1>6, <1>7, QuietStep

LEMMA CloseEffect ==
  ASSUME Inv, NEW p \in Procs, Close(p)
  PROVE  /\ pc[p] = "user" /\ PlaceOf(p)
         /\ Local(p, "put", "user", fd[p], None, None) /\ Others(p)
         /\ Reads(None, None) /\ TypeOK' /\ CallInv'
         /\ fd[p] # None /\ fd'[p] = None
         /\ UNCHANGED <<cwd, call, lock, dirent, panic, hist>>
<1>1. pc[p] = "user" /\ PlaceOf(p)
  BY DEF Close, InDir, At, Inv, PlaceInv
<1>2. tgt[p] = None
  BY <1>1 DEF PlaceOf, Then, Iputs, TgtPlaces
<1>3. ip[p] = None
  BY <1>1, <1>2 DEF PlaceOf, Then, Iputs, IpPlaces, InDirPlaces
<1>4. Reads(None, None) /\ EntriesOK'
  BY NoEffect DEF Close, disk, icache, Inv
<1>5. Local(p, "put", "user", fd[p], None, None) /\ Others(p)
  BY <1>1, <1>2, <1>3 DEF Close, Iput, Goto, Leave, Local, Others, Inv, TypeOK, procs,
     locals, PlaceOf, Iputs
<1>6. TypeOK'
  BY <1>1, <1>2, <1>3, <1>4 DEF Close, Iput, Goto, Leave, Failed, Places, InodeOrNone,
     EntriesOK,
     Inv, TypeOK, disk, icache, procs, locals
<1>7. CallInv'
  BY <1>1, <1>2, <1>3 DEF Close, Leave, NoCall, Iput, Goto, CallInv, Inv
<1>8. QED
  BY <1>1, <1>2, <1>3, <1>4, <1>5, <1>6, <1>7 DEF Close, Leave, Iput, Goto, Inv, TypeOK,
     CallInv, disk, icache, procs, locals, hist

LEMMA CloseInv ==
  ASSUME Inv, NEW p \in Procs, Close(p)
  PROVE  Inv'
<1>1. /\ pc[p] = "user" /\ PlaceOf(p)
      /\ Local(p, "put", "user", fd[p], None, None) /\ Others(p)
      /\ Reads(None, None) /\ TypeOK' /\ CallInv'
      /\ fd[p] # None /\ fd'[p] = None
      /\ UNCHANGED <<cwd, call, lock, dirent, panic, hist>>
  BY CloseEffect
<1>2. PlaceOf(p)'
  BY <1>1, NotNone DEF PlaceOf, Local, Then, Op, Path, Failed, Iputs, Returns, IpPlaces,
     InDirPlaces, TgtPlaces
<1>3. \A k \in Inodes: Uses(p, k)' = Uses(p, k) + (IF k = None THEN 1 ELSE 0)
  BY <1>1, NotNone DEF Local, Uses, One, PlaceOf, Then, Iputs, IpPlaces, InDirPlaces, TgtPlaces
<1>4. \A k \in Inodes: /\ lock'[k] = lock[k]
                       /\ lock'[k] = p <=> LockedBy(p, k)'
                       /\ LockedBy(p, k)' => LockedBy(p, k) \/ k = None
  BY <1>1, NotNone DEF LockedBy, Local, Then, Failed, Iputs, Inv, LockInv
<1>5. /\ pc'[p] # "free"
      /\ \A k \in Inodes: Known(p, k)' => Known(p, k) \/ Safe(k)
  BY <1>1, NotNone DEF Known, Local, Then, Failed, Iputs, InDirPlaces, PlaceOf, IpPlaces,
     TgtPlaces
<1>6. dtype[cwd'[p]] = "dir" /\ (Then(p)' \in InDirPlaces => dtype[ip'[p]] = "dir")
  BY <1>1 DEF Inv, KnownInv, Local, Then, Failed, Iputs, InDirPlaces, PlaceOf
<1>7. panic' = panic
  BY <1>1
<1>8. QED BY <1>1, <1>2, <1>3, <1>4, <1>5, <1>6, <1>7, QuietStep

LEMMA ChdirDoneEffect ==
  ASSUME Inv, NEW p \in Procs, Chdir(p), Type(ip[p]) = "dir"
  PROVE  /\ pc[p] = "chdir" /\ PlaceOf(p)
         /\ ip[p] \in Inodes /\ ref[ip[p]] > 0 /\ dtype[ip[p]] # "free" /\ Safe(ip[p])
         /\ lock[ip[p]] = None
         /\ dtype[ip[p]] = "dir"
         /\ cwd[p] \in Inodes
         /\ Local(p, "put", "user", cwd[p], None, None) /\ Others(p)
         /\ Reads(ip[p], None) /\ TypeOK' /\ CallInv'
         /\ cwd'[p] = ip[p]
         /\ UNCHANGED <<fd, call, lock, dirent, panic, hist>>
<1>1. pc[p] = "chdir" /\ PlaceOf(p)
  BY DEF Chdir, InDir, At, Inv, PlaceInv
<1>2. ip[p] \in Inodes /\ ref[ip[p]] > 0
  BY <1>1, Referenced DEF Inv, TypeOK, PlaceOf, Then, Iputs, IpPlaces, InDirPlaces,
     TgtPlaces, InodeOrNone
<1>3. dtype[ip[p]] # "free" /\ lock[ip[p]] = None
  BY <1>2, AsOnDisk DEF Chdir, InDir, Ilock, Inv
<1>4. Safe(ip[p])
  BY <1>2, <1>3, UnlockedSafe
<1>5. dtype[ip[p]] = "dir"
  BY <1>1, <1>2, <1>3, <1>4, AsOnDisk DEF Chdir, InDir, Inv
<1>6. cwd[p] \in Inodes
  BY DEF Inv, TypeOK
<1>7. tgt[p] = None
  BY <1>1, <1>2, <1>3, <1>4, <1>5, <1>6 DEF PlaceOf, Then, Iputs, TgtPlaces
<1>8. Reads(ip[p], None) /\ EntriesOK'
  BY <1>2, ReadEffect DEF Chdir, ReadLock, ReadLockGet, ReadGet, Links, Inv
<1>9. Local(p, "put", "user", cwd[p], None, None) /\ Others(p)
  BY <1>1, <1>2, <1>3, <1>4, <1>5, <1>6, <1>7 DEF Chdir, Iput, Goto, Leave, Local, Others,
     Inv, TypeOK, procs, locals, PlaceOf, Iputs
<1>10. TypeOK'
  BY <1>1, <1>2, <1>3, <1>4, <1>5, <1>6, <1>7, <1>8 DEF Chdir, Iput, Goto, Leave, Failed,
     Places, InodeOrNone, EntriesOK,
     Inv, TypeOK, disk, icache, procs, locals
<1>11. CallInv'
  BY <1>1, <1>2, <1>3, <1>4, <1>5, <1>6, <1>7 DEF Chdir, Leave, NoCall, Iput, Goto, CallInv, Inv
<1>12. QED
  BY <1>1, <1>2, <1>3, <1>4, <1>5, <1>6, <1>7, <1>8, <1>9, <1>10, <1>11 DEF Chdir, Leave,
     Iput, Goto, Inv, TypeOK, CallInv, disk, icache, procs, locals, hist

LEMMA ChdirDoneInv ==
  ASSUME Inv, NEW p \in Procs, Chdir(p), Type(ip[p]) = "dir"
  PROVE  Inv'
<1>1. /\ pc[p] = "chdir" /\ PlaceOf(p)
      /\ ip[p] \in Inodes /\ ref[ip[p]] > 0 /\ dtype[ip[p]] # "free" /\ Safe(ip[p])
      /\ lock[ip[p]] = None
      /\ dtype[ip[p]] = "dir"
      /\ cwd[p] \in Inodes
      /\ Local(p, "put", "user", cwd[p], None, None) /\ Others(p)
      /\ Reads(ip[p], None) /\ TypeOK' /\ CallInv'
      /\ cwd'[p] = ip[p]
      /\ UNCHANGED <<fd, call, lock, dirent, panic, hist>>
  BY ChdirDoneEffect
<1>2. PlaceOf(p)'
  BY <1>1, NotNone DEF PlaceOf, Local, Then, Op, Path, Failed, Iputs, Returns, IpPlaces,
     InDirPlaces, TgtPlaces
<1>3. \A k \in Inodes: Uses(p, k)' = Uses(p, k) + (IF k = None THEN 1 ELSE 0)
  BY <1>1, NotNone DEF Local, Uses, One, PlaceOf, Then, Iputs, IpPlaces, InDirPlaces, TgtPlaces
<1>4. \A k \in Inodes: /\ lock'[k] = lock[k]
                       /\ lock'[k] = p <=> LockedBy(p, k)'
                       /\ LockedBy(p, k)' => LockedBy(p, k) \/ k = ip[p]
  BY <1>1, NotNone DEF LockedBy, Local, Then, Failed, Iputs, Inv, LockInv
<1>5. /\ pc'[p] # "free"
      /\ \A k \in Inodes: Known(p, k)' => Known(p, k) \/ Safe(k)
  BY <1>1, NotNone DEF Known, Local, Then, Failed, Iputs, InDirPlaces, PlaceOf, IpPlaces,
     TgtPlaces
<1>6. dtype[cwd'[p]] = "dir" /\ (Then(p)' \in InDirPlaces => dtype[ip'[p]] = "dir")
  BY <1>1 DEF Inv, KnownInv, Local, Then, Failed, Iputs, InDirPlaces, PlaceOf
<1>7. panic' = panic
  BY <1>1
<1>8. QED BY <1>1, <1>2, <1>3, <1>4, <1>5, <1>6, <1>7, QuietStep

LEMMA ChdirFailEffect ==
  ASSUME Inv, NEW p \in Procs, Chdir(p), Type(ip[p]) # "dir"
  PROVE  /\ pc[p] = "chdir" /\ PlaceOf(p)
         /\ ip[p] \in Inodes /\ ref[ip[p]] > 0 /\ dtype[ip[p]] # "free" /\ Safe(ip[p])
         /\ lock[ip[p]] = None
         /\ Local(p, "put", "user", ip[p], None, None) /\ Others(p)
         /\ Reads(ip[p], None) /\ TypeOK' /\ CallInv'
         /\ UNCHANGED <<cwd, fd, call, lock, dirent, panic, hist>>
<1>1. pc[p] = "chdir" /\ PlaceOf(p)
  BY DEF Chdir, InDir, At, Inv, PlaceInv
<1>2. ip[p] \in Inodes /\ ref[ip[p]] > 0
  BY <1>1, Referenced DEF Inv, TypeOK, PlaceOf, Then, Iputs, IpPlaces, InDirPlaces,
     TgtPlaces, InodeOrNone
<1>3. dtype[ip[p]] # "free" /\ lock[ip[p]] = None
  BY <1>2, AsOnDisk DEF Chdir, InDir, Ilock, Inv
<1>4. Safe(ip[p])
  BY <1>2, <1>3, UnlockedSafe
<1>5. tgt[p] = None
  BY <1>1, <1>2, <1>3, <1>4 DEF PlaceOf, Then, Iputs, TgtPlaces
<1>6. Reads(ip[p], None) /\ EntriesOK'
  BY <1>2, ReadEffect DEF Chdir, ReadLock, ReadLockGet, ReadGet, Links, Inv
<1>7. Local(p, "put", "user", ip[p], None, None) /\ Others(p)
  BY <1>1, <1>2, <1>3, <1>4, <1>5 DEF Chdir, Iput, Goto, Leave, Local, Others, Inv, TypeOK,
     procs, locals, PlaceOf, Iputs
<1>8. TypeOK'
  BY <1>1, <1>2, <1>3, <1>4, <1>5, <1>6 DEF Chdir, Iput, Goto, Leave, Failed, Places,
     InodeOrNone, EntriesOK,
     Inv, TypeOK, disk, icache, procs, locals
<1>9. CallInv'
  BY <1>1, <1>2, <1>3, <1>4, <1>5 DEF Chdir, Leave, NoCall, Iput, Goto, CallInv, Inv
<1>10. QED
  BY <1>1, <1>2, <1>3, <1>4, <1>5, <1>6, <1>7, <1>8, <1>9 DEF Chdir, Leave, Iput, Goto, Inv,
     TypeOK, CallInv, disk, icache, procs, locals, hist

LEMMA ChdirFailInv ==
  ASSUME Inv, NEW p \in Procs, Chdir(p), Type(ip[p]) # "dir"
  PROVE  Inv'
<1>1. /\ pc[p] = "chdir" /\ PlaceOf(p)
      /\ ip[p] \in Inodes /\ ref[ip[p]] > 0 /\ dtype[ip[p]] # "free" /\ Safe(ip[p])
      /\ lock[ip[p]] = None
      /\ Local(p, "put", "user", ip[p], None, None) /\ Others(p)
      /\ Reads(ip[p], None) /\ TypeOK' /\ CallInv'
      /\ UNCHANGED <<cwd, fd, call, lock, dirent, panic, hist>>
  BY ChdirFailEffect
<1>2. PlaceOf(p)'
  BY <1>1, NotNone DEF PlaceOf, Local, Then, Op, Path, Failed, Iputs, Returns, IpPlaces,
     InDirPlaces, TgtPlaces
<1>3. \A k \in Inodes: Uses(p, k)' = Uses(p, k) + (IF k = None THEN 1 ELSE 0)
  BY <1>1, NotNone DEF Local, Uses, One, PlaceOf, Then, Iputs, IpPlaces, InDirPlaces, TgtPlaces
<1>4. \A k \in Inodes: /\ lock'[k] = lock[k]
                       /\ lock'[k] = p <=> LockedBy(p, k)'
                       /\ LockedBy(p, k)' => LockedBy(p, k) \/ k = ip[p]
  BY <1>1, NotNone DEF LockedBy, Local, Then, Failed, Iputs, Inv, LockInv
<1>5. /\ pc'[p] # "free"
      /\ \A k \in Inodes: Known(p, k)' => Known(p, k) \/ Safe(k)
  BY <1>1, NotNone DEF Known, Local, Then, Failed, Iputs, InDirPlaces, PlaceOf, IpPlaces,
     TgtPlaces
<1>6. dtype[cwd'[p]] = "dir" /\ (Then(p)' \in InDirPlaces => dtype[ip'[p]] = "dir")
  BY <1>1 DEF Inv, KnownInv, Local, Then, Failed, Iputs, InDirPlaces, PlaceOf
<1>7. panic' = panic
  BY <1>1
<1>8. QED BY <1>1, <1>2, <1>3, <1>4, <1>5, <1>6, <1>7, QuietStep

-----------------------------------------------------------------------------
(* link().                                                                 *)

LEMMA LinkOldDirEffect ==
  ASSUME Inv, NEW p \in Procs, LinkOld(p), Type(ip[p]) = "dir"
  PROVE  /\ pc[p] = "linkold" /\ PlaceOf(p)
         /\ ip[p] \in Inodes /\ ref[ip[p]] > 0 /\ dtype[ip[p]] # "free" /\ Safe(ip[p])
         /\ lock[ip[p]] = None
         /\ Local(p, "put", "user", ip[p], None, None) /\ Others(p)
         /\ Reads(ip[p], None) /\ TypeOK' /\ CallInv'
         /\ UNCHANGED <<cwd, fd, call, lock, dirent, panic, hist>>
<1>1. pc[p] = "linkold" /\ PlaceOf(p)
  BY DEF LinkOld, InDir, At, Inv, PlaceInv
<1>2. ip[p] \in Inodes /\ ref[ip[p]] > 0
  BY <1>1, Referenced DEF Inv, TypeOK, PlaceOf, Then, Iputs, IpPlaces, InDirPlaces,
     TgtPlaces, InodeOrNone
<1>3. dtype[ip[p]] # "free" /\ lock[ip[p]] = None
  BY <1>2, AsOnDisk DEF LinkOld, InDir, Ilock, Inv
<1>4. Safe(ip[p])
  BY <1>2, <1>3, UnlockedSafe
<1>5. tgt[p] = None
  BY <1>1, <1>2, <1>3, <1>4 DEF PlaceOf, Then, Iputs, TgtPlaces
<1>6. /\ Iput(p, ip[p], "user") /\ ip' = [ip EXCEPT ![p] = None]
      /\ UNCHANGED <<dtype, dirent, lock, procs, panic, hist, call, tgt>>
  BY DEF LinkOld
<1>7. Reads(ip[p], None) /\ EntriesOK'
  BY <1>2, ReadEffect DEF LinkOld, ReadLock, ReadLockGet, ReadGet, Links, Inv
<1>8. Local(p, "put", "user", ip[p], None, None) /\ Others(p)
  BY <1>1, <1>2, <1>3, <1>4, <1>5, <1>6 DEF LinkOld, Iput, Goto, Leave, Local, Others, Inv,
     TypeOK, procs, locals, PlaceOf, Iputs
<1>9. TypeOK'
  BY <1>1, <1>2, <1>3, <1>4, <1>5, <1>6, <1>7 DEF LinkOld, Iput, Goto, Leave, Failed,
     Places, InodeOrNone, EntriesOK,
     Inv, TypeOK, disk, icache, procs, locals
<1>10. CallInv'
  BY <1>1, <1>2, <1>3, <1>4, <1>5, <1>6 DEF LinkOld, Leave, NoCall, Iput, Goto, CallInv, Inv
<1>11. QED
  BY <1>1, <1>2, <1>3, <1>4, <1>5, <1>6, <1>7, <1>8, <1>9, <1>10 DEF LinkOld, Leave, Iput,
     Goto, Inv, TypeOK, CallInv, disk, icache, procs, locals, hist

LEMMA LinkOldDirInv ==
  ASSUME Inv, NEW p \in Procs, LinkOld(p), Type(ip[p]) = "dir"
  PROVE  Inv'
<1>1. /\ pc[p] = "linkold" /\ PlaceOf(p)
      /\ ip[p] \in Inodes /\ ref[ip[p]] > 0 /\ dtype[ip[p]] # "free" /\ Safe(ip[p])
      /\ lock[ip[p]] = None
      /\ Local(p, "put", "user", ip[p], None, None) /\ Others(p)
      /\ Reads(ip[p], None) /\ TypeOK' /\ CallInv'
      /\ UNCHANGED <<cwd, fd, call, lock, dirent, panic, hist>>
  BY LinkOldDirEffect
<1>2. PlaceOf(p)'
  BY <1>1, NotNone DEF PlaceOf, Local, Then, Op, Path, Failed, Iputs, Returns, IpPlaces,
     InDirPlaces, TgtPlaces
<1>3. \A k \in Inodes: Uses(p, k)' = Uses(p, k) + (IF k = None THEN 1 ELSE 0)
  BY <1>1, NotNone DEF Local, Uses, One, PlaceOf, Then, Iputs, IpPlaces, InDirPlaces, TgtPlaces
<1>4. \A k \in Inodes: /\ lock'[k] = lock[k]
                       /\ lock'[k] = p <=> LockedBy(p, k)'
                       /\ LockedBy(p, k)' => LockedBy(p, k) \/ k = ip[p]
  BY <1>1, NotNone DEF LockedBy, Local, Then, Failed, Iputs, Inv, LockInv
<1>5. /\ pc'[p] # "free"
      /\ \A k \in Inodes: Known(p, k)' => Known(p, k) \/ Safe(k)
  BY <1>1, NotNone DEF Known, Local, Then, Failed, Iputs, InDirPlaces, PlaceOf, IpPlaces,
     TgtPlaces
<1>6. dtype[cwd'[p]] = "dir" /\ (Then(p)' \in InDirPlaces => dtype[ip'[p]] = "dir")
  BY <1>1 DEF Inv, KnownInv, Local, Then, Failed, Iputs, InDirPlaces, PlaceOf
<1>7. panic' = panic
  BY <1>1
<1>8. QED BY <1>1, <1>2, <1>3, <1>4, <1>5, <1>6, <1>7, QuietStep

LEMMA LinkNewEffect ==
  ASSUME Inv, NEW p \in Procs, LinkNew(p)
  PROVE  /\ pc[p] = "linknew" /\ PlaceOf(p)
         /\ ip[p] \in Inodes /\ ref[ip[p]] > 0 /\ dtype[ip[p]] # "free" /\ Safe(ip[p])
         /\ lock[ip[p]] = None
         /\ dtype[ip[p]] = "dir"
         /\ Name(p) \in Entries /\ dirent[ip[p]][Name(p)] = None
         /\ \A d \in Inodes, n \in Entries:
               dirent'[d][n] = IF d = ip[p] /\ n = Name(p) THEN tgt[p] ELSE dirent[d][n]
         /\ Nlink(ip[p]) = dnlink[ip[p]]
         /\ Local(p, "put", "linkput", ip[p], None, tgt[p]) /\ Others(p)
         /\ Reads(ip[p], None) /\ TypeOK' /\ CallInv'
         /\ stray' = (stray \/ dnlink[ip[p]] = 0)
         /\ UNCHANGED <<cwd, fd, call, lock, panic, calls, overlap, lost>>
<1>1. pc[p] = "linknew" /\ PlaceOf(p)
  BY DEF LinkNew, InDir, At, Inv, PlaceInv
<1>2. ip[p] \in Inodes /\ ref[ip[p]] > 0
  BY <1>1, Referenced DEF Inv, TypeOK, PlaceOf, Then, Iputs, IpPlaces, InDirPlaces,
     TgtPlaces, InodeOrNone
<1>3. dtype[ip[p]] # "free" /\ lock[ip[p]] = None
  BY <1>2, AsOnDisk DEF LinkNew, InDir, Ilock, Inv
<1>4. Safe(ip[p])
  BY <1>2, <1>3, UnlockedSafe
<1>5. dtype[ip[p]] = "dir"
  BY <1>1, <1>2, <1>3, <1>4, AsOnDisk DEF LinkNew, InDir, Inv
<1>6. Name(p) \in Entries /\ dirent[ip[p]][Name(p)] = None
  BY <1>1, <1>2, <1>3, <1>4, <1>5, NextName DEF LinkNew, PlaceOf, Then, Iputs, InDirPlaces, Inv
<1>7. \A d \in Inodes, n \in Entries:
         dirent'[d][n] = IF d = ip[p] /\ n = Name(p) THEN tgt[p] ELSE dirent[d][n]
  BY <1>1, <1>2, <1>3, <1>4, <1>5, <1>6 DEF LinkNew, Enter, Inv, TypeOK
<1>8. Nlink(ip[p]) = dnlink[ip[p]]
  BY <1>1, <1>2, <1>3, <1>4, <1>5, <1>6, <1>7, AsOnDisk DEF Inv
<1>9. Reads(ip[p], None) /\ EntriesOK'
  BY <1>2, ReadEffect DEF LinkNew, ReadLock, ReadLockGet, ReadGet, Links, Inv
<1>10. Local(p, "put", "linkput", ip[p], None, tgt[p]) /\ Others(p)
  BY <1>1, <1>2, <1>3, <1>4, <1>5, <1>6, <1>7, <1>8 DEF LinkNew, Iput, Goto, Leave, Local,
     Others, Inv, TypeOK, procs, locals, PlaceOf, Iputs
<1>11. TypeOK'
  BY <1>1, <1>2, <1>3, <1>4, <1>5, <1>6, <1>7, <1>8, <1>9 DEF LinkNew, Iput, Goto, Leave,
     Failed, Places, InodeOrNone, EntriesOK,
     Inv, TypeOK, disk, icache, procs, locals, Enter
<1>12. CallInv'
  BY <1>1, <1>2, <1>3, <1>4, <1>5, <1>6, <1>7, <1>8 DEF LinkNew, Leave, NoCall, Iput, Goto,
     CallInv, Inv
<1>13. QED
  BY <1>1, <1>2, <1>3, <1>4, <1>5, <1>6, <1>7, <1>8, <1>9, <1>10, <1>11, <1>12 DEF LinkNew,
     Leave, Iput, Goto, Inv, TypeOK, CallInv, disk, icache, procs, locals, hist, Enter

LEMMA LinkNewInv ==
  ASSUME Inv, NEW p \in Procs, LinkNew(p)
  PROVE  Inv'
<1>1. /\ pc[p] = "linknew" /\ PlaceOf(p)
      /\ ip[p] \in Inodes /\ ref[ip[p]] > 0 /\ dtype[ip[p]] # "free" /\ Safe(ip[p])
      /\ lock[ip[p]] = None
      /\ dtype[ip[p]] = "dir"
      /\ Name(p) \in Entries /\ dirent[ip[p]][Name(p)] = None
      /\ \A d \in Inodes, n \in Entries:
            dirent'[d][n] = IF d = ip[p] /\ n = Name(p) THEN tgt[p] ELSE dirent[d][n]
      /\ Nlink(ip[p]) = dnlink[ip[p]]
      /\ Local(p, "put", "linkput", ip[p], None, tgt[p]) /\ Others(p)
      /\ Reads(ip[p], None) /\ TypeOK' /\ CallInv'
      /\ stray' = (stray \/ dnlink[ip[p]] = 0)
      /\ UNCHANGED <<cwd, fd, call, lock, panic, calls, overlap, lost>>
  BY LinkNewEffect
<1>2. PlaceOf(p)'
  BY <1>1, NotNone DEF PlaceOf, Local, Then, Op, Path, Failed, Iputs, Returns, IpPlaces,
     InDirPlaces, TgtPlaces
<1>3. \A k \in Inodes: Uses(p, k)' = Uses(p, k) + (IF k = None THEN 1 ELSE 0)
  BY <1>1, NotNone DEF Local, Uses, One, PlaceOf, Then, Iputs, IpPlaces, InDirPlaces, TgtPlaces
<1>4. \A k \in Inodes: /\ lock'[k] = lock[k]
                       /\ lock'[k] = p <=> LockedBy(p, k)'
                       /\ LockedBy(p, k)' => LockedBy(p, k) \/ k = ip[p]
  BY <1>1, NotNone DEF LockedBy, Local, Then, Failed, Iputs, Inv, LockInv
<1>5. /\ pc'[p] # "free"
      /\ \A k \in Inodes: Known(p, k)' => Known(p, k) \/ Safe(k)
  BY <1>1, NotNone DEF Known, Local, Then, Failed, Iputs, InDirPlaces, PlaceOf, IpPlaces,
     TgtPlaces
<1>6. dtype[cwd'[p]] = "dir" /\ (Then(p)' \in InDirPlaces => dtype[ip'[p]] = "dir")
  BY <1>1 DEF Inv, KnownInv, Local, Then, Failed, Iputs, InDirPlaces, PlaceOf
<1>7. panic' = panic
  BY <1>1
<1>8. QED BY <1>1, <1>2, <1>3, <1>4, <1>5, <1>6, <1>7, QuietStep

LEMMA LinkPutEffect ==
  ASSUME Inv, NEW p \in Procs, LinkPut(p)
  PROVE  /\ pc[p] = "linkput" /\ PlaceOf(p)
         /\ Local(p, "put", "user", tgt[p], ip[p], None) /\ Others(p)
         /\ Reads(None, None) /\ TypeOK' /\ CallInv'
         /\ UNCHANGED <<cwd, fd, call, lock, dirent, panic, hist>>
<1>1. pc[p] = "linkput" /\ PlaceOf(p)
  BY DEF LinkPut, InDir, At, Inv, PlaceInv
<1>2. Reads(None, None) /\ EntriesOK'
  BY NoEffect DEF LinkPut, disk, icache, Inv
<1>3. Local(p, "put", "user", tgt[p], ip[p], None) /\ Others(p)
  BY <1>1 DEF LinkPut, Iput, Goto, Leave, Local, Others, Inv, TypeOK, procs, locals,
     PlaceOf, Iputs
<1>4. TypeOK'
  BY <1>1, <1>2 DEF LinkPut, Iput, Goto, Leave, Failed, Places, InodeOrNone, EntriesOK,
     Inv, TypeOK, disk, icache, procs, locals
<1>5. CallInv'
  BY <1>1 DEF LinkPut, Leave, NoCall, Iput, Goto, CallInv, Inv
<1>6. QED
  BY <1>1, <1>2, <1>3, <1>4, <1>5 DEF LinkPut, Leave, Iput, Goto, Inv, TypeOK, CallInv,
     disk, icache, procs, locals, hist

LEMMA LinkPutInv ==
  ASSUME Inv, NEW p \in Procs, LinkPut(p)
  PROVE  Inv'
<1>1. /\ pc[p] = "linkput" /\ PlaceOf(p)
      /\ Local(p, "put", "user", tgt[p], ip[p], None) /\ Others(p)
      /\ Reads(None, None) /\ TypeOK' /\ CallInv'
      /\ UNCHANGED <<cwd, fd, call, lock, dirent, panic, hist>>
  BY LinkPutEffect
<1>2. PlaceOf(p)'
  BY <1>1, NotNone DEF PlaceOf, Local, Then, Op, Path, Failed, Iputs, Returns, IpPlaces,
     InDirPlaces, TgtPlaces
<1>3. \A k \in Inodes: Uses(p, k)' = Uses(p, k) + (IF k = None THEN 1 ELSE 0)
  BY <1>1, NotNone DEF Local, Uses, One, PlaceOf, Then, Iputs, IpPlaces, InDirPlaces, TgtPlaces
<1>4. \A k \in Inodes: /\ lock'[k] = lock[k]
                       /\ lock'[k] = p <=> LockedBy(p, k)'
                       /\ LockedBy(p, k)' => LockedBy(p, k) \/ k = None
  BY <1>1, NotNone DEF LockedBy, Local, Then, Failed, Iputs, Inv, LockInv
<1>5. /\ pc'[p] # "free"
      /\ \A k \in Inodes: Known(p, k)' => Known(p, k) \/ Safe(k)
  BY <1>1, NotNone DEF Known, Local, Then, Failed, Iputs, InDirPlaces, PlaceOf, IpPlaces,
     TgtPlaces
<1>6. dtype[cwd'[p]] = "dir" /\ (Then(p)' \in InDirPlaces => dtype[ip'[p]] = "dir")
  BY <1>1 DEF Inv, KnownInv, Local, Then, Failed, Iputs, InDirPlaces, PlaceOf
<1>7. panic' = panic
  BY <1>1
<1>8. QED BY <1>1, <1>2, <1>3, <1>4, <1>5, <1>6, <1>7, QuietStep

LEMMA LinkExistsEffect ==
  ASSUME Inv, NEW p \in Procs, LinkExists(p)
  PROVE  /\ pc[p] = "linknew" /\ PlaceOf(p)
         /\ ip[p] \in Inodes /\ ref[ip[p]] > 0 /\ dtype[ip[p]] # "free" /\ Safe(ip[p])
         /\ lock[ip[p]] = None
         /\ dtype[ip[p]] = "dir"
         /\ Path(p) # <<>>
         /\ dirent[ip[p]][Name(p)] \in Inodes /\ Name(p) \in Entries
         /\ Local(p, "put", "unlockdp", dirent[ip[p]][Name(p)], ip[p], tgt[p]) /\ Others(p)
         /\ Reads(ip[p], dirent[ip[p]][Name(p)]) /\ TypeOK' /\ CallInv'
         /\ \A k \in Inodes: lock'[k] = IF k = ip[p] THEN p ELSE lock[k]
         /\ lost' = (lost \/ (Name(p) = ".." /\ Unowned(dirent[ip[p]][Name(p)])))
         /\ UNCHANGED <<cwd, fd, call, dirent, panic, calls, stray, overlap>>
<1>1. pc[p] = "linknew" /\ PlaceOf(p)
  BY DEF LinkExists, InDir, At, Inv, PlaceInv
<1>2. ip[p] \in Inodes /\ ref[ip[p]] > 0
  BY <1>1, Referenced DEF Inv, TypeOK, PlaceOf, Then, Iputs, IpPlaces, InDirPlaces,
     TgtPlaces, InodeOrNone
<1>3. dtype[ip[p]] # "free" /\ lock[ip[p]] = None
  BY <1>2, AsOnDisk DEF LinkExists, InDir, Ilock, Inv
<1>4. Safe(ip[p])
  BY <1>2, <1>3, UnlockedSafe
<1>5. dtype[ip[p]] = "dir"
  BY <1>1, <1>2, <1>3, <1>4, AsOnDisk DEF LinkExists, InDir, Inv
<1>6. Path(p) # <<>>
  BY <1>1, <1>2, <1>3, <1>4, <1>5 DEF PlaceOf, Then, Iputs, InDirPlaces
<1>7. dirent[ip[p]][Name(p)] \in Inodes /\ Name(p) \in Entries
  BY <1>1, <1>2, <1>3, <1>4, <1>5, <1>6, NextName DEF LinkExists, InodeOrNone, Inv
<1>8. Reads(ip[p], dirent[ip[p]][Name(p)]) /\ EntriesOK'
  BY <1>2, ReadEffect DEF LinkExists, ReadLock, ReadLockGet, ReadGet, Links, Inv
<1>9. Local(p, "put", "unlockdp", dirent[ip[p]][Name(p)], ip[p], tgt[p]) /\ Others(p)
  BY <1>1, <1>2, <1>3, <1>4, <1>5, <1>6, <1>7 DEF LinkExists, Iput, Goto, Leave, Local,
     Others, Inv, TypeOK, procs, locals, PlaceOf, Iputs
<1>10. TypeOK'
  BY <1>1, <1>2, <1>3, <1>4, <1>5, <1>6, <1>7, <1>8 DEF LinkExists, Iput, Goto, Leave,
     Failed, Places, InodeOrNone, EntriesOK,
     Inv, TypeOK, disk, icache, procs, locals
<1>11. CallInv'
  BY <1>1, <1>2, <1>3, <1>4, <1>5, <1>6, <1>7 DEF LinkExists, Leave, NoCall, Iput, Goto,
     CallInv, Inv
<1>12. QED
  BY <1>1, <1>2, <1>3, <1>4, <1>5, <1>6, <1>7, <1>8, <1>9, <1>10, <1>11 DEF LinkExists,
     Leave, Iput, Goto, Inv, TypeOK, CallInv, disk, icache, procs, locals, hist, Follow

LEMMA LinkExistsInv ==
  ASSUME Inv, NEW p \in Procs, LinkExists(p)
  PROVE  Inv'
<1>1. /\ pc[p] = "linknew" /\ PlaceOf(p)
      /\ ip[p] \in Inodes /\ ref[ip[p]] > 0 /\ dtype[ip[p]] # "free" /\ Safe(ip[p])
      /\ lock[ip[p]] = None
      /\ dtype[ip[p]] = "dir"
      /\ Path(p) # <<>>
      /\ dirent[ip[p]][Name(p)] \in Inodes /\ Name(p) \in Entries
      /\ Local(p, "put", "unlockdp", dirent[ip[p]][Name(p)], ip[p], tgt[p]) /\ Others(p)
      /\ Reads(ip[p], dirent[ip[p]][Name(p)]) /\ TypeOK' /\ CallInv'
      /\ \A k \in Inodes: lock'[k] = IF k = ip[p] THEN p ELSE lock[k]
      /\ lost' = (lost \/ (Name(p) = ".." /\ Unowned(dirent[ip[p]][Name(p)])))
      /\ UNCHANGED <<cwd, fd, call, dirent, panic, calls, stray, overlap>>
  BY LinkExistsEffect
<1>2. PlaceOf(p)'
  BY <1>1, NotNone DEF PlaceOf, Local, Then, Op, Path, Failed, Iputs, Returns, IpPlaces,
     InDirPlaces, TgtPlaces
<1>3. \A k \in Inodes: Uses(p, k)' = Uses(p, k) + (IF k = dirent[ip[p]][Name(p)] THEN 1 ELSE 0)
  BY <1>1, NotNone DEF Local, Uses, One, PlaceOf, Then, Iputs, IpPlaces, InDirPlaces, TgtPlaces
<1>4. \A k \in Inodes: /\ (lock'[k] = lock[k] \/ (lock[k] \in {None, p} /\ lock'[k] \in {None, p}))
                       /\ lock'[k] = p <=> LockedBy(p, k)'
                       /\ LockedBy(p, k)' => LockedBy(p, k) \/ k = ip[p]
  BY <1>1, NotNone DEF LockedBy, Local, Then, Failed, Iputs, Inv, LockInv
<1>5. /\ pc'[p] # "free"
      /\ \A k \in Inodes: Known(p, k)' => Known(p, k) \/ Safe(k)
  BY <1>1, NotNone DEF Known, Local, Then, Failed, Iputs, InDirPlaces, PlaceOf, IpPlaces,
     TgtPlaces
<1>6. dtype[cwd'[p]] = "dir" /\ (Then(p)' \in InDirPlaces => dtype[ip'[p]] = "dir")
  BY <1>1 DEF Inv, KnownInv, Local, Then, Failed, Iputs, InDirPlaces, PlaceOf
<1>7. panic' = panic
  BY <1>1
<1>8. QED BY <1>1, <1>2, <1>3, <1>4, <1>5, <1>6, <1>7, QuietStep

LEMMA UnlockDpEffect ==
  ASSUME Inv, NEW p \in Procs, UnlockDp(p)
  PROVE  /\ pc[p] = "unlockdp" /\ PlaceOf(p)
         /\ ip[p] \in Inodes
         /\ Local(p, "put", Failed(p), ip[p], None, tgt[p]) /\ Others(p)
         /\ Reads(None, None) /\ TypeOK' /\ CallInv'
         /\ \A k \in Inodes: lock'[k] = IF k = ip[p] THEN None ELSE lock[k]
         /\ UNCHANGED <<cwd, fd, call, dirent, panic, hist>>
<1>1. pc[p] = "unlockdp" /\ PlaceOf(p)
  BY DEF UnlockDp, InDir, At, Inv, PlaceInv
<1>2. ip[p] \in Inodes
  BY <1>1 DEF PlaceOf, Then, Iputs, InDirPlaces, IpPlaces, Inv, TypeOK, InodeOrNone
<1>3. Reads(None, None) /\ EntriesOK'
  BY NoEffect DEF UnlockDp, disk, icache, Inv
<1>4. Local(p, "put", Failed(p), ip[p], None, tgt[p]) /\ Others(p)
  BY <1>1, <1>2 DEF UnlockDp, Iput, Goto, Leave, Local, Others, Inv, TypeOK, procs, locals,
     PlaceOf, Iputs
<1>5. TypeOK'
  BY <1>1, <1>2, <1>3 DEF UnlockDp, Iput, Goto, Leave, Failed, Places, InodeOrNone, EntriesOK,
     Inv, TypeOK, disk, icache, procs, locals
<1>6. CallInv'
  BY <1>1, <1>2 DEF UnlockDp, Leave, NoCall, Iput, Goto, CallInv, Inv
<1>7. QED
  BY <1>1, <1>2, <1>3, <1>4, <1>5, <1>6 DEF UnlockDp, Leave, Iput, Goto, Inv, TypeOK,
     CallInv, disk, icache, procs, locals, hist

LEMMA UnlockDpInv ==
  ASSUME Inv, NEW p \in Procs, UnlockDp(p)
  PROVE  Inv'
<1>1. /\ pc[p] = "unlockdp" /\ PlaceOf(p)
      /\ ip[p] \in Inodes
      /\ Local(p, "put", Failed(p), ip[p], None, tgt[p]) /\ Others(p)
      /\ Reads(None, None) /\ TypeOK' /\ CallInv'
      /\ \A k \in Inodes: lock'[k] = IF k = ip[p] THEN None ELSE lock[k]
      /\ UNCHANGED <<cwd, fd, call, dirent, panic, hist>>
  BY UnlockDpEffect
<1>2. PlaceOf(p)'
  BY <1>1, NotNone DEF PlaceOf, Local, Then, Op, Path, Failed, Iputs, Returns, IpPlaces,
     InDirPlaces, TgtPlaces
<1>3. \A k \in Inodes: Uses(p, k)' = Uses(p, k) + (IF k = None THEN 1 ELSE 0)
  BY <1>1, NotNone DEF Local, Uses, One, PlaceOf, Then, Iputs, IpPlaces, InDirPlaces, TgtPlaces
<1>4. \A k \in Inodes: /\ (lock'[k] = lock[k] \/ (lock[k] \in {None, p} /\ lock'[k] \in {None, p}))
                       /\ lock'[k] = p <=> LockedBy(p, k)'
                       /\ LockedBy(p, k)' => LockedBy(p, k) \/ k = None
  BY <1>1, NotNone DEF LockedBy, Local, Then, Failed, Iputs, Inv, LockInv
<1>5. /\ pc'[p] # "free"
      /\ \A k \in Inodes: Known(p, k)' => Known(p, k) \/ Safe(k)
  BY <1>1, NotNone DEF Known, Local, Then, Failed, Iputs, InDirPlaces, PlaceOf, IpPlaces,
     TgtPlaces
<1>6. dtype[cwd'[p]] = "dir" /\ (Then(p)' \in InDirPlaces => dtype[ip'[p]] = "dir")
  BY <1>1 DEF Inv, KnownInv, Local, Then, Failed, Iputs, InDirPlaces, PlaceOf
<1>7. panic' = panic
  BY <1>1
<1>8. QED BY <1>1, <1>2, <1>3, <1>4, <1>5, <1>6, <1>7, QuietStep

-----------------------------------------------------------------------------
(* create().                                                               *)

LEMMA CreateExistsEffect ==
  ASSUME Inv, NEW p \in Procs, CreateExists(p)
  PROVE  /\ pc[p] = "create" /\ PlaceOf(p)
         /\ ip[p] \in Inodes /\ ref[ip[p]] > 0 /\ dtype[ip[p]] # "free" /\ Safe(ip[p])
         /\ lock[ip[p]] = None
         /\ dtype[ip[p]] = "dir"
         /\ Path(p) # <<>>
         /\ dirent[ip[p]][Name(p)] \in Inodes /\ Name(p) \in Entries
         /\ Local(p, "put", "exists", ip[p], None, dirent[ip[p]][Name(p)]) /\ Others(p)
         /\ Reads(ip[p], dirent[ip[p]][Name(p)]) /\ TypeOK' /\ CallInv'
         /\ lost' = (lost \/ (Name(p) = ".." /\ Unowned(dirent[ip[p]][Name(p)])))
         /\ UNCHANGED <<cwd, fd, call, lock, dirent, panic, calls, stray, overlap>>
<1>1. pc[p] = "create" /\ PlaceOf(p)
  BY DEF CreateExists, InDir, At, Inv, PlaceInv
<1>2. ip[p] \in Inodes /\ ref[ip[p]] > 0
  BY <1>1, Referenced DEF Inv, TypeOK, PlaceOf, Then, Iputs, IpPlaces, InDirPlaces,
     TgtPlaces, InodeOrNone
<1>3. dtype[ip[p]] # "free" /\ lock[ip[p]] = None
  BY <1>2, AsOnDisk DEF CreateExists, InDir, Ilock, Inv
<1>4. Safe(ip[p])
  BY <1>2, <1>3, UnlockedSafe
<1>5. dtype[ip[p]] = "dir"
  BY <1>1, <1>2, <1>3, <1>4, AsOnDisk DEF CreateExists, InDir, Inv
<1>6. Path(p) # <<>>
  BY <1>1, <1>2, <1>3, <1>4, <1>5 DEF PlaceOf, Then, Iputs, InDirPlaces
<1>7. dirent[ip[p]][Name(p)] \in Inodes /\ Name(p) \in Entries
  BY <1>1, <1>2, <1>3, <1>4, <1>5, <1>6, NextName DEF CreateExists, InodeOrNone, Inv
<1>8. Reads(ip[p], dirent[ip[p]][Name(p)]) /\ EntriesOK'
  BY <1>2, ReadEffect DEF CreateExists, ReadLock, ReadLockGet, ReadGet, Links, Inv
<1>9. Local(p, "put", "exists", ip[p], None, dirent[ip[p]][Name(p)]) /\ Others(p)
  BY <1>1, <1>2, <1>3, <1>4, <1>5, <1>6, <1>7 DEF CreateExists, Iput, Goto, Leave, Local,
     Others, Inv, TypeOK, procs, locals, PlaceOf, Iputs
<1>10. TypeOK'
  BY <1>1, <1>2, <1>3, <1>4, <1>5, <1>6, <1>7, <1>8 DEF CreateExists, Iput, Goto, Leave,
     Failed, Places, InodeOrNone, EntriesOK,
     Inv, TypeOK, disk, icache, procs, locals
<1>11. CallInv'
  BY <1>1, <1>2, <1>3, <1>4, <1>5, <1>6, <1>7 DEF CreateExists, Leave, NoCall, Iput, Goto,
     CallInv, Inv
<1>12. QED
  BY <1>1, <1>2, <1>3, <1>4, <1>5, <1>6, <1>7, <1>8, <1>9, <1>10, <1>11 DEF CreateExists,
     Leave, Iput, Goto, Inv, TypeOK, CallInv, disk, icache, procs, locals, hist, Follow

LEMMA CreateExistsInv ==
  ASSUME Inv, NEW p \in Procs, CreateExists(p)
  PROVE  Inv'
<1>1. /\ pc[p] = "create" /\ PlaceOf(p)
      /\ ip[p] \in Inodes /\ ref[ip[p]] > 0 /\ dtype[ip[p]] # "free" /\ Safe(ip[p])
      /\ lock[ip[p]] = None
      /\ dtype[ip[p]] = "dir"
      /\ Path(p) # <<>>
      /\ dirent[ip[p]][Name(p)] \in Inodes /\ Name(p) \in Entries
      /\ Local(p, "put", "exists", ip[p], None, dirent[ip[p]][Name(p)]) /\ Others(p)
      /\ Reads(ip[p], dirent[ip[p]][Name(p)]) /\ TypeOK' /\ CallInv'
      /\ lost' = (lost \/ (Name(p) = ".." /\ Unowned(dirent[ip[p]][Name(p)])))
      /\ UNCHANGED <<cwd, fd, call, lock, dirent, panic, calls, stray, overlap>>
  BY CreateExistsEffect
<1>2. PlaceOf(p)'
  BY <1>1, NotNone DEF PlaceOf, Local, Then, Op, Path, Failed, Iputs, Returns, IpPlaces,
     InDirPlaces, TgtPlaces
<1>3. \A k \in Inodes: Uses(p, k)' = Uses(p, k) + (IF k = dirent[ip[p]][Name(p)] THEN 1 ELSE 0)
  BY <1>1, NotNone DEF Local, Uses, One, PlaceOf, Then, Iputs, IpPlaces, InDirPlaces, TgtPlaces
<1>4. \A k \in Inodes: /\ lock'[k] = lock[k]
                       /\ lock'[k] = p <=> LockedBy(p, k)'
                       /\ LockedBy(p, k)' => LockedBy(p, k) \/ k = ip[p]
  BY <1>1, NotNone DEF LockedBy, Local, Then, Failed, Iputs, Inv, LockInv
<1>5. /\ pc'[p] # "free"
      /\ \A k \in Inodes: Known(p, k)' => Known(p, k) \/ Safe(k)
  BY <1>1, NotNone DEF Known, Local, Then, Failed, Iputs, InDirPlaces, PlaceOf, IpPlaces,
     TgtPlaces
<1>6. dtype[cwd'[p]] = "dir" /\ (Then(p)' \in InDirPlaces => dtype[ip'[p]] = "dir")
  BY <1>1 DEF Inv, KnownInv, Local, Then, Failed, Iputs, InDirPlaces, PlaceOf
<1>7. panic' = panic
  BY <1>1
<1>8. QED BY <1>1, <1>2, <1>3, <1>4, <1>5, <1>6, <1>7, QuietStep

LEMMA ExistsDoneEffect ==
  ASSUME Inv, NEW p \in Procs, Exists(p), pc'[p] = "user"
  PROVE  /\ pc[p] = "exists" /\ PlaceOf(p)
         /\ tgt[p] \in Inodes /\ ref[tgt[p]] > 0 /\ dtype[tgt[p]] # "free" /\ Safe(tgt[p])
         /\ lock[tgt[p]] = None
         /\ Local(p, "user", "user", None, None, None) /\ Others(p)
         /\ Reads(tgt[p], None) /\ TypeOK' /\ CallInv'
         /\ fd[p] = None /\ fd'[p] = tgt[p]
         /\ call'[p] = NoCall
         /\ UNCHANGED <<cwd, lock, dirent, panic, hist>>
<1>1. pc[p] = "exists" /\ PlaceOf(p)
  BY DEF Exists, InDir, At, Inv, PlaceInv
<1>2. tgt[p] \in Inodes /\ ref[tgt[p]] > 0
  BY <1>1, Referenced DEF Inv, TypeOK, PlaceOf, Then, Iputs, IpPlaces, InDirPlaces,
     TgtPlaces, InodeOrNone
<1>3. dtype[tgt[p]] # "free" /\ lock[tgt[p]] = None
  BY <1>2, AsOnDisk DEF Exists, InDir, Ilock, Inv
<1>4. Safe(tgt[p])
  BY <1>2, <1>3, UnlockedSafe
<1>5. ip[p] = None
  BY <1>1, <1>2, <1>3, <1>4 DEF PlaceOf, Then, Iputs, IpPlaces, InDirPlaces
<1>6. /\ fd[p] = None /\ fd' = [fd EXCEPT ![p] = tgt[p]]
      /\ Leave(p) /\ UNCHANGED <<put, ret>>
  BY OpenFile DEF Exists, Inv
<1>7. Reads(tgt[p], None) /\ EntriesOK'
  BY <1>2, ReadEffect DEF Exists, ReadLock, ReadLockGet, ReadGet, Links, Inv
<1>8. Local(p, "user", "user", None, None, None) /\ Others(p)
  BY <1>1, <1>2, <1>3, <1>4, <1>5, <1>6 DEF Exists, Iput, Goto, Leave, Local, Others, Inv,
     TypeOK, procs, locals, PlaceOf, Iputs
<1>9. TypeOK'
  BY <1>1, <1>2, <1>3, <1>4, <1>5, <1>6, <1>7 DEF Exists, Iput, Goto, Leave, Failed, Places,
     InodeOrNone, EntriesOK,
     Inv, TypeOK, disk, icache, procs, locals
<1>10. CallInv'
  BY <1>1, <1>2, <1>3, <1>4, <1>5, <1>6 DEF Exists, Leave, NoCall, Iput, Goto, CallInv, Inv
<1>11. QED
  BY <1>1, <1>2, <1>3, <1>4, <1>5, <1>6, <1>7, <1>8, <1>9, <1>10 DEF Exists, Leave, Iput,
     Goto, Inv, TypeOK, CallInv, disk, icache, procs, locals, hist

LEMMA ExistsDoneInv ==
  ASSUME Inv, NEW p \in Procs, Exists(p), pc'[p] = "user"
  PROVE  Inv'
<1>1. /\ pc[p] = "exists" /\ PlaceOf(p)
      /\ tgt[p] \in Inodes /\ ref[tgt[p]] > 0 /\ dtype[tgt[p]] # "free" /\ Safe(tgt[p])
      /\ lock[tgt[p]] = None
      /\ Local(p, "user", "user", None, None, None) /\ Others(p)
      /\ Reads(tgt[p], None) /\ TypeOK' /\ CallInv'
      /\ fd[p] = None /\ fd'[p] = tgt[p]
      /\ call'[p] = NoCall
      /\ UNCHANGED <<cwd, lock, dirent, panic, hist>>
  BY ExistsDoneEffect
<1>2. PlaceOf(p)'
  BY <1>1, NotNone DEF PlaceOf, Local, Then, Op, Path, Failed, Iputs, Returns, IpPlaces,
     InDirPlaces, TgtPlaces
<1>3. \A k \in Inodes: Uses(p, k)' = Uses(p, k) + (IF k = None THEN 1 ELSE 0)
  BY <1>1, NotNone DEF Local, Uses, One, PlaceOf, Then, Iputs, IpPlaces, InDirPlaces, TgtPlaces
<1>4. \A k \in Inodes: /\ lock'[k] = lock[k]
                       /\ lock'[k] = p <=> LockedBy(p, k)'
                       /\ LockedBy(p, k)' => LockedBy(p, k) \/ k = tgt[p]
  BY <1>1, NotNone DEF LockedBy, Local, Then, Failed, Iputs, Inv, LockInv
<1>5. /\ pc'[p] # "free"
      /\ \A k \in Inodes: Known(p, k)' => Known(p, k) \/ Safe(k)
  BY <1>1, NotNone DEF Known, Local, Then, Failed, Iputs, InDirPlaces, PlaceOf, IpPlaces,
     TgtPlaces
<1>6. dtype[cwd'[p]] = "dir" /\ (Then(p)' \in InDirPlaces => dtype[ip'[p]] = "dir")
  BY <1>1 DEF Inv, KnownInv, Local, Then, Failed, Iputs, InDirPlaces, PlaceOf
<1>7. panic' = panic
  BY <1>1
<1>8. QED BY <1>1, <1>2, <1>3, <1>4, <1>5, <1>6, <1>7, QuietStep

LEMMA ExistsFailEffect ==
  ASSUME Inv, NEW p \in Procs, Exists(p), pc'[p] # "user"
  PROVE  /\ pc[p] = "exists" /\ PlaceOf(p)
         /\ tgt[p] \in Inodes /\ ref[tgt[p]] > 0 /\ dtype[tgt[p]] # "free" /\ Safe(tgt[p])
         /\ lock[tgt[p]] = None
         /\ Local(p, "put", "user", tgt[p], None, None) /\ Others(p)
         /\ Reads(tgt[p], None) /\ TypeOK' /\ CallInv'
         /\ UNCHANGED <<cwd, fd, call, lock, dirent, panic, hist>>
<1>1. pc[p] = "exists" /\ PlaceOf(p)
  BY DEF Exists, InDir, At, Inv, PlaceInv
<1>2. tgt[p] \in Inodes /\ ref[tgt[p]] > 0
  BY <1>1, Referenced DEF Inv, TypeOK, PlaceOf, Then, Iputs, IpPlaces, InDirPlaces,
     TgtPlaces, InodeOrNone
<1>3. dtype[tgt[p]] # "free" /\ lock[tgt[p]] = None
  BY <1>2, AsOnDisk DEF Exists, InDir, Ilock, Inv
<1>4. Safe(tgt[p])
  BY <1>2, <1>3, UnlockedSafe
<1>5. ip[p] = None
  BY <1>1, <1>2, <1>3, <1>4 DEF PlaceOf, Then, Iputs, IpPlaces, InDirPlaces
<1>6. Iput(p, tgt[p], "user") /\ UNCHANGED <<fd, call>>
  BY OpenNot DEF Exists, Inv
<1>7. Reads(tgt[p], None) /\ EntriesOK'
  BY <1>2, ReadEffect DEF Exists, ReadLock, ReadLockGet, ReadGet, Links, Inv
<1>8. Local(p, "put", "user", tgt[p], None, None) /\ Others(p)
  BY <1>1, <1>2, <1>3, <1>4, <1>5, <1>6 DEF Exists, Iput, Goto, Leave, Local, Others, Inv,
     TypeOK, procs, locals, PlaceOf, Iputs
<1>9. TypeOK'
  BY <1>1, <1>2, <1>3, <1>4, <1>5, <1>6, <1>7 DEF Exists, Iput, Goto, Leave, Failed, Places,
     InodeOrNone, EntriesOK,
     Inv, TypeOK, disk, icache, procs, locals
<1>10. CallInv'
  BY <1>1, <1>2, <1>3, <1>4, <1>5, <1>6 DEF Exists, Leave, NoCall, Iput, Goto, CallInv, Inv
<1>11. QED
  BY <1>1, <1>2, <1>3, <1>4, <1>5, <1>6, <1>7, <1>8, <1>9, <1>10 DEF Exists, Leave, Iput,
     Goto, Inv, TypeOK, CallInv, disk, icache, procs, locals, hist

LEMMA ExistsFailInv ==
  ASSUME Inv, NEW p \in Procs, Exists(p), pc'[p] # "user"
  PROVE  Inv'
<1>1. /\ pc[p] = "exists" /\ PlaceOf(p)
      /\ tgt[p] \in Inodes /\ ref[tgt[p]] > 0 /\ dtype[tgt[p]] # "free" /\ Safe(tgt[p])
      /\ lock[tgt[p]] = None
      /\ Local(p, "put", "user", tgt[p], None, None) /\ Others(p)
      /\ Reads(tgt[p], None) /\ TypeOK' /\ CallInv'
      /\ UNCHANGED <<cwd, fd, call, lock, dirent, panic, hist>>
  BY ExistsFailEffect
<1>2. PlaceOf(p)'
  BY <1>1, NotNone DEF PlaceOf, Local, Then, Op, Path, Failed, Iputs, Returns, IpPlaces,
     InDirPlaces, TgtPlaces
<1>3. \A k \in Inodes: Uses(p, k)' = Uses(p, k) + (IF k = None THEN 1 ELSE 0)
  BY <1>1, NotNone DEF Local, Uses, One, PlaceOf, Then, Iputs, IpPlaces, InDirPlaces, TgtPlaces
<1>4. \A k \in Inodes: /\ lock'[k] = lock[k]
                       /\ lock'[k] = p <=> LockedBy(p, k)'
                       /\ LockedBy(p, k)' => LockedBy(p, k) \/ k = tgt[p]
  BY <1>1, NotNone DEF LockedBy, Local, Then, Failed, Iputs, Inv, LockInv
<1>5. /\ pc'[p] # "free"
      /\ \A k \in Inodes: Known(p, k)' => Known(p, k) \/ Safe(k)
  BY <1>1, NotNone DEF Known, Local, Then, Failed, Iputs, InDirPlaces, PlaceOf, IpPlaces,
     TgtPlaces
<1>6. dtype[cwd'[p]] = "dir" /\ (Then(p)' \in InDirPlaces => dtype[ip'[p]] = "dir")
  BY <1>1 DEF Inv, KnownInv, Local, Then, Failed, Iputs, InDirPlaces, PlaceOf
<1>7. panic' = panic
  BY <1>1
<1>8. QED BY <1>1, <1>2, <1>3, <1>4, <1>5, <1>6, <1>7, QuietStep

LEMMA CreatedDoneEffect ==
  ASSUME Inv, NEW p \in Procs, Created(p), pc'[p] = "user"
  PROVE  /\ pc[p] = "created" /\ PlaceOf(p)
         /\ tgt[p] \in Inodes
         /\ Local(p, "user", "user", None, None, None) /\ Others(p)
         /\ Reads(None, None) /\ TypeOK' /\ CallInv'
         /\ fd[p] = None /\ fd'[p] = tgt[p]
         /\ call'[p] = NoCall
         /\ \A k \in Inodes: lock'[k] = IF k = tgt[p] THEN None ELSE lock[k]
         /\ UNCHANGED <<cwd, dirent, panic, hist>>
<1>1. pc[p] = "created" /\ PlaceOf(p)
  BY DEF Created, InDir, At, Inv, PlaceInv
<1>2. tgt[p] \in Inodes
  BY <1>1 DEF PlaceOf, Then, Iputs, TgtPlaces, Inv, TypeOK, InodeOrNone
<1>3. ip[p] = None
  BY <1>1, <1>2 DEF PlaceOf, Then, Iputs, IpPlaces, InDirPlaces
<1>4. /\ fd[p] = None /\ fd' = [fd EXCEPT ![p] = tgt[p]]
      /\ Leave(p) /\ UNCHANGED <<put, ret>>
  BY OpenFile DEF Created, Inv
<1>5. Reads(None, None) /\ EntriesOK'
  BY NoEffect DEF Created, disk, icache, Inv
<1>6. Local(p, "user", "user", None, None, None) /\ Others(p)
  BY <1>1, <1>2, <1>3, <1>4 DEF Created, Iput, Goto, Leave, Local, Others, Inv, TypeOK,
     procs, locals, PlaceOf, Iputs
<1>7. TypeOK'
  BY <1>1, <1>2, <1>3, <1>4, <1>5 DEF Created, Iput, Goto, Leave, Failed, Places,
     InodeOrNone, EntriesOK,
     Inv, TypeOK, disk, icache, procs, locals
<1>8. CallInv'
  BY <1>1, <1>2, <1>3, <1>4 DEF Created, Leave, NoCall, Iput, Goto, CallInv, Inv
<1>9. QED
  BY <1>1, <1>2, <1>3, <1>4, <1>5, <1>6, <1>7, <1>8 DEF Created, Leave, Iput, Goto, Inv,
     TypeOK, CallInv, disk, icache, procs, locals, hist

LEMMA CreatedDoneInv ==
  ASSUME Inv, NEW p \in Procs, Created(p), pc'[p] = "user"
  PROVE  Inv'
<1>1. /\ pc[p] = "created" /\ PlaceOf(p)
      /\ tgt[p] \in Inodes
      /\ Local(p, "user", "user", None, None, None) /\ Others(p)
      /\ Reads(None, None) /\ TypeOK' /\ CallInv'
      /\ fd[p] = None /\ fd'[p] = tgt[p]
      /\ call'[p] = NoCall
      /\ \A k \in Inodes: lock'[k] = IF k = tgt[p] THEN None ELSE lock[k]
      /\ UNCHANGED <<cwd, dirent, panic, hist>>
  BY CreatedDoneEffect
<1>2. PlaceOf(p)'
  BY <1>1, NotNone DEF PlaceOf, Local, Then, Op, Path, Failed, Iputs, Returns, IpPlaces,
     InDirPlaces, TgtPlaces
<1>3. \A k \in Inodes: Uses(p, k)' = Uses(p, k) + (IF k = None THEN 1 ELSE 0)
  BY <1>1, NotNone DEF Local, Uses, One, PlaceOf, Then, Iputs, IpPlaces, InDirPlaces, TgtPlaces
<1>4. \A k \in Inodes: /\ (lock'[k] = lock[k] \/ (lock[k] \in {None, p} /\ lock'[k] \in {None, p}))
                       /\ lock'[k] = p <=> LockedBy(p, k)'
                       /\ LockedBy(p, k)' => LockedBy(p, k) \/ k = None
  BY <1>1, NotNone DEF LockedBy, Local, Then, Failed, Iputs, Inv, LockInv
<1>5. /\ pc'[p] # "free"
      /\ \A k \in Inodes: Known(p, k)' => Known(p, k) \/ Safe(k)
  BY <1>1, NotNone DEF Known, Local, Then, Failed, Iputs, InDirPlaces, PlaceOf, IpPlaces,
     TgtPlaces
<1>6. dtype[cwd'[p]] = "dir" /\ (Then(p)' \in InDirPlaces => dtype[ip'[p]] = "dir")
  BY <1>1 DEF Inv, KnownInv, Local, Then, Failed, Iputs, InDirPlaces, PlaceOf
<1>7. panic' = panic
  BY <1>1
<1>8. QED BY <1>1, <1>2, <1>3, <1>4, <1>5, <1>6, <1>7, QuietStep

LEMMA CreatedFailEffect ==
  ASSUME Inv, NEW p \in Procs, Created(p), pc'[p] # "user"
  PROVE  /\ pc[p] = "created" /\ PlaceOf(p)
         /\ tgt[p] \in Inodes
         /\ Local(p, "put", "user", tgt[p], None, None) /\ Others(p)
         /\ Reads(None, None) /\ TypeOK' /\ CallInv'
         /\ \A k \in Inodes: lock'[k] = IF k = tgt[p] THEN None ELSE lock[k]
         /\ UNCHANGED <<cwd, fd, call, dirent, panic, hist>>
<1>1. pc[p] = "created" /\ PlaceOf(p)
  BY DEF Created, InDir, At, Inv, PlaceInv
<1>2. tgt[p] \in Inodes
  BY <1>1 DEF PlaceOf, Then, Iputs, TgtPlaces, Inv, TypeOK, InodeOrNone
<1>3. ip[p] = None
  BY <1>1, <1>2 DEF PlaceOf, Then, Iputs, IpPlaces, InDirPlaces
<1>4. Iput(p, tgt[p], "user") /\ UNCHANGED <<fd, call>>
  BY OpenNot DEF Created, Inv
<1>5. Reads(None, None) /\ EntriesOK'
  BY NoEffect DEF Created, disk, icache, Inv
<1>6. Local(p, "put", "user", tgt[p], None, None) /\ Others(p)
  BY <1>1, <1>2, <1>3, <1>4 DEF Created, Iput, Goto, Leave, Local, Others, Inv, TypeOK,
     procs, locals, PlaceOf, Iputs
<1>7. TypeOK'
  BY <1>1, <1>2, <1>3, <1>4, <1>5 DEF Created, Iput, Goto, Leave, Failed, Places,
     InodeOrNone, EntriesOK,
     Inv, TypeOK, disk, icache, procs, locals
<1>8. CallInv'
  BY <1>1, <1>2, <1>3, <1>4 DEF Created, Leave, NoCall, Iput, Goto, CallInv, Inv
<1>9. QED
  BY <1>1, <1>2, <1>3, <1>4, <1>5, <1>6, <1>7, <1>8 DEF Created, Leave, Iput, Goto, Inv,
     TypeOK, CallInv, disk, icache, procs, locals, hist

LEMMA CreatedFailInv ==
  ASSUME Inv, NEW p \in Procs, Created(p), pc'[p] # "user"
  PROVE  Inv'
<1>1. /\ pc[p] = "created" /\ PlaceOf(p)
      /\ tgt[p] \in Inodes
      /\ Local(p, "put", "user", tgt[p], None, None) /\ Others(p)
      /\ Reads(None, None) /\ TypeOK' /\ CallInv'
      /\ \A k \in Inodes: lock'[k] = IF k = tgt[p] THEN None ELSE lock[k]
      /\ UNCHANGED <<cwd, fd, call, dirent, panic, hist>>
  BY CreatedFailEffect
<1>2. PlaceOf(p)'
  BY <1>1, NotNone DEF PlaceOf, Local, Then, Op, Path, Failed, Iputs, Returns, IpPlaces,
     InDirPlaces, TgtPlaces
<1>3. \A k \in Inodes: Uses(p, k)' = Uses(p, k) + (IF k = None THEN 1 ELSE 0)
  BY <1>1, NotNone DEF Local, Uses, One, PlaceOf, Then, Iputs, IpPlaces, InDirPlaces, TgtPlaces
<1>4. \A k \in Inodes: /\ (lock'[k] = lock[k] \/ (lock[k] \in {None, p} /\ lock'[k] \in {None, p}))
                       /\ lock'[k] = p <=> LockedBy(p, k)'
                       /\ LockedBy(p, k)' => LockedBy(p, k) \/ k = None
  BY <1>1, NotNone DEF LockedBy, Local, Then, Failed, Iputs, Inv, LockInv
<1>5. /\ pc'[p] # "free"
      /\ \A k \in Inodes: Known(p, k)' => Known(p, k) \/ Safe(k)
  BY <1>1, NotNone DEF Known, Local, Then, Failed, Iputs, InDirPlaces, PlaceOf, IpPlaces,
     TgtPlaces
<1>6. dtype[cwd'[p]] = "dir" /\ (Then(p)' \in InDirPlaces => dtype[ip'[p]] = "dir")
  BY <1>1 DEF Inv, KnownInv, Local, Then, Failed, Iputs, InDirPlaces, PlaceOf
<1>7. panic' = panic
  BY <1>1
<1>8. QED BY <1>1, <1>2, <1>3, <1>4, <1>5, <1>6, <1>7, QuietStep

-----------------------------------------------------------------------------
(* unlink().                                                               *)

LEMMA UnlinkNoneEffect ==
  ASSUME Inv, NEW p \in Procs, UnlinkNone(p)
  PROVE  /\ pc[p] = "unlink" /\ PlaceOf(p)
         /\ ip[p] \in Inodes /\ ref[ip[p]] > 0 /\ dtype[ip[p]] # "free" /\ Safe(ip[p])
         /\ lock[ip[p]] = None
         /\ Local(p, "put", "user", ip[p], None, None) /\ Others(p)
         /\ Reads(ip[p], None) /\ TypeOK' /\ CallInv'
         /\ UNCHANGED <<cwd, fd, call, lock, dirent, panic, hist>>
<1>1. pc[p] = "unlink" /\ PlaceOf(p)
  BY DEF UnlinkNone, InDir, At, Inv, PlaceInv
<1>2. ip[p] \in Inodes /\ ref[ip[p]] > 0
  BY <1>1, Referenced DEF Inv, TypeOK, PlaceOf, Then, Iputs, IpPlaces, InDirPlaces,
     TgtPlaces, InodeOrNone
<1>3. dtype[ip[p]] # "free" /\ lock[ip[p]] = None
  BY <1>2, AsOnDisk DEF UnlinkNone, InDir, Ilock, Inv
<1>4. Safe(ip[p])
  BY <1>2, <1>3, UnlockedSafe
<1>5. tgt[p] = None
  BY <1>1, <1>2, <1>3, <1>4 DEF PlaceOf, Then, Iputs, TgtPlaces
<1>6. Reads(ip[p], None) /\ EntriesOK'
  BY <1>2, ReadEffect DEF UnlinkNone, ReadLock, ReadLockGet, ReadGet, Links, Inv
<1>7. Local(p, "put", "user", ip[p], None, None) /\ Others(p)
  BY <1>1, <1>2, <1>3, <1>4, <1>5 DEF UnlinkNone, Iput, Goto, Leave, Local, Others, Inv,
     TypeOK, procs, locals, PlaceOf, Iputs
<1>8. TypeOK'
  BY <1>1, <1>2, <1>3, <1>4, <1>5, <1>6 DEF UnlinkNone, Iput, Goto, Leave, Failed, Places,
     InodeOrNone, EntriesOK,
     Inv, TypeOK, disk, icache, procs, locals
<1>9. CallInv'
  BY <1>1, <1>2, <1>3, <1>4, <1>5 DEF UnlinkNone, Leave, NoCall, Iput, Goto, CallInv, Inv
<1>10. QED
  BY <1>1, <1>2, <1>3, <1>4, <1>5, <1>6, <1>7, <1>8, <1>9 DEF UnlinkNone, Leave, Iput, Goto,
     Inv, TypeOK, CallInv, disk, icache, procs, locals, hist

LEMMA UnlinkNoneInv ==
  ASSUME Inv, NEW p \in Procs, UnlinkNone(p)
  PROVE  Inv'
<1>1. /\ pc[p] = "unlink" /\ PlaceOf(p)
      /\ ip[p] \in Inodes /\ ref[ip[p]] > 0 /\ dtype[ip[p]] # "free" /\ Safe(ip[p])
      /\ lock[ip[p]] = None
      /\ Local(p, "put", "user", ip[p], None, None) /\ Others(p)
      /\ Reads(ip[p], None) /\ TypeOK' /\ CallInv'
      /\ UNCHANGED <<cwd, fd, call, lock, dirent, panic, hist>>
  BY UnlinkNoneEffect
<1>2. PlaceOf(p)'
  BY <1>1, NotNone DEF PlaceOf, Local, Then, Op, Path, Failed, Iputs, Returns, IpPlaces,
     InDirPlaces, TgtPlaces
<1>3. \A k \in Inodes: Uses(p, k)' = Uses(p, k) + (IF k = None THEN 1 ELSE 0)
  BY <1>1, NotNone DEF Local, Uses, One, PlaceOf, Then, Iputs, IpPlaces, InDirPlaces, TgtPlaces
<1>4. \A k \in Inodes: /\ lock'[k] = lock[k]
                       /\ lock'[k] = p <=> LockedBy(p, k)'
                       /\ LockedBy(p, k)' => LockedBy(p, k) \/ k = ip[p]
  BY <1>1, NotNone DEF LockedBy, Local, Then, Failed, Iputs, Inv, LockInv
<1>5. /\ pc'[p] # "free"
      /\ \A k \in Inodes: Known(p, k)' => Known(p, k) \/ Safe(k)
  BY <1>1, NotNone DEF Known, Local, Then, Failed, Iputs, InDirPlaces, PlaceOf, IpPlaces,
     TgtPlaces
<1>6. dtype[cwd'[p]] = "dir" /\ (Then(p)' \in InDirPlaces => dtype[ip'[p]] = "dir")
  BY <1>1 DEF Inv, KnownInv, Local, Then, Failed, Iputs, InDirPlaces, PlaceOf
<1>7. panic' = panic
  BY <1>1
<1>8. QED BY <1>1, <1>2, <1>3, <1>4, <1>5, <1>6, <1>7, QuietStep

LEMMA UnlinkFoundEffect ==
  ASSUME Inv, NEW p \in Procs, UnlinkFound(p)
  PROVE  /\ pc[p] = "unlink" /\ PlaceOf(p)
         /\ ip[p] \in Inodes /\ ref[ip[p]] > 0 /\ dtype[ip[p]] # "free" /\ Safe(ip[p])
         /\ lock[ip[p]] = None
         /\ dtype[ip[p]] = "dir"
         /\ Path(p) # <<>>
         /\ dirent[ip[p]][Name(p)] \in Inodes /\ Name(p) \in Entries
         /\ Name(p) \in Names
         /\ Local(p, "victim", "user", None, ip[p], dirent[ip[p]][Name(p)]) /\ Others(p)
         /\ Reads(ip[p], dirent[ip[p]][Name(p)]) /\ TypeOK' /\ CallInv'
         /\ \A k \in Inodes: lock'[k] = IF k = ip[p] THEN p ELSE lock[k]
         /\ UNCHANGED <<cwd, fd, call, dirent, panic, hist>>
<1>1. pc[p] = "unlink" /\ PlaceOf(p)
  BY DEF UnlinkFound, InDir, At, Inv, PlaceInv
<1>2. ip[p] \in Inodes /\ ref[ip[p]] > 0
  BY <1>1, Referenced DEF Inv, TypeOK, PlaceOf, Then, Iputs, IpPlaces, InDirPlaces,
     TgtPlaces, InodeOrNone
<1>3. dtype[ip[p]] # "free" /\ lock[ip[p]] = None
  BY <1>2, AsOnDisk DEF UnlinkFound, InDir, Ilock, Inv
<1>4. Safe(ip[p])
  BY <1>2, <1>3, UnlockedSafe
<1>5. dtype[ip[p]] = "dir"
  BY <1>1, <1>2, <1>3, <1>4, AsOnDisk DEF UnlinkFound, InDir, Inv
<1>6. Path(p) # <<>>
  BY <1>1, <1>2, <1>3, <1>4, <1>5 DEF PlaceOf, Then, Iputs, InDirPlaces
<1>7. dirent[ip[p]][Name(p)] \in Inodes /\ Name(p) \in Entries
  BY <1>1, <1>2, <1>3, <1>4, <1>5, <1>6, NextName DEF UnlinkFound, InodeOrNone, Inv
<1>8. Name(p) \in Names
  BY <1>1, <1>2, <1>3, <1>4, <1>5, <1>6, <1>7 DEF UnlinkFound, Entries
<1>9. Reads(ip[p], dirent[ip[p]][Name(p)]) /\ EntriesOK'
  BY <1>2, ReadEffect DEF UnlinkFound, ReadLock, ReadLockGet, ReadGet, Links, Inv
<1>10. Local(p, "victim", "user", None, ip[p], dirent[ip[p]][Name(p)]) /\ Others(p)
  BY <1>1, <1>2, <1>3, <1>4, <1>5, <1>6, <1>7, <1>8 DEF UnlinkFound, Iput, Goto, Leave,
     Local, Others, Inv, TypeOK, procs, locals, PlaceOf, Iputs
<1>11. TypeOK'
  BY <1>1, <1>2, <1>3, <1>4, <1>5, <1>6, <1>7, <1>8, <1>9 DEF UnlinkFound, Iput, Goto,
     Leave, Failed, Places, InodeOrNone, EntriesOK,
     Inv, TypeOK, disk, icache, procs, locals
<1>12. CallInv'
  BY <1>1, <1>2, <1>3, <1>4, <1>5, <1>6, <1>7, <1>8 DEF UnlinkFound, Leave, NoCall, Iput,
     Goto, CallInv, Inv
<1>13. QED
  BY <1>1, <1>2, <1>3, <1>4, <1>5, <1>6, <1>7, <1>8, <1>9, <1>10, <1>11, <1>12 DEF
     UnlinkFound, Leave, Iput, Goto, Inv, TypeOK, CallInv, disk, icache, procs, locals, hist

LEMMA UnlinkFoundInv ==
  ASSUME Inv, NEW p \in Procs, UnlinkFound(p)
  PROVE  Inv'
<1>1. /\ pc[p] = "unlink" /\ PlaceOf(p)
      /\ ip[p] \in Inodes /\ ref[ip[p]] > 0 /\ dtype[ip[p]] # "free" /\ Safe(ip[p])
      /\ lock[ip[p]] = None
      /\ dtype[ip[p]] = "dir"
      /\ Path(p) # <<>>
      /\ dirent[ip[p]][Name(p)] \in Inodes /\ Name(p) \in Entries
      /\ Name(p) \in Names
      /\ Local(p, "victim", "user", None, ip[p], dirent[ip[p]][Name(p)]) /\ Others(p)
      /\ Reads(ip[p], dirent[ip[p]][Name(p)]) /\ TypeOK' /\ CallInv'
      /\ \A k \in Inodes: lock'[k] = IF k = ip[p] THEN p ELSE lock[k]
      /\ UNCHANGED <<cwd, fd, call, dirent, panic, hist>>
  BY UnlinkFoundEffect
<1>2. PlaceOf(p)'
  BY <1>1, NotNone DEF PlaceOf, Local, Then, Op, Path, Failed, Iputs, Returns, IpPlaces,
     InDirPlaces, TgtPlaces
<1>3. \A k \in Inodes: Uses(p, k)' = Uses(p, k) + (IF k = dirent[ip[p]][Name(p)] THEN 1 ELSE 0)
  BY <1>1, NotNone DEF Local, Uses, One, PlaceOf, Then, Iputs, IpPlaces, InDirPlaces, TgtPlaces
<1>4. \A k \in Inodes: /\ (lock'[k] = lock[k] \/ (lock[k] \in {None, p} /\ lock'[k] \in {None, p}))
                       /\ lock'[k] = p <=> LockedBy(p, k)'
                       /\ LockedBy(p, k)' => LockedBy(p, k) \/ k = ip[p]
  BY <1>1, NotNone DEF LockedBy, Local, Then, Failed, Iputs, Inv, LockInv
<1>5. /\ pc'[p] # "free"
      /\ \A k \in Inodes: Known(p, k)' => Known(p, k) \/ Safe(k)
  BY <1>1, NotNone DEF Known, Local, Then, Failed, Iputs, InDirPlaces, PlaceOf, IpPlaces,
     TgtPlaces
<1>6. dtype[cwd'[p]] = "dir" /\ (Then(p)' \in InDirPlaces => dtype[ip'[p]] = "dir")
  BY <1>1 DEF Inv, KnownInv, Local, Then, Failed, Iputs, InDirPlaces, PlaceOf
<1>7. panic' = panic
  BY <1>1
<1>8. QED BY <1>1, <1>2, <1>3, <1>4, <1>5, <1>6, <1>7, QuietStep

LEMMA UnlinkBusyEffect ==
  ASSUME Inv, NEW p \in Procs, UnlinkBusy(p)
  PROVE  /\ pc[p] = "victim" /\ PlaceOf(p)
         /\ tgt[p] \in Inodes /\ ref[tgt[p]] > 0 /\ dtype[tgt[p]] # "free" /\ Safe(tgt[p])
         /\ lock[tgt[p]] = None
         /\ Local(p, "put", "unlockdp", tgt[p], ip[p], None) /\ Others(p)
         /\ Reads(tgt[p], None) /\ TypeOK' /\ CallInv'
         /\ UNCHANGED <<cwd, fd, call, lock, dirent, panic, hist>>
<1>1. pc[p] = "victim" /\ PlaceOf(p)
  BY DEF UnlinkBusy, InDir, At, Inv, PlaceInv
<1>2. tgt[p] \in Inodes /\ ref[tgt[p]] > 0
  BY <1>1, Referenced DEF Inv, TypeOK, PlaceOf, Then, Iputs, IpPlaces, InDirPlaces,
     TgtPlaces, InodeOrNone
<1>3. dtype[tgt[p]] # "free" /\ lock[tgt[p]] = None
  BY <1>2, AsOnDisk DEF UnlinkBusy, InDir, Ilock, Inv
<1>4. Safe(tgt[p])
  BY <1>2, <1>3, UnlockedSafe
<1>5. Reads(tgt[p], None) /\ EntriesOK'
  BY <1>2, ReadEffect DEF UnlinkBusy, ReadLock, ReadLockGet, ReadGet, Links, Inv
<1>6. Local(p, "put", "unlockdp", tgt[p], ip[p], None) /\ Others(p)
  BY <1>1, <1>2, <1>3, <1>4 DEF UnlinkBusy, Iput, Goto, Leave, Local, Others, Inv, TypeOK,
     procs, locals, PlaceOf, Iputs
<1>7. TypeOK'
  BY <1>1, <1>2, <1>3, <1>4, <1>5 DEF UnlinkBusy, Iput, Goto, Leave, Failed, Places,
     InodeOrNone, EntriesOK,
     Inv, TypeOK, disk, icache, procs, locals
<1>8. CallInv'
  BY <1>1, <1>2, <1>3, <1>4 DEF UnlinkBusy, Leave, NoCall, Iput, Goto, CallInv, Inv
<1>9. QED
  BY <1>1, <1>2, <1>3, <1>4, <1>5, <1>6, <1>7, <1>8 DEF UnlinkBusy, Leave, Iput, Goto, Inv,
     TypeOK, CallInv, disk, icache, procs, locals, hist

LEMMA UnlinkBusyInv ==
  ASSUME Inv, NEW p \in Procs, UnlinkBusy(p)
  PROVE  Inv'
<1>1. /\ pc[p] = "victim" /\ PlaceOf(p)
      /\ tgt[p] \in Inodes /\ ref[tgt[p]] > 0 /\ dtype[tgt[p]] # "free" /\ Safe(tgt[p])
      /\ lock[tgt[p]] = None
      /\ Local(p, "put", "unlockdp", tgt[p], ip[p], None) /\ Others(p)
      /\ Reads(tgt[p], None) /\ TypeOK' /\ CallInv'
      /\ UNCHANGED <<cwd, fd, call, lock, dirent, panic, hist>>
  BY UnlinkBusyEffect
<1>2. PlaceOf(p)'
  BY <1>1, NotNone DEF PlaceOf, Local, Then, Op, Path, Failed, Iputs, Returns, IpPlaces,
     InDirPlaces, TgtPlaces
<1>3. \A k \in Inodes: Uses(p, k)' = Uses(p, k) + (IF k = None THEN 1 ELSE 0)
  BY <1>1, NotNone DEF Local, Uses, One, PlaceOf, Then, Iputs, IpPlaces, InDirPlaces, TgtPlaces
<1>4. \A k \in Inodes: /\ lock'[k] = lock[k]
                       /\ lock'[k] = p <=> LockedBy(p, k)'
                       /\ LockedBy(p, k)' => LockedBy(p, k) \/ k = tgt[p]
  BY <1>1, NotNone DEF LockedBy, Local, Then, Failed, Iputs, Inv, LockInv
<1>5. /\ pc'[p] # "free"
      /\ \A k \in Inodes: Known(p, k)' => Known(p, k) \/ Safe(k)
  BY <1>1, NotNone DEF Known, Local, Then, Failed, Iputs, InDirPlaces, PlaceOf, IpPlaces,
     TgtPlaces
<1>6. dtype[cwd'[p]] = "dir" /\ (Then(p)' \in InDirPlaces => dtype[ip'[p]] = "dir")
  BY <1>1 DEF Inv, KnownInv, Local, Then, Failed, Iputs, InDirPlaces, PlaceOf
<1>7. panic' = panic
  BY <1>1
<1>8. QED BY <1>1, <1>2, <1>3, <1>4, <1>5, <1>6, <1>7, QuietStep

-----------------------------------------------------------------------------
(* Steps that change the inodes.                                           *)

\* The entries of W are read and written, the others are left alone; a free
\* inode may be taken that has no valid entry.
Writes(W) ==
  \A k \in Inodes:
    IF k \in W
      THEN valid'[k] /\ dtype'[k] # "free" /\ type'[k] = dtype'[k] /\ nlink'[k] = dnlink'[k]
      ELSE \/ /\ dtype'[k] = dtype[k] /\ type'[k] = type[k]
              /\ dnlink'[k] = dnlink[k] /\ nlink'[k] = nlink[k]
              /\ ref[k] > 0 => (valid'[k] <=> valid[k])
              /\ ref'[k] > 0 /\ valid'[k] => ref[k] > 0
           \/ dtype[k] = "free" /\ ~valid'[k]

\* What iput() has locked to free it is allocated, and p does not change it.
LEMMA FreeingEntry ==
  ASSUME Inv, NEW q \in Procs, pc[q] = "free"
  PROVE  /\ put[q] \in Inodes /\ lock[put[q]] = q /\ ref[put[q]] > 0
         /\ valid[put[q]] /\ dtype[put[q]] # "free" /\ nlink[put[q]] = 0
<1>1. put[q] \in Inodes
  BY DEF Inv, TypeOK, PlaceInv, PlaceOf, InodeOrNone, Iputs
<1>2. LockedBy(q, put[q])
  BY DEF LockedBy
<1>3. lock[put[q]] = q /\ ref[put[q]] > 0 /\ valid[put[q]] /\ nlink[put[q]] = 0
  BY <1>1, <1>2, LockedRef DEF Inv, LockInv, EntryInv
<1>4. dtype[put[q]] # "free"
  BY <1>1, <1>3 DEF Inv, EntryInv, EntryOf
<1>5. QED BY <1>1, <1>3, <1>4

LEMMA WriteEntry ==
  ASSUME Inv, NEW p \in Procs, Others(p), NEW W, Writes(W), pc'[p] # "free",
         \A k \in W: k \in Inodes /\ lock[k] \in {None, p},
         \A k \in Inodes: LockedBy(p, k)' => LockedBy(p, k) \/ k \in W
  PROVE  EntryInv'
<1>1. ASSUME NEW k \in Inodes PROVE EntryOf(k)'
  BY Referenced DEF Writes, Inv, EntryInv, EntryOf
<1>2. ASSUME NEW q \in Procs, NEW k \in Inodes, LockedBy(q, k)' PROVE valid'[k]
  <2>1. LockedBy(q, k) \/ k \in W
    BY <1>2 DEF LockedBy, Others, Then
  <2>2. CASE k \in W
    BY <2>2 DEF Writes
  <2>3. CASE k \notin W
    <3>1. valid[k] /\ ref[k] > 0
      BY <2>1, <2>3, LockedRef DEF Inv, EntryInv
    <3>2. dtype[k] # "free"
      BY <3>1 DEF Inv, EntryInv, EntryOf
    <3>3. QED BY <2>3, <3>1, <3>2 DEF Writes
  <2>4. QED BY <2>2, <2>3
<1>3. ASSUME NEW q \in Procs, pc'[q] = "free" PROVE nlink'[put'[q]] = 0
  <2>1. q # p /\ pc[q] = "free" /\ put'[q] = put[q]
    BY <1>3 DEF Others
  <2>2. /\ put[q] \in Inodes /\ lock[put[q]] = q /\ dtype[put[q]] # "free"
        /\ nlink[put[q]] = 0
    BY <2>1, FreeingEntry
  <2>3. put[q] \notin W
    BY <2>1, <2>2, NotNone
  <2>4. QED BY <2>1, <2>2, <2>3 DEF Writes
<1>4. QED BY <1>1, <1>2, <1>3 DEF EntryInv

LEMMA WriteStep ==
  ASSUME Inv, NEW p \in Procs, Others(p), TypeOK', CallInv', PlaceOf(p)', panic' = panic,
         NEW W, Writes(W), pc'[p] # "free", \A k \in W: k \in Inodes /\ lock[k] \in {None, p},
         \A k \in Inodes: dtype'[k] = dtype[k] \/ (dtype[k] = "free" /\ dtype'[k] # "free"),
         NEW j,
         \A k \in Inodes:
           /\ ref'[k] = IF k = j THEN ref[k] + 1 ELSE ref[k]
           /\ Uses(p, k)' = Uses(p, k) + (IF k = j THEN 1 ELSE 0)
           /\ \/ lock'[k] = lock[k]
              \/ lock[k] \in {None, p} /\ lock'[k] \in {None, p}
           /\ lock'[k] = p <=> LockedBy(p, k)'
           /\ LockedBy(p, k)' => LockedBy(p, k) \/ k \in W
           /\ Known(p, k)' => Known(p, k) \/ Safe(k)',
         dtype'[cwd'[p]] = "dir", Then(p)' \in InDirPlaces => dtype'[ip'[p]] = "dir"
  PROVE  Inv'
<1>1. PlaceInv'
  BY PlaceStep DEF Inv
<1>2. LockInv'
  BY LockStep DEF Inv
<1>3. RefsCounted'
  <2>1. \A k \in Inodes: ref'[k] = (ref[k] - Uses(p, k)) + Uses(p, k)'
    <3>1. SUFFICES ASSUME NEW k \in Inodes
                   PROVE  ref'[k] = (ref[k] - Uses(p, k)) + Uses(p, k)'
      OBVIOUS
    <3>2. ref[k] \in Nat /\ Uses(p, k) \in Nat
      BY Counted DEF Inv
    <3>3. /\ ref'[k] = IF k = j THEN ref[k] + 1 ELSE ref[k]
          /\ Uses(p, k)' = Uses(p, k) + (IF k = j THEN 1 ELSE 0)
      OBVIOUS
    <3>4. QED BY <3>2, <3>3
  <2>2. QED BY <2>1, CountStep DEF Inv
<1>4. EntryInv'
  BY WriteEntry
<1>5. KnownInv'
  BY KnownStep DEF Inv
<1>6. QED BY <1>1, <1>2, <1>3, <1>4, <1>5 DEF Inv, ParentsStayDirs

-----------------------------------------------------------------------------
(* iput() of an inode with no links and no other references.               *)

LEMMA PutLastEffect ==
  ASSUME Inv, NEW p \in Procs, PutTest(p), Last(put[p])
  PROVE  /\ pc[p] = "put" /\ PlaceOf(p)
         /\ put[p] \in Inodes /\ valid[put[p]] /\ nlink[put[p]] = 0 /\ ref[put[p]] = 1
         /\ lock[put[p]] = None
         /\ Local(p, "free", ret[p], put[p], ip[p], tgt[p]) /\ Others(p)
         /\ TypeOK' /\ CallInv'
         /\ \A k \in Inodes: lock'[k] = IF k = put[p] THEN p ELSE lock[k]
         /\ UNCHANGED <<dtype, dnlink, dirent, ref, valid, type, nlink, cwd, fd, call, panic, calls,
                        stray, lost>>
         /\ overlap' <=> overlap
<1>1. pc[p] = "put" /\ PlaceOf(p)
  BY DEF PutTest, At, Inv, PlaceInv
<1>2. put[p] \in Inodes
  BY <1>1 DEF PlaceOf, Inv, TypeOK, InodeOrNone, Iputs
<1>3. valid[put[p]] /\ nlink[put[p]] = 0 /\ ref[put[p]] = 1 /\ lock[put[p]] = None
  BY DEF PutTest, Last
<1>4. Local(p, "free", ret[p], put[p], ip[p], tgt[p]) /\ Others(p)
  BY <1>1 DEF PutTest, Goto, Local, Others, Inv, TypeOK, procs, locals
<1>5. TypeOK'
  BY DEF PutTest, Goto, Places, Inv, TypeOK, disk, procs, locals
<1>6. CallInv'
  BY DEF PutTest, Inv, CallInv
<1>7. \A k \in Inodes: lock'[k] = IF k = put[p] THEN p ELSE lock[k]
  BY DEF PutTest, Inv, TypeOK
<1>8. overlap' <=> overlap
  <2>1. ~(ref[put[p]] > 1)
    BY <1>3
  <2>2. QED BY <2>1, Zenon DEF PutTest
<1>9. QED BY <1>1, <1>2, <1>3, <1>4, <1>5, <1>6, <1>7, <1>8 DEF PutTest, disk, procs

\* Nobody knows an inode whose only reference is the one of iput().
LEMMA LastUnknown ==
  ASSUME Inv, NEW p \in Procs, put[p] \in Inodes, ref[put[p]] = 1, NEW q \in Procs
  PROVE  ~Known(q, put[p]) /\ (q # p => put[q] # put[p])
  BY Referenced DEF Inv, Known

LEMMA PutLastInv ==
  ASSUME Inv, NEW p \in Procs, PutTest(p), Last(put[p])
  PROVE  Inv'
<1>1. /\ pc[p] = "put" /\ PlaceOf(p)
      /\ put[p] \in Inodes /\ valid[put[p]] /\ nlink[put[p]] = 0 /\ ref[put[p]] = 1
      /\ lock[put[p]] = None
      /\ Local(p, "free", ret[p], put[p], ip[p], tgt[p]) /\ Others(p)
      /\ TypeOK' /\ CallInv'
      /\ \A k \in Inodes: lock'[k] = IF k = put[p] THEN p ELSE lock[k]
      /\ UNCHANGED <<dtype, dirent, dnlink, ref, valid, type, nlink, cwd, fd, call, panic>>
  BY PutLastEffect
<1>2. Then(p)' = Then(p)
  BY <1>1 DEF Local, Then, Iputs
<1>3. PlaceInv'
  <2>1. PlaceOf(p)'
    BY <1>1, <1>2 DEF PlaceOf, Local, Iputs, Op, Path
  <2>2. QED BY <1>1, <2>1, PlaceStep DEF Inv
<1>4. \A k \in Inodes: LockedBy(p, k)' <=> LockedBy(p, k) \/ k = put[p]
  BY <1>1, <1>2 DEF Local, LockedBy
<1>5. LockInv'
  <2>1. \A k \in Inodes: LockedBy(p, k) <=> lock[k] = p
    BY DEF Inv, LockInv
  <2>2. QED BY <1>1, <1>4, <2>1, LockStep DEF Inv
<1>6. RefsCounted'
  <2>1. \A k \in Inodes: Uses(p, k)' = Uses(p, k) /\ Uses(p, k) \in Nat /\ ref[k] \in Nat
    BY <1>1, Counted DEF Local, Uses, Inv
  <2>2. \A k \in Inodes: ref'[k] = (ref[k] - Uses(p, k)) + Uses(p, k)'
    BY <1>1, <2>1
  <2>3. QED BY <1>1, <2>2, CountStep DEF Inv
<1>7. EntryInv'
  <2>1. \A k \in Inodes: EntryOf(k)'
    BY <1>1 DEF Inv, EntryInv, EntryOf
  <2>2. ASSUME NEW q \in Procs, NEW k \in Inodes, LockedBy(q, k)' PROVE valid'[k]
    <3>1. LockedBy(q, k) \/ k = put[p]
      BY <1>1, <1>4, <2>2 DEF LockedBy, Others, Then
    <3>2. QED BY <1>1, <3>1 DEF Inv, EntryInv
  <2>3. ASSUME NEW q \in Procs, pc'[q] = "free" PROVE nlink'[put'[q]] = 0
    BY <1>1, <2>3 DEF Local, Others, Inv, EntryInv
  <2>4. QED BY <2>1, <2>2, <2>3 DEF EntryInv
<1>8. KnownInv'
  <2>1. ASSUME NEW q \in Procs PROVE Then(q)' = Then(q) /\ ip'[q] = ip[q] /\ tgt'[q] = tgt[q]
    BY <1>1, <1>2 DEF Local, Others, Then
  <2>2. ASSUME NEW q \in Procs, NEW k \in Inodes, Known(q, k)' PROVE Safe(k)'
    <3>1. Known(q, k)
      BY <1>1, <2>1, <2>2 DEF Known
    <3>2. k # put[p] /\ Safe(k)
      BY <1>1, <3>1, LastUnknown DEF Inv, KnownInv
    <3>3. QED BY <1>1, <3>2 DEF Safe, Local, Others
  <2>3. QED BY <1>1, <2>1, <2>2 DEF Inv, KnownInv
<1>9. QED BY <1>1, <1>3, <1>5, <1>6, <1>7, <1>8 DEF Inv, ParentsStayDirs

\* The inode that is freed is nobody's.
LEMMA PutFreeEffect ==
  ASSUME Inv, NEW p \in Procs, PutFree(p)
  PROVE  /\ pc[p] = "free" /\ PlaceOf(p)
         /\ put[p] \in Inodes /\ lock[put[p]] = p /\ ref[put[p]] > 0 /\ valid[put[p]]
         /\ dtype[put[p]] # "free" /\ nlink[put[p]] = 0 /\ dnlink[put[p]] = 0
         /\ \A q \in Procs: ~Known(q, put[p])
         /\ Local(p, "dec", ret[p], put[p], ip[p], tgt[p]) /\ Others(p)
         /\ TypeOK' /\ CallInv'
         /\ \A k \in Inodes: /\ lock'[k] = IF k = put[p] THEN None ELSE lock[k]
                             /\ dtype'[k] = IF k = put[p] THEN "free" ELSE dtype[k]
                             /\ dirent'[k] = IF k = put[p] THEN NoEntry ELSE dirent[k]
                             /\ valid'[k] <=> (valid[k] /\ k # put[p])
                             /\ k # put[p] => type'[k] = type[k]
         /\ dnlink' = dnlink
         /\ UNCHANGED <<ref, nlink, cwd, fd, call, panic, hist>>
<1>1. pc[p] = "free" /\ PlaceOf(p)
  BY DEF PutFree, At, Inv, PlaceInv
<1>2. /\ put[p] \in Inodes /\ lock[put[p]] = p /\ ref[put[p]] > 0
      /\ valid[put[p]] /\ dtype[put[p]] # "free" /\ nlink[put[p]] = 0
  BY <1>1, FreeingEntry
<1>3. dnlink[put[p]] = 0
  BY <1>2 DEF Inv, EntryInv, EntryOf
<1>4. \A q \in Procs: ~Known(q, put[p])
  BY <1>1, <1>2 DEF Inv, KnownInv, Safe
<1>5. Local(p, "dec", ret[p], put[p], ip[p], tgt[p]) /\ Others(p)
  BY <1>1 DEF PutFree, Goto, Local, Others, Inv, TypeOK, procs, locals
<1>6. NoEntry \in [Entries -> InodeOrNone]
  BY DEF NoEntry, InodeOrNone
<1>7. TypeOK'
  BY <1>2, <1>6 DEF PutFree, Goto, Places, Types, Inv, TypeOK, procs, locals
<1>8. CallInv'
  BY DEF PutFree, Inv, CallInv
<1>9. /\ \A k \in Inodes: /\ lock'[k] = IF k = put[p] THEN None ELSE lock[k]
                          /\ dtype'[k] = IF k = put[p] THEN "free" ELSE dtype[k]
                          /\ dirent'[k] = IF k = put[p] THEN NoEntry ELSE dirent[k]
                          /\ valid'[k] <=> (valid[k] /\ k # put[p])
                          /\ k # put[p] => type'[k] = type[k]
      /\ dnlink' = dnlink
  BY <1>2, <1>3 DEF PutFree, Inv, TypeOK
<1>10. QED BY <1>1, <1>2, <1>3, <1>4, <1>5, <1>7, <1>8, <1>9 DEF PutFree, procs

LEMMA PutFreeInv ==
  ASSUME Inv, NEW p \in Procs, PutFree(p)
  PROVE  Inv'
<1>1. /\ pc[p] = "free" /\ PlaceOf(p)
      /\ put[p] \in Inodes /\ lock[put[p]] = p /\ ref[put[p]] > 0 /\ valid[put[p]]
      /\ \A q \in Procs: ~Known(q, put[p])
      /\ Local(p, "dec", ret[p], put[p], ip[p], tgt[p]) /\ Others(p)
      /\ TypeOK' /\ CallInv'
      /\ \A k \in Inodes: /\ lock'[k] = IF k = put[p] THEN None ELSE lock[k]
                          /\ dtype'[k] = IF k = put[p] THEN "free" ELSE dtype[k]
                          /\ valid'[k] <=> (valid[k] /\ k # put[p])
                          /\ k # put[p] => type'[k] = type[k]
      /\ UNCHANGED <<dnlink, ref, nlink, cwd, fd, call, panic>>
  BY PutFreeEffect
<1>2. \A q \in Procs: Then(q)' = Then(q)
  BY <1>1 DEF Local, Others, Then, Iputs
<1>3. PlaceInv'
  <2>1. PlaceOf(p)'
    BY <1>1, <1>2 DEF PlaceOf, Local, Iputs, Op, Path
  <2>2. QED BY <1>1, <2>1, PlaceStep DEF Inv
<1>4. \A k \in Inodes: LockedBy(p, k)' <=> LockedBy(p, k) /\ k # put[p]
  BY <1>1, <1>2 DEF Local, LockedBy, Known, InDirPlaces
<1>5. LockInv'
  <2>1. \A k \in Inodes: LockedBy(p, k) <=> lock[k] = p
    BY DEF Inv, LockInv
  <2>2. QED BY <1>1, <1>4, <2>1, LockStep, NotNone DEF Inv
<1>6. RefsCounted'
  <2>1. \A k \in Inodes: Uses(p, k)' = Uses(p, k) /\ Uses(p, k) \in Nat /\ ref[k] \in Nat
    BY <1>1, Counted DEF Local, Uses, Inv
  <2>2. \A k \in Inodes: ref'[k] = (ref[k] - Uses(p, k)) + Uses(p, k)'
    BY <1>1, <2>1
  <2>3. QED BY <1>1, <2>2, CountStep DEF Inv
<1>7. \A q \in Procs, k \in Inodes: LockedBy(q, k)' => LockedBy(q, k) /\ k # put[p]
  <2>1. SUFFICES ASSUME NEW q \in Procs, NEW k \in Inodes, LockedBy(q, k)', q # p
                 PROVE  LockedBy(q, k) /\ k # put[p]
    BY <1>4
  <2>2. LockedBy(q, k)
    BY <1>1, <1>2, <2>1 DEF LockedBy, Others
  <2>3. QED BY <1>1, <2>1, <2>2 DEF Inv, LockInv
<1>8. EntryInv'
  <2>1. \A k \in Inodes: EntryOf(k)'
    BY <1>1 DEF Inv, EntryInv, EntryOf
  <2>2. \A q \in Procs, k \in Inodes: LockedBy(q, k)' => valid'[k]
    BY <1>1, <1>7 DEF Inv, EntryInv
  <2>3. ASSUME NEW q \in Procs, pc'[q] = "free" PROVE nlink'[put'[q]] = 0
    BY <1>1, <2>3 DEF Local, Others, Inv, EntryInv
  <2>4. QED BY <2>1, <2>2, <2>3 DEF EntryInv
<1>9. KnownInv'
  <2>1. ASSUME NEW q \in Procs PROVE Then(q)' = Then(q) /\ ip'[q] = ip[q] /\ tgt'[q] = tgt[q]
    BY <1>1, <1>2 DEF Local, Others
  <2>2. ASSUME NEW q \in Procs, NEW k \in Inodes, Known(q, k)' PROVE Safe(k)'
    <3>1. Known(q, k)
      BY <1>1, <2>1, <2>2 DEF Known
    <3>2. k # put[p] /\ Safe(k)
      BY <1>1, <3>1 DEF Inv, KnownInv
    <3>3. QED BY <1>1, <3>2 DEF Safe, Local, Others
  <2>3. ASSUME NEW q \in Procs PROVE dtype'[cwd'[q]] = "dir"
    <3>1. cwd[q] \in Inodes /\ cwd[q] # put[p] /\ dtype[cwd[q]] = "dir"
      BY <1>1 DEF Known, Inv, TypeOK, KnownInv
    <3>2. QED BY <1>1, <3>1
  <2>4. ASSUME NEW q \in Procs, Then(q)' \in InDirPlaces PROVE dtype'[ip'[q]] = "dir"
    <3>1. Then(q) \in InDirPlaces /\ ip'[q] = ip[q]
      BY <2>1, <2>4
    <3>2. ip[q] \in Inodes
      BY <3>1 DEF Inv, PlaceInv, PlaceOf, IpPlaces, TypeOK, InodeOrNone
    <3>3. ip[q] # put[p] /\ dtype[ip[q]] = "dir"
      BY <1>1, <3>1, <3>2 DEF Known, Inv, KnownInv
    <3>4. QED BY <1>1, <3>1, <3>2, <3>3
  <2>5. QED BY <2>2, <2>3, <2>4 DEF KnownInv
<1>10. QED BY <1>1, <1>3, <1>5, <1>6, <1>8, <1>9 DEF Inv, ParentsStayDirs

LEMMA PutDecEffect ==
  ASSUME Inv, NEW p \in Procs, PutDec(p)
  PROVE  /\ pc[p] = "dec" /\ PlaceOf(p) /\ put[p] \in Inodes /\ ref[put[p]] > 0
         /\ Local(p, ret[p], "user", None, ip[p], tgt[p]) /\ Others(p)
         /\ TypeOK' /\ CallInv'
         /\ \A k \in Inodes: ref'[k] = IF k = put[p] THEN ref[k] - 1 ELSE ref[k]
         /\ call'[p] = IF ret[p] = "user" THEN NoCall ELSE call[p]
         /\ UNCHANGED <<dtype, dnlink, dirent, valid, type, nlink, lock, cwd, fd, panic, hist>>
<1>1. pc[p] = "dec" /\ PlaceOf(p)
  BY DEF PutDec, At, Inv, PlaceInv
<1>2. put[p] \in Inodes /\ ref[put[p]] > 0
  BY <1>1, Referenced DEF PlaceOf, Inv, TypeOK, InodeOrNone, Iputs
<1>3. pc' = [pc EXCEPT ![p] = ret[p]]
  BY DEF PutDec, Leave, Goto
<1>4. call'[p] = (IF ret[p] = "user" THEN NoCall ELSE call[p])
      /\ \A q \in Procs \ {p}: call'[q] = call[q]
  BY DEF PutDec, Leave, Inv, CallInv
<1>5. Local(p, ret[p], "user", None, ip[p], tgt[p]) /\ Others(p)
  BY <1>3, <1>4 DEF PutDec, Local, Others, Inv, TypeOK, procs, locals
<1>6. \A k \in Inodes: ref'[k] = IF k = put[p] THEN ref[k] - 1 ELSE ref[k]
  BY DEF PutDec, Inv, TypeOK
<1>7. ref' \in [Inodes -> Nat]
  BY <1>2 DEF PutDec, Inv, TypeOK
<1>8. TypeOK'
  BY <1>3, <1>7 DEF PutDec, Places, InodeOrNone, Inv, TypeOK, disk, procs, locals
<1>9. CallInv'
  <2>1. CASE ret[p] = "user"
    <3>1. call' = [call EXCEPT ![p] = NoCall]
      BY <2>1 DEF PutDec, Leave
    <3>2. /\ NoCall \in [op: Ops \union {"none"}, path: Seq(Entries), new: Seq(Elements)]
          /\ Len(NoCall.new) = 0
      BY DEF NoCall
    <3>3. QED BY <3>1, <3>2 DEF Inv, CallInv
  <2>2. CASE ret[p] # "user"
    BY <2>2 DEF PutDec, Inv, CallInv
  <2>3. QED BY <2>1, <2>2
<1>10. QED BY <1>1, <1>2, <1>4, <1>5, <1>6, <1>8, <1>9 DEF PutDec, disk, procs

LEMMA PutDecInv ==
  ASSUME Inv, NEW p \in Procs, PutDec(p)
  PROVE  Inv'
<1>1. /\ pc[p] = "dec" /\ PlaceOf(p) /\ put[p] \in Inodes /\ ref[put[p]] > 0
      /\ Local(p, ret[p], "user", None, ip[p], tgt[p]) /\ Others(p)
      /\ TypeOK' /\ CallInv'
      /\ \A k \in Inodes: ref'[k] = IF k = put[p] THEN ref[k] - 1 ELSE ref[k]
      /\ call'[p] = IF ret[p] = "user" THEN NoCall ELSE call[p]
      /\ UNCHANGED <<dtype, dnlink, dirent, valid, type, nlink, lock, cwd, fd, panic>>
  BY PutDecEffect
<1>2. Then(p)' = Then(p) /\ Then(p) = ret[p] /\ pc'[p] \notin Iputs
  BY <1>1 DEF Local, Then, Iputs, PlaceOf, Returns
<1>3. PlaceInv'
  <2>1. PlaceOf(p)'
    BY <1>1, <1>2 DEF PlaceOf, Local, Iputs, Op, Path, Returns, IpPlaces, InDirPlaces, TgtPlaces
  <2>2. QED BY <1>1, <2>1, PlaceStep DEF Inv
<1>4. LockInv'
  <2>1. \A k \in Inodes: LockedBy(p, k)' <=> LockedBy(p, k)
    BY <1>1, <1>2 DEF LockedBy, Local, Iputs
  <2>2. QED BY <1>1, <2>1, LockSame DEF Inv
<1>5. RefsCounted'
  <2>1. SUFFICES ASSUME NEW k \in Inodes PROVE ref'[k] = (ref[k] - Uses(p, k)) + Uses(p, k)'
    BY <1>1, CountStep DEF Inv
  <2>2. Uses(p, k)' = Uses(p, k) - (IF k = put[p] THEN 1 ELSE 0)
    BY <1>1, NotNone DEF Uses, One, Local
  <2>3. ref[k] \in Nat /\ Uses(p, k) \in Nat
    BY Counted DEF Inv
  <2>4. QED BY <1>1, <2>2, <2>3
<1>6. EntryInv'
  <2>1. \A k \in Inodes: EntryOf(k)'
    BY <1>1 DEF Inv, TypeOK, EntryInv, EntryOf
  <2>2. \A q \in Procs, k \in Inodes: LockedBy(q, k)' => valid'[k]
    BY <1>1, <1>2 DEF Inv, EntryInv, LockedBy, Local, Others, Then, Iputs
  <2>3. ASSUME NEW q \in Procs, pc'[q] = "free" PROVE nlink'[put'[q]] = 0
    BY <1>1, <1>2, <2>3 DEF Others, Inv, EntryInv, Iputs
  <2>4. QED BY <2>1, <2>2, <2>3 DEF EntryInv
<1>7. KnownInv'
  <2>1. \A k \in Inodes: Known(p, k)' => Known(p, k)
    BY <1>1, <1>2 DEF Known, Local
  <2>2. dtype'[cwd'[p]] = "dir" /\ (Then(p)' \in InDirPlaces => dtype'[ip'[p]] = "dir")
    BY <1>1, <1>2 DEF Inv, KnownInv, Local
  <2>3. pc'[p] # "free"
    BY <1>2 DEF Iputs
  <2>4. QED BY <1>1, <2>1, <2>2, <2>3, KnownStep DEF Inv
<1>8. QED BY <1>1, <1>3, <1>4, <1>5, <1>6, <1>7 DEF Inv, ParentsStayDirs

-----------------------------------------------------------------------------
(* Steps that write a link count.                                          *)

\* What a step does to the entries when it reads i, gives it n links and gets j.
Written(i, j, n) ==
  /\ Writes({i})
  /\ \A k \in Inodes: /\ dnlink'[k] = IF k = i THEN n ELSE dnlink[k]
                      /\ ref'[k] = IF k = j THEN ref[k] + 1 ELSE ref[k]
                      /\ valid'[k] <=> (k = i \/ (valid[k] /\ ~(k = j /\ ref[k] = 0)))

LEMMA LinksEffect ==
  ASSUME TypeOK, NEW i \in Inodes, dtype[i] # "free", Type(i) = dtype[i], NEW j, NEW n \in Int,
         ReadGet(i, j), Links(i, n), dtype' = dtype
  PROVE  EntriesOK' /\ Written(i, j, n)
<1>1. EntriesOK'
  BY DEF TypeOK, EntriesOK, ReadGet, Links
<1>2. \A k \in Inodes: /\ dnlink'[k] = IF k = i THEN n ELSE dnlink[k]
                       /\ nlink'[k] = IF k = i THEN n ELSE nlink[k]
                       /\ type'[k] = IF k = i THEN dtype[k] ELSE type[k]
                       /\ ref'[k] = IF k = j THEN ref[k] + 1 ELSE ref[k]
                       /\ valid'[k] <=> (k = i \/ (valid[k] /\ ~(k = j /\ ref[k] = 0)))
  BY DEF TypeOK, ReadGet, Links
<1>3. ASSUME NEW k \in Inodes, k # i
      PROVE  /\ ref[k] > 0 => (valid'[k] <=> valid[k])
             /\ ref'[k] > 0 /\ valid'[k] => ref[k] > 0
  <2>1. ref[k] \in Nat
    BY DEF TypeOK
  <2>2. /\ ref'[k] = IF k = j THEN ref[k] + 1 ELSE ref[k]
        /\ valid'[k] <=> (valid[k] /\ ~(k = j /\ ref[k] = 0))
    BY <1>2, <1>3
  <2>3. QED BY <2>1, <2>2
<1>4. QED BY <1>1, <1>2, <1>3 DEF Writes, Written

\* link() of a file: its count is raised before the second path is followed.
LEMMA LinkOldEffect ==
  ASSUME Inv, NEW p \in Procs, LinkOld(p), Type(ip[p]) # "dir"
  PROVE  /\ pc[p] = "linkold" /\ PlaceOf(p)
         /\ ip[p] \in Inodes /\ ref[ip[p]] > 0 /\ dtype[ip[p]] \notin {"free", "dir"}
         /\ Safe(ip[p]) /\ lock[ip[p]] = None
         /\ tgt[p] = None /\ Op(p) = "link" /\ Start(p, call[p].new) \in Inodes
         /\ Local(p, "namex", "user", None, Start(p, call[p].new), ip[p]) /\ Others(p)
         /\ TypeOK' /\ CallInv' /\ Writes({ip[p]})
         /\ \A k \in Inodes:
              /\ dnlink'[k] = IF k = ip[p] THEN dnlink[k] + 1 ELSE dnlink[k]
              /\ ref'[k] = IF k = Start(p, call[p].new) THEN ref[k] + 1 ELSE ref[k]
              /\ valid'[k] <=> (k = ip[p] \/ (valid[k] /\ ~(k = Start(p, call[p].new) /\ ref[k] = 0)))
         /\ call'[p].op = "link"
         /\ UNCHANGED <<dtype, dirent, lock, cwd, fd, panic, hist>>
<1> DEFINE j == Start(p, call[p].new)
<1>1. pc[p] = "linkold" /\ PlaceOf(p)
  BY DEF LinkOld, At, Inv, PlaceInv
<1>2. ip[p] \in Inodes /\ ref[ip[p]] > 0
  BY <1>1, Referenced DEF Inv, TypeOK, PlaceOf, Then, Iputs, IpPlaces, InodeOrNone
<1>3. /\ dtype[ip[p]] \notin {"free", "dir"} /\ lock[ip[p]] = None
      /\ Type(ip[p]) = dtype[ip[p]] /\ Nlink(ip[p]) = dnlink[ip[p]]
  BY <1>2, AsOnDisk DEF LinkOld, Ilock, Inv
<1>4. Safe(ip[p])
  BY <1>2, <1>3, UnlockedSafe
<1>5. tgt[p] = None /\ Op(p) = "link" /\ call[p].new # <<>>
  BY <1>1 DEF PlaceOf, Then, Iputs, TgtPlaces
<1>6. j \in Inodes
  BY StartInode DEF Inv
<1>7. /\ ReadGet(ip[p], j) /\ Links(ip[p], dnlink[ip[p]] + 1)
      /\ tgt' = [tgt EXCEPT ![p] = ip[p]] /\ ip' = [ip EXCEPT ![p] = j]
      /\ call' = [call EXCEPT ![p].path = Rest(call[p].new), ![p].new = <<>>]
      /\ pc' = [pc EXCEPT ![p] = "namex"] /\ UNCHANGED <<put, ret>>
      /\ UNCHANGED <<dtype, dirent, lock, cwd, fd, panic, hist>>
  BY <1>3 DEF LinkOld, Goto, procs
<1>8. dnlink[ip[p]] + 1 \in Int
  BY <1>2 DEF Inv, TypeOK
<1>9. /\ EntriesOK' /\ Writes({ip[p]})
      /\ \A k \in Inodes:
           /\ dnlink'[k] = IF k = ip[p] THEN dnlink[k] + 1 ELSE dnlink[k]
           /\ ref'[k] = IF k = j THEN ref[k] + 1 ELSE ref[k]
           /\ valid'[k] <=> (k = ip[p] \/ (valid[k] /\ ~(k = j /\ ref[k] = 0)))
  <2>1. dtype[ip[p]] # "free" /\ dtype' = dtype /\ TypeOK
    BY <1>3, <1>7 DEF Inv
  <2> HIDE DEF j
  <2>2. EntriesOK' /\ Written(ip[p], j, dnlink[ip[p]] + 1)
    BY <1>2, <1>3, <1>7, <1>8, <2>1, LinksEffect
  <2>3. QED BY <2>2 DEF Written
<1>10. Local(p, "namex", "user", None, j, ip[p]) /\ Others(p)
  <2>1. ret[p] = "user" /\ put[p] = None
    BY <1>1 DEF PlaceOf, Iputs
  <2>2. \A q \in Procs \ {p}: call'[q] = call[q]
    BY <1>7 DEF Inv, CallInv
  <2> HIDE DEF j
  <2>3. QED BY <1>7, <2>1, <2>2 DEF Local, Others, Inv, TypeOK
<1>11. TypeOK'
  <2> HIDE DEF j
  <2>1. QED BY <1>2, <1>6, <1>7, <1>9 DEF EntriesOK, Inv, TypeOK, InodeOrNone, Places
<1>12. CallInv'
  <2>1. /\ call[p].new \in Seq(Elements) /\ \A k \in 2 .. Len(call[p].new): call[p].new[k] # "/"
    BY DEF Inv, CallInv
  <2>2. Rest(call[p].new) \in Seq(Entries)
    BY <1>5, <2>1, RestPath
  <2> DEFINE c == [call[p] EXCEPT !.path = Rest(call[p].new), !.new = <<>>]
  <2>3. c \in [op: Ops \union {"none"}, path: Seq(Entries), new: Seq(Elements)]
    <3>1. call[p] \in [op: Ops \union {"none"}, path: Seq(Entries), new: Seq(Elements)]
      BY DEF Inv, CallInv
    <3>2. <<>> \in Seq(Elements)
      OBVIOUS
    <3>3. QED BY <2>2, <3>1, <3>2
  <2>4. c.new = <<>>
    BY DEF Inv, CallInv
  <2>5. call' = [call EXCEPT ![p] = c]
    BY <1>7 DEF Inv, CallInv
  <2> HIDE DEF c
  <2>6. \A k \in 2 .. Len(c.new): c.new[k] # "/"
    BY <2>4
  <2>7. QED BY <2>3, <2>5, <2>6 DEF Inv, CallInv
<1>13. call'[p].op = "link"
  BY <1>5, <1>7 DEF Op, Inv, CallInv
<1>14. QED
  BY <1>1, <1>2, <1>3, <1>4, <1>5, <1>6, <1>7, <1>9, <1>10, <1>11, <1>12, <1>13

LEMMA LinkOldInv ==
  ASSUME Inv, NEW p \in Procs, LinkOld(p), Type(ip[p]) # "dir"
  PROVE  Inv'
<1> DEFINE j == Start(p, call[p].new)
<1>1. /\ pc[p] = "linkold" /\ PlaceOf(p)
      /\ ip[p] \in Inodes /\ Safe(ip[p]) /\ lock[ip[p]] = None
      /\ tgt[p] = None /\ j \in Inodes
      /\ Local(p, "namex", "user", None, j, ip[p]) /\ Others(p)
      /\ TypeOK' /\ CallInv' /\ Writes({ip[p]})
      /\ \A k \in Inodes: ref'[k] = IF k = j THEN ref[k] + 1 ELSE ref[k]
      /\ call'[p].op = "link"
      /\ UNCHANGED <<dtype, dirent, lock, cwd, fd, panic, hist>>
  BY LinkOldEffect
<1> HIDE DEF j
<1>2. pc'[p] = "namex" /\ Then(p)' = "namex" /\ Then(p) = "linkold"
  BY <1>1 DEF Local, Then, Iputs
<1>3. PlaceOf(p)'
  BY <1>1, <1>2, NotNone DEF PlaceOf, Local, Op, Iputs, Returns, IpPlaces, InDirPlaces, TgtPlaces,
     Ops
<1>4. \A k \in Inodes: Uses(p, k)' = Uses(p, k) + (IF k = j THEN 1 ELSE 0)
  <2>1. put[p] = None
    BY <1>1 DEF PlaceOf, Iputs
  <2>2. QED BY <1>1, <2>1, NotNone DEF Local, Uses, One
<1>5. \A k \in Inodes: /\ lock'[k] = p <=> LockedBy(p, k)'
                       /\ ~LockedBy(p, k)'
  BY <1>1, <1>2 DEF LockedBy, Inv, LockInv
<1>6. \A k \in Inodes: Known(p, k)' => Known(p, k) \/ Safe(k)'
  <2>1. ASSUME NEW k \in Inodes, Safe(k) PROVE Safe(k)'
    BY <1>1, <1>2, <2>1, SafeStep
  <2>2. ASSUME NEW k \in Inodes, Known(p, k)' PROVE Known(p, k) \/ k = ip[p]
    BY <1>1, <1>2, <2>2 DEF Known, Local, InDirPlaces
  <2>3. QED BY <1>1, <2>1, <2>2
<1>7. dtype'[cwd'[p]] = "dir" /\ Then(p)' \notin InDirPlaces
  BY <1>1, <1>2 DEF Inv, KnownInv, InDirPlaces
<1>8. QED BY <1>1, <1>2, <1>3, <1>4, <1>5, <1>6, <1>7, WriteStep

LEMMA LinkBadEffect ==
  ASSUME Inv, NEW p \in Procs, LinkBad(p)
  PROVE  /\ pc[p] = "linkbad" /\ PlaceOf(p)
         /\ tgt[p] \in Inodes /\ ref[tgt[p]] > 0 /\ dtype[tgt[p]] # "free" /\ lock[tgt[p]] = None
         /\ ip[p] = None /\ Op(p) = "link"
         /\ Local(p, "put", "user", tgt[p], None, None) /\ Others(p)
         /\ TypeOK' /\ CallInv' /\ Writes({tgt[p]})
         /\ \A k \in Inodes: /\ dnlink'[k] = IF k = tgt[p] THEN dnlink[k] - 1 ELSE dnlink[k]
                             /\ valid'[k] <=> (k = tgt[p] \/ valid[k])
         /\ UNCHANGED <<dtype, dirent, ref, lock, cwd, fd, call, panic, hist>>
<1>1. pc[p] = "linkbad" /\ PlaceOf(p)
  BY DEF LinkBad, At, Inv, PlaceInv
<1>2. tgt[p] \in Inodes /\ ref[tgt[p]] > 0
  BY <1>1, Referenced DEF Inv, TypeOK, PlaceOf, Then, Iputs, TgtPlaces, InodeOrNone
<1>3. /\ dtype[tgt[p]] # "free" /\ lock[tgt[p]] = None
      /\ Type(tgt[p]) = dtype[tgt[p]] /\ Nlink(tgt[p]) = dnlink[tgt[p]]
  BY <1>2, AsOnDisk DEF LinkBad, Ilock, Inv
<1>4. ip[p] = None /\ Op(p) = "link"
  BY <1>1 DEF PlaceOf, Then, Iputs, IpPlaces, InDirPlaces
<1>5. /\ ReadGet(tgt[p], None) /\ Links(tgt[p], dnlink[tgt[p]] - 1) /\ dtype' = dtype
      /\ dnlink[tgt[p]] - 1 \in Int
  BY <1>2, <1>3 DEF LinkBad, Inv, TypeOK
<1>6. /\ EntriesOK' /\ Writes({tgt[p]})
      /\ \A k \in Inodes: /\ dnlink'[k] = IF k = tgt[p] THEN dnlink[k] - 1 ELSE dnlink[k]
                          /\ valid'[k] <=> (k = tgt[p] \/ valid[k])
  <2>1. TypeOK
    BY DEF Inv
  <2>2. EntriesOK' /\ Written(tgt[p], None, dnlink[tgt[p]] - 1)
    BY <1>2, <1>3, <1>5, <2>1, LinksEffect
  <2>3. QED BY <2>2, NotNone DEF Written
<1>7. ref' = ref
  BY <1>5, NotNone DEF ReadGet, Inv, TypeOK
<1>8. Local(p, "put", "user", tgt[p], None, None) /\ Others(p)
  BY <1>4 DEF LinkBad, Iput, Goto, Local, Others, Inv, TypeOK, procs
<1>9. TypeOK'
  BY <1>2, <1>6 DEF LinkBad, Iput, Goto, EntriesOK, Inv, TypeOK, InodeOrNone, Places, procs
<1>10. CallInv'
  BY DEF LinkBad, Inv, CallInv
<1>11. QED BY <1>1, <1>2, <1>3, <1>4, <1>6, <1>7, <1>8, <1>9, <1>10 DEF LinkBad, procs

\* A step of p that writes its target and goes on to iput() of it.
LEMMA TargetStep ==
  ASSUME Inv, NEW p \in Procs, PlaceOf(p), pc[p] \in {"linkbad", "unlinked"},
         tgt[p] \in Inodes, lock[tgt[p]] \in {None, p}, ip[p] = None,
         Local(p, "put", "user", tgt[p], None, None), Others(p), TypeOK', CallInv',
         Writes({tgt[p]}), \A k \in Inodes: lock'[k] = IF k = tgt[p] THEN None ELSE lock[k],
         UNCHANGED <<dtype, ref, cwd, fd, call, panic>>
  PROVE  Inv'
<1>1. pc'[p] = "put" /\ Then(p)' = "user" /\ Then(p) = pc[p] /\ put[p] = None
  BY DEF Local, Then, Iputs, PlaceOf
<1>2. PlaceOf(p)'
  BY <1>1, NotNone DEF PlaceOf, Local, Iputs, Returns, IpPlaces, InDirPlaces, TgtPlaces
<1>3. \A k \in Inodes: /\ ref'[k] = IF k = None THEN ref[k] + 1 ELSE ref[k]
                       /\ Uses(p, k)' = Uses(p, k) + (IF k = None THEN 1 ELSE 0)
  BY <1>1, NotNone DEF Local, Uses, One
<1>4. \A k \in Inodes: /\ \/ lock'[k] = lock[k]
                          \/ lock[k] \in {None, p} /\ lock'[k] \in {None, p}
                       /\ lock'[k] = p <=> LockedBy(p, k)'
                       /\ ~LockedBy(p, k)'
  BY <1>1, NotNone DEF LockedBy, Local, Inv, LockInv
<1>5. \A k \in Inodes: Known(p, k)' => Known(p, k)
  BY <1>1 DEF Known, Local, InDirPlaces
<1>6. dtype'[cwd'[p]] = "dir" /\ Then(p)' \notin InDirPlaces
  BY <1>1 DEF Inv, KnownInv, InDirPlaces
<1>7. QED BY <1>1, <1>2, <1>3, <1>4, <1>5, <1>6, WriteStep

LEMMA LinkBadInv ==
  ASSUME Inv, NEW p \in Procs, LinkBad(p)
  PROVE  Inv'
<1>1. /\ pc[p] = "linkbad" /\ PlaceOf(p)
      /\ tgt[p] \in Inodes /\ lock[tgt[p]] = None /\ ip[p] = None
      /\ Local(p, "put", "user", tgt[p], None, None) /\ Others(p)
      /\ TypeOK' /\ CallInv' /\ Writes({tgt[p]})
      /\ UNCHANGED <<dtype, ref, lock, cwd, fd, call, panic>>
  BY LinkBadEffect
<1>2. \A k \in Inodes: lock'[k] = IF k = tgt[p] THEN None ELSE lock[k]
  BY <1>1
<1>3. QED BY <1>1, <1>2, TargetStep

\* What p has locked at these places is in the cache.
LEMMA OwnEntry ==
  ASSUME Inv, NEW p \in Procs, NEW i \in Inodes, LockedBy(p, i)
  PROVE  /\ lock[i] = p /\ ref[i] > 0 /\ valid[i] /\ dtype[i] # "free"
         /\ type[i] = dtype[i] /\ nlink[i] = dnlink[i]
         /\ Type(i) = dtype[i] /\ Nlink(i) = dnlink[i]
<1>1. lock[i] = p /\ ref[i] > 0 /\ valid[i]
  BY LockedRef DEF Inv, LockInv, EntryInv
<1>2. QED BY <1>1 DEF Inv, EntryInv, EntryOf, Type, Nlink

\* unlink() takes the count of the inode down after that of the directory.
LEMMA UnlinkedEffect ==
  ASSUME Inv, NEW p \in Procs, Unlinked(p)
  PROVE  /\ pc[p] = "unlinked" /\ PlaceOf(p)
         /\ tgt[p] \in Inodes /\ ref[tgt[p]] > 0 /\ dtype[tgt[p]] # "free" /\ lock[tgt[p]] = p
         /\ ip[p] = None /\ Op(p) = "unlink"
         /\ Local(p, "put", "user", tgt[p], None, None) /\ Others(p)
         /\ TypeOK' /\ CallInv' /\ Writes({tgt[p]})
         /\ \A k \in Inodes: /\ dnlink'[k] = IF k = tgt[p] THEN dnlink[k] - 1 ELSE dnlink[k]
                             /\ lock'[k] = IF k = tgt[p] THEN None ELSE lock[k]
         /\ UNCHANGED <<dtype, dirent, ref, valid, cwd, fd, call, panic, hist>>
<1>1. pc[p] = "unlinked" /\ PlaceOf(p)
  BY DEF Unlinked, At, Inv, PlaceInv
<1>2. tgt[p] \in Inodes /\ LockedBy(p, tgt[p])
  BY <1>1 DEF Inv, TypeOK, PlaceOf, Then, Iputs, TgtPlaces, InodeOrNone, LockedBy
<1>3. /\ lock[tgt[p]] = p /\ ref[tgt[p]] > 0 /\ valid[tgt[p]] /\ dtype[tgt[p]] # "free"
      /\ nlink[tgt[p]] = dnlink[tgt[p]] /\ Type(tgt[p]) = dtype[tgt[p]]
  BY <1>2, OwnEntry
<1>4. ip[p] = None /\ Op(p) = "unlink"
  BY <1>1 DEF PlaceOf, Then, Iputs, IpPlaces, InDirPlaces
<1>5. Links(tgt[p], dnlink[tgt[p]] - 1) /\ dnlink[tgt[p]] - 1 \in Int
  BY <1>2, <1>3 DEF Unlinked, Inv, TypeOK
<1>6. /\ Writes({tgt[p]}) /\ type' \in [Inodes -> Types]
      /\ dnlink' \in [Inodes -> Int] /\ nlink' \in [Inodes -> Int]
      /\ \A k \in Inodes: dnlink'[k] = IF k = tgt[p] THEN dnlink[k] - 1 ELSE dnlink[k]
  BY <1>2, <1>3, <1>5 DEF Unlinked, Links, Writes, Inv, TypeOK
<1>7. Local(p, "put", "user", tgt[p], None, None) /\ Others(p)
  BY <1>4 DEF Unlinked, Iput, Goto, Local, Others, Inv, TypeOK, procs
<1>8. TypeOK'
  BY <1>2, <1>6 DEF Unlinked, Iput, Goto, Inv, TypeOK, InodeOrNone, Places, procs
<1>9. CallInv'
  BY DEF Unlinked, Inv, CallInv
<1>10. \A k \in Inodes: lock'[k] = IF k = tgt[p] THEN None ELSE lock[k]
  BY <1>2 DEF Unlinked, Inv, TypeOK
<1>11. QED
  BY <1>1, <1>2, <1>3, <1>4, <1>6, <1>7, <1>8, <1>9, <1>10 DEF Unlinked, procs

LEMMA UnlinkedInv ==
  ASSUME Inv, NEW p \in Procs, Unlinked(p)
  PROVE  Inv'
<1>1. /\ pc[p] = "unlinked" /\ PlaceOf(p)
      /\ tgt[p] \in Inodes /\ lock[tgt[p]] = p /\ ip[p] = None
      /\ Local(p, "put", "user", tgt[p], None, None) /\ Others(p)
      /\ TypeOK' /\ CallInv' /\ Writes({tgt[p]})
      /\ \A k \in Inodes: /\ dnlink'[k] = IF k = tgt[p] THEN dnlink[k] - 1 ELSE dnlink[k]
                          /\ lock'[k] = IF k = tgt[p] THEN None ELSE lock[k]
      /\ UNCHANGED <<dtype, ref, cwd, fd, call, panic>>
  BY UnlinkedEffect
<1>2. QED BY <1>1, TargetStep

-----------------------------------------------------------------------------
(* ialloc() and create() of a new inode.                                   *)

LEMMA IallocEffect ==
  ASSUME Inv, NEW p \in Procs, NEW i \in Inodes, Ialloc(p, i)
  PROVE  /\ pc[p] = "create" /\ PlaceOf(p)
         /\ ip[p] \in Inodes /\ ref[ip[p]] > 0 /\ dtype[ip[p]] = "dir" /\ lock[ip[p]] = None
         /\ tgt[p] = None /\ Name(p) \in Entries /\ dirent[ip[p]][Name(p)] = None
         /\ dtype[i] = "free" /\ Kind(p) \in {"dir", "dev", "file"}
         /\ Local(p, "init", "user", None, ip[p], i) /\ Others(p)
         /\ TypeOK' /\ CallInv' /\ Writes({ip[p]})
         /\ \A k \in Inodes: /\ dtype'[k] = IF k = i THEN Kind(p) ELSE dtype[k]
                             /\ dnlink'[k] = IF k = i THEN 0 ELSE dnlink[k]
                             /\ ref'[k] = IF k = i THEN ref[k] + 1 ELSE ref[k]
                             /\ valid'[k] <=> (k = ip[p] \/ (valid[k] /\ ~(k = i /\ ref[k] = 0)))
                             /\ lock'[k] = IF k = ip[p] THEN p ELSE lock[k]
         /\ ~valid'[i]
         /\ UNCHANGED <<dirent, cwd, fd, call, panic, hist>>
<1>1. pc[p] = "create" /\ PlaceOf(p)
  BY DEF Ialloc, InDir, At, Inv, PlaceInv
<1>2. ip[p] \in Inodes /\ ref[ip[p]] > 0
  BY <1>1, Referenced DEF Inv, TypeOK, PlaceOf, Then, Iputs, IpPlaces, InDirPlaces, InodeOrNone
<1>3. /\ Type(ip[p]) = dtype[ip[p]] /\ Nlink(ip[p]) = dnlink[ip[p]]
      /\ dtype[ip[p]] = "dir" /\ lock[ip[p]] = None
  BY <1>2, AsOnDisk DEF Ialloc, InDir, Ilock, Inv
<1>4. tgt[p] = None /\ Path(p) # <<>> /\ Op(p) \in Creates
  BY <1>1 DEF PlaceOf, Then, Iputs, TgtPlaces, InDirPlaces
<1>5. Name(p) \in Entries /\ dirent[ip[p]][Name(p)] = None
  BY <1>4, NextName DEF Ialloc, Inv
<1>6. Kind(p) \in {"dir", "dev", "file"}
  BY DEF Kind
<1>7. dtype[i] = "free" /\ i # ip[p]
  BY <1>3 DEF Ialloc, Unused
<1>8. /\ dtype' = [dtype EXCEPT ![i] = Kind(p)]
      /\ type' = [type EXCEPT ![ip[p]] = dtype[ip[p]]]
      /\ nlink' = [nlink EXCEPT ![ip[p]] = dnlink[ip[p]]]
      /\ dnlink' = [dnlink EXCEPT ![i] = 0]
      /\ lock' = [lock EXCEPT ![ip[p]] = p]
  BY <1>3 DEF Ialloc
<1>9. \A k \in Inodes: /\ dtype'[k] = IF k = i THEN Kind(p) ELSE dtype[k]
                       /\ type'[k] = IF k = ip[p] THEN dtype[k] ELSE type[k]
                       /\ dnlink'[k] = IF k = i THEN 0 ELSE dnlink[k]
                       /\ nlink'[k] = IF k = ip[p] THEN dnlink[k] ELSE nlink[k]
                       /\ lock'[k] = IF k = ip[p] THEN p ELSE lock[k]
  BY <1>8 DEF Inv, TypeOK
<1>10. \A k \in Inodes: /\ ref'[k] = IF k = i THEN ref[k] + 1 ELSE ref[k]
                        /\ valid'[k] <=> (k = ip[p] \/ (valid[k] /\ ~(k = i /\ ref[k] = 0)))
  BY DEF Ialloc, ReadGet
<1>11. ~valid'[i]
  BY <1>7, <1>10 DEF Inv, TypeOK, EntryInv, EntryOf
<1>12. Writes({ip[p]})
  <2>1. SUFFICES ASSUME NEW k \in Inodes, k # ip[p], k # i
                 PROVE  /\ ref[k] > 0 => (valid'[k] <=> valid[k])
                        /\ ref'[k] > 0 /\ valid'[k] => ref[k] > 0
    BY <1>3, <1>7, <1>9, <1>10, <1>11 DEF Writes
  <2>2. QED BY <1>10, <2>1
<1>13. Local(p, "init", "user", None, ip[p], i) /\ Others(p)
  BY <1>1 DEF Ialloc, Goto, Local, Others, Inv, TypeOK, procs, PlaceOf, Iputs
<1>14. TypeOK'
  <2>1. /\ ref' \in [Inodes -> Nat] /\ valid' \in [Inodes -> BOOLEAN]
        /\ dtype' \in [Inodes -> Types] /\ type' \in [Inodes -> Types]
        /\ dnlink' \in [Inodes -> Int] /\ nlink' \in [Inodes -> Int]
        /\ lock' \in [Inodes -> Procs \union {None}]
    BY <1>2, <1>6, <1>8 DEF Ialloc, ReadGet, Inv, TypeOK, Types
  <2>2. QED BY <2>1 DEF Ialloc, Goto, Inv, TypeOK, InodeOrNone, Places, procs
<1>15. CallInv'
  BY DEF Ialloc, Inv, CallInv
<1>16. QED
  BY <1>1, <1>2, <1>3, <1>4, <1>5, <1>6, <1>7, <1>9, <1>10, <1>11, <1>12, <1>13, <1>14, <1>15
     DEF Ialloc, procs

LEMMA IallocInv ==
  ASSUME Inv, NEW p \in Procs, NEW i \in Inodes, Ialloc(p, i)
  PROVE  Inv'
<1>1. /\ pc[p] = "create" /\ PlaceOf(p)
      /\ ip[p] \in Inodes /\ ref[ip[p]] > 0 /\ dtype[ip[p]] = "dir" /\ lock[ip[p]] = None
      /\ tgt[p] = None
      /\ dtype[i] = "free" /\ Kind(p) \in {"dir", "dev", "file"}
      /\ Local(p, "init", "user", None, ip[p], i) /\ Others(p)
      /\ TypeOK' /\ CallInv' /\ Writes({ip[p]})
      /\ \A k \in Inodes: /\ dtype'[k] = IF k = i THEN Kind(p) ELSE dtype[k]
                          /\ dnlink'[k] = IF k = i THEN 0 ELSE dnlink[k]
                          /\ ref'[k] = IF k = i THEN ref[k] + 1 ELSE ref[k]
                          /\ valid'[k] <=> (k = ip[p] \/ (valid[k] /\ ~(k = i /\ ref[k] = 0)))
                          /\ lock'[k] = IF k = ip[p] THEN p ELSE lock[k]
      /\ UNCHANGED <<dirent, cwd, fd, call, panic>>
  BY IallocEffect
<1>2. pc'[p] = "init" /\ Then(p)' = "init" /\ Then(p) = "create" /\ put[p] = None
  BY <1>1 DEF Local, Then, Iputs, PlaceOf
<1>3. PlaceOf(p)'
  BY <1>1, <1>2, NotNone DEF PlaceOf, Local, Op, Path, Iputs, Returns, IpPlaces, InDirPlaces,
     TgtPlaces
<1>4. \A k \in Inodes: Uses(p, k)' = Uses(p, k) + (IF k = i THEN 1 ELSE 0)
  BY <1>1, <1>2, NotNone DEF Local, Uses, One
<1>5. \A k \in Inodes: /\ LockedBy(p, k)' <=> k = ip[p]
                       /\ lock'[k] = p <=> LockedBy(p, k)'
  BY <1>1, <1>2 DEF LockedBy, Local, Inv, LockInv
<1>6. Safe(ip[p])
  BY <1>1, UnlockedSafe
<1>7. \A k \in Inodes: Safe(k) => Safe(k)'
  BY <1>1, <1>2 DEF Safe, Others
<1>8. \A k \in Inodes: k = i => Safe(k)'
  <2>1. SUFFICES ASSUME NEW q \in Procs, pc'[q] = "free", put'[q] = i PROVE FALSE
    BY <1>1 DEF Safe
  <2>2. pc[q] = "free" /\ put[q] = i
    BY <1>1, <1>2, <2>1 DEF Others
  <2>3. QED BY <1>1, <2>2, FreeingEntry
<1>9. \A k \in Inodes: Known(p, k)' => Known(p, k) \/ k = i \/ k = ip[p]
  BY <1>1, <1>2 DEF Known, Local
<1>10. dtype'[cwd'[p]] = "dir" /\ dtype'[ip'[p]] = "dir"
  BY <1>1 DEF Local, Inv, TypeOK, KnownInv
<1>11. \A k \in Inodes:
          /\ ref'[k] = IF k = i THEN ref[k] + 1 ELSE ref[k]
          /\ Uses(p, k)' = Uses(p, k) + (IF k = i THEN 1 ELSE 0)
          /\ \/ lock'[k] = lock[k]
             \/ lock[k] \in {None, p} /\ lock'[k] \in {None, p}
          /\ lock'[k] = p <=> LockedBy(p, k)'
          /\ LockedBy(p, k)' => LockedBy(p, k) \/ k \in {ip[p]}
          /\ Known(p, k)' => Known(p, k) \/ Safe(k)'
  <2>1. \A k \in Inodes: Known(p, k)' => Known(p, k) \/ Safe(k)'
    BY <1>6, <1>7, <1>8, <1>9
  <2>2. QED BY <1>1, <1>4, <1>5, <2>1
<1>12. \A k \in Inodes: dtype'[k] = dtype[k] \/ (dtype[k] = "free" /\ dtype'[k] # "free")
  BY <1>1
<1>13. panic' = panic /\ pc'[p] # "free" /\ \A k \in {ip[p]}: k \in Inodes /\ lock[k] \in {None, p}
  BY <1>1, <1>2
<1>14. Then(p)' \in InDirPlaces => dtype'[ip'[p]] = "dir"
  BY <1>10
<1>15. Others(p) /\ TypeOK' /\ CallInv' /\ Writes({ip[p]})
  BY <1>1
<1>16. QED BY <1>3, <1>10, <1>11, <1>12, <1>13, <1>14, <1>15, WriteStep

\* The new inode gets its link, its dots and its name.
LEMMA CreateInitEffect ==
  ASSUME Inv, NEW p \in Procs, CreateInit(p)
  PROVE  /\ pc[p] = "init" /\ PlaceOf(p) /\ Op(p) \in Creates
         /\ tgt[p] \in Inodes /\ ref[tgt[p]] > 0 /\ dtype[tgt[p]] # "free" /\ lock[tgt[p]] = None
         /\ ip[p] \in Inodes /\ ref[ip[p]] > 0 /\ valid[ip[p]] /\ dtype[ip[p]] = "dir"
         /\ lock[ip[p]] = p /\ tgt[p] # ip[p] /\ Name(p) \in Entries
         /\ Local(p, "put", "created", ip[p], None, tgt[p]) /\ Others(p)
         /\ TypeOK' /\ CallInv' /\ Writes({ip[p], tgt[p]})
         /\ \A k \in Inodes:
              /\ dnlink'[k] = IF k = tgt[p] THEN 1
                              ELSE IF k = ip[p] /\ dtype[tgt[p]] = "dir" THEN dnlink[k] + 1
                              ELSE dnlink[k]
              /\ valid'[k] <=> (k = tgt[p] \/ valid[k])
              /\ lock'[k] = IF k = tgt[p] THEN p ELSE IF k = ip[p] THEN None ELSE lock[k]
         /\ \A d \in Inodes, n \in Entries:
              dirent'[d][n] = IF d = ip[p] /\ n = Name(p) THEN tgt[p]
                              ELSE IF d = tgt[p] /\ dtype[d] = "dir" /\ n = "." THEN d
                              ELSE IF d = tgt[p] /\ dtype[d] = "dir" /\ n = ".." THEN ip[p]
                              ELSE dirent[d][n]
         /\ stray' = (stray \/ dnlink[ip[p]] = 0)
         /\ UNCHANGED <<dtype, ref, cwd, fd, call, panic, calls, overlap, lost>>
<1>1. pc[p] = "init" /\ PlaceOf(p)
  BY DEF CreateInit, At, Inv, PlaceInv
<1>2. tgt[p] \in Inodes /\ ref[tgt[p]] > 0
  BY <1>1, Referenced DEF Inv, TypeOK, PlaceOf, Then, Iputs, TgtPlaces, InodeOrNone
<1>3. /\ Type(tgt[p]) = dtype[tgt[p]] /\ Nlink(tgt[p]) = dnlink[tgt[p]]
      /\ dtype[tgt[p]] # "free" /\ lock[tgt[p]] = None
  BY <1>2, AsOnDisk DEF CreateInit, Ilock, Inv
<1>4. ip[p] \in Inodes /\ LockedBy(p, ip[p]) /\ Then(p) \in InDirPlaces /\ Path(p) # <<>>
      /\ Op(p) \in Creates
  BY <1>1 DEF PlaceOf, Inv, TypeOK, Then, Iputs, IpPlaces, InDirPlaces, InodeOrNone, LockedBy
<1>5. /\ lock[ip[p]] = p /\ ref[ip[p]] > 0 /\ valid[ip[p]]
      /\ type[ip[p]] = dtype[ip[p]] /\ nlink[ip[p]] = dnlink[ip[p]]
  BY <1>4, OwnEntry
<1>6. dtype[ip[p]] = "dir" /\ Name(p) \in Entries /\ tgt[p] # ip[p]
  BY <1>3, <1>4, <1>5, NextName, NotNone DEF Inv, KnownInv
<1> DEFINE up == IF dtype[tgt[p]] = "dir" THEN dnlink[ip[p]] + 1 ELSE dnlink[ip[p]]
           isdir == dtype[tgt[p]] = "dir"
<1>7. /\ type' = [type EXCEPT ![tgt[p]] = dtype[tgt[p]]]
      /\ nlink' = [nlink EXCEPT ![tgt[p]] = 1, ![ip[p]] = up]
      /\ dnlink' = [dnlink EXCEPT ![tgt[p]] = 1, ![ip[p]] = up]
      /\ dirent' = [dirent EXCEPT ![ip[p]][Name(p)] = tgt[p],
                      ![tgt[p]] = IF isdir THEN [@ EXCEPT !["."] = tgt[p], ![".."] = ip[p]] ELSE @]
      /\ lock' = [lock EXCEPT ![tgt[p]] = p, ![ip[p]] = None]
      /\ stray' = (stray \/ dnlink[ip[p]] = 0)
      /\ ReadGet(tgt[p], None)
  BY <1>3, <1>5 DEF CreateInit
<1>8. up \in Int
  BY <1>4 DEF Inv, TypeOK
<1>9. \A k \in Inodes:
        /\ dnlink'[k] = IF k = tgt[p] THEN 1
                        ELSE IF k = ip[p] /\ dtype[tgt[p]] = "dir" THEN dnlink[k] + 1
                        ELSE dnlink[k]
        /\ valid'[k] <=> (k = tgt[p] \/ valid[k])
        /\ lock'[k] = IF k = tgt[p] THEN p ELSE IF k = ip[p] THEN None ELSE lock[k]
  BY <1>2, <1>4, <1>6, <1>7, NotNone DEF Inv, TypeOK, ReadGet
<1>10. ref' = ref
  BY <1>7, NotNone DEF ReadGet, Inv, TypeOK
<1>11. \A k \in Inodes:
         /\ type'[k] = IF k = tgt[p] THEN dtype[k] ELSE type[k]
         /\ nlink'[k] = IF k = tgt[p] THEN 1 ELSE IF k = ip[p] THEN up ELSE nlink[k]
         /\ dnlink'[k] = IF k = tgt[p] THEN 1 ELSE IF k = ip[p] THEN up ELSE dnlink[k]
  <2> HIDE DEF up
  <2>1. QED BY <1>2, <1>4, <1>6, <1>7 DEF Inv, TypeOK
<1>12. dtype' = dtype
  BY DEF CreateInit
<1>13. Writes({ip[p], tgt[p]})
  <2> HIDE DEF up
  <2>1. QED BY <1>3, <1>5, <1>6, <1>9, <1>10, <1>11, <1>12 DEF Writes
<1>14. dirent' \in [Inodes -> [Entries -> InodeOrNone]]
  BY <1>2, <1>4, <1>6, <1>7 DEF Inv, TypeOK, InodeOrNone
<1>15. \A d \in Inodes, n \in Entries:
         dirent'[d][n] = IF d = ip[p] /\ n = Name(p) THEN tgt[p]
                         ELSE IF d = tgt[p] /\ dtype[d] = "dir" /\ n = "." THEN d
                         ELSE IF d = tgt[p] /\ dtype[d] = "dir" /\ n = ".." THEN ip[p]
                         ELSE dirent[d][n]
  <2>1. dirent'[ip[p]] = [dirent[ip[p]] EXCEPT ![Name(p)] = tgt[p]]
    BY <1>4, <1>6, <1>7 DEF Inv, TypeOK
  <2>2. dirent'[tgt[p]] = IF isdir THEN [dirent[tgt[p]] EXCEPT !["."] = tgt[p], ![".."] = ip[p]]
                          ELSE dirent[tgt[p]]
    BY <1>2, <1>6, <1>7 DEF Inv, TypeOK
  <2>3. \A d \in Inodes: d # tgt[p] /\ d # ip[p] => dirent'[d] = dirent[d]
    BY <1>7 DEF Inv, TypeOK
  <2>4. \A d \in Inodes: dirent[d] \in [Entries -> InodeOrNone]
    BY DEF Inv, TypeOK
  <2>5. QED BY <1>2, <1>4, <1>6, <2>1, <2>2, <2>3, <2>4
<1>16. Local(p, "put", "created", ip[p], None, tgt[p]) /\ Others(p)
  BY DEF CreateInit, Iput, Goto, Local, Others, Inv, TypeOK, procs
<1>17. TypeOK'
  <2>1. /\ valid' \in [Inodes -> BOOLEAN] /\ type' \in [Inodes -> Types]
        /\ lock' \in [Inodes -> Procs \union {None}]
    BY <1>7 DEF ReadGet, Inv, TypeOK
  <2>2. dnlink' \in [Inodes -> Int] /\ nlink' \in [Inodes -> Int]
    <3> HIDE DEF up
    <3>1. QED BY <1>2, <1>4, <1>7, <1>8 DEF Inv, TypeOK
  <2>3. /\ pc' \in [Procs -> Places] /\ ret' \in [Procs -> Places]
        /\ ip' \in [Procs -> InodeOrNone] /\ tgt' \in [Procs -> InodeOrNone]
        /\ put' \in [Procs -> InodeOrNone]
    BY <1>4 DEF CreateInit, Iput, Goto, Inv, TypeOK, InodeOrNone, Places
  <2>4. QED BY <1>10, <1>12, <1>14, <2>1, <2>2, <2>3 DEF CreateInit, Inv, TypeOK, procs
<1>18. CallInv'
  BY DEF CreateInit, Inv, CallInv
<1>19. QED
  BY <1>1, <1>2, <1>3, <1>4, <1>5, <1>6, <1>7, <1>9, <1>10, <1>12, <1>13, <1>15, <1>16, <1>17, <1>18
     DEF CreateInit, procs

\* A step of p that hands its lock over from a directory to what it names.
LEMMA HandOver ==
  ASSUME Inv, NEW p \in Procs, PlaceOf(p), NEW r,
         \/ pc[p] = "init" /\ r = "created" /\ Op(p) \in Creates
         \/ pc[p] = "victim" /\ r = "unlinked" /\ Op(p) = "unlink",
         tgt[p] \in Inodes, dtype[tgt[p]] # "free", lock[tgt[p]] = None,
         ip[p] \in Inodes, lock[ip[p]] = p,
         Local(p, "put", r, ip[p], None, tgt[p]), Others(p), TypeOK', CallInv',
         Writes({ip[p], tgt[p]}),
         \A k \in Inodes:
           lock'[k] = IF k = tgt[p] THEN p ELSE IF k = ip[p] THEN None ELSE lock[k],
         UNCHANGED <<dtype, ref, cwd, fd, call, panic>>
  PROVE  Inv'
<1>1. pc'[p] = "put" /\ Then(p)' = r /\ Then(p) = pc[p] /\ put[p] = None
  BY DEF Local, Then, Iputs, PlaceOf
<1>2. PlaceOf(p)'
  BY <1>1, NotNone DEF PlaceOf, Local, Iputs, Returns, IpPlaces, InDirPlaces, TgtPlaces, Op
<1>3. \A k \in Inodes: LockedBy(p, k)' <=> k = tgt[p]
  BY <1>1, NotNone DEF LockedBy, Local
<1>4. \A k \in Inodes: LockedBy(p, k) <=> k = ip[p]
  BY <1>1 DEF LockedBy
<1>5. Safe(tgt[p])
  BY UnlockedSafe
<1>6. \A k \in Inodes: Safe(k) => Safe(k)'
  BY <1>1 DEF Safe, Others
<1>7. \A k \in Inodes: Known(p, k)' => Known(p, k) \/ k = tgt[p]
  BY <1>1, NotNone DEF Known, Local
<1>8. \A k \in Inodes:
        /\ ref'[k] = IF k = None THEN ref[k] + 1 ELSE ref[k]
        /\ Uses(p, k)' = Uses(p, k) + (IF k = None THEN 1 ELSE 0)
        /\ \/ lock'[k] = lock[k]
           \/ lock[k] \in {None, p} /\ lock'[k] \in {None, p}
        /\ lock'[k] = p <=> LockedBy(p, k)'
        /\ LockedBy(p, k)' => LockedBy(p, k) \/ k \in {ip[p], tgt[p]}
        /\ Known(p, k)' => Known(p, k) \/ Safe(k)'
  <2>1. \A k \in Inodes: /\ ref'[k] = IF k = None THEN ref[k] + 1 ELSE ref[k]
                         /\ Uses(p, k)' = Uses(p, k) + (IF k = None THEN 1 ELSE 0)
    BY <1>1, NotNone DEF Local, Uses, One
  <2>2. \A k \in Inodes: /\ \/ lock'[k] = lock[k]
                            \/ lock[k] \in {None, p} /\ lock'[k] \in {None, p}
                         /\ lock'[k] = p <=> k = tgt[p]
    BY <1>4, NotNone DEF Inv, LockInv
  <2>3. \A k \in Inodes: Known(p, k)' => Known(p, k) \/ Safe(k)'
    BY <1>5, <1>6, <1>7
  <2>4. QED BY <1>3, <2>1, <2>2, <2>3
<1>9. \A k \in {ip[p], tgt[p]}: k \in Inodes /\ lock[k] \in {None, p}
  OBVIOUS
<1>10. dtype'[cwd'[p]] = "dir" /\ Then(p)' \notin InDirPlaces
  BY <1>1 DEF Inv, KnownInv, InDirPlaces
<1>11. \A k \in Inodes: dtype'[k] = dtype[k] \/ (dtype[k] = "free" /\ dtype'[k] # "free")
  OBVIOUS
<1>12. panic' = panic /\ pc'[p] # "free"
  BY <1>1
<1>13. Then(p)' \in InDirPlaces => dtype'[ip'[p]] = "dir"
  BY <1>10
<1>14. QED BY <1>2, <1>8, <1>9, <1>10, <1>11, <1>12, <1>13, WriteStep

LEMMA CreateInitInv ==
  ASSUME Inv, NEW p \in Procs, CreateInit(p)
  PROVE  Inv'
<1>1. /\ pc[p] = "init" /\ PlaceOf(p) /\ Op(p) \in Creates
      /\ tgt[p] \in Inodes /\ ref[tgt[p]] > 0 /\ dtype[tgt[p]] # "free" /\ lock[tgt[p]] = None
      /\ ip[p] \in Inodes /\ lock[ip[p]] = p
      /\ Local(p, "put", "created", ip[p], None, tgt[p]) /\ Others(p)
      /\ TypeOK' /\ CallInv' /\ Writes({ip[p], tgt[p]})
      /\ UNCHANGED <<dtype, ref, cwd, fd, call, panic>>
  BY CreateInitEffect, Zenon
<1>2. \A k \in Inodes: lock'[k] = IF k = tgt[p] THEN p ELSE IF k = ip[p] THEN None ELSE lock[k]
  BY CreateInitEffect
<1>3. QED BY <1>1, <1>2, HandOver

LEMMA UnlinkEntryEffect ==
  ASSUME Inv, NEW p \in Procs, UnlinkEntry(p)
  PROVE  /\ pc[p] = "victim" /\ PlaceOf(p) /\ Op(p) = "unlink"
         /\ tgt[p] \in Inodes /\ ref[tgt[p]] > 0 /\ dtype[tgt[p]] # "free" /\ lock[tgt[p]] = None
         /\ ip[p] \in Inodes /\ ref[ip[p]] > 0 /\ valid[ip[p]] /\ dtype[ip[p]] = "dir"
         /\ lock[ip[p]] = p /\ tgt[p] # ip[p] /\ Name(p) \in Entries
         /\ dtype[tgt[p]] = "dir" => isdirempty(tgt[p])
         /\ dnlink[tgt[p]] > 0
         /\ Local(p, "put", "unlinked", ip[p], None, tgt[p]) /\ Others(p)
         /\ TypeOK' /\ CallInv' /\ Writes({ip[p], tgt[p]})
         /\ \A k \in Inodes:
              /\ dnlink'[k] = IF k = ip[p] /\ dtype[tgt[p]] = "dir" THEN dnlink[k] - 1 ELSE dnlink[k]
              /\ valid'[k] <=> (k = tgt[p] \/ valid[k])
              /\ lock'[k] = IF k = tgt[p] THEN p ELSE IF k = ip[p] THEN None ELSE lock[k]
         /\ \A d \in Inodes, n \in Entries:
              dirent'[d][n] = IF d = ip[p] /\ n = Name(p) THEN None ELSE dirent[d][n]
         /\ UNCHANGED <<dtype, ref, cwd, fd, call, panic, hist>>
<1>1. pc[p] = "victim" /\ PlaceOf(p)
  BY DEF UnlinkEntry, At, Inv, PlaceInv
<1>2. tgt[p] \in Inodes /\ ref[tgt[p]] > 0
  BY <1>1, Referenced DEF Inv, TypeOK, PlaceOf, Then, Iputs, TgtPlaces, InodeOrNone
<1>3. /\ Type(tgt[p]) = dtype[tgt[p]] /\ Nlink(tgt[p]) = dnlink[tgt[p]]
      /\ dtype[tgt[p]] # "free" /\ lock[tgt[p]] = None
  BY <1>2, AsOnDisk DEF UnlinkEntry, Ilock, Inv
<1>4. ip[p] \in Inodes /\ LockedBy(p, ip[p]) /\ Then(p) \in InDirPlaces /\ Path(p) # <<>>
      /\ Op(p) = "unlink"
  BY <1>1 DEF PlaceOf, Inv, TypeOK, Then, Iputs, IpPlaces, InDirPlaces, InodeOrNone, LockedBy
<1>5. /\ lock[ip[p]] = p /\ ref[ip[p]] > 0 /\ valid[ip[p]]
      /\ type[ip[p]] = dtype[ip[p]] /\ nlink[ip[p]] = dnlink[ip[p]]
  BY <1>4, OwnEntry
<1>6. dtype[ip[p]] = "dir" /\ Name(p) \in Entries /\ tgt[p] # ip[p]
  BY <1>3, <1>4, <1>5, NextName, NotNone DEF Inv, KnownInv
<1> DEFINE down == IF dtype[tgt[p]] = "dir" THEN dnlink[ip[p]] - 1 ELSE dnlink[ip[p]]
<1>7. /\ type' = [type EXCEPT ![tgt[p]] = dtype[tgt[p]]]
      /\ nlink' = [nlink EXCEPT ![tgt[p]] = dnlink[tgt[p]], ![ip[p]] = down]
      /\ dnlink' = [dnlink EXCEPT ![ip[p]] = down]
      /\ dirent' = [dirent EXCEPT ![ip[p]][Name(p)] = None]
      /\ lock' = [lock EXCEPT ![tgt[p]] = p, ![ip[p]] = None]
      /\ ReadGet(tgt[p], None)
      /\ dtype[tgt[p]] = "dir" => isdirempty(tgt[p])
      /\ dnlink[tgt[p]] > 0
  BY <1>3, <1>5 DEF UnlinkEntry
<1>8. down \in Int
  BY <1>4 DEF Inv, TypeOK
<1>9. \A k \in Inodes:
        /\ dnlink'[k] = IF k = ip[p] /\ dtype[tgt[p]] = "dir" THEN dnlink[k] - 1 ELSE dnlink[k]
        /\ valid'[k] <=> (k = tgt[p] \/ valid[k])
        /\ lock'[k] = IF k = tgt[p] THEN p ELSE IF k = ip[p] THEN None ELSE lock[k]
  BY <1>2, <1>4, <1>6, <1>7, NotNone DEF Inv, TypeOK, ReadGet
<1>10. ref' = ref
  BY <1>7, NotNone DEF ReadGet, Inv, TypeOK
<1>11. \A k \in Inodes:
         /\ type'[k] = IF k = tgt[p] THEN dtype[k] ELSE type[k]
         /\ nlink'[k] = IF k = tgt[p] THEN dnlink[k] ELSE IF k = ip[p] THEN down ELSE nlink[k]
         /\ dnlink'[k] = IF k = ip[p] THEN down ELSE dnlink[k]
  <2> HIDE DEF down
  <2>1. QED BY <1>2, <1>4, <1>6, <1>7 DEF Inv, TypeOK
<1>12. dtype' = dtype
  BY DEF UnlinkEntry
<1>13. Writes({ip[p], tgt[p]})
  <2> HIDE DEF down
  <2>1. QED BY <1>3, <1>5, <1>6, <1>9, <1>10, <1>11, <1>12 DEF Writes
<1>14. dirent' \in [Inodes -> [Entries -> InodeOrNone]]
  BY <1>4, <1>6, <1>7 DEF Inv, TypeOK, InodeOrNone
<1>15. \A d \in Inodes, n \in Entries:
         dirent'[d][n] = IF d = ip[p] /\ n = Name(p) THEN None ELSE dirent[d][n]
  BY <1>4, <1>6, <1>7 DEF Inv, TypeOK
<1>16. Local(p, "put", "unlinked", ip[p], None, tgt[p]) /\ Others(p)
  BY DEF UnlinkEntry, Iput, Goto, Local, Others, Inv, TypeOK, procs
<1>17. TypeOK'
  <2>1. /\ valid' \in [Inodes -> BOOLEAN] /\ type' \in [Inodes -> Types]
        /\ lock' \in [Inodes -> Procs \union {None}]
    BY <1>7 DEF ReadGet, Inv, TypeOK
  <2>2. dnlink' \in [Inodes -> Int] /\ nlink' \in [Inodes -> Int]
    <3> HIDE DEF down
    <3>1. QED BY <1>2, <1>4, <1>7, <1>8 DEF Inv, TypeOK
  <2>3. /\ pc' \in [Procs -> Places] /\ ret' \in [Procs -> Places]
        /\ ip' \in [Procs -> InodeOrNone] /\ tgt' \in [Procs -> InodeOrNone]
        /\ put' \in [Procs -> InodeOrNone]
    BY <1>4 DEF UnlinkEntry, Iput, Goto, Inv, TypeOK, InodeOrNone, Places
  <2>4. QED BY <1>10, <1>12, <1>14, <2>1, <2>2, <2>3 DEF UnlinkEntry, Inv, TypeOK, procs
<1>18. CallInv'
  BY DEF UnlinkEntry, Inv, CallInv
<1>19. QED
  BY <1>1, <1>2, <1>3, <1>4, <1>5, <1>6, <1>7, <1>9, <1>10, <1>12, <1>13, <1>15, <1>16, <1>17, <1>18
     DEF UnlinkEntry, procs

LEMMA UnlinkEntryInv ==
  ASSUME Inv, NEW p \in Procs, UnlinkEntry(p)
  PROVE  Inv'
<1>1. /\ pc[p] = "victim" /\ PlaceOf(p) /\ Op(p) = "unlink"
      /\ tgt[p] \in Inodes /\ ref[tgt[p]] > 0 /\ dtype[tgt[p]] # "free" /\ lock[tgt[p]] = None
      /\ ip[p] \in Inodes /\ lock[ip[p]] = p
      /\ Local(p, "put", "unlinked", ip[p], None, tgt[p]) /\ Others(p)
      /\ TypeOK' /\ CallInv' /\ Writes({ip[p], tgt[p]})
      /\ UNCHANGED <<dtype, ref, cwd, fd, call, panic>>
  BY UnlinkEntryEffect, Zenon
<1>2. \A k \in Inodes: lock'[k] = IF k = tgt[p] THEN p ELSE IF k = ip[p] THEN None ELSE lock[k]
  BY UnlinkEntryEffect
<1>3. QED BY <1>1, <1>2, HandOver

-----------------------------------------------------------------------------
(* The invariant.                                                          *)

LEMMA SameInv ==
  ASSUME Inv, ParentsStayDirs',
         UNCHANGED <<dtype, dnlink, ref, valid, type, nlink, dirent, lock, cwd, fd, pc, call, ip,
                     tgt, put, ret>>
  PROVE  Inv'
<1>1. TypeOK'
  BY DEF Inv, TypeOK
<1>2. CallInv'
  BY DEF Inv, CallInv
<1>3. ASSUME NEW p \in Procs PROVE Then(p)' = Then(p) /\ PlaceOf(p)' = PlaceOf(p)
  BY DEF Then, PlaceOf, Op, Path
<1>4. PlaceInv'
  BY <1>3 DEF Inv, PlaceInv
<1>5. ASSUME NEW p \in Procs, NEW i
      PROVE  /\ LockedBy(p, i)' <=> LockedBy(p, i)
             /\ Known(p, i)' <=> Known(p, i)
             /\ Safe(i)' <=> Safe(i)
  BY <1>3 DEF LockedBy, Known, Safe
<1>6. LockInv'
  BY <1>5 DEF Inv, LockInv
<1>7. RefsCounted'
  BY DEF Inv, RefsCounted
<1>8. EntryInv'
  BY <1>5 DEF Inv, EntryInv, EntryOf
<1>9. KnownInv'
  BY <1>3, <1>5 DEF Inv, KnownInv
<1>10. QED BY <1>1, <1>2, <1>4, <1>6, <1>7, <1>8, <1>9 DEF Inv

LEMMA PanicInv ==
  ASSUME Inv, NEW p \in Procs, Panic(p)
  PROVE  Inv'
<1>1. /\ Wants(p) # None /\ panic' = PanicAt(p) /\ PanicAt(p) # None
      /\ UNCHANGED <<disk, icache, procs, pc, call, locals, put, ret, hist>>
  BY DEF Panic
<1>2. PanicAt(p) # "dirlookup not DIR"
  <2>1. SUFFICES ASSUME pc[p] \in {"create", "unlink", "linknew"}, Type(Wants(p)) # "dir"
                 PROVE  FALSE
    BY <1>1 DEF PanicAt
  <2>2. PlaceOf(p) /\ Then(p) = pc[p] /\ pc[p] \in InDirPlaces
    BY <2>1 DEF Inv, PlaceInv, Then, Iputs, InDirPlaces
  <2>3. Wants(p) = ip[p] /\ ip[p] \in Inodes
    BY <2>1, <2>2 DEF Wants, PlaceOf, IpPlaces, Inv, TypeOK, InodeOrNone
  <2>4. Type(ip[p]) = dtype[ip[p]] /\ dtype[ip[p]] = "dir"
    BY <2>2, <2>3, Referenced, AsOnDisk DEF Inv, KnownInv
  <2>5. QED BY <2>1, <2>3, <2>4
<1>3. UNCHANGED <<dtype, dnlink, ref, valid, type, nlink, dirent, lock, cwd, fd, pc, call, ip,
                  tgt, put, ret>>
  BY <1>1 DEF disk, icache, procs, locals
<1>4. QED BY <1>1, <1>2, <1>3, SameInv DEF ParentsStayDirs

LEMMA StutterInv ==
  ASSUME Inv, UNCHANGED vars
  PROVE  Inv'
  BY SameInv DEF vars, Inv, ParentsStayDirs

LEMMA LookupInv ==
  ASSUME Inv, NEW p \in Procs, Lookup(p)
  PROVE  Inv'
<1>1. ASSUME NEW c \in Calls, Syscall(p, c) PROVE Inv'
  BY <1>1, SyscallInv
<1>2. ASSUME NamexEnd(p) PROVE Inv'
  BY <1>2, NamexFailEndInv, NamexFoundInv
<1>3. ASSUME PutTest(p) PROVE Inv'
  BY <1>3, PutLastInv, PutWaitInv
<1>4. QED BY <1>1, <1>2, <1>3, NamexFailInv, NamexStepInv, NamexParentInv, PutFreeInv, PutDecInv
             DEF Lookup

LEMMA UseInv ==
  ASSUME Inv, NEW p \in Procs, Use(p)
  PROVE  Inv'
  BY OpenDoneInv, OpenFailInv, CloseInv, ChdirDoneInv, ChdirFailInv DEF Use

LEMMA LinkInvariant ==
  ASSUME Inv, NEW p \in Procs, Link(p)
  PROVE  Inv'
  BY LinkOldDirInv, LinkOldInv, LinkNewInv, LinkPutInv, LinkExistsInv, LinkBadInv DEF Link

LEMMA CreateInvariant ==
  ASSUME Inv, NEW p \in Procs, Create(p)
  PROVE  Inv'
  BY CreateExistsInv, ExistsDoneInv, ExistsFailInv, IallocInv, CreateInitInv, CreatedDoneInv,
     CreatedFailInv DEF Create

LEMMA UnlinkInvariant ==
  ASSUME Inv, NEW p \in Procs, Unlink(p)
  PROVE  Inv'
  BY UnlinkNoneInv, UnlinkFoundInv, UnlinkBusyInv, UnlinkEntryInv, UnlinkedInv, UnlockDpInv
     DEF Unlink

LEMMA StepInv == Inv /\ [Next]_vars => Inv'
<1>1. SUFFICES ASSUME Inv, Next PROVE Inv'
  BY StutterInv
<1>2. PICK p \in Procs: Lookup(p) \/ Use(p) \/ Link(p) \/ Create(p) \/ Unlink(p) \/ Panic(p)
  BY <1>1 DEF Next
<1>3. QED
  BY <1>1, <1>2, LookupInv, UseInv, LinkInvariant, CreateInvariant, UnlinkInvariant, PanicInv

LEMMA InitInv == Init => Inv
<1> SUFFICES ASSUME Init PROVE Inv
  OBVIOUS
<1>1. 1 \in Inodes /\ 2 \in Inodes /\ 3 \in Inodes /\ ROOTINO = 1
  BY DirectoryConstants DEF Inodes, ROOTINO
<1>2. Name1 \in Names /\ Name2 \in Names
  BY DirectoryConstants DEF Name1, Name2
<1>3. cwd \in [Procs -> {1, 3}]
  BY <1>1 DEF Init
<1>4. TypeOK
  <2>1. dirent \in [Inodes -> [Entries -> InodeOrNone]]
    <3>1. NoEntry \in [Entries -> InodeOrNone]
      BY DEF NoEntry, InodeOrNone
    <3>2. \A i \in Inodes, up \in Inodes: Dots(i, up) \in [Entries -> InodeOrNone]
      BY <3>1 DEF Dots, InodeOrNone
    <3>3. /\ [Dots(1, 1) EXCEPT ![Name1] = 2] \in [Entries -> InodeOrNone]
          /\ [Dots(2, 1) EXCEPT ![Name2] = 3] \in [Entries -> InodeOrNone]
      BY <1>1, <3>2 DEF InodeOrNone
    <3>4. QED BY <1>1, <3>1, <3>2, <3>3 DEF Init
  <2>2. \A i \in Inodes: Cardinality({p \in Procs : cwd[p] = i}) \in Nat
    <3>1. \A i: IsFiniteSet({p \in Procs : cwd[p] = i})
      BY Finite, FS_Subset
    <3>2. QED BY <3>1, FS_CardinalityType
  <2>3. ref \in [Inodes -> Nat]
    BY <2>2 DEF Init
  <2>4. /\ dtype \in [Inodes -> Types] /\ dnlink \in [Inodes -> Int]
        /\ valid \in [Inodes -> BOOLEAN]
        /\ type \in [Inodes -> Types] /\ nlink \in [Inodes -> Int]
        /\ lock \in [Inodes -> Procs \union {None}]
    <3>1. \A i \in Inodes: (CASE i =< 2 -> 2 [] i = 3 -> 1 [] OTHER -> 0) \in Int
      BY DEF Inodes
    <3>2. QED BY <3>1 DEF Init, Types
  <2>5. /\ cwd \in [Procs -> Inodes] /\ fd \in [Procs -> InodeOrNone]
        /\ pc \in [Procs -> Places] /\ ret \in [Procs -> Places]
        /\ ip \in [Procs -> InodeOrNone] /\ tgt \in [Procs -> InodeOrNone]
        /\ put \in [Procs -> InodeOrNone]
    BY <1>1, <1>3 DEF Init, Places, InodeOrNone
  <2>6. QED BY <2>1, <2>3, <2>4, <2>5 DEF TypeOK
<1>5. CallInv
  <2>1. /\ NoCall \in [op: Ops \union {"none"}, path: Seq(Entries), new: Seq(Elements)]
        /\ Len(NoCall.new) = 0
    BY DEF NoCall
  <2>2. QED BY <2>1 DEF Init, CallInv
<1>6. \A p \in Procs: pc[p] = "user" /\ Then(p) = "user" /\ ret[p] = "user"
                      /\ put[p] = None /\ ip[p] = None /\ tgt[p] = None /\ fd[p] = None
  BY DEF Init, Then
<1>7. PlaceInv
  BY <1>6 DEF PlaceInv, PlaceOf, Iputs, Returns, IpPlaces, InDirPlaces, TgtPlaces
<1>8. \A p \in Procs, i \in Inodes: ~LockedBy(p, i)
  BY <1>6 DEF LockedBy
<1>9. LockInv
  BY <1>8, NotNone DEF LockInv, Init
<1>10. RefsCounted
  <2>1. SUFFICES ASSUME NEW i \in Inodes
                 PROVE  ref[i] = Cardinality({p \in Procs : cwd[p] = i})
                                 + Cardinality({p \in Procs : fd[p] = i})
                                 + Cardinality({p \in Procs : ip[p] = i})
                                 + Cardinality({p \in Procs : tgt[p] = i})
                                 + Cardinality({p \in Procs : put[p] = i})
    BY DEF RefsCounted
  <2>2. /\ {p \in Procs : fd[p] = i} = {} /\ {p \in Procs : ip[p] = i} = {}
        /\ {p \in Procs : tgt[p] = i} = {} /\ {p \in Procs : put[p] = i} = {}
    BY <1>6, NotNone
  <2>3. Cardinality({}) = 0
    BY FS_EmptySet
  <2>4. ref[i] = Cardinality({p \in Procs : cwd[p] = i}) /\ ref[i] \in Nat
    BY <1>4 DEF Init, TypeOK
  <2>5. /\ Cardinality({p \in Procs : fd[p] = i}) = 0 /\ Cardinality({p \in Procs : ip[p] = i}) = 0
        /\ Cardinality({p \in Procs : tgt[p] = i}) = 0 /\ Cardinality({p \in Procs : put[p] = i}) = 0
    BY <2>2, <2>3, Zenon
  <2>6. QED BY <2>4, <2>5
<1>11. EntryInv
  BY <1>6, <1>8 DEF EntryInv, EntryOf, Init
<1>12. dtype[1] = "dir" /\ dtype[3] = "dir"
  BY <1>1 DEF Init
<1>13. KnownInv
  <2>1. SUFFICES ASSUME NEW p \in Procs
                 PROVE  /\ \A i \in Inodes: Known(p, i) => Safe(i)
                        /\ dtype[cwd[p]] = "dir"
                        /\ Then(p) \in InDirPlaces => dtype[ip[p]] = "dir"
    BY DEF KnownInv
  <2>2. dtype[cwd[p]] = "dir"
    BY <1>3, <1>12
  <2>3. Then(p) \notin InDirPlaces
    BY <1>6 DEF InDirPlaces
  <2>4. \A i \in Inodes: Known(p, i) => i = cwd[p]
    BY <1>6, <2>3, NotNone DEF Known
  <2>5. \A i \in Inodes: dtype[i] = "dir" => Safe(i)
    BY <1>6 DEF Safe
  <2>6. QED BY <2>2, <2>3, <2>4, <2>5
<1>14. ParentsStayDirs
  BY DirectoryConstants DEF ParentsStayDirs, Init, Panics
<1>15. QED
  BY <1>4, <1>5, <1>7, <1>9, <1>10, <1>11, <1>13, <1>14 DEF Inv

(***************************************************************************)
(* The inductive invariant of icache: where calls stand, which references  *)
(* and locks are theirs, what the counts consist of, what the entries say, *)
(* and what cannot be freed, for processes that look up, make, link and    *)
(* unlink any names in any order.                                          *)
(***************************************************************************)
THEOREM CacheInvariance == Spec => []Inv
<1>1. Init => Inv
  BY InitInv
<1>2. Inv /\ [Next]_vars => Inv'
  BY StepInv
<1>3. QED BY <1>1, <1>2, PTL DEF Spec

(***************************************************************************)
(* ref counts the pointers to an entry, on every error path of a call, and *)
(* a valid entry says what the disk says, also when ialloc() reuses an     *)
(* inode that iput() has just freed.                                       *)
(***************************************************************************)
THEOREM InodeSafety == Spec => []InodeInv
<1>1. Inv => InodeInv
  BY DEF Inv, InodeInv, CacheCoherent, EntryInv, EntryOf
<1>2. QED BY <1>1, CacheInvariance, PTL

(***************************************************************************)
(* iput() does not free an open file that was unlinked, nor a current      *)
(* directory that was removed, before the last process lets go of it.      *)
(***************************************************************************)
THEOREM HeldSafety == Spec => []HeldExist
<1>1. Inv => HeldExist
  <2>1. SUFFICES ASSUME Inv, NEW p \in Procs
                 PROVE  (fd[p] # None => dtype[fd[p]] # "free") /\ dtype[cwd[p]] = "dir"
    BY DEF HeldExist
  <2>2. fd[p] # None => fd[p] \in Inodes /\ Known(p, fd[p])
    BY <2>1 DEF Inv, TypeOK, InodeOrNone, Known
  <2>3. QED BY <2>1, <2>2 DEF Inv, KnownInv, Safe
<1>2. QED BY <1>1, CacheInvariance, PTL

(***************************************************************************)
(* The directory that nameiparent() returned unlocked is still a directory *)
(* when create(), unlink() or link() has locked it again.                  *)
(***************************************************************************)
THEOREM ParentsSafety == Spec => []ParentsStayDirs
<1>1. Inv => ParentsStayDirs
  BY DEF Inv
<1>2. QED BY <1>1, CacheInvariance, PTL

-----------------------------------------------------------------------------
(* Counting names.                                                         *)

Pends(p, i) ==
  /\ tgt[p] = i
  /\ \/ Op(p) = "unlink" /\ "unlinked" \in {pc[p], ret[p]}
     \/ Op(p) = "link" /\ "linkput" \notin {pc[p], ret[p]}

LEMMA NameSets ==
  ASSUME NEW i
  PROVE  /\ IsFiniteSet(Named(i)) /\ IsFiniteSet(Subdirs(i)) /\ IsFiniteSet(Pending(i))
         /\ Cardinality(Named(i)) \in Nat /\ Cardinality(Subdirs(i)) \in Nat
         /\ Cardinality(Pending(i)) \in Nat
<1>1. IsFiniteSet(Inodes \X Names)
  BY Finite, FS_Product, DirectoryConstants
<1>2. /\ Named(i) \subseteq Inodes \X Names /\ Subdirs(i) \subseteq Inodes
      /\ Pending(i) \subseteq Procs
  BY DEF Named, Subdirs, Pending
<1>3. IsFiniteSet(Named(i)) /\ IsFiniteSet(Subdirs(i)) /\ IsFiniteSet(Pending(i))
  BY <1>1, <1>2, Finite, FS_Subset
<1>4. QED BY <1>3, FS_CardinalityType

\* The total follows at most one name, one subdirectory and one call.
LEMMA TotalStep ==
  ASSUME NEW i, NEW x, NEW y, NEW p,
         Named(i) \ {x} = Named(i)' \ {x},
         Subdirs(i) \ {y} = Subdirs(i)' \ {y},
         Pending(i) \ {p} = Pending(i)' \ {p}
  PROVE  /\ Total(i) \in Nat /\ Total(i)' \in Nat
         /\ One(x \in Named(i)) \in Nat /\ One(x \in Named(i)') \in Nat
         /\ One(y \in Subdirs(i)) \in Nat /\ One(y \in Subdirs(i)') \in Nat
         /\ One(p \in Pending(i)) \in Nat /\ One(p \in Pending(i)') \in Nat
         /\ Total(i)' = (Total(i) - (One(x \in Named(i)) + One(y \in Subdirs(i)) + One(p \in Pending(i))))
                        + (One(x \in Named(i)') + One(y \in Subdirs(i)') + One(p \in Pending(i)'))
<1>1. /\ IsFiniteSet(Named(i)) /\ IsFiniteSet(Subdirs(i)) /\ IsFiniteSet(Pending(i))
  BY NameSets
<1>2. /\ Cardinality(Named(i)) \in Nat /\ Cardinality(Named(i)') \in Nat
      /\ Cardinality(Named(i)') = (Cardinality(Named(i)) - One(x \in Named(i))) + One(x \in Named(i)')
  BY <1>1, Toggle
<1>3. /\ Cardinality(Subdirs(i)) \in Nat /\ Cardinality(Subdirs(i)') \in Nat
      /\ Cardinality(Subdirs(i)') = (Cardinality(Subdirs(i)) - One(y \in Subdirs(i)))
                                    + One(y \in Subdirs(i)')
  BY <1>1, Toggle
<1>4. /\ Cardinality(Pending(i)) \in Nat /\ Cardinality(Pending(i)') \in Nat
      /\ Cardinality(Pending(i)') = (Cardinality(Pending(i)) - One(p \in Pending(i)))
                                    + One(p \in Pending(i)')
  BY <1>1, Toggle
<1>5. /\ One(x \in Named(i)) \in Nat /\ One(x \in Named(i)') \in Nat
      /\ One(y \in Subdirs(i)) \in Nat /\ One(y \in Subdirs(i)') \in Nat
      /\ One(p \in Pending(i)) \in Nat /\ One(p \in Pending(i)') \in Nat
  BY DEF One
<1>6. /\ Total(i) = Cardinality(Named(i)) + Cardinality(Subdirs(i)) + Cardinality(Pending(i))
      /\ Total(i)' = Cardinality(Named(i)') + Cardinality(Subdirs(i)') + Cardinality(Pending(i)')
  BY DEF Total
<1>7. QED BY <1>2, <1>3, <1>4, <1>5, <1>6

LEMMA TotalParts ==
  ASSUME NEW i
  PROVE  /\ Total(i) \in Nat
         /\ Named(i) # {} => Total(i) >= 1
         /\ Subdirs(i) # {} => Total(i) >= 1
         /\ Pending(i) # {} => Total(i) >= 1
         /\ Named(i) = {} /\ Subdirs(i) = {} /\ Pending(i) = {} => Total(i) = 0
<1>1. /\ IsFiniteSet(Named(i)) /\ IsFiniteSet(Subdirs(i)) /\ IsFiniteSet(Pending(i))
      /\ Cardinality(Named(i)) \in Nat /\ Cardinality(Subdirs(i)) \in Nat
      /\ Cardinality(Pending(i)) \in Nat
  BY NameSets
<1>2. /\ Cardinality(Named(i)) = 0 <=> Named(i) = {}
      /\ Cardinality(Subdirs(i)) = 0 <=> Subdirs(i) = {}
      /\ Cardinality(Pending(i)) = 0 <=> Pending(i) = {}
  BY <1>1, FS_EmptySet
<1>3. QED BY <1>1, <1>2 DEF Total

-----------------------------------------------------------------------------
(* What TInv says of an inode that is named, and of the entries of one.    *)

LEMMA LinkedOwned ==
  ASSUME Inv, TInv, NEW i \in Inodes, dnlink[i] > 0
  PROVE  ~Unowned(i) /\ dtype[i] # "free" /\ ~AtInit(i) /\ Safe(i)
<1>1. dtype[i] # "free" /\ ~AtInit(i)
  BY DEF TInv, LinkInv
<1>2. ASSUME NEW q \in Procs, pc[q] = "free", put[q] = i PROVE FALSE
  <2>1. valid[i] /\ nlink[i] = 0 /\ ref[i] > 0
    BY <1>2, FreeingEntry
  <2>2. dnlink[i] = 0
    BY <2>1 DEF Inv, EntryInv, EntryOf
  <2>3. QED BY <2>2
<1>3. QED BY <1>1, <1>2 DEF Unowned, AtInit, Safe

LEMMA NamedLinked ==
  ASSUME Inv, TInv, NEW e \in Inodes, NEW n \in Names, NEW i \in Inodes, dirent[e][n] = i
  PROVE  dnlink[i] > 0 /\ ~Unowned(i) /\ dtype[i] # "free" /\ ~AtInit(i) /\ Safe(i)
<1>1. <<e, n>> \in Named(i)
  BY DEF Named
<1>2. Total(i) \in Nat /\ Total(i) >= 1
  BY <1>1, TotalParts
<1>3. dnlink[i] \in Int /\ dnlink[i] >= Total(i)
  BY DEF Inv, TypeOK, TInv, LinkInv
<1>4. dnlink[i] > 0
  BY <1>2, <1>3
<1>5. QED BY <1>4, LinkedOwned

LEMMA RootLinked ==
  ASSUME Inv, TInv
  PROVE  /\ ROOTINO \in Inodes /\ dnlink[ROOTINO] > 0 /\ ~Unowned(ROOTINO)
         /\ ~AtInit(ROOTINO)
<1>1. ROOTINO \in Inodes
  BY DirectoryConstants DEF ROOTINO, Inodes
<1>2. ROOTINO \in Subdirs(ROOTINO)
  BY <1>1 DEF Subdirs, TInv, TreeInv
<1>3. Total(ROOTINO) \in Nat /\ Total(ROOTINO) >= 1
  BY <1>2, TotalParts
<1>4. dnlink[ROOTINO] \in Int /\ dnlink[ROOTINO] >= Total(ROOTINO)
  BY <1>1 DEF Inv, TypeOK, TInv, LinkInv
<1>5. dnlink[ROOTINO] > 0
  BY <1>3, <1>4
<1>6. QED BY <1>1, <1>5, LinkedOwned

LEMMA StartOwned ==
  ASSUME Inv, TInv, NEW p \in Procs, NEW q
  PROVE  Start(p, q) \in Inodes /\ ~Unowned(Start(p, q))
<1>1. cwd[p] \in Inodes /\ ~Unowned(cwd[p])
  BY DEF Inv, TypeOK, TInv, OwnedInv, Holds
<1>2. QED BY <1>1, RootLinked DEF Start

\* What a directory that somebody holds has under a name, or under "..".
LEMMA EntryOwned ==
  ASSUME Inv, TInv, NEW d \in Inodes, dtype[d] = "dir", ~Unowned(d), NEW n \in Entries,
         dirent[d][n] # None, n = ".." => ~Unowned(dirent[d][n])
  PROVE  dirent[d][n] \in Inodes /\ ~Unowned(dirent[d][n])
<1>1. dirent[d][n] \in Inodes
  BY DEF Inv, TypeOK, InodeOrNone
<1>2. CASE n \in Names
  BY <1>1, <1>2, NamedLinked
<1>3. CASE n = "."
  <2>1. ~AtInit(d)
    BY DEF Unowned, AtInit
  <2>2. dirent[d][n] = d
    BY <1>3, <2>1 DEF TInv, TreeInv
  <2>3. QED BY <2>2
<1>4. QED BY <1>1, <1>2, <1>3 DEF Entries

\* A new name in a directory that somebody holds is not "." or "..".
LEMMA NewName ==
  ASSUME Inv, TInv, NEW d \in Inodes, dtype[d] = "dir", ~AtInit(d), NEW n \in Entries,
         dirent[d][n] = None
  PROVE  n \in Names
  BY NotNone DEF TInv, TreeInv, Entries

-----------------------------------------------------------------------------
(* Each part of it, for a step of p.                                       *)

LEMMA InitSame ==
  ASSUME NEW p \in Procs, Others(p), pc[p] # "init", pc'[p] # "init"
  PROVE  \A i: AtInit(i)' <=> AtInit(i)
  BY DEF AtInit, Others

LEMMA UnownedSame ==
  ASSUME NEW p \in Procs, Others(p), pc[p] \notin {"init", "free"}, pc'[p] \notin {"init", "free"},
         dtype' = dtype
  PROVE  \A i: Unowned(i)' <=> Unowned(i)
  BY DEF Unowned, Others

LEMMA OwnedStep ==
  ASSUME OwnedInv, NEW p \in Procs, Others(p), pc'[p] # "init",
         \A i \in Inodes: Unowned(i)' => Unowned(i),
         \A i \in Inodes: Holds(p, i)' => ~Unowned(i)'
  PROVE  OwnedInv'
<1>1. ASSUME NEW q \in Procs, NEW i \in Inodes, Holds(q, i)' PROVE ~Unowned(i)'
  <2>1. CASE q # p
    <3>1. Holds(q, i)
      BY <1>1, <2>1 DEF Holds, Others
    <3>2. QED BY <3>1 DEF OwnedInv
  <2>2. QED BY <1>1, <2>1
<1>2. ASSUME NEW q \in Procs, NEW r \in Procs, pc'[q] = "init", pc'[r] = "init", tgt'[q] = tgt'[r]
      PROVE  q = r
  <2>1. q # p /\ r # p
    BY <1>2
  <2>2. QED BY <1>2, <2>1 DEF OwnedInv, Others
<1>3. QED BY <1>1, <1>2 DEF OwnedInv

LEMMA TreeSame ==
  ASSUME TreeInv, Acyclic, dirent' = dirent, dtype' = dtype, \A i: AtInit(i)' <=> AtInit(i)
  PROVE  TreeInv' /\ Acyclic'
  BY DEF TreeInv, Acyclic

LEMMA NamesSame ==
  ASSUME dirent' = dirent
  PROVE  \A i: Named(i)' = Named(i) /\ Subdirs(i)' = Subdirs(i)
  BY DEF Named, Subdirs

LEMMA PendingSame ==
  ASSUME NEW p \in Procs, Others(p), NEW i, Pends(p, i)' <=> Pends(p, i)
  PROVE  Pending(i)' = Pending(i)
<1>1. \A q \in Procs: Pends(q, i)' <=> Pends(q, i)
  BY DEF Pends, Others, Op
<1>2. Pending(i) = {q \in Procs : Pends(q, i)} /\ Pending(i)' = {q \in Procs : Pends(q, i)'}
  BY DEF Pending, Pends
<1>3. QED BY <1>1, <1>2

LEMMA LinkSame ==
  ASSUME LinkInv, \A i \in Inodes: /\ Total(i)' = Total(i) /\ dnlink'[i] = dnlink[i]
                                   /\ dtype'[i] = "free" \/ AtInit(i)' => dtype[i] = "free" \/ AtInit(i),
         stray => stray'
  PROVE  LinkInv'
  BY DEF LinkInv

LEMMA NameStep ==
  ASSUME NameInv, NEW p \in Procs, Others(p), NameOf(p)',
         \A q \in Procs \ {p}: \/ dirent'[ip[q]] = dirent[ip[q]]
                               \/ pc[q] \notin {"victim", "init"} /\ ~(pc[q] = "put" /\ ret[q] = "unlockdp")
  PROVE  NameInv'
  BY DEF NameInv, NameOf, Others, Name, Path

LEMMA EmptyStep ==
  ASSUME EmptyInv, NEW p \in Procs, Others(p), EmptyOf(p)',
         \A q \in Procs \ {p}:
           /\ Then(q) = "unlinked" => \A n \in Names: dirent'[tgt[q]][n] = None
           /\ Op(q) = "link" /\ tgt[q] # None => dtype'[tgt[q]] # "dir"
  PROVE  \A q \in Procs: EmptyOf(q)'
  BY DEF EmptyInv, EmptyOf, Others, Then, Op

LEMMA KeepsRef ==
  ASSUME Inv, NEW p \in Procs, NEW i \in Inodes, Keeps(p, i)
  PROVE  ref[i] > 0
  BY Referenced DEF Inv, Keeps

LEMMA OthersKeep ==
  ASSUME NEW p \in Procs, Others(p), NEW q \in Procs \ {p}, NEW i
  PROVE  Keeps(q, i)' <=> Keeps(q, i)
  BY DEF Keeps, Others

\* An inode that nobody is about to free is somebody's or on the disk.
LEMMA LeakStep ==
  ASSUME Inv, LeakInv, NEW p \in Procs, Others(p), overlap => overlap',
         ~overlap' =>
           \A k \in Inodes:
             dtype'[k] # "free" /\ dnlink'[k] = 0 =>
               \/ /\ dtype[k] # "free" /\ dnlink[k] = 0
                  /\ ref[k] > 0 /\ valid[k] => valid'[k]
                  /\ Keeps(p, k) => \E q \in Procs: Keeps(q, k)'
                  /\ AtInit(k) => AtInit(k)'
               \/ (\E q \in Procs: Keeps(q, k)') /\ (valid'[k] \/ AtInit(k)')
  PROVE  LeakInv'
<1>1. SUFFICES ASSUME ~overlap', NEW k \in Inodes, dtype'[k] # "free", dnlink'[k] = 0
               PROVE  /\ \E q \in Procs: Keeps(q, k)'
                      /\ ref'[k] > 0 /\ ~valid'[k] => AtInit(k)'
  BY DEF LeakInv
<1>2. CASE (\E q \in Procs: Keeps(q, k)') /\ (valid'[k] \/ AtInit(k)')
  BY <1>2
<1>3. CASE /\ dtype[k] # "free" /\ dnlink[k] = 0
           /\ ref[k] > 0 /\ valid[k] => valid'[k]
           /\ Keeps(p, k) => \E q \in Procs: Keeps(q, k)'
           /\ AtInit(k) => AtInit(k)'
  <2>1. /\ \E q \in Procs: Keeps(q, k)
        /\ ref[k] > 0 /\ ~valid[k] => AtInit(k)
    BY <1>1, <1>3 DEF LeakInv
  <2>2. PICK q \in Procs: Keeps(q, k)
    BY <2>1
  <2>3. \E r \in Procs: Keeps(r, k)'
    <3>1. CASE q = p
      BY <1>3, <2>2, <3>1
    <3>2. CASE q # p
      BY <2>2, <3>2, OthersKeep
    <3>3. QED BY <3>1, <3>2
  <2>4. ref[k] > 0
    BY <2>2, KeepsRef
  <2>5. QED BY <1>3, <2>1, <2>3, <2>4
<1>4. QED BY <1>1, <1>2, <1>3

\* A step that leaves the disk alone.
LEMMA CalmTree ==
  ASSUME Inv, TInv, NEW p \in Procs, Others(p), pc[p] # "init", pc'[p] # "init", OwnedInv',
         dirent' = dirent, dtype' = dtype, dnlink' = dnlink, panic' = panic, stray' = stray,
         overlap => overlap', \A k \in Inodes: ref[k] > 0 /\ valid[k] => valid'[k],
         \A k \in Inodes: Pends(p, k)' <=> Pends(p, k),
         ~overlap' => \A k \in Inodes: Keeps(p, k) /\ dtype[k] # "free" /\ dnlink[k] = 0 =>
                        \E q \in Procs: Keeps(q, k)',
         NameOf(p)', EmptyOf(p)'
  PROVE  TInv'
<1>1. \A i: AtInit(i)' <=> AtInit(i)
  BY InitSame
<1>2. TreeInv' /\ Acyclic'
  BY <1>1, TreeSame DEF TInv
<1>3. NameInv'
  BY NameStep DEF TInv
<1>4. \A i: Named(i)' = Named(i) /\ Subdirs(i)' = Subdirs(i)
  BY NamesSame
<1>5. LinkInv'
  <2>1. \A i \in Inodes: Pending(i)' = Pending(i)
    BY PendingSame
  <2>2. \A i \in Inodes: Total(i)' = Total(i)
    BY <1>4, <2>1 DEF Total
  <2>3. QED BY <1>1, <2>2, LinkSame DEF TInv
<1>6. EmptyInv'
  <2>1. \A q \in Procs: EmptyOf(q)'
    <3>1. \A q \in Procs \ {p}:
            /\ Then(q) = "unlinked" => \A n \in Names: dirent'[tgt[q]][n] = None
            /\ Op(q) = "link" /\ tgt[q] # None => dtype'[tgt[q]] # "dir"
      BY DEF TInv, EmptyInv, EmptyOf
    <3>2. QED BY <3>1, EmptyStep DEF TInv
  <2>2. QED BY <1>4, <2>1 DEF TInv, EmptyInv
<1>7. LeakInv'
  <2>1. ~overlap' =>
          \A k \in Inodes:
            dtype'[k] # "free" /\ dnlink'[k] = 0 =>
              /\ dtype[k] # "free" /\ dnlink[k] = 0
              /\ ref[k] > 0 /\ valid[k] => valid'[k]
              /\ Keeps(p, k) => \E q \in Procs: Keeps(q, k)'
              /\ AtInit(k) => AtInit(k)'
    BY <1>1
  <2>2. QED BY <2>1, LeakStep DEF TInv
<1>8. QED BY <1>2, <1>3, <1>5, <1>6, <1>7 DEF TInv, OnlyFullPanics

LEMMA CalmOwned ==
  ASSUME OwnedInv, NEW p \in Procs, Others(p), pc[p] \notin {"init", "free"},
         pc'[p] \notin {"init", "free"}, dtype' = dtype, NEW j, j \in Inodes => ~Unowned(j),
         \A k \in Inodes: Holds(p, k)' => Holds(p, k) \/ k = j
  PROVE  OwnedInv'
<1>1. \A i: Unowned(i)' <=> Unowned(i)
  BY UnownedSame
<1>2. \A k \in Inodes: Holds(p, k)' => ~Unowned(k)'
  BY <1>1 DEF OwnedInv
<1>3. QED BY <1>1, <1>2, OwnedStep

\* A step that leaves the disk alone and gets j.
LEMMA QuietTree ==
  ASSUME Inv, TInv, NEW p \in Procs, Others(p), pc[p] \notin {"init", "free"},
         pc'[p] \notin {"init", "free"}, NEW i, NEW j, Reads(i, j), j \in Inodes => ~Unowned(j),
         dirent' = dirent, panic' = panic, stray' = stray, overlap' = overlap,
         \A k \in Inodes: /\ Holds(p, k)' => Holds(p, k) \/ k = j
                          /\ Pends(p, k)' <=> Pends(p, k)
                          /\ Keeps(p, k) => Keeps(p, k)',
         NameOf(p)', EmptyOf(p)'
  PROVE  TInv'
<1>1. dtype' = dtype /\ dnlink' = dnlink
  BY DEF Reads
<1>2. OwnedInv'
  BY <1>1, CalmOwned DEF TInv
<1>3. \A k \in Inodes: ref[k] > 0 /\ valid[k] => valid'[k]
  BY DEF Reads
<1>4. pc[p] # "init" /\ pc'[p] # "init"
  OBVIOUS
<1>5. \A k \in Inodes: Pends(p, k)' <=> Pends(p, k)
  OBVIOUS
<1>6. \A k \in Inodes: Keeps(p, k) => \E q \in Procs: Keeps(q, k)'
  OBVIOUS
<1>7. QED BY <1>1, <1>2, <1>3, <1>4, <1>5, <1>6, CalmTree

LEMMA SyscallTree ==
  ASSUME Inv, TInv, NEW p \in Procs, NEW c \in Calls, Syscall(p, c)
  PROVE  TInv'
<1>1. /\ pc[p] = "user" /\ PlaceOf(p)
      /\ Start(p, c.path) \in Inodes
      /\ c.op \in Ops /\ (c.op = "link" => c.new # <<>>)
      /\ Local(p, "namex", "user", None, Start(p, c.path), None) /\ Others(p)
      /\ Reads(None, Start(p, c.path))
      /\ call'[p].op = c.op /\ call'[p].new = c.new
      /\ UNCHANGED <<cwd, fd, lock, dirent, panic, stray, overlap, lost>>
  BY SyscallEffect
<1>2. Start(p, c.path) \in Inodes => ~Unowned(Start(p, c.path))
  BY StartOwned
<1>3. \A k \in Inodes: /\ Holds(p, k)' => Holds(p, k) \/ k = Start(p, c.path)
                       /\ Pends(p, k)' <=> Pends(p, k)
                       /\ Keeps(p, k) => Keeps(p, k)'
  BY <1>1, NotNone DEF Holds, Pends, Keeps, Local, PlaceOf, Op, Then, Failed, Iputs,
     IpPlaces, InDirPlaces, TgtPlaces, Creates, NoCall
<1>4. NameOf(p)' /\ EmptyOf(p)'
  <2>1. EmptyOf(p) /\ NameOf(p)
    BY DEF TInv, EmptyInv, NameInv
  <2>2. dtype' = dtype
    BY <1>1 DEF Reads
  <2>3. QED
    BY <1>1, <2>1, <2>2, NotNone DEF NameOf, EmptyOf, Local, PlaceOf, Op, Then, Failed, Iputs,
       IpPlaces, InDirPlaces, TgtPlaces, Creates, NoCall, Name, Path
<1>5. pc[p] \notin {"init", "free"} /\ pc'[p] \notin {"init", "free"}
  BY <1>1 DEF Local
<1>6. UNCHANGED <<dirent, panic, stray, overlap>>
  BY <1>1 DEF hist
<1>7. QED BY <1>1, <1>2, <1>3, <1>4, <1>5, <1>6, QuietTree

LEMMA NamexFailTree ==
  ASSUME Inv, TInv, NEW p \in Procs, NamexFail(p)
  PROVE  TInv'
<1>1. /\ pc[p] = "namex" /\ PlaceOf(p)
      /\ ip[p] \in Inodes /\ ref[ip[p]] > 0 /\ dtype[ip[p]] # "free" /\ Safe(ip[p])
      /\ lock[ip[p]] = None
      /\ Local(p, "put", Failed(p), ip[p], None, tgt[p]) /\ Others(p)
      /\ Reads(ip[p], None)
      /\ UNCHANGED <<cwd, fd, call, lock, dirent, panic, hist>>
  BY NamexFailEffect
<1>2. None \notin Inodes
  BY NotNone
<1>3. \A k \in Inodes: /\ Holds(p, k)' => Holds(p, k) \/ k = None
                       /\ Pends(p, k)' <=> Pends(p, k)
                       /\ Keeps(p, k) => Keeps(p, k)'
  BY <1>1, NotNone DEF Holds, Pends, Keeps, Local, PlaceOf, Op, Then, Failed, Iputs,
     IpPlaces, InDirPlaces, TgtPlaces, Creates, NoCall
<1>4. NameOf(p)' /\ EmptyOf(p)'
  <2>1. EmptyOf(p) /\ NameOf(p)
    BY DEF TInv, EmptyInv, NameInv
  <2>2. dtype' = dtype
    BY <1>1 DEF Reads
  <2>3. QED
    BY <1>1, <2>1, <2>2, NotNone DEF NameOf, EmptyOf, Local, PlaceOf, Op, Then, Failed, Iputs,
       IpPlaces, InDirPlaces, TgtPlaces, Creates, NoCall, Name, Path
<1>5. pc[p] \notin {"init", "free"} /\ pc'[p] \notin {"init", "free"}
  BY <1>1 DEF Local
<1>6. UNCHANGED <<dirent, panic, stray, overlap>>
  BY <1>1 DEF hist
<1>7. QED BY <1>1, <1>2, <1>3, <1>4, <1>5, <1>6, QuietTree

LEMMA NamexStepTree ==
  ASSUME Inv, TInv, NEW p \in Procs, NamexStep(p), ~lost'
  PROVE  TInv'
<1>1. /\ pc[p] = "namex" /\ PlaceOf(p)
      /\ ip[p] \in Inodes /\ ref[ip[p]] > 0 /\ dtype[ip[p]] # "free" /\ Safe(ip[p])
      /\ lock[ip[p]] = None
      /\ dirent[ip[p]][Name(p)] \in Inodes /\ Path(p) # <<>> /\ dtype[ip[p]] = "dir"
      /\ Tail(Path(p)) \in Seq(Entries)
      /\ call'[p].op = Op(p) /\ call'[p].new = call[p].new
      /\ Local(p, "put", "namex", ip[p], dirent[ip[p]][Name(p)], tgt[p]) /\ Others(p)
      /\ Reads(ip[p], dirent[ip[p]][Name(p)])
      /\ lost' = (lost \/ (Name(p) = ".." /\ Unowned(dirent[ip[p]][Name(p)])))
      /\ UNCHANGED <<cwd, fd, lock, dirent, panic, calls, stray, overlap>>
  BY NamexStepEffect
<1>2. dirent[ip[p]][Name(p)] \in Inodes => ~Unowned(dirent[ip[p]][Name(p)])
  <2>1. ~Unowned(ip[p]) /\ ip[p] \in Inodes
    BY <1>1 DEF TInv, OwnedInv, Holds
  <2>2. Name(p) = ".." => ~Unowned(dirent[ip[p]][Name(p)])
    BY <1>1
  <2>3. Name(p) \in Entries /\ dirent[ip[p]][Name(p)] # None
    BY <1>1, NextName, NotNone DEF Inv
  <2>4. QED BY <1>1, <2>1, <2>2, <2>3, EntryOwned
<1>3. \A k \in Inodes: /\ Holds(p, k)' => Holds(p, k) \/ k = dirent[ip[p]][Name(p)]
                       /\ Pends(p, k)' <=> Pends(p, k)
                       /\ Keeps(p, k) => Keeps(p, k)'
  BY <1>1, NotNone DEF Holds, Pends, Keeps, Local, PlaceOf, Op, Then, Failed, Iputs,
     IpPlaces, InDirPlaces, TgtPlaces, Creates, NoCall
<1>4. NameOf(p)' /\ EmptyOf(p)'
  <2>1. EmptyOf(p) /\ NameOf(p)
    BY DEF TInv, EmptyInv, NameInv
  <2>2. dtype' = dtype
    BY <1>1 DEF Reads
  <2>3. QED
    BY <1>1, <2>1, <2>2, NotNone DEF NameOf, EmptyOf, Local, PlaceOf, Op, Then, Failed, Iputs,
       IpPlaces, InDirPlaces, TgtPlaces, Creates, NoCall, Name, Path
<1>5. pc[p] \notin {"init", "free"} /\ pc'[p] \notin {"init", "free"}
  BY <1>1 DEF Local
<1>6. UNCHANGED <<dirent, panic, stray, overlap>>
  BY <1>1 DEF hist
<1>7. QED BY <1>1, <1>2, <1>3, <1>4, <1>5, <1>6, QuietTree

LEMMA NamexParentTree ==
  ASSUME Inv, TInv, NEW p \in Procs, NamexParent(p)
  PROVE  TInv'
<1>1. /\ pc[p] = "namex" /\ PlaceOf(p)
      /\ ip[p] \in Inodes /\ ref[ip[p]] > 0 /\ dtype[ip[p]] # "free" /\ Safe(ip[p])
      /\ lock[ip[p]] = None
      /\ dtype[ip[p]] = "dir"
      /\ Path(p) # <<>> /\ Parent(p)
      /\ \/ Op(p) \in Creates /\ Found(p) = "create" /\ tgt[p] = None
         \/ Op(p) = "unlink" /\ Found(p) = "unlink" /\ tgt[p] = None
         \/ Op(p) = "link" /\ Found(p) = "linknew" /\ tgt[p] # None
      /\ Local(p, Found(p), "user", None, ip[p], tgt[p]) /\ Others(p)
      /\ Reads(ip[p], None)
      /\ UNCHANGED <<cwd, fd, call, lock, dirent, panic, hist>>
  BY NamexParentEffect
<1>2. None \notin Inodes
  BY NotNone
<1>3. \A k \in Inodes: /\ Holds(p, k)' => Holds(p, k) \/ k = None
                       /\ Pends(p, k)' <=> Pends(p, k)
                       /\ Keeps(p, k) => Keeps(p, k)'
  BY <1>1, NotNone DEF Holds, Pends, Keeps, Local, PlaceOf, Op, Then, Failed, Iputs,
     IpPlaces, InDirPlaces, TgtPlaces, Creates, NoCall
<1>4. NameOf(p)' /\ EmptyOf(p)'
  <2>1. EmptyOf(p) /\ NameOf(p)
    BY DEF TInv, EmptyInv, NameInv
  <2>2. dtype' = dtype
    BY <1>1 DEF Reads
  <2>3. QED
    BY <1>1, <2>1, <2>2, NotNone DEF NameOf, EmptyOf, Local, PlaceOf, Op, Then, Failed, Iputs,
       IpPlaces, InDirPlaces, TgtPlaces, Creates, NoCall, Name, Path
<1>5. pc[p] \notin {"init", "free"} /\ pc'[p] \notin {"init", "free"}
  BY <1>1 DEF Local
<1>6. UNCHANGED <<dirent, panic, stray, overlap>>
  BY <1>1 DEF hist
<1>7. QED BY <1>1, <1>2, <1>3, <1>4, <1>5, <1>6, QuietTree

LEMMA NamexFailEndTree ==
  ASSUME Inv, TInv, NEW p \in Procs, NamexEnd(p), Parent(p)
  PROVE  TInv'
<1>1. /\ pc[p] = "namex" /\ PlaceOf(p)
      /\ Local(p, "put", Failed(p), ip[p], None, tgt[p]) /\ Others(p)
      /\ Reads(None, None)
      /\ UNCHANGED <<cwd, fd, call, lock, dirent, panic, hist>>
  BY NamexFailEndEffect
<1>2. None \notin Inodes
  BY NotNone
<1>3. \A k \in Inodes: /\ Holds(p, k)' => Holds(p, k) \/ k = None
                       /\ Pends(p, k)' <=> Pends(p, k)
                       /\ Keeps(p, k) => Keeps(p, k)'
  BY <1>1, NotNone DEF Holds, Pends, Keeps, Local, PlaceOf, Op, Then, Failed, Iputs,
     IpPlaces, InDirPlaces, TgtPlaces, Creates, NoCall
<1>4. NameOf(p)' /\ EmptyOf(p)'
  <2>1. EmptyOf(p) /\ NameOf(p)
    BY DEF TInv, EmptyInv, NameInv
  <2>2. dtype' = dtype
    BY <1>1 DEF Reads
  <2>3. QED
    BY <1>1, <2>1, <2>2, NotNone DEF NameOf, EmptyOf, Local, PlaceOf, Op, Then, Failed, Iputs,
       IpPlaces, InDirPlaces, TgtPlaces, Creates, NoCall, Name, Path
<1>5. pc[p] \notin {"init", "free"} /\ pc'[p] \notin {"init", "free"}
  BY <1>1 DEF Local
<1>6. UNCHANGED <<dirent, panic, stray, overlap>>
  BY <1>1 DEF hist
<1>7. QED BY <1>1, <1>2, <1>3, <1>4, <1>5, <1>6, QuietTree

LEMMA NamexFoundTree ==
  ASSUME Inv, TInv, NEW p \in Procs, NamexEnd(p), ~Parent(p)
  PROVE  TInv'
<1>1. /\ pc[p] = "namex" /\ PlaceOf(p)
      /\ \/ Op(p) \in {"open", "openw"} /\ Found(p) = "open" /\ tgt[p] = None
         \/ Op(p) = "chdir" /\ Found(p) = "chdir" /\ tgt[p] = None
         \/ Op(p) = "link" /\ Found(p) = "linkold" /\ tgt[p] = None
      /\ Local(p, Found(p), "user", None, ip[p], tgt[p]) /\ Others(p)
      /\ Reads(None, None)
      /\ UNCHANGED <<cwd, fd, call, lock, dirent, panic, hist>>
  BY NamexFoundEffect
<1>2. None \notin Inodes
  BY NotNone
<1>3. \A k \in Inodes: /\ Holds(p, k)' => Holds(p, k) \/ k = None
                       /\ Pends(p, k)' <=> Pends(p, k)
                       /\ Keeps(p, k) => Keeps(p, k)'
  BY <1>1, NotNone DEF Holds, Pends, Keeps, Local, PlaceOf, Op, Then, Failed, Iputs,
     IpPlaces, InDirPlaces, TgtPlaces, Creates, NoCall
<1>4. NameOf(p)' /\ EmptyOf(p)'
  <2>1. EmptyOf(p) /\ NameOf(p)
    BY DEF TInv, EmptyInv, NameInv
  <2>2. dtype' = dtype
    BY <1>1 DEF Reads
  <2>3. QED
    BY <1>1, <2>1, <2>2, NotNone DEF NameOf, EmptyOf, Local, PlaceOf, Op, Then, Failed, Iputs,
       IpPlaces, InDirPlaces, TgtPlaces, Creates, NoCall, Name, Path
<1>5. pc[p] \notin {"init", "free"} /\ pc'[p] \notin {"init", "free"}
  BY <1>1 DEF Local
<1>6. UNCHANGED <<dirent, panic, stray, overlap>>
  BY <1>1 DEF hist
<1>7. QED BY <1>1, <1>2, <1>3, <1>4, <1>5, <1>6, QuietTree

LEMMA OpenDoneTree ==
  ASSUME Inv, TInv, NEW p \in Procs, Open(p), pc'[p] = "user"
  PROVE  TInv'
<1>1. /\ pc[p] = "open" /\ PlaceOf(p)
      /\ ip[p] \in Inodes /\ ref[ip[p]] > 0 /\ dtype[ip[p]] # "free" /\ Safe(ip[p])
      /\ lock[ip[p]] = None
      /\ Local(p, "user", "user", None, None, None) /\ Others(p)
      /\ Reads(ip[p], None)
      /\ fd[p] = None /\ fd'[p] = ip[p]
      /\ call'[p] = NoCall
      /\ UNCHANGED <<cwd, lock, dirent, panic, hist>>
  BY OpenDoneEffect
<1>2. None \notin Inodes
  BY NotNone
<1>3. \A k \in Inodes: /\ Holds(p, k)' => Holds(p, k) \/ k = None
                       /\ Pends(p, k)' <=> Pends(p, k)
                       /\ Keeps(p, k) => Keeps(p, k)'
  BY <1>1, NotNone DEF Holds, Pends, Keeps, Local, PlaceOf, Op, Then, Failed, Iputs,
     IpPlaces, InDirPlaces, TgtPlaces, Creates, NoCall
<1>4. NameOf(p)' /\ EmptyOf(p)'
  <2>1. EmptyOf(p) /\ NameOf(p)
    BY DEF TInv, EmptyInv, NameInv
  <2>2. dtype' = dtype
    BY <1>1 DEF Reads
  <2>3. QED
    BY <1>1, <2>1, <2>2, NotNone DEF NameOf, EmptyOf, Local, PlaceOf, Op, Then, Failed, Iputs,
       IpPlaces, InDirPlaces, TgtPlaces, Creates, NoCall, Name, Path
<1>5. pc[p] \notin {"init", "free"} /\ pc'[p] \notin {"init", "free"}
  BY <1>1 DEF Local
<1>6. UNCHANGED <<dirent, panic, stray, overlap>>
  BY <1>1 DEF hist
<1>7. QED BY <1>1, <1>2, <1>3, <1>4, <1>5, <1>6, QuietTree

LEMMA OpenFailTree ==
  ASSUME Inv, TInv, NEW p \in Procs, Open(p), pc'[p] # "user"
  PROVE  TInv'
<1>1. /\ pc[p] = "open" /\ PlaceOf(p)
      /\ ip[p] \in Inodes /\ ref[ip[p]] > 0 /\ dtype[ip[p]] # "free" /\ Safe(ip[p])
      /\ lock[ip[p]] = None
      /\ Local(p, "put", "user", ip[p], None, None) /\ Others(p)
      /\ Reads(ip[p], None)
      /\ UNCHANGED <<cwd, fd, call, lock, dirent, panic, hist>>
  BY OpenFailEffect
<1>2. None \notin Inodes
  BY NotNone
<1>3. \A k \in Inodes: /\ Holds(p, k)' => Holds(p, k) \/ k = None
                       /\ Pends(p, k)' <=> Pends(p, k)
                       /\ Keeps(p, k) => Keeps(p, k)'
  BY <1>1, NotNone DEF Holds, Pends, Keeps, Local, PlaceOf, Op, Then, Failed, Iputs,
     IpPlaces, InDirPlaces, TgtPlaces, Creates, NoCall
<1>4. NameOf(p)' /\ EmptyOf(p)'
  <2>1. EmptyOf(p) /\ NameOf(p)
    BY DEF TInv, EmptyInv, NameInv
  <2>2. dtype' = dtype
    BY <1>1 DEF Reads
  <2>3. QED
    BY <1>1, <2>1, <2>2, NotNone DEF NameOf, EmptyOf, Local, PlaceOf, Op, Then, Failed, Iputs,
       IpPlaces, InDirPlaces, TgtPlaces, Creates, NoCall, Name, Path
<1>5. pc[p] \notin {"init", "free"} /\ pc'[p] \notin {"init", "free"}
  BY <1>1 DEF Local
<1>6. UNCHANGED <<dirent, panic, stray, overlap>>
  BY <1>1 DEF hist
<1>7. QED BY <1>1, <1>2, <1>3, <1>4, <1>5, <1>6, QuietTree

LEMMA CloseTree ==
  ASSUME Inv, TInv, NEW p \in Procs, Close(p)
  PROVE  TInv'
<1>1. /\ pc[p] = "user" /\ PlaceOf(p)
      /\ Local(p, "put", "user", fd[p], None, None) /\ Others(p)
      /\ Reads(None, None)
      /\ fd[p] # None /\ fd'[p] = None
      /\ UNCHANGED <<cwd, call, lock, dirent, panic, hist>>
  BY CloseEffect
<1>2. None \notin Inodes
  BY NotNone
<1>3. \A k \in Inodes: /\ Holds(p, k)' => Holds(p, k) \/ k = None
                       /\ Pends(p, k)' <=> Pends(p, k)
                       /\ Keeps(p, k) => Keeps(p, k)'
  BY <1>1, NotNone DEF Holds, Pends, Keeps, Local, PlaceOf, Op, Then, Failed, Iputs,
     IpPlaces, InDirPlaces, TgtPlaces, Creates, NoCall
<1>4. NameOf(p)' /\ EmptyOf(p)'
  <2>1. EmptyOf(p) /\ NameOf(p)
    BY DEF TInv, EmptyInv, NameInv
  <2>2. dtype' = dtype
    BY <1>1 DEF Reads
  <2>3. QED
    BY <1>1, <2>1, <2>2, NotNone DEF NameOf, EmptyOf, Local, PlaceOf, Op, Then, Failed, Iputs,
       IpPlaces, InDirPlaces, TgtPlaces, Creates, NoCall, Name, Path
<1>5. pc[p] \notin {"init", "free"} /\ pc'[p] \notin {"init", "free"}
  BY <1>1 DEF Local
<1>6. UNCHANGED <<dirent, panic, stray, overlap>>
  BY <1>1 DEF hist
<1>7. QED BY <1>1, <1>2, <1>3, <1>4, <1>5, <1>6, QuietTree

LEMMA ChdirDoneTree ==
  ASSUME Inv, TInv, NEW p \in Procs, Chdir(p), Type(ip[p]) = "dir"
  PROVE  TInv'
<1>1. /\ pc[p] = "chdir" /\ PlaceOf(p)
      /\ ip[p] \in Inodes /\ ref[ip[p]] > 0 /\ dtype[ip[p]] # "free" /\ Safe(ip[p])
      /\ lock[ip[p]] = None
      /\ dtype[ip[p]] = "dir"
      /\ cwd[p] \in Inodes
      /\ Local(p, "put", "user", cwd[p], None, None) /\ Others(p)
      /\ Reads(ip[p], None)
      /\ cwd'[p] = ip[p]
      /\ UNCHANGED <<fd, call, lock, dirent, panic, hist>>
  BY ChdirDoneEffect
<1>2. None \notin Inodes
  BY NotNone
<1>3. \A k \in Inodes: /\ Holds(p, k)' => Holds(p, k) \/ k = None
                       /\ Pends(p, k)' <=> Pends(p, k)
                       /\ Keeps(p, k) => Keeps(p, k)'
  BY <1>1, NotNone DEF Holds, Pends, Keeps, Local, PlaceOf, Op, Then, Failed, Iputs,
     IpPlaces, InDirPlaces, TgtPlaces, Creates, NoCall
<1>4. NameOf(p)' /\ EmptyOf(p)'
  <2>1. EmptyOf(p) /\ NameOf(p)
    BY DEF TInv, EmptyInv, NameInv
  <2>2. dtype' = dtype
    BY <1>1 DEF Reads
  <2>3. QED
    BY <1>1, <2>1, <2>2, NotNone DEF NameOf, EmptyOf, Local, PlaceOf, Op, Then, Failed, Iputs,
       IpPlaces, InDirPlaces, TgtPlaces, Creates, NoCall, Name, Path
<1>5. pc[p] \notin {"init", "free"} /\ pc'[p] \notin {"init", "free"}
  BY <1>1 DEF Local
<1>6. UNCHANGED <<dirent, panic, stray, overlap>>
  BY <1>1 DEF hist
<1>7. QED BY <1>1, <1>2, <1>3, <1>4, <1>5, <1>6, QuietTree

LEMMA ChdirFailTree ==
  ASSUME Inv, TInv, NEW p \in Procs, Chdir(p), Type(ip[p]) # "dir"
  PROVE  TInv'
<1>1. /\ pc[p] = "chdir" /\ PlaceOf(p)
      /\ ip[p] \in Inodes /\ ref[ip[p]] > 0 /\ dtype[ip[p]] # "free" /\ Safe(ip[p])
      /\ lock[ip[p]] = None
      /\ Local(p, "put", "user", ip[p], None, None) /\ Others(p)
      /\ Reads(ip[p], None)
      /\ UNCHANGED <<cwd, fd, call, lock, dirent, panic, hist>>
  BY ChdirFailEffect
<1>2. None \notin Inodes
  BY NotNone
<1>3. \A k \in Inodes: /\ Holds(p, k)' => Holds(p, k) \/ k = None
                       /\ Pends(p, k)' <=> Pends(p, k)
                       /\ Keeps(p, k) => Keeps(p, k)'
  BY <1>1, NotNone DEF Holds, Pends, Keeps, Local, PlaceOf, Op, Then, Failed, Iputs,
     IpPlaces, InDirPlaces, TgtPlaces, Creates, NoCall
<1>4. NameOf(p)' /\ EmptyOf(p)'
  <2>1. EmptyOf(p) /\ NameOf(p)
    BY DEF TInv, EmptyInv, NameInv
  <2>2. dtype' = dtype
    BY <1>1 DEF Reads
  <2>3. QED
    BY <1>1, <2>1, <2>2, NotNone DEF NameOf, EmptyOf, Local, PlaceOf, Op, Then, Failed, Iputs,
       IpPlaces, InDirPlaces, TgtPlaces, Creates, NoCall, Name, Path
<1>5. pc[p] \notin {"init", "free"} /\ pc'[p] \notin {"init", "free"}
  BY <1>1 DEF Local
<1>6. UNCHANGED <<dirent, panic, stray, overlap>>
  BY <1>1 DEF hist
<1>7. QED BY <1>1, <1>2, <1>3, <1>4, <1>5, <1>6, QuietTree

LEMMA LinkOldDirTree ==
  ASSUME Inv, TInv, NEW p \in Procs, LinkOld(p), Type(ip[p]) = "dir"
  PROVE  TInv'
<1>1. /\ pc[p] = "linkold" /\ PlaceOf(p)
      /\ ip[p] \in Inodes /\ ref[ip[p]] > 0 /\ dtype[ip[p]] # "free" /\ Safe(ip[p])
      /\ lock[ip[p]] = None
      /\ Local(p, "put", "user", ip[p], None, None) /\ Others(p)
      /\ Reads(ip[p], None)
      /\ UNCHANGED <<cwd, fd, call, lock, dirent, panic, hist>>
  BY LinkOldDirEffect
<1>2. None \notin Inodes
  BY NotNone
<1>3. \A k \in Inodes: /\ Holds(p, k)' => Holds(p, k) \/ k = None
                       /\ Pends(p, k)' <=> Pends(p, k)
                       /\ Keeps(p, k) => Keeps(p, k)'
  BY <1>1, NotNone DEF Holds, Pends, Keeps, Local, PlaceOf, Op, Then, Failed, Iputs,
     IpPlaces, InDirPlaces, TgtPlaces, Creates, NoCall
<1>4. NameOf(p)' /\ EmptyOf(p)'
  <2>1. EmptyOf(p) /\ NameOf(p)
    BY DEF TInv, EmptyInv, NameInv
  <2>2. dtype' = dtype
    BY <1>1 DEF Reads
  <2>3. QED
    BY <1>1, <2>1, <2>2, NotNone DEF NameOf, EmptyOf, Local, PlaceOf, Op, Then, Failed, Iputs,
       IpPlaces, InDirPlaces, TgtPlaces, Creates, NoCall, Name, Path
<1>5. pc[p] \notin {"init", "free"} /\ pc'[p] \notin {"init", "free"}
  BY <1>1 DEF Local
<1>6. UNCHANGED <<dirent, panic, stray, overlap>>
  BY <1>1 DEF hist
<1>7. QED BY <1>1, <1>2, <1>3, <1>4, <1>5, <1>6, QuietTree

LEMMA LinkPutTree ==
  ASSUME Inv, TInv, NEW p \in Procs, LinkPut(p)
  PROVE  TInv'
<1>1. /\ pc[p] = "linkput" /\ PlaceOf(p)
      /\ Local(p, "put", "user", tgt[p], ip[p], None) /\ Others(p)
      /\ Reads(None, None)
      /\ UNCHANGED <<cwd, fd, call, lock, dirent, panic, hist>>
  BY LinkPutEffect
<1>2. None \notin Inodes
  BY NotNone
<1>3. \A k \in Inodes: /\ Holds(p, k)' => Holds(p, k) \/ k = None
                       /\ Pends(p, k)' <=> Pends(p, k)
                       /\ Keeps(p, k) => Keeps(p, k)'
  BY <1>1, NotNone DEF Holds, Pends, Keeps, Local, PlaceOf, Op, Then, Failed, Iputs,
     IpPlaces, InDirPlaces, TgtPlaces, Creates, NoCall
<1>4. NameOf(p)' /\ EmptyOf(p)'
  <2>1. EmptyOf(p) /\ NameOf(p)
    BY DEF TInv, EmptyInv, NameInv
  <2>2. dtype' = dtype
    BY <1>1 DEF Reads
  <2>3. QED
    BY <1>1, <2>1, <2>2, NotNone DEF NameOf, EmptyOf, Local, PlaceOf, Op, Then, Failed, Iputs,
       IpPlaces, InDirPlaces, TgtPlaces, Creates, NoCall, Name, Path
<1>5. pc[p] \notin {"init", "free"} /\ pc'[p] \notin {"init", "free"}
  BY <1>1 DEF Local
<1>6. UNCHANGED <<dirent, panic, stray, overlap>>
  BY <1>1 DEF hist
<1>7. QED BY <1>1, <1>2, <1>3, <1>4, <1>5, <1>6, QuietTree

LEMMA LinkExistsTree ==
  ASSUME Inv, TInv, NEW p \in Procs, LinkExists(p), ~lost'
  PROVE  TInv'
<1>1. /\ pc[p] = "linknew" /\ PlaceOf(p)
      /\ ip[p] \in Inodes /\ ref[ip[p]] > 0 /\ dtype[ip[p]] # "free" /\ Safe(ip[p])
      /\ lock[ip[p]] = None
      /\ dtype[ip[p]] = "dir"
      /\ Path(p) # <<>>
      /\ dirent[ip[p]][Name(p)] \in Inodes /\ Name(p) \in Entries
      /\ Local(p, "put", "unlockdp", dirent[ip[p]][Name(p)], ip[p], tgt[p]) /\ Others(p)
      /\ Reads(ip[p], dirent[ip[p]][Name(p)])
      /\ \A k \in Inodes: lock'[k] = IF k = ip[p] THEN p ELSE lock[k]
      /\ lost' = (lost \/ (Name(p) = ".." /\ Unowned(dirent[ip[p]][Name(p)])))
      /\ UNCHANGED <<cwd, fd, call, dirent, panic, calls, stray, overlap>>
  BY LinkExistsEffect
<1>2. dirent[ip[p]][Name(p)] \in Inodes => ~Unowned(dirent[ip[p]][Name(p)])
  <2>1. ~Unowned(ip[p]) /\ ip[p] \in Inodes
    BY <1>1 DEF TInv, OwnedInv, Holds
  <2>2. Name(p) = ".." => ~Unowned(dirent[ip[p]][Name(p)])
    BY <1>1
  <2>3. Name(p) \in Entries /\ dirent[ip[p]][Name(p)] # None
    BY <1>1, NotNone
  <2>4. QED BY <1>1, <2>1, <2>2, <2>3, EntryOwned
<1>3. \A k \in Inodes: /\ Holds(p, k)' => Holds(p, k) \/ k = dirent[ip[p]][Name(p)]
                       /\ Pends(p, k)' <=> Pends(p, k)
                       /\ Keeps(p, k) => Keeps(p, k)'
  BY <1>1, NotNone DEF Holds, Pends, Keeps, Local, PlaceOf, Op, Then, Failed, Iputs,
     IpPlaces, InDirPlaces, TgtPlaces, Creates, NoCall
<1>4. NameOf(p)' /\ EmptyOf(p)'
  <2>1. EmptyOf(p) /\ NameOf(p)
    BY DEF TInv, EmptyInv, NameInv
  <2>2. dtype' = dtype
    BY <1>1 DEF Reads
  <2>3. QED
    BY <1>1, <2>1, <2>2, NotNone DEF NameOf, EmptyOf, Local, PlaceOf, Op, Then, Failed, Iputs,
       IpPlaces, InDirPlaces, TgtPlaces, Creates, NoCall, Name, Path
<1>5. pc[p] \notin {"init", "free"} /\ pc'[p] \notin {"init", "free"}
  BY <1>1 DEF Local
<1>6. UNCHANGED <<dirent, panic, stray, overlap>>
  BY <1>1 DEF hist
<1>7. QED BY <1>1, <1>2, <1>3, <1>4, <1>5, <1>6, QuietTree

LEMMA UnlockDpTree ==
  ASSUME Inv, TInv, NEW p \in Procs, UnlockDp(p)
  PROVE  TInv'
<1>1. /\ pc[p] = "unlockdp" /\ PlaceOf(p)
      /\ ip[p] \in Inodes
      /\ Local(p, "put", Failed(p), ip[p], None, tgt[p]) /\ Others(p)
      /\ Reads(None, None)
      /\ \A k \in Inodes: lock'[k] = IF k = ip[p] THEN None ELSE lock[k]
      /\ UNCHANGED <<cwd, fd, call, dirent, panic, hist>>
  BY UnlockDpEffect
<1>2. None \notin Inodes
  BY NotNone
<1>3. \A k \in Inodes: /\ Holds(p, k)' => Holds(p, k) \/ k = None
                       /\ Pends(p, k)' <=> Pends(p, k)
                       /\ Keeps(p, k) => Keeps(p, k)'
  BY <1>1, NotNone DEF Holds, Pends, Keeps, Local, PlaceOf, Op, Then, Failed, Iputs,
     IpPlaces, InDirPlaces, TgtPlaces, Creates, NoCall
<1>4. NameOf(p)' /\ EmptyOf(p)'
  <2>1. EmptyOf(p) /\ NameOf(p)
    BY DEF TInv, EmptyInv, NameInv
  <2>2. dtype' = dtype
    BY <1>1 DEF Reads
  <2>3. QED
    BY <1>1, <2>1, <2>2, NotNone DEF NameOf, EmptyOf, Local, PlaceOf, Op, Then, Failed, Iputs,
       IpPlaces, InDirPlaces, TgtPlaces, Creates, NoCall, Name, Path
<1>5. pc[p] \notin {"init", "free"} /\ pc'[p] \notin {"init", "free"}
  BY <1>1 DEF Local
<1>6. UNCHANGED <<dirent, panic, stray, overlap>>
  BY <1>1 DEF hist
<1>7. QED BY <1>1, <1>2, <1>3, <1>4, <1>5, <1>6, QuietTree

LEMMA CreateExistsTree ==
  ASSUME Inv, TInv, NEW p \in Procs, CreateExists(p), ~lost'
  PROVE  TInv'
<1>1. /\ pc[p] = "create" /\ PlaceOf(p)
      /\ ip[p] \in Inodes /\ ref[ip[p]] > 0 /\ dtype[ip[p]] # "free" /\ Safe(ip[p])
      /\ lock[ip[p]] = None
      /\ dtype[ip[p]] = "dir"
      /\ Path(p) # <<>>
      /\ dirent[ip[p]][Name(p)] \in Inodes /\ Name(p) \in Entries
      /\ Local(p, "put", "exists", ip[p], None, dirent[ip[p]][Name(p)]) /\ Others(p)
      /\ Reads(ip[p], dirent[ip[p]][Name(p)])
      /\ lost' = (lost \/ (Name(p) = ".." /\ Unowned(dirent[ip[p]][Name(p)])))
      /\ UNCHANGED <<cwd, fd, call, lock, dirent, panic, calls, stray, overlap>>
  BY CreateExistsEffect
<1>2. dirent[ip[p]][Name(p)] \in Inodes => ~Unowned(dirent[ip[p]][Name(p)])
  <2>1. ~Unowned(ip[p]) /\ ip[p] \in Inodes
    BY <1>1 DEF TInv, OwnedInv, Holds
  <2>2. Name(p) = ".." => ~Unowned(dirent[ip[p]][Name(p)])
    BY <1>1
  <2>3. Name(p) \in Entries /\ dirent[ip[p]][Name(p)] # None
    BY <1>1, NotNone
  <2>4. QED BY <1>1, <2>1, <2>2, <2>3, EntryOwned
<1>3. \A k \in Inodes: /\ Holds(p, k)' => Holds(p, k) \/ k = dirent[ip[p]][Name(p)]
                       /\ Pends(p, k)' <=> Pends(p, k)
                       /\ Keeps(p, k) => Keeps(p, k)'
  BY <1>1, NotNone DEF Holds, Pends, Keeps, Local, PlaceOf, Op, Then, Failed, Iputs,
     IpPlaces, InDirPlaces, TgtPlaces, Creates, NoCall
<1>4. NameOf(p)' /\ EmptyOf(p)'
  <2>1. EmptyOf(p) /\ NameOf(p)
    BY DEF TInv, EmptyInv, NameInv
  <2>2. dtype' = dtype
    BY <1>1 DEF Reads
  <2>3. QED
    BY <1>1, <2>1, <2>2, NotNone DEF NameOf, EmptyOf, Local, PlaceOf, Op, Then, Failed, Iputs,
       IpPlaces, InDirPlaces, TgtPlaces, Creates, NoCall, Name, Path
<1>5. pc[p] \notin {"init", "free"} /\ pc'[p] \notin {"init", "free"}
  BY <1>1 DEF Local
<1>6. UNCHANGED <<dirent, panic, stray, overlap>>
  BY <1>1 DEF hist
<1>7. QED BY <1>1, <1>2, <1>3, <1>4, <1>5, <1>6, QuietTree

LEMMA ExistsDoneTree ==
  ASSUME Inv, TInv, NEW p \in Procs, Exists(p), pc'[p] = "user"
  PROVE  TInv'
<1>1. /\ pc[p] = "exists" /\ PlaceOf(p)
      /\ tgt[p] \in Inodes /\ ref[tgt[p]] > 0 /\ dtype[tgt[p]] # "free" /\ Safe(tgt[p])
      /\ lock[tgt[p]] = None
      /\ Local(p, "user", "user", None, None, None) /\ Others(p)
      /\ Reads(tgt[p], None)
      /\ fd[p] = None /\ fd'[p] = tgt[p]
      /\ call'[p] = NoCall
      /\ UNCHANGED <<cwd, lock, dirent, panic, hist>>
  BY ExistsDoneEffect
<1>2. None \notin Inodes
  BY NotNone
<1>3. \A k \in Inodes: /\ Holds(p, k)' => Holds(p, k) \/ k = None
                       /\ Pends(p, k)' <=> Pends(p, k)
                       /\ Keeps(p, k) => Keeps(p, k)'
  BY <1>1, NotNone DEF Holds, Pends, Keeps, Local, PlaceOf, Op, Then, Failed, Iputs,
     IpPlaces, InDirPlaces, TgtPlaces, Creates, NoCall
<1>4. NameOf(p)' /\ EmptyOf(p)'
  <2>1. EmptyOf(p) /\ NameOf(p)
    BY DEF TInv, EmptyInv, NameInv
  <2>2. dtype' = dtype
    BY <1>1 DEF Reads
  <2>3. QED
    BY <1>1, <2>1, <2>2, NotNone DEF NameOf, EmptyOf, Local, PlaceOf, Op, Then, Failed, Iputs,
       IpPlaces, InDirPlaces, TgtPlaces, Creates, NoCall, Name, Path
<1>5. pc[p] \notin {"init", "free"} /\ pc'[p] \notin {"init", "free"}
  BY <1>1 DEF Local
<1>6. UNCHANGED <<dirent, panic, stray, overlap>>
  BY <1>1 DEF hist
<1>7. QED BY <1>1, <1>2, <1>3, <1>4, <1>5, <1>6, QuietTree

LEMMA ExistsFailTree ==
  ASSUME Inv, TInv, NEW p \in Procs, Exists(p), pc'[p] # "user"
  PROVE  TInv'
<1>1. /\ pc[p] = "exists" /\ PlaceOf(p)
      /\ tgt[p] \in Inodes /\ ref[tgt[p]] > 0 /\ dtype[tgt[p]] # "free" /\ Safe(tgt[p])
      /\ lock[tgt[p]] = None
      /\ Local(p, "put", "user", tgt[p], None, None) /\ Others(p)
      /\ Reads(tgt[p], None)
      /\ UNCHANGED <<cwd, fd, call, lock, dirent, panic, hist>>
  BY ExistsFailEffect
<1>2. None \notin Inodes
  BY NotNone
<1>3. \A k \in Inodes: /\ Holds(p, k)' => Holds(p, k) \/ k = None
                       /\ Pends(p, k)' <=> Pends(p, k)
                       /\ Keeps(p, k) => Keeps(p, k)'
  BY <1>1, NotNone DEF Holds, Pends, Keeps, Local, PlaceOf, Op, Then, Failed, Iputs,
     IpPlaces, InDirPlaces, TgtPlaces, Creates, NoCall
<1>4. NameOf(p)' /\ EmptyOf(p)'
  <2>1. EmptyOf(p) /\ NameOf(p)
    BY DEF TInv, EmptyInv, NameInv
  <2>2. dtype' = dtype
    BY <1>1 DEF Reads
  <2>3. QED
    BY <1>1, <2>1, <2>2, NotNone DEF NameOf, EmptyOf, Local, PlaceOf, Op, Then, Failed, Iputs,
       IpPlaces, InDirPlaces, TgtPlaces, Creates, NoCall, Name, Path
<1>5. pc[p] \notin {"init", "free"} /\ pc'[p] \notin {"init", "free"}
  BY <1>1 DEF Local
<1>6. UNCHANGED <<dirent, panic, stray, overlap>>
  BY <1>1 DEF hist
<1>7. QED BY <1>1, <1>2, <1>3, <1>4, <1>5, <1>6, QuietTree

LEMMA CreatedDoneTree ==
  ASSUME Inv, TInv, NEW p \in Procs, Created(p), pc'[p] = "user"
  PROVE  TInv'
<1>1. /\ pc[p] = "created" /\ PlaceOf(p)
      /\ tgt[p] \in Inodes
      /\ Local(p, "user", "user", None, None, None) /\ Others(p)
      /\ Reads(None, None)
      /\ fd[p] = None /\ fd'[p] = tgt[p]
      /\ call'[p] = NoCall
      /\ \A k \in Inodes: lock'[k] = IF k = tgt[p] THEN None ELSE lock[k]
      /\ UNCHANGED <<cwd, dirent, panic, hist>>
  BY CreatedDoneEffect
<1>2. None \notin Inodes
  BY NotNone
<1>3. \A k \in Inodes: /\ Holds(p, k)' => Holds(p, k) \/ k = None
                       /\ Pends(p, k)' <=> Pends(p, k)
                       /\ Keeps(p, k) => Keeps(p, k)'
  BY <1>1, NotNone DEF Holds, Pends, Keeps, Local, PlaceOf, Op, Then, Failed, Iputs,
     IpPlaces, InDirPlaces, TgtPlaces, Creates, NoCall
<1>4. NameOf(p)' /\ EmptyOf(p)'
  <2>1. EmptyOf(p) /\ NameOf(p)
    BY DEF TInv, EmptyInv, NameInv
  <2>2. dtype' = dtype
    BY <1>1 DEF Reads
  <2>3. QED
    BY <1>1, <2>1, <2>2, NotNone DEF NameOf, EmptyOf, Local, PlaceOf, Op, Then, Failed, Iputs,
       IpPlaces, InDirPlaces, TgtPlaces, Creates, NoCall, Name, Path
<1>5. pc[p] \notin {"init", "free"} /\ pc'[p] \notin {"init", "free"}
  BY <1>1 DEF Local
<1>6. UNCHANGED <<dirent, panic, stray, overlap>>
  BY <1>1 DEF hist
<1>7. QED BY <1>1, <1>2, <1>3, <1>4, <1>5, <1>6, QuietTree

LEMMA CreatedFailTree ==
  ASSUME Inv, TInv, NEW p \in Procs, Created(p), pc'[p] # "user"
  PROVE  TInv'
<1>1. /\ pc[p] = "created" /\ PlaceOf(p)
      /\ tgt[p] \in Inodes
      /\ Local(p, "put", "user", tgt[p], None, None) /\ Others(p)
      /\ Reads(None, None)
      /\ \A k \in Inodes: lock'[k] = IF k = tgt[p] THEN None ELSE lock[k]
      /\ UNCHANGED <<cwd, fd, call, dirent, panic, hist>>
  BY CreatedFailEffect
<1>2. None \notin Inodes
  BY NotNone
<1>3. \A k \in Inodes: /\ Holds(p, k)' => Holds(p, k) \/ k = None
                       /\ Pends(p, k)' <=> Pends(p, k)
                       /\ Keeps(p, k) => Keeps(p, k)'
  BY <1>1, NotNone DEF Holds, Pends, Keeps, Local, PlaceOf, Op, Then, Failed, Iputs,
     IpPlaces, InDirPlaces, TgtPlaces, Creates, NoCall
<1>4. NameOf(p)' /\ EmptyOf(p)'
  <2>1. EmptyOf(p) /\ NameOf(p)
    BY DEF TInv, EmptyInv, NameInv
  <2>2. dtype' = dtype
    BY <1>1 DEF Reads
  <2>3. QED
    BY <1>1, <2>1, <2>2, NotNone DEF NameOf, EmptyOf, Local, PlaceOf, Op, Then, Failed, Iputs,
       IpPlaces, InDirPlaces, TgtPlaces, Creates, NoCall, Name, Path
<1>5. pc[p] \notin {"init", "free"} /\ pc'[p] \notin {"init", "free"}
  BY <1>1 DEF Local
<1>6. UNCHANGED <<dirent, panic, stray, overlap>>
  BY <1>1 DEF hist
<1>7. QED BY <1>1, <1>2, <1>3, <1>4, <1>5, <1>6, QuietTree

LEMMA UnlinkNoneTree ==
  ASSUME Inv, TInv, NEW p \in Procs, UnlinkNone(p)
  PROVE  TInv'
<1>1. /\ pc[p] = "unlink" /\ PlaceOf(p)
      /\ ip[p] \in Inodes /\ ref[ip[p]] > 0 /\ dtype[ip[p]] # "free" /\ Safe(ip[p])
      /\ lock[ip[p]] = None
      /\ Local(p, "put", "user", ip[p], None, None) /\ Others(p)
      /\ Reads(ip[p], None)
      /\ UNCHANGED <<cwd, fd, call, lock, dirent, panic, hist>>
  BY UnlinkNoneEffect
<1>2. None \notin Inodes
  BY NotNone
<1>3. \A k \in Inodes: /\ Holds(p, k)' => Holds(p, k) \/ k = None
                       /\ Pends(p, k)' <=> Pends(p, k)
                       /\ Keeps(p, k) => Keeps(p, k)'
  BY <1>1, NotNone DEF Holds, Pends, Keeps, Local, PlaceOf, Op, Then, Failed, Iputs,
     IpPlaces, InDirPlaces, TgtPlaces, Creates, NoCall
<1>4. NameOf(p)' /\ EmptyOf(p)'
  <2>1. EmptyOf(p) /\ NameOf(p)
    BY DEF TInv, EmptyInv, NameInv
  <2>2. dtype' = dtype
    BY <1>1 DEF Reads
  <2>3. QED
    BY <1>1, <2>1, <2>2, NotNone DEF NameOf, EmptyOf, Local, PlaceOf, Op, Then, Failed, Iputs,
       IpPlaces, InDirPlaces, TgtPlaces, Creates, NoCall, Name, Path
<1>5. pc[p] \notin {"init", "free"} /\ pc'[p] \notin {"init", "free"}
  BY <1>1 DEF Local
<1>6. UNCHANGED <<dirent, panic, stray, overlap>>
  BY <1>1 DEF hist
<1>7. QED BY <1>1, <1>2, <1>3, <1>4, <1>5, <1>6, QuietTree

LEMMA UnlinkFoundTree ==
  ASSUME Inv, TInv, NEW p \in Procs, UnlinkFound(p)
  PROVE  TInv'
<1>1. /\ pc[p] = "unlink" /\ PlaceOf(p)
      /\ ip[p] \in Inodes /\ ref[ip[p]] > 0 /\ dtype[ip[p]] # "free" /\ Safe(ip[p])
      /\ lock[ip[p]] = None
      /\ dtype[ip[p]] = "dir"
      /\ Path(p) # <<>>
      /\ dirent[ip[p]][Name(p)] \in Inodes /\ Name(p) \in Entries
      /\ Name(p) \in Names
      /\ Local(p, "victim", "user", None, ip[p], dirent[ip[p]][Name(p)]) /\ Others(p)
      /\ Reads(ip[p], dirent[ip[p]][Name(p)])
      /\ \A k \in Inodes: lock'[k] = IF k = ip[p] THEN p ELSE lock[k]
      /\ UNCHANGED <<cwd, fd, call, dirent, panic, hist>>
  BY UnlinkFoundEffect
<1>2. dirent[ip[p]][Name(p)] \in Inodes => ~Unowned(dirent[ip[p]][Name(p)])
  BY <1>1, NamedLinked
<1>3. \A k \in Inodes: /\ Holds(p, k)' => Holds(p, k) \/ k = dirent[ip[p]][Name(p)]
                       /\ Pends(p, k)' <=> Pends(p, k)
                       /\ Keeps(p, k) => Keeps(p, k)'
  BY <1>1, NotNone DEF Holds, Pends, Keeps, Local, PlaceOf, Op, Then, Failed, Iputs,
     IpPlaces, InDirPlaces, TgtPlaces, Creates, NoCall
<1>4. NameOf(p)' /\ EmptyOf(p)'
  <2>1. EmptyOf(p) /\ NameOf(p)
    BY DEF TInv, EmptyInv, NameInv
  <2>2. dtype' = dtype
    BY <1>1 DEF Reads
  <2>3. QED
    BY <1>1, <2>1, <2>2, NotNone DEF NameOf, EmptyOf, Local, PlaceOf, Op, Then, Failed, Iputs,
       IpPlaces, InDirPlaces, TgtPlaces, Creates, NoCall, Name, Path
<1>5. pc[p] \notin {"init", "free"} /\ pc'[p] \notin {"init", "free"}
  BY <1>1 DEF Local
<1>6. UNCHANGED <<dirent, panic, stray, overlap>>
  BY <1>1 DEF hist
<1>7. QED BY <1>1, <1>2, <1>3, <1>4, <1>5, <1>6, QuietTree

LEMMA UnlinkBusyTree ==
  ASSUME Inv, TInv, NEW p \in Procs, UnlinkBusy(p)
  PROVE  TInv'
<1>1. /\ pc[p] = "victim" /\ PlaceOf(p)
      /\ tgt[p] \in Inodes /\ ref[tgt[p]] > 0 /\ dtype[tgt[p]] # "free" /\ Safe(tgt[p])
      /\ lock[tgt[p]] = None
      /\ Local(p, "put", "unlockdp", tgt[p], ip[p], None) /\ Others(p)
      /\ Reads(tgt[p], None)
      /\ UNCHANGED <<cwd, fd, call, lock, dirent, panic, hist>>
  BY UnlinkBusyEffect
<1>2. None \notin Inodes
  BY NotNone
<1>3. \A k \in Inodes: /\ Holds(p, k)' => Holds(p, k) \/ k = None
                       /\ Pends(p, k)' <=> Pends(p, k)
                       /\ Keeps(p, k) => Keeps(p, k)'
  BY <1>1, NotNone DEF Holds, Pends, Keeps, Local, PlaceOf, Op, Then, Failed, Iputs,
     IpPlaces, InDirPlaces, TgtPlaces, Creates, NoCall
<1>4. NameOf(p)' /\ EmptyOf(p)'
  <2>1. EmptyOf(p) /\ NameOf(p)
    BY DEF TInv, EmptyInv, NameInv
  <2>2. dtype' = dtype
    BY <1>1 DEF Reads
  <2>3. QED
    BY <1>1, <2>1, <2>2, NotNone DEF NameOf, EmptyOf, Local, PlaceOf, Op, Then, Failed, Iputs,
       IpPlaces, InDirPlaces, TgtPlaces, Creates, NoCall, Name, Path
<1>5. pc[p] \notin {"init", "free"} /\ pc'[p] \notin {"init", "free"}
  BY <1>1 DEF Local
<1>6. UNCHANGED <<dirent, panic, stray, overlap>>
  BY <1>1 DEF hist
<1>7. QED BY <1>1, <1>2, <1>3, <1>4, <1>5, <1>6, QuietTree

-----------------------------------------------------------------------------
(* iput().                                                                 *)

\* When the reference of iput() is not the last one, somebody has another.
LEMMA OtherUse ==
  ASSUME RefsCounted, NEW p \in Procs, NEW i \in Inodes, put[p] = i, ref[i] > 1
  PROVE  \E q \in Procs: \/ cwd[q] = i \/ fd[q] = i \/ ip[q] = i \/ tgt[q] = i
                         \/ q # p /\ put[q] = i
<1>1. SUFFICES ASSUME \A q \in Procs: /\ cwd[q] # i /\ fd[q] # i /\ ip[q] # i /\ tgt[q] # i
                                      /\ q # p => put[q] # i
               PROVE  FALSE
  OBVIOUS
<1>2. /\ {q \in Procs : cwd[q] = i} = {} /\ {q \in Procs : fd[q] = i} = {}
      /\ {q \in Procs : ip[q] = i} = {} /\ {q \in Procs : tgt[q] = i} = {}
      /\ {q \in Procs : put[q] = i} = {p}
  BY <1>1
<1>3. Cardinality({}) = 0 /\ Cardinality({p}) = 1
  BY FS_EmptySet, FS_Singleton
<1>4. /\ Cardinality({q \in Procs : cwd[q] = i}) = 0 /\ Cardinality({q \in Procs : fd[q] = i}) = 0
      /\ Cardinality({q \in Procs : ip[q] = i}) = 0 /\ Cardinality({q \in Procs : tgt[q] = i}) = 0
      /\ Cardinality({q \in Procs : put[q] = i}) = 1
  BY <1>2, <1>3, Zenon
<1>5. ref[i] = 1
  BY <1>4 DEF RefsCounted
<1>6. QED BY <1>5

LEMMA PutWaitTree ==
  ASSUME Inv, TInv, NEW p \in Procs, PutTest(p), ~Last(put[p])
  PROVE  TInv'
<1>1. /\ pc[p] = "put" /\ PlaceOf(p)
      /\ Local(p, "dec", ret[p], put[p], ip[p], tgt[p]) /\ Others(p)
      /\ Reads(None, None)
      /\ overlap' = (overlap \/ (/\ valid[put[p]] /\ nlink[put[p]] = 0 /\ ref[put[p]] > 1
                                 /\ \E q \in Procs: pc[q] = "dec" /\ put[q] = put[p]))
      /\ UNCHANGED <<cwd, fd, call, lock, dirent, panic, calls, stray, lost>>
  BY PutWaitEffect
<1>2. put[p] \in Inodes /\ ref[put[p]] > 0
  BY <1>1, Referenced DEF PlaceOf, Iputs, Inv, TypeOK, InodeOrNone
<1>3. OwnedInv'
  <2>1. \A k \in Inodes: Holds(p, k)' => Holds(p, k) \/ k = None
    BY <1>1 DEF Holds, Local
  <2>2. pc[p] \notin {"init", "free"} /\ pc'[p] \notin {"init", "free"} /\ dtype' = dtype
    BY <1>1 DEF Local, Reads
  <2>3. OwnedInv /\ (None \in Inodes => ~Unowned(None))
    BY NotNone DEF TInv
  <2>4. QED BY <1>1, <2>1, <2>2, <2>3, CalmOwned
<1>4. \A k \in Inodes: /\ Pends(p, k)' <=> Pends(p, k)
                       /\ Keeps(p, k) => Keeps(p, k)' \/ k = put[p]
                       /\ ref[k] > 0 /\ valid[k] => valid'[k]
  BY <1>1, NotNone DEF Pends, Keeps, Local, Reads, Op, PlaceOf, Iputs, Returns
<1>5. ASSUME ~overlap', NEW k \in Inodes, k = put[p], dtype[k] # "free", dnlink[k] = 0
      PROVE  \E q \in Procs: Keeps(q, k)'
  <2>1. Holds(p, put[p])
    BY <1>1 DEF Holds
  <2>2. ~AtInit(put[p])
    BY <1>2, <2>1 DEF TInv, OwnedInv, Unowned, AtInit
  <2>3. valid[put[p]]
    BY <1>1, <1>2, <1>5, <2>2 DEF TInv, LeakInv
  <2>4. nlink[put[p]] = 0
    BY <1>2, <1>5, <2>3 DEF Inv, EntryInv, EntryOf
  <2>5. ref[put[p]] > 1
    BY <1>2, <2>3, <2>4 DEF Last, Inv, TypeOK
  <2>6. PICK q \in Procs: \/ cwd[q] = put[p] \/ fd[q] = put[p] \/ ip[q] = put[p] \/ tgt[q] = put[p]
                          \/ q # p /\ put[q] = put[p]
    BY <1>2, <2>5, OtherUse DEF Inv
  <2>7. CASE cwd[q] = put[p] \/ fd[q] = put[p] \/ ip[q] = put[p] \/ tgt[q] = put[p]
    BY <1>1, <1>5, <2>7 DEF Keeps, Others, Local
  <2>8. CASE q # p /\ put[q] = put[p]
    <3>1. pc[q] \in {"put", "free"}
      <4>1. pc[q] # "dec"
        BY <1>1, <1>5, <2>3, <2>4, <2>5, <2>8
      <4>2. pc[q] \in Iputs
        BY <1>2, <2>8, NotNone DEF Inv, PlaceInv, PlaceOf
      <4>3. QED BY <4>1, <4>2 DEF Iputs
    <3>2. QED BY <1>1, <1>5, <2>8, <3>1 DEF Keeps, Others
  <2>9. QED BY <2>6, <2>7, <2>8
<1>6. ~overlap' => \A k \in Inodes: Keeps(p, k) /\ dtype[k] # "free" /\ dnlink[k] = 0 =>
                     \E q \in Procs: Keeps(q, k)'
  BY <1>4, <1>5
<1>7. NameOf(p)' /\ EmptyOf(p)'
  <2>1. EmptyOf(p)
    BY DEF TInv, EmptyInv
  <2>2. QED BY <1>1, <2>1 DEF NameOf, EmptyOf, Local, Then, Iputs, Op, Reads
<1>8. pc[p] # "init" /\ pc'[p] # "init"
  BY <1>1 DEF Local
<1>9. /\ UNCHANGED <<dirent, dtype, dnlink, panic, stray>> /\ (overlap => overlap')
  BY <1>1 DEF Reads
<1>10. Others(p)
  BY <1>1
<1>11. QED BY <1>3, <1>4, <1>6, <1>7, <1>8, <1>9, <1>10, CalmTree

LEMMA PutLastTree ==
  ASSUME Inv, TInv, NEW p \in Procs, PutTest(p), Last(put[p])
  PROVE  TInv'
<1>1. /\ pc[p] = "put" /\ PlaceOf(p)
      /\ put[p] \in Inodes /\ ref[put[p]] = 1
      /\ Local(p, "free", ret[p], put[p], ip[p], tgt[p]) /\ Others(p)
      /\ UNCHANGED <<dtype, dnlink, dirent, ref, valid, type, nlink, cwd, fd, call, panic, calls,
                     stray, lost>>
      /\ overlap' <=> overlap
  BY PutLastEffect
<1>2. OwnedInv'
  <2>1. \A k \in Inodes: Unowned(k)' => Unowned(k) \/ k = put[p]
    BY <1>1 DEF Unowned, Others, Local
  <2>2. ASSUME NEW q \in Procs, NEW k \in Inodes, Holds(q, k)' PROVE Holds(q, k) /\ k # put[p]
    <3>1. Holds(q, k)
      BY <1>1, <2>2 DEF Holds, Others, Local
    <3>2. ~(cwd[q] = put[p] \/ fd[q] = put[p] \/ ip[q] = put[p] \/ tgt[q] = put[p])
          /\ (q # p => put[q] # put[p])
      BY <1>1, Referenced DEF Inv
    <3>3. cwd'[q] = cwd[q] /\ fd'[q] = fd[q] /\ ip'[q] = ip[q] /\ tgt'[q] = tgt[q]
          /\ put'[q] = put[q] /\ pc'[p] = "free"
      BY <1>1 DEF Others, Local
    <3>4. QED BY <2>2, <3>1, <3>2, <3>3 DEF Holds
  <2>3. ASSUME NEW q \in Procs, NEW r \in Procs, pc'[q] = "init", pc'[r] = "init", tgt'[q] = tgt'[r]
        PROVE  q = r
    <3>1. pc[q] = "init" /\ pc[r] = "init" /\ tgt[q] = tgt[r]
      BY <1>1, <2>3 DEF Others, Local
    <3>2. QED BY <3>1 DEF TInv, OwnedInv
  <2>4. \A q \in Procs, k \in Inodes: Holds(q, k)' => ~Unowned(k)'
    BY <2>1, <2>2 DEF TInv, OwnedInv
  <2>5. QED BY <2>3, <2>4 DEF OwnedInv
<1>3. \A k \in Inodes: /\ Pends(p, k)' <=> Pends(p, k)
                       /\ Keeps(p, k) => Keeps(p, k)'
                       /\ ref[k] > 0 /\ valid[k] => valid'[k]
  BY <1>1, NotNone DEF Pends, Keeps, Local, Op
<1>4. NameOf(p)' /\ EmptyOf(p)'
  <2>1. EmptyOf(p)
    BY DEF TInv, EmptyInv
  <2>2. QED BY <1>1, <2>1 DEF NameOf, EmptyOf, Local, Then, Iputs, Op
<1>5. pc[p] # "init" /\ pc'[p] # "init"
  BY <1>1 DEF Local
<1>6. ~overlap' => \A k \in Inodes: Keeps(p, k) /\ dtype[k] # "free" /\ dnlink[k] = 0 =>
                     \E q \in Procs: Keeps(q, k)'
  BY <1>3
<1>7. Others(p) /\ UNCHANGED <<dirent, dtype, dnlink, panic, stray>> /\ (overlap => overlap')
  BY <1>1
<1>8. QED BY <1>2, <1>3, <1>4, <1>5, <1>6, <1>7, CalmTree

LEMMA PutDecTree ==
  ASSUME Inv, TInv, NEW p \in Procs, PutDec(p)
  PROVE  TInv'
<1>1. /\ pc[p] = "dec" /\ PlaceOf(p)
      /\ Local(p, ret[p], "user", None, ip[p], tgt[p]) /\ Others(p)
      /\ call'[p] = IF ret[p] = "user" THEN NoCall ELSE call[p]
      /\ UNCHANGED <<dtype, dnlink, dirent, valid, type, nlink, lock, cwd, fd, panic, hist>>
  BY PutDecEffect
<1>2. ret[p] \in Returns /\ Then(p) = ret[p] /\ Then(p)' = ret[p] /\ pc'[p] = ret[p]
  BY <1>1 DEF PlaceOf, Then, Local, Iputs, Returns
<1>3. ret[p] = "user" => tgt[p] = None /\ tgt'[p] = None /\ Op(p)' = "none"
  BY <1>1, <1>2 DEF PlaceOf, TgtPlaces, Local, NoCall, Op
<1>4. ret[p] # "user" => Op(p)' = Op(p)
  BY <1>1 DEF Op
<1>5. OwnedInv'
  <2>1. \A k \in Inodes: Holds(p, k)' => Holds(p, k) \/ k = None
    BY <1>1, <1>2, NotNone DEF Holds, Local, Returns
  <2>2. pc[p] \notin {"init", "free"} /\ pc'[p] \notin {"init", "free"} /\ dtype' = dtype
    BY <1>1, <1>2 DEF Returns
  <2>3. OwnedInv /\ (None \in Inodes => ~Unowned(None))
    BY NotNone DEF TInv
  <2>4. QED BY <1>1, <2>1, <2>2, <2>3, CalmOwned
<1>6. \A k \in Inodes: /\ Pends(p, k)' <=> Pends(p, k)
                       /\ Keeps(p, k) => Keeps(p, k)'
                       /\ ref[k] > 0 /\ valid[k] => valid'[k]
  <2>1. SUFFICES ASSUME NEW k \in Inodes PROVE Pends(p, k)' <=> Pends(p, k)
    BY <1>1 DEF Keeps, Local
  <2>2. CASE ret[p] = "user"
    BY <1>3, <2>2, NotNone DEF Pends
  <2>3. CASE ret[p] # "user"
    BY <1>1, <1>4, <2>3 DEF Pends, Local
  <2>4. QED BY <2>2, <2>3
<1>7. NameOf(p)' /\ EmptyOf(p)'
  <2>1. EmptyOf(p)
    BY DEF TInv, EmptyInv
  <2>2. CASE ret[p] = "user"
    BY <1>2, <1>3, <2>2 DEF NameOf, EmptyOf
  <2>3. CASE ret[p] # "user"
    BY <1>1, <1>2, <1>4, <2>1, <2>3 DEF NameOf, EmptyOf, Local, Returns
  <2>4. QED BY <2>2, <2>3
<1>8. pc[p] # "init" /\ pc'[p] # "init"
  BY <1>1, <1>2 DEF Returns
<1>9. ~overlap' => \A k \in Inodes: Keeps(p, k) /\ dtype[k] # "free" /\ dnlink[k] = 0 =>
                     \E q \in Procs: Keeps(q, k)'
  BY <1>6
<1>10. Others(p) /\ UNCHANGED <<dirent, dtype, dnlink, panic, stray>> /\ (overlap => overlap')
  BY <1>1 DEF hist
<1>11. QED BY <1>5, <1>6, <1>7, <1>8, <1>9, <1>10, CalmTree

-----------------------------------------------------------------------------
(* Steps that write a directory.                                           *)

LEMMA SameRow ==
  ASSUME TypeOK, TypeOK', NEW d \in Inodes, \A n \in Entries: dirent'[d][n] = dirent[d][n]
  PROVE  dirent'[d] = dirent[d]
  BY DEF TypeOK

\* Only a directory has entries, one that is not new.
LEMMA EntriesInDir ==
  ASSUME Inv, TInv, NEW d \in Inodes, NEW n \in Entries, dirent[d][n] # None
  PROVE  dtype[d] = "dir" /\ ~AtInit(d) /\ dirent[d]["."] = d /\ dirent[d][".."] # None
  BY DEF TInv, TreeInv, NoEntry

\* Who has removed the name of i, and not taken its link down yet, has it locked.
LEMMA PendingUnlink ==
  ASSUME Inv, TInv, NEW q \in Procs, NEW i \in Inodes, q \in Pending(i), dtype[i] = "dir"
  PROVE  Then(q) = "unlinked" /\ lock[i] = q
<1>1. tgt[q] = i
  BY DEF Pending
<1>2. Op(q) # "link"
  BY <1>1, NotNone DEF TInv, EmptyInv, EmptyOf
<1>3. "unlinked" \in {pc[q], ret[q]}
  BY <1>2 DEF Pending
<1>4. Then(q) = "unlinked"
  BY <1>3 DEF Then, Inv, PlaceInv, PlaceOf, Iputs
<1>5. QED BY <1>1, <1>4 DEF LockedBy, Inv, LockInv

\* A directory with a link has a name, unless unlink() is taking it away.
LEMMA NotGone ==
  ASSUME Inv, TInv, ~stray, NEW d \in Inodes, d # ROOTINO, dtype[d] = "dir", dnlink[d] # 0,
         \A q \in Procs: lock[d] = q => Then(q) # "unlinked"
  PROVE  Named(d) # {}
<1>1. SUFFICES ASSUME Named(d) = {} PROVE FALSE
  OBVIOUS
<1>2. \A n \in Names: dirent[d][n] = None
  BY <1>1 DEF TInv, EmptyInv
<1>3. Subdirs(d) = {}
  <2>1. SUFFICES ASSUME NEW s \in Subdirs(d) PROVE FALSE
    OBVIOUS
  <2>2. s \in Inodes /\ dirent[s][".."] = d /\ (s = ROOTINO \/ Named(s) # {})
    BY <2>1 DEF Subdirs
  <2>3. CASE s = ROOTINO
    BY <2>2, <2>3 DEF TInv, TreeInv
  <2>4. CASE s # ROOTINO
    <3>1. PICK e \in Inodes, n \in Names: dirent[e][n] = s
      BY <2>2, <2>4 DEF Named
    <3>2. dtype[s] = "dir"
      BY <2>2, NotNone, EntriesInDir DEF Entries
    <3>3. e = d
      BY <2>2, <3>1, <3>2 DEF TInv, TreeInv
    <3>4. QED BY <1>2, <2>2, <3>1, <3>3, NotNone
  <2>5. QED BY <2>3, <2>4
<1>4. Pending(d) = {}
  <2>1. \A q \in Pending(d): q \in Procs
    BY DEF Pending
  <2>2. QED BY <2>1, PendingUnlink
<1>5. Total(d) = 0
  BY <1>1, <1>3, <1>4, TotalParts
<1>6. QED BY <1>5 DEF TInv, LinkInv

\* Nobody else's lookup is about a directory that p has, or that nobody has locked.
LEMMA OthersRow ==
  ASSUME Inv, NEW p \in Procs, NEW q \in Procs \ {p}, NEW i \in Inodes, lock[i] \in {None, p}
  PROVE  /\ ip[q] = i => pc[q] \notin {"victim", "init"} /\ ~(pc[q] = "put" /\ ret[q] = "unlockdp")
         /\ Then(q) = "unlinked" => tgt[q] # i
<1>1. ~LockedBy(q, i)
  BY NotNone DEF Inv, LockInv
<1>2. QED BY <1>1 DEF LockedBy, Then, Iputs

\* The parts about names that others may be using.
LEMMA OthersNames ==
  ASSUME Inv, TInv, NEW p \in Procs, Others(p), NameOf(p)', EmptyOf(p)', dtype' = dtype,
         \A d \in Inodes: dirent'[d] = dirent[d] \/ lock[d] \in {None, p}
  PROVE  NameInv' /\ \A q \in Procs: EmptyOf(q)'
<1>1. \A q \in Procs \ {p}: \/ dirent'[ip[q]] = dirent[ip[q]]
                            \/ pc[q] \notin {"victim", "init"} /\ ~(pc[q] = "put" /\ ret[q] = "unlockdp")
  <2>1. SUFFICES ASSUME NEW q \in Procs \ {p},
                        pc[q] \in {"victim", "init"} \/ (pc[q] = "put" /\ ret[q] = "unlockdp")
                 PROVE  dirent'[ip[q]] = dirent[ip[q]]
    OBVIOUS
  <2>2. Then(q) \in IpPlaces
    BY <2>1 DEF Then, Iputs, IpPlaces, InDirPlaces
  <2>3. ip[q] \in Inodes
    BY <2>2 DEF Inv, PlaceInv, PlaceOf, TypeOK, InodeOrNone
  <2>4. lock[ip[q]] \notin {None, p}
    BY <2>1, <2>3, OthersRow
  <2>5. QED BY <2>3, <2>4
<1>2. NameInv'
  BY <1>1, NameStep DEF TInv
<1>3. \A q \in Procs \ {p}:
        /\ Then(q) = "unlinked" => \A n \in Names: dirent'[tgt[q]][n] = None
        /\ Op(q) = "link" /\ tgt[q] # None => dtype'[tgt[q]] # "dir"
  <2>1. SUFFICES ASSUME NEW q \in Procs \ {p}, Then(q) = "unlinked"
                 PROVE  dirent'[tgt[q]] = dirent[tgt[q]]
    BY DEF TInv, EmptyInv, EmptyOf
  <2>2. tgt[q] \in Inodes
    BY <2>1 DEF Inv, PlaceInv, PlaceOf, TgtPlaces, TypeOK, InodeOrNone
  <2>3. lock[tgt[q]] \notin {None, p}
    BY <2>1, <2>2, OthersRow
  <2>4. QED BY <2>2, <2>3
<1>4. QED BY <1>2, <1>3, EmptyStep DEF TInv

\* ip[p] and tgt[p] in a step that writes a directory.
LEMMA HeldDir ==
  ASSUME Inv, TInv, NEW p \in Procs, ip[p] \in Inodes, dtype[ip[p]] = "dir"
  PROVE  ~Unowned(ip[p]) /\ ~AtInit(ip[p])
<1>1. Holds(p, ip[p])
  BY DEF Holds
<1>2. QED BY <1>1 DEF TInv, OwnedInv, Unowned, AtInit

\* The names that lead to an inode, when one entry is changed.
LEMMA NamedStep ==
  ASSUME NEW d \in Inodes, NEW n \in Names, NEW v,
         \A e \in Inodes, m \in Names:
           dirent'[e][m] = IF e = d /\ m = n THEN v ELSE dirent[e][m]
  PROVE  \A k: /\ Named(k) \ {<<d, n>>} = Named(k)' \ {<<d, n>>}
               /\ <<d, n>> \in Named(k) <=> dirent[d][n] = k
               /\ <<d, n>> \in Named(k)' <=> k = v
               /\ k # v /\ dirent[d][n] # k => Named(k)' = Named(k)
<1>1. SUFFICES ASSUME NEW k
               PROVE  /\ Named(k) \ {<<d, n>>} = Named(k)' \ {<<d, n>>}
                      /\ <<d, n>> \in Named(k) <=> dirent[d][n] = k
                      /\ <<d, n>> \in Named(k)' <=> k = v
                      /\ k # v /\ dirent[d][n] # k => Named(k)' = Named(k)
  OBVIOUS
<1>2. \A e \in Inodes, m \in Names: <<e, m>> \in Named(k) <=> dirent[e][m] = k
  BY DEF Named
<1>3. \A e \in Inodes, m \in Names: <<e, m>> \in Named(k)' <=> dirent'[e][m] = k
  BY DEF Named
<1>4. Named(k) \subseteq Inodes \X Names /\ Named(k)' \subseteq Inodes \X Names
  BY DEF Named
<1>5. \A e \in Inodes, m \in Names:
        <<e, m>> # <<d, n>> => (<<e, m>> \in Named(k) <=> <<e, m>> \in Named(k)')
  BY <1>2, <1>3
<1>6. \A x \in Inodes \X Names: x # <<d, n>> => (x \in Named(k) <=> x \in Named(k)')
  BY <1>5
<1>7. Named(k) \ {<<d, n>>} = Named(k)' \ {<<d, n>>}
  BY <1>4, <1>6
<1>8. /\ <<d, n>> \in Named(k) <=> dirent[d][n] = k
      /\ <<d, n>> \in Named(k)' <=> k = v
  BY <1>2, <1>3
<1>9. ASSUME k # v, dirent[d][n] # k PROVE Named(k)' = Named(k)
  <2>1. <<d, n>> \notin Named(k) /\ <<d, n>> \notin Named(k)'
    BY <1>8, <1>9
  <2>2. \A x \in Inodes \X Names: x \in Named(k) <=> x \in Named(k)'
    BY <1>6, <2>1
  <2>3. QED BY <1>4, <2>2
<1>10. QED BY <1>7, <1>8, <1>9

LEMMA PendingStep ==
  ASSUME NEW p \in Procs, Others(p), NEW i
  PROVE  Pending(i) \ {p} = Pending(i)' \ {p}
<1>1. \A q \in Procs \ {p}: Pends(q, i)' <=> Pends(q, i)
  BY DEF Pends, Others, Op
<1>2. Pending(i) = {q \in Procs : Pends(q, i)} /\ Pending(i)' = {q \in Procs : Pends(q, i)'}
  BY DEF Pending, Pends
<1>3. QED BY <1>1, <1>2

\* link() makes the name that is pending.
LEMMA LinkNewTree ==
  ASSUME Inv, TInv, NEW p \in Procs, LinkNew(p)
  PROVE  TInv'
<1>0. PICK d0, n0, t: d0 = ip[p] /\ n0 = Name(p) /\ t = tgt[p]
  OBVIOUS
<1>1. /\ pc[p] = "linknew" /\ PlaceOf(p)
      /\ d0 \in Inodes /\ ref[d0] > 0 /\ dtype[d0] = "dir" /\ lock[d0] = None
      /\ n0 \in Entries /\ dirent[d0][n0] = None
      /\ \A d \in Inodes, n \in Entries: dirent'[d][n] = IF d = d0 /\ n = n0 THEN t ELSE dirent[d][n]
      /\ Local(p, "put", "linkput", d0, None, t) /\ Others(p)
      /\ Reads(d0, None) /\ TypeOK' /\ CallInv'
      /\ stray' = (stray \/ dnlink[d0] = 0)
      /\ UNCHANGED <<cwd, fd, call, lock, panic, calls, overlap, lost>>
  BY <1>0, LinkNewEffect
<1>2. dtype' = dtype /\ dnlink' = dnlink
  BY <1>1 DEF Reads
<1>3. t \in Inodes /\ Op(p) = "link" /\ dtype[t] # "dir" /\ t # d0
  <2>1. t # None /\ Op(p) = "link"
    BY <1>0, <1>1 DEF PlaceOf, Then, Iputs, TgtPlaces
  <2>2. EmptyOf(p)
    BY DEF TInv, EmptyInv
  <2>3. QED BY <1>0, <1>1, <2>1, <2>2 DEF EmptyOf, Inv, TypeOK, InodeOrNone
<1>4. ~Unowned(d0) /\ ~AtInit(d0)
  BY <1>0, <1>1, HeldDir
<1>5. n0 \in Names
  BY <1>1, <1>4, NewName
<1>6. \A d \in Inodes: d # d0 => dirent'[d] = dirent[d]
  BY <1>1, SameRow DEF Inv
<1>7. \A i: AtInit(i)' <=> AtInit(i)
  BY <1>1, InitSame DEF Local
<1>8. \A d \in Inodes: dirent'[d]["."] = dirent[d]["."] /\ dirent'[d][".."] = dirent[d][".."]
  BY <1>1, <1>5, DirectoryConstants DEF Entries
<1>9. \A d \in Inodes, n \in Names: dirent'[d][n] = IF d = d0 /\ n = n0 THEN t ELSE dirent[d][n]
  BY <1>1 DEF Entries
<1>10. OwnedInv'
  <2>1. \A k \in Inodes: Holds(p, k)' => Holds(p, k) \/ k = None
    BY <1>0, <1>1 DEF Holds, Local
  <2>2. pc[p] \notin {"init", "free"} /\ pc'[p] \notin {"init", "free"}
    BY <1>1 DEF Local
  <2>3. OwnedInv /\ (None \in Inodes => ~Unowned(None))
    BY NotNone DEF TInv
  <2>4. QED BY <1>1, <1>2, <2>1, <2>2, <2>3, CalmOwned
<1>11. TreeInv'
  <2>1. ASSUME NEW d \in Inodes
        PROVE  /\ dtype[d] # "dir" \/ AtInit(d) => dirent'[d] = NoEntry
               /\ dtype[d] = "dir" /\ ~AtInit(d) => dirent'[d]["."] = d /\ dirent'[d][".."] # None
    <3>1. d = d0 => dtype[d] = "dir" /\ ~AtInit(d)
      BY <1>1, <1>4
    <3>2. QED BY <1>6, <1>8, <3>1 DEF TInv, TreeInv
  <2>2. ASSUME NEW d \in Inodes, NEW e \in Inodes, NEW n \in Names, dtype[d] = "dir",
               dirent'[e][n] = d
        PROVE  dirent'[d][".."] = e /\ \A m \in Names: dirent'[e][m] = d => m = n
    <3>1. \A m \in Names: dirent'[e][m] = d => dirent[e][m] = d
      BY <1>3, <1>9, <2>2
    <3>2. QED BY <1>8, <2>2, <3>1 DEF TInv, TreeInv
  <2>3. dirent'[ROOTINO][".."] = ROOTINO /\ dtype[ROOTINO] = "dir"
    BY <1>8, RootLinked DEF TInv, TreeInv
  <2>4. \A e \in Inodes, n \in Names: dirent'[e][n] # ROOTINO
    BY <1>3, <1>9, <2>3 DEF TInv, TreeInv
  <2>5. QED BY <1>2, <1>7, <2>1, <2>2, <2>3, <2>4 DEF TreeInv
<1>12. Acyclic'
  <2>1. SUFFICES ASSUME NEW D \in SUBSET Inodes, D # {}
                 PROVE  \E d \in D: \A n \in Names: dirent'[d][n] \notin D
    BY DEF Acyclic
  <2>2. PICK d \in D: \A n \in Names: dirent[d][n] \notin D
    BY <2>1 DEF TInv, Acyclic
  <2>3. CASE t \notin D
    BY <1>9, <2>2, <2>3
  <2>4. CASE t \in D
    <3>1. \A n \in Names: dirent'[t][n] = None
      BY <1>3, <1>6 DEF TInv, TreeInv, NoEntry, Entries
    <3>2. QED BY <2>4, <3>1, NotNone
  <2>5. QED BY <2>3, <2>4
<1>13. NameOf(p)' /\ EmptyOf(p)'
  <2>1. EmptyOf(p)
    BY DEF TInv, EmptyInv
  <2>2. QED BY <1>0, <1>1, <1>2, <2>1 DEF NameOf, EmptyOf, Local, Then, Iputs, Op
<1>14. NameInv' /\ \A q \in Procs: EmptyOf(q)'
  <2>1. \A d \in Inodes: dirent'[d] = dirent[d] \/ lock[d] \in {None, p}
    BY <1>1, <1>6
  <2>2. QED BY <1>1, <1>2, <1>13, <2>1, OthersNames
<1>15. \A k: /\ Named(k) \ {<<d0, n0>>} = Named(k)' \ {<<d0, n0>>}
             /\ <<d0, n0>> \in Named(k) <=> dirent[d0][n0] = k
             /\ <<d0, n0>> \in Named(k)' <=> k = t
             /\ k # t /\ dirent[d0][n0] # k => Named(k)' = Named(k)
  BY <1>1, <1>5, <1>9, NamedStep
<1>16. \A k \in Inodes: Subdirs(k)' = Subdirs(k)
  <2>1. \A s \in Inodes: s # t => (Named(s)' = Named(s))
    BY <1>1, <1>15, NotNone
  <2>2. dirent'[t][".."] = None /\ dirent[t][".."] = None
    BY <1>3, <1>6 DEF TInv, TreeInv, NoEntry, Entries
  <2>3. QED BY <1>8, <2>1, <2>2, NotNone DEF Subdirs
<1>17. LinkInv'
  <2>1. ASSUME NEW k \in Inodes PROVE Total(k)' = Total(k)
    <3>1. Pending(k) \ {p} = Pending(k)' \ {p}
      BY <1>1, PendingStep
    <3>2. p \in Pending(k) <=> k = t
      BY <1>0, <1>1, <1>3 DEF Pending, PlaceOf, Iputs
    <3>3. p \notin Pending(k)'
      BY <1>0, <1>1, <1>3 DEF Pending, Op, Local
    <3>4. /\ Total(k) \in Nat /\ Total(k)' \in Nat
          /\ Total(k)' = (Total(k) - (One(<<d0, n0>> \in Named(k)) + One(d0 \in Subdirs(k)) + One(p \in Pending(k))))
                         + (One(<<d0, n0>> \in Named(k)') + One(d0 \in Subdirs(k)') + One(p \in Pending(k)'))
      BY <1>15, <1>16, <3>1, TotalStep
    <3>5. One(d0 \in Subdirs(k)) = One(d0 \in Subdirs(k)') /\ One(d0 \in Subdirs(k)) \in Nat
      BY <1>16 DEF One
    <3>6. One(<<d0, n0>> \in Named(k)) = 0 /\ One(<<d0, n0>> \in Named(k)') = One(k = t)
          /\ One(p \in Pending(k)) = One(k = t) /\ One(p \in Pending(k)') = 0 /\ One(k = t) \in Nat
      BY <1>1, <1>15, <3>2, <3>3, NotNone DEF One
    <3>7. QED BY <3>4, <3>5, <3>6
  <2>2. QED BY <1>1, <1>2, <1>7, <2>1, LinkSame DEF TInv
<1>18. EmptyInv'
  <2>1. SUFFICES ASSUME ~stray', NEW d \in Inodes \ {ROOTINO}, Named(d)' = {}, NEW n \in Names
                 PROVE  dirent'[d][n] = None
    BY <1>14 DEF EmptyInv
  <2>2. ~stray /\ dnlink[d0] # 0
    BY <1>1, <2>1
  <2>3. Named(d) = {}
    BY <1>1, <1>15, <2>1, NotNone
  <2>4. d # d0
    <3>1. \A q \in Procs: lock[d0] = q => Then(q) # "unlinked"
      BY <1>1, NotNone
    <3>2. QED BY <1>1, <2>1, <2>2, <2>3, <3>1, NotGone
  <2>5. QED BY <1>9, <2>1, <2>2, <2>3, <2>4 DEF TInv, EmptyInv
<1>19. LeakInv'
  <2>1. \A k \in Inodes: /\ Keeps(p, k) => Keeps(p, k)'
                         /\ ref[k] > 0 /\ valid[k] => valid'[k]
    BY <1>0, <1>1, NotNone DEF Keeps, Local, Reads, PlaceOf, Iputs
  <2>2. QED BY <1>1, <1>2, <1>7, <2>1, LeakStep DEF TInv
<1>20. OnlyFullPanics'
  BY <1>1 DEF TInv, OnlyFullPanics
<1>21. QED BY <1>10, <1>11, <1>12, <1>14, <1>17, <1>18, <1>19, <1>20 DEF TInv

-----------------------------------------------------------------------------
(* Steps that write the link count of a call's target.                     *)

LEMMA CountTree ==
  ASSUME Inv, TInv, NEW p \in Procs, Others(p), pc[p] \notin {"init", "free"},
         pc'[p] \notin {"init", "free"}, NEW j, j \in Inodes => ~Unowned(j),
         UNCHANGED <<dirent, dtype, panic, stray>>, LeakInv', NameOf(p)', EmptyOf(p)',
         \A k \in Inodes:
           /\ Holds(p, k)' => Holds(p, k) \/ k = j
           /\ dnlink'[k] = (dnlink[k] - One(Pends(p, k))) + One(Pends(p, k)')
           /\ dtype[k] = "free" \/ AtInit(k) => dnlink'[k] = dnlink[k]
  PROVE  TInv'
<1>1. \A i: AtInit(i)' <=> AtInit(i)
  BY InitSame
<1>2. OwnedInv'
  BY CalmOwned DEF TInv
<1>3. TreeInv' /\ Acyclic'
  BY <1>1, TreeSame DEF TInv
<1>4. NameInv'
  BY NameStep DEF TInv
<1>5. \A i: Named(i)' = Named(i) /\ Subdirs(i)' = Subdirs(i)
  BY NamesSame
<1>6. ASSUME NEW k \in Inodes PROVE dnlink'[k] - Total(k)' = dnlink[k] - Total(k)
                                    /\ Total(k) \in Nat /\ Total(k)' \in Nat
                                    /\ dnlink[k] \in Int /\ dnlink'[k] \in Int
  <2>1. Pending(k) \ {p} = Pending(k)' \ {p}
    BY PendingStep
  <2>2. /\ Total(k) \in Nat /\ Total(k)' \in Nat
        /\ Total(k)' = (Total(k) - (One(p \in Named(k)) + One(p \in Subdirs(k)) + One(p \in Pending(k))))
                       + (One(p \in Named(k)') + One(p \in Subdirs(k)') + One(p \in Pending(k)'))
    BY <1>5, <2>1, TotalStep
  <2>3. One(p \in Pending(k)) = One(Pends(p, k)) /\ One(p \in Pending(k)') = One(Pends(p, k)')
    <3>1. (p \in Pending(k) <=> Pends(p, k)) /\ (p \in Pending(k)' <=> Pends(p, k)')
      BY DEF Pending, Pends
    <3>2. QED BY <3>1 DEF One
  <2>4. One(p \in Named(k)') = One(p \in Named(k)) /\ One(p \in Subdirs(k)') = One(p \in Subdirs(k))
    BY <1>5
  <2>5. \A b: One(b) \in Nat
    BY DEF One
  <2>6. dnlink[k] \in Int
    BY DEF Inv, TypeOK
  <2>7. dnlink'[k] = (dnlink[k] - One(Pends(p, k))) + One(Pends(p, k)')
    OBVIOUS
  <2>8. /\ One(p \in Named(k)) \in Nat /\ One(p \in Subdirs(k)) \in Nat
        /\ One(Pends(p, k)) \in Nat /\ One(Pends(p, k)') \in Nat
    BY <2>5
  <2>9. QED BY <2>2, <2>3, <2>4, <2>6, <2>7, <2>8
<1>7. LinkInv'
  <2>1. ASSUME NEW k \in Inodes
        PROVE  /\ dnlink'[k] >= Total(k)'
               /\ ~stray' => dnlink'[k] = Total(k)'
               /\ dtype'[k] = "free" \/ AtInit(k)' => dnlink'[k] = 0
    <3>1. /\ dnlink[k] >= Total(k)
          /\ ~stray => dnlink[k] = Total(k)
          /\ dtype[k] = "free" \/ AtInit(k) => dnlink[k] = 0
      BY DEF TInv, LinkInv
    <3>2. /\ dnlink'[k] - Total(k)' = dnlink[k] - Total(k)
          /\ Total(k) \in Nat /\ Total(k)' \in Nat /\ dnlink[k] \in Int /\ dnlink'[k] \in Int
      BY <1>6
    <3>3. dnlink'[k] >= Total(k)' /\ (~stray' => dnlink'[k] = Total(k)')
      BY <3>1, <3>2
    <3>4. dtype'[k] = "free" \/ AtInit(k)' => dnlink'[k] = 0
      BY <1>1, <3>1
    <3>5. QED BY <3>3, <3>4
  <2>2. QED BY <2>1 DEF LinkInv
<1>8. EmptyInv'
  <2>1. \A q \in Procs: EmptyOf(q)'
    <3>1. \A q \in Procs \ {p}:
            /\ Then(q) = "unlinked" => \A n \in Names: dirent'[tgt[q]][n] = None
            /\ Op(q) = "link" /\ tgt[q] # None => dtype'[tgt[q]] # "dir"
      BY DEF TInv, EmptyInv, EmptyOf
    <3>2. QED BY <3>1, EmptyStep DEF TInv
  <2>2. QED BY <1>5, <2>1 DEF TInv, EmptyInv
<1>9. QED BY <1>2, <1>3, <1>4, <1>7, <1>8 DEF TInv, OnlyFullPanics

\* A link count is never below zero.
LEMMA NoLessLinks ==
  ASSUME Inv, TInv, NEW i \in Inodes
  PROVE  dnlink[i] \in Nat
  BY TotalParts DEF Inv, TypeOK, TInv, LinkInv

\* link() of a file counts the link before it makes it.
LEMMA LinkOldTree ==
  ASSUME Inv, TInv, NEW p \in Procs, LinkOld(p), Type(ip[p]) # "dir"
  PROVE  TInv'
<1>0. PICK i, j: i = ip[p] /\ j = Start(p, call[p].new)
  OBVIOUS
<1>1. /\ pc[p] = "linkold" /\ PlaceOf(p)
      /\ i \in Inodes /\ ref[i] > 0 /\ dtype[i] \notin {"free", "dir"}
      /\ tgt[p] = None /\ Op(p) = "link"
      /\ Local(p, "namex", "user", None, j, i) /\ Others(p)
      /\ \A k \in Inodes:
           /\ dnlink'[k] = IF k = i THEN dnlink[k] + 1 ELSE dnlink[k]
           /\ valid'[k] <=> (k = i \/ (valid[k] /\ ~(k = j /\ ref[k] = 0)))
      /\ call'[p].op = "link"
      /\ UNCHANGED <<dtype, dirent, lock, cwd, fd, panic, hist>>
  <2>1. /\ pc[p] = "linkold" /\ PlaceOf(p)
        /\ i \in Inodes /\ ref[i] > 0 /\ dtype[i] \notin {"free", "dir"}
        /\ tgt[p] = None /\ Op(p) = "link"
        /\ Local(p, "namex", "user", None, j, i) /\ Others(p)
        /\ call'[p].op = "link"
        /\ UNCHANGED <<dtype, dirent, lock, cwd, fd, panic, hist>>
    BY <1>0, LinkOldEffect, Zenon
  <2>2. \A k \in Inodes:
          /\ dnlink'[k] = IF k = ip[p] THEN dnlink[k] + 1 ELSE dnlink[k]
          /\ ref'[k] = IF k = Start(p, call[p].new) THEN ref[k] + 1 ELSE ref[k]
          /\ valid'[k] <=> (k = ip[p] \/ (valid[k] /\ ~(k = Start(p, call[p].new) /\ ref[k] = 0)))
    BY LinkOldEffect, Zenon
  <2>3. QED BY <1>0, <2>1, <2>2
<1>2. j \in Inodes /\ ~Unowned(j)
  BY <1>0, StartOwned
<1>3. ~AtInit(i)
  <2>1. Holds(p, i)
    BY <1>0 DEF Holds
  <2>2. QED BY <1>1, <2>1 DEF TInv, OwnedInv, Unowned, AtInit
<1>4. \A k \in Inodes: /\ Pends(p, k)' <=> k = i
                       /\ ~Pends(p, k)
                       /\ Holds(p, k)' => Holds(p, k) \/ k = j
                       /\ Keeps(p, k) => Keeps(p, k)'
  BY <1>0, <1>1, NotNone DEF Pends, Holds, Keeps, Local, Op, PlaceOf, Iputs
<1>5. LeakInv'
  <2>1. \A k \in Inodes: dnlink'[k] = 0 => k # i
    BY <1>1, NoLessLinks
  <2>2. \A k \in Inodes: AtInit(k) => AtInit(k)'
    BY <1>1, InitSame DEF Local
  <2>3. QED BY <1>1, <1>4, <2>1, <2>2, LeakStep DEF TInv, hist
<1>6. NameOf(p)' /\ EmptyOf(p)'
  BY <1>1 DEF NameOf, EmptyOf, Local, Then, Iputs
<1>7. \A k \in Inodes:
        /\ Holds(p, k)' => Holds(p, k) \/ k = j
        /\ dnlink'[k] = (dnlink[k] - One(Pends(p, k))) + One(Pends(p, k)')
        /\ dtype[k] = "free" \/ AtInit(k) => dnlink'[k] = dnlink[k]
  <2>1. \A k \in Inodes: One(Pends(p, k)) = 0 /\ One(Pends(p, k)') = (IF k = i THEN 1 ELSE 0)
    BY <1>4 DEF One
  <2>2. \A k \in Inodes: dnlink[k] \in Int
    BY DEF Inv, TypeOK
  <2>3. QED BY <1>1, <1>3, <1>4, <2>1, <2>2
<1>8. pc[p] \notin {"init", "free"} /\ pc'[p] \notin {"init", "free"}
  BY <1>1 DEF Local
<1>9. QED BY <1>1, <1>2, <1>5, <1>6, <1>7, <1>8, CountTree DEF hist

\* The link of a call's target is taken back.
LEMMA UncountTree ==
  ASSUME Inv, TInv, NEW p \in Procs, PlaceOf(p), pc[p] \in {"linkbad", "unlinked"},
         Pends(p, tgt[p]), NEW i \in Inodes, i = tgt[p], ref[i] > 0, dtype[i] # "free",
         ip[p] = None, Local(p, "put", "user", i, None, None), Others(p),
         \A k \in Inodes: /\ dnlink'[k] = IF k = i THEN dnlink[k] - 1 ELSE dnlink[k]
                          /\ valid[k] => valid'[k],
         valid'[i], UNCHANGED <<dtype, dirent, cwd, fd, call, panic, hist>>
  PROVE  TInv'
<1>1. Holds(p, i) /\ ~Unowned(i) /\ ~AtInit(i)
  <2>1. Holds(p, i)
    BY DEF Holds
  <2>2. QED BY <2>1 DEF TInv, OwnedInv, Unowned, AtInit
<1>2. put[p] = None
  BY DEF PlaceOf, Iputs
<1>3. \A k \in Inodes: /\ ~Pends(p, k)'
                       /\ Pends(p, k) <=> k = i
                       /\ Holds(p, k)' => Holds(p, k)
                       /\ Keeps(p, k) => Keeps(p, k)'
  BY <1>2, NotNone DEF Pends, Holds, Keeps, Local, Op
<1>4. LeakInv'
  <2>1. \A k \in Inodes: AtInit(k) => AtInit(k)'
    BY InitSame DEF Local
  <2>2. \E q \in Procs: Keeps(q, i)'
    BY <1>3 DEF Keeps, Local
  <2>3. \A k \in Inodes:
          dtype'[k] # "free" /\ dnlink'[k] = 0 =>
            \/ /\ dtype[k] # "free" /\ dnlink[k] = 0
               /\ ref[k] > 0 /\ valid[k] => valid'[k]
               /\ Keeps(p, k) => \E q \in Procs: Keeps(q, k)'
               /\ AtInit(k) => AtInit(k)'
            \/ (\E q \in Procs: Keeps(q, k)') /\ (valid'[k] \/ AtInit(k)')
    BY <1>3, <2>1, <2>2
  <2>4. QED BY <2>3, LeakStep DEF TInv, hist
<1>5. NameOf(p)' /\ EmptyOf(p)'
  BY DEF NameOf, EmptyOf, Local, Then, Iputs
<1>6. \A k \in Inodes:
        /\ Holds(p, k)' => Holds(p, k) \/ k = None
        /\ dnlink'[k] = (dnlink[k] - One(Pends(p, k))) + One(Pends(p, k)')
        /\ dtype[k] = "free" \/ AtInit(k) => dnlink'[k] = dnlink[k]
  <2>1. \A k \in Inodes: One(Pends(p, k)') = 0 /\ One(Pends(p, k)) = (IF k = i THEN 1 ELSE 0)
    BY <1>3 DEF One
  <2>2. \A k \in Inodes: dnlink[k] \in Int
    BY DEF Inv, TypeOK
  <2>3. QED BY <1>1, <1>3, <2>1, <2>2
<1>7. pc[p] \notin {"init", "free"} /\ pc'[p] \notin {"init", "free"}
  BY DEF Local
<1>8. None \in Inodes => ~Unowned(None)
  BY NotNone
<1>9. UNCHANGED <<dirent, dtype, panic, stray>>
  BY DEF hist
<1>10. QED BY <1>4, <1>5, <1>6, <1>7, <1>8, <1>9, CountTree

LEMMA LinkBadTree ==
  ASSUME Inv, TInv, NEW p \in Procs, LinkBad(p)
  PROVE  TInv'
<1>0. PICK i: i = tgt[p]
  OBVIOUS
<1>1. /\ pc[p] = "linkbad" /\ PlaceOf(p)
      /\ i \in Inodes /\ ref[i] > 0 /\ dtype[i] # "free"
      /\ ip[p] = None /\ Op(p) = "link"
      /\ Local(p, "put", "user", i, None, None) /\ Others(p)
      /\ \A k \in Inodes: /\ dnlink'[k] = IF k = i THEN dnlink[k] - 1 ELSE dnlink[k]
                          /\ valid'[k] <=> (k = i \/ valid[k])
      /\ UNCHANGED <<dtype, dirent, ref, lock, cwd, fd, call, panic, hist>>
  BY <1>0, LinkBadEffect
<1>2. Pends(p, tgt[p])
  BY <1>1 DEF Pends, PlaceOf, Iputs
<1>3. QED BY <1>0, <1>1, <1>2, UncountTree

LEMMA UnlinkedTree ==
  ASSUME Inv, TInv, NEW p \in Procs, Unlinked(p)
  PROVE  TInv'
<1>0. PICK i: i = tgt[p]
  OBVIOUS
<1>1. /\ pc[p] = "unlinked" /\ PlaceOf(p)
      /\ i \in Inodes /\ ref[i] > 0 /\ dtype[i] # "free" /\ lock[i] = p
      /\ ip[p] = None /\ Op(p) = "unlink"
      /\ Local(p, "put", "user", i, None, None) /\ Others(p)
      /\ \A k \in Inodes: dnlink'[k] = IF k = i THEN dnlink[k] - 1 ELSE dnlink[k]
      /\ UNCHANGED <<dtype, dirent, ref, valid, cwd, fd, call, panic, hist>>
  <2>1. /\ pc[p] = "unlinked" /\ PlaceOf(p)
        /\ i \in Inodes /\ ref[i] > 0 /\ dtype[i] # "free" /\ lock[i] = p
        /\ ip[p] = None /\ Op(p) = "unlink"
        /\ Local(p, "put", "user", i, None, None) /\ Others(p)
        /\ UNCHANGED <<dtype, dirent, ref, valid, cwd, fd, call, panic, hist>>
    BY <1>0, UnlinkedEffect, Zenon
  <2>2. \A k \in Inodes: dnlink'[k] = IF k = i THEN dnlink[k] - 1 ELSE dnlink[k]
    BY <1>0, UnlinkedEffect
  <2>3. QED BY <2>1, <2>2
<1>2. Pends(p, tgt[p])
  BY <1>1 DEF Pends
<1>3. valid[i]
  BY <1>1 DEF Inv, LockInv, EntryInv
<1>4. QED BY <1>0, <1>1, <1>2, <1>3, UncountTree

-----------------------------------------------------------------------------
(* Inodes that are freed and made.                                         *)

LEMMA FewerNames ==
  ASSUME NEW k, Named(k)' \subseteq Named(k), Subdirs(k)' \subseteq Subdirs(k),
         Pending(k)' = Pending(k)
  PROVE  /\ Total(k) \in Nat /\ Total(k)' \in Nat /\ Total(k)' =< Total(k)
         /\ Named(k)' = Named(k) /\ Subdirs(k)' = Subdirs(k) => Total(k)' = Total(k)
<1>1. /\ IsFiniteSet(Named(k)) /\ IsFiniteSet(Subdirs(k)) /\ IsFiniteSet(Pending(k))
      /\ Cardinality(Named(k)) \in Nat /\ Cardinality(Subdirs(k)) \in Nat
      /\ Cardinality(Pending(k)) \in Nat
  BY NameSets
<1>2. /\ IsFiniteSet(Named(k)') /\ Cardinality(Named(k)') =< Cardinality(Named(k))
      /\ IsFiniteSet(Subdirs(k)') /\ Cardinality(Subdirs(k)') =< Cardinality(Subdirs(k))
  BY <1>1, FS_Subset
<1>3. Cardinality(Named(k)') \in Nat /\ Cardinality(Subdirs(k)') \in Nat
  BY <1>2, FS_CardinalityType
<1>4. Total(k)' = Cardinality(Named(k)') + Cardinality(Subdirs(k)') + Cardinality(Pending(k))
  BY DEF Total
<1>5. QED BY <1>1, <1>2, <1>3, <1>4 DEF Total

\* What iput() frees has no name, and nothing is below it.
LEMMA PutFreeTree ==
  ASSUME Inv, TInv, NEW p \in Procs, PutFree(p)
  PROVE  TInv'
<1>0. PICK i: i = put[p]
  OBVIOUS
<1>1. /\ pc[p] = "free" /\ PlaceOf(p)
      /\ i \in Inodes /\ ref[i] > 0 /\ dtype[i] # "free" /\ dnlink[i] = 0
      /\ \A q \in Procs: ~Known(q, i)
      /\ Local(p, "dec", ret[p], i, ip[p], tgt[p]) /\ Others(p)
      /\ \A k \in Inodes: /\ dtype'[k] = IF k = i THEN "free" ELSE dtype[k]
                          /\ dirent'[k] = IF k = i THEN NoEntry ELSE dirent[k]
                          /\ valid'[k] <=> (valid[k] /\ k # i)
      /\ UNCHANGED <<dnlink, ref, nlink, cwd, fd, call, panic, hist>>
  <2>1. /\ pc[p] = "free" /\ PlaceOf(p)
        /\ put[p] \in Inodes /\ ref[put[p]] > 0
        /\ dtype[put[p]] # "free" /\ dnlink[put[p]] = 0
        /\ \A q \in Procs: ~Known(q, put[p])
        /\ Local(p, "dec", ret[p], put[p], ip[p], tgt[p]) /\ Others(p)
        /\ UNCHANGED <<dnlink, ref, nlink, cwd, fd, call, panic, hist>>
    BY PutFreeEffect
  <2>2. \A k \in Inodes: /\ dtype'[k] = IF k = put[p] THEN "free" ELSE dtype[k]
                         /\ dirent'[k] = IF k = put[p] THEN NoEntry ELSE dirent[k]
                         /\ valid'[k] <=> (valid[k] /\ k # put[p])
    BY PutFreeEffect
  <2>3. QED BY <1>0, <2>1, <2>2
<1>2. Total(i) = 0 /\ Named(i) = {} /\ Subdirs(i) = {} /\ i # ROOTINO
  <2>1. Total(i) = 0
    BY <1>1, TotalParts DEF TInv, LinkInv
  <2>2. QED BY <1>1, <2>1, TotalParts, RootLinked
<1>3. \A k: AtInit(k)' <=> AtInit(k)
  BY <1>1, InitSame DEF Local
<1>4. \A d \in Inodes, n \in Entries: dirent'[d][n] # None => dirent'[d][n] = dirent[d][n] /\ d # i
  BY <1>1 DEF NoEntry
<1>5. \A q \in Procs: Then(q)' = Then(q) /\ (Then(q) \in InDirPlaces => ip[q] # i)
  BY <1>1 DEF Known, Local, Others, Then, Iputs
<1>6. OwnedInv'
  <2>1. \A k \in Inodes: Unowned(k)' => Unowned(k)
    BY <1>0, <1>1 DEF Unowned, Others, Local
  <2>2. \A k \in Inodes: Holds(p, k)' => Holds(p, k)
    BY <1>1 DEF Holds, Local
  <2>3. \A k \in Inodes: Holds(p, k)' => ~Unowned(k)'
    BY <2>1, <2>2 DEF TInv, OwnedInv
  <2>4. pc'[p] # "init"
    BY <1>1 DEF Local
  <2>5. QED BY <1>1, <2>1, <2>3, <2>4, OwnedStep DEF TInv
<1>7. TreeInv'
  <2>1. ASSUME NEW d \in Inodes
        PROVE  /\ dtype'[d] # "dir" \/ AtInit(d)' => dirent'[d] = NoEntry
               /\ dtype'[d] = "dir" /\ ~AtInit(d)' => dirent'[d]["."] = d /\ dirent'[d][".."] # None
    BY <1>1, <1>3 DEF TInv, TreeInv
  <2>2. ASSUME NEW d \in Inodes, NEW e \in Inodes, NEW n \in Names, dtype'[d] = "dir",
               dirent'[e][n] = d
        PROVE  dirent'[d][".."] = e /\ \A m \in Names: dirent'[e][m] = d => m = n
    <3>1. d # i /\ dtype[d] = "dir" /\ dirent'[d] = dirent[d]
      BY <1>1, <2>2
    <3>2. e # i /\ dirent'[e] = dirent[e]
      BY <1>1, <1>4, <2>2, NotNone DEF Entries
    <3>3. QED BY <2>2, <3>1, <3>2 DEF TInv, TreeInv
  <2>3. dirent'[ROOTINO][".."] = ROOTINO /\ dtype'[ROOTINO] = "dir"
    BY <1>1, <1>2, RootLinked DEF TInv, TreeInv
  <2>4. \A e \in Inodes, n \in Names: dirent'[e][n] # ROOTINO
    BY <1>4, RootLinked, NotNone DEF TInv, TreeInv, Entries
  <2>5. QED BY <2>1, <2>2, <2>3, <2>4 DEF TreeInv
<1>8. Acyclic'
  <2>1. SUFFICES ASSUME NEW D \in SUBSET Inodes, D # {}
                 PROVE  \E d \in D: \A n \in Names: dirent'[d][n] \notin D
    BY DEF Acyclic
  <2>2. PICK d \in D: \A n \in Names: dirent[d][n] \notin D
    BY <2>1 DEF TInv, Acyclic
  <2>3. QED BY <1>4, <2>2, NotNone DEF Entries
<1>9. NameInv'
  <2>1. NameOf(p)'
    BY <1>1 DEF NameOf, Local
  <2>2. ASSUME NEW q \in Procs \ {p},
               pc[q] \in {"victim", "init"} \/ (pc[q] = "put" /\ ret[q] = "unlockdp")
        PROVE  dirent'[ip[q]] = dirent[ip[q]]
    <3>1. Then(q) \in InDirPlaces
      BY <2>2 DEF Then, Iputs, InDirPlaces
    <3>2. ip[q] \in Inodes
      BY <3>1 DEF Inv, PlaceInv, PlaceOf, IpPlaces, TypeOK, InodeOrNone
    <3>3. QED BY <1>1, <1>5, <3>1, <3>2
  <2>3. \A q \in Procs \ {p}: \/ dirent'[ip[q]] = dirent[ip[q]]
                              \/ pc[q] \notin {"victim", "init"} /\ ~(pc[q] = "put" /\ ret[q] = "unlockdp")
    BY <2>2
  <2>4. QED BY <1>1, <2>1, <2>3, NameStep DEF TInv
<1>10. ASSUME NEW k \in Inodes
       PROVE  /\ Named(k)' \subseteq Named(k) /\ Subdirs(k)' \subseteq Subdirs(k)
              /\ ~stray => Named(k)' = Named(k) /\ Subdirs(k)' = Subdirs(k)
  <2>1. \A s \in Inodes: Named(s)' \subseteq Named(s) /\ (~stray => Named(s)' = Named(s))
    <3>1. SUFFICES ASSUME NEW s \in Inodes
                   PROVE  Named(s)' \subseteq Named(s) /\ (~stray => Named(s)' = Named(s))
      OBVIOUS
    <3>2. \A e \in Inodes, n \in Names: dirent'[e][n] = s => dirent[e][n] = s
      BY <1>4, NotNone DEF Entries
    <3>3. Named(s)' \subseteq Named(s)
      BY <3>2 DEF Named
    <3>4. ASSUME ~stray PROVE Named(s)' = Named(s)
      <4>1. \A n \in Names: dirent[i][n] = None
        BY <1>1, <1>2, <3>4 DEF TInv, EmptyInv
      <4>2. \A e \in Inodes, n \in Names: dirent[e][n] = s => dirent'[e][n] = s
        BY <1>1, <4>1, NotNone
      <4>3. QED BY <3>2, <4>2 DEF Named
    <3>5. QED BY <3>3, <3>4
  <2>2. \A s \in Inodes: dirent'[s][".."] = k => dirent[s][".."] = k
    BY <1>4, NotNone DEF Entries
  <2>3. \A s \in Inodes: dirent[s][".."] = k /\ s # i => dirent'[s][".."] = k
    BY <1>1
  <2>4. Subdirs(k)' \subseteq Subdirs(k)
    BY <2>1, <2>2 DEF Subdirs
  <2>5. ~stray => Subdirs(k) \subseteq Subdirs(k)'
    BY <1>2, <2>1, <2>3 DEF Subdirs
  <2>6. QED BY <2>1, <2>4, <2>5
<1>11. LinkInv'
  <2>1. ASSUME NEW k \in Inodes
        PROVE  /\ dnlink'[k] >= Total(k)'
               /\ ~stray' => dnlink'[k] = Total(k)'
               /\ dtype'[k] = "free" \/ AtInit(k)' => dnlink'[k] = 0
    <3>1. Pending(k)' = Pending(k)
      <4>1. Pends(p, k)' <=> Pends(p, k)
        BY <1>1 DEF Pends, Local, Op
      <4>2. QED BY <1>1, <4>1, PendingSame
    <3>2. /\ Total(k) \in Nat /\ Total(k)' \in Nat /\ Total(k)' =< Total(k)
          /\ ~stray => Total(k)' = Total(k)
      BY <1>10, <3>1, FewerNames
    <3>3. dnlink[k] \in Int /\ dnlink' = dnlink /\ stray' = stray
      BY <1>1 DEF Inv, TypeOK, hist
    <3>4. dnlink'[k] >= Total(k)' /\ (~stray' => dnlink'[k] = Total(k)')
      BY <3>2, <3>3 DEF TInv, LinkInv
    <3>5. dtype'[k] = "free" \/ AtInit(k)' => dnlink'[k] = 0
      BY <1>1, <1>3 DEF TInv, LinkInv
    <3>6. QED BY <3>4, <3>5
  <2>2. QED BY <2>1 DEF LinkInv
<1>12. EmptyInv'
  <2>1. EmptyOf(p)'
    <3>1. EmptyOf(p)
      BY DEF TInv, EmptyInv
    <3>2. tgt[p] \in InodeOrNone
      BY DEF Inv, TypeOK
    <3>3. Then(p)' = Then(p) /\ tgt'[p] = tgt[p] /\ Op(p)' = Op(p)
      BY <1>1, <1>5 DEF Local, Op
    <3>4. Then(p) = "unlinked" => tgt[p] \in Inodes
      BY <1>1, <3>2 DEF PlaceOf, TgtPlaces, InodeOrNone
    <3>5. Then(p)' = "unlinked" => \A n \in Names: dirent'[tgt'[p]][n] = None
      BY <1>4, <3>1, <3>3, <3>4 DEF EmptyOf, Entries
    <3>6. Op(p)' = "link" /\ tgt'[p] # None => dtype'[tgt'[p]] # "dir"
      BY <1>1, <3>1, <3>2, <3>3 DEF EmptyOf, InodeOrNone
    <3>7. QED BY <3>5, <3>6 DEF EmptyOf
  <2>2. ASSUME NEW q \in Procs \ {p}
        PROVE  /\ Then(q) = "unlinked" => \A n \in Names: dirent'[tgt[q]][n] = None
               /\ Op(q) = "link" /\ tgt[q] # None => dtype'[tgt[q]] # "dir"
    <3>1. EmptyOf(q) /\ tgt[q] \in InodeOrNone /\ PlaceOf(q)
      BY DEF TInv, EmptyInv, Inv, TypeOK, PlaceInv
    <3>2. Then(q) = "unlinked" => tgt[q] \in Inodes
      BY <3>1 DEF PlaceOf, TgtPlaces, InodeOrNone
    <3>3. QED BY <1>1, <1>4, <3>1, <3>2 DEF EmptyOf, Entries, InodeOrNone
  <2>3. \A q \in Procs: EmptyOf(q)'
    BY <1>1, <2>1, <2>2, EmptyStep DEF TInv
  <2>4. ASSUME ~stray', NEW d \in Inodes \ {ROOTINO}, Named(d)' = {}, NEW n \in Names
        PROVE  dirent'[d][n] = None
    <3>1. ~stray /\ Named(d) = {}
      BY <1>1, <1>10, <2>4 DEF hist
    <3>2. QED BY <1>4, <3>1 DEF TInv, EmptyInv, Entries
  <2>5. QED BY <2>3, <2>4 DEF EmptyInv
<1>13. LeakInv'
  <2>1. \A k \in Inodes: k # i /\ Keeps(p, k) => Keeps(p, k)'
    BY <1>0, <1>1 DEF Keeps, Local
  <2>2. \A k \in Inodes: dtype'[k] # "free" => k # i
    BY <1>1
  <2>3. QED BY <1>1, <1>3, <2>1, <2>2, LeakStep DEF TInv, hist
<1>14. OnlyFullPanics'
  BY <1>1 DEF TInv, OnlyFullPanics
<1>15. QED BY <1>6, <1>7, <1>8, <1>9, <1>11, <1>12, <1>13, <1>14 DEF TInv

\* ialloc() takes an inode that has no names and that nobody has.
LEMMA IallocTree ==
  ASSUME Inv, TInv, NEW p \in Procs, NEW i \in Inodes, Ialloc(p, i)
  PROVE  TInv'
<1>0. PICK d0, n0: d0 = ip[p] /\ n0 = Name(p)
  OBVIOUS
<1>1. /\ pc[p] = "create" /\ PlaceOf(p)
      /\ d0 \in Inodes /\ dtype[d0] = "dir" /\ lock[d0] = None
      /\ tgt[p] = None /\ n0 \in Entries /\ dirent[d0][n0] = None
      /\ dtype[i] = "free"
      /\ Local(p, "init", "user", None, d0, i) /\ Others(p)
      /\ \A k \in Inodes: /\ k # i => dtype'[k] = dtype[k]
                          /\ dtype'[k] = "free" => k # i /\ dtype[k] = "free"
                          /\ dnlink'[k] = IF k = i THEN 0 ELSE dnlink[k]
                          /\ k # i /\ valid[k] => valid'[k]
      /\ UNCHANGED <<dirent, cwd, fd, call, panic, hist>>
  <2>1. /\ pc[p] = "create" /\ PlaceOf(p)
        /\ ip[p] \in Inodes /\ dtype[ip[p]] = "dir" /\ lock[ip[p]] = None
        /\ tgt[p] = None /\ Name(p) \in Entries /\ dirent[ip[p]][Name(p)] = None
        /\ dtype[i] = "free" /\ Kind(p) \in {"dir", "dev", "file"}
        /\ Local(p, "init", "user", None, ip[p], i) /\ Others(p)
        /\ UNCHANGED <<dirent, cwd, fd, call, panic, hist>>
    BY IallocEffect
  <2>2. \A k \in Inodes: /\ dtype'[k] = IF k = i THEN Kind(p) ELSE dtype[k]
                         /\ dnlink'[k] = IF k = i THEN 0 ELSE dnlink[k]
                         /\ ref'[k] = IF k = i THEN ref[k] + 1 ELSE ref[k]
                         /\ valid'[k] <=> (k = ip[p] \/ (valid[k] /\ ~(k = i /\ ref[k] = 0)))
                         /\ lock'[k] = IF k = ip[p] THEN p ELSE lock[k]
    BY IallocEffect
  <2>3. QED BY <1>0, <2>1, <2>2
<1>2. Unowned(i) /\ dnlink[i] = 0 /\ dirent[i] = NoEntry
  BY <1>1 DEF Unowned, TInv, LinkInv, TreeInv
<1>3. \A e \in Inodes, n \in Names: dirent[e][n] # i
  BY <1>1, NamedLinked
<1>4. ROOTINO # i
  BY <1>2, RootLinked
<1>5. \A k \in Inodes: AtInit(k)' <=> AtInit(k) \/ k = i
  BY <1>1 DEF AtInit, Local, Others
<1>6. \A k \in Inodes: k # i => (Unowned(k)' => Unowned(k))
  BY <1>1 DEF Unowned, Local, Others
<1>7. \A q \in Procs, k \in Inodes: Holds(q, k)' => Holds(q, k)
  BY <1>0, <1>1, NotNone DEF Holds, Local, Others
<1>8. OwnedInv'
  <2>1. ASSUME NEW q \in Procs, NEW k \in Inodes, Holds(q, k)' PROVE ~Unowned(k)'
    <3>1. ~Unowned(k)
      BY <1>7, <2>1 DEF TInv, OwnedInv
    <3>2. QED BY <1>2, <1>6, <3>1
  <2>2. \A q \in Procs: pc[q] = "init" => tgt[q] # i
    <3>1. SUFFICES ASSUME NEW q \in Procs, pc[q] = "init", tgt[q] = i PROVE FALSE
      OBVIOUS
    <3>2. Known(q, i)
      BY <3>1 DEF Known, Then, Iputs
    <3>3. QED BY <1>1, <3>2 DEF Inv, KnownInv, Safe
  <2>3. ASSUME NEW q \in Procs, NEW r \in Procs, pc'[q] = "init", pc'[r] = "init",
               tgt'[q] = tgt'[r]
        PROVE  q = r
    BY <1>1, <2>2, <2>3 DEF TInv, OwnedInv, Others, Local
  <2>4. QED BY <2>1, <2>3 DEF OwnedInv
<1>9. TreeInv'
  <2>1. ASSUME NEW d \in Inodes
        PROVE  /\ dtype'[d] # "dir" \/ AtInit(d)' => dirent'[d] = NoEntry
               /\ dtype'[d] = "dir" /\ ~AtInit(d)' => dirent'[d]["."] = d /\ dirent'[d][".."] # None
    BY <1>1, <1>2, <1>5 DEF TInv, TreeInv
  <2>2. \A d, e \in Inodes, n \in Names:
          dtype'[d] = "dir" /\ dirent'[e][n] = d =>
            dirent'[d][".."] = e /\ \A m \in Names: dirent'[e][m] = d => m = n
    BY <1>1, <1>3 DEF TInv, TreeInv
  <2>3. dtype'[ROOTINO] = "dir" /\ dirent'[ROOTINO][".."] = ROOTINO
    BY <1>1, <1>4, RootLinked DEF TInv, TreeInv
  <2>4. \A e \in Inodes, n \in Names: dirent'[e][n] # ROOTINO
    BY <1>1 DEF TInv, TreeInv
  <2>5. QED BY <2>1, <2>2, <2>3, <2>4 DEF TreeInv
<1>10. Acyclic'
  BY <1>1 DEF TInv, Acyclic
<1>11. NameInv'
  <2>1. ~AtInit(d0)
    BY <1>0, <1>1, HeldDir
  <2>2. n0 \in Names
    BY <1>1, <2>1, NewName
  <2>3. NameOf(p)'
    BY <1>0, <1>1, <2>2 DEF NameOf, Local, Name, Path
  <2>4. QED BY <1>1, <2>3, NameStep DEF TInv
<1>12. \A k: Named(k)' = Named(k) /\ Subdirs(k)' = Subdirs(k)
  BY <1>1, NamesSame
<1>13. LinkInv'
  <2>1. ASSUME NEW k \in Inodes PROVE Total(k)' = Total(k)
    <3>1. Op(p) \in Creates
      BY <1>1 DEF PlaceOf, Then, Iputs
    <3>2. Pends(p, k)' <=> Pends(p, k)
      BY <1>1, <3>1 DEF Pends, Op, Creates
    <3>3. Pending(k)' = Pending(k)
      BY <1>1, <3>2, PendingSame
    <3>4. QED BY <1>12, <3>3 DEF Total
  <2>2. dnlink' = dnlink
    <3>1. \A k \in Inodes: dnlink'[k] = dnlink[k]
      BY <1>1, <1>2
    <3>2. TypeOK'
      BY IallocEffect
    <3>3. QED BY <3>1, <3>2 DEF TypeOK, Inv
  <2>3. ASSUME NEW k \in Inodes
        PROVE  /\ dnlink'[k] >= Total(k)'
               /\ ~stray' => dnlink'[k] = Total(k)'
               /\ dtype'[k] = "free" \/ AtInit(k)' => dnlink'[k] = 0
    BY <1>1, <1>2, <1>5, <2>1, <2>2 DEF TInv, LinkInv, hist
  <2>4. QED BY <2>3 DEF LinkInv
<1>14. EmptyInv'
  <2>1. EmptyOf(p)'
    <3>1. Op(p) \in Creates
      BY <1>1 DEF PlaceOf, Then, Iputs
    <3>2. QED BY <1>1, <3>1 DEF EmptyOf, Local, Then, Iputs, Op, Creates
  <2>2. ASSUME NEW q \in Procs \ {p}
        PROVE  /\ Then(q) = "unlinked" => \A n \in Names: dirent'[tgt[q]][n] = None
               /\ Op(q) = "link" /\ tgt[q] # None => dtype'[tgt[q]] # "dir"
    <3>1. EmptyOf(q) /\ PlaceOf(q) /\ tgt[q] \in InodeOrNone
      BY DEF TInv, EmptyInv, Inv, PlaceInv, TypeOK
    <3>2. ASSUME Op(q) = "link", tgt[q] # None PROVE tgt[q] # i
      <4>1. pc[q] # "init"
        BY <3>1, <3>2 DEF PlaceOf, Then, Iputs, Creates
      <4>2. tgt[q] \in Inodes /\ Holds(q, tgt[q])
        BY <3>1, <3>2, <4>1 DEF Holds, InodeOrNone
      <4>3. ~Unowned(tgt[q])
        BY <4>2 DEF TInv, OwnedInv
      <4>4. QED BY <1>2, <4>3
    <3>3. QED BY <1>1, <3>1, <3>2 DEF EmptyOf, InodeOrNone
  <2>3. \A q \in Procs: EmptyOf(q)'
    BY <1>1, <2>1, <2>2, EmptyStep DEF TInv
  <2>4. QED BY <1>1, <1>12, <2>3 DEF TInv, EmptyInv, hist
<1>15. LeakInv'
  <2>1. Keeps(p, i)' /\ AtInit(i)'
    BY <1>1, <1>5 DEF Keeps, Local
  <2>2. \A k \in Inodes: Keeps(p, k) => Keeps(p, k)'
    BY <1>0, <1>1, NotNone DEF Keeps, Local
  <2>3. \A k \in Inodes:
          dtype'[k] # "free" /\ dnlink'[k] = 0 =>
            \/ /\ dtype[k] # "free" /\ dnlink[k] = 0
               /\ ref[k] > 0 /\ valid[k] => valid'[k]
               /\ Keeps(p, k) => \E q \in Procs: Keeps(q, k)'
               /\ AtInit(k) => AtInit(k)'
            \/ (\E q \in Procs: Keeps(q, k)') /\ (valid'[k] \/ AtInit(k)')
    BY <1>1, <1>5, <2>1, <2>2
  <2>4. QED BY <1>1, <2>3, LeakStep DEF TInv, hist
<1>16. OnlyFullPanics'
  BY <1>1 DEF TInv, OnlyFullPanics
<1>17. QED BY <1>8, <1>9, <1>10, <1>11, <1>13, <1>14, <1>15, <1>16 DEF TInv

\* The new inode gets its link, its dots and its name.
LEMMA CreateInitTree ==
  ASSUME Inv, TInv, NEW p \in Procs, CreateInit(p)
  PROVE  TInv'
<1>0. PICK d0, n0, i: d0 = ip[p] /\ n0 = Name(p) /\ i = tgt[p]
  OBVIOUS
<1>1. /\ pc[p] = "init" /\ PlaceOf(p) /\ Op(p) \in Creates
      /\ i \in Inodes /\ dtype[i] # "free" /\ lock[i] = None
      /\ d0 \in Inodes /\ dtype[d0] = "dir"
      /\ lock[d0] = p /\ i # d0 /\ n0 \in Entries
      /\ Local(p, "put", "created", d0, None, i) /\ Others(p) /\ TypeOK'
      /\ stray' = (stray \/ dnlink[d0] = 0)
      /\ UNCHANGED <<dtype, cwd, fd, call, panic, calls, overlap, lost>>
  <2>1. /\ pc[p] = "init" /\ PlaceOf(p) /\ Op(p) \in Creates
        /\ tgt[p] \in Inodes /\ ref[tgt[p]] > 0 /\ dtype[tgt[p]] # "free" /\ lock[tgt[p]] = None
        /\ ip[p] \in Inodes /\ ref[ip[p]] > 0 /\ valid[ip[p]] /\ dtype[ip[p]] = "dir"
        /\ lock[ip[p]] = p /\ tgt[p] # ip[p] /\ Name(p) \in Entries
        /\ Local(p, "put", "created", ip[p], None, tgt[p]) /\ Others(p)
        /\ TypeOK' /\ CallInv' /\ Writes({ip[p], tgt[p]})
        /\ stray' = (stray \/ dnlink[ip[p]] = 0)
        /\ UNCHANGED <<dtype, ref, cwd, fd, call, panic, calls, overlap, lost>>
    BY CreateInitEffect, Zenon
  <2>2. QED BY <1>0, <2>1
<1>2. \A k \in Inodes:
        /\ dnlink'[k] = IF k = i THEN 1
                        ELSE IF k = d0 /\ dtype[i] = "dir" THEN dnlink[k] + 1
                        ELSE dnlink[k]
        /\ valid'[k] <=> (k = i \/ valid[k])
  <2>1. \A k \in Inodes:
          /\ dnlink'[k] = IF k = tgt[p] THEN 1
                          ELSE IF k = ip[p] /\ dtype[tgt[p]] = "dir" THEN dnlink[k] + 1
                          ELSE dnlink[k]
          /\ valid'[k] <=> (k = tgt[p] \/ valid[k])
          /\ lock'[k] = IF k = tgt[p] THEN p ELSE IF k = ip[p] THEN None ELSE lock[k]
    BY CreateInitEffect, Zenon
  <2>2. QED BY <1>0, <2>1
<1>3. \A d \in Inodes, n \in Entries:
        dirent'[d][n] = IF d = d0 /\ n = n0 THEN i
                        ELSE IF d = i /\ dtype[d] = "dir" /\ n = "." THEN d
                        ELSE IF d = i /\ dtype[d] = "dir" /\ n = ".." THEN d0
                        ELSE dirent[d][n]
  <2>1. \A d \in Inodes, n \in Entries:
          dirent'[d][n] = IF d = ip[p] /\ n = Name(p) THEN tgt[p]
                          ELSE IF d = tgt[p] /\ dtype[d] = "dir" /\ n = "." THEN d
                          ELSE IF d = tgt[p] /\ dtype[d] = "dir" /\ n = ".." THEN ip[p]
                          ELSE dirent[d][n]
    BY CreateInitEffect, Zenon
  <2>2. QED BY <1>0, <2>1
<1>4. n0 \in Names
  BY <1>0, <1>1 DEF TInv, NameInv, NameOf
<1>5. AtInit(i) /\ ~AtInit(d0) /\ ~Unowned(d0)
  BY <1>0, <1>1, HeldDir DEF AtInit
<1>6. /\ dnlink[i] = 0 /\ Total(i) = 0 /\ Named(i) = {} /\ dirent[i] = NoEntry
      /\ i # ROOTINO
  <2>1. dnlink[i] = 0 /\ dirent[i] = NoEntry /\ Total(i) = 0
    BY <1>1, <1>5, TotalParts DEF TInv, LinkInv, TreeInv
  <2>2. QED BY <1>1, <1>5, <2>1, TotalParts, RootLinked
<1>7. \A k \in Inodes: AtInit(k)' <=> AtInit(k) /\ k # i
  <2>1. \A q \in Procs: pc[q] = "init" /\ tgt[q] = i => q = p
    BY <1>0, <1>1 DEF TInv, OwnedInv
  <2>2. QED BY <1>0, <1>1, <2>1 DEF AtInit, Local, Others
<1>8. /\ \A d \in Inodes, n \in Names: dirent'[d][n] = IF d = d0 /\ n = n0 THEN i ELSE dirent[d][n]
      /\ \A d \in Inodes: d # i => dirent'[d]["."] = dirent[d]["."] /\ dirent'[d][".."] = dirent[d][".."]
      /\ dtype[i] = "dir" => dirent'[i]["."] = i /\ dirent'[i][".."] = d0
  <2>1. "." \in Entries /\ ".." \in Entries /\ "." \notin Names /\ ".." \notin Names
    BY DirectoryConstants DEF Entries
  <2>2. \A n \in Names: n \in Entries
    BY DEF Entries
  <2>3. QED BY <1>1, <1>3, <1>4, <2>1, <2>2
<1>9. \A d \in Inodes: d # d0 /\ (d # i \/ dtype[i] # "dir") => dirent'[d] = dirent[d]
  <2>1. SUFFICES ASSUME NEW d \in Inodes, d # d0, d # i \/ dtype[i] # "dir"
                 PROVE  dirent'[d] = dirent[d]
    OBVIOUS
  <2>2. \A n \in Entries: dirent'[d][n] = dirent[d][n]
    BY <1>3, <2>1
  <2>3. QED BY <1>1, <2>2, SameRow DEF Inv
<1>10. OwnedInv'
  <2>1. \A k \in Inodes: Unowned(k)' => Unowned(k)
    BY <1>1 DEF Unowned, Local, Others
  <2>2. ~Unowned(i)'
    <3>1. ASSUME NEW q \in Procs, pc[q] = "free", put[q] = i PROVE FALSE
      <4>1. lock[i] = q
        BY <1>1, <3>1 DEF Inv, LockInv, LockedBy
      <4>2. QED BY <1>1, <4>1, NotNone
    <3>2. ~AtInit(i)'
      BY <1>1, <1>7
    <3>3. QED BY <1>1, <3>1, <3>2 DEF Unowned, AtInit, Local, Others
  <2>3. \A k \in Inodes: Holds(p, k)' => Holds(p, k) \/ k = i
    BY <1>0, <1>1, NotNone DEF Holds, Local
  <2>4. \A k \in Inodes: Holds(p, k)' => ~Unowned(k)'
    BY <2>1, <2>2, <2>3 DEF TInv, OwnedInv
  <2>5. pc'[p] # "init"
    BY <1>1 DEF Local
  <2>6. QED BY <1>1, <2>1, <2>4, <2>5, OwnedStep DEF TInv
<1>11. TreeInv'
  <2>1. ASSUME NEW d \in Inodes
        PROVE  /\ dtype[d] # "dir" \/ AtInit(d)' => dirent'[d] = NoEntry
               /\ dtype[d] = "dir" /\ ~AtInit(d)' => dirent'[d]["."] = d /\ dirent'[d][".."] # None
    <3>1. dtype[d] # "dir" \/ AtInit(d)' => dirent'[d] = NoEntry
      BY <1>1, <1>5, <1>7, <1>9 DEF TInv, TreeInv
    <3>2. dtype[d] = "dir" /\ ~AtInit(d)' => dirent'[d]["."] = d /\ dirent'[d][".."] # None
      BY <1>1, <1>7, <1>8, NotNone DEF TInv, TreeInv
    <3>3. QED BY <3>1, <3>2
  <2>2. ASSUME NEW d \in Inodes, NEW e \in Inodes, NEW n \in Names, dtype[d] = "dir",
               dirent'[e][n] = d
        PROVE  dirent'[d][".."] = e /\ \A m \in Names: dirent'[e][m] = d => m = n
    <3>1. CASE d = i
      <4>1. \A m \in Names: dirent[e][m] # i
        <5>1. SUFFICES ASSUME NEW m \in Names, dirent[e][m] = i PROVE FALSE
          OBVIOUS
        <5>2. <<e, m>> \in Named(i)
          BY <5>1 DEF Named
        <5>3. QED BY <1>6, <5>2
      <4>2. e = d0 /\ n = n0
        BY <1>8, <2>2, <3>1, <4>1
      <4>3. QED BY <1>8, <2>2, <3>1, <4>1, <4>2
    <3>2. CASE d # i
      <4>1. \A m \in Names: dirent'[e][m] = d => dirent[e][m] = d
        BY <1>8, <3>2
      <4>2. QED BY <1>8, <2>2, <3>2, <4>1 DEF TInv, TreeInv
    <3>3. QED BY <3>1, <3>2
  <2>3. dirent'[ROOTINO][".."] = ROOTINO /\ dtype[ROOTINO] = "dir"
    BY <1>6, <1>8, RootLinked DEF TInv, TreeInv
  <2>4. \A e \in Inodes, n \in Names: dirent'[e][n] # ROOTINO
    BY <1>6, <1>8 DEF TInv, TreeInv
  <2>5. QED BY <1>1, <2>1, <2>2, <2>3, <2>4 DEF TreeInv
<1>12. Acyclic'
  <2>1. SUFFICES ASSUME NEW D \in SUBSET Inodes, D # {}
                 PROVE  \E d \in D: \A n \in Names: dirent'[d][n] \notin D
    BY DEF Acyclic
  <2>2. PICK d \in D: \A n \in Names: dirent[d][n] \notin D
    BY <2>1 DEF TInv, Acyclic
  <2>3. CASE i \notin D
    BY <1>8, <2>2, <2>3
  <2>4. CASE i \in D
    <3>1. \A n \in Names: dirent'[i][n] = None
      BY <1>1, <1>6, <1>8 DEF NoEntry, Entries
    <3>2. QED BY <2>4, <3>1, NotNone
  <2>5. QED BY <2>3, <2>4
<1>13. NameInv' /\ \A q \in Procs: EmptyOf(q)'
  <2>1. \A d \in Inodes: dirent'[d] = dirent[d] \/ lock[d] \in {None, p}
    BY <1>1, <1>9
  <2>2. NameOf(p)' /\ EmptyOf(p)'
    BY <1>1 DEF NameOf, EmptyOf, Local, Then, Iputs, Op, Creates
  <2>3. QED BY <1>1, <2>1, <2>2, OthersNames
<1>14. \A k: /\ Named(k) \ {<<d0, n0>>} = Named(k)' \ {<<d0, n0>>}
             /\ <<d0, n0>> \in Named(k) <=> dirent[d0][n0] = k
             /\ <<d0, n0>> \in Named(k)' <=> k = i
             /\ k # i /\ dirent[d0][n0] # k => Named(k)' = Named(k)
  BY <1>1, <1>4, <1>8, NamedStep
<1>15. dirent[d0][n0] = None
  BY <1>0, <1>1 DEF TInv, NameInv, NameOf
<1>16. ASSUME NEW k \in Inodes
       PROVE  /\ Subdirs(k) \ {i} = Subdirs(k)' \ {i} /\ i \notin Subdirs(k)
              /\ i \in Subdirs(k)' <=> dtype[i] = "dir" /\ k = d0
  <2>1. \A s \in Inodes: s # i => Named(s)' = Named(s)
    BY <1>14, <1>15, NotNone
  <2>2. \A s \in Inodes: s # i => (s \in Subdirs(k)' <=> s \in Subdirs(k))
    BY <1>8, <2>1 DEF Subdirs
  <2>3. Subdirs(k) \subseteq Inodes /\ Subdirs(k)' \subseteq Inodes
    BY DEF Subdirs
  <2>4. dirent[i][".."] = None /\ (dtype[i] # "dir" => dirent'[i][".."] = None)
    BY <1>1, <1>6, <1>9 DEF NoEntry, Entries
  <2>5. Named(i)' # {}
    BY <1>14
  <2>6. i \notin Subdirs(k)
    BY <2>4, NotNone DEF Subdirs
  <2>7. i \in Subdirs(k)' <=> dtype[i] = "dir" /\ k = d0
    BY <1>1, <1>8, <2>4, <2>5, NotNone DEF Subdirs
  <2>8. Subdirs(k) \ {i} = Subdirs(k)' \ {i}
    BY <2>2, <2>3
  <2>9. QED BY <2>6, <2>7, <2>8
<1>17. LinkInv'
  <2>1. ASSUME NEW k \in Inodes
        PROVE  /\ Total(k) \in Nat /\ Total(k)' \in Nat
               /\ Total(k)' = (Total(k) + One(k = i)) + One(dtype[i] = "dir" /\ k = d0)
    <3>1. ~Pends(p, k) /\ ~Pends(p, k)'
      BY <1>1 DEF Pends, Op, Creates
    <3>2. Pending(k) \ {p} = Pending(k)' \ {p} /\ p \notin Pending(k) /\ p \notin Pending(k)'
      BY <1>1, <3>1, PendingStep DEF Pending, Pends
    <3>3. /\ Total(k) \in Nat /\ Total(k)' \in Nat
          /\ Total(k)' = (Total(k) - (One(<<d0, n0>> \in Named(k)) + One(i \in Subdirs(k)) + One(p \in Pending(k))))
                         + (One(<<d0, n0>> \in Named(k)') + One(i \in Subdirs(k)') + One(p \in Pending(k)'))
      <4>1. Named(k) \ {<<d0, n0>>} = Named(k)' \ {<<d0, n0>>}
        BY <1>14
      <4>2. Subdirs(k) \ {i} = Subdirs(k)' \ {i}
        BY <1>16
      <4>3. Pending(k) \ {p} = Pending(k)' \ {p}
        BY <3>2
      <4>4. QED BY <4>1, <4>2, <4>3, TotalStep
    <3>4. One(<<d0, n0>> \in Named(k)) = 0 /\ One(i \in Subdirs(k)) = 0 /\ One(p \in Pending(k)) = 0
      BY <1>14, <1>15, <1>16, <3>2, NotNone DEF One
    <3>5. /\ One(<<d0, n0>> \in Named(k)') = One(k = i)
          /\ One(i \in Subdirs(k)') = One(dtype[i] = "dir" /\ k = d0)
          /\ One(p \in Pending(k)') = 0
      BY <1>14, <1>16, <3>2 DEF One
    <3>6. One(k = i) \in Nat /\ One(dtype[i] = "dir" /\ k = d0) \in Nat
      BY DEF One
    <3>7. QED BY <3>3, <3>4, <3>5, <3>6
  <2>2. ASSUME NEW k \in Inodes
        PROVE  /\ dnlink'[k] >= Total(k)'
               /\ ~stray' => dnlink'[k] = Total(k)'
               /\ dtype'[k] = "free" \/ AtInit(k)' => dnlink'[k] = 0
    <3>1. /\ dnlink[k] \in Int /\ dnlink[k] >= Total(k)
          /\ ~stray => dnlink[k] = Total(k)
          /\ dtype[k] = "free" \/ AtInit(k) => dnlink[k] = 0
      BY DEF TInv, LinkInv, Inv, TypeOK
    <3>2. CASE k = i
      <4>1. Total(k)' = 1
        BY <1>1, <1>6, <2>1, <3>2 DEF One
      <4>2. QED BY <1>1, <1>2, <1>7, <3>2, <4>1
    <3>3. CASE k = d0 /\ dtype[i] = "dir"
      <4>1. Total(k)' = Total(k) + 1 /\ Total(k) \in Nat
        BY <1>1, <2>1, <3>3 DEF One
      <4>2. dnlink'[k] = dnlink[k] + 1
        BY <1>1, <1>2, <3>3
      <4>3. dtype'[k] # "free" /\ ~AtInit(k)' /\ (~stray' => ~stray)
        BY <1>1, <1>5, <1>7, <3>3
      <4>4. QED BY <3>1, <4>1, <4>2, <4>3
    <3>4. CASE k # i /\ ~(k = d0 /\ dtype[i] = "dir")
      <4>1. Total(k)' = Total(k) /\ Total(k) \in Nat
        BY <2>1, <3>4 DEF One
      <4>2. QED BY <1>1, <1>2, <1>7, <3>1, <3>4, <4>1
    <3>5. QED BY <3>2, <3>3, <3>4
  <2>3. QED BY <2>2 DEF LinkInv
<1>18. EmptyInv'
  <2>1. SUFFICES ASSUME ~stray', NEW d \in Inodes \ {ROOTINO}, Named(d)' = {}, NEW n \in Names
                 PROVE  dirent'[d][n] = None
    BY <1>13 DEF EmptyInv
  <2>2. ~stray /\ dnlink[d0] # 0
    BY <1>1, <2>1
  <2>3. Named(d) = {}
    BY <1>14, <1>15, <2>1, NotNone
  <2>4. d # d0
    <3>1. \A q \in Procs: lock[d0] = q => Then(q) # "unlinked"
      BY <1>1 DEF Then, Iputs
    <3>2. QED BY <1>1, <2>1, <2>2, <2>3, <3>1, NotGone
  <2>5. QED BY <1>8, <2>1, <2>2, <2>3, <2>4 DEF TInv, EmptyInv
<1>19. LeakInv'
  <2>1. \A k \in Inodes: Keeps(p, k) => Keeps(p, k)'
    BY <1>0, <1>1, NotNone DEF Keeps, Local
  <2>2. \A k \in Inodes: dnlink'[k] = 0 => k # i /\ dnlink[k] = 0
    <3>1. \A k \in Inodes: dnlink[k] \in Nat
      BY NoLessLinks
    <3>2. QED BY <1>2, <3>1
  <2>3. \A k \in Inodes:
          dtype'[k] # "free" /\ dnlink'[k] = 0 =>
            \/ /\ dtype[k] # "free" /\ dnlink[k] = 0
               /\ ref[k] > 0 /\ valid[k] => valid'[k]
               /\ Keeps(p, k) => \E q \in Procs: Keeps(q, k)'
               /\ AtInit(k) => AtInit(k)'
            \/ (\E q \in Procs: Keeps(q, k)') /\ (valid'[k] \/ AtInit(k)')
    BY <1>1, <1>2, <1>7, <2>1, <2>2
  <2>4. QED BY <1>1, <2>3, LeakStep DEF TInv
<1>20. OnlyFullPanics'
  BY <1>1 DEF TInv, OnlyFullPanics
<1>21. QED BY <1>10, <1>11, <1>12, <1>13, <1>17, <1>18, <1>19, <1>20 DEF TInv

\* unlink() clears the entry, and has the link still to take down.
LEMMA UnlinkEntryTree ==
  ASSUME Inv, TInv, NEW p \in Procs, UnlinkEntry(p)
  PROVE  TInv'
<1>0. PICK d0, n0, i: d0 = ip[p] /\ n0 = Name(p) /\ i = tgt[p]
  OBVIOUS
<1>1. /\ pc[p] = "victim" /\ PlaceOf(p) /\ Op(p) = "unlink"
      /\ i \in Inodes /\ dtype[i] # "free" /\ lock[i] = None
      /\ d0 \in Inodes /\ valid[d0] /\ dtype[d0] = "dir" /\ lock[d0] = p /\ i # d0
      /\ dtype[i] = "dir" => isdirempty(i)
      /\ Local(p, "put", "unlinked", d0, None, i) /\ Others(p) /\ TypeOK'
      /\ UNCHANGED <<dtype, cwd, fd, call, panic, hist>>
  <2>1. /\ pc[p] = "victim" /\ PlaceOf(p) /\ Op(p) = "unlink"
        /\ tgt[p] \in Inodes /\ ref[tgt[p]] > 0 /\ dtype[tgt[p]] # "free" /\ lock[tgt[p]] = None
        /\ ip[p] \in Inodes /\ ref[ip[p]] > 0 /\ valid[ip[p]] /\ dtype[ip[p]] = "dir"
        /\ lock[ip[p]] = p /\ tgt[p] # ip[p] /\ Name(p) \in Entries
        /\ dtype[tgt[p]] = "dir" => isdirempty(tgt[p])
        /\ Local(p, "put", "unlinked", ip[p], None, tgt[p]) /\ Others(p)
        /\ TypeOK' /\ CallInv' /\ Writes({ip[p], tgt[p]})
        /\ UNCHANGED <<dtype, ref, cwd, fd, call, panic, hist>>
    BY UnlinkEntryEffect, Zenon
  <2>2. QED BY <1>0, <2>1
<1>2. \A k \in Inodes:
        /\ dnlink'[k] = IF k = d0 /\ dtype[i] = "dir" THEN dnlink[k] - 1 ELSE dnlink[k]
        /\ valid'[k] <=> (k = i \/ valid[k])
  <2>1. \A k \in Inodes:
          /\ dnlink'[k] = IF k = ip[p] /\ dtype[tgt[p]] = "dir" THEN dnlink[k] - 1 ELSE dnlink[k]
          /\ valid'[k] <=> (k = tgt[p] \/ valid[k])
          /\ lock'[k] = IF k = tgt[p] THEN p ELSE IF k = ip[p] THEN None ELSE lock[k]
    BY UnlinkEntryEffect, Zenon
  <2>2. QED BY <1>0, <2>1
<1>3. \A d \in Inodes, n \in Entries:
        dirent'[d][n] = IF d = d0 /\ n = n0 THEN None ELSE dirent[d][n]
  <2>1. \A d \in Inodes, n \in Entries:
          dirent'[d][n] = IF d = ip[p] /\ n = Name(p) THEN None ELSE dirent[d][n]
    BY UnlinkEntryEffect, Zenon
  <2>2. QED BY <1>0, <2>1
<1>4. n0 \in Names /\ dirent[d0][n0] = i
  BY <1>0, <1>1 DEF TInv, NameInv, NameOf
<1>5. i # ROOTINO /\ ~AtInit(d0)
  BY <1>0, <1>1, <1>4, HeldDir DEF TInv, TreeInv
<1>6. pc[p] \notin {"init", "free"} /\ pc'[p] \notin {"init", "free"} /\ put[p] = None
      /\ ret[p] = "user"
  BY <1>1 DEF Local, PlaceOf, Iputs
<1>7. \A k: AtInit(k)' <=> AtInit(k)
  BY <1>1, <1>6, InitSame
<1>8. /\ \A d \in Inodes, n \in Names: dirent'[d][n] = IF d = d0 /\ n = n0 THEN None ELSE dirent[d][n]
      /\ \A d \in Inodes: dirent'[d]["."] = dirent[d]["."] /\ dirent'[d][".."] = dirent[d][".."]
  <2>1. "." \in Entries /\ ".." \in Entries /\ "." \notin Names /\ ".." \notin Names
    BY DirectoryConstants DEF Entries
  <2>2. \A n \in Names: n \in Entries
    BY DEF Entries
  <2>3. QED BY <1>3, <1>4, <2>1, <2>2
<1>9. \A d \in Inodes: d # d0 => dirent'[d] = dirent[d]
  <2>1. SUFFICES ASSUME NEW d \in Inodes, d # d0 PROVE dirent'[d] = dirent[d]
    OBVIOUS
  <2>2. \A n \in Entries: dirent'[d][n] = dirent[d][n]
    BY <1>3, <2>1
  <2>3. QED BY <1>1, <2>2, SameRow DEF Inv
<1>10. \A n \in Names: dirent[i][n] = None /\ dirent'[i][n] = None
  <2>1. dtype[i] # "dir" => dirent[i] = NoEntry
    BY <1>1 DEF TInv, TreeInv
  <2>2. \A n \in Names: dirent[i][n] = None
    BY <1>1, <2>1 DEF isdirempty, NoEntry, Entries
  <2>3. QED BY <1>1, <1>8, <2>2
<1>11. OwnedInv'
  <2>1. \A k \in Inodes: Holds(p, k)' => Holds(p, k) \/ k = None
    BY <1>0, <1>1, <1>6, NotNone DEF Holds, Local
  <2>2. OwnedInv /\ (None \in Inodes => ~Unowned(None))
    BY NotNone DEF TInv
  <2>3. QED BY <1>1, <1>6, <2>1, <2>2, CalmOwned
<1>12. TreeInv'
  <2>1. ASSUME NEW d \in Inodes
        PROVE  /\ dtype[d] # "dir" \/ AtInit(d) => dirent'[d] = NoEntry
               /\ dtype[d] = "dir" /\ ~AtInit(d) => dirent'[d]["."] = d /\ dirent'[d][".."] # None
    BY <1>1, <1>5, <1>8, <1>9 DEF TInv, TreeInv
  <2>2. ASSUME NEW d \in Inodes, NEW e \in Inodes, NEW n \in Names, dtype[d] = "dir",
               dirent'[e][n] = d
        PROVE  dirent'[d][".."] = e /\ \A m \in Names: dirent'[e][m] = d => m = n
    <3>1. \A m \in Names: dirent'[e][m] = d => dirent[e][m] = d
      BY <1>8, NotNone
    <3>2. QED BY <1>8, <2>2, <3>1 DEF TInv, TreeInv
  <2>3. dirent'[ROOTINO][".."] = ROOTINO /\ dtype[ROOTINO] = "dir"
    BY <1>8, RootLinked DEF TInv, TreeInv
  <2>4. \A e \in Inodes, n \in Names: dirent'[e][n] # ROOTINO
    BY <1>8, RootLinked, NotNone DEF TInv, TreeInv
  <2>5. QED BY <1>1, <1>7, <2>1, <2>2, <2>3, <2>4 DEF TreeInv
<1>13. Acyclic'
  <2>1. SUFFICES ASSUME NEW D \in SUBSET Inodes, D # {}
                 PROVE  \E d \in D: \A n \in Names: dirent'[d][n] \notin D
    BY DEF Acyclic
  <2>2. PICK d \in D: \A n \in Names: dirent[d][n] \notin D
    BY <2>1 DEF TInv, Acyclic
  <2>3. QED BY <1>8, <2>2, NotNone
<1>14. NameInv' /\ \A q \in Procs: EmptyOf(q)'
  <2>1. \A d \in Inodes: dirent'[d] = dirent[d] \/ lock[d] \in {None, p}
    BY <1>1, <1>9
  <2>2. NameOf(p)'
    BY <1>1 DEF NameOf, Local
  <2>3. EmptyOf(p)'
    BY <1>1, <1>10 DEF EmptyOf, Local, Then, Iputs, Op
  <2>4. QED BY <1>1, <2>1, <2>2, <2>3, OthersNames
<1>15. \A k: /\ Named(k) \ {<<d0, n0>>} = Named(k)' \ {<<d0, n0>>}
             /\ <<d0, n0>> \in Named(k) <=> dirent[d0][n0] = k
             /\ <<d0, n0>> \in Named(k)' <=> k = None
             /\ k # None /\ dirent[d0][n0] # k => Named(k)' = Named(k)
  BY <1>1, <1>4, <1>8, NamedStep
<1>16. dtype[i] = "dir" => dirent[i][".."] = d0 /\ Named(i)' = {}
  <2>1. SUFFICES ASSUME dtype[i] = "dir" PROVE dirent[i][".."] = d0 /\ Named(i)' = {}
    OBVIOUS
  <2>2. dirent[i][".."] = d0
    BY <1>1, <1>4, <2>1 DEF TInv, TreeInv
  <2>3. ASSUME NEW e \in Inodes, NEW m \in Names, dirent'[e][m] = i PROVE FALSE
    <3>1. dirent[e][m] = i
      BY <1>1, <1>8, <2>3, NotNone
    <3>2. e = d0 /\ m = n0
      BY <1>1, <1>4, <2>1, <2>2, <3>1 DEF TInv, TreeInv
    <3>3. QED BY <1>1, <1>8, <2>3, <3>2, NotNone
  <2>4. QED BY <2>2, <2>3 DEF Named
<1>17. ASSUME NEW k \in Inodes
       PROVE  /\ Subdirs(k) \ {i} = Subdirs(k)' \ {i} /\ i \notin Subdirs(k)'
              /\ i \in Subdirs(k) <=> dtype[i] = "dir" /\ k = d0
  <2>1. \A s \in Inodes: s # i => Named(s)' = Named(s)
    BY <1>4, <1>15, NotNone
  <2>2. \A s \in Inodes: s # i => (s \in Subdirs(k)' <=> s \in Subdirs(k))
    BY <1>8, <2>1 DEF Subdirs
  <2>3. Subdirs(k) \subseteq Inodes /\ Subdirs(k)' \subseteq Inodes
    BY DEF Subdirs
  <2>4. dtype[i] # "dir" => dirent[i][".."] = None /\ dirent'[i][".."] = None
    BY <1>1, <1>8 DEF TInv, TreeInv, NoEntry, Entries
  <2>5. <<d0, n0>> \in Named(i)
    BY <1>4, <1>15
  <2>6. i \notin Subdirs(k)'
    BY <1>5, <1>16, <2>4, NotNone DEF Subdirs
  <2>7. i \in Subdirs(k) <=> dtype[i] = "dir" /\ k = d0
    BY <1>1, <1>16, <2>4, <2>5, NotNone DEF Subdirs
  <2>8. Subdirs(k) \ {i} = Subdirs(k)' \ {i}
    BY <2>2, <2>3
  <2>9. QED BY <2>6, <2>7, <2>8
<1>18. LinkInv'
  <2>1. ASSUME NEW k \in Inodes
        PROVE  /\ Total(k) \in Nat /\ Total(k)' \in Nat
               /\ Total(k)' = Total(k) - One(dtype[i] = "dir" /\ k = d0)
    <3>1. ~Pends(p, k) /\ (Pends(p, k)' <=> k = i)
      BY <1>1, <1>6 DEF Pends, Op, Local
    <3>2. /\ Pending(k) \ {p} = Pending(k)' \ {p} /\ p \notin Pending(k)
          /\ p \in Pending(k)' <=> k = i
      BY <1>1, <3>1, PendingStep DEF Pending, Pends
    <3>3. /\ Total(k) \in Nat /\ Total(k)' \in Nat
          /\ Total(k)' = (Total(k) - (One(<<d0, n0>> \in Named(k)) + One(i \in Subdirs(k)) + One(p \in Pending(k))))
                         + (One(<<d0, n0>> \in Named(k)') + One(i \in Subdirs(k)') + One(p \in Pending(k)'))
      <4>1. Named(k) \ {<<d0, n0>>} = Named(k)' \ {<<d0, n0>>}
        BY <1>15
      <4>2. Subdirs(k) \ {i} = Subdirs(k)' \ {i}
        BY <1>17
      <4>3. Pending(k) \ {p} = Pending(k)' \ {p}
        BY <3>2
      <4>4. QED BY <4>1, <4>2, <4>3, TotalStep
    <3>4. /\ One(<<d0, n0>> \in Named(k)) = One(k = i)
          /\ One(i \in Subdirs(k)) = One(dtype[i] = "dir" /\ k = d0)
          /\ One(p \in Pending(k)) = 0
      BY <1>4, <1>15, <1>17, <3>2 DEF One
    <3>5. One(<<d0, n0>> \in Named(k)') = 0 /\ One(i \in Subdirs(k)') = 0
      BY <1>15, <1>17, NotNone DEF One
    <3>6. One(p \in Pending(k)') = One(k = i)
      BY <3>2 DEF One
    <3>7. One(k = i) \in Nat /\ One(dtype[i] = "dir" /\ k = d0) \in Nat
      BY DEF One
    <3>8. QED BY <3>3, <3>4, <3>5, <3>6, <3>7
  <2>2. ASSUME NEW k \in Inodes
        PROVE  /\ dnlink'[k] >= Total(k)'
               /\ ~stray' => dnlink'[k] = Total(k)'
               /\ dtype'[k] = "free" \/ AtInit(k)' => dnlink'[k] = 0
    <3>1. /\ dnlink[k] \in Int /\ dnlink[k] >= Total(k)
          /\ ~stray => dnlink[k] = Total(k)
          /\ dtype[k] = "free" \/ AtInit(k) => dnlink[k] = 0
      BY DEF TInv, LinkInv, Inv, TypeOK
    <3>2. stray' = stray /\ dtype' = dtype
      BY <1>1 DEF hist
    <3>3. CASE k = d0 /\ dtype[i] = "dir"
      <4>1. Total(k)' = Total(k) - 1 /\ Total(k) \in Nat
        BY <2>1, <3>3 DEF One
      <4>2. dnlink'[k] = dnlink[k] - 1
        BY <1>2, <3>3
      <4>3. dtype'[k] # "free" /\ ~AtInit(k)'
        BY <1>1, <1>5, <1>7, <3>2, <3>3
      <4>4. QED BY <3>1, <3>2, <4>1, <4>2, <4>3
    <3>4. CASE ~(k = d0 /\ dtype[i] = "dir")
      <4>1. Total(k)' = Total(k) /\ Total(k) \in Nat
        BY <2>1, <3>4 DEF One
      <4>2. dnlink'[k] = dnlink[k]
        BY <1>2, <3>4
      <4>3. QED BY <1>7, <3>1, <3>2, <4>1, <4>2
    <3>5. QED BY <3>3, <3>4
  <2>3. QED BY <2>2 DEF LinkInv
<1>19. EmptyInv'
  <2>1. SUFFICES ASSUME ~stray', NEW d \in Inodes \ {ROOTINO}, Named(d)' = {}, NEW n \in Names
                 PROVE  dirent'[d][n] = None
    BY <1>14 DEF EmptyInv
  <2>2. CASE d = i
    BY <1>10, <2>2
  <2>3. CASE d # i
    <3>1. Named(d) = {}
      BY <1>4, <1>15, <2>1, <2>3, NotNone
    <3>2. ~stray
      BY <1>1, <2>1 DEF hist
    <3>3. QED BY <1>8, <2>1, <3>1, <3>2 DEF TInv, EmptyInv
  <2>4. QED BY <2>2, <2>3
<1>20. LeakInv'
  <2>1. \A k \in Inodes: Keeps(p, k) => Keeps(p, k)'
    BY <1>0, <1>1, <1>6, NotNone DEF Keeps, Local
  <2>2. Keeps(p, d0)' /\ valid'[d0]
    BY <1>1, <1>2 DEF Keeps, Local
  <2>3. \A k \in Inodes:
          dtype'[k] # "free" /\ dnlink'[k] = 0 =>
            \/ /\ dtype[k] # "free" /\ dnlink[k] = 0
               /\ ref[k] > 0 /\ valid[k] => valid'[k]
               /\ Keeps(p, k) => \E q \in Procs: Keeps(q, k)'
               /\ AtInit(k) => AtInit(k)'
            \/ (\E q \in Procs: Keeps(q, k)') /\ (valid'[k] \/ AtInit(k)')
    BY <1>1, <1>2, <1>7, <2>1, <2>2
  <2>4. QED BY <1>1, <2>3, LeakStep DEF TInv, hist
<1>21. OnlyFullPanics'
  BY <1>1 DEF TInv, OnlyFullPanics
<1>22. QED BY <1>11, <1>12, <1>13, <1>14, <1>18, <1>19, <1>20, <1>21 DEF TInv

-----------------------------------------------------------------------------
(* The invariant: what it says at first, and after any step.               *)

LEMMA SameTree ==
  ASSUME TInv, OnlyFullPanics',
         UNCHANGED <<dtype, dnlink, ref, valid, dirent, cwd, fd, pc, call, ip, tgt, put, ret,
                     stray, overlap>>
  PROVE  TInv'
<1>1. ASSUME NEW q \in Procs
      PROVE  /\ Then(q)' = Then(q) /\ Op(q)' = Op(q) /\ Name(q)' = Name(q)
             /\ \A i: (Holds(q, i)' <=> Holds(q, i)) /\ (Keeps(q, i)' <=> Keeps(q, i))
  BY DEF Then, Op, Name, Path, Holds, Keeps
<1>2. \A i: (Unowned(i)' <=> Unowned(i)) /\ (AtInit(i)' <=> AtInit(i))
  BY DEF Unowned, AtInit
<1>3. OwnedInv'
  BY <1>1, <1>2 DEF TInv, OwnedInv
<1>4. TreeInv' /\ Acyclic'
  BY <1>2, TreeSame DEF TInv
<1>5. NameInv'
  BY <1>1 DEF TInv, NameInv, NameOf
<1>6. \A i: Named(i)' = Named(i) /\ Subdirs(i)' = Subdirs(i) /\ Pending(i)' = Pending(i)
  BY DEF Named, Subdirs, Pending, Op
<1>7. LinkInv'
  BY <1>2, <1>6 DEF TInv, LinkInv, Total
<1>8. EmptyInv'
  BY <1>1, <1>6 DEF TInv, EmptyInv, EmptyOf
<1>9. LeakInv'
  BY <1>1, <1>2 DEF TInv, LeakInv
<1>10. QED BY <1>3, <1>4, <1>5, <1>7, <1>8, <1>9 DEF TInv

\* What a process is waiting for is not free, and a victim has its link.
LEMMA WantsOwned ==
  ASSUME Inv, TInv, NEW p \in Procs, Wants(p) # None
  PROVE  /\ Wants(p) \in Inodes
         /\ pc[p] # "init" => ~Unowned(Wants(p))
         /\ Type(Wants(p)) = dtype[Wants(p)] /\ dtype[Wants(p)] # "free"
         /\ pc[p] = "victim" => Nlink(Wants(p)) > 0
<1>1. /\ Wants(p) \in {put[p], ip[p], tgt[p]}
      /\ pc[p] = "put" => Wants(p) = put[p]
      /\ pc[p] # "put" => Wants(p) \in {ip[p], tgt[p]}
      /\ pc[p] \in {"init", "victim"} => Wants(p) = tgt[p]
  BY DEF Wants
<1>2. Wants(p) \in Inodes
  BY <1>1 DEF Inv, TypeOK, InodeOrNone
<1>3. pc[p] # "init" => ~Unowned(Wants(p))
  <2>1. pc[p] # "init" => Holds(p, Wants(p))
    BY <1>1 DEF Holds
  <2>2. QED BY <1>2, <2>1 DEF TInv, OwnedInv
<1>4. Type(Wants(p)) = dtype[Wants(p)] /\ Nlink(Wants(p)) = dnlink[Wants(p)]
  <2>1. ref[Wants(p)] > 0
    BY <1>1, <1>2, Referenced DEF Inv
  <2>2. QED BY <1>2, <2>1, AsOnDisk DEF Inv
<1>5. dtype[Wants(p)] # "free"
  <2>1. CASE pc[p] # "init"
    BY <1>3, <2>1 DEF Unowned
  <2>2. CASE pc[p] = "init"
    <3>1. Known(p, Wants(p))
      BY <1>1, <2>2 DEF Known, Then, Iputs
    <3>2. QED BY <1>2, <3>1 DEF Inv, KnownInv, Safe
  <2>3. QED BY <2>1, <2>2
<1>6. pc[p] = "victim" => dnlink[Wants(p)] > 0
  <2>1. SUFFICES ASSUME pc[p] = "victim" PROVE dnlink[Wants(p)] > 0
    OBVIOUS
  <2>2. Name(p) \in Names /\ dirent[ip[p]][Name(p)] = Wants(p)
    BY <1>1, <2>1 DEF TInv, NameInv, NameOf
  <2>3. ip[p] \in Inodes
    BY <2>1 DEF Inv, PlaceInv, PlaceOf, Then, Iputs, IpPlaces, InDirPlaces, TypeOK, InodeOrNone
  <2>4. QED BY <1>2, <2>2, <2>3, NamedLinked
<1>7. QED BY <1>2, <1>3, <1>4, <1>5, <1>6

LEMMA PanicTree ==
  ASSUME Inv, TInv, NEW p \in Procs, Panic(p)
  PROVE  TInv'
<1>1. /\ Wants(p) # None /\ panic' = PanicAt(p) /\ PanicAt(p) # None
      /\ UNCHANGED <<disk, icache, procs, pc, call, locals, put, ret, hist>>
  BY DEF Panic
<1>2. panic' # "dirlookup not DIR"
  BY PanicInv DEF Inv, ParentsStayDirs
<1>3. Type(Wants(p)) # "free" /\ (pc[p] = "victim" => ~(Nlink(Wants(p)) < 1))
  <2>1. /\ Wants(p) \in Inodes /\ Type(Wants(p)) = dtype[Wants(p)] /\ dtype[Wants(p)] # "free"
        /\ pc[p] = "victim" => Nlink(Wants(p)) > 0
    BY <1>1, WantsOwned
  <2>2. Nlink(Wants(p)) \in Int
    BY <2>1 DEF Nlink, Inv, TypeOK
  <2>3. QED BY <2>1, <2>2
<1>4. PanicAt(p) = "ialloc: no inodes"
  <2>1. \/ Type(Wants(p)) = "free"
        \/ PanicAt(p) \in {"dirlookup not DIR", "ialloc: no inodes", None}
        \/ pc[p] = "victim" /\ Nlink(Wants(p)) < 1
    BY Zenon DEF PanicAt
  <2>2. QED BY <1>1, <1>2, <1>3, <2>1
<1>5. OnlyFullPanics'
  BY <1>1, <1>4 DEF OnlyFullPanics
<1>6. QED BY <1>1, <1>5, SameTree DEF disk, icache, procs, locals, hist

LEMMA InitTree == Init => TInv
<1> SUFFICES ASSUME Init PROVE TInv
  OBVIOUS
<1>1. /\ 1 \in Inodes /\ 2 \in Inodes /\ 3 \in Inodes /\ ROOTINO = 1
      /\ \A i \in Inodes: i \in Int /\ i >= 1 /\ (i =< 3 => i \in {1, 2, 3})
  BY DirectoryConstants DEF Inodes, ROOTINO
<1>2. Name1 \in Names /\ Name2 \in Names /\ Names \subseteq Entries
      /\ "." \in Entries /\ ".." \in Entries /\ "." \notin Names /\ ".." \notin Names
  BY DirectoryConstants DEF Name1, Name2, Entries
<1>3. \A p \in Procs: pc[p] = "user" /\ Then(p) = "user" /\ ret[p] = "user" /\ Op(p) = "none"
                      /\ put[p] = None /\ ip[p] = None /\ tgt[p] = None /\ fd[p] = None
                      /\ cwd[p] \in {1, 3}
  BY <1>1 DEF Init, Then, Iputs, Op, NoCall
<1>4. /\ \A i \in Inodes: dtype[i] = IF i =< 3 THEN "dir" ELSE "free"
      /\ dnlink[1] = 2 /\ dnlink[2] = 2 /\ dnlink[3] = 1
      /\ \A i \in Inodes: i > 3 => dnlink[i] = 0
  BY <1>1 DEF Init
<1>5. /\ dirent[1] = [Dots(1, 1) EXCEPT ![Name1] = 2]
      /\ dirent[2] = [Dots(2, 1) EXCEPT ![Name2] = 3]
      /\ dirent[3] = Dots(3, 2)
      /\ \A i \in Inodes: i > 3 => dirent[i] = NoEntry
  BY <1>1 DEF Init
<1>6. ASSUME NEW n \in Names
      PROVE  /\ dirent[1][n] = IF n = Name1 THEN 2 ELSE None
             /\ dirent[2][n] = IF n = Name2 THEN 3 ELSE None
             /\ dirent[3][n] = None
             /\ \A i \in Inodes: i > 3 => dirent[i][n] = None
  BY <1>1, <1>2, <1>5 DEF Dots, NoEntry
<1>7. /\ dirent[1]["."] = 1 /\ dirent[1][".."] = 1
      /\ dirent[2]["."] = 2 /\ dirent[2][".."] = 1
      /\ dirent[3]["."] = 3 /\ dirent[3][".."] = 2
      /\ \A i \in Inodes: i > 3 => dirent[i][".."] = None
  BY <1>1, <1>2, <1>5 DEF Dots, NoEntry
<1>8. \A i: ~AtInit(i)
  BY <1>3 DEF AtInit
<1>9. OwnedInv
  <2>1. \A p \in Procs, i \in Inodes: Holds(p, i) => i = cwd[p]
    BY <1>3, NotNone DEF Holds
  <2>2. \A p \in Procs: dtype[cwd[p]] # "free"
    BY <1>1, <1>3, <1>4
  <2>3. QED BY <1>3, <2>1, <2>2 DEF OwnedInv, Unowned
<1>10. \A e \in Inodes, n \in Names, i \in Inodes:
         dirent[e][n] = i <=> \/ e = 1 /\ n = Name1 /\ i = 2
                              \/ e = 2 /\ n = Name2 /\ i = 3
  <2>1. SUFFICES ASSUME NEW e \in Inodes, NEW n \in Names, NEW i \in Inodes
                 PROVE  dirent[e][n] = i <=> \/ e = 1 /\ n = Name1 /\ i = 2
                                             \/ e = 2 /\ n = Name2 /\ i = 3
    OBVIOUS
  <2>2. i # None
    BY NotNone
  <2>3. e \in {1, 2, 3} \/ e > 3
    BY <1>1
  <2>4. QED BY <1>6, <2>2, <2>3
<1>11. TreeInv
  <2>1. ASSUME NEW d \in Inodes
        PROVE  /\ dtype[d] # "dir" \/ AtInit(d) => dirent[d] = NoEntry
               /\ dtype[d] = "dir" /\ ~AtInit(d) => dirent[d]["."] = d /\ dirent[d][".."] # None
    <3>1. CASE d > 3
      BY <1>1, <1>4, <1>5, <3>1
    <3>2. CASE d \in {1, 2, 3}
      <4>1. dirent[d]["."] = d /\ dirent[d][".."] # None
        BY <1>1, <1>7, <3>2, NotNone
      <4>2. dtype[d] = "dir"
        BY <1>1, <1>4, <3>2
      <4>3. QED BY <1>8, <4>1, <4>2
    <3>3. QED BY <1>1, <3>1, <3>2
  <2>2. \A d, e \in Inodes, n \in Names:
          dtype[d] = "dir" /\ dirent[e][n] = d =>
            dirent[d][".."] = e /\ \A m \in Names: dirent[e][m] = d => m = n
    BY <1>7, <1>10
  <2>3. dtype[ROOTINO] = "dir" /\ dirent[ROOTINO][".."] = ROOTINO
    BY <1>1, <1>4, <1>7
  <2>4. \A e \in Inodes, n \in Names: dirent[e][n] # ROOTINO
    BY <1>1, <1>10
  <2>5. QED BY <2>1, <2>2, <2>3, <2>4 DEF TreeInv
<1>12. Acyclic
  <2>1. SUFFICES ASSUME NEW D \in SUBSET Inodes, D # {}
                 PROVE  \E d \in D: \A n \in Names: dirent[d][n] \notin D
    BY DEF Acyclic
  <2>2. \A d \in D, n \in Names: dirent[d][n] \in D =>
          \/ d = 1 /\ dirent[d][n] = 2
          \/ d = 2 /\ dirent[d][n] = 3
    BY <1>10
  <2>3. CASE 3 \in D
    BY <2>2, <2>3
  <2>4. CASE 3 \notin D /\ 2 \in D
    BY <2>2, <2>4
  <2>5. CASE 3 \notin D /\ 2 \notin D
    BY <2>1, <2>2, <2>5
  <2>6. QED BY <2>3, <2>4, <2>5
<1>13. NameInv
  BY <1>3 DEF NameInv, NameOf
<1>14. /\ Named(1) = {} /\ Named(2) = {<<1, Name1>>} /\ Named(3) = {<<2, Name2>>}
       /\ \A i \in Inodes: i > 3 => Named(i) = {}
  <2>1. ASSUME NEW i \in Inodes
        PROVE  Named(i) = {dn \in Inodes \X Names : \/ dn = <<1, Name1>> /\ i = 2
                                                    \/ dn = <<2, Name2>> /\ i = 3}
    BY <1>10 DEF Named
  <2>2. <<1, Name1>> \in Inodes \X Names /\ <<2, Name2>> \in Inodes \X Names
    BY <1>1, <1>2
  <2>3. QED BY <1>1, <2>1, <2>2
<1>15. /\ Subdirs(1) = {1, 2} /\ Subdirs(2) = {3} /\ Subdirs(3) = {}
       /\ \A i \in Inodes: i > 3 => Subdirs(i) = {}
  <2>1. ASSUME NEW i \in Inodes, NEW d \in Inodes
        PROVE  d \in Subdirs(i) <=> \/ d \in {1, 2} /\ i = 1
                                    \/ d = 3 /\ i = 2
    <3>1. d \in {1, 2, 3} \/ d > 3
      BY <1>1
    <3>2. QED BY <1>1, <1>7, <1>14, <3>1, NotNone DEF Subdirs
  <2>2. \A i \in Inodes: Subdirs(i) \subseteq Inodes
    BY DEF Subdirs
  <2>3. QED BY <1>1, <2>1, <2>2
<1>16. \A i \in Inodes: Pending(i) = {}
  BY <1>3 DEF Pending
<1>17. LinkInv
  <2>1. Cardinality({}) = 0 /\ \A x: Cardinality({x}) = 1
    BY FS_EmptySet, FS_Singleton
  <2>2. Cardinality({1, 2}) = 2
    <3>1. IsFiniteSet({1}) /\ Cardinality({1}) = 1
      BY FS_Singleton
    <3>2. 2 \notin {1} /\ {1, 2} = {1} \union {2}
      OBVIOUS
    <3>3. Cardinality({1} \union {2}) = Cardinality({1}) + 1
      BY <3>1, <3>2, FS_AddElement
    <3>4. QED BY <3>1, <3>2, <3>3
  <2>3. Total(1) = 2
    <3>1. Total(1) = Cardinality({}) + Cardinality({1, 2}) + Cardinality({})
      BY <1>1, <1>14, <1>15, <1>16, Zenon DEF Total
    <3>2. QED BY <2>1, <2>2, <3>1
  <2>4. Total(2) = 2
    <3>1. Total(2) = Cardinality({<<1, Name1>>}) + Cardinality({3}) + Cardinality({})
      BY <1>1, <1>14, <1>15, <1>16, Zenon DEF Total
    <3>2. Cardinality({<<1, Name1>>}) = 1 /\ Cardinality({3}) = 1
      BY <2>1, Zenon
    <3>3. QED BY <2>1, <3>1, <3>2
  <2>5. Total(3) = 1
    <3>1. Total(3) = Cardinality({<<2, Name2>>}) + Cardinality({}) + Cardinality({})
      BY <1>1, <1>14, <1>15, <1>16, Zenon DEF Total
    <3>2. Cardinality({<<2, Name2>>}) = 1
      BY <2>1, Zenon
    <3>3. QED BY <2>1, <3>1, <3>2
  <2>6. \A i \in Inodes: i > 3 => Total(i) = 0
    BY <1>14, <1>15, <1>16, <2>1 DEF Total
  <2>7. ASSUME NEW i \in Inodes
        PROVE  /\ dnlink[i] >= Total(i)
               /\ ~stray => dnlink[i] = Total(i)
               /\ dtype[i] = "free" \/ AtInit(i) => dnlink[i] = 0
    <3>1. i \in {1, 2, 3} \/ i > 3
      BY <1>1
    <3>2. QED BY <1>4, <1>8, <2>3, <2>4, <2>5, <2>6, <3>1
  <2>8. QED BY <2>7 DEF LinkInv
<1>18. EmptyInv
  <2>1. \A p \in Procs: EmptyOf(p)
    BY <1>3 DEF EmptyOf
  <2>2. ASSUME NEW d \in Inodes \ {ROOTINO}, Named(d) = {}, NEW n \in Names
        PROVE  dirent[d][n] = None
    <3>1. d > 3
      <4>1. Named(2) # {} /\ Named(3) # {}
        BY <1>14
      <4>2. d # 2 /\ d # 3
        BY <2>2, <4>1
      <4>3. QED BY <1>1, <4>2
    <3>2. QED BY <1>6, <3>1
  <2>3. QED BY <2>1, <2>2 DEF EmptyInv
<1>19. LeakInv
  <2>1. \A i \in Inodes: dtype[i] # "free" => dnlink[i] # 0
    BY <1>1, <1>4
  <2>2. QED BY <2>1 DEF LeakInv
<1>20. OnlyFullPanics
  BY DEF OnlyFullPanics, Init
<1>21. QED BY <1>9, <1>11, <1>12, <1>13, <1>17, <1>18, <1>19, <1>20 DEF TInv

\* Once ".." has led to an inode that nobody has, that stays so.
LEMMA LostStays ==
  ASSUME lost, [Next]_vars
  PROVE  lost'
<1>1. CASE UNCHANGED vars
  BY <1>1 DEF vars
<1>2. ASSUME NEW p \in Procs, Lookup(p) PROVE lost'
  BY <1>2 DEF Lookup, Syscall, NamexFail, NamexStep, NamexParent, NamexEnd, PutTest, PutFree,
     PutDec, Follow, hist
<1>3. ASSUME NEW p \in Procs, Use(p) PROVE lost'
  BY <1>3 DEF Use, Open, Close, Chdir, hist
<1>4. ASSUME NEW p \in Procs, Link(p) PROVE lost'
  BY <1>4 DEF Link, LinkOld, LinkNew, LinkPut, LinkExists, LinkBad, Follow, hist
<1>5. ASSUME NEW p \in Procs, Create(p) PROVE lost'
  BY <1>5 DEF Create, CreateExists, Exists, Ialloc, CreateInit, Created, Follow, hist
<1>6. ASSUME NEW p \in Procs, Unlink(p) PROVE lost'
  BY <1>6 DEF Unlink, UnlinkNone, UnlinkFound, UnlinkBusy, UnlinkEntry, Unlinked, UnlockDp, hist
<1>7. ASSUME NEW p \in Procs, Panic(p) PROVE lost'
  BY <1>7 DEF Panic, hist
<1>8. QED BY <1>1, <1>2, <1>3, <1>4, <1>5, <1>6, <1>7 DEF Next

LEMMA LookupTree ==
  ASSUME Inv, TInv, ~lost', NEW p \in Procs, Lookup(p)
  PROVE  TInv'
<1>1. ASSUME NEW c \in Calls, Syscall(p, c) PROVE TInv'
  BY <1>1, SyscallTree
<1>2. ASSUME NamexEnd(p) PROVE TInv'
  BY <1>2, NamexFailEndTree, NamexFoundTree
<1>3. ASSUME PutTest(p) PROVE TInv'
  BY <1>3, PutLastTree, PutWaitTree
<1>4. QED
  BY <1>1, <1>2, <1>3, NamexFailTree, NamexStepTree, NamexParentTree, PutFreeTree, PutDecTree
     DEF Lookup

LEMMA UseTree ==
  ASSUME Inv, TInv, NEW p \in Procs, Use(p)
  PROVE  TInv'
  BY OpenDoneTree, OpenFailTree, CloseTree, ChdirDoneTree, ChdirFailTree DEF Use

LEMMA LinkTree ==
  ASSUME Inv, TInv, ~lost', NEW p \in Procs, Link(p)
  PROVE  TInv'
  BY LinkOldDirTree, LinkOldTree, LinkNewTree, LinkPutTree, LinkExistsTree, LinkBadTree DEF Link

LEMMA CreateTree ==
  ASSUME Inv, TInv, ~lost', NEW p \in Procs, Create(p)
  PROVE  TInv'
  BY CreateExistsTree, ExistsDoneTree, ExistsFailTree, IallocTree, CreateInitTree, CreatedDoneTree,
     CreatedFailTree DEF Create

LEMMA UnlinkTree ==
  ASSUME Inv, TInv, NEW p \in Procs, Unlink(p)
  PROVE  TInv'
  BY UnlinkNoneTree, UnlinkFoundTree, UnlinkBusyTree, UnlinkEntryTree, UnlinkedTree, UnlockDpTree
     DEF Unlink

LEMMA StepTree == Inv /\ (~lost => TInv) /\ [Next]_vars => (~lost => TInv)'
<1>1. SUFFICES ASSUME Inv, ~lost => TInv, [Next]_vars, ~lost' PROVE TInv'
  OBVIOUS
<1>2. TInv
  BY <1>1, LostStays
<1>3. CASE UNCHANGED vars
  BY <1>2, <1>3, SameTree DEF vars, TInv, OnlyFullPanics
<1>4. CASE Next
  <2>1. PICK p \in Procs: Lookup(p) \/ Use(p) \/ Link(p) \/ Create(p) \/ Unlink(p) \/ Panic(p)
    BY <1>4 DEF Next
  <2>2. QED
    BY <1>1, <1>2, <2>1, LookupTree, UseTree, LinkTree, CreateTree, UnlinkTree, PanicTree
<1>5. QED BY <1>1, <1>3, <1>4

(***************************************************************************)
(* The inductive invariant of the tree: who has which inode, what          *)
(* directories have names in, what names lead to, and what the link counts *)
(* consist of, until ".." leads to an inode that nobody has.               *)
(***************************************************************************)
THEOREM TreeInvariance == Spec => [](~lost => TInv)
<1>1. Init => (~lost => TInv)
  BY InitTree
<1>2. Inv /\ (~lost => TInv) /\ [Next]_vars => (~lost => TInv)'
  BY StepTree
<1>3. QED BY <1>1, <1>2, CacheInvariance, PTL DEF Spec

(***************************************************************************)
(* A link count on disk is the number of names and of ".." that lead to    *)
(* the inode, but for the calls that are between the two, and nothing      *)
(* names a free inode, until an entry is made in a removed directory.      *)
(***************************************************************************)
THEOREM LinksSafety == Spec => []LinksExact
<1>1. (~lost => TInv) => LinksExact
  BY DEF TInv, LinkInv, Total, LinksExact
<1>2. QED BY <1>1, TreeInvariance, PTL

LEMMA Leaks ==
  ASSUME Inv, TInv
  PROVE  OnlyOverlapLeaks
<1>1. SUFFICES ASSUME NEW i \in Inodes, dnlink[i] = 0, ref[i] = 0, dtype[i] # "free", ~overlap
               PROVE  FALSE
  BY DEF OnlyOverlapLeaks
<1>2. PICK p \in Procs: Keeps(p, i)
  BY <1>1 DEF TInv, LeakInv
<1>3. QED BY <1>1, <1>2, KeepsRef

\* Where a process of a circle is that has the lock of d.
LEMMA Deadlocks ==
  ASSUME Inv, TInv
  PROVE  OnlyPutDeadlocks
<1>1. SUFFICES ASSUME NEW S \in SUBSET Procs, Circular(S),
                      \A p \in S: pc[p] = "put" =>
                        /\ ret[p] \notin {"created", "unlinked"}
                        /\ ret[p] = "unlockdp" => Name(p) \notin {".", ".."}
               PROVE  FALSE
  BY DEF OnlyPutDeadlocks
<1>2. \A p \in S: Wants(p) # None /\ Wants(p) \in Inodes /\ lock[Wants(p)] \in S
  BY <1>1, WantsOwned DEF Circular
<1>3. PICK D: D = {Wants(p) : p \in S}
  OBVIOUS
<1>4. D \in SUBSET Inodes /\ D # {} /\ \A p \in S: Wants(p) \in D
  BY <1>1, <1>2, <1>3 DEF Circular
<1>5. PICK d \in D: \A n \in Names: dirent[d][n] \notin D
  BY <1>4 DEF TInv, Acyclic
<1>6. PICK q \in S: lock[d] = q /\ LockedBy(q, d)
  BY <1>1, <1>2, <1>3, <1>4, <1>5 DEF Inv, LockInv
<1>7. q \in Procs /\ PlaceOf(q) /\ Wants(q) # None /\ Wants(q) \in D /\ d \in Inodes
  BY <1>1, <1>2, <1>4, <1>5 DEF Inv, PlaceInv
<1>8. pc[q] \notin {"free", "dec", "unlockdp", "created", "unlinked"}
  BY <1>7 DEF Wants
<1>9. CASE Then(q) \in {"init", "victim", "unlockdp"} /\ ip[q] = d
  <2>1. CASE pc[q] = "put"
    <3>1. ret[q] = "unlockdp" /\ Then(q) = "unlockdp"
      BY <1>7, <1>9, <2>1 DEF PlaceOf, Then, Iputs, Returns
    <3>2. Name(q) \in Entries
      BY <1>7, <3>1, NextName DEF Inv, PlaceOf, InDirPlaces
    <3>3. Name(q) \in Names
      BY <1>1, <2>1, <3>1, <3>2 DEF Entries
    <3>4. dirent[d][Name(q)] = put[q] /\ Wants(q) = put[q]
      BY <1>7, <1>9, <2>1, <3>1, <3>3 DEF TInv, NameInv, NameOf, Wants
    <3>5. QED BY <1>5, <1>7, <3>3, <3>4
  <2>2. CASE pc[q] = "victim"
    <3>1. Name(q) \in Names /\ dirent[d][Name(q)] = tgt[q] /\ Wants(q) = tgt[q]
      BY <1>7, <1>9, <2>2 DEF TInv, NameInv, NameOf, Wants
    <3>2. QED BY <1>5, <1>7, <3>1
  <2>3. CASE pc[q] = "init"
    <3>1. PICK i \in Inodes: i = Wants(q) /\ i = tgt[q]
      BY <1>2, <2>3 DEF Wants
    <3>2. Unowned(i)
      BY <1>7, <2>3, <3>1 DEF Unowned
    <3>3. PICK r \in S: LockedBy(r, i)
      BY <1>1, <1>2, <3>1 DEF Inv, LockInv
    <3>4. pc[r] # "free"
      BY <1>2, <3>3 DEF Wants
    <3>5. Holds(r, i)
      BY <3>3, <3>4 DEF LockedBy, Holds, Then, Iputs
    <3>6. QED BY <1>1, <3>2, <3>3, <3>5 DEF TInv, OwnedInv
  <2>4. QED BY <1>8, <1>9, <2>1, <2>2, <2>3 DEF Then, Iputs
<1>10. CASE Then(q) \in {"created", "unlinked"} /\ tgt[q] = d
  BY <1>1, <1>8, <1>10 DEF Then, Iputs
<1>11. QED BY <1>6, <1>8, <1>9, <1>10 DEF LockedBy

(***************************************************************************)
(* iput() leaks an inode only when two of them overlap; ilock(),           *)
(* dirlookup() and unlink() do not panic; and processes that wait for each *)
(* other have one of them in an iput() that locks against the order, from  *)
(* the inode to the directory above it.                                    *)
(***************************************************************************)
THEOREM FailuresSafety == Spec => []OnlyKnownFailures
<1>1. Inv /\ (~lost => TInv) => OnlyKnownFailures
  BY Leaks, Deadlocks DEF Inv, TInv, OnlyKnownFailures
<1>2. QED BY <1>1, CacheInvariance, TreeInvariance, PTL
=============================================================================
