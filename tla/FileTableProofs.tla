--------------------------- MODULE FileTableProofs ---------------------------
(***************************************************************************)
(* Proofs about FileTable, for any number of processes, table entries,     *)
(* descriptors, inodes and pipes.                                          *)
(*                                                                         *)
(* TableInv counts pointers; what keeps the counts is local.  A process    *)
(* holds files for a call only at the places of that call (PlaceInv).  The *)
(* descriptors of a child are filled in by the one process that forks it,  *)
(* in order (ForkInv).  A file that a call has allocated has one reference *)
(* and no type until the call sets it up (NewInv), and a descriptor of     *)
(* such a file is that of open() before it fills in its file (DescInv).    *)
(* The two ends of a pipe are counted apart (EndInv).                      *)
(***************************************************************************)
EXTENDS FileTable, FiniteSetTheorems, SequenceTheorems, WellFoundedInduction, TLAPS

-----------------------------------------------------------------------------
(* The inductive invariant.                                                *)

Objects == Inodes \union Pipes \union {None}
Kinds   == {"none", "pipe", "memo", "inode"}

\* How many files a call may have allocated.
MayHave(place) == IF place = "pipe" THEN 2
                  ELSE IF place \in {"open", "openset", "memo"} THEN 1 ELSE 0

PlaceInv ==
  /\ ff \in [Procs -> [type : Kinds, obj : Objects, writable : BOOLEAN]]
  /\ \A p \in Procs:
       /\ state[p] # "live" => pc[p] = "user"
       /\ drop[p] # <<>> \/ ff[p] # NoFile => pc[p] \in {"close", "exit", "iput"}
       /\ Len(new[p]) =< MayHave(pc[p])
       /\ pc[p] = "openset" => Len(new[p]) = 1
       /\ ip[p] # None <=> pc[p] \in {"open", "openset", "iput"}

\* The object of a file, or of a copy, is of its kind.
KindInv ==
  /\ \A f \in Files: /\ type[f] = "pipe" => obj[f] \in Pipes
                     /\ type[f] = "inode" => obj[f] \in Inodes
                     /\ type[f] = "memo" => obj[f] = None
  /\ \A p \in Procs: /\ ff[p].type = "pipe" => ff[p].obj \in Pipes
                     /\ ff[p].type = "inode" => ff[p].obj \in Inodes
                     /\ ff[p].type = "memo" => ff[p].obj = None

ForkInv ==
  /\ child \in [Procs -> (Procs \union {None}) \X (0 .. NOFILE)]
  /\ \A p \in Procs: pc[p] = "fork" => child[p][1] \in Procs /\ state[child[p][1]] = "unused"
  /\ \A p \in Procs: pc[p] # "fork" => child[p][1] = None
  /\ \A o, p \in Procs: child[o][1] = child[p][1] /\ child[o][1] # None => o = p
  /\ \A q \in Procs, d \in Fds:
       /\ state[q] = "zombie" => ofile[q][d] = NIL
       /\ state[q] = "unused" /\ ofile[q][d] # NIL =>
            \E p \in Procs: child[p][1] = q /\ d < child[p][2]

NewInv ==
  \A p \in Procs: \A f \in Members(new[p]):
    /\ ref[f] = 1 /\ type[f] = "none"
    /\ pc[p] = "openset" => \E d \in Fds: ofile[p][d] = f

DistinctInv == \A p \in Procs: Distinct(new[p]) /\ Distinct(drop[p])

RefInv == \A f \in Files: ref[f] = Cardinality(InOfile(f)) + Cardinality(InNew(f))
                                   + Cardinality(InDrop(f))

DescInv == \A p \in Procs, d \in Fds:
             ofile[p][d] # NIL /\ type[ofile[p][d]] = "none" =>
               pc[p] = "openset" /\ ofile[p][d] = new[p][1]

IrefInv == \A i \in Inodes: iref[i] = Cardinality(FilesOf(i)) + Cardinality(CopiesOf(i))
                                      + Cardinality(OpensOf(i))

End(w) == IF w THEN "w" ELSE "r"

FilesAt(g, w)  == {f \in FilesOf(g) : writable[f] = w}
CopiesAt(g, w) == {p \in CopiesOf(g) : ff[p].writable = w}

EndInv == \A g \in Pipes, w \in BOOLEAN:
            Cardinality(FilesAt(g, w)) + Cardinality(CopiesAt(g, w)) =
              IF End(w) \in ends[g] THEN 1 ELSE 0

IInv == /\ TypeOK /\ PlaceInv /\ KindInv /\ ForkInv /\ NewInv /\ DistinctInv /\ RefInv
        /\ DescInv /\ IrefInv /\ EndInv /\ OnlyMemoReadPanics

-----------------------------------------------------------------------------
(* Counting: a set that changes at one element, or at two.                 *)

One(b) == IF b THEN 1 ELSE 0

LEMMA Toggle ==
  ASSUME NEW S, NEW T, NEW x, IsFiniteSet(S), S \ {x} = T \ {x}
  PROVE  /\ IsFiniteSet(T)
         /\ Cardinality(S) \in Nat /\ Cardinality(T) \in Nat
         /\ Cardinality(T) = (Cardinality(S) - One(x \in S)) + One(x \in T)
         /\ x \in S => Cardinality(S) >= 1
<1> DEFINE R == S \ {x}
<1>1. /\ IsFiniteSet(R)
      /\ Cardinality(R) = IF x \in S THEN Cardinality(S) - 1 ELSE Cardinality(S)
  BY FS_RemoveElement, Zenon
<1>2. /\ IsFiniteSet(R \cup {x})
      /\ Cardinality(R \cup {x}) = Cardinality(R) + 1
  <2>1. x \notin R
    OBVIOUS
  <2> HIDE DEF R
  <2>2. /\ IsFiniteSet(R \cup {x})
        /\ Cardinality(R \cup {x}) = IF x \in R THEN Cardinality(R) ELSE Cardinality(R) + 1
    BY <1>1, FS_AddElement, Zenon
  <2>3. QED BY <2>1, <2>2
<1>3. T = R \/ T = R \cup {x}
  OBVIOUS
<1>4. IsFiniteSet(T)
  BY <1>1, <1>2, <1>3
<1>5. /\ Cardinality(S) \in Nat /\ Cardinality(T) \in Nat /\ Cardinality(R) \in Nat
  BY <1>1, <1>4, FS_CardinalityType
<1>6. CASE x \in T
  <2>1. T = R \cup {x}
    BY <1>6
  <2>2. Cardinality(T) = Cardinality(R) + 1
    BY <1>2, <2>1
  <2> HIDE DEF R
  <2>3. QED BY <1>1, <1>4, <1>5, <1>6, <2>2 DEF One
<1>7. CASE x \notin T
  <2>1. T = R
    BY <1>7
  <2> HIDE DEF R
  <2>2. QED BY <1>1, <1>4, <1>5, <1>7, <2>1 DEF One
<1>8. QED BY <1>6, <1>7

LEMMA Toggle2 ==
  ASSUME NEW S, NEW T, NEW x, NEW y, x # y, IsFiniteSet(S), S \ {x, y} = T \ {x, y}
  PROVE  /\ IsFiniteSet(T)
         /\ Cardinality(S) \in Nat /\ Cardinality(T) \in Nat
         /\ Cardinality(T) = ((Cardinality(S) - One(x \in S)) - One(y \in S))
                             + (One(x \in T) + One(y \in T))
<1> DEFINE R == (S \ {x}) \cup (T \cap {x})
<1>1. S \ {x} = R \ {x} /\ (x \in R <=> x \in T) /\ (y \in R <=> y \in S)
  OBVIOUS
<1>2. R \ {y} = T \ {y}
  OBVIOUS
<1> HIDE DEF R
<1>3. /\ IsFiniteSet(R) /\ Cardinality(S) \in Nat /\ Cardinality(R) \in Nat
      /\ Cardinality(R) = (Cardinality(S) - One(x \in S)) + One(x \in R)
  BY <1>1, Toggle, Zenon
<1>4. /\ IsFiniteSet(T) /\ Cardinality(T) \in Nat
      /\ Cardinality(T) = (Cardinality(R) - One(y \in R)) + One(y \in T)
  BY <1>2, <1>3, Toggle, Zenon
<1>5. /\ One(x \in R) = One(x \in T) /\ One(y \in R) = One(y \in S)
      /\ One(x \in S) \in Int /\ One(y \in S) \in Int /\ One(x \in T) \in Int /\ One(y \in T) \in Int
  BY <1>1 DEF One
<1>6. QED BY <1>3, <1>4, <1>5

LEMMA Finiteness ==
  /\ IsFiniteSet(Files) /\ IsFiniteSet(Procs) /\ IsFiniteSet(Procs \X Fds) /\ IsFiniteSet(Fds)
<1>1. IsFiniteSet(Files) /\ IsFiniteSet(Fds)
  BY FS_Interval, FileConstants DEF Files, Fds
<1>2. IsFiniteSet(Procs)
  BY FileConstants
<1>3. IsFiniteSet(Procs \X Fds)
  BY <1>1, <1>2, FS_Product
<1>4. QED BY <1>1, <1>2, <1>3

LEMMA SubsetsFinite ==
  /\ \A S \in SUBSET Files: IsFiniteSet(S)
  /\ \A S \in SUBSET Procs: IsFiniteSet(S)
  /\ \A S \in SUBSET Fds: IsFiniteSet(S)
  /\ \A S \in SUBSET (Procs \X Fds): IsFiniteSet(S)
BY Finiteness, FS_Subset, Zenon

LEMMA SetsFinite ==
  /\ \A f: IsFiniteSet(InOfile(f)) /\ IsFiniteSet(InNew(f)) /\ IsFiniteSet(InDrop(f))
  /\ \A o: IsFiniteSet(FilesOf(o)) /\ IsFiniteSet(CopiesOf(o)) /\ IsFiniteSet(OpensOf(o))
  /\ \A o, w: IsFiniteSet(FilesAt(o, w)) /\ IsFiniteSet(CopiesAt(o, w))
<1>1. \A f: InOfile(f) \in SUBSET (Procs \X Fds) /\ InNew(f) \in SUBSET Procs /\ InDrop(f) \in SUBSET Procs
  BY DEF InOfile, InNew, InDrop
<1>2. \A o: FilesOf(o) \in SUBSET Files /\ CopiesOf(o) \in SUBSET Procs /\ OpensOf(o) \in SUBSET Procs
  BY DEF FilesOf, CopiesOf, OpensOf
<1>3. \A o, w: FilesAt(o, w) \in SUBSET Files /\ CopiesAt(o, w) \in SUBSET Procs
  BY <1>2 DEF FilesAt, CopiesAt
<1>4. QED BY <1>1, <1>2, <1>3, SubsetsFinite

LEMMA SetsCount ==
  /\ \A f: /\ Cardinality(InOfile(f)) \in Nat /\ Cardinality(InNew(f)) \in Nat
           /\ Cardinality(InDrop(f)) \in Nat
  /\ \A o: /\ Cardinality(FilesOf(o)) \in Nat /\ Cardinality(CopiesOf(o)) \in Nat
           /\ Cardinality(OpensOf(o)) \in Nat
  /\ \A o, w: Cardinality(FilesAt(o, w)) \in Nat /\ Cardinality(CopiesAt(o, w)) \in Nat
BY SetsFinite, FS_CardinalityType

\* A set with an element counts for at least one.
LEMMA CountOne ==
  ASSUME NEW S, IsFiniteSet(S), NEW x \in S
  PROVE  Cardinality(S) \in Nat /\ Cardinality(S) >= 1
<1>1. Cardinality(S) \in Nat /\ (Cardinality(S) = 0 <=> S = {})
  BY FS_CardinalityType, FS_EmptySet
<1>2. QED BY <1>1

\* ... and one with two for at least two.
LEMMA CountUnique ==
  ASSUME NEW S, IsFiniteSet(S), Cardinality(S) =< 1, NEW x \in S, NEW y \in S
  PROVE  x = y
<1> SUFFICES ASSUME x # y PROVE FALSE
  OBVIOUS
<1>1. /\ IsFiniteSet(S \ {x})
      /\ Cardinality(S \ {x}) = IF x \in S THEN Cardinality(S) - 1 ELSE Cardinality(S)
  BY FS_RemoveElement, Zenon
<1>2. y \in S \ {x}
  OBVIOUS
<1>3. Cardinality(S \ {x}) >= 1 /\ Cardinality(S \ {x}) \in Nat
  BY <1>1, <1>2, CountOne, Zenon
<1>4. Cardinality(S) \in Nat
  BY FS_CardinalityType
<1>5. QED BY <1>1, <1>3, <1>4

-----------------------------------------------------------------------------
(* Sequences of files.                                                     *)

LEMMA MembersEmpty == Members(<<>>) = {} /\ Distinct(<<>>) /\ Len(<<>>) = 0
<1>1. DOMAIN <<>> = {}
  OBVIOUS
<1>2. QED BY <1>1 DEF Members, Distinct

LEMMA MembersOne ==
  ASSUME NEW f \in Files
  PROVE  /\ <<f>> \in Seq(Files) /\ Len(<<f>>) = 1
         /\ Members(<<f>>) = {f} /\ Distinct(<<f>>)
<1>1. DOMAIN <<f>> = {1} /\ <<f>>[1] = f /\ <<f>> \in Seq(Files) /\ Len(<<f>>) = 1
  OBVIOUS
<1>2. QED BY <1>1 DEF Members, Distinct

LEMMA MembersLong ==
  ASSUME NEW s \in Seq(Files)
  PROVE  /\ DOMAIN s = 1 .. Len(s) /\ Len(s) \in Nat
         /\ Members(s) \subseteq Files
         /\ Len(s) = 0 => s = <<>> /\ Members(s) = {}
         /\ Len(s) = 1 => s[1] \in Files /\ Members(s) = {s[1]}
         /\ Len(s) = 2 => s[1] \in Files /\ s[2] \in Files /\ Members(s) = {s[1], s[2]}
         /\ Len(s) = 2 /\ Distinct(s) => s[1] # s[2]
         /\ s # <<>> => Len(s) > 0
<1>1. DOMAIN s = 1 .. Len(s) /\ Len(s) \in Nat /\ \A i \in DOMAIN s: s[i] \in Files
  OBVIOUS
<1>2. Members(s) \subseteq Files
  BY <1>1 DEF Members
<1>3. Len(s) = 0 => s = <<>> /\ Members(s) = {}
  <2>1. Len(s) = 0 => s = <<>> /\ DOMAIN s = {}
    OBVIOUS
  <2>2. QED BY <2>1 DEF Members
<1>4. Len(s) = 1 => s[1] \in Files /\ Members(s) = {s[1]}
  <2>1. Len(s) = 1 => DOMAIN s = {1}
    BY <1>1
  <2>2. QED BY <1>1, <2>1 DEF Members
<1>5. Len(s) = 2 => s[1] \in Files /\ s[2] \in Files /\ Members(s) = {s[1], s[2]}
  <2>1. Len(s) = 2 => DOMAIN s = {1, 2}
    BY <1>1
  <2>2. QED BY <1>1, <2>1 DEF Members
<1>6. Len(s) = 2 /\ Distinct(s) => s[1] # s[2]
  <2>1. Len(s) = 2 => 1 \in DOMAIN s /\ 2 \in DOMAIN s
    BY <1>1
  <2>2. QED BY <2>1 DEF Distinct
<1>7. s # <<>> => Len(s) > 0
  BY <1>1, <1>3
<1>8. QED BY <1>1, <1>2, <1>3, <1>4, <1>5, <1>6, <1>7

LEMMA MembersAppend ==
  ASSUME NEW s \in Seq(Files), NEW f \in Files
  PROVE  /\ Append(s, f) \in Seq(Files) /\ Len(Append(s, f)) = Len(s) + 1
         /\ Members(Append(s, f)) = Members(s) \cup {f}
         /\ Distinct(s) /\ f \notin Members(s) => Distinct(Append(s, f))
<1> DEFINE t == Append(s, f)
           n == Len(s)
<1>1. /\ t \in Seq(Files) /\ Len(t) = n + 1 /\ n \in Nat
      /\ DOMAIN s = 1 .. n /\ DOMAIN t = 1 .. n + 1
      /\ \A i \in 1 .. n: t[i] = s[i]
      /\ t[n + 1] = f
  OBVIOUS
<1> HIDE DEF t, n
<1>2. 1 .. n + 1 = (1 .. n) \cup {n + 1} /\ n + 1 \notin 1 .. n
  BY <1>1
<1>3. Members(t) = Members(s) \cup {f}
  BY <1>1, <1>2 DEF Members
<1>4. Distinct(s) /\ f \notin Members(s) => Distinct(t)
  BY <1>1, <1>2 DEF Members, Distinct
<1>5. QED BY <1>1, <1>3, <1>4 DEF t, n

LEMMA MembersTail ==
  ASSUME NEW s \in Seq(Files), s # <<>>, Distinct(s)
  PROVE  /\ Head(s) \in Files /\ Head(s) \in Members(s)
         /\ Tail(s) \in Seq(Files) /\ Distinct(Tail(s))
         /\ Members(Tail(s)) = Members(s) \ {Head(s)}
<1> DEFINE t == Tail(s)
           n == Len(s)
<1>1. /\ n \in Nat /\ n >= 1 /\ DOMAIN s = 1 .. n /\ Head(s) = s[1] /\ Head(s) \in Files
      /\ t \in Seq(Files) /\ Len(t) = n - 1 /\ DOMAIN t = 1 .. n - 1
      /\ \A i \in 1 .. n - 1: t[i] = s[i + 1]
  OBVIOUS
<1> HIDE DEF t, n
<1>2. 1 \in DOMAIN s /\ \A i \in 1 .. n - 1: i + 1 \in DOMAIN s /\ i + 1 # 1
  BY <1>1
<1>3. \A j \in DOMAIN s: j # 1 => j - 1 \in 1 .. n - 1 /\ (j - 1) + 1 = j
  BY <1>1
<1>4. Head(s) \in Members(s)
  BY <1>1, <1>2 DEF Members
<1>5. Distinct(t)
  <2> SUFFICES ASSUME NEW i \in 1 .. n - 1, NEW j \in 1 .. n - 1, t[i] = t[j] PROVE i = j
    BY <1>1 DEF Distinct
  <2>1. i + 1 = j + 1
    BY <1>1, <1>2 DEF Distinct
  <2>2. QED BY <2>1, <1>1
<1>6. Members(t) = Members(s) \ {Head(s)}
  <2>1. ASSUME NEW f \in Members(t) PROVE f \in Members(s) \ {Head(s)}
    <3>1. PICK i \in 1 .. n - 1: f = t[i]
      BY <1>1 DEF Members
    <3>2. f = s[i + 1] /\ i + 1 \in DOMAIN s /\ i + 1 # 1
      BY <1>1, <1>2, <3>1
    <3>3. QED BY <1>1, <1>2, <3>2 DEF Members, Distinct
  <2>2. ASSUME NEW f \in Members(s), f # Head(s) PROVE f \in Members(t)
    <3>1. PICK j \in DOMAIN s: f = s[j]
      BY DEF Members
    <3>2. j # 1
      BY <1>1, <2>2, <3>1
    <3>3. j - 1 \in 1 .. n - 1 /\ t[j - 1] = s[j]
      BY <1>1, <1>3, <3>2
    <3>4. QED BY <1>1, <3>1, <3>3 DEF Members
  <2>3. QED BY <2>1, <2>2
<1>7. QED BY <1>1, <1>4, <1>5, <1>6 DEF t

-----------------------------------------------------------------------------
(* filealloc() and fdalloc().                                              *)

LEMMA NatLeast ==
  ASSUME NEW T, T \subseteq Nat, T # {}
  PROVE  Min(T) \in T /\ \A y \in T: Min(T) =< y
<1>1. PICK x \in T: \A y \in T: ~(<<y, x>> \in OpToRel(<, Nat))
  BY NatLessThanWellFounded, WFMin, Zenon
<1>2. ASSUME NEW y \in T PROVE x =< y
  <2>1. ~(<<y, x>> \in OpToRel(<, Nat))
    BY <1>1
  <2>2. QED BY <2>1 DEF OpToRel
<1>3. QED BY <1>2 DEF Min

LEMMA FileAllocTakes ==
  ASSUME TypeOK, NEW p \in Procs, FileAlloc(p)
  PROVE  \E f \in Files: /\ ref[f] = 0 /\ ref' = [ref EXCEPT ![f] = 1]
                         /\ new' = [new EXCEPT ![p] = Append(new[p], f)]
<1>1. FreeFiles \subseteq Nat /\ FreeFiles # {}
  BY FileConstants DEF FreeFiles, Files, FileAlloc
<1>2. Min(FreeFiles) \in FreeFiles
  BY <1>1, NatLeast
<1>3. Min(FreeFiles) \in Files /\ ref[Min(FreeFiles)] = 0
  BY <1>2 DEF FreeFiles
<1>4. QED BY <1>3 DEF FileAlloc

LEMMA FdAllocTakes ==
  ASSUME TypeOK, NEW p \in Procs, NEW f, FreeFds(p) # {}, FdAlloc(p, f)
  PROVE  \E d \in Fds: ofile[p][d] = NIL /\ ofile' = [ofile EXCEPT ![p][d] = f]
<1>1. FreeFds(p) \subseteq Nat
  BY FileConstants DEF FreeFds, Fds
<1>2. Min(FreeFds(p)) \in FreeFds(p)
  BY <1>1, NatLeast
<1>3. QED BY <1>2 DEF FreeFds, FdAlloc

LEMMA TwoFds ==
  ASSUME TypeOK, NEW p \in Procs, Cardinality(FreeFds(p)) >= 2
  PROVE  LET fd0 == Min(FreeFds(p)) fd1 == Min(FreeFds(p) \ {fd0})
         IN  /\ fd0 \in Fds /\ fd1 \in Fds /\ fd0 # fd1
             /\ ofile[p][fd0] = NIL /\ ofile[p][fd1] = NIL
<1> DEFINE F == FreeFds(p)
           fd0 == Min(F)
           G == F \ {fd0}
           fd1 == Min(G)
<1>1. F \subseteq Nat /\ F \in SUBSET Fds /\ \A d \in F: ofile[p][d] = NIL
  BY FileConstants DEF FreeFds, Fds
<1>2. IsFiniteSet(F)
  BY <1>1, SubsetsFinite
<1>3. Cardinality(F) >= 2 /\ Cardinality(F) \in Nat
  BY <1>2, FS_CardinalityType
<1> HIDE DEF F
<1>4. F # {}
  BY <1>3, FS_EmptySet
<1>5. fd0 \in F
  BY <1>1, <1>4, NatLeast
<1>6. IsFiniteSet(G) /\ Cardinality(G) = Cardinality(F) - 1
  <2>1. /\ IsFiniteSet(G)
        /\ Cardinality(G) = IF fd0 \in F THEN Cardinality(F) - 1 ELSE Cardinality(F)
    BY <1>2, FS_RemoveElement, Zenon
  <2>2. QED BY <1>5, <2>1
<1>7. G # {} /\ G \subseteq Nat
  <2>1. G \subseteq Nat
    BY <1>1
  <2> HIDE DEF G
  <2>2. Cardinality(G) # 0
    BY <1>3, <1>6
  <2>3. G # {}
    BY <2>2, FS_EmptySet, Zenon
  <2>4. QED BY <2>1, <2>3
<1>8. fd1 \in G
  <2> HIDE DEF G
  <2>1. QED BY <1>7, NatLeast
<1>9. QED BY <1>1, <1>5, <1>8 DEF F

-----------------------------------------------------------------------------
(* How the counts change.                                                  *)

LEMMA CountOfile ==
  ASSUME NEW p \in Procs, NEW d \in Fds,
         \A q \in Procs, e \in Fds: q # p \/ e # d => ofile'[q][e] = ofile[q][e]
  PROVE  \A f \in Files:
           /\ Cardinality(InOfile(f)) \in Nat
           /\ Cardinality(InOfile(f)') =
                (Cardinality(InOfile(f)) - One(ofile[p][d] = f)) + One(ofile'[p][d] = f)
<1> TAKE f \in Files
<1> DEFINE S == InOfile(f)
           T == InOfile(f)'
           z == <<p, d>>
<1>2. z \in Procs \X Fds /\ z[1] = p /\ z[2] = d
  OBVIOUS
<1>3. (z \in S <=> ofile[p][d] = f) /\ (z \in T <=> ofile'[p][d] = f)
  BY <1>2 DEF InOfile
<1>4. S \ {z} = T \ {z}
  <2>1. ASSUME NEW y \in Procs \X Fds, y # z PROVE y \in S <=> y \in T
    <3>1. y = <<y[1], y[2]>> /\ y[1] \in Procs /\ y[2] \in Fds
      OBVIOUS
    <3>2. ~(y[1] = p /\ y[2] = d)
      BY <2>1, <3>1
    <3>3. ofile'[y[1]][y[2]] = ofile[y[1]][y[2]]
      BY <3>1, <3>2
    <3>4. QED BY <3>3 DEF InOfile
  <2>2. S \subseteq Procs \X Fds /\ T \subseteq Procs \X Fds
    BY DEF InOfile
  <2>3. QED BY <2>1, <2>2
<1>5. IsFiniteSet(S)
  BY SetsFinite
<1> HIDE DEF S, T, z
<1>6. /\ Cardinality(S) \in Nat
      /\ Cardinality(T) = (Cardinality(S) - One(z \in S)) + One(z \in T)
  BY <1>4, <1>5, Toggle
<1>7. One(z \in S) = One(ofile[p][d] = f) /\ One(z \in T) = One(ofile'[p][d] = f)
  BY <1>3 DEF One
<1>8. QED BY <1>6, <1>7 DEF S, T

LEMMA CountOfile2 ==
  ASSUME NEW p \in Procs, NEW d \in Fds, NEW e \in Fds, d # e,
         ofile[p][d] = NIL, ofile[p][e] = NIL,
         \A q \in Procs, c \in Fds: q # p \/ (c # d /\ c # e) => ofile'[q][c] = ofile[q][c]
  PROVE  \A f \in Files:
           /\ Cardinality(InOfile(f)) \in Nat
           /\ Cardinality(InOfile(f)') = Cardinality(InOfile(f)) + (One(ofile'[p][d] = f) + One(ofile'[p][e] = f))
<1> TAKE f \in Files
<1> DEFINE S == InOfile(f)
           T == InOfile(f)'
           z == <<p, d>>
           v == <<p, e>>
<1>2. /\ z \in Procs \X Fds /\ z[1] = p /\ z[2] = d
      /\ v \in Procs \X Fds /\ v[1] = p /\ v[2] = e /\ z # v
  OBVIOUS
<1>3. /\ z \notin S /\ v \notin S
      /\ (z \in T <=> ofile'[p][d] = f) /\ (v \in T <=> ofile'[p][e] = f)
  <2>1. f # NIL
    BY FileConstants DEF Files, NIL
  <2>2. /\ z \in S <=> ofile[p][d] = f
        /\ v \in S <=> ofile[p][e] = f
    BY <1>2 DEF InOfile
  <2>3. /\ z \in T <=> ofile'[p][d] = f
        /\ v \in T <=> ofile'[p][e] = f
    BY <1>2 DEF InOfile
  <2>4. QED BY <2>1, <2>2, <2>3
<1>4. S \ {z, v} = T \ {z, v}
  <2>1. ASSUME NEW u \in Procs \X Fds, u # z, u # v PROVE u \in S <=> u \in T
    <3>1. u = <<u[1], u[2]>> /\ u[1] \in Procs /\ u[2] \in Fds
      OBVIOUS
    <3>2. ~(u[1] = p /\ u[2] = d) /\ ~(u[1] = p /\ u[2] = e)
      BY <2>1, <3>1
    <3>3. ofile'[u[1]][u[2]] = ofile[u[1]][u[2]]
      BY <3>1, <3>2
    <3>4. QED BY <3>3 DEF InOfile
  <2>2. S \subseteq Procs \X Fds /\ T \subseteq Procs \X Fds
    BY DEF InOfile
  <2>3. QED BY <2>1, <2>2
<1>5. IsFiniteSet(S)
  BY SetsFinite
<1>6. z # v
  BY <1>2
<1> HIDE DEF S, T, z, v
<1>7. /\ Cardinality(S) \in Nat
      /\ Cardinality(T) = ((Cardinality(S) - One(z \in S)) - One(v \in S)) + (One(z \in T) + One(v \in T))
  BY <1>4, <1>5, <1>6, Toggle2
<1>8. /\ One(z \in S) = 0 /\ One(v \in S) = 0 /\ One(z \in T) = One(ofile'[p][d] = f)
      /\ One(v \in T) = One(ofile'[p][e] = f)
      /\ One(ofile'[p][d] = f) \in Int /\ One(ofile'[p][e] = f) \in Int
  BY <1>3 DEF One
<1>9. QED BY <1>7, <1>8 DEF S, T

LEMMA CountNew ==
  ASSUME NEW p \in Procs, \A q \in Procs \ {p}: new'[q] = new[q] /\ pc'[q] = pc[q]
  PROVE  \A f \in Files:
           /\ Cardinality(InNew(f)) \in Nat
           /\ Cardinality(InNew(f)') =
                (Cardinality(InNew(f)) - One(pc[p] # "openset" /\ f \in Members(new[p])))
                + One(pc'[p] # "openset" /\ f \in Members(new'[p]))
<1> TAKE f \in Files
<1> DEFINE S == InNew(f)
           T == InNew(f)'
<1>2. /\ p \in S <=> pc[p] # "openset" /\ f \in Members(new[p])
      /\ p \in T <=> pc'[p] # "openset" /\ f \in Members(new'[p])
  BY DEF InNew
<1>3. S \ {p} = T \ {p}
  BY DEF InNew, Members
<1>4. IsFiniteSet(S)
  BY SetsFinite
<1> HIDE DEF S, T
<1>5. /\ Cardinality(S) \in Nat
      /\ Cardinality(T) = (Cardinality(S) - One(p \in S)) + One(p \in T)
  BY <1>3, <1>4, Toggle
<1>6. /\ One(p \in S) = One(pc[p] # "openset" /\ f \in Members(new[p]))
      /\ One(p \in T) = One(pc'[p] # "openset" /\ f \in Members(new'[p]))
  BY <1>2 DEF One
<1>7. QED BY <1>5, <1>6 DEF S, T

LEMMA CountDrop ==
  ASSUME NEW p \in Procs, \A q \in Procs \ {p}: drop'[q] = drop[q]
  PROVE  \A f \in Files:
           /\ Cardinality(InDrop(f)) \in Nat
           /\ Cardinality(InDrop(f)') =
                (Cardinality(InDrop(f)) - One(f \in Members(drop[p]))) + One(f \in Members(drop'[p]))
           /\ f \in Members(drop[p]) => Cardinality(InDrop(f)) >= 1
<1> TAKE f \in Files
<1> DEFINE S == InDrop(f)
           T == InDrop(f)'
<1>2. /\ p \in S <=> f \in Members(drop[p])
      /\ p \in T <=> f \in Members(drop'[p])
  BY DEF InDrop
<1>3. S \ {p} = T \ {p}
  BY DEF InDrop, Members
<1>4. IsFiniteSet(S)
  BY SetsFinite
<1> HIDE DEF S, T
<1>5. /\ Cardinality(S) \in Nat
      /\ Cardinality(T) = (Cardinality(S) - One(p \in S)) + One(p \in T)
      /\ p \in S => Cardinality(S) >= 1
  BY <1>3, <1>4, Toggle
<1>6. One(p \in S) = One(f \in Members(drop[p])) /\ One(p \in T) = One(f \in Members(drop'[p]))
  BY <1>2 DEF One
<1>7. QED BY <1>2, <1>5, <1>6 DEF S, T

\* Where nothing changes.
LEMMA SameOfile ==
  ASSUME UNCHANGED ofile
  PROVE  \A f \in Files: InOfile(f)' = InOfile(f)
BY DEF InOfile

LEMMA SameNew ==
  ASSUME UNCHANGED new, \A q \in Procs: pc'[q] = "openset" <=> pc[q] = "openset"
  PROVE  \A f \in Files: InNew(f)' = InNew(f)
BY DEF InNew

LEMMA SameDrop ==
  ASSUME UNCHANGED drop
  PROVE  \A f \in Files: InDrop(f)' = InDrop(f)
BY DEF InDrop

\* A file with a descriptor, or in a call, has a reference.
LEMMA Referenced ==
  ASSUME IInv
  PROVE  /\ \A p \in Procs, d \in Fds: ofile[p][d] # NIL =>
              ofile[p][d] \in Files /\ Cardinality(InOfile(ofile[p][d])) >= 1
         /\ \A p \in Procs: \A f \in Members(new[p]):
              f \in Files /\ (pc[p] # "openset" => Cardinality(InNew(f)) >= 1)
         /\ \A p \in Procs: \A f \in Members(drop[p]): f \in Files /\ Cardinality(InDrop(f)) >= 1
<1>0. TypeOK
  BY DEF IInv
<1>1. ASSUME NEW p \in Procs, NEW d \in Fds, ofile[p][d] # NIL
      PROVE  ofile[p][d] \in Files /\ Cardinality(InOfile(ofile[p][d])) >= 1
  <2>1. ofile[p][d] \in Files
    BY <1>0, <1>1 DEF TypeOK
  <2>2. PICK f \in Files: f = ofile[p][d]
    BY <2>1
  <2>3. <<p, d>> \in InOfile(f)
    BY <2>2 DEF InOfile
  <2>4. QED BY <2>2, <2>3, SetsFinite, CountOne
<1>2. ASSUME NEW p \in Procs, NEW f \in Members(new[p])
      PROVE  f \in Files /\ (pc[p] # "openset" => Cardinality(InNew(f)) >= 1)
  <2>1. f \in Files
    BY <1>0, MembersLong DEF TypeOK
  <2>2. pc[p] # "openset" => p \in InNew(f)
    BY DEF InNew
  <2>3. QED BY <2>1, <2>2, SetsFinite, CountOne
<1>3. ASSUME NEW p \in Procs, NEW f \in Members(drop[p])
      PROVE  f \in Files /\ Cardinality(InDrop(f)) >= 1
  <2>1. f \in Files
    BY <1>0, MembersLong DEF TypeOK
  <2>2. p \in InDrop(f)
    BY DEF InDrop
  <2>3. QED BY <2>1, <2>2, SetsFinite, CountOne
<1>4. QED BY <1>1, <1>2, <1>3

-----------------------------------------------------------------------------
(* What a call has allocated is its own.                                   *)

LEMMA NewAlone ==
  ASSUME IInv, NEW p \in Procs, NEW f \in Members(new[p])
  PROVE  /\ f \in Files /\ ref[f] = 1 /\ type[f] = "none"
         /\ \A q \in Procs: f \notin Members(drop[q]) /\ (q # p => f \notin Members(new[q]))
         /\ pc[p] # "openset" =>
              Cardinality(InNew(f)) = 1 /\ \A q \in Procs, e \in Fds: ofile[q][e] # f
         /\ pc[p] = "openset" =>
              \A q \in Procs, e \in Fds: ofile[q][e] = f => q = p
<1>1. TypeOK /\ NewInv /\ RefInv
  BY DEF IInv
<1>2. /\ f \in Files /\ ref[f] = 1 /\ type[f] = "none"
      /\ pc[p] = "openset" => \E d \in Fds: ofile[p][d] = f
  BY <1>1, Referenced DEF NewInv
<1>3. Cardinality(InOfile(f)) + Cardinality(InNew(f)) + Cardinality(InDrop(f)) = 1
  BY <1>1, <1>2 DEF RefInv
<1>4. /\ Cardinality(InOfile(f)) \in Nat /\ Cardinality(InNew(f)) \in Nat
      /\ Cardinality(InDrop(f)) \in Nat
  BY SetsCount
<1>5. f # NIL
  BY <1>2, FileConstants DEF Files, NIL
<1>6. ASSUME NEW q \in Procs, NEW e \in Fds, ofile[q][e] = f
      PROVE  Cardinality(InOfile(f)) >= 1 /\ <<q, e>> \in InOfile(f)
  <2>1. <<q, e>> \in InOfile(f)
    BY <1>6 DEF InOfile
  <2>2. QED BY <2>1, SetsFinite, CountOne
<1>7. ASSUME NEW q \in Procs, f \in Members(new[q]), pc[q] # "openset"
      PROVE  Cardinality(InNew(f)) >= 1 /\ q \in InNew(f)
  <2>1. q \in InNew(f)
    BY <1>7 DEF InNew
  <2>2. QED BY <2>1, SetsFinite, CountOne
<1>8. \A q \in Procs: f \in Members(drop[q]) => Cardinality(InDrop(f)) >= 1
  BY Referenced
<1>9. CASE pc[p] # "openset"
  <2>1. Cardinality(InNew(f)) >= 1 /\ p \in InNew(f)
    BY <1>7, <1>9
  <2>2. \A q \in Procs, e \in Fds: ofile[q][e] # f
    <3> SUFFICES ASSUME NEW q \in Procs, NEW e \in Fds, ofile[q][e] = f PROVE FALSE
      OBVIOUS
    <3>1. Cardinality(InOfile(f)) >= 1
      BY <1>6
    <3>2. QED BY <1>3, <1>4, <2>1, <3>1
  <2>3. ASSUME NEW q \in Procs, f \in Members(new[q]) PROVE q = p
    <3>1. pc[q] # "openset"
      BY <1>1, <2>2, <2>3 DEF NewInv
    <3>2. q \in InNew(f)
      BY <1>7, <2>3, <3>1
    <3>3. Cardinality(InNew(f)) =< 1
      BY <1>3, <1>4
    <3>4. QED BY <2>1, <3>2, <3>3, SetsFinite, CountUnique
  <2>4. \A q \in Procs: f \notin Members(drop[q])
    BY <1>3, <1>4, <1>8, <2>1
  <2>5. Cardinality(InNew(f)) = 1
    BY <1>3, <1>4, <2>1
  <2>6. QED BY <1>2, <1>9, <2>2, <2>3, <2>4, <2>5
<1>10. CASE pc[p] = "openset"
  <2>1. PICK d \in Fds: ofile[p][d] = f
    BY <1>2, <1>10
  <2>2. Cardinality(InOfile(f)) >= 1 /\ <<p, d>> \in InOfile(f)
    BY <1>6, <2>1
  <2>3. ASSUME NEW q \in Procs, NEW e \in Fds, ofile[q][e] = f PROVE q = p
    <3>1. <<q, e>> \in InOfile(f)
      BY <1>6, <2>3
    <3>2. Cardinality(InOfile(f)) =< 1
      BY <1>3, <1>4
    <3>3. <<q, e>> = <<p, d>>
      BY <2>2, <3>1, <3>2, SetsFinite, CountUnique
    <3>4. QED BY <3>3
  <2>4. ASSUME NEW q \in Procs, f \in Members(new[q]) PROVE q = p
    <3>1. pc[q] = "openset"
      BY <1>3, <1>4, <1>7, <2>2, <2>4
    <3>2. PICK e \in Fds: ofile[q][e] = f
      BY <1>1, <2>4, <3>1 DEF NewInv
    <3>3. QED BY <2>3, <3>2
  <2>5. \A q \in Procs: f \notin Members(drop[q])
    BY <1>3, <1>4, <1>8, <2>2
  <2>6. QED BY <1>2, <1>10, <2>3, <2>4, <2>5
<1>11. QED BY <1>9, <1>10

-----------------------------------------------------------------------------
(* Types and places.                                                       *)

\* What the steps of p rely on.
LEMMA Calls ==
  ASSUME IInv, NEW p \in Procs
  PROVE  /\ new[p] \in Seq(Files) /\ drop[p] \in Seq(Files) /\ Len(new[p]) \in Nat
         /\ new[p] # <<>> => /\ Len(new[p]) >= 1 /\ new[p][1] \in Files
                             /\ new[p][1] \in Members(new[p])
                             /\ ref[new[p][1]] = 1 /\ type[new[p][1]] = "none"
         /\ Len(new[p]) = 2 => /\ new[p] # <<>> /\ new[p][2] \in Files
                               /\ new[p][2] \in Members(new[p])
                               /\ ref[new[p][2]] = 1 /\ type[new[p][2]] = "none"
                               /\ new[p][1] # new[p][2]
                               /\ Members(new[p]) = {new[p][1], new[p][2]}
         /\ Len(new[p]) = 1 => Members(new[p]) = {new[p][1]}
         /\ pc[p] \in {"open", "openset", "memo"} /\ new[p] # <<>> => Len(new[p]) = 1
         /\ pc[p] = "openset" => new[p] # <<>>
         /\ pc[p] \notin {"open", "openset", "memo", "pipe"} => new[p] = <<>>
<1>1. /\ new[p] \in Seq(Files) /\ drop[p] \in Seq(Files) /\ Distinct(new[p])
      /\ Len(new[p]) =< MayHave(pc[p]) /\ (pc[p] = "openset" => Len(new[p]) = 1)
  BY DEF IInv, TypeOK, DistinctInv, PlaceInv
<1>2. PICK s \in Seq(Files): s = new[p]
  BY <1>1
<1>3. /\ Len(s) \in Nat /\ DOMAIN s = 1 .. Len(s)
      /\ Len(s) = 0 => s = <<>>
      /\ Len(s) = 1 => s[1] \in Files /\ Members(s) = {s[1]}
      /\ Len(s) = 2 => s[1] \in Files /\ s[2] \in Files /\ Members(s) = {s[1], s[2]} /\ s[1] # s[2]
      /\ s # <<>> => Len(s) > 0
  BY <1>1, <1>2, MembersLong
<1>4. /\ Len(s) >= 1 => s[1] \in Members(s)
      /\ Len(s) >= 2 => s[2] \in Members(s)
  BY <1>3 DEF Members
<1>5. \A f \in Members(s): f \in Files /\ ref[f] = 1 /\ type[f] = "none"
  BY <1>2, NewAlone
<1>6. Len(s) = 2 => s # <<>>
  BY <1>2
<1>7. Len(s) =< MayHave(pc[p]) /\ (pc[p] = "openset" => Len(s) = 1)
  BY <1>1, <1>2
<1>8. /\ pc[p] \in {"open", "openset", "memo"} /\ s # <<>> => Len(s) = 1
      /\ pc[p] = "openset" => s # <<>>
      /\ pc[p] \notin {"open", "openset", "memo", "pipe"} => s = <<>>
  BY <1>3, <1>7 DEF MayHave
<1>9. QED BY <1>1, <1>2, <1>3, <1>4, <1>5, <1>6, <1>8

LEMMA TypeStep ==
  ASSUME IInv, NEW p \in Procs, Allocate(p) \/ Share(p) \/ Drop(p)
  PROVE  TypeOK'
<1>0. TypeOK /\ PlaceInv /\ KindInv /\ ForkInv /\ RefInv /\ IrefInv
  BY DEF IInv
<1>1. CASE \E i \in Inodes: Open(p, i)
  BY <1>0, <1>1 DEF TypeOK, Open, Goto, Places, file, objects, FreeFiles
<1>2. CASE OpenAlloc(p) \/ CallAlloc(p)
  <2>1. PICK f \in Files: /\ ref[f] = 0 /\ ref' = [ref EXCEPT ![f] = 1]
                          /\ new' = [new EXCEPT ![p] = Append(new[p], f)]
    BY <1>0, <1>2, FileAllocTakes DEF OpenAlloc, CallAlloc
  <2>2. Append(new[p], f) \in Seq(Files)
    BY <1>0 DEF TypeOK
  <2>3. new' \in [Procs -> Seq(Files)] /\ ref' \in [Files -> Nat]
    BY <1>0, <2>1, <2>2 DEF TypeOK
  <2>4. QED BY <1>0, <1>2, <2>1, <2>3 DEF TypeOK, OpenAlloc, CallAlloc, file, objects, FreeFiles
<1>3. CASE OpenFd(p)
  <2>1. PICK d \in Fds: ofile' = [ofile EXCEPT ![p][d] = new[p][1]]
    BY <1>0, <1>3, FdAllocTakes DEF OpenFd
  <2>2. new[p][1] \in Files
    BY <1>3, Calls DEF OpenFd
  <2>3. QED BY <1>0, <1>3, <2>1, <2>2 DEF TypeOK, OpenFd, Goto, Places, file, objects, FreeFiles
<1>4. CASE \E omode \in Modes: OpenSet(p, omode)
  <2>1. new[p][1] \in Files /\ ref[new[p][1]] = 1 /\ ip[p] \in Inodes
    BY <1>0, <1>4, Calls DEF OpenSet, At, PlaceInv, TypeOK
  <2>2. QED BY <1>0, <1>4, <2>1 DEF TypeOK, OpenSet, SetFile, Goto, Places, file, objects, FreeFiles
<1>5. CASE OpenFail(p) \/ CallAllocFail(p) \/ PipeNoPage(p) \/ MemoFdFail(p)
  <2>1. DropNew(p) /\ (Goto(p, "iput") \/ Goto(p, "close"))
    BY <1>5 DEF OpenFail, CallAllocFail, PipeNoPage, MemoFdFail
  <2>2. /\ new' \in [Procs -> Seq(Files)] /\ drop' \in [Procs -> Seq(Files)]
        /\ pc' \in [Procs -> Places]
    <3>1. <<>> \in Seq(Files) /\ new[p] \in Seq(Files)
      BY <1>0 DEF TypeOK
    <3>2. new' \in [Procs -> Seq(Files)]
      BY <1>0, <2>1, <3>1 DEF TypeOK, DropNew
    <3>3. drop' \in [Procs -> Seq(Files)]
      BY <1>0, <2>1, <3>1 DEF TypeOK, DropNew
    <3>4. pc' \in [Procs -> Places]
      BY <1>0, <2>1 DEF TypeOK, Goto, Places
    <3>5. QED BY <3>2, <3>3, <3>4
  <2>3. UNCHANGED <<file, ofile, state, objects, ip>>
    BY <1>5 DEF OpenFail, CallAllocFail, PipeNoPage, MemoFdFail, file, objects
  <2>4. QED BY <1>0, <2>2, <2>3 DEF TypeOK, file, objects, FreeFiles
<1>6. CASE OpenPut(p)
  <2>1. ip[p] \in Inodes
    BY <1>0, <1>6 DEF OpenPut, At, PlaceInv, TypeOK
  <2>2. p \in OpensOf(ip[p])
    BY DEF OpensOf
  <2>3. Cardinality(OpensOf(ip[p])) >= 1
    BY <2>2, SetsFinite, CountOne
  <2>4. iref[ip[p]] - 1 \in Nat
    BY <1>0, <2>1, <2>3, SetsCount DEF IrefInv
  <2>5. QED BY <1>0, <1>6, <2>1, <2>4 DEF TypeOK, OpenPut, Goto, Places, file, FreeFiles
<1>7. CASE PipeCall(p) \/ MemoCall(p) \/ CloseDone(p) \/ Exit(p)
  BY <1>0, <1>7 DEF TypeOK, PipeCall, MemoCall, CloseDone, Exit, Goto, Places, file, objects, FreeFiles
<1>8. CASE \E g \in Pipes: PipeFds(p, g) \/ PipeFdsFail(p, g)
  <2>1. PICK g \in Pipes: PipeFds(p, g) \/ PipeFdsFail(p, g)
    BY <1>8
  <2>2. /\ new[p][1] \in Files /\ ref[new[p][1]] = 1 /\ new[p][2] \in Files /\ ref[new[p][2]] = 1
    BY <2>1, Calls DEF PipeFds, PipeFdsFail
  <2>3. /\ type' \in [Files -> {"none", "pipe", "memo", "inode"}]
        /\ obj' \in [Files -> Inodes \union Pipes \union {None}]
        /\ readable' \in [Files -> BOOLEAN] /\ writable' \in [Files -> BOOLEAN]
        /\ ref' = ref /\ \A f \in Files: ref[f] = 0 => type'[f] = type[f]
    <3>1. PipeFiles(p, g) /\ ref' = ref
      BY <2>1 DEF PipeFds, PipeFdsFail
    <3>2. PICK rf \in Files, wf \in Files: rf = new[p][1] /\ wf = new[p][2]
      BY <2>2
    <3>3. /\ type' = [type EXCEPT ![rf] = "pipe", ![wf] = "pipe"]
          /\ obj' = [obj EXCEPT ![rf] = g, ![wf] = g]
          /\ readable' = [readable EXCEPT ![rf] = TRUE, ![wf] = FALSE]
          /\ writable' = [writable EXCEPT ![rf] = FALSE, ![wf] = TRUE]
      BY <3>1, <3>2 DEF PipeFiles
    <3>4. /\ type' \in [Files -> {"none", "pipe", "memo", "inode"}]
          /\ obj' \in [Files -> Inodes \union Pipes \union {None}]
          /\ readable' \in [Files -> BOOLEAN] /\ writable' \in [Files -> BOOLEAN]
      BY <1>0, <3>3 DEF TypeOK
    <3>5. \A f \in Files: ref[f] = 0 => type'[f] = type[f]
      BY <1>0, <2>2, <3>2, <3>3 DEF TypeOK
    <3>6. QED BY <3>1, <3>4, <3>5
  <2>4. /\ ends' \in [Pipes -> SUBSET {"r", "w"}] /\ new' \in [Procs -> Seq(Files)]
        /\ drop' \in [Procs -> Seq(Files)] /\ pc' \in [Procs -> Places]
    <3>1. /\ ends' = [ends EXCEPT ![g] = {"r", "w"}]
          /\ new' = [new EXCEPT ![p] = <<>>]
          /\ drop' = drop \/ drop' = [drop EXCEPT ![p] = new[p]]
          /\ Goto(p, "user") \/ Goto(p, "close")
      BY <2>1 DEF PipeFds, PipeFdsFail, DropNew
    <3>2. /\ new' \in [Procs -> Seq(Files)] /\ drop' \in [Procs -> Seq(Files)]
      <4>1. <<>> \in Seq(Files) /\ new[p] \in Seq(Files)
        BY <1>0 DEF TypeOK
      <4>2. new' \in [Procs -> Seq(Files)]
        BY <1>0, <3>1, <4>1 DEF TypeOK
      <4>3. drop' \in [Procs -> Seq(Files)]
        BY <1>0, <3>1, <4>1 DEF TypeOK
      <4>4. QED BY <4>2, <4>3
    <3>3. ends' \in [Pipes -> SUBSET {"r", "w"}]
      BY <1>0, <3>1 DEF TypeOK
    <3>4. pc' \in [Procs -> Places]
      BY <1>0, <3>1 DEF TypeOK, Goto, Places
    <3>5. QED BY <3>2, <3>3, <3>4
  <2>5. ofile' \in [Procs -> [Fds -> Files \union {NIL}]]
    <3>1. CASE PipeFdsFail(p, g)
      BY <1>0, <3>1 DEF TypeOK, PipeFdsFail
    <3>2. CASE PipeFds(p, g)
      <4> DEFINE fd0 == Min(FreeFds(p))
                 fd1 == Min(FreeFds(p) \ {fd0})
      <4>1. fd0 \in Fds /\ fd1 \in Fds
        BY <1>0, <3>2, TwoFds DEF PipeFds
      <4>2. ofile' = [ofile EXCEPT ![p][fd0] = new[p][1], ![p][fd1] = new[p][2]]
        BY <3>2 DEF PipeFds
      <4> HIDE DEF fd0, fd1
      <4>3. QED BY <1>0, <2>2, <4>1, <4>2 DEF TypeOK
    <3>3. QED BY <2>1, <3>1, <3>2
  <2>6. QED BY <1>0, <2>1, <2>3, <2>4, <2>5 DEF TypeOK, PipeFds, PipeFdsFail, FreeFiles
<1>9. CASE MemoFd(p)
  <2>1. PICK d \in Fds: ofile' = [ofile EXCEPT ![p][d] = new[p][1]]
    BY <1>0, <1>9, FdAllocTakes DEF MemoFd
  <2>2. new[p][1] \in Files /\ ref[new[p][1]] = 1
    BY <1>9, Calls DEF MemoFd
  <2>3. QED BY <1>0, <1>9, <2>1, <2>2 DEF TypeOK, MemoFd, SetFile, Goto, Places, objects, FreeFiles
<1>10. CASE \E d \in Fds: Dup(p, d)
  <2>1. PICK d \in Fds: Dup(p, d)
    BY <1>10
  <2>2. PICK f \in Files: f = ofile[p][d]
    BY <1>0, <2>1 DEF TypeOK, Dup
  <2>3. PICK e \in Fds: ofile' = [ofile EXCEPT ![p][e] = f]
    BY <1>0, <2>1, <2>2, FdAllocTakes DEF Dup
  <2>4. QED BY <1>0, <2>1, <2>2, <2>3 DEF TypeOK, Dup, FileDup, objects, FreeFiles
<1>11. CASE \E d \in Fds: Close(p, d)
  BY <1>0, <1>11 DEF TypeOK, Close, Goto, Places, file, objects, FreeFiles
<1>12. CASE \E d \in Fds: FileRead(p, d) \/ FileWrite(p, d)
  BY <1>0, <1>12 DEF TypeOK, FileRead, FileWrite, file, objects, FreeFiles
<1>13. CASE \E q \in Procs: Fork(p, q)
  BY <1>0, <1>13 DEF TypeOK, Fork, Goto, Places, file, objects, FreeFiles
<1>14. CASE \E q \in Procs, d \in 0 .. NOFILE: ForkDup(p, q, d)
  <2>1. PICK q \in Procs, d \in 0 .. NOFILE: ForkDup(p, q, d)
    BY <1>14
  <2>2. PICK f \in Files: f = ofile[p][d] /\ d \in Fds
    BY <1>0, <2>1 DEF TypeOK, ForkDup
  <2>3. QED BY <1>0, <2>1, <2>2 DEF TypeOK, ForkDup, FileDup, objects, FreeFiles
<1>15. CASE \E q \in Procs, d \in 0 .. NOFILE: ForkSkip(p, q, d) \/ ForkDone(p, q, d)
  BY <1>0, <1>15 DEF TypeOK, ForkSkip, ForkDone, Goto, Places, file, objects, FreeFiles
<1>16. CASE FileClose(p)
  <2>1. PICK f \in Files: f = Head(drop[p]) /\ f \in Members(drop[p]) /\ Tail(drop[p]) \in Seq(Files)
    BY <1>0, <1>16, MembersTail DEF IInv, DistinctInv, TypeOK, FileClose, Closing
  <2>2. ref[f] >= 1 /\ ref[f] \in Nat
    <3>1. Cardinality(InDrop(f)) >= 1
      BY <2>1, Referenced
    <3>2. /\ Cardinality(InOfile(f)) \in Nat /\ Cardinality(InNew(f)) \in Nat
          /\ Cardinality(InDrop(f)) \in Nat
      BY SetsCount
    <3>3. QED BY <1>0, <3>1, <3>2 DEF RefInv
  <2>3. drop' \in [Procs -> Seq(Files)]
    BY <1>0, <1>16, <2>1 DEF TypeOK, FileClose
  <2>4. ref' = [ref EXCEPT ![f] = @ - 1] /\ ref' \in [Files -> Nat]
    BY <1>0, <1>16, <2>1, <2>2 DEF TypeOK, FileClose
  <2>5. /\ ref[f] = 1 => SetFile(f, "none", None, FALSE, FALSE)
        /\ ref[f] # 1 => UNCHANGED <<type, obj, readable, writable>>
    BY <1>16, <2>1 DEF FileClose
  <2>6. /\ type' \in [Files -> {"none", "pipe", "memo", "inode"}]
        /\ obj' \in [Files -> Inodes \union Pipes \union {None}]
        /\ readable' \in [Files -> BOOLEAN] /\ writable' \in [Files -> BOOLEAN]
        /\ \A f0 \in Files: ref'[f0] = 0 => type'[f0] = "none"
    <3>1. CASE ref[f] = 1
      BY <1>0, <2>4, <2>5, <3>1 DEF TypeOK, SetFile, FreeFiles
    <3>2. CASE ref[f] # 1
      <4>1. \A f0 \in Files: ref'[f0] = 0 => ref[f0] = 0
        BY <1>0, <2>2, <2>4, <3>2 DEF TypeOK
      <4>2. QED BY <1>0, <2>5, <3>2, <4>1 DEF TypeOK, FreeFiles
    <3>3. QED BY <3>1, <3>2
  <2>7. QED BY <1>0, <1>16, <2>3, <2>4, <2>6 DEF TypeOK, FileClose, objects, FreeFiles
<1>17. CASE FileRelease(p)
  <2>1. iref' \in [Inodes -> Nat]
    <3>1. CASE ff[p].type # "inode"
      BY <1>0, <1>17, <3>1 DEF TypeOK, FileRelease
    <3>2. CASE ff[p].type = "inode"
      <4>1. ff[p].obj \in Inodes
        BY <1>0, <3>2 DEF KindInv
      <4>2. p \in CopiesOf(ff[p].obj)
        BY <3>2 DEF CopiesOf
      <4>3. Cardinality(CopiesOf(ff[p].obj)) >= 1
        BY <4>2, SetsFinite, CountOne
      <4>4. iref[ff[p].obj] - 1 \in Nat
        BY <1>0, <4>1, <4>3, SetsCount DEF IrefInv
      <4>5. QED BY <1>0, <1>17, <3>2, <4>1, <4>4 DEF TypeOK, FileRelease
    <3>3. QED BY <3>1, <3>2
  <2>2. ends' \in [Pipes -> SUBSET {"r", "w"}]
    BY <1>0, <1>17 DEF TypeOK, FileRelease
  <2>3. QED BY <1>0, <1>17, <2>1, <2>2 DEF TypeOK, FileRelease, file, FreeFiles
<1>18. CASE ExitClose(p)
  BY <1>0, <1>18 DEF TypeOK, ExitClose, file, objects, FreeFiles
<1>19. CASE ExitZombie(p) \/ Wait(p)
  BY <1>0, <1>19 DEF TypeOK, ExitZombie, Wait, Goto, Places, file, objects, FreeFiles
<1>20. QED
  BY <1>1, <1>2, <1>3, <1>4, <1>5, <1>6, <1>7, <1>8, <1>9, <1>10, <1>11, <1>12, <1>13, <1>14,
     <1>15, <1>16, <1>17, <1>18, <1>19 DEF Allocate, Share, Drop

\* A step of p leaves the calls of the others alone.
LEMMA PlaceOne ==
  ASSUME TypeOK, PlaceInv, NEW p \in Procs,
         ff' \in [Procs -> [type : Kinds, obj : Objects, writable : BOOLEAN]],
         \A q \in Procs \ {p}: /\ pc'[q] = pc[q] /\ drop'[q] = drop[q] /\ ff'[q] = ff[q]
                               /\ new'[q] = new[q] /\ ip'[q] = ip[q]
                               /\ state[q] = "live" => state'[q] = "live",
         state'[p] # "live" => pc'[p] = "user",
         drop'[p] # <<>> \/ ff'[p] # NoFile => pc'[p] \in {"close", "exit", "iput"},
         Len(new'[p]) =< MayHave(pc'[p]),
         pc'[p] = "openset" => Len(new'[p]) = 1,
         ip'[p] # None <=> pc'[p] \in {"open", "openset", "iput"}
  PROVE  PlaceInv'
BY DEF PlaceInv, MayHave

LEMMA PlaceStep ==
  ASSUME IInv, NEW p \in Procs, Allocate(p) \/ Share(p) \/ Drop(p)
  PROVE  PlaceInv'
<1>0. TypeOK /\ PlaceInv /\ KindInv /\ ForkInv
  BY DEF IInv
<1>a. /\ new[p] \in Seq(Files) /\ Len(new[p]) \in Nat /\ Len(new[p]) =< MayHave(pc[p])
      /\ state[p] # "live" => pc[p] = "user"
      /\ drop[p] # <<>> \/ ff[p] # NoFile => pc[p] \in {"close", "exit", "iput"}
      /\ pc[p] = "openset" => Len(new[p]) = 1
      /\ ip[p] # None <=> pc[p] \in {"open", "openset", "iput"}
      /\ Len(<<>>) = 0
  BY <1>0, Calls DEF PlaceInv
<1>1. CASE \E i \in Inodes: Open(p, i)
  BY <1>0, <1>a, <1>1, PlaceOne, FileConstants DEF PlaceInv, TypeOK, Open, At, Goto, MayHave
<1>2. CASE OpenAlloc(p) \/ CallAlloc(p)
  <2>1. PICK f \in Files: new' = [new EXCEPT ![p] = Append(new[p], f)]
    BY <1>0, <1>2, FileAllocTakes DEF OpenAlloc, CallAlloc
  <2>2. new'[p] = Append(new[p], f)
    BY <1>0, <2>1 DEF TypeOK
  <2>3. Len(new'[p]) = Len(new[p]) + 1 /\ Len(new'[p]) =< MayHave(pc[p])
    BY <1>2, <1>a, <2>2 DEF OpenAlloc, CallAlloc, At, MayHave
  <2>4. pc[p] # "openset"
    BY <1>2 DEF OpenAlloc, CallAlloc, At
  <2>5. QED BY <1>0, <1>a, <1>2, <2>1, <2>3, <2>4, PlaceOne DEF PlaceInv, TypeOK, OpenAlloc, CallAlloc
<1>3. CASE OpenFd(p)
  <2>1. Len(new[p]) = 1
    BY <1>3, Calls DEF OpenFd, At
  <2>2. QED BY <1>0, <1>a, <1>3, <2>1, PlaceOne DEF PlaceInv, TypeOK, OpenFd, At, Goto, MayHave
<1>4. CASE \E omode \in Modes: OpenSet(p, omode)
  BY <1>0, <1>a, <1>4, PlaceOne DEF PlaceInv, TypeOK, OpenSet, At, Goto, MayHave
<1>5. CASE OpenFail(p) \/ CallAllocFail(p) \/ PipeNoPage(p) \/ MemoFdFail(p)
           \/ \E g \in Pipes: PipeFdsFail(p, g)
  <2>1. /\ DropNew(p) /\ UNCHANGED <<ff, ip, state>> /\ state[p] = "live"
        /\ \/ pc[p] = "open" /\ Goto(p, "iput")
           \/ pc[p] \in {"pipe", "memo"} /\ Goto(p, "close")
    BY <1>5 DEF OpenFail, CallAllocFail, PipeNoPage, MemoFdFail, PipeFdsFail, At
  <2>2. /\ new'[p] = <<>> /\ ip'[p] = ip[p] /\ pc'[p] \in {"iput", "close"}
        /\ pc'[p] = "iput" <=> pc[p] = "open"
        /\ pc[p] \in {"open", "pipe", "memo"}
    BY <1>0, <2>1 DEF TypeOK, DropNew, Goto
  <2>3. \A q \in Procs \ {p}: new'[q] = new[q] /\ drop'[q] = drop[q] /\ pc'[q] = pc[q]
    BY <1>0, <2>1 DEF TypeOK, DropNew, Goto
  <2>4. QED BY <1>0, <1>a, <2>1, <2>2, <2>3, PlaceOne DEF PlaceInv, MayHave
<1>6. CASE OpenPut(p)
  BY <1>0, <1>a, <1>6, PlaceOne DEF PlaceInv, TypeOK, OpenPut, At, Goto, MayHave
<1>7. CASE PipeCall(p) \/ MemoCall(p) \/ CloseDone(p) \/ Exit(p)
  BY <1>0, <1>a, <1>7, PlaceOne DEF PlaceInv, TypeOK, PipeCall, MemoCall, CloseDone, Exit, At, Goto, MayHave
<1>8. CASE MemoFd(p) \/ \E g \in Pipes: PipeFds(p, g)
  <2>1. /\ new' = [new EXCEPT ![p] = <<>>] /\ Goto(p, "user") /\ UNCHANGED <<ff, ip, state, drop>>
        /\ At(p, "memo") \/ At(p, "pipe")
    BY <1>8 DEF MemoFd, PipeFds
  <2>2. QED BY <1>0, <1>a, <2>1, PlaceOne DEF PlaceInv, TypeOK, At, Goto, MayHave
<1>9. CASE \/ \E d \in Fds: Dup(p, d) \/ FileRead(p, d) \/ FileWrite(p, d)
           \/ \E q \in Procs, d \in 0 .. NOFILE: ForkDup(p, q, d) \/ ForkSkip(p, q, d)
           \/ Wait(p)
  <2>1. /\ UNCHANGED <<new, ff, ip, drop, pc>>
        /\ \/ UNCHANGED state
           \/ state' = [state EXCEPT ![p] = "unused"] /\ state[p] = "zombie"
    BY <1>9 DEF Dup, FileRead, FileWrite, ForkDup, ForkSkip, Wait
  <2>2. QED BY <1>0, <1>a, <2>1, PlaceOne DEF PlaceInv, TypeOK
<1>10. CASE ExitClose(p) \/ \E d \in Fds: Close(p, d)
  <2>1. /\ UNCHANGED <<new, ff, ip, state>> /\ state[p] = "live"
        /\ \E s: drop' = [drop EXCEPT ![p] = s]
        /\ \/ pc[p] = "exit" /\ UNCHANGED pc
           \/ pc[p] = "user" /\ Goto(p, "close")
    BY <1>10 DEF ExitClose, Close, At
  <2>2. QED BY <1>0, <1>a, <2>1, PlaceOne DEF PlaceInv, TypeOK, Goto, MayHave
<1>11. CASE \E q \in Procs: Fork(p, q)
  BY <1>0, <1>a, <1>11, PlaceOne DEF PlaceInv, TypeOK, Fork, At, Goto, MayHave
<1>12. CASE \E q \in Procs, d \in 0 .. NOFILE: ForkDone(p, q, d)
  BY <1>0, <1>a, <1>12, PlaceOne DEF PlaceInv, TypeOK, ForkDone, Forking, At, Goto, MayHave
<1>13. CASE FileClose(p)
  <2>1. /\ UNCHANGED <<new, ip, state, pc>> /\ drop' = [drop EXCEPT ![p] = Tail(drop[p])] /\ drop[p] # <<>>
    BY <1>13 DEF FileClose, Closing
  <2>2. Head(drop[p]) \in Files
    BY <1>0, <2>1, MembersTail DEF IInv, DistinctInv, TypeOK
  <2>3. PICK f \in Files: ff' = [ff EXCEPT ![p] = IF ref[f] = 1 THEN Copy(f) ELSE @]
    BY <1>13, <2>2 DEF FileClose
  <2>4. Copy(f) \in [type : Kinds, obj : Objects, writable : BOOLEAN]
    BY <1>0 DEF Copy, TypeOK, Kinds, Objects
  <2>5. ff' \in [Procs -> [type : Kinds, obj : Objects, writable : BOOLEAN]]
    BY <1>0, <2>3, <2>4 DEF PlaceInv
  <2>6. QED BY <1>0, <1>a, <2>1, <2>3, <2>5, PlaceOne DEF PlaceInv, TypeOK
<1>14. CASE FileRelease(p)
  <2>1. NoFile \in [type : Kinds, obj : Objects, writable : BOOLEAN]
    BY DEF NoFile, Kinds, Objects
  <2>2. ff' = [ff EXCEPT ![p] = NoFile] /\ UNCHANGED <<new, ip, state, pc, drop>>
    BY <1>14 DEF FileRelease
  <2>3. QED BY <1>0, <1>a, <2>1, <2>2, PlaceOne DEF PlaceInv
<1>15. CASE ExitZombie(p)
  BY <1>0, <1>a, <1>15, PlaceOne DEF PlaceInv, TypeOK, ExitZombie, At, Goto, MayHave
<1>16. QED
  BY <1>1, <1>2, <1>3, <1>4, <1>5, <1>6, <1>7, <1>8, <1>9, <1>10, <1>11, <1>12, <1>13, <1>14,
     <1>15 DEF Allocate, Share, Drop

\* Files that are set up and copies that are taken.
LEMMA KindStep ==
  ASSUME IInv, NEW p \in Procs, Allocate(p) \/ Share(p) \/ Drop(p)
  PROVE  KindInv'
<1>0. TypeOK /\ PlaceInv /\ KindInv
  BY DEF IInv
<1>1. CASE UNCHANGED <<type, obj, ff>>
  BY <1>0, <1>1 DEF KindInv
<1>2. CASE \E omode \in Modes: OpenSet(p, omode)
  <2>1. new[p][1] \in Files /\ ip[p] \in Inodes
    BY <1>0, <1>2, Calls DEF OpenSet, At, PlaceInv, TypeOK
  <2>2. QED BY <1>0, <1>2, <2>1 DEF KindInv, TypeOK, OpenSet, SetFile
<1>3. CASE \E g \in Pipes: PipeFds(p, g) \/ PipeFdsFail(p, g)
  <2>1. PICK g \in Pipes: PipeFiles(p, g) /\ ff' = ff /\ Len(new[p]) = 2
    BY <1>3 DEF PipeFds, PipeFdsFail
  <2>2. PICK rf \in Files, wf \in Files: rf = new[p][1] /\ wf = new[p][2]
    BY <2>1, Calls
  <2>3. /\ type' = [type EXCEPT ![rf] = "pipe", ![wf] = "pipe"]
        /\ obj' = [obj EXCEPT ![rf] = g, ![wf] = g]
    BY <2>1, <2>2 DEF PipeFiles
  <2>4. QED BY <1>0, <2>1, <2>3 DEF KindInv, TypeOK
<1>4. CASE MemoFd(p)
  <2>1. new[p][1] \in Files
    BY <1>4, Calls DEF MemoFd
  <2>2. QED BY <1>0, <1>4, <2>1 DEF KindInv, TypeOK, MemoFd, SetFile
<1>5. CASE FileClose(p)
  <2>1. Head(drop[p]) \in Files
    BY <1>0, <1>5, MembersTail DEF IInv, DistinctInv, TypeOK, FileClose, Closing
  <2>2. PICK f \in Files: f = Head(drop[p])
    BY <2>1
  <2>3. CASE ref[f] = 1
    <3>1. ff' = [ff EXCEPT ![p] = Copy(f)] /\ SetFile(f, "none", None, FALSE, FALSE)
      BY <1>5, <2>2, <2>3 DEF FileClose
    <3>2. Copy(f).type = type[f] /\ Copy(f).obj = obj[f]
      BY DEF Copy
    <3>3. QED BY <1>0, <3>1, <3>2 DEF KindInv, TypeOK, PlaceInv, SetFile
  <2>4. CASE ref[f] # 1
    <3>1. UNCHANGED <<type, obj>> /\ ff' = [ff EXCEPT ![p] = @]
      BY <1>5, <2>2, <2>4 DEF FileClose
    <3>2. QED BY <1>0, <3>1 DEF KindInv, PlaceInv
  <2>5. QED BY <2>3, <2>4
<1>6. CASE FileRelease(p)
  BY <1>0, <1>6 DEF KindInv, PlaceInv, FileRelease, file, NoFile
<1>7. QED
  BY <1>1, <1>2, <1>3, <1>4, <1>5, <1>6 DEF Allocate, Share, Drop, Open, OpenAlloc, OpenFd, OpenFail,
     OpenPut, PipeCall, MemoCall, CallAlloc, CallAllocFail, PipeNoPage, MemoFdFail, Dup, Close,
     FileRead, FileWrite, Fork, ForkDup, ForkSkip, ForkDone, CloseDone, Exit, ExitClose, ExitZombie,
     Wait, file

\* A live process is nobody's child in the making.
LEMMA ForkOwn ==
  ASSUME TypeOK, ForkInv, NEW p \in Procs, state[p] = "live", UNCHANGED <<child, state>>,
         \A q \in Procs: pc'[q] = "fork" <=> pc[q] = "fork",
         \A q \in Procs \ {p}: ofile'[q] = ofile[q]
  PROVE  ForkInv'
<1>1. ASSUME NEW q \in Procs, NEW d \in Fds
      PROVE  /\ state'[q] = "zombie" => ofile'[q][d] = NIL
             /\ state'[q] = "unused" /\ ofile'[q][d] # NIL =>
                  \E o \in Procs: child'[o][1] = q /\ d < child'[o][2]
  BY DEF ForkInv
<1>2. QED BY <1>1 DEF ForkInv

LEMMA ForkStep ==
  ASSUME IInv, NEW p \in Procs, Allocate(p) \/ Share(p) \/ Drop(p)
  PROVE  ForkInv'
<1>0. TypeOK /\ PlaceInv /\ ForkInv
  BY DEF IInv
<1>1. CASE /\ UNCHANGED <<child, state, ofile>>
           /\ \A q \in Procs: pc'[q] = "fork" <=> pc[q] = "fork"
  BY <1>0, <1>1 DEF ForkInv
<1>2. CASE OpenFd(p) \/ MemoFd(p) \/ (\E g \in Pipes: PipeFds(p, g)) \/ (\E d \in Fds: Dup(p, d) \/ Close(p, d))
           \/ ExitClose(p)
  <2>1. state[p] = "live" /\ UNCHANGED <<child, state>>
    BY <1>2 DEF OpenFd, MemoFd, PipeFds, Dup, Close, ExitClose, At
  <2>2. \A q \in Procs \ {p}: ofile'[q] = ofile[q]
    BY <1>0, <1>2 DEF TypeOK, OpenFd, MemoFd, PipeFds, Dup, Close, ExitClose, FdAlloc
  <2>3. \A q \in Procs: pc'[q] = "fork" <=> pc[q] = "fork"
    BY <1>0, <1>2 DEF TypeOK, OpenFd, MemoFd, PipeFds, Dup, Close, ExitClose, At, Goto
  <2>4. QED BY <1>0, <2>1, <2>2, <2>3, ForkOwn
<1>3. CASE \E q \in Procs: Fork(p, q)
  <2>1. PICK q \in Procs: Fork(p, q)
    BY <1>3
  <2>2. /\ child' = [child EXCEPT ![p] = <<q, 0>>] /\ UNCHANGED <<state, ofile>>
        /\ state[q] = "unused" /\ \A o \in Procs: child[o][1] # q
        /\ pc' = [pc EXCEPT ![p] = "fork"] /\ child[p][1] = None
    BY <1>0, <2>1 DEF Fork, At, Goto, ForkInv
  <2>3. /\ child'[p][1] = q /\ child'[p][2] = 0 /\ pc'[p] = "fork"
        /\ \A o \in Procs \ {p}: child'[o] = child[o] /\ pc'[o] = pc[o]
    BY <1>0, <2>2 DEF ForkInv, TypeOK
  <2>4. child' \in [Procs -> (Procs \union {None}) \X (0 .. NOFILE)]
    BY <1>0, <2>2, FileConstants DEF ForkInv
  <2>5. ASSUME NEW r \in Procs, NEW d \in Fds, state[r] = "unused", ofile[r][d] # NIL
        PROVE  \E o \in Procs: child'[o][1] = r /\ d < child'[o][2]
    <3>1. PICK o \in Procs: child[o][1] = r /\ d < child[o][2]
      BY <1>0, <2>5 DEF ForkInv
    <3>2. o # p
      BY <2>2, <3>1, FileConstants
    <3>3. QED BY <2>3, <3>1, <3>2
  <2>6. q # None
    BY FileConstants
  <2>7. /\ \A o \in Procs: pc'[o] = "fork" => child'[o][1] \in Procs /\ state'[child'[o][1]] = "unused"
        /\ \A o \in Procs: pc'[o] # "fork" => child'[o][1] = None
    BY <1>0, <2>2, <2>3 DEF ForkInv
  <2>8. \A o, r \in Procs: child'[o][1] = child'[r][1] /\ child'[o][1] # None => o = r
    BY <1>0, <2>2, <2>3 DEF ForkInv
  <2>9. QED BY <1>0, <2>2, <2>4, <2>5, <2>7, <2>8 DEF ForkInv
<1>4. CASE \E q \in Procs, d \in 0 .. NOFILE: ForkDup(p, q, d) \/ ForkSkip(p, q, d)
  <2>1. PICK q \in Procs, d \in 0 .. NOFILE: ForkDup(p, q, d) \/ ForkSkip(p, q, d)
    BY <1>4
  <2>2. /\ child[p] = <<q, d>> /\ child' = [child EXCEPT ![p] = <<q, d + 1>>] /\ d \in Fds
        /\ UNCHANGED <<state, pc>> /\ pc[p] = "fork"
        /\ \E x: ofile' = [ofile EXCEPT ![q][d] = x] \/ ofile' = ofile
    BY <2>1 DEF ForkDup, ForkSkip, Forking, At
  <2>3. /\ child'[p][1] = q /\ child'[p][2] = d + 1 /\ child[p][1] = q /\ child[p][2] = d
        /\ \A o \in Procs \ {p}: child'[o] = child[o]
    BY <1>0, <2>2 DEF ForkInv
  <2>4. d + 1 \in 0 .. NOFILE /\ d < d + 1 /\ \A e \in Fds: e < d => e < d + 1
    BY <2>2, FileConstants DEF Fds
  <2>5. child' \in [Procs -> (Procs \union {None}) \X (0 .. NOFILE)]
    BY <1>0, <2>2, <2>4 DEF ForkInv
  <2>6. state[q] = "unused"
    BY <1>0, <2>2, <2>3 DEF ForkInv
  <2>7. \A r \in Procs, e \in Fds: r # q \/ e # d => ofile'[r][e] = ofile[r][e]
    BY <1>0, <2>2 DEF TypeOK
  <2>8. ASSUME NEW r \in Procs, NEW e \in Fds, state[r] = "unused", ofile'[r][e] # NIL
        PROVE  \E o \in Procs: child'[o][1] = r /\ e < child'[o][2]
    <3>1. CASE r = q /\ e = d
      BY <2>3, <2>4, <3>1
    <3>2. CASE r # q \/ e # d
      <4>1. PICK o \in Procs: child[o][1] = r /\ e < child[o][2]
        BY <1>0, <2>7, <2>8, <3>2 DEF ForkInv
      <4>2. CASE o = p
        BY <2>3, <2>4, <4>1, <4>2
      <4>3. CASE o # p
        BY <2>3, <4>1, <4>3
      <4>4. QED BY <4>2, <4>3
    <3>3. QED BY <3>1, <3>2
  <2>9. ASSUME NEW r \in Procs, NEW e \in Fds, state[r] = "zombie" PROVE ofile'[r][e] = NIL
    BY <1>0, <2>6, <2>7, <2>9 DEF ForkInv
  <2>10. \A o \in Procs: child'[o][1] = child[o][1]
    BY <2>3
  <2>11. QED BY <1>0, <2>2, <2>5, <2>8, <2>9, <2>10 DEF ForkInv
<1>5. CASE \E q \in Procs, d \in 0 .. NOFILE: ForkDone(p, q, d)
  <2>1. PICK q \in Procs, d \in 0 .. NOFILE: ForkDone(p, q, d)
    BY <1>5
  <2>2. /\ child[p] = <<q, d>> /\ child' = [child EXCEPT ![p] = <<None, 0>>]
        /\ UNCHANGED ofile /\ pc[p] = "fork" /\ pc' = [pc EXCEPT ![p] = "user"]
        /\ state' = [state EXCEPT ![q] = "live"]
    BY <2>1 DEF ForkDone, Forking, At, Goto
  <2>3. /\ child'[p][1] = None /\ child[p][1] = q /\ pc'[p] = "user"
        /\ \A o \in Procs \ {p}: child'[o] = child[o] /\ pc'[o] = pc[o]
        /\ state'[q] = "live" /\ \A o \in Procs \ {q}: state'[o] = state[o]
    BY <1>0, <2>2 DEF ForkInv, TypeOK
  <2>4. child' \in [Procs -> (Procs \union {None}) \X (0 .. NOFILE)]
    BY <1>0, <2>2, FileConstants DEF ForkInv
  <2>5. \A o \in Procs \ {p}: child[o][1] # q
    BY <1>0, <2>3, FileConstants DEF ForkInv
  <2>6. /\ \A o \in Procs: pc'[o] = "fork" => child'[o][1] \in Procs /\ state'[child'[o][1]] = "unused"
        /\ \A o \in Procs: pc'[o] # "fork" => child'[o][1] = None
    BY <1>0, <2>3, <2>5 DEF ForkInv
  <2>7. \A o, r \in Procs: child'[o][1] = child'[r][1] /\ child'[o][1] # None => o = r
    BY <1>0, <2>3 DEF ForkInv
  <2>8. ASSUME NEW r \in Procs, NEW e \in Fds
        PROVE  /\ state'[r] = "zombie" => ofile'[r][e] = NIL
               /\ state'[r] = "unused" /\ ofile'[r][e] # NIL =>
                    \E o \in Procs: child'[o][1] = r /\ e < child'[o][2]
    <3>1. CASE r = q
      BY <2>3, <3>1
    <3>2. CASE r # q
      <4>1. state'[r] = state[r] /\ ofile'[r][e] = ofile[r][e]
        BY <2>2, <2>3, <3>2
      <4>2. state[r] = "unused" /\ ofile[r][e] # NIL => \E o \in Procs \ {p}: child[o][1] = r /\ e < child[o][2]
        BY <1>0, <2>3, <3>2 DEF ForkInv
      <4>3. QED BY <1>0, <2>3, <4>1, <4>2 DEF ForkInv
    <3>3. QED BY <3>1, <3>2
  <2>9. QED BY <2>4, <2>6, <2>7, <2>8 DEF ForkInv
<1>6. CASE ExitZombie(p) \/ Wait(p)
  <2>1. /\ UNCHANGED <<child, ofile>> /\ \A q \in Procs \ {p}: state'[q] = state[q] /\ pc'[q] = pc[q]
        /\ state[p] # "unused" /\ pc[p] # "fork" /\ pc'[p] # "fork"
        /\ \A d \in Fds: ofile[p][d] = NIL
    BY <1>0, <1>6 DEF TypeOK, PlaceInv, ForkInv, ExitZombie, Wait, At, Goto, FreeFds
  <2>2. \A o \in Procs: child[o][1] # p
    BY <1>0, <2>1, FileConstants DEF ForkInv
  <2>3. /\ \A o \in Procs: pc'[o] = "fork" => child'[o][1] \in Procs /\ state'[child'[o][1]] = "unused"
        /\ \A o \in Procs: pc'[o] # "fork" => child'[o][1] = None
    BY <1>0, <2>1, <2>2 DEF ForkInv
  <2>4. ASSUME NEW r \in Procs, NEW e \in Fds
        PROVE  /\ state'[r] = "zombie" => ofile'[r][e] = NIL
               /\ state'[r] = "unused" /\ ofile'[r][e] # NIL =>
                    \E o \in Procs: child'[o][1] = r /\ e < child'[o][2]
    BY <1>0, <2>1 DEF ForkInv
  <2>5. QED BY <1>0, <2>1, <2>3, <2>4 DEF ForkInv
<1>7. CASE \/ \E i \in Inodes: Open(p, i)
           \/ OpenAlloc(p) \/ OpenFail(p) \/ OpenPut(p) \/ (\E omode \in Modes: OpenSet(p, omode))
           \/ PipeCall(p) \/ MemoCall(p) \/ CallAlloc(p) \/ CallAllocFail(p) \/ PipeNoPage(p)
           \/ (\E g \in Pipes: PipeFdsFail(p, g)) \/ MemoFdFail(p)
           \/ (\E d \in Fds: FileRead(p, d) \/ FileWrite(p, d))
           \/ FileClose(p) \/ FileRelease(p) \/ CloseDone(p) \/ Exit(p)
  <2>1. UNCHANGED <<child, state, ofile>>
    BY <1>7 DEF Open, OpenAlloc, OpenFail, OpenPut, OpenSet, PipeCall, MemoCall, CallAlloc, CallAllocFail,
       PipeNoPage, PipeFdsFail, MemoFdFail, FileRead, FileWrite, FileClose, FileRelease, CloseDone, Exit
  <2>2. \/ UNCHANGED pc
        \/ pc[p] # "fork" /\ \E x \in Places \ {"fork"}: pc' = [pc EXCEPT ![p] = x]
    BY <1>7 DEF Open, OpenAlloc, OpenFail, OpenPut, OpenSet, PipeCall, MemoCall, CallAlloc, CallAllocFail,
       PipeNoPage, PipeFdsFail, MemoFdFail, FileRead, FileWrite, FileClose, FileRelease, CloseDone, Exit,
       At, Goto, Places
  <2>3. \A q \in Procs: pc'[q] = "fork" <=> pc[q] = "fork"
    BY <1>0, <2>2 DEF TypeOK
  <2>4. QED BY <1>1, <2>1, <2>3
<1>8. QED
  BY <1>2, <1>3, <1>4, <1>5, <1>6, <1>7 DEF Allocate, Share, Drop

\* A descriptor that can be used is that of a file in use and set up.
LEMMA Usable ==
  ASSUME IInv, NEW p \in Procs, NEW d \in Fds, ofile[p][d] # NIL
  PROVE  /\ ofile[p][d] \in Files /\ ref[ofile[p][d]] \in Nat /\ ref[ofile[p][d]] >= 1
         /\ pc[p] # "openset" => type[ofile[p][d]] # "none"
<1>1. ofile[p][d] \in Files /\ Cardinality(InOfile(ofile[p][d])) >= 1
  BY Referenced
<1>2. PICK f \in Files: f = ofile[p][d]
  BY <1>1
<1>3. ref[f] = Cardinality(InOfile(f)) + Cardinality(InNew(f)) + Cardinality(InDrop(f))
  BY DEF IInv, RefInv
<1>4. /\ Cardinality(InOfile(f)) \in Nat /\ Cardinality(InNew(f)) \in Nat
      /\ Cardinality(InDrop(f)) \in Nat
  BY SetsCount
<1>5. ref[f] >= 1 /\ ref[f] \in Nat
  BY <1>1, <1>2, <1>3, <1>4
<1>6. pc[p] # "openset" => type[f] # "none"
  BY <1>2 DEF IInv, DescInv
<1>7. QED BY <1>1, <1>2, <1>5, <1>6

\* The file that fileclose() is called with has a reference.
LEMMA Dropped ==
  ASSUME IInv, NEW p \in Procs, drop[p] # <<>>
  PROVE  /\ Head(drop[p]) \in Files /\ Head(drop[p]) \in Members(drop[p])
         /\ Tail(drop[p]) \in Seq(Files) /\ Distinct(Tail(drop[p]))
         /\ Members(Tail(drop[p])) = Members(drop[p]) \ {Head(drop[p])}
         /\ ref[Head(drop[p])] \in Nat /\ ref[Head(drop[p])] >= 1
         /\ Cardinality(InDrop(Head(drop[p]))) >= 1
<1>1. drop[p] \in Seq(Files) /\ Distinct(drop[p])
  BY DEF IInv, TypeOK, DistinctInv
<1>2. /\ Head(drop[p]) \in Files /\ Head(drop[p]) \in Members(drop[p])
      /\ Tail(drop[p]) \in Seq(Files) /\ Distinct(Tail(drop[p]))
      /\ Members(Tail(drop[p])) = Members(drop[p]) \ {Head(drop[p])}
  BY <1>1, MembersTail
<1>3. PICK f \in Files: f = Head(drop[p])
  BY <1>2
<1>4. Cardinality(InDrop(f)) >= 1
  BY <1>2, <1>3, Referenced
<1>5. ref[f] = Cardinality(InOfile(f)) + Cardinality(InNew(f)) + Cardinality(InDrop(f))
  BY DEF IInv, RefInv
<1>6. /\ Cardinality(InOfile(f)) \in Nat /\ Cardinality(InNew(f)) \in Nat
      /\ Cardinality(InDrop(f)) \in Nat
  BY SetsCount
<1>7. ref[f] >= 1 /\ ref[f] \in Nat
  BY <1>4, <1>5, <1>6
<1>8. QED BY <1>2, <1>3, <1>4, <1>7

LEMMA PanicStep ==
  ASSUME IInv, NEW p \in Procs, Allocate(p) \/ Share(p) \/ Drop(p)
  PROVE  panic = None /\ OnlyMemoReadPanics'
<1>0. TypeOK /\ PlaceInv
  BY DEF IInv
<1>1. panic = None
  BY DEF Allocate, Share, Drop, Open, OpenAlloc, OpenFd, OpenSet, OpenFail, OpenPut, PipeCall,
     MemoCall, CallAlloc, CallAllocFail, PipeNoPage, PipeFds, PipeFdsFail, MemoFd, MemoFdFail, Dup,
     Close, FileRead, FileWrite, Fork, ForkDup, ForkSkip, ForkDone, Forking, FileClose, Closing,
     FileRelease, CloseDone, Exit, ExitClose, ExitZombie, Wait, At
<1>2. CASE \E d \in Fds: Dup(p, d) \/ FileWrite(p, d)
  <2>1. PICK d \in Fds: Dup(p, d) \/ FileWrite(p, d)
    BY <1>2
  <2>2. ofile[p][d] # NIL /\ pc[p] # "openset"
    BY <2>1 DEF Dup, FileWrite, At
  <2>3. /\ ref[ofile[p][d]] >= 1 /\ ref[ofile[p][d]] \in Nat
        /\ type[ofile[p][d]] \in {"pipe", "memo", "inode"}
    BY <1>0, <2>2, Usable DEF TypeOK
  <2>4. panic' = None
    BY <2>1, <2>3 DEF Dup, FileDup, FileWrite
  <2>5. QED BY <1>1, <2>4 DEF OnlyMemoReadPanics
<1>3. CASE \E d \in Fds: FileRead(p, d)
  <2>1. PICK d \in Fds: FileRead(p, d)
    BY <1>3
  <2>2. ofile[p][d] # NIL /\ pc[p] # "openset" /\ UNCHANGED <<ofile, type>>
    BY <2>1 DEF FileRead, At, file
  <2>3. type[ofile[p][d]] \in {"pipe", "memo", "inode"}
    BY <1>0, <2>2, Usable DEF TypeOK
  <2>4. panic' = None \/ (panic' = "fileread" /\ type[ofile[p][d]] = "memo")
    BY <2>1, <2>3 DEF FileRead
  <2>5. QED BY <1>1, <2>2, <2>4 DEF OnlyMemoReadPanics
<1>4. CASE \E q \in Procs, d \in 0 .. NOFILE: ForkDup(p, q, d)
  <2>1. PICK q \in Procs, d \in Fds: ForkDup(p, q, d)
    BY <1>4 DEF ForkDup
  <2>2. ofile[p][d] # NIL
    BY <2>1 DEF ForkDup
  <2>3. ref[ofile[p][d]] >= 1 /\ ref[ofile[p][d]] \in Nat
    BY <2>2, Usable
  <2>4. panic' = None
    BY <2>1, <2>3 DEF ForkDup, FileDup
  <2>5. QED BY <1>1, <2>4 DEF OnlyMemoReadPanics
<1>5. CASE FileClose(p)
  <2>1. ref[Head(drop[p])] >= 1 /\ ref[Head(drop[p])] \in Nat
    BY <1>5, Dropped DEF FileClose, Closing
  <2>2. panic' = None
    BY <1>5, <2>1 DEF FileClose
  <2>3. QED BY <1>1, <2>2 DEF OnlyMemoReadPanics
<1>6. CASE UNCHANGED panic
  BY <1>1, <1>6 DEF OnlyMemoReadPanics
<1>7. QED
  BY <1>1, <1>2, <1>3, <1>4, <1>5, <1>6 DEF Allocate, Share, Drop, Open, OpenAlloc, OpenFd, OpenSet,
     OpenFail, OpenPut, PipeCall, MemoCall, CallAlloc, CallAllocFail, PipeNoPage, PipeFds, PipeFdsFail,
     MemoFd, MemoFdFail, Close, Fork, ForkSkip, ForkDone, FileRelease, CloseDone, Exit, ExitClose,
     ExitZombie, Wait

-----------------------------------------------------------------------------
(* The reference counts.                                                   *)

RefsInv == NewInv /\ DistinctInv /\ RefInv /\ DescInv

LEMMA RefsSame ==
  ASSUME IInv, UNCHANGED <<ref, type, ofile, new, drop>>,
         \A q \in Procs: pc'[q] = "openset" <=> pc[q] = "openset"
  PROVE  RefsInv'
<1>1. NewInv /\ DistinctInv /\ RefInv /\ DescInv
  BY DEF IInv
<1>2. \A f \in Files: InOfile(f)' = InOfile(f) /\ InNew(f)' = InNew(f) /\ InDrop(f)' = InDrop(f)
  BY SameOfile, SameNew, SameDrop
<1>3. RefInv'
  BY <1>1, <1>2 DEF RefInv
<1>4. NewInv' /\ DistinctInv' /\ DescInv'
  BY <1>1 DEF NewInv, DistinctInv, DescInv, Members, Distinct
<1>5. QED BY <1>3, <1>4 DEF RefsInv

\* filealloc() hands out an entry that nothing points to.
LEMMA RefsAlloc ==
  ASSUME IInv, NEW p \in Procs, pc[p] # "openset", NEW f \in Files, ref[f] = 0,
         ref' = [ref EXCEPT ![f] = 1], new' = [new EXCEPT ![p] = Append(new[p], f)],
         UNCHANGED <<type, ofile, drop, pc>>
  PROVE  RefsInv'
<1>1. TypeOK /\ NewInv /\ DistinctInv /\ RefInv /\ DescInv
  BY DEF IInv
<1>2. /\ new[p] \in Seq(Files) /\ type[f] = "none"
      /\ \A q \in Procs \ {p}: new'[q] = new[q]
      /\ new'[p] = Append(new[p], f)
      /\ ref'[f] = 1 /\ \A h \in Files \ {f}: ref'[h] = ref[h]
  BY <1>1 DEF TypeOK, FreeFiles
<1>3. \A q \in Procs: f \notin Members(new[q])
  BY <1>1 DEF NewInv
<1>4. /\ Members(new'[p]) = Members(new[p]) \cup {f}
      /\ Distinct(new'[p])
  BY <1>1, <1>2, <1>3, MembersAppend DEF DistinctInv
<1>5. RefInv'
  <2> SUFFICES ASSUME NEW h \in Files
               PROVE  ref'[h] = Cardinality(InOfile(h)') + Cardinality(InNew(h)') + Cardinality(InDrop(h)')
    BY DEF RefInv
  <2>1. InOfile(h)' = InOfile(h) /\ InDrop(h)' = InDrop(h)
    BY SameOfile, SameDrop
  <2>2. /\ Cardinality(InNew(h)) \in Nat
        /\ Cardinality(InNew(h)') = (Cardinality(InNew(h)) - One(pc[p] # "openset" /\ h \in Members(new[p])))
                                    + One(pc'[p] # "openset" /\ h \in Members(new'[p]))
    BY <1>2, CountNew
  <2>3. /\ ref[h] = Cardinality(InOfile(h)) + Cardinality(InNew(h)) + Cardinality(InDrop(h))
        /\ Cardinality(InOfile(h)) \in Nat /\ Cardinality(InDrop(h)) \in Nat
    BY <1>1, SetsCount DEF RefInv
  <2>4. CASE h = f
    <3>1. Cardinality(InNew(h)') = (Cardinality(InNew(h)) - 0) + 1
      BY <1>2, <1>3, <1>4, <2>2, <2>4 DEF One
    <3>2. ref'[h] = 1 /\ ref[h] = 0
      BY <1>2, <2>4
    <3>3. QED BY <2>1, <2>2, <2>3, <3>1, <3>2
  <2>5. CASE h # f
    <3>1. Cardinality(InNew(h)') = Cardinality(InNew(h))
      BY <1>2, <1>4, <2>2, <2>5 DEF One
    <3>2. QED BY <1>2, <2>1, <2>3, <2>5, <3>1
  <2>6. QED BY <2>4, <2>5
<1>6. NewInv'
  <2> SUFFICES ASSUME NEW q \in Procs, NEW h \in Members(new'[q])
               PROVE  /\ ref'[h] = 1 /\ type'[h] = "none"
                      /\ pc'[q] = "openset" => \E d \in Fds: ofile'[q][d] = h
    BY DEF NewInv
  <2>1. CASE q = p /\ h = f
    BY <1>2, <2>1
  <2>2. CASE ~(q = p /\ h = f)
    <3>1. h \in Members(new[q])
      BY <1>2, <1>4, <2>2
    <3>2. h \in Files /\ h # f
      BY <1>3, <3>1, Referenced
    <3>3. QED BY <1>1, <1>2, <3>1, <3>2 DEF NewInv
  <2>3. QED BY <2>1, <2>2
<1>7. DistinctInv'
  BY <1>1, <1>2, <1>4 DEF DistinctInv
<1>8. DescInv'
  BY <1>1, <1>2 DEF DescInv
<1>9. QED BY <1>5, <1>6, <1>7, <1>8 DEF RefsInv

\* A call that fails passes its files on to fileclose().
LEMMA RefsDropNew ==
  ASSUME IInv, NEW p \in Procs, pc[p] # "openset", pc'[p] # "openset", drop[p] = <<>>, DropNew(p),
         UNCHANGED <<ref, ofile>>, \A q \in Procs \ {p}: pc'[q] = pc[q],
         \A f \in Files \ Members(new[p]): type'[f] = type[f]
  PROVE  RefsInv'
<1>1. TypeOK /\ NewInv /\ DistinctInv /\ RefInv /\ DescInv
  BY DEF IInv
<1>2. /\ new' = [new EXCEPT ![p] = <<>>] /\ drop' = [drop EXCEPT ![p] = new[p]]
      /\ new'[p] = <<>> /\ drop'[p] = new[p]
      /\ \A q \in Procs \ {p}: new'[q] = new[q] /\ drop'[q] = drop[q]
  BY <1>1 DEF TypeOK, DropNew
<1>3. Members(<<>>) = {} /\ Distinct(<<>>)
  BY MembersEmpty
<1>4. RefInv'
  <2> SUFFICES ASSUME NEW h \in Files
               PROVE  ref'[h] = Cardinality(InOfile(h)') + Cardinality(InNew(h)') + Cardinality(InDrop(h)')
    BY DEF RefInv
  <2>1. InOfile(h)' = InOfile(h)
    BY SameOfile
  <2>2. /\ Cardinality(InNew(h)) \in Nat
        /\ Cardinality(InNew(h)') = (Cardinality(InNew(h)) - One(pc[p] # "openset" /\ h \in Members(new[p])))
                                    + One(pc'[p] # "openset" /\ h \in Members(new'[p]))
    BY <1>2, CountNew
  <2>3. /\ Cardinality(InDrop(h)) \in Nat
        /\ Cardinality(InDrop(h)') = (Cardinality(InDrop(h)) - One(h \in Members(drop[p])))
                                     + One(h \in Members(drop'[p]))
    BY <1>2, CountDrop
  <2>4. /\ One(pc[p] # "openset" /\ h \in Members(new[p])) = One(h \in Members(new[p]))
        /\ One(pc'[p] # "openset" /\ h \in Members(new'[p])) = 0
        /\ One(h \in Members(drop[p])) = 0 /\ One(h \in Members(new[p])) \in Int
        /\ One(h \in Members(drop'[p])) = One(h \in Members(new[p]))
    BY <1>2, <1>3 DEF One
  <2>5. /\ ref[h] = Cardinality(InOfile(h)) + Cardinality(InNew(h)) + Cardinality(InDrop(h))
        /\ Cardinality(InOfile(h)) \in Nat
    BY <1>1, SetsCount DEF RefInv
  <2>6. QED BY <2>1, <2>2, <2>3, <2>4, <2>5
<1>5. NewInv'
  <2> SUFFICES ASSUME NEW q \in Procs, NEW h \in Members(new'[q])
               PROVE  /\ ref'[h] = 1 /\ type'[h] = "none"
                      /\ pc'[q] = "openset" => \E d \in Fds: ofile'[q][d] = h
    BY DEF NewInv
  <2>1. q # p /\ h \in Members(new[q])
    BY <1>2, <1>3
  <2>2. h \in Files /\ h \notin Members(new[p])
    BY <2>1, NewAlone
  <2>3. QED BY <1>1, <2>1, <2>2 DEF NewInv
<1>6. DistinctInv'
  BY <1>1, <1>2, <1>3 DEF DistinctInv
<1>7. DescInv'
  <2> SUFFICES ASSUME NEW q \in Procs, NEW e \in Fds, ofile[q][e] # NIL, type'[ofile[q][e]] = "none"
               PROVE  pc'[q] = "openset" /\ ofile'[q][e] = new'[q][1]
    BY DEF DescInv
  <2>1. ofile[q][e] \in Files /\ ofile[q][e] \notin Members(new[p])
    BY NewAlone, Usable
  <2>2. type[ofile[q][e]] = "none"
    BY <2>1
  <2>3. pc[q] = "openset" /\ ofile[q][e] = new[q][1]
    BY <1>1, <2>2 DEF DescInv
  <2>4. QED BY <1>2, <2>3
<1>8. QED BY <1>4, <1>5, <1>6, <1>7 DEF RefsInv

LEMMA RefsOpenFd ==
  ASSUME IInv, NEW p \in Procs, OpenFd(p)
  PROVE  RefsInv'
<1>1. TypeOK /\ NewInv /\ DistinctInv /\ RefInv /\ DescInv
  BY DEF IInv
<1>2. PICK f \in Files: f = new[p][1] /\ Members(new[p]) = {f}
  BY Calls DEF OpenFd, At
<1>3. PICK d \in Fds: ofile[p][d] = NIL /\ ofile' = [ofile EXCEPT ![p][d] = f]
  BY <1>1, <1>2, FdAllocTakes DEF OpenFd
<1>4. /\ pc[p] = "open" /\ pc'[p] = "openset" /\ \A q \in Procs \ {p}: pc'[q] = pc[q]
      /\ UNCHANGED <<ref, type, new, drop>>
  BY <1>1 DEF TypeOK, OpenFd, At, Goto, file
<1>5. \A q \in Procs, e \in Fds: ofile'[q][e] = IF q = p /\ e = d THEN f ELSE ofile[q][e]
  BY <1>1, <1>3 DEF TypeOK
<1>6. RefInv'
  <2> SUFFICES ASSUME NEW h \in Files
               PROVE  ref'[h] = Cardinality(InOfile(h)') + Cardinality(InNew(h)') + Cardinality(InDrop(h)')
    BY DEF RefInv
  <2>1. InDrop(h)' = InDrop(h)
    BY <1>4, SameDrop
  <2>2. /\ Cardinality(InOfile(h)) \in Nat
        /\ Cardinality(InOfile(h)') = (Cardinality(InOfile(h)) - One(ofile[p][d] = h)) + One(ofile'[p][d] = h)
    BY <1>5, CountOfile
  <2>4. /\ Cardinality(InNew(h)) \in Nat
        /\ Cardinality(InNew(h)') = (Cardinality(InNew(h)) - One(pc[p] # "openset" /\ h \in Members(new[p])))
                                    + One(pc'[p] # "openset" /\ h \in Members(new'[p]))
    BY <1>4, CountNew
  <2>5. h # NIL
    BY FileConstants DEF Files, NIL
  <2>6. /\ One(pc[p] # "openset" /\ h \in Members(new[p])) = One(f = h)
        /\ One(pc'[p] # "openset" /\ h \in Members(new'[p])) = 0
        /\ One(ofile[p][d] = h) = 0 /\ One(ofile'[p][d] = h) = One(f = h) /\ One(f = h) \in Int
    BY <1>2, <1>3, <1>4, <1>5, <2>5 DEF One
  <2>7. /\ ref[h] = Cardinality(InOfile(h)) + Cardinality(InNew(h)) + Cardinality(InDrop(h))
        /\ Cardinality(InDrop(h)) \in Nat
    BY <1>1, SetsCount DEF RefInv
  <2>8. QED BY <1>4, <2>1, <2>2, <2>4, <2>6, <2>7
<1>7. NewInv'
  <2> SUFFICES ASSUME NEW q \in Procs, NEW h \in Members(new[q])
               PROVE  /\ ref'[h] = 1 /\ type'[h] = "none"
                      /\ pc'[q] = "openset" => \E e \in Fds: ofile'[q][e] = h
    BY <1>4 DEF NewInv
  <2>1. ref'[h] = 1 /\ type'[h] = "none"
    BY <1>1, <1>4 DEF NewInv
  <2>2. CASE q = p
    BY <1>2, <1>5, <2>1, <2>2
  <2>3. CASE q # p
    BY <1>1, <1>4, <1>5, <2>1, <2>3 DEF NewInv
  <2>4. QED BY <2>2, <2>3
<1>8. DistinctInv'
  BY <1>1, <1>4 DEF DistinctInv
<1>9. DescInv'
  <2> SUFFICES ASSUME NEW q \in Procs, NEW e \in Fds, ofile'[q][e] # NIL, type[ofile'[q][e]] = "none"
               PROVE  pc'[q] = "openset" /\ ofile'[q][e] = new[q][1]
    BY <1>4 DEF DescInv
  <2>1. CASE q = p /\ e = d
    BY <1>2, <1>4, <1>5, <2>1
  <2>2. CASE ~(q = p /\ e = d)
    <3>1. pc[q] = "openset" /\ ofile[q][e] = new[q][1] /\ ofile'[q][e] = ofile[q][e]
      BY <1>1, <1>5, <2>2 DEF DescInv
    <3>2. QED BY <1>4, <3>1
  <2>3. QED BY <2>1, <2>2
<1>10. QED BY <1>6, <1>7, <1>8, <1>9 DEF RefsInv

LEMMA RefsOpenSet ==
  ASSUME IInv, NEW p \in Procs, NEW omode \in Modes, OpenSet(p, omode)
  PROVE  RefsInv'
<1>1. TypeOK /\ NewInv /\ DistinctInv /\ RefInv /\ DescInv
  BY DEF IInv
<1>2. PICK f \in Files: f = new[p][1] /\ Members(new[p]) = {f}
  BY Calls DEF OpenSet, At
<1>3. /\ pc[p] = "openset" /\ pc'[p] = "user" /\ \A q \in Procs \ {p}: pc'[q] = pc[q]
      /\ UNCHANGED <<ref, ofile, drop>> /\ type' = [type EXCEPT ![f] = "inode"]
      /\ new' = [new EXCEPT ![p] = <<>>]
  BY <1>1, <1>2 DEF TypeOK, OpenSet, SetFile, At, Goto
<1>4. /\ new'[p] = <<>> /\ \A q \in Procs \ {p}: new'[q] = new[q]
      /\ type'[f] = "inode" /\ \A h \in Files \ {f}: type'[h] = type[h]
  BY <1>1, <1>3 DEF TypeOK
<1>5. Members(<<>>) = {} /\ Distinct(<<>>)
  BY MembersEmpty
<1>6. RefInv'
  <2> SUFFICES ASSUME NEW h \in Files
               PROVE  ref'[h] = Cardinality(InOfile(h)') + Cardinality(InNew(h)') + Cardinality(InDrop(h)')
    BY DEF RefInv
  <2>1. InDrop(h)' = InDrop(h) /\ InOfile(h)' = InOfile(h)
    BY <1>3, SameDrop, SameOfile
  <2>2. /\ Cardinality(InNew(h)) \in Nat
        /\ Cardinality(InNew(h)') = (Cardinality(InNew(h)) - One(pc[p] # "openset" /\ h \in Members(new[p])))
                                    + One(pc'[p] # "openset" /\ h \in Members(new'[p]))
    BY <1>3, <1>4, CountNew
  <2>3. Cardinality(InNew(h)') = Cardinality(InNew(h))
    BY <1>3, <1>4, <1>5, <2>2 DEF One
  <2>4. QED BY <1>1, <1>3, <2>1, <2>3 DEF RefInv
<1>7. NewInv'
  <2> SUFFICES ASSUME NEW q \in Procs, NEW h \in Members(new'[q])
               PROVE  /\ ref'[h] = 1 /\ type'[h] = "none"
                      /\ pc'[q] = "openset" => \E e \in Fds: ofile'[q][e] = h
    BY DEF NewInv
  <2>1. q # p /\ h \in Members(new[q])
    BY <1>4, <1>5
  <2>2. h \in Files /\ h # f
    BY <1>2, <2>1, NewAlone
  <2>3. QED BY <1>1, <1>3, <1>4, <2>1, <2>2 DEF NewInv
<1>8. DistinctInv'
  BY <1>1, <1>3, <1>4, <1>5 DEF DistinctInv
<1>9. DescInv'
  <2> SUFFICES ASSUME NEW q \in Procs, NEW e \in Fds, ofile[q][e] # NIL, type'[ofile[q][e]] = "none"
               PROVE  pc'[q] = "openset" /\ ofile[q][e] = new'[q][1]
    BY <1>3 DEF DescInv
  <2>1. ofile[q][e] \in Files /\ ofile[q][e] # f
    BY <1>4, Usable
  <2>2. pc[q] = "openset" /\ ofile[q][e] = new[q][1]
    BY <1>1, <1>4, <2>1 DEF DescInv
  <2>3. QED BY <1>2, <1>3, <1>4, <2>1, <2>2
<1>10. QED BY <1>6, <1>7, <1>8, <1>9 DEF RefsInv

\* A call that succeeds gives its files descriptors.
LEMMA RefsInstall ==
  ASSUME IInv, NEW p \in Procs, pc[p] # "openset", pc'[p] # "openset",
         \A q \in Procs \ {p}: pc'[q] = pc[q],
         UNCHANGED <<ref, drop>>, new' = [new EXCEPT ![p] = <<>>],
         \A f \in Files: IF f \in Members(new[p]) THEN type'[f] # "none" ELSE type'[f] = type[f],
         \A q \in Procs, e \in Fds: ofile'[q][e] = ofile[q][e] \/ (q = p /\ ofile'[q][e] \in Members(new[p])),
         \A f \in Files: Cardinality(InOfile(f)') = Cardinality(InOfile(f)) + One(f \in Members(new[p]))
  PROVE  RefsInv'
<1>1. TypeOK /\ NewInv /\ DistinctInv /\ RefInv /\ DescInv
  BY DEF IInv
<1>2. new'[p] = <<>> /\ \A q \in Procs \ {p}: new'[q] = new[q]
  BY <1>1 DEF TypeOK
<1>3. Members(<<>>) = {} /\ Distinct(<<>>)
  BY MembersEmpty
<1>4. RefInv'
  <2> SUFFICES ASSUME NEW h \in Files
               PROVE  ref'[h] = Cardinality(InOfile(h)') + Cardinality(InNew(h)') + Cardinality(InDrop(h)')
    BY DEF RefInv
  <2>1. InDrop(h)' = InDrop(h)
    BY SameDrop
  <2>2. /\ Cardinality(InNew(h)) \in Nat
        /\ Cardinality(InNew(h)') = (Cardinality(InNew(h)) - One(pc[p] # "openset" /\ h \in Members(new[p])))
                                    + One(pc'[p] # "openset" /\ h \in Members(new'[p]))
    BY <1>2, CountNew
  <2>3. /\ One(pc[p] # "openset" /\ h \in Members(new[p])) = One(h \in Members(new[p]))
        /\ One(pc'[p] # "openset" /\ h \in Members(new'[p])) = 0
        /\ One(h \in Members(new[p])) \in Int
    BY <1>2, <1>3 DEF One
  <2>4. /\ ref[h] = Cardinality(InOfile(h)) + Cardinality(InNew(h)) + Cardinality(InDrop(h))
        /\ Cardinality(InDrop(h)) \in Nat /\ Cardinality(InOfile(h)) \in Nat
    BY <1>1, SetsCount DEF RefInv
  <2>5. Cardinality(InOfile(h)') = Cardinality(InOfile(h)) + One(h \in Members(new[p]))
    OBVIOUS
  <2>6. QED BY <2>1, <2>2, <2>3, <2>4, <2>5
<1>5. NewInv'
  <2> SUFFICES ASSUME NEW q \in Procs, NEW h \in Members(new'[q])
               PROVE  /\ ref'[h] = 1 /\ type'[h] = "none"
                      /\ pc'[q] = "openset" => \E e \in Fds: ofile'[q][e] = h
    BY DEF NewInv
  <2>1. q # p /\ h \in Members(new[q])
    BY <1>2, <1>3
  <2>2. h \in Files /\ h \notin Members(new[p])
    BY <2>1, NewAlone
  <2>3. \A e \in Fds: ofile'[q][e] = ofile[q][e]
    BY <2>1
  <2>4. QED BY <1>1, <2>1, <2>2, <2>3 DEF NewInv
<1>6. DistinctInv'
  BY <1>1, <1>2, <1>3 DEF DistinctInv
<1>7. DescInv'
  <2> SUFFICES ASSUME NEW q \in Procs, NEW e \in Fds, ofile'[q][e] # NIL, type'[ofile'[q][e]] = "none"
               PROVE  pc'[q] = "openset" /\ ofile'[q][e] = new'[q][1]
    BY DEF DescInv
  <2>1. \A f \in Members(new[p]): f \in Files /\ type'[f] # "none"
    BY NewAlone
  <2>2. ofile'[q][e] = ofile[q][e] /\ ofile[q][e] \notin Members(new[p])
    BY <2>1
  <2>3. ofile[q][e] \in Files
    BY <2>2, Usable
  <2>4. pc[q] = "openset" /\ ofile[q][e] = new[q][1]
    BY <1>1, <2>2, <2>3 DEF DescInv
  <2>5. QED BY <1>2, <2>2, <2>4
<1>8. QED BY <1>4, <1>5, <1>6, <1>7 DEF RefsInv

\* dup() and fork() add a descriptor and count it.
LEMMA RefsShare ==
  ASSUME IInv, NEW q \in Procs, NEW e \in Fds, ofile[q][e] = NIL,
         NEW f \in Files, type[f] # "none",
         ofile' = [ofile EXCEPT ![q][e] = f], ref' = [ref EXCEPT ![f] = @ + 1],
         UNCHANGED <<type, new, drop, pc>>
  PROVE  RefsInv'
<1>1. TypeOK /\ NewInv /\ DistinctInv /\ RefInv /\ DescInv
  BY DEF IInv
<1>2. \A r \in Procs, c \in Fds: ofile'[r][c] = IF r = q /\ c = e THEN f ELSE ofile[r][c]
  BY <1>1 DEF TypeOK
<1>3. ref'[f] = ref[f] + 1 /\ \A h \in Files \ {f}: ref'[h] = ref[h]
  BY <1>1 DEF TypeOK
<1>4. RefInv'
  <2> SUFFICES ASSUME NEW h \in Files
               PROVE  ref'[h] = Cardinality(InOfile(h)') + Cardinality(InNew(h)') + Cardinality(InDrop(h)')
    BY DEF RefInv
  <2>1. InDrop(h)' = InDrop(h) /\ InNew(h)' = InNew(h)
    BY SameDrop, SameNew
  <2>2. /\ Cardinality(InOfile(h)) \in Nat
        /\ Cardinality(InOfile(h)') = (Cardinality(InOfile(h)) - One(ofile[q][e] = h)) + One(ofile'[q][e] = h)
    BY <1>2, CountOfile
  <2>3. h # NIL
    BY FileConstants DEF Files, NIL
  <2>4. One(ofile[q][e] = h) = 0 /\ One(ofile'[q][e] = h) = One(f = h) /\ One(f = h) \in Int
    BY <1>2, <2>3 DEF One
  <2>5. ref'[h] = ref[h] + One(f = h)
    BY <1>1, <1>3 DEF One, TypeOK
  <2>6. /\ ref[h] = Cardinality(InOfile(h)) + Cardinality(InNew(h)) + Cardinality(InDrop(h))
        /\ Cardinality(InDrop(h)) \in Nat /\ Cardinality(InNew(h)) \in Nat
    BY <1>1, SetsCount DEF RefInv
  <2>7. QED BY <2>1, <2>2, <2>4, <2>5, <2>6
<1>5. NewInv'
  <2> SUFFICES ASSUME NEW r \in Procs, NEW h \in Members(new[r])
               PROVE  /\ ref'[h] = 1 /\ type'[h] = "none"
                      /\ pc'[r] = "openset" => \E d \in Fds: ofile'[r][d] = h
    BY DEF NewInv
  <2>1. h \in Files /\ ref[h] = 1 /\ type[h] = "none"
    BY NewAlone
  <2>2. h # NIL /\ h # f
    BY <2>1, FileConstants DEF Files, NIL
  <2>3. pc[r] = "openset" => \E d \in Fds: ofile[r][d] = h
    BY <1>1 DEF NewInv
  <2>4. \A d \in Fds: ofile[r][d] = h => ofile'[r][d] = h
    BY <1>2, <2>2
  <2>5. QED BY <1>3, <2>1, <2>2, <2>3, <2>4
<1>6. DistinctInv'
  BY <1>1 DEF DistinctInv
<1>7. DescInv'
  <2> SUFFICES ASSUME NEW r \in Procs, NEW c \in Fds, ofile'[r][c] # NIL, type[ofile'[r][c]] = "none"
               PROVE  pc[r] = "openset" /\ ofile'[r][c] = new[r][1]
    BY DEF DescInv
  <2>1. ofile'[r][c] = ofile[r][c]
    BY <1>2
  <2>2. QED BY <1>1, <2>1 DEF DescInv
<1>8. QED BY <1>4, <1>5, <1>6, <1>7 DEF RefsInv

\* close() and exit() pass a descriptor on to fileclose().
LEMMA RefsClose ==
  ASSUME IInv, NEW p \in Procs, NEW d \in Fds, ofile[p][d] # NIL, drop[p] = <<>>,
         pc[p] # "openset", pc'[p] # "openset", \A q \in Procs \ {p}: pc'[q] = pc[q],
         ofile' = [ofile EXCEPT ![p][d] = NIL], drop' = [drop EXCEPT ![p] = <<ofile[p][d]>>],
         UNCHANGED <<ref, type, new>>
  PROVE  RefsInv'
<1>1. TypeOK /\ NewInv /\ DistinctInv /\ RefInv /\ DescInv
  BY DEF IInv
<1>2. PICK f \in Files: f = ofile[p][d]
  BY Usable
<1>3. \A q \in Procs, e \in Fds: ofile'[q][e] = IF q = p /\ e = d THEN NIL ELSE ofile[q][e]
  BY <1>1 DEF TypeOK
<1>4. drop'[p] = <<f>> /\ \A q \in Procs \ {p}: drop'[q] = drop[q]
  BY <1>1, <1>2 DEF TypeOK
<1>5. /\ Members(drop'[p]) = {f} /\ Distinct(drop'[p])
      /\ Members(drop[p]) = {}
  BY <1>4, MembersOne, MembersEmpty
<1>6. RefInv'
  <2> SUFFICES ASSUME NEW h \in Files
               PROVE  ref'[h] = Cardinality(InOfile(h)') + Cardinality(InNew(h)') + Cardinality(InDrop(h)')
    BY DEF RefInv
  <2>1. InNew(h)' = InNew(h)
    <3>1. \A q \in Procs: pc'[q] = "openset" <=> pc[q] = "openset"
      OBVIOUS
    <3>2. QED BY <3>1, SameNew
  <2>2. /\ Cardinality(InOfile(h)) \in Nat
        /\ Cardinality(InOfile(h)') = (Cardinality(InOfile(h)) - One(ofile[p][d] = h)) + One(ofile'[p][d] = h)
    BY <1>3, CountOfile
  <2>3. /\ Cardinality(InDrop(h)) \in Nat
        /\ Cardinality(InDrop(h)') = (Cardinality(InDrop(h)) - One(h \in Members(drop[p])))
                                     + One(h \in Members(drop'[p]))
    BY <1>4, CountDrop
  <2>4. h # NIL
    BY FileConstants DEF Files, NIL
  <2>5. /\ One(ofile[p][d] = h) = One(f = h) /\ One(ofile'[p][d] = h) = 0 /\ One(f = h) \in Int
        /\ One(h \in Members(drop[p])) = 0 /\ One(h \in Members(drop'[p])) = One(f = h)
    BY <1>2, <1>3, <1>5, <2>4 DEF One
  <2>6. /\ ref[h] = Cardinality(InOfile(h)) + Cardinality(InNew(h)) + Cardinality(InDrop(h))
        /\ Cardinality(InNew(h)) \in Nat
    BY <1>1, SetsCount DEF RefInv
  <2>7. QED BY <2>1, <2>2, <2>3, <2>5, <2>6
<1>7. NewInv'
  <2> SUFFICES ASSUME NEW q \in Procs, NEW h \in Members(new[q])
               PROVE  /\ ref'[h] = 1 /\ type'[h] = "none"
                      /\ pc'[q] = "openset" => \E e \in Fds: ofile'[q][e] = h
    BY DEF NewInv
  <2>1. CASE q = p
    BY <1>1, <2>1 DEF NewInv
  <2>2. CASE q # p
    <3>1. \A e \in Fds: ofile'[q][e] = ofile[q][e]
      BY <1>3, <2>2
    <3>2. QED BY <1>1, <2>2, <3>1 DEF NewInv
  <2>3. QED BY <2>1, <2>2
<1>8. DistinctInv'
  BY <1>1, <1>4, <1>5 DEF DistinctInv
<1>9. DescInv'
  <2> SUFFICES ASSUME NEW q \in Procs, NEW e \in Fds, ofile'[q][e] # NIL, type[ofile'[q][e]] = "none"
               PROVE  pc'[q] = "openset" /\ ofile'[q][e] = new[q][1]
    BY DEF DescInv
  <2>1. ofile'[q][e] = ofile[q][e]
    BY <1>3
  <2>2. pc[q] = "openset" /\ ofile[q][e] = new[q][1]
    BY <1>1, <2>1 DEF DescInv
  <2>3. QED BY <2>1, <2>2
<1>10. QED BY <1>6, <1>7, <1>8, <1>9 DEF RefsInv

\* fileclose() drops one reference.
LEMMA RefsFileClose ==
  ASSUME IInv, NEW p \in Procs, FileClose(p)
  PROVE  RefsInv'
<1>1. TypeOK /\ NewInv /\ DistinctInv /\ RefInv /\ DescInv
  BY DEF IInv
<1>2. PICK f \in Files: /\ f = Head(drop[p]) /\ f \in Members(drop[p]) /\ Distinct(Tail(drop[p]))
                        /\ Members(Tail(drop[p])) = Members(drop[p]) \ {f}
                        /\ Cardinality(InDrop(f)) >= 1
  BY Dropped DEF FileClose, Closing
<1>3. /\ UNCHANGED <<ofile, pc, new>>
      /\ ref' = [ref EXCEPT ![f] = @ - 1] /\ drop' = [drop EXCEPT ![p] = Tail(drop[p])]
      /\ ref[f] = 1 => type' = [type EXCEPT ![f] = "none"]
      /\ ref[f] # 1 => UNCHANGED type
  BY <1>2 DEF FileClose, SetFile
<1>4. /\ ref'[f] = ref[f] - 1 /\ \A h \in Files \ {f}: ref'[h] = ref[h]
      /\ drop'[p] = Tail(drop[p]) /\ \A q \in Procs \ {p}: drop'[q] = drop[q]
      /\ \A h \in Files \ {f}: type'[h] = type[h]
      /\ ref[f] # 1 => type'[f] = type[f]
  BY <1>1, <1>3 DEF TypeOK
<1>5. RefInv'
  <2> SUFFICES ASSUME NEW h \in Files
               PROVE  ref'[h] = Cardinality(InOfile(h)') + Cardinality(InNew(h)') + Cardinality(InDrop(h)')
    BY DEF RefInv
  <2>1. InOfile(h)' = InOfile(h) /\ InNew(h)' = InNew(h)
    BY <1>3, SameOfile, SameNew
  <2>2. /\ Cardinality(InDrop(h)) \in Nat
        /\ Cardinality(InDrop(h)') = (Cardinality(InDrop(h)) - One(h \in Members(drop[p])))
                                     + One(h \in Members(drop'[p]))
    BY <1>4, CountDrop
  <2>3. One(h \in Members(drop'[p])) = One(h \in Members(drop[p])) - One(f = h)
    BY <1>2, <1>4 DEF One
  <2>4. ref'[h] = ref[h] - One(f = h)
    BY <1>1, <1>4 DEF One, TypeOK
  <2>5. /\ ref[h] = Cardinality(InOfile(h)) + Cardinality(InNew(h)) + Cardinality(InDrop(h))
        /\ Cardinality(InNew(h)) \in Nat /\ Cardinality(InOfile(h)) \in Nat
    BY <1>1, SetsCount DEF RefInv
  <2>6. One(f = h) \in Int /\ One(h \in Members(drop[p])) \in Int
    BY DEF One
  <2>7. QED BY <2>1, <2>2, <2>3, <2>4, <2>5, <2>6
<1>6. NewInv'
  <2> SUFFICES ASSUME NEW q \in Procs, NEW h \in Members(new[q])
               PROVE  /\ ref'[h] = 1 /\ type'[h] = "none"
                      /\ pc'[q] = "openset" => \E e \in Fds: ofile'[q][e] = h
    BY <1>3 DEF NewInv
  <2>1. h \in Files /\ h \notin Members(drop[p])
    BY NewAlone
  <2>2. h # f
    BY <1>2, <2>1
  <2>3. QED BY <1>1, <1>3, <1>4, <2>1, <2>2 DEF NewInv
<1>7. DistinctInv'
  BY <1>1, <1>2, <1>3, <1>4 DEF DistinctInv
<1>8. ASSUME NEW q \in Procs, NEW e \in Fds, ofile[q][e] = f PROVE ref[f] # 1
  <2>1. <<q, e>> \in InOfile(f)
    BY <1>8 DEF InOfile
  <2>2. Cardinality(InOfile(f)) >= 1
    BY <2>1, SetsFinite, CountOne
  <2>3. /\ ref[f] = Cardinality(InOfile(f)) + Cardinality(InNew(f)) + Cardinality(InDrop(f))
        /\ Cardinality(InNew(f)) \in Nat /\ Cardinality(InOfile(f)) \in Nat /\ Cardinality(InDrop(f)) \in Nat
    BY <1>1, SetsCount DEF RefInv
  <2>4. QED BY <1>2, <2>2, <2>3
<1>9. DescInv'
  <2> SUFFICES ASSUME NEW q \in Procs, NEW e \in Fds, ofile[q][e] # NIL, type'[ofile[q][e]] = "none"
               PROVE  pc[q] = "openset" /\ ofile[q][e] = new[q][1]
    BY <1>3 DEF DescInv
  <2>1. ofile[q][e] \in Files
    BY Usable
  <2>2. type'[ofile[q][e]] = type[ofile[q][e]]
    BY <1>4, <1>8, <2>1
  <2>3. QED BY <1>1, <2>2 DEF DescInv
<1>10. QED BY <1>5, <1>6, <1>7, <1>9 DEF RefsInv

LEMMA RefsStep ==
  ASSUME IInv, NEW p \in Procs, Allocate(p) \/ Share(p) \/ Drop(p)
  PROVE  RefsInv'
<1>0. TypeOK /\ PlaceInv /\ ForkInv
  BY DEF IInv
<1>1. CASE \/ \E i \in Inodes: Open(p, i)
           \/ OpenPut(p) \/ PipeCall(p) \/ MemoCall(p)
           \/ (\E d \in Fds: FileRead(p, d) \/ FileWrite(p, d))
           \/ (\E q \in Procs: Fork(p, q))
           \/ (\E q \in Procs, d \in 0 .. NOFILE: ForkSkip(p, q, d) \/ ForkDone(p, q, d))
           \/ FileRelease(p) \/ CloseDone(p) \/ Exit(p) \/ ExitZombie(p) \/ Wait(p)
  <2>1. UNCHANGED <<ref, type, ofile, new, drop>>
    BY <1>1 DEF Open, OpenPut, PipeCall, MemoCall, FileRead, FileWrite, Fork, ForkSkip, ForkDone,
                FileRelease, CloseDone, Exit, ExitZombie, Wait, file
  <2>2. \/ UNCHANGED pc
        \/ pc[p] # "openset" /\ \E x \in Places \ {"openset"}: pc' = [pc EXCEPT ![p] = x]
    BY <1>1 DEF Open, OpenPut, PipeCall, MemoCall, FileRead, FileWrite, Fork, ForkSkip, ForkDone,
                Forking, FileRelease, CloseDone, Exit, ExitZombie, Wait, At, Goto, Places
  <2>3. \A q \in Procs: pc'[q] = "openset" <=> pc[q] = "openset"
    BY <1>0, <2>2 DEF TypeOK
  <2>4. QED BY <2>1, <2>3, RefsSame
<1>2. CASE OpenAlloc(p) \/ CallAlloc(p)
  <2>1. PICK f \in Files: /\ ref[f] = 0 /\ ref' = [ref EXCEPT ![f] = 1]
                          /\ new' = [new EXCEPT ![p] = Append(new[p], f)]
    BY <1>0, <1>2, FileAllocTakes DEF OpenAlloc, CallAlloc
  <2>2. pc[p] # "openset" /\ UNCHANGED <<type, ofile, drop, pc>>
    BY <1>2 DEF OpenAlloc, CallAlloc, At
  <2>3. QED BY <2>1, <2>2, RefsAlloc
<1>3. CASE OpenFd(p)
  BY <1>3, RefsOpenFd
<1>4. CASE \E omode \in Modes: OpenSet(p, omode)
  BY <1>4, RefsOpenSet
<1>5. CASE OpenFail(p) \/ CallAllocFail(p) \/ PipeNoPage(p) \/ MemoFdFail(p)
           \/ \E g \in Pipes: PipeFdsFail(p, g)
  <2>1. /\ DropNew(p) /\ UNCHANGED <<ref, ofile>> /\ drop[p] = <<>> /\ pc[p] # "openset"
        /\ Goto(p, "iput") \/ Goto(p, "close")
    BY <1>5 DEF OpenFail, CallAllocFail, PipeNoPage, MemoFdFail, PipeFdsFail, At, file
  <2>2. pc'[p] # "openset" /\ \A q \in Procs \ {p}: pc'[q] = pc[q]
    BY <1>0, <2>1 DEF TypeOK, Goto
  <2>3. \A f \in Files \ Members(new[p]): type'[f] = type[f]
    <3>1. CASE UNCHANGED type
      BY <3>1
    <3>2. CASE \E g \in Pipes: PipeFdsFail(p, g)
      <4>1. /\ type' = [type EXCEPT ![new[p][1]] = "pipe", ![new[p][2]] = "pipe"]
            /\ Members(new[p]) = {new[p][1], new[p][2]}
        BY <3>2, Calls DEF PipeFdsFail, PipeFiles
      <4>2. QED BY <1>0, <4>1 DEF TypeOK
    <3>3. QED BY <1>5, <3>1, <3>2 DEF OpenFail, CallAllocFail, PipeNoPage, MemoFdFail, file
  <2>4. QED BY <2>1, <2>2, <2>3, RefsDropNew
<1>6. CASE MemoFd(p)
  <2>1. PICK f \in Files: f = new[p][1] /\ Members(new[p]) = {f}
    BY <1>6, Calls DEF MemoFd, At
  <2>2. PICK d \in Fds: ofile[p][d] = NIL /\ ofile' = [ofile EXCEPT ![p][d] = f]
    BY <1>0, <1>6, <2>1, FdAllocTakes DEF MemoFd
  <2>3. /\ pc[p] # "openset" /\ pc'[p] # "openset" /\ \A q \in Procs \ {p}: pc'[q] = pc[q]
        /\ UNCHANGED <<ref, drop>> /\ new' = [new EXCEPT ![p] = <<>>]
        /\ type' = [type EXCEPT ![f] = "memo"]
    BY <1>0, <1>6, <2>1 DEF TypeOK, MemoFd, SetFile, At, Goto
  <2>4. \A q \in Procs, e \in Fds: ofile'[q][e] = IF q = p /\ e = d THEN f ELSE ofile[q][e]
    BY <1>0, <2>2 DEF TypeOK
  <2>5. \A h \in Files: IF h \in Members(new[p]) THEN type'[h] # "none" ELSE type'[h] = type[h]
    BY <1>0, <2>1, <2>3 DEF TypeOK
  <2>6. ASSUME NEW h \in Files
        PROVE  Cardinality(InOfile(h)') = Cardinality(InOfile(h)) + One(h \in Members(new[p]))
    <3>1. /\ Cardinality(InOfile(h)) \in Nat
          /\ Cardinality(InOfile(h)') = (Cardinality(InOfile(h)) - One(ofile[p][d] = h)) + One(ofile'[p][d] = h)
      BY <2>4, CountOfile
    <3>2. h # NIL
      BY FileConstants DEF Files, NIL
    <3>3. One(ofile[p][d] = h) = 0 /\ One(ofile'[p][d] = h) = One(h \in Members(new[p]))
      BY <2>1, <2>2, <2>4, <3>2 DEF One
    <3>4. QED BY <3>1, <3>3
  <2>7. \A q \in Procs, e \in Fds: ofile'[q][e] = ofile[q][e] \/ (q = p /\ ofile'[q][e] \in Members(new[p]))
    BY <2>1, <2>4
  <2>8. QED BY <2>3, <2>5, <2>6, <2>7, RefsInstall
<1>7. CASE \E g \in Pipes: PipeFds(p, g)
  <2>1. PICK g \in Pipes: PipeFds(p, g)
    BY <1>7
  <2>2. PICK rf \in Files, wf \in Files: /\ rf = new[p][1] /\ wf = new[p][2] /\ rf # wf
                                         /\ Members(new[p]) = {rf, wf}
    <3>1. Len(new[p]) = 2
      BY <2>1 DEF PipeFds
    <3>2. /\ new[p] # <<>> => new[p][1] \in Files
          /\ new[p] # <<>> /\ new[p][2] \in Files /\ new[p][1] # new[p][2]
          /\ Members(new[p]) = {new[p][1], new[p][2]}
      BY <3>1, Calls
    <3>3. QED BY <3>2
  <2>3. PICK d \in Fds, e \in Fds: /\ d # e /\ ofile[p][d] = NIL /\ ofile[p][e] = NIL
                                   /\ ofile' = [ofile EXCEPT ![p][d] = rf, ![p][e] = wf]
    <3> DEFINE fd0 == Min(FreeFds(p))
               fd1 == Min(FreeFds(p) \ {fd0})
    <3>1. fd0 \in Fds /\ fd1 \in Fds /\ fd0 # fd1 /\ ofile[p][fd0] = NIL /\ ofile[p][fd1] = NIL
      BY <1>0, <2>1, TwoFds DEF PipeFds
    <3>2. ofile' = [ofile EXCEPT ![p][fd0] = rf, ![p][fd1] = wf]
      BY <2>1, <2>2 DEF PipeFds
    <3> HIDE DEF fd0, fd1
    <3>3. QED BY <3>1, <3>2
  <2>4. /\ pc[p] # "openset" /\ pc'[p] # "openset" /\ \A q \in Procs \ {p}: pc'[q] = pc[q]
        /\ UNCHANGED <<ref, drop>> /\ new' = [new EXCEPT ![p] = <<>>]
        /\ type' = [type EXCEPT ![rf] = "pipe", ![wf] = "pipe"]
    BY <1>0, <2>1, <2>2 DEF TypeOK, PipeFds, PipeFiles, At, Goto
  <2>5. \A q \in Procs, c \in Fds: ofile'[q][c] = IF q = p /\ c = d THEN rf
                                                  ELSE IF q = p /\ c = e THEN wf ELSE ofile[q][c]
    BY <1>0, <2>3 DEF TypeOK
  <2>6. \A h \in Files: IF h \in Members(new[p]) THEN type'[h] # "none" ELSE type'[h] = type[h]
    BY <1>0, <2>2, <2>4 DEF TypeOK
  <2>7. ASSUME NEW h \in Files
        PROVE  Cardinality(InOfile(h)') = Cardinality(InOfile(h)) + One(h \in Members(new[p]))
    <3>1. /\ Cardinality(InOfile(h)) \in Nat
          /\ Cardinality(InOfile(h)') = Cardinality(InOfile(h)) + (One(ofile'[p][d] = h) + One(ofile'[p][e] = h))
      <4>1. d # e /\ ofile[p][d] = NIL /\ ofile[p][e] = NIL
        BY <2>3
      <4>2. \A q \in Procs, c \in Fds: q # p \/ (c # d /\ c # e) => ofile'[q][c] = ofile[q][c]
        BY <2>5
      <4>3. QED BY <4>1, <4>2, CountOfile2
    <3>2. One(ofile'[p][d] = h) + One(ofile'[p][e] = h) = One(h \in Members(new[p]))
      <4>1. ofile'[p][d] = rf /\ ofile'[p][e] = wf
        <5>1. d # e
          BY <2>3
        <5>2. QED BY <2>5, <5>1
      <4>2. QED BY <2>2, <4>1 DEF One
    <3>3. QED BY <3>1, <3>2
  <2>8. \A q \in Procs, c \in Fds: ofile'[q][c] = ofile[q][c] \/ (q = p /\ ofile'[q][c] \in Members(new[p]))
    BY <2>2, <2>5
  <2>9. QED BY <2>4, <2>6, <2>7, <2>8, RefsInstall
<1>8. CASE \E d \in Fds: Dup(p, d)
  <2>1. PICK d \in Fds: Dup(p, d)
    BY <1>8
  <2>2. PICK f \in Files: f = ofile[p][d] /\ type[f] # "none"
    BY <2>1, Usable DEF Dup, At
  <2>3. PICK e \in Fds: ofile[p][e] = NIL /\ ofile' = [ofile EXCEPT ![p][e] = f]
    BY <1>0, <2>1, <2>2, FdAllocTakes DEF Dup
  <2>4. ref' = [ref EXCEPT ![f] = @ + 1] /\ UNCHANGED <<type, new, drop, pc>>
    BY <2>1, <2>2 DEF Dup, FileDup
  <2>5. QED BY <2>2, <2>3, <2>4, RefsShare
<1>9. CASE \E q \in Procs, d \in 0 .. NOFILE: ForkDup(p, q, d)
  <2>1. PICK q \in Procs, d \in Fds: ForkDup(p, q, d)
    BY <1>9 DEF ForkDup
  <2>2. PICK f \in Files: f = ofile[p][d] /\ type[f] # "none"
    BY <2>1, Usable DEF ForkDup, Forking, At
  <2>3. child[p][1] = q /\ child[p][2] = d /\ pc[p] = "fork"
    BY <2>1 DEF ForkDup, Forking, At
  <2>4. state[q] = "unused" /\ \A o \in Procs: child[o][1] = q => o = p
    BY <1>0, <2>3, FileConstants DEF ForkInv
  <2>5. ofile[q][d] = NIL
    <3> SUFFICES ASSUME ofile[q][d] # NIL PROVE FALSE
      OBVIOUS
    <3>1. PICK o \in Procs: child[o][1] = q /\ d < child[o][2]
      BY <1>0, <2>4 DEF ForkInv
    <3>2. d < d
      BY <2>3, <2>4, <3>1
    <3>3. QED BY <3>2 DEF Fds
  <2>6. /\ ref' = [ref EXCEPT ![f] = @ + 1] /\ UNCHANGED <<type, new, drop, pc>>
        /\ ofile' = [ofile EXCEPT ![q][d] = f]
    BY <2>1, <2>2 DEF ForkDup, FileDup
  <2>7. QED BY <2>2, <2>5, <2>6, RefsShare
<1>10. CASE ExitClose(p) \/ \E d \in Fds: Close(p, d)
  <2>1. PICK d \in Fds: /\ ofile[p][d] # NIL /\ drop[p] = <<>> /\ pc[p] # "openset"
                        /\ ofile' = [ofile EXCEPT ![p][d] = NIL]
                        /\ drop' = [drop EXCEPT ![p] = <<ofile[p][d]>>]
                        /\ UNCHANGED <<ref, type, new>>
                        /\ UNCHANGED pc \/ Goto(p, "close")
    BY <1>10 DEF ExitClose, Close, At, file
  <2>2. pc'[p] # "openset" /\ \A q \in Procs \ {p}: pc'[q] = pc[q]
    BY <1>0, <2>1 DEF TypeOK, Goto
  <2>3. QED BY <2>1, <2>2, RefsClose
<1>11. CASE FileClose(p)
  BY <1>11, RefsFileClose
<1>12. QED
  BY <1>1, <1>2, <1>3, <1>4, <1>5, <1>6, <1>7, <1>8, <1>9, <1>10, <1>11 DEF Allocate, Share, Drop

-----------------------------------------------------------------------------
(* What is behind the files.                                               *)

Has(f, o)       == type[f] # "none" /\ obj[f] = o
HasAt(f, o, w)  == Has(f, o) /\ writable[f] = w
Held(p, o)      == ff[p].type # "none" /\ ff[p].obj = o
HeldAt(p, o, w) == Held(p, o) /\ ff[p].writable = w

ObjInv == IrefInv /\ EndInv

\* An entry that is free has no type, so the count is not asked for.
LEMMA FilesHave ==
  ASSUME TypeOK, TypeOK'
  PROVE  /\ \A o: FilesOf(o) = {f \in Files : Has(f, o)}
         /\ \A o: FilesOf(o)' = {f \in Files : Has(f, o)'}
         /\ \A o, w: FilesAt(o, w) = {f \in Files : HasAt(f, o, w)}
         /\ \A o, w: FilesAt(o, w)' = {f \in Files : HasAt(f, o, w)'}
<1>1. \A f \in Files: ref[f] \in Nat /\ (ref[f] = 0 => type[f] = "none")
  BY DEF TypeOK, FreeFiles
<1>2. \A f \in Files: ref'[f] \in Nat /\ (ref'[f] = 0 => type'[f] = "none")
  BY DEF TypeOK, FreeFiles
<1>3. \A f \in Files: type[f] # "none" => ref[f] > 0
  BY <1>1
<1>4. \A f \in Files: type'[f] # "none" => ref'[f] > 0
  BY <1>2
<1>5. \A o: FilesOf(o) = {f \in Files : Has(f, o)}
  BY <1>3 DEF FilesOf, Has
<1>6. \A o: FilesOf(o)' = {f \in Files : Has(f, o)'}
  BY <1>4 DEF FilesOf, Has
<1>7. \A o, w: FilesAt(o, w) = {f \in Files : HasAt(f, o, w)}
  BY <1>5 DEF FilesAt, HasAt
<1>8. \A o, w: FilesAt(o, w)' = {f \in Files : HasAt(f, o, w)'}
  BY <1>6 DEF FilesAt, HasAt
<1>9. QED BY <1>5, <1>6, <1>7, <1>8

LEMMA CountFiles ==
  ASSUME TypeOK, TypeOK', NEW f \in Files,
         \A h \in Files \ {f}: type'[h] = type[h] /\ obj'[h] = obj[h] /\ writable'[h] = writable[h]
  PROVE  /\ \A o: Cardinality(FilesOf(o)') = (Cardinality(FilesOf(o)) - One(Has(f, o))) + One(Has(f, o)')
         /\ \A o, w: Cardinality(FilesAt(o, w)') =
                       (Cardinality(FilesAt(o, w)) - One(HasAt(f, o, w))) + One(HasAt(f, o, w)')
<1>1. ASSUME NEW o
      PROVE  Cardinality(FilesOf(o)') = (Cardinality(FilesOf(o)) - One(Has(f, o))) + One(Has(f, o)')
  <2> DEFINE S == FilesOf(o)
             T == FilesOf(o)'
  <2>1. S = {h \in Files : Has(h, o)} /\ T = {h \in Files : Has(h, o)'}
    BY FilesHave
  <2>2. S \ {f} = T \ {f} /\ (f \in S <=> Has(f, o)) /\ (f \in T <=> Has(f, o)')
    BY <2>1 DEF Has
  <2>3. IsFiniteSet(S)
    BY SetsFinite
  <2> HIDE DEF S, T
  <2>4. Cardinality(T) = (Cardinality(S) - One(f \in S)) + One(f \in T)
    BY <2>2, <2>3, Toggle
  <2>5. One(f \in S) = One(Has(f, o)) /\ One(f \in T) = One(Has(f, o)')
    BY <2>2 DEF One
  <2>6. QED BY <2>4, <2>5 DEF S, T
<1>2. ASSUME NEW o, NEW w
      PROVE  Cardinality(FilesAt(o, w)') =
               (Cardinality(FilesAt(o, w)) - One(HasAt(f, o, w))) + One(HasAt(f, o, w)')
  <2> DEFINE S == FilesAt(o, w)
             T == FilesAt(o, w)'
  <2>1. S = {h \in Files : HasAt(h, o, w)} /\ T = {h \in Files : HasAt(h, o, w)'}
    BY FilesHave
  <2>2. S \ {f} = T \ {f} /\ (f \in S <=> HasAt(f, o, w)) /\ (f \in T <=> HasAt(f, o, w)')
    BY <2>1 DEF Has, HasAt
  <2>3. IsFiniteSet(S)
    BY SetsFinite
  <2> HIDE DEF S, T
  <2>4. Cardinality(T) = (Cardinality(S) - One(f \in S)) + One(f \in T)
    BY <2>2, <2>3, Toggle
  <2>5. One(f \in S) = One(HasAt(f, o, w)) /\ One(f \in T) = One(HasAt(f, o, w)')
    BY <2>2 DEF One
  <2>6. QED BY <2>4, <2>5 DEF S, T
<1>3. QED BY <1>1, <1>2

LEMMA CountCopies ==
  ASSUME NEW p \in Procs, \A q \in Procs \ {p}: ff'[q] = ff[q]
  PROVE  /\ \A o: Cardinality(CopiesOf(o)') = (Cardinality(CopiesOf(o)) - One(Held(p, o))) + One(Held(p, o)')
         /\ \A o, w: Cardinality(CopiesAt(o, w)') =
                       (Cardinality(CopiesAt(o, w)) - One(HeldAt(p, o, w))) + One(HeldAt(p, o, w)')
<1>1. ASSUME NEW o
      PROVE  Cardinality(CopiesOf(o)') = (Cardinality(CopiesOf(o)) - One(Held(p, o))) + One(Held(p, o)')
  <2> DEFINE S == CopiesOf(o)
             T == CopiesOf(o)'
  <2>1. S \ {p} = T \ {p} /\ (p \in S <=> Held(p, o)) /\ (p \in T <=> Held(p, o)')
    BY DEF CopiesOf, Held
  <2>2. IsFiniteSet(S)
    BY SetsFinite
  <2> HIDE DEF S, T
  <2>3. Cardinality(T) = (Cardinality(S) - One(p \in S)) + One(p \in T)
    BY <2>1, <2>2, Toggle
  <2>4. One(p \in S) = One(Held(p, o)) /\ One(p \in T) = One(Held(p, o)')
    BY <2>1 DEF One
  <2>5. QED BY <2>3, <2>4 DEF S, T
<1>2. ASSUME NEW o, NEW w
      PROVE  Cardinality(CopiesAt(o, w)') =
               (Cardinality(CopiesAt(o, w)) - One(HeldAt(p, o, w))) + One(HeldAt(p, o, w)')
  <2> DEFINE S == CopiesAt(o, w)
             T == CopiesAt(o, w)'
  <2>1. S \ {p} = T \ {p} /\ (p \in S <=> HeldAt(p, o, w)) /\ (p \in T <=> HeldAt(p, o, w)')
    BY DEF CopiesAt, CopiesOf, Held, HeldAt
  <2>2. IsFiniteSet(S)
    BY SetsFinite
  <2> HIDE DEF S, T
  <2>3. Cardinality(T) = (Cardinality(S) - One(p \in S)) + One(p \in T)
    BY <2>1, <2>2, Toggle
  <2>4. One(p \in S) = One(HeldAt(p, o, w)) /\ One(p \in T) = One(HeldAt(p, o, w)')
    BY <2>1 DEF One
  <2>5. QED BY <2>3, <2>4 DEF S, T
<1>3. QED BY <1>1, <1>2

LEMMA CountOpens ==
  ASSUME NEW p \in Procs, \A q \in Procs \ {p}: ip'[q] = ip[q]
  PROVE  \A i: /\ Cardinality(OpensOf(i)') = (Cardinality(OpensOf(i)) - One(ip[p] = i)) + One(ip'[p] = i)
<1> TAKE i
<1> DEFINE S == OpensOf(i)
           T == OpensOf(i)'
<1>1. S \ {p} = T \ {p} /\ (p \in S <=> ip[p] = i) /\ (p \in T <=> ip'[p] = i)
  BY DEF OpensOf
<1>2. IsFiniteSet(S)
  BY SetsFinite
<1> HIDE DEF S, T
<1>3. Cardinality(T) = (Cardinality(S) - One(p \in S)) + One(p \in T)
  BY <1>1, <1>2, Toggle
<1>4. One(p \in S) = One(ip[p] = i) /\ One(p \in T) = One(ip'[p] = i)
  BY <1>1 DEF One
<1>5. QED BY <1>3, <1>4 DEF S, T

\* Where nothing changes.
LEMMA SameFiles ==
  ASSUME TypeOK, TypeOK', UNCHANGED <<type, obj, writable>>
  PROVE  /\ \A o: FilesOf(o)' = FilesOf(o)
         /\ \A o, w: FilesAt(o, w)' = FilesAt(o, w)
<1>1. \A f, o: Has(f, o)' <=> Has(f, o)
  BY DEF Has
<1>2. \A f, o, w: HasAt(f, o, w)' <=> HasAt(f, o, w)
  BY <1>1 DEF HasAt
<1>3. QED BY <1>1, <1>2, FilesHave

LEMMA SameCopies ==
  ASSUME UNCHANGED ff
  PROVE  /\ \A o: CopiesOf(o)' = CopiesOf(o)
         /\ \A o, w: CopiesAt(o, w)' = CopiesAt(o, w)
BY DEF CopiesOf, CopiesAt

LEMMA SameOpens ==
  ASSUME UNCHANGED ip
  PROVE  \A i: OpensOf(i)' = OpensOf(i)
BY DEF OpensOf

\* What an inode, and a pipe, is left with.
LEMMA IrefFrom ==
  ASSUME IrefInv, TypeOK, NEW i \in Inodes
  PROVE  /\ iref[i] = Cardinality(FilesOf(i)) + Cardinality(CopiesOf(i)) + Cardinality(OpensOf(i))
         /\ Cardinality(FilesOf(i)) \in Nat /\ Cardinality(CopiesOf(i)) \in Nat
         /\ Cardinality(OpensOf(i)) \in Nat
BY SetsCount DEF IrefInv

LEMMA EndFrom ==
  ASSUME EndInv, NEW g \in Pipes, NEW w \in BOOLEAN
  PROVE  /\ Cardinality(FilesAt(g, w)) + Cardinality(CopiesAt(g, w)) = One(End(w) \in ends[g])
         /\ Cardinality(FilesAt(g, w)) \in Nat /\ Cardinality(CopiesAt(g, w)) \in Nat
BY SetsCount DEF EndInv, One

LEMMA ObjSame ==
  ASSUME IInv, TypeOK', UNCHANGED <<type, obj, writable, ff, ip, iref, ends>>
  PROVE  ObjInv'
<1>1. TypeOK /\ IrefInv /\ EndInv
  BY DEF IInv
<1>2. /\ \A o: FilesOf(o)' = FilesOf(o) /\ CopiesOf(o)' = CopiesOf(o) /\ OpensOf(o)' = OpensOf(o)
      /\ \A o, w: FilesAt(o, w)' = FilesAt(o, w) /\ CopiesAt(o, w)' = CopiesAt(o, w)
  BY <1>1, SameFiles, SameCopies, SameOpens
<1>3. IrefInv'
  BY <1>1, <1>2 DEF IrefInv
<1>4. EndInv'
  BY <1>1, <1>2 DEF EndInv
<1>5. QED BY <1>3, <1>4 DEF ObjInv

\* open() takes a reference to an inode, or gives it back.
LEMMA ObjIp ==
  ASSUME IInv, TypeOK', NEW p \in Procs, \A q \in Procs \ {p}: ip'[q] = ip[q],
         UNCHANGED <<type, obj, writable, ff, ends>>,
         \A i \in Inodes: iref'[i] = (iref[i] - One(ip[p] = i)) + One(ip'[p] = i)
  PROVE  ObjInv'
<1>1. TypeOK /\ IrefInv /\ EndInv
  BY DEF IInv
<1>2. /\ \A o: FilesOf(o)' = FilesOf(o) /\ CopiesOf(o)' = CopiesOf(o)
      /\ \A o, w: FilesAt(o, w)' = FilesAt(o, w) /\ CopiesAt(o, w)' = CopiesAt(o, w)
  BY <1>1, SameFiles, SameCopies
<1>3. ASSUME NEW i \in Inodes
      PROVE  iref'[i] = Cardinality(FilesOf(i)') + Cardinality(CopiesOf(i)') + Cardinality(OpensOf(i)')
  <2>1. Cardinality(OpensOf(i)') = (Cardinality(OpensOf(i)) - One(ip[p] = i)) + One(ip'[p] = i)
    BY CountOpens
  <2>2. One(ip[p] = i) \in Int /\ One(ip'[p] = i) \in Int
    BY DEF One
  <2>3. iref'[i] = (iref[i] - One(ip[p] = i)) + One(ip'[p] = i)
    OBVIOUS
  <2>4. /\ iref[i] = Cardinality(FilesOf(i)) + Cardinality(CopiesOf(i)) + Cardinality(OpensOf(i))
        /\ Cardinality(FilesOf(i)) \in Nat /\ Cardinality(CopiesOf(i)) \in Nat
        /\ Cardinality(OpensOf(i)) \in Nat
    BY <1>1, IrefFrom
  <2>5. Cardinality(FilesOf(i)') = Cardinality(FilesOf(i)) /\ Cardinality(CopiesOf(i)') = Cardinality(CopiesOf(i))
    BY <1>2
  <2>6. QED BY <2>1, <2>2, <2>3, <2>4, <2>5
<1>4. IrefInv'
  BY <1>3 DEF IrefInv
<1>5. EndInv'
  BY <1>1, <1>2 DEF EndInv
<1>6. QED BY <1>4, <1>5 DEF ObjInv

\* open() and memo() fill a file in that is not a pipe's.
LEMMA ObjFill ==
  ASSUME IInv, TypeOK', NEW p \in Procs, \A q \in Procs \ {p}: ip'[q] = ip[q],
         NEW f \in Files, type[f] = "none", obj'[f] \notin Pipes,
         \A h \in Files \ {f}: type'[h] = type[h] /\ obj'[h] = obj[h] /\ writable'[h] = writable[h],
         UNCHANGED <<ff, iref, ends>>,
         \A i \in Inodes: One(Has(f, i)') + One(ip'[p] = i) = One(ip[p] = i)
  PROVE  ObjInv'
<1>1. TypeOK /\ IrefInv /\ EndInv
  BY DEF IInv
<1>2. ASSUME NEW i \in Inodes
      PROVE  iref'[i] = Cardinality(FilesOf(i)') + Cardinality(CopiesOf(i)') + Cardinality(OpensOf(i)')
  <2>1. Cardinality(OpensOf(i)') = (Cardinality(OpensOf(i)) - One(ip[p] = i)) + One(ip'[p] = i)
    BY CountOpens
  <2>2. Cardinality(FilesOf(i)') = (Cardinality(FilesOf(i)) - One(Has(f, i))) + One(Has(f, i)')
    BY <1>1, CountFiles
  <2>3. One(Has(f, i)') + One(ip'[p] = i) = One(ip[p] = i)
    OBVIOUS
  <2>4. /\ One(ip[p] = i) \in Int /\ One(ip'[p] = i) \in Int /\ One(Has(f, i)') \in Int
        /\ One(Has(f, i)) = 0
    BY DEF One, Has
  <2>5. /\ iref[i] = Cardinality(FilesOf(i)) + Cardinality(CopiesOf(i)) + Cardinality(OpensOf(i))
        /\ Cardinality(FilesOf(i)) \in Nat /\ Cardinality(CopiesOf(i)) \in Nat
        /\ Cardinality(OpensOf(i)) \in Nat
    BY <1>1, IrefFrom
  <2>6. Cardinality(CopiesOf(i)') = Cardinality(CopiesOf(i))
    BY SameCopies
  <2>7. QED BY <2>1, <2>2, <2>3, <2>4, <2>5, <2>6
<1>3. IrefInv'
  BY <1>2 DEF IrefInv
<1>4. ASSUME NEW g \in Pipes, NEW w \in BOOLEAN
      PROVE  Cardinality(FilesAt(g, w)') = Cardinality(FilesAt(g, w)) /\ CopiesAt(g, w)' = CopiesAt(g, w)
  <2>1. Cardinality(FilesAt(g, w)') = (Cardinality(FilesAt(g, w)) - One(HasAt(f, g, w))) + One(HasAt(f, g, w)')
    BY <1>1, CountFiles
  <2>2. One(HasAt(f, g, w)) = 0 /\ One(HasAt(f, g, w)') = 0
    BY DEF One, HasAt, Has
  <2>3. Cardinality(FilesAt(g, w)) \in Nat
    BY SetsCount
  <2>4. CopiesAt(g, w)' = CopiesAt(g, w)
    BY SameCopies
  <2>5. QED BY <2>1, <2>2, <2>3, <2>4
<1>5. EndInv'
  BY <1>1, <1>4 DEF EndInv
<1>6. QED BY <1>3, <1>5 DEF ObjInv

\* pipealloc() makes a pipe whose two ends have a file each.
LEMMA ObjPipe ==
  ASSUME IInv, TypeOK', NEW p \in Procs, NEW g \in Pipes, Len(new[p]) = 2, PipeFiles(p, g),
         ends[g] = {}, ends' = [ends EXCEPT ![g] = {"r", "w"}], UNCHANGED <<ff, iref, ip>>
  PROVE  ObjInv'
<1>1. TypeOK /\ IrefInv /\ EndInv
  BY DEF IInv
<1>2. PICK rf \in Files, wf \in Files: /\ rf = new[p][1] /\ wf = new[p][2] /\ rf # wf
                                       /\ type[rf] = "none" /\ type[wf] = "none"
  <2>1. /\ new[p] # <<>> /\ new[p][1] \in Files /\ new[p][2] \in Files /\ new[p][1] # new[p][2]
        /\ type[new[p][1]] = "none" /\ type[new[p][2]] = "none"
    BY Calls
  <2>2. QED BY <2>1
<1>3. /\ type' = [type EXCEPT ![rf] = "pipe", ![wf] = "pipe"]
      /\ obj' = [obj EXCEPT ![rf] = g, ![wf] = g]
      /\ writable' = [writable EXCEPT ![rf] = FALSE, ![wf] = TRUE]
  BY <1>2 DEF PipeFiles
<1>4. /\ type'[rf] = "pipe" /\ obj'[rf] = g /\ writable'[rf] = FALSE
      /\ type'[wf] = "pipe" /\ obj'[wf] = g /\ writable'[wf] = TRUE
      /\ \A h \in Files \ {rf, wf}: type'[h] = type[h] /\ obj'[h] = obj[h] /\ writable'[h] = writable[h]
  <2>1. /\ DOMAIN type = Files /\ DOMAIN obj = Files /\ DOMAIN writable = Files
        /\ rf # wf
    BY <1>1, <1>2 DEF TypeOK
  <2>2. type'[rf] = "pipe" /\ type'[wf] = "pipe" /\ \A h \in Files \ {rf, wf}: type'[h] = type[h]
    BY <1>3, <2>1
  <2>3. obj'[rf] = g /\ obj'[wf] = g /\ \A h \in Files \ {rf, wf}: obj'[h] = obj[h]
    BY <1>3, <2>1
  <2>4. /\ writable'[rf] = FALSE /\ writable'[wf] = TRUE
        /\ \A h \in Files \ {rf, wf}: writable'[h] = writable[h]
    BY <1>3, <2>1
  <2>5. QED BY <2>2, <2>3, <2>4
<1>5. ASSUME NEW i \in Inodes PROVE FilesOf(i)' = FilesOf(i)
  <2>1. g # i
    BY FileConstants
  <2>2. \A h \in Files: Has(h, i)' <=> Has(h, i)
    BY <1>2, <1>4, <2>1 DEF Has
  <2>3. FilesOf(i) = {h \in Files : Has(h, i)} /\ FilesOf(i)' = {h \in Files : Has(h, i)'}
    BY <1>1, FilesHave
  <2>4. QED BY <2>2, <2>3
<1>6. IrefInv'
  <2>1. \A i: CopiesOf(i)' = CopiesOf(i) /\ OpensOf(i)' = OpensOf(i)
    BY SameCopies, SameOpens
  <2>2. QED BY <1>1, <1>5, <2>1 DEF IrefInv
<1>7. ASSUME NEW j \in Pipes, NEW w \in BOOLEAN
      PROVE  Cardinality(FilesAt(j, w)') + Cardinality(CopiesAt(j, w)') =
               IF End(w) \in ends'[j] THEN 1 ELSE 0
  <2>1. CopiesAt(j, w)' = CopiesAt(j, w)
    BY SameCopies
  <2>2. FilesAt(j, w) = {h \in Files : HasAt(h, j, w)} /\ FilesAt(j, w)' = {h \in Files : HasAt(h, j, w)'}
    BY <1>1, FilesHave
  <2>3. /\ Cardinality(FilesAt(j, w)) + Cardinality(CopiesAt(j, w)) = One(End(w) \in ends[j])
        /\ Cardinality(FilesAt(j, w)) \in Nat /\ Cardinality(CopiesAt(j, w)) \in Nat
    BY <1>1, EndFrom
  <2>4. CASE j # g
    <3>1. \A h \in Files: HasAt(h, j, w)' <=> HasAt(h, j, w)
      BY <1>2, <1>4, <2>4 DEF HasAt, Has
    <3>2. FilesAt(j, w)' = FilesAt(j, w)
      BY <2>2, <3>1
    <3>3. ends'[j] = ends[j]
      BY <1>1, <2>4 DEF TypeOK
    <3>4. QED BY <2>1, <2>3, <3>2, <3>3 DEF One
  <2>5. CASE j = g
    <3>1. PICK f \in {rf, wf}: HasAt(f, g, w)' /\ \A h \in Files \ {f}: HasAt(h, g, w)' <=> HasAt(h, g, w)
      <4>1. CASE w = TRUE
        <5>1. HasAt(wf, g, w)' /\ \A h \in Files \ {wf}: HasAt(h, g, w)' <=> HasAt(h, g, w)
          BY <1>2, <1>4, <4>1 DEF HasAt, Has
        <5>2. QED BY <5>1
      <4>2. CASE w = FALSE
        <5>1. HasAt(rf, g, w)' /\ \A h \in Files \ {rf}: HasAt(h, g, w)' <=> HasAt(h, g, w)
          BY <1>2, <1>4, <4>2 DEF HasAt, Has
        <5>2. QED BY <5>1
      <4>3. QED BY <4>1, <4>2
    <3>2. f \in Files /\ ~HasAt(f, g, w)
      BY <1>2, <3>1 DEF HasAt, Has
    <3> DEFINE S == FilesAt(g, w)
               T == FilesAt(g, w)'
    <3>3. S \ {f} = T \ {f} /\ f \notin S /\ f \in T
      BY <2>2, <2>5, <3>1, <3>2
    <3>4. IsFiniteSet(S)
      BY SetsFinite
    <3> HIDE DEF S, T
    <3>5. Cardinality(T) = (Cardinality(S) - One(f \in S)) + One(f \in T)
      BY <3>3, <3>4, Toggle
    <3>6. One(f \in S) = 0 /\ One(f \in T) = 1
      BY <3>3 DEF One
    <3>7. Cardinality(S) = 0 /\ Cardinality(CopiesAt(g, w)) = 0
      <4>1. One(End(w) \in ends[g]) = 0
        BY DEF One
      <4>2. QED BY <2>3, <2>5, <4>1 DEF S
    <3>8. End(w) \in ends'[g]
      BY <1>1 DEF TypeOK, End
    <3>9. Cardinality(T) = 1
      BY <3>5, <3>6, <3>7
    <3>10. Cardinality(FilesAt(j, w)') = 1 /\ Cardinality(CopiesAt(j, w)') = 0
      BY <2>1, <2>5, <3>7, <3>9 DEF T
    <3>11. QED BY <2>5, <3>8, <3>10
  <2>6. QED BY <2>4, <2>5
<1>8. EndInv'
  BY <1>7 DEF EndInv
<1>9. QED BY <1>6, <1>8 DEF ObjInv

\* The last fileclose() turns the file into its copy ff.
LEMMA ObjFileClose ==
  ASSUME IInv, TypeOK', NEW p \in Procs, FileClose(p)
  PROVE  ObjInv'
<1>1. TypeOK /\ PlaceInv /\ IrefInv /\ EndInv
  BY DEF IInv
<1>2. PICK f \in Files: f = Head(drop[p])
  BY Dropped DEF FileClose, Closing
<1>3. UNCHANGED <<ip, iref, ends>> /\ ff[p] = NoFile
  BY DEF FileClose, Closing, objects
<1>4. CASE ref[f] # 1
  <2>1. UNCHANGED <<type, obj, writable>> /\ ff' = [ff EXCEPT ![p] = @]
    BY <1>2, <1>4 DEF FileClose
  <2>2. ff' = ff
    BY <1>1, <2>1 DEF PlaceInv
  <2>3. QED BY <1>3, <2>1, <2>2, ObjSame
<1>5. CASE ref[f] = 1
  <2>1. ff' = [ff EXCEPT ![p] = Copy(f)] /\ SetFile(f, "none", None, FALSE, FALSE)
    BY <1>2, <1>5 DEF FileClose
  <2>2. /\ ff'[p] = Copy(f) /\ \A q \in Procs \ {p}: ff'[q] = ff[q]
        /\ type'[f] = "none"
        /\ \A h \in Files \ {f}: type'[h] = type[h] /\ obj'[h] = obj[h] /\ writable'[h] = writable[h]
    BY <1>1, <2>1 DEF PlaceInv, TypeOK, SetFile
  <2>3. /\ Copy(f).type = type[f] /\ Copy(f).obj = obj[f] /\ Copy(f).writable = writable[f]
        /\ NoFile.type = "none"
    BY DEF Copy, NoFile
  <2>4. /\ \A o: (Held(p, o)' <=> Has(f, o)) /\ ~Held(p, o) /\ ~Has(f, o)'
        /\ \A o, w: (HeldAt(p, o, w)' <=> HasAt(f, o, w)) /\ ~HeldAt(p, o, w) /\ ~HasAt(f, o, w)'
    BY <1>3, <2>2, <2>3 DEF Held, HeldAt, Has, HasAt
  <2>5. ASSUME NEW i \in Inodes
        PROVE  iref'[i] = Cardinality(FilesOf(i)') + Cardinality(CopiesOf(i)') + Cardinality(OpensOf(i)')
    <3>1. Cardinality(FilesOf(i)') = (Cardinality(FilesOf(i)) - One(Has(f, i))) + One(Has(f, i)')
      BY <1>1, <2>2, CountFiles
    <3>2. Cardinality(CopiesOf(i)') = (Cardinality(CopiesOf(i)) - One(Held(p, i))) + One(Held(p, i)')
      BY <2>2, CountCopies
    <3>3. OpensOf(i)' = OpensOf(i)
      BY <1>3, SameOpens
    <3>4. /\ One(Has(f, i)') = 0 /\ One(Held(p, i)) = 0 /\ One(Held(p, i)') = One(Has(f, i))
          /\ One(Has(f, i)) \in Int
      BY <2>4 DEF One
    <3>5. /\ iref[i] = Cardinality(FilesOf(i)) + Cardinality(CopiesOf(i)) + Cardinality(OpensOf(i))
          /\ Cardinality(FilesOf(i)) \in Nat /\ Cardinality(CopiesOf(i)) \in Nat
          /\ Cardinality(OpensOf(i)) \in Nat
      BY <1>1, IrefFrom
    <3>6. QED BY <1>3, <3>1, <3>2, <3>3, <3>4, <3>5
  <2>6. ASSUME NEW g \in Pipes, NEW w \in BOOLEAN
        PROVE  Cardinality(FilesAt(g, w)') + Cardinality(CopiesAt(g, w)') =
                 IF End(w) \in ends'[g] THEN 1 ELSE 0
    <3>1. Cardinality(FilesAt(g, w)') = (Cardinality(FilesAt(g, w)) - One(HasAt(f, g, w))) + One(HasAt(f, g, w)')
      BY <1>1, <2>2, CountFiles
    <3>2. Cardinality(CopiesAt(g, w)') = (Cardinality(CopiesAt(g, w)) - One(HeldAt(p, g, w))) + One(HeldAt(p, g, w)')
      BY <2>2, CountCopies
    <3>3. /\ One(HasAt(f, g, w)') = 0 /\ One(HeldAt(p, g, w)) = 0 /\ One(HeldAt(p, g, w)') = One(HasAt(f, g, w))
          /\ One(HasAt(f, g, w)) \in Int
      BY <2>4 DEF One
    <3>4. /\ Cardinality(FilesAt(g, w)) + Cardinality(CopiesAt(g, w)) = One(End(w) \in ends[g])
          /\ Cardinality(FilesAt(g, w)) \in Nat /\ Cardinality(CopiesAt(g, w)) \in Nat
      BY <1>1, EndFrom
    <3>5. One(End(w) \in ends[g]) = IF End(w) \in ends'[g] THEN 1 ELSE 0
      BY <1>3 DEF One
    <3>6. QED BY <3>1, <3>2, <3>3, <3>4, <3>5
  <2>7. QED BY <2>5, <2>6 DEF ObjInv, IrefInv, EndInv
<1>6. QED BY <1>4, <1>5

\* ... and what the copy stands for is released.
LEMMA ObjRelease ==
  ASSUME IInv, TypeOK', NEW p \in Procs, FileRelease(p)
  PROVE  ObjInv'
<1>1. TypeOK /\ PlaceInv /\ KindInv /\ IrefInv /\ EndInv
  BY DEF IInv
<1>2. /\ UNCHANGED <<type, obj, writable, ip>> /\ ff' = [ff EXCEPT ![p] = NoFile]
  BY DEF FileRelease, file
<1>3. /\ ff'[p] = NoFile /\ \A q \in Procs \ {p}: ff'[q] = ff[q]
      /\ NoFile.type = "none"
      /\ ff[p].writable \in BOOLEAN /\ ff[p].type \in Kinds
  BY <1>1, <1>2 DEF PlaceInv, NoFile
<1>4. ASSUME NEW i \in Inodes
      PROVE  iref'[i] = Cardinality(FilesOf(i)') + Cardinality(CopiesOf(i)') + Cardinality(OpensOf(i)')
  <2>1. Cardinality(CopiesOf(i)') = (Cardinality(CopiesOf(i)) - One(Held(p, i))) + One(Held(p, i)')
    BY <1>3, CountCopies
  <2>2. FilesOf(i)' = FilesOf(i) /\ OpensOf(i)' = OpensOf(i)
    BY <1>1, <1>2, SameFiles, SameOpens
  <2>3. Held(p, i) <=> ff[p].type = "inode" /\ ff[p].obj = i
    BY <1>1, <1>3, FileConstants DEF Held, KindInv, Kinds
  <2>4. iref'[i] = iref[i] - One(Held(p, i))
    <3>1. CASE ff[p].type = "inode"
      <4>1. iref' = [iref EXCEPT ![ff[p].obj] = @ - 1]
        BY <3>1 DEF FileRelease
      <4>2. iref[i] \in Nat
        BY <1>1 DEF TypeOK
      <4>3. iref'[i] = IF ff[p].obj = i THEN iref[i] - 1 ELSE iref[i]
        BY <1>1, <4>1 DEF TypeOK
      <4>4. One(Held(p, i)) = IF ff[p].obj = i THEN 1 ELSE 0
        BY <2>3, <3>1 DEF One
      <4>5. QED BY <4>2, <4>3, <4>4
    <3>2. CASE ff[p].type # "inode"
      <4>1. iref' = iref /\ iref[i] \in Nat
        BY <1>1, <3>2 DEF FileRelease, TypeOK
      <4>2. One(Held(p, i)) = 0
        BY <2>3, <3>2 DEF One
      <4>3. QED BY <4>1, <4>2
    <3>3. QED BY <3>1, <3>2
  <2>5. One(Held(p, i)') = 0 /\ One(Held(p, i)) \in Int
    BY <1>3 DEF One, Held
  <2>6. /\ iref[i] = Cardinality(FilesOf(i)) + Cardinality(CopiesOf(i)) + Cardinality(OpensOf(i))
        /\ Cardinality(FilesOf(i)) \in Nat /\ Cardinality(CopiesOf(i)) \in Nat
        /\ Cardinality(OpensOf(i)) \in Nat
    BY <1>1, IrefFrom
  <2>7. QED BY <2>1, <2>2, <2>4, <2>5, <2>6
<1>5. ASSUME NEW g \in Pipes, NEW w \in BOOLEAN
      PROVE  Cardinality(FilesAt(g, w)') + Cardinality(CopiesAt(g, w)') =
               IF End(w) \in ends'[g] THEN 1 ELSE 0
  <2>1. Cardinality(CopiesAt(g, w)') = (Cardinality(CopiesAt(g, w)) - One(HeldAt(p, g, w))) + One(HeldAt(p, g, w)')
    BY <1>3, CountCopies
  <2>2. FilesAt(g, w)' = FilesAt(g, w)
    BY <1>1, <1>2, SameFiles
  <2>3. HeldAt(p, g, w) <=> ff[p].type = "pipe" /\ ff[p].obj = g /\ ff[p].writable = w
    BY <1>1, <1>3, FileConstants DEF Held, HeldAt, KindInv, Kinds
  <2>4. One(HeldAt(p, g, w)') = 0 /\ One(HeldAt(p, g, w)) \in Int
    BY <1>3 DEF One, HeldAt, Held
  <2>5. /\ Cardinality(FilesAt(g, w)) + Cardinality(CopiesAt(g, w)) = One(End(w) \in ends[g])
        /\ Cardinality(FilesAt(g, w)) \in Nat /\ Cardinality(CopiesAt(g, w)) \in Nat
    BY <1>1, EndFrom
  <2>6. CASE HeldAt(p, g, w)
    <3>1. p \in CopiesAt(g, w)
      BY <2>6 DEF CopiesAt, CopiesOf, HeldAt, Held
    <3>2. Cardinality(CopiesAt(g, w)) >= 1
      BY <3>1, SetsFinite, CountOne
    <3>3. One(HeldAt(p, g, w)) = 1 /\ (One(End(w) \in ends[g]) = 0 \/ One(End(w) \in ends[g]) = 1)
      BY <2>6 DEF One
    <3>4. ends' = [ends EXCEPT ![g] = @ \ {End(w)}]
      BY <2>3, <2>6 DEF FileRelease, End
    <3>5. End(w) \notin ends'[g]
      BY <1>1, <3>4 DEF TypeOK
    <3>6. Cardinality(FilesAt(g, w)') + Cardinality(CopiesAt(g, w)') = 0
      BY <2>1, <2>2, <2>4, <2>5, <3>2, <3>3
    <3>7. QED BY <3>5, <3>6
  <2>7. CASE ~HeldAt(p, g, w)
    <3>1. One(HeldAt(p, g, w)) = 0
      BY <2>7 DEF One
    <3>2. End(w) \in ends'[g] <=> End(w) \in ends[g]
      <4>1. CASE ff[p].type = "pipe" /\ ff[p].obj = g
        <5>1. ff[p].writable # w
          BY <2>3, <2>7, <4>1
        <5>2. ends' = [ends EXCEPT ![g] = @ \ {End(ff[p].writable)}]
          BY <4>1 DEF FileRelease, End
        <5>3. End(ff[p].writable) # End(w)
          BY <1>3, <5>1 DEF End
        <5>4. QED BY <1>1, <5>2, <5>3 DEF TypeOK
      <4>2. CASE ff[p].type = "pipe" /\ ff[p].obj # g
        <5>1. ends' = [ends EXCEPT ![ff[p].obj] = @ \ {IF ff[p].writable THEN "w" ELSE "r"}]
          BY <4>2 DEF FileRelease
        <5>2. ends'[g] = ends[g]
          BY <1>1, <4>2, <5>1 DEF TypeOK
        <5>3. QED BY <5>2
      <4>3. CASE ff[p].type # "pipe"
        BY <4>3 DEF FileRelease
      <4>4. QED BY <4>1, <4>2, <4>3
    <3>3. One(End(w) \in ends[g]) = IF End(w) \in ends'[g] THEN 1 ELSE 0
      BY <3>2 DEF One
    <3>4. QED BY <2>1, <2>2, <2>4, <2>5, <3>1, <3>3
  <2>8. QED BY <2>6, <2>7
<1>6. QED BY <1>4, <1>5 DEF ObjInv, IrefInv, EndInv

LEMMA ObjStep ==
  ASSUME IInv, NEW p \in Procs, Allocate(p) \/ Share(p) \/ Drop(p)
  PROVE  ObjInv'
<1>0. TypeOK /\ PlaceInv /\ TypeOK'
  BY TypeStep DEF IInv
<1>1. CASE UNCHANGED <<type, obj, writable, ff, ip, iref, ends>>
  BY <1>0, <1>1, ObjSame
<1>2. CASE \E i \in Inodes: Open(p, i)
  <2>1. PICK i \in Inodes: Open(p, i)
    BY <1>2
  <2>2. /\ ip' = [ip EXCEPT ![p] = i] /\ iref' = [iref EXCEPT ![i] = @ + 1] /\ ip[p] = None
        /\ UNCHANGED <<type, obj, writable, ff, ends>>
    BY <1>0, <2>1 DEF Open, At, PlaceInv, file
  <2>3. ip'[p] = i /\ \A q \in Procs \ {p}: ip'[q] = ip[q]
    BY <1>0, <2>2 DEF TypeOK
  <2>4. \A j \in Inodes: iref'[j] = (iref[j] - One(ip[p] = j)) + One(ip'[p] = j)
    BY <1>0, <2>2, <2>3, FileConstants DEF TypeOK, One
  <2>5. QED BY <1>0, <2>2, <2>3, <2>4, ObjIp
<1>3. CASE OpenPut(p)
  <2>1. /\ ip' = [ip EXCEPT ![p] = None] /\ iref' = [iref EXCEPT ![ip[p]] = @ - 1] /\ ip[p] \in Inodes
        /\ UNCHANGED <<type, obj, writable, ff, ends>>
    BY <1>0, <1>3 DEF OpenPut, At, PlaceInv, TypeOK, file
  <2>2. ip'[p] = None /\ \A q \in Procs \ {p}: ip'[q] = ip[q]
    BY <1>0, <2>1 DEF TypeOK
  <2>3. \A j \in Inodes: iref'[j] = (iref[j] - One(ip[p] = j)) + One(ip'[p] = j)
    BY <1>0, <2>1, <2>2, FileConstants DEF TypeOK, One
  <2>4. QED BY <1>0, <2>1, <2>2, <2>3, ObjIp
<1>4. CASE \E omode \in Modes: OpenSet(p, omode)
  <2>1. PICK omode \in Modes: OpenSet(p, omode)
    BY <1>4
  <2>2. PICK f \in Files: f = new[p][1] /\ type[f] = "none"
    BY <2>1, Calls DEF OpenSet, At
  <2>3. /\ SetFile(f, "inode", ip[p], omode # "O_WRONLY", omode # "O_RDONLY") /\ ip[p] \in Inodes
        /\ ip' = [ip EXCEPT ![p] = None] /\ UNCHANGED <<ff, iref, ends>>
    BY <1>0, <2>1, <2>2 DEF OpenSet, At, PlaceInv, TypeOK, objects
  <2>4. /\ type'[f] = "inode" /\ obj'[f] = ip[p]
        /\ \A h \in Files \ {f}: type'[h] = type[h] /\ obj'[h] = obj[h] /\ writable'[h] = writable[h]
        /\ ip'[p] = None /\ \A q \in Procs \ {p}: ip'[q] = ip[q]
    BY <1>0, <2>3 DEF TypeOK, SetFile
  <2>5. \A i \in Inodes: One(Has(f, i)') + One(ip'[p] = i) = One(ip[p] = i)
    BY <2>4, FileConstants DEF One, Has
  <2>6. obj'[f] \notin Pipes
    BY <2>3, <2>4, FileConstants
  <2>7. QED BY <1>0, <2>2, <2>3, <2>4, <2>5, <2>6, ObjFill
<1>5. CASE MemoFd(p)
  <2>1. PICK f \in Files: f = new[p][1] /\ type[f] = "none"
    BY <1>5, Calls DEF MemoFd
  <2>2. SetFile(f, "memo", None, TRUE, TRUE) /\ UNCHANGED <<ff, iref, ends, ip>>
    BY <1>5, <2>1 DEF MemoFd, objects
  <2>3. /\ type'[f] = "memo" /\ obj'[f] = None
        /\ \A h \in Files \ {f}: type'[h] = type[h] /\ obj'[h] = obj[h] /\ writable'[h] = writable[h]
    BY <1>0, <2>2 DEF TypeOK, SetFile
  <2>4. \A i \in Inodes: One(Has(f, i)') + One(ip'[p] = i) = One(ip[p] = i)
    BY <2>2, <2>3, FileConstants DEF One, Has
  <2>5. QED BY <1>0, <2>1, <2>2, <2>3, <2>4, ObjFill, FileConstants
<1>6. CASE \E g \in Pipes: PipeFds(p, g) \/ PipeFdsFail(p, g)
  <2>1. PICK g \in Pipes: PipeFds(p, g) \/ PipeFdsFail(p, g)
    BY <1>6
  <2>2. /\ Len(new[p]) = 2 /\ PipeFiles(p, g) /\ ends[g] = {} /\ ends' = [ends EXCEPT ![g] = {"r", "w"}]
        /\ UNCHANGED <<ff, iref, ip>>
    BY <2>1 DEF PipeFds, PipeFdsFail
  <2>3. QED BY <1>0, <2>2, ObjPipe
<1>7. CASE FileClose(p)
  BY <1>0, <1>7, ObjFileClose
<1>8. CASE FileRelease(p)
  BY <1>0, <1>8, ObjRelease
<1>9. QED
  BY <1>1, <1>2, <1>3, <1>4, <1>5, <1>6, <1>7, <1>8 DEF Allocate, Share, Drop, OpenAlloc, OpenFd,
     OpenFail, PipeCall, MemoCall, CallAlloc, CallAllocFail, PipeNoPage, MemoFdFail, Dup, Close,
     FileRead, FileWrite, Fork, ForkDup, ForkSkip, ForkDone, CloseDone, Exit, ExitClose, ExitZombie,
     Wait, file, objects

-----------------------------------------------------------------------------
(* The invariant.                                                          *)

LEMMA TableInit == Init => IInv
<1> SUFFICES ASSUME Init PROVE IInv
  OBVIOUS
<1>1. TypeOK
  <2>1. <<>> \in Seq(Files) /\ "user" \in Places
    BY DEF Places
  <2>2. QED BY <2>1, FileConstants DEF Init, TypeOK, FreeFiles
<1>2. /\ Members(<<>>) = {} /\ Distinct(<<>>) /\ Len(<<>>) = 0
  BY MembersEmpty
<1>3. /\ NoFile \in [type : Kinds, obj : Objects, writable : BOOLEAN] /\ NoFile.type = "none"
      /\ NoFile.obj = None
  BY DEF NoFile, Kinds, Objects
<1>4. PlaceInv
  BY <1>2, <1>3 DEF Init, PlaceInv, MayHave
<1>5. KindInv
  BY <1>3 DEF Init, KindInv
<1>6. ForkInv
  BY FileConstants DEF Init, ForkInv
<1>7. NewInv /\ DistinctInv /\ DescInv
  BY <1>2 DEF Init, NewInv, DistinctInv, DescInv
<1>8. \A f \in Files: f # NIL
  BY FileConstants DEF Files, NIL
<1>9. Cardinality({}) = 0
  BY FS_EmptySet
<1>10. RefInv
  <2> SUFFICES ASSUME NEW f \in Files
               PROVE  ref[f] = Cardinality(InOfile(f)) + Cardinality(InNew(f)) + Cardinality(InDrop(f))
    BY DEF RefInv
  <2>1. InOfile(f) = {}
    BY <1>8 DEF Init, InOfile
  <2>2. InNew(f) = {} /\ InDrop(f) = {}
    BY <1>2 DEF Init, InNew, InDrop
  <2>3. ref[f] = 0
    BY DEF Init
  <2>4. QED BY <1>9, <2>1, <2>2, <2>3
<1>11. \A o: FilesOf(o) = {} /\ CopiesOf(o) = {}
  BY <1>3 DEF Init, FilesOf, CopiesOf
<1>12. IrefInv
  <2> SUFFICES ASSUME NEW i \in Inodes
               PROVE  iref[i] = Cardinality(FilesOf(i)) + Cardinality(CopiesOf(i)) + Cardinality(OpensOf(i))
    BY DEF IrefInv
  <2>1. OpensOf(i) = {}
    BY FileConstants DEF Init, OpensOf
  <2>2. iref[i] = 0
    BY DEF Init
  <2>3. QED BY <1>9, <1>11, <2>1, <2>2
<1>13. EndInv
  <2> SUFFICES ASSUME NEW g \in Pipes, NEW w \in BOOLEAN
               PROVE  Cardinality(FilesAt(g, w)) + Cardinality(CopiesAt(g, w)) =
                        IF End(w) \in ends[g] THEN 1 ELSE 0
    BY DEF EndInv
  <2>1. FilesAt(g, w) = {} /\ CopiesAt(g, w) = {}
    BY <1>11 DEF FilesAt, CopiesAt
  <2>2. ends[g] = {}
    BY DEF Init
  <2>3. QED BY <1>9, <2>1, <2>2
<1>14. OnlyMemoReadPanics
  BY DEF Init, OnlyMemoReadPanics
<1>15. QED BY <1>1, <1>4, <1>5, <1>6, <1>7, <1>10, <1>12, <1>13, <1>14 DEF IInv

LEMMA TableNext == IInv /\ [Next]_vars => IInv'
<1> SUFFICES ASSUME IInv, [Next]_vars PROVE IInv'
  OBVIOUS
<1>1. CASE Next
  <2>1. PICK p \in Procs: Allocate(p) \/ Share(p) \/ Drop(p)
    BY <1>1 DEF Next
  <2>2. TypeOK' /\ PlaceInv' /\ KindInv' /\ ForkInv'
    BY <2>1, TypeStep, PlaceStep, KindStep, ForkStep
  <2>3. RefsInv' /\ ObjInv' /\ OnlyMemoReadPanics'
    BY <2>1, RefsStep, ObjStep, PanicStep
  <2>4. QED BY <2>2, <2>3 DEF IInv, RefsInv, ObjInv
<1>2. CASE UNCHANGED vars
  <2>1. TypeOK' /\ PlaceInv' /\ KindInv' /\ ForkInv' /\ OnlyMemoReadPanics'
    BY <1>2 DEF vars, IInv, TypeOK, FreeFiles, PlaceInv, KindInv, ForkInv, OnlyMemoReadPanics
  <2>2. RefsInv'
    BY <1>2, RefsSame DEF vars
  <2>3. ObjInv'
    BY <1>2, <2>1, ObjSame DEF vars
  <2>4. QED BY <2>1, <2>2, <2>3 DEF IInv, RefsInv, ObjInv
<1>3. QED BY <1>1, <1>2

(***************************************************************************)
(* The inductive invariant of the table: where calls stand, which files    *)
(* are theirs, and what each count consists of, for any number of          *)
(* processes calling open(), pipe(), memo(), dup(), close(), fork() and    *)
(* exit() in any order.                                                    *)
(***************************************************************************)
THEOREM TableInvariance == Spec => []IInv
<1>1. QED BY TableInit, TableNext, PTL DEF Spec

\* The two ends of a pipe, counted together.
LEMMA EndsTogether ==
  ASSUME IInv, NEW g \in Pipes
  PROVE  Cardinality(ends[g]) = Standing(g)
<1>1. TypeOK /\ PlaceInv /\ EndInv
  BY DEF IInv
<1>2. /\ FilesOf(g) = FilesAt(g, TRUE) \cup FilesAt(g, FALSE)
      /\ FilesAt(g, TRUE) \cap FilesAt(g, FALSE) = {}
  BY <1>1 DEF FilesAt, FilesOf, TypeOK
<1>3. /\ CopiesOf(g) = CopiesAt(g, TRUE) \cup CopiesAt(g, FALSE)
      /\ CopiesAt(g, TRUE) \cap CopiesAt(g, FALSE) = {}
  BY <1>1 DEF CopiesAt, CopiesOf, PlaceInv
<1>4. Cardinality({}) = 0
  BY FS_EmptySet
<1>5. Cardinality(FilesOf(g)) = Cardinality(FilesAt(g, TRUE)) + Cardinality(FilesAt(g, FALSE))
  <2>1. PICK S, T: S = FilesAt(g, TRUE) /\ T = FilesAt(g, FALSE)
    OBVIOUS
  <2>2. IsFiniteSet(S) /\ IsFiniteSet(T) /\ S \cap T = {} /\ FilesOf(g) = S \cup T
    BY <1>2, <2>1, SetsFinite
  <2>3. Cardinality(S \cup T) = Cardinality(S) + Cardinality(T) - Cardinality(S \cap T)
    BY <2>2, FS_Union
  <2>4. Cardinality(S) \in Nat /\ Cardinality(T) \in Nat
    BY <2>2, FS_CardinalityType
  <2>5. Cardinality(S \cap T) = 0
    BY <1>4, <2>2
  <2>6. Cardinality(S \cup T) = Cardinality(S) + Cardinality(T)
    BY <2>3, <2>4, <2>5
  <2>7. QED BY <2>1, <2>2, <2>6
<1>6. Cardinality(CopiesOf(g)) = Cardinality(CopiesAt(g, TRUE)) + Cardinality(CopiesAt(g, FALSE))
  <2>1. PICK S, T: S = CopiesAt(g, TRUE) /\ T = CopiesAt(g, FALSE)
    OBVIOUS
  <2>2. IsFiniteSet(S) /\ IsFiniteSet(T) /\ S \cap T = {} /\ CopiesOf(g) = S \cup T
    BY <1>3, <2>1, SetsFinite
  <2>3. Cardinality(S \cup T) = Cardinality(S) + Cardinality(T) - Cardinality(S \cap T)
    BY <2>2, FS_Union
  <2>4. Cardinality(S) \in Nat /\ Cardinality(T) \in Nat
    BY <2>2, FS_CardinalityType
  <2>5. Cardinality(S \cap T) = 0
    BY <1>4, <2>2
  <2>6. Cardinality(S \cup T) = Cardinality(S) + Cardinality(T)
    BY <2>3, <2>4, <2>5
  <2>7. QED BY <2>1, <2>2, <2>6
<1>7. /\ Cardinality(FilesAt(g, TRUE)) + Cardinality(CopiesAt(g, TRUE)) = One("w" \in ends[g])
      /\ Cardinality(FilesAt(g, FALSE)) + Cardinality(CopiesAt(g, FALSE)) = One("r" \in ends[g])
      /\ Cardinality(FilesAt(g, TRUE)) \in Nat /\ Cardinality(CopiesAt(g, TRUE)) \in Nat
      /\ Cardinality(FilesAt(g, FALSE)) \in Nat /\ Cardinality(CopiesAt(g, FALSE)) \in Nat
  <2>1. End(TRUE) = "w" /\ End(FALSE) = "r"
    BY DEF End
  <2>2. QED BY <1>1, <2>1, EndFrom
<1>8. Cardinality(ends[g]) = One("w" \in ends[g]) + One("r" \in ends[g])
  <2>1. ends[g] \subseteq {"r", "w"}
    BY <1>1 DEF TypeOK
  <2>2. PICK S: S = ends[g]
    OBVIOUS
  <2>3. S = {} \/ S = {"r"} \/ S = {"w"} \/ S = {"r", "w"}
    BY <2>1, <2>2
  <2>4. Cardinality({"r"}) = 1 /\ Cardinality({"w"}) = 1 /\ IsFiniteSet({"r"})
    BY FS_Singleton
  <2>5. Cardinality({"r", "w"}) = 2
    <3>1. IsFiniteSet({"r"} \cup {"w"}) /\ Cardinality({"r"} \cup {"w"}) = Cardinality({"r"}) + 1
      BY <2>4, FS_AddElement
    <3>2. {"r"} \cup {"w"} = {"r", "w"}
      OBVIOUS
    <3>3. QED BY <2>4, <3>1, <3>2
  <2>6. Cardinality(S) = One("w" \in S) + One("r" \in S)
    <3>1. CASE S = {}
      BY <1>4, <3>1 DEF One
    <3>2. CASE S = {"r"}
      BY <2>4, <3>2 DEF One
    <3>3. CASE S = {"w"}
      BY <2>4, <3>3 DEF One
    <3>4. CASE S = {"r", "w"}
      BY <2>5, <3>4 DEF One
    <3>5. QED BY <2>3, <3>1, <3>2, <3>3, <3>4
  <2>7. QED BY <2>2, <2>6
<1>9. Cardinality(ends[g]) = Cardinality(FilesOf(g)) + Cardinality(CopiesOf(g))
  <2>1. PICK fw \in Nat, fr \in Nat, cw \in Nat, cr \in Nat:
          /\ fw = Cardinality(FilesAt(g, TRUE)) /\ fr = Cardinality(FilesAt(g, FALSE))
          /\ cw = Cardinality(CopiesAt(g, TRUE)) /\ cr = Cardinality(CopiesAt(g, FALSE))
    BY <1>7
  <2>2. Cardinality(FilesOf(g)) = fw + fr /\ Cardinality(CopiesOf(g)) = cw + cr
    BY <1>5, <1>6, <2>1
  <2>3. One("w" \in ends[g]) = fw + cw /\ One("r" \in ends[g]) = fr + cr
    BY <1>7, <2>1
  <2>4. QED BY <1>8, <2>2, <2>3
<1>10. QED BY <1>9 DEF Standing

(***************************************************************************)
(* ftable and the descriptors: the reference count of a file is the number *)
(* of pointers to it, an inode and a pipe end are held exactly as long as  *)
(* files stand for them, and a process in user mode has descriptors of     *)
(* files that are in use and set up only.                                  *)
(***************************************************************************)
THEOREM TableConsistent == Spec => []TableInv
<1>1. IInv => TableInv
  <2> SUFFICES ASSUME IInv PROVE TableInv
    OBVIOUS
  <2>1. TypeOK /\ PlaceInv /\ RefInv /\ DistinctInv /\ IrefInv /\ DescInv
    BY DEF IInv
  <2>2. RefsMatch
    BY <2>1 DEF RefsMatch, RefInv, DistinctInv
  <2>3. ObjectsMatch
    <3>1. ASSUME NEW i \in Inodes PROVE iref[i] = Standing(i) + Cardinality(OpensOf(i))
      BY <2>1, IrefFrom DEF Standing
    <3>2. QED BY <3>1, EndsTogether DEF ObjectsMatch
  <2>4. DescriptorsUsable
    <3> SUFFICES ASSUME NEW p \in Procs, NEW d \in Fds, pc[p] = "user", ofile[p][d] # NIL
                 PROVE  ref[ofile[p][d]] > 0 /\ type[ofile[p][d]] # "none"
      BY DEF DescriptorsUsable
    <3>1. ref[ofile[p][d]] \in Nat /\ ref[ofile[p][d]] >= 1 /\ type[ofile[p][d]] # "none"
      BY Usable
    <3>2. QED BY <3>1
  <2>5. QED BY <2>1, <2>2, <2>3, <2>4 DEF TableInv
<1>2. QED BY <1>1, TableInvariance, PTL

(***************************************************************************)
(* filedup(), fileclose() and filewrite() never panic; fileread() does for *)
(* a memo only.                                                            *)
(***************************************************************************)
THEOREM MemoReadPanics == Spec => []OnlyMemoReadPanics
<1>1. IInv => OnlyMemoReadPanics
  BY DEF IInv
<1>2. QED BY <1>1, TableInvariance, PTL
=============================================================================
