----------------------------- MODULE Directory -----------------------------
(***************************************************************************)
(* Names and inodes: the inode cache and the path lookup of fs.c, and the  *)
(* system calls of sysfile.c that make, remove and follow names.           *)
(*                                                                         *)
(* What a process does between ilock() and iunlock() of one inode is one   *)
(* step, also when the lock was acquired long before; the lock is a        *)
(* variable where the code keeps it while it waits for another one.  In    *)
(* iput() the test, the truncation and ref-- are steps of their own.  The  *)
(* blocks of a directory and of the inodes are read and written through    *)
(* the log, here as variables that the holder of the lock changes.         *)
(*                                                                         *)
(* An entry of icache is identified with its inode: iget() makes one when  *)
(* ref is 0 (with valid = 0).  NINODE entries are assumed to be enough.    *)
(***************************************************************************)
EXTENDS Integers, Sequences, FiniteSets, FiniteSetsExt

CONSTANTS Procs,     \* processes
          ninodes,   \* sb.ninodes: inodes 1 .. ninodes - 1
          Names,     \* what may be in a directory besides "." and ".."
          Calls,     \* the system calls that are made: [op, path, new], where a
                     \* path is a sequence of names, "/" first if absolute
          MaxCalls,  \* bound: calls in a behaviour
          None

Inodes  == 1 .. ninodes - 1
ROOTINO == 1
Entries == Names \union {".", ".."}
Elements == Entries \union {"/"}
Panics == {"ilock: no type", "dirlookup not DIR", "ialloc: no inodes", "unlink: nlink < 1"}
Ops == {"open", "openw", "creat", "mkdir", "mknod", "unlink", "link", "chdir"}

ASSUME DirectoryConstants ==
  /\ ninodes \in Nat /\ ninodes > 3 /\ MaxCalls \in Nat
  /\ None \notin Inodes \union Procs /\ None \notin Panics
  /\ Names \intersect {".", "..", "/"} = {}
  /\ \E n, m \in Names: n # m
  /\ IsFiniteSet(Procs) /\ IsFiniteSet(Names)
  /\ Calls \subseteq [op: Ops, path: Seq(Elements), new: Seq(Elements)]
  /\ \A c \in Calls: /\ c.path # <<>> /\ (c.op = "link" => c.new # <<>>)
                     /\ \A k \in 2 .. Len(c.path): c.path[k] # "/"
                     /\ \A k \in 2 .. Len(c.new): c.new[k] # "/"

VARIABLES dtype, dnlink, \* struct dinode; type "free" is 0
          dirent,        \* dirent[i][n]: the inode that directory i has under n
          ref, valid, type, nlink, \* struct inode in icache
          lock,          \* ip->lock: its holder
          cwd, fd,       \* the directory of a process, and its one open file
          pc, call,      \* where it is; the call and what is left of its paths
          ip, tgt,       \* inodes its call has references to
          put, ret,      \* the inode it is in iput() of, and where it goes then
          panic,         \* what panic() was called with
          calls,         \* history: calls so far
          stray,         \* history: an entry was made in a removed directory
          overlap,       \* history: the tests of two iput() overlapped
          lost           \* history: ".." led to an inode that nobody has

disk   == <<dtype, dnlink, dirent>>
icache == <<ref, valid, type, nlink, lock>>
procs  == <<cwd, fd>>
locals == <<ip, tgt>>
hist   == <<calls, stray, overlap, lost>>
vars == <<dtype, dnlink, dirent, ref, valid, type, nlink, lock, cwd, fd, pc,
          call, ip, tgt, put, ret, panic, calls, stray, overlap, lost>>

NoEntry == [n \in Entries |-> None]
NoCall  == [op |-> "none", path |-> <<>>, new |-> <<>>]

Name1 == CHOOSE n \in Names: TRUE
Name2 == CHOOSE n \in Names: n # Name1
Dots(i, up) == [NoEntry EXCEPT !["."] = i, ![".."] = up]

\* A disk with an empty directory, inode 3, in a directory, inode 2, of the
\* root.  Each process is in the first or the last of them; nothing was read.
Init ==
  /\ dtype = [i \in Inodes |-> IF i =< 3 THEN "dir" ELSE "free"]
  /\ dnlink = [i \in Inodes |-> CASE i =< 2 -> 2 [] i = 3 -> 1 [] OTHER -> 0]
  /\ dirent = [i \in Inodes |->
                 CASE i = ROOTINO -> [Dots(ROOTINO, ROOTINO) EXCEPT ![Name1] = 2]
                   [] i = 2 -> [Dots(2, ROOTINO) EXCEPT ![Name2] = 3]
                   [] i = 3 -> Dots(3, 2)
                   [] OTHER -> NoEntry]
  /\ cwd \in [Procs -> {ROOTINO, 3}]
  /\ ref = [i \in Inodes |-> Cardinality({p \in Procs : cwd[p] = i})]
  /\ valid = [i \in Inodes |-> FALSE]
  /\ type = [i \in Inodes |-> "free"] /\ nlink = [i \in Inodes |-> 0]
  /\ lock = [i \in Inodes |-> None]
  /\ fd = [p \in Procs |-> None]
  /\ pc = [p \in Procs |-> "user"] /\ call = [p \in Procs |-> NoCall]
  /\ ip = [p \in Procs |-> None] /\ tgt = [p \in Procs |-> None]
  /\ put = [p \in Procs |-> None] /\ ret = [p \in Procs |-> "user"]
  /\ panic = None /\ calls = 0 /\ stray = FALSE /\ overlap = FALSE /\ lost = FALSE

At(p, place) == panic = None /\ pc[p] = place
Goto(p, place) == pc' = [pc EXCEPT ![p] = place]

Op(p)   == call[p].op
Path(p) == call[p].path
Name(p) == Head(Path(p))

\* Back to user mode.
Leave(p) == Goto(p, "user") /\ call' = [call EXCEPT ![p] = NoCall]

-----------------------------------------------------------------------------
(* icache.                                                                 *)

\* What ilock() leaves in the entry of i: the disk's, unless it is valid.
Type(i)  == IF valid[i] THEN type[i] ELSE dtype[i]
Nlink(i) == IF valid[i] THEN nlink[i] ELSE dnlink[i]

\* ilock(i) returns.
Ilock(i) == lock[i] = None /\ Type(i) # "free"

\* valid and ref after i was locked and read, if any, and iget() or idup() of
\* j, if any: a new entry is not valid.
ReadGet(i, j) ==
  /\ valid' = [k \in Inodes |-> \/ k = i
                                \/ valid[k] /\ ~(k = j /\ ref[k] = 0)]
  /\ ref' = [k \in Inodes |-> IF k = j THEN ref[k] + 1 ELSE ref[k]]

\* The entry of i once it is read, with n links; iupdate() writes them.
Links(i, n) == /\ type' = [type EXCEPT ![i] = Type(i)]
               /\ nlink' = [nlink EXCEPT ![i] = n]
               /\ dnlink' = [dnlink EXCEPT ![i] = n]

\* i is locked and read, and left as it is.
ReadLock(i) == ReadGet(i, None) /\ Links(i, Nlink(i))
ReadLockGet(i, j) == ReadGet(i, j) /\ Links(i, Nlink(i))

\* Call iput(i), and go on at r.
Iput(p, i, r) == /\ put' = [put EXCEPT ![p] = i]
                 /\ ret' = [ret EXCEPT ![p] = r]
                 /\ Goto(p, "put")

\* Mutant: other references do not count.
LastLink(i) == valid[i] /\ nlink[i] = 0

\* Mutant: ref is compared as if it had been decremented.
LastLater(i) == valid[i] /\ nlink[i] = 0 /\ ref[i] = 0

\* No links and no other references.
Last(i) == valid[i] /\ nlink[i] = 0 /\ ref[i] = 1

\* iput(): acquiresleep() and the test.
PutTest(p) ==
  LET i == put[p]
  IN  /\ At(p, "put") /\ lock[i] = None
      /\ lock' = IF Last(i) THEN [lock EXCEPT ![i] = p] ELSE lock
      /\ Goto(p, IF Last(i) THEN "free" ELSE "dec")
      /\ overlap' = (overlap \/ (/\ valid[i] /\ nlink[i] = 0 /\ ref[i] > 1
                                 /\ \E q \in Procs: pc[q] = "dec" /\ put[q] = i))
      /\ UNCHANGED <<disk, ref, valid, type, nlink, procs, call, locals, put, ret,
                     panic, calls, stray, lost>>

\* Mutant: valid is not reset.
PutFreeValid(p) ==
  LET i == put[p]
  IN  /\ At(p, "free")
      /\ dirent' = [dirent EXCEPT ![i] = NoEntry]
      /\ type' = [type EXCEPT ![i] = "free"]
      /\ dtype' = [dtype EXCEPT ![i] = "free"]
      /\ dnlink' = [dnlink EXCEPT ![i] = nlink[i]]
      /\ UNCHANGED valid
      /\ lock' = [lock EXCEPT ![i] = None]
      /\ Goto(p, "dec")
      /\ UNCHANGED <<ref, nlink, procs, call, locals, put, ret, panic, hist>>

\* itrunc(), type = 0, iupdate(), valid = 0 and releasesleep().
PutFree(p) ==
  LET i == put[p]
  IN  /\ At(p, "free")
      /\ dirent' = [dirent EXCEPT ![i] = NoEntry]
      /\ type' = [type EXCEPT ![i] = "free"]
      /\ dtype' = [dtype EXCEPT ![i] = "free"]
      /\ dnlink' = [dnlink EXCEPT ![i] = nlink[i]]
      /\ valid' = [valid EXCEPT ![i] = FALSE]
      /\ lock' = [lock EXCEPT ![i] = None]
      /\ Goto(p, "dec")
      /\ UNCHANGED <<ref, nlink, procs, call, locals, put, ret, panic, hist>>

\* ref--, and back to the caller of iput().
PutDec(p) ==
  /\ At(p, "dec")
  /\ ref' = [ref EXCEPT ![put[p]] = @ - 1]
  /\ put' = [put EXCEPT ![p] = None]
  /\ IF ret[p] = "user" THEN Leave(p) ELSE Goto(p, ret[p]) /\ UNCHANGED call
  /\ ret' = [ret EXCEPT ![p] = "user"]
  /\ UNCHANGED <<disk, valid, type, nlink, lock, procs, locals, panic, hist>>

-----------------------------------------------------------------------------
(* namex().                                                                *)

Creates == {"creat", "mkdir", "mknod"}

\* nameiparent(); link() calls it second, with a reference to the old inode.
Parent(p) == \/ Op(p) \in Creates \union {"unlink"}
             \/ Op(p) = "link" /\ tgt[p] # None

\* Where a call goes on when it has its inode, and when there is none.
Found(p) == CASE Op(p) \in {"open", "openw"} -> "open"
              [] Op(p) \in Creates -> "create"
              [] Op(p) = "link" -> IF tgt[p] = None THEN "linkold" ELSE "linknew"
              [] OTHER -> Op(p)
Failed(p) == IF Op(p) = "link" /\ tgt[p] # None THEN "linkbad" ELSE "user"

\* Where the lookup of a path starts, and what it has to look up.
Start(p, q) == IF q[1] = "/" THEN ROOTINO ELSE cwd[p]
Rest(q)     == IF q[1] = "/" THEN Tail(q) ELSE q

\* A system call with a path, for link() with two; begin_op().
Syscall(p, c) ==
  /\ At(p, "user") /\ calls < MaxCalls /\ calls' = calls + 1
  /\ call' = [call EXCEPT ![p] = [c EXCEPT !.path = Rest(@)]]
  /\ ip' = [ip EXCEPT ![p] = Start(p, c.path)]
  /\ ReadGet(None, Start(p, c.path))
  /\ Goto(p, "namex")
  /\ UNCHANGED <<disk, type, nlink, lock, procs, tgt, put, ret, panic, stray,
                 overlap, lost>>

\* Nobody has i: it is free, or iput() is freeing it, or create() making it.
Unowned(i) ==
  \/ dtype[i] = "free"
  \/ \E p \in Procs: \/ pc[p] = "free" /\ put[p] = i
                     \/ pc[p] = "init" /\ tgt[p] = i

\* dirlookup() of the next name of p's path gave i.
Follow(p, i) == lost' = (lost \/ (Name(p) = ".." /\ Unowned(i)))

\* The last element of the path is reached one level early.
AtParent(p) == Parent(p) /\ Len(Path(p)) = 1

\* Not a directory, or no such name.
NamexFail(p) ==
  /\ At(p, "namex") /\ Path(p) # <<>> /\ Ilock(ip[p])
  /\ \/ Type(ip[p]) # "dir"
     \/ ~AtParent(p) /\ dirent[ip[p]][Name(p)] = None
  /\ ReadLock(ip[p])
  /\ Iput(p, ip[p], Failed(p))
  /\ ip' = [ip EXCEPT ![p] = None]
  /\ UNCHANGED <<dtype, dirent, lock, procs, call, tgt, panic, hist>>

NamexStep(p) ==
  /\ At(p, "namex") /\ Path(p) # <<>> /\ Ilock(ip[p])
  /\ Type(ip[p]) = "dir" /\ ~AtParent(p)
  /\ LET next == dirent[ip[p]][Name(p)]
     IN  /\ next # None
         /\ ReadLockGet(ip[p], next)
         /\ Follow(p, next)
         /\ ip' = [ip EXCEPT ![p] = next]
  /\ call' = [call EXCEPT ![p].path = Tail(@)]
  /\ Iput(p, ip[p], "namex")
  /\ UNCHANGED <<dtype, dirent, lock, procs, tgt, panic, calls, stray, overlap>>

NamexParent(p) ==
  /\ At(p, "namex") /\ AtParent(p) /\ Ilock(ip[p])
  /\ Type(ip[p]) = "dir"
  /\ ReadLock(ip[p])
  /\ Goto(p, Found(p))
  /\ UNCHANGED <<dtype, dirent, lock, procs, call, locals, put, ret, panic, hist>>

\* The path is used up: that is the inode, but "/" has no parent.
NamexEnd(p) ==
  /\ At(p, "namex") /\ Path(p) = <<>>
  /\ IF Parent(p)
       THEN Iput(p, ip[p], Failed(p)) /\ ip' = [ip EXCEPT ![p] = None]
       ELSE Goto(p, Found(p)) /\ UNCHANGED <<ip, put, ret>>
  /\ UNCHANGED <<disk, icache, procs, call, tgt, panic, hist>>

-----------------------------------------------------------------------------
(* open() of an existing file, close(), chdir().                           *)

\* The inode i of open(): with a descriptor, or iput() if there is none.
OpenInode(p, i, ok) ==
  IF ok /\ fd[p] = None
    THEN /\ fd' = [fd EXCEPT ![p] = i]
         /\ Leave(p)
         /\ UNCHANGED <<put, ret>>
    ELSE Iput(p, i, "user") /\ UNCHANGED <<fd, call>>

Open(p) ==
  /\ At(p, "open") /\ Ilock(ip[p])
  /\ ReadLock(ip[p])
  /\ OpenInode(p, ip[p], Type(ip[p]) # "dir" \/ Op(p) = "open")
  /\ ip' = [ip EXCEPT ![p] = None]
  /\ UNCHANGED <<dtype, dirent, lock, cwd, tgt, panic, hist>>

\* fileclose() of the last reference to the file.
Close(p) ==
  /\ At(p, "user") /\ fd[p] # None
  /\ fd' = [fd EXCEPT ![p] = None]
  /\ Iput(p, fd[p], "user")
  /\ UNCHANGED <<disk, icache, cwd, call, locals, panic, hist>>

\* iput() of the old directory; only p looks at its cwd.
Chdir(p) ==
  /\ At(p, "chdir") /\ Ilock(ip[p])
  /\ ReadLock(ip[p])
  /\ IF Type(ip[p]) = "dir"
       THEN Iput(p, cwd[p], "user") /\ cwd' = [cwd EXCEPT ![p] = ip[p]]
       ELSE Iput(p, ip[p], "user") /\ UNCHANGED cwd
  /\ ip' = [ip EXCEPT ![p] = None]
  /\ UNCHANGED <<dtype, dirent, lock, fd, call, tgt, panic, hist>>
-----------------------------------------------------------------------------
(* link().                                                                 *)

\* Mutant: the new link is not counted.
LinkOldUncounted(p) ==
  /\ At(p, "linkold") /\ Ilock(ip[p])
  /\ IF Type(ip[p]) = "dir"
       THEN /\ ReadLock(ip[p])
            /\ Iput(p, ip[p], "user")
            /\ ip' = [ip EXCEPT ![p] = None]
            /\ UNCHANGED <<call, tgt>>
       ELSE /\ ReadGet(ip[p], Start(p, call[p].new))
            /\ Links(ip[p], Nlink(ip[p]))
            /\ tgt' = [tgt EXCEPT ![p] = ip[p]]
            /\ ip' = [ip EXCEPT ![p] = Start(p, call[p].new)]
            /\ call' = [call EXCEPT ![p].path = Rest(call[p].new), ![p].new = <<>>]
            /\ Goto(p, "namex")
            /\ UNCHANGED <<put, ret>>
  /\ UNCHANGED <<dtype, dirent, lock, procs, panic, hist>>

\* The old inode gets its new link first; then nameiparent(new).
LinkOld(p) ==
  /\ At(p, "linkold") /\ Ilock(ip[p])
  /\ IF Type(ip[p]) = "dir"
       THEN /\ ReadLock(ip[p])
            /\ Iput(p, ip[p], "user")
            /\ ip' = [ip EXCEPT ![p] = None]
            /\ UNCHANGED <<call, tgt>>
       ELSE /\ ReadGet(ip[p], Start(p, call[p].new))
            /\ Links(ip[p], Nlink(ip[p]) + 1)
            /\ tgt' = [tgt EXCEPT ![p] = ip[p]]
            /\ ip' = [ip EXCEPT ![p] = Start(p, call[p].new)]
            /\ call' = [call EXCEPT ![p].path = Rest(call[p].new), ![p].new = <<>>]
            /\ Goto(p, "namex")
            /\ UNCHANGED <<put, ret>>
  /\ UNCHANGED <<dtype, dirent, lock, procs, panic, hist>>

\* p has the directory it is about to change, and it is not known to be gone.
InDir(p, place) == At(p, place) /\ Ilock(ip[p]) /\ Type(ip[p]) = "dir"

\* A new entry in directory d.
Enter(d, n, i) == /\ dirent' = [dirent EXCEPT ![d][n] = i]
                  /\ stray' = (stray \/ Nlink(d) = 0)

\* dirlink(): the name is new; iunlockput(dp), then iput(ip).
LinkNew(p) ==
  /\ InDir(p, "linknew") /\ dirent[ip[p]][Name(p)] = None
  /\ ReadLock(ip[p])
  /\ Enter(ip[p], Name(p), tgt[p])
  /\ Iput(p, ip[p], "linkput")
  /\ ip' = [ip EXCEPT ![p] = None]
  /\ UNCHANGED <<dtype, lock, procs, call, tgt, panic, calls, overlap, lost>>

LinkPut(p) ==
  /\ At(p, "linkput")
  /\ Iput(p, tgt[p], "user")
  /\ tgt' = [tgt EXCEPT ![p] = None]
  /\ UNCHANGED <<disk, icache, procs, call, ip, panic, hist>>

\* dirlink() finds the name and calls iput() for it, with dp locked ...
LinkExists(p) ==
  /\ InDir(p, "linknew") /\ dirent[ip[p]][Name(p)] # None
  /\ ReadLockGet(ip[p], dirent[ip[p]][Name(p)])
  /\ lock' = [lock EXCEPT ![ip[p]] = p]
  /\ Follow(p, dirent[ip[p]][Name(p)])
  /\ Iput(p, dirent[ip[p]][Name(p)], "unlockdp")
  /\ UNCHANGED <<dtype, dirent, procs, call, locals, panic, calls, stray, overlap>>

\* ... and then iunlockput(dp); also at bad: in unlink().
UnlockDp(p) ==
  /\ At(p, "unlockdp")
  /\ lock' = [lock EXCEPT ![ip[p]] = None]
  /\ Iput(p, ip[p], Failed(p))
  /\ ip' = [ip EXCEPT ![p] = None]
  /\ UNCHANGED <<disk, ref, valid, type, nlink, procs, call, tgt, panic, hist>>

\* Mutant: the link is not taken back.
LinkBadKeeps(p) ==
  /\ At(p, "linkbad") /\ Ilock(tgt[p])
  /\ ReadGet(tgt[p], None)
  /\ Links(tgt[p], Nlink(tgt[p]))
  /\ Iput(p, tgt[p], "user")
  /\ tgt' = [tgt EXCEPT ![p] = None]
  /\ UNCHANGED <<dtype, dirent, lock, procs, call, ip, panic, hist>>

\* bad: the link is taken back.
LinkBad(p) ==
  /\ At(p, "linkbad") /\ Ilock(tgt[p])
  /\ ReadGet(tgt[p], None)
  /\ Links(tgt[p], Nlink(tgt[p]) - 1)
  /\ Iput(p, tgt[p], "user")
  /\ tgt' = [tgt EXCEPT ![p] = None]
  /\ UNCHANGED <<dtype, dirent, lock, procs, call, ip, panic, hist>>

-----------------------------------------------------------------------------
(* create(), for open(O_CREATE), mkdir() and mknod().                      *)

\* The name exists: iunlockput(dp) before ilock(ip).
CreateExists(p) ==
  /\ InDir(p, "create") /\ dirent[ip[p]][Name(p)] # None
  /\ ReadLockGet(ip[p], dirent[ip[p]][Name(p)])
  /\ Follow(p, dirent[ip[p]][Name(p)])
  /\ tgt' = [tgt EXCEPT ![p] = dirent[ip[p]][Name(p)]]
  /\ Iput(p, ip[p], "exists")
  /\ ip' = [ip EXCEPT ![p] = None]
  /\ UNCHANGED <<dtype, dirent, lock, procs, call, panic, calls, stray, overlap>>

\* Only open(O_CREATE) takes what exists, if it is a file.
Exists(p) ==
  /\ At(p, "exists") /\ Ilock(tgt[p])
  /\ ReadLock(tgt[p])
  /\ OpenInode(p, tgt[p], Op(p) = "creat" /\ Type(tgt[p]) = "file")
  /\ tgt' = [tgt EXCEPT ![p] = None]
  /\ UNCHANGED <<dtype, dirent, lock, cwd, ip, panic, hist>>

Kind(p) == CASE Op(p) = "mkdir" -> "dir" [] Op(p) = "mknod" -> "dev" [] OTHER -> "file"

Unused == {i \in Inodes : dtype[i] = "free"}

\* ialloc() takes a free inode, the first it meets (another may be freed
\* behind it), and calls iget(); create() has dp locked.
Ialloc(p, i) ==
  /\ InDir(p, "create") /\ dirent[ip[p]][Name(p)] = None
  /\ i \in Unused
  /\ dtype' = [dtype EXCEPT ![i] = Kind(p)]
  /\ type' = [type EXCEPT ![ip[p]] = Type(ip[p])]
  /\ nlink' = [nlink EXCEPT ![ip[p]] = Nlink(ip[p])]
  /\ dnlink' = [dnlink EXCEPT ![i] = 0]
  /\ ReadGet(ip[p], i)
  /\ lock' = [lock EXCEPT ![ip[p]] = p]
  /\ tgt' = [tgt EXCEPT ![p] = i]
  /\ Goto(p, "init")
  /\ UNCHANGED <<dirent, procs, call, ip, put, ret, panic, hist>>

\* ilock(ip), its link, ".", ".." and its name; iunlockput(dp) with ip locked.
CreateInit(p) ==
  LET dp == ip[p] i == tgt[p] isdir == Type(tgt[p]) = "dir"
      up == IF isdir THEN nlink[dp] + 1 ELSE nlink[dp] \* for ".."
  IN  /\ At(p, "init") /\ Ilock(i)
      /\ ReadGet(i, None)
      /\ type' = [type EXCEPT ![i] = Type(i)]
      /\ nlink' = [nlink EXCEPT ![i] = 1, ![dp] = up]
      /\ dnlink' = [dnlink EXCEPT ![i] = 1, ![dp] = up]
      /\ dirent' = [dirent EXCEPT ![dp][Name(p)] = i,
                      ![i] = IF isdir THEN [@ EXCEPT !["."] = i, ![".."] = dp] ELSE @]
      /\ stray' = (stray \/ nlink[dp] = 0)
      /\ lock' = [lock EXCEPT ![i] = p, ![dp] = None]
      /\ Iput(p, dp, "created")
      /\ ip' = [ip EXCEPT ![p] = None]
      /\ UNCHANGED <<dtype, procs, call, tgt, panic, calls, overlap, lost>>

\* create() returns the locked inode to its caller.
Created(p) ==
  /\ At(p, "created")
  /\ lock' = [lock EXCEPT ![tgt[p]] = None]
  /\ OpenInode(p, tgt[p], Op(p) = "creat")
  /\ tgt' = [tgt EXCEPT ![p] = None]
  /\ UNCHANGED <<disk, ref, valid, type, nlink, cwd, ip, panic, hist>>

-----------------------------------------------------------------------------
(* unlink().                                                               *)

\* Mutant: iput(dp) instead of iunlockput(dp).
UnlinkNoneLocked(p) ==
  /\ InDir(p, "unlink")
  /\ Name(p) \in {".", ".."} \/ dirent[ip[p]][Name(p)] = None
  /\ ReadLock(ip[p])
  /\ Iput(p, ip[p], "user")
  /\ ip' = [ip EXCEPT ![p] = None]
  /\ lock' = [lock EXCEPT ![ip[p]] = p]
  /\ UNCHANGED <<dtype, dirent, procs, call, tgt, panic, hist>>

\* "." or "..", or no such name: bad.
UnlinkNone(p) ==
  /\ InDir(p, "unlink")
  /\ Name(p) \in {".", ".."} \/ dirent[ip[p]][Name(p)] = None
  /\ ReadLock(ip[p])
  /\ Iput(p, ip[p], "user")
  /\ ip' = [ip EXCEPT ![p] = None]
  /\ UNCHANGED <<dtype, dirent, lock, procs, call, tgt, panic, hist>>

\* dirlookup() succeeds; dp stays locked while ilock(ip) waits.
UnlinkFound(p) ==
  /\ InDir(p, "unlink")
  /\ Name(p) \notin {".", ".."} /\ dirent[ip[p]][Name(p)] # None
  /\ ReadLockGet(ip[p], dirent[ip[p]][Name(p)])
  /\ lock' = [lock EXCEPT ![ip[p]] = p]
  /\ tgt' = [tgt EXCEPT ![p] = dirent[ip[p]][Name(p)]]
  /\ Goto(p, "victim")
  /\ UNCHANGED <<dtype, dirent, procs, call, ip, put, ret, panic, hist>>

isdirempty(i) == \A n \in Names: dirent[i][n] = None

\* A directory with names in it: iunlockput(ip), and bad.
UnlinkBusy(p) ==
  /\ At(p, "victim") /\ Ilock(tgt[p]) /\ Nlink(tgt[p]) > 0
  /\ Type(tgt[p]) = "dir" /\ ~isdirempty(tgt[p])
  /\ ReadLock(tgt[p])
  /\ Iput(p, tgt[p], "unlockdp")
  /\ tgt' = [tgt EXCEPT ![p] = None]
  /\ UNCHANGED <<dtype, dirent, lock, procs, call, ip, panic, hist>>

\* The entry is cleared; iunlockput(dp) with ip locked.
UnlinkEntry(p) ==
  LET dp == ip[p] i == tgt[p] isdir == Type(tgt[p]) = "dir"
      down == IF isdir THEN nlink[dp] - 1 ELSE nlink[dp]
  IN  /\ At(p, "victim") /\ Ilock(i) /\ Nlink(i) > 0
      /\ isdir => isdirempty(i)
      /\ ReadGet(i, None)
      /\ type' = [type EXCEPT ![i] = Type(i)]
      /\ nlink' = [nlink EXCEPT ![i] = Nlink(i), ![dp] = down]
      /\ dnlink' = [dnlink EXCEPT ![dp] = down]
      /\ dirent' = [dirent EXCEPT ![dp][Name(p)] = None]
      /\ lock' = [lock EXCEPT ![i] = p, ![dp] = None]
      /\ Iput(p, dp, "unlinked")
      /\ ip' = [ip EXCEPT ![p] = None]
      /\ UNCHANGED <<dtype, procs, call, tgt, panic, hist>>

\* nlink--, iupdate() and iunlockput(ip).
Unlinked(p) ==
  /\ At(p, "unlinked")
  /\ Links(tgt[p], nlink[tgt[p]] - 1)
  /\ lock' = [lock EXCEPT ![tgt[p]] = None]
  /\ Iput(p, tgt[p], "user")
  /\ tgt' = [tgt EXCEPT ![p] = None]
  /\ UNCHANGED <<dtype, dirent, ref, valid, procs, call, ip, panic, hist>>

-----------------------------------------------------------------------------
\* The inode whose lock a process needs to go on, at the places that lock.
Wants(p) ==
  CASE pc[p] = "put" -> put[p]
    [] pc[p] \in {"exists", "init", "victim", "linkbad"} -> tgt[p]
    [] pc[p] \in {"open", "chdir", "create", "unlink", "linkold", "linknew"} -> ip[p]
    [] pc[p] = "namex" /\ Path(p) # <<>> -> ip[p]
    [] OTHER -> None

\* The panics of ilock(), ialloc(), dirlookup() and unlink().
PanicAt(p) ==
  LET i == Wants(p)
  IN  CASE Type(i) = "free" -> "ilock: no type"
        [] pc[p] \in {"create", "unlink", "linknew"} /\ Type(i) # "dir" -> "dirlookup not DIR"
        [] pc[p] = "create" /\ dirent[i][Name(p)] = None /\ Unused = {} -> "ialloc: no inodes"
        [] pc[p] = "victim" /\ Nlink(i) < 1 -> "unlink: nlink < 1"
        [] OTHER -> None

Panic(p) ==
  /\ panic = None /\ Wants(p) # None /\ pc[p] # "put" /\ lock[Wants(p)] = None
  /\ PanicAt(p) # None
  /\ panic' = PanicAt(p)
  /\ UNCHANGED <<disk, icache, procs, pc, call, locals, put, ret, hist>>

-----------------------------------------------------------------------------
Lookup(p) ==
  \/ \E c \in Calls: Syscall(p, c)
  \/ NamexFail(p) \/ NamexStep(p) \/ NamexParent(p) \/ NamexEnd(p)
  \/ PutTest(p) \/ PutFree(p) \/ PutDec(p)

Use(p) == Open(p) \/ Close(p) \/ Chdir(p)

Link(p) == LinkOld(p) \/ LinkNew(p) \/ LinkPut(p) \/ LinkExists(p) \/ LinkBad(p)

Create(p) == \/ CreateExists(p) \/ Exists(p) \/ \E i \in Inodes: Ialloc(p, i)
             \/ CreateInit(p) \/ Created(p)

Unlink(p) == \/ UnlinkNone(p) \/ UnlinkFound(p) \/ UnlinkBusy(p) \/ UnlinkEntry(p)
             \/ Unlinked(p) \/ UnlockDp(p)

Next == \E p \in Procs: Lookup(p) \/ Use(p) \/ Link(p) \/ Create(p) \/ Unlink(p) \/ Panic(p)

Spec == Init /\ [][Next]_vars

-----------------------------------------------------------------------------
Places == {"user", "namex", "put", "free", "dec", "open", "chdir", "create",
           "exists", "init", "created", "unlink", "victim", "unlinked",
           "unlockdp", "linkold", "linknew", "linkput", "linkbad"}
Types  == {"free", "dir", "file", "dev"}
InodeOrNone == Inodes \union {None}

TypeOK ==
  /\ dtype \in [Inodes -> Types] /\ dnlink \in [Inodes -> Int]
  /\ dirent \in [Inodes -> [Entries -> InodeOrNone]]
  /\ ref \in [Inodes -> Nat] /\ valid \in [Inodes -> BOOLEAN]
  /\ type \in [Inodes -> Types] /\ nlink \in [Inodes -> Int]
  /\ lock \in [Inodes -> Procs \union {None}]
  /\ cwd \in [Procs -> Inodes] /\ fd \in [Procs -> InodeOrNone]
  /\ pc \in [Procs -> Places] /\ ret \in [Procs -> Places]
  /\ ip \in [Procs -> InodeOrNone] /\ tgt \in [Procs -> InodeOrNone]
  /\ put \in [Procs -> InodeOrNone]

(***************************************************************************)
(* "ip->ref tracks the number of in-memory pointers to the entry": iget(), *)
(* idup() and iput() count every pointer, on every error path of a call.   *)
(***************************************************************************)
RefsCounted ==
  \A i \in Inodes:
    ref[i] = Cardinality({p \in Procs : cwd[p] = i}) + Cardinality({p \in Procs : fd[p] = i})
             + Cardinality({p \in Procs : ip[p] = i}) + Cardinality({p \in Procs : tgt[p] = i})
             + Cardinality({p \in Procs : put[p] = i})

(***************************************************************************)
(* The cache is write-through: an entry that is valid says what the disk   *)
(* says, also when ialloc() reuses an inode that iput() has just freed.    *)
(***************************************************************************)
CacheCoherent ==
  \A i \in Inodes: ref[i] > 0 /\ valid[i] => type[i] = dtype[i] /\ nlink[i] = dnlink[i]

\* icache as a whole, between two steps of fs.c.
InodeInv == TypeOK /\ RefsCounted /\ CacheCoherent

Named(i)   == {dn \in Inodes \X Names : dirent[dn[1]][dn[2]] = i}
Subdirs(i) == {d \in Inodes : dirent[d][".."] = i /\ (d = ROOTINO \/ Named(d) # {})}

\* unlink() has cleared the entry, or link() has not made it yet (or never).
Pending(i) ==
  {p \in Procs : /\ tgt[p] = i
                 /\ \/ Op(p) = "unlink" /\ "unlinked" \in {pc[p], ret[p]}
                    \/ Op(p) = "link" /\ "linkput" \notin {pc[p], ret[p]}}

(***************************************************************************)
(* The link count on disk is the number of names, ".." included, but for   *)
(* the calls that are between the two; nothing names a free inode.  Until  *)
(* an entry is made in a directory that was removed after nameiparent(),   *)
(* or ".." of a removed directory leads to an inode that nobody has.       *)
(***************************************************************************)
LinksExact ==
  ~stray /\ ~lost =>
    \A i \in Inodes:
      /\ dnlink[i] = Cardinality(Named(i)) + Cardinality(Subdirs(i))
                     + Cardinality(Pending(i))
      /\ dtype[i] = "free" => dnlink[i] = 0

(***************************************************************************)
(* "iput() frees if the reference and link counts have fallen to zero",    *)
(* not before: a file that is unlinked while it is open, or a directory    *)
(* removed while it is somebody's current one, is there until let go.      *)
(***************************************************************************)
HeldExist ==
  \A p \in Procs: /\ fd[p] # None => dtype[fd[p]] # "free"
                  /\ dtype[cwd[p]] = "dir"

(***************************************************************************)
(* The converse: an inode with no links and no references is free, unless  *)
(* two iput() of it both looked at ref before either took its own away.    *)
(***************************************************************************)
OnlyOverlapLeaks ==
  \A i \in Inodes: dnlink[i] = 0 /\ ref[i] = 0 => dtype[i] = "free" \/ overlap

(***************************************************************************)
(* ilock() never finds a free inode and unlink() no count of zero, nor     *)
(* does dirlookup() ever find a file where nameiparent() saw a directory.  *)
(***************************************************************************)
OnlyFullPanics == panic \in {None, "ialloc: no inodes"}
ParentsStayDirs == panic # "dirlookup not DIR"

\* Everybody in S waits for an inode that somebody in S has locked.
Circular(S) == S # {} /\ \A p \in S: Wants(p) # None /\ lock[Wants(p)] \in S

(***************************************************************************)
(* unlink() locks a directory and then what it names, and nothing locks    *)
(* the other way round, with two exceptions: create() and unlink() call    *)
(* iput() for the directory with the inode below it still locked, and      *)
(* dirlink() calls iput() for "." or ".." with the directory locked.       *)
(***************************************************************************)
OnlyPutDeadlocks ==
  \A S \in SUBSET Procs:
    Circular(S) =>
      \E p \in S: /\ pc[p] = "put"
                  /\ \/ ret[p] \in {"created", "unlinked"}
                     \/ ret[p] = "unlockdp" /\ Name(p) \in {".", ".."}

(***************************************************************************)
(* What can go wrong in fs.c when calls race, and nothing else: iput()     *)
(* leaks an inode only when two overlap, and processes wait for each other *)
(* only where iput() locks against the order.  Until the ".." of a removed *)
(* directory is followed to an inode that is free, being freed or being    *)
(* made: then ilock() and unlink() may panic as well.                      *)
(***************************************************************************)
OnlyKnownFailures ==
  /\ ParentsStayDirs
  /\ ~lost => OnlyOverlapLeaks /\ OnlyFullPanics /\ OnlyPutDeadlocks
=============================================================================
