----------------------------- MODULE FileTable -----------------------------
(***************************************************************************)
(* The table of open files (file.c), the descriptors of the processes and  *)
(* the system calls of sysfile.c that create, share and drop them, with    *)
(* pipealloc() of pipe.c, the loop of fork() that shares descriptors and   *)
(* the loop of exit() that closes them.                                    *)
(*                                                                         *)
(* A step is a critical section of ftable.lock, or of the lock of the      *)
(* object behind a file, with what the process does to its own ofile[]     *)
(* before it takes the next lock: nobody else looks at ofile[].  A pipe is *)
(* the set of its open ends, an inode the number of references that open   *)
(* files and calls in progress have to it.                                 *)
(***************************************************************************)
EXTENDS Integers, Sequences, FiniteSets, FiniteSetsExt

CONSTANTS Procs, InitProc, \* process slots, and the one that never exits
          NFILE,           \* entries of ftable.file
          NOFILE,          \* descriptors of a process
          Inodes, Pipes,   \* inodes, and pages that kalloc() has for pipes
          Modes,           \* access modes that open() is called with
          None

ASSUME FileConstants == /\ InitProc \in Procs
                        /\ NFILE \in Nat /\ NOFILE \in Nat
                        /\ None \notin Inodes \union Pipes \union Procs
                        /\ Inodes \intersect Pipes = {} /\ IsFiniteSet(Procs)
                        /\ Modes \subseteq {"O_RDONLY", "O_WRONLY", "O_RDWR"}

Files == 1 .. NFILE
Fds   == 0 .. NOFILE - 1
NIL   == 0

VARIABLES ref, type, obj, readable, writable, \* struct file; obj is pipe or ip
          ofile,    \* ofile[p][fd]: the file behind a descriptor, or NIL
          state,    \* state[p]: unused, live, zombie
          ends,     \* ends[g]: the open ends of pipe g, "r" and "w"
          iref,     \* iref[i]: references to inode i
          pc,       \* where a process is in a call
          new,      \* files its call has allocated so far
          ip,       \* the inode of the open() it is in
          drop,     \* files its call still has to fileclose()
          ff,       \* fileclose()'s copy of a file whose object is to be released
          child,    \* child and next descriptor of the fork() it is in
          panic     \* the function that panicked, or None

file == <<ref, type, obj, readable, writable>>
objects == <<ends, iref>>
vars == <<ref, type, obj, readable, writable, ofile, state, ends, iref, pc,
          new, ip, drop, ff, child, panic>>

Places == {"user", "open", "openset", "iput", "pipe", "memo", "close", "fork", "exit"}

NoFile == [type |-> "none", obj |-> None, writable |-> FALSE]

Init == /\ ref = [f \in Files |-> 0]
        /\ type = [f \in Files |-> "none"]
        /\ obj = [f \in Files |-> None]
        /\ readable = [f \in Files |-> FALSE]
        /\ writable = [f \in Files |-> FALSE]
        /\ ofile = [p \in Procs |-> [d \in Fds |-> NIL]]
        /\ state = [p \in Procs |-> IF p = InitProc THEN "live" ELSE "unused"]
        /\ ends = [g \in Pipes |-> {}]
        /\ iref = [i \in Inodes |-> 0]
        /\ pc = [p \in Procs |-> "user"]
        /\ new = [p \in Procs |-> <<>>]
        /\ ip = [p \in Procs |-> None]
        /\ drop = [p \in Procs |-> <<>>]
        /\ ff = [p \in Procs |-> NoFile]
        /\ child = [p \in Procs |-> <<None, 0>>]
        /\ panic = None

Goto(p, place) == pc' = [pc EXCEPT ![p] = place]

\* p is at a place, with nothing to close before it goes on.
At(p, place) == /\ panic = None /\ state[p] = "live" /\ pc[p] = place
                /\ drop[p] = <<>> /\ ff[p] = NoFile

FreeFiles == {f \in Files : ref[f] = 0}
FreeFds(p) == {d \in Fds : ofile[p][d] = NIL}

-----------------------------------------------------------------------------
\* filealloc(): the first free entry, for the call p is in.
FileAlloc(p) ==
  /\ FreeFiles # {}
  /\ ref' = [ref EXCEPT ![Min(FreeFiles)] = 1]
  /\ new' = [new EXCEPT ![p] = Append(@, Min(FreeFiles))]

\* The fields of f, as the call that allocated it sets them.
SetFile(f, t, o, r, w) ==
  /\ type' = [type EXCEPT ![f] = t]
  /\ obj' = [obj EXCEPT ![f] = o]
  /\ readable' = [readable EXCEPT ![f] = r]
  /\ writable' = [writable EXCEPT ![f] = w]

\* fdalloc(): the first free descriptor of p.
FdAlloc(p, f) == ofile' = [ofile EXCEPT ![p][Min(FreeFds(p))] = f]

\* The call fails: the files it has allocated are closed.
DropNew(p) == /\ drop' = [drop EXCEPT ![p] = new[p]]
              /\ new' = [new EXCEPT ![p] = <<>>]

\* sys_open(): namei() or create() gives a reference to an inode.
Open(p, i) ==
  /\ At(p, "user")
  /\ iref' = [iref EXCEPT ![i] = @ + 1]
  /\ ip' = [ip EXCEPT ![p] = i]
  /\ Goto(p, "open")
  /\ UNCHANGED <<file, ofile, state, ends, new, drop, ff, child, panic>>

OpenAlloc(p) ==
  /\ At(p, "open") /\ new[p] = <<>>
  /\ FileAlloc(p)
  /\ UNCHANGED <<type, obj, readable, writable, ofile, state, objects, pc, ip,
                 drop, ff, child, panic>>

\* A file and a descriptor: iunlock(ip), end_op() and then fill the file in.
OpenFd(p) ==
  /\ At(p, "open") /\ new[p] # <<>> /\ FreeFds(p) # {}
  /\ FdAlloc(p, new[p][1])
  /\ Goto(p, "openset")
  /\ UNCHANGED <<file, state, objects, new, ip, drop, ff, child, panic>>

OpenSet(p, omode) ==
  /\ At(p, "openset")
  /\ SetFile(new[p][1], "inode", ip[p], omode # "O_WRONLY", omode # "O_RDONLY")
  /\ new' = [new EXCEPT ![p] = <<>>]
  /\ ip' = [ip EXCEPT ![p] = None]
  /\ Goto(p, "user")
  /\ UNCHANGED <<ref, ofile, state, objects, drop, ff, child, panic>>

\* No file, or no descriptor for it: close the file if there is one ...
OpenFail(p) ==
  /\ At(p, "open")
  /\ IF new[p] = <<>> THEN FreeFiles = {} ELSE FreeFds(p) = {}
  /\ DropNew(p)
  /\ Goto(p, "iput")
  /\ UNCHANGED <<file, ofile, state, objects, ip, ff, child, panic>>

\* Mutant: open() fails without iunlockput(ip).
OpenPutForgotten(p) ==
  /\ At(p, "iput")
  /\ ip' = [ip EXCEPT ![p] = None]
  /\ Goto(p, "user")
  /\ UNCHANGED <<file, ofile, state, objects, new, drop, ff, child, panic>>

\* ... then iunlockput(ip).
OpenPut(p) ==
  /\ At(p, "iput")
  /\ iref' = [iref EXCEPT ![ip[p]] = @ - 1]
  /\ ip' = [ip EXCEPT ![p] = None]
  /\ Goto(p, "user")
  /\ UNCHANGED <<file, ofile, state, ends, new, drop, ff, child, panic>>

-----------------------------------------------------------------------------
\* sys_pipe() and sys_memo() start without side effect.
PipeCall(p) == /\ At(p, "user") /\ Goto(p, "pipe")
               /\ UNCHANGED <<file, ofile, state, objects, new, ip, drop, ff, child, panic>>

MemoCall(p) == /\ At(p, "user") /\ Goto(p, "memo")
               /\ UNCHANGED <<file, ofile, state, objects, new, ip, drop, ff, child, panic>>

\* pipealloc() allocates two files; sys_memo() one.
CallAlloc(p) ==
  /\ \/ At(p, "pipe") /\ Len(new[p]) < 2
     \/ At(p, "memo") /\ Len(new[p]) < 1
  /\ FileAlloc(p)
  /\ UNCHANGED <<type, obj, readable, writable, ofile, state, objects, pc, ip,
                 drop, ff, child, panic>>

\* There is no file: what was allocated is closed.
CallAllocFail(p) ==
  /\ \/ At(p, "pipe") /\ Len(new[p]) < 2
     \/ At(p, "memo") /\ Len(new[p]) < 1
  /\ FreeFiles = {}
  /\ DropNew(p)
  /\ Goto(p, "close")
  /\ UNCHANGED <<file, ofile, state, objects, ip, ff, child, panic>>

\* pipealloc() has its files, but kalloc() no page.
PipeNoPage(p) ==
  /\ At(p, "pipe") /\ Len(new[p]) = 2
  /\ \A g \in Pipes: ends[g] # {}
  /\ DropNew(p)
  /\ Goto(p, "close")
  /\ UNCHANGED <<file, ofile, state, objects, ip, ff, child, panic>>

\* The files of a pipe: rf is new[p][1], wf is new[p][2].
PipeFiles(p, g) ==
  LET rf == new[p][1] wf == new[p][2]
  IN  /\ type' = [type EXCEPT ![rf] = "pipe", ![wf] = "pipe"]
      /\ obj' = [obj EXCEPT ![rf] = g, ![wf] = g]
      /\ readable' = [readable EXCEPT ![rf] = TRUE, ![wf] = FALSE]
      /\ writable' = [writable EXCEPT ![rf] = FALSE, ![wf] = TRUE]

\* kalloc() and the rest of pipealloc(), then the two fdalloc() of sys_pipe().
PipeFds(p, g) ==
  /\ At(p, "pipe") /\ Len(new[p]) = 2
  /\ ends[g] = {}
  /\ ends' = [ends EXCEPT ![g] = {"r", "w"}]
  /\ PipeFiles(p, g)
  /\ Cardinality(FreeFds(p)) >= 2
  /\ LET fd0 == Min(FreeFds(p)) fd1 == Min(FreeFds(p) \ {fd0})
     IN  ofile' = [ofile EXCEPT ![p][fd0] = new[p][1], ![p][fd1] = new[p][2]]
  /\ new' = [new EXCEPT ![p] = <<>>]
  /\ Goto(p, "user")
  /\ UNCHANGED <<ref, state, iref, ip, drop, ff, child, panic>>

\* Not enough descriptors: the first is given back, both files are closed.
PipeFdsFail(p, g) ==
  /\ At(p, "pipe") /\ Len(new[p]) = 2
  /\ ends[g] = {}
  /\ ends' = [ends EXCEPT ![g] = {"r", "w"}]
  /\ PipeFiles(p, g)
  /\ Cardinality(FreeFds(p)) < 2
  /\ DropNew(p)
  /\ Goto(p, "close")
  /\ UNCHANGED <<ref, ofile, state, iref, ip, ff, child, panic>>

\* sys_memo(): the descriptor, and the fields of the file.
MemoFd(p) ==
  /\ At(p, "memo") /\ new[p] # <<>> /\ FreeFds(p) # {}
  /\ FdAlloc(p, new[p][1])
  /\ SetFile(new[p][1], "memo", None, TRUE, TRUE)
  /\ new' = [new EXCEPT ![p] = <<>>]
  /\ Goto(p, "user")
  /\ UNCHANGED <<ref, state, objects, ip, drop, ff, child, panic>>

MemoFdFail(p) ==
  /\ At(p, "memo") /\ new[p] # <<>> /\ FreeFds(p) = {}
  /\ DropNew(p)
  /\ Goto(p, "close")
  /\ UNCHANGED <<file, ofile, state, objects, ip, ff, child, panic>>

-----------------------------------------------------------------------------
\* filedup(); it panics for a file not in use.
FileDup(f) == /\ panic' = IF ref[f] < 1 THEN "filedup" ELSE None
              /\ ref' = [ref EXCEPT ![f] = @ + 1]

\* sys_dup(): fdalloc() and then filedup().
Dup(p, d) ==
  /\ At(p, "user") /\ ofile[p][d] # NIL /\ FreeFds(p) # {}
  /\ FdAlloc(p, ofile[p][d])
  /\ FileDup(ofile[p][d])
  /\ UNCHANGED <<type, obj, readable, writable, state, objects, pc, new, ip,
                 drop, ff, child>>

\* sys_close(): forget the descriptor, then close the file.
Close(p, d) ==
  /\ At(p, "user") /\ ofile[p][d] # NIL
  /\ ofile' = [ofile EXCEPT ![p][d] = NIL]
  /\ drop' = [drop EXCEPT ![p] = <<ofile[p][d]>>]
  /\ Goto(p, "close")
  /\ UNCHANGED <<file, state, objects, new, ip, ff, child, panic>>

\* fork() shares the descriptors one by one with a child not yet visible.
Fork(p, q) ==
  /\ At(p, "user") /\ state[q] = "unused"
  /\ \A o \in Procs: child[o][1] # q
  /\ child' = [child EXCEPT ![p] = <<q, 0>>]
  /\ Goto(p, "fork")
  /\ UNCHANGED <<file, ofile, state, objects, new, ip, drop, ff, panic>>

Forking(p, q, d) == At(p, "fork") /\ child[p] = <<q, d>>

\* Mutant: the descriptor is copied without filedup().
ForkDupUncounted(p, q, d) ==
  /\ Forking(p, q, d) /\ d \in Fds /\ ofile[p][d] # NIL
  /\ ofile' = [ofile EXCEPT ![q][d] = ofile[p][d]]
  /\ child' = [child EXCEPT ![p] = <<q, d + 1>>]
  /\ UNCHANGED <<file, state, objects, pc, new, ip, drop, ff, panic>>

ForkDup(p, q, d) ==
  /\ Forking(p, q, d) /\ d \in Fds /\ ofile[p][d] # NIL
  /\ FileDup(ofile[p][d])
  /\ ofile' = [ofile EXCEPT ![q][d] = ofile[p][d]]
  /\ child' = [child EXCEPT ![p] = <<q, d + 1>>]
  /\ UNCHANGED <<type, obj, readable, writable, state, objects, pc, new, ip,
                 drop, ff>>

ForkSkip(p, q, d) ==
  /\ Forking(p, q, d) /\ d \in Fds /\ ofile[p][d] = NIL
  /\ child' = [child EXCEPT ![p] = <<q, d + 1>>]
  /\ UNCHANGED <<file, ofile, state, objects, pc, new, ip, drop, ff, panic>>

ForkDone(p, q, d) ==
  /\ Forking(p, q, d) /\ d = NOFILE
  /\ state' = [state EXCEPT ![q] = "live"]
  /\ child' = [child EXCEPT ![p] = <<None, 0>>]
  /\ Goto(p, "user")
  /\ UNCHANGED <<file, ofile, objects, new, ip, drop, ff, panic>>

\* exit(): close the descriptors in their order, then become a zombie.
Exit(p) ==
  /\ At(p, "user") /\ p # InitProc
  /\ Goto(p, "exit")
  /\ UNCHANGED <<file, ofile, state, objects, new, ip, drop, ff, child, panic>>

ExitClose(p) ==
  /\ At(p, "exit")
  /\ \E d \in Fds: /\ ofile[p][d] # NIL /\ \A e \in 0 .. d - 1: ofile[p][e] = NIL
                   /\ ofile' = [ofile EXCEPT ![p][d] = NIL]
                   /\ drop' = [drop EXCEPT ![p] = <<ofile[p][d]>>]
  /\ UNCHANGED <<file, state, objects, pc, new, ip, ff, child, panic>>

ExitZombie(p) ==
  /\ At(p, "exit") /\ FreeFds(p) = Fds
  /\ state' = [state EXCEPT ![p] = "zombie"]
  /\ Goto(p, "user")
  /\ UNCHANGED <<file, ofile, objects, new, ip, drop, ff, child, panic>>

\* wait() in the parent frees the slot.
Wait(p) ==
  /\ panic = None /\ state[p] = "zombie"
  /\ state' = [state EXCEPT ![p] = "unused"]
  /\ UNCHANGED <<file, ofile, objects, pc, new, ip, drop, ff, child, panic>>

-----------------------------------------------------------------------------
Closing(p) == panic = None /\ ff[p] = NoFile /\ drop[p] # <<>>

\* The copy ff of f that fileclose() takes.
Copy(f) == [type |-> type[f], obj |-> obj[f], writable |-> writable[f]]

\* fileclose(), under ftable.lock: the last reference takes a copy, ff, of
\* the file and frees the entry.  (The code leaves the other fields as they
\* are; nothing reads them before they are set again, so they are not kept.)
FileClose(p) ==
  /\ Closing(p)
  /\ LET f == Head(drop[p]) last == ref[f] = 1
     IN  /\ panic' = IF ref[f] < 1 THEN "fileclose" ELSE None
         /\ ref' = [ref EXCEPT ![f] = @ - 1]
         /\ ff' = [ff EXCEPT ![p] = IF last THEN Copy(f) ELSE @]
         /\ IF last THEN SetFile(f, "none", None, FALSE, FALSE)
                    ELSE UNCHANGED <<type, obj, readable, writable>>
  /\ drop' = [drop EXCEPT ![p] = Tail(@)]
  /\ UNCHANGED <<ofile, state, objects, pc, new, ip, child>>

\* The object behind ff: pipeclose(ff.pipe, ff.writable), or iput(ff.ip).
FileRelease(p) ==
  /\ panic = None /\ ff[p] # NoFile
  /\ ends' = IF ff[p].type = "pipe"
               THEN [ends EXCEPT ![ff[p].obj] = @ \ {IF ff[p].writable THEN "w" ELSE "r"}]
               ELSE ends
  /\ iref' = IF ff[p].type = "inode" THEN [iref EXCEPT ![ff[p].obj] = @ - 1] ELSE iref
  /\ ff' = [ff EXCEPT ![p] = NoFile]
  /\ UNCHANGED <<file, ofile, state, pc, new, ip, drop, child, panic>>

CloseDone(p) ==
  /\ At(p, "close")
  /\ Goto(p, "user")
  /\ UNCHANGED <<file, ofile, state, objects, new, ip, drop, ff, child, panic>>

\* fileread() and filewrite() panic for a type they do not serve.
FileRead(p, d) ==
  /\ At(p, "user") /\ ofile[p][d] # NIL
  /\ readable[ofile[p][d]]
  /\ panic' = IF type[ofile[p][d]] \in {"pipe", "inode"} THEN None ELSE "fileread"
  /\ UNCHANGED <<file, ofile, state, objects, pc, new, ip, drop, ff, child>>

\* Mutant: filewrite() does not know the memo either.
FileWriteNoMemo(p, d) ==
  /\ At(p, "user") /\ ofile[p][d] # NIL
  /\ writable[ofile[p][d]]
  /\ panic' = IF type[ofile[p][d]] \in {"pipe", "inode"} THEN None ELSE "filewrite"
  /\ UNCHANGED <<file, ofile, state, objects, pc, new, ip, drop, ff, child>>

FileWrite(p, d) ==
  /\ At(p, "user") /\ ofile[p][d] # NIL
  /\ writable[ofile[p][d]]
  /\ panic' = IF type[ofile[p][d]] \in {"pipe", "memo", "inode"} THEN None ELSE "filewrite"
  /\ UNCHANGED <<file, ofile, state, objects, pc, new, ip, drop, ff, child>>

-----------------------------------------------------------------------------
Allocate(p) ==
  \/ \E i \in Inodes: Open(p, i)
  \/ OpenAlloc(p) \/ OpenFd(p) \/ (\E omode \in Modes: OpenSet(p, omode))
  \/ OpenFail(p) \/ OpenPut(p)
  \/ PipeCall(p) \/ MemoCall(p) \/ CallAlloc(p) \/ CallAllocFail(p)
  \/ PipeNoPage(p) \/ (\E g \in Pipes: PipeFds(p, g) \/ PipeFdsFail(p, g))
  \/ MemoFd(p) \/ MemoFdFail(p)

Share(p) ==
  \/ \E d \in Fds: Dup(p, d) \/ Close(p, d) \/ FileRead(p, d) \/ FileWrite(p, d)
  \/ \E q \in Procs: \/ Fork(p, q)
                     \/ \E d \in 0 .. NOFILE: ForkDup(p, q, d) \/ ForkSkip(p, q, d)
                                              \/ ForkDone(p, q, d)

Drop(p) == \/ FileClose(p) \/ FileRelease(p) \/ CloseDone(p)
           \/ Exit(p) \/ ExitClose(p) \/ ExitZombie(p) \/ Wait(p)

Next == \E p \in Procs: Allocate(p) \/ Share(p) \/ Drop(p)

Spec == Init /\ [][Next]_vars

-----------------------------------------------------------------------------
(***************************************************************************)
(* The type invariant.  A free entry of the table has type FD_NONE, which  *)
(* filealloc() relies on: the error paths close what it returned.          *)
(***************************************************************************)
TypeOK ==
  /\ ref \in [Files -> Nat]
  /\ type \in [Files -> {"none", "pipe", "memo", "inode"}]
  /\ \A f \in FreeFiles: type[f] = "none"
  /\ obj \in [Files -> Inodes \union Pipes \union {None}]
  /\ readable \in [Files -> BOOLEAN] /\ writable \in [Files -> BOOLEAN]
  /\ ofile \in [Procs -> [Fds -> Files \union {NIL}]]
  /\ state \in [Procs -> {"unused", "live", "zombie"}]
  /\ ends \in [Pipes -> SUBSET {"r", "w"}]
  /\ iref \in [Inodes -> Nat]
  /\ pc \in [Procs -> Places]
  /\ new \in [Procs -> Seq(Files)] /\ drop \in [Procs -> Seq(Files)]
  /\ ip \in [Procs -> Inodes \union {None}]

Members(s) == {s[i] : i \in DOMAIN s}

Distinct(s) == \A i, j \in DOMAIN s: s[i] = s[j] => i = j

\* The pointers to f: descriptors, those of a child being made included, and
\* the files that calls in progress have allocated (until open() has put its
\* one into ofile[]) or are about to close.
InOfile(f) == {pd \in Procs \X Fds : ofile[pd[1]][pd[2]] = f}
InNew(f)   == {p \in Procs : pc[p] # "openset" /\ f \in Members(new[p])}
InDrop(f)  == {p \in Procs : f \in Members(drop[p])}

(***************************************************************************)
(* The reference count of a file is the number of pointers to it, through  *)
(* every error path of open(), pipe() and memo() and every interleaving of *)
(* fork(), dup(), close() and exit().                                      *)
(***************************************************************************)
RefsMatch ==
  panic = None =>
    /\ \A f \in Files: ref[f] = Cardinality(InOfile(f)) + Cardinality(InNew(f))
                                + Cardinality(InDrop(f))
    /\ \A p \in Procs: Distinct(new[p]) /\ Distinct(drop[p])

\* Files, and copies of files that fileclose() has yet to release, that stand
\* for object o; and the calls of open() in progress.
FilesOf(o)  == {f \in Files : ref[f] > 0 /\ type[f] # "none" /\ obj[f] = o}
CopiesOf(o) == {p \in Procs : ff[p].type # "none" /\ ff[p].obj = o}
OpensOf(i)  == {p \in Procs : ip[p] = i}

Standing(o) == Cardinality(FilesOf(o)) + Cardinality(CopiesOf(o))

(***************************************************************************)
(* What is behind the files is released once, by the last fileclose(), and *)
(* never while a file stands for it: an inode has a reference for each     *)
(* file and each open() in progress, a pipe end is open as long as its     *)
(* file is.                                                                *)
(***************************************************************************)
ObjectsMatch ==
  /\ \A i \in Inodes: iref[i] = Standing(i) + Cardinality(OpensOf(i))
  /\ \A g \in Pipes: Cardinality(ends[g]) = Standing(g)

(***************************************************************************)
(* A process in user mode only has descriptors of files that were filled   *)
(* in and are in use.                                                      *)
(***************************************************************************)
DescriptorsUsable ==
  \A p \in Procs, d \in Fds:
    state[p] = "live" /\ pc[p] = "user" /\ ofile[p][d] # NIL =>
      ref[ofile[p][d]] > 0 /\ type[ofile[p][d]] # "none"

(***************************************************************************)
(* ftable and the descriptors: filedup() and fileclose() count every       *)
(* reference, what is behind a file goes with the last of them, and every  *)
(* installed descriptor names a file that is set up.                       *)
(***************************************************************************)
TableInv == TypeOK /\ RefsMatch /\ ObjectsMatch /\ DescriptorsUsable

(***************************************************************************)
(* The panics of file.c are out of reach, with one exception: sys_memo()   *)
(* makes its file readable, but fileread() does not know the type.         *)
(***************************************************************************)
OnlyMemoReadPanics ==
  panic # None =>
    /\ panic = "fileread"
    /\ \E p \in Procs, d \in Fds: ofile[p][d] # NIL /\ type[ofile[p][d]] = "memo"
=============================================================================
