------------------------------ MODULE Syscalls ------------------------------
(* The system calls of unmodified xv6 (src/xv6-o) as programs see them: the    *)
(* calls of sysfile.c, sysproc.c and proc.c on top of fs.c, file.c, pipe.c,    *)
(* vm.c and exec.c. A call is one step, or one step for each time it lets go   *)
(* of the lock it works under (filewrite() between transactions, pipewrite()   *)
(* when it sleeps). What it allocates it allocates piece by piece within the   *)
(* step, and gives back what the code gives back when a piece is missing. A    *)
(* call that sleeps is a step that is not enabled. What happens between the    *)
(* locks inside a call is the matter of Directory, FileTable, Pipe and Proc.   *)
(* The memo and att() are calls of src/xv6-l.                                  *)
EXTENDS Params, Sequences, FiniteSets, SequencesExt, FiniteSetsExt

VARIABLES
    sys,   \* inodes, file table, pipes, memo, what the console shows, panic; the pages
           \* of the machine, those on the free list and those lost
    proc,  \* the process table
    ret,   \* %eax: the result of a process's last call, or Pending
    out    \* what the call put into the caller's memory

kvars == <<sys, proc, ret, out>>

Procs   == 1..NPROC
Fds     == 0..NOFILE - 1
Files   == 1..NFILE
Inums   == 1..NINODES
ROOTINO == 1
initproc == 1
Pending == -2       \* the call goes on

NoInode == [type |-> "free", nlink |-> 0, ref |-> 0, data |-> <<>>]
NoFile  == [type |-> "none", ref |-> 0, readable |-> FALSE, writable |-> FALSE,
            obj |-> 0, off |-> 0]
NoPipe  == [readopen |-> FALSE, writeopen |-> FALSE, data |-> <<>>]
NoProc  == [state |-> "UNUSED", parent |-> 0, killed |-> FALSE,
            ofile |-> [fd \in Fds |-> 0], cwd |-> 0, mem |-> <<>>, sz |-> 0, tables |-> 0,
            part |-> 0]

\* The first entry of a table that a scan finds, or 0.
First(S) == IF S = {} THEN 0 ELSE Min(S)

Pages(n) == (n + PGSIZE - 1) \div PGSIZE

-----------------------------------------------------------------------------
(* Inodes, directories and paths (fs.c). A directory's data are its entries;   *)
(* an entry with inum 0 is free. A path is the sequence of its elements, the   *)
(* first "/" if it is absolute.                                                *)

Idup(s, i) == [s EXCEPT !.inode[i].ref = @ + 1]

Iput(s, i) ==
    IF s.inode[i].nlink = 0 /\ s.inode[i].ref = 1
    THEN [s EXCEPT !.inode[i] = NoInode]
    ELSE [s EXCEPT !.inode[i].ref = @ - 1]

\* Where dirlookup() finds the name, and what it finds there.
Slot(s, d, name) ==
    First({k \in DOMAIN s.inode[d].data : /\ s.inode[d].data[k].inum # 0
                                          /\ s.inode[d].data[k].name = name})

Dirlookup(s, d, name) ==
    LET k == Slot(s, d, name) IN IF k = 0 THEN 0 ELSE s.inode[d].data[k].inum

Dirlink(s, d, name, i) ==
    LET data == s.inode[d].data
        k    == First({j \in DOMAIN data : data[j].inum = 0})
        de   == [name |-> name, inum |-> i]
    IN  [s EXCEPT !.inode[d].data = IF k = 0 THEN Append(data, de)
                                             ELSE [data EXCEPT ![k] = de]]

\* A name of DIRSIZ characters or more keeps the first DIRSIZ.
Skipelem(name) == IF name = "123456789012345" THEN "12345678901234" ELSE name

Elems(path) == IF path # <<>> /\ Head(path) = "/" THEN Tail(path) ELSE path

Namex(s, cwd, path, elems) ==
    FoldLeft(LAMBDA ip, name : IF ip = 0 \/ s.inode[ip].type # "dir" THEN 0
                               ELSE Dirlookup(s, ip, Skipelem(name)),
             IF path # <<>> /\ Head(path) = "/" THEN ROOTINO ELSE cwd, elems)

Namei(s, cwd, path) == Namex(s, cwd, path, Elems(path))

Nameiparent(s, cwd, path) ==
    IF Elems(path) = <<>> THEN 0
    ELSE LET dp == Namex(s, cwd, path, Front(Elems(path)))
         IN  IF dp # 0 /\ s.inode[dp].type = "dir" THEN dp ELSE 0

Name(path) == Skipelem(Last(Elems(path)))

Ialloc(s) == First({i \in Inums : s.inode[i].type = "free"})

\* create(): the state and a referenced inode, or 0.
Create(s, cwd, path, type) ==
    LET dp   == Nameiparent(s, cwd, path)
        ip   == Dirlookup(s, dp, Name(path))
        new  == Ialloc(s)
        dots == <<[name |-> ".", inum |-> new], [name |-> "..", inum |-> dp]>>
        t    == [s EXCEPT !.inode[new] = [type |-> type, nlink |-> 1, ref |-> 1,
                             data |-> IF type = "dir" THEN dots ELSE <<>>],
                          !.inode[dp].nlink = @ + (IF type = "dir" THEN 1 ELSE 0)]
    IN  CASE dp = 0 -> [s |-> s, ip |-> 0]
          [] dp # 0 /\ ip # 0 ->
               IF type = "file" /\ s.inode[ip].type = "file"
               THEN [s |-> Idup(s, ip), ip |-> ip] ELSE [s |-> s, ip |-> 0]
          [] dp # 0 /\ ip = 0 /\ new = 0 -> [s |-> [s EXCEPT !.panic = TRUE], ip |-> 0]
          [] OTHER -> [s |-> Dirlink(t, dp, Name(path), new), ip |-> new]

\* readi() and writei() of a file's or a directory's data at an offset.
Readi(data, off, n) == SubSeq(data, off + 1, Min({off + n, Len(data)}))

Writei(data, off, src) ==
    [k \in 1..Max({Len(data), off + Len(src)}) |->
        IF k > off /\ k <= off + Len(src) THEN src[k - off] ELSE data[k]]

-----------------------------------------------------------------------------
(* File table and pipes (file.c, pipe.c).                                      *)

Fdalloc(p) ==
    LET S == {fd \in Fds : proc[p].ofile[fd] = 0} IN IF S = {} THEN -1 ELSE Min(S)

FreeFiles(s) == {f \in Files : s.file[f].ref = 0}

Filedup(s, f) == [s EXCEPT !.file[f].ref = @ + 1]

Pipeclose(s, i, writable) ==
    LET q == IF writable THEN [s.pipe[i] EXCEPT !.writeopen = FALSE]
                         ELSE [s.pipe[i] EXCEPT !.readopen = FALSE]
    IN  IF q.readopen \/ q.writeopen THEN [s EXCEPT !.pipe[i] = q]
        ELSE [s EXCEPT !.pipe[i] = NoPipe, !.free = @ + 1]

Fileclose(s, f) ==
    LET ff == s.file[f]
        t  == [s EXCEPT !.file[f] = NoFile]
    IN  CASE ff.ref > 1         -> [s EXCEPT !.file[f].ref = @ - 1]
          [] ff.ref = 1 /\ ff.type = "pipe"  -> Pipeclose(t, ff.obj, ff.writable)
          [] ff.ref = 1 /\ ff.type = "inode" -> Iput(t, ff.obj)
          [] ff.ref = 1 /\ ff.type \in {"memo", "none"} -> t

\* A file, a second one and a page, in this order. When one is not to be had, the
\* files that are there are closed; they have no type yet.
Pipealloc(s) ==
    LET f0     == First(FreeFiles(s))
        f1     == First(FreeFiles(s) \ {f0})
        got    == IF f0 = 0 THEN {} ELSE {f0, f1} \ {0}
        held   == [s EXCEPT !.file = [f \in Files |-> IF f \in got THEN [@[f] EXCEPT !.ref = 1]
                                                                  ELSE @[f]]]
        i      == First({j \in Files : s.pipe[j] = NoPipe})
        end(w) == [type |-> "pipe", ref |-> 1, obj |-> i, off |-> 0,
                   readable |-> ~w, writable |-> w]
        bad    == Cardinality(got) < 2 \/ s.free = 0
    IN  [bad |-> bad, f0 |-> f0, f1 |-> f1,
         s   |-> IF bad THEN FoldSet(LAMBDA f, t : Fileclose(t, f), held, got)
                 ELSE [held EXCEPT !.file[f0] = end(FALSE), !.file[f1] = end(TRUE),
                                   !.free = @ - 1,
                                   !.pipe[i] = [readopen |-> TRUE, writeopen |-> TRUE,
                                                data |-> <<>>]]]

-----------------------------------------------------------------------------
(* Entry and return (trap.c, syscall.c). A killed process makes no more calls; *)
(* it finishes the write it is in.                                             *)

Enter(p) == proc[p].state = "RUNNABLE" /\ (proc[p].killed => proc[p].part > 0)

Return(p, r, v) == /\ ret' = [ret EXCEPT ![p] = r]
                   /\ out' = [out EXCEPT ![p] = v]

Fail(p) == Return(p, -1, <<>>) /\ UNCHANGED <<sys, proc>>

Ofile(p, fd) == IF fd \in Fds THEN proc[p].ofile[fd] ELSE 0

-----------------------------------------------------------------------------
(* sysfile.c                                                                   *)

\* The inode that open() opens, referenced.
OpenInode(s, cwd, path, mode) ==
    LET ip == Namei(s, cwd, path)
    IN  CASE "CREATE" \in mode -> Create(s, cwd, path, "file")
          [] ip = 0 \/ (s.inode[ip].type = "dir" /\ mode # {}) -> [s |-> s, ip |-> 0]
          [] OTHER -> [s |-> Idup(s, ip), ip |-> ip]

SysOpen(p, path, mode) ==
    LET c  == OpenInode(sys, proc[p].cwd, path, mode)
        f  == First(FreeFiles(sys))
        fd == Fdalloc(p)
    IN  /\ Enter(p)
        /\ \/ /\ c.ip = 0
              /\ sys' = c.s
              /\ Return(p, -1, <<>>) /\ UNCHANGED proc
           \/ /\ c.ip # 0 /\ (f = 0 \/ fd = -1)
              /\ sys' = Iput(c.s, c.ip)
              /\ Return(p, -1, <<>>) /\ UNCHANGED proc
           \/ /\ c.ip # 0 /\ f # 0 /\ fd # -1
              /\ sys' = [c.s EXCEPT !.file[f] =
                           [type |-> "inode", ref |-> 1, obj |-> c.ip, off |-> 0,
                            readable |-> "WRONLY" \notin mode,
                            writable |-> mode \cap {"WRONLY", "RDWR"} # {}]]
              /\ proc' = [proc EXCEPT ![p].ofile[fd] = f]
              /\ Return(p, fd, <<>>)

SysClose(p, fd) ==
    /\ Enter(p)
    /\ IF Ofile(p, fd) = 0 THEN Fail(p)
       ELSE /\ sys' = Fileclose(sys, Ofile(p, fd))
            /\ proc' = [proc EXCEPT ![p].ofile[fd] = 0]
            /\ Return(p, 0, <<>>)

SysDup(p, fd) ==
    /\ Enter(p)
    /\ IF Ofile(p, fd) = 0 \/ Fdalloc(p) = -1 THEN Fail(p)
       ELSE /\ sys' = Filedup(sys, Ofile(p, fd))
            /\ proc' = [proc EXCEPT ![p].ofile[Fdalloc(p)] = Ofile(p, fd)]
            /\ Return(p, Fdalloc(p), <<>>)

SysPipe(p) ==
    LET a == Pipealloc(sys)
        S == {fd \in Fds : proc[p].ofile[fd] = 0}
    IN  /\ Enter(p)
        /\ IF a.bad \/ Cardinality(S) < 2
           THEN /\ sys' = IF a.bad THEN a.s ELSE Fileclose(Fileclose(a.s, a.f0), a.f1)
                /\ Return(p, -1, <<>>) /\ UNCHANGED proc    \* the first descriptor is cleared
           ELSE LET fd0 == Min(S) fd1 == Min(S \ {fd0})
                IN  /\ sys' = a.s
                    /\ proc' = [proc EXCEPT ![p].ofile[fd0] = a.f0, ![p].ofile[fd1] = a.f1]
                    /\ Return(p, 0, <<fd0, fd1>>)

\* An empty pipe with a writer: piperead() sleeps.
Piperead(p, i, n) ==
    LET q == sys.pipe[i]
        k == Min({n, Len(q.data)})
    IN  /\ q.data # <<>> \/ ~q.writeopen
        /\ Return(p, k, SubSeq(q.data, 1, k))
        /\ sys' = [sys EXCEPT !.pipe[i].data = SubSeq(@, k + 1, Len(@))]
        /\ UNCHANGED proc

Fileread(p, f, n) ==
    LET x   == sys.file[f]
        got == Readi(sys.inode[x.obj].data, x.off, n)
    IN  /\ sys.inode[x.obj].type # "dev"
        /\ Return(p, Len(got), got)
        /\ sys' = [sys EXCEPT !.file[f].off = @ + Len(got)]
        /\ UNCHANGED proc

\* A read of the console is Getcmd of Programs; nobody reads a memo.
SysRead(p, fd, n) ==
    LET f == Ofile(p, fd) x == sys.file[f]
    IN  /\ Enter(p)
        /\ \/ (f = 0 \/ n < 0) /\ Fail(p)
           \/ f # 0 /\ n >= 0 /\ ~x.readable /\ Fail(p)
           \/ f # 0 /\ n >= 0 /\ x.readable /\ x.type = "pipe" /\ Piperead(p, x.obj, n)
           \/ f # 0 /\ n >= 0 /\ x.readable /\ x.type = "inode" /\ Fileread(p, f, n)

\* The rest of a write, after the part that is done.
Rest(p, data) == SubSeq(data, proc[p].part + 1, Len(data))

Wrote(p, k, data) ==
    LET all == proc[p].part + k = Len(data)
    IN  /\ Return(p, IF all THEN Len(data) ELSE Pending, <<>>)
        /\ proc' = [proc EXCEPT ![p].part = IF all THEN 0 ELSE @ + k]

GiveUp(p) == /\ Return(p, -1, <<>>)
             /\ proc' = [proc EXCEPT ![p].part = 0]
             /\ UNCHANGED sys

\* pipewrite() until the pipe is full: there it sleeps, or gives up.
PipeWrite(p, i, data) ==
    LET q == sys.pipe[i]
        k == Min({PIPESIZE - Len(q.data), Len(Rest(p, data))})
    IN  \/ /\ k > 0 \/ Rest(p, data) = <<>>
           /\ sys' = [sys EXCEPT !.pipe[i].data = @ \o SubSeq(Rest(p, data), 1, k)]
           /\ Wrote(p, k, data)
        \/ /\ k = 0 /\ Rest(p, data) # <<>>
           /\ ~q.readopen \/ proc[p].killed
           /\ GiveUp(p)

\* One transaction of filewrite().
FileWrite(p, f, data) ==
    LET x == sys.file[f]
        k == Min({CHUNK, Len(Rest(p, data))})
    IN  IF x.off + k > MAXFILE THEN GiveUp(p)
        ELSE /\ sys' = [sys EXCEPT !.file[f].off = @ + k,
                          !.inode[x.obj].data =
                             Writei(@, x.off, SubSeq(Rest(p, data), 1, k))]
             /\ Wrote(p, k, data)

\* What was written since the last memo(), as one string.
Memowrite(s, data) == [s EXCEPT !.memo = FoldLeft(LAMBDA m, w : m \o w, @, data)]

SysWrite(p, fd, data) ==
    LET f == Ofile(p, fd) x == sys.file[f]
    IN  /\ Enter(p)
        /\ \/ f = 0 /\ Fail(p)
           \/ f # 0 /\ ~x.writable /\ Fail(p)
           \/ f # 0 /\ x.writable /\ x.type = "pipe" /\ PipeWrite(p, x.obj, data)
           \/ f # 0 /\ x.writable /\ x.type = "inode" /\ sys.inode[x.obj].type = "file"
              /\ FileWrite(p, f, data)
           \/ /\ f # 0 /\ x.writable /\ x.type = "inode" /\ sys.inode[x.obj].type = "dev"
              /\ sys' = [sys EXCEPT !.tty = IF sys.consflag THEN @ ELSE @ \o data]
              /\ Wrote(p, Len(data), data)
           \/ /\ f # 0 /\ x.writable /\ x.type = "memo"
              /\ sys' = Memowrite(sys, data)
              /\ Wrote(p, Len(data), data)

\* A file that writes to the memo, which is emptied; what is in the memo; att().
SysMemo(p) ==
    LET f == First(FreeFiles(sys)) fd == Fdalloc(p)
    IN  /\ Enter(p)
        /\ IF f = 0 \/ fd = -1 THEN Fail(p)
           ELSE /\ sys' = [sys EXCEPT !.memo = "",
                             !.file[f] = [type |-> "memo", ref |-> 1, obj |-> 0, off |-> 0,
                                          readable |-> TRUE, writable |-> TRUE]]
                /\ proc' = [proc EXCEPT ![p].ofile[fd] = f]
                /\ Return(p, fd, <<>>)

SysGetmemo(p) ==
    Enter(p) /\ Return(p, Len(sys.memo), <<sys.memo>>) /\ UNCHANGED <<sys, proc>>

SysAtt(p, flag) ==
    /\ Enter(p)
    /\ sys' = [sys EXCEPT !.consflag = flag]
    /\ Return(p, 0, <<>>) /\ UNCHANGED proc

SysLink(p, old, new) ==
    LET ip == Namei(sys, proc[p].cwd, old)
        dp == Nameiparent(sys, proc[p].cwd, new)
    IN  /\ Enter(p)
        /\ IF ip = 0 \/ sys.inode[ip].type = "dir" \/ dp = 0 \/ Slot(sys, dp, Name(new)) # 0
           THEN Fail(p)
           ELSE /\ sys' = [Dirlink(sys, dp, Name(new), ip) EXCEPT !.inode[ip].nlink = @ + 1]
                /\ Return(p, 0, <<>>) /\ UNCHANGED proc

\* Is the directory empty but for "." and ".."?
Isdirempty(s, d) == \A k \in DOMAIN s.inode[d].data : k > 2 => s.inode[d].data[k].inum = 0

SysUnlink(p, path) ==
    LET dp == Nameiparent(sys, proc[p].cwd, path)
        k  == Slot(sys, dp, Name(path))
        ip == Dirlookup(sys, dp, Name(path))
    IN  /\ Enter(p)
        /\ IF \/ dp = 0 \/ Name(path) \in {".", ".."} \/ ip = 0
              \/ sys.inode[ip].type = "dir" /\ ~Isdirempty(sys, ip)
           THEN Fail(p)
           ELSE LET s == [sys EXCEPT
                            !.inode[dp].data[k].inum = 0,
                            !.inode[dp].nlink = @ - (IF sys.inode[ip].type = "dir"
                                                     THEN 1 ELSE 0),
                            !.inode[ip].nlink = @ - 1]
                IN  /\ sys' = Iput(Idup(s, ip), ip)
                    /\ Return(p, 0, <<>>) /\ UNCHANGED proc

\* sys_mkdir() and sys_mknod().
SysMake(p, path, type) ==
    LET c == Create(sys, proc[p].cwd, path, type)
    IN  /\ Enter(p)
        /\ sys' = IF c.ip = 0 THEN c.s ELSE Iput(c.s, c.ip)
        /\ Return(p, IF c.ip = 0 THEN -1 ELSE 0, <<>>)
        /\ UNCHANGED proc

SysChdir(p, path) ==
    LET ip == Namei(sys, proc[p].cwd, path)
    IN  /\ Enter(p)
        /\ IF ip = 0 \/ sys.inode[ip].type # "dir" THEN Fail(p)
           ELSE /\ sys' = Iput(Idup(sys, ip), proc[p].cwd)
                /\ proc' = [proc EXCEPT ![p].cwd = ip]
                /\ Return(p, 0, <<>>)

-----------------------------------------------------------------------------
(* Memory (vm.c). An address space m has the page directory with the tables    *)
(* that map the kernel (kvm pages), page tables of its own, and the pages of   *)
(* its image, from address 0 on. m.free is what kalloc() has left, m.loose a   *)
(* page in hand that is not mapped, m.ok whether all went well so far. Pages   *)
(* of shared memory are SharedMem's matter.                                    *)

Zeros(n) == [k \in 1..n |-> 0]

Vm(p) == [free |-> sys.free, kvm |-> 1 + KTABLES, tables |-> proc[p].tables,
          pages |-> Pages(proc[p].sz), loose |-> 0, ok |-> TRUE]

\* kalloc() and mappages() of the next page, which may be the first of a table.
MapPage(m) ==
    LET new == IF m.pages \div NPTENTRIES < m.tables THEN 0 ELSE 1
    IN  CASE ~m.ok \/ m.free = 0 -> [m EXCEPT !.ok = FALSE]
          [] m.ok /\ m.free > 0 /\ m.free = new -> [m EXCEPT !.free = 0, !.loose = 1, !.ok = FALSE]
          [] OTHER -> [m EXCEPT !.free = @ - 1 - new, !.tables = @ + new, !.pages = @ + 1]

MapPages(m, n) == FoldLeft(LAMBDA t, k : MapPage(t), m, Zeros(n))

\* To fewer pages; the tables stay.
Deallocuvm(m, pages) == [m EXCEPT !.free = @ + m.pages - pages, !.pages = pages]

\* Mutant: the page that could not be mapped is not given back.
AllocuvmLeaks(m, more) ==
    LET t == MapPages(m, more) IN IF t.ok THEN t ELSE Deallocuvm(t, m.pages)

\* All the pages or none: what it got it gives back, but for a table.
Allocuvm(m, more) ==
    LET t == MapPages(m, more)
    IN  IF t.ok THEN t
        ELSE [Deallocuvm(t, m.pages) EXCEPT !.free = @ + t.loose, !.loose = 0]

Freevm(m) == [m EXCEPT !.free = @ + m.kvm + m.tables + m.pages,
                       !.kvm = 0, !.tables = 0, !.pages = 0]

Setupkvm(free) ==
    LET k == Min({free, 1 + KTABLES})
        m == [free |-> free - k, kvm |-> k, tables |-> 0, pages |-> 0, loose |-> 0,
              ok |-> k = 1 + KTABLES]
    IN  IF m.ok THEN m ELSE Freevm(m)

\* Page by page. "goto bad" with a page in hand forgets that page.
Copyuvm(free, pages) ==
    LET d == MapPages(Setupkvm(free), pages) IN IF d.ok THEN d ELSE Freevm(d)

-----------------------------------------------------------------------------
(* Processes (exec.c, proc.c, sysproc.c). A process has a kernel stack, of one *)
(* page, and an address space.                                                 *)

ProcPages(p) == 1 + Vm(p).kvm + Vm(p).tables + Vm(p).pages

\* Mutant: a growth that fails leaves the process what it got.
GrowprocKeeps(p, new) ==
    LET more == Pages(new) - Pages(proc[p].sz)
        m    == IF more > 0 THEN MapPages(Vm(p), more) ELSE Deallocuvm(Vm(p), Pages(new))
        sz   == IF m.ok THEN new ELSE m.pages * PGSIZE
    IN  /\ sys' = [sys EXCEPT !.free = m.free + m.loose]
        /\ proc' = [proc EXCEPT ![p].tables = m.tables, ![p].sz = sz,
                       ![p].mem = SubSeq(@ \o Zeros(NPAGE * PGSIZE), 1, m.pages * PGSIZE)]
        /\ Return(p, IF m.ok THEN proc[p].sz ELSE -1, <<>>)

\* growproc() to the size new.
Growproc(p, new) ==
    LET more == Pages(new) - Pages(proc[p].sz)
        m    == IF more > 0 THEN Allocuvm(Vm(p), more) ELSE Deallocuvm(Vm(p), Pages(new))
    IN  /\ sys' = [sys EXCEPT !.free = m.free]
        /\ proc' = [proc EXCEPT ![p].tables = m.tables,
                       ![p].sz = IF m.ok THEN new ELSE @,
                       ![p].mem = SubSeq(@ \o Zeros(NPAGE * PGSIZE), 1, m.pages * PGSIZE)]
        /\ Return(p, IF m.ok THEN proc[p].sz ELSE -1, <<>>)

SysSbrk(p, n) ==
    LET sz  == proc[p].sz
        new == IF sz + n < 0 THEN sz ELSE sz + n   \* below 0 it wraps: nothing to free
    IN  /\ Enter(p)
        /\ new > 0      \* nobody gives back all: growproc() would free it, then fail
        /\ IF new >= KERNBASE THEN Fail(p) ELSE Growproc(p, new)

\* A program is a file that begins with the ELF magic; big arguments run over
\* the stack page into the guard page. The inode is given back after the text, or
\* at "bad", and there what was built of the image as well.
SysExec(p, path, big) ==
    LET ip    == Namei(sys, proc[p].cwd, path)
        elf   == sys.inode[ip].type = "file" /\ Readi(sys.inode[ip].data, 0, 1) = <<"ELF">>
        text  == Allocuvm(Setupkvm(sys.free), Pages(TEXT))
        image == IF text.ok THEN Allocuvm(text, 2) ELSE text
        size  == image.pages * PGSIZE
        s     == Iput(Idup(sys, ip), ip)
    IN  /\ Enter(p)
        /\ IF ip = 0 THEN Fail(p)
           ELSE IF ~elf THEN sys' = s /\ Return(p, -1, <<>>) /\ UNCHANGED proc
           ELSE IF ~image.ok \/ big
           THEN /\ sys' = [s EXCEPT !.free = Freevm(image).free]
                /\ Return(p, -1, <<>>) /\ UNCHANGED proc
           ELSE /\ sys' = [s EXCEPT !.free = Freevm([Vm(p) EXCEPT !.free = image.free]).free]
                /\ proc' = [proc EXCEPT ![p].sz = size, ![p].mem = Zeros(size),
                                        ![p].tables = image.tables]
                /\ Return(p, 0, <<sys.inode[ip].data[2]>>)

Allocproc == First({q \in Procs : proc[q].state = "UNUSED"})

\* allocproc() with a kernel stack, copyuvm(), and what the child shares. A fork
\* that fails frees the stack and the slot.
SysFork(p) ==
    LET np      == Allocproc
        d       == Copyuvm(sys.free - 1, Pages(proc[p].sz))
        dups(f) == Cardinality({fd \in Fds : proc[p].ofile[fd] = f})
    IN  /\ Enter(p)
        /\ IF np = 0 \/ sys.free = 0 THEN Fail(p)
           ELSE IF ~d.ok
           THEN /\ sys' = [sys EXCEPT !.free = d.free + 1, !.lost = @ + d.loose]
                /\ Return(p, -1, <<>>) /\ UNCHANGED proc
           ELSE /\ sys' = [Idup(sys, proc[p].cwd) EXCEPT
                             !.file = [f \in Files |-> [@[f] EXCEPT !.ref = @ + dups(f)]],
                             !.free = d.free]
                /\ proc' = [proc EXCEPT ![np] = [proc[p] EXCEPT !.parent = p,
                                                                !.tables = d.tables]]
                /\ ret' = [ret EXCEPT ![p] = np, ![np] = 0]
                /\ UNCHANGED out

\* exit() of a process that calls it, is killed, or faults.
Exits(p) ==
    /\ sys' = Iput(FoldSet(LAMBDA fd, s : IF proc[p].ofile[fd] = 0 THEN s
                                          ELSE Fileclose(s, proc[p].ofile[fd]),
                           [sys EXCEPT !.panic = @ \/ p = initproc], Fds), proc[p].cwd)
    /\ proc' = [q \in Procs |->
                  IF q = p THEN [NoProc EXCEPT !.state = "ZOMBIE", !.sz = proc[p].sz,
                                               !.tables = proc[p].tables,
                                               !.parent = proc[p].parent]
                  ELSE IF proc[q].parent = p THEN [proc[q] EXCEPT !.parent = initproc]
                  ELSE proc[q]]
    /\ Return(p, 0, <<>>)

SysExit(p) == Enter(p) /\ Exits(p)

Killed(p) == proc[p].state = "RUNNABLE" /\ proc[p].killed /\ proc[p].part = 0 /\ Exits(p)

\* inb and outb are not for user code: the trap kills the process.
PortIO(p) == Enter(p) /\ Exits(p)

\* A store or a load at an address; outside the image's pages it is a fault.
Access(p, a, v) ==
    /\ Enter(p)
    /\ IF a >= Pages(proc[p].sz) * PGSIZE THEN Exits(p)
       ELSE /\ proc' = [proc EXCEPT ![p].mem[a + 1] = IF v < 0 THEN @ ELSE v]
            /\ Return(p, proc[p].mem[a + 1], <<>>)
            /\ UNCHANGED sys

SysWait(p) ==
    LET kids == {q \in Procs : proc[q].state # "UNUSED" /\ proc[q].parent = p}
        z    == First({q \in kids : proc[q].state = "ZOMBIE"})
    IN  /\ Enter(p)
        /\ \/ kids = {} /\ Fail(p)
           \/ /\ z # 0
              /\ sys' = [sys EXCEPT !.free = @ + ProcPages(z)]
              /\ proc' = [proc EXCEPT ![z] = NoProc]
              /\ Return(p, z, <<>>)

SysGetpid(p) == Enter(p) /\ Return(p, p, <<>>) /\ UNCHANGED <<sys, proc>>

SysKill(p, q) ==
    /\ Enter(p)
    /\ IF q \notin Procs \/ proc[q].state = "UNUSED" THEN Fail(p)
       ELSE /\ proc' = [proc EXCEPT ![q].killed = TRUE]
            /\ Return(p, 0, <<>>) /\ UNCHANGED sys

\* sys_sleep() returns some time; with an argument it cannot fetch, at once.
SysSleep(p, bad) ==
    /\ Enter(p)
    /\ Return(p, IF bad THEN -1 ELSE 0, <<>>)
    /\ UNCHANGED <<sys, proc>>

-----------------------------------------------------------------------------
\* Reference counts are the pointers there are; every page is in one place, through
\* all calls that fail half way for want of memory, but for the one that each fork()
\* loses that had a page and could not map it (vm.c:335); an inode without a name
\* and without a user is free, and one that a directory names exists (fs.c, file.c,
\* kalloc.c: what the kernel owns is what is in use).
RefsExact ==
    LET live   == {p \in Procs : proc[p].state = "RUNNABLE"}
        fds(f) == {x \in live \X Fds : proc[x[1]].ofile[x[2]] = f}
        inodeFiles(i) == {f \in Files : sys.file[f].type = "inode" /\ sys.file[f].obj = i}
        used(p) == IF proc[p].state = "UNUSED" THEN 0 ELSE ProcPages(p)
    IN  /\ \A f \in Files : sys.file[f].ref = Cardinality(fds(f))
        /\ \A i \in Inums :
             /\ sys.inode[i].ref = Cardinality(inodeFiles(i))
                                 + Cardinality({p \in live : proc[p].cwd = i})
             /\ (sys.inode[i].type # "free") =>
                   (sys.inode[i].nlink > 0 \/ sys.inode[i].ref > 0)
        /\ \A i \in Inums : \A k \in DOMAIN sys.inode[i].data :
             sys.inode[i].type = "dir" /\ sys.inode[i].nlink > 0
                /\ sys.inode[i].data[k].inum # 0
             => sys.inode[sys.inode[i].data[k].inum].type # "free"
        /\ sys.npage = sys.free + sys.lost +
             Cardinality({i \in Files : sys.pipe[i] # NoPipe})
             + FoldSet(LAMBDA p, n : n + used(p), 0, Procs)
=============================================================================
