# xv6-l in TLA+

A verification project for the kernel in `src/xv6-l`: xv6 for x86 with a
multi-level feedback scheduler, keyed shared memory, an in-memory "memo" file
type, several console windows and a Lisp shell, and for the programs that run on
it. `src/xv6-o` is the xv6 it was made from. File names without a directory are of
`src/xv6-l`; the system calls as programs see them (`Syscalls`), the Unix shell, the
commands and `usertests` are modelled from `src/xv6-o`, whose kernel they were
written for.

## 1. Inventory

| Part | State | Operations | Talks to |
|---|---|---|---|
| Process table and scheduler (`proc.c`, `trap.c`, `sysproc.c`) | `ptable.proc[]`, per-priority circular run queues (`head`, `last`, `next`, `count`), `ticks` | `fork`, `exit`, `wait`, `kill`, `sleep`/`wakeup`, `yield`, `scheduler`, clock interrupt | everything that sleeps |
| Log (`log.c`) | `log.lh`, `outstanding`, `committing`; header and log blocks on disk | `begin_op`, `log_write`, `end_op`/`commit`, recovery in `initlog` | buffer cache below, `fs.c`/`sysfile.c` above |
| Buffer cache, sleep locks, IDE (`bio.c`, `sleeplock.c`, `ide.c`) | `bcache` LRU list, `refcnt`, flags, `idequeue` | `bread`, `bwrite`, `brelse`, `iderw`, `ideintr` | disk and its interrupt, log |
| Pipes (`pipe.c`) | ring, `nread`, `nwrite`, `readopen`, `writeopen`, a page | `pipealloc`, `piperead`, `pipewrite`, `pipeclose` | file table, scheduler |
| Shared memory (`proc.c`, `vm.c`) | `sharedmemo.shared[]`, `recs[]`; per process `sharedrec[]` and page table | `getshared`, `releaseshared`, and what `fork`, `exec`, `exit`, `wait` do to them | kalloc, page tables |
| File table (`file.c`, `sysfile.c`) | `ftable.file[]` with reference counts, `ofile[]` | `open`, `close`, `dup`, `pipe`, `memo`, `read`, `write`, `fork`, `exit` | pipes, inodes |
| File contents (`fs.c`, `file.c`) | bitmap, `addrs[]`, indirect blocks, `size`, `off` | `balloc`, `bfree`, `bmap`, `readi`, `writei`, `itrunc`, `filewrite` | log, buffer cache |
| Inode cache, directories, paths (`fs.c`, `sysfile.c`) | `icache`, `nlink`, directory entries, `cwd` | `iget`, `iput`, `ialloc`, `dirlink`, `namex`, `link`, `unlink`, `create`, `chdir` | file contents, log |
| Memo (`pipe.c`, `sysfile.c`) | a string and a spin lock in shared page 2 | `memo`, `getmemo`, `memowrite` | shared memory, file table |
| Memory (`kalloc.c`, `vm.c`, `exec.c`) | free list, page tables | `kalloc`, `kfree`, `allocuvm`, `copyuvm`, `exec` | all |
| Console (`console.c`) | input ring `r`, `w`, `e`; windows `crtflags`, `crtbufs`, `poss`, `curidx`; `consflag` | `consoleintr`, `consoleread`, `consolewrite`, `splitw`, `att` | scheduler, keyboard |
| System calls as a whole (`xv6-o`: `sysfile.c`, `sysproc.c`, `exec.c`, ...) | inodes, files, pipes, pages, processes | `open` ... `exec` | all of the above |
| Unix shell, commands, `init` (`xv6-o/sh.c`, ...) | command trees, descriptors 0-2 | parse, `runcmd`, reap | system calls, console |
| Lisp shell (`scsh.c`) | functions and `xargv` in shared memory, the memo | parse, `runexp` | system calls, shared memory |
| Tests (`xv6-o/usertests.c`, `forktest.c`, `stressfs.c`) | files they leave behind | the tests of `main()` | system calls |
| User allocator (`umalloc.c`) | circular free list | `malloc`, `free` | `sbrk` |

Hard behaviours: CPUs and interrupts interleave wherever a lock is dropped;
lost wakeups between a test and a sleep; a kernel crash between any two block
writes and again during recovery; counters that wrap or meet a bound; error
paths that give back half of what a call has taken; tables that have no lock at
all (`sharedmemo`). `PROJECT.json` lists them as hazards, at their lines.

What makes each part correct, in one line each: run queues are FIFO lists of
the runnable processes and nobody is forgotten; operations become durable in
whole groups; a block has one buffer and one content; bytes come out of a pipe
once and in order; users of a key share one live page; a file lives as long as
a pointer to it does; a block belongs to one place of one file; a link count is
the number of names and an inode lives until its last name and user are gone;
typed lines are read once and in order; what a kernel owns is what its programs
use, and a command line leaves behind what it means, however its processes run.

## 2. Plan

Modules, in this order. All but the last two items exist.

1. `Proc`, `ProcProofs` - processes, scheduler, clock.
2. `Log` on `AtomicDisk`, `LogProofs` - the log refines an atomic disk.
3. `Pipe` on `ByteStream`, `PipeProofs`.
4. `SharedMem`, `SharedMemProofs`.
5. `Bcache` on `BlockStore`, `BcacheProofs`.
6. `FileTable`, `FileTableProofs`.
7. `FileData`.
8. `Directory`, `DirectoryProofs`: inode cache, directories, `namex` and the calls
   that use them.
9. `Syscalls` - the calls of all components in one state; `Script`, `Shell`,
   `Scsh`, `UserTests` - programs as scripts of calls; `Programs` - the composition,
   with the meaning of command lines and of Lisp expressions as specifications.
10. `Console` on `LineDiscipline`, `ConsoleProofs`.
11. `Umalloc` as operators against a reference definition; the linking of the
    free list in `kalloc.c`; nesting of spin locks.
12. Proofs still to do: `BlocksOwnedOnce` of `FileData` (no module on its way declares
    a RECURSIVE operator).

`Scsh`, `Shell`, `Programs` and `MCPrograms` use RECURSIVE operators and are for
TLC only; `Syscalls` has none.

## 3. Modules and code

Every module takes a critical section of a spin lock for one step: the code
cannot be interrupted there, and other CPUs see nothing of it. `sleep()` ends a
step. A loop inside a critical section is split into steps only where a CPU
elsewhere can see it (the table scan of `wakeup1()`, the queue scan of
`scheduler()`). `panic()` stops all CPUs, so a panic freezes the model; that is
why liveness properties read "or panicked".

**Proc.** One variable per field of `struct proc` that matters, `head`, `last`,
`count`, `next` for the queues, `proc` and `intr` per CPU, `lock` and `idx` for
the holder of `ptable.lock`. `order` is a history variable: what was pushed and
not yet popped. A process runs any program: the actions of a process in user
mode are the calls in `Calls` and faults. `left` stands for
`n - (ticks - ticks0)` of `sys_sleep()`. Between its test of `killed` and `sleep()` a
`kill()` of the other CPU may come (place `doze`). `stranded` is a history variable:
whom `kill()` made RUNNABLE in its sleep. `trap()` tests `killed` before and after
a call; between them a call is split at its locks. Clock interrupts are masked
where the code masks them: in a critical section, and in the rest of `fork()`
after the `cli()` that `allocproc()` and `fork()` leave behind. The file
system work of `exit()` is left out. pids are unique, so only `p->pid != 0` is
kept.

**Log.** `disk`, `logdata`, `hdr` survive `Crash`, everything else is reset by
it. `WriteLog`, `WriteHead`, `InstallTrans`, `ClearHead`, `ReadHead` are one
block write or read each; a block write is atomic (one sector). The unlocked
tests of `log_write()` are an action of their own (`LogWriteCheck`), so other
operations run between test and update. `Evict` is `bget()` recycling a clean
buffer. `kill()` of an operation asleep in its call, for space, for a buffer's lock or
for the disk, leaves it off every queue (`stranded`) until the machine is started again. `AtomicDisk` has two disks, durable and current, and a set of operations:
they commit only together and only when none is active; a crash forgets
`current`. The refinement maps `durable` to what recovery would rebuild.

**Pipe.** `data`, `nread`, `nwrite` with counters modulo `COUNTER` (2^32 in the
code). `pipewrite()` up to its end or its sleep is one step, as the lock is held; between the
test of `killed` and `sleep()` it is held for a second step (`Sleep`), since `kill()` does
not take it. Descriptors are sets of processes for each end. A process killed in its sleep is
never queued again (see section 6): place `limbo`. `ByteStream` is a
bounded queue of bytes with two ends that close. `gaveup` records that a killed
writer returned with readers asleep, the one way to miss a wakeup.

**SharedMem.** No lock protects `sharedmemo`, so every access to it is a step and
`recs[idx]++` a load and a store; of `desharevm()` the compiler makes one load, for
both tests and the decrement, and a store (`kernel.asm`). Calls start at any time, as
the two children that `con` and `pipe` of the shell fork do, which both get key 1.
`sys_setmemo()` changes nothing: `getshared()` of a recorded key returns at once. Pages
are free, in use elsewhere, page tables or shared. Two history variables say when the
missing lock has told: `lost`, the keys whose count lost an update to an overlapping
call, and `raced`, that `sharevm()` found no user of a key that another call was getting
or giving up, or that `desharevm()` took the last user off a key that another call was
getting or whose count had lost an update. A lost update alone breaks nothing yet, and
it is all that can happen to key 1 in the shell, since `main` of `scsh.c` gets that key
before it forks and keeps it: its count does not reach zero.

**Bcache.** Fields of `struct buf`, the LRU order as a sequence, `idequeue`, and
the disk as an external actor (`DiskDone` raises the interrupt, `IdeIntr` handles
it). The file system above is: lock a block it does not have, change and pin,
change and write, release; the order of locks is its own duty. `IdeIntrNone` is an
interrupt for no request. `kill()` of a process asleep in `iderw()` or `acquiresleep()`
leaves it off every queue with the locks it has (`stranded`). `BlockStore` is
the promise: one content and one user per block.

**FileTable.** A step is a critical section of `ftable.lock` or of the object
behind the file. `ofile[]` is private to its process. Pipes are the set of their
open ends, inodes the number of references, so that the error paths of `open`,
`pipe`, `memo` and `pipealloc` and the last `fileclose()` can be followed. The
copy `ff` that `fileclose()` makes of a file before it frees the entry is kept.

**FileData.** A step is one iteration of the loop of `writei()` (`WriteBlock`) or of
`itrunc()` (`TruncBlock`). A block is an array of cells that hold bytes or block
addresses, whichever it is used for, so that stale contents read as addresses
would be seen. `Bmap` allocates the indirect block and the data block in one
step: nobody knows either before. One bitmap block, as with FSSIZE = 1000.
Every `write()` writes a byte value of its own. `written` is what a transaction
hands to the log; `file` is the array of bytes that the writes add up to.

**Directory.** The disk (`dtype`, `dnlink`, `dirent`), the cached inodes (`ref`,
`valid`, `type`, `nlink`, `lock`) and, per process, `cwd`, one descriptor `fd` and the
locals of its call. What is done between `ilock()` and `iunlock()` is one step where
no second lock is waited for; `unlink()`, `create()`, `dirlink()` and `iput()` keep their
locks across steps, and `Wants` names the lock a process waits for. `iput()` is
three steps: test, free, `ref--`. With one descriptor per process a second `open()`
takes the error path of `fdalloc()`. An icache entry is identified with its inode
(NINODE is not reached); `readi()` and `writei()` of directories are `FileData`'s. The
history variables record the races that the properties except: `stray`, an entry made
in a directory that is removed already; `overlap`, two `iput()` that both looked at
`ref` before either took its own away; `lost`, a lookup of `..` that led to an inode
that is free, being freed or being made (`Unowned`).

**Console.** `input` is the ring with counters modulo `UINT` (2^32 in the code).
A key, the loop of a read up to its return or sleep, and a write are one step
each, since `cons.lock` is held; between its test of `killed` and `sleep()` a reader holds
the lock for a second step (`empty`), for `kill()` does not take it. `splitw()` takes no lock and is two, saving the
window and showing the other. It does not check its argument: called for a window
beyond the last it reads memory beside `crtflags`, and when that reads as a window in
use it shows memory beside `crtbufs`; there the model ends (`astray`). Of a screen the model keeps the number of filled
cells and the cursor; a character is one cell, a newline too. `att()` sets the flag
of CPUs 0 and 1, which are all there are (`CPUS := 2`). `kill()` leaves a sleeping reader
unqueued (`lost`), as in `Proc`. `LineDiscipline` is the promise: finished lines,
and the line that is being edited.

**Syscalls.** One action per system call of `xv6-o`, with `memo()`, `getmemo()` and
`att()` of `xv6-l`, on one record `sys`: inodes with their data (a directory's data
are its entries), the file table, pipes, the number of free pages, the console's
output, the memo, the functions of the Lisp shell. A call is one step, or one for
each time it lets go of its lock (a transaction of `filewrite()`, a sleep of
`pipewrite()`); what happens between the locks inside a call is the matter of
modules 1 to 8. A call that sleeps is a step that is not enabled. `Return` is
`%eax`, `Enter` the tests of `killed`. A process owns a kernel stack, a page directory
with the tables for the kernel, page tables of its own, one for `NPTENTRIES` pages, and
the pages of its image; `mem` is the image. Pages are taken one by one (`MapPage`), so
that `fork()`, `sbrk()`, `exec()` and `pipe()` fail where the code fails: with a kernel
stack and half a copy, with some pages of a growth, with the text and without the stack,
with a page in hand (`loose`) and none for the table that would map it. What the error
paths give back is what the code gives back; `lost` counts the pages that `copyuvm()`
forgets. Nobody allocates in the middle of another's call. Pages of
shared memory are not counted here. A pid is the number of its slot.

**Script, Shell, Scsh, UserTests.** A program is a sequence of instructions, each
a call with what is done for each kind of result. `Shell` is the recursive-descent
parser of `sh.c`, from tokens to the tree of commands, and `runcmd()`, from the tree
to a script. `Scsh` is the parser and the evaluator of `scsh.c`. Its shared memory
has the functions and the arguments; replaceAtom() makes an atom of a stored body
point to an argument (`ref`), an expression inside a body is a path into shared
memory (`Own`, `Body`, `Kid`, `At`), so that a change by another process is seen by the
one that runs it. Copying the arguments and replacing them are two steps, a step
per part of an expression. `UserTests` has a definition for each test that `main()`
of `usertests.c` calls, with the loop counts reduced to `N` and sizes to those of the
instance; messages are left out. In `mem` the pieces that `malloc()` got are one free
block again at the end.

**Programs.** `code` and `reg` are what a process has still to do and its
variables. A step is one call or one computation of one process. `Init` picks a
session: the lines that are typed, which tests `usertests` runs, and how many pages the
machine has. Only the shells
read the console. Prompts and progress messages are left out; an error message is
the word `!`, and a `printf()` is one write of a word. `createdelete` has two children
instead of four. `Command`/`Meaning` and `Put`/`Arg`/`Apply`/`Mean` are not translations:
they are the specification, the meaning of a command line and of an expression
without processes.

## 4. Runs

| Run | Instance | Shows |
|---|---|---|
| `proc_signals` | 2 CPUs, 2 processes, 2 queues, all calls | circular lists are FIFO queues of runnable processes, one CPU per process, no runnable process forgotten but by kill, no lost tick |
| `proc_families` | 2 CPUs, 3 processes, fork/exit/wait | no lost exit, everyone has a living parent |
| `proc_feedback` | 1 CPU, 2 processes, 2 queues, fair | slices never wrap, priorities move by one, the top queue is served, the others once programs rest, sleepers wake |
| `log` | 2 operations, 3 blocks, a log of 3 blocks, crashes, kill, fair | atomic disk, synced at rest, no panic, no lost wakeup, sleepers retry |
| `pipe` | 2 processes, ring of 2 bytes, counters modulo 4, writes of 0, 1 and 3 bytes, kill | byte stream, no lost wakeup, page freed once and returned, end of file |
| `shared_memory` | 2 slots, 2 keys, 4 pages, calls overlap at every access | users of a key share one live page and counts cover users until calls meet at a count of zero; only a key that was released and is taken again panics |
| `buffer_cache` | 2 processes, 2 buffers, 3 blocks, kill, interrupts for nothing, fair | block store, one buffer per block, exact counts, no lost request, sleepers are woken |
| `file_table` | 2 processes of 2 descriptors, 3 files, 1 pipe page, 1 inode | exact reference counts through all error paths; one panic only |
| `file_data` | 2 processes, 2 files, 2 inodes of 2 direct and 2 indirect blocks, 6 blocks, 3 calls | blocks owned once, contents read back, transactions fit, no panic but a full disk |
| `directory` | 2 processes, 3 nested directories, 1 free inode, 3 calls of 18 | counts of references and links are exact, what is held exists, and the only leaks, panics and deadlocks are the ones of section 6 |
| `console` | 2 processes, ring of 3, counters modulo 6, 2 windows, kill; either 6 keys and 4 reads, or 2 keys, 2 writes, 3 switches and an `att()` | lines are read once and in order, a finished line is read while somebody waits, windows keep contents and cursor |
| `user_programs` | 8 processes, 10 files of 8 descriptors, 28 inodes, 66 pages, pipes of 2; 50 sessions: all tests of `usertests`, `stressfs`, `forktest`, command lines, Lisp expressions, and a pipeline with 20 to 42 pages | references, links and pages exact, whatever fails for want of memory; all tests pass; command lines and expressions do what they mean; every session comes back to the prompt with nothing left over |

Most runs check one invariant that is a conjunction of named parts, the type
invariant first (`RunQueues`, `LogInv`, `PipeInv`, `ShareInv`, `BufferInv`, `TableInv`,
`DataInv`, `InodeInv`), and the properties that deserve a run of their own.

Bounds. Two processes are enough for two of anything to meet (two writers, two
closers, two users of a key); three where a parent, a child and init take part.
Two queues have a highest and a lowest; the proofs cover any number. A ring of
two bytes with counters modulo four wraps in every relation of the two counters.
In `log` two operations that reserve two blocks each want more than the three blocks of
the log, so that `begin_op()` has to wait for space and a reservation that is too small
overruns it. Two buffers for three blocks force recycling. In `file_table` every table is too
small for what the processes want, so every error path is taken. In
`file_data` one inode can nearly fill the disk; `MaxCalls` bounds writes and
truncations, and write, truncate, write again is what reuse of a block takes.
In `directory` the processes start in the root or two levels down, so that three
calls reach a removed parent, a removed current directory, an entry made in
one, an open file that was unlinked, and each kind of circular wait. The path
`/a/b/..` goes up from a directory that is removed during the lookup.
`shared_memory` goes up to the first step after which `HoldersShare` promises nothing, and
for want of memory on to a release of the key that got no page (`Undisturbed`), and to `MaxRecs` users of a key. `MaxSleep`, `MaxN`, `Strings`, `Lengths`, `MaxCalls`, `MaxPins`, `MaxHold`, `MaxRecs`,
`Others` are bounds on the environment. Symmetry is used where no liveness is checked.
In `console` six keys fill a ring of three twice and let its counters wrap; keys and
calls are finite (`Budgets`). In
`user_programs` files have at most 6 cells and a transaction 2, so that the tests
meet the largest file and several transactions; 8 slots, 28 inodes and 66 pages
let `forktest`, `mem` and `sbrktest` run out of them: of the three greedy children of
`sbrktest` one gets what it asks for, one fails in the middle of its growth, and the fork
of the last loses a page. From 20 to 42 pages every allocation of the processes of
`echo a | cat` is the one that fails, in some session; with less the shell does not start.
The descriptors and files never run out in `sys_pipe()` here, which `file_table` has. The
tests `createdelete`, `linkunlink`, `concreate` and `fourfiles` end in many different
directories and run in sessions of their own, the others one after the other.
Expressions have at most `MAXARGS` parts, calls give all arguments, and numbers are
single digits. The sessions marked `plain` or `lisp` are those whose meaning does not
depend on the order of processes; the others are run for the other properties.

Fairness. `Proc`: handlers run to their end and a pending clock interrupt is
taken when interrupts are on again and again (it stays pending in the local
APIC); programs need not act. There is no fairness between processes: `scheduler()`
takes the highest queue that is not empty, without aging, and every wakeup raises a
priority, so processes that wake each other may keep a lower one waiting for ever.
`QueuesServed` says what is left: the top queue is served whatever happens, and every
queue once programs make no more calls. The other modules assume no more than that: as
long as some process inside the component can go on, some process does (weak fairness
of the disjunction, never of one process), and their liveness properties except the runs
in which programs go on calling for ever (`[]<><<...>>_vars`). `Log`: that, and the disk
answers; `SleepersRetry` also excepts an operation that `kill()` has stopped in the middle.
`Pipe`: steps inside the kernel. `Bcache`: kernel steps, releases of what a process holds, and the
disk with its interrupt; `SleepersWoken` also excepts the waiters for a lock whose holder
was killed in its sleep. `Console`: a reader that is on a CPU or was woken, or `splitw()`;
keys and calls are finite there. None of these needs a program
to make a call. `Programs` has programs, so there a program goes on: `scheduler()`
runs some process as long as one can run. It is weak fairness of `Next`, written with
the condition `CanRun` instead of ENABLED, which TLC evaluates too slowly for this
next-state relation; nothing is assumed about which process runs, so a test that
needed fairness between processes would fail.

## 5. What is proved

For every value of the constants, by TLAPS:

* `ProcProofs`: `TypeCorrect`, `RunQueuesAreFifo` (`RunQueues`), `OneCpu`, `SliceSafe`,
  from an inductive invariant which adds that a process in the middle of `fork()`
  owns its new slot alone, that the holder of `ptable.lock` is where its index says
  it is, and that the process a CPU runs is on no queue: without it a pop could meet
  a process that runs elsewhere. A second one, `FullInv`, adds what wakeups rest on:
  a sleeper's channel fits its place in the code, nobody has a dead parent, and the
  scans of `exit()` and of the clock tick have not passed whoever they are for. It
  gives `RunnableIsQueued`, `ExitWakes` (`NoLostExit`), `TickWakes` (`NoLostTick`),
  `FamiliesKept` (`NoOrphans`) and the action property `FeedbackRule`
  (`PriorityFeedback`).
* `LogProofs`: `LogConsistent` (`LogInv`), `LogNeverPanics` and the refinement
  `LogIsAtomicDisk`, under `LogFits`: an operation writes fewer
  blocks than the MAXOPBLOCKS it reserves, by at least what the log on disk is
  short of LOGSIZE (mkfs counts the header, and log_write() tests `size - 1`). The
  invariant counts the credit of every active operation (`SpaceInv`), and says
  block by block what is in the log, at home and in the cache at each step of a
  commit (`BufInv`, `HeaderInv`, `CacheInv`, `CopyInv`).
* `PipeProofs`: `PipeSafe` (`PipeInv`), `PipeNoLostWakeup` and the refinement
  `PipeDeliversStream` of `ByteStream` (`DeliversStream`), from
  `RingAssumption`: the modulus of the counters is a multiple of the ring size and
  at least twice as large (PIPESIZE = 512, 2^32). The invariant adds that whoever
  is inside `pipe.c` has a descriptor, and that an end somebody has, or is about
  to shut, is open. For the refinement a slot of the ring is shown to be one byte of
  the stream, although the counters wrap.
* `BcacheProofs`: `CacheConsistent` (`BufferInv`), with or without disk errors, and
  for a disk without errors the refinement `CacheImplementsStore` of `BlockStore`
  (`CacheIsStore`). The argument is about the owner of a sleep lock: whoever has a
  buffer, or is anywhere in `bread()` or `iderw()` with it, owns its lock, which
  fixes its flags; a request in the disk queue is that of a process asleep for it.
* `SharedMemProofs`: `RemapOnlyReleased`, which rests on what each process alone does;
  `ShareInvariance` (`ShareInv`) and `HoldersSharePages` (`HoldersShare`), for calls that
  overlap at every access to the table, by the invariant `IInv` (`SharedInvariance`).
  `recs` covers the processes that have the key recorded and the calls about to record or
  drop it, or, when an update was lost, is at least not zero while there are any; where it
  is zero one call at a time is under way (`AloneInv`), which is what the cases of `raced`
  break.
* `FileTableProofs`: `TableConsistent` (`TableInv`) and `MemoReadPanics`
  (`OnlyMemoReadPanics`). The counts are cardinalities of the sets of pointers, and a
  step changes each at one or two elements. What makes them add up is local: a file
  that a call has allocated has one reference and no type, so it is that call's
  alone; a child's descriptors are filled in by the one process that forks it; the
  ends of a pipe are counted apart, so that a second close of one end cannot
  shut the other.
* `ConsoleProofs`: the refinement `ConsoleImplementsLines` of `LineDiscipline`
  (`ImplementsLines`), from the order of the counters seen from `r` and the fact that what
  is being edited holds no end of line; and `WindowsAreKept` (`WindowsKept`).
  `ConsoleAssumption` asks for what the code has: the modulus of the counters (2^32) is a
  multiple of the ring (128).

* `DirectoryProofs`: `InodeSafety` (`InodeInv`), `HeldSafety` (`HeldExist`),
  `LinksSafety` (`LinksExact`) and `FailuresSafety` (`OnlyKnownFailures`), for any
  number of processes, inodes and names and any set of calls, from a disk with three
  nested directories. There are two inductive invariants. `Inv` holds whatever happens:
  a call has at each of its places exactly the references and the locks the code has
  there, also while it is in `iput()` on its way somewhere else; an entry that was read
  is the disk's; and an inode that a process has had locked since it got its reference
  is not freed. References that come from a directory entry are not enough for that:
  `iget()` of `..` may return an inode that `iput()` is about to free. `TInv` is what
  holds until then (`~lost => TInv`): referenced inodes are owned; every directory has
  one name, in the directory that its `..` leads to, and no set of directories is
  closed downwards (`Acyclic`); the name that `unlink()`, `create()` or `dirlink()` has
  found stays while the directory is locked; a directory without a name is empty,
  without which `nlink` could not be the number of names and subdirectories; and an
  unlinked inode has a reference whose `iput()` is still to look at it. That nobody
  waits in a circle, but for the three cases, follows from `Acyclic`: in a circle of
  processes each would have a directory locked that has what the next one wants in it.
  `ParentsSafety` is the part of `OnlyKnownFailures` that holds after `lost` as well.

Constants are assumed to be what the code makes them: finite sets of processes,
sizes that are natural numbers, markers such as `None` that are nothing else. The
assumptions have names and TLC evaluates them in every run.

Only model-checked: all liveness (fairness and ENABLED are out of the prover's
reach), and everything of `FileData`, `Syscalls` and `Programs`. What a recursive
definition computes for every input would need induction over data with a predicate as a parameter, which the
provers here cannot instantiate; the modules that are proved about declare no RECURSIVE
operator.

## 6. Where the code and its promises part

`kill()` says "Wake process from sleep if necessary" (`proc.c:630`) and makes a sleeper
RUNNABLE, but does not call `qpush()`: it is on no queue and never scheduled again.
`RunnableQueued` excepts exactly these processes (`stranded`), and `Log`, `Bcache`, `Pipe`
and `Console` have them too (`limbo` and `lost` in the last two): an operation of the log
that never ends, so that no commit takes place any more, or the lock of a buffer that is
never released. `report.md:71` says that `releaseshared` releases the virtual shared
memory; it leaves the page mapped, so that getting the key again stops the kernel
in `mappages()`. `OnlyReleasedRemap`, a part of `ShareInv`, says that nothing else does.

The Lisp shell. `report.md` uses `(if (equal n 0) ...)`; `if` compares the symbol of
its second part without evaluating it, so that a condition that is not an atom
takes the last part, and `equal` prints to descriptor 2, not to the memo that a
value is read from. `fromint()` of an atom in a function body runs to the end of
memory and faults, because storeexp() does not set `esymbol`. An atom of a body that
reads like a parameter after it was replaced is replaced again at the next call. A
call within a call overwrites the `xargv` that the outer body points to, and the
output of an expression two levels down goes to the console, since `open("console")`
puts it back to descriptor 1 (`scsh.c:177`). `OtherExps` of `MCPrograms` has a session
for each of them; `LispMeans` is about expressions without them.

Met while modelling and kept in the models, without a claim in the repository
that they contradict: `kill(0)` marks a free slot, and the next process in it is
born killed; mkfs gives the on-disk log one data block less than LOGSIZE; a disk
read error is not reported and the buffer becomes valid (`ide.c:118`); two first
users of a key race (`vm.c:231`), `exec()` keeps the record of keys it has unmapped,
and a failing `mappages()` frees a page in use (`vm.c:246`); `copyuvm()` loses the page it
cannot map (`xv6-o/vm.c:335`); `splitw()` does not check its argument (`console.c:281`); reading a memo
descriptor panics (`file.c:113`); a killed writer leaves readers asleep
(`pipe.c:104`). In the directories: `create()` and `unlink()` call `iput()` for the parent
while they hold the child, against the order of another `unlink()` (`sysfile.c:232`,
`288`), and `link()` to the name `.` or `..` does so within `dirlink()` (`fs.c:561`), so
processes can wait for each other for ever (`OnlyPutDeadlocks`, with the next two the
parts of `OnlyKnownFailures`); two `iput()` whose
tests of `ref` overlap leave an unlinked inode allocated (`OnlyOverlapLeaks`); `..` of
a removed directory may name an inode that is free, or about to be: a process that
follows it, by `cd` to a removed directory's `..` or by a path like `/a/b/..` while
`b` is being removed, stops the kernel in `ilock()` (`lost`; until then
`OnlyFullPanics`), even when the directory it came from is gone by then; a name
created in a directory that is removed meanwhile is lost with it (`LinksExact`,
`stray`).

## 7. Not modelled

Boot, assembly, interrupt controllers, device registers: straight-line set-up
whose result is `Init`. `mkfs`: runs on the host; what it makes is `BootDisk` of
`Programs` and an assumption of `Log`. The flags of page tables, the linking
of the page free list, the program headers of `exec()`; `umalloc.c`; text processing
(`grep`, `wc`, `ls`, `printf`); scrolling and the status line of the console. The parts
of `usertests.c` that `main()` does not call. The length of the memo and of the names
and arguments of the Lisp shell, which the code does not check either.
