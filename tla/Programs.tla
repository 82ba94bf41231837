------------------------------ MODULE Programs ------------------------------
(* The system calls with programs running on them: init, the shell, the        *)
(* commands and usertests of src/xv6-o, and the Lisp shell of src/xv6-l. Every *)
(* process is at an instruction of its script; a step is one system call, or   *)
(* one computation, of one process. Init picks what is typed at the console.   *)
EXTENDS Syscalls, Scsh, UserTests

CONSTANT Sessions    \* what may be typed, and which tests usertests runs

VARIABLES
    code,     \* the instructions a process has still to do
    reg,      \* its variables
    session,  \* what was chosen ...
    input,    \* ... and what of it has not been read
    oops      \* a test found something wrong

vars == <<sys, proc, ret, out, code, reg, session, input, oops>>

Reg0 == [v \in {"fd", "fd1", "p0", "p1", "pid", "pid1", "pid2", "pid3", "ppid", "r", "n",
                "a", "b", "c", "brk", "zero"} |-> 0]
        @@ [buf |-> <<>>, argv |-> <<>>, in |-> 0, out |-> 1, err |-> 2]

-----------------------------------------------------------------------------
(* The programs.                                                               *)

\* argv of the arguments that follow the command's name.
Args(argv) == [k \in 1..Len(argv) - 1 |-> argv[k + 1]]

InitMain ==
    <<If(Open(<<"console">>, RDWR), "bad",
         <<Do(Path1("mknod", <<"console">>)), Do(Open(<<"console">>, RDWR))>>, <<>>),
      Do(Dup("in")), Do(Dup("in")),
      While(Let("r", "out", 0),
            <<If(Fork("pid", <<Do(Exec(<<"sh">>, FALSE)), Exit>>), "bad", <<Exit>>, <<>>),
              If(C("wait"), "ok", <<Do(C("reaped"))>>, <<>>)>>)>>

EchoMain(args) == ForEach(args, LAMBDA w : <<Do(Write("out", <<w>>))>>)

\* Mutant: the loop goes on at the end of the file.
CatOn(v) == <<Instr(Read(v, 2), "ok", 0,
                    <<If(WriteBuf("out"), "ok", <<>>, <<Say("out"), Exit>>)>>, <<>>, TRUE)>>

Cat(v) == <<While(Read(v, 2), <<If(WriteBuf("out"), "ok", <<>>, <<Say("out"), Exit>>)>>),
            If(Let("r", "r", 0), "bad", <<Say("out"), Exit>>, <<>>)>>

CatMain(args) ==
    IF args = <<>> THEN Cat("in")
    ELSE ForEach(args, LAMBDA f : <<If(Open(<<f>>, RDONLY), "bad", <<Say("out"), Exit>>, <<>>)>>
                                  \o Cat("fd") \o <<Do(Close("fd"))>>)

\* rm and mkdir stop at the first file they cannot do.
EachMain(args, call) ==
    IF args = <<>> THEN <<Say("err")>>
    ELSE ForEach(args, LAMBDA f : <<If(Path1(call, <<f>>), "bad", <<Say("err"), Exit>>, <<>>)>>)

LnMain(args) ==
    IF Len(args) # 2 THEN <<Say("err")>>
    ELSE <<If(Link(<<args[1]>>, <<args[2]>>), "bad", <<Say("err")>>, <<>>)>>

KillMain(args) ==
    IF args = <<>> THEN <<Say("err")>>
    ELSE ForEach(args, LAMBDA w : <<Do(Let("pid", "zero", CHOOSE k \in Procs : ToString(k) = w)),
                                    Do(Kill("pid"))>>)

ZombieMain == <<If(Fork("pid", <<Exit>>), "some", <<Do(C("sleep"))>>, <<>>)>>

\* A chain of processes, each with a file of its own.
RECURSIVE Stressfs(_)
Stressfs(i) ==
    LET file == <<"stressfs" \o ToString(i)>>
        rest == <<Do(Open(file, CR))>> \o Times(N, <<Do(Write("fd", <<"a">>))>>)
                \o <<Do(Close("fd")), Do(Open(file, RDONLY))>>
                \o Times(N, <<Do(Read("fd", 1))>>) \o <<Do(Close("fd")), Wait, Exit>>
        loop == Stressfs(i + 1)
    IN  IF i = N THEN rest ELSE <<If(Fork("pid", loop), "some", rest, loop)>>

\* forktest.c; the test of usertests.c is the same.
ForktestMain == forktest

\* main() of usertests.c runs the tests in this order; a session has some of them.
Tests == <<argptest, createdelete, linkunlink, concreate, fourfiles, sharedfd,
           bigargtest, bigwrite, bigargtest, bsstest, sbrktest, validatetest,
           opentest, writetest, writetest1, createtest,
           openiputtest, exitiputtest, iputtest,
           mem, pipe1, preempt, exitwait,
           rmdot, fourteen, bigfile, subdir, linktest, unlinkread, dirfile, iref, forktest,
           bigdir, uio>>

UsertestsMain ==
    <<If(Open(<<"usertests.ran">>, RDONLY), "ok", <<Exit>>, <<>>),
      Do(Open(<<"usertests.ran">>, CREATE)), Do(Close("fd"))>>
    \o FlattenSeq([k \in DOMAIN Tests |-> IF k \in session.tests THEN <<Do(Func(k))>> ELSE <<>>])
    \o exectest

\* Each main() ends in exit().
Prog(name, argv) ==
    LET args == Args(argv)
    IN  CASE name = "init"     -> InitMain
          [] name = "sh"       -> ShMain
          [] name = "echo"     -> EchoMain(args) \o <<Exit>>
          [] name = "cat"      -> CatMain(args) \o <<Exit>>
          [] name = "rm"       -> EachMain(args, "unlink") \o <<Exit>>
          [] name = "mkdir"    -> EachMain(args, "mkdir") \o <<Exit>>
          [] name = "ln"       -> LnMain(args) \o <<Exit>>
          [] name = "kill"     -> KillMain(args) \o <<Exit>>
          [] name = "zombie"   -> ZombieMain \o <<Exit>>
          [] name = "stressfs" -> Stressfs(0)
          [] name = "forktest" -> ForktestMain \o <<Exit>>
          [] name = "usertests" -> UsertestsMain \o <<Exit>>
          [] name = "scsh"     -> ScshMain
          [] name = "pecho"    -> PechoMain(args) \o <<Exit>>

Programs == <<"init", "sh", "echo", "cat", "rm", "mkdir", "ln", "kill", "zombie", "stressfs",
              "forktest", "usertests", "scsh", "pecho">>

-----------------------------------------------------------------------------
(* The disk that mkfs makes, and the first process (userinit()).               *)

BootDisk ==
    [i \in Inums |->
       CASE i = 1 -> [type |-> "dir", nlink |-> 1, ref |-> 1,
                      data |-> <<[name |-> ".", inum |-> 1], [name |-> "..", inum |-> 1],
                                 [name |-> "README", inum |-> 2]>>
                               \o [k \in DOMAIN Programs |->
                                     [name |-> Programs[k], inum |-> k + 2]]]
         [] i = 2 -> [type |-> "file", nlink |-> 1, ref |-> 0, data |-> <<"x", "v", "6">>]
         [] i \in {k + 2 : k \in DOMAIN Programs} ->
              [type |-> "file", nlink |-> 1, ref |-> 0, data |-> <<"ELF", Programs[i - 2]>>]
         [] OTHER -> NoInode]

\* initcode.S
Userinit == [NoProc EXCEPT !.state = "RUNNABLE", !.cwd = ROOTINO, !.sz = PGSIZE,
                           !.mem = Zeros(PGSIZE), !.tables = 1]

Init ==
    /\ session \in Sessions
    /\ input = session.lines
    /\ sys = [inode |-> BootDisk, file |-> [f \in Files |-> NoFile],
              pipe |-> [f \in Files |-> NoPipe], tty |-> <<>>, npage |-> session.npage,
              free |-> session.npage - 4 - KTABLES, lost |-> 0,
              panic |-> FALSE, memo |-> "", consflag |-> FALSE, lisp |-> NoLisp]
    /\ proc = [p \in Procs |-> IF p = initproc THEN Userinit ELSE NoProc]
    /\ ret = [p \in Procs |-> 0]
    /\ out = [p \in Procs |-> <<>>]
    /\ code = [p \in Procs |-> IF p = initproc THEN <<Do(Exec(<<"init">>, FALSE)), Exit>>
                                               ELSE <<>>]
    /\ reg = [p \in Procs |-> Reg0]
    /\ oops = FALSE

-----------------------------------------------------------------------------
(* A step of a process.                                                        *)

\* The system call of instruction i.
Call(p, c) ==
    LET v(x) == reg[p][x]
    IN  \/ c.call = "open"     /\ SysOpen(p, c.path, c.mode)
        \/ c.call = "close"    /\ SysClose(p, v(c.fd))
        \/ c.call = "dup"      /\ SysDup(p, v(c.fd))
        \/ c.call = "pipe"     /\ SysPipe(p)
        \/ c.call = "read"     /\ SysRead(p, v(c.fd), c.n)
        \/ c.call = "write"    /\ SysWrite(p, v(c.fd), c.data)
        \/ c.call = "writebuf" /\ SysWrite(p, v(c.fd), v("buf"))
        \/ c.call = "link"     /\ SysLink(p, c.path, c.new)
        \/ c.call = "unlink"   /\ SysUnlink(p, c.path)
        \/ c.call = "mkdir"    /\ SysMake(p, c.path, "dir")
        \/ c.call = "mknod"    /\ SysMake(p, c.path, "dev")
        \/ c.call = "chdir"    /\ SysChdir(p, c.path)
        \/ c.call = "sbrk"     /\ SysSbrk(p, c.n + v(c.w) - v(c.less))
        \/ c.call = "access"   /\ Access(p, v(c.w) + c.a, c.v)
        \/ c.call = "exec"     /\ SysExec(p, <<c.argv[1]>>, c.big)
        \/ c.call = "fork"     /\ SysFork(p)
        \/ c.call = "exit"     /\ SysExit(p)
        \/ c.call = "wait"     /\ SysWait(p)
        \/ c.call = "kill"     /\ SysKill(p, v(c.pid))
        \/ c.call = "getpid"   /\ SysGetpid(p)
        \/ c.call = "portio"   /\ PortIO(p)
        \/ c.call = "sleep"    /\ SysSleep(p, FALSE)
        \/ c.call = "badsleep" /\ SysSleep(p, TRUE)
        \/ c.call = "memo"     /\ SysMemo(p)
        \/ c.call = "getmemo"  /\ SysGetmemo(p)
        \/ c.call = "attoff"   /\ SysAtt(p, TRUE)
        \/ c.call = "atton"    /\ SysAtt(p, FALSE)

\* The variables of p after call c.
Assign(p, c) ==
    LET g == reg[p]
    IN  CASE c.call = "pipe" /\ ret'[p] = 0 ->
               [g EXCEPT !.r = 0, !.p0 = out'[p][1], !.p1 = out'[p][2]]
          [] c.call = "read" ->
               [g EXCEPT !.r = ret'[p], !.buf = (IF c.more THEN @ ELSE <<>>) \o out'[p]]
          [] c.call = "getmemo" -> [g EXCEPT !.argv = Append(@, Atom(out'[p][1]))]
          [] OTHER -> [g EXCEPT ![c.to] = ret'[p]]

\* What p does next: the rest of its write, nothing, another program, or what
\* the result says.
SysStep(p) ==
    LET c  == Head(code[p]).do
        np == ret'[p]
    IN  /\ Call(p, c)
        /\ \/ /\ ret'[p] = Pending
              /\ UNCHANGED <<code, reg>>
           \/ /\ proc'[p].state # "RUNNABLE"
              /\ code' = [code EXCEPT ![p] = <<>>]
              /\ reg' = [reg EXCEPT ![p] = Reg0]
           \/ /\ c.call = "exec" /\ ret'[p] = 0
              /\ code' = [code EXCEPT ![p] = Prog(out'[p][1], c.argv)]
              /\ reg' = [reg EXCEPT ![p] = Reg0]
           \/ /\ c.call = "fork" /\ ret'[p] > 0
              /\ code' = [code EXCEPT ![p] = After(@, np), ![np] = c.child]
              /\ reg' = [reg EXCEPT ![p] = Assign(p, c), ![np] = [reg[p] EXCEPT ![c.to] = 0]]
           \/ /\ proc'[p].state = "RUNNABLE" /\ ret'[p] # Pending
              /\ ~(c.call = "exec" /\ ret'[p] = 0) /\ ~(c.call = "fork" /\ ret'[p] > 0)
              /\ code' = [code EXCEPT ![p] = After(@, ret'[p])]
              /\ reg' = [reg EXCEPT ![p] = Assign(p, c)]
        /\ UNCHANGED <<session, input, oops>>

\* Computation. A directory lists a name as often as an entry in use has it.
Value(p, c) ==
    LET g == reg[p]
        inUse(f) == Len(SelectSeq(g.buf, LAMBDA de : de.name = f /\ de.inum # 0))
    IN  CASE c.call = "let"   -> g[c.from] + c.d
          [] c.call = "diff"  -> g[c.v] - g[c.w]
          [] c.call = "got"   -> IF g.buf \in c.set THEN 1 ELSE 0
          [] c.call = "lists" -> IF \A f \in c.names : inUse(f) = 1 THEN 1 ELSE 0

Compute(p) ==
    LET c == Head(code[p]).do
        v == Value(p, c)
    IN  /\ c.call \in {"let", "diff", "got", "lists"}
        /\ Enter(p)
        /\ code' = [code EXCEPT ![p] = After(@, v)]
        /\ reg' = [reg EXCEPT ![p][c.to] = v]
        /\ UNCHANGED <<sys, proc, ret, out, session, input, oops>>

Clear(p) ==
    /\ Head(code[p]).do.call = "clear"
    /\ Enter(p)
    /\ code' = [code EXCEPT ![p] = Tail(@)]
    /\ reg' = [reg EXCEPT ![p].buf = <<>>]
    /\ UNCHANGED <<sys, proc, ret, out, session, input, oops>>

\* A function of usertests, or one of several ways to go on.
Branch(p) ==
    LET c == Head(code[p]).do
    IN  /\ Enter(p)
        /\ \/ /\ c.call = "func"
              /\ code' = [code EXCEPT ![p] = Tests[c.k] \o Tail(@)]
              /\ reg' = [reg EXCEPT ![p] = Reg0]
           \/ /\ c.call = "choose"
              /\ \E way \in c.among : code' = [code EXCEPT ![p] = way \o Tail(@)]
              /\ UNCHANGED reg
        /\ UNCHANGED <<sys, proc, ret, out, session, input, oops>>

\* A step of the Lisp shell, on memory that its processes share.
LispEval(p) ==
    LET c == Head(code[p]).do
        r == LispStep(c, reg[p].argv, sys.lisp)
    IN  /\ c.call = "lisp"
        /\ Enter(p)
        /\ code' = [code EXCEPT ![p] = r.code \o Tail(@)]
        /\ reg' = [reg EXCEPT ![p].argv = r.argv]
        /\ sys' = [sys EXCEPT !.lisp = r.sh]
        /\ UNCHANGED <<proc, ret, out, session, input, oops>>

\* init has reaped the process in r: the shell, and starts another, or an orphan.
Reaped(p) ==
    /\ Head(code[p]).do.call = "reaped"
    /\ Enter(p)
    /\ code' = [code EXCEPT ![p] =
         IF reg[p].r = reg[p].pid THEN Tail(@)
         ELSE <<Do(Write("out", <<"zombie!">>)),
                If(C("wait"), "ok", <<Do(C("reaped"))>>, <<>>)>> \o Tail(@)]
    /\ UNCHANGED <<sys, proc, ret, out, reg, session, input, oops>>

\* What the shells make of each line that may be typed.
Lines       == UNION {Range(s.lines) : s \in Sessions}
Interpreted == [getcmd |-> [line \in Lines |-> Interpret(line)],
                getexp |-> [line \in Lines |-> Evaluate(line)]]

\* A shell reads a line; at the end of the input it exits.
Getcmd(p) ==
    /\ Head(code[p]).do.call \in {"getcmd", "getexp"}
    /\ Enter(p)
    /\ input # <<>>
    /\ input' = Tail(input)
    /\ code' = [code EXCEPT ![p] = IF Head(input) = <<"EOF">> THEN After(@, -1)
                                   ELSE Interpreted[Head(code[p]).do.call][Head(input)] \o @]
    /\ UNCHANGED <<sys, proc, ret, out, reg, session, oops>>

\* A test that is not content says so and exits.
Complain(p) ==
    /\ Head(code[p]).do.call = "oops"
    /\ SysExit(p)
    /\ oops' = TRUE
    /\ code' = [code EXCEPT ![p] = <<>>]
    /\ reg' = [reg EXCEPT ![p] = Reg0]
    /\ UNCHANGED <<session, input>>

Die(p) ==
    /\ Killed(p)
    /\ code' = [code EXCEPT ![p] = <<>>]
    /\ reg' = [reg EXCEPT ![p] = Reg0]
    /\ UNCHANGED <<session, input, oops>>

Step(p) ==
    \/ Die(p)
    \/ code[p] # <<>> /\ (\/ SysStep(p) \/ Compute(p) \/ Clear(p) \/ Branch(p) \/ LispEval(p) \/ Reaped(p)
                          \/ Getcmd(p) \/ Complain(p))

\* The shell waits for a line that nobody types.
AtPrompt ==
    /\ input = <<>>
    /\ \E sh \in Procs \ {initproc} :
         /\ {p \in Procs : proc[p].state # "UNUSED"} = {initproc, sh}
         /\ code[sh] # <<>> /\ Head(code[sh]).do.call = "getcmd"

Idle == AtPrompt /\ UNCHANGED vars

Next == Idle \/ \E p \in Procs : Step(p)

\* Process p sleeps in its call: wait(), piperead(), pipewrite(), for a line, or
\* for ever.
Sleeps(p) ==
    LET c == Head(code[p]).do
        x == sys.file[Ofile(p, reg[p][c.fd])]
    IN  \/ c.call = "spin"
        \/ c.call \in {"getcmd", "getexp"} /\ input = <<>>
        \/ /\ c.call = "wait"
           /\ \E q \in Procs : proc[q].parent = p
           /\ ~\E q \in Procs : proc[q].parent = p /\ proc[q].state = "ZOMBIE"
        \/ /\ c.call = "read" /\ Ofile(p, reg[p][c.fd]) # 0
           /\ x.type = "pipe" /\ x.readable
           /\ sys.pipe[x.obj].data = <<>> /\ sys.pipe[x.obj].writeopen
        \/ /\ c.call \in {"write", "writebuf"} /\ Ofile(p, reg[p][c.fd]) # 0
           /\ x.type = "pipe" /\ x.writable /\ ~proc[p].killed
           /\ Len(sys.pipe[x.obj].data) = PIPESIZE /\ sys.pipe[x.obj].readopen

CanRun(p) == /\ proc[p].state = "RUNNABLE"
             /\ (proc[p].killed /\ proc[p].part = 0) \/ ~Sleeps(p)

\* scheduler() runs some process as long as one can run: weak fairness of Next,
\* written with CanRun for its enabling condition.
Fairness == []<>(\A p \in Procs : ~CanRun(p)) \/ []<><<TRUE>>_vars

Spec == Init /\ [][Next]_vars /\ Fairness

-----------------------------------------------------------------------------
(* What a command line means, without processes, descriptors and pipes: a      *)
(* function from [in, out, errs, file], what can be read, was written, the     *)
(* messages, and the files' contents.                                          *)

Command(argv, st) ==
    LET args == Args(argv)
        bad  == {k \in DOMAIN args : args[k] \notin DOMAIN st.file}
        good == SubSeq(args, 1, First(bad \cup {Len(args) + 1}) - 1)
        cats == FlattenSeq([k \in DOMAIN good |-> st.file[good[k]]])
    IN  CASE argv = <<>>        -> st
          [] Head(argv) = "echo" -> [st EXCEPT !.out = @ \o args]
          [] Head(argv) = "cat" /\ args = <<>> -> [st EXCEPT !.out = @ \o st.in, !.in = <<>>]
          [] Head(argv) = "cat" /\ args # <<>> ->
               [st EXCEPT !.out = @ \o cats \o (IF bad = {} THEN <<>> ELSE <<"!">>)]
          [] Head(argv) = "rm"   ->
               [st EXCEPT !.file = [f \in DOMAIN @ \ Range(good) |-> @[f]],
                          !.errs = IF bad = {} THEN @ ELSE @ + 1]
          [] OTHER -> [st EXCEPT !.errs = @ + 1]

RECURSIVE Meaning(_, _)
Meaning(c, st) ==
    CASE c.type = "EXEC" -> Command(c.argv, st)
      [] c.type = "LIST" -> Meaning(c.right, Meaning(c.left, st))
      [] c.type = "PIPE" ->
           LET l == Meaning(c.left, [st EXCEPT !.out = <<>>])
               r == Meaning(c.right, [l EXCEPT !.in = l.out, !.out = st.out])
           IN  [r EXCEPT !.in = l.in]
      [] c.type = "REDIR" /\ c.fd = "in" ->
           IF c.file \notin DOMAIN st.file THEN [st EXCEPT !.errs = @ + 1]
           ELSE [Meaning(c.cmd, [st EXCEPT !.in = st.file[c.file]]) EXCEPT !.in = st.in]
      [] c.type = "REDIR" /\ c.fd = "out" ->
           LET m == Meaning(c.cmd, [st EXCEPT !.out = <<>>, !.file = @ @@ (c.file :> <<>>)])
           IN  [m EXCEPT !.out = st.out, !.file[c.file] = Writei(@, 0, m.out)]
      [] OTHER -> [st EXCEPT !.errs = @ + 1]

-----------------------------------------------------------------------------
\* In every order of their processes the tests of usertests.c find what they
\* look for, run to the end and do not bring the kernel down.
TestsPass ==
    /\ ~oops /\ ~sys.panic
    /\ AtPrompt /\ session.lines = <<<<"usertests">>>> => sys.tty = <<"ALL">>

\* When runcmd()'s processes are done, the console and the files hold what the
\* command lines mean, in every order the processes ran in.
LinesMean ==
    AtPrompt /\ session.kind = "plain" =>
      LET st == FoldLeft(LAMBDA s, line : Meaning(Parsecmd(line), s),
                         [in |-> <<>>, out |-> <<>>, errs |-> 0,
                          file |-> [README |-> BootDisk[2].data]], session.lines)
          shown(S) == SelectSeq(S, LAMBDA x : x # "!")
      IN  /\ shown(sys.tty) = shown(st.out)
          /\ Len(sys.tty) = Len(st.out) + st.errs
          /\ \A f \in DOMAIN st.file :
               LET i == Dirlookup(sys, ROOTINO, f)
               IN  i # 0 /\ sys.inode[i].data = st.file[f]

\* The console shows what the expressions typed to scsh mean, although their
\* values pass through one memo, and functions and arguments through memory that
\* all processes change.
LispMeans ==
    AtPrompt /\ session.kind = "lisp" =>
      sys.tty = FoldLeft(LAMBDA st, line : Mean(Parseexp(line), st),
                         [fn |-> [f \in {} |-> {}], in |-> <<>>, out |-> <<>>],
                         SubSeq(session.lines, 2, Len(session.lines) - 1)).out

\* Every session comes back to the prompt with nothing but init and the shell
\* left: no process waits for ever, no orphan stays.
SessionEnds == <>[]AtPrompt
=============================================================================
