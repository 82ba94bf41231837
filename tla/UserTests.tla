----------------------------- MODULE UserTests -----------------------------
(* The tests of src/xv6-o/usertests.c as scripts. The control, the calls and   *)
(* what each call must return are the test's; loop counts and sizes are        *)
(* smaller. A byte of the model stands for the unit a test writes in.          *)
EXTENDS Params, Script, TLC

CONSTANTS
    N,        \* how often a test's loop runs
    BIG       \* sbrktest's large address space

CR == CREATE \cup RDWR

Cp(x, n) == [i \in 1..n |-> x]                      \* n bytes x
Digit    == <<"0", "1", "2", "3">>                  \* '0' + i
Child(script) == Fork("pid", script \o <<Exit>>)

-----------------------------------------------------------------------------
(* One process.                                                                *)

argptest == <<Ok(Open(<<"init">>, RDONLY)), Do(Read("fd", -1)), Do(Close("fd"))>>

opentest == <<Ok(Open(<<"echo">>, RDONLY)), Do(Close("fd")),
              Bad(Open(<<"doesnotexist">>, RDONLY))>>

iputtest == <<Ok(Mkdir(<<"iputdir">>)), Ok(Chdir(<<"iputdir">>)),
              Ok(Unlink(<<"..", "iputdir">>)), Ok(Chdir(<<"/">>))>>

writetest ==
    <<Ok(Open(<<"small">>, CR))>>
    \o Times(N, <<Is(1, Write("fd", <<"a">>)), Is(1, Write("fd", <<"b">>))>>)
    \o <<Do(Close("fd")), Ok(Open(<<"small">>, RDONLY)), Is(2 * N, Read("fd", 2 * N)),
         Do(Close("fd")), Ok(Unlink(<<"small">>))>>

\* The largest file, block by block; every block is read back.
writetest1 ==
    <<Ok(Open(<<"big">>, CR))>>
    \o [i \in 1..MAXFILE |-> Is(1, Write("fd", <<i>>))]
    \o <<Do(Close("fd")), Ok(Open(<<"big">>, RDONLY)),
         While(ReadMore("fd", 1), <<>>), Yes(Got({[i \in 1..MAXFILE |-> i]})),
         Do(Close("fd")), Ok(Unlink(<<"big">>))>>

createtest ==
    ForEach(SubSeq(Digit, 1, N), LAMBDA d : <<Do(Open(<<"a" \o d>>, CR)), Do(Close("fd"))>>)
    \o ForEach(SubSeq(Digit, 1, N), LAMBDA d : <<Do(Unlink(<<"a" \o d>>))>>)

\* The test adds up what write() returns for writes longer than a transaction.
bigwrite ==
    <<Do(Unlink(<<"bigwrite">>))>>
    \o ForEach(<<1, 3, MAXFILE \div 2>>, LAMBDA sz :
         <<Ok(Open(<<"bigwrite">>, CR)), Is(sz, Write("fd", Cp("x", sz))),
           Is(sz, Write("fd", Cp("x", sz))), Do(Close("fd")), Do(Unlink(<<"bigwrite">>))>>)

\* Written in pieces of two, read in pieces of one.
bigfile ==
    <<Do(Unlink(<<"bigfile">>)), Ok(Open(<<"bigfile">>, CR))>>
    \o [i \in 1..N |-> Is(2, Write("fd", Cp(i, 2)))]
    \o <<Do(Close("fd")), Ok(Open(<<"bigfile">>, RDONLY))>>
    \o [i \in 1..2 * N |-> Is(1, ReadMore("fd", 1))]
    \o <<Is(0, ReadMore("fd", 1)),
         Yes(Got({FlattenSeq([i \in 1..N |-> Cp(i, 2)])})),
         Do(Close("fd")), Do(Unlink(<<"bigfile">>))>>

unlinkread ==
    <<Ok(Open(<<"unlinkread">>, CR)), Do(Write("fd", Cp("h", 2))), Do(Close("fd")),
      Ok(Open(<<"unlinkread">>, RDWR)), Is(0, Unlink(<<"unlinkread">>)),
      Do(OpenTo("fd1", <<"unlinkread">>, CR)), Do(Write("fd1", <<"y">>)), Do(Close("fd1")),
      Is(2, Read("fd", 4)), Yes(Got({Cp("h", 2)})), Is(3, Write("fd", Cp("h", 3))),
      Do(Close("fd")), Do(Unlink(<<"unlinkread">>))>>

linktest ==
    <<Do(Unlink(<<"lf1">>)), Do(Unlink(<<"lf2">>)), Ok(Open(<<"lf1">>, CR)),
      Is(2, Write("fd", Cp("h", 2))), Do(Close("fd")),
      Ok(Link(<<"lf1">>, <<"lf2">>)), Do(Unlink(<<"lf1">>)), Bad(Open(<<"lf1">>, RDONLY)),
      Ok(Open(<<"lf2">>, RDONLY)), Is(2, Read("fd", 4)), Do(Close("fd")),
      Bad(Link(<<"lf2">>, <<"lf2">>)), Do(Unlink(<<"lf2">>)),
      Bad(Link(<<"lf2">>, <<"lf1">>)), Bad(Link(<<".">>, <<"lf1">>))>>

bigdir ==
    <<Do(Unlink(<<"bd">>)), Ok(Open(<<"bd">>, CREATE)), Do(Close("fd"))>>
    \o ForEach(SubSeq(Digit, 1, N), LAMBDA d : <<Is(0, Link(<<"bd">>, <<"x" \o d>>))>>)
    \o <<Do(Unlink(<<"bd">>))>>
    \o ForEach(SubSeq(Digit, 1, N), LAMBDA d : <<Is(0, Unlink(<<"x" \o d>>))>>)

\* A directory in a directory, and paths through ".." ...
subdirMake ==
    <<Do(Unlink(<<"ff">>)), Is(0, Mkdir(<<"dd">>)), Ok(Open(<<"dd", "ff">>, CR)),
      Do(Write("fd", Cp("f", 2))), Do(Close("fd")), Bad(Unlink(<<"dd">>)),
      Is(0, Mkdir(<<"/", "dd", "dd">>)), Ok(Open(<<"dd", "dd", "ff">>, CR)),
      Do(Write("fd", Cp("F", 2))), Do(Close("fd")),
      Ok(Open(<<"dd", "dd", "..", "ff">>, RDONLY)), Is(2, Read("fd", 4)),
      Yes(Got({Cp("f", 2)})), Do(Close("fd")),
      Is(0, Link(<<"dd", "dd", "ff">>, <<"dd", "dd", "ffff">>)),
      Is(0, Unlink(<<"dd", "dd", "ff">>)), Bad(Open(<<"dd", "dd", "ff">>, RDONLY)),
      Is(0, Chdir(<<"dd">>)), Is(0, Chdir(<<"dd", "..", "..", "dd">>)),
      Is(0, Chdir(<<"dd", "..", "..", "..", "dd">>)), Is(0, Chdir(<<".", "..">>)),
      Ok(Open(<<"dd", "dd", "ffff">>, RDONLY)), Is(2, Read("fd", 4)), Do(Close("fd"))>>

\* ... and all that must fail there.
subdir == subdirMake \o
    <<Bad(Open(<<"dd", "dd", "ff">>, RDONLY)),
      Bad(Open(<<"dd", "ff", "ff">>, CR)), Bad(Open(<<"dd", "xx", "ff">>, CR)),
      Bad(Open(<<"dd">>, CREATE)), Bad(Open(<<"dd">>, RDWR)), Bad(Open(<<"dd">>, WRONLY)),
      Bad(Link(<<"dd", "ff", "ff">>, <<"dd", "dd", "xx">>)),
      Bad(Link(<<"dd", "xx", "ff">>, <<"dd", "dd", "xx">>)),
      Bad(Link(<<"dd", "ff">>, <<"dd", "dd", "ffff">>)),
      Bad(Mkdir(<<"dd", "ff", "ff">>)), Bad(Mkdir(<<"dd", "xx", "ff">>)),
      Bad(Mkdir(<<"dd", "dd", "ffff">>)), Bad(Unlink(<<"dd", "xx", "ff">>)),
      Bad(Unlink(<<"dd", "ff", "ff">>)), Bad(Chdir(<<"dd", "ff">>)),
      Bad(Chdir(<<"dd", "xx">>)), Is(0, Unlink(<<"dd", "dd", "ffff">>)),
      Is(0, Unlink(<<"dd", "ff">>)), Bad(Unlink(<<"dd">>)), Ok(Unlink(<<"dd", "dd">>)),
      Ok(Unlink(<<"dd">>))>>

fourteen ==
    LET n14 == "12345678901234" n15 == "123456789012345"
    IN  <<Is(0, Mkdir(<<n14>>)), Is(0, Mkdir(<<n14, n15>>)),
          Ok(Open(<<n15, n15, n15>>, CREATE)), Do(Close("fd")),
          Ok(Open(<<n14, n14, n14>>, RDONLY)), Do(Close("fd")),
          Bad(Mkdir(<<n14, n14>>)), Bad(Mkdir(<<n15, n14>>))>>

rmdot ==
    <<Is(0, Mkdir(<<"dots">>)), Is(0, Chdir(<<"dots">>)), Bad(Unlink(<<".">>)),
      Bad(Unlink(<<"..">>)), Is(0, Chdir(<<"/">>)), Bad(Unlink(<<"dots", ".">>)),
      Bad(Unlink(<<"dots", "..">>)), Is(0, Unlink(<<"dots">>))>>

dirfile ==
    <<Ok(Open(<<"dirfile">>, CREATE)), Do(Close("fd")), Bad(Chdir(<<"dirfile">>)),
      Bad(Open(<<"dirfile", "xx">>, RDONLY)), Bad(Open(<<"dirfile", "xx">>, CREATE)),
      Bad(Mkdir(<<"dirfile", "xx">>)), Bad(Unlink(<<"dirfile", "xx">>)),
      Bad(Link(<<"README">>, <<"dirfile", "xx">>)), Is(0, Unlink(<<"dirfile">>)),
      Bad(Open(<<".">>, RDWR)), Do(Open(<<".">>, RDONLY)), Bad(Write("fd", <<"x">>)),
      Do(Close("fd"))>>

\* Empty path names, in a directory in a directory ...
iref ==
    Times(N,
      <<Is(0, Mkdir(<<"irefd">>)), Is(0, Chdir(<<"irefd">>)), Do(Mkdir(<<>>)),
        Do(Link(<<"README">>, <<>>)),
        If(Open(<<>>, CREATE), "ok", <<Do(Close("fd"))>>, <<>>),
        If(Open(<<"xx">>, CREATE), "ok", <<Do(Close("fd"))>>, <<>>),
        Do(Unlink(<<"xx">>))>>)
    \o <<Do(Chdir(<<"/">>))>>

bsstest == <<Is(0, Load(1))>>

exectest == <<Ok(Exec(<<"echo", "ALL">>, FALSE))>>

-----------------------------------------------------------------------------
(* A process and its children.                                                 *)

exitiputtest ==
    <<Ok(Child(<<Ok(Mkdir(<<"iputdir">>)), Ok(Chdir(<<"iputdir">>)),
                 Ok(Unlink(<<"..", "iputdir">>))>>)), Wait>>

openiputtest ==
    <<Ok(Mkdir(<<"oidir">>)), Ok(Child(<<Bad(Open(<<"oidir">>, RDWR))>>)),
      Do(C("sleep")), Is(0, Unlink(<<"oidir">>)), Wait>>

\* The reader asks for more and more.
pipe1 ==
    LET all == [i \in 1..3 * N |-> i]
    IN  <<Is(0, C("pipe")),
          Ok(Child(<<Do(Close("p0"))>>
                   \o [n \in 1..N |-> Is(3, Write("p1", SubSeq(all, 3 * n - 2, 3 * n)))])),
          Do(Close("p1")),
          If(ReadMore("p0", 1), "some",
             <<If(ReadMore("p0", 2), "some", <<While(ReadMore("p0", 4), <<>>)>>, <<>>)>>, <<>>),
          Yes(Got({all})), Do(Close("p0")), Wait>>

preempt ==
    <<Do(Fork("pid1", <<Do(C("spin"))>>)), Do(Fork("pid2", <<Do(C("spin"))>>)),
      Do(C("pipe")),
      Do(Fork("pid3", <<Do(Close("p0")), Is(1, Write("p1", <<"x">>)), Do(Close("p1")),
                        Do(C("spin"))>>)),
      Do(Close("p1")), Is(1, Read("p0", 4)), Do(Close("p0")),
      Do(Kill("pid1")), Do(Kill("pid2")), Do(Kill("pid3")), Wait, Wait, Wait>>

exitwait == Times(N, <<Ok(Child(<<>>)), Wait, Same("r", "pid")>>)

GetpidTo(v) == [call |-> "getpid", to |-> v]

\* malloc() until there is no more, by a growth of some pages at a time (umalloc.c:
\* morecore()); all of it is free again, in one piece, when a smaller block than a
\* growth is asked for.
mem ==
    LET morecore == SbrkTo("r", 2 * PGSIZE, "zero", "zero")
    IN  <<Do(GetpidTo("ppid")),
          Do(Child(<<While(morecore, <<Do(Let("n", "n", 1))>>),
                     If(Let("n", "n", 0), "some", <<>>,
                        <<If(morecore, "ok", <<>>, <<Do(Kill("ppid"))>> \o Oops)>>)>>)),
          Wait>>

\* Two processes write through one file; all orders of the bytes are fine.
sharedfd ==
    LET done == {s \in [1..2 * N -> {"c", "p"}] :
                    Len(SelectSeq(s, LAMBDA x : x = "c")) = N}
    IN  <<Do(Unlink(<<"sharedfd">>)), Ok(Open(<<"sharedfd">>, CR)),
          Do(Child(Times(N, <<Is(1, Write("fd", <<"c">>))>>)))>>
        \o Times(N, <<Is(1, Write("fd", <<"p">>))>>)
        \o <<Wait, Do(Close("fd")), Ok(Open(<<"sharedfd">>, RDONLY)),
             While(ReadMore("fd", 1), <<>>), Do(Close("fd")), Do(Unlink(<<"sharedfd">>)),
             Yes(Got(done))>>

fourfiles ==
    LET f(d) == <<"f" \o d>>
        S    == Digit
    IN  ForEach(S, LAMBDA d :
          <<Do(Unlink(f(d))),
            Ok(Child(<<Ok(Open(f(d), CR))>> \o Times(N, <<Is(1, Write("fd", <<d>>))>>)))>>)
        \o Times(4, <<Wait>>)
        \o ForEach(SubSeq(S, 1, 2), LAMBDA d :
             <<Do(Open(f(d), RDONLY)), Do(C("clear")),
               While(ReadMore("fd", 2), <<>>), Do(Close("fd")),
               Yes(Got({Cp(d, N)})), Do(Unlink(f(d)))>>)

\* Every child makes four files and takes the second away; the parent looks. Its
\* last loop names other files ('p' + i), so most of them stay.
createdelete ==
    LET name(c, d) == <<c \o d>>
        kids == <<"p", "q">>
        make(c, d) == <<Ok(Open(name(c, d), CR)), Do(Close("fd"))>>
        look(c, d) == IF d = "1" THEN <<Bad(Open(name(c, d), RDONLY))>>
                      ELSE <<Ok(Open(name(c, d), RDONLY)), Do(Close("fd"))>>
    IN  ForEach(kids, LAMBDA c :
          <<Ok(Child(make(c, "0") \o make(c, "1") \o make(c, "2")
                     \o <<Ok(Unlink(name(c, "1")))>> \o make(c, "3")))>>)
        \o <<Wait, Wait>>
        \o ForEach(Digit, LAMBDA d : look("p", d) \o look("q", d))
        \o <<Do(Unlink(name("p", "0"))), Do(Unlink(name("q", "1"))),
             Do(Unlink(name("r", "2"))), Do(Unlink(name("s", "3")))>>

\* In round i parent and child each create or link the same name, and later open
\* or unlink it. These four rounds have all the combinations.
concreate ==
    LET file(i)   == "C" \o ToString(i)
        rounds    == <<0, 1, 4, 6>>
        create(f) == <<Ok(Open(<<f>>, CR)), Do(Close("fd"))>>
        link(f)   == <<Do(Link(<<"C0">>, <<f>>))>>
        look(f)   == <<Do(Open(<<f>>, RDONLY)), Do(Close("fd"))>>
        unlink(f) == <<Do(Unlink(<<f>>)), Do(Unlink(<<f>>))>>
        first(i)  == <<Do(Unlink(<<file(i)>>)),
                       Do(Child(IF i % 5 = 1 THEN link(file(i)) ELSE create(file(i))))>>
                     \o (IF i % 3 = 1 THEN link(file(i)) ELSE create(file(i))) \o <<Wait>>
        second(i) == <<Ok(Child(IF i % 3 = 0 THEN look(file(i)) ELSE unlink(file(i))))>>
                     \o (IF i % 3 = 1 THEN look(file(i)) ELSE unlink(file(i))) \o <<Wait>>
    IN  ForEach(rounds, first)
        \o <<Do(Open(<<".">>, RDONLY)), Do(C("clear")), While(ReadMore("fd", 1), <<>>),
             Yes(Lists({file(rounds[k]) : k \in 1..4})), Do(Close("fd"))>>
        \o ForEach(rounds, second)

\* Parent and child each take a pseudo-random path: here, any.
linkunlink ==
    LET step == Do(Choose({<<Do(Open(<<"x">>, CR)), Do(Close("fd"))>>,
                           <<Do(Link(<<"cat">>, <<"x">>))>>,
                           <<Do(Unlink(<<"x">>))>>}))
    IN  <<Do(Unlink(<<"x">>)), Ok(Child(Times(N, <<step>>)))>>
        \o Times(N, <<step>>) \o <<Wait>>

\* fork() until it fails; there are as many to wait for.
forktest ==
    <<While(Child(<<>>), <<Do(Let("n", "n", 1))>>),
      While(C("wait"), <<Do(Let("n", "n", -1))>>),
      Same("n", "zero")>>

validatetest ==
    <<Do(Child(<<Do(C("badsleep"))>>)), Do(C("sleep")), Do(C("sleep")), Do(Kill("pid")), Wait,
      Is(-1, Link(<<"nosuchfile">>, <<"p">>))>>

bigargtest ==
    <<Do(Unlink(<<"bigarg-ok">>)),
      Ok(Child(<<Do(Exec(<<"echo">>, TRUE)), Do(Open(<<"bigarg-ok">>, CREATE)),
                 Do(Close("fd"))>>)),
      Wait, Ok(Open(<<"bigarg-ok">>, RDONLY)), Do(Close("fd")), Do(Unlink(<<"bigarg-ok">>))>>

\* outb and inb, which must not succeed.
uio == <<Ok(Child(<<Do(C("portio")), Do(C("portio"))>> \o Oops)), Wait>>

sbrktest ==
    LET sbrk(v, n) == SbrkTo(v, n, "zero", "zero")
        upto(v, w) == SbrkTo(v, BIG, "zero", w)
        post       == <<Do(sbrk("c", 1)), Do(sbrk("c", 1)), Do(Let("a", "a", 1)), Same("c", "a")>>
        hungry(v)  == Fork(v, <<Do(sbrk("a", 0)), Do(upto("r", "a")),
                                Do(Write("p1", <<"x">>)), Do(C("spin"))>>)
        pids       == <<"pid1", "pid2", "pid3">>
    IN  <<Do(sbrk("brk", 0)), Do(sbrk("a", 0))>>
        \o Times(PGSIZE + 1, <<Do(sbrk("b", 1)), Same("b", "a"), Do(StoreAt("b", 0, 1)),
                               Do(Let("a", "b", 1))>>)
        \o <<Ok(Child(post))>> \o post \o
        \* grow big, give a page back, take it again: it is new
        <<Wait, Do(sbrk("a", 0)), Do(upto("b", "a")), Same("b", "a"),
          Do(Store(BIG - 1, 99)), Do(sbrk("a", 0)), Ok(sbrk("c", -PGSIZE)),
          Do(sbrk("c", 0)), Do(Let("c", "c", PGSIZE)), Same("c", "a"),
          Do(sbrk("a", 0)), Do(sbrk("c", PGSIZE)), Same("c", "a"),
          Do(sbrk("c", 0)), Do(Let("a", "a", PGSIZE)), Same("c", "a"),
          Instr(Load(BIG - 1), "is", 99, Oops, <<>>, FALSE),
          Do(sbrk("a", 0)), Do(SbrkTo("c", 0, "brk", "a")), Same("c", "a")>>
        \* the kernel's memory cannot be read
        \o <<Do(GetpidTo("ppid")),
              Ok(Child(<<Do(Load(KERNBASE)), Do(Kill("ppid"))>> \o Oops)), Wait,
              Is(0, C("pipe"))>>
        \* others take all the memory; what they could not get was not lost
        \o ForEach(pids, LAMBDA v : <<If(hungry(v), "bad", <<>>, <<Do(Read("p0", 1))>>)>>)
        \o <<Do(sbrk("c", PGSIZE))>>
        \o ForEach(pids, LAMBDA v : <<If(Let(v, v, 0), "bad", <<>>, <<Do(Kill(v)), Wait>>)>>)
        \o <<Ok(Let("c", "c", 0)), Do(sbrk("a", 0)),
             If(Diff("a", "brk"), "some", <<Do(SbrkTo("c", 0, "brk", "a"))>>, <<>>)>>
=============================================================================
