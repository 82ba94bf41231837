------------------------------- MODULE Script -------------------------------
(* User programs as scripts: sequences of instructions, each a system call and *)
(* what the program does with its result. Printing is left out.                *)
EXTENDS Integers, Sequences, SequencesExt

\* A call. "to" is the variable that takes the result.
C(call)               == [call |-> call, to |-> "r"]
OpenTo(v, path, mode) == [call |-> "open", to |-> v, path |-> path, mode |-> mode]
Open(path, mode)      == OpenTo("fd", path, mode)
Close(v)              == [call |-> "close", to |-> "r", fd |-> v]
Dup(v)                == [call |-> "dup", to |-> "r", fd |-> v]
Read(v, n)            == [call |-> "read", to |-> "r", fd |-> v, n |-> n, more |-> FALSE]
ReadMore(v, n)        == [Read(v, n) EXCEPT !.more = TRUE]      \* keeps what it read before
Write(v, data)        == [call |-> "write", to |-> "r", fd |-> v, data |-> data]
WriteBuf(v)           == [call |-> "writebuf", to |-> "r", fd |-> v]
Path1(call, path)     == [call |-> call, to |-> "r", path |-> path]
Mkdir(path)           == Path1("mkdir", path)
Chdir(path)           == Path1("chdir", path)
Unlink(path)          == Path1("unlink", path)
Link(old, new)        == [call |-> "link", to |-> "r", path |-> old, new |-> new]
Fork(v, child)        == [call |-> "fork", to |-> v, child |-> child]
Kill(v)               == [call |-> "kill", to |-> "r", pid |-> v]
Exec(argv, big)       == [call |-> "exec", to |-> "r", argv |-> argv, big |-> big]
SbrkTo(v, n, w, less) == [call |-> "sbrk", to |-> v, n |-> n, w |-> w, less |-> less]
                                                                \* n + w - less
StoreAt(w, a, v)      == [call |-> "access", to |-> "r", w |-> w, a |-> a, v |-> v]
Store(a, v)           == StoreAt("zero", a, v)                  \* at the address a
Load(a)               == Store(a, -1)
\* Computation: a variable gets another plus d; the difference of two; what was
\* read is one of some values; it lists every name once; a function; alternatives.
Let(v, w, d)          == [call |-> "let", to |-> v, from |-> w, d |-> d]
Diff(v, w)            == [call |-> "diff", to |-> "r", v |-> v, w |-> w]
Got(S)                == [call |-> "got", to |-> "r", set |-> S]
Lists(names)          == [call |-> "lists", to |-> "r", names |-> names]
Func(k)               == [call |-> "func", to |-> "r", k |-> k]
Choose(S)             == [call |-> "choose", to |-> "r", among |-> S]

\* An instruction: a call, the test of its result, and the two ways to go on.
Instr(c, want, n, then, else, loop) ==
    [do |-> c, want |-> want, n |-> n, then |-> then, else |-> else, loop |-> loop]

Do(c)                == Instr(c, "any", 0, <<>>, <<>>, FALSE)
If(c, want, th, el)  == Instr(c, want, 0, th, el, FALSE)
While(c, body)       == Instr(c, "some", 0, body, <<>>, TRUE)   \* while the result is > 0

\* A test's expectations: otherwise it says that something is wrong and gives up.
Oops       == <<Do(C("oops"))>>
Ok(c)      == If(c, "ok", <<>>, Oops)
Bad(c)     == If(c, "bad", <<>>, Oops)
Is(n, c)   == Instr(c, "is", n, <<>>, Oops, FALSE)
Yes(c)     == Is(1, c)
Same(v, w) == Is(0, Diff(v, w))

Exit == Do(C("exit"))
Wait == Do(C("wait"))
Say(v) == Do(Write(v, <<"!">>))      \* an error message

\* Does the result r pass the instruction's test?
Passes(i, r) ==
    CASE i.want = "any"  -> TRUE
      [] i.want = "ok"   -> r >= 0
      [] i.want = "bad"  -> r < 0
      [] i.want = "some" -> r > 0
      [] i.want = "std"  -> r \in 0..2
      [] i.want = "is"   -> r = i.n

\* The code after its first instruction returned r.
After(code, r) ==
    LET i == Head(code)
    IN  IF Passes(i, r) THEN i.then \o (IF i.loop THEN code ELSE Tail(code))
                        ELSE i.else \o Tail(code)

\* for(i = 0; i < n; i++), and a loop over some values.
Times(n, seq)    == FlattenSeq([i \in 1..n |-> seq])
ForEach(S, f(_)) == FlattenSeq([i \in DOMAIN S |-> f(S[i])])

RDONLY == {}
RDWR   == {"RDWR"}
WRONLY == {"WRONLY"}
CREATE == {"CREATE"}
=============================================================================
