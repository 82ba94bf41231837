-------------------------------- MODULE Scsh --------------------------------
(* The Lisp shell of src/xv6-l/scsh.c. Expressions are trees; the functions    *)
(* that defun stores are in memory that all processes of the shell share and   *)
(* change without a lock, so a process that runs a function's body holds a     *)
(* pointer into it, and an argument is a pointer to the shared xargv.          *)
(* Expressions have at most MAXARGS parts and a call gives every argument;     *)
(* getsharem() itself is SharedMem's matter.                                   *)
EXTENDS Shell, TLC

Atom(s)      == [type |-> "ATOM", sym |-> s, ref |-> 0, stored |-> FALSE]
Node(t, es)  == [type |-> t, sexps |-> es]
None         == [type |-> "NONE"]

-----------------------------------------------------------------------------
(* The parser.                                                                 *)

RECURSIVE Parsesexp(_), Parselist(_, _, _)

Parselist(type, es, ts) ==
    CASE ts = <<>>      -> Parsed(Syntax, <<>>)
      [] Peek(ts, {")"}) -> Parsed(Node(type, es), Tail(ts))
      [] OTHER -> LET r == Parsesexp(ts)
                  IN  IF r.cmd = Syntax THEN r ELSE Parselist(type, Append(es, r.cmd), r.rest)

Parsesexp(ts) ==
    CASE ts = <<>>       -> Parsed(None, <<>>)
      [] Peek(ts, {"("})  -> Parselist("APPLY", <<>>, Tail(ts))
      [] Peek(ts, {"'("}) -> Parselist("LIST", <<>>, Tail(ts))
      [] Peek(ts, {")"})  -> Parsed(Atom(""), ts)
      [] OTHER            -> Parsed(Atom(Head(ts)), Tail(ts))

Parseexp(ts) == LET r == Parsesexp(ts) IN IF r.rest # <<>> THEN Syntax ELSE r.cmd

-----------------------------------------------------------------------------
(* Shared memory: the functions, and the arguments of the last call.           *)

NoLisp == [funcs |-> <<>>, xargv |-> [k \in 1..MAXARGS |-> ""]]

\* The characters an atom, or an argument, points to.
Sym(sh, a) == IF a.ref = 0 THEN a.sym ELSE sh.xargv[a.ref]

RECURSIVE ReplaceAtom(_, _, _, _), Storeexp(_, _)

\* Atoms that read o point to xargv[d] from now on.
ReplaceAtom(sh, e, o, d) ==
    CASE e.type = "ATOM" -> IF Sym(sh, e) = o THEN [e EXCEPT !.ref = d] ELSE e
      [] e.type \in {"LIST", "APPLY"} ->
           [e EXCEPT !.sexps = [i \in DOMAIN @ |-> ReplaceAtom(sh, @[i], o, d)]]

\* A copy in shared memory. Nobody sets the end (esymbol) of a stored atom.
Storeexp(sh, e) ==
    CASE e.type = "ATOM" -> [Atom(Sym(sh, e)) EXCEPT !.stored = TRUE]
      [] e.type \in {"LIST", "APPLY"} ->
           [e EXCEPT !.sexps = [i \in DOMAIN @ |-> Storeexp(sh, @[i])]]

\* Part i of an expression; there may be none.
Part(e, i) == IF e.type \in {"LIST", "APPLY"} /\ i \in DOMAIN e.sexps THEN e.sexps[i] ELSE None

\* Where an expression is: in the process, or in the body of function fn.
Own(e)     == [fn |-> 0, path |-> <<>>, exp |-> e]
Body(j)    == [fn |-> j, path |-> <<>>, exp |-> None]
Kid(x, i)  == IF x.fn = 0 THEN Own(Part(x.exp, i)) ELSE [x EXCEPT !.path = Append(@, i)]
At(sh, x)  == IF x.fn = 0 THEN x.exp ELSE FoldLeft(Part, sh.funcs[x.fn].sexp, x.path)

Defunc(sh, e) ==
    [sh EXCEPT !.funcs = Append(@,
       [name |-> Sym(sh, Part(e, 2)), sexp |-> Storeexp(sh, Part(e, 4)),
        argv |-> [k \in DOMAIN Part(e, 3).sexps |-> Sym(sh, Part(e, 3).sexps[k])]])]

\* The first function of that name, or 0.
Lookup(sh, name) ==
    LET S == {j \in DOMAIN sh.funcs : sh.funcs[j].name = name}
    IN  IF S = {} THEN 0 ELSE CHOOSE j \in S : \A k \in S : j <= k

\* A call of function j: the arguments go to xargv one after the other (they may
\* come from there), then the body's atoms are made to point to them. The name
\* of a parameter becomes the argument.
CopyArgs(sh, j, argv) ==
    FoldLeft(LAMBDA s, k : [s EXCEPT !.xargv[k] = Sym(s, argv[k])],
             sh, [k \in 1..Len(sh.funcs[j].argv) + 1 |-> k])

Substitute(sh, j, argv) ==
    FoldLeft(LAMBDA s, k : [s EXCEPT !.funcs[j].sexp = ReplaceAtom(s, @, s.funcs[j].argv[k], k + 1),
                                     !.funcs[j].argv[k] = Sym(s, argv[k + 1])],
             sh, [k \in DOMAIN sh.funcs[j].argv |-> k])

-----------------------------------------------------------------------------
(* runexp(), an instruction at a time.                                         *)

Lisp(step, x, i) == Do([call |-> "lisp", to |-> "r", step |-> step, x |-> x, i |-> i])

\* A child runs an expression.
Sub(x) == Fork1(<<Lisp("runexp", x, 0)>>)

\* fromint() of an atom. It looks for the end of a stored one until it faults.
Digits(w) == CHOOSE k \in 0..9 : ToString(k) = w
Numbers(as, code) ==
    IF \E a \in as : a.stored THEN <<Do(Load(KERNBASE))>> ELSE code

Builtins == {"defun", "if", "equal", "minus", "repeat", "pend", "con", "clk", "pipe"}

\* The expression e at x begins with the name of a builtin. A condition that is
\* not an atom does not read ":true".
Builtin(sh, name, x, e) ==
    LET sym(i) == Digits(Sym(sh, Part(e, i)))
        true   == Part(e, 2).type = "ATOM" /\ Sym(sh, Part(e, 2)) = ":true"
    IN  CASE name = "defun"  -> <<Fork1(<<Lisp("defun", x, 0), Wait, Exit>>), Wait>>
          [] name = "if"     -> <<Sub(Kid(x, IF true THEN 3 ELSE 4)), Wait>>
          [] name = "equal"  ->
               Numbers({Part(e, 2), Part(e, 3)},
                       <<Do(Write("err", <<IF sym(2) = sym(3) THEN ":true" ELSE ":false">>))>>)
          [] name = "minus"  ->
               Numbers({Part(e, 2), Part(e, 3)},
                       <<Do(Write("out", <<ToString(sym(2) - sym(3))>>))>>)
          [] name = "repeat" ->
               Numbers({Part(e, 2)}, Times(sym(2), <<Sub(Kid(x, 3)), Wait>>))
          [] name = "pend"   -> <<Sub(Kid(x, 2)), Wait, Sub(Kid(x, 3)), Wait>>
          [] name = "con"    -> <<Sub(Kid(x, 2)), Sub(Kid(x, 3)), Wait, Wait>>
          [] name = "clk"    -> <<Do(C("attoff")), Sub(Kid(x, 2)), Wait, Do(C("atton")),
                                  Do(Write("out", <<"ticks">>))>>
          [] name = "pipe"   ->
               <<If(C("pipe"), "bad", Panic, <<>>),
                 Fork1(PipeSide("out", "p1") \o <<Lisp("runexp", Kid(x, 3), 0)>>),
                 Fork1(PipeSide("in", "p0") \o <<Lisp("runexp", Kid(x, 2), 0)>>),
                 Do(Close("p0")), Do(Close("p1")), Wait, Wait>>

\* Mutant: the parent does not wait.
CapturedEarly(x) ==
    <<Do(Close("out")), Do(C("memo")), Fork1(<<Lisp("runexp", x, 0), Exit>>),
      Do(Close("out")), Do(OpenTo("r", <<"console">>, RDWR)), Do(C("getmemo")), Wait>>

\* An expression as an argument: its output goes to the memo, and from there
\* into argv. Afterwards the standard output is the console.
Captured(x) ==
    <<Do(Close("out")), Do(C("memo")), Fork1(<<Lisp("runexp", x, 0), Exit>>), Wait,
      Do(Close("out")), Do(OpenTo("r", <<"console">>, RDWR)), Do(C("getmemo"))>>

\* What to do next, the arguments so far, and the shared memory.
Go(code, argv, sh) == [code |-> code, argv |-> argv, sh |-> sh]

\* runexp() up to its loop over the parts. Nothing follows the first of a LIST.
Enterexp(e, x, argv, sh) ==
    CASE e.type = "APPLY" /\ e.sexps # <<>> -> Go(<<Lisp("arg", x, 1)>>, <<>>, sh)
      [] e.type = "LIST" /\ e.sexps # <<>>  -> Go(<<Lisp("runexp", Kid(x, 1), 0)>>, argv, sh)
      [] e.type = "SYNTAX"                  -> Go(Panic, argv, sh)
      [] OTHER                              -> Go(<<Exit>>, argv, sh)

\* Part i becomes argv[i].
Argument(e, x, i, argv, sh) ==
    LET a    == Part(e, i)
        then == <<Lisp("form", x, i)>>
    IN  CASE a.type = "ATOM"  -> Go(then, Append(argv, a), sh)
          [] a.type = "LIST"  -> Go(Panic, argv, sh)
          [] a.type = "APPLY" -> Go(Captured(Kid(x, i)) \o then, argv, sh)

\* After part i: a builtin, the next part, a program, or a function.
Form(e, x, i, argv, sh) ==
    LET name == Sym(sh, argv[1])
        j    == Lookup(sh, name)
    IN  CASE i = 1 /\ name \in Builtins -> Go(Builtin(sh, name, x, e) \o <<Exit>>, argv, sh)
          [] ~(i = 1 /\ name \in Builtins) /\ i < Len(e.sexps) ->
               Go(<<Lisp("arg", x, i + 1)>>, argv, sh)
          [] ~(i = 1 /\ name \in Builtins) /\ i = Len(e.sexps) ->
               IF j = 0 THEN Go(<<Fork1(<<Lisp("exec", x, 0)>>), Wait, Exit>>, argv, sh)
               ELSE Go(<<Lisp("call", x, j)>>, argv, CopyArgs(sh, j, argv))

LispStep(c, argv, sh) ==
    LET e == At(sh, c.x)
    IN  CASE c.step = "main"   -> Go(<<>>, argv, NoLisp)
          [] c.step = "runexp" -> Enterexp(e, c.x, argv, sh)
          [] c.step = "arg"    -> Argument(e, c.x, c.i, argv, sh)
          [] c.step = "form"   -> Form(e, c.x, c.i, argv, sh)
          [] c.step = "call"   -> Go(<<Sub(Body(c.i)), Wait, Exit>>, argv,
                                     Substitute(sh, c.i, argv))
          [] c.step = "exec"   -> Go(<<Do(Exec([k \in DOMAIN argv |-> Sym(sh, argv[k])], FALSE)),
                                       Wait, Exit>>, argv, sh)
          [] c.step = "defun"  -> Go(<<>>, argv, Defunc(sh, e))

\* main() after it has read a line.
Evaluate(line) ==
    IF Len(line) > 1 /\ line[1] = "cd" THEN Interpret(line)
    ELSE <<Sub(Own(Parseexp(line))), Wait>>

ScshMain == <<Lisp("main", Own(None), 0)>> \o SubSeq(ShMain, 1, 1)
            \o <<While(C("getexp"), <<>>), Exit>>

PechoMain(args) == <<Do(Write("out", SubSeq(args, 1, 1)))>>

-----------------------------------------------------------------------------
(* What an expression means, without processes and shared memory: a function   *)
(* on [fn, in, out], the functions, what can be read and what was written. An  *)
(* argument that is an expression is what that writes.                         *)

RECURSIVE Mean(_, _), Put(_, _)

\* The expression with values for the parameters.
Put(e, f) ==
    CASE e.type = "ATOM" -> IF e.sym \in DOMAIN f THEN Atom(f[e.sym]) ELSE e
      [] e.type \in {"LIST", "APPLY"} -> [e EXCEPT !.sexps = [i \in DOMAIN @ |-> Put(@[i], f)]]

Arg(e, st) ==
    IF e.type = "ATOM" THEN [v |-> e.sym, st |-> st]
    ELSE LET r == Mean(e, [st EXCEPT !.out = <<>>])
         IN  [v |-> FoldLeft(LAMBDA s, w : s \o w, "", r.out), st |-> [r EXCEPT !.out = st.out]]

Apply(argv, st) ==
    LET f == st.fn[argv[1]]
        n == Len(f.argv)
    IN  CASE argv[1] \in DOMAIN st.fn ->
               Mean(Put(f.body, [x \in Range(f.argv) |->
                                   argv[1 + CHOOSE k \in 1..n : f.argv[k] = x]]), st)
          [] argv[1] = "echo"  -> [st EXCEPT !.out = @ \o Tail(argv)]
          [] argv[1] = "pecho" -> [st EXCEPT !.out = Append(@, argv[2])]
          [] argv[1] = "cat"   -> [st EXCEPT !.out = @ \o st.in, !.in = <<>>]
          [] OTHER             -> st

Mean(e, st) ==
    LET h      == Arg(Part(e, 1), st)
        num(i) == Digits(Arg(Part(e, i), h.st).v)
        args   == FoldLeft(LAMBDA a, x : LET r == Arg(x, a.st)
                                         IN  [argv |-> Append(a.argv, r.v), st |-> r.st],
                           [argv |-> <<h.v>>, st |-> h.st], Tail(e.sexps))
    IN  CASE e.type # "APPLY" -> st
          [] e.type = "APPLY" /\ h.v = "defun" ->
               [h.st EXCEPT !.fn = (Part(e, 2).sym :>
                   [argv |-> [k \in DOMAIN Part(e, 3).sexps |-> Part(e, 3).sexps[k].sym],
                    body |-> Part(e, 4)]) @@ @]
          [] e.type = "APPLY" /\ h.v = "if" ->
               LET c == Arg(Part(e, 2), h.st) IN Mean(Part(e, IF c.v = ":true" THEN 3 ELSE 4), c.st)
          [] e.type = "APPLY" /\ h.v = "equal" ->
               [h.st EXCEPT !.out = Append(@, IF num(2) = num(3) THEN ":true" ELSE ":false")]
          [] e.type = "APPLY" /\ h.v = "minus" ->
               [h.st EXCEPT !.out = Append(@, ToString(num(2) - num(3)))]
          [] e.type = "APPLY" /\ h.v = "repeat" ->
               FoldLeft(LAMBDA s, k : Mean(Part(e, 3), s), h.st, [k \in 1..num(2) |-> k])
          [] e.type = "APPLY" /\ h.v = "pend" -> Mean(Part(e, 3), Mean(Part(e, 2), h.st))
          [] e.type = "APPLY" /\ h.v = "pipe" ->
               LET w == Mean(Part(e, 3), [h.st EXCEPT !.out = <<>>])
                   r == Mean(Part(e, 2), [w EXCEPT !.in = w.out, !.out = st.out])
               IN  [r EXCEPT !.in = w.in]
          [] OTHER -> Apply(args.argv, args.st)
=============================================================================
