------------------------------- MODULE Shell -------------------------------
(* The shell of src/xv6-o/sh.c: its parser, on tokens, and runcmd() as the     *)
(* script that each process of a command line runs.                            *)
EXTENDS Params, Script

Symbols == {"<", ">", ">>", "|", "&", ";", "(", ")"}
Syntax  == [type |-> "SYNTAX"]       \* panic() in the parser

-----------------------------------------------------------------------------
(* Constructors; a syntax error in a part is one in the whole.                 *)

Execcmd(argv) == [type |-> "EXEC", argv |-> argv]

Redircmd(cmd, r) ==
    IF cmd = Syntax \/ r.file = "" THEN Syntax
    ELSE [type |-> "REDIR", cmd |-> cmd, file |-> r.file, mode |-> r.mode, fd |-> r.fd]

Both(type, l, r) ==
    IF l = Syntax \/ r = Syntax THEN Syntax ELSE [type |-> type, left |-> l, right |-> r]

Pipecmd(l, r) == Both("PIPE", l, r)
Listcmd(l, r) == Both("LIST", l, r)
Backcmd(c)    == IF c = Syntax THEN Syntax ELSE [type |-> "BACK", cmd |-> c]

-----------------------------------------------------------------------------
(* The parser: what it parsed and the tokens that are left.                    *)

Peek(ts, S)  == ts # <<>> /\ Head(ts) \in S
Gettoken(ts) == IF ts = <<>> THEN <<>> ELSE Tail(ts)
Parsed(cmd, ts) == [cmd |-> cmd, rest |-> ts]

RECURSIVE Redirs(_, _), Backs(_, _), Parseline(_), Parsepipe(_), Parseargs(_, _, _)

\* The redirection at the head of ts: its file (none: ""), mode and descriptor.
Redir(ts) ==
    [file |-> IF Len(ts) > 1 /\ ts[2] \notin Symbols THEN ts[2] ELSE "",
     mode |-> IF Head(ts) = "<" THEN RDONLY ELSE WRONLY \cup CREATE,
     fd   |-> IF Head(ts) = "<" THEN "in" ELSE "out"]

Parseredirs(cmd, ts) == Redirs(cmd, ts)
Redirs(cmd, ts) ==
    IF Peek(ts, {"<", ">", ">>"})
    THEN Redirs(Redircmd(cmd, Redir(ts)), Gettoken(Gettoken(ts)))
    ELSE Parsed(cmd, ts)

Parseblock(ts) ==
    LET r == Parseline(Gettoken(ts))
    IN  IF Peek(r.rest, {")"}) THEN Parseredirs(r.cmd, Gettoken(r.rest))
                               ELSE Parsed(Syntax, <<>>)

\* The loop of parseexec(). Arguments go to the EXEC node, redirections around it.
Parseargs(argv, redirs, ts) ==
    CASE Peek(ts, {"<", ">", ">>"}) ->
           Parseargs(argv, Append(redirs, Redir(ts)), Gettoken(Gettoken(ts)))
      [] ts = <<>> \/ Peek(ts, {"|", ")", "&", ";"}) ->
           Parsed(FoldLeft(Redircmd, Execcmd(argv), redirs), ts)
      [] Peek(ts, {"("}) \/ Len(argv) + 1 >= MAXARGS -> Parsed(Syntax, <<>>)
      [] OTHER -> Parseargs(Append(argv, Head(ts)), redirs, Gettoken(ts))

Parseexec(ts) == IF Peek(ts, {"("}) THEN Parseblock(ts) ELSE Parseargs(<<>>, <<>>, ts)

Parsepipe(ts) ==
    LET l == Parseexec(ts)
    IN  IF Peek(l.rest, {"|"})
        THEN LET r == Parsepipe(Gettoken(l.rest)) IN Parsed(Pipecmd(l.cmd, r.cmd), r.rest)
        ELSE l

Backs(cmd, ts) == IF Peek(ts, {"&"}) THEN Backs(Backcmd(cmd), Gettoken(ts)) ELSE Parsed(cmd, ts)

Parseline(ts) ==
    LET l == Parsepipe(ts)
        b == Backs(l.cmd, l.rest)
    IN  IF Peek(b.rest, {";"})
        THEN LET r == Parseline(Gettoken(b.rest)) IN Parsed(Listcmd(b.cmd, r.cmd), r.rest)
        ELSE b

Parsecmd(ts) == LET r == Parseline(ts) IN IF r.rest # <<>> THEN Syntax ELSE r.cmd

-----------------------------------------------------------------------------
(* Running a command.                                                          *)

Panic        == <<Say("err"), Exit>>
Fork1(child) == If(Fork("pid", child), "bad", Panic, <<>>)

\* One side of a pipe: its end takes the place of a standard descriptor.
PipeSide(std, end) == <<Do(Close(std)), Do(Dup(end)), Do(Close("p0")), Do(Close("p1"))>>

RECURSIVE Runcmd(_)

RunPipe(l, r) ==
    <<If(C("pipe"), "bad", Panic, <<>>),
      Fork1(PipeSide("out", "p1") \o l),
      Fork1(PipeSide("in", "p0") \o r),
      Do(Close("p0")), Do(Close("p1")), Wait, Wait, Exit>>

\* Mutant: the file is opened before the descriptor it is to have is free.
RunRedirLate(c, inner) ==
    <<If(OpenTo("r", <<c.file>>, c.mode), "bad", Panic, <<Do(Close(c.fd))>> \o inner)>>

RunRedir(c, inner) ==
    <<Do(Close(c.fd)), If(OpenTo("r", <<c.file>>, c.mode), "bad", Panic, inner)>>

Runcmd(c) ==
    CASE c.type = "SYNTAX" -> Panic
      [] c.type = "EXEC"   -> IF c.argv = <<>> THEN <<Exit>>
                              ELSE <<Do(Exec(c.argv, FALSE)), Say("err"), Exit>>
      [] c.type = "REDIR"  -> RunRedir(c, Runcmd(c.cmd))
      [] c.type = "LIST"   -> <<Fork1(Runcmd(c.left)), Wait>> \o Runcmd(c.right)
      [] c.type = "PIPE"   -> RunPipe(Runcmd(c.left), Runcmd(c.right))
      [] c.type = "BACK"   -> <<Fork1(Runcmd(c.cmd)), Exit>>

\* main() after it has read a line. Only the shell itself can change directory.
Interpret(line) ==
    IF Len(line) > 1 /\ line[1] = "cd" THEN <<If(Chdir(Tail(line)), "bad", <<Say("err")>>, <<>>)>>
    ELSE <<Fork1(Runcmd(Parsecmd(line))), Wait>>

\* main(): three descriptors are open, then line after line.
ShMain == <<Instr(OpenTo("fd", <<"console">>, RDWR), "std", 0,
                  <<>>, <<Do(Close("fd"))>>, TRUE),
            While(C("getcmd"), <<>>), Exit>>
=============================================================================
