----------------------------- MODULE MCPrograms -----------------------------
EXTENDS Programs

\* The first tests leave files behind in many orders: they do not run before others.
Alone == {2, 3, 4, 5}
Usertests(T) == [lines |-> <<<<"usertests">>>>, tests |-> T, kind |-> "tests", npage |-> NPAGE]
Typed(kind, lines) == [lines |-> lines, tests |-> {}, kind |-> kind, npage |-> NPAGE]
Scsh(exps) == <<<<"scsh">>>> \o exps \o <<<<"EOF">>>>

\* Lines whose meaning does not depend on the order of processes ...
Plain ==
    {<<<<"echo", "a", "b", "|", "cat", "|", "cat", ">", "f">>, <<"cat", "f">>>>,
     <<<<"echo", "a", "b", "c", ">", "f", ";", "echo", "d", ">>", "f">>, <<"cat", "f">>>>,
     <<<<"(", "echo", "a", ";", "echo", "b", ")", ">", "f">>,
       <<"cat", "<", "f", "|", "cat">>, <<"rm", "f", "g">>>>,
     <<<<"echo", "a", ">", "f", ">", "g">>, <<"cat", "g", "f", "h", "README">>>>,
     <<<<"cat", "README", "|", "(", "cat", ";", "cat", ")">>, <<"nosuch", "|", "cat">>,
       <<"cat", "<", "nosuch">>>>,
     <<<<"echo", "a", "b", "c", "|", "nosuch">>, <<"(", "echo", "a">>,
       <<"echo", "a", "b", "c", "d", "e">>>>}

\* ... and others.
Other ==
    {<<<<"echo", "a", "&", ";", "cat", "README">>, <<"echo", "b">>>>,
     <<<<"mkdir", "d", "d">>, <<"cd", "d">>, <<"echo", "x", ">", "f">>, <<"cd", "d">>, <<"cd", "..">>>>,
     <<<<"ln", "README", "r">>, <<"rm", "README">>, <<"cat", "r">>>>,
     <<<<"kill", "2">>, <<"echo", "a">>>>, <<<<"kill", "3">>, <<"EOF">>, <<"echo", "a">>>>,
     <<<<"zombie">>>>, <<<<"stressfs">>>>, <<<<"forktest">>>>}

\* Expressions that scsh evaluates as they are meant ...
Exps ==
    {<<<<"(", "defun", "f", "'(", "x", "y", ")", "(", "echo", "x", "running", "y", "result",
         "(", "x", "y", ")", ")", ")">>, <<"(", "f", "pecho", "a", ")">>,
       <<"(", "f", "echo", "b", ")">>>>,
     <<<<"(", "defun", "g", "'(", "c", "w", ")", "(", "if", "c", "(", "echo", "w", ")",
         "(", "echo", "n", "w", ")", ")", ")">>,
       <<"(", "g", ":true", "(", "pecho", "u", ")", ")">>, <<"(", "g", "no", "v", ")">>,
       <<"(", "pipe", "(", "cat", ")", "(", "echo", "p", "q", "r", ")", ")">>>>,
     <<<<"(", "(", "pecho", "echo", ")", "(", "pend", "(", "pecho", "a", ")", "(", "pecho", "b", ")",
         ")", ")">>, <<"(", "repeat", "2", "(", "minus", "3", "5", ")", ")">>,
       <<"(", "equal", "1", "1", ")">>, <<"(", "nosuch", "a", ")">>>>}

\* ... and others: order, a condition that is not an atom, numbers in a body, a
\* call within a call, a value within a value, and errors.
OtherExps ==
    {<<<<"(", "con", "(", "echo", "a", ")", "(", "clk", "(", "echo", "b", ")", ")", ")">>>>,
     <<<<"(", "if", "(", "equal", "1", "1", ")", "(", "echo", "a", ")", "(", "echo", "b", ")", ")">>,
       <<"(", "echo", "'(", "a", ")", ")">>, <<"(", "echo">>, <<"'(", "(", "echo", "a", ")", "a", ")">>,
       <<"cd", "..">>, <<"a">>>>,
     <<<<"(", "defun", "m", "'(", "x", ")", "(", "minus", "x", "1", ")", ")">>, <<"(", "m", "2", ")">>>>,
     <<<<"(", "defun", "h", "'(", "x", ")", "(", "echo", "x", ")", ")">>,
       <<"(", "defun", "k", "'(", "x", ")", "(", "con", "(", "h", "2", ")", "(", "echo", "x", ")", ")", ")">>,
       <<"(", "k", "1", ")">>>>,
     <<<<"(", "echo", "(", "pecho", "(", "pecho", "a", ")", ")", ")">>>>}

\* A pipeline with so little memory that a fork, an exec or the pipe fails at each of
\* the pages it asks for; the least is what init and the shell need.
Tight == {[Typed("other", <<<<"echo", "a", "|", "cat">>, <<"echo", "b">>>>)
             EXCEPT !.npage = n] : n \in 20..42}

MCSessions == {Usertests({k}) : k \in Alone} \cup {Usertests(DOMAIN Tests \ Alone)}
              \cup {Typed("plain", l) : l \in Plain} \cup {Typed("other", l) : l \in Other}
              \cup {Typed("lisp", Scsh(l)) : l \in Exps}
              \cup {Typed("other", Scsh(l)) : l \in OtherExps} \cup Tight
=============================================================================
