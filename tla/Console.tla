------------------------------ MODULE Console ------------------------------
(* The console of src/xv6-l/console.c: the ring of typed characters between    *)
(* the keyboard interrupt and the readers, and the windows that splitw()       *)
(* switches between. Steps are what cons.lock makes atomic; splitw() takes no  *)
(* lock. Of a screen the model keeps how many cells are filled.                *)
(* splitw() does not check its argument. With the number of a window that does *)
(* not exist it looks at memory beside crtflags; when that reads as a window   *)
(* in use, it goes on with memory beside crtbufs, and the model ends there.    *)
EXTENDS Integers, Sequences, FiniteSetsExt, SequencesExt

CONSTANTS
    Procs,       \* processes that use the console
    INPUT_BUF,   \* size of the ring
    UINT,        \* values of an unsigned int: a multiple of INPUT_BUF
    MAXWINDOWS,
    Sizes,       \* how much a read() asks for
    Budgets      \* bounds on what happens: keys, reads, writes, splits, atts

ASSUME ConsoleAssumption ==
    /\ INPUT_BUF \in Nat /\ UINT \in Nat /\ MAXWINDOWS \in Nat
    /\ INPUT_BUF > 1 /\ UINT > INPUT_BUF /\ UINT % INPUT_BUF = 0
    /\ MAXWINDOWS > 0 /\ Sizes \subseteq Nat \ {0}

VARIABLES
    input,    \* the ring: buf, r, w, e
    reader,   \* what a process does in consoleread(): n left of target; "empty"
              \* has cons.lock and is about to sleep, a reader that kill() took
              \* out of its sleep is "lost"
    killed,
    crt,      \* the screen: filled cells, cursor position, consflag
    win,      \* per window: in use (crtflags), saved screen (crtbufs, poss)
    curidx,
    split,    \* where a process is in splitw(), and for which window
    left,     \* how much may still happen
    written,  \* history: characters that went to each window ...
    overlap   \* ... and whether splitw() ran into another user of the screen

vars == <<input, reader, killed, crt, win, curidx, split, left, written, overlap>>

Keys    == {"a", "nl", "^D"}
Windows == 0..MAXWINDOWS - 1
Args    == Windows \cup {-1, MAXWINDOWS}   \* of splitw(): MAXWINDOWS and beyond
NoRead  == [at |-> "out", n |-> 0, target |-> 0]
NoSplit == [at |-> "out", to |-> 0]

Init ==
    /\ input = [buf |-> [i \in 0..INPUT_BUF - 1 |-> "a"], r |-> 0, w |-> 0, e |-> 0]
    /\ reader = [p \in Procs |-> NoRead]
    /\ killed = [p \in Procs |-> FALSE]
    /\ crt = [cells |-> 0, pos |-> 0, consflag |-> FALSE]
    /\ win = [i \in Windows |-> [used |-> i = 0, cells |-> 0, pos |-> 0]]
    /\ curidx = 0
    /\ split = [p \in Procs |-> NoSplit]
    /\ left \in Budgets
    /\ written = [i \in Windows |-> 0]
    /\ overlap = FALSE

Plus(x, d) == (x + d) % UINT
Slot(x)    == x % INPUT_BUF

\* The characters from index i up to index j.
Ring(i, j) == [k \in 1..(j - i) % UINT |-> input.buf[Slot(Plus(i, k - 1))]]

-----------------------------------------------------------------------------
(* Output.                                                                     *)

\* Nobody holds cons.lock.
Unlocked == \A p \in Procs : reader[p].at # "empty"

\* cgaputc() of a character, d = 1, or of d BACKSPACEs, d < 0.
Cgaputc(d) ==
    LET pos == Max({crt.pos + d, 0})
    IN  crt' = [crt EXCEPT !.pos = pos,
                  !.cells = IF d > 0 THEN Max({@, pos}) ELSE IF @ = crt.pos THEN pos ELSE @]

\* Nothing if att() turned the console off.
Consputc(d) ==
    IF crt.consflag THEN UNCHANGED <<crt, written, overlap>>
    ELSE /\ Cgaputc(d)
         /\ written' = [written EXCEPT ![curidx] = Max({@ + d, 0})]
         /\ overlap' = (overlap \/ \E p \in Procs : split[p].at # "out")

Consolewrite(p) ==
    /\ left.writes > 0 /\ split[p].at = "out" /\ reader[p].at = "out" /\ Unlocked
    /\ left' = [left EXCEPT !.writes = @ - 1]
    /\ Consputc(1)
    /\ UNCHANGED <<input, reader, killed, win, curidx, split>>

\* sys_att() sets the flag on both CPUs.
Att(flag) ==
    /\ left.atts > 0 /\ crt.consflag # flag
    /\ left' = [left EXCEPT !.atts = @ - 1]
    /\ crt' = [crt EXCEPT !.consflag = flag]
    /\ UNCHANGED <<input, reader, killed, win, curidx, split, written, overlap>>

\* Mutant: the cursor is not saved.
SplitSaveCells(p, n) ==
    LET free == {i \in Windows : ~win[i].used}
    IN  /\ left.splits > 0 /\ split[p].at = "out" /\ reader[p].at = "out"
        /\ left' = [left EXCEPT !.splits = @ - 1]
        /\ \/ /\ n = -1 /\ free # {}
              /\ split' = [split EXCEPT ![p] = [at |-> "new", to |-> Min(free)]]
           \/ /\ n \in Windows /\ win[n].used
              /\ split' = [split EXCEPT ![p] = [at |-> "switch", to |-> n]]
           \/ /\ n \notin Windows /\ n # -1
              /\ split' = [split EXCEPT ![p] = [at |-> "astray", to |-> 0]]
        /\ win' = [win EXCEPT ![curidx].cells = crt.cells]
        /\ overlap' = (overlap \/ \E q \in Procs : split[q].at # "out")
        /\ UNCHANGED <<input, reader, killed, crt, curidx, written>>

\* splitw(), first half: the screen of this window is saved. With n = -1 the
\* first free window is taken.
SplitSave(p, n) ==
    LET free == {i \in Windows : ~win[i].used}
    IN  /\ left.splits > 0 /\ split[p].at = "out" /\ reader[p].at = "out"
        /\ left' = [left EXCEPT !.splits = @ - 1]
        /\ \/ /\ n = -1 /\ free # {}
              /\ split' = [split EXCEPT ![p] = [at |-> "new", to |-> Min(free)]]
           \/ /\ n \in Windows /\ win[n].used
              /\ split' = [split EXCEPT ![p] = [at |-> "switch", to |-> n]]
           \/ /\ n \notin Windows /\ n # -1
              /\ split' = [split EXCEPT ![p] = [at |-> "astray", to |-> 0]]
        /\ win' = [win EXCEPT ![curidx].cells = crt.cells, ![curidx].pos = crt.pos]
        /\ overlap' = (overlap \/ \E q \in Procs : split[q].at # "out")
        /\ UNCHANGED <<input, reader, killed, crt, curidx, written>>

\* Second half: the other window is shown.
SplitShow(p) ==
    LET i == split[p].to
    IN  /\ split[p].at \in {"new", "switch"}
        /\ curidx' = i
        /\ IF split[p].at = "new"
           THEN /\ crt' = [crt EXCEPT !.cells = 0, !.pos = 0]
                /\ win' = [win EXCEPT ![i].used = TRUE]
           ELSE /\ crt' = [crt EXCEPT !.cells = win[i].cells, !.pos = win[i].pos]
                /\ UNCHANGED win
        /\ split' = [split EXCEPT ![p] = NoSplit]
        /\ UNCHANGED <<input, reader, killed, left, written, overlap>>

-----------------------------------------------------------------------------
(* Input.                                                                      *)

\* Mutant: only one of the sleepers is woken.
WakeupOne(rd) ==
    LET S == {p \in Procs : rd[p].at = "asleep"}
    IN  IF S = {} THEN rd ELSE [rd EXCEPT ![CHOOSE p \in S : TRUE].at = "run"]

Wakeup(rd) == [p \in Procs |-> IF rd[p].at = "asleep" THEN [rd[p] EXCEPT !.at = "run"] ELSE rd[p]]

\* Mutant: the ring takes one character too many.
KeyFull(c) ==
    LET e == Plus(input.e, 1)
    IN  /\ left.keys > 0 /\ Unlocked
        /\ left' = [left EXCEPT !.keys = @ - 1]
        /\ (input.e - input.r) % UINT <= INPUT_BUF
        /\ IF c \in {"nl", "^D"} \/ e = Plus(input.r, INPUT_BUF)
           THEN /\ input' = [input EXCEPT !.buf[Slot(input.e)] = c, !.e = e, !.w = e]
                /\ reader' = Wakeup(reader)
           ELSE /\ input' = [input EXCEPT !.buf[Slot(input.e)] = c, !.e = e]
                /\ UNCHANGED reader
        /\ Consputc(1)
        /\ UNCHANGED <<killed, win, curidx, split>>

\* consoleintr(), default case
Key(c) ==
    LET e == Plus(input.e, 1)
    IN  /\ left.keys > 0 /\ Unlocked
        /\ left' = [left EXCEPT !.keys = @ - 1]
        /\ (input.e - input.r) % UINT < INPUT_BUF
        /\ IF c \in {"nl", "^D"} \/ e = Plus(input.r, INPUT_BUF)
           THEN /\ input' = [input EXCEPT !.buf[Slot(input.e)] = c, !.e = e, !.w = e]
                /\ reader' = Wakeup(reader)
           ELSE /\ input' = [input EXCEPT !.buf[Slot(input.e)] = c, !.e = e]
                /\ UNCHANGED reader
        /\ Consputc(1)
        /\ UNCHANGED <<killed, win, curidx, split>>

\* C('H')
Backspace ==
    /\ left.keys > 0 /\ Unlocked
    /\ left' = [left EXCEPT !.keys = @ - 1]
    /\ input.e # input.w
    /\ input' = [input EXCEPT !.e = Plus(@, -1)]
    /\ Consputc(-1)
    /\ UNCHANGED <<reader, killed, win, curidx, split>>

\* C('U'): back to the start of the line.
KillLine ==
    LET line  == Ring(input.w, input.e)
        from  == Max({0} \cup {k \in DOMAIN line : line[k] = "nl"})
        width == Len(line) - from
    IN  /\ left.keys > 0 /\ Unlocked
        /\ left' = [left EXCEPT !.keys = @ - 1]
        /\ width > 0
        /\ input' = [input EXCEPT !.e = Plus(@, -width)]
        /\ Consputc(-width)
        /\ UNCHANGED <<reader, killed, win, curidx, split>>

Consoleread(p, n) ==
    /\ left.reads > 0 /\ reader[p].at = "out" /\ split[p].at = "out" /\ ~killed[p]
    /\ left' = [left EXCEPT !.reads = @ - 1]
    /\ reader' = [reader EXCEPT ![p] = [at |-> "run", n |-> n, target |-> n]]
    /\ UNCHANGED <<input, killed, crt, win, curidx, split, written, overlap>>

\* The loop of consoleread() until it returns or is to sleep: k characters.
ReadLoop(p) ==
    LET rd   == reader[p]
        line == Ring(input.r, input.w)
        ends == {k \in DOMAIN line : line[k] \in {"nl", "^D"} \/ k = rd.n}
        k    == IF ends = {} THEN Len(line) ELSE Min(ends)
        back == k > 0 /\ line[k] = "^D" /\ (k > 1 \/ rd.n < rd.target)   \* ^D for next time
    IN  /\ rd.at = "run" /\ Unlocked
        /\ input' = [input EXCEPT !.r = Plus(@, IF back THEN k - 1 ELSE k)]
        /\ reader' = [reader EXCEPT ![p] =
             IF ends # {} \/ killed[p] THEN NoRead
             ELSE [rd EXCEPT !.at = "empty", !.n = @ - k]]
        /\ UNCHANGED <<killed, crt, win, curidx, split, left, written, overlap>>

\* sleep() gives cons.lock up, whether or not p was killed meanwhile.
Sleep(p) ==
    /\ reader[p].at = "empty"
    /\ reader' = [reader EXCEPT ![p].at = "asleep"]
    /\ UNCHANGED <<input, killed, crt, win, curidx, split, left, written, overlap>>

\* kill() makes a sleeper RUNNABLE without queueing it: it does not run again.
Kill(p) ==
    /\ \/ reader[p].at = "asleep"
       \/ ~killed[p] /\ reader[p].at \in {"run", "empty"}
    /\ killed' = [killed EXCEPT ![p] = TRUE]
    /\ reader' = [reader EXCEPT ![p].at = IF @ = "asleep" THEN "lost" ELSE @]
    /\ UNCHANGED <<input, crt, win, curidx, split, left, written, overlap>>

-----------------------------------------------------------------------------

Astray == \E p \in Procs : split[p].at = "astray"

Kernel(p) == ReadLoop(p) \/ Sleep(p) \/ SplitShow(p)

Step ==
    \/ \E c \in Keys : Key(c)
    \/ Backspace \/ KillLine
    \/ \E flag \in BOOLEAN : Att(flag)
    \/ \E p \in Procs :
         \/ Consolewrite(p) \/ Kernel(p) \/ Kill(p)
         \/ \E n \in Args : SplitSave(p, n)
         \/ \E n \in Sizes : Consoleread(p, n)

Next == ~Astray /\ Step

\* As long as some process can go on in the console some process does; which one
\* is left to scheduler().
Fairness == WF_vars(~Astray /\ \E p \in Procs : Kernel(p))

Spec == Init /\ [][Next]_vars /\ Fairness

-----------------------------------------------------------------------------
\* Through the ring, with counters that wrap, readers get what LineDiscipline
\* promises: no character lost, doubled, overwritten or out of order.
Lines == INSTANCE LineDiscipline WITH
           Size <- INPUT_BUF, ready <- Ring(input.r, input.w), edit <- Ring(input.w, input.e)

ImplementsLines == Lines!Spec

\* A line that is finished while processes wait in consoleread() is read by one
\* of them: the wakeup of consoleintr() is not lost, also when they wait for more
\* than a line, or for what another one takes. Budgets leave the keys and the calls
\* finite: with no end of them scheduler() may never run the reader.
LinesAreRead ==
    LET waiting == \E p \in Procs : reader[p].at \in {"asleep", "empty", "run"}
    IN  (waiting /\ input.r # input.w) ~> (~waiting \/ input.r = input.w \/ Astray)

\* splitw() keeps what was written to each window and where its cursor was, unless
\* somebody else used the screen meanwhile (splitw() does not take cons.lock).
WindowsKept ==
    ~overlap =>
      /\ \A i \in Windows \ {curidx} :
           win[i].used => win[i].cells = written[i] /\ win[i].pos = written[i]
      /\ crt.cells = written[curidx] /\ crt.pos = written[curidx]
=============================================================================
