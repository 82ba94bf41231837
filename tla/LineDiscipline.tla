--------------------------- MODULE LineDiscipline ---------------------------
(* What the console promises its readers: characters are edited in a line, and *)
(* lines that are finished can be read, in order, each character once.         *)
EXTENDS Integers, Sequences, SequencesExt

CONSTANTS Keys, Size

VARIABLES ready, edit     \* what can be read; the line that is being typed

Init == ready = <<>> /\ edit = <<>>

Erase == ready' = ready /\ edit # <<>> /\ (edit' = Front(edit) \/ edit' = <<>>)

Type(c) ==
    LET line == Append(edit, c)
    IN  /\ Len(ready) + Len(edit) < Size
        /\ IF c \in {"nl", "^D"} \/ Len(ready) + Len(line) = Size
           THEN ready' = ready \o line /\ edit' = <<>>
           ELSE ready' = ready /\ edit' = line

\* A reader takes up to the end of a line, or leaves a ^D for the next.
Take(k) == /\ \A j \in 1..k - 1 : ready[j] \notin {"nl", "^D"}
           /\ ready' = SubSeq(ready, k + 1, Len(ready))
           /\ edit' = edit

Next == Erase \/ (\E c \in Keys : Type(c)) \/ \E k \in 1..Len(ready) : Take(k)

Spec == Init /\ [][Next]_<<ready, edit>>
=============================================================================
