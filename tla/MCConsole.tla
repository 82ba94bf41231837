------------------------------ MODULE MCConsole ------------------------------
(* Instances of Console: much typing and reading, or much switching.            *)
EXTENDS Console

Typing    == [keys |-> 6, reads |-> 4, writes |-> 0, splits |-> 0, atts |-> 0]
Switching == [keys |-> 2, reads |-> 0, writes |-> 2, splits |-> 3, atts |-> 1]
MCBudgets == {Typing, Switching}
=============================================================================
