------------------------------- MODULE MCProc -------------------------------
(* Instances of Proc for TLC.                                              *)
EXTENDS Proc

OneCpu  == {101}
TwoCpus == {101, 102}
Boot    == 101

\* Programs that only create and reap processes, and those that also signal.
Families == {"fork", "exit", "wait"}
Signals  == {"fork", "exit", "wait", "kill", "sleep", "fault"}
=============================================================================
