------------------------------ MODULE AtomicDisk ------------------------------
(***************************************************************************)
(* What the logging layer promises to the file system (log.c): operations  *)
(* write blocks between begin_op() and end_op(); what they wrote becomes   *)
(* durable all at once, at a moment when no operation is in progress, and  *)
(* a crash takes the disk back to the last such moment.  So a crash never  *)
(* leaves a part of an operation on the disk.                              *)
(***************************************************************************)
CONSTANTS
  Ops,     \* processes that make file system calls
  Blocks,  \* blocks of the file system
  Vals     \* contents of a block

VARIABLES
  durable, \* what a crash would leave
  current, \* what the operations see
  active   \* the operations in progress

vars == <<durable, current, active>>

Init ==
  /\ durable \in [Blocks -> Vals]
  /\ current = durable
  /\ active = {}

Begin(o) ==
  /\ o \notin active
  /\ active' = active \cup {o}
  /\ UNCHANGED <<durable, current>>

Write(o, b, v) ==
  /\ o \in active
  /\ current' = [current EXCEPT ![b] = v]
  /\ UNCHANGED <<durable, active>>

End(o) ==
  /\ o \in active
  /\ active' = active \ {o}
  /\ UNCHANGED <<durable, current>>

Commit ==
  /\ active = {}
  /\ durable' = current
  /\ UNCHANGED <<current, active>>

Crash ==
  /\ current' = durable
  /\ active' = {}
  /\ UNCHANGED durable

Next ==
  \/ \E o \in Ops : Begin(o) \/ End(o)
  \/ \E o \in Ops, b \in Blocks, v \in Vals : Write(o, b, v)
  \/ Commit
  \/ Crash

Spec == Init /\ [][Next]_vars
=============================================================================
