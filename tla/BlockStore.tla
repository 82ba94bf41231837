----------------------------- MODULE BlockStore -----------------------------
(***************************************************************************)
(* What the buffer cache promises to the file system: every block has one  *)
(* content, a process that has been given the block is alone with it, and  *)
(* nothing but its own writes changes it.  No buffers, no recycling, no    *)
(* disk queue.                                                             *)
(***************************************************************************)
CONSTANTS Procs, Blocks, Val, None

VARIABLES content,    \* the content of each block
          user        \* the process a block was given to, or None

vars == <<content, user>>

Init == /\ content \in [Blocks -> Val]
        /\ user = [b \in Blocks |-> None]

\* bread() returns block b to p.
Give(p, b) == /\ user[b] = None
              /\ user' = [user EXCEPT ![b] = p]
              /\ UNCHANGED content

\* p changes the block it has.
Change(p, b) == /\ user[b] = p
                /\ content'[b] \in Val
                /\ content' = [content EXCEPT ![b] = content'[b]]
                /\ UNCHANGED user

\* brelse().
Release(p, b) == /\ user[b] = p
                 /\ user' = [user EXCEPT ![b] = None]
                 /\ UNCHANGED content

Next == \E p \in Procs, b \in Blocks: Give(p, b) \/ Change(p, b) \/ Release(p, b)

Spec == Init /\ [][Next]_vars
=============================================================================
