---------------------------- MODULE MCSharedMem ----------------------------
(* Instances of SharedMem for TLC.                                         *)
EXTENDS SharedMem, TLC

Symmetric == Permutations(Pages)

\* Bound: no step is taken after the events HoldersShare excludes, but that
\* processes go on to release a key which found no memory.
Undisturbed == /\ ~raced
               /\ failed => \A p \in Slots: pc[p] \in {"user", "record", "deshare"}
=============================================================================
