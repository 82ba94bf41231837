----------------------------- MODULE MCFileData -----------------------------
(* Two processes and two files on two inodes, on a disk too small for both.  *)
EXTENDS FileData, TLC

\* Processes, inodes and files are interchangeable.
Symmetry == Permutations(Procs) \union Permutations(Inodes) \union Permutations(Files)
=============================================================================
