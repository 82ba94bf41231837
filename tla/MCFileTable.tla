---------------------------- MODULE MCFileTable ----------------------------
(* An instance of FileTable for TLC.                                       *)
EXTENDS FileTable
=============================================================================
