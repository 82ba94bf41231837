-------------------------------- MODULE MCLog --------------------------------
(* Instances of Log for TLC.                                               *)
EXTENDS Log

Two == {"p1", "p2"}
=============================================================================
