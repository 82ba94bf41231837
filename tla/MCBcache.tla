------------------------------ MODULE MCBcache ------------------------------
(* An instance of Bcache for TLC: fewer buffers than blocks.               *)
EXTENDS Bcache
=============================================================================
