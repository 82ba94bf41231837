------------------------------- MODULE MCPipe -------------------------------
(* An instance of Pipe for TLC: a ring of two bytes whose counters wrap    *)
(* after two turns, and writes shorter and longer than it.                 *)
EXTENDS Pipe

MCStrings == {<<>>, <<1>>, <<0, 1, 1>>}
=============================================================================
