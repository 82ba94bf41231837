----------------------------- MODULE ByteStream -----------------------------
(***************************************************************************)
(* What a pipe promises: the bytes handed to write() come out of read()    *)
(* once each, in the order in which they went in, whatever the size of the *)
(* calls, the blocking in between and the number of readers and writers.   *)
(* There is no memory layout here, no counter and no sleeping: a write     *)
(* moves its bytes into the stream in one or more pieces, or gives up what *)
(* is left of them.                                                        *)
(***************************************************************************)
EXTENDS Integers, Sequences

CONSTANTS Procs,      \* the processes
          Byte,       \* the values of a byte
          Capacity    \* how many bytes the stream holds

VARIABLES stream,     \* the bytes written and not yet read
          todo,       \* per process, what its write() has still to hand over
          got,        \* the bytes the last read() returned
          ropen,      \* the read end is open
          wopen       \* the write end is open

vars == <<stream, todo, got, ropen, wopen>>

Drop(s, k) == SubSeq(s, k + 1, Len(s))

Init == /\ stream = <<>> /\ got = <<>>
        /\ todo = [p \in Procs |-> <<>>]
        /\ ropen = FALSE /\ wopen = FALSE

\* A new stream can only be made when nothing of the old one is left.
Open == /\ ~ropen /\ ~wopen
        /\ ropen' = TRUE /\ wopen' = TRUE
        /\ stream' = <<>>
        /\ UNCHANGED <<todo, got>>

\* A process calls write().
Offer(p) == /\ wopen
            /\ todo[p] = <<>>
            /\ todo'[p] \in Seq(Byte)
            /\ todo' = [todo EXCEPT ![p] = todo'[p]]
            /\ UNCHANGED <<stream, got, ropen, wopen>>

\* The next k bytes of the write go into the stream; the rest of them wait,
\* or are given up when nobody will read them or the writer was killed.
Send(p) ==
  /\ wopen
  /\ \E k \in 0 .. Len(todo[p]):
        /\ Len(stream) + k =< Capacity
        /\ stream' = stream \o SubSeq(todo[p], 1, k)
        /\ todo' \in {[todo EXCEPT ![p] = Drop(todo[p], k)],
                      [todo EXCEPT ![p] = <<>>]}
        /\ todo' # [todo EXCEPT ![p] = Drop(todo[p], k)]
             => Len(stream') = Capacity
  /\ UNCHANGED <<got, ropen, wopen>>

\* read() takes bytes from the front.
Receive == /\ ropen
           /\ \E k \in 0 .. Len(stream): /\ got' = SubSeq(stream, 1, k)
                                         /\ stream' = Drop(stream, k)
           /\ UNCHANGED <<todo, ropen, wopen>>

\* What nobody has read when both ends are closed is lost.
CloseRead == /\ ropen /\ ropen' = FALSE
             /\ stream' = IF wopen THEN stream ELSE <<>>
             /\ UNCHANGED <<todo, got, wopen>>

CloseWrite == /\ wopen /\ wopen' = FALSE
              /\ stream' = IF ropen THEN stream ELSE <<>>
              /\ UNCHANGED <<todo, got, ropen>>

Next == \/ Open \/ Receive \/ CloseRead \/ CloseWrite
        \/ \E p \in Procs: Offer(p) \/ Send(p)

Spec == Init /\ [][Next]_vars
=============================================================================
