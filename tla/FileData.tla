------------------------------ MODULE FileData ------------------------------
(***************************************************************************)
(* The contents of files (fs.c): the free-block bitmap with balloc() and   *)
(* bfree(), the direct and indirect block addresses of an inode with       *)
(* bmap(), readi() and writei(), and itrunc(); used by fileread() and      *)
(* filewrite() of file.c, which writes in chunks, one transaction each.    *)
(*                                                                         *)
(* The inode lock is held from ilock() to iunlock(), so inodes interleave  *)
(* block by block: a step is one iteration of the loop of writei() or of   *)
(* itrunc().  Within one, balloc() holds the bitmap's buffer, and the new  *)
(* block is known to nobody else.  Written blocks are kept as the set the  *)
(* transaction hands to the log.                                           *)
(***************************************************************************)
EXTENDS Integers, Sequences, FiniteSets, FiniteSetsExt

CONSTANTS Procs, Inodes, Files,
          NBLOCKS,              \* data blocks of the disk
          BSIZE,                \* cells of a block, each a byte or a block address
          NDIRECT, NINDIRECT,   \* block addresses in the inode and in its indirect block
          MAXOPBLOCKS,          \* blocks an operation may write
          Lengths,              \* bound: lengths of read() and write()
          MaxCalls,             \* bound: calls that write or truncate
          None

ASSUME DataConstants ==
  /\ NBLOCKS \in Nat /\ BSIZE \in Nat \ {0} /\ NDIRECT \in Nat
  /\ NINDIRECT \in 1 .. BSIZE
  /\ MAXOPBLOCKS \in Nat /\ MaxCalls \in Nat /\ Lengths \subseteq Nat

Blocks    == 1 .. NBLOCKS
MAXFILE   == NDIRECT + NINDIRECT
ZeroBlock == [k \in 0 .. BSIZE - 1 |-> 0]
BITMAP    == 0        \* the block of the bitmap, which no file holds

VARIABLES bitmap,        \* the blocks marked in use
          data,          \* data[b]: what block b holds
          addrs, size,   \* the inode: addrs[i][NDIRECT] is the indirect block
          lock,          \* the process that holds the lock of an inode
          ip, off,       \* struct file: the inode and the offset
          pc, f,         \* where a process is, and the file it is writing to
          rest, val,     \* bytes filewrite() has still to write, and their value
          n1, tot,       \* bytes of this chunk, and of them written
          node, cursor,  \* the inode being truncated, and the next address to free
          written,       \* blocks the transaction of a process has written
          file,          \* history: the bytes an array would hold
          calls,         \* how many calls were made, for the bound
          panicked       \* the panic() that stopped the machine

inode == <<addrs, size>>
open  == <<ip, off>>
call  == <<f, rest, val, n1, tot>>
trunc == <<node, cursor>>
vars  == <<bitmap, data, addrs, size, lock, ip, off, pc, f, rest, val, n1,
           tot, node, cursor, written, file, calls, panicked>>

Init == /\ bitmap = {} /\ data = [b \in Blocks |-> ZeroBlock]
        /\ addrs = [i \in Inodes |-> [k \in 0 .. NDIRECT |-> 0]]
        /\ size = [i \in Inodes |-> 0] /\ lock = [i \in Inodes |-> None]
        /\ ip = [x \in Files |-> None] /\ off = [x \in Files |-> 0]
        /\ pc = [p \in Procs |-> "user"] /\ f = [p \in Procs |-> None]
        /\ rest = [p \in Procs |-> 0] /\ val = [p \in Procs |-> 0]
        /\ n1 = [p \in Procs |-> 0] /\ tot = [p \in Procs |-> 0]
        /\ node = [p \in Procs |-> None] /\ cursor = [p \in Procs |-> 0]
        /\ written = [p \in Procs |-> {}]
        /\ file = [i \in Inodes |-> <<>>]
        /\ calls = 0 /\ panicked = None

At(p, place) == panicked = None /\ pc[p] = place
Goto(p, place) == pc' = [pc EXCEPT ![p] = place]

Free == Blocks \ bitmap

\* The inode that the file of p's call is open on.
Ip(p) == ip[f[p]]

\* Mutant: a transaction gets MAXOPBLOCKS blocks of data.
MaxChunkFull == MAXOPBLOCKS * BSIZE

\* The bytes filewrite() gives to one transaction.
MaxChunk == ((MAXOPBLOCKS - 1 - 1 - 2) \div 2) * BSIZE

\* The address of block bn of inode i, 0 if there is none yet.
Lookup(i, bn) == IF bn < NDIRECT THEN addrs[i][bn]
                 ELSE IF addrs[i][NDIRECT] = 0 THEN 0
                 ELSE data[addrs[i][NDIRECT]][bn - NDIRECT]

\* Mutant: balloc() leaves in the block what it held before.
BzeroForgotten(got) == data

\* The blocks got, filled with zeros.
Bzero(got) == [c \in Blocks |-> IF c \in got THEN ZeroBlock ELSE data[c]]

-----------------------------------------------------------------------------
\* A file is opened, at offset 0, and closed when no call uses it.
Open(x, i) ==
  /\ panicked = None /\ ip[x] = None
  /\ \A p \in Procs: node[p] # i
  /\ ip' = [ip EXCEPT ![x] = i]
  /\ UNCHANGED <<bitmap, data, inode, lock, off, pc, call, trunc, written, file, calls, panicked>>

Close(x) ==
  /\ panicked = None /\ ip[x] # None
  /\ \A p \in Procs: f[p] # x
  /\ ip' = [ip EXCEPT ![x] = None]
  /\ off' = [off EXCEPT ![x] = 0]
  /\ UNCHANGED <<bitmap, data, inode, lock, pc, call, trunc, written, file, calls, panicked>>

\* fileread(): readi() clips the read to the file, f->off follows.
FileRead(p, x) ==
  /\ At(p, "user") /\ ip[x] # None
  /\ lock[ip[x]] = None
  /\ off[x] =< size[ip[x]]
  /\ \E n \in Lengths: off' = [off EXCEPT ![x] = Min({@ + n, size[ip[x]]})]
  /\ UNCHANGED <<bitmap, data, inode, lock, ip, pc, call, trunc, written, file, calls, panicked>>

\* filewrite() of n bytes; every call writes a byte value of its own.
WriteCall(p, x) ==
  /\ At(p, "user") /\ ip[x] # None
  /\ calls < MaxCalls /\ calls' = calls + 1
  /\ \E n \in Lengths: rest' = [rest EXCEPT ![p] = n]
  /\ val' = [val EXCEPT ![p] = calls + 1]
  /\ f' = [f EXCEPT ![p] = x]
  /\ Goto(p, "chunk")
  /\ UNCHANGED <<bitmap, data, inode, lock, open, n1, tot, trunc, written, file, panicked>>

\* The end of filewrite(): everything is written, or writei() said no.
Return(p) == /\ f' = [f EXCEPT ![p] = None]
             /\ rest' = [rest EXCEPT ![p] = 0]
             /\ val' = [val EXCEPT ![p] = 0]
             /\ Goto(p, "user")

Chunk(p) == Min({rest[p], MaxChunk})

\* Mutant: the file may grow one byte too far.
FitsOneMore(p) == /\ off[f[p]] =< size[Ip(p)]
                  /\ off[f[p]] + Chunk(p) =< MAXFILE * BSIZE + 1

\* writei() accepts what starts in the file and stays in the largest file.
Fits(p) == /\ off[f[p]] =< size[Ip(p)]
           /\ off[f[p]] + Chunk(p) =< MAXFILE * BSIZE

\* begin_op(), ilock(), and writei() up to its loop.
ChunkBegin(p) ==
  /\ At(p, "chunk") /\ rest[p] > 0
  /\ lock[Ip(p)] = None
  /\ Fits(p)
  /\ lock' = [lock EXCEPT ![Ip(p)] = p]
  /\ n1' = [n1 EXCEPT ![p] = Chunk(p)]
  /\ Goto(p, "block")
  /\ UNCHANGED <<bitmap, data, inode, open, f, rest, val, tot, trunc, written, file, calls, panicked>>

ChunkRefused(p) ==
  /\ At(p, "chunk") /\ rest[p] > 0
  /\ lock[Ip(p)] = None
  /\ ~Fits(p)
  /\ Return(p)
  /\ UNCHANGED <<bitmap, data, inode, lock, open, n1, tot, trunc, written, file, calls, panicked>>

WriteDone(p) ==
  /\ At(p, "chunk") /\ rest[p] = 0
  /\ Return(p)
  /\ UNCHANGED <<bitmap, data, inode, lock, open, n1, tot, trunc, written, file, calls, panicked>>

\* bmap() of block bn of inode i: the block, the indirect block it is reached
\* through, and those of the two that balloc() has to allocate, each time the
\* first free block.
Bmap(i, bn) ==
  LET noInd == bn >= NDIRECT /\ addrs[i][NDIRECT] = 0
      fresh == Lookup(i, bn) = 0
      need  == (IF noInd THEN 1 ELSE 0) + (IF fresh THEN 1 ELSE 0)
      ind   == IF noInd THEN Min(Free) ELSE addrs[i][NDIRECT]
      b     == IF fresh THEN Min(Free \ {ind}) ELSE Lookup(i, bn)
  IN  CASE bn >= MAXFILE             -> [panic |-> "bmap: out of range"]
        [] bn < MAXFILE /\ Cardinality(Free) < need
                                     -> [panic |-> "balloc: out of blocks"]
        [] OTHER -> [panic |-> None, b |-> b, ind |-> ind,
                     got |-> (IF noInd THEN {ind} ELSE {}) \union (IF fresh THEN {b} ELSE {})]

\* The bytes of p's chunk that are still to write start here.
Pos(p) == off[f[p]] + tot[p]

\* The bytes of them that go to the next block.
Part(p) == Min({n1[p] - tot[p], BSIZE - (Pos(p) % BSIZE)})

WritePanic(p) ==
  /\ At(p, "block") /\ tot[p] < n1[p]
  /\ panicked' = Bmap(Ip(p), Pos(p) \div BSIZE).panic
  /\ panicked' # None
  /\ UNCHANGED <<bitmap, data, inode, lock, open, pc, call, trunc, written, file, calls>>

\* One iteration of writei(): bmap(), and the bytes that go to that block.
WriteBlock(p) ==
  /\ At(p, "block") /\ tot[p] < n1[p]
  /\ LET i   == Ip(p)
         bn  == Pos(p) \div BSIZE
         at  == Pos(p) % BSIZE
         m   == Part(p)
         a   == Bmap(i, bn)
         dir == bn < NDIRECT
         new == Bzero(a.got)
     IN  /\ a.panic = None
         /\ bitmap' = bitmap \union a.got
         /\ addrs' = [addrs EXCEPT ![i][Min({bn, NDIRECT})] = IF dir THEN a.b ELSE a.ind]
         /\ data' = [c \in Blocks |-> [k \in 0 .. BSIZE - 1 |->
                       IF c = a.b /\ k \in at .. (at + m) - 1 THEN val[p]
                       ELSE IF ~dir /\ c = a.ind /\ k = bn - NDIRECT THEN a.b
                       ELSE new[c][k]]]
         /\ written' = [written EXCEPT ![p] =
                          @ \union {a.b} \union a.got
                            \union (IF a.b \in a.got /\ ~dir THEN {a.ind} ELSE {})
                            \union (IF a.got # {} THEN {BITMAP} ELSE {})]
         /\ tot' = [tot EXCEPT ![p] = @ + m]
  /\ UNCHANGED <<size, lock, open, pc, f, rest, val, n1, trunc, file, calls, panicked>>

\* What an array of bytes holds after the chunk of p.
Overlay(p) ==
  LET s == file[Ip(p)]
      o == off[f[p]]
  IN  [k \in 1 .. Max({Len(s), o + n1[p]}) |->
         IF k \in o + 1 .. o + n1[p] THEN val[p] ELSE s[k]]

\* Mutant: the file ends where the last chunk ended.
NewSizeLast(p) == off[f[p]] + n1[p]

\* writei() only ever makes a file longer.
NewSize(p) == Max({size[Ip(p)], off[f[p]] + n1[p]})

\* The end of writei() and of the chunk: size, iupdate(), f->off, iunlock(),
\* end_op().
ChunkEnd(p) ==
  /\ At(p, "block") /\ tot[p] = n1[p]
  /\ size' = [size EXCEPT ![Ip(p)] = NewSize(p)]
  /\ lock' = [lock EXCEPT ![Ip(p)] = None]
  /\ file' = [file EXCEPT ![Ip(p)] = Overlay(p)]
  /\ off' = [off EXCEPT ![f[p]] = @ + n1[p]]
  /\ rest' = [rest EXCEPT ![p] = @ - n1[p]]
  /\ tot' = [tot EXCEPT ![p] = 0]
  /\ n1' = [n1 EXCEPT ![p] = 0]
  /\ written' = [written EXCEPT ![p] = {}]
  /\ Goto(p, "chunk")
  /\ UNCHANGED <<bitmap, data, addrs, ip, f, val, trunc, calls, panicked>>

-----------------------------------------------------------------------------
\* iput() drops the last reference of an unlinked inode: no file is open on it.
LastRef(i) == lock[i] = None /\ \A x \in Files: ip[x] # i

\* iput() locks the inode and calls itrunc().
TruncBegin(p, i) ==
  /\ At(p, "user") /\ LastRef(i) /\ size[i] > 0
  /\ calls < MaxCalls /\ calls' = calls + 1
  /\ lock' = [lock EXCEPT ![i] = p]
  /\ node' = [node EXCEPT ![p] = i]
  /\ Goto(p, "trunc")
  /\ UNCHANGED <<bitmap, data, inode, open, call, cursor, written, file, panicked>>

\* The addresses itrunc() frees, in its order: the direct ones, the entries of
\* the indirect block, and at last the indirect block.
Victim(i, k) == IF k < MAXFILE THEN Lookup(i, k) ELSE addrs[i][NDIRECT]

\* bfree() of one of them.
TruncBlock(p) ==
  /\ At(p, "trunc") /\ cursor[p] =< MAXFILE
  /\ LET b == Victim(node[p], cursor[p])
     IN  /\ panicked' = IF b \in bitmap \union {0} THEN None ELSE "freeing free block"
         /\ bitmap' = bitmap \ {b}
         /\ written' = [written EXCEPT ![p] = @ \union (IF b # 0 THEN {BITMAP} ELSE {})]
  /\ addrs' = IF cursor[p] \in 0 .. NDIRECT - 1 THEN [addrs EXCEPT ![node[p]][cursor[p]] = 0]
              ELSE IF cursor[p] = MAXFILE THEN [addrs EXCEPT ![node[p]][NDIRECT] = 0]
              ELSE addrs
  /\ cursor' = [cursor EXCEPT ![p] = @ + 1]
  /\ UNCHANGED <<data, size, lock, open, pc, call, node, file, calls>>

\* ip->size = 0, iupdate(), and the inode is free for the next file.
TruncDone(p) ==
  /\ At(p, "trunc") /\ cursor[p] > MAXFILE
  /\ size' = [size EXCEPT ![node[p]] = 0]
  /\ file' = [file EXCEPT ![node[p]] = <<>>]
  /\ lock' = [lock EXCEPT ![node[p]] = None]
  /\ node' = [node EXCEPT ![p] = None]
  /\ cursor' = [cursor EXCEPT ![p] = 0]
  /\ written' = [written EXCEPT ![p] = {}]
  /\ Goto(p, "user")
  /\ UNCHANGED <<bitmap, data, addrs, open, call, calls, panicked>>

Next ==
  \/ \E x \in Files, i \in Inodes: Open(x, i)
  \/ \E x \in Files: Close(x)
  \/ \E p \in Procs, x \in Files: FileRead(p, x) \/ WriteCall(p, x)
  \/ \E p \in Procs, i \in Inodes: TruncBegin(p, i)
  \/ \E p \in Procs: ChunkBegin(p) \/ ChunkRefused(p) \/ WriteDone(p)
  \/ \E p \in Procs: WriteBlock(p) \/ WritePanic(p) \/ ChunkEnd(p)
  \/ \E p \in Procs: TruncBlock(p) \/ TruncDone(p)

Spec == Init /\ [][Next]_vars

-----------------------------------------------------------------------------
\* The values every variable of fs.c and file.c keeps: block addresses are
\* blocks of the disk, offsets and sizes never exceed the largest file, and
\* writei() never writes past the n1 bytes it was given.
TypeOK ==
  /\ bitmap \subseteq Blocks
  /\ addrs \in [Inodes -> [0 .. NDIRECT -> 0 .. NBLOCKS]]
  /\ size \in [Inodes -> 0 .. MAXFILE * BSIZE]
  /\ off \in [Files -> 0 .. MAXFILE * BSIZE]
  /\ lock \in [Inodes -> Procs \union {None}]
  /\ ip \in [Files -> Inodes \union {None}]
  /\ f \in [Procs -> Files \union {None}]
  /\ node \in [Procs -> Inodes \union {None}]
  /\ n1 \in [Procs -> 0 .. MaxChunk]
  /\ \A p \in Procs: tot[p] \in 0 .. n1[p]
  /\ cursor \in [Procs -> 0 .. MAXFILE + 1]
  /\ pc \in [Procs -> {"user", "chunk", "block", "trunc"}]

\* The places of inode i that hold a block: its addresses (0 .. MAXFILE - 1)
\* and its indirect block (MAXFILE).  itrunc() does not clear the entries of
\* the indirect block, those it has passed are no longer the inode's.
Gone(i, k)  == \E p \in Procs: node[p] = i /\ k < cursor[p]
Places == {ik \in Inodes \X (0 .. MAXFILE):
             Victim(ik[1], ik[2]) # 0 /\ ~Gone(ik[1], ik[2])}
Holds(ik)   == Victim(ik[1], ik[2])

\* balloc(), bfree(), bmap() and itrunc() of several inodes at once never lose
\* a block, give it to two places of the inodes, or free one still in use: the
\* bitmap marks exactly the blocks that the inodes hold, and each is held once.
BlocksOwnedOnce ==
  /\ bitmap = {Holds(ik): ik \in Places}
  /\ \A a, b \in Places: Holds(a) = Holds(b) => a = b

\* What readi() finds through the addresses of an unlocked inode is what the
\* writes to it add up to, whatever other inodes allocate and free.
ReadsBack ==
  \A i \in Inodes: lock[i] = None =>
    file[i] = [k \in 1 .. size[i] |->
                 data[Lookup(i, (k - 1) \div BSIZE)][(k - 1) % BSIZE]]

\* A transaction of filewrite() or itrunc(), with the block of the inode,
\* never writes more blocks than begin_op() reserved for it.
TransactionFits == \A p \in Procs: Cardinality(written[p]) + 1 =< MAXOPBLOCKS

\* An open file never points past the end of its inode, so neither a read nor
\* a write finds a hole in it: itrunc() never cuts a file that is still open.
OffsetsInFile == \A x \in Files: ip[x] # None => off[x] =< size[ip[x]]

\* The only panic the contents of files can cause is that of a full disk:
\* never a block out of range of the inode, never a block freed twice.
OnlyFullPanics ==
  panicked # None => panicked = "balloc: out of blocks" /\ Cardinality(Free) < 2

(***************************************************************************)
(* The bitmap, the inodes and the open files: balloc() and bfree() give    *)
(* every block one owner, no offset of fileread() or filewrite() is past   *)
(* the end of its file, and only a full disk panics.                       *)
(***************************************************************************)
DataInv == TypeOK /\ BlocksOwnedOnce /\ OffsetsInFile /\ OnlyFullPanics
=============================================================================
