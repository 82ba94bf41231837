----------------------------- MODULE PipeProofs -----------------------------
(***************************************************************************)
(* Proofs about Pipe, for any number of processes, any ring size and any   *)
(* modulus of the counters that RingAssumption admits.                     *)
(*                                                                         *)
(* The wake-up and lifetime invariants are not inductive.  Two facts about *)
(* the files carry them: a process inside pipe.c has a descriptor for the  *)
(* end it uses (HaveFiles), and an end that somebody has a descriptor for, *)
(* or is about to shut, is open and has its page (EndsOpen).  Between the  *)
(* test and the sleep the spin lock keeps the ring as it is (MaySleep).    *)
(* That a sleeping writer keeps a full ring also needs the arithmetic of   *)
(* the counters: in a full ring there is room for nothing (FullNoRoom).    *)
(* That the ring delivers a stream (PipeDeliversStream) needs more of it:  *)
(* within one ring, different counters have different slots (SlotsDiffer), *)
(* so that the copy loop overwrites nothing that is still to be read.      *)
(***************************************************************************)
EXTENDS Pipe, SequenceTheorems, TLAPS

\* Inside pipe.c a process has the end it works on open.
HaveFiles ==
  \A p \in Procs:
    /\ pc[p] \in Reading => p \in rfile
    /\ pc[p] \in Writing => p \in wfile
    /\ pc[p] = "limbo" => p \in rfile \union wfile

\* Each end is shut by one process, and the page is freed after both.
EndsOpen ==
  /\ rfile # {} => readopen
  /\ wfile # {} => writeopen
  /\ readopen \/ writeopen => page
  /\ \A p \in Procs:
       /\ pc[p] = "closeread" =>
            rfile = {} /\ readopen /\ \A q \in Procs: pc[q] = "closeread" => q = p
       /\ pc[p] = "closewrite" =>
            wfile = {} /\ writeopen /\ \A q \in Procs: pc[q] = "closewrite" => q = p
       /\ pc[p] = "kfree" =>
            /\ page /\ ~readopen /\ ~writeopen
            /\ \A q \in Procs: pc[q] = "kfree" => q = p

\* With p->lock held, what was found before the sleep stays so.
MaySleep ==
  \A p \in Procs: /\ pc[p] = "readempty" => writeopen /\ Empty
                  /\ pc[p] = "writefull" => readopen /\ Full

IInv == TypeOK /\ HaveFiles /\ EndsOpen /\ NoLostPipeWakeup /\ MaySleep

-----------------------------------------------------------------------------
(* The remainder in the three ranges that the counters reach.              *)

\* A number below the modulus is its own remainder.
LEMMA ModSmall ==
  ASSUME NEW M \in Nat \ {0}, NEW x \in Int, 0 =< x, x < M
  PROVE  x % M = x
BY Z3

\* A sum of two counters wraps at most once.
LEMMA ModOver ==
  ASSUME NEW M \in Nat \ {0}, NEW x \in Int, M =< x, x < M + M
  PROVE  x % M = x - M
BY Z3

\* A difference of two counters borrows at most once.
LEMMA ModUnder ==
  ASSUME NEW M \in Nat \ {0}, NEW x \in Int, -M =< x, x < 0
  PROVE  x % M = x + M
BY Z3

\* nwrite - nread on the two sides of a wrap.
LEMMA UsedIs ==
  ASSUME NEW r \in 0 .. COUNTER - 1, NEW w \in 0 .. COUNTER - 1
  PROVE  (w - r) % COUNTER = IF r =< w THEN w - r ELSE w - r + COUNTER
<1>1. COUNTER \in Nat \ {0} /\ r \in Int /\ w \in Int /\ w - r \in Int
  BY RingAssumption
<1>2. CASE r =< w
  BY <1>1, <1>2, ModSmall
<1>3. CASE w < r
  BY <1>1, <1>3, ModUnder
<1>4. QED BY <1>1, <1>2, <1>3

\* A counter advanced by no more than the size of the ring.
LEMMA AdvanceIs ==
  ASSUME NEW c \in 0 .. COUNTER - 1, NEW k \in 0 .. PIPESIZE
  PROVE  (c + k) % COUNTER = IF c + k < COUNTER THEN c + k ELSE c + k - COUNTER
<1>1. COUNTER \in Nat \ {0} /\ c \in Int /\ k \in Int /\ c + k \in Int /\ k =< COUNTER
  BY RingAssumption
<1>2. CASE c + k < COUNTER
  BY <1>1, <1>2, ModSmall
<1>3. CASE ~(c + k < COUNTER)
  <2>1. COUNTER =< c + k /\ c + k < COUNTER + COUNTER
    BY <1>1, <1>3
  <2>2. (c + k) % COUNTER = c + k - COUNTER
    <3> DEFINE x == c + k
    <3>1. x \in Int /\ COUNTER =< x /\ x < COUNTER + COUNTER
      BY <1>1, <2>1
    <3> HIDE DEF x
    <3>2. x % COUNTER = x - COUNTER
      BY <1>1, <3>1, ModOver
    <3>3. QED BY <1>1, <3>2 DEF x
  <2>3. QED BY <1>3, <2>2
<1>4. QED BY <1>1, <1>2, <1>3

\* Writing k bytes that fit makes the ring k bytes fuller.
LEMMA WriteFills ==
  ASSUME NEW r \in 0 .. COUNTER - 1, NEW w \in 0 .. COUNTER - 1, NEW k \in Nat,
         k =< PIPESIZE - ((w - r) % COUNTER)
  PROVE  /\ (w + k) % COUNTER \in 0 .. COUNTER - 1
         /\ (((w + k) % COUNTER) - r) % COUNTER = ((w - r) % COUNTER) + k
<1> DEFINE u == (w - r) % COUNTER
           v == (w + k) % COUNTER
<1>0. k =< PIPESIZE - u
  OBVIOUS
<1>1. u = IF r =< w THEN w - r ELSE w - r + COUNTER
  BY UsedIs
<1>2. PIPESIZE \in Nat \ {0} /\ COUNTER \in Nat /\ COUNTER >= 2 * PIPESIZE
  BY RingAssumption
<1>a. u \in Nat /\ r \in Int /\ w \in Int
  BY <1>1, <1>2
<1>3. k \in 0 .. PIPESIZE
  <2> HIDE DEF u
  <2> QED BY <1>0, <1>a, <1>2
<1>4. v = IF w + k < COUNTER THEN w + k ELSE w + k - COUNTER
  BY <1>3, AdvanceIs
<1>5. v \in 0 .. COUNTER - 1
  BY <1>2, <1>3, <1>4
<1>6. (v - r) % COUNTER = IF r =< v THEN v - r ELSE v - r + COUNTER
  BY <1>5, UsedIs
<1> HIDE DEF u, v
<1>7. (v - r) % COUNTER = u + k
  BY <1>1, <1>2, <1>3, <1>4, <1>5, <1>6, <1>0, <1>a
<1>8. QED BY <1>5, <1>7 DEF u, v

\* Reading k bytes that are there makes it k bytes emptier.
LEMMA ReadDrains ==
  ASSUME NEW r \in 0 .. COUNTER - 1, NEW w \in 0 .. COUNTER - 1, NEW k \in Nat,
         k =< (w - r) % COUNTER, (w - r) % COUNTER =< PIPESIZE
  PROVE  /\ (r + k) % COUNTER \in 0 .. COUNTER - 1
         /\ (w - ((r + k) % COUNTER)) % COUNTER = ((w - r) % COUNTER) - k
<1> DEFINE u == (w - r) % COUNTER
           v == (r + k) % COUNTER
<1>0. k =< u /\ u =< PIPESIZE
  OBVIOUS
<1>1. u = IF r =< w THEN w - r ELSE w - r + COUNTER
  BY UsedIs
<1>2. PIPESIZE \in Nat \ {0} /\ COUNTER \in Nat /\ COUNTER >= 2 * PIPESIZE
  BY RingAssumption
<1>a. u \in Nat /\ r \in Int /\ w \in Int
  BY <1>1, <1>2
<1>3. k \in 0 .. PIPESIZE
  <2> HIDE DEF u
  <2> QED BY <1>0, <1>a, <1>2
<1>4. v = IF r + k < COUNTER THEN r + k ELSE r + k - COUNTER
  BY <1>3, AdvanceIs
<1>5. v \in 0 .. COUNTER - 1
  BY <1>2, <1>3, <1>4
<1>6. (w - v) % COUNTER = IF v =< w THEN w - v ELSE w - v + COUNTER
  BY <1>5, UsedIs
<1> HIDE DEF u, v
<1>7. (w - v) % COUNTER = u - k
  BY <1>1, <1>2, <1>3, <1>4, <1>5, <1>6, <1>0, <1>a
<1>8. QED BY <1>5, <1>7 DEF u, v

\* pipewrite()'s test for a full ring and piperead()'s for an empty one.
LEMMA RingTests ==
  ASSUME NEW r \in 0 .. COUNTER - 1, NEW w \in 0 .. COUNTER - 1
  PROVE  /\ (w - r) % COUNTER \in Nat
         /\ w = (r + PIPESIZE) % COUNTER <=> (w - r) % COUNTER = PIPESIZE
         /\ r = w <=> (w - r) % COUNTER = 0
<1>1. PIPESIZE \in Nat \ {0} /\ COUNTER \in Nat /\ COUNTER >= 2 * PIPESIZE
  BY RingAssumption
<1>2. (w - r) % COUNTER = IF r =< w THEN w - r ELSE w - r + COUNTER
  BY UsedIs
<1>3. (r + PIPESIZE) % COUNTER =
        IF r + PIPESIZE < COUNTER THEN r + PIPESIZE ELSE r + PIPESIZE - COUNTER
  BY <1>1, PIPESIZE \in 0 .. PIPESIZE, AdvanceIs
<1>4. QED BY <1>1, <1>2, <1>3

\* The same of the state: full means that there is no room left.
LEMMA FullNoRoom ==
  ASSUME TypeOK
  PROVE  /\ Used \in Nat /\ Room \in Nat
         /\ Full <=> Room = 0
         /\ Empty <=> Used = 0
<1>1. nread \in 0 .. COUNTER - 1 /\ nwrite \in 0 .. COUNTER - 1 /\ Used =< PIPESIZE
  BY DEF TypeOK
<1>2. Used \in Nat /\ (Full <=> Used = PIPESIZE) /\ (Empty <=> Used = 0)
  BY <1>1, RingTests DEF Used, Full, Empty
<1>3. PIPESIZE \in Nat
  BY RingAssumption
<1>4. QED BY <1>1, <1>2, <1>3 DEF Room

-----------------------------------------------------------------------------
\* What a step of the copy loop of pipewrite() does to the type invariant.
LEMMA CopyInType ==
  ASSUME TypeOK, NEW p \in Procs, NEW k \in Nat, k =< Room, k =< Len(todo[p]),
         CopyIn(p, k)
  PROVE  /\ data' \in [0 .. PIPESIZE - 1 -> Byte]
         /\ nread' \in 0 .. COUNTER - 1 /\ nwrite' \in 0 .. COUNTER - 1
         /\ nread' = nread
         /\ Used' = Used + k
         /\ k = 0 => nwrite' = nwrite
<1>1. nread \in 0 .. COUNTER - 1 /\ nwrite \in 0 .. COUNTER - 1
  BY DEF TypeOK
<1>2. nwrite' = (nwrite + k) % COUNTER /\ nread' = nread
  BY DEF CopyIn
<1>3. /\ (nwrite + k) % COUNTER \in 0 .. COUNTER - 1
      /\ (((nwrite + k) % COUNTER) - nread) % COUNTER = ((nwrite - nread) % COUNTER) + k
  BY <1>1, WriteFills DEF Room, Used
<1>4. Used' = Used + k
  BY <1>2, <1>3 DEF Used
<1>5. k = 0 => nwrite' = nwrite
  <2> SUFFICES ASSUME k = 0 PROVE (nwrite + k) % COUNTER = nwrite
    BY <1>2
  <2> QED BY <1>1, ModSmall, RingAssumption
<1>6. data' \in [0 .. PIPESIZE - 1 -> Byte]
  <2>1. todo[p] \in Seq(Byte) /\ data \in [0 .. PIPESIZE - 1 -> Byte]
    BY DEF TypeOK
  <2>2. \A j \in 0 .. PIPESIZE - 1: data'[j] \in Byte
    <3> TAKE j \in 0 .. PIPESIZE - 1
    <3> DEFINE new == {i \in 1 .. k : Slot(nwrite + i - 1) = j}
    <3>1. data'[j] = IF new = {} THEN data[j] ELSE todo[p][CHOOSE i \in new : TRUE]
      BY DEF CopyIn
    <3>2. CASE new = {}
      BY <2>1, <3>1, <3>2
    <3>3. CASE new # {}
      <4>1. (CHOOSE i \in new : TRUE) \in new
        BY <3>3
      <4>2. (CHOOSE i \in new : TRUE) \in 1 .. Len(todo[p])
        BY <4>1, <2>1
      <4>3. QED BY <2>1, <3>1, <3>3, <4>2
    <3>4. QED BY <3>2, <3>3
  <2>3. QED BY <2>2 DEF CopyIn
<1>7. QED BY <1>1, <1>2, <1>3, <1>4, <1>5, <1>6

\* The arguments of pipewrite().
LEMMA StringsAreSeqs ==
  ASSUME NEW s \in Strings
  PROVE  s \in Seq(Byte) /\ Len(s) =< MaxN
BY CallAssumption

\* The bytes that PipeWriteSleep leaves for later.
LEMMA RestIsSeq ==
  ASSUME NEW s \in Seq(Byte), NEW k \in Nat, k < Len(s)
  PROVE  /\ SubSeq(s, k + 1, Len(s)) \in Seq(Byte)
         /\ Len(SubSeq(s, k + 1, Len(s))) = Len(s) - k
OBVIOUS

\* The boot state: no pipe, and nobody inside.
LEMMA InitIInv == Init => IInv
<1> SUFFICES ASSUME Init PROVE IInv
  OBVIOUS
<1>1. Used = 0
  BY ModSmall, RingAssumption DEF Init, Used
<1>a. gaveup \in BOOLEAN /\ MaxN \in Nat
  BY CallAssumption DEF Init
<1>b. readopen \in BOOLEAN /\ writeopen \in BOOLEAN /\ page \in BOOLEAN
  BY DEF Init
<1>c. /\ todo \in [Procs -> Seq(Byte)] /\ \A p \in Procs: Len(todo[p]) =< MaxN
      /\ want \in [Procs -> 0 .. MaxN] /\ got \in Seq(Byte)
  BY <1>a DEF Init
<1>d. /\ data \in [0 .. PIPESIZE - 1 -> Byte]
      /\ nread \in 0 .. COUNTER - 1 /\ nwrite \in 0 .. COUNTER - 1
      /\ Used =< PIPESIZE
  BY <1>1, RingAssumption DEF Init
<1>2. TypeOK
  BY <1>a, <1>b, <1>c, <1>d DEF Init, TypeOK, Places
<1>3. HaveFiles /\ EndsOpen /\ NoLostPipeWakeup /\ MaySleep
  BY DEF Init, HaveFiles, EndsOpen, NoLostPipeWakeup, MaySleep, Reading, Writing
<1>4. QED BY <1>2, <1>3 DEF IInv

\* A new pipe: nobody can be left inside the old one, whose page was freed.
LEMMA PipeAllocStep == ASSUME IInv, NEW p \in Procs, PipeAlloc(p) PROVE IInv'
<1> USE DEF IInv
<1>0. Used' = 0 /\ nread' = 0 /\ nwrite' = 0
  BY ModSmall, RingAssumption DEF PipeAlloc, Used
<1>a. gaveup' \in BOOLEAN
  BY DEF PipeAlloc
<1>1. TypeOK'
  BY <1>0, <1>a, RingAssumption, CallAssumption DEF TypeOK, Places, Reading, Writing, PipeAlloc, ring, ends, files
<1>2. HaveFiles'
  BY DEF TypeOK, HaveFiles, EndsOpen, Reading, Writing, PipeAlloc, ring, ends, files
<1>3. EndsOpen'
  BY DEF TypeOK, HaveFiles, EndsOpen, Reading, Writing, PipeAlloc, ring, ends, files
<1>4. NoLostPipeWakeup'
  BY <1>0 DEF TypeOK, HaveFiles, EndsOpen, Reading, Writing, NoLostPipeWakeup, PipeAlloc, ring, ends, files
<1>6. MaySleep'
  BY <1>0 DEF TypeOK, HaveFiles, EndsOpen, Reading, Writing, MaySleep, PipeAlloc, ring, ends, files
<1>5. QED BY <1>1, <1>2, <1>3, <1>4, <1>6

\* The child has open what its parent has open, so the ends stay open.
LEMMA ForkStep == ASSUME IInv, NEW p \in Procs, NEW q \in Procs, Fork(p, q) PROVE IInv'
<1> USE DEF IInv
<1>0. UNCHANGED ring /\ Used' = Used /\ (Full' <=> Full) /\ (Empty' <=> Empty)
  BY DEF Fork, ring, ends, files, Used, Full, Empty
<1>1. TypeOK'
  BY <1>0, RingAssumption, CallAssumption DEF TypeOK, Places, Reading, Writing, Fork, ring, ends, files
<1>2. HaveFiles'
  BY DEF TypeOK, HaveFiles, EndsOpen, Reading, Writing, Fork, ring, ends, files
<1>3. EndsOpen'
  BY DEF TypeOK, HaveFiles, EndsOpen, Reading, Writing, Fork, ring, ends, files
<1>4. NoLostPipeWakeup'
  BY <1>0 DEF TypeOK, HaveFiles, EndsOpen, Reading, Writing, NoLostPipeWakeup, Fork, ring, ends, files
<1>6. MaySleep'
  BY <1>0 DEF TypeOK, HaveFiles, EndsOpen, Reading, Writing, MaySleep, Fork, ring, ends, files
<1>5. QED BY <1>1, <1>2, <1>3, <1>4, <1>6

\* The last reader to leave becomes the one that shuts the read end.
LEMMA CloseReadFileStep == ASSUME IInv, NEW p \in Procs, CloseReadFile(p) PROVE IInv'
<1> USE DEF IInv
<1>0. UNCHANGED ring /\ Used' = Used /\ (Full' <=> Full) /\ (Empty' <=> Empty)
  BY DEF CloseReadFile, ring, ends, files, Used, Full, Empty
<1>1. TypeOK'
  BY <1>0, RingAssumption, CallAssumption DEF TypeOK, Places, Reading, Writing, CloseReadFile, ring, ends, files
<1>2. HaveFiles'
  BY DEF TypeOK, HaveFiles, EndsOpen, Reading, Writing, CloseReadFile, ring, ends, files
<1>3. EndsOpen'
  BY DEF TypeOK, HaveFiles, EndsOpen, Reading, Writing, CloseReadFile, ring, ends, files
<1>4. NoLostPipeWakeup'
  BY <1>0 DEF TypeOK, HaveFiles, EndsOpen, Reading, Writing, NoLostPipeWakeup, CloseReadFile, ring, ends, files
<1>6. MaySleep'
  BY <1>0 DEF TypeOK, HaveFiles, EndsOpen, Reading, Writing, MaySleep, CloseReadFile, ring, ends, files
<1>5. QED BY <1>1, <1>2, <1>3, <1>4, <1>6

\* The last writer to leave becomes the one that shuts the write end.
LEMMA CloseWriteFileStep == ASSUME IInv, NEW p \in Procs, CloseWriteFile(p) PROVE IInv'
<1> USE DEF IInv
<1>0. UNCHANGED ring /\ Used' = Used /\ (Full' <=> Full) /\ (Empty' <=> Empty)
  BY DEF CloseWriteFile, ring, ends, files, Used, Full, Empty
<1>1. TypeOK'
  BY <1>0, RingAssumption, CallAssumption DEF TypeOK, Places, Reading, Writing, CloseWriteFile, ring, ends, files
<1>2. HaveFiles'
  BY DEF TypeOK, HaveFiles, EndsOpen, Reading, Writing, CloseWriteFile, ring, ends, files
<1>3. EndsOpen'
  BY DEF TypeOK, HaveFiles, EndsOpen, Reading, Writing, CloseWriteFile, ring, ends, files
<1>4. NoLostPipeWakeup'
  BY <1>0 DEF TypeOK, HaveFiles, EndsOpen, Reading, Writing, NoLostPipeWakeup, CloseWriteFile, ring, ends, files
<1>6. MaySleep'
  BY <1>0 DEF TypeOK, HaveFiles, EndsOpen, Reading, Writing, MaySleep, CloseWriteFile, ring, ends, files
<1>5. QED BY <1>1, <1>2, <1>3, <1>4, <1>6

\* Shutting the read end: no reader is inside, and the writers are awake.
LEMMA PipeCloseReadStep == ASSUME IInv, NEW p \in Procs, PipeCloseRead(p) PROVE IInv'
<1> USE DEF IInv
<1>0. UNCHANGED ring /\ Used' = Used /\ (Full' <=> Full) /\ (Empty' <=> Empty)
  BY DEF PipeCloseRead, Enter, ring, ends, files, WakeWriters, Used, Full, Empty
<1>1. TypeOK'
  BY <1>0, RingAssumption, CallAssumption DEF TypeOK, Places, Reading, Writing, PipeCloseRead, Enter, ring, ends, files, WakeWriters
<1>2. HaveFiles'
  BY DEF TypeOK, HaveFiles, EndsOpen, Reading, Writing, PipeCloseRead, Enter, ring, ends, files, WakeWriters
<1>3. EndsOpen'
  BY DEF TypeOK, HaveFiles, EndsOpen, Reading, Writing, PipeCloseRead, Enter, ring, ends, files, WakeWriters
<1>4. NoLostPipeWakeup'
  BY <1>0 DEF TypeOK, HaveFiles, EndsOpen, Reading, Writing, NoLostPipeWakeup, PipeCloseRead, Enter, ring, ends, files, WakeWriters
<1>6. MaySleep'
  BY <1>0 DEF TypeOK, HaveFiles, EndsOpen, Reading, Writing, MaySleep, PipeCloseRead, Enter, Locked, WakeWriters, ring, ends, files
<1>5. QED BY <1>1, <1>2, <1>3, <1>4, <1>6

\* Shutting the write end: no writer is inside, and the readers are awake.
LEMMA PipeCloseWriteStep == ASSUME IInv, NEW p \in Procs, PipeCloseWrite(p) PROVE IInv'
<1> USE DEF IInv
<1>0. UNCHANGED ring /\ Used' = Used /\ (Full' <=> Full) /\ (Empty' <=> Empty)
  BY DEF PipeCloseWrite, Enter, ring, ends, files, WakeReaders, Used, Full, Empty
<1>1. TypeOK'
  BY <1>0, RingAssumption, CallAssumption DEF TypeOK, Places, Reading, Writing, PipeCloseWrite, Enter, ring, ends, files, WakeReaders
<1>2. HaveFiles'
  BY DEF TypeOK, HaveFiles, EndsOpen, Reading, Writing, PipeCloseWrite, Enter, ring, ends, files, WakeReaders
<1>3. EndsOpen'
  BY DEF TypeOK, HaveFiles, EndsOpen, Reading, Writing, PipeCloseWrite, Enter, ring, ends, files, WakeReaders
<1>4. NoLostPipeWakeup'
  BY <1>0 DEF TypeOK, HaveFiles, EndsOpen, Reading, Writing, NoLostPipeWakeup, PipeCloseWrite, Enter, ring, ends, files, WakeReaders
<1>6. MaySleep'
  BY <1>0 DEF TypeOK, HaveFiles, EndsOpen, Reading, Writing, MaySleep, PipeCloseWrite, Enter, Locked, WakeReaders, ring, ends, files
<1>5. QED BY <1>1, <1>2, <1>3, <1>4, <1>6

\* Both ends are shut, so nothing depends on the page any more.
LEMMA KFreeStep == ASSUME IInv, NEW p \in Procs, KFree(p) PROVE IInv'
<1> USE DEF IInv
<1>0. UNCHANGED ring /\ Used' = Used /\ (Full' <=> Full) /\ (Empty' <=> Empty)
  BY DEF KFree, ring, ends, files, Used, Full, Empty
<1>1. TypeOK'
  BY <1>0, RingAssumption, CallAssumption DEF TypeOK, Places, Reading, Writing, KFree, ring, ends, files
<1>2. HaveFiles'
  BY DEF TypeOK, HaveFiles, EndsOpen, Reading, Writing, KFree, ring, ends, files
<1>3. EndsOpen'
  BY DEF TypeOK, HaveFiles, EndsOpen, Reading, Writing, KFree, ring, ends, files
<1>4. NoLostPipeWakeup'
  BY <1>0 DEF TypeOK, HaveFiles, EndsOpen, Reading, Writing, NoLostPipeWakeup, KFree, ring, ends, files
<1>6. MaySleep'
  BY <1>0 DEF TypeOK, HaveFiles, EndsOpen, Reading, Writing, MaySleep, KFree, ring, ends, files
<1>5. QED BY <1>1, <1>2, <1>3, <1>4, <1>6

\* Entering pipewrite() with the write end open.
LEMMA WriteCallStep == ASSUME IInv, NEW p \in Procs, WriteCall(p) PROVE IInv'
<1> USE DEF IInv
<1>0. UNCHANGED ring /\ Used' = Used /\ (Full' <=> Full) /\ (Empty' <=> Empty)
  BY DEF WriteCall, ring, ends, files, Used, Full, Empty
<1>1. TypeOK'
  BY <1>0, StringsAreSeqs DEF TypeOK, Places, Reading, Writing, WriteCall, ring, ends, files
<1>2. HaveFiles'
  BY DEF TypeOK, HaveFiles, EndsOpen, Reading, Writing, WriteCall, ring, ends, files
<1>3. EndsOpen'
  BY DEF TypeOK, HaveFiles, EndsOpen, Reading, Writing, WriteCall, ring, ends, files
<1>4. NoLostPipeWakeup'
  BY <1>0 DEF TypeOK, HaveFiles, EndsOpen, Reading, Writing, NoLostPipeWakeup, WriteCall, ring, ends, files
<1>6. MaySleep'
  BY <1>0 DEF TypeOK, HaveFiles, EndsOpen, Reading, Writing, MaySleep, WriteCall, ring, ends, files
<1>5. QED BY <1>1, <1>2, <1>3, <1>4, <1>6

\* A write that fits: with a full ring it is a write of no bytes.
LEMMA PipeWriteStep == ASSUME IInv, NEW p \in Procs, PipeWrite(p) PROVE IInv'
<1> USE DEF IInv
<1> DEFINE k == Len(todo[p])
<1>a. k \in Nat /\ k =< Room /\ k =< Len(todo[p]) /\ Room \in Nat /\ todo[p] \in Seq(Byte)
  BY FullNoRoom DEF TypeOK, PipeWrite, Enter
<1>0. /\ data' \in [0 .. PIPESIZE - 1 -> Byte]
      /\ nread' \in 0 .. COUNTER - 1 /\ nwrite' \in 0 .. COUNTER - 1
      /\ nread' = nread
      /\ Used' = Used + k
      /\ k = 0 => nwrite' = nwrite
  <2>1. CopyIn(p, k)
    BY DEF PipeWrite, Enter
  <2> HIDE DEF k
  <2>2. QED BY <1>a, <2>1, CopyInType
<1>1. TypeOK'
  <2>1. Used' =< PIPESIZE
    <3>1. Room = PIPESIZE - Used /\ Used \in Nat /\ PIPESIZE \in Nat
      BY FullNoRoom, RingAssumption DEF Room
    <3> HIDE DEF k
    <3>2. QED BY <1>0, <1>a, <3>1
  <2>2. pc' \in [Procs -> Places]
    BY DEF PipeWrite, Enter, TypeOK, Places, Reading, Writing, WakeReaders
  <2>3. todo' \in [Procs -> Seq(Byte)] /\ \A q \in Procs: Len(todo'[q]) =< MaxN
    BY CallAssumption DEF PipeWrite, Enter, TypeOK
  <2>4. QED BY <1>0, <2>1, <2>2, <2>3 DEF PipeWrite, Enter, TypeOK, ends, files
<1>2. HaveFiles'
  BY DEF TypeOK, HaveFiles, EndsOpen, Reading, Writing, PipeWrite, Enter, ring, ends, files, WakeReaders
<1>3. EndsOpen'
  BY DEF TypeOK, HaveFiles, EndsOpen, Reading, Writing, PipeWrite, Enter, ring, ends, files, WakeReaders
<1>4. NoLostPipeWakeup'
  <2>1. Full => Full'
    BY <1>0, <1>a, FullNoRoom DEF Full
  <2>2. ASSUME NEW q \in Procs, pc'[q] = "readsleep"
        PROVE  writeopen' /\ (gaveup' \/ Empty')
    BY <2>2 DEF TypeOK, HaveFiles, EndsOpen, Reading, Writing, NoLostPipeWakeup, PipeWrite, Enter, ends, files, WakeReaders
  <2>3. ASSUME NEW q \in Procs, pc'[q] = "writesleep"
        PROVE  readopen' /\ Full'
    BY <2>1, <2>3 DEF TypeOK, HaveFiles, EndsOpen, Reading, Writing, NoLostPipeWakeup, PipeWrite, Enter, ends, files, WakeReaders
  <2>4. QED BY <2>2, <2>3 DEF NoLostPipeWakeup
<1>6. MaySleep'
  BY <1>0 DEF TypeOK, HaveFiles, EndsOpen, Reading, Writing, MaySleep, PipeWrite, Enter, Locked, WakeReaders, ring, ends, files
<1>5. QED BY <1>1, <1>2, <1>3, <1>4, <1>6

\* A write that fills the ring leaves it full for its sleep.
LEMMA PipeWriteSleepStep == ASSUME IInv, NEW p \in Procs, PipeWriteSleep(p) PROVE IInv'
<1> USE DEF IInv
<1> DEFINE k == Room
<1>a. k \in Nat /\ k =< Room /\ k =< Len(todo[p]) /\ Room \in Nat /\ todo[p] \in Seq(Byte)
  BY FullNoRoom DEF TypeOK, PipeWriteSleep, Enter
<1>0. /\ data' \in [0 .. PIPESIZE - 1 -> Byte]
      /\ nread' \in 0 .. COUNTER - 1 /\ nwrite' \in 0 .. COUNTER - 1
      /\ nread' = nread
      /\ Used' = Used + k
      /\ k = 0 => nwrite' = nwrite
  <2>1. CopyIn(p, k)
    BY DEF PipeWriteSleep, Enter
  <2> HIDE DEF k
  <2>2. QED BY <1>a, <2>1, CopyInType
<1>1. TypeOK'
  <2>1. Used' =< PIPESIZE
    <3>1. Room = PIPESIZE - Used /\ Used \in Nat /\ PIPESIZE \in Nat
      BY FullNoRoom, RingAssumption DEF Room
    <3> HIDE DEF k
    <3>2. QED BY <1>0, <1>a, <3>1
  <2>2. pc' \in [Procs -> Places]
    BY DEF PipeWriteSleep, Enter, TypeOK, Places, Reading, Writing, WakeReaders
  <2>3. todo' \in [Procs -> Seq(Byte)] /\ \A q \in Procs: Len(todo'[q]) =< MaxN
    <3>1. /\ SubSeq(todo[p], Room + 1, Len(todo[p])) \in Seq(Byte)
          /\ Len(SubSeq(todo[p], Room + 1, Len(todo[p]))) = Len(todo[p]) - Room
      BY <1>a, RestIsSeq DEF PipeWriteSleep, Enter
    <3>2. Len(todo[p]) - Room =< MaxN
      BY <1>a, CallAssumption DEF TypeOK
    <3>3. QED BY <3>1, <3>2 DEF PipeWriteSleep, Enter, TypeOK
  <2>4. QED BY <1>0, <2>1, <2>2, <2>3 DEF PipeWriteSleep, Enter, TypeOK, ends, files
<1>2. HaveFiles'
  BY DEF TypeOK, HaveFiles, EndsOpen, Reading, Writing, PipeWriteSleep, Enter, ring, ends, files, WakeReaders
<1>3. EndsOpen'
  BY DEF TypeOK, HaveFiles, EndsOpen, Reading, Writing, PipeWriteSleep, Enter, ring, ends, files, WakeReaders
<1>f. Full'
  <2>1. Used' = PIPESIZE
    BY <1>0, <1>a, FullNoRoom, RingAssumption DEF Room
  <2>2. QED BY <1>0, <2>1, RingTests DEF Full, Used
<1>4. NoLostPipeWakeup'
  <2>1. Full'
    BY <1>f
  <2>2. ASSUME NEW q \in Procs, pc'[q] = "readsleep"
        PROVE  writeopen' /\ (gaveup' \/ Empty')
    BY <2>2 DEF TypeOK, HaveFiles, EndsOpen, Reading, Writing, NoLostPipeWakeup, PipeWriteSleep, Enter, ends, files, WakeReaders
  <2>3. ASSUME NEW q \in Procs, pc'[q] = "writesleep"
        PROVE  readopen' /\ Full'
    BY <2>1, <2>3 DEF TypeOK, HaveFiles, EndsOpen, Reading, Writing, NoLostPipeWakeup, PipeWriteSleep, Enter, ends, files, WakeReaders
  <2>4. QED BY <2>2, <2>3 DEF NoLostPipeWakeup
<1>6. MaySleep'
  BY <1>f DEF TypeOK, MaySleep, PipeWriteSleep, Enter, Locked, WakeReaders, ends, files
<1>5. QED BY <1>1, <1>2, <1>3, <1>4, <1>6

\* A write given up: no reader sleeps unless the writer was killed.
LEMMA PipeWriteFailStep == ASSUME IInv, NEW p \in Procs, PipeWriteFail(p) PROVE IInv'
<1> USE DEF IInv
<1> DEFINE k == Room
<1>a. k \in Nat /\ k =< Room /\ k =< Len(todo[p]) /\ Room \in Nat /\ todo[p] \in Seq(Byte)
  BY FullNoRoom DEF TypeOK, PipeWriteFail, Enter
<1>0. /\ data' \in [0 .. PIPESIZE - 1 -> Byte]
      /\ nread' \in 0 .. COUNTER - 1 /\ nwrite' \in 0 .. COUNTER - 1
      /\ nread' = nread
      /\ Used' = Used + k
      /\ k = 0 => nwrite' = nwrite
  <2>1. CopyIn(p, k)
    BY DEF PipeWriteFail, Enter
  <2> HIDE DEF k
  <2>2. QED BY <1>a, <2>1, CopyInType
<1>1. TypeOK'
  <2>1. Used' =< PIPESIZE
    <3>1. Room = PIPESIZE - Used /\ Used \in Nat /\ PIPESIZE \in Nat
      BY FullNoRoom, RingAssumption DEF Room
    <3> HIDE DEF k
    <3>2. QED BY <1>0, <1>a, <3>1
  <2>2. pc' \in [Procs -> Places]
    BY DEF PipeWriteFail, Enter, TypeOK, Places, Reading, Writing
  <2>3. todo' \in [Procs -> Seq(Byte)] /\ \A q \in Procs: Len(todo'[q]) =< MaxN
    BY CallAssumption DEF PipeWriteFail, Enter, TypeOK
  <2>4. QED BY <1>0, <2>1, <2>2, <2>3 DEF PipeWriteFail, Enter, TypeOK, ends, files
<1>2. HaveFiles'
  BY DEF TypeOK, HaveFiles, EndsOpen, Reading, Writing, PipeWriteFail, Enter, ring, ends, files
<1>3. EndsOpen'
  BY DEF TypeOK, HaveFiles, EndsOpen, Reading, Writing, PipeWriteFail, Enter, ring, ends, files
<1>4. NoLostPipeWakeup'
  <2>1. Full => Full'
    BY <1>0, <1>a, FullNoRoom DEF Full
  <2>2. ASSUME NEW q \in Procs, pc'[q] = "readsleep"
        PROVE  writeopen' /\ (gaveup' \/ Empty')
    BY <2>2 DEF TypeOK, HaveFiles, EndsOpen, Reading, Writing, NoLostPipeWakeup, PipeWriteFail, Enter, ends, files
  <2>3. ASSUME NEW q \in Procs, pc'[q] = "writesleep"
        PROVE  readopen' /\ Full'
    BY <2>1, <2>3 DEF TypeOK, HaveFiles, EndsOpen, Reading, Writing, NoLostPipeWakeup, PipeWriteFail, Enter, ends, files
  <2>4. QED BY <2>2, <2>3 DEF NoLostPipeWakeup
<1>6. MaySleep'
  BY <1>0 DEF TypeOK, HaveFiles, EndsOpen, Reading, Writing, MaySleep, PipeWriteFail, Enter, Locked, ring, ends, files
<1>5. QED BY <1>1, <1>2, <1>3, <1>4, <1>6

\* Entering piperead() with the read end open.
LEMMA ReadCallStep == ASSUME IInv, NEW p \in Procs, ReadCall(p) PROVE IInv'
<1> USE DEF IInv
<1>0. UNCHANGED ring /\ Used' = Used /\ (Full' <=> Full) /\ (Empty' <=> Empty)
  BY DEF ReadCall, ring, ends, files, Used, Full, Empty
<1>1. TypeOK'
  BY <1>0, RingAssumption, CallAssumption DEF TypeOK, Places, Reading, Writing, ReadCall, ring, ends, files
<1>2. HaveFiles'
  BY DEF TypeOK, HaveFiles, EndsOpen, Reading, Writing, ReadCall, ring, ends, files
<1>3. EndsOpen'
  BY DEF TypeOK, HaveFiles, EndsOpen, Reading, Writing, ReadCall, ring, ends, files
<1>4. NoLostPipeWakeup'
  BY <1>0 DEF TypeOK, HaveFiles, EndsOpen, Reading, Writing, NoLostPipeWakeup, ReadCall, ring, ends, files
<1>6. MaySleep'
  BY <1>0 DEF TypeOK, HaveFiles, EndsOpen, Reading, Writing, MaySleep, ReadCall, ring, ends, files
<1>5. QED BY <1>1, <1>2, <1>3, <1>4, <1>6

\* A read makes room, and wakes every writer that waited for it.
LEMMA PipeReadStep == ASSUME IInv, NEW p \in Procs, PipeRead(p) PROVE IInv'
<1> USE DEF IInv
<1> DEFINE k == Least(want[p], Used)
<1>a. Used \in Nat /\ Used =< PIPESIZE /\ want[p] \in Nat
  BY FullNoRoom DEF TypeOK
<1>b. k \in Nat /\ k =< Used
  BY <1>a DEF Least
<1>0. nread' \in 0 .. COUNTER - 1 /\ nwrite' \in 0 .. COUNTER - 1 /\ Used' = Used - k
  <2>1. nread \in 0 .. COUNTER - 1 /\ nwrite \in 0 .. COUNTER - 1
    BY DEF TypeOK
  <2>2. nread' = (nread + k) % COUNTER /\ nwrite' = nwrite
    BY DEF PipeRead, Enter
  <2> HIDE DEF k
  <2>3. QED BY <1>a, <1>b, <2>1, <2>2, ReadDrains DEF Used
<1>1. TypeOK'
  <2>1. got' \in Seq(Byte)
    <3>1. got' = [i \in 1 .. k |-> data[Slot(nread + i - 1)]]
      BY DEF PipeRead, Enter
    <3>2. \A i \in 1 .. k: Slot(nread + i - 1) \in 0 .. PIPESIZE - 1
      BY <1>b, RingAssumption DEF Slot, TypeOK
    <3>3. \A i \in 1 .. k: data[Slot(nread + i - 1)] \in Byte
      BY <3>2 DEF TypeOK
    <3> HIDE DEF k
    <3>4. QED BY <1>b, <3>1, <3>3
  <2>2. Used' =< PIPESIZE
    BY <1>0, <1>a, <1>b, RingAssumption
  <2>3. pc' \in [Procs -> Places]
    BY DEF PipeRead, Enter, TypeOK, Places, Reading, Writing, WakeWriters
  <2>4. want' \in [Procs -> 0 .. MaxN]
    BY CallAssumption DEF PipeRead, Enter, TypeOK
  <2>5. QED BY <1>0, <2>1, <2>2, <2>3, <2>4 DEF PipeRead, Enter, TypeOK, ends, files
<1>2. HaveFiles'
  BY DEF TypeOK, HaveFiles, EndsOpen, Reading, Writing, PipeRead, Enter, ring, ends, files, WakeWriters
<1>3. EndsOpen'
  BY DEF TypeOK, HaveFiles, EndsOpen, Reading, Writing, PipeRead, Enter, ring, ends, files, WakeWriters
<1>4. NoLostPipeWakeup'
  BY <1>0 DEF TypeOK, HaveFiles, EndsOpen, Reading, Writing, NoLostPipeWakeup, PipeRead, Enter, ring, ends, files, WakeWriters
<1>6. MaySleep'
  BY <1>0 DEF TypeOK, HaveFiles, EndsOpen, Reading, Writing, MaySleep, PipeRead, Enter, Locked, WakeWriters, ring, ends, files
<1>5. QED BY <1>1, <1>2, <1>3, <1>4, <1>6

\* A reader falls asleep on an empty ring with the write end open.
LEMMA PipeReadWaitStep == ASSUME IInv, NEW p \in Procs, PipeReadWait(p) PROVE IInv'
<1> USE DEF IInv
<1>0. UNCHANGED ring /\ Used' = Used /\ (Full' <=> Full) /\ (Empty' <=> Empty)
  BY DEF PipeReadWait, Enter, ring, ends, files, Used, Full, Empty
<1>1. TypeOK'
  BY <1>0, RingAssumption, CallAssumption DEF TypeOK, Places, Reading, Writing, PipeReadWait, Enter, ring, ends, files
<1>2. HaveFiles'
  BY DEF TypeOK, HaveFiles, EndsOpen, Reading, Writing, PipeReadWait, Enter, ring, ends, files
<1>3. EndsOpen'
  BY DEF TypeOK, HaveFiles, EndsOpen, Reading, Writing, PipeReadWait, Enter, ring, ends, files
<1>4. NoLostPipeWakeup'
  BY <1>0 DEF TypeOK, HaveFiles, EndsOpen, Reading, Writing, NoLostPipeWakeup, PipeReadWait, Enter, ring, ends, files
<1>6. MaySleep'
  BY <1>0 DEF TypeOK, HaveFiles, EndsOpen, Reading, Writing, MaySleep, PipeReadWait, Enter, Locked, ring, ends, files
<1>5. QED BY <1>1, <1>2, <1>3, <1>4, <1>6

\* sleep() with the ring as it was found.
LEMMA SleepStep == ASSUME IInv, NEW p \in Procs, Sleep(p) PROVE IInv'
<1> USE DEF IInv
<1>0. UNCHANGED ring /\ Used' = Used /\ (Full' <=> Full) /\ (Empty' <=> Empty)
  BY DEF Sleep, ring, ends, files, Used, Full, Empty
<1>1. TypeOK'
  BY <1>0, RingAssumption, CallAssumption
     DEF TypeOK, Places, Reading, Writing, Sleep, ring, ends, files
<1>2. HaveFiles'
  BY DEF TypeOK, HaveFiles, EndsOpen, Reading, Writing, Locked, Sleep, ring, ends, files
<1>3. EndsOpen'
  BY DEF TypeOK, HaveFiles, EndsOpen, Reading, Writing, Locked, Sleep, ring, ends, files
<1>4. NoLostPipeWakeup'
  BY <1>0 DEF TypeOK, NoLostPipeWakeup, MaySleep, Locked, Sleep, ring, ends, files
<1>6. MaySleep'
  BY <1>0 DEF TypeOK, MaySleep, Locked, Sleep, ring, ends, files
<1>5. QED BY <1>1, <1>2, <1>3, <1>4, <1>6

\* A killed sleeper leaves its channel and keeps its descriptors.
LEMMA KillStep == ASSUME IInv, NEW p \in Procs, Kill(p) PROVE IInv'
<1> USE DEF IInv
<1>0. UNCHANGED ring /\ Used' = Used /\ (Full' <=> Full) /\ (Empty' <=> Empty)
  BY DEF Kill, ring, ends, files, Used, Full, Empty
<1>1. TypeOK'
  BY <1>0, RingAssumption, CallAssumption DEF TypeOK, Places, Reading, Writing, Kill, ring, ends, files
<1>2. HaveFiles'
  BY DEF TypeOK, HaveFiles, EndsOpen, Reading, Writing, Kill, ring, ends, files
<1>3. EndsOpen'
  BY DEF TypeOK, HaveFiles, EndsOpen, Reading, Writing, Kill, ring, ends, files
<1>4. NoLostPipeWakeup'
  BY <1>0 DEF TypeOK, HaveFiles, EndsOpen, Reading, Writing, NoLostPipeWakeup, Kill, ring, ends, files
<1>6. MaySleep'
  BY <1>0 DEF TypeOK, HaveFiles, EndsOpen, Reading, Writing, MaySleep, Kill, ring, ends, files
<1>5. QED BY <1>1, <1>2, <1>3, <1>4, <1>6

\* A step of other parts of the kernel.
LEMMA StutterStep == ASSUME IInv, UNCHANGED vars PROVE IInv'
BY DEF IInv, vars, TypeOK, HaveFiles, EndsOpen, NoLostPipeWakeup, MaySleep, Used, Full, Empty

(***************************************************************************)
(* The inductive invariant holds in every reachable state.                 *)
(***************************************************************************)
THEOREM PipeInvariance == Spec => []IInv
<1>1. IInv /\ [Next]_vars => IInv'
  <2> SUFFICES ASSUME IInv, [Next]_vars PROVE IInv'
    OBVIOUS
  <2>1. CASE UNCHANGED vars
    BY <2>1, StutterStep
  <2>2. ASSUME NEW p \in Procs, KernelStep(p) PROVE IInv'
    BY <2>2, PipeWriteStep, PipeWriteSleepStep, PipeWriteFailStep, PipeReadStep,
       PipeReadWaitStep, SleepStep, PipeCloseReadStep, PipeCloseWriteStep, KFreeStep
       DEF KernelStep
  <2>3. ASSUME NEW p \in Procs, UserStep(p) PROVE IInv'
    BY <2>3, PipeAllocStep, ForkStep, CloseReadFileStep, CloseWriteFileStep,
       WriteCallStep, ReadCallStep, KillStep
       DEF UserStep
  <2>4. QED BY <2>1, <2>2, <2>3 DEF Next
<1>2. QED BY <1>1, InitIInv, PTL DEF Spec

(***************************************************************************)
(* Type correctness: whatever the counters have wrapped to, the ring never *)
(* holds more than PIPESIZE bytes, and every index into data is in range.  *)
(***************************************************************************)
THEOREM PipeTypeCorrect == Spec => []TypeOK
<1>1. IInv => TypeOK
  BY DEF IInv
<1>2. QED BY <1>1, PipeInvariance, PTL

(***************************************************************************)
(* The sleeps of pipewrite() and piperead() and the wakeups of pipewrite(),*)
(* piperead() and pipeclose() fit: nobody sleeps with something to do,     *)
(* except for the readers that a killed writer left asleep.                *)
(***************************************************************************)
THEOREM PipeNoLostWakeup == Spec => []NoLostPipeWakeup
<1>1. IInv => NoLostPipeWakeup
  BY DEF IInv
<1>2. QED BY <1>1, PipeInvariance, PTL

(***************************************************************************)
(* pipeclose() frees the page once, when nobody can reach the pipe.        *)
(***************************************************************************)
THEOREM PipeNoUseAfterFree == Spec => []NoUseAfterFree
<1>1. IInv => NoUseAfterFree
  <2> SUFFICES ASSUME IInv PROVE NoUseAfterFree
    OBVIOUS
  <2>1. ASSUME NEW p \in Using PROVE page
    BY <2>1 DEF IInv, TypeOK, Places, Reading, Writing, HaveFiles, EndsOpen, Using
  <2>2. ASSUME NEW p \in Procs, pc[p] = "kfree" PROVE Using = {p}
    BY <2>2 DEF IInv, TypeOK, Places, Reading, Writing, HaveFiles, EndsOpen, Using
  <2>3. QED BY <2>1, <2>2 DEF NoUseAfterFree
<1>2. QED BY <1>1, PipeInvariance, PTL

(***************************************************************************)
(* Together: pipealloc(), pipewrite(), piperead() and pipeclose() keep the *)
(* ring within its page, and the page for as long as it is used.           *)
(***************************************************************************)
THEOREM PipeSafe == Spec => []PipeInv
<1>1. TypeOK /\ NoUseAfterFree => PipeInv BY DEF PipeInv
<1>2. QED BY <1>1, PipeTypeCorrect, PipeNoUseAfterFree, PTL

-----------------------------------------------------------------------------
(***************************************************************************)
(* The stream of bytes.  Seen from nread, the slots of the bytes in the    *)
(* ring and of those that fit behind them are all different, on either     *)
(* side of a wrap: this is arithmetic on remainders.                       *)
(***************************************************************************)

LEMMA DivMod ==
    ASSUME NEW N \in Nat \ {0}, NEW x \in Int
    PROVE  /\ x \div N \in Int /\ x % N \in 0..N - 1
           /\ x = N * (x \div N) + (x % N)
<1>1. x \div N \in Int /\ x % N \in Int BY Z3
<1>2. x % N >= 0 BY Z3
<1>3. x % N < N BY Z3
<1>4. x = N * (x \div N) + (x % N) BY Z3
<1> QED BY <1>1, <1>2, <1>3, <1>4

LEMMA Multiple ==
    ASSUME NEW N \in Nat \ {0}, NEW k \in Int, k > 0
    PROVE  N * k \in Int /\ N * k >= N
<1>1. k - 1 \in Nat OBVIOUS
<1>2. N * (k - 1) \in Nat /\ N * k = N * (k - 1) + N BY <1>1
<1> QED BY <1>2

\* Quotient and remainder are unique.
LEMMA DivUnique ==
    ASSUME NEW N \in Nat \ {0}, NEW q \in Int, NEW t \in Int, NEW r \in 0..N - 1,
           NEW s \in 0..N - 1, N * q + r = N * t + s
    PROVE  q = t /\ r = s
<1>0. N * (q - t) = s - r /\ N * (t - q) = r - s OBVIOUS
<1>1. CASE q - t > 0
    <2>1. N * (q - t) >= N BY <1>1, Multiple
    <2> QED BY <2>1, <1>0
<1>2. CASE t - q > 0
    <2>1. N * (t - q) >= N BY <1>2, Multiple
    <2> QED BY <2>1, <1>0
<1> QED BY <1>1, <1>2

LEMMA ModPlusMultiple ==
    ASSUME NEW N \in Nat \ {0}, NEW x \in Int, NEW q \in Int
    PROVE  (x + N * q) % N = x % N
<1> DEFINE a == x \div N
           b == (x + N * q) \div N
           r == x % N
           s == (x + N * q) % N
<1>1. a \in Int /\ r \in 0..N - 1 /\ x = N * a + r BY DivMod
<1>2. x + N * q \in Int OBVIOUS
<1>3. b \in Int /\ s \in 0..N - 1 /\ x + N * q = N * b + s BY <1>2, DivMod
<1> HIDE DEF a, b, r, s
<1>4. a + q \in Int /\ N * (a + q) + r = N * b + s BY <1>1, <1>3
<1>5. s = r BY <1>1, <1>3, <1>4, DivUnique
<1> QED BY <1>5 DEF r, s

\* The remainder of a counter of a multiple of the ring, as of the number itself.
LEMMA ModMod ==
    ASSUME NEW N \in Nat \ {0}, NEW M \in Nat \ {0}, M % N = 0, NEW x \in Int
    PROVE  (x % M) % N = x % N
<1> DEFINE d == M \div N
           e == x \div M
           y == x % M
<1>1. M \in Int OBVIOUS
<1>2. d \in Int /\ M = N * d + (M % N) BY <1>1, DivMod
<1>3. e \in Int /\ y \in 0..M - 1 /\ x = M * e + y BY DivMod
<1> HIDE DEF d, e, y
<1>4. d * e \in Int /\ x = y + N * (d * e)
    <2>1. M = N * d BY <1>2
    <2>2. (N * d) * e = N * (d * e) BY <1>2, <1>3, Z3
    <2>3. M * e = N * (d * e) BY <2>1, <2>2
    <2> QED BY <1>2, <1>3, <2>3
<1>5. y \in Int BY <1>3
<1> DEFINE z == d * e
<1>6. z \in Int /\ x = y + N * z BY <1>4
<1> HIDE DEF z
<1>7. (y + N * z) % N = y % N BY <1>5, <1>6, ModPlusMultiple
<1> QED BY <1>6, <1>7 DEF y

\* Less than a ring apart, two counters have different slots.
LEMMA SlotsApart ==
    ASSUME NEW N \in Nat \ {0}, NEW M \in Nat \ {0}, M % N = 0, NEW c \in Int,
           NEW a \in 0..N - 1, NEW b \in 0..N - 1,
           ((c + a) % M) % N = ((c + b) % M) % N
    PROVE  a = b
<1>1. (c + a) % N = (c + b) % N
    <2>1. c + a \in Int /\ c + b \in Int OBVIOUS
    <2> QED BY <2>1, ModMod
<1> DEFINE x == c + a
           y == c + b
           q == x \div N
           t == y \div N
           r == x % N
<1>2. x \in Int /\ y \in Int OBVIOUS
<1>3. q \in Int /\ r \in 0..N - 1 /\ x = N * q + r BY <1>2, DivMod
<1>4. t \in Int /\ y = N * t + r BY <1>2, <1>1, DivMod
<1>5. x - y = a - b OBVIOUS
<1> HIDE DEF x, y, q, t, r
<1>6. N * (q - t) = a - b /\ N * (t - q) = b - a BY <1>3, <1>4, <1>5
<1>7. q - t \in Int /\ t - q \in Int BY <1>3, <1>4
<1>8. CASE q - t > 0
    <2>1. N * (q - t) >= N BY <1>7, <1>8, Multiple
    <2> QED BY <2>1, <1>6
<1>9. CASE t - q > 0
    <2>1. N * (t - q) >= N BY <1>7, <1>9, Multiple
    <2> QED BY <2>1, <1>6
<1>10. CASE q = t BY <1>6, <1>10, <1>3
<1> QED BY <1>7, <1>8, <1>9, <1>10, <1>3, <1>4

\* A remainder may be taken in between.
LEMMA ModShift ==
    ASSUME NEW M \in Nat \ {0}, NEW x \in Int, NEW y \in Int
    PROVE  ((x % M) + y) % M = (x + y) % M
<1> DEFINE q == x \div M
           r == x % M
<1>1. q \in Int /\ r \in Int /\ x = M * q + r BY DivMod
<1> HIDE DEF q, r
<1>2. x + y = (r + y) + M * q /\ r + y \in Int BY <1>1
<1>3. ((r + y) + M * q) % M = (r + y) % M BY <1>1, <1>2, ModPlusMultiple
<1> QED BY <1>2, <1>3 DEF r

\* The byte t places after nread, counted from a counter u places after it.
LEMMA SlotShift ==
  ASSUME NEW r \in Int, NEW u \in Int, NEW t \in Int
  PROVE  Slot(((r + u) % COUNTER) + t) = Slot((r + u) + t)
<1>1. r + u \in Int /\ COUNTER \in Nat \ {0}
  BY RingAssumption
<1>2. (((r + u) % COUNTER) + t) % COUNTER = ((r + u) + t) % COUNTER
  BY <1>1, ModShift
<1>3. QED BY <1>2 DEF Slot

\* Within one ring, different places are different slots.
LEMMA SlotsDiffer ==
  ASSUME NEW r \in Int, NEW a \in 0 .. PIPESIZE - 1, NEW b \in 0 .. PIPESIZE - 1,
         Slot(r + a) = Slot(r + b)
  PROVE  a = b
<1>1. PIPESIZE \in Nat \ {0} /\ COUNTER \in Nat \ {0} /\ COUNTER % PIPESIZE = 0
  BY RingAssumption
<1>2. QED BY <1>1, SlotsApart DEF Slot

LEMMA SlotInRing ==
  ASSUME NEW x \in Int
  PROVE  Slot(x) \in 0 .. PIPESIZE - 1
<1>1. PIPESIZE \in Nat \ {0} /\ COUNTER \in Nat \ {0}
  BY RingAssumption
<1>2. x % COUNTER \in Int
  BY <1>1, DivMod
<1>3. QED BY <1>1, <1>2, DivMod DEF Slot

\* nwrite is Used places after nread.
LEMMA WriterAt ==
  ASSUME TypeOK
  PROVE  nwrite = (nread + Used) % COUNTER
<1>1. nread \in Int /\ nwrite \in Int /\ COUNTER \in Nat \ {0} /\ nwrite \in 0 .. COUNTER - 1
  BY RingAssumption DEF TypeOK
<1>2. nwrite - nread \in Int /\ (nwrite - nread) + nread = nwrite
  BY <1>1
<1>3. (((nwrite - nread) % COUNTER) + nread) % COUNTER = ((nwrite - nread) + nread) % COUNTER
  BY <1>1, <1>2, ModShift
<1>4. nwrite % COUNTER = nwrite
  BY <1>1, ModSmall
<1>5. Used + nread = nread + Used
  BY <1>1, FullNoRoom
<1>6. QED BY <1>2, <1>3, <1>4, <1>5 DEF Used

\* u bytes of a ring, from counter r on.
Bytes(d, r, u) == [i \in 1 .. u |-> d[Slot(r + i - 1)]]

LEMMA BytesAreSeq ==
  ASSUME NEW d \in [0 .. PIPESIZE - 1 -> Byte], NEW r \in Int, NEW u \in Nat
  PROVE  Bytes(d, r, u) \in Seq(Byte) /\ Len(Bytes(d, r, u)) = u
<1>1. ASSUME NEW i \in 1 .. u PROVE d[Slot(r + i - 1)] \in Byte
  <2>1. r + i - 1 \in Int
    OBVIOUS
  <2>2. QED BY <2>1, SlotInRing
<1>2. QED BY <1>1 DEF Bytes

\* What the copy loop of pipewrite() puts into the slots.
LEMMA CopyInSlots ==
  ASSUME TypeOK, NEW p \in Procs, NEW k \in Nat, k =< Room, k =< Len(todo[p]), CopyIn(p, k),
         NEW t \in 0 .. (Used + k) - 1
  PROVE  data'[Slot(nread + t)] =
           IF t < Used THEN data[Slot(nread + t)] ELSE todo[p][(t - Used) + 1]
<1>1. PICK r \in 0 .. COUNTER - 1 : r = nread
  BY DEF TypeOK
<1>2. PICK u \in Nat : u = Used /\ u =< PIPESIZE /\ k =< PIPESIZE - u /\ nwrite = (r + u) % COUNTER
  BY <1>1, FullNoRoom, WriterAt DEF TypeOK, Room
<1>3. PIPESIZE \in Nat \ {0} /\ COUNTER \in Nat \ {0} /\ r \in Int /\ u \in Int
  BY RingAssumption
<1>4. t \in 0 .. (u + k) - 1 /\ t \in 0 .. PIPESIZE - 1 /\ t \in Int
  BY <1>2, <1>3
<1> DEFINE j == Slot(r + t)
           new == {i \in 1 .. k : Slot(nwrite + i - 1) = j}
<1>5. j \in 0 .. PIPESIZE - 1
  <2>1. r + t \in Int
    BY <1>3, <1>4
  <2>2. QED BY <2>1, SlotInRing
<1>6. data'[j] = IF new = {} THEN data[j] ELSE todo[p][CHOOSE i \in new : TRUE]
  BY <1>5 DEF CopyIn
<1>7. ASSUME NEW i \in 1 .. k
      PROVE  Slot(nwrite + i - 1) = j <=> t = u + i - 1
  <2>1. i - 1 \in Int /\ u + i - 1 \in 0 .. PIPESIZE - 1 /\ nwrite \in Int
    BY <1>2, <1>3 DEF TypeOK
  <2>2. nwrite + i - 1 = nwrite + (i - 1) /\ (r + u) + (i - 1) = r + (u + i - 1)
    BY <1>3, <2>1
  <2>3. Slot(((r + u) % COUNTER) + (i - 1)) = Slot((r + u) + (i - 1))
    BY <1>3, <2>1, SlotShift
  <2>4. Slot(nwrite + i - 1) = Slot(r + (u + i - 1))
    BY <1>2, <2>2, <2>3
  <2> DEFINE z == u + i - 1
  <2>5. z \in 0 .. PIPESIZE - 1 /\ Slot(nwrite + i - 1) = Slot(r + z)
    BY <2>1, <2>4
  <2> HIDE DEF z
  <2>6. Slot(r + z) = Slot(r + t) <=> z = t
    BY <1>3, <1>4, <2>5, SlotsDiffer
  <2>7. QED BY <2>5, <2>6 DEF z
<1>8. CASE t < u
  <2>1. \A i \in 1 .. k : ~(t = u + i - 1)
    BY <1>8, <1>4
  <2>2. new = {}
    BY <1>7, <2>1
  <2>3. QED BY <1>1, <1>2, <1>6, <1>8, <2>2
<1>9. CASE ~(t < u)
  <2>1. (t - u) + 1 \in 1 .. k /\ t = u + ((t - u) + 1) - 1
    BY <1>4, <1>9
  <2>2. \A i \in 1 .. k : t = u + i - 1 => i = (t - u) + 1
    BY <1>4
  <2>3. new = {(t - u) + 1}
    BY <1>7, <2>1, <2>2
  <2>4. (CHOOSE i \in new : TRUE) = (t - u) + 1
    BY <2>3
  <2>5. new # {}
    BY <2>3
  <2> HIDE DEF new
  <2>6. data'[j] = todo[p][(t - u) + 1]
    BY <1>6, <2>4, <2>5
  <2>7. QED BY <1>1, <1>2, <1>9, <2>6
<1>10. QED BY <1>8, <1>9

\* ... is appended to the bytes that wait in the ring.
LEMMA CopyInAppends ==
  ASSUME TypeOK, NEW p \in Procs, NEW k \in Nat, k =< Room, k =< Len(todo[p]), CopyIn(p, k)
  PROVE  Bytes(data', nread', Used') = Bytes(data, nread, Used) \o SubSeq(todo[p], 1, k)
<1>1. /\ data' \in [0 .. PIPESIZE - 1 -> Byte] /\ nread' = nread /\ Used' = Used + k
      /\ data \in [0 .. PIPESIZE - 1 -> Byte] /\ nread \in Int /\ Used \in Nat
      /\ todo[p] \in Seq(Byte)
  BY CopyInType, FullNoRoom DEF TypeOK
<1>2. PICK u \in Nat : u = Used
  BY <1>1
<1> DEFINE s == Bytes(data, nread, u)
           v == Bytes(data', nread, u + k)
           w == SubSeq(todo[p], 1, k)
<1>3. s \in Seq(Byte) /\ Len(s) = u
  BY <1>1, BytesAreSeq
<1>4. v \in Seq(Byte) /\ Len(v) = u + k
  <2>1. u + k \in Nat
    OBVIOUS
  <2>2. QED BY <1>1, <2>1, BytesAreSeq
<1>5. w \in Seq(Byte) /\ Len(w) = k /\ \A i \in 1 .. k : w[i] = todo[p][i]
  BY <1>1
<1>6. \A i \in 1 .. u : s[i] = data[Slot(nread + i - 1)]
  BY DEF Bytes
<1>7. \A i \in 1 .. u + k : v[i] = data'[Slot(nread + i - 1)]
  BY DEF Bytes
<1> HIDE DEF s, v, w
<1>8. s \o w \in Seq(Byte) /\ Len(s \o w) = u + k
  BY <1>3, <1>5
<1>9. ASSUME NEW i \in 1 .. u + k PROVE (s \o w)[i] = v[i]
  <2>1. i - 1 \in 0 .. (Used + k) - 1 /\ nread + (i - 1) = nread + i - 1
    BY <1>1, <1>2
  <2>2. v[i] = IF i - 1 < u THEN data[Slot(nread + i - 1)] ELSE todo[p][((i - 1) - u) + 1]
    BY <1>2, <1>7, <2>1, CopyInSlots
  <2>3. CASE i =< u
    <3>1. i \in 1 .. u /\ i - 1 < u
      BY <2>3
    <3>2. (s \o w)[i] = s[i]
      BY <1>3, <1>5, <3>1
    <3>3. QED BY <1>6, <2>2, <3>1, <3>2
  <2>4. CASE i > u
    <3>1. i - u \in 1 .. k /\ ((i - 1) - u) + 1 = i - u /\ ~(i - 1 < u)
      BY <2>4
    <3>2. (s \o w)[i] = w[i - u]
      BY <1>3, <1>5, <3>1, <2>4
    <3>3. w[i - u] = todo[p][i - u]
      BY <1>5, <3>1
    <3>4. QED BY <2>2, <3>1, <3>2, <3>3
  <2>5. i =< u \/ i > u
    OBVIOUS
  <2>6. QED BY <2>3, <2>4, <2>5, Zenon
<1>10. s \o w = v
  BY <1>4, <1>8, <1>9, SeqEqual
<1>11. QED BY <1>1, <1>2, <1>10 DEF s, v, w

\* What piperead() takes from the front, and what stays.
LEMMA ReadTakes ==
  ASSUME NEW d \in [0 .. PIPESIZE - 1 -> Byte], NEW r \in Int, NEW u \in Nat, NEW k \in 0 .. u
  PROVE  /\ Bytes(d, r, k) = SubSeq(Bytes(d, r, u), 1, k)
         /\ Bytes(d, (r + k) % COUNTER, u - k) = SubSeq(Bytes(d, r, u), k + 1, u)
<1> DEFINE c == (r + k) % COUNTER
           n == u - k
           s == Bytes(d, r, u)
           x == Bytes(d, r, k)
           y == Bytes(d, c, n)
<1>1. k \in Nat /\ n \in Nat /\ k \in Int /\ c \in Int /\ k =< u /\ COUNTER \in Nat \ {0}
  <2>1. COUNTER \in Nat \ {0} /\ r + k \in Int
    BY RingAssumption
  <2>2. c \in Int
    BY <2>1, DivMod
  <2>3. QED BY <2>1, <2>2
<1>2. s \in Seq(Byte) /\ Len(s) = u
  BY BytesAreSeq
<1>3. x \in Seq(Byte) /\ Len(x) = k
  BY <1>1, BytesAreSeq
<1>4. y \in Seq(Byte) /\ Len(y) = n
  <2> HIDE DEF c, n
  <2>1. QED BY <1>1, BytesAreSeq
<1>5. /\ \A i \in 1 .. u : s[i] = d[Slot(r + i - 1)]
      /\ \A i \in 1 .. k : x[i] = d[Slot(r + i - 1)]
      /\ \A i \in 1 .. n : y[i] = d[Slot(c + i - 1)]
  BY DEF Bytes
<1>6. ASSUME NEW i \in 1 .. n PROVE y[i] = s[k + i]
  <2>1. k + i \in 1 .. u /\ i - 1 \in Int /\ (r + k) + (i - 1) = r + (k + i) - 1
    BY <1>1
  <2>2. c + i - 1 = c + (i - 1)
    <3> HIDE DEF c
    <3>1. QED BY <1>1
  <2>3. Slot(c + (i - 1)) = Slot((r + k) + (i - 1))
    BY <1>1, <2>1, SlotShift
  <2>4. y[i] = d[Slot(c + i - 1)] /\ s[k + i] = d[Slot(r + (k + i) - 1)]
    <3> HIDE DEF s, x, y, c, n
    <3>1. QED BY <1>5, <2>1
  <2>5. QED BY <2>1, <2>2, <2>3, <2>4
<1>7. ASSUME NEW i \in 1 .. k PROVE x[i] = s[i]
  <2> HIDE DEF s, x, y, c, n
  <2>1. i \in 1 .. u
    BY <1>1
  <2>2. QED BY <1>5, <2>1
<1>8. n = u - k
  OBVIOUS
<1> HIDE DEF s, x, y, c, n
<1> DEFINE f == SubSeq(s, 1, k)
           g == SubSeq(s, k + 1, u)
<1>9. f \in Seq(Byte) /\ Len(f) = k /\ \A i \in 1 .. k : f[i] = s[i]
  BY <1>1, <1>2
<1>10. g \in Seq(Byte) /\ Len(g) = n /\ \A i \in 1 .. n : g[i] = s[k + i]
  BY <1>1, <1>2, <1>8
<1> HIDE DEF f, g
<1>11. x = f
  BY <1>3, <1>7, <1>9, SeqEqual
<1>12. y = g
  BY <1>4, <1>6, <1>10, SeqEqual
<1>13. QED BY <1>11, <1>12 DEF s, x, y, c, n, f, g

-----------------------------------------------------------------------------
(* Refinement.                                                             *)

\* Who is not in pipewrite() has nothing left to write.
WritesDone == \A p \in Procs: pc[p] \notin Writing => todo[p] = <<>>

LEMMA InitWritesDone == Init => WritesDone
BY DEF Init, WritesDone

LEMMA WritesDoneStep == ASSUME IInv, WritesDone, [Next]_vars PROVE WritesDone'
<1> USE DEF IInv, TypeOK, WritesDone, Writing
<1>1. CASE UNCHANGED vars
  BY <1>1 DEF vars
<1>2. ASSUME NEW p \in Procs, KernelStep(p) PROVE WritesDone'
  <2>1. CASE PipeWrite(p) BY <2>1 DEF PipeWrite, Enter, WakeReaders
  <2>2. CASE PipeWriteSleep(p) BY <2>2 DEF PipeWriteSleep, Enter, WakeReaders
  <2>3. CASE PipeWriteFail(p) BY <2>3 DEF PipeWriteFail, Enter
  <2>4. CASE PipeRead(p) BY <2>4 DEF PipeRead, Enter, WakeWriters
  <2>10. CASE Sleep(p) BY <2>10 DEF Sleep, Locked
  <2>5. CASE PipeReadWait(p) BY <2>5 DEF PipeReadWait, Enter
  <2>6. CASE PipeCloseRead(p) BY <2>6 DEF PipeCloseRead, Enter, WakeWriters
  <2>7. CASE PipeCloseWrite(p) BY <2>7 DEF PipeCloseWrite, Enter, WakeReaders
  <2>8. CASE KFree(p) BY <2>8 DEF KFree
  <2>9. QED BY <1>2, <2>1, <2>2, <2>3, <2>4, <2>5, <2>6, <2>7, <2>8, <2>10 DEF KernelStep
<1>3. ASSUME NEW p \in Procs, UserStep(p) PROVE WritesDone'
  <2>1. CASE PipeAlloc(p) BY <2>1 DEF PipeAlloc
  <2>2. CASE \E q \in Procs: Fork(p, q) BY <2>2 DEF Fork
  <2>3. CASE CloseReadFile(p) BY <2>3 DEF CloseReadFile
  <2>4. CASE CloseWriteFile(p) BY <2>4 DEF CloseWriteFile
  <2>5. CASE WriteCall(p) BY <2>5 DEF WriteCall
  <2>6. CASE ReadCall(p) BY <2>6 DEF ReadCall
  <2>7. CASE Kill(p) BY <2>7 DEF Kill
  <2>8. QED BY <1>3, <2>1, <2>2, <2>3, <2>4, <2>5, <2>6, <2>7 DEF UserStep
<1>4. QED BY <1>1, <1>2, <1>3 DEF Next

LEMMA ContentsIs ==
  /\ Contents = IF readopen \/ writeopen THEN Bytes(data, nread, Used) ELSE <<>>
  /\ Contents' = IF readopen' \/ writeopen' THEN Bytes(data', nread', Used') ELSE <<>>
BY DEF Contents, Bytes, Used

LEMMA ContentsLen ==
  ASSUME TypeOK, readopen \/ writeopen
  PROVE  Contents = Bytes(data, nread, Used) /\ Contents \in Seq(Byte) /\ Len(Contents) = Used
<1>1. data \in [0 .. PIPESIZE - 1 -> Byte] /\ nread \in Int /\ Used \in Nat
  BY FullNoRoom DEF TypeOK
<1>2. Contents = Bytes(data, nread, Used)
  BY ContentsIs
<1>3. QED BY <1>1, <1>2, BytesAreSeq

\* Moving k bytes into the ring, whatever happens to the rest, is a Send.
LEMMA CopyInIsSend ==
  ASSUME IInv, NEW p \in Procs, pc[p] = "write", NEW k \in Nat, k =< Room, k =< Len(todo[p]),
         CopyIn(p, k), UNCHANGED <<readopen, writeopen, got>>,
         \/ todo' = [todo EXCEPT ![p] = SubSeq(todo[p], k + 1, Len(todo[p]))]
         \/ todo' = [todo EXCEPT ![p] = <<>>] /\ k = Room
  PROVE  Abstract!Send(p)
<1>1. writeopen /\ TypeOK
  BY DEF IInv, Reading, Writing, HaveFiles, EndsOpen
<1>2. Contents = Bytes(data, nread, Used) /\ Contents \in Seq(Byte) /\ Len(Contents) = Used
  BY <1>1, ContentsLen
<1>3. Contents' = Contents \o SubSeq(todo[p], 1, k)
  BY <1>1, <1>2, ContentsIs, CopyInAppends
<1>4. todo[p] \in Seq(Byte) /\ k \in 0 .. Len(todo[p])
  BY <1>1 DEF TypeOK
<1>5. Used \in Nat /\ PIPESIZE \in Nat /\ Len(Contents) + k =< PIPESIZE
  BY <1>1, <1>2, FullNoRoom, RingAssumption DEF Room
<1>6. k = Room => Len(Contents') = PIPESIZE
  <2>1. SubSeq(todo[p], 1, k) \in Seq(Byte) /\ Len(SubSeq(todo[p], 1, k)) = k
    BY <1>4
  <2>2. Len(Contents \o SubSeq(todo[p], 1, k)) = Used + k
    BY <1>2, <2>1
  <2>3. k = Room => Used + k = PIPESIZE
    BY <1>5 DEF Room
  <2>4. QED BY <1>3, <2>2, <2>3
<1>7. Abstract!Drop(todo[p], k) = SubSeq(todo[p], k + 1, Len(todo[p]))
  BY DEF Abstract!Drop
<1>8. QED BY <1>1, <1>3, <1>4, <1>5, <1>6, <1>7 DEF Abstract!Send

\* A write that fits, the piece before a sleep, and a write given up.
LEMMA WritesSend ==
  ASSUME IInv, NEW p \in Procs, PipeWrite(p) \/ PipeWriteSleep(p) \/ PipeWriteFail(p)
  PROVE  Abstract!Send(p)
<1>0. TypeOK /\ Room \in Nat /\ todo[p] \in Seq(Byte) /\ Len(todo[p]) \in Nat
  BY FullNoRoom DEF IInv, TypeOK
<1>1. CASE PipeWrite(p)
  <2> DEFINE k == Len(todo[p])
  <2>1. /\ pc[p] = "write" /\ k \in Nat /\ k =< Room /\ k =< Len(todo[p]) /\ CopyIn(p, k)
        /\ UNCHANGED <<readopen, writeopen, got>>
    BY <1>0, <1>1 DEF PipeWrite, Enter, ends
  <2>2. SubSeq(todo[p], k + 1, Len(todo[p])) = <<>>
    BY <1>0
  <2>3. todo' = [todo EXCEPT ![p] = SubSeq(todo[p], k + 1, Len(todo[p]))]
    BY <1>1, <2>2 DEF PipeWrite, Enter
  <2> HIDE DEF k
  <2>4. QED BY <2>1, <2>3, CopyInIsSend
<1>2. CASE PipeWriteSleep(p) \/ PipeWriteFail(p)
  <2>1. /\ pc[p] = "write" /\ Room =< Len(todo[p]) /\ CopyIn(p, Room)
        /\ UNCHANGED <<readopen, writeopen, got>>
    BY <1>0, <1>2 DEF PipeWriteSleep, Enter, PipeWriteFail, ends
  <2>2. \/ todo' = [todo EXCEPT ![p] = SubSeq(todo[p], Room + 1, Len(todo[p]))]
        \/ todo' = [todo EXCEPT ![p] = <<>>]
    BY <1>2 DEF PipeWriteSleep, Enter, PipeWriteFail
  <2>3. PICK k \in Nat : k = Room
    BY <1>0
  <2>4. k =< Room /\ k =< Len(todo[p]) /\ CopyIn(p, k)
    BY <2>1, <2>3
  <2>5. \/ todo' = [todo EXCEPT ![p] = SubSeq(todo[p], k + 1, Len(todo[p]))]
        \/ todo' = [todo EXCEPT ![p] = <<>>] /\ k = Room
    BY <2>2, <2>3
  <2>6. QED BY <2>1, <2>4, <2>5, CopyInIsSend
<1>3. QED BY <1>1, <1>2

LEMMA ReadReceives == ASSUME IInv, NEW p \in Procs, PipeRead(p) PROVE Abstract!Receive
<1> DEFINE k == Least(want[p], Used)
<1>1. readopen /\ TypeOK
  BY DEF IInv, Reading, Writing, HaveFiles, EndsOpen, PipeRead, Enter
<1>2. Contents = Bytes(data, nread, Used) /\ Len(Contents) = Used
  BY <1>1, ContentsLen
<1>3. /\ got' = Bytes(data, nread, k)
      /\ nread' = (nread + k) % COUNTER /\ data' = data /\ nwrite' = nwrite
      /\ UNCHANGED <<todo, readopen, writeopen>>
  BY DEF PipeRead, Enter, Bytes, ends
<1>4. Used \in Nat /\ want[p] \in Nat /\ nread \in Int /\ data \in [0 .. PIPESIZE - 1 -> Byte]
  BY <1>1, FullNoRoom DEF TypeOK
<1>5. k \in 0 .. Used
  BY <1>4 DEF Least
<1>6. Used' = Used - k
  <2>1. nread \in 0 .. COUNTER - 1 /\ nwrite \in 0 .. COUNTER - 1 /\ Used =< PIPESIZE
    BY <1>1 DEF TypeOK
  <2>2. k \in Nat /\ k =< Used
    BY <1>4, <1>5
  <2> HIDE DEF k
  <2>3. QED BY <1>3, <2>1, <2>2, ReadDrains DEF Used
<1> HIDE DEF k
<1>7. PICK u \in Nat : u = Used
  BY <1>4
<1>8. /\ Bytes(data, nread, k) = SubSeq(Bytes(data, nread, u), 1, k)
      /\ Bytes(data, (nread + k) % COUNTER, u - k) = SubSeq(Bytes(data, nread, u), k + 1, u)
  BY <1>4, <1>5, <1>7, ReadTakes
<1>9. got' = SubSeq(Contents, 1, k)
  BY <1>2, <1>3, <1>7, <1>8
<1>10. Contents' = Bytes(data', nread', Used')
  BY <1>1, <1>3, ContentsIs
<1>11. Contents' = Abstract!Drop(Contents, k)
  BY <1>2, <1>3, <1>6, <1>7, <1>8, <1>10 DEF Abstract!Drop
<1>12. QED BY <1>1, <1>2, <1>3, <1>5, <1>9, <1>11 DEF Abstract!Receive

\* kill() of a writer asleep: the rest of its write is given up, with a full ring.
LEMMA KillGivesUp ==
  ASSUME IInv, NEW p \in Procs, Kill(p)
  PROVE  Abstract!Send(p) \/ UNCHANGED Abstract!vars
<1>1. TypeOK
  BY DEF IInv
<1>2. UNCHANGED <<data, nread, nwrite, readopen, writeopen, got>>
  BY DEF Kill, ring, ends
<1>3. Contents' = Contents
  BY <1>2 DEF Contents, Used
<1>4. CASE pc[p] # "writesleep"
  <2>1. todo' = todo
    BY <1>1, <1>4 DEF Kill, TypeOK
  <2>2. QED BY <1>2, <1>3, <2>1 DEF Abstract!vars
<1>5. CASE pc[p] = "writesleep"
  <2>1. writeopen /\ Full
    BY <1>5 DEF IInv, Reading, Writing, HaveFiles, EndsOpen, NoLostPipeWakeup
  <2>2. todo' = [todo EXCEPT ![p] = <<>>]
    BY <1>5 DEF Kill
  <2>3. Contents \in Seq(Byte) /\ Len(Contents) = Used
    BY <1>1, <2>1, ContentsLen
  <2>4. Used = PIPESIZE /\ PIPESIZE \in Nat
    BY <1>1, <2>1, FullNoRoom, RingAssumption DEF Room, TypeOK
  <2>5. todo[p] \in Seq(Byte) /\ 0 \in 0 .. Len(todo[p])
    BY <1>1 DEF TypeOK
  <2>6. Contents' = Contents \o SubSeq(todo[p], 1, 0)
    <3>1. SubSeq(todo[p], 1, 0) = <<>>
      BY <2>5
    <3>2. QED BY <1>3, <2>3, <3>1
  <2>7. Len(Contents) + 0 =< PIPESIZE /\ Len(Contents') = PIPESIZE
    BY <1>3, <2>3, <2>4
  <2>8. QED BY <1>2, <2>1, <2>2, <2>5, <2>6, <2>7 DEF Abstract!Send
<1>6. QED BY <1>4, <1>5

LEMMA StreamStep ==
  ASSUME IInv, WritesDone, [Next]_vars
  PROVE  [Abstract!Next]_(Abstract!vars)
<1>1. CASE UNCHANGED <<data, nread, nwrite, readopen, writeopen, todo, got>>
  <2>1. Contents' = Contents
    BY <1>1 DEF Contents, Used
  <2>2. QED BY <1>1, <2>1 DEF Abstract!vars
<1>2. ASSUME NEW p \in Procs, KernelStep(p) PROVE [Abstract!Next]_(Abstract!vars)
  <2>1. CASE PipeWrite(p) \/ PipeWriteSleep(p) \/ PipeWriteFail(p)
    BY <2>1, WritesSend DEF Abstract!Next
  <2>2. CASE PipeRead(p)
    BY <2>2, ReadReceives DEF Abstract!Next
  <2>3. CASE PipeReadWait(p) \/ Sleep(p) \/ KFree(p)
    BY <1>1, <2>3 DEF PipeReadWait, Sleep, KFree, ring, ends
  <2>4. CASE PipeCloseRead(p)
    <3>1. /\ readopen /\ readopen' = FALSE /\ writeopen \in BOOLEAN
          /\ UNCHANGED <<data, nread, nwrite, writeopen, todo, got>>
      BY <2>4 DEF IInv, TypeOK, EndsOpen, PipeCloseRead, Enter, ring
    <3>2. Contents' = IF writeopen THEN Contents ELSE <<>>
      BY <3>1 DEF Contents, Used
    <3>3. QED BY <3>1, <3>2 DEF Abstract!Next, Abstract!CloseRead
  <2>5. CASE PipeCloseWrite(p)
    <3>1. /\ writeopen /\ writeopen' = FALSE /\ readopen \in BOOLEAN
          /\ UNCHANGED <<data, nread, nwrite, readopen, todo, got>>
      BY <2>5 DEF IInv, TypeOK, EndsOpen, PipeCloseWrite, Enter, ring
    <3>2. Contents' = IF readopen THEN Contents ELSE <<>>
      BY <3>1 DEF Contents, Used
    <3>3. QED BY <3>1, <3>2 DEF Abstract!Next, Abstract!CloseWrite
  <2>6. QED BY <1>2, <2>1, <2>2, <2>3, <2>4, <2>5 DEF KernelStep
<1>3. ASSUME NEW p \in Procs, UserStep(p) PROVE [Abstract!Next]_(Abstract!vars)
  <2>1. CASE PipeAlloc(p)
    <3>1. /\ ~readopen /\ ~writeopen /\ readopen' = TRUE /\ writeopen' = TRUE
          /\ nread' = 0 /\ nwrite' = 0 /\ UNCHANGED <<todo, got>>
      BY <2>1 DEF IInv, TypeOK, EndsOpen, PipeAlloc
    <3>2. Used' = 0
      BY <3>1, ModSmall, RingAssumption DEF Used
    <3>3. Contents' = <<>>
      BY <3>1, <3>2 DEF Contents
    <3>4. QED BY <3>1, <3>3 DEF Abstract!Next, Abstract!Open
  <2>2. CASE WriteCall(p)
    <3>1. /\ writeopen /\ todo[p] = <<>> /\ todo \in [Procs -> Seq(Byte)]
          /\ UNCHANGED <<data, nread, nwrite, readopen, writeopen, got>>
      BY <2>2 DEF IInv, TypeOK, EndsOpen, WritesDone, Writing, WriteCall, ring, ends
    <3>2. PICK s \in Strings : todo' = [todo EXCEPT ![p] = s]
      BY <2>2 DEF WriteCall
    <3>3. todo'[p] \in Seq(Byte) /\ todo' = [todo EXCEPT ![p] = todo'[p]]
      BY <3>1, <3>2, StringsAreSeqs
    <3>4. Contents' = Contents
      BY <3>1 DEF Contents, Used
    <3>5. QED BY <3>1, <3>3, <3>4 DEF Abstract!Next, Abstract!Offer
  <2>3. CASE Kill(p)
    BY <2>3, KillGivesUp DEF Abstract!Next
  <2>4. CASE (\E q \in Procs: Fork(p, q)) \/ CloseReadFile(p) \/ CloseWriteFile(p) \/ ReadCall(p)
    BY <1>1, <2>4 DEF Fork, CloseReadFile, CloseWriteFile, ReadCall, ring, ends
  <2>5. QED BY <1>3, <2>1, <2>2, <2>3, <2>4 DEF UserStep
<1>4. CASE UNCHANGED vars
  BY <1>1, <1>4 DEF vars
<1>5. QED BY <1>2, <1>3, <1>4 DEF Next

(***************************************************************************)
(* The pipe implements ByteStream for every ring size, modulus and number  *)
(* of processes: every byte of every pipewrite() that was not given up     *)
(* comes out of piperead() once, in order, and a write is given up only    *)
(* with a full ring.                                                       *)
(***************************************************************************)
THEOREM PipeDeliversStream == Spec => DeliversStream
<1>1. Init => Abstract!Init
  BY DEF Init, Abstract!Init, Contents
<1>2. IInv /\ WritesDone /\ [Next]_vars => WritesDone'
  BY WritesDoneStep
<1>3. IInv /\ WritesDone /\ [Next]_vars => [Abstract!Next]_(Abstract!vars)
  BY StreamStep
<1>4. QED BY <1>1, <1>2, <1>3, InitWritesDone, PipeInvariance, PTL
          DEF Spec, DeliversStream, Abstract!Spec
=============================================================================
