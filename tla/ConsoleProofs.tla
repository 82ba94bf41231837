--------------------------- MODULE ConsoleProofs ---------------------------
(* Proofs about Console, for any number of processes and windows, any ring     *)
(* and any width of its counters that ConsoleAssumption admits.                *)
(*                                                                             *)
(* Two invariants, independent of each other. RingInv: seen from r, the        *)
(* counters w and e come in this order and within one ring, and what is being  *)
(* edited holds no end of line (so that C('U') erases all of it). With the     *)
(* arithmetic of wrapping counters this gives the refinement of                *)
(* LineDiscipline. WinInv: until somebody uses the screen within splitw(), one *)
(* process at a time is there, and the screen it left is saved; this makes     *)
(* WindowsKept inductive.                                                      *)
EXTENDS Console, SequenceTheorems, WellFoundedInduction, TLAPS

-----------------------------------------------------------------------------
(* Least elements.                                                             *)

LEMMA NatLeast ==
    ASSUME NEW T, T \subseteq Nat, T # {}
    PROVE  \E x \in T : \A y \in T : x <= y
<1>1. PICK x \in T : \A y \in T : ~(<<y, x>> \in OpToRel(<, Nat))
    BY NatLessThanWellFounded, WFMin, Zenon
<1>2. ASSUME NEW y \in T PROVE x <= y
    <2>1. ~(<<y, x>> \in OpToRel(<, Nat)) BY <1>1
    <2> QED BY <2>1 DEF OpToRel
<1> QED BY <1>2

LEMMA MinOf ==
    ASSUME NEW T, T \subseteq Nat, T # {}
    PROVE  Min(T) \in T /\ \A y \in T : Min(T) <= y
<1>1. \E x \in T : \A y \in T : x <= y BY NatLeast
<1> QED BY <1>1 DEF Min

\* The uses of Max: the cursor never goes left of the first cell.
LEMMA MaxOfTwo ==
    ASSUME NEW a \in Int, NEW b \in Int
    PROVE  Max({a, b}) = IF a >= b THEN a ELSE b
<1>1. \E x \in {a, b} : \A y \in {a, b} : x >= y OBVIOUS
<1>2. Max({a, b}) \in {a, b} /\ \A y \in {a, b} : Max({a, b}) >= y BY <1>1 DEF Max
<1> QED BY <1>2

LEMMA MaxOfOne == Max({0}) = 0
<1>1. \E x \in {0} : \A y \in {0} : x >= y OBVIOUS
<1> QED BY <1>1 DEF Max

-----------------------------------------------------------------------------
(* Division and remainder.                                                     *)

LEMMA DivMod ==
    ASSUME NEW N \in Nat \ {0}, NEW x \in Int
    PROVE  /\ x \div N \in Int /\ x % N \in 0..N - 1
           /\ x = N * (x \div N) + (x % N)
<1>1. x \div N \in Int /\ x % N \in Int BY Z3
<1>2. x % N >= 0 BY Z3
<1>3. x % N < N BY Z3
<1>4. x = N * (x \div N) + (x % N) BY Z3
<1> QED BY <1>1, <1>2, <1>3, <1>4

LEMMA Multiple ==
    ASSUME NEW N \in Nat \ {0}, NEW k \in Int, k > 0
    PROVE  N * k \in Int /\ N * k >= N
<1>1. k - 1 \in Nat OBVIOUS
<1>2. N * (k - 1) \in Nat /\ N * k = N * (k - 1) + N BY <1>1
<1> QED BY <1>2

\* Quotient and remainder are unique.
LEMMA DivUnique ==
    ASSUME NEW N \in Nat \ {0}, NEW q \in Int, NEW t \in Int, NEW r \in 0..N - 1,
           NEW s \in 0..N - 1, N * q + r = N * t + s
    PROVE  q = t /\ r = s
<1>0. N * (q - t) = s - r /\ N * (t - q) = r - s OBVIOUS
<1>1. CASE q - t > 0
    <2>1. N * (q - t) >= N BY <1>1, Multiple
    <2> QED BY <2>1, <1>0
<1>2. CASE t - q > 0
    <2>1. N * (t - q) >= N BY <1>2, Multiple
    <2> QED BY <2>1, <1>0
<1> QED BY <1>1, <1>2

LEMMA ModPlusMultiple ==
    ASSUME NEW N \in Nat \ {0}, NEW x \in Int, NEW q \in Int
    PROVE  (x + N * q) % N = x % N
<1> DEFINE a == x \div N
           b == (x + N * q) \div N
           r == x % N
           s == (x + N * q) % N
<1>1. a \in Int /\ r \in 0..N - 1 /\ x = N * a + r BY DivMod
<1>2. x + N * q \in Int OBVIOUS
<1>3. b \in Int /\ s \in 0..N - 1 /\ x + N * q = N * b + s BY <1>2, DivMod
<1> HIDE DEF a, b, r, s
<1>4. a + q \in Int /\ N * (a + q) + r = N * b + s BY <1>1, <1>3
<1>5. s = r BY <1>1, <1>3, <1>4, DivUnique
<1> QED BY <1>5 DEF r, s

\* The remainder of a counter of a multiple of the ring, as of the number itself.
LEMMA ModMod ==
    ASSUME NEW N \in Nat \ {0}, NEW M \in Nat \ {0}, M % N = 0, NEW x \in Int
    PROVE  (x % M) % N = x % N
<1> DEFINE d == M \div N
           e == x \div M
           y == x % M
<1>1. M \in Int OBVIOUS
<1>2. d \in Int /\ M = N * d + (M % N) BY <1>1, DivMod
<1>3. e \in Int /\ y \in 0..M - 1 /\ x = M * e + y BY DivMod
<1> HIDE DEF d, e, y
<1>4. d * e \in Int /\ x = y + N * (d * e)
    <2>1. M = N * d BY <1>2
    <2>2. (N * d) * e = N * (d * e) BY <1>2, <1>3, Z3
    <2>3. M * e = N * (d * e) BY <2>1, <2>2
    <2> QED BY <1>2, <1>3, <2>3
<1>5. y \in Int BY <1>3
<1> DEFINE z == d * e
<1>6. z \in Int /\ x = y + N * z BY <1>4
<1> HIDE DEF z
<1>7. (y + N * z) % N = y % N BY <1>5, <1>6, ModPlusMultiple
<1> QED BY <1>6, <1>7 DEF y

\* Less than a ring apart, two counters have different slots.
LEMMA SlotsApart ==
    ASSUME NEW N \in Nat \ {0}, NEW M \in Nat \ {0}, M % N = 0, NEW c \in Int,
           NEW a \in 0..N - 1, NEW b \in 0..N - 1,
           ((c + a) % M) % N = ((c + b) % M) % N
    PROVE  a = b
<1>1. (c + a) % N = (c + b) % N
    <2>1. c + a \in Int /\ c + b \in Int OBVIOUS
    <2> QED BY <2>1, ModMod
<1> DEFINE x == c + a
           y == c + b
           q == x \div N
           t == y \div N
           r == x % N
<1>2. x \in Int /\ y \in Int OBVIOUS
<1>3. q \in Int /\ r \in 0..N - 1 /\ x = N * q + r BY <1>2, DivMod
<1>4. t \in Int /\ y = N * t + r BY <1>2, <1>1, DivMod
<1>5. x - y = a - b OBVIOUS
<1> HIDE DEF x, y, q, t, r
<1>6. N * (q - t) = a - b /\ N * (t - q) = b - a BY <1>3, <1>4, <1>5
<1>7. q - t \in Int /\ t - q \in Int BY <1>3, <1>4
<1>8. CASE q - t > 0
    <2>1. N * (q - t) >= N BY <1>7, <1>8, Multiple
    <2> QED BY <2>1, <1>6
<1>9. CASE t - q > 0
    <2>1. N * (t - q) >= N BY <1>7, <1>9, Multiple
    <2> QED BY <2>1, <1>6
<1>10. CASE q = t BY <1>6, <1>10, <1>3
<1> QED BY <1>7, <1>8, <1>9, <1>10, <1>3, <1>4

\* A remainder may be taken in between.
LEMMA ModShift ==
    ASSUME NEW M \in Nat \ {0}, NEW x \in Int, NEW y \in Int
    PROVE  ((x % M) + y) % M = (x + y) % M
<1> DEFINE q == x \div M
           r == x % M
<1>1. q \in Int /\ r \in Int /\ x = M * q + r BY DivMod
<1> HIDE DEF q, r
<1>2. x + y = (r + y) + M * q /\ r + y \in Int BY <1>1
<1>3. ((r + y) + M * q) % M = (r + y) % M BY <1>1, <1>2, ModPlusMultiple
<1> QED BY <1>2, <1>3 DEF r

LEMMA ModSmall ==
    ASSUME NEW M \in Nat \ {0}, NEW x \in 0..M - 1
    PROVE  x % M = x
BY Z3

-----------------------------------------------------------------------------
(* The counters of the ring.                                                   *)

Counters == 0..UINT - 1

LEMMA Sizes2 == INPUT_BUF \in Nat \ {0} /\ UINT \in Nat \ {0} /\ UINT % INPUT_BUF = 0 /\ INPUT_BUF < UINT
BY ConsoleAssumption

LEMMA PlusType == ASSUME NEW x \in Int, NEW d \in Int PROVE Plus(x, d) \in Counters
<1>1. x + d \in Int OBVIOUS
<1> QED BY <1>1, Sizes2, DivMod DEF Plus, Counters

\* Counting on and on.
LEMMA PlusPlus ==
    ASSUME NEW x \in Int, NEW a \in Int, NEW b \in Int
    PROVE  Plus(Plus(x, a), b) = Plus(x, a + b)
<1>1. x + a \in Int OBVIOUS
<1>2. (((x + a) % UINT) + b) % UINT = ((x + a) + b) % UINT BY <1>1, Sizes2, ModShift
<1>3. (x + a) + b = x + (a + b) OBVIOUS
<1> QED BY <1>2, <1>3 DEF Plus

\* The distance of two counters, and back.
LEMMA DistancePlus ==
    ASSUME NEW i \in Counters, NEW j \in Counters
    PROVE  (j - i) % UINT \in Counters /\ Plus(i, (j - i) % UINT) = j
<1>1. i \in Int /\ j \in Int /\ j - i \in Int BY DEF Counters
<1>2. (j - i) % UINT \in Counters BY <1>1, Sizes2, DivMod DEF Counters
<1>3. (((j - i) % UINT) + i) % UINT = ((j - i) + i) % UINT
    BY <1>1, Sizes2, ModShift
<1>4. (j - i) + i = j BY <1>1
<1>5. j % UINT = j BY Sizes2, ModSmall DEF Counters
<1>6. ((j - i) % UINT) + i = i + ((j - i) % UINT) BY <1>1, <1>2 DEF Counters
<1> QED BY <1>2, <1>3, <1>4, <1>5, <1>6 DEF Plus

LEMMA PlusDistance ==
    ASSUME NEW i \in Counters, NEW d \in Counters
    PROVE  (Plus(i, d) - i) % UINT = d
<1>1. i \in Int /\ d \in Int /\ i + d \in Int /\ -i \in Int BY DEF Counters
<1>2. (((i + d) % UINT) + (-i)) % UINT = ((i + d) + (-i)) % UINT
    BY <1>1, Sizes2, ModShift
<1>3. (i + d) + (-i) = d BY <1>1
<1>4. d % UINT = d BY Sizes2, ModSmall DEF Counters
<1>5. (i + d) % UINT \in Int BY <1>1, Sizes2, DivMod
<1>6. ((i + d) % UINT) + (-i) = ((i + d) % UINT) - i BY <1>1, <1>5
<1> QED BY <1>2, <1>3, <1>4, <1>6 DEF Plus

\* Within a ring, different distances from a counter are different slots.
LEMMA SlotInjective ==
    ASSUME NEW i \in Counters, NEW a \in 0..INPUT_BUF - 1, NEW b \in 0..INPUT_BUF - 1,
           Slot(Plus(i, a)) = Slot(Plus(i, b))
    PROVE  a = b
<1>1. i \in Int BY DEF Counters
<1> QED BY <1>1, Sizes2, SlotsApart DEF Slot, Plus

-----------------------------------------------------------------------------
(* Pieces of a stream of characters: f[a], ..., f[b - 1].                      *)

Cut(f, a, b) == [k \in 1..b - a |-> f[a + k - 1]]

LEMMA CutIsSeq ==
    ASSUME NEW S, NEW f \in [Nat -> S], NEW a \in Nat, NEW b \in Nat, a <= b
    PROVE  Cut(f, a, b) \in Seq(S) /\ Len(Cut(f, a, b)) = b - a
<1>1. b - a \in Nat OBVIOUS
<1>2. \A k \in 1..b - a : a + k - 1 \in Nat OBVIOUS
<1>3. \A k \in 1..b - a : f[a + k - 1] \in S BY <1>2
<1> DEFINE n == b - a
<1> HIDE DEF n
<1>4. [k \in 1..n |-> f[a + k - 1]] \in Seq(S) BY <1>1, <1>3, IsASeq DEF n
<1> QED BY <1>1, <1>4 DEF Cut, n

LEMMA CutAt ==
    ASSUME NEW f, NEW a \in Nat, NEW b \in Nat
    PROVE  \A k \in 1..b - a : Cut(f, a, b)[k] = f[a + k - 1]
BY DEF Cut

LEMMA CutEmpty ==
    ASSUME NEW f, NEW a \in Nat
    PROVE  Cut(f, a, a) = << >>
<1>1. 1..a - a = {} OBVIOUS
<1> QED BY <1>1 DEF Cut

\* Pieces with the same characters are the same.
LEMMA CutEqual ==
    ASSUME NEW f, NEW g, NEW a \in Nat, NEW b \in Nat,
           \A t \in a..b - 1 : f[t] = g[t]
    PROVE  Cut(f, a, b) = Cut(g, a, b)
<1>1. \A k \in 1..b - a : a + k - 1 \in a..b - 1 OBVIOUS
<1>2. \A k \in 1..b - a : f[a + k - 1] = g[a + k - 1] BY <1>1
<1> QED BY <1>2 DEF Cut

LEMMA CutConcat ==
    ASSUME NEW S, NEW f \in [Nat -> S], NEW a \in Nat, NEW b \in Nat, NEW c \in Nat,
           a <= b, b <= c
    PROVE  Cut(f, a, b) \o Cut(f, b, c) = Cut(f, a, c)
<1> DEFINE s == Cut(f, a, b)
           t == Cut(f, b, c)
           u == Cut(f, a, c)
<1>0. a <= c OBVIOUS
<1>1. s \in Seq(S) /\ Len(s) = b - a BY CutIsSeq, Zenon
<1>2. t \in Seq(S) /\ Len(t) = c - b BY CutIsSeq, Zenon
<1>3. u \in Seq(S) /\ Len(u) = c - a BY <1>0, CutIsSeq, Zenon
<1>4. /\ \A k \in 1..b - a : s[k] = f[a + k - 1]
      /\ \A k \in 1..c - b : t[k] = f[b + k - 1]
      /\ \A k \in 1..c - a : u[k] = f[a + k - 1]
    BY DEF Cut
<1> HIDE DEF s, t, u
<1>5. s \o t \in Seq(S) /\ Len(s \o t) = c - a BY <1>1, <1>2
<1>6. ASSUME NEW k \in 1..c - a PROVE (s \o t)[k] = u[k]
    <2>1. CASE k <= b - a
        <3>1. k \in 1..b - a BY <2>1
        <3>2. (s \o t)[k] = s[k] BY <1>1, <1>2, <3>1
        <3> QED BY <1>4, <3>1, <3>2
    <2>2. CASE k > b - a
        <3>1. k - (b - a) \in 1..c - b /\ k \in 1..Len(s) + Len(t) /\ ~(k <= Len(s))
            BY <2>2, <1>1, <1>2
        <3>2. (s \o t)[k] = t[k - Len(s)] BY <1>1, <1>2, <3>1
        <3>3. t[k - (b - a)] = f[b + (k - (b - a)) - 1] BY <1>4, <3>1
        <3>4. b + (k - (b - a)) - 1 = a + k - 1 OBVIOUS
        <3>5. u[k] = f[a + k - 1] BY <1>4
        <3> QED BY <1>1, <3>2, <3>3, <3>4, <3>5
    <2>3. k <= b - a \/ k > b - a OBVIOUS
    <2> QED BY <2>1, <2>2, <2>3, Zenon
<1>7. s \o t = u BY <1>3, <1>5, <1>6, SeqEqual
<1> QED BY <1>7 DEF s, t, u

LEMMA CutAppend ==
    ASSUME NEW S, NEW f \in [Nat -> S], NEW a \in Nat, NEW b \in Nat, a <= b
    PROVE  Append(Cut(f, a, b), f[b]) = Cut(f, a, b + 1)
<1> DEFINE s == Cut(f, a, b)
           u == Cut(f, a, b + 1)
           x == f[b]
<1>0. b + 1 \in Nat /\ a <= b + 1 /\ x \in S OBVIOUS
<1>1. s \in Seq(S) /\ Len(s) = b - a BY CutIsSeq, Zenon
<1>2. u \in Seq(S) /\ Len(u) = (b + 1) - a BY <1>0, CutIsSeq, Zenon
<1>3. /\ \A k \in 1..b - a : s[k] = f[a + k - 1]
      /\ \A k \in 1..(b + 1) - a : u[k] = f[a + k - 1]
    BY DEF Cut
<1>4. u[(b - a) + 1] = x
    <2>1. (b - a) + 1 \in 1..(b + 1) - a /\ a + ((b - a) + 1) - 1 = b OBVIOUS
    <2> QED BY <1>3, <2>1
<1> HIDE DEF s, u, x
<1>5. Append(s, x) \in Seq(S) /\ Len(Append(s, x)) = (b + 1) - a
    BY <1>0, <1>1
<1>6. ASSUME NEW k \in 1..(b + 1) - a PROVE Append(s, x)[k] = u[k]
    <2>1. CASE k <= b - a
        <3>1. Append(s, x)[k] = s[k] BY <2>1, <1>0, <1>1
        <3>2. k \in 1..b - a BY <2>1
        <3>3. s[k] = f[a + k - 1] BY <3>2, <1>3
        <3>4. u[k] = f[a + k - 1] BY <1>3
        <3> QED BY <3>1, <3>3, <3>4
    <2>2. CASE k > b - a
        <3>1. k = Len(s) + 1 /\ k = (b - a) + 1 BY <2>2, <1>1
        <3>2. Append(s, x)[Len(s) + 1] = x BY <1>0, <1>1
        <3> QED BY <3>1, <3>2, <1>4
    <2>3. k <= b - a \/ k > b - a OBVIOUS
    <2> QED BY <2>1, <2>2, <2>3, Zenon
<1>7. Append(s, x) = u BY <1>2, <1>5, <1>6, SeqEqual
<1> QED BY <1>7 DEF s, u, x

LEMMA CutType ==
    ASSUME NEW f \in [Nat -> Keys], NEW a \in Nat, NEW b \in Nat, a <= b
    PROVE  Cut(f, a, b) \in Seq(Keys) /\ Len(Cut(f, a, b)) = b - a
BY CutIsSeq, Zenon

LEMMA CutSubSeq ==
    ASSUME NEW f \in [Nat -> Keys], NEW a \in Nat, NEW b \in Nat, NEW c \in Nat,
           NEW d \in Nat, a <= c, c <= d, d <= b
    PROVE  SubSeq(Cut(f, a, b), (c - a) + 1, d - a) = Cut(f, c, d)
<1> DEFINE s == Cut(f, a, b)
           u == Cut(f, c, d)
           m == c - a
           n == d - a
<1>0. a <= b /\ m \in Nat /\ n \in Nat /\ m <= n /\ d - c = n - m OBVIOUS
<1>1. s \in Seq(Keys) /\ Len(s) = b - a BY <1>0, CutType
<1>2. u \in Seq(Keys) /\ Len(u) = d - c BY CutType
<1>3. /\ \A k \in 1..b - a : s[k] = f[a + k - 1]
      /\ \A k \in 1..d - c : u[k] = f[c + k - 1]
    BY DEF Cut
<1>4. ASSUME NEW k \in 1..n - m PROVE s[m + k] = u[k]
    <2>1. /\ m + k \in 1..b - a /\ k \in 1..d - c
          /\ a + (m + k) - 1 = c + k - 1
        OBVIOUS
    <2> HIDE DEF s, u
    <2> QED BY <2>1, <1>3
<1>5. n <= b - a OBVIOUS
<1> HIDE DEF s, u, m, n
<1> DEFINE v == SubSeq(s, m + 1, n)
<1>6. v \in Seq(Keys) /\ Len(v) = n - m BY <1>0, <1>1, <1>5
<1>7. \A k \in 1..n - m : v[k] = s[m + k] BY <1>0, <1>1, <1>5
<1> HIDE DEF v
<1>8. Len(u) = n - m BY <1>0, <1>2
<1>9. v = u BY <1>0, <1>2, <1>4, <1>6, <1>7, <1>8, SeqEqual
<1> QED BY <1>9 DEF s, u, v, m, n


-----------------------------------------------------------------------------
(* The ring as a piece of the stream that starts at a counter.                 *)

Stream(buf, i)   == [t \in Nat |-> buf[Slot(Plus(i, t))]]
Chars(buf, i, j) == [k \in 1..(j - i) % UINT |-> buf[Slot(Plus(i, k - 1))]]

LEMMA SlotType == ASSUME NEW x \in Int PROVE Slot(x) \in 0..INPUT_BUF - 1
BY Sizes2, DivMod DEF Slot

LEMMA StreamType ==
    ASSUME NEW buf \in [0..INPUT_BUF - 1 -> Keys], NEW i \in Counters
    PROVE  Stream(buf, i) \in [Nat -> Keys]
<1>1. ASSUME NEW t \in Nat PROVE buf[Slot(Plus(i, t))] \in Keys
    <2>1. i \in Int /\ t \in Int BY DEF Counters
    <2>2. Plus(i, t) \in Int BY <2>1, PlusType DEF Counters
    <2> QED BY <2>2, SlotType
<1> QED BY <1>1 DEF Stream

LEMMA PlusZero == ASSUME NEW i \in Counters PROVE Plus(i, 0) = i
<1>1. i + 0 = i BY DEF Counters
<1> QED BY <1>1, Sizes2, ModSmall DEF Plus, Counters

LEMMA CharsCut ==
    ASSUME NEW buf, NEW i \in Counters, NEW a \in Nat, NEW b \in Nat, a <= b, b < UINT
    PROVE  Chars(buf, Plus(i, a), Plus(i, b)) = Cut(Stream(buf, i), a, b)
<1>0. i \in Int /\ a \in Int /\ b \in Int /\ b - a \in Counters /\ a + (b - a) = b
    BY Sizes2 DEF Counters
<1> DEFINE j == Plus(i, a)
<1>1. j \in Counters BY <1>0, PlusType
<1>2. Plus(i, b) = Plus(j, b - a) BY <1>0, PlusPlus
<1>3. (Plus(i, b) - j) % UINT = b - a BY <1>0, <1>1, <1>2, PlusDistance
<1>4. ASSUME NEW k \in 1..b - a
      PROVE  buf[Slot(Plus(j, k - 1))] = Stream(buf, i)[a + k - 1]
    <2>1. k - 1 \in Int /\ a + (k - 1) = a + k - 1 /\ a + k - 1 \in Nat OBVIOUS
    <2>2. Plus(j, k - 1) = Plus(i, a + (k - 1)) BY <1>0, <2>1, PlusPlus
    <2> QED BY <2>1, <2>2 DEF Stream
<1> HIDE DEF j
<1>5. Chars(buf, j, Plus(i, b)) = [k \in 1..b - a |-> buf[Slot(Plus(j, k - 1))]]
    BY <1>3 DEF Chars
<1>6. Chars(buf, j, Plus(i, b)) = Cut(Stream(buf, i), a, b)
    BY <1>4, <1>5 DEF Cut
<1> QED BY <1>6 DEF j

LEMMA CharsPrefix ==
    ASSUME NEW buf, NEW i \in Counters, NEW a \in Nat, a < UINT
    PROVE  Chars(buf, i, Plus(i, a)) = Cut(Stream(buf, i), 0, a)
<1>1. 0 \in Nat /\ 0 <= a OBVIOUS
<1>2. Chars(buf, Plus(i, 0), Plus(i, a)) = Cut(Stream(buf, i), 0, a)
    BY <1>1, CharsCut
<1> QED BY <1>2, PlusZero

\* Starting n characters later.
LEMMA CutShift ==
    ASSUME NEW buf, NEW i \in Counters, NEW n \in Nat, NEW a \in Nat, NEW b \in Nat
    PROVE  Cut(Stream(buf, Plus(i, n)), a, b) = Cut(Stream(buf, i), n + a, n + b)
<1>0. (n + b) - (n + a) = b - a OBVIOUS
<1>1. ASSUME NEW k \in 1..b - a
      PROVE  Stream(buf, Plus(i, n))[a + k - 1] = Stream(buf, i)[(n + a) + k - 1]
    <2>1. /\ a + k - 1 \in Nat /\ a + k - 1 \in Int /\ (n + a) + k - 1 \in Nat
          /\ n + (a + k - 1) = (n + a) + k - 1 /\ n \in Int
        OBVIOUS
    <2>2. i \in Int BY DEF Counters
    <2>3. Plus(Plus(i, n), a + k - 1) = Plus(i, n + (a + k - 1)) BY <2>1, <2>2, PlusPlus
    <2> QED BY <2>1, <2>3 DEF Stream
<1> QED BY <1>0, <1>1 DEF Cut

-----------------------------------------------------------------------------
(* The ring between keyboard and readers.                                      *)

Ready == Ring(input.r, input.w)
Edit  == Ring(input.w, input.e)
Ends  == {"nl", "^D"}

InputType(x) ==
    /\ DOMAIN x = {"buf", "r", "w", "e"}
    /\ x.buf \in [0..INPUT_BUF - 1 -> Keys]
    /\ x.r \in Counters /\ x.w \in Counters /\ x.e \in Counters

\* w and e are a and b characters after r, and no line ends between them.
Position(x, a, b) ==
    /\ x.w = Plus(x.r, a) /\ x.e = Plus(x.r, b)
    /\ \A t \in a..b - 1 : x.buf[Slot(Plus(x.r, t))] \notin Ends

RingInv ==
    /\ InputType(input)
    /\ \E b \in 0..INPUT_BUF : \E a \in 0..b : Position(input, a, b)

LEMMA ReadyEdit ==
    /\ Ready = Chars(input.buf, input.r, input.w)
    /\ Edit = Chars(input.buf, input.w, input.e)
BY DEF Ready, Edit, Ring, Chars

LEMMA ReadyEditNext ==
    /\ Ready' = Chars(input'.buf, input'.r, input'.w)
    /\ Edit' = Chars(input'.buf, input'.w, input'.e)
BY DEF Ready, Edit, Ring, Chars

LEMMA Pieces ==
    ASSUME NEW x, InputType(x), NEW b \in 0..INPUT_BUF, NEW a \in 0..b, Position(x, a, b)
    PROVE  /\ Chars(x.buf, x.r, x.w) = Cut(Stream(x.buf, x.r), 0, a)
           /\ Chars(x.buf, x.w, x.e) = Cut(Stream(x.buf, x.r), a, b)
<1>1. a \in Nat /\ b \in Nat /\ a <= b /\ b < UINT /\ a < UINT BY Sizes2
<1>2. x.r \in Counters BY DEF InputType
<1>3. x.w = Plus(x.r, a) /\ x.e = Plus(x.r, b) BY DEF Position
<1>4. Chars(x.buf, x.r, Plus(x.r, a)) = Cut(Stream(x.buf, x.r), 0, a)
    BY <1>1, <1>2, CharsPrefix
<1>5. Chars(x.buf, Plus(x.r, a), Plus(x.r, b)) = Cut(Stream(x.buf, x.r), a, b)
    BY <1>1, <1>2, CharsCut
<1> QED BY <1>3, <1>4, <1>5

\* The pieces are sequences of keys.
LEMMA PieceTypes ==
    ASSUME NEW f \in [Nat -> Keys], NEW b \in 0..INPUT_BUF, NEW a \in 0..b
    PROVE  /\ Cut(f, 0, a) \in Seq(Keys) /\ Len(Cut(f, 0, a)) = a
           /\ Cut(f, a, b) \in Seq(Keys) /\ Len(Cut(f, a, b)) = b - a
<1>1. a \in Nat /\ b \in Nat /\ a <= b /\ 0 <= a /\ 0 \in Nat BY Sizes2
<1>2. Cut(f, 0, a) \in Seq(Keys) /\ Len(Cut(f, 0, a)) = a - 0 BY <1>1, CutIsSeq, Zenon
<1>3. Cut(f, a, b) \in Seq(Keys) /\ Len(Cut(f, a, b)) = b - a BY <1>1, CutIsSeq, Zenon
<1>4. a - 0 = a BY <1>1
<1> QED BY <1>2, <1>3, <1>4

\* A key that is typed.
LEMMA KeyInput ==
    ASSUME RingInv, NEW c \in Keys, Key(c)
    PROVE  RingInv' /\ Lines!Type(c)
<1>0. PICK b \in 0..INPUT_BUF : \E a \in 0..b : Position(input, a, b) BY DEF RingInv
<1>1. PICK a \in 0..b : Position(input, a, b) BY <1>0
<1>2. InputType(input) BY DEF RingInv
<1>r. PICK r \in Counters : r = input.r BY <1>2 DEF InputType
<1> DEFINE f == Stream(input.buf, r)
           g == Stream(input'.buf, r)
<1>i. r \in Int BY DEF Counters
<1>3. input.w = Plus(r, a) /\ input.e = Plus(r, b)
    BY <1>1, <1>r DEF Position
<1>4. (input.e - r) % UINT = b
    <2>1. b \in Counters BY Sizes2 DEF Counters
    <2> QED BY <1>3, <1>r, <2>1, PlusDistance
<1>5. b < INPUT_BUF BY <1>4, <1>r DEF Key
<1>6. a \in Nat /\ b \in Nat /\ b + 1 \in Nat /\ b + 1 \in 1..INPUT_BUF /\ a <= b BY <1>5, Sizes2
<1>7. Plus(input.e, 1) = Plus(r, b + 1)
    <2>1. b \in Int /\ 1 \in Int OBVIOUS
    <2>2. Plus(Plus(r, b), 1) = Plus(r, b + 1) BY <1>i, <2>1, PlusPlus
    <2> QED BY <1>3, <2>2
<1>8. Plus(r, b + 1) = Plus(r, INPUT_BUF) <=> b + 1 = INPUT_BUF
    <2>1. b + 1 \in Counters /\ INPUT_BUF \in Counters BY <1>6, Sizes2 DEF Counters
    <2> QED BY <1>3, <1>r, <2>1, PlusDistance
<1> DEFINE end == c \in Ends \/ b + 1 = INPUT_BUF
<1>9. /\ input'.r = r /\ input'.e = Plus(r, b + 1)
      /\ input'.w = IF end THEN Plus(r, b + 1) ELSE input.w
      /\ input'.buf = [input.buf EXCEPT ![Slot(Plus(r, b))] = c]
      /\ DOMAIN input' = {"buf", "r", "w", "e"}
    <2>1. c \in {"nl", "^D"} \/ Plus(input.e, 1) = Plus(input.r, INPUT_BUF) <=> end
        BY <1>7, <1>8, <1>r DEF Ends
    <2>2. input' = IF end THEN [input EXCEPT !.buf[Slot(input.e)] = c, !.e = Plus(input.e, 1), !.w = Plus(input.e, 1)]
                   ELSE [input EXCEPT !.buf[Slot(input.e)] = c, !.e = Plus(input.e, 1)]
        BY <2>1 DEF Key
    <2> HIDE DEF end
    <2>3. CASE end BY <2>2, <2>3, <1>r, <1>2, <1>3, <1>7 DEF InputType
    <2>4. CASE ~end BY <2>2, <2>4, <1>r, <1>2, <1>3, <1>7 DEF InputType
    <2> QED BY <2>3, <2>4
<1>10. f \in [Nat -> Keys] BY <1>2, StreamType DEF InputType
<1>11. InputType(input')
    <2>0. b + 1 \in Int BY <1>6
    <2>1. Plus(r, b + 1) \in Counters BY <1>i, <2>0, PlusType
    <2>2. input'.buf \in [0..INPUT_BUF - 1 -> Keys] BY <1>2, <1>9 DEF InputType
    <2> HIDE DEF end
    <2> QED BY <1>2, <1>9, <2>1, <2>2 DEF InputType
<1>12. g \in [Nat -> Keys] BY <1>11, StreamType DEF InputType
\* What was in the ring is still there, and c comes after it.
<1>13. \A t \in 0..b - 1 : g[t] = f[t]
    <2> SUFFICES ASSUME NEW t \in 0..b - 1 PROVE g[t] = f[t]
        OBVIOUS
    <2>1. t \in Nat /\ t \in 0..INPUT_BUF - 1 /\ b \in 0..INPUT_BUF - 1 /\ t # b BY <1>5, <1>6, Sizes2
    <2>2. Slot(Plus(r, t)) # Slot(Plus(r, b)) BY <1>3, <2>1, SlotInjective
    <2>3. g[t] = input'.buf[Slot(Plus(r, t))] /\ f[t] = input.buf[Slot(Plus(r, t))]
        BY <2>1 DEF Stream
    <2>a. t \in Int BY <2>1
    <2>b. Plus(r, t) \in Int BY <1>i, <2>a, PlusType DEF Counters
    <2>4. Slot(Plus(r, t)) \in 0..INPUT_BUF - 1 BY <2>b, SlotType
    <2> QED BY <1>2, <1>9, <2>2, <2>3, <2>4 DEF InputType
<1>14. g[b] = c
    <2>1. g[b] = input'.buf[Slot(Plus(r, b))] BY <1>6 DEF Stream
    <2>a. b \in Int OBVIOUS
    <2>b. Plus(r, b) \in Int BY <1>i, <2>a, PlusType DEF Counters
    <2>2. Slot(Plus(r, b)) \in 0..INPUT_BUF - 1 BY <2>b, SlotType
    <2> QED BY <1>2, <1>9, <2>1, <2>2 DEF InputType
<1>15. Ready = Cut(f, 0, a) /\ Edit = Cut(f, a, b)
    BY <1>1, <1>2, <1>r, Pieces, ReadyEdit
<1>16. Len(Ready) = a /\ Len(Edit) = b - a /\ Ready \in Seq(Keys) /\ Edit \in Seq(Keys)
    BY <1>10, <1>15, PieceTypes
<1>17. Cut(f, 0, a) = Cut(g, 0, a) /\ Cut(f, a, b) = Cut(g, a, b)
    <2>1. /\ \A t \in 0..a - 1 : f[t] = g[t]
          /\ \A t \in a..b - 1 : f[t] = g[t]
        BY <1>6, <1>13
    <2> HIDE DEF f, g
    <2> QED BY <1>6, <2>1, CutEqual
<1>18. Append(Edit, c) = Cut(g, a, b + 1)
    <2> HIDE DEF f, g
    <2>1. Append(Cut(g, a, b), g[b]) = Cut(g, a, b + 1) BY <1>6, <1>12, CutAppend, Zenon
    <2> QED BY <2>1, <1>14, <1>15, <1>17
<1>19. Ready \o Append(Edit, c) = Cut(g, 0, b + 1)
    <2> HIDE DEF f, g
    <2>1. 0 \in Nat /\ 0 <= a /\ a <= b + 1 BY <1>6
    <2>2. Cut(g, 0, a) \o Cut(g, a, b + 1) = Cut(g, 0, b + 1)
        BY <1>6, <1>12, <2>1, CutConcat, Zenon
    <2> QED BY <2>2, <1>15, <1>17, <1>18
<1>20. Len(Append(Edit, c)) = (b - a) + 1 BY <1>16
<1>21. CASE end
    <2>1. Position(input', b + 1, b + 1) BY <1>9, <1>21 DEF Position
    <2>2. b + 1 \in 0..INPUT_BUF /\ b + 1 \in 0..b + 1 BY <1>6
    <2>3. RingInv' BY <1>11, <2>1, <2>2 DEF RingInv
    <2>4. Ready' = Cut(g, 0, b + 1) /\ Edit' = Cut(g, b + 1, b + 1)
        BY <1>9, <1>11, <2>1, <2>2, Pieces, ReadyEditNext
    <2>5. Edit' = << >> BY <2>4, <1>6, CutEmpty
    <2>6. Ready' = Ready \o Append(Edit, c) BY <2>4, <1>19
    <2>7. c \in Ends \/ Len(Ready) + Len(Append(Edit, c)) = INPUT_BUF
        BY <1>6, <1>16, <1>20, <1>21
    <2>8. Len(Ready) + Len(Edit) < INPUT_BUF BY <1>5, <1>6, <1>16
    <2> QED BY <2>3, <2>5, <2>6, <2>7, <2>8 DEF Lines!Type, Ready, Edit, Ends
<1>22. CASE ~end
    <2>1. Position(input', a, b + 1)
        <3>1. \A t \in a..(b + 1) - 1 : input'.buf[Slot(Plus(r, t))] \notin Ends
            <4> SUFFICES ASSUME NEW t \in a..(b + 1) - 1
                         PROVE  input'.buf[Slot(Plus(r, t))] \notin Ends
                OBVIOUS
            <4>1. t \in Nat /\ (t = b \/ (t \in 0..b - 1 /\ t \in a..b - 1)) BY <1>6
            <4>2. input'.buf[Slot(Plus(r, t))] = g[t] BY <4>1 DEF Stream
            <4>3. CASE t = b BY <4>2, <4>3, <1>14, <1>22
            <4>4. CASE t \in 0..b - 1 /\ t \in a..b - 1
                <5>1. g[t] = f[t] /\ f[t] = input.buf[Slot(Plus(r, t))]
                    BY <4>1, <4>4, <1>13 DEF Stream
                <5> QED BY <4>2, <4>4, <5>1, <1>1, <1>r DEF Position
            <4> QED BY <4>1, <4>3, <4>4
        <3> QED BY <1>3, <1>9, <1>22, <3>1 DEF Position
    <2>2. b + 1 \in 0..INPUT_BUF /\ a \in 0..b + 1 BY <1>6
    <2>3. RingInv' BY <1>11, <2>1, <2>2 DEF RingInv
    <2>4. Ready' = Cut(g, 0, a) /\ Edit' = Cut(g, a, b + 1)
        BY <1>9, <1>11, <2>1, <2>2, Pieces, ReadyEditNext
    <2>5. Edit' = Append(Edit, c) BY <2>4, <1>18
    <2>6. Ready' = Ready BY <2>4, <1>15, <1>17
    <2>7. ~(c \in Ends \/ Len(Ready) + Len(Append(Edit, c)) = INPUT_BUF)
        BY <1>6, <1>16, <1>20, <1>22
    <2>8. Len(Ready) + Len(Edit) < INPUT_BUF BY <1>5, <1>6, <1>16
    <2> QED BY <2>3, <2>5, <2>6, <2>7, <2>8 DEF Lines!Type, Ready, Edit, Ends
<1> QED BY <1>21, <1>22

LEMMA CutFront ==
    ASSUME NEW f \in [Nat -> Keys], NEW a \in Nat, NEW b \in Nat, b - 1 \in Nat, a <= b - 1
    PROVE  Front(Cut(f, a, b)) = Cut(f, a, b - 1)
<1>1. a <= b OBVIOUS
<1>2. Cut(f, a, b) \in Seq(Keys) /\ Len(Cut(f, a, b)) = b - a BY <1>1, CutIsSeq, Zenon
<1>3. a <= a /\ b - 1 <= b /\ (a - a) + 1 = 1 /\ (b - a) - 1 = (b - 1) - a OBVIOUS
<1>4. Front(Cut(f, a, b)) = SubSeq(Cut(f, a, b), 1, (b - a) - 1) BY <1>2 DEF Front
<1>5. SubSeq(Cut(f, a, b), (a - a) + 1, (b - 1) - a) = Cut(f, a, b - 1)
    BY <1>1, <1>3, CutSubSeq
<1> QED BY <1>3, <1>4, <1>5

\* Erasing: the line that is edited loses its last n characters, one or all.
LEMMA EraseInput ==
    ASSUME RingInv, NEW b \in 0..INPUT_BUF, NEW a \in 0..b, Position(input, a, b),
           NEW n \in 1..b - a, n = 1 \/ n = b - a,
           input' = [input EXCEPT !.e = Plus(@, -n)]
    PROVE  RingInv' /\ Lines!Erase
<1>1. InputType(input) BY DEF RingInv
<1>2. PICK r \in Counters : r = input.r BY <1>1 DEF InputType
<1> DEFINE f == Stream(input.buf, r)
<1>3. input.w = Plus(r, a) /\ input.e = Plus(r, b) BY <1>2 DEF Position
<1>4. /\ a \in Nat /\ b \in Nat /\ b - n \in Nat /\ a <= b - n /\ b - n <= b
      /\ b - n \in 0..INPUT_BUF /\ a \in 0..b - n /\ b - n \in Int
    BY Sizes2
<1>5. Plus(input.e, -n) = Plus(r, b - n)
    <2>1. r \in Int /\ b \in Int /\ -n \in Int /\ b + (-n) = b - n BY DEF Counters
    <2>2. Plus(Plus(r, b), -n) = Plus(r, b + (-n)) BY <2>1, PlusPlus
    <2> QED BY <1>3, <2>1, <2>2
<1>6. /\ input'.r = r /\ input'.w = input.w /\ input'.buf = input.buf
      /\ input'.e = Plus(r, b - n) /\ DOMAIN input' = {"buf", "r", "w", "e"}
    BY <1>1, <1>2, <1>5 DEF InputType
<1>7. InputType(input')
    <2>1. r \in Int BY DEF Counters
    <2>2. Plus(r, b - n) \in Counters BY <1>4, <2>1, PlusType
    <2> QED BY <1>1, <1>2, <1>6, <2>2 DEF InputType
<1>8. Position(input', a, b - n)
    <2>1. \A t \in a..(b - n) - 1 : t \in a..b - 1 BY <1>4
    <2>2. \A t \in a..b - 1 : input.buf[Slot(Plus(r, t))] \notin Ends BY <1>2 DEF Position
    <2> QED BY <1>3, <1>6, <2>1, <2>2 DEF Position
<1>9. RingInv' BY <1>4, <1>7, <1>8 DEF RingInv
<1>10. f \in [Nat -> Keys] BY <1>1, StreamType DEF InputType
<1>11. Ready = Cut(f, 0, a) /\ Edit = Cut(f, a, b) BY <1>1, <1>2, Pieces, ReadyEdit
<1>12. Ready' = Cut(f, 0, a) /\ Edit' = Cut(f, a, b - n)
    BY <1>4, <1>6, <1>7, <1>8, Pieces, ReadyEditNext
<1>13. Edit \in Seq(Keys) /\ Len(Edit) = b - a
    BY <1>10, <1>11, PieceTypes
<1>14. Edit # << >> BY <1>13
<1> HIDE DEF f
<1>15. CASE n = b - a
    <2>1. b - n = a BY <1>15
    <2>2. Edit' = << >> BY <1>4, <1>12, <2>1, CutEmpty
    <2> QED BY <1>9, <1>11, <1>12, <1>14, <2>2 DEF Lines!Erase, Ready, Edit
<1>16. CASE n = 1
    <2>1. Front(Edit) = Cut(f, a, b - 1)
        BY <1>4, <1>10, <1>11, <1>16, CutFront, Zenon
    <2>4. Edit' = Front(Edit) BY <1>12, <1>16, <2>1
    <2>5. Lines!Front(Edit) = Front(Edit) BY DEF Front, Lines!Front
    <2> QED BY <1>9, <1>11, <1>12, <1>14, <2>4, <2>5 DEF Lines!Erase, Ready, Edit
<1> QED BY <1>15, <1>16

LEMMA BackspaceInput == ASSUME RingInv, Backspace PROVE RingInv' /\ Lines!Erase
<1>0. PICK b \in 0..INPUT_BUF : \E a \in 0..b : Position(input, a, b) BY DEF RingInv
<1>1. PICK a \in 0..b : Position(input, a, b) BY <1>0
<1>2. input.e # input.w /\ input' = [input EXCEPT !.e = Plus(@, -1)] BY DEF Backspace
<1>3. a # b BY <1>1, <1>2 DEF Position
<1>4. 1 \in 1..b - a BY <1>3, Sizes2
<1> QED BY <1>1, <1>2, <1>4, EraseInput

\* C('U') erases all that is edited: there is no end of line in it.
LEMMA KillWidth ==
    ASSUME RingInv, KillLine
    PROVE  \E b \in 0..INPUT_BUF : \E a \in 0..b : \E n \in 1..b - a :
             /\ Position(input, a, b) /\ n = b - a
             /\ input' = [input EXCEPT !.e = Plus(@, -n)]
             /\ Consputc(-n)
<1>0. PICK b \in 0..INPUT_BUF : \E a \in 0..b : Position(input, a, b) BY DEF RingInv
<1>1. PICK a \in 0..b : Position(input, a, b) BY <1>0
<1>2. InputType(input) BY DEF RingInv
<1> DEFINE f == Stream(input.buf, input.r)
           line == Ring(input.w, input.e)
           nls == {k \in DOMAIN line : line[k] = "nl"}
           width == Len(line) - Max({0} \cup nls)
<1>3. width > 0 /\ input' = [input EXCEPT !.e = Plus(@, -width)] /\ Consputc(-width)
    BY DEF KillLine
<1>4. a \in Nat /\ b \in Nat /\ a <= b BY Sizes2
<1>5. f \in [Nat -> Keys] BY <1>2, StreamType DEF InputType
<1>6. line = Cut(f, a, b) BY <1>1, <1>2, Pieces, ReadyEdit DEF Edit
<1>7. line \in Seq(Keys) /\ Len(line) = b - a
    <2> HIDE DEF f, line
    <2> QED BY <1>5, <1>6, PieceTypes
<1>8. nls = {}
    <2> SUFFICES ASSUME NEW k \in DOMAIN line, line[k] = "nl" PROVE FALSE
        OBVIOUS
    <2>1. k \in 1..b - a BY <1>7, LenProperties
    <2>2. line[k] = f[a + k - 1] BY <1>4, <1>6, <2>1, CutAt
    <2>3. a + k - 1 \in Nat /\ a + k - 1 \in a..b - 1 BY <1>4, <2>1
    <2>4. f[a + k - 1] = input.buf[Slot(Plus(input.r, a + k - 1))] BY <2>3 DEF Stream
    <2> QED BY <1>1, <2>2, <2>3, <2>4 DEF Position, Ends
<1>9. width = b - a
    <2>1. {0} \cup nls = {0} BY <1>8
    <2>2. Max({0} \cup nls) = 0 BY <2>1, MaxOfOne
    <2> HIDE DEF line, nls
    <2> QED BY <2>2, <1>4, <1>7
<1> HIDE DEF width
<1>10. width \in 1..b - a BY <1>3, <1>4, <1>9
<1> QED BY <1>1, <1>3, <1>9, <1>10

LEMMA KillLineInput == ASSUME RingInv, KillLine PROVE RingInv' /\ Lines!Erase
<1>0. PICK b \in 0..INPUT_BUF : \E a \in 0..b : \E n \in 1..b - a :
             /\ Position(input, a, b) /\ n = b - a
             /\ input' = [input EXCEPT !.e = Plus(@, -n)]
    BY KillWidth
<1>1. PICK a \in 0..b : \E n \in 1..b - a :
             /\ Position(input, a, b) /\ n = b - a
             /\ input' = [input EXCEPT !.e = Plus(@, -n)]
    BY <1>0
<1>2. PICK n \in 1..b - a : /\ Position(input, a, b) /\ n = b - a
                            /\ input' = [input EXCEPT !.e = Plus(@, -n)]
    BY <1>1
<1> QED BY <1>2, EraseInput

LEMMA CutTail ==
    ASSUME NEW f \in [Nat -> Keys], NEW a \in Nat, NEW n \in Nat, n <= a
    PROVE  SubSeq(Cut(f, 0, a), n + 1, a) = Cut(f, n, a)
<1>0. PICK z \in Nat : z = 0 OBVIOUS
<1>1. z <= n /\ a <= a /\ n - z = n /\ a - z = a BY <1>0
<1>2. SubSeq(Cut(f, z, a), (n - z) + 1, a - z) = Cut(f, n, a) BY <1>1, CutSubSeq
<1> QED BY <1>0, <1>1, <1>2

\* A reader takes n characters: the first n that are ready, of which only the last
\* can end a line.
LEMMA TakeInput ==
    ASSUME RingInv, NEW b \in 0..INPUT_BUF, NEW a \in 0..b, Position(input, a, b),
           NEW n \in 0..a, \A j \in 1..n - 1 : Ready[j] \notin Ends,
           input' = [input EXCEPT !.r = Plus(@, n)]
    PROVE  RingInv' /\ (UNCHANGED <<Ready, Edit>> \/ \E k \in 1..Len(Ready) : Lines!Take(k))
<1>1. InputType(input) BY DEF RingInv
<1>2. PICK r \in Counters : r = input.r BY <1>1 DEF InputType
<1> DEFINE f == Stream(input.buf, r)
           g == Stream(input.buf, Plus(r, n))
<1>i. r \in Int /\ a \in Int /\ b \in Int /\ n \in Int BY DEF Counters
<1>3. input.w = Plus(r, a) /\ input.e = Plus(r, b) BY <1>2 DEF Position
<1>4. /\ a \in Nat /\ b \in Nat /\ n \in Nat /\ a - n \in Nat /\ b - n \in Nat
      /\ a <= b /\ n <= a /\ n <= b /\ 0 <= n /\ 0 \in Nat
      /\ b - n \in 0..INPUT_BUF /\ a - n \in 0..b - n /\ b - n \in Int /\ a - n \in Int
      /\ n + (a - n) = a /\ n + (b - n) = b /\ n + 0 = n
    BY Sizes2
<1> DEFINE c == a - n
           d == b - n
<1>5. c \in Nat /\ d \in Nat /\ n + c = a /\ n + d = b /\ d \in 0..INPUT_BUF /\ c \in 0..d
    BY <1>4
<1>6. c \in Int /\ d \in Int BY <1>4
<1> HIDE DEF c, d
<1>7. Plus(r, a) = Plus(Plus(r, n), c) /\ Plus(r, b) = Plus(Plus(r, n), d)
    BY <1>i, <1>5, <1>6, PlusPlus
<1>8. Plus(r, n) \in Counters BY <1>i, PlusType
<1>9. /\ input'.r = Plus(r, n) /\ input'.w = input.w /\ input'.e = input.e
      /\ input'.buf = input.buf /\ DOMAIN input' = {"buf", "r", "w", "e"}
    BY <1>1, <1>2 DEF InputType
<1>10. InputType(input') BY <1>1, <1>8, <1>9 DEF InputType
<1>11. Position(input', c, d)
    <2>1. ASSUME NEW t \in c..d - 1
          PROVE  input.buf[Slot(Plus(Plus(r, n), t))] \notin Ends
        <3>1. t \in Int /\ n + t \in a..b - 1 BY <1>4, <1>5
        <3>2. Plus(Plus(r, n), t) = Plus(r, n + t) BY <1>i, <3>1, PlusPlus
        <3> QED BY <1>2, <3>1, <3>2 DEF Position
    <2> QED BY <1>3, <1>7, <1>9, <2>1 DEF Position
<1>12. RingInv' BY <1>5, <1>10, <1>11 DEF RingInv
<1>13. f \in [Nat -> Keys] BY <1>1, StreamType DEF InputType
<1>14. Ready = Cut(f, 0, a) /\ Edit = Cut(f, a, b) BY <1>1, <1>2, Pieces, ReadyEdit
<1>15. Ready' = Cut(g, 0, c) /\ Edit' = Cut(g, c, d)
    BY <1>5, <1>9, <1>10, <1>11, Pieces, ReadyEditNext
<1>16. Cut(g, 0, c) = Cut(f, n, a) /\ Cut(g, c, d) = Cut(f, a, b)
    <2>1. Cut(g, 0, c) = Cut(f, n + 0, n + c) BY <1>4, <1>5, CutShift
    <2>2. Cut(g, c, d) = Cut(f, n + c, n + d) BY <1>4, <1>5, CutShift
    <2> QED BY <1>4, <1>5, <2>1, <2>2
<1>17. Len(Ready) = a /\ Ready \in Seq(Keys)
    <2> HIDE DEF f
    <2> QED BY <1>13, <1>14, PieceTypes
<1> HIDE DEF f, g
<1>18. Ready' = SubSeq(Ready, n + 1, Len(Ready))
    <2>1. SubSeq(Cut(f, 0, a), n + 1, a) = Cut(f, n, a) BY <1>4, <1>13, CutTail
    <2> QED BY <2>1, <1>14, <1>15, <1>16, <1>17
<1>19. CASE n = 0
    <2>1. Ready' = Ready /\ Edit' = Edit BY <1>14, <1>15, <1>16, <1>19
    <2> QED BY <1>12, <2>1
<1>20. CASE n # 0
    <2>1. n \in 1..Len(Ready) BY <1>4, <1>17, <1>20
    <2>2. Lines!Take(n)
        BY <1>14, <1>15, <1>16, <1>18 DEF Lines!Take, Ready, Edit, Ends
    <2> QED BY <1>12, <2>1, <2>2
<1> QED BY <1>19, <1>20

LEMMA ReadLoopInput ==
    ASSUME RingInv, NEW p \in Procs, ReadLoop(p)
    PROVE  RingInv' /\ (UNCHANGED <<Ready, Edit>> \/ \E k \in 1..Len(Ready) : Lines!Take(k))
<1>0. PICK b \in 0..INPUT_BUF : \E a \in 0..b : Position(input, a, b) BY DEF RingInv
<1>1. PICK a \in 0..b : Position(input, a, b) BY <1>0
<1>2. InputType(input) BY DEF RingInv
<1> DEFINE f == Stream(input.buf, input.r)
           rd == reader[p]
           ends == {k \in DOMAIN Ready : Ready[k] \in {"nl", "^D"} \/ k = rd.n}
           k == IF ends = {} THEN Len(Ready) ELSE Min(ends)
           back == k > 0 /\ Ready[k] = "^D" /\ (k > 1 \/ rd.n < rd.target)
           n == IF back THEN k - 1 ELSE k
<1>3. input' = [input EXCEPT !.r = Plus(@, n)] BY DEF ReadLoop, Ready
<1>4. a \in Nat /\ b \in Nat /\ a <= b BY Sizes2
<1>5. f \in [Nat -> Keys] BY <1>2, StreamType DEF InputType
<1>6. Ready = Cut(f, 0, a) BY <1>1, <1>2, Pieces, ReadyEdit
<1>7. Ready \in Seq(Keys) /\ Len(Ready) = a /\ DOMAIN Ready = 1..a
    <2> HIDE DEF f
    <2>1. Ready \in Seq(Keys) /\ Len(Ready) = a BY <1>5, <1>6, PieceTypes
    <2> QED BY <2>1, LenProperties
<1>8. ends \subseteq 1..a /\ ends \subseteq Nat BY <1>7
<1>9. k \in 0..a /\ \A j \in 1..k - 1 : Ready[j] \notin Ends
    <2>1. CASE ends = {}
        <3>1. k = a BY <1>7, <2>1
        <3>2. \A j \in 1..a : Ready[j] \notin Ends BY <1>7, <2>1 DEF Ends
        <3> HIDE DEF k
        <3> QED BY <1>4, <3>1, <3>2
    <2>2. CASE ends # {}
        <3>1. k = Min(ends) BY <2>2
        <3> HIDE DEF k
        <3>2. k \in ends /\ \A y \in ends : k <= y
            <4> HIDE DEF ends
            <4> QED BY <1>8, <2>2, <3>1, MinOf
        <3>3. k \in 1..a BY <1>8, <3>2
        <3>4. ASSUME NEW j \in 1..k - 1 PROVE Ready[j] \notin Ends
            <4>1. j \in 1..a /\ ~(k <= j) BY <3>3, <1>4
            <4>2. j \notin ends BY <3>2, <4>1
            <4> QED BY <1>7, <4>1, <4>2 DEF Ends
        <3> QED BY <3>3, <3>4
    <2> QED BY <2>1, <2>2
<1> HIDE DEF k
<1>10. n \in 0..a /\ \A j \in 1..n - 1 : Ready[j] \notin Ends
    <2>1. k \in Int /\ (back => k > 0) BY <1>9
    <2>2. n = k \/ (k > 0 /\ n = k - 1) OBVIOUS
    <2> HIDE DEF n
    <2>3. n \in 0..a BY <1>9, <2>1, <2>2, <1>4
    <2>4. ASSUME NEW j \in 1..n - 1 PROVE j \in 1..k - 1 BY <2>1, <2>2, <2>3
    <2> QED BY <1>9, <2>3, <2>4
<1> HIDE DEF n
<1> QED BY <1>1, <1>3, <1>10, TakeInput

-----------------------------------------------------------------------------

LEMMA RingInit == ASSUME Init PROVE RingInv /\ Lines!Init
<1>1. 0 \in Counters BY Sizes2 DEF Counters
<1>2. InputType(input) BY <1>1 DEF Init, InputType, Keys
<1>3. Plus(0, 0) = 0 BY <1>1, PlusZero
<1>4. Position(input, 0, 0) BY <1>3 DEF Init, Position
<1>5. 0 \in 0..INPUT_BUF /\ 0 \in 0..0 /\ 0 \in Nat BY Sizes2
<1>6. RingInv BY <1>2, <1>4, <1>5 DEF RingInv
<1> DEFINE f == Stream(input.buf, input.r)
<1>7. Ready = Cut(f, 0, 0) /\ Edit = Cut(f, 0, 0) BY <1>2, <1>4, <1>5, Pieces, ReadyEdit
<1>8. Cut(f, 0, 0) = << >> BY <1>5, CutEmpty
<1> QED BY <1>6, <1>7, <1>8 DEF Lines!Init, Ready, Edit

\* Every step keeps the ring's invariant and is one of LineDiscipline, or none.
LEMMA RingStep ==
    ASSUME RingInv, [Next]_vars
    PROVE  RingInv' /\ [Lines!Next]_<<Ready, Edit>>
<1>1. CASE UNCHANGED input
    <2>1. RingInv' BY <1>1 DEF RingInv, InputType, Position
    <2>2. Ready' = Ready /\ Edit' = Edit BY <1>1 DEF Ready, Edit, Ring
    <2> QED BY <2>1, <2>2
<1>2. ASSUME NEW c \in Keys, Key(c) PROVE RingInv' /\ Lines!Next
    BY <1>2, KeyInput DEF Lines!Next
<1>3. CASE Backspace BY <1>3, BackspaceInput DEF Lines!Next
<1>4. CASE KillLine BY <1>4, KillLineInput DEF Lines!Next
<1>5. ASSUME NEW p \in Procs, ReadLoop(p) PROVE RingInv' /\ [Lines!Next]_<<Ready, Edit>>
    BY <1>5, ReadLoopInput DEF Lines!Next, Ready
<1>6. \/ UNCHANGED input \/ (\E c \in Keys : Key(c)) \/ Backspace \/ KillLine
      \/ \E p \in Procs : ReadLoop(p)
    BY DEF Next, Step, Kernel, vars, Att, Consolewrite, Sleep, SplitShow, Kill, SplitSave, Consoleread
<1> QED BY <1>1, <1>2, <1>3, <1>4, <1>5, <1>6

\* The ring of consoleintr() and consoleread() keeps its counters in order,
\* r <= w <= e <= r + INPUT_BUF counted modulo the width of an unsigned int, and
\* no line ends between w and e.
THEOREM RingInvariance == Spec => []RingInv
<1>1. RingInv /\ [Next]_vars => RingInv' BY RingStep
<1>2. Init => RingInv BY RingInit
<1> QED BY <1>1, <1>2, PTL DEF Spec

\* The console implements LineDiscipline: whatever the size of the ring and also
\* when the counters wrap, what is typed is read once, in order and by lines, and
\* only the line that is edited can be erased.
THEOREM ConsoleImplementsLines == Spec => ImplementsLines
<1>1. Init => RingInv /\ Lines!Init BY RingInit
<1>2. RingInv /\ [Next]_vars => RingInv' /\ [Lines!Next]_<<Ready, Edit>> BY RingStep
<1> QED BY <1>1, <1>2, PTL DEF Spec, ImplementsLines, Lines!Spec, Ready, Edit

-----------------------------------------------------------------------------
(* The windows.                                                                *)

WinType ==
    /\ curidx \in Windows
    /\ win \in [Windows -> [used : BOOLEAN, cells : Nat, pos : Nat]]
    /\ written \in [Windows -> Nat]
    /\ crt \in [cells : Nat, pos : Nat, consflag : BOOLEAN]
    /\ overlap \in BOOLEAN
    /\ split \in [Procs -> [at : {"out", "new", "switch", "astray"}, to : Windows]]

\* What is shown, or about to be shown again, is a window in use.
InUse ==
    /\ win[curidx].used
    /\ \A p \in Procs : split[p].at = "switch" => win[split[p].to].used

\* While nobody ran into a splitw(), one process is in it, its window is saved, and
\* the one it creates is still free and empty.
OneSplits ==
    /\ \A p, q \in Procs : split[p].at # "out" /\ split[q].at # "out" => p = q
    /\ \A p \in Procs : split[p].at # "out" =>
         win[curidx].cells = crt.cells /\ win[curidx].pos = crt.pos
    /\ \A p \in Procs : split[p].at = "new" => ~win[split[p].to].used
    /\ \A i \in Windows : ~win[i].used => written[i] = 0

WinInv == WinType /\ InUse /\ (~overlap => OneSplits) /\ WindowsKept

LEMMA WinInit == ASSUME Init PROVE WinInv
<1>1. 0 \in Windows BY ConsoleAssumption DEF Windows
<1>2. WinType BY <1>1 DEF Init, WinType, NoSplit
<1>3. InUse BY <1>1 DEF Init, InUse, NoSplit
<1>4. OneSplits BY DEF Init, OneSplits, NoSplit
<1>5. WindowsKept BY <1>1 DEF Init, WindowsKept
<1> QED BY <1>2, <1>3, <1>4, <1>5 DEF WinInv

\* The windows are left alone.
LEMMA SameWindows ==
    ASSUME WinInv, UNCHANGED <<win, curidx, split, written, overlap>>,
           crt'.cells = crt.cells, crt'.pos = crt.pos,
           crt' \in [cells : Nat, pos : Nat, consflag : BOOLEAN]
    PROVE  WinInv'
<1>1. WinType' BY DEF WinInv, WinType
<1>2. InUse' BY DEF WinInv, InUse
<1>3. ~overlap' => OneSplits' BY DEF WinInv, OneSplits
<1>4. WindowsKept' BY DEF WinInv, WindowsKept
<1> QED BY <1>1, <1>2, <1>3, <1>4 DEF WinInv

\* One character is written, or some are erased, with the cursor never left of the
\* first cell.
LEMMA PutWindows ==
    ASSUME WinInv, NEW d \in Int, d = 1 \/ d < 0, Consputc(d), UNCHANGED <<win, curidx, split>>
    PROVE  WinInv'
<1>1. CASE crt.consflag
    <2>1. UNCHANGED <<crt, written, overlap>> BY <1>1 DEF Consputc
    <2> QED BY <2>1, SameWindows DEF WinInv, WinType
<1>2. CASE ~crt.consflag
    <2> DEFINE x == crt.pos
               y == crt.cells
               w == written[curidx]
               np == Max({x + d, 0})
               nw == Max({w + d, 0})
               nc == IF d > 0 THEN Max({y, np}) ELSE IF y = x THEN np ELSE y
    <2>1. WinType BY DEF WinInv
    <2>2. x \in Nat /\ y \in Nat /\ w \in Nat /\ curidx \in Windows BY <2>1 DEF WinType
    <2>3. /\ crt' = [crt EXCEPT !.pos = np, !.cells = nc]
          /\ written' = [written EXCEPT ![curidx] = nw]
          /\ overlap' = (overlap \/ \E p \in Procs : split[p].at # "out")
        BY <1>2 DEF Consputc, Cgaputc
    <2> HIDE DEF x, y, w
    <2>4. /\ np = IF x + d >= 0 THEN x + d ELSE 0
          /\ nw = IF w + d >= 0 THEN w + d ELSE 0
        <3>1. x + d \in Int /\ w + d \in Int /\ 0 \in Int BY <2>2
        <3> QED BY <3>1, MaxOfTwo
    <2>5. np \in Nat /\ nw \in Nat BY <2>2, <2>4
    <2> HIDE DEF np, nw
    <2>6. Max({y, np}) = IF y >= np THEN y ELSE np
        <3>1. y \in Int /\ np \in Int BY <2>2, <2>5
        <3> QED BY <3>1, MaxOfTwo
    <2>7. nc \in Nat BY <2>2, <2>5, <2>6
    <2>8. x = w /\ y = w => nc = nw /\ np = nw
        BY <2>2, <2>4, <2>5, <2>6
    <2> HIDE DEF nc
    <2>9. crt'.pos = np /\ crt'.cells = nc BY <2>1, <2>3 DEF WinType
    <2>10. /\ crt' \in [cells : Nat, pos : Nat, consflag : BOOLEAN]
           /\ written' \in [Windows -> Nat] /\ overlap' \in BOOLEAN
        BY <2>1, <2>2, <2>3, <2>5, <2>7 DEF WinType
    <2>11. WinType' BY <2>1, <2>10 DEF WinType
    <2>12. InUse' BY DEF WinInv, InUse
    <2>13. ASSUME ~overlap' PROVE OneSplits' /\ WindowsKept'
        <3>1. ~overlap /\ \A p \in Procs : split[p].at = "out" BY <2>1, <2>3, <2>13 DEF WinType
        <3>2. OneSplits /\ win[curidx].used BY <3>1 DEF WinInv, InUse
        <3>3. y = w /\ x = w BY <3>1 DEF WinInv, WindowsKept, x, y, w
        <3>4. crt'.pos = nw /\ crt'.cells = nw BY <2>8, <2>9, <3>3
        <3>5. written'[curidx] = nw /\ \A i \in Windows \ {curidx} : written'[i] = written[i]
            BY <2>1, <2>2, <2>3 DEF WinType
        <3>6. OneSplits' BY <3>1, <3>2, <3>5 DEF OneSplits
        <3>7. WindowsKept' BY <3>1, <3>4, <3>5 DEF WinInv, WindowsKept
        <3> QED BY <3>6, <3>7
    <2>14. overlap' => WindowsKept' BY DEF WindowsKept
    <2> QED BY <2>11, <2>12, <2>13, <2>14 DEF WinInv
<1> QED BY <1>1, <1>2

\* splitw() saves the window.
LEMMA SaveWindows ==
    ASSUME WinInv, NEW p \in Procs, NEW n \in Args, SplitSave(p, n)
    PROVE  WinInv'
<1> DEFINE free == {i \in Windows : ~win[i].used}
<1>1. WinType /\ InUse BY DEF WinInv
<1>2. /\ win' = [win EXCEPT ![curidx].cells = crt.cells, ![curidx].pos = crt.pos]
      /\ overlap' = (overlap \/ \E q \in Procs : split[q].at # "out")
      /\ crt' = crt /\ curidx' = curidx /\ written' = written
    BY DEF SplitSave
<1>3. PICK s \in [at : {"new", "switch", "astray"}, to : Windows] :
        /\ split' = [split EXCEPT ![p] = s]
        /\ s.at = "new" => ~win[s.to].used
        /\ s.at = "switch" => win[s.to].used
    <2>1. CASE n = -1 /\ free # {} /\ split' = [split EXCEPT ![p] = [at |-> "new", to |-> Min(free)]]
        <3>1. free \subseteq Nat BY ConsoleAssumption DEF Windows
        <3>2. Min(free) \in free
            <4> HIDE DEF free
            <4> QED BY <2>1, <3>1, MinOf
        <3>3. [at |-> "new", to |-> Min(free)] \in [at : {"new", "switch", "astray"}, to : Windows]
            BY <3>2
        <3> QED BY <2>1, <3>2, <3>3
    <2>2. CASE n \in Windows /\ win[n].used /\ split' = [split EXCEPT ![p] = [at |-> "switch", to |-> n]]
        <3>1. [at |-> "switch", to |-> n] \in [at : {"new", "switch", "astray"}, to : Windows]
            BY <2>2
        <3> QED BY <2>2, <3>1
    <2>3. CASE split' = [split EXCEPT ![p] = [at |-> "astray", to |-> 0]]
        <3>1. [at |-> "astray", to |-> 0] \in [at : {"new", "switch", "astray"}, to : Windows]
            BY ConsoleAssumption DEF Windows
        <3> QED BY <2>3, <3>1
    <2> QED BY <2>1, <2>2, <2>3 DEF SplitSave
<1>4. curidx \in Windows /\ crt.cells \in Nat /\ crt.pos \in Nat BY <1>1 DEF WinType
<1>5. /\ win' \in [Windows -> [used : BOOLEAN, cells : Nat, pos : Nat]]
      /\ \A i \in Windows : win'[i].used = win[i].used
      /\ win'[curidx].cells = crt.cells /\ win'[curidx].pos = crt.pos
      /\ \A i \in Windows \ {curidx} : win'[i] = win[i]
    <2> DEFINE rec == [win[curidx] EXCEPT !.cells = crt.cells, !.pos = crt.pos]
    <2>1. win \in [Windows -> [used : BOOLEAN, cells : Nat, pos : Nat]] BY <1>1 DEF WinType
    <2>2. win' = [win EXCEPT ![curidx] = rec] BY <1>2, <1>4, <2>1
    <2>3. /\ rec \in [used : BOOLEAN, cells : Nat, pos : Nat]
          /\ rec.used = win[curidx].used /\ rec.cells = crt.cells /\ rec.pos = crt.pos
        BY <1>4, <2>1
    <2> HIDE DEF rec
    <2> QED BY <1>4, <2>1, <2>2, <2>3
<1>6. /\ split' \in [Procs -> [at : {"out", "new", "switch", "astray"}, to : Windows]]
      /\ split'[p] = s /\ \A q \in Procs \ {p} : split'[q] = split[q]
    BY <1>1, <1>3 DEF WinType
<1>7. WinType' BY <1>1, <1>2, <1>5, <1>6 DEF WinType
<1>8. InUse'
    <2>1. ASSUME NEW q \in Procs, split'[q].at = "switch" PROVE win'[split'[q].to].used
        <3>1. split'[q].to \in Windows BY <1>6
        <3>2. CASE q = p BY <1>3, <1>5, <1>6, <2>1, <3>1, <3>2
        <3>3. CASE q # p BY <1>1, <1>5, <1>6, <2>1, <3>1, <3>3 DEF InUse
        <3> QED BY <3>2, <3>3
    <2>2. win'[curidx'].used BY <1>1, <1>2, <1>4, <1>5 DEF InUse
    <2> QED BY <2>1, <2>2 DEF InUse
<1>9. ASSUME ~overlap' PROVE OneSplits' /\ WindowsKept'
    <2>1. ~overlap /\ \A q \in Procs : split[q].at = "out" BY <1>1, <1>2, <1>9 DEF WinType
    <2>2. OneSplits BY <2>1 DEF WinInv
    <2>3. \A q \in Procs \ {p} : split'[q].at = "out" BY <1>6, <2>1
    <2>4. \A q \in Procs : split'[q].at = "new" => q = p /\ ~win'[split'[q].to].used
        BY <1>3, <1>5, <1>6, <2>3
    <2>5. \A i \in Windows : ~win'[i].used => written'[i] = 0 BY <1>2, <1>5, <2>2 DEF OneSplits
    <2>6. OneSplits' BY <1>2, <1>5, <2>3, <2>4, <2>5 DEF OneSplits
    <2>7. WindowsKept' BY <1>2, <1>5, <2>1 DEF WinInv, WindowsKept
    <2> QED BY <2>6, <2>7
<1>10. overlap' => WindowsKept' BY DEF WindowsKept
<1> QED BY <1>7, <1>8, <1>9, <1>10 DEF WinInv

\* splitw() shows the other window.
LEMMA ShowWindows == ASSUME WinInv, NEW p \in Procs, SplitShow(p) PROVE WinInv'
<1>1. WinType /\ InUse BY DEF WinInv
<1>2. PICK i \in Windows : i = split[p].to BY <1>1 DEF WinType
<1>3. /\ split[p].at \in {"new", "switch"} /\ curidx' = i /\ split' = [split EXCEPT ![p] = NoSplit]
      /\ written' = written /\ overlap' = overlap
    BY <1>2 DEF SplitShow
<1>4. 0 \in Windows BY ConsoleAssumption DEF Windows
<1>5. /\ split' \in [Procs -> [at : {"out", "new", "switch", "astray"}, to : Windows]]
      /\ split'[p].at = "out" /\ \A q \in Procs \ {p} : split'[q] = split[q]
    BY <1>1, <1>3, <1>4 DEF WinType, NoSplit
<1>6. CASE split[p].at = "new"
    <2>1. /\ crt' = [crt EXCEPT !.cells = 0, !.pos = 0]
          /\ win' = [win EXCEPT ![i].used = TRUE]
        BY <1>2, <1>6 DEF SplitShow
    <2>2. /\ crt' \in [cells : Nat, pos : Nat, consflag : BOOLEAN]
          /\ crt'.cells = 0 /\ crt'.pos = 0
        BY <1>1, <2>1 DEF WinType
    <2>3. /\ win' \in [Windows -> [used : BOOLEAN, cells : Nat, pos : Nat]]
          /\ win'[i].used /\ \A j \in Windows \ {i} : win'[j] = win[j]
        BY <1>1, <2>1 DEF WinType
    <2>4. WinType' BY <1>1, <1>3, <1>5, <2>2, <2>3 DEF WinType
    <2>5. InUse'
        <3>1. \A j \in Windows : win[j].used => win'[j].used BY <2>3
        <3>2. ASSUME NEW q \in Procs, split'[q].at = "switch" PROVE win'[split'[q].to].used
            <4>1. q # p BY <1>5, <3>2
            <4>2. split[q].at = "switch" /\ split'[q].to = split[q].to /\ split[q].to \in Windows
                BY <1>1, <1>5, <3>2, <4>1 DEF WinType
            <4> QED BY <1>1, <3>1, <4>2 DEF InUse
        <3> QED BY <1>3, <2>3, <3>2 DEF InUse
    <2>6. ASSUME ~overlap' PROVE OneSplits' /\ WindowsKept'
        <3>1. ~overlap /\ OneSplits BY <1>3, <2>6 DEF WinInv
        <3>2. ~win[i].used /\ win[curidx].cells = crt.cells /\ win[curidx].pos = crt.pos
            BY <1>2, <1>6, <3>1 DEF OneSplits
        <3>3. i # curidx BY <1>1, <3>2 DEF InUse
        <3>4. written[i] = 0 BY <3>1, <3>2 DEF OneSplits
        <3>5. \A q \in Procs : split'[q].at = "out" BY <1>3, <1>5, <3>1 DEF OneSplits
        <3>6. OneSplits' BY <1>3, <2>3, <3>1, <3>5 DEF OneSplits
        <3>7. \A j \in Windows : win[j].used => win[j].cells = written[j] /\ win[j].pos = written[j]
            BY <3>1, <3>2 DEF WinInv, WindowsKept
        <3>8. WindowsKept' BY <1>3, <2>2, <2>3, <3>4, <3>7 DEF WindowsKept
        <3> QED BY <3>6, <3>8
    <2>7. overlap' => WindowsKept' BY DEF WindowsKept
    <2> QED BY <2>4, <2>5, <2>6, <2>7 DEF WinInv
<1>7. CASE split[p].at = "switch"
    <2>1. crt' = [crt EXCEPT !.cells = win[i].cells, !.pos = win[i].pos] /\ win' = win
        BY <1>2, <1>7 DEF SplitShow
    <2>2. /\ crt' \in [cells : Nat, pos : Nat, consflag : BOOLEAN]
          /\ crt'.cells = win[i].cells /\ crt'.pos = win[i].pos
        BY <1>1, <2>1 DEF WinType
    <2>3. WinType' BY <1>1, <1>3, <1>5, <2>1, <2>2 DEF WinType
    <2>4. win[i].used BY <1>1, <1>2, <1>7 DEF InUse
    <2>5. InUse' BY <1>1, <1>3, <1>5, <2>1, <2>4 DEF InUse
    <2>6. ASSUME ~overlap' PROVE OneSplits' /\ WindowsKept'
        <3>1. ~overlap /\ OneSplits BY <1>3, <2>6 DEF WinInv
        <3>2. win[curidx].cells = crt.cells /\ win[curidx].pos = crt.pos
            BY <1>3, <3>1 DEF OneSplits
        <3>5. \A q \in Procs : split'[q].at = "out" BY <1>3, <1>5, <3>1 DEF OneSplits
        <3>6. OneSplits' BY <1>3, <2>1, <3>1, <3>5 DEF OneSplits
        <3>7. \A j \in Windows : win[j].used => win[j].cells = written[j] /\ win[j].pos = written[j]
            BY <3>1, <3>2 DEF WinInv, WindowsKept
        <3>8. WindowsKept' BY <1>3, <2>1, <2>2, <2>4, <3>7 DEF WindowsKept
        <3> QED BY <3>6, <3>8
    <2>7. overlap' => WindowsKept' BY DEF WindowsKept
    <2> QED BY <2>3, <2>5, <2>6, <2>7 DEF WinInv
<1> QED BY <1>1, <1>3, <1>6, <1>7 DEF WinType

LEMMA WinStep == ASSUME RingInv, WinInv, [Next]_vars PROVE WinInv'
<1>1. crt \in [cells : Nat, pos : Nat, consflag : BOOLEAN] BY DEF WinInv, WinType
<1>2. CASE UNCHANGED vars
    <2>1. UNCHANGED <<win, curidx, split, written, overlap, crt>> BY <1>2 DEF vars
    <2> QED BY <1>1, <2>1, SameWindows
<1>3. ASSUME NEW c \in Keys, Key(c) PROVE WinInv'
    <2>1. Consputc(1) /\ UNCHANGED <<win, curidx, split>> BY <1>3 DEF Key
    <2>2. 1 \in Int OBVIOUS
    <2> QED BY <2>1, <2>2, PutWindows
<1>4. CASE Backspace
    <2>1. Consputc(-1) /\ UNCHANGED <<win, curidx, split>> BY <1>4 DEF Backspace
    <2>2. -1 \in Int /\ -1 < 0 OBVIOUS
    <2> QED BY <2>1, <2>2, PutWindows
<1>5. CASE KillLine
    <2>1. PICK b \in 0..INPUT_BUF : \E a \in 0..b : \E n \in 1..b - a : Consputc(-n)
        BY <1>5, KillWidth
    <2>2. PICK a \in 0..b : \E n \in 1..b - a : Consputc(-n) BY <2>1
    <2>3. PICK n \in 1..b - a : Consputc(-n) BY <2>2
    <2>4. -n \in Int /\ -n < 0 OBVIOUS
    <2>5. UNCHANGED <<win, curidx, split>> BY <1>5 DEF KillLine
    <2> QED BY <2>3, <2>4, <2>5, PutWindows
<1>6. ASSUME NEW flag \in BOOLEAN, Att(flag) PROVE WinInv'
    <2>1. UNCHANGED <<win, curidx, split, written, overlap>> /\ crt' = [crt EXCEPT !.consflag = flag]
        BY <1>6 DEF Att
    <2>2. /\ crt'.cells = crt.cells /\ crt'.pos = crt.pos
          /\ crt' \in [cells : Nat, pos : Nat, consflag : BOOLEAN]
        BY <1>1, <2>1
    <2> QED BY <2>1, <2>2, SameWindows
<1>7. ASSUME NEW p \in Procs, Consolewrite(p) PROVE WinInv'
    <2>1. Consputc(1) /\ UNCHANGED <<win, curidx, split>> BY <1>7 DEF Consolewrite
    <2>2. 1 \in Int OBVIOUS
    <2> QED BY <2>1, <2>2, PutWindows
<1>8. ASSUME NEW p \in Procs, SplitShow(p) PROVE WinInv' BY <1>8, ShowWindows
<1>9. ASSUME NEW p \in Procs, NEW n \in Args, SplitSave(p, n) PROVE WinInv'
    BY <1>9, SaveWindows
<1>10. ASSUME NEW p \in Procs, ReadLoop(p) \/ Sleep(p) \/ Kill(p) \/ \E n \in Sizes : Consoleread(p, n)
       PROVE  WinInv'
    <2>1. UNCHANGED <<win, curidx, split, written, overlap, crt>>
        BY <1>10 DEF ReadLoop, Sleep, Kill, Consoleread
    <2> QED BY <1>1, <2>1, SameWindows
<1> QED BY <1>2, <1>3, <1>4, <1>5, <1>6, <1>7, <1>8, <1>9, <1>10 DEF Next, Step, Kernel

\* What each window shows and how many processes are in splitw(): see OneSplits.
THEOREM WinInvariance == Spec => []WinInv
<1>1. Init => WinInv BY WinInit
<1>2. RingInv /\ WinInv /\ [Next]_vars => WinInv' BY WinStep
<1> QED BY <1>1, <1>2, RingInvariance, PTL DEF Spec

\* splitw() loses nothing that was written to a window, nor its cursor, for any
\* number of windows and processes, as long as nobody uses the screen within it.
THEOREM WindowsAreKept == Spec => []WindowsKept
<1>1. WinInv => WindowsKept BY DEF WinInv
<1> QED BY <1>1, WinInvariance, PTL
=============================================================================
